CONSTANTS
    Procs = {p1, p2}
    Writes = {w1}
    Reads = {r1}
    NoProc = NoProc
    Free = Free
    RowLimit = 1
    MaxArchives = 0
    Replies = {"confirmed", "refused", "interrupted"}
    Concurrency = 2
    MaxFaults = 1
    MaxCrashes = 1
SPECIFICATION FairSpec
INVARIANTS
    LedgerInv
    ErrorMeansUntouched
PROPERTIES
    CallsEnd
    ImplementsLedger
