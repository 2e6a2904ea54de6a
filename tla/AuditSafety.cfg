CONSTANTS
    Procs = {p1, p2}
    Writes = {w1, w2}
    Reads = {r1}
    NoProc = NoProc
    Free = Free
    RowLimit = 1
    MaxArchives = 1
    Replies = {"confirmed", "refused", "lost"}
    Concurrency = 1
    MaxFaults = 1
    MaxCrashes = 1
SYMMETRY Symmetry
SPECIFICATION Spec
INVARIANTS
    IntentsStayVisible
    EffectsOnRecord
    FailClosed
    OkMeansApplied
PROPERTIES
    ResolvedByItsCall
