SPECIFICATION Spec
CONSTANTS
    Calls = {c1, c2, c3}
    Names = {n1, n2}
    Others = Others
    Nobody = Nobody
    PageSize = 2
    Limits = {0, 3}
    DefaultLimit = 9
    MaxLimit = 4
    MaxShots = 4
    MaxDrift = 1
INVARIANTS
    TasksInv
    QuietListsAreExact
    NothingSkipped
    UndoKeepsToItsName
    PreviewsKeepTheirPromise
CONSTRAINTS Apart OneList LongListsAlone
SYMMETRY Symmetry
CHECK_DEADLOCK FALSE
