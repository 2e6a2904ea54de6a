SPECIFICATION Spec
CONSTANTS
    n1 = n1
    n2 = n2
    v1 = v1
    Procs = {p1, p2, p3}
    Names = {n1, n2}
    Values = {v1}
    Passwords = {w1, w2}
    Absent = Absent
    Missing = Missing
    Empty = Empty
    Torn = Torn
    Legacy <- MCLegacy
INVARIANTS
    StoreInv
    LegacyOnlyWithoutSecret
PROPERTIES
    ChangesAreAsked
    MigrationComplete
CONSTRAINT OneReader
SYMMETRY Symmetry
CHECK_DEADLOCK FALSE
