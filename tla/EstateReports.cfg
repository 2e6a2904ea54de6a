SPECIFICATION Spec
SYMMETRY Symmetry
CONSTANTS
    k1 = k1
    k2 = k2
    a1 = a1
    a2 = a2
    b1 = b1
    box = box
    None = None
    Clusters <- MCClusters
    Nodes <- MCNodes
    Boxes <- MCBoxes
    FirstHomes <- MCFirstHomes
    Counted <- MCCounted
    Levels <- MCLevels
    Rounded <- MCRounded
    Limit = 2
    MaxRows = 3
    MaxChanges = 1
INVARIANTS
    QuietReportsAreExact
    FindingsWereTrue
    OverviewIsHonest
