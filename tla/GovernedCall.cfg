SPECIFICATION Spec
SYMMETRY ThreadSymmetry
CONSTANTS
    c1 = c1
    c2 = c2
    c3 = c3
    s1 = s1
    s2 = s2
    cli = cli
    Server = Server
    Cli = Cli
    n1 = n1
    n2 = n2
    h1 = h1
    h2 = h2
    w1 = w1
    NoCall = NoCall
    NoThread = NoThread
    NoBook = NoBook
    NoHost = NoHost
    Omitted = Omitted
    Calls <- TwoCalls
    Threads <- OfThree
    Procs <- MCProcs
    Clis <- MCClis
    Names <- MCNames
    Hosts <- MCHosts
    Literals <- MCLiterals
    Wizards = {}
    FirstBooks <- UpToTwo
    ProcOf <- MCProcOf
    Asks <- PlainAsks
    Lost <- AllLost
    Stops <- BothStops
    Reporting = {}
    Captures = TRUE
    EtagsServed = TRUE
    AtOnce = 2
    MaxMoves = 1
    Size = 2
    MaxEdits = 0
INVARIANTS
    PriorIsOwn
    VerdictsAgree
    NoSelfLockout
    PreviewsAgree
