CONSTANTS
    x = x
    y = y
    z = z
    N = 3
    Executors = {x, y, z}
    Layouts <- MCLayouts
    MaxDepth = 2
    MaxOps = 7
SPECIFICATION FairSpec
INVARIANTS
    NeverTerminates
    NothingDangles
    ReportedOnce
    WaitsForTheEnd
PROPERTY ChainEnds
CHECK_DEADLOCK FALSE
