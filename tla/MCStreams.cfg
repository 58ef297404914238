CONSTANTS
    None = None
    a = a
    b = b
    Readers = {a, b}
    Directs <- MCDirects
    MaxSend = 2
    Stoppable = {b}
    Needs = {1, 3}
    Sizes <- MCSizes
    MaxRead <- MCMaxRead
    WriteSizes <- MCSizes
    MaxWrite = 1
    Ops <- MCOps
SPECIFICATION FairSpec
INVARIANTS
    BytesAreReported
    NoDanglingRead
PROPERTIES
    ParkedReadEnds
    ArmedCovers
CHECK_DEADLOCK FALSE
