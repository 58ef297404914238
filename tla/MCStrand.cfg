CONSTANTS
    None = None
    Threads = {t1, t2}
    Conts = {c1, c2, c3}
    DropRace = FALSE
SPECIFICATION FairSpec
INVARIANTS
    MutualExclusion
    QueueHasOneOwner
    ShutdownIsFinal
PROPERTIES
    ImplementsSerialExecutor
    EveryCallSettled
CHECK_DEADLOCK FALSE
