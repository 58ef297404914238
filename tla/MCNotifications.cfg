CONSTANTS
    Threads = {t1, t2}
    MaxWaits = 3
    MaxWakes = 4
    Waiters = {a, b, c}
    Stoppable = {b, c}
    Bridged = {d, e}
SPECIFICATION AllFair
INVARIANTS
    OneWinner
    NothingReachesDeadWaker
    EventWaiterInOnePlace
    HandedOnce
PROPERTIES
    WaitsEnd
    ImplementsWakerSpec
    OutsideWaitEnds
CHECK_DEADLOCK FALSE
