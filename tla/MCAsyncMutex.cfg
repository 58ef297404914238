CONSTANTS
    None = None
    Waiters = {a, b, c, d}
    Stoppable = {c, d}
    Quitters = {d}
SPECIFICATION FairSpec
INVARIANTS
    LockIsOwned
    WaiterInOnePlace
PROPERTIES
    FirstInFirstOut
    EveryWaiterSettles
CHECK_DEADLOCK FALSE
