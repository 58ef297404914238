CONSTANTS
    None = None
    Waiters = {a, b}
    Stoppable = {b}
    Quitters = {b}
SPECIFICATION Spec
INVARIANT StoppedQuitterReleases
CHECK_DEADLOCK FALSE
