CONSTANTS
    None = None
    Threads = {t1, t2}
    Conts = {c1, c2}
    DropRace = TRUE
SPECIFICATION Spec
INVARIANT ImplOutlivesShutdown
CHECK_DEADLOCK FALSE
