CONSTANTS
    None = None
    Threads = {t1, t2}
    Conts = {c1, c2}
    DropRace = FALSE
SPECIFICATION Spec
INVARIANT RunningInThisThread
CHECK_DEADLOCK FALSE
