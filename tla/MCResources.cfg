CONSTANTS
    a = a
    b = b
    c = c
    d = d
    None = None
    Callers = {t1, t2}
    Owner = t1
    Types = {a, b, c, d}
    Key <- MCKey
    Needs <- MCNeeds
    Hook <- MCHook
    Last <- MCLast
    Made <- MCMade
    MaxCalls = 3
    Threads = {t1, t2}
    Blocks = {b1, b2, b3, b4}
    Sizes = {64, 65, 2048, 2049}
    bucket_capacity = 2
SPECIFICATION FairSpec
INVARIANTS
    OneServicePerType
    ShutDownInOrder
    BlockInOnePlace
    NothingOutlivesThread
PROPERTY ContextIsDestroyed
CHECK_DEADLOCK FALSE
