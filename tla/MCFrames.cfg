CONSTANTS
    Nil = Nil
    Threads = {t1, t2}
    Chains = {p, q}
    Owning = {p}
    MaxDepth = 3
    MaxLevels = 2
    MaxOps = 4
SPECIFICATION Spec
INVARIANTS
    AllocatorIsTheChains
    FramesCanBeFreed
    StopIsHeeded
SYMMETRY ThreadSymmetry
CHECK_DEADLOCK FALSE
