CONSTANTS
    None = None
    Workers = {w1, w2}
    Clients = {k1, k2}
    Services = {k2}
    Owner = owner
    Conts = {c1, c2}
    MaxThrows = 1
SPECIFICATION FairSpec
INVARIANTS
    NoUseAfterDelete
    WorkIsSettled
PROPERTIES
    PoolMovesOn
