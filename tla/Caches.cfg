SPECIFICATION CachesSpec
CONSTANTS
    Keys = {k1, k2}
    Values = {v1, v2}
    None = None
    Ttls <- MCTtls
    MaxTime = 3
    Callers = {c1, c2}
    Cleanup = TRUE
INVARIANTS
    DisposeOnce
PROPERTIES
    KeepsContract
    RedisKeepsContract
