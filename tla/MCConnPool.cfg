SPECIFICATION PoolFairSpec
CONSTANTS
    PoolSize = 2
    Ttl = 2
    Callers = {c1, c2}
    Refills = {r1, r2}
INVARIANTS
    OvershootBounded
PROPERTIES
    ServedFresh
    RefilledAgain
CHECK_DEADLOCK FALSE
