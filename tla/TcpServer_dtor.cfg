SPECIFICATION ServerSpec
CONSTANTS
    c1 = c1
    Conns = {c1}
    PoolSizes = {1}
INVARIANT
    AllDestroyed
