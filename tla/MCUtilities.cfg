SPECIFICATION MCSpec
CONSTANTS
    t1 = t1
    buckets_ = 3
    tickMs_ = 2
    Delays = {2, 7}
    Intervals = {2}
    Threads = {t1}
    MaxTimers = 2
    MaxTime = 9
    MaxLate = 1
    LongDelays = {0, 1, 2, 3, 4, 5, 6, 7, 8}
    LongIntervals = {1, 2, 3, 4, 5, 6, 7}
    LongTime = 26
    u1 = u1
    u2 = u2
    u3 = u3
    Users = {u1, u2, u3}
    Kinds = {"tcp", "mysql", "redis"}
    minSize = 1
    maxSize = 2
    MaxAcquires = 2
    MaxLosses = 1
    Objects = {1, 2, 3}
    initialSize = 1
    c1 = c1
    c2 = c2
    c3 = c3
    Callers = {c1, c2, c3}
    failureThreshold = 2
    successThreshold = 2
    timeoutMs = 2
    burst = 2
    perToken = 2
    maxRequests = 2
    windowMs = 3
    MaxClock = 7
    maxWorkerId = 1
    maxSequence = 1
    maxRollback = 1
    WallReadings = {0, 1, 2}
    MaxIds = 3
    Clients = {c1, c2, c3}
    MaxLocks = 4
    Addresses = {"a", "b"}
    Weights = {1, 2}
    Positions = {0, 1, 2, 3}
    VirtualNodes = {0, 1}
    MaxAdds = 3
    MaxSelects = 5
    Keys = {"k1", "k2"}
    Values = {1, 2}
    MaxLeases = 2
INVARIANTS
    TimersConsistent
    
    SlotsKept
    
    ObjectsConserved
    RateBounded
    UniqueIds
    LockExclusive
    BalanceFair
    
PROPERTY
    BreakerSound
CHECK_DEADLOCK FALSE
