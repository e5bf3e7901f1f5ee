SPECIFICATION MCSpec
CONSTANTS
    owner = owner
    u1 = u1
    Threads = {owner, u1}
    MaxFunctors = 3
    MaxQuits = 1
    s1 = s1
    s2 = s2
    Submitters = {s1, s2}
    Keys = {1}
    numThreads = 2
    maxQueueDepth = 2
    MaxTasks = 2
    MaxStarts = 2
    kFlushThreshold = 2
    MaxEntries = 3
    MaxLogStarts = 2
INVARIANTS
    ExecutionOrder
    NoLostWakeup
    LoopOutlivesUse
    PoolOrdered
    LogComplete
PROPERTIES
    ImplementsExecutor
    ThreadsProgress
