SPECIFICATION Spec
CONSTANTS
    t1 = t1
    Threads = {t1}
    MaxLen = 1
    MaxFiles = 0
    MaxCalls = 2
    kMaxIov = 2
    HighWater = 2
    AppShutdown = {t1}
INVARIANT
    FreedIsUnregistered
