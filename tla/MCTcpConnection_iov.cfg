SPECIFICATION MCSpec
CONSTANTS
    t1 = t1
    Threads = {t1}
    MaxLen = 3
    MaxFiles = 0
    MaxCalls = 1
    MaxFileCalls = 0
    kMaxIov = 2
    HighWater = 2
    AppShutdown = {}
    Modes = {"bytes"}
INVARIANT
    StreamIntact
