SPECIFICATION MCSpec
CONSTANTS
    t1 = t1
    Threads = {t1}
    MaxLen = 2
    MaxFiles = 2
    MaxCalls = 3
    MaxFileCalls = 2
    kMaxIov = 2
    HighWater = 2
    AppShutdown = {t1}
    Modes = {"bytes", "files"}
INVARIANTS
    OutputIntact
    TornDownCleanly
    BacklogServed
    NoFdLeak
PROPERTIES
    WriteCompleteWhenDrained
    ConnectionProgress
