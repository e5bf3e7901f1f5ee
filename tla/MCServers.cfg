SPECIFICATION MCSpec
CONSTANTS
    c1 = c1
    c2 = c2
    c3 = c3
    f1 = f1
    f2 = f2
    NoChannel = NoChannel
    Channels = {c1, c2, c3}
    Fds = {f1, f2}
    fdOf <- MCFdOf
    Conns = {c1, c2}
    PoolSizes = {0, 1, 2}
    Clients = {c1}
    ttl = 0
    MaxLate = 1
    MaxCalls = 3
    MaxRestarts = 1
INVARIANTS
    ViewsAgree
    NoDanglingPointer
    NoDanglingChannel
    LifecycleComplete
    
PROPERTIES
    ServerProgress
    NoSilentExpiry
    RegistryProgress
