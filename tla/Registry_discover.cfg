SPECIFICATION RegistrySpec
CONSTANTS
    Clients = {c1}
    ttl = 0
    MaxLate = 1
    MaxCalls = 3
    MaxRestarts = 1
INVARIANT
    DiscoverAnswers
CHECK_DEADLOCK FALSE
