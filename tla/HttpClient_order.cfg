SPECIFICATION HttpSpec
CONSTANTS
    p1 = p1
    p2 = p2
    HttpCallers = {p1, p2}
    MaxRequests = 3
    MaxReconnects = 1
INVARIANT
    OwnResponse
CHECK_DEADLOCK FALSE
