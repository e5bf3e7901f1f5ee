SPECIFICATION MCSpec
CONSTANTS
    Fds = {1, 2, 3, 4}
    InitDelay = 1
    MaxDelay = 3
    MaxConnects = 1
    MaxStops = 2
    p1 = p1
    p2 = p2
    HttpCallers = {p1, p2}
    MaxRequests = 3
    MaxReconnects = 1
    RpcCallers = {p1, p2}
    MaxRpcs = 3
    MaxBreaks = 1
    Messages = {1, 2, 3}
    MaxSessions = 3
    HttpStreams <- MCHttpStreams
    PbStreams <- MCPbStreams
    kMaxRequestLine = 2
    kMaxBodySize = 2
    t1 = t1
    t2 = t2
    Threads = {t1, t2}
    MaxFrames = 1
    MaxRounds = 2
    Opcodes = {1, 8}
    PayloadLens = {0, 1, 125, 126, 127, 65535, 65536, 70000}
    kCheapPrepend = 2
    kInitialSize = 3
    ExtraSize = 3
    MaxBytes = 9
INVARIANTS
    
    ResponsesMatched
    
    
    
    CodecExact
    BufferHoldsStream
PROPERTY
    ProtocolProgress
CHECK_DEADLOCK FALSE
