SPECIFICATION FairSpec
CONSTANTS
    b1 = b1
    b2 = b2
    get = get
    get2 = get2
    get3 = get3
    post = post
    t1 = t1
    t2 = t2
    Keys = {get, get2, post}
    GetKeys = {get, get2}
    HashOf <- MCHashOf
    Threads = {t1}
    Ptrs <- MCPtrs
    Ring <- MCRing
    NoBackend = NoBackend
    Routes <- MCUncachedRoutes
    Conditions = {"up", "failing", "unreachable", "refusing", "silent"}
    UnhealthyThreshold = 2
    HealthyThreshold = 2
    Responses <- MCResponses
    MaxEntries = 2
    MaxMemory = 2
    DefaultTtl = 1
    StaleWhileRevalidate = 1
    HasCallback = TRUE
    CacheTtl = 1
    MaxRetries <- MCMaxRetries
    MaxRequests <- MCMaxRequests
    MaxEvents <- MCMaxEvents
PROPERTIES
    RequestsReturn
    RecoveredIsUsed
CHECK_DEADLOCK FALSE
