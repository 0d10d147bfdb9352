SPECIFICATION FairSpec
CONSTANTS
    A = A
    B = B
    appA = appA
    appA2 = appA2
    appB = appB
    poolA = poolA
    poolB = poolB
    poolB2 = poolB2
    Peers <- MCPeers
    AppThreads <- OnlyACalls
    PoolThreads <- TwoPoolB
    Ctxs = {0, 1}
    AutoFree = {TRUE}
    MaxCalls = 2
    MaxEvts = 1
    MaxDepth = 3
    Timeouts = FALSE
    SendErrors = FALSE
    MaxStops = 0
    NoOne = NoOne
    Stopper = Stopper
    Unknown = Unknown
PROPERTIES
    CommandsReturn
    EventsAcked
CHECK_DEADLOCK FALSE
