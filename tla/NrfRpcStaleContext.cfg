SPECIFICATION Spec
CONSTANTS
    A = A
    B = B
    appA = appA
    appA2 = appA2
    appB = appB
    poolA = poolA
    poolB = poolB
    poolB2 = poolB2
    Peers <- MCPeers
    AppThreads <- BothCall
    PoolThreads <- OnePool
    Ctxs = {0, 1}
    AutoFree = {TRUE}
    MaxCalls = 2
    MaxEvts = 0
    MaxDepth = 3
    Timeouts = TRUE
    SendErrors = FALSE
    MaxStops = 0
    NoOne = NoOne
    Stopper = Stopper
    Unknown = Unknown
INVARIANTS
    FreeSlotEmpty
CHECK_DEADLOCK FALSE
