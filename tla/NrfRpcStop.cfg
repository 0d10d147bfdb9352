SPECIFICATION Spec
CONSTANTS
    A = A
    B = B
    appA = appA
    appA2 = appA2
    appB = appB
    poolA = poolA
    poolB = poolB
    poolB2 = poolB2
    Peers <- MCPeers
    AppThreads <- OnlyACalls
    PoolThreads <- OnePool
    Ctxs = {0, 1}
    AutoFree = {FALSE}
    MaxCalls = 2
    MaxEvts = 0
    MaxDepth = 1
    Timeouts = TRUE
    SendErrors = TRUE
    MaxStops = 1
    NoOne = NoOne
    Stopper = Stopper
    Unknown = Unknown
INVARIANTS
    ContextAccounting
