SPECIFICATION Spec
CONSTANTS
    A = A
    B = B
    appA = appA
    appA2 = appA2
    appB = appB
    poolA = poolA
    poolB = poolB
    poolB2 = poolB2
    Peers <- MCPeers
    AppThreads <- BothCall
    PoolThreads <- OnePool
    Ctxs = {0, 1}
    AutoFree = {TRUE, FALSE}
    MaxCalls = 3
    MaxEvts = 0
    MaxDepth = 3
    Timeouts = FALSE
    SendErrors = TRUE
    MaxStops = 0
    NoOne = NoOne
    Stopper = Stopper
    Unknown = Unknown
INVARIANTS
    RoutedToInitiator
    ContextsConsistent
PROPERTIES
    OneMessageAtATime
