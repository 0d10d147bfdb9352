SPECIFICATION Spec
CONSTANTS
    op = op
    buf = buf
    Kinds <- SomeKinds
    SECONDARY_POOL_SIZE = 1
    ReqQueueSize = 2
    FlushEnabled = TRUE
    SleepResults <- Sleeps
    Nesting = 2
    Reissue = TRUE
INVARIANT AssertsHold
