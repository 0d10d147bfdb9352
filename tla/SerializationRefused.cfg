SPECIFICATION Spec
CONSTANTS
    t1 = t1
    t2 = t2
    f1 = f1
    f2 = f2
    Threads <- TwoThreads
    Frames <- TwoFrames
    TX_BUFFERS = 2
    RX_BUFFERS = 2
    HostPreempted = FALSE
    Refusals = TRUE
    LateResponses = FALSE
    none = none
INVARIANT HandleReleased
