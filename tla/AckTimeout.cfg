SPECIFICATION FairSpec
CONSTANTS
    Frames = {f1, f2}
    Timeouts = {1, 2}
    MAX_RETRY_DELAY = 4
    MaxRefusals = 2
    SlowIsr = FALSE
    noFrame = noFrame
INVARIANTS
    AssertsHold
    ProcedureMatchesWait
PROPERTIES
    AckWaitEnds
