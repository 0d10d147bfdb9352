SPECIFICATION Spec
CONSTANTS
    Frames = {f1, f2}
    Timeouts = {1}
    MAX_RETRY_DELAY = 4
    MaxRefusals = 2
    SlowIsr = TRUE
    noFrame = noFrame
INVARIANTS
    AwaitedAckIsTimed
