SPECIFICATION FairSpec
CONSTANTS
    i1 = i1
    i2 = i2
    i3 = i3
    Ids <- TwoIds
    INVALID = INVALID
    DTX = DTX
    DRX_SLOTS = 2
    Reinit = TRUE
INVARIANTS
    AssertsHold
    OutcomeOnce
    SlotsConsistent
PROPERTIES
    OperationsEnd
