SPECIFICATION Spec
CONSTANTS
    NBuf = 2
    PrioLevels <- EveryPriority
    CcaDone = FALSE
    EdIter = 1
    EdTimes = {2}
INVARIANTS
    TransmitOutcomeOnce
    OperationConsistent
    BuffersConsistent
    ClientPresent
PROPERTIES
    AckedFrameDelivered
