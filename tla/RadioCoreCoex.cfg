SPECIFICATION FairSpec
CONSTANTS
    NBuf = 2
    PrioLevels <- NoListening
    CcaDone = TRUE
    EdIter = 1
    EdTimes = {2}
PROPERTIES
    OperationsEnd
