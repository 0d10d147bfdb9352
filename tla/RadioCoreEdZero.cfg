SPECIFICATION Spec
CONSTANTS
    NBuf = 1
    PrioLevels <- AllOrNothing
    CcaDone = FALSE
    EdIter = 1
    EdTimes = {1}
INVARIANT
    EdIterations
