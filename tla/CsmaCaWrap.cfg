SPECIFICATION Spec
CONSTANTS
    MinBeValues = {}
    MaxBeValues = {}
    BackoffsValues <- LargestUint8
    CoexModes = {}
    Bsim = FALSE
INVARIANTS
    AttemptsBounded
