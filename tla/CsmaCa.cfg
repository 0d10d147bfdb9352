SPECIFICATION FairSpec
CONSTANTS
    MinBeValues <- SomeMinBe
    MaxBeValues <- SomeMaxBe
    BackoffsValues <- SomeBackoffs
    CoexModes <- SomeModes
    Bsim = FALSE
INVARIANTS
    AssertsHold
    FrameAccounted
    AttemptsBounded
PROPERTIES
    RetryDiscipline
    ProcedureEnds
