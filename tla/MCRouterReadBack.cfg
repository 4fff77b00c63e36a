CONSTANTS
    Deadline = 17
    WaitMs = 12
    LastTime = 20
SPECIFICATION RouterSpec
INVARIANT NoEffectIsTrue
CHECK_DEADLOCK FALSE
