SPECIFICATION Spec
CONSTANTS
    Vectors = {0, 10, 13}
    SoftInts <- MCSoftInts
    Points <- MCPoints
    Paging = TRUE
    NoPoint = NoPoint
    WordMax = 1000
    Image <- MCImage
    MODE = 3
    LOOP = 2
    NTests = 2
    Params <- MCParams
    FaultSegs <- MCFaultSegs
    FaultOps <- MCFaultOps
    Phase <- MCPhase
    Held <- MCHeld
INVARIANTS
    OutcomesKept
    LHoldsPreviousR
    OperandsRestored
    ParamsUndone
    FixedRuns
    LoopExhausted
CHECK_DEADLOCK FALSE
