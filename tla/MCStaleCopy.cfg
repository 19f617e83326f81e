SPECIFICATION Spec
CONSTANTS
    Vectors = {13}
    SoftInts <- MCSoftInts
    Points <- MCPoints
    Paging = TRUE
    NoPoint = NoPoint
    WordMax = 1000
    Image <- MCImage
    MODE = 2
    LOOP = 1
    NTests = 2
    Params <- MCParams
    FaultSegs <- PreSegs
    FaultOps <- NoStores
INVARIANTS
    LHoldsPreviousR
CHECK_DEADLOCK FALSE
