SPECIFICATION Spec
CONSTANTS
    Vectors = {0, 13}
    SoftInts <- MCSoftInts
    Points <- MCPoints
    Paging = TRUE
    NoPoint = NoPoint
    WordMax = 1000
    Image <- MCImage
    MODE = 1
    LOOP = 1
    NTests = 3
    Params <- MCParams
    FaultSegs <- ButRevert
    FaultOps <- NoStores
INVARIANTS
    ParamsUndone
CHECK_DEADLOCK FALSE
