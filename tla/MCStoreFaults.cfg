SPECIFICATION Spec
CONSTANTS
    Vectors = {5, 13}
    SoftInts <- MCSoftInts
    Points <- MCPoints
    Paging = TRUE
    NoPoint = NoPoint
    WordMax = 1000
    Image <- MCImage
    MODE = 3
    LOOP = 2
    NTests = 2
    Params <- MCParams
    FaultSegs <- AllSegs
    FaultOps <- AllOps
INVARIANTS
    InsnPrepared
    WildOnlyAtStart
CHECK_DEADLOCK FALSE
