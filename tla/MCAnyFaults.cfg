SPECIFICATION FairSpec
CONSTANTS
    Vectors = {0, 10}
    SoftInts <- MCSoftInts
    Points <- MCPoints
    Paging = TRUE
    NoPoint = NoPoint
    WordMax = 1000
    Image <- MCImage
    MODE = 3
    LOOP = 2
    NTests = 2
    Params <- MCParams
    FaultSegs <- AllSegs
    FaultOps <- NoStores
INVARIANTS
    ReturnPointAhead
PROPERTIES
    OnlyLoopGoesBack
    Terminates
CHECK_DEADLOCK FALSE
