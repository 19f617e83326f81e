SPECIFICATION HSpec
CONSTANTS
    Vectors = {0, 12, 15}
    SoftInts <- MCSoftInts
    Points <- MCPoints
    Paging = TRUE
    NoPoint = NoPoint
    WordMax = 1000
INVARIANTS
    RecordsVector
CHECK_DEADLOCK FALSE
