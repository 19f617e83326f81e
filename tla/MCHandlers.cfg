SPECIFICATION HSpec
CONSTANTS
    Vectors <- MCVectors
    SoftInts <- MCSoftInts
    Points <- MCPoints
    Paging = TRUE
    NoPoint = NoPoint
    WordMax = 1000
INVARIANTS
    StackBalanced
    CountedBound
CHECK_DEADLOCK FALSE
