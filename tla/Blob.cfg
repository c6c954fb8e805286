SPECIFICATION Spec
CONSTANTS
    Depth = 2
    MaxElements = 2
    Matrices <- MCMatrices
    Vectors <- MCVectors
    Files <- MCFiles
    IntLimit = 4
    OldBlobs = FALSE
    use32 = FALSE
INVARIANTS
    RoundTrip
    ExactlyAllocated
    BytesSurvive
