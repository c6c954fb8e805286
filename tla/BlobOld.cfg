SPECIFICATION Spec
CONSTANTS
    Depth = 2
    MaxElements = 2
    Matrices <- MCMatrices
    Vectors <- MCVectors
    Files <- MCFiles
    IntLimit = 4
    OldBlobs = TRUE
    use32 = TRUE
INVARIANT
    RoundTrip
