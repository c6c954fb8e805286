SPECIFICATION Spec
CONSTANTS
    Depth = 1
    MaxElements = 1
    Matrices <- MCMatrices
    Vectors <- MCVectors
    Files <- MCFiles
    IntLimit = 4
    OldBlobs = FALSE
    use32 = FALSE
INVARIANT
    StructSurvives
