SPECIFICATION FairSpec
CONSTANTS
    MaxColumns = 3
    MaxCells = 5
    NROWMAX = 4
    NHEAD = 1
    NTAIL = 2
INVARIANTS
    ResultInv
    StructComplete
    PrintsHeadAndTail
    RowsSuffice
    ReleasedUnlessSpoilt
PROPERTY
    Returns
