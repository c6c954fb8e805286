SPECIFICATION Spec
CONSTANTS
    MaxColumns = 1
    MaxCells = 2
    NROWMAX = 4
    NHEAD = 1
    NTAIL = 2
INVARIANT
    DeallocatedBeforeReturning
