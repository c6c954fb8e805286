SPECIFICATION Spec
CONSTANTS
    MATLAB = {m1, m2}
    MaxUser = 2
    Commented = FALSE
INVARIANTS
    GoneOnlyWhenPersisted
    LineOnce
    UserLinesKept
