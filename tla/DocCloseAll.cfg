SPECIFICATION Spec
CONSTANTS
    Handle = {h1, h2}
    Session = {s1, s2}
    NULL = NULL
    MaxConn = 2
    MultiStatement = TRUE
    MexUnload = FALSE
INVARIANT
    CloseAllClosesAll
