SPECIFICATION FairSpec
CONSTANTS
    Handle = {h1, h2, h3}
    Session = {s1, s2}
    NULL = NULL
    MaxConn = 3
    MultiStatement = FALSE
    MexUnload = FALSE
INVARIANTS
    NoOrphanSession
    LeaksOnlyReused
PROPERTIES
    ImplementsPool
    CallReturns
    ReportFindsBroken
