SPECIFICATION MexSpec
CONSTANTS
    Handle = {h1, h2}
    Session = {s1, s2}
    NULL = NULL
    MaxConn = 2
    MultiStatement = FALSE
    MexUnload = TRUE
    PutenvCopies = FALSE
    Calls <- MCCalls
    Hosts <- MCHosts
    Ports <- MCPorts
SYMMETRY Symm
INVARIANTS
    IdIsTransparent
    DialsAsAsked
PROPERTIES
    ImplementsTable
    TouchesOnlyNamed
    StatementsReachServer
