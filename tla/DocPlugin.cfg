SPECIFICATION MexSpec
CONSTANTS
    Handle = {h1, h2}
    Session = {s1, s2}
    NULL = NULL
    MaxConn = 2
    MultiStatement = TRUE
    MexUnload = TRUE
    PutenvCopies = FALSE
    Calls <- MCCalls
    Hosts <- MCHosts
    Ports <- MCPorts
INVARIANTS
    PluginDirSet
