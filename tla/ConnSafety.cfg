SPECIFICATION Spec
CONSTANTS
    Handle = {h1, h2, h3}
    Session = {s1, s2, s3}
    NULL = NULL
    MaxConn = 2
    MultiStatement = TRUE
    MexUnload = TRUE
SYMMETRY Symm
INVARIANTS
    ConnInv
    NoUseAfterFree
PROPERTIES
    StatusCodeTruthful
    HealthyStaysOpen
    SlotIndependence
    NoSilentReconnect
    AutoOpenDisturbsNothing
