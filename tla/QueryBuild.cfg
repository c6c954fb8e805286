SPECIFICATION Spec
CONSTANTS
    MaxPlaceholders = 2
    MaxLength = 5
    MaxData = 3
    MinLenZlib = 1
    Header = 1
    FirstBuffer = 2
INVARIANTS
    BuildInv
    FitsBuffer
    CompressionPays
