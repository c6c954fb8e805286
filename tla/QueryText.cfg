SPECIFICATION Spec
CONSTANTS
    MaxPieces = 3
    MaxArgs = 3
    Kinds = {"plain", "flag", "slash", "empty"}
    Texts <- MCTexts
    ArgLists <- MCArgLists
INVARIANTS
    TypeOK
    NoArgumentLost
    SentIsExpansion
    CreateUnescapes
    SerializesAll
