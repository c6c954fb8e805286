SPECIFICATION Spec
CONSTANTS
    MaxPieces = 2
    MaxArgs = 2
    Kinds = {"plain", "slash"}
    Texts <- MCTexts
    ArgLists <- MCArgLists
INVARIANT
    TerminatorFits
