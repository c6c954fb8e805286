SPECIFICATION Spec
CONSTANTS
    Alphabet = {0, 65, 233, 8364}
    MaxString = 3
    IntBits = 4
    Strings <- MCStrings
    Arguments <- MCArguments
    Formats <- MCFormats
INVARIANT
    OnlyTheStringSent
