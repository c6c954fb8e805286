SPECIFICATION Spec
CONSTANTS
    IntBits = 4
    Alphabet = {0, 1, 65, 127, 128, 191, 192, 255, 256, 2047, 2048, 8364, 55296, 65535, 65536, 128512}
    MaxString = 3
    Strings <- MCStrings
    Arguments <- MCArguments
    Formats <- MCFormats
INVARIANTS
    LatinSurvives
    BuffersSuffice
    NumbersSurvive
