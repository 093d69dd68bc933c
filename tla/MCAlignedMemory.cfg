CONSTANTS
    ALIGN = 4
    Addresses = {4, 5, 6, 7}
    Values = {0, 1}
    MaxLen = 4
SPECIFICATION Spec
INVARIANT ContentsAsWritten
PROPERTIES NeverMoves
