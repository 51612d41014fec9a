SPECIFICATION DigestSpec
CONSTANTS
    BlockSize = 64
    LenSize = 8
    WordBits = 30
    Bytes <- Ascii
    MaxFed = 80
    Texts <- TestSuite
INVARIANTS
    AgreesWithStandard
CHECK_DEADLOCK FALSE
