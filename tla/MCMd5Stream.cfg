SPECIFICATION Spec
CONSTANTS
    BlockSize = 4
    LenSize = 2
    WordBits = 6
    Bytes <- TwoBytes
    MaxFed = 9
INVARIANTS
    TypeOK
    PiecesDoNotMatter
    CountExact
    DigestOfWholeText
