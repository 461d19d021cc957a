\* A file below, at and above multiples of the buffer that may change at any
\* time, a client that may die.
SPECIFICATION FairSpec
CONSTANTS
    Sizes = {0, 2, 4, 6}
    Buf = 3
    PipeCap = 2
    MayChange = TRUE
    MayFail = TRUE
    None = None
INVARIANTS
    TypeOK
    BytesConserved
    ResultIsWhole
PROPERTIES
    ReturnsWithTheWhole
    StableFileArrives
