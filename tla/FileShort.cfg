\* A file that is truncated between file_len and the last read.
SPECIFICATION FairSpec
CONSTANTS
    Sizes = {2, 4}
    Buf = 3
    PipeCap = 2
    MayChange = TRUE
    MayFail = FALSE
    None = None
PROPERTY
    ShortTransferReported
