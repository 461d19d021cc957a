\* Streams may break and the client may vanish; a write_all is larger than the socket
\* buffers, the two sides and the sampler start at different times, ticks come late.
SPECIFICATION FairSpec
CONSTANTS
    Parallel = 1
    Chunk = 2
    PipeCap = 1
    WarmupSecs = 1
    DurationSecs = 0
    Quiet = FALSE
    Faults = TRUE
    MaxBytes = 2
    MaxSkew = 1
    MaxNow = 2
    None = None
INVARIANTS
    TypeOK
    SamplesBounded
PROPERTY
    RunReported
