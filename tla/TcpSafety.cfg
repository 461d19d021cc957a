\* Two streams, three tasks adding up their counters, every kind of failure.
SPECIFICATION Spec
CONSTANTS
    Parallel = 2
    Chunk = 1
    PipeCap = 1
    WarmupSecs = 1
    DurationSecs = 1
    Quiet = FALSE
    Faults = TRUE
    MaxBytes = 1
    MaxSkew = 0
    MaxNow = 2
    None = None
INVARIANTS
    WindowBytes
    SeriesAddsUp
    EarlyStopMeasuresNothing
