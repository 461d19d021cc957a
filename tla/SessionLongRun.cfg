\* The Result of an hour: 3600 samples of at least 80 bytes.
CONSTANTS
    c1 = c1
    none = none
    Clients = {c1}
    Foreign = {}
    NoClient = none
    ProtocolVersion = 1
    MaxFrameBytes = 65536
    ResultBytes = 219
    SampleBytes = 80
    MaxUnread = 2
    MaxStray = 2
    Faults = {FALSE}
    ServerMayExit = FALSE
    Modes = {"tcp", "udp"}
    Versions = {1}
    Parallels = {2}
    Durations = {10, 3600}
    Opts <- MCOpts
SPECIFICATION Spec
INVARIANT FinishedRunsAreAnswered
