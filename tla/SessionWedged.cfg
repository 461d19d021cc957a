\* A TCP client that fails before its data connections are open.
CONSTANTS
    c1 = c1
    none = none
    Clients = {c1}
    Foreign = {}
    NoClient = none
    ProtocolVersion = 1
    MaxFrameBytes = 65536
    ResultBytes = 219
    SampleBytes = 80
    MaxUnread = 2
    MaxStray = 2
    Faults = {TRUE}
    ServerMayExit = FALSE
    Modes = {"tcp"}
    Versions = {1}
    Parallels = {2}
    Durations = {10}
    Opts <- MCOpts
SPECIFICATION FairSpec
PROPERTY ServerReturns
CHECK_DEADLOCK FALSE
