\* One client, and some other program on the control port that writes control
\* messages in any order; crashes, failing data paths, the server's end.
CONSTANTS
    c1 = c1
    f = f
    none = none
    Clients = {c1, f}
    Foreign = {f}
    NoClient = none
    ProtocolVersion = 1
    MaxFrameBytes = 65536
    ResultBytes = 219
    SampleBytes = 80
    MaxUnread = 2
    MaxStray = 2
    Faults = {TRUE}
    ServerMayExit = TRUE
    Modes = {"none", "tcp", "udp", "file"}
    Versions = {1, 2}
    Parallels = {2}
    Durations = {10}
    Opts <- MCOpts
SPECIFICATION Spec
INVARIANTS TypeOK InStep NoResultLost ResultOnlyAfterStop MeasuresItsOwnStreams
PROPERTY ServesOneAtATime
