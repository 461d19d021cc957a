\* Two clients, in behaviours in which nothing fails and in behaviours in which
\* clients crash and data paths and binds fail.  In the latter a session may
\* wait for ever (Starved), and with it the whole system.
CONSTANTS
    c1 = c1
    c2 = c2
    none = none
    Clients = {c1, c2}
    Foreign = {}
    NoClient = none
    ProtocolVersion = 1
    MaxFrameBytes = 65536
    ResultBytes = 219
    SampleBytes = 80
    MaxUnread = 2
    MaxStray = 2
    Faults = {TRUE, FALSE}
    ServerMayExit = FALSE
    Modes = {"none", "tcp", "udp", "file"}
    Versions = {1, 2}
    Parallels = {2}
    Durations = {10, 3600}
    Opts <- MCOpts
SPECIFICATION FairSpec
PROPERTIES RunsSucceed ClientsTerminate SessionsEnd
CHECK_DEADLOCK FALSE
