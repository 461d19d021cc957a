CONSTANTS
    Halves = {0, 1, 3, 20}
    Packets = {8, 1472}
    Windows = {0, 10, 9999}
    Streams = {1, 4}
    FileSizes = {0, 7}
    Kilo = 10
    U64Max = 9999
    HeaderLen = 16
    DefaultPacket = 1472
    WarmupSecs = 1
    None = None
SPECIFICATION Spec
INVARIANTS SidesAgree RunAsAsked
