\* A network that makes a second copy of a datagram.
CONSTANTS
    None = None
    BitRate = 256
    PacketBytes = 16
    TicksPerSec = 1
    WarmupSecs = 0
    ClockOffset <- Behind
    MaxTicks = 2
    MayDuplicate = TRUE
    MaxSamples = 0
    MaxNow = 0
SPECIFICATION Spec
INVARIANT DuplicatesCountedApart
