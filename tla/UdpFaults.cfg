\* Loss, duplicates, reordering, delay and sampling; clocks that differ by 3.
CONSTANTS
    None = None
    BitRate = 160
    PacketBytes = 16
    TicksPerSec = 2
    WarmupSecs = 1
    ClockOffset <- Behind
    MaxTicks = 7
    MayDuplicate = TRUE
    MaxSamples = 2
    MaxNow = 1
SPECIFICATION Spec
INVARIANTS TypeOK LossAccounting NoFalseLoss WindowAgrees PacingExact WarmupAligned SamplesAddUp JitterBounded OffsetCancels
