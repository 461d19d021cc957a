CONSTANTS
    Payload <- MCPayload
    JunkBytes <- MCJunk
    Base = 2
    MaxFrameBytes = 3
    PipeCap = 3
    MaxItems = 3
    MaxArms = 2
    None = None
SPECIFICATION FairSpec
INVARIANTS TypeOK StreamInSync
PROPERTIES FramesAreMessages FramesArrive EndIsNoticed
