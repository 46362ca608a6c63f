SPECIFICATION FairSpec
CONSTANTS
    Channels = {1, 3}
    Values = {0, 1}
    FrameInterval = 2
    UsePartial = TRUE
    UniverseSize = 4
    NoTimer = NoTimer
INVARIANTS
    NoLostWrite
PROPERTIES
    ThrottledSpacing
    FrameNeverShrinks
    WriteReachesWire
