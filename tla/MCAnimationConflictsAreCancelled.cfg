SPECIFICATION Spec
CONSTANTS
    l1 = l1
    l2 = l2
    Lights <- MCLights
    Channels = {1, 2, 3}
    ChannelsOf <- Overlapping
    MaxCommands = 2
    MaxFrames = 2
CHECK_DEADLOCK FALSE
INVARIANTS
    ConflictsAreCancelled
