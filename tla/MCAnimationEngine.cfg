SPECIFICATION FairSpec
CONSTANTS
    l1 = l1
    l2 = l2
    Lights <- MCLights
    Channels = {1, 2, 3}
    ChannelsOf <- Disjoint
    MaxCommands = 3
    MaxFrames = 2
CHECK_DEADLOCK FALSE
INVARIANTS
    NewestCommandWins
    OwnersAreActive
PROPERTIES
    AnimationsEnd
