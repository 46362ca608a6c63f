SPECIFICATION FairSpec
CONSTANTS
    ha = ha
    peer = peer
    Hosts = {ha, peer}
    Receivers = {ha}
    NameOf <- MCNameOf
    Setups <- MCSetups
    Frames = {1, 2}
    NoFrame = NoFrame
    Cid = cid
    SeqSize = 2
    Torn = 65535
    Dark = 0
    MaxSends = 3
    MaxTerminations = 1
    MaxFaults = 1
INVARIANTS
    TypeOK
    DataReachTheirUniverse
    OnlyOthersAreShown
PROPERTIES
    SoleStreamIsShown
CHECK_DEADLOCK FALSE
