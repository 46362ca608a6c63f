SPECIFICATION Spec
CONSTANTS
    ha = ha
    peer = peer
    Hosts = {ha, peer}
    IpOf <- MCIpOf
    Setups <- MCSetups
    Pollers = {ha, peer}
    Senders = {ha}
    Others <- MCOthers
    ReplyEnds = {197, 201, 207, 211, 212, 213, 217, 218, 224}
    MaxLosses = 1
    MaxFaults = 1
    FlagTime = 2
INVARIANTS
    FramesKeepTheirAddress
