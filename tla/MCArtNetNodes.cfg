SPECIFICATION NodesSpec
CONSTANTS
    n1 = n1
    n2 = n2
    Nodes <- MCNodes
    IpOf <- MCIpOf
    Addresses = {a1, a2}
    Cutoff = 3
    MinPollPeriod = 1
    MaxPollPeriod = 2
    Dead = Dead
INVARIANTS
    IndexMatchesNodes
    SilenceIsBounded
