---------------------------- MODULE MCArtNetNodes ----------------------------
EXTENDS ArtNetNodes, TLC

CONSTANTS n1, n2

MCNodes == {n1, n2}
MCIpOf == n1 :> "ip1" @@ n2 :> "ip2"
=============================================================================
