---------------------------- MODULE PortAddress ----------------------------
(***************************************************************************)
(* The address of a DMX port (server/__init__.py, PortAddress): net,       *)
(* sub-net and universe, packed into one number, compared in that order,   *)
(* and split over two bytes of an ArtDmx packet.                           *)
(***************************************************************************)
EXTENDS Integers

(* The assertions of PortAddress.__init__. *)
PortAddresses == [net : 0..15, sub : 0..15, universe : 0..511]

Number(a) == a.net * 8192 + a.sub * 512 + a.universe

Parse(n) == [net |-> (n \div 8192) % 16, sub |-> (n \div 512) % 16, universe |-> n % 512]

(* The order of the dataclass: lexicographic. *)
Before(a, b) ==
    \/ a.net < b.net
    \/ a.net = b.net /\ a.sub < b.sub
    \/ a.net = b.net /\ a.sub = b.sub /\ a.universe < b.universe

(* The two bytes of ArtDmx.serialize: each keeps four bits. *)
SubUni(a) == Number(a) % 16
Net(a) == (Number(a) \div 256) % 16

(* Mutant: the high byte is left out. *)
LowByteOnly(net, subUni) == Parse(subUni)

(* ArtDmx.deserialize. *)
FromBytes(net, subUni) == Parse(net * 256 + subUni)

(* The address a frame for a has when it arrives. *)
Arrives(a) == FromBytes(Net(a), SubUni(a))

(* The addresses the two bytes have room for: no net, eight sub-nets, and     *)
(* universes without the bits 4 to 7.                                         *)
Carried(a) == a.net = 0 /\ a.sub < 8 /\ a.universe % 256 < 16
=============================================================================
