---------------------------- MODULE ArtNetNodes ----------------------------
(***************************************************************************)
(* What the Art-Net server knows of the nodes on the network               *)
(* (server/artnet_server.py): the nodes that answer its polls, the index   *)
(* of them by port address, by which send_dmx finds its receivers, and the *)
(* subscribers that are told of its own changes.                           *)
(*                                                                         *)
(* The poll loop starts a cleanup task at every poll, which first sleeps   *)
(* for the cutoff time.  A poll on a network that is down raises and ends  *)
(* the loop.  Time is counted in ticks; the event loop is not late by one. *)
(* The server has ports of its own to poll for, and telling its            *)
(* subscribers of a change (ArtNetOutput) does not raise in the middle of  *)
(* a poll reply.                                                           *)
(***************************************************************************)
EXTENDS Integers, FiniteSets

CONSTANTS
    Nodes,          \* the nodes that can appear, by IP address and bind index
    Addresses,      \* the port addresses they can listen to
    IpOf,           \* the IP address of a node
    Cutoff,         \* STALE_NODE_CUTOFF_TIME, in ticks
    MinPollPeriod,  \* the poll loop sleeps for between MinPollPeriod ...
    MaxPollPeriod,  \* ... and MaxPollPeriod ticks
    Dead            \* the poll loop has ended

ASSUME IpAssumption == DOMAIN IpOf = Nodes
ASSUME TimeAssumption == /\ Cutoff \in Nat \ {0}
                         /\ MinPollPeriod \in Nat \ {0}
                         /\ MaxPollPeriod \in Nat
                         /\ MinPollPeriod <= MaxPollPeriod
ASSUME DeadAssumption == Dead \notin Int

Ips == {IpOf[n] : n \in Nodes}
MaxAge == Cutoff + MaxPollPeriod

VARIABLES
    known,        \* the nodes in nodes_by_ip
    addresses,    \* get_addresses() of each known node; {} for the others
    index,        \* nodes_by_port_address; {} where it has no entry
    silence,      \* time since last_seen, up to MaxAge
    subscribers,  \* node_change_subscribers
    nextPoll,     \* ticks until the poll loop wakes
    cleanups      \* ticks each task of remove_stale_nodes has left to sleep

nodesVars == <<known, addresses, index, silence, subscribers, nextPoll, cleanups>>

NodesInit ==
    /\ known = {}
    /\ addresses = [n \in Nodes |-> {}]
    /\ index = [a \in Addresses |-> {}]
    /\ silence = [n \in Nodes |-> 0]
    /\ subscribers = {}
    /\ nextPoll = 0
    /\ cleanups = {}

-----------------------------------------------------------------------------
(* Mutant: a node is only removed from the addresses of its new ports. *)
NeverDropped(n, ports) == {}

(* The addresses a node had and has no more. *)
Dropped(n, ports) == addresses[n] \ ports

(* handle_poll_reply: a node tells its ports, for the first time or again. *)
PollReply(n, ports) ==
    /\ known' = known \cup {n}
    /\ silence' = [silence EXCEPT ![n] = 0]
    /\ addresses' = [addresses EXCEPT ![n] = ports]
    /\ index' = [a \in Addresses |->
                    IF a \in ports THEN index[a] \cup {n}
                    ELSE IF a \in Dropped(n, ports) THEN index[a] \ {n}
                    ELSE index[a]]
    /\ UNCHANGED <<subscribers, nextPoll, cleanups>>

(* handle_poll with notify_on_change, from a node known or not. *)
PollReceived(ip) ==
    /\ subscribers' = subscribers \cup {ip}
    /\ UNCHANGED <<known, addresses, index, silence, nextPoll, cleanups>>

(* Mutant: the cleanup keeps a node that is exactly as old as the cutoff. *)
OlderThanCutoff == {n \in known : silence[n] > Cutoff}

(* The nodes remove_stale_nodes finds. *)
Stale == {n \in known : silence[n] >= Cutoff}

(* The index once the stale nodes are removed from all their addresses. *)
IndexWithoutStale ==
    [a \in Addresses |-> index[a] \ {n \in Stale : a \in addresses[n]}]

(* remove_node_by_port_address unsubscribes a node that is no longer in       *)
(* nodes_by_ip, where every node it is called for still is.                   *)
Unsubscribed == {IpOf[n] : n \in {m \in Stale : addresses[m] # {} /\ m \notin known}}

(* remove_stale_nodes after its sleep. *)
RemoveStaleNodes ==
    /\ 0 \in cleanups
    /\ cleanups' = cleanups \ {0}
    /\ known' = known \ Stale
    /\ addresses' = [n \in Nodes |-> IF n \in Stale THEN {} ELSE addresses[n]]
    /\ index' = IndexWithoutStale
    /\ silence' = [n \in Nodes |-> IF n \in Stale THEN 0 ELSE silence[n]]
    /\ subscribers' = subscribers \ Unsubscribed
    /\ UNCHANGED nextPoll

PollSleep == MinPollPeriod..MaxPollPeriod

(* The poll loop sends a poll, starts a cleanup and sleeps. *)
Poll ==
    /\ nextPoll = 0
    /\ nextPoll' \in PollSleep
    /\ cleanups' = cleanups \cup {Cutoff}
    /\ UNCHANGED <<known, addresses, index, silence, subscribers>>

(* The broadcast raises. *)
PollFails ==
    /\ nextPoll = 0
    /\ nextPoll' = Dead
    /\ UNCHANGED <<known, addresses, index, silence, subscribers, cleanups>>

Tick ==
    /\ nextPoll # 0 /\ 0 \notin cleanups
    /\ nextPoll' = IF nextPoll = Dead THEN Dead ELSE nextPoll - 1
    /\ cleanups' = {t - 1 : t \in cleanups}
    /\ silence' = [n \in Nodes |->
                     IF n \in known /\ silence[n] < MaxAge
                     THEN silence[n] + 1 ELSE silence[n]]
    /\ UNCHANGED <<known, addresses, index, subscribers>>

NodesNext ==
    \/ \E n \in Nodes : \E ports \in SUBSET Addresses : PollReply(n, ports)
    \/ \E ip \in Ips : PollReceived(ip)
    \/ RemoveStaleNodes
    \/ Poll
    \/ PollFails
    \/ Tick

NodesSpec == NodesInit /\ [][NodesNext]_nodesVars

-----------------------------------------------------------------------------
NodesTypeOK ==
    /\ known \subseteq Nodes
    /\ addresses \in [Nodes -> SUBSET Addresses]
    /\ index \in [Addresses -> SUBSET Nodes]
    /\ silence \in [Nodes -> 0..MaxAge]
    /\ subscribers \subseteq Ips
    /\ nextPoll \in {Dead} \cup 0..MaxPollPeriod
    /\ cleanups \subseteq 0..Cutoff

(* The index has a node at an address exactly when the node is known and has *)
(* that address, through changes of its ports and its removal: send_dmx       *)
(* neither misses a node that listens nor sends to one that has gone, and     *)
(* remove_node_by_port_address always finds the entry it removes from.        *)
IndexMatchesNodes ==
    \A a \in Addresses : index[a] = {n \in known : a \in addresses[n]}

(* While the poll loop runs, no node is kept that has been silent for the     *)
(* cutoff and a whole poll period: of the overlapping cleanups one comes in   *)
(* time.                                                                      *)
SilenceIsBounded ==
    nextPoll # Dead => \A n \in known : silence[n] < Cutoff + MaxPollPeriod
=============================================================================
