---------------------------- MODULE SacnExchange ----------------------------
(***************************************************************************)
(* Hosts that send and receive universes by sACN: the universes that       *)
(* protocols/sacn/protocol.py sets up, the packets that the server of one  *)
(* host (server/sacn_server.py) multicasts and the receiver of each host,  *)
(* the sender included, passes on or ignores.  The network loses packets   *)
(* and delivers them in any order.                                         *)
(*                                                                         *)
(* SacnUniverse has the tasks and threads of one universe; here a frame is *)
(* on the wire once its task has started.                                  *)
(***************************************************************************)
EXTENDS SacnPackets, Functions

CONSTANTS
    Hosts,
    Receivers,    \* the hosts whose receivers are followed
    NameOf,       \* the source name of each host
    Setups,       \* which universes each host configures, in order
    Frames,       \* the channels of the frames that are sent
    NoFrame,      \* None
    Cid,          \* of every host
    MaxSends, MaxTerminations, MaxFaults  \* bounds on the run

ASSUME BoundsAssumption == {MaxSends, MaxTerminations, MaxFaults} \subseteq Nat
ASSUME ReceiversAssumption == Receivers \subseteq Hosts
ASSUME SetupsAssumption == Setups \subseteq [Hosts -> Seq(Int)]
ASSUME NamesAssumption == NameOf \in [Hosts -> STRING \ {"", "desk"}]
ASSUME FrameAssumption == NoFrame \notin Frames /\ Dark \notin Frames

VARIABLES
    ids,          \* the universe ids each host has configured, in order
    stream,       \* by host and id: UniverseState of the server
    wire,         \* packets on their way to a host
    shown,        \* by host and port address: what was last passed to its universe
    budget        \* what is left of the bounds

vars == <<ids, stream, wire, shown, budget>>

(* UniverseState; the stream task runs, has been cancelled, or is not there;   *)
(* `sending` counts the tasks of _send_pending_frame.                         *)
UniverseState == [seq |-> 0, last |-> NoFrame, pending |-> NoFrame, terminated |-> FALSE,
                  task |-> "none", sending |-> 0]
Nothing == [name |-> "", universe |-> 0, channels |-> Dark]

-----------------------------------------------------------------------------
(* Everything that can be sent in a setup, and what a receiver reads in it. *)
Sendable ==
    [kind : {"own", "foreign", "sync"},
     packet : [source_name : {NameOf[h] : h \in Hosts} \cup {"desk"}, priority : {100},
               universe : UNION {ToSet(s[h]) : s \in Setups, h \in Hosts}, sequence_number : 0..(SeqSize - 1),
               options : {{}, {"stream_terminated"}}, cid : {Cid},
               dmx_data : {DarkData} \cup {Data(25, code, c) : code \in {0, 221}, c \in Frames \cup {Dark}}]]

Bytes(sent) ==
    CASE sent.kind = "own" -> Serialize(sent.packet)
      [] sent.kind = "foreign" -> ForeignPacket(sent.packet)
      [] sent.kind = "sync" -> SerializeSync(sent.packet.sequence_number, sent.packet.universe, sent.packet.cid)

(* (The comparison makes TLC compute the table once.) *)
Heard == CHOOSE table \in {[sent \in Sendable |-> Deserialize(Bytes(sent))]} : table = table

-----------------------------------------------------------------------------
(* SacnProtocol.add_universe: the port address under which the universe is     *)
(* kept, where a later one replaces an earlier one; the server and the receiver *)
(* take the ids of the standard only.                                          *)
PortOf(id) == IF id <= 511 THEN id ELSE id % 512
Served(h) == {id \in ToSet(ids[h]) : id \in 1..63999}

(* Mutant: every universe is listened to. *)
AnyUniverse(h) == 1..63999

Subscribed(h) == Served(h)

Ports(h) == {PortOf(id) : id \in ToSet(ids[h])}
UniverseAt(h, port) == ids[h][SelectLastInSeq(ids[h], LAMBDA id : PortOf(id) = port)]

Init ==
    /\ ids \in Setups
    /\ stream = [h \in Hosts |-> [id \in Served(h) |-> UniverseState]]
    /\ wire = {}
    /\ shown = [h \in Receivers |-> [port \in Ports(h) |-> Nothing]]
    /\ budget = [sends |-> MaxSends, terminations |-> MaxTerminations, faults |-> MaxFaults]

Spend(what) == budget[what] > 0 /\ budget' = [budget EXCEPT ![what] = @ - 1]

(* Every receiver, the sender's included, has joined the group. *)
Multicast(kind, packet) == wire' = wire \cup {[to |-> h, sent |-> [kind |-> kind, packet |-> packet]] : h \in Receivers}

Packet(h, id, options, data) ==
    [source_name |-> NameOf[h], priority |-> 100, universe |-> id, sequence_number |-> stream[h][id].seq,
     options |-> options, cid |-> Cid, dmx_data |-> data]

(* Mutant: the number that follows is not wrapped. *)
NotWrapped(n) == n + 1

(* increment_sequence *)
Incremented(n) == (n + 1) % SeqSize

(* _send_packet of a universe's 25 bytes or more. *)
SendPacket(h, id, channels) == Multicast("own", Packet(h, id, {}, Data(25, 0, channels)))

(* send_dmx_data: a stream task is started unless there is one that is not done, *)
(* be it cancelled.                                                              *)
SendDmxData(h, id, channels) ==
    /\ Spend("sends")
    /\ stream' = [stream EXCEPT ![h][id].pending = channels, ![h][id].sending = @ + 1,
                     ![h][id].task = IF @ = "none" /\ ~stream[h][id].terminated THEN "running" ELSE @]
    /\ SendPacket(h, id, channels)
    /\ UNCHANGED <<ids, shown>>

(* _send_pending_frame after its await. *)
FrameSent(h, id) ==
    /\ stream[h][id].sending > 0
    /\ stream' = [stream EXCEPT ![h][id] = [stream[h][id] EXCEPT !.sending = @ - 1, !.seq = Incremented(@),
                     !.last = stream[h][id].pending, !.pending = NoFrame, !.terminated = FALSE]]
    /\ UNCHANGED <<ids, wire, shown, budget>>

(* Mutant: a frame is not repeated. *)
NeverRepeats(h, id) == FALSE

Repeats(h, id) == stream[h][id].task = "running" /\ stream[h][id].last # NoFrame

(* _stream_universe_data retransmits; on this network not before the packets    *)
(* of the universe have arrived or are lost.                                   *)
Retransmit(h, id) ==
    /\ Repeats(h, id)
    /\ \A m \in wire : m.sent.packet.universe # id
    /\ SendPacket(h, id, stream[h][id].last)
    /\ stream' = [stream EXCEPT ![h][id].seq = Incremented(@)]
    /\ UNCHANGED <<ids, shown, budget>>

(* The data of a termination packet. *)
Farewell(h, id) == IF stream[h][id].last = NoFrame THEN DarkData ELSE Data(25, 0, stream[h][id].last)

(* terminate_universe *)
Terminate(h, id) ==
    /\ ~stream[h][id].terminated
    /\ Spend("terminations")
    /\ stream' = [stream EXCEPT ![h][id].terminated = TRUE,
                     ![h][id].task = IF @ = "running" THEN "cancelled" ELSE @]
    /\ Multicast("own", Packet(h, id, {"stream_terminated"}, Farewell(h, id)))
    /\ UNCHANGED <<ids, shown>>

(* A cancelled stream task is done. *)
StreamEnds(h, id) ==
    /\ stream[h][id].task = "cancelled"
    /\ stream' = [stream EXCEPT ![h][id].task = "none"]
    /\ UNCHANGED <<ids, wire, shown, budget>>

(* Another controller sends data of its own start code, or synchronises.        *)
Foreign(h, id) ==
    /\ Spend("faults")
    /\ \E kind \in {"foreign", "sync"} :
          Multicast(kind, [Packet(h, id, {}, Data(25, 221, Dark)) EXCEPT !.source_name = "desk", !.sequence_number = 0])
    /\ UNCHANGED <<ids, stream, shown>>

-----------------------------------------------------------------------------
(* Mutant: the packets of the host itself are taken. *)
TakesItsOwn(h, p) == p.dmx_data.startCode = 0 /\ p.universe \in Subscribed(h)

(* datagram_received and _handle_dmx_packet *)
Takes(h, p) ==
    /\ p.dmx_data.startCode = 0
    /\ p.source_name # NameOf[h]
    /\ p.universe \in Subscribed(h)

(* PortAddress(0, 0, universe) is at most 511, or an assertion fails and the    *)
(* packet is ignored; so is one for a port without a universe.                 *)
IsPort(h, universe) == universe <= 511 /\ universe \in Ports(h)

(* The receiver of a host gets a packet; neither its sequence number, nor its   *)
(* priority, nor its options are looked at.                                    *)
Receive(m) ==
    LET p == Heard[m.sent]
    IN  /\ m \in wire
        /\ wire' = wire \ {m}
        /\ shown' = IF p # NoPacket /\ Takes(m.to, p) /\ IsPort(m.to, p.universe)
                    THEN [shown EXCEPT ![m.to][p.universe] =
                            [name |-> p.source_name, universe |-> p.universe, channels |-> p.dmx_data.channels]]
                    ELSE shown
        /\ UNCHANGED <<ids, stream, budget>>

ReceiveBy(h) == \E m \in wire : m.to = h /\ Receive(m)

Lose(m) ==
    /\ Spend("faults")
    /\ wire' = wire \ {m}
    /\ UNCHANGED <<ids, stream, shown>>

Next ==
    \/ \E h \in Hosts : \E id \in Served(h) :
         \/ \E channels \in Frames : SendDmxData(h, id, channels)
         \/ FrameSent(h, id)
         \/ Retransmit(h, id)
         \/ Terminate(h, id)
         \/ StreamEnds(h, id)
         \/ Foreign(h, id)
    \/ \E m \in wire : Receive(m) \/ Lose(m)

Spec == Init /\ [][Next]_vars

(* Tasks go on, and a packet that is not lost arrives. *)
Fairness ==
    /\ \A h \in Receivers : WF_vars(ReceiveBy(h))
    /\ \A h \in Hosts : \A id \in UNION {ToSet(s[h]) : s \in Setups} :
         /\ WF_vars(id \in Served(h) /\ FrameSent(h, id))
         /\ WF_vars(id \in Served(h) /\ StreamEnds(h, id))
         /\ WF_vars(id \in Served(h) /\ Retransmit(h, id))

FairSpec == Spec /\ Fairness

-----------------------------------------------------------------------------
TypeOK ==
    /\ ids \in Setups
    /\ \A h \in Hosts : \A id \in Served(h) :
         /\ stream[h][id].seq \in 0..(SeqSize - 1)
         /\ {stream[h][id].last, stream[h][id].pending} \subseteq Frames \cup {NoFrame}
         /\ stream[h][id].terminated \in BOOLEAN
         /\ stream[h][id].task \in {"none", "running", "cancelled"}
         /\ stream[h][id].sending \in 0..MaxSends
    /\ wire \subseteq [to : Receivers, sent : Sendable]

(* A host whose universes have ports of their own shows at each port data that  *)
(* were sent for this universe, whichever of its universes the receiver can     *)
(* name by a port address.                                                      *)
DataReachTheirUniverse ==
    \A h \in Receivers : \A port \in Ports(h) :
        shown[h][port] # Nothing /\ Cardinality(Ports(h)) = Cardinality(ToSet(ids[h]))
        => shown[h][port].universe = UniverseAt(h, port)

(* What a host is shown was sent by another one: its own frames, which the      *)
(* multicast returns to it late and out of order, never overwrite its universe, *)
(* and neither do data that are not levels.                                     *)
OnlyOthersAreShown ==
    \A h \in Receivers : \A port \in Ports(h) : shown[h][port].name \notin {NameOf[h], "desk"}

Streams(h, id) == stream[h][id].task = "running" /\ stream[h][id].last # NoFrame

(* Whatever was lost, delayed or sent by others before: where in the end one    *)
(* host streams a universe and no other does, every host that listens under     *)
(* another name shows its last frame.                                           *)
SoleStreamIsShown ==
    \A g \in Receivers, h \in Hosts : \A id \in UNION {ToSet(s[h]) : s \in Setups} : \A channels \in Frames :
        <>[](/\ id \in Served(h) /\ id \in Subscribed(g) /\ IsPort(g, id) /\ NameOf[g] # NameOf[h]
             /\ Streams(h, id) /\ stream[h][id].last = channels
             /\ \A k \in Hosts \ {h} : id \in Served(k) => ~Streams(k, id))
        => <>[](id \in Ports(g) /\ shown[g][id].channels = channels)
=============================================================================
