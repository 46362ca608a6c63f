--------------------------- MODULE ArtNetExchange ---------------------------
(***************************************************************************)
(* Two Art-Net servers (server/artnet_server.py) on one network: polls,    *)
(* delayed replies, the nodes each server learns of, frames to them, and   *)
(* the flag that tells whether a port receives input.  Every message is    *)
(* written and read as its packet (ArtNetPackets).                         *)
(*                                                                         *)
(* Datagrams are delivered in any order; a few are lost.  Two equal        *)
(* datagrams in flight count as one, which is the loss of one.  A reply    *)
(* that cannot be written, or that the socket does not take, raises, and   *)
(* what follows in the handler is left undone; a poll, a frame or          *)
(* diagnostics that the socket does not take are lost.  The nodes          *)
(* that send frames have been up for more than three seconds; that nodes   *)
(* which fall silent are removed is in ArtNetNodes, retransmission and     *)
(* failing sockets are in ArtNetOutput.  A behaviour may instead begin     *)
(* with one other packet on the network, from a device that writes it as   *)
(* this code does, and then shows what deserialize reads.                  *)
(***************************************************************************)
EXTENDS ArtNetPackets, SequencesExt

CONSTANTS
    Hosts,        \* the servers
    IpOf,         \* the IP address of a host
    Setups,       \* the possible port addresses of each host
    Pollers,      \* the hosts that poll
    Senders,      \* the hosts whose universes are written to
    Others,       \* other packets: <<opcode, packet>>
    ReplyEnds,    \* the sizes at which an older node may end its poll reply
    MaxLosses,    \* how many datagrams may be lost
    MaxFaults,    \* how many replies the socket may not take
    FlagTime      \* ticks after which the input flag goes down: four seconds

ASSUME FlagTimeAssumption == FlagTime \in Nat \ {0}
ASSUME IpAssumption ==
    /\ \A h \in Hosts : IpOf[h] \in Seq(0..255) /\ Len(IpOf[h]) = 4
    /\ \A g, h \in Hosts : IpOf[g] = IpOf[h] => g = h
ASSUME SetupsAssumption ==
    /\ Setups \subseteq [Hosts -> SUBSET PortAddresses]
    /\ Pollers \subseteq Hosts /\ Senders \subseteq Hosts /\ MaxLosses \in Nat /\ MaxFaults \in Nat

(* The packets of each opcode that a device may write. *)
Opcodes == {"poll", "pollReply", "ipProg", "ipProgReply", "address", "diagData", "timeCode", "command", "trigger"}
PacketsOf(op) ==
    CASE op = "poll" -> Polls
      [] op = "pollReply" -> PollReplies
      [] op = "ipProg" -> IpProgs
      [] op = "ipProgReply" -> IpProgReplies
      [] op = "address" -> Addresses
      [] op = "diagData" -> Diagnoses
      [] op = "timeCode" -> TimeCodes
      [] op = "command" -> Commands
      [] op = "trigger" -> Triggers

ASSUME OthersAssumption ==
    /\ \A o \in Others : o[1] \in Opcodes /\ o[2] \in PacketsOf(o[1])
    /\ ReplyEnds \subseteq {197, 201, 207, 211, 212, 213, 217, 218, 224}    \* each the end of a field

Quiet == "quiet"    \* no other packet, or none heard yet

VARIABLES
    own,          \* the keys of own_port_addresses of each host
    wire,         \* the datagrams in flight
    losses,       \* how many were lost
    faults,       \* how many replies the socket did not take
    nodes,        \* nodes_by_ip of each host
    subscribers,  \* node_change_subscribers of each host
    delayed,      \* the hosts for which a task of _send_reply_with_delay sleeps
    received,     \* good_input.data_received of each port of each host
    age,          \* ticks since last_input_seen, up to FlagTime
    flagTasks,    \* ticks each task of disable_input_flag has left to sleep
    delivered,    \* the last frame passed on: the address it was for and the port
    other,        \* the other packet that was sent
    heard         \* the size it arrived with, and what was read of it

input == <<received, age, flagTasks>>
vars == <<own, wire, losses, faults, nodes, subscribers, delayed, input, delivered, other, heard>>

AllPorts == UNION {UNION {s[h] : h \in Hosts} : s \in Setups}
NoPorts == [h \in Hosts |-> {}]
Ports(h) == own[h]
Lowest(ports) == CHOOSE a \in ports : \A b \in ports : ~Before(b, a)
Highest(ports) == CHOOSE a \in ports : \A b \in ports : ~Before(a, b)
Bounds(ports) == <<Lowest(ports), Highest(ports)>>

Datagram(from, to, packet) == [from |-> from, to |-> to, packet |-> packet]

-----------------------------------------------------------------------------
(* get_grouped_ports: the universes of one net and sub-net, four at a time,   *)
(* in the order they were added, which is the ascending one.                  *)
Groups(ports) == SetToSeq({<<a.net, a.sub>> : a \in ports})
Ascending(us) ==
    CHOOSE s \in [1..Cardinality(us) -> us] : \A i, j \in 1..Cardinality(us) : i < j => s[i] < s[j]
UniversesOf(ports, g) == Ascending({a.universe : a \in {b \in ports : <<b.net, b.sub>> = g}})
Chunks(seq) == [i \in 1..((Len(seq) + 3) \div 4) |->
                  SubSeq(seq, 4 * i - 3, IF 4 * i > Len(seq) THEN Len(seq) ELSE 4 * i)]

GroupedPorts(ports) ==
    FlattenSeq([i \in DOMAIN Groups(ports) |->
        LET g == Groups(ports)[i]
            chunks == Chunks(UniversesOf(ports, g))
        IN  [c \in DOMAIN chunks |-> [net |-> g[1], sub |-> g[2], universes |-> chunks[c]]]])

(* Mutant: all replies of a host bear the same index. *)
SameBindIndex(ports, i) == IF Len(Groups(ports)) > 1 THEN 1 ELSE 0

(* The bind index of the i-th reply: zero if there is but one group. *)
BindIndex(ports, i) == IF Len(Groups(ports)) > 1 THEN i ELSE 0

(* add_port, with the flag of the port. *)
OwnPort(a, flag) ==
    [Port EXCEPT !.direction = {"input", "output"}, !.type = 5, !.sw_in = a.universe, !.sw_out = a.universe,
                 !.good_input = IF flag THEN {"data_received"} ELSE {}]

PollReplyOf(h, i, flags) ==
    LET g == GroupedPorts(Ports(h))[i]
        at(u) == [net |-> g.net, sub |-> g.sub, universe |-> u]
        port(u) == OwnPort(at(u), flags[at(u)])
    IN  [ArtPollReply EXCEPT
           !.source_ip = IpOf[h], !.net_switch = <<g.net>>, !.sub_switch = <<g.sub>>,
           !.indicator = 3, !.authority = 2, !.rom = FALSE, !.node_report = <<40>>,
           !.ports = FourPorts([k \in DOMAIN g.universes |-> port(g.universes[k])]),
           !.bind_index = <<BindIndex(Ports(h), i)>>,
           !.status2 = {"web", "dhcp_configured", "dhcp_capable", "address15"}]

(* Mutant: what cannot be written is sent all the same. *)
WritesAnyway(packets) == DOMAIN packets

(* The replies of send_reply, one for each group, and those it can write: all *)
(* before the first that it cannot.                                           *)
ReplyPackets(h, flags) == [i \in DOMAIN GroupedPorts(Ports(h)) |-> WriteReply(PollReplyOf(h, i, flags))]
Writes(packets) == {k \in DOMAIN packets : \A j \in 1..k : packets[j] # NoPacket}
Datagrams(h, to, packets, ks) == {Datagram(h, to, packets[k]) : k \in ks}

(* What a call has sent, whether it raised, and whether for the socket. *)
Nothing == [sent |-> {}, raised |-> FALSE, faulty |-> FALSE]
Counted(outcome) ==
    /\ faults' = faults + Number1(outcome.faulty)
    /\ faults' <= MaxFaults

Replies(h, to, flags) == LET packets == ReplyPackets(h, flags) IN Datagrams(h, to, packets, Writes(packets))
CanWrite(h, flags) == LET packets == ReplyPackets(h, flags) IN Writes(packets) = DOMAIN packets
RepliesTo(h, gs, flags) == UNION {Replies(h, g, flags) : g \in gs}

(* send_reply: the socket may refuse any of the packets. *)
SendReply(h, to, flags) ==
    LET packets == ReplyPackets(h, flags)
        writes == Writes(packets)
    IN  {[sent |-> Datagrams(h, to, packets, writes), raised |-> writes # DOMAIN packets, faulty |-> FALSE]} \cup
        {[sent |-> Datagrams(h, to, packets, 1..(k - 1)), raised |-> TRUE, faulty |-> TRUE] : k \in writes}

(* The reply to one subscriber raises after those to some others. *)
Interrupted(h, g, flags) ==
    {[last EXCEPT !.sent = @ \cup RepliesTo(h, done, flags)] :
        last \in {o \in SendReply(h, g, flags) : o.raised},
        done \in {gs \in SUBSET (subscribers[h] \ {g}) : gs = {} \/ CanWrite(h, flags)}}

(* update_subscribers, in the order of a set. *)
UpdateSubscribers(h, flags) ==
    (UNION {Interrupted(h, g, flags) : g \in subscribers[h]}) \cup
    IF subscribers[h] = {} \/ CanWrite(h, flags)
    THEN {[Nothing EXCEPT !.sent = RepliesTo(h, subscribers[h], flags)]}
    ELSE {}

-----------------------------------------------------------------------------
Init ==
    /\ \/ own \in Setups /\ other = <<Quiet, NoPacket>>
       \/ own = NoPorts /\ other \in Others
    /\ wire = {} /\ losses = 0 /\ faults = 0
    /\ nodes = [h \in Hosts |-> {}]
    /\ subscribers = [h \in Hosts |-> {}]
    /\ delayed = [h \in Hosts |-> {}]
    /\ received = [h \in Hosts |-> [a \in own[h] |-> FALSE]]
    /\ age = [h \in Hosts |-> [a \in own[h] |-> FlagTime]]
    /\ flagTasks = [h \in Hosts |-> [a \in own[h] |-> {}]]
    /\ delivered = {}
    /\ heard = <<0, NoPacket>>

Exchanging == other[1] = Quiet

(* The poll loop sends a poll for its own range of ports.  It sleeps for more *)
(* than two seconds, in which what belongs to the last poll has arrived.      *)
Poll(h) ==
    /\ Exchanging
    /\ \A d \in wire : d.packet.op = "dmx"
    /\ \A g \in Hosts : delayed[g] = {}
    /\ LET poll == [WithTarget(ArtPoll, Bounds(Ports(h))) EXCEPT
                      !.flags = (@ \ {"broadcast"}) \cup {"notify", "diagnostics"}, !.priority = <<128>>]
       IN  wire' = wire \cup {Datagram(h, g, WritePoll(poll)) : g \in Hosts \ {h}}
    /\ UNCHANGED <<own, losses, faults, nodes, subscribers, delayed, input, delivered, other, heard>>

(* should_handle_ports. *)
ShouldHandlePorts(h, lower, upper) ==
    Ports(h) # {} /\ ~(Before(Highest(Ports(h)), lower) \/ Before(upper, Lowest(Ports(h))))

(* handle_poll: a reply within a second, and diagnostics at once. *)
HandlePoll(h, d) ==
    LET poll == ReadPoll(d.packet)
    IN  IF "targeted" \in poll.flags /\ ~ShouldHandlePorts(h, poll.bottom, poll.top)
        THEN /\ wire' = wire \ {d}
             /\ UNCHANGED <<subscribers, delayed>>
        ELSE /\ delayed' = [delayed EXCEPT ![h] = @ \cup {d.from}]
             /\ subscribers' = [subscribers EXCEPT ![h] =
                                  IF "notify" \in poll.flags THEN @ \cup {d.from} ELSE @]
             /\ wire' = (wire \ {d}) \cup
                  IF "diagnostics" \in poll.flags
                  THEN {Datagram(h, d.from, WriteDiag([version |-> PROTOCOL_VERSION, priority |-> poll.priority,
                                                       logical_port |-> <<0>>, text |-> <<40>>]))}
                  ELSE {}

ReceivePoll(h, d) ==
    /\ d.packet.op = "poll"
    /\ HandlePoll(h, d)
    /\ UNCHANGED <<own, losses, faults, nodes, input, delivered, other, heard>>

(* _send_reply_with_delay after its sleep. *)
DelayedReply(h, to) ==
    /\ to \in delayed[h]
    /\ delayed' = [delayed EXCEPT ![h] = @ \ {to}]
    /\ \E outcome \in SendReply(h, to, received[h]) :
         /\ Counted(outcome)
         /\ wire' = wire \cup outcome.sent
    /\ UNCHANGED <<own, losses, nodes, subscribers, input, delivered, other, heard>>

(* Mutant: the switches in the wrong order. *)
SwappedAddresses(reply) ==
    {[net |-> reply.sub_switch[1], sub |-> reply.net_switch[1], universe |-> p.sw_in] :
        p \in {q \in Range(reply.ports) : q.direction # {}}}

(* Node.get_addresses. *)
AddressesOf(reply) ==
    LET at(u) == [net |-> reply.net_switch[1], sub |-> reply.sub_switch[1], universe |-> u]
    IN  UNION {(IF "input" \in p.direction THEN {at(p.sw_in)} ELSE {}) \cup
               (IF "output" \in p.direction THEN {at(p.sw_out)} ELSE {}) : p \in Range(reply.ports)}

(* handle_poll_reply. *)
ReceivePollReply(h, d) ==
    /\ d.packet.op = "pollReply"
    /\ wire' = wire \ {d}
    /\ LET reply == ReadReply(d.packet)
           others == {n \in nodes[h] : ~(n.ip = reply.source_ip /\ n.bind = reply.bind_index)}
       IN  nodes' = [nodes EXCEPT ![h] = others \cup
                       {[ip |-> reply.source_ip, bind |-> reply.bind_index, addresses |-> AddressesOf(reply)]}]
    /\ UNCHANGED <<own, losses, faults, subscribers, delayed, input, delivered, other, heard>>

(* Diagnostics are logged. *)
ReceiveDiag(h, d) ==
    /\ d.packet.op = "diagData"
    /\ wire' = wire \ {d}
    /\ UNCHANGED <<own, losses, faults, nodes, subscribers, delayed, input, delivered, other, heard>>

Listeners(h, a) == {g \in Hosts : \E n \in nodes[h] : n.ip = IpOf[g] /\ a \in n.addresses}

(* The data of a universe, which tell whose they are. *)
Frame(a) == <<a.net, a.sub, a.universe \div 256, a.universe % 256>>

Frames(h, a) ==
    LET dmx == [version |-> PROTOCOL_VERSION, sequence |-> <<1>>, physical |-> <<0>>, data |-> Frame(a),
                port_address |-> a]
    IN  {Datagram(h, g, WriteDmx(dmx)) : g \in Listeners(h, a)}

(* send_dmx of a universe of the host.  Whether the output flag of the port   *)
(* goes up, of which the subscribers hear first, is in ArtNetOutput.          *)
SendDmx(h, a) ==
    /\ Exchanging
    /\ Listeners(h, a) # {}
    /\ \E outcome \in {Nothing} \cup UpdateSubscribers(h, received[h]) :
         /\ Counted(outcome)
         /\ wire' = wire \cup outcome.sent \cup (IF outcome.raised THEN {} ELSE Frames(h, a))
    /\ UNCHANGED <<own, losses, nodes, subscribers, delayed, input, delivered, other, heard>>

(* handle_dmx: frames for no port of the host and its own are ignored.  The   *)
(* flag is up before the subscribers hear of it; if that raises, the frame is *)
(* neither timed nor passed on.                                               *)
ReceiveDmx(h, d) ==
    /\ d.packet.op = "dmx"
    /\ LET dmx == ReadDmx(d.packet)
           a == dmx.port_address
       IN  IF a \notin Ports(h) \/ d.from = h
           THEN /\ wire' = wire \ {d}
                /\ UNCHANGED <<faults, input, delivered>>
           ELSE /\ received' = [received EXCEPT ![h][a] = TRUE]
                /\ \E outcome \in IF received[h][a] THEN {Nothing} ELSE UpdateSubscribers(h, received'[h]) :
                     /\ Counted(outcome)
                     /\ wire' = (wire \ {d}) \cup outcome.sent
                     /\ IF outcome.raised
                        THEN UNCHANGED <<age, flagTasks, delivered>>
                        ELSE /\ age' = [age EXCEPT ![h][a] = 0]
                             /\ flagTasks' = [flagTasks EXCEPT ![h][a] = @ \cup {FlagTime}]
                             /\ delivered' = {[host |-> h, port |-> a, from |-> d.from, data |-> dmx.data]}
    /\ UNCHANGED <<own, losses, nodes, subscribers, delayed, other, heard>>

(* Mutant: the flag goes down without a look at the time of the last input. *)
SleptEnough(h, a) == TRUE

(* The comparison of disable_input_flag. *)
Outlived(h, a) == age[h][a] >= FlagTime

(* disable_input_flag after its sleep.  The time stamp is older than the      *)
(* sleep, so that after all of it the comparison is strict.                   *)
DisableInputFlag(h, a) ==
    /\ 0 \in flagTasks[h][a]
    /\ flagTasks' = [flagTasks EXCEPT ![h][a] = @ \ {0}]
    /\ received' = [received EXCEPT ![h][a] = @ /\ ~Outlived(h, a)]
    /\ \E outcome \in IF Outlived(h, a) THEN UpdateSubscribers(h, received'[h]) ELSE {Nothing} :
         /\ Counted(outcome)
         /\ wire' = wire \cup outcome.sent
    /\ UNCHANGED <<own, losses, nodes, subscribers, delayed, age, delivered, other, heard>>

Tick ==
    /\ \A h \in Hosts : \A a \in own[h] : 0 \notin flagTasks[h][a]
    /\ \E h \in Hosts : \E a \in own[h] : age[h][a] < FlagTime
    /\ age' = [h \in Hosts |-> [a \in own[h] |-> IF age[h][a] < FlagTime THEN age[h][a] + 1 ELSE FlagTime]]
    /\ flagTasks' = [h \in Hosts |-> [a \in own[h] |-> {t - 1 : t \in flagTasks[h][a]}]]
    /\ UNCHANGED <<own, wire, losses, faults, nodes, subscribers, delayed, received, delivered, other, heard>>

Lose(d) ==
    /\ losses < MaxLosses
    /\ losses' = losses + 1
    /\ wire' = wire \ {d}
    /\ UNCHANGED <<own, faults, nodes, subscribers, delayed, input, delivered, other, heard>>

-----------------------------------------------------------------------------
(* Any other packet, written by another device. *)
Written(op, p) ==
    CASE op = "pollReply" -> WriteReply(p)
      [] op = "poll" -> WritePoll(p)
      [] op = "ipProg" -> WriteIpProg(p)
      [] op = "ipProgReply" -> WriteIpProgReply(p)
      [] op = "address" -> WriteAddress(p)
      [] op = "diagData" -> WriteDiag(p)
      [] op = "timeCode" -> WriteTimeCode(p)
      [] op = "command" -> WriteCommand(p)
      [] op = "trigger" -> WriteTrigger(p)

(* What its class reads of it; handle_datagram asks for that but for an       *)
(* ArtIpProg and an ArtAddress, of which it reads the opcode only.            *)
Deserialized(w) ==
    CASE w.op = "pollReply" -> ReadReply(w)
      [] w.op = "poll" -> ReadPoll(w)
      [] w.op = "ipProg" -> ReadIpProg(w)
      [] w.op = "ipProgReply" -> ReadIpProgReply(w)
      [] w.op = "address" -> ReadAddress(w)
      [] w.op = "diagData" -> ReadDiag(w)
      [] w.op = "timeCode" -> ReadTimeCode(w)
      [] w.op = "command" -> ReadCommand(w)
      [] w.op = "trigger" -> ReadTrigger(w)

(* No field that ends beyond the size is looked for. *)
CutTo(w, size) == [w EXCEPT !.size = size]

(* The other packet comes; an older node's poll reply may end early. *)
OtherPacket ==
    /\ ~Exchanging
    /\ LET w == Written(other[1], other[2])
       IN  \E size \in {w.size} \cup (IF other[1] = "pollReply" THEN ReplyEnds ELSE {}) :
              heard' = <<size, Deserialized(CutTo(w, size))>>
    /\ UNCHANGED <<own, wire, losses, faults, nodes, subscribers, delayed, input, delivered, other>>

-----------------------------------------------------------------------------
Next ==
    \/ \E h \in Pollers : Poll(h)
    \/ \E d \in wire : ReceivePoll(d.to, d)
    \/ \E d \in wire : ReceivePollReply(d.to, d)
    \/ \E d \in wire : ReceiveDmx(d.to, d)
    \/ \E d \in wire : ReceiveDiag(d.to, d)
    \/ \E d \in wire : Lose(d)
    \/ \E h, g \in Hosts : DelayedReply(h, g)
    \/ \E h \in Senders : \E a \in own[h] : SendDmx(h, a)
    \/ \E h \in Hosts : \E a \in own[h] : DisableInputFlag(h, a)
    \/ Tick
    \/ OtherPacket

Spec == Init /\ [][Next]_vars

-----------------------------------------------------------------------------
TypeOK ==
    /\ own \in Setups \cup {NoPorts}
    /\ losses \in 0..MaxLosses /\ faults \in 0..MaxFaults
    /\ \A d \in wire : d.from \in Hosts /\ d.to \in Hosts /\ d.packet # NoPacket
    /\ \A h \in Hosts :
         /\ \A n \in nodes[h] : n.addresses \subseteq PortAddresses
         /\ subscribers[h] \subseteq Hosts /\ delayed[h] \subseteq Hosts
         /\ received[h] \in [own[h] -> BOOLEAN]
         /\ age[h] \in [own[h] -> 0..FlagTime]
         /\ flagTasks[h] \in [own[h] -> SUBSET (0..FlagTime)]

(* A node is known under addresses of its own only, whatever its replies went *)
(* through on the way: send_dmx never sends a universe to a host without it.  *)
NodesHaveTheirPorts ==
    \A h \in Hosts : \A n \in nodes[h] : \A g \in Hosts : n.ip = IpOf[g] => n.addresses \subseteq own[g]

(* The data passed on at a port are those of the universe with its address,   *)
(* provided that the sender has no universe beyond what the two bytes of      *)
(* ArtDmx can carry.                                                          *)
FramesReachTheirPort ==
    \A f \in delivered : (\A a \in own[f.from] : Carried(a)) => f.data = Frame(f.port)

(* "Uses Net/Subnet/Universe addressing (e.g., `1/2/0`)" and "0-511 per       *)
(* subnet" (docs/artnet-vs-sacn.md:77): the data passed on at a port are      *)
(* those of the universe with its address.                                    *)
FramesKeepTheirAddress == \A f \in delivered : f.data = Frame(f.port)

(* Replies that have a byte for each universe and bind index. *)
Writable(g) == Len(GroupedPorts(own[g])) <= 255 /\ \A a \in own[g] : a.universe < 256

(* The update of the subscribers that a frame asked for may have raised. *)
MayHaveRaised(h) == subscribers[h] # {} /\ (faults > 0 \/ ~Writable(h))

(* The flag of a port is up while input arrives: of the overlapping tasks of  *)
(* disable_input_flag none takes it down for a frame that was followed by     *)
(* another.  And it goes down in the end: as long as it is up, some task is   *)
(* asleep that will find the port without input for the flag time, although   *)
(* each compares with the same time as it slept.  Only a frame whose update   *)
(* of the subscribers raised leaves the flag up with no task, and not timed,  *)
(* until the next frame comes: nothing else does, and never when no reply of  *)
(* the host can raise.                                                        *)
FlagShowsInput ==
    \A h \in Hosts : \A a \in own[h] :
        /\ age[h][a] < FlagTime => received[h][a]
        /\ received[h][a] => \/ \E t \in flagTasks[h][a] : age[h][a] + t >= FlagTime
                             \/ MayHaveRaised(h) /\ age[h][a] = FlagTime

(* Mutual inverse of serialize and deserialize, for the attributes that the   *)
(* bytes carry: status1 keeps one bit of each two, adds the complement of     *)
(* supports_rdm to the bit of the UBEA, and status3 has a comparison in place *)
(* of a bit; ArtAddress reads values with the bit of their action; the bounds *)
(* of a poll lose the highest bit of their net; an empty text is read as NULs.*)
NotCarried(op) ==
    IF op = "pollReply" THEN {"indicator", "authority", "rdm", "ubea_present", "ubea", "direction"} ELSE {}

SameAction(sent, got) == sent.action = got.action /\ (sent.action # "reset" => got.value % 128 = sent.value)

TextsOf(op) == IF op = "command" THEN {"command"} ELSE {"short_name", "long_name", "node_report", "text"}
SameText(op, n, sent, got) == got = IF n \in TextsOf(op) /\ sent = <<0>> THEN Nuls ELSE sent

Same(op, n, sent, got) ==
    IF op = "poll" /\ n \in {"top", "bottom"} THEN Number(sent) < 65536 => sent = got
    ELSE IF op = "address" /\ n \in {"net_switch", "sub_switch"} THEN SameAction(sent, got)
    ELSE IF op = "address" /\ n \in {"sw_in", "sw_out"} THEN \A i \in 1..4 : SameAction(sent[i], got[i])
    ELSE IF op = "address" /\ n = "command" THEN sent.index = 0 => sent = got
    ELSE SameText(op, n, sent, got)

(* Where the extensions of a poll reply end. *)
EndOf == [style |-> 201, mac_address |-> 207, bind_ip |-> 211, bind_index |-> 212, status2 |-> 213,
          failsafe |-> 218, status3 |-> 218, default_resp_uid |-> 224]

(* A reply with an UID, be it of zeros, is one of a device with LLRP. *)
Meant(op, p, n, size) ==
    IF op = "pollReply" /\ n = "status3" /\ size >= EndOf["default_resp_uid"] THEN p[n] \cup {"llrp"} ELSE p[n]

Arrived(n) == Same(other[1], n, Meant(other[1], other[2], n, heard[1]), heard[2][n])

WithoutB(port) == [port EXCEPT !.good_output_b = {}]

(* Every packet is read as it was written.  "Art-Net 2 minimum is 197 bytes   *)
(* [...]; guard against short packets." (server/__init__.py:867): a reply     *)
(* that ends after some field is read up to there, with defaults for the      *)
(* rest, and no port lost for want of its good_output_b.                      *)
PacketsArriveWhole ==
    heard[1] # 0 =>
        \A n \in DOMAIN other[2] \ NotCarried(other[1]) :
            IF heard[1] = Written(other[1], other[2]).size THEN Arrived(n)
            ELSE IF n = "ports"
            THEN \A i \in 1..4 : WithoutB(heard[2].ports[i]) = WithoutB(other[2].ports[i])
            ELSE IF n \in DOMAIN EndOf /\ EndOf[n] > heard[1] THEN heard[2][n] = ArtPollReply[n]
            ELSE SameText(other[1], n, Meant(other[1], other[2], n, heard[1]), heard[2][n])

(* The replies of a host with more than four ports in its only group share    *)
(* one bind index; a universe above 255 and the bind index of a 256th reply   *)
(* are no byte.                                                               *)
Announces(g) ==
    /\ Writable(g)
    /\ Cardinality({<<a.net, a.sub>> : a \in own[g]}) > 1 \/ Cardinality(own[g]) <= 4

KnownOf(h, g) == UNION {n.addresses : n \in {m \in nodes[h] : m.ip = IpOf[g]}}

(* A host that has answered a poll is known with every port it has, once all  *)
(* of its replies, none of which raised, have arrived in whatever order, as   *)
(* each reply has a bind index of its own: none takes the place of another in *)
(* nodes_by_ip.                                                               *)
AnsweredIsKnown ==
    \A g, h \in Hosts :
        /\ h \in subscribers[g] \ delayed[g] /\ Announces(g) /\ losses = 0 /\ faults = 0
        /\ \A d \in wire : ~(d.from = g /\ d.packet.op = "pollReply")
        => KnownOf(h, g) = own[g]

=============================================================================
