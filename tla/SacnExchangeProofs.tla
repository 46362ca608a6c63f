------------------------- MODULE SacnExchangeProofs -------------------------
(***************************************************************************)
(* Proofs about SacnExchange and SacnPackets: what a host shows at a port  *)
(* are data that were sent for the universe of this port, by another host, *)
(* for any hosts, setups and frames, and whatever packets are lost, late   *)
(* or sent by other controllers.                                           *)
(***************************************************************************)
EXTENDS SacnExchange, FiniteSetTheorems, WellFoundedInduction, TLAPS

-----------------------------------------------------------------------------
(* The layout: where each field begins, and which name it has. *)
At == <<0, 2, 4, 16, 18, 22, 38, 40, 44, 108, 109, 111, 112, 113, 115, 117, 118, 119, 121, 123, 125>>

LEMMA Fields ==
    /\ Len(Layout) = 20 /\ DOMAIN Layout = 1..20 /\ LayoutRead = Layout
    /\ Layout[1] = <<"preamble", 2>> /\ Layout[2] = <<"postamble", 2>> /\ Layout[3] = <<"pid", 12>>
    /\ Layout[4] = <<"root_length", 2>> /\ Layout[5] = <<"root_vector", 4>> /\ Layout[6] = <<"cid", 16>>
    /\ Layout[7] = <<"framing_length", 2>> /\ Layout[8] = <<"framing_vector", 4>>
    /\ Layout[9] = <<"source_name", 64>> /\ Layout[10] = <<"priority", 1>> /\ Layout[11] = <<"reserved", 2>>
    /\ Layout[12] = <<"sequence_number", 1>> /\ Layout[13] = <<"options", 1>> /\ Layout[14] = <<"universe", 2>>
    /\ Layout[15] = <<"dmp_length", 2>> /\ Layout[16] = <<"dmp_vector", 1>> /\ Layout[17] = <<"type", 1>>
    /\ Layout[18] = <<"first", 2>> /\ Layout[19] = <<"increment", 2>> /\ Layout[20] = <<"count", 2>>
BY DEF Layout, LayoutRead

LEMMA Begins ==
    /\ At[1] = 0 /\ At[2] = 2 /\ At[3] = 4 /\ At[4] = 16 /\ At[5] = 18 /\ At[6] = 22 /\ At[7] = 38
    /\ At[8] = 40 /\ At[9] = 44 /\ At[10] = 108 /\ At[11] = 109 /\ At[12] = 111 /\ At[13] = 112
    /\ At[14] = 113 /\ At[15] = 115 /\ At[16] = 117 /\ At[17] = 118 /\ At[18] = 119 /\ At[19] = 121
    /\ At[20] = 123 /\ At[21] = 125 /\ DOMAIN At = 1..21
BY DEF At

Runs(at) == at = [i \in 1..21 |-> IF i = 1 THEN 0 ELSE at[i - 1] + Layout[i - 1][2]]

LEMMA Widths ==
    /\ Layout[1][2] = 2 /\ Layout[2][2] = 2 /\ Layout[3][2] = 12 /\ Layout[4][2] = 2 /\ Layout[5][2] = 4
    /\ Layout[6][2] = 16 /\ Layout[7][2] = 2 /\ Layout[8][2] = 4 /\ Layout[9][2] = 64 /\ Layout[10][2] = 1
    /\ Layout[11][2] = 2 /\ Layout[12][2] = 1 /\ Layout[13][2] = 1 /\ Layout[14][2] = 2 /\ Layout[15][2] = 2
    /\ Layout[16][2] = 1 /\ Layout[17][2] = 1 /\ Layout[18][2] = 2 /\ Layout[19][2] = 2 /\ Layout[20][2] = 2
BY Fields

(* The offsets are the sums of the widths before. *)
LEMMA OffsetsAre == WrittenAt = At /\ ReadAt = At /\ HeaderSize = 125
<1>1. Runs(At)
  <2>1. At = [i \in 1..21 |-> At[i]]
    BY DEF At
  <2>2. ASSUME NEW i \in 1..21 PROVE At[i] = IF i = 1 THEN 0 ELSE At[i - 1] + Layout[i - 1][2]
    <3>1. i = 1 \/ i = 2 \/ i = 3 \/ i = 4 \/ i = 5 \/ i = 6 \/ i = 7 \/ i = 8 \/ i = 9 \/ i = 10 \/ i = 11
          \/ i = 12 \/ i = 13 \/ i = 14 \/ i = 15 \/ i = 16 \/ i = 17 \/ i = 18 \/ i = 19 \/ i = 20 \/ i = 21
      OBVIOUS
    <3> QED BY <3>1, Begins, Widths
  <2> QED BY <2>1, <2>2, Zenon DEF Runs
<1>2. ASSUME NEW f, Runs(f) PROVE f = At
  <2>1. \A i \in 1..21 : f[i] = IF i = 1 THEN 0 ELSE f[i - 1] + Layout[i - 1][2]
    BY <1>2 DEF Runs
  <2>2. f[1] = 0 /\ \A i \in 2..21 : f[i] = f[i - 1] + Layout[i - 1][2]
    BY <2>1
  <2>3. f[1] = At[1] /\ f[2] = At[2] /\ f[3] = At[3] /\ f[4] = At[4] /\ f[5] = At[5] /\ f[6] = At[6]
    BY <2>2, Begins, Widths
  <2>4. f[7] = At[7] /\ f[8] = At[8] /\ f[9] = At[9] /\ f[10] = At[10] /\ f[11] = At[11]
    BY <2>2, <2>3, Begins, Widths
  <2>5. f[12] = At[12] /\ f[13] = At[13] /\ f[14] = At[14] /\ f[15] = At[15] /\ f[16] = At[16]
    BY <2>2, <2>4, Begins, Widths
  <2>6. f[17] = At[17] /\ f[18] = At[18] /\ f[19] = At[19] /\ f[20] = At[20] /\ f[21] = At[21]
    BY <2>2, <2>5, Begins, Widths
  <2>7. \A i \in 1..21 : f[i] = At[i]
    BY <2>3, <2>4, <2>5, <2>6
  <2>8. f = [i \in 1..21 |-> f[i]] /\ At = [i \in 1..21 |-> At[i]]
    BY <1>2 DEF Runs, At
  <2> QED BY <2>7, <2>8
<1>3. Offsets(Layout) = CHOOSE f : Runs(f)
  BY Fields DEF Offsets, Runs
<1>4. Offsets(Layout) = At
  BY <1>1, <1>2, <1>3
<1> QED BY <1>4, Fields, Begins DEF WrittenAt, ReadAt, HeaderSize

LEMMA BeginApart == \A i, j \in 1..21 : At[i] = At[j] => i = j
<1>1. \A i \in 1..20 : At[i] < At[i + 1] /\ At[i] \in Nat /\ At[i + 1] \in Nat
  <2> SUFFICES ASSUME NEW i \in 1..20 PROVE At[i] < At[i + 1] /\ At[i] \in Nat /\ At[i + 1] \in Nat
    OBVIOUS
  <2>1. i = 1 \/ i = 2 \/ i = 3 \/ i = 4 \/ i = 5 \/ i = 6 \/ i = 7 \/ i = 8 \/ i = 9 \/ i = 10
        \/ i = 11 \/ i = 12 \/ i = 13 \/ i = 14 \/ i = 15 \/ i = 16 \/ i = 17 \/ i = 18 \/ i = 19 \/ i = 20
    OBVIOUS
  <2> QED BY <2>1, Begins
<1>2. ASSUME NEW i \in 1..21, NEW j \in 1..21, i # j PROVE At[i] # At[j]
  <2>1. /\ i = 1 \/ i = 2 \/ i = 3 \/ i = 4 \/ i = 5 \/ i = 6 \/ i = 7 \/ i = 8 \/ i = 9 \/ i = 10 \/ i = 11
           \/ i = 12 \/ i = 13 \/ i = 14 \/ i = 15 \/ i = 16 \/ i = 17 \/ i = 18 \/ i = 19 \/ i = 20 \/ i = 21
        /\ j = 1 \/ j = 2 \/ j = 3 \/ j = 4 \/ j = 5 \/ j = 6 \/ j = 7 \/ j = 8 \/ j = 9 \/ j = 10 \/ j = 11
           \/ j = 12 \/ j = 13 \/ j = 14 \/ j = 15 \/ j = 16 \/ j = 17 \/ j = 18 \/ j = 19 \/ j = 20 \/ j = 21
    OBVIOUS
  <2> QED BY <1>2, <2>1, Begins
<1> QED BY <1>2

(* The place of a name. *)
Place(x) ==
    CASE x = "preamble" -> 1 [] x = "postamble" -> 2 [] x = "pid" -> 3 [] x = "root_length" -> 4
      [] x = "root_vector" -> 5 [] x = "cid" -> 6 [] x = "framing_length" -> 7 [] x = "framing_vector" -> 8
      [] x = "source_name" -> 9 [] x = "priority" -> 10 [] x = "reserved" -> 11
      [] x = "sequence_number" -> 12 [] x = "options" -> 13 [] x = "universe" -> 14
      [] x = "dmp_length" -> 15 [] x = "dmp_vector" -> 16 [] x = "type" -> 17 [] x = "first" -> 18
      [] x = "increment" -> 19 [] x = "count" -> 20

LEMMA NamesApart == \A i, j \in 1..20 : Layout[i][1] = Layout[j][1] => i = j
<1>1. /\ Place("preamble") = 1 /\ Place("postamble") = 2 /\ Place("pid") = 3
      /\ Place("root_length") = 4 /\ Place("root_vector") = 5 /\ Place("cid") = 6
      /\ Place("framing_length") = 7 /\ Place("framing_vector") = 8 /\ Place("source_name") = 9
      /\ Place("priority") = 10
  BY DEF Place
<1>2. /\ Place("reserved") = 11 /\ Place("sequence_number") = 12 /\ Place("options") = 13
      /\ Place("universe") = 14 /\ Place("dmp_length") = 15 /\ Place("dmp_vector") = 16
      /\ Place("type") = 17 /\ Place("first") = 18 /\ Place("increment") = 19 /\ Place("count") = 20
  BY DEF Place
<1>3. ASSUME NEW i \in 1..20 PROVE Place(Layout[i][1]) = i
  <2>1. i = 1 \/ i = 2 \/ i = 3 \/ i = 4 \/ i = 5 \/ i = 6 \/ i = 7 \/ i = 8 \/ i = 9 \/ i = 10
        \/ i = 11 \/ i = 12 \/ i = 13 \/ i = 14 \/ i = 15 \/ i = 16 \/ i = 17 \/ i = 18 \/ i = 19 \/ i = 20
    OBVIOUS
  <2> QED BY <1>1, <1>2, <2>1, Fields
<1> QED BY <1>3

-----------------------------------------------------------------------------
(* Reading: what a reader finds at a place, and what it finds for each name. *)
There(w, at, width) == {f \in w.fields : f.at = at /\ f.width = width}
Read(w, at, width) ==
    IF There(w, at, width) = {} THEN Torn ELSE (CHOOSE f \in There(w, at, width) : TRUE).value
Names == {LayoutRead[i][1] : i \in DOMAIN LayoutRead}
Got(w) ==
    [n \in Names |-> LET i == CHOOSE j \in DOMAIN LayoutRead : LayoutRead[j][1] = n
                     IN  Read(w, ReadAt[i], LayoutRead[i][2])]
DataOf(w) == Read(w, ReadAt[Len(LayoutRead) + 1], Got(w).count)

LEMMA DeserializeReads ==
    ASSUME NEW w
    PROVE  LET p == Deserialize(w)
           IN  p # NoPacket =>
                 /\ Got(w).framing_vector = 2
                 /\ p.source_name = Got(w).source_name
                 /\ p.universe = Got(w).universe
                 /\ p.dmx_data = IF DataOf(w).length = 0 THEN DarkData ELSE DataOf(w)
BY Zenon DEF Deserialize, Got, DataOf, Names, Read, There

(* A field is found where it was written, as no two begin at one place. *)
LEMMA ReadsWritten ==
    ASSUME NEW v, NEW data
    PROVE  LET w == Written(v, data)
           IN  /\ \A i \in 1..20 : Got(w)[Layout[i][1]] = v[Layout[i][1]]
               /\ v["count"] = data.length => DataOf(w) = data
<1> DEFINE w == Written(v, data)
           entry(i) == [at |-> At[i], width |-> Layout[i][2], value |-> v[Layout[i][1]]]
           last == [at |-> At[21], width |-> data.length, value |-> data]
<1>1. w.fields = {entry(i) : i \in 1..20} \cup {last}
  BY OffsetsAre, Fields, Begins DEF Written
<1> HIDE DEF w
<1>2. ASSUME NEW i \in 1..20 PROVE Read(w, At[i], Layout[i][2]) = v[Layout[i][1]]
  <2>1. \A f \in There(w, At[i], Layout[i][2]) : f = entry(i)
    <3> SUFFICES ASSUME NEW f \in w.fields, f.at = At[i] PROVE f = entry(i)
      BY DEF There
    <3>1. f # last
      BY BeginApart
    <3>2. PICK j \in 1..20 : f = entry(j)
      BY <1>1, <3>1
    <3>3. j = i
      BY <3>2, BeginApart
    <3> QED BY <3>2, <3>3
  <2>2. entry(i) \in There(w, At[i], Layout[i][2])
    BY <1>1 DEF There
  <2>3. (CHOOSE f \in There(w, At[i], Layout[i][2]) : TRUE) = entry(i)
    BY <2>1, <2>2
  <2>4. entry(i).value = v[Layout[i][1]] /\ There(w, At[i], Layout[i][2]) # {}
    BY <2>2
  <2> HIDE DEF entry
  <2> QED BY <2>3, <2>4, Zenon DEF Read
<1>3. ASSUME NEW i \in 1..20 PROVE Got(w)[Layout[i][1]] = v[Layout[i][1]]
  <2>1. Layout[i][1] \in Names
    BY Fields DEF Names
  <2>2. (CHOOSE j \in DOMAIN LayoutRead : LayoutRead[j][1] = Layout[i][1]) = i
    BY Fields, NamesApart
  <2>3. Got(w)[Layout[i][1]] = Read(w, ReadAt[i], LayoutRead[i][2])
    BY <2>1, <2>2 DEF Got
  <2> QED BY <1>2, <2>3, OffsetsAre, Fields
<1>4. ASSUME v["count"] = data.length PROVE DataOf(w) = data
  <2>1. Got(w).count = data.length
    BY <1>3, <1>4, Fields
  <2>2. \A f \in There(w, At[21], data.length) : f = last
    <3> SUFFICES ASSUME NEW f \in w.fields, f.at = At[21] PROVE f = last
      BY DEF There
    <3>1. ASSUME NEW j \in 1..20 PROVE f # entry(j)
      BY <3>1, BeginApart
    <3> QED BY <1>1, <3>1
  <2>3. last \in There(w, At[21], data.length)
    BY <1>1 DEF There
  <2>4. (CHOOSE f \in There(w, At[21], data.length) : TRUE) = last
    BY <2>2, <2>3
  <2>5. Len(LayoutRead) + 1 = 21
    <3>1. Len(LayoutRead) = 20
      BY Fields, Zenon
    <3> QED BY <3>1
  <2>6. DataOf(w) = Read(w, At[21], data.length)
    BY <2>1, <2>5, OffsetsAre, Zenon DEF DataOf
  <2>7. last.value = data /\ There(w, At[21], data.length) # {}
    BY <2>3
  <2> HIDE DEF last
  <2> QED BY <2>4, <2>6, <2>7, Zenon DEF Read
<1> QED BY <1>3, <1>4 DEF w

(* What the fields that matter here are written with. *)
LEMMA FieldsKept ==
    ASSUME NEW p
    PROVE  FieldsOf(p)["source_name"] = p.source_name /\ FieldsOf(p)["count"] = p.dmx_data.length
<1>1. {"source_name", "count"} \subseteq {Layout[i][1] : i \in DOMAIN Layout}
  BY Fields
<1> QED BY <1>1 DEF FieldsOf

(* The name of the sender arrives, ... *)
LEMMA NameArrives ==
    ASSUME NEW p, Deserialize(Serialize(p)) # NoPacket
    PROVE  Deserialize(Serialize(p)).source_name = p.source_name
<1>1. Got(Serialize(p))[Layout[9][1]] = FieldsOf(p)[Layout[9][1]]
  BY ReadsWritten DEF Serialize
<1>2. Layout[9][1] = "source_name"
  BY Fields
<1> QED BY <1>1, <1>2, DeserializeReads, FieldsKept

(* ... the start code of another controller, ... *)
LEMMA StartCodeArrives ==
    ASSUME NEW p, p.dmx_data.length = 25, Deserialize(ForeignPacket(p)) # NoPacket
    PROVE  Deserialize(ForeignPacket(p)).dmx_data.startCode = p.dmx_data.startCode
<1>1. FieldsOf(p)["count"] = p.dmx_data.length
  BY FieldsKept
<1>2. DataOf(Written(FieldsOf(p), p.dmx_data)) = p.dmx_data
  BY <1>1, ReadsWritten, Zenon
<1> QED BY <1>2, DeserializeReads DEF ForeignPacket

(* ... and a synchronisation is no packet of data. *)
LEMMA SyncIsNone ==
    ASSUME NEW number, NEW address, NEW cid
    PROVE  Deserialize(SerializeSync(number, address, cid)) = NoPacket
<1> DEFINE p == [cid |-> cid, source_name |-> "", priority |-> 0, sequence_number |-> number, options |-> {},
                 universe |-> address, dmx_data |-> Data(0, 0, Dark)]
           v == [FieldsOf(p) EXCEPT !.framing_vector = 1, !.dmp_length = 28672 + 11,
                                    !.framing_length = 28672 + 88, !.root_length = 28672 + 126]
           w == SerializeSync(number, address, cid)
<1>1. w = Written(v, p.dmx_data)
  BY DEF SerializeSync
<1>2. v["framing_vector"] = 1
  <2>1. "framing_vector" \in {Layout[i][1] : i \in DOMAIN Layout}
    BY Fields
  <2>2. "framing_vector" \in DOMAIN FieldsOf(p)
    BY <2>1 DEF FieldsOf
  <2> HIDE DEF p
  <2> QED BY <2>2
<1> HIDE DEF v, p, w
<1>3. Got(w)[Layout[8][1]] = v[Layout[8][1]]
  BY <1>1, ReadsWritten
<1>4. Got(w).framing_vector = 1
  BY <1>2, <1>3, Fields
<1>5. Deserialize(w) = NoPacket
  BY <1>4, DeserializeReads
<1> QED BY <1>5 DEF w

-----------------------------------------------------------------------------
(* The inductive invariant. *)
StreamStates ==
    [seq : 0..(SeqSize - 1), last : Frames \cup {NoFrame}, pending : Frames \cup {NoFrame},
     terminated : BOOLEAN, task : {"none", "running", "cancelled"}, sending : Nat]

(* A frame that is being sent was counted. *)
StreamsOK ==
    /\ stream = [h \in Hosts |-> [id \in Served(h) |-> stream[h][id]]]
    /\ \A h \in Hosts : \A id \in Served(h) :
         stream[h][id] \in StreamStates /\ stream[h][id].sending + budget.sends <= MaxSends

WireOK ==
    /\ wire \subseteq [to : Receivers, sent : Sendable]
    /\ \A m \in wire :
         /\ m.sent.kind = "own" => \E h \in Hosts : m.sent.packet.source_name = NameOf[h]
         /\ m.sent.kind = "foreign" => m.sent.packet.dmx_data = Data(25, 221, Dark)

(* What is shown at a port was sent for the universe with this number. *)
ShownOK ==
    /\ shown = [h \in Receivers |-> [port \in Ports(h) |-> shown[h][port]]]
    /\ \A h \in Receivers : \A port \in Ports(h) :
         /\ shown[h][port] # Nothing => /\ shown[h][port].universe = port /\ port <= 511
                                        /\ port \in ToSet(ids[h])
         /\ shown[h][port].name \notin {NameOf[h], "desk"}

IInv ==
    /\ ids \in Setups
    /\ budget \in [sends : 0..MaxSends, terminations : Nat, faults : Nat]
    /\ StreamsOK /\ WireOK /\ ShownOK

LEMMA Numbers == SeqSize \in Nat /\ SeqSize > 1 /\ MaxSends \in Nat /\ MaxTerminations \in Nat /\ MaxFaults \in Nat
BY SeqSizeAssumption, BoundsAssumption

LEMMA InitInv == Init => IInv
<1> SUFFICES ASSUME Init PROVE IInv
  OBVIOUS
<1>1. ids \in Setups /\ budget \in [sends : 0..MaxSends, terminations : Nat, faults : Nat]
  BY Numbers DEF Init
<1>2. StreamsOK
  <2>1. UniverseState \in StreamStates /\ UniverseState.sending = 0
    BY Numbers DEF UniverseState, StreamStates
  <2>2. \A h \in Hosts : \A id \in Served(h) : stream[h][id] = UniverseState
    BY DEF Init
  <2>3. stream = [h \in Hosts |-> [id \in Served(h) |-> stream[h][id]]]
    BY DEF Init
  <2>4. budget.sends = MaxSends
    BY DEF Init
  <2> QED BY <2>1, <2>2, <2>3, <2>4, Numbers DEF StreamsOK
<1>3. WireOK
  BY DEF Init, WireOK
<1>4. ShownOK
  <2>1. shown = [h \in Receivers |-> [port \in Ports(h) |-> shown[h][port]]]
    BY DEF Init
  <2>2. ASSUME NEW h \in Receivers, NEW port \in Ports(h) PROVE shown[h][port] = Nothing
    BY DEF Init
  <2>3. ASSUME NEW h \in Receivers PROVE Nothing.name \notin {NameOf[h], "desk"}
    BY ReceiversAssumption, NamesAssumption DEF Nothing
  <2> QED BY <2>1, <2>2, <2>3 DEF ShownOK
<1> QED BY <1>1, <1>2, <1>3, <1>4 DEF IInv

-----------------------------------------------------------------------------
LEMMA SamePorts ==
    ASSUME UNCHANGED ids
    PROVE  \A h : /\ Served(h)' = Served(h) /\ Subscribed(h)' = Subscribed(h) /\ Ports(h)' = Ports(h)
                  /\ ToSet(ids[h])' = ToSet(ids[h])
<1>1. ASSUME NEW h PROVE ToSet(ids[h])' = ToSet(ids[h])
  BY DEF ToSet
<1> QED BY <1>1 DEF Served, Subscribed, Ports, PortOf, ToSet

(* One universe of one host changes. *)
LEMMA StreamSet ==
    ASSUME IInv, NEW h \in Hosts, NEW id \in Served(h), NEW r \in StreamStates,
           stream' = [stream EXCEPT ![h][id] = r], UNCHANGED ids,
           budget' \in [sends : 0..MaxSends, terminations : Nat, faults : Nat],
           budget'.sends <= budget.sends, r.sending + budget'.sends <= MaxSends
    PROVE  StreamsOK'
<1>1. \A g \in Hosts : Served(g)' = Served(g)
  BY SamePorts
<1>2. stream = [g \in Hosts |-> [i \in Served(g) |-> stream[g][i]]]
  BY DEF IInv, StreamsOK
<1>3. \A g \in Hosts : \A i \in Served(g) :
        stream'[g][i] = IF g = h /\ i = id THEN r ELSE stream[g][i]
  BY <1>2
<1>4. stream' = [g \in Hosts |-> [i \in Served(g) |-> stream'[g][i]]]
  BY <1>2
<1>5. ASSUME NEW g \in Hosts, NEW i \in Served(g)
      PROVE  stream'[g][i] \in StreamStates /\ stream'[g][i].sending + budget'.sends <= MaxSends
  <2>1. CASE g = h /\ i = id
    BY <1>3, <2>1
  <2>2. CASE ~(g = h /\ i = id)
    <3>1. stream'[g][i] = stream[g][i]
      BY <1>3, <2>2
    <3>2. stream[g][i] \in StreamStates /\ stream[g][i].sending + budget.sends <= MaxSends
      BY DEF IInv, StreamsOK
    <3>3. stream[g][i].sending \in Nat /\ budget.sends \in Nat /\ budget'.sends \in Nat /\ MaxSends \in Nat
      BY <3>2, Numbers DEF StreamStates, IInv
    <3> QED BY <3>1, <3>2, <3>3
  <2> QED BY <2>1, <2>2
<1> QED BY <1>1, <1>4, <1>5 DEF StreamsOK, StreamStates

(* The data packets can have. *)
Contents == {DarkData} \cup {Data(25, code, c) : code \in {0, 221}, c \in Frames \cup {Dark}}

LEMMA ContentsAre ==
    DarkData \in Contents /\ Data(25, 221, Dark) \in Contents /\ \A c \in Frames : Data(25, 0, c) \in Contents
BY DEF Contents

(* A packet of a universe the host has is one of those a receiver knows. *)
FromDesk(packet) == [packet EXCEPT !.source_name = "desk", !.sequence_number = 0]

LEMMA PacketSendable ==
    ASSUME IInv, NEW h \in Hosts, NEW id \in Served(h), NEW options \in {{}, {"stream_terminated"}},
           NEW data \in Contents,
           NEW kind \in {"own", "foreign", "sync"}
    PROVE  /\ [kind |-> kind, packet |-> Packet(h, id, options, data)] \in Sendable
           /\ [kind |-> kind, packet |-> FromDesk(Packet(h, id, options, data))] \in Sendable
           /\ Packet(h, id, options, data).source_name = NameOf[h]
<1>1. stream[h][id].seq \in 0..(SeqSize - 1) /\ 0 \in 0..(SeqSize - 1)
  BY Numbers DEF IInv, StreamsOK, StreamStates
<1>2. id \in UNION {ToSet(s[g]) : s \in Setups, g \in Hosts}
  <2>1. id \in ToSet(ids[h]) /\ ids \in Setups
    BY DEF Served, IInv
  <2> QED BY <2>1
<1> DEFINE U == UNION {ToSet(s[g]) : s \in Setups, g \in Hosts}
           N == {NameOf[g] : g \in Hosts} \cup {"desk"}
           P == [source_name : N, priority : {100}, universe : U, sequence_number : 0..(SeqSize - 1),
                 options : {{}, {"stream_terminated"}}, cid : {Cid}, dmx_data : Contents]
           packet == Packet(h, id, options, data)
           desk == FromDesk(packet)
<1>3. Sendable = [kind : {"own", "foreign", "sync"}, packet : P]
  BY DEF Sendable, Contents
<1>4. id \in U /\ NameOf[h] \in N /\ "desk" \in N
  BY <1>2
<1> HIDE DEF U, N
<1>5. packet \in P /\ packet.source_name = NameOf[h]
  BY <1>1, <1>4 DEF Packet
<1> HIDE DEF packet
<1>6. desk \in P
  <2> DEFINE named == [packet EXCEPT !.source_name = "desk"]
  <2>1. named \in P
    BY <1>4, <1>5
  <2> HIDE DEF named
  <2>2. [named EXCEPT !.sequence_number = 0] \in P
    BY <1>1, <2>1
  <2> QED BY <2>2 DEF named, FromDesk
<1> HIDE DEF desk, P
<1> QED BY <1>3, <1>5, <1>6 DEF packet, desk

LEMMA MulticastKeeps ==
    ASSUME IInv, NEW kind, NEW packet, [kind |-> kind, packet |-> packet] \in Sendable, Multicast(kind, packet),
           kind = "own" => \E h \in Hosts : packet.source_name = NameOf[h],
           kind = "foreign" => packet.dmx_data = Data(25, 221, Dark)
    PROVE  WireOK'
<1> DEFINE new == {[to |-> g, sent |-> [kind |-> kind, packet |-> packet]] : g \in Receivers}
<1>1. wire' = wire \cup new
  BY DEF Multicast
<1>2. new \subseteq [to : Receivers, sent : Sendable]
  OBVIOUS
<1>3. \A m \in new : m.sent.kind = kind /\ m.sent.packet = packet
  OBVIOUS
<1> HIDE DEF new
<1> QED BY <1>1, <1>2, <1>3 DEF IInv, WireOK

LEMMA OwnKeeps ==
    ASSUME IInv, NEW h \in Hosts, NEW id \in Served(h), NEW options \in {{}, {"stream_terminated"}},
           NEW data \in Contents, Multicast("own", Packet(h, id, options, data))
    PROVE  WireOK'
<1>1. [kind |-> "own", packet |-> Packet(h, id, options, data)] \in Sendable
      /\ Packet(h, id, options, data).source_name = NameOf[h]
  BY PacketSendable
<1> QED BY <1>1, MulticastKeeps

(* What a step of one host spends. *)
LEMMA SpendKeeps ==
    ASSUME IInv, NEW what \in {"sends", "terminations", "faults"}, Spend(what)
    PROVE  /\ budget' \in [sends : 0..MaxSends, terminations : Nat, faults : Nat]
           /\ budget'.sends = IF what = "sends" THEN budget.sends - 1 ELSE budget.sends
           /\ what = "sends" => budget.sends > 0
BY Numbers DEF Spend, IInv

LEMMA StreamsSame ==
    ASSUME IInv, UNCHANGED <<ids, stream>>,
           budget' \in [sends : 0..MaxSends, terminations : Nat, faults : Nat], budget'.sends = budget.sends
    PROVE  StreamsOK'
BY SamePorts DEF IInv, StreamsOK, StreamStates

LEMMA ShownSame == ASSUME IInv, UNCHANGED <<ids, shown>> PROVE ShownOK'
BY SamePorts DEF IInv, ShownOK

LEMMA WireShrinks == ASSUME IInv, wire' \subseteq wire PROVE WireOK'
BY DEF IInv, WireOK, Sendable

-----------------------------------------------------------------------------
(* The state of a universe with another value of one field. *)
LEMMA FieldSet ==
    ASSUME NEW r \in StreamStates
    PROVE  /\ \A n \in 0..(SeqSize - 1) :
                [r EXCEPT !.seq = n] \in StreamStates /\ [r EXCEPT !.seq = n].sending = r.sending
           /\ \A f \in Frames \cup {NoFrame} :
                /\ [r EXCEPT !.last = f] \in StreamStates /\ [r EXCEPT !.last = f].sending = r.sending
                /\ [r EXCEPT !.pending = f] \in StreamStates /\ [r EXCEPT !.pending = f].sending = r.sending
           /\ \A b \in BOOLEAN :
                [r EXCEPT !.terminated = b] \in StreamStates /\ [r EXCEPT !.terminated = b].sending = r.sending
           /\ \A t \in {"none", "running", "cancelled"} :
                [r EXCEPT !.task = t] \in StreamStates /\ [r EXCEPT !.task = t].sending = r.sending
           /\ \A k \in Nat :
                [r EXCEPT !.sending = k] \in StreamStates /\ [r EXCEPT !.sending = k].sending = k
BY DEF StreamStates

(* The steps of a host that sends. *)
LEMMA SendStep ==
    ASSUME IInv, NEW h \in Hosts, NEW id \in Served(h), NEW channels \in Frames, SendDmxData(h, id, channels)
    PROVE  IInv'
<1> DEFINE old == stream[h][id]
           r == [old EXCEPT !.pending = channels, !.sending = @ + 1,
                            !.task = IF @ = "none" /\ ~old.terminated THEN "running" ELSE @]
<1>1. old \in StreamStates /\ old.sending + budget.sends <= MaxSends
  BY DEF IInv, StreamsOK
<1>2. Spend("sends") /\ UNCHANGED <<ids, shown>>
  BY DEF SendDmxData
<1>3. /\ budget' \in [sends : 0..MaxSends, terminations : Nat, faults : Nat]
      /\ budget'.sends = budget.sends - 1 /\ budget.sends \in Nat
  BY <1>2, SpendKeeps DEF IInv
<1>4. r \in StreamStates /\ r.sending = old.sending + 1
  <2> DEFINE r1 == [old EXCEPT !.pending = channels]
             r2 == [r1 EXCEPT !.sending = old.sending + 1]
             task == IF old.task = "none" /\ ~old.terminated THEN "running" ELSE old.task
  <2>1. old.sending + 1 \in Nat /\ task \in {"none", "running", "cancelled"} /\ channels \in Frames \cup {NoFrame}
    BY <1>1 DEF StreamStates
  <2>2. r1 \in StreamStates
    BY <1>1, <2>1, FieldSet
  <2>3. r = [r2 EXCEPT !.task = task]
    OBVIOUS
  <2> HIDE DEF r1, r, task
  <2>4. r2 \in StreamStates /\ r2.sending = old.sending + 1
    BY <2>1, <2>2, FieldSet
  <2> HIDE DEF r2
  <2> QED BY <2>1, <2>3, <2>4, FieldSet
<1>5. stream' = [stream EXCEPT ![h][id] = r]
  <2>1. stream = [g \in Hosts |-> [i \in Served(g) |-> stream[g][i]]]
    BY DEF IInv, StreamsOK
  <2> QED BY <1>1, <2>1 DEF SendDmxData, StreamStates
<1> HIDE DEF r
<1>6. StreamsOK'
  <2>1. r.sending + budget'.sends <= MaxSends /\ budget'.sends <= budget.sends
    BY <1>1, <1>3, <1>4, Numbers DEF StreamStates
  <2> QED BY <1>2, <1>3, <1>4, <1>5, <2>1, StreamSet
<1>7. WireOK'
  <2>1. Multicast("own", Packet(h, id, {}, Data(25, 0, channels)))
    BY DEF SendDmxData, SendPacket
  <2> QED BY <2>1, ContentsAre, OwnKeeps
<1>8. ShownOK'
  BY <1>2, ShownSame
<1> QED BY <1>2, <1>3, <1>6, <1>7, <1>8 DEF IInv

LEMMA FrameSentStep ==
    ASSUME IInv, NEW h \in Hosts, NEW id \in Served(h), FrameSent(h, id)
    PROVE  IInv'
<1> DEFINE old == stream[h][id]
           r == [old EXCEPT !.sending = @ - 1, !.seq = Incremented(@), !.last = old.pending,
                            !.pending = NoFrame, !.terminated = FALSE]
<1>1. old \in StreamStates /\ old.sending + budget.sends <= MaxSends /\ old.sending > 0
  BY DEF IInv, StreamsOK, FrameSent
<1>2. UNCHANGED <<ids, wire, shown, budget>>
  BY DEF FrameSent
<1>3. Incremented(old.seq) \in 0..(SeqSize - 1)
  BY <1>1, Numbers DEF Incremented, StreamStates
<1>4. r \in StreamStates /\ r.sending = old.sending - 1
  <2> DEFINE r1 == [old EXCEPT !.sending = old.sending - 1]
             r2 == [r1 EXCEPT !.seq = Incremented(old.seq)]
             r3 == [r2 EXCEPT !.last = old.pending]
             r4 == [r3 EXCEPT !.pending = NoFrame]
  <2>1. /\ old.sending - 1 \in Nat /\ old.pending \in Frames \cup {NoFrame}
        /\ NoFrame \in Frames \cup {NoFrame} /\ FALSE \in BOOLEAN
    BY <1>1 DEF StreamStates
  <2>2. r = [r4 EXCEPT !.terminated = FALSE]
    OBVIOUS
  <2>3. r1 \in StreamStates /\ r1.sending = old.sending - 1
    BY <1>1, <2>1, FieldSet
  <2> HIDE DEF r1, r
  <2>4. r2 \in StreamStates /\ r2.sending = old.sending - 1
    BY <1>3, <2>3, FieldSet
  <2> HIDE DEF r2
  <2>5. r3 \in StreamStates /\ r3.sending = old.sending - 1
    BY <2>1, <2>4, FieldSet
  <2> HIDE DEF r3
  <2>6. r4 \in StreamStates /\ r4.sending = old.sending - 1
    BY <2>1, <2>5, FieldSet
  <2> HIDE DEF r4
  <2> QED BY <2>1, <2>2, <2>6, FieldSet
<1>5. stream' = [stream EXCEPT ![h][id] = r]
  BY Zenon DEF FrameSent
<1> HIDE DEF r
<1>6. StreamsOK'
  <2>1. r.sending + budget'.sends <= MaxSends /\ budget'.sends <= budget.sends
    BY <1>1, <1>2, <1>4, Numbers DEF StreamStates, IInv
  <2> QED BY <1>2, <1>4, <1>5, <2>1, StreamSet DEF IInv
<1>7. WireOK' /\ ShownOK'
  BY <1>2, WireShrinks, ShownSame
<1> QED BY <1>2, <1>6, <1>7 DEF IInv

LEMMA RetransmitStep ==
    ASSUME IInv, NEW h \in Hosts, NEW id \in Served(h), Retransmit(h, id)
    PROVE  IInv'
<1> DEFINE old == stream[h][id]
           r == [old EXCEPT !.seq = Incremented(@)]
<1>1. old \in StreamStates /\ old.sending + budget.sends <= MaxSends /\ old.last \in Frames
  BY DEF IInv, StreamsOK, Retransmit, Repeats, StreamStates
<1>2. UNCHANGED <<ids, shown, budget>>
  BY DEF Retransmit
<1>3. Incremented(old.seq) \in 0..(SeqSize - 1)
  BY <1>1, Numbers DEF Incremented, StreamStates
<1>4. r \in StreamStates /\ r.sending = old.sending
  BY <1>1, <1>3 DEF StreamStates
<1>5. stream' = [stream EXCEPT ![h][id] = r]
  <2>1. stream = [g \in Hosts |-> [i \in Served(g) |-> stream[g][i]]]
    BY DEF IInv, StreamsOK
  <2> QED BY <2>1 DEF Retransmit
<1> HIDE DEF r
<1>6. StreamsOK'
  <2>1. r.sending + budget'.sends <= MaxSends /\ budget'.sends <= budget.sends
    BY <1>1, <1>2, <1>4, Numbers DEF IInv
  <2> QED BY <1>2, <1>4, <1>5, <2>1, StreamSet DEF IInv
<1>7. WireOK'
  <2>1. Multicast("own", Packet(h, id, {}, Data(25, 0, old.last)))
    BY DEF Retransmit, SendPacket
  <2> QED BY <1>1, <2>1, ContentsAre, OwnKeeps
<1>8. ShownOK'
  BY <1>2, ShownSame
<1> QED BY <1>2, <1>6, <1>7, <1>8 DEF IInv

LEMMA TerminateStep ==
    ASSUME IInv, NEW h \in Hosts, NEW id \in Served(h), Terminate(h, id)
    PROVE  IInv'
<1> DEFINE old == stream[h][id]
           r == [old EXCEPT !.terminated = TRUE, !.task = IF @ = "running" THEN "cancelled" ELSE @]
<1>1. old \in StreamStates /\ old.sending + budget.sends <= MaxSends
  BY DEF IInv, StreamsOK
<1>2. Spend("terminations") /\ UNCHANGED <<ids, shown>>
  BY DEF Terminate
<1>3. /\ budget' \in [sends : 0..MaxSends, terminations : Nat, faults : Nat]
      /\ budget'.sends = budget.sends /\ budget.sends \in Nat
  BY <1>2, SpendKeeps DEF IInv
<1>4. r \in StreamStates /\ r.sending = old.sending
  BY <1>1 DEF StreamStates
<1>5. stream' = [stream EXCEPT ![h][id] = r]
  <2>1. stream = [g \in Hosts |-> [i \in Served(g) |-> stream[g][i]]]
    BY DEF IInv, StreamsOK
  <2> QED BY <1>1, <2>1 DEF Terminate, StreamStates
<1> HIDE DEF r
<1>6. StreamsOK'
  <2>1. r.sending + budget'.sends <= MaxSends /\ budget'.sends <= budget.sends
    BY <1>1, <1>3, <1>4
  <2> QED BY <1>2, <1>3, <1>4, <1>5, <2>1, StreamSet
<1>7. WireOK'
  <2>1. Multicast("own", Packet(h, id, {"stream_terminated"}, Farewell(h, id)))
    BY DEF Terminate
  <2>2. Farewell(h, id) \in Contents
    BY <1>1, ContentsAre DEF Farewell, StreamStates
  <2> QED BY <2>1, <2>2, OwnKeeps
<1>8. ShownOK'
  BY <1>2, ShownSame
<1> QED BY <1>2, <1>3, <1>6, <1>7, <1>8 DEF IInv

LEMMA StreamEndsStep ==
    ASSUME IInv, NEW h \in Hosts, NEW id \in Served(h), StreamEnds(h, id)
    PROVE  IInv'
<1> DEFINE old == stream[h][id]
           r == [old EXCEPT !.task = "none"]
<1>1. old \in StreamStates /\ old.sending + budget.sends <= MaxSends
  BY DEF IInv, StreamsOK
<1>2. UNCHANGED <<ids, wire, shown, budget>>
  BY DEF StreamEnds
<1>3. r \in StreamStates /\ r.sending = old.sending
  BY <1>1 DEF StreamStates
<1>4. stream' = [stream EXCEPT ![h][id] = r]
  <2>1. stream = [g \in Hosts |-> [i \in Served(g) |-> stream[g][i]]]
    BY DEF IInv, StreamsOK
  <2> QED BY <2>1 DEF StreamEnds
<1> HIDE DEF r
<1>5. StreamsOK'
  <2>1. r.sending + budget'.sends <= MaxSends /\ budget'.sends <= budget.sends
    BY <1>1, <1>2, <1>3, Numbers DEF IInv
  <2> QED BY <1>2, <1>3, <1>4, <2>1, StreamSet DEF IInv
<1>6. WireOK' /\ ShownOK'
  BY <1>2, WireShrinks, ShownSame
<1> QED BY <1>2, <1>5, <1>6 DEF IInv

LEMMA ForeignStep ==
    ASSUME IInv, NEW h \in Hosts, NEW id \in Served(h), Foreign(h, id)
    PROVE  IInv'
<1>1. Spend("faults") /\ UNCHANGED <<ids, stream, shown>>
  BY DEF Foreign
<1>2. /\ budget' \in [sends : 0..MaxSends, terminations : Nat, faults : Nat]
      /\ budget'.sends = budget.sends
  BY <1>1, SpendKeeps
<1>3. StreamsOK' /\ ShownOK'
  BY <1>1, <1>2, StreamsSame, ShownSame
<1> DEFINE packet == FromDesk(Packet(h, id, {}, Data(25, 221, Dark)))
<1>4. PICK kind \in {"foreign", "sync"} : Multicast(kind, packet)
  BY DEF Foreign, FromDesk
<1>5. [kind |-> kind, packet |-> packet] \in Sendable
  <2> DEFINE data == Data(25, 221, Dark)
             none == {}
  <2>1. none \in {{}, {"stream_terminated"}} /\ kind \in {"own", "foreign", "sync"}
    OBVIOUS
  <2>2. data \in Contents
    BY ContentsAre
  <2> HIDE DEF data, none
  <2>3. [kind |-> kind, packet |-> FromDesk(Packet(h, id, none, data))] \in Sendable
    BY <2>1, <2>2, PacketSendable
  <2> QED BY <2>3 DEF data, none
<1>6. packet.dmx_data = Data(25, 221, Dark)
  BY DEF Packet, FromDesk
<1> HIDE DEF packet
<1>7. WireOK'
  BY <1>4, <1>5, <1>6, MulticastKeeps
<1> QED BY <1>1, <1>2, <1>3, <1>7 DEF IInv

-----------------------------------------------------------------------------
(* What arrives. *)
LEMMA HeardIs == \A sent \in Sendable : Heard[sent] = Deserialize(Bytes(sent))
BY DEF Heard

LEMMA SubscribedAre == \A h : \A id \in Subscribed(h) : id \in ToSet(ids[h])
BY DEF Subscribed, Served

LEMMA ReceiveStep ==
    ASSUME IInv, NEW m \in wire, Receive(m)
    PROVE  IInv'
<1> DEFINE p == Heard[m.sent]
           h == m.to
           taken == p # NoPacket /\ Takes(h, p) /\ IsPort(h, p.universe)
           now == [name |-> p.source_name, universe |-> p.universe, channels |-> p.dmx_data.channels]
<1>1. h \in Receivers /\ m.sent \in Sendable /\ m.sent.kind \in {"own", "foreign", "sync"}
  BY DEF IInv, WireOK, Sendable
<1>2. p = Deserialize(Bytes(m.sent))
  BY <1>1, HeardIs
<1>3. UNCHANGED <<ids, stream, budget>> /\ wire' \subseteq wire
  BY DEF Receive
<1>4. shown' = IF taken THEN [shown EXCEPT ![h][p.universe] = now] ELSE shown
  BY DEF Receive
<1>5. ASSUME taken PROVE p.source_name # "desk"
  <2>1. CASE m.sent.kind = "own"
    <3>1. Bytes(m.sent) = Serialize(m.sent.packet)
      BY <2>1 DEF Bytes
    <3>2. PICK g \in Hosts : m.sent.packet.source_name = NameOf[g]
      BY <2>1 DEF IInv, WireOK
    <3>3. p.source_name = NameOf[g]
      BY <1>2, <1>5, <3>1, <3>2, NameArrives
    <3> QED BY <3>3, NamesAssumption
  <2>2. CASE m.sent.kind = "foreign"
    <3>1. Bytes(m.sent) = ForeignPacket(m.sent.packet)
      BY <2>2 DEF Bytes
    <3>2. m.sent.packet.dmx_data.length = 25 /\ m.sent.packet.dmx_data.startCode = 221
      BY <2>2 DEF IInv, WireOK, Data
    <3>3. p.dmx_data.startCode = 221
      BY <1>2, <1>5, <3>1, <3>2, StartCodeArrives
    <3> QED BY <1>5, <3>3 DEF Takes
  <2>3. CASE m.sent.kind = "sync"
    <3>1. Bytes(m.sent) = SerializeSync(m.sent.packet.sequence_number, m.sent.packet.universe, m.sent.packet.cid)
      BY <2>3 DEF Bytes
    <3> QED BY <1>2, <1>5, <3>1, SyncIsNone
  <2> QED BY <1>1, <2>1, <2>2, <2>3
<1>6. ASSUME taken
      PROVE  /\ p.universe \in Ports(h) /\ p.universe <= 511 /\ p.universe \in ToSet(ids[h])
             /\ now.universe = p.universe /\ now.name \notin {NameOf[h], "desk"}
  <2>1. /\ p.source_name # NameOf[h] /\ p.universe \in Subscribed(h)
        /\ p.universe <= 511 /\ p.universe \in Ports(h)
    BY <1>6, Zenon DEF Takes, IsPort
  <2>2. p.universe \in ToSet(ids[h])
    BY <2>1, SubscribedAre
  <2>3. now.name = p.source_name /\ now.universe = p.universe
    OBVIOUS
  <2> QED BY <1>5, <1>6, <2>1, <2>2, <2>3
<1> HIDE DEF p, now, taken
<1>7. shown = [g \in Receivers |-> [port \in Ports(g) |-> shown[g][port]]]
  BY DEF IInv, ShownOK
<1>8. ASSUME taken PROVE ShownOK'
  <2> DEFINE at == p.universe
  <2>1. shown' = [shown EXCEPT ![h][at] = now] /\ at \in Ports(h)
    BY <1>4, <1>6, <1>8
  <2> HIDE DEF at, h
  <2>2. shown' = [g \in Receivers |-> [port \in Ports(g) |-> shown'[g][port]]]
    BY <1>7, <2>1
  <2>3. \A g \in Receivers : \A port \in Ports(g) :
          shown'[g][port] = IF g = h /\ port = at THEN now ELSE shown[g][port]
    BY <1>7, <2>1
  <2>4. at <= 511 /\ at \in ToSet(ids[h]) /\ now.universe = at /\ now.name \notin {NameOf[h], "desk"}
    BY <1>6, <1>8 DEF at
  <2>5. ASSUME NEW g \in Receivers, NEW port \in Ports(g)
        PROVE  /\ shown'[g][port] # Nothing => /\ shown'[g][port].universe = port /\ port <= 511
                                               /\ port \in ToSet(ids[g])
               /\ shown'[g][port].name \notin {NameOf[g], "desk"}
    <3>1. CASE g = h /\ port = at
      BY <2>3, <2>4, <3>1
    <3>2. CASE ~(g = h /\ port = at)
      BY <2>3, <3>2 DEF IInv, ShownOK
    <3> QED BY <3>1, <3>2
  <2> QED BY <1>3, <2>2, <2>5, SamePorts DEF ShownOK
<1>9. ASSUME ~taken PROVE ShownOK'
  BY <1>3, <1>4, <1>9, ShownSame
<1>10. StreamsOK'
  BY <1>3, StreamsSame DEF IInv
<1>11. WireOK'
  BY <1>3, WireShrinks
<1> QED BY <1>3, <1>8, <1>9, <1>10, <1>11 DEF IInv

LEMMA LoseStep ==
    ASSUME IInv, NEW m \in wire, Lose(m)
    PROVE  IInv'
<1>1. Spend("faults") /\ UNCHANGED <<ids, stream, shown>> /\ wire' \subseteq wire
  BY DEF Lose
<1>2. budget' \in [sends : 0..MaxSends, terminations : Nat, faults : Nat] /\ budget'.sends = budget.sends
  BY <1>1, SpendKeeps
<1> QED BY <1>1, <1>2, StreamsSame, ShownSame, WireShrinks DEF IInv

(* Every step keeps the invariant. *)
LEMMA StepInv == IInv /\ [Next]_vars => IInv'
<1> SUFFICES ASSUME IInv, [Next]_vars PROVE IInv'
  OBVIOUS
<1>1. ASSUME NEW h \in Hosts, NEW id \in Served(h), NEW channels \in Frames, SendDmxData(h, id, channels) PROVE IInv'
  BY <1>1, SendStep
<1>2. ASSUME NEW h \in Hosts, NEW id \in Served(h), FrameSent(h, id) PROVE IInv'
  BY <1>2, FrameSentStep
<1>3. ASSUME NEW h \in Hosts, NEW id \in Served(h), Retransmit(h, id) PROVE IInv'
  BY <1>3, RetransmitStep
<1>4. ASSUME NEW h \in Hosts, NEW id \in Served(h), Terminate(h, id) PROVE IInv'
  BY <1>4, TerminateStep
<1>5. ASSUME NEW h \in Hosts, NEW id \in Served(h), StreamEnds(h, id) PROVE IInv'
  BY <1>5, StreamEndsStep
<1>6. ASSUME NEW h \in Hosts, NEW id \in Served(h), Foreign(h, id) PROVE IInv'
  BY <1>6, ForeignStep
<1>7. ASSUME NEW m \in wire, Receive(m) PROVE IInv'
  BY <1>7, ReceiveStep
<1>8. ASSUME NEW m \in wire, Lose(m) PROVE IInv'
  BY <1>8, LoseStep
<1>9. CASE UNCHANGED vars
  <2>1. UNCHANGED <<ids, stream, wire, shown, budget>>
    BY <1>9 DEF vars
  <2> QED BY <2>1, StreamsSame, ShownSame, WireShrinks DEF IInv
<1> QED BY <1>1, <1>2, <1>3, <1>4, <1>5, <1>6, <1>7, <1>8, <1>9 DEF Next

LEMMA Invariance == Spec => []IInv
<1> QED BY InitInv, StepInv, PTL DEF Spec

-----------------------------------------------------------------------------
(* A set of positions that is not empty has a last one. *)
LEMMA LastPosition ==
    ASSUME NEW n \in Nat, NEW I \in SUBSET (1..n), I # {}
    PROVE  Max(I) \in I
<1> DEFINE T == {n - i : i \in I}
           R == OpToRel(<, Nat)
<1>1. PICK x \in T : \A y \in T : ~(<<y, x>> \in R)
  <2>1. T \subseteq Nat /\ T # {}
    OBVIOUS
  <2>2. IsWellFoundedOn(R, Nat)
    BY NatLessThanWellFounded
  <2> HIDE DEF R, T
  <2> QED BY <2>1, <2>2, WFMin
<1>2. PICK m \in I : x = n - m
  OBVIOUS
<1>3. \A i \in I : m >= i
  <2> SUFFICES ASSUME NEW i \in I PROVE m >= i
    OBVIOUS
  <2>1. n - i \in T /\ n - i \in Nat /\ n - m \in Nat
    OBVIOUS
  <2>2. ~(n - i < n - m)
    BY <1>1, <1>2, <2>1 DEF OpToRel
  <2> QED BY <2>2
<1> QED BY <1>3 DEF Max

(* Where there are as many ports as universes, no two universes have one port. *)
LEMMA PortsApart ==
    ASSUME ids \in Setups, NEW h \in Hosts, Cardinality(Ports(h)) = Cardinality(ToSet(ids[h]))
    PROVE  \A a, b \in ToSet(ids[h]) : PortOf(a) = PortOf(b) => a = b
<1> DEFINE S == ToSet(ids[h])
           f == [id \in S |-> PortOf(id)]
           g == [i \in 1..Len(ids[h]) |-> ids[h][i]]
<1>1. ids[h] \in Seq(Int)
  BY SetupsAssumption
<1>2. Len(ids[h]) \in Nat /\ S = {ids[h][i] : i \in 1..Len(ids[h])}
  BY <1>1 DEF ToSet
<1>3. IsFiniteSet(S)
  <2>1. g \in Surjection(1..Len(ids[h]), S)
    BY <1>2 DEF Surjection
  <2>2. IsFiniteSet(1..Len(ids[h]))
    <3> DEFINE n == Len(ids[h])
    <3>1. n \in Int /\ 1 \in Int
      BY <1>2
    <3> HIDE DEF n
    <3>2. IsFiniteSet(1..n)
      BY <3>1, FS_Interval
    <3> QED BY <3>2 DEF n
  <2> QED BY <2>1, <2>2, FS_Surjection
<1> HIDE DEF S
<1>4. Ports(h) = {PortOf(id) : id \in S}
  BY DEF Ports, S
<1>5. f \in Surjection(S, Ports(h))
  BY <1>4 DEF Surjection
<1>6. f \in Injection(S, Ports(h))
  BY <1>3, <1>5, FS_Surjection DEF S
<1>7. \A a \in S : f[a] = PortOf(a)
  OBVIOUS
<1> HIDE DEF f
<1>8. \A a, b \in S : f[a] = f[b] => a = b
  BY <1>6 DEF Injection, IsInjective
<1> QED BY <1>7, <1>8 DEF S

-----------------------------------------------------------------------------
(* The streams, the packets on the wire and their contents are of their kinds. *)
THEOREM TypeCorrect == Spec => []TypeOK
<1>1. IInv => TypeOK
  <2> SUFFICES ASSUME IInv PROVE TypeOK
    OBVIOUS
  <2>1. ASSUME NEW h \in Hosts, NEW id \in Served(h)
        PROVE  /\ stream[h][id] \in StreamStates
               /\ stream[h][id].sending \in 0..MaxSends
    <3>1. stream[h][id] \in StreamStates /\ stream[h][id].sending + budget.sends <= MaxSends
      BY DEF IInv, StreamsOK
    <3>2. stream[h][id].sending \in Nat /\ budget.sends \in Nat
      BY <3>1 DEF IInv, StreamStates
    <3> QED BY <3>1, <3>2, Numbers
  <2>2. ids \in Setups /\ wire \subseteq [to : Receivers, sent : Sendable]
    BY DEF IInv, WireOK
  <2> QED BY <2>1, <2>2 DEF TypeOK, StreamStates
<1> QED BY <1>1, Invariance, PTL

(* What a host shows at a port of its own was sent for the universe it has   *)
(* there, also where port addresses are the rest of larger universe ids.     *)
THEOREM DataFindTheirUniverse == Spec => []DataReachTheirUniverse
<1>1. IInv => DataReachTheirUniverse
  <2> SUFFICES ASSUME IInv, NEW h \in Receivers, NEW port \in Ports(h), shown[h][port] # Nothing,
                      Cardinality(Ports(h)) = Cardinality(ToSet(ids[h]))
               PROVE  shown[h][port].universe = UniverseAt(h, port)
    BY DEF DataReachTheirUniverse
  <2> DEFINE I == {i \in 1..Len(ids[h]) : PortOf(ids[h][i]) = port}
  <2>1. h \in Hosts /\ ids \in Setups
    BY ReceiversAssumption DEF IInv
  <2>2. shown[h][port].universe = port /\ port <= 511 /\ port \in ToSet(ids[h])
    BY DEF IInv, ShownOK
  <2>3. PortOf(port) = port
    BY <2>2 DEF PortOf
  <2>4. ids[h] \in Seq(Int) /\ Len(ids[h]) \in Nat /\ ToSet(ids[h]) = {ids[h][i] : i \in 1..Len(ids[h])}
    <3>1. ids[h] \in Seq(Int)
      BY <2>1, SetupsAssumption
    <3> QED BY <3>1 DEF ToSet
  <2>5. I # {} /\ I \in SUBSET (1..Len(ids[h]))
    BY <2>2, <2>3, <2>4
  <2>6. Max(I) \in I
    BY <2>4, <2>5, LastPosition
  <2>7. UniverseAt(h, port) = ids[h][Max(I)]
    BY <2>5 DEF UniverseAt, SelectLastInSeq
  <2>8. ids[h][Max(I)] \in ToSet(ids[h]) /\ PortOf(ids[h][Max(I)]) = PortOf(port)
    BY <2>3, <2>4, <2>6
  <2> QED BY <2>1, <2>2, <2>7, <2>8, PortsApart
<1> QED BY <1>1, Invariance, PTL

(* A host never shows data of its own name, however late the multicast       *)
(* returns them, nor what another controller sends under another start code. *)
THEOREM OthersAreShown == Spec => []OnlyOthersAreShown
<1>1. IInv => OnlyOthersAreShown
  BY DEF IInv, ShownOK, OnlyOthersAreShown
<1> QED BY <1>1, Invariance, PTL
=============================================================================
