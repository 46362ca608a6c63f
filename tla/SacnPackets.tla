----------------------------- MODULE SacnPackets -----------------------------
(***************************************************************************)
(* The packets of sACN (server/sacn_packet.py), as written by serialize    *)
(* and as read by deserialize.                                             *)
(*                                                                         *)
(* A packet on the wire is its size and its fields, each with its offset   *)
(* and width; a reader that looks for a field where none of that width     *)
(* begins gets Torn bytes.  DMX data are their length, their start code    *)
(* and a value that stands for the channels.  Names fit into 63 bytes.     *)
(***************************************************************************)
EXTENDS Integers, Sequences, FiniteSets, SequencesExt, FiniteSetsExt

CONSTANTS
    SeqSize,     \* the sequence numbers: 256
    Torn,       \* bytes that are no field of their own
    Dark        \* the value of channels that are all zero

ASSUME SeqSizeAssumption == SeqSize \in Nat /\ SeqSize > 1

NoPacket == [size |-> 0, fields |-> {}]
PID == "ASC-E1.17"
LongestData == 513

Data(length, startCode, channels) == [length |-> length, startCode |-> startCode, channels |-> channels]
DarkData == Data(LongestData, 0, Dark)

-----------------------------------------------------------------------------
(* The layers of a packet up to its DMX data, as <<name, width>>. *)
Layout ==
    <<<<"preamble", 2>>, <<"postamble", 2>>, <<"pid", 12>>, <<"root_length", 2>>, <<"root_vector", 4>>,
      <<"cid", 16>>, <<"framing_length", 2>>, <<"framing_vector", 4>>, <<"source_name", 64>>,
      <<"priority", 1>>, <<"reserved", 2>>, <<"sequence_number", 1>>, <<"options", 1>>, <<"universe", 2>>,
      <<"dmp_length", 2>>, <<"dmp_vector", 1>>, <<"type", 1>>, <<"first", 2>>, <<"increment", 2>>, <<"count", 2>>>>

(* The layers as deserialize goes through them. *)
LayoutRead ==
    <<<<"preamble", 2>>, <<"postamble", 2>>, <<"pid", 12>>, <<"root_length", 2>>, <<"root_vector", 4>>,
      <<"cid", 16>>, <<"framing_length", 2>>, <<"framing_vector", 4>>, <<"source_name", 64>>,
      <<"priority", 1>>, <<"reserved", 2>>, <<"sequence_number", 1>>, <<"options", 1>>, <<"universe", 2>>,
      <<"dmp_length", 2>>, <<"dmp_vector", 1>>, <<"type", 1>>, <<"first", 2>>, <<"increment", 2>>, <<"count", 2>>>>

(* Where each field begins, and, last, where the data do. *)
Offsets(layout) ==
    LET at[i \in 1..(Len(layout) + 1)] == IF i = 1 THEN 0 ELSE at[i - 1] + layout[i - 1][2]
    IN  at
WrittenAt == Offsets(Layout)
ReadAt == Offsets(LayoutRead)
HeaderSize == WrittenAt[Len(Layout) + 1]

OptionBits == [preview_data |-> 7, stream_terminated |-> 6, force_synchronization |-> 5]
OptionsByte(options) == MapThenSumSet(LAMBDA o : 2^OptionBits[o], options)
OptionsOf(byte) == {o \in DOMAIN OptionBits : (byte \div 2^OptionBits[o]) % 2 = 1}

(* The fields and the data one after the other. *)
Written(values, data) ==
    [size |-> HeaderSize + data.length,
     fields |-> {[at |-> WrittenAt[i], width |-> Layout[i][2], value |-> values[Layout[i][1]]] : i \in DOMAIN Layout}
                \cup {[at |-> HeaderSize, width |-> data.length, value |-> data]}]

Lengths(dmp) == [dmp_length |-> 28672 + dmp, framing_length |-> 28672 + 77 + dmp, root_length |-> 28672 + 99 + dmp]

(* The values of the fields of a packet; the data have the start code given.  *)
FieldsOf(p) ==
    [n \in {Layout[i][1] : i \in DOMAIN Layout} |->
        CASE n = "preamble" -> 16
          [] n \in {"postamble", "reserved", "first"} -> 0
          [] n = "pid" -> PID
          [] n = "root_vector" -> 4
          [] n = "framing_vector" -> 2
          [] n = "dmp_vector" -> 2
          [] n = "type" -> 161
          [] n = "increment" -> 1
          [] n = "options" -> OptionsByte(p.options)
          [] n = "count" -> p.dmx_data.length
          [] n \in {"root_length", "framing_length", "dmp_length"} -> Lengths(10 + p.dmx_data.length)[n]
          [] OTHER -> p[n]]

(* SacnPacket.serialize: the start code is zero. *)
Serialize(p) == Written(FieldsOf(p), [p.dmx_data EXCEPT !.startCode = 0])

(* The same packet of a controller that has other start codes. *)
ForeignPacket(p) == Written(FieldsOf(p), p.dmx_data)

(* SacnSyncPacket.serialize, which has no data. *)
SerializeSync(sequence, address, cid) ==
    LET p == [cid |-> cid, source_name |-> "", priority |-> 0, sequence_number |-> sequence, options |-> {},
              universe |-> address, dmx_data |-> Data(0, 0, Dark)]
    IN  Written([FieldsOf(p) EXCEPT !.framing_vector = 1, !.dmp_length = 28672 + 11,
                                    !.framing_length = 28672 + 88, !.root_length = 28672 + 126],
                p.dmx_data)

(* The assertions of SacnPacket.__post_init__ on what deserialize has found.  *)
Valid(p) ==
    /\ p.priority \in 0..200
    /\ p.universe \in 1..63999
    /\ p.sequence_number \in 0..(SeqSize - 1)
    /\ p.dmx_data.length <= LongestData

(* SacnPacket.deserialize, or no packet where it raises an error. *)
Deserialize(w) ==
    LET there(at, width) == {f \in w.fields : f.at = at /\ f.width = width}
        read(at, width) == IF there(at, width) = {} THEN Torn ELSE (CHOOSE f \in there(at, width) : TRUE).value
        got == [n \in {LayoutRead[i][1] : i \in DOMAIN LayoutRead} |->
                  LET i == CHOOSE j \in DOMAIN LayoutRead : LayoutRead[j][1] = n
                  IN  read(ReadAt[i], LayoutRead[i][2])]
        data == read(ReadAt[Len(LayoutRead) + 1], got.count)
        packet == [source_name |-> got.source_name, priority |-> got.priority, universe |-> got.universe,
                   sequence_number |-> got.sequence_number, options |-> OptionsOf(got.options), cid |-> got.cid,
                   dmx_data |-> IF data.length = 0 THEN DarkData ELSE data]
    IN  IF w.size < 126 \/ got.pid # PID \/ got.root_vector # 4 \/ got.framing_vector # 2 \/ got.dmp_vector # 2
        THEN NoPacket
        ELSE IF Valid(packet) THEN packet ELSE NoPacket
=============================================================================
