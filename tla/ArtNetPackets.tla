--------------------------- MODULE ArtNetPackets ---------------------------
(***************************************************************************)
(* The packets of Art-Net (server/__init__.py), as written by serialize    *)
(* and as read by deserialize.                                             *)
(*                                                                         *)
(* A packet on the wire is its opcode, its size and its fields, each with  *)
(* its offset, form and width.  A reader that looks for a field where none *)
(* of that form and width begins gets Torn bytes.  Every value is a        *)
(* sequence of numbers: a number is <<n>>, an IP address one number per    *)
(* byte, a text the number of its characters.  Flags are the set of those  *)
(* that are up.  A packet in memory is a record of its attributes.         *)
(***************************************************************************)
EXTENDS PortAddress, Sequences, FiniteSetsExt

Torn == <<-1>>      \* bytes that are no field of their own
Nuls == <<-2>>      \* the string of NULs that an empty text is read as
NoPacket == [op |-> "none", size |-> 0, fields |-> <<>>]   \* serialize raises

Header == 10        \* "Art-Net" with its NUL, and the opcode
PROTOCOL_VERSION == <<14>>

F(name, form, width) == [name |-> name, form |-> form, width |-> width]
U8(name) == F(name, "byte", 1)
Lsb(name) == F(name, "lsb", 2)
Msb(name) == F(name, "msb", 2)
Raw(name, width) == F(name, "raw", width)
Text(name, width) == F(name, "text", width)
Gap(width) == F("gap", "gap", width)

(* What attributes hold: bytes, numbers of two bytes, texts below a width. *)
Octet == 0..255
Single(S) == [1..1 -> S]
Octets(n) == [1..n -> Octet]
Word == {v \in Single(Nat) : v[1] < 65536}
TextBelow(width) == Single(0..width - 1)
Version14 == {PROTOCOL_VERSION}

-----------------------------------------------------------------------------
(* _append_int_lsb, _append_int_msb and _append_str. *)
Appended(field, v) ==
    CASE field.form \in {"lsb", "msb"} -> <<v[1] % 65536>>
      [] field.form = "text" -> <<IF v[1] < field.width THEN v[1] ELSE field.width - 1>>
      [] OTHER -> v

(* A bytearray takes bytes only. *)
Fits(field, v) == field.form \in {"byte", "raw"} => \A i \in DOMAIN v : v[i] \in 0..255

(* The packet that serialize appends field by field. *)
Write(op, layout, p) ==
    LET step[i \in 0..Len(layout)] ==
            IF i = 0 THEN [at |-> Header, fields |-> <<>>]
            ELSE LET s == step[i - 1]
                     field == layout[i]
                 IN  [at |-> s.at + field.width,
                      fields |-> IF field.form = "gap" THEN s.fields
                                 ELSE Append(s.fields,
                                             [at |-> s.at, form |-> field.form, width |-> field.width,
                                              value |-> Appended(field, p[field.name])])]
        last == step[Len(layout)]
    IN  IF \A i \in DOMAIN layout : layout[i].form = "gap" \/ Fits(layout[i], p[layout[i].name])
        THEN [op |-> op, size |-> last.at, fields |-> last.fields]
        ELSE NoPacket

(* _pop, _take, _consume_int_*, _consume_hex_number_* and _consume_str. *)
Consumed(field, w, at) ==
    LET there == {i \in DOMAIN w.fields : w.fields[i].at = at /\ w.fields[i].form = field.form
                                             /\ w.fields[i].width = field.width}
    IN  IF there = {} THEN Torn
        ELSE LET v == w.fields[CHOOSE i \in there : TRUE].value
             IN  IF field.form = "text" /\ v = <<0>> THEN Nuls ELSE v

(* The values deserialize finds.  A field the packet is too short for is left *)
(* out and the next one is looked for in its place.                           *)
Read(layout, w) ==
    LET step[i \in 0..Len(layout)] ==
            IF i = 0 THEN [at |-> Header, got |-> [n \in {} |-> <<>>]]
            ELSE LET s == step[i - 1]
                     field == layout[i]
                     end == s.at + field.width
                 IN  IF field.form = "gap" THEN [s EXCEPT !.at = end]
                     ELSE IF end > w.size THEN s
                     ELSE [at |-> end,
                           got |-> [n \in DOMAIN s.got \cup {field.name} |->
                                      IF n = field.name THEN Consumed(field, w, s.at) ELSE s.got[n]]]
    IN  step[Len(layout)].got

(* A record with the values that were read in place of its own. *)
With(record, got) ==
    [n \in DOMAIN record \cup DOMAIN got |-> IF n \in DOMAIN got THEN got[n] ELSE record[n]]

Bit(n, k) == (n \div 2^k) % 2 = 1
Number1(b) == IF b THEN 1 ELSE 0
FlagByte(bits, up) ==
    LET bit(k) == 2^k * Number1(\E n \in up : bits[n] = k)
    IN  <<bit(0) + bit(1) + bit(2) + bit(3) + bit(4) + bit(5) + bit(6) + bit(7)>>
Flags(bits, byte) == {n \in DOMAIN bits : Bit(byte[1], bits[n])}

-----------------------------------------------------------------------------
(* ArtPoll. *)
PollBits == [targeted |-> 5, vlc |-> 4, broadcast |-> 3, diagnostics |-> 2, notify |-> 1]
ArtPoll == [version |-> PROTOCOL_VERSION, flags |-> {"broadcast"}, priority |-> <<16>>,
            top |-> [net |-> 15, sub |-> 15, universe |-> 409],
            bottom |-> [net |-> 0, sub |-> 0, universe |-> 0]]

DiagnosticsPriority == {0, 16, 64, 128, 224, 240}

(* Bounds come with the targeted mode only. *)
Polls ==
    {p \in [version : Version14, flags : SUBSET DOMAIN PollBits, priority : Single(DiagnosticsPriority),
            top : PortAddresses, bottom : PortAddresses] :
        "targeted" \in p.flags \/ (p.top = ArtPoll.top /\ p.bottom = ArtPoll.bottom)}

(* The setter of target_port_bounds, which takes the lower bound twice. *)
WithTarget(p, bounds) ==
    [p EXCEPT !.bottom = bounds[1], !.top = bounds[1], !.flags = @ \cup {"targeted"}]

PollWritten == <<Msb("version"), U8("flags"), U8("priority"), Msb("top"), Msb("bottom")>>
PollRead == <<Msb("version"), U8("flags"), U8("priority"), Msb("top"), Msb("bottom")>>

WritePoll(p) ==
    Write("poll", PollWritten,
          [p EXCEPT !.flags = FlagByte(PollBits, p.flags),
                    !.top = <<Number(@)>>, !.bottom = <<Number(@)>>])

ReadPoll(w) ==
    LET got == Read(PollRead, w)
        p == [With(ArtPoll, got) EXCEPT !.flags = Flags(PollBits, @),
                                        !.top = Parse(@[1]), !.bottom = Parse(@[1])]
    IN  IF "targeted" \in p.flags THEN p
        ELSE [p EXCEPT !.top = ArtPoll.top, !.bottom = ArtPoll.bottom]

-----------------------------------------------------------------------------
(* Port: the flags of its type, its input and its outputs. *)
TypeBits == [output |-> 7, input |-> 6]
GoodInputBits == [data_received |-> 7, test |-> 6, sips |-> 5, text |-> 4, disabled |-> 3, errors |-> 2]
GoodOutputABits == [transmitted |-> 7, test |-> 6, sips |-> 5, text |-> 4, merging |-> 3,
                    short |-> 2, ltp |-> 1, sacn |-> 0]
GoodOutputBBits == [rdm |-> 7, continuous |-> 6]

Port == [direction |-> {}, type |-> 0, good_input |-> {}, good_output_a |-> {},
         sw_in |-> 0, sw_out |-> 0, good_output_b |-> {"continuous"}]

NodePorts ==
    [direction : SUBSET DOMAIN TypeBits, type : 0..6, good_input : SUBSET DOMAIN GoodInputBits,
     good_output_a : SUBSET DOMAIN GoodOutputABits, sw_in : Octet, sw_out : Octet,
     good_output_b : SUBSET DOMAIN GoodOutputBBits]

PortTypes(port) == FlagByte(TypeBits, port.direction)[1] + port.type

(* The port that is read from the i-th byte of each field. *)
PortFrom(got, i) ==
    [direction |-> Flags(TypeBits, <<got.port_types[i]>>), type |-> got.port_types[i] % 64,
     good_input |-> Flags(GoodInputBits, <<got.good_input[i]>>),
     good_output_a |-> Flags(GoodOutputABits, <<got.good_output_a[i]>>),
     sw_in |-> got.sw_in[i], sw_out |-> got.sw_out[i],
     good_output_b |-> Flags(GoodOutputBBits,
                             IF "good_output_b" \in DOMAIN got THEN <<got.good_output_b[i]>> ELSE <<0>>)]

-----------------------------------------------------------------------------
(* ArtPollReply. *)
Status2Bits == [web |-> 0, dhcp_configured |-> 1, dhcp_capable |-> 2, address15 |-> 3,
                to_sacn |-> 4, squawking |-> 5, style |-> 6, rdm |-> 7]
Status3Bits == [failover |-> 5, llrp |-> 4]

ArtPollReply ==
    [source_ip |-> <<0, 0, 0, 0>>, port |-> <<6454>>, firmware_version |-> <<0>>,
     net_switch |-> <<0>>, sub_switch |-> <<0>>, oem |-> <<0>>, ubea |-> <<0>>,
     indicator |-> 0, authority |-> 0, rom |-> TRUE, rdm |-> FALSE, ubea_present |-> FALSE,
     esta |-> <<0>>, short_name |-> <<8>>, long_name |-> <<29>>, node_report |-> <<0>>,
     ports |-> <<Port, Port, Port, Port>>, acn_priority |-> <<100>>,
     sw_macro_bitmap |-> <<0>>, sw_remote_bitmap |-> <<0>>, style |-> <<1>>,
     mac_address |-> <<0, 0, 0, 0, 0, 0>>, bind_ip |-> <<0, 0, 0, 0>>, bind_index |-> <<1>>,
     status2 |-> {"address15"}, failsafe |-> 0, status3 |-> {"llrp"}, direction |-> FALSE,
     default_resp_uid |-> <<0, 0, 0, 0, 0, 0>>]

(* The constructor fills up the list of ports it is given. *)
FourPorts(ports) == [i \in 1..4 |-> IF i <= Len(ports) THEN ports[i] ELSE Port]

(* The replies a node may write: its ports come first, and there is an UID if *)
(* there is LLRP.                                                             *)
PollReplies ==
    {p \in [source_ip : Octets(4), port : {<<6454>>}, firmware_version : Word, net_switch : Octets(1),
            sub_switch : Octets(1), oem : Word, ubea : Octets(1), indicator : 0..3, authority : 0..2,
            rom : BOOLEAN, rdm : BOOLEAN, ubea_present : BOOLEAN, esta : Word, short_name : TextBelow(18),
            long_name : TextBelow(64), node_report : TextBelow(64), ports : [1..4 -> NodePorts],
            acn_priority : Octets(1), sw_macro_bitmap : Octets(1), sw_remote_bitmap : Octets(1),
            style : Single(0..6), mac_address : Octets(6), bind_ip : Octets(4), bind_index : Octets(1),
            status2 : SUBSET DOMAIN Status2Bits, failsafe : 0..3, status3 : SUBSET DOMAIN Status3Bits,
            direction : BOOLEAN, default_resp_uid : Octets(6)] :
        /\ \E count \in 0..4 : \A i \in 1..4 : IF i <= count THEN p.ports[i].direction # {} ELSE p.ports[i] = Port
        /\ "llrp" \in p.status3 \/ p.default_resp_uid = <<0, 0, 0, 0, 0, 0>>}

ReplyWritten ==
    <<Raw("source_ip", 4), Lsb("port"), Msb("firmware_version"), U8("net_switch"), U8("sub_switch"),
      Msb("oem"), U8("ubea"), U8("status1"), Lsb("esta"), Text("short_name", 18),
      Text("long_name", 64), Text("node_report", 64), Msb("port_count"), Raw("port_types", 4),
      Raw("good_input", 4), Raw("good_output_a", 4), Raw("sw_in", 4), Raw("sw_out", 4),
      U8("acn_priority"), U8("sw_macro_bitmap"), U8("sw_remote_bitmap"), Gap(3), U8("style"),
      Raw("mac_address", 6), Raw("bind_ip", 4), U8("bind_index"), U8("status2"),
      Raw("good_output_b", 4), U8("status3"), Raw("default_resp_uid", 6), Gap(15)>>

(* The byte that ends on (supports_rdm < 1) + ubea_present. *)
Status1(p) == 64 * p.indicator + 16 * p.authority + 4 * Number1(p.rom) + Number1(~p.rdm) + Number1(p.ubea_present)

(* The byte whose last term is (supports_switching_port_direction < 3). *)
Status3(p) == 64 * p.failsafe + FlagByte(Status3Bits, p.status3)[1] + 1

WriteReply(p) ==
    LET bytes(Of(_)) == [i \in 1..4 |-> Of(p.ports[i])]
    IN  Write("pollReply", ReplyWritten,
          With([p EXCEPT !.ubea = IF p.ubea_present THEN @ ELSE <<0>>,
                         !.status2 = FlagByte(Status2Bits, @), !.status3 = <<Status3(p)>>,
                         !.default_resp_uid = IF "llrp" \in p.status3 THEN @ ELSE <<0, 0, 0, 0, 0, 0>>],
               [status1 |-> <<Status1(p)>>,
                port_count |-> <<Cardinality({i \in 1..4 : p.ports[i].direction # {}})>>,
                port_types |-> bytes(PortTypes),
                good_input |-> bytes(LAMBDA q : FlagByte(GoodInputBits, q.good_input)[1]),
                good_output_a |-> bytes(LAMBDA q : FlagByte(GoodOutputABits, q.good_output_a)[1]),
                sw_in |-> bytes(LAMBDA q : q.sw_in), sw_out |-> bytes(LAMBDA q : q.sw_out),
                good_output_b |-> bytes(LAMBDA q : FlagByte(GoodOutputBBits, q.good_output_b)[1])]))

(* Art-Net 2 ends after sw_remote_bitmap. *)
ReplyReadArtNet2 ==
    <<Raw("source_ip", 4), Lsb("port"), Msb("firmware_version"), U8("net_switch"), U8("sub_switch"),
      Msb("oem"), U8("ubea"), U8("status1"), Lsb("esta"), Text("short_name", 18),
      Text("long_name", 64), Text("node_report", 64), Msb("port_count"), Raw("port_types", 4),
      Raw("good_input", 4), Raw("good_output_a", 4), Raw("sw_in", 4), Raw("sw_out", 4),
      U8("acn_priority"), U8("sw_macro_bitmap"), U8("sw_remote_bitmap")>>

ReplyReadExtensions ==
    <<Gap(3), U8("style"), Raw("mac_address", 6), Raw("bind_ip", 4), U8("bind_index"), U8("status2"),
      Raw("good_output_b", 4), U8("status3"), Raw("default_resp_uid", 6)>>

ReadReply(w) ==
    LET got == Read(ReplyReadArtNet2 \o ReplyReadExtensions, w)
        p == With(ArtPollReply, got)
        status1 == p.status1[1]
        has(name) == name \in DOMAIN got
    IN  [n \in DOMAIN ArtPollReply |->
           CASE n = "indicator" -> 2 * Number1(Bit(status1, 7))
             [] n = "authority" -> 2 * Number1(Bit(status1, 5))
             [] n = "rom" -> Bit(status1, 2)
             [] n = "rdm" -> Bit(status1, 1)
             [] n = "ubea_present" -> Bit(status1, 0)
             [] n = "ports" -> [i \in 1..4 |-> IF i <= p.port_count[1] THEN PortFrom(got, i) ELSE Port]
             [] n = "status2" -> IF has(n) THEN Flags(Status2Bits, p.status2) ELSE p.status2
             [] n = "status3" -> (IF has(n) THEN Flags(Status3Bits, p.status3) ELSE p.status3)
                                   \cup (IF has("default_resp_uid") THEN {"llrp"} ELSE {})
             [] n = "failsafe" -> IF has("status3") THEN p.status3[1] \div 64 ELSE p.failsafe
             [] n = "direction" -> has("status3") /\ Bit(p.status3[1], 3)
             [] OTHER -> p[n]]
-----------------------------------------------------------------------------
(* ArtIpProg and ArtIpProgReply. *)
IpProgBits == [program |-> 7, dhcp |-> 6, gateway |-> 4, default |-> 3, ip |-> 2, subnet |-> 1, port |-> 0]

IpProgs == [version : Version14, command : SUBSET DOMAIN IpProgBits,
            prog_ip : Octets(4), prog_subnet : Octets(4), prog_gateway : Octets(4)]

IpProgWritten == <<Msb("version"), Gap(2), U8("command"), Gap(1), Raw("prog_ip", 4),
                   Raw("prog_subnet", 4), Gap(2), Raw("prog_gateway", 4), Gap(4)>>
IpProgRead == <<Msb("version"), Gap(2), U8("command"), Gap(1), Raw("prog_ip", 4),
                Raw("prog_subnet", 4), Gap(2), Raw("prog_gateway", 4), Gap(4)>>

WriteIpProg(p) == Write("ipProg", IpProgWritten, [p EXCEPT !.command = FlagByte(IpProgBits, @)])
ReadIpProg(w) == LET got == Read(IpProgRead, w) IN [got EXCEPT !.command = Flags(IpProgBits, @)]

IpProgReplies == [version : Version14, dhcp_enabled : BOOLEAN,
                  prog_ip : Octets(4), prog_subnet : Octets(4), prog_gateway : Octets(4)]

IpProgReplyWritten == <<Msb("version"), Gap(4), Raw("prog_ip", 4), Raw("prog_subnet", 4), Gap(2),
                        U8("dhcp_enabled"), Gap(1), Raw("prog_gateway", 4), Gap(2)>>
IpProgReplyRead == <<Msb("version"), Gap(4), Raw("prog_ip", 4), Raw("prog_subnet", 4), Gap(2),
                     U8("dhcp_enabled"), Gap(1), Raw("prog_gateway", 4), Gap(2)>>

WriteIpProgReply(p) ==
    Write("ipProgReply", IpProgReplyWritten, [p EXCEPT !.dhcp_enabled = <<64 * Number1(@)>>])
ReadIpProgReply(w) ==
    LET got == Read(IpProgReplyRead, w) IN [got EXCEPT !.dhcp_enabled = Bit(@[1], 6)]

-----------------------------------------------------------------------------
(* ArtAddress: values with an action, and a command with a port index. *)
ValueAndAction(va) ==
    IF va.action = "reset" THEN 0
    ELSE IF va.action = "write" /\ va.value < 128 THEN 128 + va.value ELSE va.value

(* The value is read with the bit of its action. *)
FromValueAndAction(b) ==
    [value |-> b, action |-> IF b = 0 THEN "reset" ELSE IF Bit(b, 7) THEN "write" ELSE "ignore"]

(* apply_port_index: the index goes into the commands that have none. *)
WithPortIndex(command, index) == IF command >= 16 THEN command ELSE command + index
FromPortIndex(b) == IF b >= 16 THEN [command |-> b - (b % 16), index |-> b % 16]
                    ELSE [command |-> b, index |-> 0]

(* A value of seven bits; an ignored one is not zero, which means a reset. *)
ValuesAndActions ==
    {va \in [value : 0..127, action : {"reset", "ignore", "write"}] : va.action = "ignore" => va.value # 0}
ArtAddressCommand == (0..12) \cup {16, 32, 48, 80, 96, 112, 144, 160, 176, 192, 208}

Addresses ==
    [version : Version14, net_switch : ValuesAndActions, bind_index : Octets(1), short_name : TextBelow(18),
     long_name : TextBelow(64), sw_in : [1..4 -> ValuesAndActions], sw_out : [1..4 -> ValuesAndActions],
     sub_switch : ValuesAndActions, acn_priority : Octets(1),
     command : [command : ArtAddressCommand, index : 0..3]]

AddressWritten == <<Msb("version"), U8("net_switch"), U8("bind_index"), Text("short_name", 18),
                    Text("long_name", 64), Raw("sw_in", 4), Raw("sw_out", 4), U8("sub_switch"),
                    U8("acn_priority"), U8("command")>>
AddressRead == <<Msb("version"), U8("net_switch"), U8("bind_index"), Text("short_name", 18),
                 Text("long_name", 64), Raw("sw_in", 4), Raw("sw_out", 4), U8("sub_switch"),
                 U8("acn_priority"), U8("command")>>

WriteAddress(p) ==
    Write("address", AddressWritten,
          [p EXCEPT !.net_switch = <<ValueAndAction(@)>>, !.sub_switch = <<ValueAndAction(@)>>,
                    !.sw_in = [i \in 1..4 |-> ValueAndAction(@[i])],
                    !.sw_out = [i \in 1..4 |-> ValueAndAction(@[i])],
                    !.command = <<WithPortIndex(@.command, @.index)>>])
ReadAddress(w) ==
    LET got == Read(AddressRead, w)
    IN  [got EXCEPT !.net_switch = FromValueAndAction(@[1]), !.sub_switch = FromValueAndAction(@[1]),
                    !.sw_in = [i \in 1..4 |-> FromValueAndAction(@[i])],
                    !.sw_out = [i \in 1..4 |-> FromValueAndAction(@[i])],
                    !.command = FromPortIndex(@[1])]

-----------------------------------------------------------------------------
(* ArtDiagData, whose text is as long as it says, and one NUL. *)
Diagnoses == [version : Version14, priority : Single(DiagnosticsPriority),
              logical_port : Octets(1), text : TextBelow(512)]

DiagHead == <<Msb("version"), Gap(1), U8("priority"), U8("logical_port"), Gap(1), Msb("length")>>
DiagWritten(length) == DiagHead \o <<Text("text", length + 1)>>
DiagReadHead == <<Msb("version"), Gap(1), U8("priority"), U8("logical_port"), Gap(1), Msb("length")>>

WriteDiag(p) == Write("diagData", DiagWritten(p.text[1]), With(p, [length |-> p.text]))
ReadDiag(w) ==
    LET length == Read(DiagReadHead, w).length[1]
    IN  Read(DiagReadHead \o <<Text("text", length + 1)>>, w)

(* ArtTimeCode. *)
TimeCodes == [version : Version14, frames : Single(0..29), seconds : Single(0..59), minutes : Single(0..59),
              hours : Single(0..23), type : Single(0..3)]

TimeCodeWritten == <<Msb("version"), Gap(2), U8("frames"), U8("seconds"), U8("minutes"), U8("hours"), U8("type")>>
TimeCodeRead == <<Msb("version"), Gap(2), U8("frames"), U8("seconds"), U8("minutes"), U8("hours"), U8("type")>>

WriteTimeCode(p) == Write("timeCode", TimeCodeWritten, p)
ReadTimeCode(w) == Read(TimeCodeRead, w)

(* ArtCommand. *)
Commands == [version : Version14, esta : Word, command : TextBelow(512)]

CommandWritten == <<Msb("version"), Msb("esta"), Text("command", 512)>>
CommandRead == <<Msb("version"), Msb("esta"), Text("command", 512)>>

WriteCommand(p) == Write("command", CommandWritten, p)
ReadCommand(w) == Read(CommandRead, w)

(* ArtTrigger. *)
Triggers == [version : Version14, oem : Word, key : Octets(1), sub_key : Octets(1), payload : Octets(512)]

TriggerWritten == <<Msb("version"), Gap(2), Msb("oem"), U8("key"), U8("sub_key"), Raw("payload", 512)>>

(* Mutant: the OEM code is read with its low byte first. *)
TriggerReadLsb == <<Msb("version"), Gap(2), Lsb("oem"), U8("key"), U8("sub_key"), Raw("payload", 512)>>

TriggerRead == <<Msb("version"), Gap(2), Msb("oem"), U8("key"), U8("sub_key"), Raw("payload", 512)>>

WriteTrigger(p) == Write("trigger", TriggerWritten, p)
ReadTrigger(w) == Read(TriggerRead, w)

-----------------------------------------------------------------------------
(* ArtDmx. *)
DmxHead == <<Msb("version"), U8("sequence"), U8("physical"), U8("sub_uni"), U8("net"), Msb("length")>>
DmxWritten(length) == DmxHead \o <<Raw("data", length)>>
DmxReadHead == <<Msb("version"), U8("sequence"), U8("physical"), U8("sub_uni"), U8("net"), Msb("length")>>

WriteDmx(p) ==
    Write("dmx", DmxWritten(Len(p.data)),
          With(p, [sub_uni |-> <<SubUni(p.port_address)>>, net |-> <<Net(p.port_address)>>,
                   length |-> <<Len(p.data)>>]))
ReadDmx(w) ==
    LET head == Read(DmxReadHead, w)
        got == Read(DmxReadHead \o <<Raw("data", head.length[1])>>, w)
    IN  With(got, [port_address |-> FromBytes(got.net[1], got.sub_uni[1])])
=============================================================================
