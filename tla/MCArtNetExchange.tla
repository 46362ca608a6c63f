-------------------------- MODULE MCArtNetExchange --------------------------
EXTENDS ArtNetExchange, TLC

CONSTANTS ha, peer

A(net, sub, universe) == [net |-> net, sub |-> sub, universe |-> universe]

MCIpOf == ha :> <<10, 0, 0, 1>> @@ peer :> <<10, 0, 0, 2>>

(* A common port; disjoint ranges; several groups; five ports of one group;   *)
(* addresses that the two bytes do not carry; a universe that is no byte,     *)
(* alone and after a group whose reply goes out.                              *)
MCSetups ==
    {ha :> {A(0, 0, 3)} @@ peer :> {A(0, 0, 0), A(0, 0, 3)},
     ha :> {A(0, 0, 3)} @@ peer :> {A(0, 0, 4)},
     ha :> {A(0, 7, 15)} @@ peer :> {A(0, 0, 15), A(0, 7, 15)},
     ha :> {A(0, 0, 2)} @@ peer :> {A(0, 0, 0), A(0, 0, 1), A(0, 0, 2), A(0, 0, 3), A(0, 0, 4)},
     ha :> {A(0, 0, 19)} @@ peer :> {A(0, 0, 3), A(0, 0, 19)},
     ha :> {A(0, 0, 260)} @@ peer :> {A(0, 0, 256), A(0, 0, 260)},
     ha :> {A(0, 0, 3)} @@ peer :> {A(0, 0, 3), A(0, 1, 260)}}

MCOthers ==
    {<<"poll", [ArtPoll EXCEPT !.flags = {"vlc", "notify"}, !.priority = <<224>>]>>,
     <<"poll", [ArtPoll EXCEPT !.flags = {"targeted", "diagnostics"}, !.top = A(1, 2, 511), !.bottom = A(0, 9, 17)]>>,
     <<"poll", [ArtPoll EXCEPT !.flags = {"targeted"}, !.top = A(9, 15, 511), !.bottom = A(7, 15, 511)]>>,
     <<"pollReply", [ArtPollReply EXCEPT !.source_ip = <<10, 0, 0, 9>>, !.net_switch = <<1>>, !.sub_switch = <<2>>,
         !.firmware_version = <<258>>, !.oem = <<513>>, !.esta = <<772>>, !.rom = FALSE, !.style = <<0>>,
         !.mac_address = <<1, 2, 3, 4, 5, 6>>, !.bind_ip = <<10, 0, 0, 8>>, !.bind_index = <<3>>, !.node_report = <<9>>,
         !.status2 = {"web", "squawking"}, !.failsafe = 3, !.status3 = {"failover", "llrp"},
         !.default_resp_uid = <<6, 5, 4, 3, 2, 1>>,
         !.ports = <<[Port EXCEPT !.direction = {"output"}, !.type = 5, !.good_output_a = {"transmitted", "sacn"},
                                  !.sw_out = 7, !.good_output_b = {"rdm"}],
                     [Port EXCEPT !.direction = {"input"}, !.good_input = {"data_received", "errors"}, !.sw_in = 255],
                     Port, Port>>]>>,
     <<"pollReply", [ArtPollReply EXCEPT !.status3 = {"failover"}]>>,
     <<"ipProg", [version |-> PROTOCOL_VERSION, command |-> {"program", "ip", "port"}, prog_ip |-> <<1, 2, 3, 4>>,
                  prog_subnet |-> <<5, 6, 7, 8>>, prog_gateway |-> <<9, 10, 11, 12>>]>>,
     <<"ipProgReply", [version |-> PROTOCOL_VERSION, dhcp_enabled |-> TRUE, prog_ip |-> <<1, 2, 3, 4>>,
                       prog_subnet |-> <<5, 6, 7, 8>>, prog_gateway |-> <<9, 10, 11, 12>>]>>,
     <<"diagData", [version |-> PROTOCOL_VERSION, priority |-> <<16>>, logical_port |-> <<2>>, text |-> <<300>>]>>,
     <<"diagData", [version |-> PROTOCOL_VERSION, priority |-> <<0>>, logical_port |-> <<0>>, text |-> <<0>>]>>,
     <<"timeCode", [version |-> PROTOCOL_VERSION, frames |-> <<29>>, seconds |-> <<58>>, minutes |-> <<57>>,
                    hours |-> <<23>>, type |-> <<3>>]>>,
     <<"command", [version |-> PROTOCOL_VERSION, esta |-> <<65535>>, command |-> <<511>>]>>,
     <<"trigger", [version |-> PROTOCOL_VERSION, oem |-> <<258>>, key |-> <<1>>, sub_key |-> <<2>>,
                   payload |-> [i \in 1..512 |-> i % 256]]>>}
    \cup {<<"address", [version |-> PROTOCOL_VERSION, net_switch |-> [value |-> 1, action |-> action],
            bind_index |-> <<1>>, short_name |-> <<17>>, long_name |-> <<63>>,
            sw_in |-> [i \in 1..4 |-> [value |-> i, action |-> "write"]],
            sw_out |-> [i \in 1..4 |-> [value |-> i, action |-> action]],
            sub_switch |-> [value |-> 9, action |-> "ignore"], acn_priority |-> <<255>>,
            command |-> [command |-> 144, index |-> 0]]>> : action \in {"reset", "ignore", "write"}}

=============================================================================
