---------------------------- MODULE ArtNetOutput ----------------------------
(***************************************************************************)
(* The DMX output of the Art-Net server (server/artnet_server.py): a frame *)
(* given to send_dmx is sent to the nodes that listen to its port address  *)
(* and repeated by a background task, start_artdmx_loop, until the next    *)
(* frame cancels that task.  Nodes come and go meanwhile; a node that      *)
(* joins others on an address is sent the data at once.                    *)
(*                                                                         *)
(* A new loop runs eagerly up to its first sleep, and a loop suspends      *)
(* nowhere else.  Sending on a socket may raise, which ends the loop.      *)
(***************************************************************************)
EXTENDS Integers, FiniteSets

CONSTANTS
    OwnAddresses,  \* the port addresses of the server's own ports
    Receivers,     \* the nodes on the network
    Contents,      \* the contents of a universe
    None,          \* no data, no task
    SeqMax,        \* 255
    Repeats,       \* retransmit_time_ms is not zero
    SendsFail      \* sendto may raise an OSError

ASSUME NoneAssumption == None \notin [data : Contents, seq : Nat] /\ None \notin Contents
ASSUME SequenceAssumption == SeqMax \in Nat \ {0}
ASSUME FailureAssumption == Repeats \in BOOLEAN /\ SendsFail \in BOOLEAN

VARIABLES
    manual,        \* manual_nodes_by_port_address: the addresses with a manual node
    listeners,     \* nodes_by_port_address; no entry is no listener
    discovered,    \* uptime() is over the 3 seconds of discovery
    portData,      \* OwnPort.data
    transmitting,  \* good_output_a.data_being_transmitted
    updateTask,    \* OwnPort.update_task: the loop it refers to
    loops,         \* the loops that have neither ended nor been cancelled
    sequence,      \* sequence_number
    received,      \* the data last sent to each node on each address
    socketFailed   \* history: an error ended the last loop of the address

server == <<discovered, portData, transmitting, updateTask, loops, sequence>>
outputVars == <<manual, listeners, server, received, socketFailed>>

(* A loop holds its data and the sequence number of its next packet. *)
Loops == [data : Contents, seq : 1..SeqMax]

NextSequence == IF sequence < SeqMax THEN sequence + 1 ELSE 1

OutputInit ==
    /\ manual \in SUBSET OwnAddresses
    /\ listeners = [a \in OwnAddresses |-> {}]
    /\ discovered = FALSE
    /\ portData = [a \in OwnAddresses |-> None]
    /\ transmitting = [a \in OwnAddresses |-> FALSE]
    /\ updateTask = [a \in OwnAddresses |-> None]
    /\ loops = [a \in OwnAddresses |-> {}]
    /\ sequence = 1
    /\ received = [a \in OwnAddresses |-> [n \in Receivers |-> None]]
    /\ socketFailed = [a \in OwnAddresses |-> FALSE]

-----------------------------------------------------------------------------
(* Packets with this data go to the nodes on the address. *)
Deliver(a, data, nodes) ==
    received' = [received EXCEPT ![a] =
                    [n \in Receivers |-> IF n \in nodes THEN data ELSE @[n]]]

(* Mutant: the task of the previous frame goes on. *)
NoCancel(a) == loops[a]

(* update_task.cancel() *)
CancelledTask(a) == loops[a] \ {updateTask[a]}

(* A new loop's first round, up to its sleep. *)
LoopStarts(a, data, nodes) ==
    /\ Deliver(a, data, nodes)
    /\ sequence' = NextSequence
    /\ socketFailed' = [socketFailed EXCEPT ![a] = FALSE]
    /\ LET loop == [data |-> data, seq |-> NextSequence]
       IN  /\ updateTask' = [updateTask EXCEPT ![a] = loop]
           /\ loops' = [loops EXCEPT ![a] =
                           CancelledTask(a) \cup IF Repeats THEN {loop} ELSE {}]

(* The previous task is cancelled and no new one goes on: a node in the     *)
(* middle of the list cannot be sent to, or nothing was sent at all.        *)
NoLoopStarts(a) ==
    /\ SendsFail
    /\ loops' = [loops EXCEPT ![a] = CancelledTask(a)]
    /\ updateTask' = [updateTask EXCEPT ![a] = None]
    /\ socketFailed' = [socketFailed EXCEPT ![a] = TRUE]
    /\ UNCHANGED sequence

(* send_dmx for an address with these nodes, one of them manual or known.   *)
(* Telling the subscribers that transmission begins may raise as well, then *)
(* the data is not even kept.                                               *)
Transmit(a, data, nodes) ==
    /\ transmitting' = [transmitting EXCEPT ![a] = TRUE]
    /\ UNCHANGED discovered
    /\ \/ /\ portData' = [portData EXCEPT ![a] = data]
          /\ \/ LoopStarts(a, data, nodes)
             \/ NoLoopStarts(a) /\ \E reached \in SUBSET nodes : Deliver(a, data, reached)
       \/ /\ ~transmitting[a]
          /\ NoLoopStarts(a)
          /\ UNCHANGED <<portData, received>>

HasTarget(a) == a \in manual \/ listeners[a] # {}

(* The universe's frame is sent; for want of anyone to send it to it is dropped, *)
(* while the loop of an earlier frame goes on.                                  *)
SendDmx(a, data) ==
    /\ HasTarget(a)
    /\ Transmit(a, data, listeners[a])
    /\ UNCHANGED listeners

(* The loop prepares its next packet and sleeps. *)
LoopContinues(a, loop) ==
    LET next == [loop EXCEPT !.seq = NextSequence]
    IN  /\ sequence' = NextSequence
        /\ loops' = [loops EXCEPT ![a] = (@ \ {loop}) \cup {next}]
        /\ updateTask' = IF updateTask[a] = loop
                         THEN [updateTask EXCEPT ![a] = next] ELSE updateTask

(* Mutant: the loop ends when it has found nobody listening. *)
LoopEnds(a, loop) ==
    /\ loops' = [loops EXCEPT ![a] = @ \ {loop}]
    /\ UNCHANGED <<sequence, updateTask>>

(* What the loop does when it has found nobody listening. *)
LoopWithoutNodes(a, loop) == LoopContinues(a, loop)

(* A round of the loop that sends its packet. *)
LoopSends(a, loop) ==
    /\ HasTarget(a)
    /\ Deliver(a, loop.data, listeners[a])
    /\ LoopContinues(a, loop)
    /\ UNCHANGED <<listeners, discovered, portData, transmitting, socketFailed>>

(* A round that finds nobody listening: the flag is cleared. *)
LoopIdles(a, loop) ==
    /\ ~HasTarget(a)
    /\ transmitting' = [transmitting EXCEPT ![a] = FALSE]
    /\ LoopWithoutNodes(a, loop)
    /\ UNCHANGED <<listeners, discovered, portData, received, socketFailed>>

(* A round that raises ends the loop: the flag is as the round left it. *)
LoopFails(a, loop) ==
    /\ SendsFail
    /\ IF HasTarget(a)
       THEN /\ \E reached \in SUBSET listeners[a] : Deliver(a, loop.data, reached)
            /\ UNCHANGED transmitting
       ELSE /\ transmitting' = [transmitting EXCEPT ![a] = FALSE]
            /\ UNCHANGED received
    /\ loops' = [loops EXCEPT ![a] = @ \ {loop}]
    /\ updateTask' = IF updateTask[a] = loop
                     THEN [updateTask EXCEPT ![a] = None] ELSE updateTask
    /\ socketFailed' = [socketFailed EXCEPT ![a] = TRUE]
    /\ UNCHANGED <<listeners, discovered, portData, sequence>>

(* add_node_by_port_address: others listen already, discovery is over and    *)
(* there is data: the data is sent to all of them ...                        *)
SendsToNewNode(a) == listeners[a] # {} /\ discovered /\ portData[a] # None

NodeJoins(a, n) ==
    /\ n \notin listeners[a]
    /\ listeners' = [listeners EXCEPT ![a] = @ \cup {n}]
    /\ \/ /\ SendsToNewNode(a)
          /\ Transmit(a, portData[a], listeners'[a])
       \/ /\ ~SendsToNewNode(a)
          /\ UNCHANGED <<server, received, socketFailed>>

(* remove_node_by_port_address *)
NodeLeaves(a, n) ==
    /\ n \in listeners[a]
    /\ listeners' = [listeners EXCEPT ![a] = @ \ {n}]
    /\ UNCHANGED <<server, received, socketFailed>>

(* uptime() is the seconds part of a time difference, which starts again at   *)
(* zero every day.                                                            *)
UptimeReachesThree ==
    /\ ~discovered
    /\ discovered' = TRUE
    /\ UNCHANGED <<listeners, portData, transmitting, updateTask, loops, sequence,
                   received, socketFailed>>

UptimeWraps ==
    /\ discovered
    /\ discovered' = FALSE
    /\ UNCHANGED <<listeners, portData, transmitting, updateTask, loops, sequence,
                   received, socketFailed>>

LoopRound(a) ==
    \E loop \in loops[a] :
        LoopSends(a, loop) \/ LoopIdles(a, loop) \/ LoopFails(a, loop)

Step ==
    \/ \E a \in OwnAddresses :
          \/ \E data \in Contents : SendDmx(a, data)
          \/ LoopRound(a)
          \/ \E n \in Receivers : NodeJoins(a, n) \/ NodeLeaves(a, n)
    \/ UptimeReachesThree
    \/ UptimeWraps

(* The manual nodes are fixed by the configuration. *)
OutputNext == Step /\ UNCHANGED manual

OutputSpec == OutputInit /\ [][OutputNext]_outputVars

(* A loop's sleep ends. *)
OutputFairSpec == OutputSpec /\ \A a \in OwnAddresses : WF_outputVars(LoopRound(a) /\ UNCHANGED manual)

-----------------------------------------------------------------------------
OutputTypeOK ==
    /\ manual \subseteq OwnAddresses
    /\ listeners \in [OwnAddresses -> SUBSET Receivers]
    /\ discovered \in BOOLEAN
    /\ portData \in [OwnAddresses -> Contents \cup {None}]
    /\ transmitting \in [OwnAddresses -> BOOLEAN]
    /\ updateTask \in [OwnAddresses -> Loops \cup {None}]
    /\ loops \in [OwnAddresses -> SUBSET Loops]
    /\ sequence \in 1..SeqMax
    /\ received \in [OwnAddresses -> [Receivers -> Contents \cup {None}]]
    /\ socketFailed \in [OwnAddresses -> BOOLEAN]

(* Whatever loop still runs on an address is the one its port can cancel,    *)
(* and it repeats the port's own data: two loops never send two frames in    *)
(* turn, and an old frame is never repeated after a new one was sent.        *)
OnlyLoopIsCurrent ==
    \A a \in OwnAddresses : \A loop \in loops[a] :
        loop = updateTask[a] /\ loop.data = portData[a]

(* A node that listens to an address gets the data of the port, even when it *)
(* is the first to come back to an address nobody listened to, to whom       *)
(* nothing is sent on arrival: a loop ends only on an error.                 *)
ListenerIsServed ==
    \A a \in OwnAddresses : \A n \in Receivers : \A d \in Contents :
        (n \in listeners[a] /\ portData[a] = d)
        ~> (received[a][n] = d \/ n \notin listeners[a] \/ portData[a] # d
            \/ socketFailed[a])
=============================================================================
