---------------------------- MODULE ServerProofs ----------------------------
(***************************************************************************)
(* Proofs about the servers that send the universes.  Of the Art-Net       *)
(* server, what it knows of the nodes, from the polls they answer          *)
(* (ArtNetNodes), and what it sends to them (ArtNetOutput): the index by   *)
(* port address always matches what is known of the nodes, while the poll  *)
(* loop runs no node is kept for longer than the cutoff and a poll period  *)
(* after it fell silent, and the loop that repeats a port's frame is the   *)
(* one the port can cancel and repeats the port's latest frame.  Of the    *)
(* sACN server (SacnUniverse): a universe that is terminated or switched   *)
(* off has no stream and falls silent, and only the newest frame is kept   *)
(* alive.  All of it for any nodes, addresses, times, contents, frames in  *)
(* flight and lengths of the sequence, and whatever packet fails to be     *)
(* sent.                                                                   *)
(***************************************************************************)
EXTENDS ArtNetNodes, ArtNetOutput, SacnUniverse, TLAPS

-----------------------------------------------------------------------------
(* The addresses of a node that is not known are forgotten. *)
UnknownHaveNone == \A n \in Nodes \ known : addresses[n] = {}

(* Some cleanup will find the node silent for the cutoff and in time: one    *)
(* that sleeps already, or the one the next poll starts.                     *)
Covered(n) ==
    \/ \E t \in cleanups : Cutoff <= silence[n] + t /\ silence[n] + t < MaxAge
    \/ silence[n] + nextPoll < MaxPollPeriod

(* Only just after a poll is the next one a whole period away. *)
FreshPoll == nextPoll = MaxPollPeriod => Cutoff \in cleanups

EveryNodeCovered == nextPoll # Dead => FreshPoll /\ \A n \in known : Covered(n)

(* The inductive invariant. *)
NodesInv == NodesTypeOK /\ IndexMatchesNodes /\ UnknownHaveNone /\ EveryNodeCovered

-----------------------------------------------------------------------------
(* The times as numbers. *)
LEMMA Times == /\ Cutoff \in Nat /\ Cutoff > 0
               /\ MinPollPeriod \in Nat /\ MaxPollPeriod \in Nat /\ MaxPollPeriod > 0
               /\ MaxAge \in Nat /\ MaxAge = Cutoff + MaxPollPeriod
               /\ PollSleep \subseteq 0..MaxPollPeriod
               /\ \A i \in Int : i # Dead
BY TimeAssumption, DeadAssumption DEF MaxAge, PollSleep

LEMMA NodesStart == NodesInit => NodesInv
<1> SUFFICES ASSUME NodesInit PROVE NodesInv
  OBVIOUS
<1>1. NodesTypeOK
  BY Times DEF NodesInit, NodesTypeOK
<1>2. IndexMatchesNodes /\ UnknownHaveNone
  BY DEF NodesInit, IndexMatchesNodes, UnknownHaveNone
<1>3. EveryNodeCovered
  BY Times DEF NodesInit, EveryNodeCovered, FreshPoll
<1> QED BY <1>1, <1>2, <1>3 DEF NodesInv

-----------------------------------------------------------------------------
(* A poll reply moves the node to its new ports and starts its silence anew. *)
LEMMA PollReplyKeeps ==
    ASSUME NodesInv, NEW n \in Nodes, NEW ports \in SUBSET Addresses, PollReply(n, ports)
    PROVE  NodesInv'
<1> USE DEF NodesInv
<1>1. NodesTypeOK'
  <2>1. silence' \in [Nodes -> 0..MaxAge]
    BY Times DEF PollReply, NodesTypeOK
  <2>2. addresses' \in [Nodes -> SUBSET Addresses]
    BY DEF PollReply, NodesTypeOK
  <2>3. index' \in [Addresses -> SUBSET Nodes]
    BY DEF PollReply, NodesTypeOK
  <2> QED BY <2>1, <2>2, <2>3 DEF PollReply, NodesTypeOK
<1>2. IndexMatchesNodes'
  <2> SUFFICES ASSUME NEW a \in Addresses
               PROVE  index'[a] = {m \in known' : a \in addresses'[m]}
    BY DEF IndexMatchesNodes
  <2>1. index[a] = {m \in known : a \in addresses[m]}
    BY DEF IndexMatchesNodes
  <2>2. n \in known \/ addresses[n] = {}
    BY DEF UnknownHaveNone
  <2>3. /\ addresses'[n] = ports
        /\ \A m \in Nodes \ {n} : addresses'[m] = addresses[m]
        /\ known' = known \cup {n}
    BY DEF PollReply, NodesTypeOK
  <2>4. CASE a \in ports
    <3>1. index'[a] = index[a] \cup {n}
      BY <2>4 DEF PollReply
    <3> QED BY <2>1, <2>3, <2>4, <3>1 DEF NodesTypeOK
  <2>5. CASE a \notin ports /\ a \in addresses[n]
    <3>1. index'[a] = index[a] \ {n}
      BY <2>5 DEF PollReply, Dropped
    <3> QED BY <2>1, <2>3, <2>5, <3>1 DEF NodesTypeOK
  <2>6. CASE a \notin ports /\ a \notin addresses[n]
    <3>1. index'[a] = index[a]
      BY <2>6 DEF PollReply, Dropped
    <3> QED BY <2>1, <2>3, <2>6, <3>1 DEF NodesTypeOK
  <2> QED BY <2>4, <2>5, <2>6
<1>3. UnknownHaveNone'
  BY DEF UnknownHaveNone, PollReply, NodesTypeOK
<1>4. EveryNodeCovered'
  <2> SUFFICES ASSUME nextPoll # Dead PROVE FreshPoll' /\ \A m \in known' : Covered(m)'
    BY DEF EveryNodeCovered, PollReply
  <2>1. FreshPoll /\ \A m \in known : Covered(m)
    BY DEF EveryNodeCovered
  <2>2. silence'[n] = 0 /\ \A m \in Nodes \ {n} : silence'[m] = silence[m]
    BY DEF PollReply, NodesTypeOK
  <2>3. Covered(n)'
    <3>1. CASE nextPoll = MaxPollPeriod
      <4>1. Cutoff \in cleanups'
        BY <2>1, <3>1 DEF FreshPoll, PollReply
      <4>2. Cutoff <= 0 + Cutoff /\ 0 + Cutoff < MaxAge
        BY Times
      <4> QED BY <2>2, <4>1, <4>2 DEF Covered
    <3>2. CASE nextPoll # MaxPollPeriod
      <4>1. nextPoll \in 0..MaxPollPeriod
        BY DEF NodesTypeOK
      <4>2. 0 + nextPoll < MaxPollPeriod
        BY <3>2, <4>1, Times
      <4> QED BY <2>2, <4>2 DEF Covered, PollReply
    <3> QED BY <3>1, <3>2
  <2>4. \A m \in known \ {n} : Covered(m)'
    BY <2>1, <2>2 DEF Covered, PollReply, NodesTypeOK
  <2> QED BY <2>1, <2>3, <2>4 DEF FreshPoll, PollReply
<1> QED BY <1>1, <1>2, <1>3, <1>4

(* A cleanup removes the nodes that are old enough.  The others lose at most *)
(* this cleanup, which was too early to be the one that covers them.         *)
LEMMA RemoveKeeps == ASSUME NodesInv, RemoveStaleNodes PROVE NodesInv'
<1> USE DEF NodesInv
<1>1. NodesTypeOK'
  <2>1. silence' \in [Nodes -> 0..MaxAge]
    BY Times DEF RemoveStaleNodes, NodesTypeOK
  <2>2. addresses' \in [Nodes -> SUBSET Addresses]
    BY DEF RemoveStaleNodes, NodesTypeOK
  <2>3. index' \in [Addresses -> SUBSET Nodes]
    BY DEF RemoveStaleNodes, IndexWithoutStale, NodesTypeOK
  <2>4. known' \subseteq Nodes /\ subscribers' \subseteq Ips /\ cleanups' \subseteq 0..Cutoff
    BY DEF RemoveStaleNodes, NodesTypeOK
  <2> QED BY <2>1, <2>2, <2>3, <2>4 DEF RemoveStaleNodes, NodesTypeOK
<1>2. IndexMatchesNodes'
  <2> SUFFICES ASSUME NEW a \in Addresses
               PROVE  index'[a] = {m \in known' : a \in addresses'[m]}
    BY DEF IndexMatchesNodes
  <2>1. index[a] = {m \in known : a \in addresses[m]}
    BY DEF IndexMatchesNodes
  <2>2. index'[a] = index[a] \ {n \in Stale : a \in addresses[n]}
    BY DEF RemoveStaleNodes, IndexWithoutStale
  <2>3. known' = known \ Stale /\ \A m \in known' : addresses'[m] = addresses[m]
    BY DEF RemoveStaleNodes, NodesTypeOK
  <2> QED BY <2>1, <2>2, <2>3
<1>3. UnknownHaveNone'
  <2> SUFFICES ASSUME NEW n \in Nodes \ known' PROVE addresses'[n] = {}
    BY DEF UnknownHaveNone
  <2>1. addresses'[n] = IF n \in Stale THEN {} ELSE addresses[n]
    BY DEF RemoveStaleNodes
  <2>2. n \in Stale \/ n \notin known
    BY DEF RemoveStaleNodes
  <2> QED BY <2>1, <2>2 DEF UnknownHaveNone
<1>4. EveryNodeCovered'
  <2> SUFFICES ASSUME nextPoll # Dead PROVE FreshPoll' /\ \A m \in known' : Covered(m)'
    BY DEF EveryNodeCovered, RemoveStaleNodes
  <2>1. FreshPoll /\ \A m \in known : Covered(m)
    BY DEF EveryNodeCovered
  <2>2. FreshPoll'
    BY <2>1, Times DEF FreshPoll, RemoveStaleNodes
  <2>3. ASSUME NEW m \in known' PROVE Covered(m)'
    <3>1. m \in Nodes /\ m \in known /\ silence[m] \in 0..MaxAge /\ silence'[m] = silence[m]
      BY <2>3 DEF RemoveStaleNodes, NodesTypeOK
    <3>2. silence[m] < Cutoff
      BY <2>3, <3>1, Times DEF RemoveStaleNodes, Stale
    <3>3. CASE silence[m] + nextPoll < MaxPollPeriod
      BY <3>1, <3>3 DEF Covered, RemoveStaleNodes
    <3>4. ASSUME NEW t \in cleanups, Cutoff <= silence[m] + t, silence[m] + t < MaxAge
          PROVE  Covered(m)'
      <4>1. t # 0
        BY <3>1, <3>2, <3>4, Times
      <4>2. t \in cleanups'
        BY <4>1 DEF RemoveStaleNodes
      <4> QED BY <3>1, <3>4, <4>2 DEF Covered
    <3> QED BY <2>1, <3>1, <3>3, <3>4 DEF Covered
  <2> QED BY <2>2, <2>3
<1> QED BY <1>1, <1>2, <1>3, <1>4

(* A poll starts a cleanup that covers the nodes which waited for it. *)
LEMMA PollKeeps == ASSUME NodesInv, Poll PROVE NodesInv'
<1> USE DEF NodesInv
<1>1. NodesTypeOK'
  BY Times DEF Poll, NodesTypeOK
<1>2. IndexMatchesNodes' /\ UnknownHaveNone'
  BY DEF Poll, IndexMatchesNodes, UnknownHaveNone
<1>3. EveryNodeCovered'
  <2>1. \A m \in known : Covered(m)
    BY Times DEF EveryNodeCovered, Poll
  <2>2. ASSUME NEW m \in known PROVE Covered(m)'
    <3>1. silence[m] \in 0..MaxAge
      BY DEF NodesTypeOK
    <3>2. CASE silence[m] + nextPoll < MaxPollPeriod
      <4>1. Cutoff <= silence[m] + Cutoff /\ silence[m] + Cutoff < MaxAge
        BY <3>1, <3>2, Times DEF Poll
      <4> QED BY <4>1 DEF Covered, Poll
    <3>3. CASE ~(silence[m] + nextPoll < MaxPollPeriod)
      BY <2>1, <3>3 DEF Covered, Poll
    <3> QED BY <3>2, <3>3
  <2> QED BY <2>2 DEF EveryNodeCovered, FreshPoll, Poll
<1> QED BY <1>1, <1>2, <1>3

(* With every tick the silence grows by what the sleeps shrink. *)
LEMMA TickKeeps == ASSUME NodesInv, Tick PROVE NodesInv'
<1> USE DEF NodesInv
<1>1. NodesTypeOK'
  <2>1. silence' \in [Nodes -> 0..MaxAge]
    BY Times DEF Tick, NodesTypeOK
  <2>2. nextPoll' \in {Dead} \cup 0..MaxPollPeriod
    BY Times DEF Tick, NodesTypeOK
  <2>3. cleanups' \subseteq 0..Cutoff
    BY Times DEF Tick, NodesTypeOK
  <2> QED BY <2>1, <2>2, <2>3 DEF Tick, NodesTypeOK
<1>2. IndexMatchesNodes' /\ UnknownHaveNone'
  BY DEF Tick, IndexMatchesNodes, UnknownHaveNone
<1>3. EveryNodeCovered'
  <2> SUFFICES ASSUME nextPoll' # Dead PROVE FreshPoll' /\ \A m \in known' : Covered(m)'
    BY DEF EveryNodeCovered
  <2>1. nextPoll \in 1..MaxPollPeriod /\ nextPoll' = nextPoll - 1
    BY Times DEF Tick, NodesTypeOK
  <2>2. \A m \in known : Covered(m)
    BY <2>1, Times DEF EveryNodeCovered
  <2>3. FreshPoll'
    BY <2>1, Times DEF FreshPoll
  <2>4. ASSUME NEW m \in known PROVE Covered(m)'
    <3>1. m \in Nodes /\ silence[m] \in 0..MaxAge
      BY DEF NodesTypeOK
    <3>2. ASSUME NEW t \in cleanups, Cutoff <= silence[m] + t, silence[m] + t < MaxAge
          PROVE  Covered(m)'
      <4>1. t \in 1..Cutoff /\ t - 1 \in cleanups'
        BY Times DEF Tick, NodesTypeOK
      <4>2. silence'[m] = silence[m] + 1
        BY <3>1, <3>2, <4>1, Times DEF Tick
      <4>3. silence'[m] + (t - 1) = silence[m] + t
        BY <3>1, <4>1, <4>2, Times
      <4> QED BY <3>2, <4>1, <4>3 DEF Covered
    <3>3. CASE silence[m] + nextPoll < MaxPollPeriod
      <4>1. silence'[m] = silence[m] + 1
        BY <2>1, <3>1, <3>3, Times DEF Tick
      <4>2. silence'[m] + nextPoll' = silence[m] + nextPoll
        BY <2>1, <3>1, <4>1, Times
      <4> QED BY <3>3, <4>2 DEF Covered
    <3> QED BY <2>2, <3>2, <3>3 DEF Covered
  <2> QED BY <2>3, <2>4 DEF Tick
<1> QED BY <1>1, <1>2, <1>3

-----------------------------------------------------------------------------
(* Every step keeps the invariant. *)
LEMMA NodesStep == NodesInv /\ [NodesNext]_nodesVars => NodesInv'
<1> SUFFICES ASSUME NodesInv, [NodesNext]_nodesVars PROVE NodesInv'
  OBVIOUS
<1>1. ASSUME NEW n \in Nodes, NEW ports \in SUBSET Addresses, PollReply(n, ports) PROVE NodesInv'
  BY <1>1, PollReplyKeeps
<1>2. ASSUME NEW ip \in Ips, PollReceived(ip) PROVE NodesInv'
  BY <1>2 DEF NodesInv, PollReceived, NodesTypeOK, IndexMatchesNodes, UnknownHaveNone,
              EveryNodeCovered, FreshPoll, Covered
<1>3. CASE RemoveStaleNodes
  BY <1>3, RemoveKeeps
<1>4. CASE Poll
  BY <1>4, PollKeeps
<1>5. CASE PollFails
  BY <1>5 DEF NodesInv, PollFails, NodesTypeOK, IndexMatchesNodes, UnknownHaveNone, EveryNodeCovered
<1>6. CASE Tick
  BY <1>6, TickKeeps
<1>7. CASE UNCHANGED nodesVars
  BY <1>7 DEF NodesInv, nodesVars, NodesTypeOK, IndexMatchesNodes, UnknownHaveNone, EveryNodeCovered,
              FreshPoll, Covered
<1> QED BY <1>1, <1>2, <1>3, <1>4, <1>5, <1>6, <1>7 DEF NodesNext

(* The invariant always holds. *)
LEMMA NodesInvariance == NodesSpec => []NodesInv
<1> QED BY NodesStart, NodesStep, PTL DEF NodesSpec

-----------------------------------------------------------------------------
(* The tables hold nodes, addresses and times of their kinds. *)
THEOREM NodesTypeCorrect == NodesSpec => []NodesTypeOK
<1>1. NodesInv => NodesTypeOK
  BY DEF NodesInv
<1> QED BY <1>1, NodesInvariance, PTL

(* The index by port address is exact: handle_poll_reply and                 *)
(* remove_stale_nodes keep it in step with the nodes' own addresses.         *)
THEOREM IndexIsExact == NodesSpec => []IndexMatchesNodes
<1>1. NodesInv => IndexMatchesNodes
  BY DEF NodesInv
<1> QED BY <1>1, NodesInvariance, PTL

(* While the poll loop runs, a cleanup always comes in time: no node is kept *)
(* that has been silent for the cutoff and a whole poll period.              *)
THEOREM SilenceBound == NodesSpec => []SilenceIsBounded
<1>1. NodesInv => SilenceIsBounded
  <2> SUFFICES ASSUME NodesInv, nextPoll # Dead, NEW n \in known
               PROVE  silence[n] < Cutoff + MaxPollPeriod
    BY DEF SilenceIsBounded
  <2>1. Covered(n)
    BY DEF NodesInv, EveryNodeCovered
  <2>2. silence[n] \in 0..MaxAge /\ cleanups \subseteq Nat /\ nextPoll \in Nat
    BY Times DEF NodesInv, NodesTypeOK
  <2> QED BY <2>1, <2>2, Times DEF Covered
<1> QED BY <1>1, NodesInvariance, PTL

-----------------------------------------------------------------------------
(* The output: the invariant is inductive with the types alone. *)
LoopInv == OutputTypeOK /\ OnlyLoopIsCurrent

LEMMA NextLoop ==
    ASSUME OutputTypeOK, NEW data \in Contents
    PROVE  NextSequence \in 1..SeqMax /\ [data |-> data, seq |-> NextSequence] \in Loops
BY SequenceAssumption DEF OutputTypeOK, NextSequence, Loops

LEMMA DeliverType ==
    ASSUME OutputTypeOK, NEW a \in OwnAddresses, NEW data \in Contents, NEW nodes, Deliver(a, data, nodes)
    PROVE  received' \in [OwnAddresses -> [Receivers -> Contents \cup {None}]]
<1>1. [n \in Receivers |-> IF n \in nodes THEN data ELSE received[a][n]] \in [Receivers -> Contents \cup {None}]
  BY DEF OutputTypeOK
<1> QED BY <1>1 DEF OutputTypeOK, Deliver

LEMMA LoopInit == OutputInit => LoopInv
<1> SUFFICES ASSUME OutputInit PROVE LoopInv
  OBVIOUS
<1>1. OutputTypeOK
  <2>1. /\ listeners \in [OwnAddresses -> SUBSET Receivers]
        /\ loops \in [OwnAddresses -> SUBSET Loops]
    BY DEF OutputInit
  <2>2. received \in [OwnAddresses -> [Receivers -> Contents \cup {None}]]
    <3>1. [n \in Receivers |-> None] \in [Receivers -> Contents \cup {None}]
      OBVIOUS
    <3> QED BY <3>1 DEF OutputInit
  <2>3. sequence \in 1..SeqMax
    BY SequenceAssumption DEF OutputInit
  <2> QED BY <2>1, <2>2, <2>3 DEF OutputInit, OutputTypeOK
<1>2. \A a \in OwnAddresses : loops[a] = {}
  BY DEF OutputInit
<1>3. OnlyLoopIsCurrent
  BY <1>2 DEF OnlyLoopIsCurrent
<1> QED BY <1>1, <1>3 DEF LoopInv

-----------------------------------------------------------------------------
(* There is at most one loop, so cancelling the port's leaves none. *)
LEMMA CancelLeavesNone ==
    ASSUME LoopInv, NEW a \in OwnAddresses PROVE CancelledTask(a) = {}
BY DEF LoopInv, OnlyLoopIsCurrent, CancelledTask

(* A frame is sent, by send_dmx or for a node that joins. *)
LEMMA TransmitKeeps ==
    ASSUME LoopInv, NEW a \in OwnAddresses, NEW data \in Contents, NEW nodes \in SUBSET Receivers,
           Transmit(a, data, nodes), listeners' \in [OwnAddresses -> SUBSET Receivers],
           manual' = manual
    PROVE  LoopInv'
<1> DEFINE loop == [data |-> data, seq |-> NextSequence]
<1>1. loop \in Loops /\ NextSequence \in 1..SeqMax
  BY NextLoop DEF LoopInv
<1>2. /\ transmitting' \in [OwnAddresses -> BOOLEAN] /\ discovered' = discovered
  BY DEF Transmit, LoopInv, OutputTypeOK
<1>3. CASE portData' = [portData EXCEPT ![a] = data] /\ LoopStarts(a, data, nodes)
  <2>1. received' \in [OwnAddresses -> [Receivers -> Contents \cup {None}]]
    BY <1>3, DeliverType DEF LoopStarts, LoopInv
  <2>2. /\ updateTask' = [updateTask EXCEPT ![a] = loop]
        /\ loops' = [loops EXCEPT ![a] = IF Repeats THEN {loop} ELSE {}]
        /\ sequence' = NextSequence
        /\ socketFailed' = [socketFailed EXCEPT ![a] = FALSE]
    BY <1>3, CancelLeavesNone DEF LoopStarts
  <2> HIDE DEF loop
  <2>3. OutputTypeOK'
    BY <1>1, <1>2, <1>3, <2>1, <2>2 DEF LoopInv, OutputTypeOK
  <2>4. OnlyLoopIsCurrent'
    <3> SUFFICES ASSUME NEW b \in OwnAddresses, NEW other \in loops'[b]
                 PROVE  other = updateTask'[b] /\ other.data = portData'[b]
      BY DEF OnlyLoopIsCurrent
    <3>1. CASE b = a
      <4>1. other = loop /\ loop.data = data
        BY <2>2, <3>1 DEF LoopInv, OutputTypeOK, loop
      <4> QED BY <1>3, <2>2, <3>1, <4>1 DEF LoopInv, OutputTypeOK
    <3>2. CASE b # a
      BY <1>3, <2>2, <3>2 DEF LoopInv, OutputTypeOK, OnlyLoopIsCurrent
    <3> QED BY <3>1, <3>2
  <2> QED BY <2>3, <2>4 DEF LoopInv
<1>4. CASE /\ NoLoopStarts(a)
           /\ \/ /\ portData' = [portData EXCEPT ![a] = data]
                 /\ \E reached \in SUBSET nodes : Deliver(a, data, reached)
              \/ UNCHANGED <<portData, received>>
  <2>1. received' \in [OwnAddresses -> [Receivers -> Contents \cup {None}]]
    BY <1>4, DeliverType DEF LoopInv, OutputTypeOK
  <2>2. /\ updateTask' = [updateTask EXCEPT ![a] = None]
        /\ loops' = [loops EXCEPT ![a] = {}]
        /\ sequence' = sequence
        /\ socketFailed' = [socketFailed EXCEPT ![a] = TRUE]
    BY <1>4, CancelLeavesNone DEF NoLoopStarts
  <2>3. portData' \in [OwnAddresses -> Contents \cup {None}]
        /\ \A b \in OwnAddresses : b # a => portData'[b] = portData[b]
    BY <1>4 DEF LoopInv, OutputTypeOK
  <2>4. OutputTypeOK'
    BY <1>2, <2>1, <2>2, <2>3 DEF LoopInv, OutputTypeOK
  <2>5. OnlyLoopIsCurrent'
    BY <2>2, <2>3 DEF LoopInv, OutputTypeOK, OnlyLoopIsCurrent
  <2> QED BY <2>4, <2>5 DEF LoopInv
<1> QED BY <1>3, <1>4 DEF Transmit

(* A loop that sleeps again is still the port's. *)
LEMMA ContinuesKeeps ==
    ASSUME LoopInv, NEW a \in OwnAddresses, NEW loop \in loops[a], LoopContinues(a, loop),
           portData' = portData
    PROVE  /\ sequence' \in 1..SeqMax
           /\ updateTask' \in [OwnAddresses -> Loops \cup {None}]
           /\ loops' \in [OwnAddresses -> SUBSET Loops]
           /\ OnlyLoopIsCurrent'
<1> DEFINE next == [loop EXCEPT !.seq = NextSequence]
<1>1. loop \in Loops /\ loop = updateTask[a] /\ loop.data = portData[a] /\ loops[a] = {loop}
  BY DEF LoopInv, OutputTypeOK, OnlyLoopIsCurrent
<1>2. NextSequence \in 1..SeqMax
  BY SequenceAssumption DEF LoopInv, OutputTypeOK, NextSequence
<1>3. next \in Loops /\ next.data = loop.data
  BY <1>1, <1>2 DEF Loops
<1>4. /\ sequence' = NextSequence
      /\ loops' = [loops EXCEPT ![a] = {next}]
      /\ updateTask' = [updateTask EXCEPT ![a] = next]
  BY <1>1 DEF LoopContinues
<1> HIDE DEF next
<1>5. OnlyLoopIsCurrent'
  <2> SUFFICES ASSUME NEW b \in OwnAddresses, NEW other \in loops'[b]
               PROVE  other = updateTask'[b] /\ other.data = portData'[b]
    BY DEF OnlyLoopIsCurrent
  <2>1. CASE b = a
    BY <1>1, <1>3, <1>4, <2>1 DEF LoopInv, OutputTypeOK
  <2>2. CASE b # a
    BY <1>4, <2>2 DEF LoopInv, OutputTypeOK, OnlyLoopIsCurrent
  <2> QED BY <2>1, <2>2
<1> QED BY <1>2, <1>3, <1>4, <1>5 DEF LoopInv, OutputTypeOK

LEMMA RoundKeeps ==
    ASSUME LoopInv, NEW a \in OwnAddresses, NEW loop \in loops[a],
           LoopSends(a, loop) \/ LoopIdles(a, loop) \/ LoopFails(a, loop),
           manual' = manual
    PROVE  LoopInv'
<1>1. loop.data \in Contents /\ loops[a] = {loop} /\ updateTask[a] = loop
  BY DEF LoopInv, OutputTypeOK, OnlyLoopIsCurrent, Loops
<1>2. CASE LoopSends(a, loop)
  <2>1. received' \in [OwnAddresses -> [Receivers -> Contents \cup {None}]]
    BY <1>1, <1>2, DeliverType DEF LoopSends, LoopInv
  <2> QED BY <1>2, <2>1, ContinuesKeeps DEF LoopSends, LoopInv, OutputTypeOK
<1>3. CASE LoopIdles(a, loop)
  <2>1. transmitting' \in [OwnAddresses -> BOOLEAN]
    BY <1>3 DEF LoopIdles, LoopInv, OutputTypeOK
  <2> QED BY <1>3, <2>1, ContinuesKeeps DEF LoopIdles, LoopWithoutNodes, LoopInv, OutputTypeOK
<1>4. CASE LoopFails(a, loop)
  <2>1. received' \in [OwnAddresses -> [Receivers -> Contents \cup {None}]]
    BY <1>1, <1>4, DeliverType DEF LoopFails, LoopInv, OutputTypeOK
  <2>2. transmitting' \in [OwnAddresses -> BOOLEAN] /\ socketFailed' \in [OwnAddresses -> BOOLEAN]
    BY <1>4 DEF LoopFails, LoopInv, OutputTypeOK
  <2>3. /\ loops' = [loops EXCEPT ![a] = {}]
        /\ updateTask' = [updateTask EXCEPT ![a] = None]
        /\ UNCHANGED <<listeners, discovered, portData, sequence>>
    BY <1>1, <1>4 DEF LoopFails
  <2>4. OutputTypeOK'
    BY <2>1, <2>2, <2>3 DEF LoopInv, OutputTypeOK
  <2>5. OnlyLoopIsCurrent'
    BY <2>3 DEF LoopInv, OutputTypeOK, OnlyLoopIsCurrent
  <2> QED BY <2>4, <2>5 DEF LoopInv
<1> QED BY <1>2, <1>3, <1>4

-----------------------------------------------------------------------------
(* Every step keeps the invariant. *)
LEMMA LoopStep == LoopInv /\ [OutputNext]_outputVars => LoopInv'
<1> SUFFICES ASSUME LoopInv, [OutputNext]_outputVars PROVE LoopInv'
  OBVIOUS
<1>1. ASSUME OutputNext, NEW a \in OwnAddresses, NEW data \in Contents, SendDmx(a, data) PROVE LoopInv'
  <2>1. listeners[a] \in SUBSET Receivers /\ listeners' \in [OwnAddresses -> SUBSET Receivers]
    BY <1>1 DEF SendDmx, LoopInv, OutputTypeOK
  <2> QED BY <1>1, <2>1, TransmitKeeps DEF SendDmx, OutputNext
<1>2. ASSUME OutputNext, NEW a \in OwnAddresses, LoopRound(a) PROVE LoopInv'
  BY <1>2, RoundKeeps DEF LoopRound, OutputNext
<1>3. ASSUME OutputNext, NEW a \in OwnAddresses, NEW n \in Receivers, NodeJoins(a, n) PROVE LoopInv'
  <2>1. listeners'[a] \in SUBSET Receivers /\ listeners' \in [OwnAddresses -> SUBSET Receivers]
    BY <1>3 DEF NodeJoins, LoopInv, OutputTypeOK
  <2>2. CASE SendsToNewNode(a) /\ Transmit(a, portData[a], listeners'[a])
    <3>1. portData[a] \in Contents
      BY <2>2 DEF SendsToNewNode, LoopInv, OutputTypeOK
    <3> QED BY <1>3, <2>1, <2>2, <3>1, TransmitKeeps DEF OutputNext
  <2>3. CASE UNCHANGED <<server, received, socketFailed>>
    BY <1>3, <2>1, <2>3 DEF OutputNext, server, LoopInv, OutputTypeOK, OnlyLoopIsCurrent
  <2> QED BY <1>3, <2>2, <2>3 DEF NodeJoins
<1>4. ASSUME OutputNext, NEW a \in OwnAddresses, NEW n \in Receivers, NodeLeaves(a, n) PROVE LoopInv'
  <2>1. listeners' \in [OwnAddresses -> SUBSET Receivers]
    BY <1>4 DEF NodeLeaves, LoopInv, OutputTypeOK
  <2> QED BY <1>4, <2>1 DEF NodeLeaves, OutputNext, server, LoopInv, OutputTypeOK, OnlyLoopIsCurrent
<1>5. CASE OutputNext /\ (UptimeReachesThree \/ UptimeWraps)
  BY <1>5 DEF UptimeReachesThree, UptimeWraps, OutputNext, LoopInv, OutputTypeOK, OnlyLoopIsCurrent
<1>6. CASE UNCHANGED outputVars
  BY <1>6 DEF outputVars, server, LoopInv, OutputTypeOK, OnlyLoopIsCurrent
<1> QED BY <1>1, <1>2, <1>3, <1>4, <1>5, <1>6 DEF OutputNext, Step

(* The invariant always holds. *)
LEMMA LoopInvariance == OutputSpec => []LoopInv
<1> QED BY LoopInit, LoopStep, PTL DEF OutputSpec

-----------------------------------------------------------------------------
(* The ports, loops and sequence numbers are of their kinds.                 *)
THEOREM OutputTypeCorrect == OutputSpec => []OutputTypeOK
<1>1. LoopInv => OutputTypeOK
  BY DEF LoopInv
<1> QED BY <1>1, LoopInvariance, PTL

(* Every loop that runs is its port's update_task and repeats the port's     *)
(* data: no frame is repeated after a newer one was sent.                    *)
THEOREM OldFramesStop == OutputSpec => []OnlyLoopIsCurrent
<1>1. LoopInv => OnlyLoopIsCurrent
  BY DEF LoopInv
<1> QED BY <1>1, LoopInvariance, PTL

-----------------------------------------------------------------------------
(* A frame on its way to the stream's memory is the newest one. *)
PendingIsLatest == pendingData \in {NoData, latest}

(* A packet waits for a thread only on behalf of a task that awaits it. *)
JobsAreAwaited ==
    /\ \A s \in Senders : jobs[s] # Nothing => s \in waiting
    /\ jobs[Stream] # Nothing => stream = "sending"

(* The inductive invariant. *)
StreamInv ==
    /\ TypeOK
    /\ TerminatedHasNoStream
    /\ DisabledHasNoStream
    /\ KeepAliveIsCurrent
    /\ PendingIsLatest
    /\ JobsAreAwaited

-----------------------------------------------------------------------------
(* The next sequence number is one. *)
LEMMA NextSeqType == ASSUME seq \in 0..(SeqMod - 1) PROVE NextSeq \in 0..(SeqMod - 1)
BY SeqAssumption DEF NextSeq

(* The head of the stream's loop leaves the task in one of three states. *)
LEMMA LoopType ==
    ASSUME NEW t, NEW d PROVE /\ StreamLoop(t, d) \in {"none", "sending", "asleep"}
                              /\ t => StreamLoop(t, d) = "none"
                              /\ StreamLoop(t, d) = "sending" => lastData # NoData
BY DEF StreamLoop, Retransmits

(* A stream's packet is a frame once there is data to retransmit. *)
LEMMA StreamPacketType ==
    ASSUME TypeOK, lastData # NoData PROVE StreamPacket \in Frames
BY DEF TypeOK, StreamPacket, Frames

LEMMA StreamStart == Init => StreamInv
<1> SUFFICES ASSUME Init PROVE StreamInv
  OBVIOUS
<1>1. TypeOK
  <2>1. seq \in 0..(SeqMod - 1)
    BY SeqAssumption DEF Init
  <2>2. jobs \in [Owners -> Packets]
    BY DEF Init, Packets
  <2>3. stream \in Running \cup {"none", "cancelled"} /\ wire \in Packets \cup {Terminated}
    BY DEF Init, Packets
  <2>4. terminationSent \in BOOLEAN
    BY DEF Init
  <2>5. outputEnabled \in BOOLEAN
    BY DEF Init
  <2>6. due \in BOOLEAN
    BY DEF Init
  <2> QED BY <2>1, <2>2, <2>3, <2>4, <2>5, <2>6 DEF TypeOK, Init
<1>2. TerminatedHasNoStream /\ DisabledHasNoStream
  BY DEF Init, TerminatedHasNoStream, DisabledHasNoStream, Running
<1>3. KeepAliveIsCurrent /\ PendingIsLatest
  BY DEF Init, KeepAliveIsCurrent, PendingIsLatest
<1>4. JobsAreAwaited
  BY DEF Init, JobsAreAwaited, Owners
<1> QED BY <1>1, <1>2, <1>3, <1>4 DEF StreamInv

-----------------------------------------------------------------------------
(* send_dmx_data keeps the invariant of a universe whose output is on. *)
LEMMA SendKeeps ==
    ASSUME StreamInv, NEW data \in Data, NEW new \in SUBSET Senders, new # {},
           SendDmxData(data, new), outputEnabled' = TRUE,
           UNCHANGED <<seq, lastData, terminationSent, due, orphans, wire>>
    PROVE  StreamInv'
<1> USE DEF StreamInv
<1>1. stream' \in {"none", "sending", "asleep", "cancelled"}
  BY LoopType DEF SendDmxData, StreamStarted, TypeOK, Running
<1>2. jobs' \in [Owners -> Packets]
  <2> SUFFICES ASSUME NEW o \in Owners PROVE jobs'[o] \in Packets
    BY DEF SendDmxData
  <2>1. CASE o \in new
    BY <2>1 DEF SendDmxData, Packets, Frames, TypeOK
  <2>2. CASE o \notin new /\ o = Stream /\ stream = "none" /\ StreamStarted = "sending"
    <3>1. StreamPacket \in Frames
      BY <2>2, LoopType, StreamPacketType DEF StreamStarted
    <3> QED BY <2>2, <3>1 DEF SendDmxData, Packets
  <2>3. CASE o \notin new /\ ~(o = Stream /\ stream = "none" /\ StreamStarted = "sending")
    BY <2>3 DEF SendDmxData, TypeOK
  <2> QED BY <2>1, <2>2, <2>3
<1>3. outputEnabled' \in BOOLEAN
  OBVIOUS
<1>4. TypeOK'
  BY <1>1, <1>2, <1>3 DEF TypeOK, SendDmxData, Running
<1>5. TerminatedHasNoStream'
  BY LoopType DEF TerminatedHasNoStream, SendDmxData, StreamStarted, Running
<1>6. DisabledHasNoStream'
  BY DEF DisabledHasNoStream
<1>7. KeepAliveIsCurrent' /\ PendingIsLatest'
  BY DEF KeepAliveIsCurrent, PendingIsLatest, SendDmxData
<1>8. JobsAreAwaited'
  <2>1. ASSUME NEW s \in Senders, jobs'[s] # Nothing PROVE s \in waiting'
    <3>1. s \in Owners /\ s # Stream
      BY OwnerAssumption DEF Owners
    <3>2. s \in new \/ jobs'[s] = jobs[s]
      BY <3>1 DEF SendDmxData
    <3> QED BY <2>1, <3>2 DEF SendDmxData, JobsAreAwaited
  <2>2. ASSUME jobs'[Stream] # Nothing PROVE stream' = "sending"
    <3>1. Stream \in Owners /\ Stream \notin new
      BY OwnerAssumption DEF Owners
    <3>2. CASE stream = "none" /\ StreamStarted = "sending"
      BY <3>2 DEF SendDmxData
    <3>3. CASE ~(stream = "none" /\ StreamStarted = "sending")
      <4>1. jobs'[Stream] = jobs[Stream]
        BY <3>1, <3>3 DEF SendDmxData
      <4> QED BY <2>2, <4>1 DEF SendDmxData, StreamStarted, JobsAreAwaited
    <3> QED BY <3>2, <3>3
  <2> QED BY <2>1, <2>2 DEF JobsAreAwaited
<1> QED BY <1>4, <1>5, <1>6, <1>7, <1>8

(* Turning the switch off keeps the invariant: either the universe counts as *)
(* terminated already, and then it has no stream, or its stream is cancelled. *)
LEMMA TurnOffKeeps == ASSUME StreamInv, TurnOff PROVE StreamInv'
<1> USE DEF StreamInv
<1>1. outputEnabled' \in BOOLEAN
  BY DEF TurnOff
<1>2. CASE terminationSent
  <2>1. TypeOK'
    BY <1>1, <1>2 DEF TypeOK, TurnOff, Terminate, state, tasks
  <2>2. TerminatedHasNoStream' /\ DisabledHasNoStream'
    BY <1>2 DEF TerminatedHasNoStream, DisabledHasNoStream, TurnOff, Terminate, state, tasks
  <2>3. KeepAliveIsCurrent' /\ PendingIsLatest' /\ JobsAreAwaited'
    BY <1>2 DEF KeepAliveIsCurrent, PendingIsLatest, JobsAreAwaited, TurnOff, Terminate,
                state, tasks
  <2> QED BY <2>1, <2>2, <2>3
<1>3. CASE ~terminationSent
  <2>1. stream' \in {"none", "cancelled"}
    BY <1>3 DEF TurnOff, Terminate, StreamCancelled
  <2>2. jobs' = [jobs EXCEPT ![Stream] = Nothing]
    BY <1>3 DEF TurnOff, Terminate
  <2>3. jobs' \in [Owners -> Packets]
    BY <2>2 DEF TypeOK, Packets
  <2>4. orphans' \subseteq Frames
    <3>1. jobs[Stream] # Nothing => jobs[Stream] \in Frames
      BY DEF TypeOK, Owners, Packets
    <3> QED BY <1>3, <3>1 DEF TurnOff, Terminate, TypeOK
  <2>5. wire' \in Packets \cup {Terminated}
    BY <1>3 DEF TurnOff, Terminate, SentOr, TypeOK
  <2>6. terminationSent' \in BOOLEAN
    BY <1>3 DEF TurnOff, Terminate
  <2>7. TypeOK'
    BY <1>1, <1>3, <2>1, <2>3, <2>4, <2>5, <2>6 DEF TypeOK, TurnOff, Terminate, Running
  <2>8. TerminatedHasNoStream' /\ DisabledHasNoStream'
    BY <2>1 DEF TerminatedHasNoStream, DisabledHasNoStream, Running
  <2>9. KeepAliveIsCurrent' /\ PendingIsLatest'
    BY <1>3 DEF KeepAliveIsCurrent, PendingIsLatest, TurnOff, Terminate
  <2>10. JobsAreAwaited'
    <3>1. jobs'[Stream] = Nothing
      BY <2>2 DEF TypeOK, Owners
    <3>2. \A s \in Senders : jobs'[s] = jobs[s]
      BY <2>2, OwnerAssumption DEF TypeOK, Owners
    <3> QED BY <1>3, <3>1, <3>2 DEF JobsAreAwaited, TurnOff, Terminate
  <2> QED BY <2>7, <2>8, <2>9, <2>10
<1> QED BY <1>2, <1>3

(* A thread that runs a sendto keeps the invariant. *)
LEMMA JobKeeps ==
    ASSUME StreamInv, NEW o \in Owners, JobRuns(o) PROVE StreamInv'
<1> USE DEF StreamInv
<1>1. jobs' \in [Owners -> Packets]
  BY DEF JobRuns, TypeOK, Packets
<1>2. wire' \in Packets \cup {Terminated}
  BY DEF JobRuns, SentOr, TypeOK
<1>3. TypeOK'
  BY <1>1, <1>2 DEF TypeOK, JobRuns, switch, state
<1>4. \A p \in Owners : jobs'[p] # Nothing => jobs[p] # Nothing
  BY DEF JobRuns, TypeOK
<1>5. JobsAreAwaited'
  BY <1>4 DEF JobsAreAwaited, JobRuns, Owners
<1> QED BY <1>3, <1>5 DEF JobRuns, switch, state, TerminatedHasNoStream,
             DisabledHasNoStream, KeepAliveIsCurrent, PendingIsLatest

(* So does one that runs the sendto of a cancelled stream. *)
LEMMA OrphanKeeps == ASSUME StreamInv, OrphanRuns PROVE StreamInv'
<1> USE DEF StreamInv
<1>1. PICK packet \in orphans :
         orphans' = orphans \ {packet} /\ wire' \in SentOr(packet)
  BY DEF OrphanRuns
<1>2. wire' \in Packets \cup {Terminated} /\ orphans' \subseteq Frames
  BY <1>1 DEF SentOr, TypeOK, Packets
<1>3. TypeOK'
  BY <1>2 DEF TypeOK, OrphanRuns, switch, state
<1> QED BY <1>3 DEF OrphanRuns, switch, state, TerminatedHasNoStream,
             DisabledHasNoStream, KeepAliveIsCurrent, PendingIsLatest, JobsAreAwaited

(* _send_pending_frame leaves the newest frame, or none, to be kept alive. *)
LEMMA SenderKeeps ==
    ASSUME StreamInv, NEW s \in Senders, SenderResumes(s) PROVE StreamInv'
<1> USE DEF StreamInv
<1>1. seq' \in 0..(SeqMod - 1)
  BY NextSeqType DEF SenderResumes, TypeOK
<1>2. due' \in BOOLEAN
  BY DEF SenderResumes
<1>3. terminationSent' \in BOOLEAN
  BY DEF SenderResumes
<1>4. TypeOK'
  BY <1>1, <1>2, <1>3 DEF TypeOK, SenderResumes, LastDataSent, switch
<1>5. TerminatedHasNoStream' /\ DisabledHasNoStream'
  BY DEF SenderResumes, switch, TerminatedHasNoStream, DisabledHasNoStream
<1>6. KeepAliveIsCurrent' /\ PendingIsLatest'
  BY DEF SenderResumes, LastDataSent, KeepAliveIsCurrent, PendingIsLatest
<1>7. JobsAreAwaited'
  BY DEF SenderResumes, JobsAreAwaited
<1> QED BY <1>4, <1>5, <1>6, <1>7

(* The steps of the stream's own task and the passing of its interval. *)
LEMMA StreamKeeps ==
    ASSUME StreamInv, StreamWakes \/ StreamResumes \/ StreamEnds \/ IntervalPasses
    PROVE  StreamInv'
<1> USE DEF StreamInv
<1>1. CASE StreamWakes
  <2>1. jobs' = [jobs EXCEPT ![Stream] = StreamPacket] /\ StreamPacket \in Frames
    BY <1>1, StreamPacketType DEF StreamWakes, Retransmits
  <2>2. jobs' \in [Owners -> Packets]
    BY <2>1 DEF TypeOK, Packets
  <2>3. TypeOK'
    BY <1>1, <2>2 DEF TypeOK, StreamWakes, Running, switch, state
  <2>4. TerminatedHasNoStream' /\ DisabledHasNoStream'
    BY <1>1 DEF StreamWakes, Retransmits, Running, switch, state, TerminatedHasNoStream,
                DisabledHasNoStream
  <2>5. JobsAreAwaited'
    BY <1>1, <2>1, OwnerAssumption DEF StreamWakes, JobsAreAwaited, TypeOK, Owners
  <2> QED BY <1>1, <2>3, <2>4, <2>5 DEF StreamWakes, state, KeepAliveIsCurrent, PendingIsLatest
<1>2. CASE StreamResumes
  <2>1. stream' \in {"none", "sending", "asleep"}
    BY <1>2, LoopType DEF StreamResumes
  <2>2. due' \in BOOLEAN
    BY <1>2 DEF StreamResumes
  <2>3. TypeOK'
    BY <1>2, <2>1, <2>2, NextSeqType DEF TypeOK, StreamResumes, Running, switch
  <2>4. TerminatedHasNoStream' /\ DisabledHasNoStream'
    BY <1>2 DEF StreamResumes, Running, switch, TerminatedHasNoStream, DisabledHasNoStream
  <2> QED BY <1>2, <2>3, <2>4 DEF StreamResumes, KeepAliveIsCurrent, PendingIsLatest,
                                  JobsAreAwaited
<1>3. CASE StreamEnds
  <2>1. TypeOK'
    BY <1>3 DEF TypeOK, StreamEnds, switch, state
  <2> QED BY <1>3, <2>1 DEF StreamEnds, Running, switch, state, TerminatedHasNoStream,
               DisabledHasNoStream, KeepAliveIsCurrent, PendingIsLatest, JobsAreAwaited
<1>4. CASE IntervalPasses
  <2>1. due' \in BOOLEAN
    BY <1>4 DEF IntervalPasses
  <2>2. TypeOK'
    BY <1>4, <2>1 DEF TypeOK, IntervalPasses, switch, tasks
  <2> QED BY <1>4, <2>2 DEF IntervalPasses, switch, tasks, TerminatedHasNoStream,
               DisabledHasNoStream, KeepAliveIsCurrent, PendingIsLatest, JobsAreAwaited
<1> QED BY <1>1, <1>2, <1>3, <1>4

-----------------------------------------------------------------------------
(* Every step keeps the invariant. *)
LEMMA StreamStep == StreamInv /\ [Next]_vars => StreamInv'
<1> SUFFICES ASSUME StreamInv, [Next]_vars PROVE StreamInv'
  OBVIOUS
<1>1. ASSUME NEW data \in Data, NEW s \in Senders, UniverseSends(data, s) PROVE StreamInv'
  <2>1. {s} \in SUBSET Senders /\ {s} # {}
    OBVIOUS
  <2>2. outputEnabled' = TRUE
    BY <1>1 DEF UniverseSends, switch, StreamInv, TypeOK
  <2> QED BY <1>1, <2>1, <2>2, SendKeeps DEF UniverseSends
<1>2. ASSUME NEW data \in Data, NEW s \in Senders, NEW t \in Senders, TurnOn(data, s, t)
      PROVE  StreamInv'
  <2>1. {s, t} \in SUBSET Senders /\ {s, t} # {}
    OBVIOUS
  <2> QED BY <1>2, <2>1, SendKeeps DEF TurnOn
<1>3. CASE TurnOff
  BY <1>3, TurnOffKeeps
<1>4. ASSUME NEW o \in Owners, JobRuns(o) PROVE StreamInv'
  BY <1>4, JobKeeps
<1>5. CASE OrphanRuns
  BY <1>5, OrphanKeeps
<1>6. ASSUME NEW s \in Senders, SenderResumes(s) PROVE StreamInv'
  BY <1>6, SenderKeeps
<1>7. CASE StreamWakes \/ StreamResumes \/ StreamEnds \/ IntervalPasses
  BY <1>7, StreamKeeps
<1>8. CASE UNCHANGED vars
  <2>1. TypeOK'
    BY <1>8 DEF StreamInv, TypeOK, vars, switch, state, tasks
  <2> QED BY <1>8, <2>1 DEF StreamInv, vars, switch, state, tasks, TerminatedHasNoStream,
               DisabledHasNoStream, KeepAliveIsCurrent, PendingIsLatest, JobsAreAwaited
<1> QED BY <1>1, <1>2, <1>3, <1>4, <1>5, <1>6, <1>7, <1>8 DEF Next

(* The invariant always holds. *)
LEMMA StreamInvariance == Spec => []StreamInv
<1> QED BY StreamStart, StreamStep, PTL DEF Spec

-----------------------------------------------------------------------------
(* The variables keep their types; the sequence number is always in range. *)
THEOREM TypeCorrect == Spec => []TypeOK
<1>1. StreamInv => TypeOK
  BY DEF StreamInv
<1> QED BY <1>1, StreamInvariance, PTL

(* A universe that is terminated, or switched off, has no running stream:    *)
(* the early return of terminate_universe never leaves one behind.           *)
THEOREM NoStreamSurvives == Spec => [](TerminatedHasNoStream /\ DisabledHasNoStream)
<1>1. StreamInv => TerminatedHasNoStream /\ DisabledHasNoStream
  BY DEF StreamInv
<1> QED BY <1>1, StreamInvariance, PTL

(* With no frame in flight the stream keeps the newest frame alive, or none, *)
(* however the frames in flight overlapped.                                  *)
THEOREM KeepsNewestAlive == Spec => []KeepAliveIsCurrent
<1>1. StreamInv => KeepAliveIsCurrent
  BY DEF StreamInv
<1> QED BY <1>1, StreamInvariance, PTL

(* A disabled universe with nothing in flight sends termination packets only. *)
THEOREM DisabledIsSilent == Spec => DisabledFallsSilent
<1>1. ASSUME StreamInv, [Next]_vars, ~outputEnabled, waiting = {}, orphans = {}
      PROVE  wire' \in {wire, Terminated}
  <2>1. \A o \in Owners : jobs[o] = Nothing
    BY <1>1 DEF StreamInv, JobsAreAwaited, DisabledHasNoStream, Running, Owners
  <2>2. CASE TurnOff
    BY <2>2 DEF TurnOff, Terminate, SentOr
  <2>3. CASE UNCHANGED vars
    BY <2>3 DEF vars
  <2>4. CASE \E o \in Owners : JobRuns(o)
    BY <2>1, <2>4 DEF JobRuns
  <2>5. CASE OrphanRuns
    BY <1>1, <2>5 DEF OrphanRuns
  <2>6. ASSUME Next, ~TurnOff, ~(\E o \in Owners : JobRuns(o)), ~OrphanRuns
        PROVE  wire' = wire
    BY <2>6 DEF Next, UniverseSends, TurnOn, SenderResumes, StreamWakes, StreamResumes,
                StreamEnds, IntervalPasses
  <2> QED BY <1>1, <2>2, <2>3, <2>4, <2>5, <2>6
<1>2. StreamInv /\ [Next]_vars =>
        [(~outputEnabled /\ waiting = {} /\ orphans = {}) =>
            wire' \in {wire, Terminated}]_vars
  BY <1>1
<1> QED BY <1>2, StreamInvariance, PTL DEF Spec, DisabledFallsSilent
=============================================================================
