---------------------------- MODULE SacnUniverse ----------------------------
(***************************************************************************)
(* The transmission of one universe by the sACN server                     *)
(* (server/sacn_server.py), driven by the output switch of the universe    *)
(* (io/dmx_io.py, switch.py).                                              *)
(*                                                                         *)
(* A new frame is sent at once by a task of its own (_send_pending_frame); *)
(* a stream task (_stream_universe_data) retransmits the last one when     *)
(* nothing was sent for retransmit_interval.  Tasks are started eagerly,   *)
(* up to their first await; the sendto calls they await run on the threads *)
(* of an executor, in any order.  The interval is abstracted to `due`:     *)
(* whether it has passed since last_send_time.                             *)
(***************************************************************************)
EXTENDS Integers, FiniteSets

CONSTANTS
    Data,        \* the contents of a universe
    Senders,     \* the tasks of _send_pending_frame that can be in flight
    SeqMod,      \* 256
    NoData,      \* the None of last_data and pending_data
    Stream,      \* names the stream task as the owner of a packet
    Nothing,     \* no packet
    Terminated,  \* a stream termination packet
    SocketsFail  \* sendto may raise

ASSUME SeqAssumption == SeqMod \in Nat \ {0}
ASSUME DataAssumption == NoData \notin Data
ASSUME OwnerAssumption == Stream \notin Senders
ASSUME ModeAssumption == SocketsFail \in BOOLEAN
ASSUME PacketAssumption == {Nothing, Terminated} \cap [seq : Nat, data : Data] = {}

VARIABLES
    outputEnabled,   \* DmxUniverse._output_enabled
    seq,             \* sequence_number
    lastData,        \* last_data
    pendingData,     \* pending_data
    terminationSent, \* termination_sent
    due,             \* retransmit_interval has passed since last_send_time
    stream,          \* stream_task: none or done, asleep, sending or cancelled
    waiting,         \* the tasks of _send_pending_frame awaiting their sendto
    jobs,            \* the packet each task has handed to the executor
    orphans,         \* packets of a cancelled stream still in a thread
    wire,            \* the last packet that left
    latest           \* history: the frame last given to send_dmx_data

switch == <<outputEnabled>>
state == <<seq, lastData, pendingData, terminationSent, due>>
tasks == <<stream, waiting, jobs, orphans>>
vars == <<switch, state, tasks, wire, latest>>

Owners == Senders \cup {Stream}
Frames == [seq : 0..(SeqMod - 1), data : Data]
Packets == Frames \cup {Nothing}
Running == {"asleep", "sending"}

(* increment_sequence *)
NextSeq == (seq + 1) % SeqMod

Init ==
    /\ outputEnabled = TRUE
    /\ seq = 0
    /\ lastData = NoData
    /\ pendingData = NoData
    /\ terminationSent = FALSE
    /\ due = TRUE
    /\ stream = "none"
    /\ waiting = {}
    /\ jobs = [o \in Owners |-> Nothing]
    /\ orphans = {}
    /\ wire = Nothing
    /\ latest = NoData

-----------------------------------------------------------------------------
(* Mutant: the stream looks at pending_data. *)
RetransmitsPending(terminated, isDue) ==
    ~terminated /\ pendingData # NoData /\ isDue

(* The head of the stream's loop: where the task is when it next awaits.   *)
(* Without last_data it sleeps for what is left of the interval, which is  *)
(* nothing at all once the interval has passed.                            *)
Retransmits(terminated, isDue) == ~terminated /\ lastData # NoData /\ isDue

(* Mutant: the loop does not look at termination_sent. *)
LoopIgnoresTermination(terminated, isDue) ==
    IF lastData # NoData /\ isDue THEN "sending" ELSE "asleep"

StreamLoop(terminated, isDue) ==
    IF terminated THEN "none"
    ELSE IF Retransmits(terminated, isDue) THEN "sending"
    ELSE "asleep"

StreamPacket == [seq |-> seq, data |-> lastData]

(* send_dmx_data creates the stream task if there is none or it is done. *)
StreamStarted ==
    IF stream = "none" THEN StreamLoop(terminationSent, due) ELSE stream

(* send_dmx_data, once for each task in `new`, which are all started with  *)
(* the sequence number they find.                                          *)
SendDmxData(data, new) ==
    /\ new \cap waiting = {}
    /\ pendingData' = data
    /\ latest' = data
    /\ stream' = StreamStarted
    /\ waiting' = waiting \cup new
    /\ jobs' = [o \in Owners |->
                  IF o \in new THEN [seq |-> seq, data |-> data]
                  ELSE IF o = Stream /\ stream = "none" /\ StreamStarted = "sending"
                       THEN StreamPacket
                  ELSE jobs[o]]

(* The universe sends a frame: on a timer, from a select or an update. *)
UniverseSends(data, s) ==
    /\ outputEnabled
    /\ SendDmxData(data, {s})
    /\ UNCHANGED <<switch, seq, lastData, terminationSent, due, orphans, wire>>

(* The switch is turned on: the universe is known already, and both         *)
(* set_output_enabled and the switch send its data.                         *)
TurnOn(data, s, t) ==
    /\ s # t
    /\ outputEnabled' = TRUE
    /\ SendDmxData(data, {s, t})
    /\ UNCHANGED <<seq, lastData, terminationSent, due, orphans, wire>>

(* Mutant: only a stream that sleeps is cancelled. *)
CancelAsleep == IF stream = "asleep" THEN "cancelled" ELSE stream

(* stream_task.cancel() of a task that is not done. *)
StreamCancelled == IF stream = "none" THEN stream ELSE "cancelled"

(* What is on the wire after a sendto of this packet. *)
SentOr(packet) == {packet} \cup IF SocketsFail THEN {wire} ELSE {}

(* terminate_universe: the cancelled stream's sendto is withdrawn if no      *)
(* thread has taken it up yet.  One of the termination packets may raise,    *)
(* after which the universe does not count as terminated.                    *)
Terminate ==
    IF terminationSent
    THEN UNCHANGED <<state, tasks, wire>>
    ELSE /\ stream' = StreamCancelled
         /\ jobs' = [jobs EXCEPT ![Stream] = Nothing]
         /\ \/ orphans' = orphans
            \/ jobs[Stream] # Nothing /\ orphans' = orphans \cup {jobs[Stream]}
         /\ \/ wire' = Terminated /\ terminationSent' = TRUE
            \/ SocketsFail /\ wire' \in SentOr(Terminated) /\ terminationSent' = FALSE
         /\ UNCHANGED <<seq, lastData, pendingData, due, waiting>>

(* The switch is turned off. *)
TurnOff ==
    /\ outputEnabled' = FALSE
    /\ Terminate
    /\ UNCHANGED latest

(* A thread of the executor runs a sendto. *)
JobRuns(o) ==
    /\ jobs[o] # Nothing
    /\ jobs' = [jobs EXCEPT ![o] = Nothing]
    /\ wire' \in SentOr(jobs[o])
    /\ UNCHANGED <<switch, state, stream, waiting, orphans, latest>>

OrphanRuns ==
    /\ \E packet \in orphans :
          orphans' = orphans \ {packet} /\ wire' \in SentOr(packet)
    /\ UNCHANGED <<switch, state, stream, waiting, jobs, latest>>

(* Mutant: a frame that is kept already is not replaced. *)
LastDataKept == IF lastData = NoData THEN pendingData ELSE lastData

(* What _send_pending_frame makes of pending_data after its await. *)
LastDataSent == pendingData

(* _send_pending_frame resumes after its sendto. *)
SenderResumes(s) ==
    /\ s \in waiting
    /\ jobs[s] = Nothing
    /\ waiting' = waiting \ {s}
    /\ seq' = NextSeq
    /\ lastData' = LastDataSent
    /\ pendingData' = NoData
    /\ due' = FALSE
    /\ terminationSent' = FALSE
    /\ UNCHANGED <<switch, stream, jobs, orphans, wire, latest>>

(* The stream wakes from its sleep, which was for the rest of the interval, *)
(* and finds it passed or, a frame having been sent meanwhile, not.         *)
StreamWakes ==
    /\ stream = "asleep"
    /\ Retransmits(terminationSent, due)
    /\ stream' = "sending"
    /\ jobs' = [jobs EXCEPT ![Stream] = StreamPacket]
    /\ UNCHANGED <<switch, state, waiting, orphans, wire, latest>>

(* The stream resumes after its sendto. *)
StreamResumes ==
    /\ stream = "sending"
    /\ jobs[Stream] = Nothing
    /\ seq' = NextSeq
    /\ due' = FALSE
    /\ stream' = StreamLoop(terminationSent, FALSE)
    /\ UNCHANGED <<switch, lastData, pendingData, terminationSent, waiting, jobs,
                   orphans, wire, latest>>

(* The cancelled stream is done. *)
StreamEnds ==
    /\ stream = "cancelled"
    /\ stream' = "none"
    /\ UNCHANGED <<switch, state, waiting, jobs, orphans, wire, latest>>

IntervalPasses ==
    /\ ~due
    /\ due' = TRUE
    /\ UNCHANGED <<switch, seq, lastData, pendingData, terminationSent, tasks, wire, latest>>

Next ==
    \/ \E data \in Data : \E s \in Senders :
          \/ UniverseSends(data, s)
          \/ \E t \in Senders : TurnOn(data, s, t)
    \/ TurnOff
    \/ \E o \in Owners : JobRuns(o)
    \/ OrphanRuns
    \/ \E s \in Senders : SenderResumes(s)
    \/ StreamWakes
    \/ StreamResumes
    \/ StreamEnds
    \/ IntervalPasses

Spec == Init /\ [][Next]_vars

(* The threads and the event loop run what they have been given. *)
Fairness ==
    /\ \A o \in Owners : WF_vars(JobRuns(o))
    /\ \A s \in Senders : WF_vars(SenderResumes(s))
    /\ WF_vars(OrphanRuns)
    /\ WF_vars(StreamWakes)
    /\ WF_vars(StreamResumes)
    /\ WF_vars(StreamEnds)
    /\ WF_vars(IntervalPasses)

FairSpec == Spec /\ Fairness

-----------------------------------------------------------------------------
TypeOK ==
    /\ outputEnabled \in BOOLEAN
    /\ seq \in 0..(SeqMod - 1)
    /\ lastData \in Data \cup {NoData}
    /\ pendingData \in Data \cup {NoData}
    /\ terminationSent \in BOOLEAN
    /\ due \in BOOLEAN
    /\ stream \in Running \cup {"none", "cancelled"}
    /\ waiting \subseteq Senders
    /\ jobs \in [Owners -> Packets]
    /\ orphans \subseteq Frames
    /\ wire \in Packets \cup {Terminated}
    /\ latest \in Data \cup {NoData}

(* A terminated universe has no stream that could retransmit: this is what  *)
(* lets terminate_universe return early when termination_sent is set.       *)
TerminatedHasNoStream == terminationSent => stream \notin Running

(* While the output is off the stream is off, however the switch was toggled *)
(* and whatever frames were in flight when it was.                           *)
DisabledHasNoStream == ~outputEnabled => stream \notin Running

(* Once the frames in flight when the switch was turned off have left, a      *)
(* disabled universe puts nothing on the wire but termination packets, even  *)
(* if sending some of these failed.                                          *)
DisabledFallsSilent ==
    [][(~outputEnabled /\ waiting = {} /\ orphans = {}) =>
          wire' \in {wire, Terminated}]_vars

(* Once no frame is in flight, what the stream retransmits is the frame      *)
(* given last, never an earlier one.                                         *)
KeepAliveIsCurrent == waiting = {} => lastData \in {NoData, latest}

(* A stream that sleeps over a frame wakes and sends it when the interval    *)
(* has passed, unless a newer frame resets the interval or the universe is   *)
(* terminated.                                                               *)
QuietStreamRetransmits ==
    (stream = "asleep" /\ lastData # NoData /\ due)
    ~> (stream = "sending" \/ stream \notin Running \/ lastData = NoData \/ ~due)
=============================================================================
