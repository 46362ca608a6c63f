------------------------------ MODULE DmxInput ------------------------------
(***************************************************************************)
(* DMX frames received from other controllers on one universe              *)
(* (create_state_callback of protocols/artnet and protocols/sacn): the     *)
(* channels that differ from what is known are collected in updates_dict   *)
(* and written to the universe as one batch by process_updates, when the   *)
(* rate limiter says so.  Home Assistant writes the same channels.         *)
(*                                                                         *)
(* Home Assistant starts tasks eagerly and process_updates does not        *)
(* suspend, so the batch is written in the step that makes the update.     *)
(***************************************************************************)
EXTENDS RateLimiter

CONSTANTS
    Size,      \* the number of channels; input frames may be shorter
    Values     \* the byte values

ASSUME SizeAssumption == Size \in Nat \ {0}
ASSUME ValuesAssumption == 0 \in Values

VARIABLES
    channelValues,  \* what the universe holds; 0 where never written
    updates,        \* updates_dict: values received and not yet written
    lastInput,      \* history: the value last received for each channel
    inputLeads      \* history: channels received since HA last wrote them

dataVars == <<channelValues, updates, lastInput, inputLeads>>
vars == <<limiterVars, dataVars>>

Channels == 1..Size
Frames == UNION {[1..n -> Values] : n \in Channels}
Writes == UNION {[S -> Values] : S \in (SUBSET Channels) \ {{}}}

NoUpdates == [c \in {} |-> 0]

Overlay(table, over) ==
    [c \in DOMAIN table \cup DOMAIN over |->
        IF c \in DOMAIN over THEN over[c] ELSE table[c]]

(* What the universe holds once the collected updates are written. *)
Expected == Overlay(channelValues, updates)

(* Mutant: the frame is compared with the universe only. *)
DiffersFromTable(data) == {c \in DOMAIN data : channelValues[c] # data[c]}

(* The comparison in state_callback. *)
Differs(data) == {c \in DOMAIN data : Expected[c] # data[c]}

Collected(data) == Overlay(updates, [c \in Differs(data) |-> data[c]])

(* Mutant: process_updates writes one channel and keeps the rest. *)
ProcessFirst(batch) ==
    LET first == CHOOSE c \in DOMAIN batch : \A d \in DOMAIN batch : c <= d
    IN  /\ channelValues' = [channelValues EXCEPT ![first] = batch[first]]
        /\ updates' = [c \in DOMAIN batch \ {first} |-> batch[c]]

(* process_updates with `batch` in updates_dict. *)
ProcessUpdates(batch) ==
    /\ channelValues' = Overlay(channelValues, batch)
    /\ updates' = NoUpdates

-----------------------------------------------------------------------------
Init ==
    /\ LimiterInit
    /\ channelValues \in [Channels -> Values]
    /\ updates = NoUpdates
    /\ lastInput = channelValues
    /\ inputLeads = {}

(* state_callback for a frame that changes nothing, ... *)
ReceiveKnown(data) ==
    /\ Differs(data) = {}
    /\ UNCHANGED <<limiterVars, channelValues, updates>>

(* ... for one whose changes are written at once, ... *)
ReceiveAndUpdate(data) ==
    /\ Differs(data) # {}
    /\ UpdateAtOnce
    /\ ProcessUpdates(Collected(data))

(* ... and for one whose changes are left to a task. *)
ReceiveAndDefer(data) ==
    /\ Differs(data) # {}
    /\ DeferUpdate
    /\ updates' = Collected(data)
    /\ UNCHANGED channelValues

Receive(data) ==
    /\ ReceiveKnown(data) \/ ReceiveAndUpdate(data) \/ ReceiveAndDefer(data)
    /\ lastInput' = Overlay(lastInput, data)
    /\ inputLeads' = inputLeads \cup DOMAIN data

(* An entity writes some channels (update_multiple_values without source). *)
HaWrites(write) ==
    /\ channelValues' = Overlay(channelValues, write)
    /\ inputLeads' = inputLeads \ DOMAIN write
    /\ UNCHANGED <<limiterVars, updates, lastInput>>

(* The rate limiter's task wakes. *)
Wake ==
    \/ WakeAndUpdate /\ ProcessUpdates(updates) /\ UNCHANGED <<lastInput, inputLeads>>
    \/ WakeIdle /\ UNCHANGED dataVars

Tick == LimiterTick /\ UNCHANGED dataVars

Next ==
    \/ \E data \in Frames : Receive(data)
    \/ \E write \in Writes : HaWrites(write)
    \/ Wake
    \/ Tick

Spec == Init /\ [][Next]_vars

(* Time passes and the event loop runs a task that is due. *)
FairSpec == Spec /\ WF_vars(Tick) /\ WF_vars(Wake)

-----------------------------------------------------------------------------
TypeOK ==
    /\ LimiterTypeOK
    /\ channelValues \in [Channels -> Values]
    /\ updates \in Writes \cup {NoUpdates}
    /\ lastInput \in [Channels -> Values]
    /\ inputLeads \subseteq Channels

(* updates_dict holds something exactly while the limiter knows of a change:  *)
(* nothing received is left behind in it with no update to come, and no       *)
(* update finds it empty.                                                     *)
BufferedIsPending == (updates # NoUpdates) = pendingUpdate

(* The last value received for a channel is what the universe holds or is     *)
(* about to be given, until an entity writes that channel.                    *)
InputNotLost == \A c \in inputLeads : Expected[c] = lastInput[c]

(* The universe ends up with what was received last, unless something newer   *)
(* is said of the channel first.                                              *)
InputIsShown ==
    \A c \in Channels : \A v \in Values :
        (c \in inputLeads /\ lastInput[c] = v)
        ~> (channelValues[c] = v \/ lastInput[c] # v \/ c \notin inputLeads)

(* The universe as the reader of the input stream. *)
Abstract == INSTANCE LatestValue WITH
    Keys <- Channels, Data <- Values, latest <- Expected, shown <- channelValues,
    pending <- DOMAIN updates

(* The universe is brought up to date in whole batches, so that the coarse    *)
(* and the fine byte of a value are never of different frames, and no batch   *)
(* stays behind.                                                              *)
ImplementsLatestValue == Abstract!LatestSpec
=============================================================================
