---------------------------- MODULE DmxUniverse ----------------------------
(***************************************************************************)
(* One DMX universe (io/dmx_io.py): the table of channel values that every *)
(* entity writes to and that every frame is rendered from, the channels    *)
(* pinned to a constant by the fixture definition, and the throttle that   *)
(* coalesces the entities' writes into at most one frame per interval.     *)
(*                                                                         *)
(* Home Assistant runs all of this on one event loop and no method of the  *)
(* class suspends (the listeners it awaits are plain functions), so each   *)
(* call is one action.  Time is counted in ticks; the clock of             *)
(* _last_send_time is kept as the time elapsed since then, up to           *)
(* FrameInterval, which is all the code compares it with.                  *)
(***************************************************************************)
EXTENDS Integers, FiniteSets, Sequences

CONSTANTS
    Channels,       \* the DMX channels the fixtures of the universe occupy
    Values,         \* the byte values written
    FrameInterval,  \* 1 / max_fps, in ticks
    UsePartial,     \* use_partial_universe
    UniverseSize,   \* 512
    NoTimer         \* the None of _send_timer

ASSUME ChannelsAssumption == /\ UniverseSize \in Nat \ {0}
                             /\ UniverseSize % 2 = 0
                             /\ Channels \subseteq 1..UniverseSize
ASSUME ValuesAssumption == 0 \in Values
ASSUME IntervalAssumption == FrameInterval \in Nat \ {0}
ASSUME PartialAssumption == UsePartial \in BOOLEAN
ASSUME TimerAssumption == NoTimer \notin Int

VARIABLES
    channelValues,   \* _channel_values: the channels written so far
    constantValues,  \* _constant_values, fixed once the fixtures are set up
    outputEnabled,   \* _output_enabled
    sendTimer,       \* _send_timer: ticks left on the handle it refers to
    armed,           \* the callbacks of _do_send waiting in the event loop
    sinceSend,       \* time since _last_send_time, up to FrameInterval
    frame,           \* the last frame handed to the protocol servers
    unrequested      \* history: channels changed since, with no send asked for

timing == <<sendTimer, armed, sinceSend>>
vars == <<channelValues, constantValues, outputEnabled, timing, frame, unrequested>>

NoFrame == << >>

(* The partial functions from a subset of Channels to Values. *)
Tables == UNION {[S -> Values] : S \in SUBSET Channels}
Updates == Tables \ {[c \in {} |-> 0]}

IsMax(S, m) == m \in S /\ \A n \in S : n <= m

(* Mutant: the frame stops at the highest channel that is not zero. *)
LitLength(table) ==
    LET lit == {c \in DOMAIN table : table[c] # 0}
        top == CHOOSE m \in lit : IsMax(lit, m)
    IN  IF lit = {} THEN 2 ELSE top + (top % 2)

(* A partial universe stops at the highest channel set, rounded up to even. *)
FrameLength(table) ==
    LET top == CHOOSE m \in DOMAIN table : IsMax(DOMAIN table, m)
    IN  IF DOMAIN table = {} THEN 2
        ELSE IF UsePartial THEN top + (top % 2)
        ELSE UniverseSize

Render(table) ==
    [i \in 1..FrameLength(table) |-> IF i \in DOMAIN table THEN table[i] ELSE 0]

Overlay(table, over) ==
    [c \in DOMAIN table \cup DOMAIN over |->
        IF c \in DOMAIN over THEN over[c] ELSE table[c]]

(* update_value: a write of Home Assistant's own skips the constants. *)
Accepted(updates, external) ==
    IF external THEN updates
    ELSE [c \in DOMAIN updates \ DOMAIN constantValues |-> updates[c]]

(* The loop over _constant_values at the start of send_universe_data. *)
WithConstants(table) == Overlay(table, constantValues)

Written(updates, external) == Overlay(channelValues, Accepted(updates, external))

Changed(updates, external) ==
    {c \in DOMAIN Accepted(updates, external) :
        c \in DOMAIN channelValues => channelValues[c] # updates[c]}

-----------------------------------------------------------------------------
(* send_universe_data, with the values and the output switch it finds. *)
SendUniverseData(table, enabled) ==
    IF enabled
    THEN LET full == WithConstants(table)
         IN  channelValues' = full /\ frame' = Render(full)
    ELSE channelValues' = table /\ frame' = frame

(* Mutant: _do_send leaves _send_timer as it is. *)
KeepTimer(table, left) ==
    /\ sendTimer' = sendTimer
    /\ armed' = left
    /\ sinceSend' = 0
    /\ SendUniverseData(table, outputEnabled)

(* _do_send on behalf of a call that leaves `left` armed in the loop. *)
DoSend(table, left) ==
    /\ sendTimer' = NoTimer
    /\ armed' = left
    /\ sinceSend' = 0
    /\ SendUniverseData(table, outputEnabled)

(* Mutant: the pending timer is forgotten, not cancelled. *)
CancelForgotten == armed

CancelTimer == armed \ {sendTimer}

Remaining == FrameInterval - sinceSend

(* _schedule_send: at once when the interval has passed, else on a timer. *)
ScheduleSend(table) ==
    \/ /\ sinceSend >= FrameInterval
       /\ DoSend(table, CancelTimer)
    \/ /\ sinceSend < FrameInterval
       /\ IF sendTimer = NoTimer
          THEN /\ sendTimer' = Remaining
               /\ armed' = armed \cup {Remaining}
          ELSE UNCHANGED <<sendTimer, armed>>
       /\ channelValues' = table
       /\ UNCHANGED <<sinceSend, frame>>

-----------------------------------------------------------------------------
(* Once the fixtures are created: their constants are set, nothing is sent. *)
Init ==
    /\ constantValues \in Tables
    /\ channelValues = constantValues
    /\ outputEnabled = TRUE
    /\ sendTimer = NoTimer
    /\ armed = {}
    /\ sinceSend = FrameInterval
    /\ frame = NoFrame
    /\ unrequested = DOMAIN constantValues

(* A light, number or animation frame: update_multiple_values(updates).    *)
UpdateAndSchedule(updates) ==
    /\ ScheduleSend(Written(updates, FALSE))
    /\ unrequested' = {}
    /\ UNCHANGED <<constantValues, outputEnabled>>

(* An input frame, update_multiple_values(.., source, send_update=False), or *)
(* a write of Home Assistant's own one of whose listeners raises, so that    *)
(* the call ends before it asks for a send.                                  *)
UpdateOnly(updates, external) ==
    /\ channelValues' = Written(updates, external)
    /\ unrequested' = unrequested \cup Changed(updates, external)
    /\ UNCHANGED <<constantValues, outputEnabled, timing, frame>>

(* A select: writes without a send, then calls send_universe_data itself. *)
UpdateAndSendNow(updates) ==
    /\ SendUniverseData(Written(updates, FALSE), outputEnabled)
    /\ unrequested' = {}
    /\ UNCHANGED <<constantValues, outputEnabled, timing>>

(* The loop runs a callback of call_later that is due. *)
TimerFires ==
    /\ 0 \in armed
    /\ DoSend(channelValues, armed \ {0})
    /\ UNCHANGED <<constantValues, outputEnabled, unrequested>>

(* Mutant: the output is only switched back on. *)
TurnOnSilently ==
    /\ outputEnabled' = TRUE
    /\ unrequested' = {}
    /\ UNCHANGED <<channelValues, constantValues, timing, frame>>

(* The universe switch: output on, which also sends, and output off. *)
TurnOn ==
    /\ outputEnabled' = TRUE
    /\ SendUniverseData(channelValues, TRUE)
    /\ unrequested' = {}
    /\ UNCHANGED <<constantValues, timing>>

TurnOff ==
    /\ outputEnabled' = FALSE
    /\ UNCHANGED <<channelValues, constantValues, timing, frame, unrequested>>

CountDown(t) == IF t = 0 THEN 0 ELSE t - 1

(* One tick passes; a callback that is due may be late. *)
Tick ==
    /\ sinceSend < FrameInterval \/ armed \ {0} # {}
    /\ sinceSend' = IF sinceSend < FrameInterval THEN sinceSend + 1 ELSE sinceSend
    /\ armed' = {CountDown(t) : t \in armed}
    /\ sendTimer' = IF sendTimer = NoTimer THEN NoTimer ELSE CountDown(sendTimer)
    /\ UNCHANGED <<channelValues, constantValues, outputEnabled, frame, unrequested>>

Next ==
    \/ \E updates \in Updates :
          \/ UpdateAndSchedule(updates)
          \/ UpdateAndSendNow(updates)
          \/ \E external \in BOOLEAN : UpdateOnly(updates, external)
    \/ TimerFires
    \/ TurnOn
    \/ TurnOff
    \/ Tick

Spec == Init /\ [][Next]_vars

(* The event loop runs what is due and time passes. *)
Fairness == WF_vars(Tick) /\ WF_vars(TimerFires)

FairSpec == Spec /\ Fairness

-----------------------------------------------------------------------------
(* Every variable holds a value of its kind. *)
TypeOK ==
    /\ constantValues \in Tables
    /\ channelValues \in Tables
    /\ DOMAIN constantValues \subseteq DOMAIN channelValues
    /\ outputEnabled \in BOOLEAN
    /\ sendTimer \in {NoTimer} \cup 0..FrameInterval
    /\ armed \subseteq 0..FrameInterval
    /\ sinceSend \in 0..FrameInterval
    /\ frame \in Seq(Values)
    /\ unrequested \subseteq Channels

(* The loop never holds a send that _send_timer does not know of, so the    *)
(* cancel of _schedule_send reaches every send that is still to come: what  *)
(* keeps an immediate send and a late timer from both firing.               *)
TimerOwned ==
    armed = IF sendTimer = NoTimer THEN {} ELSE {sendTimer}

(* A timer ends exactly when the interval since the last throttled send     *)
(* does, whatever was written, switched or sent directly meanwhile.         *)
TimerOnBoundary ==
    sendTimer # NoTimer => sendTimer = FrameInterval - sinceSend

(* While the output is on and no send is pending, every channel whose last  *)
(* change asked for a send shows that value in the last frame: coalescing,  *)
(* cancelling and switching the output off and on never lose a write.       *)
NoLostWrite ==
    outputEnabled /\ sendTimer = NoTimer =>
        \A c \in DOMAIN channelValues \ unrequested :
            c \in DOMAIN frame /\ frame[c] = channelValues[c]

(* Every frame carries the constants of the fixture definitions, although   *)
(* an input frame may overwrite them in the table between two sends.        *)
ConstantsOnWire ==
    frame # NoFrame =>
        \A c \in DOMAIN constantValues :
            c \in DOMAIN frame /\ frame[c] = constantValues[c]

(* Two throttled sends are at least one frame interval apart (_schedule_send *)
(* and _do_send; direct sends are outside the throttle).                     *)
ThrottledSpacing ==
    [][sinceSend' < sinceSend => sinceSend >= FrameInterval]_vars

(* A partial universe never shrinks from one frame to the next: a node would *)
(* keep or drop the channels that fell off its end.                          *)
FrameNeverShrinks ==
    [][Len(frame') >= Len(frame)]_vars

(* A change that asked for a send reaches the wire, unless the channel is   *)
(* changed again or the output is switched off first.                       *)
WriteReachesWire ==
    \A c \in Channels : \A v \in Values :
        LET set == c \in DOMAIN channelValues /\ channelValues[c] = v
        IN  (set /\ c \notin unrequested /\ outputEnabled)
            ~> \/ c \in DOMAIN frame /\ frame[c] = v
               \/ ~set
               \/ ~outputEnabled
=============================================================================
