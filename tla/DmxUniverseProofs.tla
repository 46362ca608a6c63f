------------------------- MODULE DmxUniverseProofs -------------------------
(***************************************************************************)
(* Proofs about DmxUniverse, for every set of channels, interval and       *)
(* universe size.                                                          *)
(***************************************************************************)
EXTENDS DmxUniverse, WellFoundedInduction, TLAPS

-----------------------------------------------------------------------------
(* Tables and frames.                                                        *)

(* A bounded, non-empty set of naturals has a greatest element. *)
LEMMA MaxExists ==
    ASSUME NEW bound \in Nat, NEW S \in SUBSET (0..bound), S # {}
    PROVE  \E m \in S : IsMax(S, m)
<1> DEFINE T == {bound - s : s \in S}
           R == OpToRel(<, Nat)
<1>1. IsWellFoundedOn(R, Nat)
  BY NatLessThanWellFounded
<1>2. T \subseteq Nat /\ T # {}
  <2>1. \A s \in S : s \in 0..bound
    OBVIOUS
  <2>2. \A s \in 0..bound : bound - s \in Nat
    OBVIOUS
  <2>3. \A t \in T : t \in Nat
    BY <2>1, <2>2
  <2> QED BY <2>3
<1>3. \A x, y \in Nat : y < x => <<y, x>> \in R
  BY DEF OpToRel
<1> HIDE DEF R, T
<1>4. \E x \in T : \A y \in T : ~(<<y, x>> \in R)
  BY <1>1, <1>2, WFMin
<1>5. PICK x \in T : \A y \in T : ~(y < x)
  BY <1>2, <1>3, <1>4
<1>6. PICK m \in S : x = bound - m
  BY DEF T
<1>7. \A s \in S : bound - s \in T
  BY DEF T
<1>8. ASSUME NEW s \in S PROVE s <= m
  <2>1. ~(bound - s < bound - m)
    BY <1>5, <1>6, <1>7
  <2> QED BY <2>1
<1> QED BY <1>8 DEF IsMax

(* A table is a function from some of the channels to values. *)
LEMMA TableShape ==
    ASSUME NEW t \in Tables
    PROVE  DOMAIN t \subseteq Channels /\ t \in [DOMAIN t -> Values]
<1>1. PICK S \in SUBSET Channels : t \in [S -> Values]
  BY DEF Tables
<1> QED BY <1>1

LEMMA ShapeIsTable ==
    ASSUME NEW S \in SUBSET Channels, NEW t \in [S -> Values]
    PROVE  t \in Tables
BY DEF Tables

(* Writing one table over another gives a table with the channels of both. *)
LEMMA OverlayType ==
    ASSUME NEW t \in Tables, NEW u \in Tables
    PROVE  /\ Overlay(t, u) \in Tables
           /\ DOMAIN Overlay(t, u) = DOMAIN t \cup DOMAIN u
           /\ \A c \in DOMAIN u : Overlay(t, u)[c] = u[c]
           /\ \A c \in DOMAIN t \ DOMAIN u : Overlay(t, u)[c] = t[c]
<1> DEFINE S == DOMAIN t \cup DOMAIN u
           o == [c \in S |-> IF c \in DOMAIN u THEN u[c] ELSE t[c]]
<1>1. /\ DOMAIN t \subseteq Channels /\ t \in [DOMAIN t -> Values]
      /\ DOMAIN u \subseteq Channels /\ u \in [DOMAIN u -> Values]
  BY TableShape
<1>2. Overlay(t, u) = o
  BY DEF Overlay
<1>3. \A c \in S : (IF c \in DOMAIN u THEN u[c] ELSE t[c]) \in Values
  BY <1>1
<1>4. o \in [S -> Values]
  BY <1>3
<1>5. o \in Tables
  BY <1>1, <1>4, ShapeIsTable
<1> QED BY <1>2, <1>5

(* What a write of Home Assistant's own or an input frame changes. *)
LEMMA WrittenType ==
    ASSUME TypeOK, NEW updates \in Updates, NEW external \in BOOLEAN
    PROVE  /\ Written(updates, external) \in Tables
           /\ DOMAIN channelValues \subseteq DOMAIN Written(updates, external)
           /\ Changed(updates, external) \subseteq Channels
           /\ \A c \in DOMAIN Written(updates, external) \ Changed(updates, external) :
                /\ c \in DOMAIN channelValues
                /\ Written(updates, external)[c] = channelValues[c]
<1> DEFINE a == Accepted(updates, external)
<1>1. updates \in Tables
  BY DEF Updates
<1>2. /\ DOMAIN updates \subseteq Channels
      /\ updates \in [DOMAIN updates -> Values]
  BY <1>1, TableShape
<1>3. a \in Tables /\ \A c \in DOMAIN a : c \in DOMAIN updates /\ a[c] = updates[c]
  <2>1. CASE external
    BY <1>1, <2>1 DEF Accepted
  <2>2. CASE ~external
    <3> DEFINE S == DOMAIN updates \ DOMAIN constantValues
    <3>1. a = [c \in S |-> updates[c]]
      BY <2>2 DEF Accepted
    <3>2. a \in [S -> Values] /\ S \subseteq Channels
      BY <1>2, <3>1
    <3>3. a \in Tables
      BY <3>2, ShapeIsTable
    <3> QED BY <3>1, <3>3
  <2> QED BY <2>1, <2>2
<1>4. Changed(updates, external) =
        {c \in DOMAIN a : c \in DOMAIN channelValues => channelValues[c] # updates[c]}
  BY DEF Changed
<1>5. Written(updates, external) = Overlay(channelValues, a)
  BY DEF Written
<1>6. channelValues \in Tables
  BY DEF TypeOK
<1> HIDE DEF a
<1>7. /\ Overlay(channelValues, a) \in Tables
      /\ DOMAIN Overlay(channelValues, a) = DOMAIN channelValues \cup DOMAIN a
      /\ \A c \in DOMAIN a : Overlay(channelValues, a)[c] = a[c]
      /\ \A c \in DOMAIN channelValues \ DOMAIN a :
            Overlay(channelValues, a)[c] = channelValues[c]
  BY <1>3, <1>6, OverlayType
<1> QED BY <1>2, <1>3, <1>4, <1>5, <1>7

(* The channels of a table are numbers up to the size of the universe. *)
LEMMA ChannelNumbers ==
    ASSUME NEW t \in Tables
    PROVE  /\ UniverseSize \in Nat /\ UniverseSize >= 2
           /\ \A c \in DOMAIN t : c \in Nat /\ 1 <= c /\ c <= UniverseSize
<1>1. UniverseSize \in Nat /\ UniverseSize >= 2
  BY ChannelsAssumption
<1>2. \A c \in DOMAIN t : c \in 1..UniverseSize
  BY TableShape, ChannelsAssumption
<1> QED BY <1>1, <1>2

(* The greatest channel of a table that has one. *)
LEMMA TopChannel ==
    ASSUME NEW t \in Tables, DOMAIN t # {}
    PROVE  LET top == CHOOSE m \in DOMAIN t : IsMax(DOMAIN t, m)
           IN  top \in DOMAIN t /\ top \in Nat /\ \A c \in DOMAIN t : c <= top
<1>1. UniverseSize \in Nat /\ \A c \in DOMAIN t : c \in 0..UniverseSize
  BY ChannelNumbers
<1>2. \E m \in DOMAIN t : IsMax(DOMAIN t, m)
  BY <1>1, MaxExists
<1> QED BY <1>1, <1>2 DEF IsMax

(* The length of a frame: it covers its table and grows with it. *)
LEMMA FrameLengthType ==
    ASSUME NEW t \in Tables
    PROVE  /\ FrameLength(t) \in Nat
           /\ FrameLength(t) >= 2
           /\ DOMAIN t \subseteq 1..FrameLength(t)
<1>1. /\ UniverseSize \in Nat /\ UniverseSize >= 2
      /\ \A c \in DOMAIN t : c \in Nat /\ 1 <= c /\ c <= UniverseSize
  BY ChannelNumbers
<1>2. CASE DOMAIN t = {}
  BY <1>2 DEF FrameLength
<1>3. CASE DOMAIN t # {} /\ ~UsePartial
  <2>1. FrameLength(t) = UniverseSize
    BY <1>3 DEF FrameLength
  <2> QED BY <1>1, <2>1
<1>4. CASE DOMAIN t # {} /\ UsePartial
  <2> DEFINE top == CHOOSE m \in DOMAIN t : IsMax(DOMAIN t, m)
  <2>1. top \in DOMAIN t /\ top \in Nat /\ \A c \in DOMAIN t : c <= top
    BY <1>4, TopChannel
  <2>2. FrameLength(t) = top + (top % 2)
    BY <1>4 DEF FrameLength
  <2> HIDE DEF top
  <2>3. top % 2 \in Nat /\ top >= 1 /\ top + (top % 2) >= 2
    BY <1>1, <2>1
  <2> QED BY <1>1, <2>1, <2>2, <2>3
<1> QED BY <1>2, <1>3, <1>4

LEMMA FrameLengthMonotone ==
    ASSUME NEW t \in Tables, NEW u \in Tables, DOMAIN t \subseteq DOMAIN u
    PROVE  FrameLength(t) <= FrameLength(u)
<1>1. FrameLength(t) \in Nat /\ FrameLength(u) \in Nat /\ FrameLength(u) >= 2
  BY FrameLengthType
<1>2. CASE DOMAIN t = {}
  BY <1>1, <1>2 DEF FrameLength
<1>3. CASE DOMAIN t # {} /\ ~UsePartial
  <2>1. FrameLength(t) = UniverseSize /\ FrameLength(u) = UniverseSize
    BY <1>3 DEF FrameLength
  <2> QED BY <1>1, <2>1
<1>4. CASE DOMAIN t # {} /\ UsePartial
  <2> DEFINE top(x) == CHOOSE m \in DOMAIN x : IsMax(DOMAIN x, m)
  <2>1. DOMAIN u # {}
    BY <1>4
  <2>2. /\ top(t) \in DOMAIN t /\ top(t) \in Nat
        /\ top(u) \in Nat /\ \A c \in DOMAIN u : c <= top(u)
    BY <1>4, <2>1, TopChannel
  <2>3. /\ FrameLength(t) = top(t) + (top(t) % 2)
        /\ FrameLength(u) = top(u) + (top(u) % 2)
    BY <1>4, <2>1 DEF FrameLength
  <2> HIDE DEF top
  <2>4. top(t) <= top(u)
    BY <2>2
  <2>5. \A m, n \in Nat : m <= n => m + (m % 2) <= n + (n % 2)
    OBVIOUS
  <2> QED BY <2>2, <2>3, <2>4, <2>5
<1> QED BY <1>2, <1>3, <1>4

(* A frame carries the value of every channel of its table. *)
LEMMA RenderType ==
    ASSUME NEW t \in Tables
    PROVE  /\ Render(t) \in Seq(Values)
           /\ Len(Render(t)) = FrameLength(t)
           /\ \A c \in DOMAIN t : c \in DOMAIN Render(t) /\ Render(t)[c] = t[c]
<1> DEFINE n == FrameLength(t)
<1>1. n \in Nat /\ DOMAIN t \subseteq 1..n
  BY FrameLengthType
<1>2. t \in [DOMAIN t -> Values] /\ 0 \in Values
  BY TableShape, ValuesAssumption
<1>3. Render(t) = [i \in 1..n |-> IF i \in DOMAIN t THEN t[i] ELSE 0]
  BY DEF Render
<1> HIDE DEF n
<1>4. Render(t) \in [1..n -> Values]
  BY <1>2, <1>3
<1>5. Render(t) \in Seq(Values) /\ Len(Render(t)) = n
  BY <1>1, <1>4
<1> QED BY <1>1, <1>3, <1>5 DEF n

-----------------------------------------------------------------------------
(* The invariant: the properties of the runs, which support one another, and *)
(* that the frame sent last is no longer than one of the table would be.     *)

FrameFits == Len(frame) <= FrameLength(channelValues)

TimingOK ==
    /\ sendTimer \in {NoTimer} \cup 0..FrameInterval
    /\ armed \subseteq 0..FrameInterval
    /\ sinceSend \in 0..FrameInterval
    /\ TimerOwned
    /\ TimerOnBoundary

IInv == TypeOK /\ TimingOK /\ NoLostWrite /\ ConstantsOnWire /\ FrameFits

(* What every frame shows of the table it was rendered from. *)
Shown == \A c \in DOMAIN channelValues : c \in DOMAIN frame /\ frame[c] = channelValues[c]

(* send_universe_data for a table that has every channel there was: it keeps *)
(* the types, the constants and the length, and shows all when it is enabled. *)
LEMMA SendKeeps ==
    ASSUME TypeOK, ConstantsOnWire, FrameFits,
           NEW table \in Tables, DOMAIN channelValues \subseteq DOMAIN table,
           NEW enabled \in BOOLEAN,
           SendUniverseData(table, enabled),
           UNCHANGED constantValues
    PROVE  /\ channelValues' \in Tables
           /\ DOMAIN channelValues \subseteq DOMAIN channelValues'
           /\ frame' \in Seq(Values)
           /\ Len(frame') >= Len(frame)
           /\ FrameFits'
           /\ ConstantsOnWire'
           /\ enabled => Shown'
<1>1. /\ constantValues \in Tables /\ channelValues \in Tables /\ frame \in Seq(Values)
      /\ DOMAIN constantValues \subseteq DOMAIN channelValues
  BY DEF TypeOK
<1>2. FrameLength(channelValues) <= FrameLength(table)
  BY <1>1, FrameLengthMonotone
<1>3. FrameLength(channelValues) \in Nat /\ FrameLength(table) \in Nat
  BY <1>1, FrameLengthType
<1>4. Len(frame) \in Nat
  BY <1>1
<1>5. CASE enabled
  <2> DEFINE full == WithConstants(table)
  <2>1. channelValues' = full /\ frame' = Render(full)
    BY <1>5 DEF SendUniverseData
  <2>2. full = Overlay(table, constantValues)
    BY DEF WithConstants
  <2> HIDE DEF full
  <2>3. /\ full \in Tables
        /\ DOMAIN full = DOMAIN table \cup DOMAIN constantValues
        /\ \A c \in DOMAIN constantValues : full[c] = constantValues[c]
    BY <1>1, <2>2, OverlayType
  <2>4. /\ Render(full) \in Seq(Values) /\ Len(Render(full)) = FrameLength(full)
        /\ \A c \in DOMAIN full : c \in DOMAIN Render(full) /\ Render(full)[c] = full[c]
    BY <2>3, RenderType
  <2>5. FrameLength(table) <= FrameLength(full) /\ FrameLength(full) \in Nat
    BY <2>3, FrameLengthMonotone, FrameLengthType
  <2>6. Len(frame') >= Len(frame)
    BY <1>2, <1>3, <1>4, <2>1, <2>4, <2>5 DEF FrameFits
  <2>7. FrameFits'
    BY <2>1, <2>4, <2>5 DEF FrameFits
  <2>8. ConstantsOnWire'
    BY <2>1, <2>3, <2>4 DEF ConstantsOnWire
  <2>9. Shown'
    BY <2>1, <2>4 DEF Shown
  <2> QED BY <2>1, <2>3, <2>4, <2>6, <2>7, <2>8, <2>9
<1>6. CASE ~enabled
  <2>1. channelValues' = table /\ frame' = frame
    BY <1>6 DEF SendUniverseData
  <2>2. FrameFits'
    BY <1>2, <1>3, <1>4, <2>1 DEF FrameFits
  <2>3. ConstantsOnWire'
    BY <2>1 DEF ConstantsOnWire, NoFrame
  <2> QED BY <1>1, <1>4, <1>6, <2>1, <2>2, <2>3
<1> QED BY <1>5, <1>6

(* The throttle's part of the invariant is kept by every step, and a send    *)
(* that resets the interval finds it passed.                                 *)
LEMMA SendResetsTiming ==
    ASSUME sendTimer' = NoTimer, armed' = {}, sinceSend' = 0
    PROVE  TimingOK'
BY IntervalAssumption DEF TimingOK, TimerOwned, TimerOnBoundary

LEMMA TimingKept ==
    ASSUME TimingOK, [Next]_vars
    PROVE  TimingOK' /\ (sinceSend' < sinceSend => sinceSend >= FrameInterval)
<1>1. /\ FrameInterval \in Nat /\ FrameInterval >= 1
      /\ sinceSend \in 0..FrameInterval
      /\ NoTimer \notin Int
  BY IntervalAssumption, TimerAssumption DEF TimingOK
<1>2. CASE UNCHANGED timing
  BY <1>1, <1>2 DEF TimingOK, TimerOwned, TimerOnBoundary, timing
<1>3. ASSUME NEW updates \in Updates, UpdateAndSchedule(updates)
      PROVE  TimingOK' /\ (sinceSend' < sinceSend => sinceSend >= FrameInterval)
  <2> DEFINE table == Written(updates, FALSE)
  <2> HIDE DEF table
  <2>1. CASE sinceSend >= FrameInterval /\ DoSend(table, CancelTimer)
    <3>1. armed' = {} /\ sendTimer' = NoTimer /\ sinceSend' = 0
      BY <2>1 DEF DoSend, CancelTimer, TimingOK, TimerOwned
    <3> QED BY <2>1, <3>1, SendResetsTiming
  <2>2. CASE /\ sinceSend < FrameInterval
             /\ sendTimer = NoTimer
             /\ sendTimer' = Remaining
             /\ armed' = armed \cup {Remaining}
             /\ sinceSend' = sinceSend
    <3>1. armed = {} /\ armed' = {Remaining}
      BY <2>2 DEF TimingOK, TimerOwned
    <3>2. Remaining \in 0..FrameInterval /\ Remaining = FrameInterval - sinceSend
      BY <1>1, <2>2 DEF Remaining
    <3>3. sendTimer' # NoTimer
      BY <1>1, <2>2, <3>2
    <3> QED BY <1>1, <2>2, <3>1, <3>2, <3>3 DEF TimingOK, TimerOwned, TimerOnBoundary
  <2>3. CASE UNCHANGED <<sendTimer, armed, sinceSend>>
    BY <1>2, <2>3 DEF timing
  <2> QED BY <1>3, <2>1, <2>2, <2>3 DEF UpdateAndSchedule, ScheduleSend, table
<1>4. CASE TimerFires
  <2>1. armed = {0} /\ sendTimer = 0 /\ sendTimer # NoTimer
    BY <1>4 DEF TimerFires, TimingOK, TimerOwned
  <2>2. sinceSend >= FrameInterval
    BY <1>1, <2>1 DEF TimingOK, TimerOnBoundary
  <2>3. armed' = {} /\ sendTimer' = NoTimer /\ sinceSend' = 0
    BY <1>4, <2>1 DEF TimerFires, DoSend
  <2> QED BY <2>2, <2>3, SendResetsTiming
<1>5. CASE Tick
  <2>1. /\ sinceSend' = IF sinceSend < FrameInterval THEN sinceSend + 1 ELSE sinceSend
        /\ armed' = {CountDown(t) : t \in armed}
        /\ sendTimer' = IF sendTimer = NoTimer THEN NoTimer ELSE CountDown(sendTimer)
    BY <1>5 DEF Tick
  <2>2. sinceSend' \in 0..FrameInterval /\ ~(sinceSend' < sinceSend)
    BY <1>1, <2>1
  <2>3. CASE sendTimer = NoTimer
    <3>1. armed' = {} /\ sendTimer' = NoTimer
      BY <2>1, <2>3 DEF TimingOK, TimerOwned
    <3> QED BY <2>2, <3>1 DEF TimingOK, TimerOwned, TimerOnBoundary
  <2>4. CASE sendTimer # NoTimer
    <3>1. /\ armed = {sendTimer}
          /\ sendTimer \in 0..FrameInterval
          /\ sendTimer = FrameInterval - sinceSend
      BY <2>4 DEF TimingOK, TimerOwned, TimerOnBoundary
    <3>2. armed' = {CountDown(sendTimer)} /\ sendTimer' = CountDown(sendTimer)
      BY <2>1, <2>4, <3>1
    <3>3. /\ CountDown(sendTimer) \in 0..FrameInterval
          /\ CountDown(sendTimer) = FrameInterval - sinceSend'
      BY <1>1, <2>1, <3>1 DEF CountDown
    <3>4. sendTimer' # NoTimer
      BY <1>1, <3>2, <3>3
    <3> QED BY <2>2, <3>2, <3>3, <3>4 DEF TimingOK, TimerOwned, TimerOnBoundary
  <2> QED BY <2>3, <2>4
<1>6. CASE UNCHANGED vars
  BY <1>2, <1>6 DEF vars, timing
<1>7. ASSUME NEW updates \in Updates,
             \/ UpdateAndSendNow(updates)
             \/ \E external \in BOOLEAN : UpdateOnly(updates, external)
      PROVE  UNCHANGED timing
  BY <1>7 DEF UpdateAndSendNow, UpdateOnly
<1>8. CASE TurnOn \/ TurnOff
  <2>1. UNCHANGED timing
    BY <1>8 DEF TurnOn, TurnOff
  <2> QED BY <1>2, <2>1
<1> QED
  <2>1. UNCHANGED timing => TimingOK' /\ ~(sinceSend' < sinceSend)
    BY <1>1, <1>2 DEF timing
  <2> QED BY <1>2, <1>3, <1>4, <1>5, <1>6, <1>7, <1>8, <2>1 DEF Next

(* The table, the frame and what links them. *)
Linked ==
    /\ channelValues \in Tables
    /\ DOMAIN constantValues \subseteq DOMAIN channelValues
    /\ frame \in Seq(Values)
    /\ NoLostWrite
    /\ ConstantsOnWire
    /\ FrameFits

(* A step that changes the table and sends, or does neither. *)
LEMMA SendLinks ==
    ASSUME IInv,
           NEW table \in Tables, DOMAIN channelValues \subseteq DOMAIN table,
           NEW enabled \in BOOLEAN,
           SendUniverseData(table, enabled),
           UNCHANGED constantValues,
           outputEnabled' => enabled
    PROVE  Linked' /\ Len(frame') >= Len(frame)
<1>1. TypeOK /\ ConstantsOnWire /\ FrameFits
  BY DEF IInv
<1>2. /\ channelValues' \in Tables
      /\ DOMAIN channelValues \subseteq DOMAIN channelValues'
      /\ frame' \in Seq(Values)
      /\ Len(frame') >= Len(frame)
      /\ FrameFits'
      /\ ConstantsOnWire'
      /\ enabled => Shown'
  BY <1>1, SendKeeps
<1>3. DOMAIN constantValues' \subseteq DOMAIN channelValues'
  BY <1>1, <1>2 DEF TypeOK
<1>4. NoLostWrite'
  BY <1>2 DEF NoLostWrite, Shown
<1> QED BY <1>2, <1>3, <1>4 DEF Linked

(* A change of the table alone, that owes no channel a send. *)
LEMMA SilentChangeLinks ==
    ASSUME IInv,
           NEW table \in Tables, DOMAIN channelValues \subseteq DOMAIN table,
           channelValues' = table,
           UNCHANGED <<constantValues, frame>>,
           NoLostWrite'
    PROVE  Linked' /\ Len(frame') >= Len(frame)
<1>1. TypeOK /\ ConstantsOnWire /\ FrameFits
  BY DEF IInv
<1>2. SendUniverseData(table, FALSE)
  BY DEF SendUniverseData
<1>3. /\ channelValues' \in Tables
      /\ DOMAIN channelValues \subseteq DOMAIN channelValues'
      /\ frame' \in Seq(Values)
      /\ Len(frame') >= Len(frame)
      /\ FrameFits'
      /\ ConstantsOnWire'
  BY <1>1, <1>2, SendKeeps
<1>4. DOMAIN constantValues' \subseteq DOMAIN channelValues'
  BY <1>1, <1>3 DEF TypeOK
<1> QED BY <1>3, <1>4 DEF Linked

LEMMA LinkKept ==
    ASSUME IInv, [Next]_vars
    PROVE  Linked' /\ Len(frame') >= Len(frame)
<1>1. /\ TypeOK /\ TimingOK /\ NoLostWrite
      /\ channelValues \in Tables /\ outputEnabled \in BOOLEAN
      /\ NoTimer \notin Int /\ FrameInterval \in Nat /\ sinceSend \in Int
  BY TimerAssumption, IntervalAssumption DEF IInv, TypeOK
<1>2. ASSUME NEW updates \in Updates, UpdateAndSchedule(updates)
      PROVE  Linked' /\ Len(frame') >= Len(frame)
  <2> DEFINE table == Written(updates, FALSE)
  <2>1. table \in Tables /\ DOMAIN channelValues \subseteq DOMAIN table
    BY <1>1, WrittenType
  <2> HIDE DEF table
  <2>2. UNCHANGED <<constantValues, outputEnabled>>
    BY <1>2 DEF UpdateAndSchedule
  <2>3. CASE DoSend(table, CancelTimer)
    <3>1. SendUniverseData(table, outputEnabled)
      BY <2>3 DEF DoSend
    <3> QED BY <1>1, <2>1, <2>2, <3>1, SendLinks
  <2>4. CASE /\ channelValues' = table /\ frame' = frame
             /\ IF sendTimer = NoTimer THEN sendTimer' = Remaining
                ELSE sendTimer' = sendTimer
    <3>1. sendTimer' # NoTimer
      BY <1>1, <2>4 DEF Remaining
    <3>2. NoLostWrite'
      BY <3>1 DEF NoLostWrite
    <3> QED BY <2>1, <2>2, <2>4, <3>2, SilentChangeLinks
  <2> QED BY <1>2, <2>3, <2>4 DEF UpdateAndSchedule, ScheduleSend, table
<1>3. ASSUME NEW updates \in Updates, UpdateAndSendNow(updates)
      PROVE  Linked' /\ Len(frame') >= Len(frame)
  <2>1. /\ Written(updates, FALSE) \in Tables
        /\ DOMAIN channelValues \subseteq DOMAIN Written(updates, FALSE)
    BY <1>1, WrittenType
  <2>2. /\ SendUniverseData(Written(updates, FALSE), outputEnabled)
        /\ UNCHANGED <<constantValues, outputEnabled>>
    BY <1>3 DEF UpdateAndSendNow
  <2> QED BY <1>1, <2>1, <2>2, SendLinks
<1>4. ASSUME NEW updates \in Updates, NEW external \in BOOLEAN,
             UpdateOnly(updates, external)
      PROVE  Linked' /\ Len(frame') >= Len(frame)
  <2> DEFINE table == Written(updates, external)
             changed == Changed(updates, external)
  <2>1. /\ table \in Tables
        /\ DOMAIN channelValues \subseteq DOMAIN table
        /\ \A c \in DOMAIN table \ changed :
              c \in DOMAIN channelValues /\ table[c] = channelValues[c]
    BY <1>1, WrittenType
  <2>2. /\ channelValues' = table
        /\ unrequested' = unrequested \cup changed
        /\ UNCHANGED <<constantValues, outputEnabled, sendTimer, frame>>
    BY <1>4 DEF UpdateOnly, timing
  <2> HIDE DEF table, changed
  <2>3. NoLostWrite'
    BY <1>1, <2>1, <2>2 DEF NoLostWrite
  <2> QED BY <2>1, <2>2, <2>3, SilentChangeLinks
<1>5. CASE TimerFires
  <2>1. /\ SendUniverseData(channelValues, outputEnabled)
        /\ UNCHANGED <<constantValues, outputEnabled>>
    BY <1>5 DEF TimerFires, DoSend
  <2> QED BY <1>1, <2>1, SendLinks
<1>6. CASE TurnOn
  <2>1. SendUniverseData(channelValues, TRUE) /\ UNCHANGED constantValues
    BY <1>6 DEF TurnOn
  <2> QED BY <1>1, <2>1, SendLinks
<1>7. CASE TurnOff \/ Tick \/ UNCHANGED vars
  <2>1. UNCHANGED <<channelValues, constantValues, frame>>
    BY <1>7 DEF TurnOff, Tick, vars
  <2>2. CASE TurnOff
    BY <1>1, <2>1, <2>2, SilentChangeLinks DEF TurnOff, NoLostWrite
  <2>3. CASE Tick
    <3>1. /\ UNCHANGED <<outputEnabled, unrequested>>
          /\ sendTimer' = IF sendTimer = NoTimer THEN NoTimer ELSE CountDown(sendTimer)
      BY <2>3 DEF Tick
    <3>2. sendTimer # NoTimer => sendTimer \in Int /\ CountDown(sendTimer) \in Int
      BY <1>1 DEF TimingOK, CountDown
    <3>3. sendTimer' = NoTimer => sendTimer = NoTimer
      BY <1>1, <3>1, <3>2
    <3>4. NoLostWrite'
      BY <1>1, <2>1, <3>1, <3>3 DEF NoLostWrite
    <3> QED BY <1>1, <2>1, <3>4, SilentChangeLinks
  <2>4. CASE UNCHANGED vars
    <3>1. NoLostWrite'
      BY <1>1, <2>1, <2>4 DEF NoLostWrite, vars, timing
    <3> QED BY <1>1, <2>1, <3>1, SilentChangeLinks
  <2> QED BY <1>7, <2>2, <2>3, <2>4
<1> QED BY <1>2, <1>3, <1>4, <1>5, <1>6, <1>7 DEF Next

-----------------------------------------------------------------------------
(* The invariant holds at first and is kept. *)
LEMMA InitInv == Init => IInv
<1> SUFFICES ASSUME Init PROVE IInv
  OBVIOUS
<1>1. /\ constantValues \in Tables /\ channelValues = constantValues
      /\ DOMAIN channelValues \subseteq Channels
      /\ frame = << >>
      /\ unrequested = DOMAIN constantValues
  BY TableShape DEF Init, NoFrame
<1>2. FrameInterval \in Nat /\ NoTimer \notin Int
  BY IntervalAssumption, TimerAssumption
<1>3. /\ sendTimer = NoTimer /\ armed = {} /\ sinceSend = FrameInterval
      /\ outputEnabled = TRUE
  BY DEF Init
<1>4. TypeOK
  BY <1>1, <1>2, <1>3 DEF TypeOK
<1>5. TimingOK
  BY <1>2, <1>3 DEF TimingOK, TimerOwned, TimerOnBoundary
<1>6. NoLostWrite /\ ConstantsOnWire
  BY <1>1 DEF NoLostWrite, ConstantsOnWire, NoFrame
<1>7. Len(frame) = 0 /\ FrameLength(channelValues) \in Nat
  BY <1>1, FrameLengthType
<1>8. FrameFits
  BY <1>7 DEF FrameFits
<1> QED BY <1>4, <1>5, <1>6, <1>8 DEF IInv

LEMMA StepInv == IInv /\ [Next]_vars => IInv'
<1> SUFFICES ASSUME IInv, [Next]_vars PROVE IInv'
  OBVIOUS
<1>1. TypeOK /\ TimingOK
  BY DEF IInv
<1>2. TimingOK' /\ Linked'
  BY <1>1, TimingKept, LinkKept
<1>3. constantValues' = constantValues
  BY DEF Next, UpdateAndSchedule, UpdateAndSendNow, UpdateOnly, TimerFires, TurnOn,
         TurnOff, Tick, vars
<1>4. outputEnabled' \in BOOLEAN
  BY <1>1 DEF TypeOK, Next, UpdateAndSchedule, UpdateAndSendNow, UpdateOnly,
              TimerFires, TurnOn, TurnOff, Tick, vars
<1>5. unrequested' \subseteq Channels
  <2>1. ASSUME NEW updates \in Updates, NEW external \in BOOLEAN,
               UpdateOnly(updates, external)
        PROVE  unrequested' \subseteq Channels
    <3>1. Changed(updates, external) \subseteq Channels
      BY <1>1, WrittenType
    <3> QED BY <1>1, <2>1, <3>1 DEF UpdateOnly, TypeOK
  <2> QED BY <1>1, <2>1 DEF TypeOK, Next, UpdateAndSchedule, UpdateAndSendNow,
             TimerFires, TurnOn, TurnOff, Tick, vars
<1>6. TypeOK'
  BY <1>1, <1>2, <1>3, <1>4, <1>5 DEF TypeOK, TimingOK, Linked
<1> QED BY <1>2, <1>6 DEF IInv, Linked

LEMMA Invariance == Spec => []IInv
<1> QED BY InitInv, StepInv, PTL DEF Spec

(* Every variable holds a value of its kind, in every reachable state: in     *)
(* particular every frame is a sequence of bytes.                             *)
THEOREM TypeCorrect == Spec => []TypeOK
<1>1. IInv => TypeOK
  BY DEF IInv
<1> QED BY <1>1, Invariance, PTL

(* _send_timer always names the only send the event loop still holds, and     *)
(* that send is due when the interval ends.                                   *)
THEOREM TimerIsOwnedAndPunctual == Spec => [](TimerOwned /\ TimerOnBoundary)
<1>1. IInv => TimerOwned /\ TimerOnBoundary
  BY DEF IInv, TimingOK
<1> QED BY <1>1, Invariance, PTL

(* No write that asked for a send is lost by the throttle or the switch. *)
THEOREM WritesAreNotLost == Spec => []NoLostWrite
<1>1. IInv => NoLostWrite
  BY DEF IInv
<1> QED BY <1>1, Invariance, PTL

(* Every frame carries the fixtures' constants. *)
THEOREM FramesCarryConstants == Spec => []ConstantsOnWire
<1>1. IInv => ConstantsOnWire
  BY DEF IInv
<1> QED BY <1>1, Invariance, PTL

(* Two throttled sends are at least an interval apart. *)
THEOREM SendsAreSpaced == Spec => ThrottledSpacing
<1>1. IInv /\ [Next]_vars => [sinceSend' < sinceSend => sinceSend >= FrameInterval]_vars
  BY TimingKept DEF IInv
<1> QED BY <1>1, Invariance, PTL DEF Spec, ThrottledSpacing

(* No frame is shorter than the one before it. *)
THEOREM FramesNeverShrink == Spec => FrameNeverShrinks
<1>1. IInv /\ [Next]_vars => [Len(frame') >= Len(frame)]_vars
  BY LinkKept
<1> QED BY <1>1, Invariance, PTL DEF Spec, FrameNeverShrinks
=============================================================================
