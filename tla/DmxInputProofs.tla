--------------------------- MODULE DmxInputProofs ---------------------------
(***************************************************************************)
(* Proofs about the rate limiter and the input of a universe, for every    *)
(* interval, number of channels and set of values.                         *)
(***************************************************************************)
EXTENDS DmxInput, TLAPS

-----------------------------------------------------------------------------
(* The rate limiter.                                                         *)

(* No task sleeps beyond the end of the interval, whatever forced updates    *)
(* restarted it, and a change is only pending while a task sleeps.           *)
TasksInTime == \A t \in sleeping : t <= UpdateInterval - sinceUpdate
PendingIsScheduled == pendingUpdate => updateScheduled

LimiterInv == LimiterTypeOK /\ OneTaskPerFlag /\ TasksInTime /\ PendingIsScheduled

LimiterNext ==
    DeferUpdate \/ UpdateAtOnce \/ WakeAndUpdate \/ WakeIdle \/ LimiterTick

LEMMA LimiterInitially == LimiterInit => LimiterInv
<1> SUFFICES ASSUME LimiterInit PROVE LimiterInv
  OBVIOUS
<1>1. LimiterTypeOK
  <2>1. sinceUpdate \in 0..UpdateInterval /\ sinceForced \in 0..ForceUpdateAfter
    BY RateAssumption DEF LimiterInit
  <2>2. updateScheduled \in BOOLEAN /\ pendingUpdate \in BOOLEAN
    BY DEF LimiterInit
  <2>3. sleeping \subseteq 0..UpdateInterval
    BY DEF LimiterInit
  <2> QED BY <2>1, <2>2, <2>3 DEF LimiterTypeOK
<1>2. OneTaskPerFlag
  BY DEF LimiterInit, OneTaskPerFlag
<1>3. TasksInTime /\ PendingIsScheduled
  BY DEF LimiterInit, TasksInTime, PendingIsScheduled
<1> QED BY <1>1, <1>2, <1>3 DEF LimiterInv

LEMMA LimiterKept ==
    ASSUME LimiterInv, [LimiterNext]_limiterVars
    PROVE  LimiterInv'
<1>1. /\ UpdateInterval \in Nat /\ ForceUpdateAfter \in Nat /\ UpdateInterval >= 1
      /\ sinceUpdate \in 0..UpdateInterval /\ sinceForced \in 0..ForceUpdateAfter
      /\ sleeping \subseteq 0..UpdateInterval
      /\ updateScheduled \in BOOLEAN /\ pendingUpdate \in BOOLEAN
      /\ OneTaskPerFlag /\ TasksInTime /\ PendingIsScheduled
  BY RateAssumption DEF LimiterInv, LimiterTypeOK
<1>2. CASE DeferUpdate
  <2>1. /\ sinceUpdate' = sinceUpdate /\ sinceForced' = sinceForced
        /\ pendingUpdate' = TRUE /\ sinceUpdate < UpdateInterval
    BY <1>1, <1>2 DEF DeferUpdate, UpdatesNow
  <2>2. CASE updateScheduled
    <3>1. updateScheduled' = updateScheduled /\ sleeping' = sleeping
      BY <1>2, <2>2 DEF DeferUpdate
    <3> QED BY <1>1, <2>1, <2>2, <3>1
            DEF LimiterInv, LimiterTypeOK, OneTaskPerFlag, TasksInTime, PendingIsScheduled
  <2>3. CASE ~updateScheduled
    <3>1. /\ updateScheduled' = TRUE
          /\ sleeping' = {RemainingTime}
      BY <1>1, <1>2, <2>3 DEF DeferUpdate, OneTaskPerFlag
    <3>2. RemainingTime \in 0..UpdateInterval /\ RemainingTime <= UpdateInterval - sinceUpdate
      BY <1>1, <2>1 DEF RemainingTime
    <3>3. LimiterTypeOK' /\ OneTaskPerFlag' /\ TasksInTime'
      BY <1>1, <2>1, <3>1, <3>2 DEF LimiterTypeOK, OneTaskPerFlag, TasksInTime
    <3> QED BY <2>1, <3>1, <3>3 DEF LimiterInv, PendingIsScheduled
  <2> QED BY <1>1, <2>2, <2>3
<1>3. CASE UpdateAtOnce
  <2>1. /\ sinceUpdate' = 0 /\ pendingUpdate' = FALSE
        /\ sinceForced' \in {0, sinceForced}
        /\ updateScheduled' = updateScheduled /\ sleeping' = sleeping
    BY <1>3 DEF UpdateAtOnce, DoUpdate
  <2>2. LimiterTypeOK'
    <3>1. sinceUpdate' \in 0..UpdateInterval /\ sinceForced' \in 0..ForceUpdateAfter
      BY <1>1, <2>1
    <3>2. pendingUpdate' \in BOOLEAN /\ updateScheduled' \in BOOLEAN
      BY <1>1, <2>1
    <3>3. sleeping' \subseteq 0..UpdateInterval
      BY <1>1, <2>1
    <3> QED BY <3>1, <3>2, <3>3 DEF LimiterTypeOK
  <2>3. OneTaskPerFlag'
    BY <1>1, <2>1 DEF OneTaskPerFlag
  <2>4. TasksInTime'
    BY <1>1, <2>1 DEF TasksInTime
  <2>5. PendingIsScheduled'
    BY <2>1 DEF PendingIsScheduled
  <2> QED BY <2>2, <2>3, <2>4, <2>5 DEF LimiterInv
<1>4. CASE WakeAndUpdate \/ WakeIdle
  <2>1. /\ sleeping' = {} /\ updateScheduled' = FALSE /\ pendingUpdate' = FALSE
        /\ sinceUpdate' \in {0, sinceUpdate} /\ sinceForced' = sinceForced
    BY <1>1, <1>4 DEF WakeAndUpdate, WakeIdle, EndTask, DoUpdate, OneTaskPerFlag
  <2>2. LimiterTypeOK'
    <3>1. sinceUpdate' \in 0..UpdateInterval /\ sinceForced' \in 0..ForceUpdateAfter
      BY <1>1, <2>1
    <3>2. pendingUpdate' \in BOOLEAN /\ updateScheduled' \in BOOLEAN
      BY <1>1, <2>1
    <3>3. sleeping' \subseteq 0..UpdateInterval
      BY <1>1, <2>1
    <3> QED BY <3>1, <3>2, <3>3 DEF LimiterTypeOK
  <2>3. OneTaskPerFlag' /\ TasksInTime' /\ PendingIsScheduled'
    BY <2>1 DEF OneTaskPerFlag, TasksInTime, PendingIsScheduled
  <2> QED BY <2>2, <2>3 DEF LimiterInv
<1>5. CASE LimiterTick
  <2>1. /\ sinceUpdate' = Advance(sinceUpdate, UpdateInterval)
        /\ sinceForced' = Advance(sinceForced, ForceUpdateAfter)
        /\ sleeping' = {Elapse(t) : t \in sleeping}
        /\ updateScheduled' = updateScheduled /\ pendingUpdate' = pendingUpdate
    BY <1>5 DEF LimiterTick
  <2>2. sinceUpdate' \in 0..UpdateInterval /\ sinceForced' \in 0..ForceUpdateAfter
    BY <1>1, <2>1 DEF Advance
  <2>3. \A t \in sleeping : /\ Elapse(t) \in 0..UpdateInterval
                            /\ Elapse(t) <= UpdateInterval - sinceUpdate'
    BY <1>1, <2>1, <2>2 DEF TasksInTime, Elapse, Advance
  <2>4. LimiterTypeOK' /\ TasksInTime'
    BY <1>1, <2>1, <2>2, <2>3 DEF LimiterTypeOK, TasksInTime
  <2>5. OneTaskPerFlag'
    <3>1. CASE updateScheduled
      <4>1. PICK t \in sleeping : sleeping = {t}
        BY <1>1, <3>1 DEF OneTaskPerFlag
      <4>2. sleeping' = {Elapse(t)}
        BY <2>1, <4>1
      <4> QED BY <2>1, <3>1, <4>2 DEF OneTaskPerFlag
    <3>2. CASE ~updateScheduled
      <4>1. sleeping' = {}
        BY <1>1, <2>1, <3>2 DEF OneTaskPerFlag
      <4> QED BY <2>1, <3>2, <4>1 DEF OneTaskPerFlag
    <3> QED BY <3>1, <3>2
  <2>6. PendingIsScheduled'
    BY <1>1, <2>1 DEF PendingIsScheduled
  <2> QED BY <2>4, <2>5, <2>6 DEF LimiterInv
<1>6. CASE UNCHANGED limiterVars
  BY <1>1, <1>6 DEF LimiterInv, LimiterTypeOK, OneTaskPerFlag, TasksInTime,
                    PendingIsScheduled, limiterVars
<1> QED BY <1>2, <1>3, <1>4, <1>5, <1>6 DEF LimiterNext

LEMMA LimiterInvImplies ==
    LimiterInv => LimiterTypeOK /\ OneTaskPerFlag /\ DeferredInTime
<1> SUFFICES ASSUME LimiterInv PROVE DeferredInTime
  BY DEF LimiterInv
<1>1. ASSUME pendingUpdate PROVE \E t \in sleeping : t <= UpdateInterval - sinceUpdate
  <2>1. PICK t \in sleeping : sleeping = {t}
    BY <1>1 DEF LimiterInv, PendingIsScheduled, OneTaskPerFlag
  <2> QED BY <2>1 DEF LimiterInv, TasksInTime
<1> QED BY <1>1 DEF DeferredInTime

-----------------------------------------------------------------------------
(* Tables of values.                                                         *)

(* A frame, a batch or a write: values for some of the channels. *)
Partial == UNION {[S -> Values] : S \in SUBSET Channels}

LEMMA PartialShape ==
    ASSUME NEW t \in Partial
    PROVE  DOMAIN t \subseteq Channels /\ t \in [DOMAIN t -> Values]
<1>1. PICK S \in SUBSET Channels : t \in [S -> Values]
  BY DEF Partial
<1> QED BY <1>1

LEMMA ShapeIsPartial ==
    ASSUME NEW S \in SUBSET Channels, NEW t \in [S -> Values]
    PROVE  t \in Partial
BY DEF Partial

LEMMA OverlayPartial ==
    ASSUME NEW t \in Partial, NEW u \in Partial
    PROVE  /\ Overlay(t, u) \in Partial
           /\ DOMAIN Overlay(t, u) = DOMAIN t \cup DOMAIN u
           /\ \A c \in DOMAIN u : Overlay(t, u)[c] = u[c]
           /\ \A c \in DOMAIN t \ DOMAIN u : Overlay(t, u)[c] = t[c]
<1> DEFINE S == DOMAIN t \cup DOMAIN u
           o == [c \in S |-> IF c \in DOMAIN u THEN u[c] ELSE t[c]]
<1>1. /\ DOMAIN t \subseteq Channels /\ t \in [DOMAIN t -> Values]
      /\ DOMAIN u \subseteq Channels /\ u \in [DOMAIN u -> Values]
  BY PartialShape
<1>2. Overlay(t, u) = o
  BY DEF Overlay
<1>3. \A c \in S : (IF c \in DOMAIN u THEN u[c] ELSE t[c]) \in Values
  BY <1>1
<1>4. o \in [S -> Values]
  BY <1>3
<1>5. o \in Partial
  BY <1>1, <1>4, ShapeIsPartial
<1> QED BY <1>2, <1>5

(* Writing over a table of all channels leaves a table of all channels. *)
LEMMA OverlayTotal ==
    ASSUME NEW t \in [Channels -> Values], NEW u \in Partial
    PROVE  /\ Overlay(t, u) \in [Channels -> Values]
           /\ \A c \in DOMAIN u : Overlay(t, u)[c] = u[c]
           /\ \A c \in Channels \ DOMAIN u : Overlay(t, u)[c] = t[c]
<1>1. t \in Partial
  BY ShapeIsPartial
<1>2. DOMAIN u \subseteq Channels
  BY PartialShape
<1>3. DOMAIN Overlay(t, u) = Channels /\ Overlay(t, u) \in Partial
  BY <1>1, <1>2, OverlayPartial
<1>4. Overlay(t, u) \in [Channels -> Values]
  BY <1>3, PartialShape
<1> QED BY <1>1, <1>4, OverlayPartial

LEMMA FramesArePartial ==
    /\ NoUpdates \in Partial /\ DOMAIN NoUpdates = {}
    /\ \A data \in Frames : data \in Partial
    /\ \A write \in Writes : write \in Partial
    /\ \A t \in Partial : t \in Writes \cup {NoUpdates}
<1>1. NoUpdates \in Partial /\ DOMAIN NoUpdates = {}
  BY DEF NoUpdates, Partial
<1>2. \A data \in Frames : data \in Partial
  <2> SUFFICES ASSUME NEW n \in Channels, NEW data \in [1..n -> Values]
               PROVE  data \in Partial
    BY DEF Frames
  <2>1. 1..n \subseteq Channels
    BY SizeAssumption DEF Channels
  <2> QED BY <2>1, ShapeIsPartial
<1>3. \A write \in Writes : write \in Partial
  BY DEF Writes, Partial
<1>4. ASSUME NEW t \in Partial PROVE t \in Writes \cup {NoUpdates}
  <2>1. DOMAIN t \subseteq Channels /\ t \in [DOMAIN t -> Values]
    BY PartialShape
  <2>2. CASE DOMAIN t = {}
    <3>1. t = [c \in {} |-> t[c]]
      BY <2>1, <2>2
    <3>2. [c \in {} |-> t[c]] = [c \in {} |-> 0]
      OBVIOUS
    <3> QED BY <3>1, <3>2 DEF NoUpdates
  <2>3. CASE DOMAIN t # {}
    BY <2>1, <2>3 DEF Writes
  <2> QED BY <2>2, <2>3
<1> QED BY <1>1, <1>2, <1>3, <1>4

(* What a received frame adds to the batch: afterwards the table with the    *)
(* batch over it shows the frame, and is what it was elsewhere.              *)
LEMMA CollectedType ==
    ASSUME channelValues \in [Channels -> Values], updates \in Partial,
           NEW data \in Frames
    PROVE  /\ Collected(data) \in Partial
           /\ DOMAIN Collected(data) = DOMAIN updates \cup Differs(data)
           /\ DOMAIN data \subseteq Channels /\ Differs(data) \subseteq DOMAIN data
           /\ Overlay(channelValues, Collected(data)) \in [Channels -> Values]
           /\ \A c \in DOMAIN data : Overlay(channelValues, Collected(data))[c] = data[c]
           /\ \A c \in Channels \ DOMAIN data :
                Overlay(channelValues, Collected(data))[c] = Expected[c]
<1> DEFINE batch == Collected(data)
           news == [c \in Differs(data) |-> data[c]]
<1>1. data \in Partial /\ DOMAIN data \subseteq Channels /\ data \in [DOMAIN data -> Values]
  BY FramesArePartial, PartialShape
<1>2. Differs(data) = {c \in DOMAIN data : Expected[c] # data[c]}
  BY DEF Differs
<1>3. news \in [Differs(data) -> Values] /\ Differs(data) \subseteq Channels
  BY <1>1, <1>2
<1>4. news \in Partial /\ DOMAIN news = Differs(data)
      /\ \A c \in Differs(data) : news[c] = data[c]
  BY <1>3, ShapeIsPartial
<1>5. batch = Overlay(updates, news)
  BY DEF Collected
<1> HIDE DEF batch, news
<1>6. /\ batch \in Partial
      /\ DOMAIN batch = DOMAIN updates \cup Differs(data)
      /\ \A c \in Differs(data) : batch[c] = data[c]
      /\ \A c \in DOMAIN updates \ Differs(data) : batch[c] = updates[c]
  <2>1. /\ Overlay(updates, news) \in Partial
        /\ DOMAIN Overlay(updates, news) = DOMAIN updates \cup DOMAIN news
        /\ \A c \in DOMAIN news : Overlay(updates, news)[c] = news[c]
        /\ \A c \in DOMAIN updates \ DOMAIN news : Overlay(updates, news)[c] = updates[c]
    BY <1>4, OverlayPartial
  <2> QED BY <1>4, <1>5, <2>1
<1>7. /\ Overlay(channelValues, batch) \in [Channels -> Values]
      /\ \A c \in DOMAIN batch : Overlay(channelValues, batch)[c] = batch[c]
      /\ \A c \in Channels \ DOMAIN batch :
            Overlay(channelValues, batch)[c] = channelValues[c]
  BY <1>6, OverlayTotal
<1>8. /\ \A c \in DOMAIN updates : Expected[c] = updates[c]
      /\ \A c \in Channels \ DOMAIN updates : Expected[c] = channelValues[c]
  BY OverlayTotal DEF Expected
<1>9. \A c \in Channels \ Differs(data) :
        Overlay(channelValues, batch)[c] = Expected[c]
  BY <1>6, <1>7, <1>8
<1>10. \A c \in Differs(data) : Overlay(channelValues, batch)[c] = data[c]
  BY <1>6, <1>7
<1>11. \A c \in DOMAIN data \ Differs(data) : Expected[c] = data[c]
  BY <1>2
<1>12. \A c \in DOMAIN data : Overlay(channelValues, batch)[c] = data[c]
  BY <1>1, <1>9, <1>10, <1>11
<1>13. \A c \in Channels \ DOMAIN data : Overlay(channelValues, batch)[c] = Expected[c]
  BY <1>2, <1>9
<1> QED BY <1>1, <1>2, <1>6, <1>7, <1>12, <1>13 DEF batch

-----------------------------------------------------------------------------
(* The invariant.                                                            *)

DataInv ==
    /\ channelValues \in [Channels -> Values]
    /\ updates \in Partial
    /\ lastInput \in [Channels -> Values]
    /\ inputLeads \subseteq Channels
    /\ BufferedIsPending
    /\ InputNotLost

IInv == LimiterInv /\ DataInv

LEMMA ExpectedType ==
    ASSUME DataInv
    PROVE  /\ Expected \in [Channels -> Values]
           /\ \A c \in DOMAIN updates : Expected[c] = updates[c]
           /\ \A c \in Channels \ DOMAIN updates : Expected[c] = channelValues[c]
BY OverlayTotal DEF DataInv, Expected

(* With nothing collected the table is what is expected. *)
LEMMA NothingCollected ==
    ASSUME NEW t \in [Channels -> Values]
    PROVE  Overlay(t, NoUpdates) = t
<1>1. /\ Overlay(t, NoUpdates) \in [Channels -> Values]
      /\ \A c \in Channels : Overlay(t, NoUpdates)[c] = t[c]
  BY OverlayTotal, FramesArePartial
<1> QED BY <1>1

(* process_updates leaves the table as it was expected to be, and no batch. *)
LEMMA BatchWritten ==
    ASSUME channelValues \in [Channels -> Values], NEW batch \in Partial,
           ProcessUpdates(batch)
    PROVE  /\ channelValues' = Overlay(channelValues, batch)
           /\ channelValues' \in [Channels -> Values]
           /\ updates' = NoUpdates
           /\ Expected' = channelValues'
<1>1. channelValues' = Overlay(channelValues, batch) /\ updates' = NoUpdates
  BY DEF ProcessUpdates
<1>2. channelValues' \in [Channels -> Values]
  BY <1>1, OverlayTotal
<1>3. Expected' = Overlay(channelValues', updates')
  BY DEF Expected
<1> QED BY <1>1, <1>2, <1>3, NothingCollected

(* A batch is empty exactly when it has no channel. *)
LEMMA EmptyBatch ==
    ASSUME NEW t \in Partial
    PROVE  (t = NoUpdates) <=> (DOMAIN t = {})
<1>1. DOMAIN NoUpdates = {}
  BY FramesArePartial
<1>2. ASSUME DOMAIN t = {} PROVE t = NoUpdates
  <2>1. t = [c \in {} |-> t[c]]
    BY <1>2, PartialShape
  <2>2. [c \in {} |-> t[c]] = [c \in {} |-> 0]
    OBVIOUS
  <2> QED BY <2>1, <2>2 DEF NoUpdates
<1> QED BY <1>1, <1>2

LEMMA InitInv == Init => IInv
<1> SUFFICES ASSUME Init PROVE IInv
  OBVIOUS
<1>1. LimiterInv
  BY LimiterInitially DEF Init
<1>2. /\ channelValues \in [Channels -> Values] /\ updates = NoUpdates
      /\ lastInput = channelValues /\ inputLeads = {}
  BY DEF Init
<1>3. pendingUpdate = FALSE
  BY DEF Init, LimiterInit
<1>4. BufferedIsPending
  BY <1>2, <1>3 DEF BufferedIsPending
<1>5. InputNotLost
  BY <1>2 DEF InputNotLost
<1> QED BY <1>1, <1>2, <1>4, <1>5, FramesArePartial DEF IInv, DataInv

(* What a received frame does to the table, the batch and the flag. *)
LEMMA ReceiveFacts ==
    ASSUME IInv, NEW data \in Frames, Receive(data)
    PROVE  /\ channelValues' \in [Channels -> Values]
           /\ updates' \in Partial
           /\ BufferedIsPending'
           /\ Expected' \in [Channels -> Values]
           /\ \A c \in DOMAIN data : Expected'[c] = data[c]
           /\ \A c \in Channels \ DOMAIN data : Expected'[c] = Expected[c]
           /\ \/ DOMAIN updates' = DOMAIN updates \cup Differs(data)
                 /\ channelValues' = channelValues
              \/ DOMAIN updates' = {} /\ channelValues' = Expected'
           /\ \A c \in Channels \ Differs(data) : Expected'[c] = Expected[c]
<1>1. /\ DataInv /\ channelValues \in [Channels -> Values] /\ updates \in Partial
      /\ Expected \in [Channels -> Values]
  BY ExpectedType DEF IInv, DataInv
<1>2. /\ Collected(data) \in Partial
      /\ DOMAIN Collected(data) = DOMAIN updates \cup Differs(data)
      /\ DOMAIN data \subseteq Channels
      /\ Overlay(channelValues, Collected(data)) \in [Channels -> Values]
      /\ \A c \in DOMAIN data : Overlay(channelValues, Collected(data))[c] = data[c]
      /\ \A c \in Channels \ DOMAIN data :
            Overlay(channelValues, Collected(data))[c] = Expected[c]
  BY <1>1, CollectedType
<1>3. \A c \in DOMAIN data \ Differs(data) : Expected[c] = data[c]
  BY DEF Differs
<1>4. CASE ReceiveKnown(data)
  <2>1. /\ Differs(data) = {} /\ channelValues' = channelValues /\ updates' = updates
        /\ pendingUpdate' = pendingUpdate
    BY <1>4 DEF ReceiveKnown, limiterVars
  <2>2. Expected' = Expected
    BY <2>1 DEF Expected
  <2>3. BufferedIsPending'
    BY <1>1, <2>1 DEF BufferedIsPending, DataInv
  <2> QED BY <1>1, <1>2, <1>3, <2>1, <2>2, <2>3
<1>5. CASE ReceiveAndUpdate(data)
  <2>1. ProcessUpdates(Collected(data)) /\ pendingUpdate' = FALSE
    BY <1>5 DEF ReceiveAndUpdate, UpdateAtOnce, DoUpdate
  <2>2. /\ channelValues' = Overlay(channelValues, Collected(data))
        /\ channelValues' \in [Channels -> Values]
        /\ updates' = NoUpdates /\ Expected' = channelValues'
    BY <1>1, <1>2, <2>1, BatchWritten
  <2>3. BufferedIsPending'
    BY <2>1, <2>2 DEF BufferedIsPending
  <2> QED BY <1>2, <1>3, <2>2, <2>3, FramesArePartial
<1>6. CASE ReceiveAndDefer(data)
  <2>1. /\ Differs(data) # {} /\ updates' = Collected(data)
        /\ channelValues' = channelValues /\ pendingUpdate' = TRUE
    BY <1>6 DEF ReceiveAndDefer, DeferUpdate
  <2>2. Expected' = Overlay(channelValues, Collected(data))
    BY <2>1 DEF Expected
  <2>3. updates' # NoUpdates
    BY <1>2, <2>1, FramesArePartial
  <2>4. BufferedIsPending'
    BY <2>1, <2>3 DEF BufferedIsPending
  <2> QED BY <1>1, <1>2, <1>3, <2>1, <2>2, <2>4
<1> QED BY <1>4, <1>5, <1>6 DEF Receive

(* A write of an entity's own. *)
LEMMA HaWritesFacts ==
    ASSUME IInv, NEW write \in Writes, HaWrites(write)
    PROVE  /\ channelValues' \in [Channels -> Values]
           /\ updates' = updates
           /\ Expected' \in [Channels -> Values]
           /\ \A c \in DOMAIN updates : Expected'[c] = Expected[c]
           /\ \A c \in Channels \ DOMAIN updates : Expected'[c] = channelValues'[c]
           /\ \A c \in Channels \ DOMAIN write : channelValues'[c] = channelValues[c]
<1>1. /\ channelValues \in [Channels -> Values] /\ updates \in Partial /\ write \in Partial
      /\ \A c \in DOMAIN updates : Expected[c] = updates[c]
  BY FramesArePartial, ExpectedType DEF IInv, DataInv
<1>2. channelValues' = Overlay(channelValues, write) /\ updates' = updates
  BY DEF HaWrites
<1>3. /\ channelValues' \in [Channels -> Values]
      /\ \A c \in Channels \ DOMAIN write : channelValues'[c] = channelValues[c]
  BY <1>1, <1>2, OverlayTotal
<1>4. Expected' = Overlay(channelValues', updates)
  BY <1>2 DEF Expected
<1>5. /\ Expected' \in [Channels -> Values]
      /\ \A c \in DOMAIN updates : Expected'[c] = updates[c]
      /\ \A c \in Channels \ DOMAIN updates : Expected'[c] = channelValues'[c]
  BY <1>1, <1>3, <1>4, OverlayTotal
<1> QED BY <1>1, <1>2, <1>3, <1>5

(* The limiter's task writes the whole batch. *)
LEMMA WakeFacts ==
    ASSUME IInv, WakeAndUpdate, ProcessUpdates(updates)
    PROVE  /\ DOMAIN updates # {} /\ DOMAIN updates' = {} /\ updates' = NoUpdates
           /\ channelValues' = Expected /\ Expected' = Expected
           /\ Expected \in [Channels -> Values]
           /\ BufferedIsPending'
<1>1. channelValues \in [Channels -> Values] /\ updates \in Partial /\ BufferedIsPending
  BY DEF IInv, DataInv
<1>2. pendingUpdate /\ pendingUpdate' = FALSE
  BY DEF WakeAndUpdate, DoUpdate
<1>3. updates # NoUpdates
  BY <1>1, <1>2 DEF BufferedIsPending
<1>4. DOMAIN updates # {}
  BY <1>1, <1>3, EmptyBatch
<1>5. /\ channelValues' = Overlay(channelValues, updates)
      /\ channelValues' \in [Channels -> Values]
      /\ updates' = NoUpdates /\ Expected' = channelValues'
  BY <1>1, BatchWritten
<1>6. channelValues' = Expected
  BY <1>5 DEF Expected
<1>7. BufferedIsPending'
  BY <1>2, <1>5 DEF BufferedIsPending
<1> QED BY <1>4, <1>5, <1>6, <1>7, FramesArePartial

LEMMA StepInv == IInv /\ [Next]_vars => IInv'
<1> SUFFICES ASSUME IInv, [Next]_vars PROVE IInv'
  OBVIOUS
<1>1. LimiterInv /\ DataInv
  BY DEF IInv
<1>2. LimiterInv'
  <2>1. [LimiterNext]_limiterVars
    BY DEF Next, Receive, ReceiveKnown, ReceiveAndUpdate, ReceiveAndDefer, HaWrites,
           Wake, Tick, LimiterNext, vars
  <2> QED BY <1>1, <2>1, LimiterKept
<1>3. ASSUME NEW data \in Frames, Receive(data) PROVE DataInv'
  <2>1. /\ channelValues' \in [Channels -> Values] /\ updates' \in Partial
        /\ BufferedIsPending'
        /\ \A c \in DOMAIN data : Expected'[c] = data[c]
        /\ \A c \in Channels \ DOMAIN data : Expected'[c] = Expected[c]
    BY <1>3, ReceiveFacts
  <2>2. data \in Partial /\ DOMAIN data \subseteq Channels
    BY FramesArePartial, PartialShape
  <2>3. lastInput' = Overlay(lastInput, data) /\ inputLeads' = inputLeads \cup DOMAIN data
    BY <1>3 DEF Receive
  <2>4. /\ lastInput' \in [Channels -> Values]
        /\ \A c \in DOMAIN data : lastInput'[c] = data[c]
        /\ \A c \in Channels \ DOMAIN data : lastInput'[c] = lastInput[c]
    BY <1>1, <2>2, <2>3, OverlayTotal DEF DataInv
  <2>5. inputLeads' \subseteq Channels /\ InputNotLost'
    BY <1>1, <2>1, <2>2, <2>3, <2>4 DEF DataInv, InputNotLost
  <2> QED BY <2>1, <2>4, <2>5 DEF DataInv
<1>4. ASSUME NEW write \in Writes, HaWrites(write) PROVE DataInv'
  <2>1. /\ channelValues' \in [Channels -> Values] /\ updates' = updates
        /\ \A c \in DOMAIN updates : Expected'[c] = Expected[c]
        /\ \A c \in Channels \ DOMAIN updates : Expected'[c] = channelValues'[c]
        /\ \A c \in Channels \ DOMAIN write : channelValues'[c] = channelValues[c]
    BY <1>4, HaWritesFacts
  <2>2. /\ lastInput' = lastInput /\ inputLeads' = inputLeads \ DOMAIN write
        /\ pendingUpdate' = pendingUpdate
    BY <1>4 DEF HaWrites, limiterVars
  <2>3. \A c \in Channels \ DOMAIN updates : Expected[c] = channelValues[c]
    BY <1>1, ExpectedType
  <2>4. InputNotLost'
    BY <1>1, <2>1, <2>2, <2>3 DEF InputNotLost, DataInv
  <2>5. BufferedIsPending'
    BY <1>1, <2>1, <2>2 DEF BufferedIsPending, DataInv
  <2> QED BY <1>1, <2>1, <2>2, <2>4, <2>5 DEF DataInv
<1>5. ASSUME Wake PROVE DataInv'
  <2>1. CASE /\ WakeAndUpdate /\ ProcessUpdates(updates)
             /\ UNCHANGED <<lastInput, inputLeads>>
    BY <1>1, <2>1, WakeFacts, FramesArePartial DEF DataInv, InputNotLost
  <2>2. CASE WakeIdle /\ UNCHANGED dataVars
    BY <1>1, <2>2 DEF DataInv, BufferedIsPending, InputNotLost, Expected, WakeIdle, dataVars
  <2> QED BY <1>5, <2>1, <2>2 DEF Wake
<1>6. ASSUME Tick \/ UNCHANGED vars PROVE DataInv'
  <2>1. UNCHANGED dataVars /\ pendingUpdate' = pendingUpdate
    BY <1>6 DEF Tick, LimiterTick, vars, limiterVars
  <2> QED BY <1>1, <2>1 DEF DataInv, BufferedIsPending, InputNotLost, Expected, dataVars
<1>7. DataInv'
  BY <1>3, <1>4, <1>5, <1>6 DEF Next
<1> QED BY <1>2, <1>7 DEF IInv

LEMMA Invariance == Spec => []IInv
<1> QED BY InitInv, StepInv, PTL DEF Spec

LEMMA IInvImplies ==
    IInv => /\ TypeOK /\ OneTaskPerFlag /\ DeferredInTime
            /\ BufferedIsPending /\ InputNotLost
BY LimiterInvImplies, FramesArePartial DEF IInv, DataInv, TypeOK

(* Every variable holds a value of its kind, in every reachable state. *)
THEOREM TypeCorrect == Spec => []TypeOK
<1> QED BY Invariance, IInvImplies, PTL

(* The limiter never has two tasks, nor a flag with none; and what was        *)
(* deferred is shown by the end of the interval.                              *)
THEOREM LimiterCorrect == Spec => [](OneTaskPerFlag /\ DeferredInTime)
<1>1. IInv => OneTaskPerFlag /\ DeferredInTime
  BY IInvImplies
<1> QED BY <1>1, Invariance, PTL

(* No update is forgotten in updates_dict, and none finds it empty. *)
THEOREM BufferIsPending == Spec => []BufferedIsPending
<1>1. IInv => BufferedIsPending
  BY IInvImplies
<1> QED BY <1>1, Invariance, PTL

(* The last value received for a channel is in the universe or on its way.    *)
THEOREM NoInputLost == Spec => []InputNotLost
<1>1. IInv => InputNotLost
  BY IInvImplies
<1> QED BY <1>1, Invariance, PTL

-----------------------------------------------------------------------------
(* The universe is a reader of the latest values.                            *)

LEMMA InitSimulates == Init => Abstract!LatestInit
<1> SUFFICES ASSUME Init PROVE Abstract!LatestInit
  OBVIOUS
<1>1. channelValues \in [Channels -> Values] /\ updates = NoUpdates
  BY DEF Init
<1>2. Expected = channelValues /\ DOMAIN updates = {}
  BY <1>1, NothingCollected, FramesArePartial DEF Expected
<1> QED BY <1>1, <1>2 DEF Abstract!LatestInit

LEMMA StepSimulates ==
    IInv /\ [Next]_vars => [Abstract!LatestNext]_(Abstract!latestVars)
<1> SUFFICES ASSUME IInv, [Next]_vars
             PROVE  Abstract!LatestNext \/ UNCHANGED Abstract!latestVars
  OBVIOUS
<1>1. /\ DataInv /\ updates \in Partial /\ DOMAIN updates \subseteq Channels
      /\ Expected \in [Channels -> Values]
  BY ExpectedType, PartialShape DEF IInv, DataInv
<1>2. ASSUME NEW data \in Frames, Receive(data) PROVE Abstract!LatestNext
  <2>1. Differs(data) \subseteq Channels
    BY <1>1, CollectedType DEF DataInv
  <2>2. /\ Expected' \in [Channels -> Values]
        /\ \A c \in Channels \ Differs(data) : Expected'[c] = Expected[c]
        /\ \/ DOMAIN updates' = DOMAIN updates \cup Differs(data)
              /\ channelValues' = channelValues
           \/ DOMAIN updates' = {} /\ channelValues' = Expected'
    BY <1>2, ReceiveFacts
  <2>3. Abstract!Submit(Differs(data))
    BY <2>2 DEF Abstract!Submit
  <2> QED BY <2>1, <2>3 DEF Abstract!LatestNext
<1>3. ASSUME NEW write \in Writes, HaWrites(write) PROVE Abstract!LatestNext
  <2>1. /\ channelValues' \in [Channels -> Values] /\ updates' = updates
        /\ Expected' \in [Channels -> Values]
        /\ \A c \in DOMAIN updates : Expected'[c] = Expected[c]
        /\ \A c \in Channels \ DOMAIN updates : Expected'[c] = channelValues'[c]
        /\ \A c \in Channels \ DOMAIN write : channelValues'[c] = channelValues[c]
    BY <1>3, HaWritesFacts
  <2>2. Expected' = [c \in Channels |->
                       IF c \in DOMAIN updates THEN Expected[c] ELSE channelValues'[c]]
    BY <1>1, <2>1
  <2>3. Abstract!Overwrite(DOMAIN write)
    BY <2>1, <2>2 DEF Abstract!Overwrite
  <2>4. DOMAIN write \subseteq Channels
    BY FramesArePartial, PartialShape
  <2> QED BY <2>3, <2>4 DEF Abstract!LatestNext
<1>4. CASE Wake
  <2>1. CASE WakeAndUpdate /\ ProcessUpdates(updates)
    BY <2>1, WakeFacts DEF Abstract!LatestNext, Abstract!Publish
  <2>2. CASE UNCHANGED dataVars
    BY <2>2 DEF dataVars, Expected, Abstract!latestVars
  <2> QED BY <1>4, <2>1, <2>2 DEF Wake
<1>5. CASE Tick \/ UNCHANGED vars
  BY <1>5 DEF Tick, vars, dataVars, Expected, Abstract!latestVars
<1> QED BY <1>2, <1>3, <1>4, <1>5 DEF Next

(* The input of a universe implements LatestValue, but for its fairness: it   *)
(* is only ever brought up to date in whole batches.                          *)
THEOREM InputImplementsLatestValue ==
    Spec => Abstract!LatestInit /\ [][Abstract!LatestNext]_(Abstract!latestVars)
<1> QED BY Invariance, InitSimulates, StepSimulates, PTL DEF Spec
=============================================================================
