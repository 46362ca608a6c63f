----------------------- MODULE AnimationEngineProofs -----------------------
(***************************************************************************)
(* Proofs about AnimationEngine for any number of lights, channels,        *)
(* commands and frames: no channel stays owned by an animation the engine  *)
(* has forgotten; and where no two lights share a channel, the last frame  *)
(* written to a channel is the newest command's.                           *)
(***************************************************************************)
EXTENDS AnimationEngine, TLAPS

(* The fixtures of the lights do not overlap.  Where they do, the second     *)
(* half fails: see ConflictsAreCancelled.                                    *)
OwnChannels == \A l, m \in Lights : l # m => ChannelsOf[l] \cap ChannelsOf[m] = {}

(* Animations are created in the order of their numbers. *)
Numbered == \A k \in Ids : k > commands => task[k] = "unborn" /\ k \notin active

(* What holds whatever the lights share. *)
EngineInv == TypeOK /\ Numbered /\ OwnersAreActive

(* An animation owns channels of its light only. *)
OwnersAreLights == \A c \in Channels : owner[c] # None => c \in ChannelsOf[light[owner[c]]]

(* A running animation is for the newest command of each of its channels. *)
RunningIsNewest ==
    \A k \in Ids : task[k] = "running" =>
        /\ controlled[k] \subseteq ChannelsOf[light[k]]
        /\ \A c \in controlled[k] : commanded[c] = k

(* The inductive invariant where every light has channels of its own. *)
LightInv == EngineInv /\ OwnersAreLights /\ RunningIsCurrent /\ RunningIsNewest /\ NewestCommandWins

-----------------------------------------------------------------------------
LEMMA Constants ==
    /\ None = 0 /\ None \notin Ids /\ Ids \subseteq Nat
    /\ MaxCommands \in Nat /\ MaxFrames \in Nat
    /\ \A l \in Lights : ChannelsOf[l] \subseteq Channels
BY LightsAssumption, BoundsAssumption DEF None, Ids

-----------------------------------------------------------------------------
LEMMA InitInv == Init => LightInv
<1> SUFFICES ASSUME Init PROVE LightInv
  OBVIOUS
<1>1. TypeOK
  BY Constants DEF Init, TypeOK
<1>2. Numbered /\ OwnersAreActive /\ OwnersAreLights
  BY DEF Init, Numbered, OwnersAreActive, OwnersAreLights
<1>3. RunningIsCurrent /\ RunningIsNewest /\ NewestCommandWins
  BY DEF Init, RunningIsCurrent, RunningIsNewest, NewestCommandWins
<1> QED BY <1>1, <1>2, <1>3 DEF LightInv, EngineInv

-----------------------------------------------------------------------------
(* A command's number is the next one, of an animation not yet born. *)
LEMMA NewNumber ==
    ASSUME EngineInv, commands < MaxCommands
    PROVE  /\ commands + 1 \in Ids
           /\ task[commands + 1] = "unborn"
           /\ commands + 1 \notin active
           /\ \A c \in Channels : owner[c] # commands + 1
<1>1. commands + 1 \in Ids
  BY Constants DEF EngineInv, TypeOK, Ids
<1>2. task[commands + 1] = "unborn" /\ commands + 1 \notin active
  BY <1>1, Constants DEF EngineInv, TypeOK, Numbered
<1>3. \A c \in Channels : owner[c] # commands + 1
  BY <1>1, <1>2, Constants DEF EngineInv, OwnersAreActive
<1> QED BY <1>1, <1>2, <1>3

LEMMA AtOnceKeepsEngine ==
    ASSUME EngineInv, NEW l \in Lights, NEW indexes \in SUBSET ChannelsOf[l],
           CommandAtOnce(l, indexes)
    PROVE  EngineInv'
<1>1. commands + 1 \in Ids /\ commands' = commands + 1
  BY NewNumber DEF CommandAtOnce
<1>2. TypeOK'
  <2>1. task' \in [Ids -> {"unborn", "running", "cancelled", "done"}]
    BY DEF EngineInv, TypeOK, CommandAtOnce, TaskCancelled
  <2>2. current' \in [Lights -> Ids \cup {None}]
    BY DEF EngineInv, TypeOK, CommandAtOnce
  <2>3. writer' \in [Channels -> Ids \cup {None}] /\ commanded' \in [Channels -> Ids \cup {None}]
    BY <1>1 DEF EngineInv, TypeOK, CommandAtOnce, Writes
  <2>4. commands' \in 0..MaxCommands
    BY Constants DEF EngineInv, TypeOK, CommandAtOnce
  <2> QED BY <2>1, <2>2, <2>3, <2>4 DEF EngineInv, TypeOK, CommandAtOnce
<1>3. Numbered'
  <2> SUFFICES ASSUME NEW k \in Ids, k > commands' PROVE task'[k] = "unborn" /\ k \notin active'
    BY DEF Numbered
  <2>1. k > commands
    BY <1>1, Constants DEF EngineInv, TypeOK
  <2> QED BY <2>1 DEF EngineInv, Numbered, CommandAtOnce, TaskCancelled
<1>4. OwnersAreActive'
  BY DEF EngineInv, OwnersAreActive, CommandAtOnce
<1> QED BY <1>2, <1>3, <1>4 DEF EngineInv

LEMMA TransitionKeepsEngine ==
    ASSUME EngineInv, NEW l \in Lights, NEW indexes \in SUBSET ChannelsOf[l],
           NEW frames \in 0..MaxFrames, CommandWithTransition(l, indexes, frames)
    PROVE  EngineInv'
<1> DEFINE k == commands + 1
           gone == Conflicting(indexes)
<1>1. commands < MaxCommands /\ commands' = k /\ k \in Ids
  BY NewNumber DEF CommandWithTransition
<1>2. /\ light' = [light EXCEPT ![k] = l]
      /\ controlled' = [controlled EXCEPT ![k] = indexes]
      /\ framesLeft' = [framesLeft EXCEPT ![k] = frames]
      /\ task' = [TaskCancelled(l) EXCEPT ![k] = IF frames = 0 THEN "done" ELSE "running"]
      /\ active' = (active \ gone) \cup {k}
      /\ owner' = Claimed(Released(gone, owner), indexes, k)
      /\ current' = [current EXCEPT ![l] = k]
      /\ writer' = Writes(writer, indexes, k)
      /\ commanded' = Writes(commanded, indexes, k)
  BY <1>1 DEF CommandWithTransition
<1> HIDE DEF k, gone
<1>3. TypeOK'
  <2>1. task' \in [Ids -> {"unborn", "running", "cancelled", "done"}]
    BY <1>2 DEF EngineInv, TypeOK, TaskCancelled
  <2>2. light' \in [Ids -> Lights] /\ framesLeft' \in [Ids -> 0..MaxFrames]
    BY <1>2 DEF EngineInv, TypeOK
  <2>3. controlled' \in [Ids -> SUBSET Channels]
    BY <1>2, Constants DEF EngineInv, TypeOK
  <2>4. active' \subseteq Ids /\ current' \in [Lights -> Ids \cup {None}]
    BY <1>1, <1>2 DEF EngineInv, TypeOK
  <2>5. owner' \in [Channels -> Ids \cup {None}]
    BY <1>1, <1>2 DEF EngineInv, TypeOK, Claimed, Writes, Released
  <2>6. writer' \in [Channels -> Ids \cup {None}] /\ commanded' \in [Channels -> Ids \cup {None}]
    BY <1>1, <1>2 DEF EngineInv, TypeOK, Writes
  <2>7. commands' \in 0..MaxCommands
    BY <1>1, Constants DEF Ids
  <2> QED BY <2>1, <2>2, <2>3, <2>4, <2>5, <2>6, <2>7 DEF TypeOK
<1>4. Numbered'
  <2> SUFFICES ASSUME NEW j \in Ids, j > commands' PROVE task'[j] = "unborn" /\ j \notin active'
    BY DEF Numbered
  <2>1. j # k /\ j > commands
    BY <1>1, Constants DEF EngineInv, TypeOK, k
  <2>2. task[j] = "unborn" /\ j \notin active
    BY <2>1 DEF EngineInv, Numbered
  <2> QED BY <1>2, <2>1, <2>2 DEF EngineInv, TypeOK, TaskCancelled
<1>5. OwnersAreActive'
  <2> SUFFICES ASSUME NEW c \in Channels PROVE owner'[c] \in active' \cup {None}
    BY DEF OwnersAreActive
  <2>1. CASE c \in indexes
    BY <1>2, <2>1 DEF Claimed, Writes
  <2>2. CASE c \notin indexes
    <3>1. owner'[c] = IF owner[c] \in gone THEN None ELSE owner[c]
      BY <1>2, <2>2 DEF Claimed, Writes, Released
    <3> QED BY <1>2, <3>1 DEF EngineInv, OwnersAreActive
  <2> QED BY <2>1, <2>2
<1> QED BY <1>3, <1>4, <1>5 DEF EngineInv

(* A task's end takes its animation and its channels from the tables. *)
LEMMA CleanupKeepsEngine ==
    ASSUME EngineInv, NEW k \in Ids, Cleanup(k)
    PROVE  /\ task' \in [Ids -> {"unborn", "running", "cancelled", "done"}]
           /\ active' \subseteq Ids
           /\ owner' \in [Channels -> Ids \cup {None}]
           /\ OwnersAreActive'
<1>1. task' \in [Ids -> {"unborn", "running", "cancelled", "done"}] /\ active' \subseteq Ids
  BY DEF EngineInv, TypeOK, Cleanup
<1>2. owner' \in [Channels -> Ids \cup {None}]
  BY DEF EngineInv, TypeOK, Cleanup, Released
<1>3. OwnersAreActive'
  <2> SUFFICES ASSUME NEW c \in Channels PROVE owner'[c] \in active' \cup {None}
    BY DEF OwnersAreActive
  <2>1. owner[c] \in active \cup {None} /\ active' = active \ {k}
    BY DEF EngineInv, OwnersAreActive, Cleanup
  <2>2. CASE k \in active
    BY <2>1, <2>2 DEF Cleanup, Released
  <2>3. CASE k \notin active
    BY <2>1, <2>3 DEF Cleanup
  <2> QED BY <2>2, <2>3
<1> QED BY <1>1, <1>2, <1>3

LEMMA RunKeepsEngine ==
    ASSUME EngineInv, NEW k \in Ids, Runs(k)
    PROVE  EngineInv'
<1>1. Numbered'
  <2>1. task[k] # "unborn"
    BY DEF Runs, Frame, LastFrame, CancelledEnds
  <2>2. /\ commands' = commands /\ active' \subseteq active
        /\ \A j \in Ids : j # k => task'[j] = task[j]
    BY DEF Runs, Frame, LastFrame, CancelledEnds, Cleanup, EngineInv, TypeOK
  <2> QED BY <2>1, <2>2 DEF EngineInv, Numbered
<1>2. CASE Frame(k)
  <2>1. framesLeft' \in [Ids -> 0..MaxFrames]
    BY <1>2, Constants DEF Frame, FrameDone, EngineInv, TypeOK
  <2>2. writer' \in [Channels -> Ids \cup {None}]
    BY <1>2 DEF Frame, Writes, EngineInv, TypeOK
  <2>3. TypeOK'
    BY <1>2, <2>1, <2>2 DEF Frame, EngineInv, TypeOK
  <2>4. OwnersAreActive'
    BY <1>2 DEF Frame, EngineInv, OwnersAreActive
  <2> QED BY <1>1, <2>3, <2>4 DEF EngineInv
<1>3. CASE LastFrame(k)
  <2>1. framesLeft' \in [Ids -> 0..MaxFrames]
    BY <1>3, Constants DEF LastFrame, FrameDone, EngineInv, TypeOK
  <2>2. writer' \in [Channels -> Ids \cup {None}]
    BY <1>3 DEF LastFrame, Writes, EngineInv, TypeOK
  <2>3. current' \in [Lights -> Ids \cup {None}]
    BY <1>3 DEF LastFrame, EngineInv, TypeOK
  <2>4. TypeOK' /\ OwnersAreActive'
    BY <1>3, <2>1, <2>2, <2>3, CleanupKeepsEngine DEF LastFrame, EngineInv, TypeOK
  <2> QED BY <1>1, <2>4 DEF EngineInv
<1>4. CASE CancelledEnds(k)
  <2>1. TypeOK' /\ OwnersAreActive'
    BY <1>4, CleanupKeepsEngine DEF CancelledEnds, EngineInv, TypeOK
  <2> QED BY <1>1, <2>1 DEF EngineInv
<1> QED BY <1>2, <1>3, <1>4 DEF Runs

LEMMA EngineStep == EngineInv /\ [Next]_vars => EngineInv'
<1> SUFFICES ASSUME EngineInv, [Next]_vars PROVE EngineInv'
  OBVIOUS
<1>1. ASSUME NEW l \in Lights, NEW indexes \in (SUBSET ChannelsOf[l]) \ {{}},
             CommandAtOnce(l, indexes) PROVE EngineInv'
  BY <1>1, AtOnceKeepsEngine
<1>2. ASSUME NEW l \in Lights, NEW indexes \in (SUBSET ChannelsOf[l]) \ {{}},
             NEW frames \in 0..MaxFrames, CommandWithTransition(l, indexes, frames)
      PROVE  EngineInv'
  BY <1>2, TransitionKeepsEngine
<1>3. ASSUME NEW k \in Ids, Runs(k) PROVE EngineInv'
  BY <1>3, RunKeepsEngine
<1>4. CASE UNCHANGED vars
  BY <1>4 DEF vars, engine, EngineInv, TypeOK, Numbered, OwnersAreActive
<1> QED BY <1>1, <1>2, <1>3, <1>4 DEF Next, Commands

-----------------------------------------------------------------------------
(* A command on a light leaves no older animation of the light running, and  *)
(* the animations of the other lights as they are.                           *)
LEMMA OthersGoOn ==
    ASSUME LightInv, NEW l \in Lights, NEW k \in Ids, TaskCancelled(l)[k] = "running"
    PROVE  task[k] = "running" /\ light[k] # l /\ light[k] \in Lights
<1>1. task[k] = "running"
  BY DEF TaskCancelled
<1>2. current[light[k]] = k /\ k \in active
  BY <1>1 DEF LightInv, RunningIsCurrent
<1>3. light[k] # l
  BY <1>1, <1>2 DEF TaskCancelled
<1> QED BY <1>1, <1>3 DEF LightInv, EngineInv, TypeOK

LEMMA AtOnceKeepsLights ==
    ASSUME OwnChannels, LightInv, NEW l \in Lights, NEW indexes \in SUBSET ChannelsOf[l],
           CommandAtOnce(l, indexes)
    PROVE  LightInv'
<1>1. EngineInv'
  BY AtOnceKeepsEngine DEF LightInv
<1>2. OwnersAreLights'
  BY DEF LightInv, OwnersAreLights, CommandAtOnce
<1>3. ASSUME NEW k \in Ids, task'[k] = "running"
      PROVE  /\ task[k] = "running" /\ light[k] # l /\ light[k] \in Lights
             /\ current'[light[k]] = current[light[k]]
             /\ controlled[k] \cap indexes = {}
  <2>1. TaskCancelled(l)[k] = "running"
    BY <1>3 DEF CommandAtOnce
  <2>2. task[k] = "running" /\ light[k] # l /\ light[k] \in Lights
    BY <2>1, OthersGoOn
  <2>3. current'[light[k]] = current[light[k]]
    BY <2>2 DEF CommandAtOnce, LightInv, EngineInv, TypeOK
  <2>4. controlled[k] \subseteq ChannelsOf[light[k]]
    BY <2>2 DEF LightInv, RunningIsNewest
  <2> QED BY <2>2, <2>3, <2>4 DEF OwnChannels
<1>4. RunningIsCurrent'
  BY <1>3 DEF LightInv, RunningIsCurrent, CommandAtOnce
<1>5. RunningIsNewest'
  <2> SUFFICES ASSUME NEW k \in Ids, task'[k] = "running"
               PROVE  /\ controlled[k] \subseteq ChannelsOf[light[k]]
                      /\ \A c \in controlled[k] : commanded'[c] = k
    BY DEF RunningIsNewest, CommandAtOnce
  <2>1. /\ controlled[k] \subseteq ChannelsOf[light[k]]
        /\ \A c \in controlled[k] : commanded[c] = k
    BY <1>3 DEF LightInv, RunningIsNewest
  <2>2. controlled[k] \subseteq Channels
    BY DEF LightInv, EngineInv, TypeOK
  <2> QED BY <1>3, <2>1, <2>2 DEF CommandAtOnce, Writes
<1>6. NewestCommandWins'
  BY DEF LightInv, NewestCommandWins, CommandAtOnce
<1> QED BY <1>1, <1>2, <1>4, <1>5, <1>6 DEF LightInv

LEMMA TransitionKeepsLights ==
    ASSUME OwnChannels, LightInv, NEW l \in Lights, NEW indexes \in SUBSET ChannelsOf[l],
           NEW frames \in 0..MaxFrames, CommandWithTransition(l, indexes, frames)
    PROVE  LightInv'
<1> DEFINE k == commands + 1
           gone == Conflicting(indexes)
<1>1. commands < MaxCommands /\ k \in Ids /\ \A c \in Channels : owner[c] # k
  BY NewNumber DEF CommandWithTransition, LightInv
<1>2. /\ light' = [light EXCEPT ![k] = l]
      /\ controlled' = [controlled EXCEPT ![k] = indexes]
      /\ task' = [TaskCancelled(l) EXCEPT ![k] = IF frames = 0 THEN "done" ELSE "running"]
      /\ active' = (active \ gone) \cup {k}
      /\ owner' = Claimed(Released(gone, owner), indexes, k)
      /\ current' = [current EXCEPT ![l] = k]
      /\ writer' = Writes(writer, indexes, k)
      /\ commanded' = Writes(commanded, indexes, k)
  BY DEF CommandWithTransition
<1>3. gone = {owner[c] : c \in indexes} \cap active
  BY DEF Conflicting
<1> HIDE DEF k, gone
<1>4. EngineInv'
  BY TransitionKeepsEngine DEF LightInv
<1>5. OwnersAreLights'
  <2> SUFFICES ASSUME NEW c \in Channels, owner'[c] # None
               PROVE  c \in ChannelsOf[light'[owner'[c]]]
    BY DEF OwnersAreLights
  <2>1. CASE c \in indexes
    BY <1>1, <1>2, <2>1 DEF Claimed, Writes, LightInv, EngineInv, TypeOK
  <2>2. CASE c \notin indexes
    <3>1. owner'[c] = owner[c] /\ owner[c] # None
      BY <1>2, <2>2 DEF Claimed, Writes, Released
    <3>2. owner[c] \in Ids /\ owner[c] # k
      BY <1>1, <3>1 DEF LightInv, EngineInv, TypeOK
    <3>3. light'[owner[c]] = light[owner[c]]
      BY <1>2, <3>2 DEF LightInv, EngineInv, TypeOK
    <3> QED BY <3>1, <3>3 DEF LightInv, OwnersAreLights
  <2> QED BY <2>1, <2>2
(* An older animation that goes on is of another light, so it owns none of   *)
(* the command's channels and is not cleaned up for them.                    *)
<1>6. ASSUME NEW j \in Ids, task'[j] = "running", j # k
      PROVE  /\ task[j] = "running" /\ light'[j] = light[j] /\ controlled'[j] = controlled[j]
             /\ light[j] # l /\ light[j] \in Lights
             /\ current'[light[j]] = current[light[j]]
             /\ controlled[j] \cap indexes = {}
             /\ j \in active'
  <2>1. TaskCancelled(l)[j] = "running"
    BY <1>2, <1>6 DEF LightInv, EngineInv, TypeOK, TaskCancelled
  <2>2. task[j] = "running" /\ light[j] # l /\ light[j] \in Lights
    BY <2>1, OthersGoOn
  <2>3. /\ light'[j] = light[j] /\ controlled'[j] = controlled[j]
        /\ current'[light[j]] = current[light[j]]
    BY <1>2, <1>6, <2>2 DEF LightInv, EngineInv, TypeOK
  <2>4. controlled[j] \subseteq ChannelsOf[light[j]] /\ j \in active
    BY <2>2 DEF LightInv, RunningIsNewest, RunningIsCurrent
  <2>5. j \notin gone
    <3> SUFFICES ASSUME NEW c \in indexes, owner[c] = j PROVE FALSE
      BY <1>3
    <3>1. c \in Channels /\ c \in ChannelsOf[l]
      BY Constants
    <3>2. j # None
      BY Constants
    <3>3. c \in ChannelsOf[light[j]]
      BY <3>1, <3>2 DEF LightInv, OwnersAreLights
    <3> QED BY <2>2, <3>1, <3>3 DEF OwnChannels
  <2>6. controlled[j] \cap indexes = {}
    BY <2>2, <2>4 DEF OwnChannels
  <2> QED BY <1>2, <2>2, <2>3, <2>4, <2>5, <2>6
<1>7. /\ light'[k] = l /\ controlled'[k] = indexes /\ current'[l] = k /\ k \in active'
      /\ \A c \in indexes : commanded'[c] = k
  BY <1>1, <1>2, Constants DEF LightInv, EngineInv, TypeOK, Writes
<1>8. RunningIsCurrent'
  BY <1>6, <1>7 DEF LightInv, RunningIsCurrent
<1>9. RunningIsNewest'
  <2> SUFFICES ASSUME NEW j \in Ids, task'[j] = "running"
               PROVE  /\ controlled'[j] \subseteq ChannelsOf[light'[j]]
                      /\ \A c \in controlled'[j] : commanded'[c] = j
    BY DEF RunningIsNewest
  <2>1. CASE j = k
    BY <1>7, <2>1
  <2>2. CASE j # k
    <3>1. /\ controlled[j] \subseteq ChannelsOf[light[j]]
          /\ \A c \in controlled[j] : commanded[c] = j
      BY <1>6, <2>2 DEF LightInv, RunningIsNewest
    <3>2. controlled[j] \subseteq Channels
      BY DEF LightInv, EngineInv, TypeOK
    <3> QED BY <1>2, <1>6, <2>2, <3>1, <3>2 DEF Writes
  <2> QED BY <2>1, <2>2
<1>10. NewestCommandWins'
  BY <1>2 DEF LightInv, NewestCommandWins
<1> QED BY <1>4, <1>5, <1>8, <1>9, <1>10 DEF LightInv

LEMMA RunKeepsLights ==
    ASSUME LightInv, NEW k \in Ids, Runs(k)
    PROVE  LightInv'
<1>1. EngineInv'
  BY RunKeepsEngine DEF LightInv
<1>2. /\ UNCHANGED <<light, controlled, commanded>>
      /\ \A j \in Ids : task'[j] = "running" => task[j] = "running"
      /\ \A c \in Channels : owner'[c] = owner[c] \/ owner'[c] = None
  BY DEF Runs, Frame, LastFrame, CancelledEnds, Cleanup, Released, LightInv, EngineInv, TypeOK
<1>3. OwnersAreLights'
  BY <1>2 DEF LightInv, OwnersAreLights
<1>4. RunningIsNewest'
  BY <1>2 DEF LightInv, RunningIsNewest
<1>5. RunningIsCurrent'
  <2> SUFFICES ASSUME NEW j \in Ids, task'[j] = "running"
               PROVE  current'[light[j]] = j /\ j \in active'
    BY <1>2 DEF RunningIsCurrent
  <2>1. task[j] = "running" /\ current[light[j]] = j /\ j \in active
    BY <1>2 DEF LightInv, RunningIsCurrent
  <2>2. CASE Frame(k)
    BY <2>1, <2>2 DEF Frame
  <2>3. CASE LastFrame(k)
    <3>1. j # k /\ current[light[k]] = k
      BY <2>3 DEF LastFrame, Cleanup, LightInv, EngineInv, TypeOK, RunningIsCurrent
    <3>2. light[j] # light[k]
      BY <2>1, <3>1
    <3> QED BY <2>1, <2>3, <3>1, <3>2 DEF LastFrame, Cleanup, LightInv, EngineInv, TypeOK
  <2>4. CASE CancelledEnds(k)
    BY <2>1, <2>4 DEF CancelledEnds, Cleanup
  <2> QED BY <2>2, <2>3, <2>4 DEF Runs
<1>6. NewestCommandWins'
  <2>1. CASE Frame(k) \/ LastFrame(k)
    <3>1. task[k] = "running" /\ writer' = Writes(writer, controlled[k], k)
      BY <2>1 DEF Frame, LastFrame
    <3>2. \A c \in controlled[k] : writer[c] = k
      BY <3>1 DEF LightInv, RunningIsNewest, NewestCommandWins
    <3>3. writer' = writer
      BY <3>1, <3>2 DEF Writes, LightInv, EngineInv, TypeOK
    <3> QED BY <1>2, <3>3 DEF LightInv, NewestCommandWins
  <2>2. CASE CancelledEnds(k)
    BY <2>2 DEF CancelledEnds, LightInv, NewestCommandWins
  <2> QED BY <2>1, <2>2 DEF Runs
<1> QED BY <1>1, <1>3, <1>4, <1>5, <1>6 DEF LightInv

LEMMA LightStep == ASSUME OwnChannels PROVE LightInv /\ [Next]_vars => LightInv'
<1> SUFFICES ASSUME LightInv, [Next]_vars PROVE LightInv'
  OBVIOUS
<1>1. ASSUME NEW l \in Lights, NEW indexes \in (SUBSET ChannelsOf[l]) \ {{}},
             CommandAtOnce(l, indexes) PROVE LightInv'
  BY <1>1, AtOnceKeepsLights
<1>2. ASSUME NEW l \in Lights, NEW indexes \in (SUBSET ChannelsOf[l]) \ {{}},
             NEW frames \in 0..MaxFrames, CommandWithTransition(l, indexes, frames)
      PROVE  LightInv'
  BY <1>2, TransitionKeepsLights
<1>3. ASSUME NEW k \in Ids, Runs(k) PROVE LightInv'
  BY <1>3, RunKeepsLights
<1>4. CASE UNCHANGED vars
  <2>1. EngineInv'
    BY <1>4, EngineStep DEF LightInv
  <2> QED BY <1>4, <2>1 DEF vars, engine, LightInv, OwnersAreLights, RunningIsCurrent,
                           RunningIsNewest, NewestCommandWins
<1> QED BY <1>1, <1>2, <1>3, <1>4 DEF Next, Commands

-----------------------------------------------------------------------------
LEMMA EngineInvariance == Spec => []EngineInv
<1>1. Init => EngineInv
  BY InitInv DEF LightInv
<1> QED BY <1>1, EngineStep, PTL DEF Spec

LEMMA LightInvariance == ASSUME OwnChannels PROVE Spec => []LightInv
<1>1. LightInv /\ [Next]_vars => LightInv'
  BY LightStep
<1> QED BY <1>1, InitInv, PTL DEF Spec

(* The engine's tables hold animations, channels and lights.                 *)
THEOREM TypeCorrect == Spec => []TypeOK
<1>1. EngineInv => TypeOK
  BY DEF EngineInv
<1> QED BY <1>1, EngineInvariance, PTL

(* No channel is left to an animation that has been cleaned up, whether the  *)
(* lights share channels or not: whatever removes an animation from          *)
(* active_animations releases its channels.                                  *)
THEOREM OwnersStayActive == Spec => []OwnersAreActive
<1>1. EngineInv => OwnersAreActive
  BY DEF EngineInv
<1> QED BY <1>1, EngineInvariance, PTL

(* Where the lights' channels are their own, cancel_animation reaches every  *)
(* animation that still runs for the light.                                  *)
THEOREM RunningStaysCurrent == ASSUME OwnChannels PROVE Spec => []RunningIsCurrent
<1>1. LightInv => RunningIsCurrent
  BY DEF LightInv
<1> QED BY <1>1, LightInvariance, PTL

(* Where the lights' channels are their own, no frame of an older command    *)
(* comes after a newer command's.                                            *)
THEOREM NewestCommandStays == ASSUME OwnChannels PROVE Spec => []NewestCommandWins
<1>1. LightInv => NewestCommandWins
  BY DEF LightInv
<1> QED BY <1>1, LightInvariance, PTL
=============================================================================
