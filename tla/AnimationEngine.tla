-------------------------- MODULE AnimationEngine --------------------------
(***************************************************************************)
(* Light commands and the animations they start on one universe            *)
(* (animation/engine.py and entity/light/light_controller.py): a command   *)
(* writes its channels at once or starts an animation that writes them     *)
(* frame by frame, after the light's previous animation was cancelled and  *)
(* those that own one of the channels were cleaned up.                     *)
(*                                                                         *)
(* An animation's task starts eagerly with its first frame and suspends    *)
(* between frames; a cancelled one ends when the event loop next runs it.  *)
(* Commands are numbered, and an animation has the number of its command.  *)
(* What a frame writes is abstracted to the number of the command it is    *)
(* for, and the time left to the number of frames left.                    *)
(***************************************************************************)
EXTENDS Integers, FiniteSets

CONSTANTS
    Lights,       \* the light entities of the universe
    Channels,     \* its DMX channels
    ChannelsOf,   \* the channels of each light
    MaxCommands,  \* bound on the number of commands
    MaxFrames     \* bound on the frames of an animation after its first

ASSUME LightsAssumption == ChannelsOf \in [Lights -> SUBSET Channels]
ASSUME BoundsAssumption == MaxCommands \in Nat /\ MaxFrames \in Nat

Ids == 1..MaxCommands
None == 0

VARIABLES
    commands,     \* the number of commands so far
    light,        \* the light of each animation
    controlled,   \* controlled_indexes of each animation
    task,         \* its task: unborn, running, cancelled or done
    framesLeft,   \* its frames until get_progress() is 1
    active,       \* active_animations
    owner,        \* dmx_channel_owners; None where there is no entry
    current,      \* _current_animation_id of each light's controller
    writer,       \* history: the command that last wrote each channel
    commanded     \* history: the last command for each channel

engine == <<light, controlled, task, framesLeft, active, owner>>
vars == <<commands, engine, current, writer, commanded>>

Init ==
    /\ commands = 0
    /\ light \in [Ids -> Lights] /\ \A i, j \in Ids : light[i] = light[j]
    /\ controlled = [k \in Ids |-> {}]
    /\ task = [k \in Ids |-> "unborn"]
    /\ framesLeft = [k \in Ids |-> 0]
    /\ active = {}
    /\ owner = [c \in Channels |-> None]
    /\ current = [l \in Lights |-> None]
    /\ writer = [c \in Channels |-> None]
    /\ commanded = [c \in Channels |-> None]

-----------------------------------------------------------------------------
Writes(table, indexes, k) == [c \in Channels |-> IF c \in indexes THEN k ELSE table[c]]

(* Mutant: the animations go, their channels stay owned. *)
NothingReleased(gone, owners) == owners

(* The channels _cleanup_animation releases for the animations in `gone`. *)
Released(gone, owners) ==
    [c \in Channels |-> IF owners[c] \in gone THEN None ELSE owners[c]]

(* Mutant: the light forgets its animation without cancelling it. *)
OnlyForgotten(l) == task

(* cancel_animation for the animation the light knows as its own. *)
TaskCancelled(l) ==
    [k \in Ids |-> IF k = current[l] /\ k \in active /\ task[k] = "running"
                   THEN "cancelled" ELSE task[k]]

(* _cancel_conflicting_animations *)
Conflicting(indexes) == {owner[c] : c \in indexes} \cap active

Claimed(owners, indexes, k) == Writes(owners, indexes, k)

(* A command without a transition: _apply_updates writes the channels. *)
CommandAtOnce(l, indexes) ==
    /\ commands < MaxCommands
    /\ commands' = commands + 1
    /\ task' = TaskCancelled(l)
    /\ current' = [current EXCEPT ![l] = None]
    /\ writer' = Writes(writer, indexes, commands')
    /\ commanded' = Writes(commanded, indexes, commands')
    /\ UNCHANGED <<light, controlled, framesLeft, active, owner>>

(* A command with a transition: create_animation, up to the task's first    *)
(* sleep.  If the first frame is the last one already, the task is over     *)
(* before create_animation registers it and the controller notes its id.    *)
CommandWithTransition(l, indexes, frames) ==
    /\ commands < MaxCommands
    /\ commands' = commands + 1
    /\ LET k == commands'
           gone == Conflicting(indexes)
       IN  /\ light' = [light EXCEPT ![k] = l]
           /\ controlled' = [controlled EXCEPT ![k] = indexes]
           /\ framesLeft' = [framesLeft EXCEPT ![k] = frames]
           /\ task' = [TaskCancelled(l) EXCEPT
                          ![k] = IF frames = 0 THEN "done" ELSE "running"]
           /\ active' = (active \ gone) \cup {k}
           /\ owner' = Claimed(Released(gone, owner), indexes, k)
           /\ current' = [current EXCEPT ![l] = k]
           /\ writer' = Writes(writer, indexes, k)
           /\ commanded' = Writes(commanded, indexes, k)

(* Mutant: progress is not advanced. *)
SameFrame(k) == framesLeft

FrameDone(k) == [framesLeft EXCEPT ![k] = @ - 1]

(* _cleanup_animation when the task ends. *)
Cleanup(k) ==
    /\ task' = [task EXCEPT ![k] = "done"]
    /\ active' = active \ {k}
    /\ owner' = IF k \in active THEN Released({k}, owner) ELSE owner

(* _run_animation wakes for a frame that is not the last ... *)
Frame(k) ==
    /\ task[k] = "running"
    /\ framesLeft[k] > 1
    /\ framesLeft' = FrameDone(k)
    /\ writer' = Writes(writer, controlled[k], k)
    /\ UNCHANGED <<commands, light, controlled, task, active, owner, current, commanded>>

(* ... or for the last one, and calls _on_animation_complete. *)
LastFrame(k) ==
    /\ task[k] = "running"
    /\ framesLeft[k] = 1
    /\ framesLeft' = FrameDone(k)
    /\ writer' = Writes(writer, controlled[k], k)
    /\ current' = [current EXCEPT ![light[k]] = None]
    /\ Cleanup(k)
    /\ UNCHANGED <<commands, light, controlled, commanded>>

(* The cancelled task runs its finally block. *)
CancelledEnds(k) ==
    /\ task[k] = "cancelled"
    /\ Cleanup(k)
    /\ UNCHANGED <<commands, light, controlled, framesLeft, current, writer, commanded>>

Runs(k) == Frame(k) \/ LastFrame(k) \/ CancelledEnds(k)

Commands(l) ==
    \E indexes \in (SUBSET ChannelsOf[l]) \ {{}} :
        \/ CommandAtOnce(l, indexes)
        \/ \E frames \in 0..MaxFrames : CommandWithTransition(l, indexes, frames)

Next == (\E l \in Lights : Commands(l)) \/ (\E k \in Ids : Runs(k))

Spec == Init /\ [][Next]_vars

(* The event loop runs every task whose sleep is over. *)
FairSpec == Spec /\ \A k \in Ids : WF_vars(Runs(k))

-----------------------------------------------------------------------------
TypeOK ==
    /\ commands \in 0..MaxCommands
    /\ light \in [Ids -> Lights]
    /\ controlled \in [Ids -> SUBSET Channels]
    /\ task \in [Ids -> {"unborn", "running", "cancelled", "done"}]
    /\ framesLeft \in [Ids -> 0..MaxFrames]
    /\ active \subseteq Ids
    /\ owner \in [Channels -> Ids \cup {None}]
    /\ current \in [Lights -> Ids \cup {None}]
    /\ writer \in [Channels -> Ids \cup {None}]
    /\ commanded \in [Channels -> Ids \cup {None}]

(* A running animation is the one its light would cancel: so a light never   *)
(* has two of them, and none escapes the next command.                       *)
RunningIsCurrent ==
    \A k \in Ids : task[k] = "running" => current[light[k]] = k /\ k \in active

(* No frame of an older command is written over a newer command's value.     *)
NewestCommandWins == writer = commanded

(* Every owner is an animation the engine still knows of, so no channel is   *)
(* left to one that has ended and been cleaned up.                           *)
OwnersAreActive == \A c \in Channels : owner[c] \in active \cup {None}

(* Every animation ends, and lets go of its channels unless it ended before  *)
(* it was registered.                                                        *)
AnimationsEnd == \A k \in Ids : task[k] = "running" ~> (task[k] = "done" /\ k \notin active)

(* "Cancel any animations that control the same DMX channels"                *)
(* (animation/engine.py:33): no two animations go on writing one channel.    *)
ConflictsAreCancelled ==
    \A j, k \in Ids : (j # k /\ task[j] = "running" /\ task[k] = "running")
                      => controlled[j] \cap controlled[k] = {}
=============================================================================
