---------------------------- MODULE RateLimiter ----------------------------
(***************************************************************************)
(* The rate limiter in front of the entities' updates                      *)
(* (util/rate_limiter.py): an update is made at once when the last one is  *)
(* old enough or a forced one is due, and otherwise by a task that sleeps  *)
(* for the rest of the interval.                                           *)
(*                                                                         *)
(* Times are ticks since an event, up to the largest value the code        *)
(* compares them with.  update_method is what the including module does    *)
(* in a step that sets `updated`; it neither suspends nor raises, so the   *)
(* lock is always free and the rescheduling after a failed update, which   *)
(* only a shutdown reaches, is left out.                                   *)
(***************************************************************************)
EXTENDS Integers, FiniteSets

CONSTANTS
    UpdateInterval,    \* update_interval, in ticks
    ForceUpdateAfter   \* force_update_after, in ticks

ASSUME RateAssumption == /\ UpdateInterval \in Nat \ {0}
                         /\ ForceUpdateAfter \in Nat
                         /\ UpdateInterval <= ForceUpdateAfter

VARIABLES
    sinceUpdate,       \* time since _last_update_time
    sinceForced,       \* time since _last_forced_time
    updateScheduled,   \* _update_scheduled
    pendingUpdate,     \* _pending_update
    sleeping           \* what is left to sleep for each _delayed_update task

limiterVars == <<sinceUpdate, sinceForced, updateScheduled, pendingUpdate, sleeping>>

(* The limiter as created: both times lie in a past long gone. *)
LimiterInit ==
    /\ sinceUpdate = UpdateInterval
    /\ sinceForced = ForceUpdateAfter
    /\ updateScheduled = FALSE
    /\ pendingUpdate = FALSE
    /\ sleeping = {}

ForceUpdate == sinceForced >= ForceUpdateAfter

(* schedule_update makes the update itself. *)
UpdatesNow == sinceUpdate >= UpdateInterval \/ ForceUpdate

DoUpdate == sinceUpdate' = 0 /\ pendingUpdate' = FALSE

RemainingTime == UpdateInterval - sinceUpdate

(* schedule_update within the interval: one task sleeps for the rest of it. *)
DeferUpdate ==
    /\ ~UpdatesNow
    /\ pendingUpdate' = TRUE
    /\ IF updateScheduled
       THEN UNCHANGED <<updateScheduled, sleeping>>
       ELSE /\ updateScheduled' = TRUE
            /\ sleeping' = sleeping \cup {RemainingTime}
    /\ UNCHANGED <<sinceUpdate, sinceForced>>

(* schedule_update outside the interval, or when a forced update is due. *)
UpdateAtOnce ==
    /\ UpdatesNow
    /\ DoUpdate
    /\ sinceForced' = IF ForceUpdate THEN 0 ELSE sinceForced
    /\ UNCHANGED <<updateScheduled, sleeping>>

(* Mutant: the flag stays set when the task ends. *)
EndKeepsFlag == sleeping' = sleeping \ {0} /\ updateScheduled' = updateScheduled

(* The end of _delayed_update. *)
EndTask == sleeping' = sleeping \ {0} /\ updateScheduled' = FALSE

(* _delayed_update wakes with a change to show ... *)
WakeAndUpdate ==
    /\ 0 \in sleeping
    /\ pendingUpdate
    /\ DoUpdate
    /\ EndTask
    /\ UNCHANGED sinceForced

(* ... or after a forced update has shown it already. *)
WakeIdle ==
    /\ 0 \in sleeping
    /\ ~pendingUpdate
    /\ EndTask
    /\ UNCHANGED <<sinceUpdate, sinceForced, pendingUpdate>>

Advance(t, bound) == IF t < bound THEN t + 1 ELSE t

Elapse(t) == IF t = 0 THEN 0 ELSE t - 1

(* A tick; a task that is due may be late. *)
LimiterTick ==
    /\ \/ sinceUpdate < UpdateInterval
       \/ sinceForced < ForceUpdateAfter
       \/ sleeping \ {0} # {}
    /\ sinceUpdate' = Advance(sinceUpdate, UpdateInterval)
    /\ sinceForced' = Advance(sinceForced, ForceUpdateAfter)
    /\ sleeping' = {Elapse(t) : t \in sleeping}
    /\ UNCHANGED <<updateScheduled, pendingUpdate>>

-----------------------------------------------------------------------------
LimiterTypeOK ==
    /\ sinceUpdate \in 0..UpdateInterval
    /\ sinceForced \in 0..ForceUpdateAfter
    /\ updateScheduled \in BOOLEAN
    /\ pendingUpdate \in BOOLEAN
    /\ sleeping \subseteq 0..UpdateInterval

(* The flag stands for exactly one sleeping task: while it is up a task will *)
(* lower it, and no second one is ever started (schedule_update and the      *)
(* finally block of _delayed_update).                                        *)
OneTaskPerFlag ==
    IF updateScheduled THEN \E t \in sleeping : sleeping = {t} ELSE sleeping = {}

(* A change that was deferred is always shown by a task that sleeps no longer *)
(* than until the end of the interval, forced updates in between included.    *)
DeferredInTime ==
    pendingUpdate => \E t \in sleeping : t <= UpdateInterval - sinceUpdate
=============================================================================
