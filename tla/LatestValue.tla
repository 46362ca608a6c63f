---------------------------- MODULE LatestValue ----------------------------
(***************************************************************************)
(* What a buffered stream of updates promises its reader: for each key the *)
(* reader sees the value submitted last, except for the keys with a value  *)
(* still pending, and those are published together, in one step, and       *)
(* eventually.  The reader may overwrite keys on its own account; a value  *)
(* that is pending then still replaces what it wrote.                      *)
(***************************************************************************)
CONSTANTS Keys, Data

VARIABLES
    latest,   \* the value each key has or will have
    shown,    \* the values the reader sees
    pending   \* the keys with a value not yet published

latestVars == <<latest, shown, pending>>

LatestInit ==
    /\ latest \in [Keys -> Data]
    /\ shown = latest
    /\ pending = {}

(* Values are submitted for some keys, to be published at once or later. *)
Submit(keys) ==
    /\ latest' \in [Keys -> Data]
    /\ \A k \in Keys \ keys : latest'[k] = latest[k]
    /\ \/ pending' = pending \cup keys /\ shown' = shown
       \/ pending' = {} /\ shown' = latest'

Publish ==
    /\ pending # {}
    /\ pending' = {}
    /\ shown' = latest
    /\ UNCHANGED latest

Overwrite(keys) ==
    /\ shown' \in [Keys -> Data]
    /\ \A k \in Keys \ keys : shown'[k] = shown[k]
    /\ latest' = [k \in Keys |-> IF k \in pending THEN latest[k] ELSE shown'[k]]
    /\ UNCHANGED pending

LatestNext ==
    \/ \E keys \in SUBSET Keys : Submit(keys) \/ Overwrite(keys)
    \/ Publish

LatestSpec == LatestInit /\ [][LatestNext]_latestVars /\ WF_latestVars(Publish)
=============================================================================
