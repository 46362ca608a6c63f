------------------------- MODULE MCAnimationEngine -------------------------
EXTENDS AnimationEngine, TLC

CONSTANTS l1, l2

MCLights == {l1, l2}

(* The fixtures of two lights side by side, and overlapping in a channel. *)
Disjoint == l1 :> {1, 2} @@ l2 :> {3}
Overlapping == l1 :> {1, 2} @@ l2 :> {2, 3}
=============================================================================
