-------------------------------- MODULE Budget -------------------------------
(***************************************************************************)
(* What a bounded pool promises: at most Capacity units are out at a time, *)
(* and one is refused only when none is left.                              *)
(***************************************************************************)
EXTENDS Naturals

CONSTANT Capacity

VARIABLES used, refused

Init == used = 0 /\ refused = 0

Take == used < Capacity /\ used' = used + 1 /\ UNCHANGED refused

Refuse == used = Capacity /\ refused' = refused + 1 /\ UNCHANGED used

Release == used > 0 /\ used' = used - 1 /\ UNCHANGED refused

Spec == Init /\ [][Take \/ Refuse \/ Release]_<<used, refused>>
==============================================================================
