------------------------------- MODULE MCDuty --------------------------------
(* Model-checking instance of Duty. *)
EXTENDS Duty

MCJumps == {-4, 5}
=============================================================================
