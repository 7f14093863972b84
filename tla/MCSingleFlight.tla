---------------------------- MODULE MCSingleFlight ----------------------------
(* Model-checking instance of SingleFlight. *)
EXTENDS SingleFlight
=============================================================================
