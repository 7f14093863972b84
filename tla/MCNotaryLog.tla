---------------------------- MODULE MCNotaryLog ------------------------------
(* Model-checking instance of NotaryLog. *)
EXTENDS NotaryLog, TLC

Symmetry == Permutations(Writers)
=============================================================================
