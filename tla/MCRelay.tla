------------------------------- MODULE MCRelay -------------------------------
(* Relay for TLC. *)
EXTENDS Relay, TLC

CONSTANTS a1, a2, e1, e2, e3, r1, r2

MCTo == e1 :> a1 @@ e2 :> a1 @@ e3 :> a2
MCBy == r1 :> a1 @@ r2 :> a1
Symmetry == Permutations(Threads) \cup Permutations({e1, e2}) \cup Permutations(Reqs)
=============================================================================
