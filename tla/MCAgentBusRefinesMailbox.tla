----------------------- MODULE MCAgentBusRefinesMailbox -----------------------
(* Model-checking instance of the refinement. *)
EXTENDS AgentBusRefinesMailbox, TLC

Symmetry == Permutations(Procs)
=============================================================================
