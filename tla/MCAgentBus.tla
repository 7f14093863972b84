------------------------------ MODULE MCAgentBus ------------------------------
(* Model-checking instances of AgentBus. *)
EXTENDS AgentBus, TLC

\* No action and no property tells one process of the mailbox from another.
Symmetry == Permutations(Procs)
=============================================================================
