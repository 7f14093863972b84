------------------------------- MODULE MCAttach -------------------------------
(* Attach for TLC: one process has a content of its own, the others share one. *)
EXTENDS Attach

Shared == CHOOSE c \in Contents : TRUE
Alone  == CHOOSE p \in Procs : TRUE

SendTwo == [p \in Procs |-> IF p = Alone THEN CHOOSE c \in Contents : c # Shared ELSE Shared]

\* Nothing is explored after two calls ran on one content at once: the properties
\* exempt that, StoredIsRight for this content.
Apart == overlap = {}
=============================================================================
