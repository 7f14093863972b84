------------------------ MODULE AgentBusRefinesMailbox ------------------------
(***************************************************************************)
(* The product mailbox of agent_bus.py, seen as the abstract Mailbox: the  *)
(* standing of a signed content follows from the rows that carry it.       *)
(***************************************************************************)
EXTENDS AgentBus

\* "twice" and "lost" are standings the abstract mailbox does not know.
Standing(c) ==
    IF c \notin Mine \/ msgs[c].root # c THEN "none"
    ELSE IF times[c] > 1 THEN "twice"
    ELSE IF times[c] > 0 THEN "handed"
    ELSE IF \E j \in Mine : j > cursor /\ msgs[j].root = c THEN "waiting"
    ELSE IF c \in Listed THEN "aside"
    ELSE "lost"

Abstract == INSTANCE Mailbox
    WITH Contents <- Ids, standing <- [c \in Ids |-> Standing(c)]

\* recv, ack and replay of several processes, the replay store and reconcile
\* together: each content moves as the abstract mailbox lets it.
ImplementsMailbox == Abstract!Spec
=============================================================================
