-------------------------------- MODULE Mailbox --------------------------------
(***************************************************************************)
(* What the bus promises about one agent's mail, without cursors, audit    *)
(* rows or transactions: a signed content is offered, waits, and is handed *)
(* to its reader once; content the reader's enforcement turned down, or    *)
(* the cursor went past, is set aside where the operator can see it and    *)
(* can be put in the way of the reader again.  It is never lost, and what  *)
(* was handed over stays handed over.                                      *)
(***************************************************************************)
CONSTANT Contents

VARIABLE standing       \* Contents -> "none", "waiting", "aside" or "handed"

Init == standing = [c \in Contents |-> "none"]

Put(S, there) == [c \in Contents |-> IF c \in S THEN there ELSE standing[c]]

Are(S, here) == \A c \in S : standing[c] = here

Offer(c) ==
    /\ standing[c] = "none"
    /\ standing' = Put({c}, "waiting")

\* One reading of the mailbox hands over some and sets others aside.
Read(S, T) ==
    /\ Are(S \cup T, "waiting") /\ S \cap T = {}
    /\ standing' = [c \in Contents |-> IF c \in S THEN "handed"
                                       ELSE IF c \in T THEN "aside" ELSE standing[c]]

\* Content set aside comes back: a replay copy, the same message sent again.
Return(S) ==
    /\ Are(S, "aside")
    /\ standing' = Put(S, "waiting")

Next ==
    \/ \E c \in Contents : Offer(c)
    \/ \E S, T \in SUBSET Contents : Read(S, T)
    \/ \E S \in SUBSET Contents : Return(S)

Spec == Init /\ [][Next]_standing
===============================================================================
