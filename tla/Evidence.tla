------------------------------- MODULE Evidence -------------------------------
(***************************************************************************)
(* bus_notary.py: what one party can read out of a notary log.             *)
(*                                                                         *)
(* reconcile compares an export of the log with the receipts of the remote *)
(* party, _audit_cross compares it with the bus's own audit rows.  Both    *)
(* return discrepancies: hard ones, and soft ones that count in strict     *)
(* mode only.  Here a discrepancy is <<its type, what it is about>>.       *)
(*                                                                         *)
(* The log is a sequence of the entries of one identity, their position    *)
(* being their seq; an envelope's hash is the item or the reply's id.      *)
(* What depends on the chain of hashes is in NotaryLog and AuditChain.     *)
(***************************************************************************)
EXTENDS Integers, Sequences, FiniteSets, FiniteSetsExt, SequencesExt

AckEntry(from, to, upto) ==
    [kind |-> "ack", dec |-> "accepted", from |-> from, to |-> to, ack |-> upto]
AckFailed == [kind |-> "ack", dec |-> "rejected"]

\* why: "" when accepted, otherwise what reconcile does or does not count.
ItemEntry(dec, item, why) == [kind |-> "item", dec |-> dec, item |-> item, why |-> why]

\* pending is replies, and next 0, when what is pending could not be measured.
RoundEntry(at, replies, pending, next, known, anchor) ==
    [kind |-> "pickup", dec |-> "accepted", at |-> at, replies |-> replies,
     pending |-> pending, next |-> next, known |-> known, anchor |-> anchor]
GivenEntry(id) == [kind |-> "pickup", dec |-> "delivered", id |-> id]
MarkFailed     == [kind |-> "pickup", dec |-> "rejected"]

CloseEntry(round, anchor) ==
    [kind |-> "close", dec |-> "accepted", round |-> round, anchor |-> anchor]

Is(e, kind, dec) == e.kind = kind /\ e.dec = dec

Matching(log, Test(_)) == {i \in DOMAIN log : Test(log[i])}

Acks(log)   == Matching(log, LAMBDA e : Is(e, "ack", "accepted"))
Rounds(log) == Matching(log, LAMBDA e : Is(e, "pickup", "accepted"))
Closes(log) == Matching(log, LAMBDA e : e.kind = "close")

\* The cursor of the last logged round, 0 if there is none.
LastRoundCursor(log) ==
    IF Rounds(log) = {} THEN 0 ELSE log[Max(Rounds(log))].at

-----------------------------------------------------------------------------
(* The receipts: round -> [sent, ack, received, outcome], where sent is a   *)
(* set of items, received a set of reply ids.  What is unknown may have     *)
(* arrived; only a client that could not start ssh knows that nothing did.  *)

\* Mutant: an answered round proves nothing.
Proven_Reached == {"reached"}

Proven == {"delivered", "reached"}
Presumed == {"unknown", "not-sent"}

Receipts(rs, outcomes) == {r \in DOMAIN rs : rs[r].outcome \in outcomes}

Logged(log, item) ==
    Cardinality(Matching(log, LAMBDA e : /\ e.kind = "item" /\ e.item = item
                                         /\ e.why # "failed"))

Sent(rs, outcomes, item) == Cardinality({r \in Receipts(rs, outcomes) : item \in rs[r].sent})

Given(log, id) == Cardinality(Matching(log, LAMBDA e : Is(e, "pickup", "delivered") /\ e.id = id))
Got(rs, id)    == Cardinality({r \in DOMAIN rs : id \in rs[r].received})

AcksLogged(log, a)         == Cardinality({i \in Acks(log) : log[i].ack = a})
AcksSent(rs, outcomes, a)  == Cardinality({r \in Receipts(rs, outcomes) : rs[r].ack = a})

ItemsIn(rs)       == UNION {rs[r].sent : r \in DOMAIN rs}
RepliesIn(log, rs) == {log[i].id : i \in Matching(log, LAMBDA e : Is(e, "pickup", "delivered"))}
                       \cup UNION {rs[r].received : r \in DOMAIN rs}
AckValues(log, rs) == {log[i].ack : i \in Acks(log)} \cup ({rs[r].ack : r \in DOMAIN rs} \ {0})

\* Mutant: no delivery is ever a retry.
AnyPresumed_Never(rs) == FALSE

AnyPresumed(rs) == \E r \in DOMAIN rs : rs[r].outcome \in Presumed

\* A presumed round may have been what a surplus entry is for.
HardBags(log, rs) ==
    {<<"sent_not_logged", m>> :
        m \in {x \in ItemsIn(rs) : Logged(log, x) < Sent(rs, Proven, x)}}
    \cup {<<"received_not_logged", i>> :
        i \in {x \in RepliesIn(log, rs) : Given(log, x) < Got(rs, x)}}
    \cup {<<"delivered_not_received", i>> :
        i \in {x \in RepliesIn(log, rs) : /\ Got(rs, x) < Given(log, x)
                                    /\ ~(AnyPresumed(rs) /\ Got(rs, x) > 0)}}
    \cup {<<"ack_sent_not_logged", a>> :
        a \in {x \in AckValues(log, rs) : AcksLogged(log, x) < AcksSent(rs, Proven, x)}}
    \cup {<<"ack_logged_not_sent", a>> :
        a \in {x \in AckValues(log, rs) :
                  AcksLogged(log, x) > AcksSent(rs, Proven \cup {"unknown"}, x)}}

Spare(log, rs, m) == Logged(log, m) - Sent(rs, Proven, m)

SoftBags(log, rs) ==
    {<<"sent_outcome_unknown", m>> :
        m \in {x \in ItemsIn(rs) : Sent(rs, {"unknown"}, x) > Max({0, Spare(log, rs, x)})}}
    \cup {<<"delivery_outcome_unknown", i>> :
        i \in {x \in RepliesIn(log, rs) : Got(rs, x) \in 1 .. Given(log, x) - 1 /\ AnyPresumed(rs)}}
    \cup {<<"ack_outcome_unknown", a>> :
        a \in {x \in AckValues(log, rs) :
                  AcksLogged(log, x) - AcksSent(rs, Proven, x) < AcksSent(rs, {"unknown"}, x)}}
    \cup {<<"ack_cover_unknown", a>> :
        a \in {x \in AckValues(log, rs) :
                  AcksSent(rs, Proven, x) < AcksLogged(log, x)
                  /\ AcksLogged(log, x) <= AcksSent(rs, Proven \cup {"unknown"}, x)}}

-----------------------------------------------------------------------------
(* The walk over the log that follows the cursor, said by position: what    *)
(* its variables hold at an entry is read off the entries before it.        *)

Givens(log)   == Matching(log, LAMBDA e : Is(e, "pickup", "delivered"))
Refusals(log) == Matching(log, LAMBDA e : Is(e, "ack", "rejected"))

\* The last element of S before i, if there is one.
LastBefore(S, i) == {j \in S : j < i /\ \A k \in S : k < i => k <= j}

\* The next round, or an ack, accepted or not, closes the open round; the
\* replies it gave out stand before that.
Closing(log) == Rounds(log) \cup Acks(log) \cup Refusals(log)

OpenAt(log, i) == LastBefore(Closing(log), i) \cap Rounds(log)

GivenIn(log, r) == {g \in Givens(log) : r \in OpenAt(log, g)}

\* A refused ack takes back the accepted one before it, and once only.
Undone(log, f) == LastBefore(Acks(log) \cup Refusals(log), f) \cap Acks(log)

CursorAfter(log, j) ==
    IF Is(log[j], "pickup", "accepted") THEN log[j].at
    ELSE IF Is(log[j], "ack", "accepted") THEN log[j].to
    ELSE log[Max(Undone(log, j))].from

Moves(log) == Rounds(log) \cup Acks(log) \cup {f \in Refusals(log) : Undone(log, f) # {}}

\* Where the entries before i leave the cursor.
Expected(log, start, i) ==
    LET last == LastBefore(Moves(log), i)
    IN  IF last = {} THEN start ELSE CursorAfter(log, Max(last))

\* The rounds since the ack before i: they do not replace each other.
Window(log, i) ==
    LET since == {0} \cup {j \in Acks(log) : j < i}
    IN  {r \in Rounds(log) : Max(since) < r /\ r < i}

\* How far an ack may go after rounds that did not give out everything: the
\* strictest bound stays.
Limit(log, i) ==
    LET window == Window(log, i)
        next   == {log[r].next : r \in window} \ {0}
        top    == {log[g].id : g \in UNION {GivenIn(log, r) : r \in window}}
    IN  IF next # {} THEN Min(next) - 1 ELSE IF top # {} THEN Max(top) ELSE log[i].from

\* The sum of a function into the naturals: how many places lie under it.
Total(f) == Cardinality(UNION {{<<r, k>> : k \in 1 .. f[r]} : r \in DOMAIN f})

Truncated(log, i) ==
    Total([r \in Window(log, i) |-> log[r].pending])
        > Total([r \in Window(log, i) |-> log[r].replies])

CursorHard(log, start) ==
    {<<"cursor_target_exceeds_ack", i>> :
        i \in {a \in Acks(log) : log[a].to > Max({log[a].from, log[a].ack})}}
    \cup {<<"cursor_moved_without_logged_ack", i>> :
        i \in {a \in Acks(log) : log[a].from # Expected(log, start, a)}
              \cup {r \in Rounds(log) : log[r].at # Expected(log, start, r)}}
    \cup {<<"cursor_skips_undelivered", i>> :
        i \in {a \in Acks(log) : Truncated(log, a) /\ log[a].to > Limit(log, a)}}
    \cup {<<"round_next_id_contradicts_pending", i>> :
        i \in {r \in Rounds(log) : log[r].pending > log[r].replies /\ log[r].next = 0}}

CursorSoft(log, presumed) ==
    {<<IF presumed THEN "round_replies_outcome_unknown" ELSE "round_replies_mismatch", i>> :
        i \in {r \in Rounds(log) : Cardinality(GivenIn(log, r)) # log[r].replies}}
    \cup {<<"delivered_without_round", i>> : i \in {g \in Givens(log) : OpenAt(log, g) = {}}}
    \cup {<<"cursor_moved_without_round", i>> :
        i \in {a \in Acks(log) : Window(log, a) = {} /\ log[a].to > log[a].from}}
    \cup {<<"round_pending_unknown", i>> :
        i \in {a \in Acks(log) : /\ log[a].to > log[a].from
                                  /\ \E r \in Window(log, a) : ~log[r].known}}

Hard(log, rs) == HardBags(log, rs) \cup CursorHard(log, 0)
Soft(log, rs) == SoftBags(log, rs) \cup CursorSoft(log, AnyPresumed(rs))

-----------------------------------------------------------------------------
(* _audit_cross: the log against the audit rows of the bus, which are       *)
(* [op, from, to, skipped] in the order of their seq (the first one is 0).  *)

AuditAcks(audit) == Matching(audit, LAMBDA r : r.op = "ack")

Step(x) == <<x.from, x.to>>

\* The row paired with the logged ack i: each row at most once, in log order,
\* by the step; {} if there is none.
Nth(S, n) == {x \in S : Cardinality({y \in S : y < x}) = n}

PairByStep(log, audit, i) ==
    LET before == {j \in Acks(log) : j < i /\ Step(log[j]) = Step(log[i])}
        rows   == {k \in AuditAcks(audit) : Step(audit[k]) = Step(log[i])}
    IN  Nth(rows, Cardinality(before))

FreeAcks(log, audit) == {i \in Acks(log) : PairByStep(log, audit, i) = {}}
FreeRows(log, audit) ==
    AuditAcks(audit) \ UNION {PairByStep(log, audit, i) : i \in Acks(log)}

\* What did not pair pairs in order: this one only says whom a skip is about.
AckOf(log, audit, k) ==
    IF k \in FreeRows(log, audit)
    THEN Nth(FreeAcks(log, audit), Cardinality({j \in FreeRows(log, audit) : j < k}))
    ELSE {i \in Acks(log) : k \in PairByStep(log, audit, i)}

\* Does a round say that nothing below the ack's target is left undelivered?
ClaimsNoSkip(e, to) ==
    \/ e.known /\ e.pending = e.replies
    \/ e.next = 0
    \/ to > 0 /\ e.next > to

Later(log, i) == {r \in Rounds(log) : r > i}

\* The round that answers for the logged ack i: the last one since the ack
\* before that claims it skipped nothing, or else the last, or the next.
Governing(log, i) ==
    LET claim == {r \in Window(log, i) : ClaimsNoSkip(log[r], log[i].to)}
    IN  IF claim # {} THEN {Max(claim)}
        ELSE IF Window(log, i) # {} THEN {Max(Window(log, i))}
        ELSE IF Later(log, i) # {} THEN {Min(Later(log, i))} ELSE {}

\* Pairs: the audit row reports a skip, and the logged ack is paired with it.
SkipAcks(log, audit) ==
    {q \in AuditAcks(audit) \X Acks(log) :
        audit[q[1]].skipped > 0 /\ q[2] \in AckOf(log, audit, q[1])}

Contradicts(log, i) ==
    \E r \in Governing(log, i) : ClaimsNoSkip(log[r], log[i].to)

\* Entries where a round should be, and none of them a round.
Dodges(log, i) ==
    /\ Governing(log, i) = {}
    /\ \E e \in DOMAIN log : /\ e < i /\ e \notin Acks(log)
                            /\ \A j \in Acks(log) : j < i => j < e

HardSkips(log, audit) ==
    LET acks(Test(_)) == {p[2] : p \in {q \in SkipAcks(log, audit) : Test(q[2])}} IN
    {<<"audit_skipped_contradicts_log", i>> : i \in acks(LAMBDA x : Contradicts(log, x))}
    \cup {<<"round_entry_after_its_ack", i>> :
             i \in acks(LAMBDA x : Window(log, x) = {} /\ Later(log, x) # {})}
    \cup {<<"round_shape_dodges_attribution", i>> : i \in acks(LAMBDA x : Dodges(log, x))}

\* The first close behind the round that names it, before the next round.
CloseOf(log, r) ==
    LET mine == {c \in Closes(log) : /\ c > r /\ log[c].round = r
                                     /\ \A q \in Rounds(log) : q > r => c < q}
    IN  IF mine = {} THEN {} ELSE {Min(mine)}

\* Rounds whose anchor, or whose close's anchor, the export does not reach.
HardOpens(log, audit) ==
    {<<"audit_head_not_covered", r>> :
        r \in {x \in Rounds(log) : log[x].anchor > Len(audit)}}

HardCloses(log, audit) ==
    {<<"audit_close_before_open", r>> :
        r \in {x \in Rounds(log) : \E c \in CloseOf(log, x) : log[c].anchor < log[x].anchor}}
    \cup {<<"audit_close_not_covered", r>> :
        r \in {x \in Rounds(log) : \E c \in CloseOf(log, x) : log[c].anchor > Len(audit)}}

\* More logged acks than audit rows for acks, or fewer.
HardCounts(log, audit) ==
    LET d == Cardinality(Acks(log)) - Cardinality(AuditAcks(audit)) IN
    IF d = 0 THEN {} ELSE {<<IF d > 0 THEN "audit_row_missing" ELSE "audit_row_unlogged", d>>}

CrossHard(log, audit) ==
    IF audit = <<>>
    THEN IF Rounds(log) = {} THEN {} ELSE {<<"audit_evidence_absent", 0>>}
    ELSE {<<"audit_cursor_mismatch", i>> : i \in FreeAcks(log, audit)}
         \cup HardSkips(log, audit) \cup HardCounts(log, audit) 
              \cup HardOpens(log, audit) \cup HardCloses(log, audit)

\* Skips that nobody in the log answers for.
Unattributable(log, audit) ==
    {k \in AuditAcks(audit) : /\ audit[k].skipped > 0
                              /\ \A i \in AckOf(log, audit, k) :
                                    Governing(log, i) = {} /\ ~Dodges(log, i)}

Unclosed(log) == {r \in Rounds(log) : CloseOf(log, r) = {}}

CrossSoft(log, audit) ==
    IF audit = <<>> THEN {}
    ELSE {<<"audit_skip_unattributable", k>> : k \in Unattributable(log, audit)}
         \cup {<<"audit_close_missing", r>> : r \in Unclosed(log)}

=============================================================================
