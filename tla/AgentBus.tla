------------------------------- MODULE AgentBus -------------------------------
(***************************************************************************)
(* One agent's mailbox in agent_bus.py: the shared table of messages, the  *)
(* agent's cursor row (last_seen_id, delivered_id), the read marks, the    *)
(* replay store of product mode, and what the audit rows say.              *)
(*                                                                         *)
(* The consumers of the mailbox are processes of the same machine (Procs): *)
(* sessions that receive, a server round that peeks and then marks its     *)
(* rows delivered, an operator that replays.  SQLite serialises write      *)
(* transactions.  A call that reads BEFORE its transaction starts (ack,    *)
(* mark_delivered, replay, the audit of a peek) is split here at that      *)
(* point; a call that takes the write lock first is one action.            *)
(*                                                                         *)
(* The hash chain of the audit rows is the subject of AuditChain.  Here an *)
(* audit row is the fact it records.                                       *)
(***************************************************************************)
EXTENDS Integers, Sequences, FiniteSets

CONSTANTS
    Procs,       \* the processes that consume this mailbox
    MaxMsgs,     \* bound: rows ever inserted in the messages table
    PageLimit,   \* the LIMIT of recv (_RECV_LIMIT, or MAX_REPLIES in a round)
    PendLimit,   \* the LIMIT of the query in pending_blocking_ids
    Product,     \* TRUE: bus_enforce.mode is "product"
    Strict,      \* TRUE: _strict_ack
    Verdicts,    \* the verdicts a new row may have, a subset of AllVerdicts
    Ops          \* the calls in use: a subset of AllOps

AllVerdicts == {"ok", "sds", "future", "forged", "stale"}
AllOps == {"resend", "other", "age", "recv", "peek", "mark", "ack", "ackstored", "replay",
          "crash", "lossy"}

ASSUME BusAssumption ==
    /\ MaxMsgs \in Nat /\ PageLimit \in Nat \ {0} /\ PendLimit \in Nat \ {0}
    /\ Product \in BOOLEAN /\ Strict \in BOOLEAN
    /\ Verdicts \subseteq AllVerdicts
    /\ Ops \subseteq AllOps

Ids  == 1 .. MaxMsgs
Ids0 == 0 .. MaxMsgs        \* 0: no row
Me    == "me"
Other == "other"            \* every other recipient

\* root: the first row with the same signed bytes; a row that repeats them
\* (the same presigned message stored again, a signed replay copy) has the
\* same root and so the same verdict.  orig: in_reply_to of a replay.
Row == [to : {Me, Other}, kind : {"msg", "replay"}, root : Ids,
        orig : Ids0, verdict : AllVerdicts]

\* Where a process is inside a call that is not one transaction.
Local == [pc   : {"idle", "peeked", "returned", "filtered", "pending", "ack",
                  "replay", "sent"},
          ids  : SUBSET Ids, out : SUBSET Ids, pend : SUBSET Ids,
          base : Ids0, tgt : Ids0]

Idle == [pc |-> "idle", ids |-> {}, out |-> {}, pend |-> {}, base |-> 0, tgt |-> 0]

VARIABLES
    msgs,       \* the messages table, by id: one sequence for all recipients
    readAt,     \* ids whose read_at is set
    cursor,     \* cursors.last_seen_id
    delivered,  \* cursors.delivered_id
    seen,       \* enforce_seen: the roots consumed in product mode
    named,      \* ids with an enforce_reject audit row
    open,       \* those with no remote_delivered row after it
    copied,     \* <<original, copy>> of each "replay" audit row
    skipped,    \* ids counted in skipped_undelivered of an "ack" audit row
    local,      \* Procs -> Local
    (* what the consumers got: read by the properties only *)
    handed,     \* ids returned by recv(mark), or received in a round's response
    times       \* root -> times recv(mark) returned it, saturating at 2

busVars == <<msgs, readAt, cursor, delivered, seen, named, open, copied, skipped>>
vars == <<msgs, readAt, cursor, delivered, seen, named, open, copied, skipped,
          local, handed, times>>

-----------------------------------------------------------------------------
(* Reading the tables *)

Mine == {i \in DOMAIN msgs : msgs[i].to = Me}

Verdict(i) == msgs[msgs[i].root].verdict

\* bus_enforce.check without a seen-store: accepted, or why not.  An "sds" row
\* passes it; the envelope gate rejects that row only after the transaction.
Accepted(i) == Verdict(i) \in {"ok", "sds"}

\* DbSeenStore: the signed content of the row has been delivered before.
Consumed(i) == msgs[i].root \in seen

IsTop(h, S) == h \in S \cup {0} /\ \A j \in S : j <= h

\* Mutant: one past the larger of the two.
Bigger_PlusOne(a, b) == IF a >= b THEN a ELSE b + 1

Bigger(a, b) == IF a >= b THEN a ELSE b

\* The first n of the ids of S.
First(n, S) == {i \in S : Cardinality({j \in S : j <= i}) <= n}

Page == First(PageLimit, {i \in Mine : i > cursor})

\* Mutant: the seen-store is not asked.
Kept_Unseen == {i \in Page : Accepted(i)}

\* Rows of the page recv(mark) hands over in product mode: the check passes
\* and the content is not in the seen-store, which the rows before it on the
\* page have entered already.
Kept == {i \in Page : /\ Accepted(i)
                      /\ ~Consumed(i)
                      /\ \A j \in Page : j < i => msgs[j].root # msgs[i].root}

\* Mutant: the cursor goes to the last accepted row of the page.
EndsPage_Accepted(top) == IsTop(top, Kept)

\* recv(mark) moves the cursor to the last row of the page, rejected or not.
EndsPage(top) == IsTop(top, Page)

\* A peek only checks, so two equal rows of one page both pass ...
PeekKept == {i \in Page : Accepted(i) /\ ~Consumed(i)}

\* ... and names each rejected row of the page once.
PeekRejected == (Page \ PeekKept) \ named

Replays == {i \in Mine : msgs[i].kind = "replay"}

\* pending_blocking_ids: "forged" is a fresh row of a key that may still be
\* registered (FORGED_GRACE_S); later it is as permanent as "stale".
Pending ==
    {i \in First(PendLimit, {j \in Mine \ Replays : j > cursor}) :
        Product => Verdict(i) \in {"ok", "sds", "future", "forged"}}

PermanentRejects(S) == {i \in S \cap Mine : Product /\ Verdict(i) = "stale"}

Replayed == {msgs[i].orig : i \in {j \in DOMAIN msgs : msgs[j].kind = "replay"}}

\* Mutants: without the rejected rows; from delivered_id itself.
Listed_SkippedOnly ==
    {i \in Mine \ Replays : i \notin Replayed /\ delivered < i /\ i <= cursor}
Listed_FromDelivered ==
    {i \in Mine \ Replays : /\ i \notin Replayed
                            /\ (delivered <= i /\ i <= cursor) \/ i \in open}

\* reconcile: skipped by the cursor without delivery, or rejected and open.
Listed ==
    {i \in Mine \ Replays : /\ i \notin Replayed
                            /\ (delivered < i /\ i <= cursor) \/ i \in open}

Already == UNION {{c[1], c[2]} : c \in copied}

\* Mutant: enforcement is not asked.
Candidates_Unfiltered == Listed \ Already

\* replay: what an operator's replay would send again.
Candidates ==
    {i \in Listed \ Already : Product => Accepted(i) \/ Verdict(i) = "future"}

-----------------------------------------------------------------------------
Init ==
    /\ msgs = <<>>
    /\ readAt = {} /\ cursor = 0 /\ delivered = 0
    /\ seen = {} /\ named = {} /\ open = {} /\ copied = {} /\ skipped = {}
    /\ local = [p \in Procs |-> Idle]
    /\ handed = {}
    /\ times = [i \in Ids |-> 0]

Goto(p, l) == local' = [local EXCEPT ![p] = l]

NewId == Len(msgs) + 1
Insert(row) == Len(msgs) < MaxMsgs /\ msgs' = Append(msgs, row)

(* send *)
Send(v) ==
    /\ Insert([to |-> Me, kind |-> "msg", root |-> NewId, orig |-> 0, verdict |-> v])
    /\ UNCHANGED <<readAt, cursor, delivered, seen, named, open, copied, skipped,
                   local, handed, times>>

\* The AUTOINCREMENT id is shared: mail for another agent uses up an id.
SendOther ==
    /\ "other" \in Ops
    /\ Insert([to |-> Other, kind |-> "msg", root |-> NewId, orig |-> 0, verdict |-> "ok"])
    /\ UNCHANGED <<readAt, cursor, delivered, seen, named, open, copied, skipped,
                   local, handed, times>>

\* The sender stores the same presigned message once more (its first answer
\* was lost): the signed bytes and their ts are the same.
Resend(i) ==
    /\ "resend" \in Ops /\ Product
    /\ i \in Mine /\ msgs[i].root = i
    /\ Insert([msgs[i] EXCEPT !.kind = "msg"])
    /\ UNCHANGED <<readAt, cursor, delivered, seen, named, open, copied, skipped,
                   local, handed, times>>

(* Time and the key registry change what bus_enforce.check says of a row. *)
Reclassify(i, from, to) ==
    /\ "age" \in Ops /\ Product
    /\ i \in Mine /\ msgs[i].root = i /\ msgs[i].verdict \in from
    /\ msgs' = [msgs EXCEPT ![i].verdict = to]
    /\ UNCHANGED <<readAt, cursor, delivered, seen, named, open, copied, skipped,
                   local, handed, times>>

Matures(i)       == Reclassify(i, {"future"}, "ok")
KeyRegistered(i) == Reclassify(i, {"forged"}, "ok")
GoesStale(i)     == Reclassify(i, {"ok", "sds", "forged"}, "stale")

(* recv(mark=True): one BEGIN IMMEDIATE transaction. *)
Count(S) == times' = [r \in Ids |-> IF r \in S /\ times[r] < 2 THEN times[r] + 1 ELSE times[r]]

RecvDev(p) ==
    /\ "recv" \in Ops /\ ~Product
    /\ local[p] = Idle
    /\ Page # {}
    /\ \E top \in Page :
          /\ EndsPage(top)
          /\ cursor' = top
          /\ delivered' = Bigger(delivered, top)
          /\ readAt' = readAt \cup {i \in Mine : i <= top}
    /\ handed' = handed \cup Page
    /\ Count({msgs[i].root : i \in Page})
    /\ UNCHANGED <<msgs, seen, named, open, copied, skipped, local>>

\* The rejected rows are named in the audit, their read_at stays NULL; the
\* envelope gate (_sds_annotate, strict) drops its rows after the commit.
RecvProduct(p) ==
    /\ "recv" \in Ops /\ Product
    /\ local[p] = Idle
    /\ Page # {}
    /\ \E top \in Page, acc \in Kept \cup {0} :
          /\ EndsPage(top) /\ IsTop(acc, Kept)
          /\ cursor' = top
          /\ delivered' = Bigger(delivered, acc)
    /\ readAt' = readAt \cup Kept
    /\ seen' = seen \cup {msgs[i].root : i \in Kept}
    /\ named' = named \cup (Page \ Kept)
    /\ open' = open \cup (Page \ Kept)
    /\ LET out == {i \in Kept : Verdict(i) # "sds"} IN
          /\ handed' = handed \cup out
          /\ Count({msgs[i].root : i \in out})
    /\ UNCHANGED <<msgs, copied, skipped, local>>

(* recv(mark=False): the rows returned, then the audit of the rejected. *)
PeekRead(p) ==
    /\ "peek" \in Ops
    /\ local[p] = Idle
    /\ Page # {}
    /\ LET out == IF Product THEN {i \in PeekKept : Verdict(i) # "sds"} ELSE Page
           rej == IF Product THEN PeekRejected ELSE {}
       IN Goto(p, [Idle EXCEPT !.pc = IF rej = {} THEN "returned" ELSE "peeked",
                               !.ids = out, !.out = out, !.pend = rej])
    /\ UNCHANGED <<busVars, handed, times>>

\* The "is there a row already" query and this insert are not one transaction.
PeekAudit(p) ==
    /\ local[p].pc = "peeked"
    /\ named' = named \cup local[p].pend
    /\ open' = open \cup local[p].pend
    /\ Goto(p, [local[p] EXCEPT !.pc = "returned", !.pend = {}])
    /\ UNCHANGED <<msgs, readAt, cursor, delivered, seen, copied, skipped, handed, times>>

(* mark_delivered of the ids the peek returned: a server round does it when  *)
(* its response is complete.  A lost response is asked for again.            *)
Respond(p) ==
    \/ handed' = handed \cup local[p].out
    \/ "lossy" \in Ops /\ UNCHANGED handed

\* The ids that have become permanently undeliverable are refused.
MarkFilter(p) ==
    /\ "mark" \in Ops
    /\ local[p].pc = "returned"
    /\ LET left == local[p].ids \ PermanentRejects(local[p].ids) IN
          \/ /\ left = {}
             /\ Respond(p)
             /\ Goto(p, Idle)
          \/ /\ left # {}
             /\ Goto(p, [local[p] EXCEPT !.pc = "filtered", !.ids = left])
             /\ UNCHANGED handed
    /\ UNCHANGED <<busVars, times>>

\* The query of the blocking rows runs before the transaction.
MarkPend(p) ==
    /\ local[p].pc = "filtered"
    /\ Goto(p, [local[p] EXCEPT !.pc = "pending", !.pend = Pending])
    /\ UNCHANGED <<busVars, handed, times>>

\* Mutant: the level stays where recv(mark) put it.
IsLevel_Frozen(h, left) == h = delivered

\* The level below the first row that is still awaited, or the newest row.
IsLevel(h, left) ==
    IF left # {} THEN h + 1 \in left /\ \A j \in left : h < j ELSE IsTop(h, Mine)

\* Mutant: one audit row for the whole range of the marked ids.
Closed_Range(ids) == {i \in Ids : \E a, b \in ids : a <= i /\ i <= b}

\* The rejections that remote_delivered rows of these ids close.
Closed(ids) == ids

MarkWrite(p) ==
    /\ local[p].pc = "pending"
    /\ LET ids == local[p].ids IN
          /\ readAt' = readAt \cup ids
          /\ \E h \in Ids0 :
                /\ IsLevel(h, local[p].pend \ readAt')
                /\ delivered' = h
          /\ open' = open \ Closed(ids)
    /\ Respond(p)
    /\ Goto(p, Idle)
    /\ UNCHANGED <<msgs, cursor, seen, named, copied, skipped, times>>

(* ack(upto), of any id ("ack"), or of an id the remote client has stored     *)
(* ("ackstored"): _ack_target and the skip count are read before the first write. *)
Smaller(a, b) == IF a <= b THEN a ELSE b

\* Mutant: the strict cap is lost.
AckTarget_NoCap(upto, cap) == Bigger(cursor, upto)

\* Forward only, and at most the cap: delivered_id, or the newest row.
AckTarget(upto, cap) == Bigger(cursor, Smaller(upto, cap))

AckRead(p, upto) ==
    /\ \/ "ack" \in Ops
       \/ "ackstored" \in Ops /\ upto \in handed
    /\ local[p] = Idle
    /\ \E hi \in Ids0 :
          /\ IsTop(hi, Mine)
          /\ LET tgt == AckTarget(upto, IF Strict THEN delivered ELSE hi)
             IN Goto(p, [Idle EXCEPT !.pc = "ack", !.base = cursor, !.tgt = tgt,
                           !.ids = {i \in Mine \ readAt : cursor < i /\ i <= tgt}])
    /\ UNCHANGED <<busVars, handed, times>>

AckWrite(p) ==
    /\ local[p].pc = "ack"
    /\ cursor' = local[p].tgt
    /\ readAt' = readAt \cup {i \in Mine : i <= local[p].tgt}
    /\ skipped' = skipped \cup local[p].ids
    /\ Goto(p, Idle)
    /\ UNCHANGED <<msgs, delivered, seen, named, open, copied, handed, times>>

(* replay(commit=True) *)
ReplayRead(p) ==
    /\ "replay" \in Ops
    /\ local[p] = Idle
    /\ Candidates # {}
    /\ Goto(p, [Idle EXCEPT !.pc = "replay", !.ids = Candidates])
    /\ UNCHANGED <<busVars, handed, times>>

Rest(p, i) ==
    IF local[p].ids = {i} THEN Idle
    ELSE [Idle EXCEPT !.pc = "replay", !.ids = local[p].ids \ {i}]

IsNextCandidate(p, i) == i \in local[p].ids /\ \A j \in local[p].ids : i <= j

\* Mutant: nobody looks for the row of a first replay.
CopyLogged_Never(i) == FALSE

CopyLogged(i) == \E c \in copied : c[1] = i

\* Product mode: the check, the signed copy and its audit row in one
\* write-locked transaction.
ReplaySigned(p, i) ==
    /\ Product /\ local[p].pc = "replay" /\ IsNextCandidate(p, i)
    /\ \/ /\ CopyLogged(i)
          /\ UNCHANGED <<msgs, copied>>
       \/ /\ ~CopyLogged(i)
          /\ Insert(msgs[i])
          /\ copied' = copied \cup {<<i, NewId>>}
    /\ Goto(p, Rest(p, i))
    /\ UNCHANGED <<readAt, cursor, delivered, seen, named, open, skipped, handed, times>>

\* Dev mode: a message from "system" is sent first ...
ReplaySend(p, i) ==
    /\ ~Product /\ local[p].pc = "replay" /\ IsNextCandidate(p, i)
    /\ Insert([to |-> Me, kind |-> "replay", root |-> NewId, orig |-> i, verdict |-> "ok"])
    /\ Goto(p, [local[p] EXCEPT !.pc = "sent", !.base = i, !.tgt = NewId])
    /\ UNCHANGED <<readAt, cursor, delivered, seen, named, open, copied, skipped,
                   handed, times>>

\* ... and its audit row after it: ux_replay_once makes a second one fail,
\* and the error ends the call.
ReplayLog(p) ==
    /\ local[p].pc = "sent"
    /\ LET i == local[p].base IN
          \/ /\ CopyLogged(i)
             /\ Goto(p, Idle)
             /\ UNCHANGED copied
          \/ /\ ~CopyLogged(i)
             /\ copied' = copied \cup {<<i, local[p].tgt>>}
             /\ Goto(p, Rest(p, i))
    /\ UNCHANGED <<msgs, readAt, cursor, delivered, seen, named, open, skipped,
                   handed, times>>

(* A caller that only wanted to look ends with the returned rows; a killed *)
(* process leaves whatever its finished transactions wrote.                *)
Stop(p) ==
    /\ \/ local[p].pc = "returned"
       \/ ("crash" \in Ops /\ local[p] # Idle)
    /\ Goto(p, Idle)
    /\ UNCHANGED <<busVars, handed, times>>

-----------------------------------------------------------------------------
Environment ==
    \/ \E v \in Verdicts : Send(v)
    \/ SendOther
    \/ \E i \in DOMAIN msgs : Resend(i) \/ Matures(i) \/ KeyRegistered(i) \/ GoesStale(i)

\* The further steps of a call that has started.
Continue(p) ==
    \/ PeekAudit(p)
    \/ MarkFilter(p) \/ MarkPend(p) \/ MarkWrite(p)
    \/ AckWrite(p)
    \/ \E i \in Ids : ReplaySigned(p, i) \/ ReplaySend(p, i)
    \/ ReplayLog(p)
    \/ Stop(p)

Call(p) ==
    \/ RecvDev(p) \/ RecvProduct(p)
    \/ PeekRead(p)
    \/ \E upto \in Ids : AckRead(p, upto)
    \/ ReplayRead(p)
    \/ Continue(p)

Next == Environment \/ \E p \in Procs : Call(p)

Spec == Init /\ [][Next]_vars

(* What a reader may be relied on to do: the fairness of the liveness properties. *)

\* An agent keeps calling recv(mark=True), whatever else it does; a call that
\* has started is finished.
KeepsReading ==
    \A p \in Procs : /\ SF_vars(RecvDev(p) \/ RecvProduct(p))
                     /\ WF_vars(Continue(p))

\* A remote agent keeps asking for rounds: each acknowledges what the client
\* has stored and peeks, and marks what it returns; not every response is lost.
KeepsAsking ==
    \A p \in Procs :
        /\ SF_vars(\E upto \in Ids : AckRead(p, upto) /\ local'[p].tgt > cursor)
        /\ SF_vars(PeekRead(p)) /\ SF_vars(MarkFilter(p))
        /\ SF_vars(MarkWrite(p) /\ handed' # handed)
        /\ WF_vars(Continue(p))

-----------------------------------------------------------------------------
(* Properties *)

\* The tables and the calls in progress have the values the code gives them.
TypeOK ==
    /\ msgs \in Seq(Row) /\ Len(msgs) <= MaxMsgs
    /\ readAt \subseteq Ids /\ cursor \in Ids0 /\ delivered \in Ids0
    /\ seen \subseteq Ids /\ named \subseteq Ids /\ open \subseteq named
    /\ copied \subseteq Ids0 \X Ids0
    /\ skipped \subseteq Ids
    /\ local \in [Procs -> Local]
    /\ handed \subseteq Ids
    /\ times \in [Ids -> 0 .. 2]

\* recv: "two concurrent recvs do not double-deliver" - and in product mode
\* the seen-store also holds back the same signed content under a new id.
AtMostOnce == \A r \in Ids : times[r] <= 1

\* ack: "ONLY FORWARD" (agent_bus.py:1159).  Violated by two processes: the target is
\* computed before the transaction that writes it.
CursorForward == [][cursor' >= cursor]_vars

Taken(i) == i \in handed \/ times[msgs[i].root] > 0

\* No-deletion and reconcile: a message the cursor has passed was handed to
\* the consumer, or reconcile lists it, or its replay copy was handed over or
\* is still ahead of the cursor.
NothingLost ==
    \A i \in Mine \ Replays : i <= cursor =>
        \/ Taken(i)
        \/ i \in Listed
        \/ \E j \in Replays : msgs[j].orig = i /\ (j > cursor \/ j \in handed)

\* reconcile lists only messages that were "NEVER delivered".
NoFalseAccusation == \A i \in Listed : i \notin handed

\* A passed message that enforcement accepts today and nobody got can still
\* reach its reader: it will be replayed, or a copy of it is ahead.
NotStranded ==
    \A i \in Mine \ Replays : (i <= cursor /\ Verdict(i) = "ok" /\ ~Taken(i)) =>
        \/ i \in Candidates
        \/ \E j \in Mine : j > cursor /\ (msgs[j].root = msgs[i].root \/ msgs[j].orig = i)

\* init: "AT MOST ONE replay per original" in the audit rows, one of which is
\* written with each signed copy; and replay never copies a copy ("flood").
ReplayLoggedOnce == \A c, d \in copied : c[2] # d[1] /\ (c[1] = d[1] => c = d)

\* The strict clamp of ack: with no recv(mark) in use the cursor stays within
\* what was marked delivered, however often delivered_id is recomputed.
WithinDelivered == cursor <= delivered

Awaits(i) == i \in Mine /\ i > cursor /\ Verdict(i) = "ok" /\ ~Taken(i)

Settled(i) == i \in Mine /\ (Taken(i) \/ Verdict(i) = "stale")

OkDelivered == \A i \in Ids : Awaits(i) ~> Settled(i)

\* recv: a message ahead of the cursor that enforcement accepts is handed over
\* to an agent that keeps reading, unless it goes stale first, whatever is
\* rejected before it.
RecvDelivers == KeepsReading => OkDelivered

NoneRejected == \A i \in DOMAIN msgs : msgs[i].verdict = "ok" /\ msgs[i].root = i

\* bus_ssh_exchange.run: when nothing is rejected, a remote agent that keeps
\* asking for rounds gets every message, though responses get lost; the water
\* level of mark_delivered and the strict ack do not block each other.
RoundsDeliver == KeepsAsking /\ []NoneRejected => OkDelivered

=============================================================================
