------------------------------- MODULE Exchange -------------------------------
(***************************************************************************)
(* One remote identity and its rounds: the client (bus_ssh_client.exchange)*)
(* on its own machine, the endpoint (bus_ssh_exchange.exchange) that its   *)
(* ssh call starts on the bus machine, the mailbox the endpoint serves     *)
(* (agent_bus: ack, mark_delivered, cursor_audit), the notary log it       *)
(* writes and the receipts the client writes.                              *)
(*                                                                         *)
(* Every entry of the log is an action of its own, in the order of the     *)
(* code: before the effect it announces, with a correcting entry after it  *)
(* when the effect fails.  A log error ends the round with an error        *)
(* response.  An endpoint may be killed at any point, and may still run    *)
(* when its client has given up and starts the next round.                 *)
(*                                                                         *)
(* All the mail here is deliverable; enforcement, replay and the other     *)
(* readers of a mailbox are in AgentBus.  One client runs at a time.       *)
(***************************************************************************)
EXTENDS Evidence

CONSTANTS
    MaxRounds,   \* bound: ssh calls
    MaxRows,     \* bound: rows of mail for the identity
    MaxSends,    \* bound: rounds that carry a message
    Refusable,   \* the ids of replies the client's own bus refuses (ValueError)
    MaxReplies,  \* MAX_REPLIES
    MaxFaults,   \* bound: kills, failing calls, failing log writes, lost answers
    Strict       \* TRUE: _strict_ack

ASSUME ExchangeAssumption ==
    /\ MaxRounds \in Nat \ {0} /\ MaxRows \in Nat /\ MaxSends \in Nat
    /\ MaxReplies \in Nat \ {0} /\ MaxFaults \in Nat /\ Strict \in BOOLEAN
    /\ Refusable \subseteq 1 .. MaxRows

Ids  == 1 .. MaxRows
Ids0 == 0 .. MaxRows
Item == "m"              \* the message a client may send, and send again

EndPcs == {"off", "ack", "acking", "ackfailed", "item", "sending", "sendfailed",
           "peek", "measure", "round", "giving", "marking", "markfailed",
           "closing", "answer", "dead", "done"}

\* err: the round ended with an error response.
End == [pc : EndPcs, ids : SUBSET Ids, left : SUBSET Ids, pending : Ids0, next : Ids0,
        known : BOOLEAN, round : Nat, err : BOOLEAN]

Off == [pc |-> "off", ids |-> {}, left |-> {}, pending |-> 0, next |-> 0,
        known |-> TRUE, round |-> 0, err |-> FALSE]

VARIABLES
    rows,      \* the mail: ids 1 .. rows
    bus,       \* [cursor, level (delivered_id), read (ids with read_at)]
    audit,     \* cursor_audit rows of the identity
    log,       \* the notary's entries about the identity
    ends,      \* round -> where its endpoint is
    rs,        \* the receipts, one record per round (see Evidence)
    cl,        \* the client: [pc, top, left]
    savedMax,  \* stored_max in the state file
    stored,    \* id -> times a reply entered the local bus, saturating at 2
    faults,    \* how many faults happened
    odd        \* which disturbances happened: read by the properties only

vars == <<rows, bus, audit, log, ends, rs, cl, savedMax, stored, faults, odd>>

endVars    == <<bus, audit, log, ends>>
clientVars == <<rs, cl, savedMax, stored>>

Init ==
    /\ rows = 0 /\ bus = [cursor |-> 0, level |-> 0, read |-> {}]
    /\ audit = <<>> /\ log = <<>>
    /\ ends = [e \in 1 .. MaxRounds |-> Off]
    /\ rs = <<>>
    /\ cl = [pc |-> "idle", top |-> 0, left |-> {}]
    /\ savedMax = 0 /\ stored = [i \in Ids |-> 0]
    /\ faults = 0 /\ odd = {}

Fault == faults < MaxFaults /\ faults' = faults + 1
NoFault == UNCHANGED faults

Busy(e) == ends[e].pc \notin {"off", "answer", "dead", "done"}

Arrive ==
    /\ rows < MaxRows /\ rows' = rows + 1
    /\ UNCHANGED <<endVars, clientVars, faults, odd>>

-----------------------------------------------------------------------------
(* The endpoint *)

To(e, l) == ends' = [ends EXCEPT ![e] = l]
At(e, pc) == [ends[e] EXCEPT !.pc = pc]

\* The parts of a round that has nothing for them are skipped.
ToItems(request) == IF request.sent = {} THEN "peek" ELSE "item"
ToAck(request)   == IF request.ack = 0 THEN ToItems(request) ELSE "ack"

\* note(): the entry is in the log, or the round ends here, without replies.
Note(e, entry, l, how) ==
    \/ /\ log' = Append(log, entry)
       /\ To(e, l)
       /\ odd' = odd \cup how
       /\ NoFault
    \/ /\ Fault
       /\ odd' = odd \cup {"noteFailed"}
       /\ To(e, [At(e, "answer") EXCEPT !.err = TRUE, !.ids = {}])
       /\ UNCHANGED log

Target(upto) == Max({bus.cursor, Min({upto, IF Strict THEN bus.level ELSE rows})})

\* ack_preview and its entry: nothing is consumed without one.
AckNote(e) ==
    /\ ends[e].pc = "ack"
    /\ LET tgt == Target(rs[e].ack) IN
       Note(e, AckEntry(bus.cursor, tgt, rs[e].ack), At(e, "acking"),
            IF tgt = bus.cursor THEN {"idleAck"} ELSE {})
    /\ UNCHANGED <<rows, bus, audit, clientVars>>

\* Mutant: every row of the step counts as skipped.
SkippedBy_All(from, to) == to - from

SkippedBy(from, to) == Cardinality({i \in Ids \ bus.read : from < i /\ i <= to})

\* ack: the target is computed again, and an ack that moves nothing has no row.
AckDo(e) ==
    /\ ends[e].pc = "acking"
    /\ \/ LET from == bus.cursor
              to   == Target(rs[e].ack)
          IN  /\ audit' = IF to = from THEN audit
                          ELSE Append(audit, [op |-> "ack", from |-> from, to |-> to,
                                              skipped |-> SkippedBy(from, to)])
              /\ bus' = [bus EXCEPT !.cursor = to, !.read = @ \cup 1 .. to]
              /\ To(e, At(e, ToItems(rs[e]))) /\ NoFault /\ UNCHANGED odd
       \/ /\ Fault /\ To(e, At(e, "ackfailed"))
          /\ odd' = odd \cup {"ackFailed"}
          /\ UNCHANGED <<audit, bus>>
    /\ UNCHANGED <<rows, log, clientVars>>

AckFailNote(e) ==
    /\ ends[e].pc = "ackfailed"
    /\ Note(e, AckFailed, At(e, ToItems(rs[e])), {})
    /\ UNCHANGED <<rows, bus, audit, clientVars>>

\* A message, an attachment or a fetch: refused with a reason, or accepted.
ItemNote(e) ==
    /\ ends[e].pc = "item"
    /\ \/ Note(e, ItemEntry("rejected", Item, "refused"), At(e, "peek"), {})
       \/ Note(e, ItemEntry("accepted", Item, ""), At(e, "sending"), {})
    /\ UNCHANGED <<rows, bus, audit, clientVars>>

\* Sent, stored or read - or not, and then a second entry says so.
ItemDo(e) ==
    /\ ends[e].pc = "sending"
    /\ \E pc \in {"peek", "sendfailed"} :
          To(e, At(e, pc)) /\ odd' = odd \cup ({pc} \ {"peek"})
    /\ UNCHANGED <<rows, bus, audit, log, clientVars, faults>>

ItemFailNote(e) ==
    /\ ends[e].pc = "sendfailed"
    /\ Note(e, ItemEntry("rejected", Item, "failed"), At(e, "peek"), {})
    /\ UNCHANGED <<rows, bus, audit, clientVars>>

Ahead == {i \in Ids : bus.cursor < i /\ i <= rows}

Page == {i \in Ahead : i <= bus.cursor + MaxReplies}

\* Two peeks: what goes out, and what is waiting.
Peek(e) ==
    /\ ends[e].pc = "peek"
    /\ To(e, [At(e, "measure") EXCEPT !.ids = Page, !.left = Page])
    /\ UNCHANGED <<rows, bus, audit, log, clientVars, faults, odd>>

Measure(e) ==
    /\ ends[e].pc = "measure"
    /\ LET rest == Ahead \ ends[e].ids IN
       \/ /\ To(e, [At(e, "round") EXCEPT !.pending = Cardinality(Ahead),
                        !.next = IF rest = {} THEN 0 ELSE Min(rest)])
          /\ NoFault
       \/ /\ Fault
          /\ To(e, [At(e, "round") EXCEPT !.pending = Cardinality(ends[e].ids),
                                          !.known = FALSE])
    /\ odd' = odd \cup IF Page = ends[e].ids THEN {} ELSE {"grew"}
    /\ UNCHANGED <<rows, bus, audit, log, clientVars>>

\* The round entry, when replies go out or the cursor is not where the log has it.
RoundNote(e) ==
    /\ ends[e].pc = "round"
    /\ LET l == ends[e] IN
       IF l.ids # {} \/ bus.cursor # LastRoundCursor(log)
       THEN Note(e, RoundEntry(bus.cursor, Cardinality(l.ids), l.pending, l.next, l.known,
                               Len(audit)),
                 [l EXCEPT !.pc = IF l.ids = {} THEN "closing" ELSE "giving",
                           !.round = Len(log) + 1], {})
       ELSE To(e, At(e, "answer")) /\ UNCHANGED <<log, odd>> /\ NoFault
    /\ UNCHANGED <<rows, bus, audit, clientVars>>

GivenNote(e) ==
    /\ ends[e].pc = "giving"
    /\ LET l == ends[e] IN
       Note(e, GivenEntry(Min(l.left)),
            [l EXCEPT !.left = @ \ {Min(@)},
                      !.pc = IF l.left = {Min(l.left)} THEN "marking" ELSE @], {})
    /\ UNCHANGED <<rows, bus, audit, clientVars>>

\* The newest row below the first one that still waits.
LevelOf(read) ==
    LET waits == Ahead \ read IN IF waits = {} THEN rows ELSE Min(waits) - 1

MarkDo(e) ==
    /\ ends[e].pc = "marking"
    /\ \/ LET ids == ends[e].ids IN
          /\ bus' = [bus EXCEPT !.read = @ \cup ids, !.level = LevelOf(bus.read \cup ids)]
          /\ audit' = audit \o [k \in 1 .. Cardinality(ids) |->
                 LET i == SetToSortSeq(ids, <)[k]
                 IN  [op |-> "remote_delivered", from |-> i, to |-> i, skipped |-> 0]]
          /\ To(e, At(e, "closing")) /\ NoFault /\ UNCHANGED odd
       \/ /\ Fault /\ To(e, At(e, "markfailed"))
          /\ odd' = odd \cup {"markFailed"}
          /\ UNCHANGED <<bus, audit>>
    /\ UNCHANGED <<rows, log, clientVars>>

MarkFailNote(e) ==
    /\ ends[e].pc = "markfailed"
    /\ Note(e, MarkFailed, At(e, "closing"), {})
    /\ UNCHANGED <<rows, bus, audit, clientVars>>

\* Mutant: the close repeats the anchor of the round entry.
CloseAnchor_AtOpen(e) == log[ends[e].round].anchor

\* How far an export of the audit rows must reach (Notary.record reads it).
CloseAnchor(e) == Len(audit)

\* The close cannot be fail-closed: the response says when it is missing.
CloseNote(e) ==
    /\ ends[e].pc = "closing"
    /\ \/ log' = Append(log, CloseEntry(ends[e].round, CloseAnchor(e))) /\ NoFault
       \/ Fault /\ UNCHANGED log
    /\ To(e, At(e, "answer"))
    /\ UNCHANGED <<rows, bus, audit, clientVars, odd>>

Kill(e) ==
    /\ Busy(e) /\ Fault
    /\ To(e, At(e, "dead"))
    /\ odd' = odd \cup IF ends[e].pc \in {"acking", "ackfailed"} THEN {"ackCut"} ELSE {}
    /\ UNCHANGED <<rows, bus, audit, log, clientVars>>

-----------------------------------------------------------------------------
(* The client *)

Round == Len(rs)

\* Mutant: what was received, not what was saved, is acknowledged.
AckValue_Received == Max({savedMax} \cup UNION {rs[r].received : r \in DOMAIN rs})

AckValue == savedMax

\* The request receipt, then ssh: it may not even start.
Request(items) ==
    /\ cl.pc = "idle" /\ Round < MaxRounds
    /\ items # {} => Cardinality({r \in DOMAIN rs : rs[r].sent # {}}) < MaxSends
    /\ LET req(outcome) == [sent |-> items, ack |-> AckValue, received |-> {},
                            outcome |-> outcome]
       IN  \/ /\ rs' = Append(rs, req("unknown"))
              /\ cl' = [pc |-> "sent", top |-> savedMax, left |-> {}]
              /\ To(Round + 1, [Off EXCEPT !.pc = ToAck(req(""))])
              /\ odd' = odd \cup IF \E e \in DOMAIN ends : Busy(e) THEN {"overlap"} ELSE {}
              /\ NoFault
           \/ /\ Fault
              /\ rs' = Append(rs, req("not-sent"))
              /\ UNCHANGED <<cl, ends, odd>>
    /\ UNCHANGED <<rows, bus, audit, log, savedMax, stored>>

\* An answer proves that the request arrived; only one without error has replies.
Receive ==
    /\ cl.pc = "sent" /\ ends[Round].pc = "answer"
    /\ LET l == ends[Round] IN
       /\ rs' = [rs EXCEPT ![Round].received = l.ids,
                           ![Round].outcome = IF l.err THEN "reached" ELSE "delivered"]
       /\ cl' = [cl EXCEPT !.pc = "storing", !.left = l.ids]
       /\ To(Round, At(Round, "done"))
    /\ UNCHANGED <<rows, bus, audit, log, savedMax, stored, faults, odd>>

\* Timeout, broken connection, empty output, or the client is killed: the
\* receipt stays without a proven outcome.
GiveUp ==
    /\ cl.pc = "sent"
    /\ \/ ends[Round].pc = "dead" /\ NoFault
       \/ ends[Round].pc # "dead" /\ Fault
    /\ cl' = [cl EXCEPT !.pc = "idle"]
    /\ UNCHANGED <<rows, endVars, rs, savedMax, stored, odd>>

\* Mutant: the row the client stopped at is stored again.
Fresh_Again(rid) == rid >= cl.top

Fresh(rid) == rid > cl.top

\* ab.send on the local bus: a reply it refuses is passed all the same.
StoreNext ==
    /\ cl.pc = "storing" /\ cl.left # {}
    /\ LET rid == Min(cl.left) IN
       /\ stored' = IF Fresh(rid) /\ rid \notin Refusable
                    THEN [stored EXCEPT ![rid] = Min({2, @ + 1})] ELSE stored
       /\ cl' = [cl EXCEPT !.left = @ \ {rid}, !.top = Max({@, rid})]
    /\ UNCHANGED <<rows, endVars, rs, savedMax, faults, odd>>

Save ==
    /\ cl.pc = "storing" /\ cl.left = {}
    /\ savedMax' = cl.top
    /\ cl' = [cl EXCEPT !.pc = "idle"]
    /\ UNCHANGED <<rows, endVars, rs, stored, faults, odd>>

\* Killed, or the local bus fails otherwise than by refusing the reply.
StoreCut ==
    /\ cl.pc = "storing" /\ Fault
    /\ cl' = [cl EXCEPT !.pc = "idle"]
    /\ odd' = odd \cup IF cl.top > savedMax THEN {"storeCut"} ELSE {}
    /\ UNCHANGED <<rows, endVars, rs, savedMax, stored>>

-----------------------------------------------------------------------------
Endpoint(e) ==
    \/ AckNote(e) \/ AckDo(e) \/ AckFailNote(e)
    \/ ItemNote(e) \/ ItemDo(e) \/ ItemFailNote(e)
    \/ Peek(e) \/ Measure(e) \/ RoundNote(e) \/ GivenNote(e)
    \/ MarkDo(e) \/ MarkFailNote(e) \/ CloseNote(e)
    \/ Kill(e)

Client ==
    \/ \E items \in SUBSET {Item} : Request(items)
    \/ Receive \/ GiveUp \/ StoreNext \/ Save \/ StoreCut

Next == Arrive \/ Client \/ \E e \in DOMAIN ends : Endpoint(e)

Spec == Init /\ [][Next]_vars

-----------------------------------------------------------------------------
(* Properties *)

\* "At-least-once delivery": whatever is lost or killed, the cursor never passes
\* a row the client has not stored, but for replies the client's own bus refused:
\* those are acknowledged without having been stored (see CursorAfterStorage).
AckedIsStored == \A i \in Ids : i <= bus.cursor => stored[i] > 0 \/ i \in Refusable

\* "the server's cursor steps only AFTER successful local storage"
\* (bus_ssh_client.py:15): false, for a refused reply advances stored_max too, and
\* the next round acknowledges it.
CursorAfterStorage == \A i \in Ids : i <= bus.cursor => stored[i] > 0

\* "the same reply never enters the local bus twice", unless the storing loop
\* was cut before stored_max was saved.
StoredOnce == (\E i \in Ids : stored[i] > 1) => "storeCut" \in odd

Quiet == cl.pc = "idle" /\ \A e \in DOMAIN ends : ~Busy(e)

\* Mail the client may still get: what it has stored it got before.
Awaited(d) == d[1] = "delivered_not_received" /\ d[2] > savedMax

\* A row that had room on the page came after it was read: the round says that
\* it is left behind, and a later round before the ack gives it out.
Latecomer(d) == d[1] = "cursor_skips_undelivered" /\ "grew" \in odd

\* reconcile accuses no honest bus: lost answers, kills, retries and corrected
\* failures leave no hard discrepancy, except about mail whose answer was lost
\* and that has not been fetched again, about a latecomer, when a log write
\* failed, an ack was cut off behind its entry or two rounds overlapped.
NotAccused ==
    Quiet /\ odd \cap {"noteFailed", "ackCut", "overlap"} = {}
        => \A d \in Hard(log, rs) : Awaited(d) \/ Latecomer(d)

\* The promise of the receipts: when every round was answered, a bus that
\* leaves one entry about mail or an ack out of its log does not pass a strict
\* reconcile, however well the rest is chained again.
OmissionEvident ==
    Quiet /\ faults = 0 =>
        \A i \in DOMAIN log :
            LET cut == RemoveAt(log, i) IN
            \/ Is(log[i], "pickup", "accepted") /\ log[i].replies = 0
            \/ log[i].kind = "close"
            \/ log[i].kind = "item" /\ "sendfailed" \in odd
            \/ Hard(cut, rs) \cup Soft(cut, rs) # {}

\* "the HONEST round is not accused" - said without the exception that an ack
\* sent again, which moves nothing and has no audit row, would need: this does
\* not hold (README, 5).
HonestRoundNotAccused ==
    Quiet /\ faults = 0 /\ "overlap" \notin odd => CrossHard(log, audit) = {}

Undisturbed == Quiet /\ faults = 0 /\ odd \cap {"idleAck", "overlap"} = {}

\* Compared with the bus's own audit rows, the log of undisturbed rounds is
\* not accused either: every step pairs, no row contradicts what a round said.
CrossNotAccused ==
    Undisturbed => CrossHard(log, audit) \cup CrossSoft(log, audit) = {}

\* The anchors: an audit export that ends too early, by any number of rows,
\* is flagged, the rows of the last round included.
ShortExportEvident ==
    Undisturbed => \A n \in 0 .. Len(audit) - 1 :
        CrossHard(log, SubSeq(audit, 1, n)) \cup CrossSoft(log, SubSeq(audit, 1, n)) # {}

=============================================================================
