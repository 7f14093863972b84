------------------------------ MODULE AuditChain ------------------------------
(***************************************************************************)
(* The hash chain of one agent's cursor_audit rows in agent_bus.py: how a  *)
(* row is appended, and what audit_verify (in the database) and            *)
(* audit_chain_verify (on an export) say of the rows.                      *)
(*                                                                         *)
(* A hash is modelled by the tuple it is the hash of: two hashes are equal *)
(* when the hashed contents are.  A row's payload (ts, from, to, op,       *)
(* skipped) is one value; ts makes the payloads of all rows distinct.      *)
(***************************************************************************)
EXTENDS Integers, Sequences, FiniteSets, SequencesExt

CONSTANTS
    Writers,     \* processes that append audit rows of this agent
    MaxRows,     \* bound: rows ever appended
    MaxLegacy    \* bound: rows written before the chain columns existed

ASSUME ChainAssumption == MaxRows \in Nat /\ MaxLegacy \in Nat

Genesis == <<>>
NoHash  == <<"NULL">>   \* not a hash, nor GENESIS
NoSeq   == -1             \* seq is NULL in a row older than the chain

VARIABLES
    rows,     \* the agent's rows in id order
    clock,    \* the next payload
    held      \* Writers -> [busy, seq, prev]: the head a writer has read

vars == <<rows, clock, held>>

Free == [busy |-> FALSE, seq |-> NoSeq, prev |-> Genesis]

RowHash(seq, payload, prev) == <<seq, payload, prev>>

LegacyRow(k) == [seq |-> NoSeq, payload |-> -k, prev |-> NoHash, hash |-> NoHash]

ChainRow(seq, payload, prev) ==
    [seq |-> seq, payload |-> payload, prev |-> prev,
     hash |-> RowHash(seq, payload, prev)]

-----------------------------------------------------------------------------
(* _append_audit *)

\* The sequence number and the previous hash of the next row: a fresh start
\* when there is no chained row to go on from.
NextSeq == IF rows = <<>> \/ Last(rows).hash = NoHash THEN 0 ELSE Last(rows).seq + 1

\* Mutant: the NULL hash of an old row is chained onto.
NextPrev_AfterLegacy == IF rows = <<>> THEN Genesis ELSE Last(rows).hash

NextPrev == IF rows = <<>> \/ Last(rows).hash = NoHash THEN Genesis ELSE Last(rows).hash

Init ==
    /\ \E n \in 0 .. MaxLegacy : rows = [k \in 1 .. n |-> LegacyRow(k)]
    /\ clock = 1
    /\ held = [w \in Writers |-> Free]

\* recv(mark), the main transaction of mark_delivered and the signed replay
\* hold the write lock from before the head is read.
AppendLocked(w) ==
    /\ ~held[w].busy /\ clock <= MaxRows
    /\ rows' = Append(rows, ChainRow(NextSeq, clock, NextPrev))
    /\ clock' = clock + 1
    /\ UNCHANGED held

\* ack, the refusals of mark_delivered, the audit of a peek and of a dev-mode
\* replay read the head first; the transaction starts with the INSERT.
ReadHead(w) ==
    /\ ~held[w].busy /\ clock <= MaxRows
    /\ held' = [held EXCEPT ![w] = [busy |-> TRUE, seq |-> NextSeq, prev |-> NextPrev]]
    /\ UNCHANGED <<rows, clock>>

\* Mutant: the number is read again, the hash is not.
InsertRead_SeqAgain(w) ==
    /\ held[w].busy /\ clock <= MaxRows
    /\ rows' = Append(rows, ChainRow(NextSeq, clock, held[w].prev))
    /\ clock' = clock + 1
    /\ held' = [held EXCEPT ![w] = Free]

InsertRead(w) ==
    /\ held[w].busy /\ clock <= MaxRows
    /\ rows' = Append(rows, ChainRow(held[w].seq, clock, held[w].prev))
    /\ clock' = clock + 1
    /\ held' = [held EXCEPT ![w] = Free]

Next == \E w \in Writers : AppendLocked(w) \/ ReadHead(w) \/ InsertRead(w)

Spec == Init /\ [][Next]_vars

-----------------------------------------------------------------------------
(* The verifiers *)

\* SELECT ... ORDER BY id: the rows of s at the positions S, in their order.
Nth(S, k)    == CHOOSE i \in S : Cardinality({j \in S : j <= i}) = k
Select(s, S) == [k \in 1 .. Cardinality(S) |-> s[Nth(S, k)]]

IsChained(r) == r.hash # NoHash
Chained(s)   == Select(s, {i \in DOMAIN s : IsChained(s[i])})

HashHolds(r) == r.hash = RowHash(r.seq, r.payload, r.prev)

\* The hash of the chained row before the i-th, from GENESIS.
PrevHash(s, i) ==
    LET before == {j \in 1 .. i - 1 : IsChained(s[j])}
    IN IF before = {} THEN Genesis ELSE s[Max(before)].hash

\* audit_verify of the rows in the database: from GENESIS, over the chained
\* rows; seq is covered by the hash and not looked at otherwise.
AuditVerify(s) ==
    \A i \in DOMAIN s : IsChained(s[i]) => HashHolds(s[i]) /\ s[i].prev = PrevHash(s, i)

\* audit_export: seq >= from (never true of NULL), in id order.
Export(from) == Select(rows, {i \in DOMAIN rows : rows[i].seq # NoSeq /\ rows[i].seq >= from})

\* audit_chain_verify: the slice is intact ...
ChainOk(s) ==
    \A i \in DOMAIN s :
        /\ HashHolds(s[i])
        /\ i > 1 => s[i].prev = s[i - 1].hash /\ s[i].seq = s[i - 1].seq + 1

\* Mutant: a slice that starts anywhere counts as the whole chain.
Anchored_AnySlice(s) == s # <<>>

\* ... and it starts at GENESIS.
Anchored(s) == s # <<>> /\ Head(s).seq = 0 /\ Head(s).prev = Genesis

\* With start_row_hash known out of band instead.
AnchoredAt(s, start) == s # <<>> /\ Head(s).prev = start

ExportOk(s) == ChainOk(s) /\ Anchored(s)
ExportOkAt(s, start) == ChainOk(s) /\ AnchoredAt(s, start)

-----------------------------------------------------------------------------
(* Properties *)

\* What one careless hand can do to the rows s: take out a row with others
\* behind it, change one row's content, put a copy of a row somewhere else.
Taken(s)     == {RemoveAt(s, i) : i \in 1 .. Len(s) - 1}
Rewritten(s) == {[s EXCEPT ![i].payload = 0] : i \in DOMAIN s}
                    \cup {[s EXCEPT ![i].seq = @ + 1] : i \in DOMAIN s}
Repeated(s)  == {InsertAt(s, i, s[j]) : i \in 1 .. Len(s) + 1, j \in DOMAIN s}
Tampered(s)  == Taken(s) \cup Rewritten(s) \cup Repeated(s)

\* _append_audit: "atomic with the cursor move, no TOCTOU" - whatever the bus
\* itself appends, both verifiers accept: audit_verify the rows, and
\* audit_chain_verify the full export by itself and a slice of it with the hash
\* of the row before it.  True of calls one at a time only: two that have read
\* the same head put the chain in two branches.
HonestAccepted ==
    LET all == Export(0) IN
    /\ AuditVerify(rows)
    /\ all # <<>> => ExportOk(all)
    /\ \A from \in 1 .. Len(all) - 1 : ExportOkAt(Export(from), all[from].hash)

\* Two rows of the chain have one number: their calls went on from one head, or
\* from heads of two branches.
Branched == \E i, j \in DOMAIN rows : i # j /\ rows[i].seq # NoSeq /\ rows[i].seq = rows[j].seq

\* What overlapping calls make of the chain: as long as each number is given
\* once, the rows are accepted although heads were read before they were locked,
\* as are all slices; the first number given twice breaks the chain of the table
\* for good, so two calls that race are seen and never pass for one.
BranchOrAccepted == IF Branched THEN ~AuditVerify(rows) ELSE HonestAccepted

\* audit_verify: "deleting/rewriting any row gives a chain break/hash mismatch";
\* and the "ok" of an export means what it means in the database: of a table
\* audit_verify accepts, a tampered copy or export, or an export that leaves out
\* the beginning, is never ok by itself.
TamperEvident ==
    LET all == Export(0) IN
    AuditVerify(rows) =>
        /\ \A t \in Tampered(Chained(rows)) : ~AuditVerify(t)
        /\ \A t \in Tampered(all) : ~ExportOk(t)
        /\ \A n \in 2 .. Len(all) : ~ExportOk(SubSeq(all, n, Len(all)))
=============================================================================
