------------------------------ MODULE NotaryLog -------------------------------
(***************************************************************************)
(* The notary log of bus_notary.py as a file: how record() and             *)
(* checkpoint() append to it, what a writer that dies leaves behind, and   *)
(* what verify and compare say of the log, its exports and changed copies. *)
(*                                                                         *)
(* A hash is the tuple it is the hash of, a signature is what was signed   *)
(* with the key; an entry's payload is one value, different for every      *)
(* entry.  What the entries mean is the subject of Evidence and Exchange.  *)
(***************************************************************************)
EXTENDS Integers, Sequences, FiniteSets, SequencesExt

CONSTANTS
    Writers,      \* processes that write the log
    Every,        \* checkpoint_every
    MaxRecords,   \* bound: calls of record that get as far as the lock
    MaxSeals,     \* bound: calls of checkpoint
    MaxTears      \* bound: writers that die while they hold the lock

ASSUME NotaryAssumption ==
    Every \in Nat \ {0} /\ {MaxRecords, MaxSeals, MaxTears} \subseteq Nat

Genesis == <<>>
Notary  == "notary"      \* the key known out of band
Other   == "other"       \* a key anyone generated
NoStart == <<"none">>    \* start_prev_hash not given

VARIABLES
    log,        \* the lines of the file
    open,       \* the last line is whole but for its newline
    held,       \* Writers -> what the holder of the flock has read
    returned,   \* payloads whose record() has returned
    count       \* [records, seals, tears]: the bounds

vars == <<log, open, held, returned, count>>

EntryHash(seq, prev, pay) == <<seq, prev, pay>>

Entry(seq, prev, pay) ==
    [type |-> "entry", seq |-> seq, prev |-> prev, pay |-> pay,
     hash |-> EntryHash(seq, prev, pay)]

Checkpoint(seq, head, key) ==
    [type |-> "checkpoint", seq |-> seq, head |-> head, key |-> key, sig |-> <<seq, head, key>>]

\* A line that is not one JSON object.
Garbage == [type |-> "garbage"]

\* The positions of the entries and of the checkpoints among the lines s.
EntryAt(s) == {i \in DOMAIN s : s[i].type = "entry"}
SealAt(s)  == {i \in DOMAIN s : s[i].type = "checkpoint"}

Entries(s)  == {s[i] : i \in EntryAt(s)}
Unbroken(s) == \A i \in DOMAIN s : s[i].type # "garbage"

-----------------------------------------------------------------------------
(* record and checkpoint *)

\* _tail: the last entry of the file, and the entries since the last checkpoint.
LogTail(s) ==
    LET none == EntryAt(s) = {}  last == Max(EntryAt(s)) IN
    [seq   |-> IF none THEN 0 ELSE s[last].seq,
     head  |-> IF none THEN Genesis ELSE s[last].hash,
     since |-> Cardinality({i \in EntryAt(s) : \A j \in SealAt(s) : j < i})]

Unheld == [op |-> "none"]

NewEntry(h) == Entry(h.tail.seq + 1, h.tail.head, h.pay)

\* The lines one call writes: an entry, with a checkpoint when one is due, or
\* a checkpoint of the last entry.
LinesOf(h) ==
    IF h.op = "checkpoint" THEN <<Checkpoint(h.tail.seq, h.tail.head, Notary)>>
    ELSE IF h.tail.since + 1 >= Every
         THEN <<NewEntry(h), Checkpoint(NewEntry(h).seq, NewEntry(h).hash, Notary)>>
         ELSE <<NewEntry(h)>>

\* Appended behind a last line without newline, the first new line and that
\* one become a single line of two objects.
Appended(lines) ==
    IF lines = <<>> THEN log
    ELSE IF open THEN Front(log) \o <<Garbage>> \o Tail(lines)
    ELSE log \o lines

\* Mutant: the file is read before the lock is taken.
LockFree_Always == TRUE

LockFree == \A w \in Writers : held[w] = Unheld

\* Mutant: a line that does not parse is stepped over.
Readable_Any(s) == TRUE

\* _tail raises at a line json.loads does not take, and nothing is written.
Readable(s) == Unbroken(s)

Init ==
    /\ log = <<>> /\ open = FALSE
    /\ held = [w \in Writers |-> Unheld]
    /\ returned = {}
    /\ count = [records |-> 0, seals |-> 0, tears |-> 0]

\* flock, then the tail of the file as it is now.
Begin(w, op) ==
    /\ LockFree /\ held[w] = Unheld
    /\ Readable(log)
    /\ held' = [held EXCEPT ![w] = [op |-> op, pay |-> count.records + 1, tail |-> LogTail(log)]]
    /\ UNCHANGED <<log, open, returned>>

BeginRecord(w) ==
    /\ count.records < MaxRecords
    /\ Begin(w, "record")
    /\ count' = [count EXCEPT !.records = @ + 1]

BeginCheckpoint(w) ==
    /\ count.seals < MaxSeals
    /\ Begin(w, "checkpoint")
    /\ count' = [count EXCEPT !.seals = @ + 1]

\* write, flush, fsync; the call returns and the lock is free.
Commit(w) ==
    /\ held[w] # Unheld
    /\ log' = Appended(LinesOf(held[w]))
    /\ open' = FALSE
    /\ returned' = IF held[w].op = "record" THEN returned \cup {held[w].pay} ELSE returned
    /\ held' = [held EXCEPT ![w] = Unheld]
    /\ UNCHANGED count

\* The writer dies, or the disk is full: of its lines n are in the file whole,
\* and of the next one nothing, a part, or everything but the newline.
Die(w) ==
    /\ held[w] # Unheld /\ count.tears < MaxTears
    /\ LET lines == LinesOf(held[w]) IN
       \E n \in 0 .. Len(lines) - 1 :
          \/ /\ log' = Appended(SubSeq(lines, 1, n))
             /\ open' = (open /\ n = 0)
          \/ /\ log' = Appended(Append(SubSeq(lines, 1, n), Garbage))
             /\ open' = FALSE
          \/ /\ log' = Appended(SubSeq(lines, 1, n + 1))
             /\ open' = TRUE
    /\ held' = [held EXCEPT ![w] = Unheld]
    /\ count' = [count EXCEPT !.tears = @ + 1]
    /\ UNCHANGED returned

Next == \E w \in Writers : BeginRecord(w) \/ BeginCheckpoint(w) \/ Commit(w) \/ Die(w)

Spec == Init /\ [][Next]_vars

-----------------------------------------------------------------------------
(* export and verify *)

\* The lines of s at the positions S, in their order.
Nth(S, k)    == CHOOSE i \in S : Cardinality({j \in S : j <= i}) = k
Select(s, S) == [k \in 1 .. Cardinality(S) |-> s[Nth(S, k)]]

\* The entries from a number on and the latest checkpoint.
Export(s, from) ==
    Select(s, {i \in EntryAt(s) : s[i].seq >= from})
        \o (IF SealAt(s) = {} THEN <<>> ELSE <<s[Max(SealAt(s))]>>)

\* Mutant: entries are chained by their numbers alone.
Follows_ByNumber(prior, r) == r.seq = prior.seq + 1

\* An entry continues the one with the highest number before it.
Follows(prior, r) == r.seq = prior.seq + 1 /\ r.prev = prior.hash

\* Of the entries at positions P, those before the i-th line for one: the
\* numbers, the highest of them, the entry that had it first, and the hash that
\* a number stands for.
Before(s, i)    == {j \in EntryAt(s) : j < i}
Seqs(s, P)      == {s[j].seq : j \in P}
Highest(s, P)   == Max(Seqs(s, P) \cup {0})
Newest(s, P)    == s[Min({j \in P : s[j].seq = Highest(s, P)})]
HeadAt(s, P, n) == s[Max({j \in P : s[j].seq = n})].hash

EntryHolds(s, i, start) ==
    LET r == s[i]  P == Before(s, i) IN
    /\ r.hash = EntryHash(r.seq, r.prev, r.pay)
    /\ IF P = {}
       THEN (start = NoStart \/ r.prev = start) /\ (r.seq = 1 => r.prev = Genesis)
       ELSE Follows(Newest(s, P), r)

\* A checkpoint is bound to the chain by the head it signs.
HeadBound(s, c, P) ==
    IF c.seq \in Seqs(s, P) THEN c.head = HeadAt(s, P, c.seq) ELSE c.seq <= Highest(s, P)

CheckpointHolds(s, i) ==
    LET c == s[i] IN
    /\ c.key = Notary
    /\ c.sig = <<c.seq, c.head, c.key>>
    /\ HeadBound(s, c, Before(s, i))

LineHolds(s, i, start) ==
    CASE s[i].type = "garbage"    -> FALSE
      [] s[i].type = "entry"      -> EntryHolds(s, i, start)
      [] s[i].type = "checkpoint" -> CheckpointHolds(s, i)

\* verify(...)["ok"], with the notary's key given.
VerifyOk(s, start) == \A i \in DOMAIN s : LineHolds(s, i, start)

Numbers(s) == Seqs(s, EntryAt(s))

IsAnchored(s, start) == start # NoStart \/ (EntryAt(s) # {} /\ Min(Numbers(s)) = 1)

\* Mutant: some entry under a checkpoint makes the slice trusted.
Covered_Some(s) == \E i \in SealAt(s) : s[i].seq \in Numbers(s)

\* unverified_tail = 0: every entry is under a checkpoint of one of them.
Covered(s) ==
    \E i \in SealAt(s) : s[i].seq \in Numbers(s) /\ \A n \in Numbers(s) : n <= s[i].seq

\* verify(...)["trusted"].
Trusted(s, start) == VerifyOk(s, start) /\ Covered(s) /\ IsAnchored(s, start)

-----------------------------------------------------------------------------
(* compare *)

\* An entry is the same for both, to the byte.
SameEntries(a, b) ==
    \A i \in EntryAt(a), j \in EntryAt(b) : a[i].seq = b[j].seq => a[i] = b[j]

SameHeads(a, b) ==
    \A i \in SealAt(a), j \in SealAt(b) : a[i].seq = b[j].seq => a[i].head = b[j].head

SealsAgree(a, b) ==
    \A i \in SealAt(a), j \in EntryAt(b) : a[i].seq = b[j].seq => a[i].head = b[j].hash

\* Mutant: only what both have is compared.
LinksAgree_Overlap(a, b) == TRUE

\* Where one ends the other goes on.
LinksAgree(a, b) ==
    \A i \in EntryAt(a), j \in EntryAt(b) :
        (b[j].seq = a[i].seq + 1 /\ b[j].seq \notin Numbers(a)) => b[j].prev = a[i].hash

\* compare(...)["fork"].
Forked(a, b) ==
    ~ (/\ SameEntries(a, b) /\ SameHeads(a, b)
       /\ SealsAgree(a, b) /\ SealsAgree(b, a)
       /\ LinksAgree(a, b) /\ LinksAgree(b, a))

-----------------------------------------------------------------------------
(* Properties *)

\* What one careless hand can do to the lines s: take out an entry with another
\* behind it, rewrite that with a hash of its own, change an entry or a head,
\* put a copy elsewhere, swap two.
Inner(s)   == {i \in EntryAt(s) : \E j \in EntryAt(s) : j > i}
Tampered(s) ==
    ({RemoveAt(s, i) : i \in Inner(s)}
         \cup {[s EXCEPT ![i] = Entry(@.seq, @.prev, 0)] : i \in Inner(s)}
         \cup {[s EXCEPT ![i].pay = 0] : i \in EntryAt(s)}
         \cup {[s EXCEPT ![i].head = NoStart] : i \in DOMAIN s \ EntryAt(s)}
         \cup {InsertAt(s, i, s[j]) : i \in 1 .. Len(s) + 1, j \in EntryAt(s)}
         \cup {[s EXCEPT ![i] = s[j], ![j] = s[i]] : i \in EntryAt(s), j \in EntryAt(s)}) \ {s}

\* The head after each line of s when the k-th entry is rewritten.
Heads(s, k) ==
    LET head[i \in 0 .. Len(s)] ==
            IF i = 0 THEN Genesis
            ELSE IF s[i].type # "entry" THEN head[i - 1]
            ELSE EntryHash(s[i].seq, head[i - 1], IF s[i].seq = k THEN 0 ELSE s[i].pay)
    IN head

\* The log with its k-th entry rewritten and everything behind it chained on
\* again; the checkpoints from there on are kept, or signed again with a key.
Rechained(s, k, key) ==
    LET head == Heads(s, k) IN
    [i \in DOMAIN s |->
        IF s[i].type = "entry"
        THEN Entry(s[i].seq, head[i - 1], IF s[i].seq = k THEN 0 ELSE s[i].pay)
        ELSE IF s[i].seq < k \/ key = "kept" THEN s[i]
        ELSE Checkpoint(s[i].seq, head[i - 1], key)]

\* With the checkpoints from the k-th entry on left out.
Unsealed(s, k) == Select(s, {i \in DOMAIN s : s[i].type = "checkpoint" => s[i].seq < k})

Intact   == Unbroken(log)
Recorded == Numbers(log)
Start(n) == IF n = 1 THEN Genesis ELSE HeadAt(log, EntryAt(log), n - 1)

\* record "Serialized across processes with flock; the head comes from the
\* file's last entry": whatever writers do and wherever they die, the file
\* verifies unless one of its lines is broken, and then it does not; every
\* export of an intact file verifies, and is trusted up to a closing checkpoint.
HonestVerifies ==
    /\ VerifyOk(log, NoStart) <=> Intact
    /\ Intact => \A n \in Recorded :
         LET x == Export(log, n) IN
         /\ VerifyOk(x, Start(n))
         /\ Trusted(x, Start(n)) <=> Last(log).type = "checkpoint"

\* record returned an entry: it is in the file to be read - all but the one
\* that was written onto a line a dying writer left without newline, for after
\* that one the log takes no more.
RecordedKept ==
    /\ Cardinality(returned \ {r.pay : r \in Entries(log)}) <= IF Intact THEN 0 ELSE 1
    /\ \A r, q \in Entries(log) : r.seq = q.seq => r = q

\* verify: "rewrite -> wrong entry_hash at that seq; deletion -> seq gap;
\* reordering -> non-increasing seq / prev_hash break", or no beginning.
TamperEvident ==
    Intact => \A t \in Tampered(log) : ~ (VerifyOk(t, NoStart) /\ IsAnchored(t, NoStart))

\* verify: trusted "true only if EVERY entry of the slice is covered by a
\* verified checkpoint" - a log rewritten and chained again is never trusted,
\* with the old checkpoints, without them or signed with another key, nor is
\* any beginning of it that holds the rewritten entry.
RechainedUntrusted ==
    Intact => \A k \in Recorded :
        LET kept == Rechained(log, k, "kept") IN
        \A t \in {kept, Unsealed(kept, k), Rechained(log, k, Other)} :
            \A n \in 1 .. Len(t) :
                LET s == SubSeq(t, 1, n) IN k \in Numbers(s) => ~Trusted(s, NoStart)

\* The slice of a party that read the log when it had m lines.
Slices(s) == {Export(SubSeq(s, 1, m), n) : m \in DOMAIN s, n \in Numbers(s)}
Reaches(x, k)  == \E n \in Numbers(x) : n >= k
Touching(x, y) == \E n \in Numbers(x), m \in Numbers(y) : n - m \in {-1, 0, 1}

\* compare: two slices of one log never look like a fork; when the notary has
\* signed two branches, slices that both reach past the fork and meet always do.
ForkSeen ==
    Intact =>
        /\ \A x, y \in Slices(log) : ~Forked(x, y)
        /\ \A k \in Recorded :
             \A x \in Slices(log), y \in Slices(Rechained(log, k, Notary)) :
                Reaches(x, k) /\ Reaches(y, k) /\ Touching(x, y) => Forked(x, y)

=============================================================================
