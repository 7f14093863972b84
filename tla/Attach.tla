-------------------------------- MODULE Attach --------------------------------
(***************************************************************************)
(* bus_attach.py: receive_chunk on the contents of one attachment store.   *)
(*                                                                         *)
(* The half-finished state of a content is two files addressed by its      *)
(* hash: .partial, which chunks are appended to, and .partial.json, which  *)
(* holds next_seq.  No lock is held: every read, append, write and rename  *)
(* of a call is a step of its own, and the process may be killed between   *)
(* them.  The quota is of the whole store.                                 *)
(*                                                                         *)
(* Data is kept in half chunks: a chunk is two, an append that was cut off *)
(* has left one.                                                           *)
(***************************************************************************)
EXTENDS Integers, Sequences, FiniteSets

CONSTANTS
    Contents,   \* the contents sent to this store
    Procs,      \* processes that receive
    Sends,      \* process -> the content its sender sends
    N,          \* number of chunks of a content
    MaxWork,    \* MAX_WORK_BYTES, in half chunks
    MaxFaults   \* bound: kills and chunks with wrong data, together

ASSUME AttachAssumption ==
    /\ IsFiniteSet(Contents) /\ Contents # {} /\ Sends \in [Procs -> Contents]
    /\ N \in Nat \ {0} /\ MaxWork \in Nat /\ MaxFaults \in Nat

Seqs == 0 .. N - 1
Size == 2 * N

\* The two halves of chunk k; wrong data of the same length.
Chunk(k) == <<2 * k, 2 * k + 1>>
Wrong    == <<-1, -1>>
Content  == [i \in 1 .. Size |-> i - 1]

NoFile == <<-2>>     \* of part, rejected and stored; a file without data is << >>
NoMeta == -1
Empty  == -2         \* opened for writing, which has cut it to nothing

Call == [at : {"ready", "fresh", "moved", "checked", "appended", "counted",
               "verified", "stored", "bad", "badMoved"},
         send : Seqs, expected : 0 .. N, good : BOOLEAN]

VARIABLES
    part,      \* content -> what .partial holds
    meta,      \* content -> next_seq in .partial.json
    stale,     \* content -> PARTIAL_STALE_S has passed since meta was written
    stored,    \* content -> what is stored under its hash
    rejected,  \* content -> its .rejected.<expected>: the last chunk's seq, one name
    abandoned, \* content -> half chunks in its .abandoned.<ts> files
    call,      \* process -> its call, and the chunk its sender sends next
    faults,
    overlap,   \* contents two calls have run on at once: read by properties only
    halfMoved  \* and those a call was killed between the two moves of: likewise

files == <<part, meta, stale, stored, rejected, abandoned>>
noted == <<faults, overlap, halfMoved>>
vars  == <<files, call, noted>>

-----------------------------------------------------------------------------
Ready(p)     == call[p].at = "ready"
HasStored(c) == stored[c] # NoFile
Length(file) == IF file = NoFile THEN 0 ELSE Len(file)
PartSize(c)  == Length(part[c])
NextSeq(c)   == IF meta[c] \in {NoMeta, Empty} THEN 0 ELSE meta[c]

Kinds == {".partial", ".rejected", ".abandoned"}

\* What the work files of the store hold, half chunk by half chunk.
FileSize ==
    [w \in Contents \X Kinds |->
        CASE w[2] = ".partial"   -> PartSize(w[1])
          [] w[2] = ".rejected"  -> Length(rejected[w[1]])
          [] w[2] = ".abandoned" -> abandoned[w[1]]]

Bytes(size) == UNION {{w} \X (1 .. size[w]) : w \in Contents \X Kinds}

\* Mutant: what was moved aside is not counted.
WorkUsed_PartOnly == Cardinality({b \in Bytes(FileSize) : b[1][2] = ".partial"})

WorkUsed == Cardinality(Bytes(FileSize))

\* The call returns and the sender goes on; or it raises (an error response,
\* the round is over) and the next round sends chunk 0 again.
Idle(send) == [at |-> "ready", send |-> send, expected |-> 0, good |-> TRUE]
Returns(p) == call' = [call EXCEPT ![p] = Idle((call[p].send + 1) % N)]
Raises(p)  == call' = [call EXCEPT ![p] = Idle(0)]
Goes(p, at) == call' = [call EXCEPT ![p].at = at]

Duplicate(p, c) ==                                    \* dedupe
    /\ Ready(p) /\ HasStored(c)
    /\ Returns(p)
    /\ UNCHANGED <<files, noted>>

\* Mutant: a transfer once begun is never begun again.
Orphaned_Never(c) == FALSE

\* A half-finished transfer nobody has added to for a while.
Orphaned(c) == NextSeq(c) > 0 /\ stale[c]

\* has() and the read of next_seq.
Begin(p, c, good) ==
    /\ Ready(p) /\ ~HasStored(c)
    /\ good \/ faults < MaxFaults
    /\ faults' = IF good THEN faults ELSE faults + 1
    /\ LET k == call[p].send IN
       \/ /\ k = 0 /\ Orphaned(c)
          /\ call' = [call EXCEPT ![p] = [at |-> "fresh", send |-> 0, expected |-> 0, good |-> good]]
       \/ /\ k = NextSeq(c)
          /\ call' = [call EXCEPT ![p] = [at |-> "moved", send |-> k, expected |-> k, good |-> good]]
       \/ /\ k # NextSeq(c) /\ ~(k = 0 /\ Orphaned(c))
          /\ Raises(p)
    /\ overlap' = overlap \cup {d \in {c} : \E q \in Procs \ {p} : Sends[q] = c /\ ~Ready(q)}
    /\ UNCHANGED <<files, halfMoved>>

\* The orphaned files are moved aside, .partial first.
AbandonPart(p, c) ==
    /\ call[p].at = "fresh" /\ part[c] # NoFile
    /\ abandoned' = [abandoned EXCEPT ![c] = @ + PartSize(c)]
    /\ part' = [part EXCEPT ![c] = NoFile]
    /\ UNCHANGED <<meta, stale, stored, rejected, call, noted>>

AbandonMeta(p, c) ==
    /\ call[p].at = "fresh" /\ part[c] = NoFile
    /\ meta' = [meta EXCEPT ![c] = NoMeta]
    /\ stale' = [stale EXCEPT ![c] = FALSE]
    /\ Goes(p, "moved")
    /\ UNCHANGED <<part, stored, rejected, abandoned, noted>>

\* The quota, for a new transfer, and the size.
Fits(p, c) == /\ call[p].expected = 0 => WorkUsed + Size <= MaxWork
              /\ PartSize(c) + 2 <= Size

CheckRoom(p, c) ==
    /\ call[p].at = "moved"
    /\ \/ Fits(p, c) /\ Goes(p, "checked")
       \/ ~Fits(p, c) /\ Raises(p)
    /\ UNCHANGED <<files, noted>>

Data(p) == IF call[p].good THEN Chunk(call[p].send) ELSE Wrong

Appended(c, bytes) ==
    [part EXCEPT ![c] = IF @ = NoFile THEN bytes ELSE @ \o bytes]

Append1(p, c) ==
    /\ call[p].at = "checked"
    /\ part' = Appended(c, Data(p))
    /\ Goes(p, "appended")
    /\ UNCHANGED <<meta, stale, stored, rejected, abandoned, noted>>

IsLast(p) == call[p].send = N - 1

WriteMeta(p, c) ==
    /\ call[p].at = "appended"
    /\ meta' = [meta EXCEPT ![c] = call[p].expected + 1]
    /\ stale' = [stale EXCEPT ![c] = FALSE]
    /\ IF IsLast(p) THEN Goes(p, "counted") ELSE Returns(p)
    /\ UNCHANGED <<part, stored, rejected, abandoned, noted>>

\* Mutant: only the size is compared.
Verified_SizeOnly(c) == PartSize(c) = Size

Verified(c) == part[c] = Content

Verify(p, c) ==
    /\ call[p].at = "counted"
    /\ IF part[c] = NoFile THEN Raises(p)
       ELSE Goes(p, IF Verified(c) THEN "verified" ELSE "bad")
    /\ UNCHANGED <<files, noted>>

\* The file that is moved is whatever .partial has become.
StorePart(p, c) ==
    /\ call[p].at = "verified"
    /\ IF part[c] = NoFile THEN Raises(p) /\ UNCHANGED <<part, stored>>
       ELSE /\ stored' = [stored EXCEPT ![c] = part[c]]
            /\ part' = [part EXCEPT ![c] = NoFile]
            /\ Goes(p, "stored")
    /\ UNCHANGED <<meta, stale, rejected, abandoned, noted>>

\* The name is the same at every rejection: an earlier file is replaced.
RejectPart(p, c) ==
    /\ call[p].at = "bad"
    /\ IF part[c] = NoFile THEN Raises(p) /\ UNCHANGED <<part, rejected>>
       ELSE /\ rejected' = [rejected EXCEPT ![c] = part[c]]
            /\ part' = [part EXCEPT ![c] = NoFile]
            /\ Goes(p, "badMoved")
    /\ UNCHANGED <<meta, stale, stored, abandoned, noted>>

FinishMeta(p, c) ==
    /\ call[p].at \in {"stored", "badMoved"}
    /\ meta' = [meta EXCEPT ![c] = NoMeta]
    /\ stale' = [stale EXCEPT ![c] = FALSE]
    /\ IF call[p].at = "stored" THEN Returns(p) ELSE Raises(p)
    /\ UNCHANGED <<part, stored, rejected, abandoned, noted>>

\* Killed between two steps, in the middle of an append, or after the file for
\* next_seq was opened.  The round breaks; a relay's client may send the same
\* chunk again instead.
Kill(p, c) ==
    /\ ~Ready(p) /\ faults < MaxFaults
    /\ faults' = faults + 1
    /\ \/ UNCHANGED <<part, meta, stale>>
       \/ /\ call[p].at = "checked"
          /\ part' = Appended(c, <<Data(p)[1]>>)
          /\ UNCHANGED <<meta, stale>>
       \/ /\ call[p].at = "appended"
          /\ meta' = [meta EXCEPT ![c] = Empty]
          /\ stale' = [stale EXCEPT ![c] = FALSE]
          /\ UNCHANGED part
    /\ \E k \in {0, call[p].send} : call' = [call EXCEPT ![p] = Idle(k)]
    /\ halfMoved' = halfMoved \cup {d \in {c} : call[p].at = "fresh" /\ part[c] = NoFile}
    /\ UNCHANGED <<stored, rejected, abandoned, overlap>>

Time ==
    /\ stale' = [c \in Contents |-> meta[c] # NoMeta]
    /\ UNCHANGED <<part, meta, stored, rejected, abandoned, call, noted>>

Step(p, c) ==
    \/ Begin(p, c, TRUE) \/ AbandonPart(p, c) \/ AbandonMeta(p, c) \/ CheckRoom(p, c)
    \/ Append1(p, c) \/ WriteMeta(p, c) \/ Verify(p, c) \/ StorePart(p, c)
    \/ RejectPart(p, c) \/ FinishMeta(p, c)

-----------------------------------------------------------------------------
Init ==
    /\ part = [c \in Contents |-> NoFile] /\ meta = [c \in Contents |-> NoMeta]
    /\ stale = [c \in Contents |-> FALSE] /\ stored = [c \in Contents |-> NoFile]
    /\ rejected = [c \in Contents |-> NoFile] /\ abandoned = [c \in Contents |-> 0]
    /\ call = [p \in Procs |-> Idle(0)]
    /\ faults = 0 /\ overlap = {} /\ halfMoved = {}

Next ==
    \/ Time
    \/ \E p \in Procs : LET c == Sends[p] IN
           Step(p, c) \/ Begin(p, c, FALSE) \/ Duplicate(p, c) \/ Kill(p, c)

Spec == Init /\ [][Next]_vars

\* A sender retries, round after round, and a call that runs goes on; time passes.
FairSpec == Spec /\ WF_vars(Time) /\ \A p \in Procs : WF_vars(Step(p, Sends[p]))

-----------------------------------------------------------------------------
\* What is in the store has the announced hash, whoever was killed when, whatever
\* was appended twice; with two receivers, if their calls did not overlap.
StoredIsRight ==
    \A c \in Contents : HasStored(c) => (stored[c] = Content \/ c \in overlap)

\* The same for any receivers (bus_attach.py:174, "only then enters the store"):
\* violated, for what is moved into the store is whatever .partial has become.
StoredAlwaysRight == \A c \in Contents : HasStored(c) => stored[c] = Content

\* Work files never disappear (bus_attach.py:34): violated, for a content that is
\* rejected again replaces its .rejected file.
RejectedKept ==
    [][\A c \in Contents : rejected[c] # NoFile => rejected'[c] = rejected[c]]_vars

\* How far the work files of the store can get, though only chunk 0 is compared
\* with the quota: of the contents in progress all but the one that was compared
\* last may add their rest on top.  Not when calls on a content overlap, nor after
\* one was killed between the two moves of an orphan: next_seq then lets a transfer
\* go on that was never compared.
WorkBounded ==
    \/ overlap # {} \/ halfMoved # {}
    \/ Cardinality(Bytes(FileSize)) <= MaxWork + (Cardinality(Contents) - 1) * Size

\* A full file without a next_seq: every chunk 0 is too much, and none is a restart.
Wedged(c) == NextSeq(c) = 0 /\ PartSize(c) + 2 > Size

QuotaFull(c) == NextSeq(c) = 0 /\ WorkUsed + Size > MaxWork

\* A sender that keeps trying gets its content stored, unless the quota is full,
\* which only the operator may change, the files are wedged, or two calls ran
\* at once.
TransferCompletes ==
    \A c \in {Sends[p] : p \in Procs} :
        <>(HasStored(c) \/ overlap # {}) \/ <>[](QuotaFull(c) \/ Wedged(c))
=============================================================================
