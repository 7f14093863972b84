----------------------------- MODULE Attach_proofs -----------------------------
(***************************************************************************)
(* receive_chunk of bus_attach.py: what is stored is right and the work    *)
(* files of the store stay within a bound, for any contents and receivers, *)
(* number of chunks and quota, and any number of kills and wrong chunks.   *)
(***************************************************************************)
EXTENDS Attach, FiniteSetTheorems, TLAPS

Files == Contents \X Kinds

Typed ==
    /\ part \in [Contents -> Seq(Int)] /\ stored \in [Contents -> Seq(Int)]
    /\ rejected \in [Contents -> Seq(Int)] /\ abandoned \in [Contents -> Nat]
    /\ meta \in [Contents -> {NoMeta, Empty} \cup 1 .. N]
    /\ call \in [Procs -> Call]
    /\ overlap \subseteq Contents /\ halfMoved \subseteq Contents

\* A call that runs appends the chunk that was next when it began, or chunk 0.
Running == \A p \in Procs : /\ ~Ready(p) => call[p].expected = call[p].send
                            /\ call[p].at = "fresh" => call[p].expected = 0

\* Without overlap at most one call runs on a content at a time.
Alone == \A p, q \in Procs :
            (Sends[p] = Sends[q] /\ ~Ready(p) /\ ~Ready(q)) => (p = q \/ Sends[p] \in overlap)

\* Then what was compared or counted still holds.
CallInv(p, c) ==
    \/ c \in overlap
    \/ /\ call[p].at = "verified" => part[c] = Content
       /\ call[p].at = "checked" => PartSize(c) + 2 <= Size
       /\ call[p].at \in {"counted", "verified", "stored", "bad", "badMoved"} => meta[c] = N

CallsInv == \A p \in Procs : CallInv(p, Sends[p])

\* A transfer that was compared with the quota and goes on: from the comparison of
\* chunk 0 to the count of the last chunk.  Not while .partial has been moved aside
\* and next_seq has not.
AdmittedBy(p, c) == \/ call[p].at = "moved" /\ call[p].expected > 0
                    \/ call[p].at \in {"checked", "appended"}
HalfAside(p, c)  == part[c] = NoFile /\ call[p].at = "fresh"
InProgress(c)    == 0 < NextSeq(c) /\ NextSeq(c) < N

Admitted(c) ==
    \/ InProgress(c) /\ ~\E p \in Procs : Sends[p] = c /\ HalfAside(p, c)
    \/ \E p \in Procs : Sends[p] = c /\ AdmittedBy(p, c)

\* Such a transfer has room for the whole content set apart.
Room == [w \in Files |->
            IF w[2] = ".partial" /\ Admitted(w[1]) /\ FileSize[w] < Size THEN Size ELSE FileSize[w]]

Bound == MaxWork + (Cardinality(Contents) - 1) * Size

Within == IsFiniteSet(Bytes(Room)) /\ Cardinality(Bytes(Room)) <= Bound

QuotaInv == overlap # {} \/ halfMoved # {} \/ Within

AttachInv == Typed /\ Running /\ Alone /\ CallsInv /\ QuotaInv /\ StoredIsRight

-----------------------------------------------------------------------------
(* Counting what files hold *)

LEMMA InBytes ==
  ASSUME NEW r, NEW b
  PROVE  b \in Bytes(r) <=> \E w \in Files : \E i \in 1 .. r[w] : b = <<w, i>>
  BY DEF Bytes, Files

\* Files that have not grown hold no more.
LEMMA NotMore ==
  ASSUME NEW r \in [Files -> Nat], NEW s \in [Files -> Nat], IsFiniteSet(Bytes(r)),
         \A w \in Files : s[w] <= r[w]
  PROVE  IsFiniteSet(Bytes(s)) /\ Cardinality(Bytes(s)) <= Cardinality(Bytes(r))
<1>1. ASSUME NEW b \in Bytes(s) PROVE b \in Bytes(r)
  <2>1. PICK w \in Files : \E i \in 1 .. s[w] : b = <<w, i>>
    BY InBytes
  <2>2. PICK i \in 1 .. s[w] : b = <<w, i>>
    BY <2>1
  <2>3. i \in 1 .. r[w]
    <3>1. s[w] \in Nat /\ r[w] \in Nat /\ s[w] <= r[w]
      OBVIOUS
    <3> QED
      BY <3>1, <2>2
  <2> QED
    BY <2>2, <2>3, InBytes
<1>2. Bytes(s) \in SUBSET Bytes(r)
  BY <1>1
<1> QED
  BY <1>2, FS_Subset

\* One file is added to another and gone, the others have not grown.
LEMMA MovedAside ==
  ASSUME NEW r \in [Files -> Nat], NEW s \in [Files -> Nat], IsFiniteSet(Bytes(r)),
         NEW from \in Files, NEW to \in Files, from # to,
         s[from] = 0, s[to] <= r[to] + r[from],
         \A w \in Files : (w # from /\ w # to) => s[w] <= r[w]
  PROVE  IsFiniteSet(Bytes(s)) /\ Cardinality(Bytes(s)) <= Cardinality(Bytes(r))
<1> DEFINE Was(w, i) == IF w = to /\ i > r[to] THEN <<from, i - r[to]>> ELSE <<w, i>>
           f == [b \in Bytes(s) |-> Was(b[1], b[2])]
<1>1. ASSUME NEW b \in Bytes(s)
      PROVE  /\ b = <<b[1], b[2]>> /\ b[1] \in Files /\ b[1] # from
             /\ b[2] \in Nat /\ b[2] >= 1 /\ b[2] <= s[b[1]]
  <2>1. PICK w \in Files : \E i \in 1 .. s[w] : b = <<w, i>>
    BY InBytes
  <2>2. PICK i \in 1 .. s[w] : b = <<w, i>>
    BY <2>1
  <2>3. s[w] \in Nat
    OBVIOUS
  <2> QED
    BY <2>2, <2>3
<1>2. r[to] \in Nat /\ r[from] \in Nat
  OBVIOUS
<1>3. ASSUME NEW b \in Bytes(s) PROVE f[b] \in Bytes(r)
  <2> DEFINE w == b[1]
             i == b[2]
  <2>1. b = <<w, i>> /\ w \in Files /\ w # from /\ i \in Nat /\ i >= 1 /\ i <= s[w] /\ s[w] \in Nat
    BY <1>1
  <2>2. f[b] = Was(w, i)
    OBVIOUS
  <2> HIDE DEF w, i, f
  <2>3. CASE w = to /\ i > r[to]
    <3>1. i - r[to] \in 1 .. r[from]
      BY <2>1, <2>3, <1>2
    <3> QED
      BY <2>2, <2>3, <3>1, InBytes
  <2>4. CASE ~(w = to /\ i > r[to])
    <3>1. r[w] \in Nat /\ i <= r[w]
      BY <2>1, <2>4, <1>2
    <3>2. i \in 1 .. r[w]
      BY <2>1, <3>1
    <3> QED
      BY <2>1, <2>2, <2>4, <3>2, InBytes
  <2> QED
    BY <2>3, <2>4
<1>4. ASSUME NEW b \in Bytes(s), NEW d \in Bytes(s), f[b] = f[d] PROVE b = d
  <2>1. f[b] = Was(b[1], b[2]) /\ f[d] = Was(d[1], d[2])
    OBVIOUS
  <2>2. /\ b[1] # from /\ d[1] # from /\ b[2] \in Nat /\ d[2] \in Nat
        /\ b = <<b[1], b[2]>> /\ d = <<d[1], d[2]>>
    BY <1>1
  <2> HIDE DEF f
  <2>3. Was(b[1], b[2]) = Was(d[1], d[2])
    BY <1>4, <2>1
  <2>4. b[1] = d[1] /\ b[2] = d[2]
    BY <2>2, <2>3, <1>2
  <2> QED
    BY <2>2, <2>4
<1>5. f \in [Bytes(s) -> Bytes(r)]
  BY <1>3
<1> HIDE DEF f
<1>6. f \in Injection(Bytes(s), Bytes(r))
  BY <1>4, <1>5 DEF Injection, IsInjective
<1> QED
  BY <1>6, FS_Injection

\* No file but a .partial has more, and no .partial more than a whole content.
LEMMA AtMostContents ==
  ASSUME NEW r \in [Files -> Nat], NEW s \in [Files -> Nat], IsFiniteSet(Bytes(r)),
         \A w \in Files : s[w] <= r[w] \/ (w[2] = ".partial" /\ s[w] <= Size)
  PROVE  /\ IsFiniteSet(Bytes(s))
         /\ Cardinality(Bytes(s)) <= Cardinality(Bytes(r)) + Cardinality(Contents) * Size
<1> DEFINE more == (Contents \X {".partial"}) \X (1 .. Size)
<1>1. Size \in Nat
  BY AttachAssumption DEF Size
<1>2. /\ IsFiniteSet(1 .. Size) /\ Cardinality(1 .. Size) = Size
      /\ IsFiniteSet({".partial"}) /\ Cardinality({".partial"}) = 1
  <2>1. IsFiniteSet(1 .. Size) /\ Cardinality(1 .. Size) = IF 1 > Size THEN 0 ELSE Size - 1 + 1
    BY <1>1, FS_Interval
  <2>2. IsFiniteSet({".partial"}) /\ Cardinality({".partial"}) = 1
    BY FS_Singleton, Zenon
  <2> QED
    BY <1>1, <2>1, <2>2
<1>3. Cardinality(Contents) \in Nat
  BY AttachAssumption, FS_CardinalityType, Zenon
<1>4. IsFiniteSet(Contents \X {".partial"}) /\ Cardinality(Contents \X {".partial"}) = Cardinality(Contents)
  <2>1. /\ IsFiniteSet(Contents \X {".partial"})
        /\ Cardinality(Contents \X {".partial"}) = Cardinality(Contents) * Cardinality({".partial"})
    BY <1>2, AttachAssumption, FS_Product, Zenon
  <2> QED
    BY <1>2, <1>3, <2>1
<1>5. IsFiniteSet(more) /\ Cardinality(more) = Cardinality(Contents) * Size
  <2>1. /\ IsFiniteSet(more)
        /\ Cardinality(more) = Cardinality(Contents \X {".partial"}) * Cardinality(1 .. Size)
    BY <1>2, <1>4, FS_Product, Zenon
  <2> QED
    BY <1>2, <1>4, <2>1
<1>6. ASSUME NEW b \in Bytes(s) PROVE b \in Bytes(r) \cup more
  <2>1. PICK w \in Files : \E i \in 1 .. s[w] : b = <<w, i>>
    BY InBytes
  <2>2. PICK i \in 1 .. s[w] : b = <<w, i>>
    BY <2>1
  <2>3. s[w] \in Nat /\ r[w] \in Nat
    OBVIOUS
  <2>4. CASE s[w] <= r[w]
    <3>1. i \in 1 .. r[w]
      BY <2>2, <2>3, <2>4
    <3> QED
      BY <2>2, <3>1, InBytes
  <2>5. CASE w[2] = ".partial" /\ s[w] <= Size
    <3>1. i \in 1 .. Size
      BY <1>1, <2>2, <2>3, <2>5
    <3>2. w \in Contents \X {".partial"}
      BY <2>5 DEF Files
    <3> QED
      BY <2>2, <3>1, <3>2
  <2> QED
    BY <2>4, <2>5
<1> HIDE DEF more
<1>7. /\ IsFiniteSet(Bytes(r) \cup more)
      /\ Cardinality(Bytes(r) \cup more) = Cardinality(Bytes(r)) + Cardinality(more) - Cardinality(Bytes(r) \cap more)
  BY <1>5, FS_Union
<1>8. Cardinality(Bytes(r) \cap more) \in Nat /\ Cardinality(Bytes(r)) \in Nat /\ Cardinality(more) \in Nat
  <2>1. IsFiniteSet(Bytes(r) \cap more)
    BY <1>5, FS_Subset
  <2> QED
    BY <2>1, <1>5, FS_CardinalityType
<1>9. /\ IsFiniteSet(Bytes(s)) /\ Cardinality(Bytes(s)) <= Cardinality(Bytes(r) \cup more)
      /\ Cardinality(Bytes(s)) \in Nat
  <2>1. Bytes(s) \in SUBSET (Bytes(r) \cup more)
    BY <1>6
  <2> QED
    BY <2>1, <1>7, FS_Subset, FS_CardinalityType
<1> QED
  BY <1>5, <1>7, <1>8, <1>9

-----------------------------------------------------------------------------
(* What the helpers return *)

LEMMA DataTyped ==
  ASSUME Typed, NEW p \in Procs
  PROVE  /\ Data(p) \in Seq(Int) /\ Len(Data(p)) = 2
         /\ <<Data(p)[1]>> \in Seq(Int) /\ Len(<<Data(p)[1]>>) = 1
<1>1. call[p].send \in Int
  BY AttachAssumption DEF Typed, Call, Seqs
<1>2. PICK a \in Int, b \in Int : Data(p) = <<a, b>>
  BY <1>1 DEF Data, Chunk, Wrong
<1> QED
  BY <1>2

LEMMA LengthTyped ==
  /\ NoFile \in Seq(Int) /\ Length(NoFile) = 0
  /\ \A file \in Seq(Int) : Length(file) \in Nat
  BY DEF Length, NoFile

LEMMA AppendedTyped ==
  ASSUME Typed, NEW c \in Contents, NEW bytes \in Seq(Int), part' = Appended(c, bytes)
  PROVE  /\ part' \in [Contents -> Seq(Int)]
         /\ \A d \in Contents \ {c} : part'[d] = part[d]
         /\ PartSize(c)' \in Nat /\ PartSize(c)' <= PartSize(c) + Len(bytes)
<1> DEFINE new == IF part[c] = NoFile THEN bytes ELSE part[c] \o bytes
<1>1. part' = [part EXCEPT ![c] = new] /\ part \in [Contents -> Seq(Int)]
  BY DEF Appended, Typed
<1>2. part[c] \in Seq(Int) /\ new \in Seq(Int)
  BY <1>1
<1>3. Length(new) \in Nat /\ Length(new) <= Length(part[c]) + Len(bytes)
  <2>1. CASE part[c] = NoFile
    BY <2>1 DEF Length
  <2>2. CASE part[c] # NoFile
    BY <1>2, <2>2 DEF Length
  <2> QED
    BY <2>1, <2>2
<1> HIDE DEF new
<1>4. part'[c] = new
  BY <1>1
<1> QED
  BY <1>1, <1>2, <1>3, <1>4 DEF PartSize

\* Only p's call goes on, and only files of c change.
Moved(p) == call' \in [Procs -> Call] /\ \A q \in Procs \ {p} : call'[q] = call[q]

Elsewhere(c) == \A d \in Contents \ {c} :
    /\ part'[d] = part[d] /\ meta'[d] = meta[d] /\ stored'[d] = stored[d]
    /\ rejected'[d] = rejected[d] /\ abandoned'[d] = abandoned[d]

LEMMA GoesTyped ==
  ASSUME Typed, NEW p \in Procs, NEW at,
         at \in {"ready", "fresh", "moved", "checked", "appended", "counted",
                 "verified", "stored", "bad", "badMoved"},
         Goes(p, at)
  PROVE  /\ Moved(p) /\ call'[p].at = at
         /\ call'[p].send = call[p].send /\ call'[p].expected = call[p].expected
<1>1. call \in [Procs -> Call] /\ call[p] \in Call /\ call' = [call EXCEPT ![p].at = at]
  BY DEF Typed, Goes
<1>2. call'[p] = [at |-> at, send |-> call[p].send, expected |-> call[p].expected,
                  good |-> call[p].good]
  BY <1>1 DEF Call
<1>3. call'[p] \in Call
  BY <1>1, <1>2 DEF Call
<1>4. call' = [call EXCEPT ![p] = call'[p]]
  BY <1>1
<1> QED
  BY <1>1, <1>2, <1>3, <1>4 DEF Moved

LEMMA EndsTyped ==
  ASSUME Typed, NEW p \in Procs,
         Returns(p) \/ Raises(p) \/ (\E k \in {0, call[p].send} : call' = [call EXCEPT ![p] = Idle(k)])
  PROVE  Moved(p) /\ call'[p].at = "ready"
<1>1. PICK n \in Seqs : call' = [call EXCEPT ![p] = Idle(n)]
  <2>1. (call[p].send + 1) % N \in Seqs /\ 0 \in Seqs /\ call[p].send \in Seqs
    BY AttachAssumption DEF Typed, Call, Seqs
  <2> QED
    BY <2>1 DEF Returns, Raises
<1>2. call \in [Procs -> Call] /\ Idle(n) \in Call /\ Idle(n).at = "ready"
  BY AttachAssumption DEF Typed, Call, Idle, Seqs
<1> QED
  BY <1>1, <1>2 DEF Moved

-----------------------------------------------------------------------------
(* The room set apart *)

RejectedSize(c) == Length(rejected[c])

SizesTyped ==
    /\ FileSize \in [Files -> Nat] /\ Room \in [Files -> Nat] /\ Size \in Nat
    /\ \A w \in Files : FileSize[w] <= Room[w]
    /\ \A c \in Contents :
         /\ PartSize(c) \in Nat /\ RejectedSize(c) \in Nat /\ abandoned[c] \in Nat
         /\ Room[<<c, ".partial">>] =
              IF Admitted(c) /\ PartSize(c) < Size THEN Size ELSE PartSize(c)
         /\ Room[<<c, ".rejected">>] = RejectedSize(c)
         /\ Room[<<c, ".abandoned">>] = abandoned[c]

LEMMA SizesAreTyped == Typed => SizesTyped
<1> SUFFICES ASSUME Typed PROVE SizesTyped
  OBVIOUS
<1>0. Size \in Nat
  BY AttachAssumption DEF Size
<1>1. ASSUME NEW c \in Contents
      PROVE  PartSize(c) \in Nat /\ RejectedSize(c) \in Nat /\ abandoned[c] \in Nat
  BY LengthTyped DEF Typed, PartSize, RejectedSize
<1>2. ASSUME NEW c \in Contents
      PROVE  /\ <<c, ".partial">> \in Files /\ <<c, ".rejected">> \in Files /\ <<c, ".abandoned">> \in Files
             /\ FileSize[<<c, ".partial">>] = PartSize(c)
             /\ FileSize[<<c, ".rejected">>] = RejectedSize(c)
             /\ FileSize[<<c, ".abandoned">>] = abandoned[c]
  BY DEF FileSize, Files, Kinds, RejectedSize
<1>3. ASSUME NEW w \in Files
      PROVE  \E c \in Contents : w \in {<<c, ".partial">>, <<c, ".rejected">>, <<c, ".abandoned">>}
  BY DEF Files, Kinds
<1>4. FileSize \in [Files -> Nat]
  <2>1. \A w \in Files : FileSize[w] \in Nat
    BY <1>1, <1>2, <1>3
  <2> QED
    BY <2>1 DEF FileSize, Files
<1>5. ASSUME NEW w \in Files
      PROVE  Room[w] \in Nat /\ FileSize[w] <= Room[w]
  <2>1. FileSize[w] \in Nat
    BY <1>4
  <2>2. Room[w] = IF w[2] = ".partial" /\ Admitted(w[1]) /\ FileSize[w] < Size THEN Size ELSE FileSize[w]
    BY DEF Room
  <2> QED
    BY <1>0, <2>1, <2>2
<1>6. Room \in [Files -> Nat]
  BY <1>5 DEF Room
<1>7. ASSUME NEW c \in Contents
      PROVE  /\ Room[<<c, ".partial">>] = IF Admitted(c) /\ PartSize(c) < Size THEN Size ELSE PartSize(c)
             /\ Room[<<c, ".rejected">>] = RejectedSize(c)
             /\ Room[<<c, ".abandoned">>] = abandoned[c]
  BY <1>2 DEF Room
<1> QED
  BY <1>0, <1>1, <1>2, <1>4, <1>5, <1>6, <1>7 DEF SizesTyped

\* Nobody else runs on c.
Quiet(p, c) == \A q \in Procs \ {p} : Sends[q] = c => call[q].at = "ready"

Here(p, c) == (InProgress(c) /\ ~HalfAside(p, c)) \/ AdmittedBy(p, c)

LEMMA AdmittedHere ==
  ASSUME NEW p \in Procs, NEW c, Sends[p] = c, Quiet(p, c), Moved(p)
  PROVE  /\ Admitted(c) <=> Here(p, c)
         /\ Admitted(c)' <=> Here(p, c)' 
<1>1. Quiet(p, c)'
  BY DEF Quiet, Moved
<1>2. /\ (\E q \in Procs : Sends[q] = c /\ HalfAside(q, c)) <=> HalfAside(p, c)
      /\ (\E q \in Procs : Sends[q] = c /\ AdmittedBy(q, c)) <=> AdmittedBy(p, c)
  BY DEF Quiet, HalfAside, AdmittedBy
<1>3. /\ (\E q \in Procs : Sends[q] = c /\ HalfAside(q, c)') <=> HalfAside(p, c)'
      /\ (\E q \in Procs : Sends[q] = c /\ AdmittedBy(q, c)') <=> AdmittedBy(p, c)'
  BY <1>1 DEF Quiet, HalfAside, AdmittedBy
<1> QED
  BY <1>2, <1>3 DEF Admitted, Here

LEMMA AdmittedElsewhere ==
  ASSUME NEW p \in Procs, NEW c \in Contents, Sends[p] = c, Moved(p), Elsewhere(c),
         NEW d \in Contents, d # c
  PROVE  Admitted(d)' <=> Admitted(d)
<1>1. InProgress(d)' <=> InProgress(d)
  BY DEF InProgress, NextSeq, Elsewhere
<1>2. ASSUME NEW q \in Procs, Sends[q] = d
      PROVE  (HalfAside(q, d)' <=> HalfAside(q, d)) /\ (AdmittedBy(q, d)' <=> AdmittedBy(q, d))
  BY <1>2 DEF HalfAside, AdmittedBy, Moved, Elsewhere
<1> QED
  BY <1>1, <1>2 DEF Admitted

LEMMA RoomsNow ==
  ASSUME SizesTyped, SizesTyped', NEW c \in Contents
  PROVE  /\ PartSize(c) \in Nat /\ RejectedSize(c) \in Nat /\ abandoned[c] \in Nat
         /\ PartSize(c)' \in Nat /\ RejectedSize(c)' \in Nat /\ abandoned'[c] \in Nat
         /\ Room[<<c, ".partial">>] = IF Admitted(c) /\ PartSize(c) < Size THEN Size ELSE PartSize(c)
         /\ Room'[<<c, ".partial">>] = IF Admitted(c)' /\ PartSize(c)' < Size THEN Size ELSE PartSize(c)'
         /\ Room[<<c, ".rejected">>] = RejectedSize(c)
         /\ Room'[<<c, ".rejected">>] = RejectedSize(c)'
         /\ Room[<<c, ".abandoned">>] = abandoned[c]
         /\ Room'[<<c, ".abandoned">>] = abandoned'[c]
<1>1. Size' = Size
  BY DEF Size
<1> QED
  BY <1>1 DEF SizesTyped

LEMMA RoomKept ==
  ASSUME SizesTyped, SizesTyped', NEW c \in Contents
  PROVE  /\ RejectedSize(c)' = RejectedSize(c) => Room'[<<c, ".rejected">>] = Room[<<c, ".rejected">>]
         /\ abandoned'[c] = abandoned[c] => Room'[<<c, ".abandoned">>] = Room[<<c, ".abandoned">>]
         /\ (PartSize(c)' = PartSize(c) /\ (Admitted(c)' <=> Admitted(c)))
               => Room'[<<c, ".partial">>] = Room[<<c, ".partial">>]
<1>1. ASSUME RejectedSize(c)' = RejectedSize(c)
      PROVE  Room'[<<c, ".rejected">>] = Room[<<c, ".rejected">>]
  BY <1>1, RoomsNow
<1>2. ASSUME abandoned'[c] = abandoned[c]
      PROVE  Room'[<<c, ".abandoned">>] = Room[<<c, ".abandoned">>]
  BY <1>2, RoomsNow
<1>3. ASSUME PartSize(c)' = PartSize(c), Admitted(c)' <=> Admitted(c)
      PROVE  Room'[<<c, ".partial">>] = Room[<<c, ".partial">>]
  BY <1>3, RoomsNow
<1> QED
  BY <1>1, <1>2, <1>3

\* No more is set apart if .partial is no longer, or was admitted and has its size.
LEMMA RoomOfPartial ==
  ASSUME SizesTyped, SizesTyped', NEW c \in Contents, Admitted(c)' => Admitted(c),
         PartSize(c)' <= PartSize(c) \/ (Admitted(c) /\ PartSize(c)' <= Size)
  PROVE  Room'[<<c, ".partial">>] <= Room[<<c, ".partial">>]
<1> DEFINE old == Room[<<c, ".partial">>]
           new == Room'[<<c, ".partial">>]
<1>1. old = IF Admitted(c) /\ PartSize(c) < Size THEN Size ELSE PartSize(c)
  BY RoomsNow
<1>2. new = IF Admitted(c)' /\ PartSize(c)' < Size THEN Size ELSE PartSize(c)'
  BY RoomsNow
<1>3. PartSize(c) \in Nat /\ PartSize(c)' \in Nat /\ Size \in Nat
  BY RoomsNow DEF SizesTyped
<1> HIDE DEF old, new
<1>4. new <= old
  BY <1>1, <1>2, <1>3
<1> QED
  BY <1>4 DEF old, new

LEMMA RoomElsewhere ==
  ASSUME Typed, Typed', NEW p \in Procs, NEW c \in Contents, Sends[p] = c, Moved(p), Elsewhere(c)
  PROVE  \A w \in Files : w[1] # c => Room'[w] = Room[w]
<1>1. SizesTyped /\ SizesTyped'
  BY SizesAreTyped, PTL
<1> SUFFICES ASSUME NEW w \in Files, w[1] # c PROVE Room'[w] = Room[w]
  OBVIOUS
<1>2. PICK d \in Contents, kind \in Kinds : w = <<d, kind>>
  BY DEF Files
<1>3. d # c /\ (Admitted(d)' <=> Admitted(d))
  BY <1>2, AdmittedElsewhere
<1>4. PartSize(d)' = PartSize(d) /\ RejectedSize(d)' = RejectedSize(d) /\ abandoned'[d] = abandoned[d]
  BY <1>3 DEF Elsewhere, PartSize, RejectedSize
<1>5. /\ Room'[<<d, ".partial">>] = Room[<<d, ".partial">>]
      /\ Room'[<<d, ".rejected">>] = Room[<<d, ".rejected">>]
      /\ Room'[<<d, ".abandoned">>] = Room[<<d, ".abandoned">>]
  BY <1>1, <1>3, <1>4, RoomKept
<1> QED
  BY <1>2, <1>5 DEF Kinds

\* Counting is about a function of the files: what holds for any, holds for the next.
LEMMA NextBytes ==
  ASSUME NEW most \in Int, IsFiniteSet(Bytes(Room')), Cardinality(Bytes(Room')) <= most, most <= Bound
  PROVE  Within'
<1>1. Bytes(Room)' = Bytes(Room')
  BY DEF Bytes
<1>2. Cardinality(Bytes(Room')) \in Nat
  BY FS_CardinalityType
<1>3. Bound \in Int /\ Bound' = Bound
  <2>1. Cardinality(Contents) \in Nat /\ Size \in Nat
    BY AttachAssumption, FS_CardinalityType DEF Size
  <2> QED
    BY <2>1, AttachAssumption DEF Bound
<1> QED
  BY <1>1, <1>2, <1>3 DEF Within

\* A step that sets no more room apart.
LEMMA NoMoreRoom ==
  ASSUME Typed, Typed', NEW p \in Procs, NEW c \in Contents, Sends[p] = c, Quiet(p, c),
         Moved(p), Elsewhere(c), UNCHANGED <<rejected, abandoned>>, Within,
         Here(p, c)' => Here(p, c),
         PartSize(c)' <= PartSize(c) \/ (Here(p, c) /\ PartSize(c)' <= Size)
  PROVE  Within'
<1>1. SizesTyped /\ SizesTyped'
  BY SizesAreTyped, PTL
<1>2. Admitted(c)' => Admitted(c)
  BY AdmittedHere
<1>3. Room'[<<c, ".partial">>] <= Room[<<c, ".partial">>]
  <2>1. Here(p, c) <=> Admitted(c)
    BY AdmittedHere
  <2> QED
    BY <1>1, <1>2, <2>1, RoomOfPartial
<1>4. RejectedSize(c)' = RejectedSize(c) /\ abandoned'[c] = abandoned[c]
  BY DEF RejectedSize
<1>5. /\ Room'[<<c, ".rejected">>] = Room[<<c, ".rejected">>]
      /\ Room'[<<c, ".abandoned">>] = Room[<<c, ".abandoned">>]
  BY <1>1, <1>4, RoomKept
<1>6. Room \in [Files -> Nat] /\ Room' \in [Files -> Nat]
  BY <1>1 DEF SizesTyped
<1>7. \A w \in Files : Room'[w] <= Room[w]
  <2> TAKE w \in Files
  <2>1. CASE w[1] # c
    BY <1>6, <2>1, RoomElsewhere
  <2>2. CASE w[1] = c
    <3>1. w \in {<<c, ".partial">>, <<c, ".rejected">>, <<c, ".abandoned">>}
      BY <2>2 DEF Files, Kinds
    <3>2. Room[w] \in Nat
      BY <1>6
    <3> QED
      BY <1>3, <1>5, <3>1, <3>2
  <2> QED
    BY <2>1, <2>2
<1>8. IsFiniteSet(Bytes(Room')) /\ Cardinality(Bytes(Room')) <= Cardinality(Bytes(Room))
  BY <1>6, <1>7, NotMore DEF Within
<1>9. Cardinality(Bytes(Room)) \in Int
  BY FS_CardinalityType DEF Within
<1> QED
  BY <1>8, <1>9, NextBytes DEF Within

\* .partial is moved aside and nothing is in progress.
LEMMA RoomMovedAside ==
  ASSUME Typed, Typed', NEW p \in Procs, NEW c \in Contents, Sends[p] = c, Quiet(p, c),
         Moved(p), Elsewhere(c), Within, ~Here(p, c)', part'[c] = NoFile,
         \/ abandoned'[c] = abandoned[c] + PartSize(c) /\ rejected'[c] = rejected[c]
         \/ rejected'[c] = part[c] /\ abandoned'[c] = abandoned[c]
  PROVE  Within'
<1> DEFINE wp == <<c, ".partial">>
           wr == <<c, ".rejected">>
           wa == <<c, ".abandoned">>
<1>1. SizesTyped /\ SizesTyped'
  BY SizesAreTyped, PTL
<1>2. /\ wp \in Files /\ wr \in Files /\ wa \in Files /\ wp # wr /\ wp # wa /\ wr # wa
  BY DEF Files, Kinds
<1>3. ~Admitted(c)' /\ PartSize(c)' = 0
  BY AdmittedHere, LengthTyped DEF PartSize
<1>4. Room'[wp] = 0 /\ PartSize(c) <= Room[wp] /\ Room[wp] \in Nat
  BY <1>1, <1>2, <1>3 DEF SizesTyped
<1>5. /\ Room[wr] = RejectedSize(c) /\ Room'[wr] = RejectedSize(c)'
      /\ Room[wa] = abandoned[c] /\ Room'[wa] = abandoned'[c]
      /\ Room[wr] \in Nat /\ Room[wa] \in Nat /\ PartSize(c) \in Nat
  BY <1>1, <1>2 DEF SizesTyped
<1>6. Room \in [Files -> Nat] /\ Room' \in [Files -> Nat]
  BY <1>1 DEF SizesTyped
<1>7. \A w \in Files : (w # wp /\ w # wr /\ w # wa) => Room'[w] <= Room[w]
  <2> TAKE w \in Files
  <2>1. CASE w[1] # c
    BY <1>6, <2>1, RoomElsewhere
  <2>2. CASE w[1] = c
    BY <2>2 DEF Files, Kinds
  <2> QED
    BY <2>1, <2>2
<1> HIDE DEF wp, wr, wa
<1>8. IsFiniteSet(Bytes(Room')) /\ Cardinality(Bytes(Room')) <= Cardinality(Bytes(Room))
  <2>1. CASE abandoned'[c] = abandoned[c] + PartSize(c) /\ rejected'[c] = rejected[c]
    <3>1. Room'[wa] <= Room[wa] + Room[wp] /\ Room'[wr] <= Room[wr]
      <4>1. Room'[wr] = Room[wr]
        BY <1>5, <2>1 DEF RejectedSize
      <4> QED
        BY <1>4, <1>5, <2>1, <4>1
    <3>2. \A w \in Files : (w # wp /\ w # wa) => Room'[w] <= Room[w]
      BY <1>7, <3>1
    <3> QED
      BY <1>2, <1>4, <1>6, <3>1, <3>2, MovedAside DEF Within
  <2>2. CASE rejected'[c] = part[c] /\ abandoned'[c] = abandoned[c]
    <3>1. Room'[wr] <= Room[wr] + Room[wp] /\ Room'[wa] <= Room[wa]
      <4>1. Room'[wr] = PartSize(c)
        BY <1>5, <2>2 DEF PartSize, RejectedSize
      <4> QED
        BY <1>4, <1>5, <2>2, <4>1
    <3>2. \A w \in Files : (w # wp /\ w # wr) => Room'[w] <= Room[w]
      BY <1>7, <3>1
    <3> QED
      BY <1>2, <1>4, <1>6, <3>1, <3>2, MovedAside DEF Within
  <2> QED
    BY <2>1, <2>2
<1>9. Cardinality(Bytes(Room)) \in Int
  BY FS_CardinalityType DEF Within
<1> QED
  BY <1>8, <1>9, NextBytes DEF Within

\* A transfer is admitted that fits: the others add at most their contents.
LEMMA RoomAdmitted ==
  ASSUME Typed, Typed', Within, UNCHANGED files, WorkUsed + Size <= MaxWork
  PROVE  Within'
<1>1. SizesTyped /\ SizesTyped'
  BY SizesAreTyped, PTL
<1>2. FileSize' = FileSize
  BY DEF files, FileSize, PartSize, Length
<1>3. ASSUME NEW w \in Files
      PROVE  Room'[w] <= FileSize[w] \/ (w[2] = ".partial" /\ Room'[w] <= Size)
  <2>1. Room'[w] = FileSize'[w] \/ (w[2] = ".partial" /\ Room'[w] = Size)
    BY DEF Room
  <2> QED
    BY <1>1, <1>2, <2>1, RoomsNow DEF SizesTyped
<1>4. FileSize \in [Files -> Nat] /\ Room' \in [Files -> Nat] /\ Room \in [Files -> Nat] /\ Size \in Nat
  BY <1>1 DEF SizesTyped
<1>5. IsFiniteSet(Bytes(FileSize)) /\ Cardinality(Bytes(FileSize)) \in Nat
  <2>1. \A w \in Files : FileSize[w] <= Room[w]
    BY <1>1 DEF SizesTyped
  <2>2. IsFiniteSet(Bytes(FileSize))
    BY <1>4, <2>1, NotMore DEF Within
  <2> QED
    BY <2>2, FS_CardinalityType
<1>6. /\ IsFiniteSet(Bytes(Room'))
      /\ Cardinality(Bytes(Room')) <= Cardinality(Bytes(FileSize)) + Cardinality(Contents) * Size
  BY <1>3, <1>4, <1>5, AtMostContents
<1>7. Cardinality(Contents) \in Nat
  BY AttachAssumption, FS_CardinalityType
<1>8. /\ Cardinality(Bytes(FileSize)) + Cardinality(Contents) * Size \in Int
      /\ Cardinality(Bytes(FileSize)) + Cardinality(Contents) * Size <= Bound
  BY <1>4, <1>5, <1>7, AttachAssumption DEF Bound, WorkUsed
<1> QED
  BY <1>6, <1>8, NextBytes

-----------------------------------------------------------------------------
(* A step of a running call *)

LEMMA AloneQuiet ==
  ASSUME AttachInv, NEW p \in Procs, NEW c \in Contents, Sends[p] = c, ~Ready(p), c \notin overlap
  PROVE  Quiet(p, c)
  BY DEF AttachInv, Alone, Quiet, Ready

\* What a step of the call on c must bring about; the others do not run on c.
LEMMA RunningStep ==
  ASSUME AttachInv, NEW p \in Procs, NEW c \in Contents, Sends[p] = c, ~Ready(p),
         Moved(p), Elsewhere(c), Typed', UNCHANGED overlap, halfMoved \subseteq halfMoved',
         call'[p].at # "ready" => call'[p].expected = call'[p].send,
         call'[p].at = "fresh" => call'[p].expected = 0,
         c \notin overlap => CallInv(p, c)' /\ (stored'[c] = stored[c] \/ stored'[c] = Content),
         (Quiet(p, c) /\ Within /\ c \notin overlap /\ halfMoved' = {}) => Within'
  PROVE  AttachInv'
<1>1. ASSUME NEW q \in Procs, q # p
      PROVE  /\ call'[q] = call[q]
             /\ (Sends[q] = c /\ c \notin overlap) => call[q].at = "ready"
             /\ Sends[q] # c => CallInv(q, Sends[q])' = CallInv(q, Sends[q])
  <2>1. call'[q] = call[q]
    BY <1>1 DEF Moved
  <2>2. (Sends[q] = c /\ c \notin overlap) => call[q].at = "ready"
    BY <1>1 DEF AttachInv, Alone, Ready
  <2>3. ASSUME Sends[q] # c PROVE CallInv(q, Sends[q])' = CallInv(q, Sends[q])
    <3>1. Sends[q] \in Contents \ {c}
      BY <2>3, AttachAssumption
    <3> QED
      BY <2>1, <3>1 DEF CallInv, Elsewhere, PartSize
  <2> QED
    BY <2>1, <2>2, <2>3
<1>2. Running'
  BY <1>1 DEF AttachInv, Running, Ready
<1>3. Alone'
  <2> SUFFICES ASSUME NEW q \in Procs, NEW r \in Procs, Sends[q] = Sends[r], Sends[q] \notin overlap,
                      ~Ready(q)', ~Ready(r)'
               PROVE  q = r
    BY DEF Alone
  <2>1. ~Ready(q) /\ ~Ready(r)
    BY <1>1 DEF Ready
  <2> QED
    BY <2>1 DEF AttachInv, Alone
<1>4. CallsInv'
  <2> SUFFICES ASSUME NEW q \in Procs PROVE CallInv(q, Sends[q])'
    BY DEF CallsInv
  <2>1. CASE q = p
    BY <2>1 DEF CallInv
  <2>2. CASE q # p /\ Sends[q] = c
    <3>1. c \in overlap' \/ call'[q].at = "ready"
      BY <1>1, <2>2
    <3> QED
      BY <2>2, <3>1 DEF CallInv
  <2>3. CASE q # p /\ Sends[q] # c
    BY <1>1, <2>3 DEF AttachInv, CallsInv
  <2> QED
    BY <2>1, <2>2, <2>3
<1>5. QuotaInv'
  <2> SUFFICES ASSUME overlap = {}, halfMoved' = {} PROVE Within'
    BY DEF QuotaInv
  <2>1. Within /\ c \notin overlap
    BY DEF AttachInv, QuotaInv
  <2> QED
    BY <2>1, AloneQuiet
<1>6. StoredIsRight'
  <2> SUFFICES ASSUME NEW d \in Contents PROVE stored'[d] # NoFile => (stored'[d] = Content \/ d \in overlap)
    BY DEF StoredIsRight, HasStored
  <2>1. stored[d] # NoFile => (stored[d] = Content \/ d \in overlap)
    BY DEF AttachInv, StoredIsRight, HasStored
  <2>2. CASE d = c
    BY <2>1, <2>2
  <2>3. CASE d # c
    BY <2>1, <2>3 DEF Elsewhere
  <2> QED
    BY <2>2, <2>3
<1> QED
  BY <1>2, <1>3, <1>4, <1>5, <1>6 DEF AttachInv

\* What the invariant says of a call that runs.
LEMMA RunningTyped ==
  ASSUME AttachInv, NEW p \in Procs, NEW c \in Contents, Sends[p] = c, ~Ready(p)
  PROVE  /\ Typed
         /\ call[p].at = "fresh" => call[p].expected = 0
         /\ call[p].expected = call[p].send /\ call[p].send \in 0 .. N - 1
         /\ CallInv(p, c) /\ part[c] \in Seq(Int) /\ PartSize(c) \in Nat /\ Size \in Nat
         /\ meta[c] \in {NoMeta, Empty} \cup 1 .. N
<1>1. Typed /\ CallInv(p, c) /\ call[p] \in Call
  BY DEF AttachInv, CallsInv, Typed
<1>2. part[c] \in Seq(Int) /\ meta[c] \in {NoMeta, Empty} \cup 1 .. N /\ PartSize(c) \in Nat
  BY <1>1, LengthTyped DEF Typed, PartSize
<1>3. Size \in Nat
  BY AttachAssumption DEF Size
<1> QED
  BY <1>1, <1>2, <1>3 DEF AttachInv, Running, Call, Seqs

-----------------------------------------------------------------------------
(* The steps of receive_chunk *)

LEMMA AbandonPartSafe ==
  ASSUME AttachInv, NEW p \in Procs, NEW c \in Contents, Sends[p] = c, AbandonPart(p, c)
  PROVE  AttachInv'
<1>1. /\ call[p].at = "fresh" /\ ~Ready(p) /\ call' = call
      /\ abandoned' = [abandoned EXCEPT ![c] = @ + PartSize(c)]
      /\ part' = [part EXCEPT ![c] = NoFile]
      /\ meta' = meta /\ stored' = stored /\ rejected' = rejected
      /\ overlap' = overlap /\ halfMoved' = halfMoved
  BY DEF AbandonPart, Ready, noted
<1>2. Typed /\ PartSize(c) \in Nat /\ call[p].expected = call[p].send /\ call[p].expected = 0
  BY <1>1, RunningTyped
<1>3. Typed' /\ Moved(p) /\ Elsewhere(c)
  BY <1>1, <1>2, LengthTyped DEF Typed, Moved, Elsewhere
<1>4. part'[c] = NoFile /\ abandoned'[c] = abandoned[c] + PartSize(c)
  BY <1>1, <1>2 DEF Typed
<1>5. CallInv(p, c)'
  BY <1>1 DEF CallInv
<1>6. (Quiet(p, c) /\ Within) => Within'
  <2>1. ~Here(p, c)'
    BY <1>1, <1>4 DEF Here, HalfAside, AdmittedBy
  <2> QED
    BY <1>1, <1>2, <1>3, <1>4, <2>1, RoomMovedAside
<1> QED
  BY <1>1, <1>2, <1>3, <1>5, <1>6, RunningStep

LEMMA AbandonMetaSafe ==
  ASSUME AttachInv, NEW p \in Procs, NEW c \in Contents, Sends[p] = c, AbandonMeta(p, c)
  PROVE  AttachInv'
<1>1. /\ call[p].at = "fresh" /\ ~Ready(p) /\ Goes(p, "moved")
      /\ meta' = [meta EXCEPT ![c] = NoMeta]
      /\ part' = part /\ stored' = stored /\ rejected' = rejected /\ abandoned' = abandoned
      /\ overlap' = overlap /\ halfMoved' = halfMoved
  BY DEF AbandonMeta, Ready, noted
<1>2. Typed /\ PartSize(c) \in Nat /\ call[p].expected = call[p].send /\ call[p].expected = 0
  BY <1>1, RunningTyped
<1>3. /\ Moved(p) /\ call'[p].at = "moved" /\ call'[p].expected = 0
      /\ call'[p].send = call'[p].expected
  BY <1>1, <1>2, GoesTyped
<1>4. Typed' /\ Elsewhere(c) /\ meta'[c] = NoMeta
  BY <1>1, <1>2, <1>3 DEF Typed, Moved, Elsewhere
<1>5. CallInv(p, c)'
  BY <1>3 DEF CallInv
<1>6. (Quiet(p, c) /\ Within) => Within'
  <2>1. ~Here(p, c)'
    BY <1>3, <1>4 DEF Here, AdmittedBy, InProgress, NextSeq
  <2>2. PartSize(c)' <= PartSize(c)
    BY <1>1, <1>2 DEF PartSize
  <2> QED
    BY <1>1, <1>2, <1>3, <1>4, <2>1, <2>2, NoMoreRoom
<1> QED
  BY <1>1, <1>2, <1>3, <1>4, <1>5, <1>6, RunningStep

LEMMA CheckRoomSafe ==
  ASSUME AttachInv, NEW p \in Procs, NEW c \in Contents, Sends[p] = c, CheckRoom(p, c)
  PROVE  AttachInv'
<1>1. /\ call[p].at = "moved" /\ ~Ready(p) /\ UNCHANGED files
      /\ part' = part /\ meta' = meta /\ stored' = stored /\ rejected' = rejected
      /\ abandoned' = abandoned /\ overlap' = overlap /\ halfMoved' = halfMoved
  BY DEF CheckRoom, Ready, noted, files
<1>2. /\ Typed /\ PartSize(c) \in Nat /\ Size \in Nat /\ call[p].expected = call[p].send
      /\ call[p].send \in 0 .. N - 1
  BY <1>1, RunningTyped
<1>3. PartSize(c)' = PartSize(c) /\ Elsewhere(c)
  BY <1>1 DEF PartSize, Elsewhere
<1>4. CASE Fits(p, c) /\ Goes(p, "checked")
  <2>1. /\ Moved(p) /\ call'[p].at = "checked" /\ call'[p].send = call[p].send
        /\ call'[p].expected = call[p].expected
    BY <1>2, <1>4, GoesTyped
  <2>2. Typed'
    BY <1>1, <1>2, <2>1 DEF Typed, Moved
  <2>3. CallInv(p, c)'
    BY <1>3, <1>4, <2>1 DEF CallInv, Fits, Size
  <2>4. (Quiet(p, c) /\ Within) => Within'
    <3>1. CASE call[p].expected = 0
      BY <1>1, <1>2, <1>4, <2>2, <3>1, RoomAdmitted DEF Fits
    <3>2. CASE call[p].expected > 0
      <4>1. Here(p, c)
        BY <1>1, <3>2 DEF Here, AdmittedBy
      <4> QED
        BY <1>1, <1>2, <1>3, <2>1, <2>2, <4>1, NoMoreRoom
    <3> QED
      BY <1>2, <3>1, <3>2, AttachAssumption
  <2> QED
    BY <1>1, <1>2, <1>3, <2>1, <2>2, <2>3, <2>4, RunningStep
<1>5. CASE Raises(p)
  <2>1. Moved(p) /\ call'[p].at = "ready"
    BY <1>2, <1>5, EndsTyped
  <2>2. Typed'
    BY <1>1, <1>2, <2>1 DEF Typed, Moved
  <2>3. CallInv(p, c)'
    BY <2>1 DEF CallInv
  <2>4. (Quiet(p, c) /\ Within) => Within'
    <3>1. Here(p, c)' => Here(p, c)
      BY <1>1, <2>1 DEF Here, HalfAside, AdmittedBy, InProgress, NextSeq
    <3> QED
      BY <1>1, <1>2, <1>3, <2>1, <2>2, <3>1, NoMoreRoom
  <2> QED
    BY <1>1, <1>2, <1>3, <2>1, <2>2, <2>3, <2>4, RunningStep
<1> QED
  BY <1>4, <1>5 DEF CheckRoom

LEMMA AppendSafe ==
  ASSUME AttachInv, NEW p \in Procs, NEW c \in Contents, Sends[p] = c, Append1(p, c)
  PROVE  AttachInv'
<1>1. /\ call[p].at = "checked" /\ ~Ready(p) /\ part' = Appended(c, Data(p)) /\ Goes(p, "appended")
      /\ meta' = meta /\ stored' = stored /\ rejected' = rejected
      /\ abandoned' = abandoned /\ overlap' = overlap /\ halfMoved' = halfMoved
  BY DEF Append1, Ready, noted
<1>2. /\ Typed /\ PartSize(c) \in Nat /\ Size \in Nat /\ CallInv(p, c)
      /\ call[p].expected = call[p].send
  BY <1>1, RunningTyped
<1>3. /\ Moved(p) /\ call'[p].at = "appended" /\ call'[p].send = call[p].send
      /\ call'[p].expected = call[p].expected
  BY <1>1, <1>2, GoesTyped
<1>4. /\ part' \in [Contents -> Seq(Int)] /\ \A d \in Contents \ {c} : part'[d] = part[d]
      /\ PartSize(c)' \in Nat /\ PartSize(c)' <= PartSize(c) + 2
  <2>1. Data(p) \in Seq(Int) /\ Len(Data(p)) = 2
    BY <1>2, DataTyped
  <2> QED
    BY <1>1, <1>2, <2>1, AppendedTyped
<1>5. Typed' /\ Elsewhere(c)
  BY <1>1, <1>2, <1>3, <1>4 DEF Typed, Moved, Elsewhere
<1>6. CallInv(p, c)'
  BY <1>3 DEF CallInv
<1>7. (Quiet(p, c) /\ Within /\ c \notin overlap) => Within'
  <2>1. Here(p, c) /\ (c \notin overlap => PartSize(c) + 2 <= Size)
    BY <1>1, <1>2 DEF Here, AdmittedBy, CallInv
  <2> QED
    BY <1>1, <1>2, <1>3, <1>4, <1>5, <2>1, NoMoreRoom
<1> QED
  BY <1>1, <1>2, <1>3, <1>5, <1>6, <1>7, RunningStep

LEMMA WriteMetaSafe ==
  ASSUME AttachInv, NEW p \in Procs, NEW c \in Contents, Sends[p] = c, WriteMeta(p, c)
  PROVE  AttachInv'
<1>1. /\ call[p].at = "appended" /\ ~Ready(p)
      /\ meta' = [meta EXCEPT ![c] = call[p].expected + 1]
      /\ (IsLast(p) /\ Goes(p, "counted")) \/ Returns(p)
      /\ part' = part /\ stored' = stored /\ rejected' = rejected
      /\ abandoned' = abandoned /\ overlap' = overlap /\ halfMoved' = halfMoved
  BY DEF WriteMeta, Ready, noted
<1>2. /\ Typed /\ PartSize(c) \in Nat /\ call[p].expected = call[p].send
      /\ call[p].expected \in 0 .. N - 1
  BY <1>1, RunningTyped
<1>3. /\ call[p].expected + 1 \in 1 .. N /\ (IsLast(p) => call[p].expected + 1 = N)
      /\ meta' \in [Contents -> {NoMeta, Empty} \cup 1 .. N] /\ meta'[c] = call[p].expected + 1
  <2>1. call[p].expected + 1 \in 1 .. N /\ (IsLast(p) => call[p].expected + 1 = N)
    BY <1>2, AttachAssumption DEF IsLast
  <2>2. meta \in [Contents -> {NoMeta, Empty} \cup 1 .. N]
    BY <1>2 DEF Typed
  <2> QED
    BY <1>1, <2>1, <2>2
<1>4. /\ Moved(p)
      /\ \/ call'[p].at = "counted" /\ call'[p].send = call'[p].expected /\ meta'[c] = N
         \/ call'[p].at = "ready"
  <2>1. CASE IsLast(p) /\ Goes(p, "counted")
    BY <1>2, <1>3, <2>1, GoesTyped
  <2>2. CASE Returns(p)
    BY <1>2, <2>2, EndsTyped
  <2> QED
    BY <1>1, <2>1, <2>2
<1>5. Typed' /\ Elsewhere(c) /\ PartSize(c)' = PartSize(c)
  BY <1>1, <1>2, <1>3, <1>4 DEF Typed, Moved, Elsewhere, PartSize
<1>6. CallInv(p, c)'
  BY <1>4 DEF CallInv
<1>7. (Quiet(p, c) /\ Within) => Within'
  <2>1. Here(p, c)
    BY <1>1 DEF Here, AdmittedBy
  <2> QED
    BY <1>1, <1>2, <1>4, <1>5, <2>1, NoMoreRoom
<1> QED
  BY <1>1, <1>4, <1>5, <1>6, <1>7, RunningStep

LEMMA VerifySafe ==
  ASSUME AttachInv, NEW p \in Procs, NEW c \in Contents, Sends[p] = c, Verify(p, c)
  PROVE  AttachInv'
<1>1. /\ call[p].at = "counted" /\ ~Ready(p)
      /\ \/ Verified(c) /\ Goes(p, "verified")
         \/ Goes(p, "bad")
         \/ Raises(p)
      /\ part' = part /\ meta' = meta /\ stored' = stored /\ rejected' = rejected
      /\ abandoned' = abandoned /\ overlap' = overlap /\ halfMoved' = halfMoved
  BY DEF Verify, Ready, noted, files
<1>2. /\ Typed /\ PartSize(c) \in Nat /\ CallInv(p, c) /\ call[p].expected = call[p].send
  BY <1>1, RunningTyped
<1>3. /\ Moved(p)
      /\ \/ call'[p].at = "verified" /\ part'[c] = Content /\ call'[p].send = call'[p].expected
         \/ call'[p].at = "bad" /\ call'[p].send = call'[p].expected
         \/ call'[p].at = "ready"
  <2>1. CASE Verified(c) /\ Goes(p, "verified")
    BY <1>1, <1>2, <2>1, GoesTyped DEF Verified
  <2>2. CASE Goes(p, "bad")
    BY <1>2, <2>2, GoesTyped
  <2>3. CASE Raises(p)
    BY <1>2, <2>3, EndsTyped
  <2> QED
    BY <1>1, <2>1, <2>2, <2>3
<1>4. Typed' /\ Elsewhere(c) /\ PartSize(c)' = PartSize(c)
  BY <1>1, <1>2, <1>3 DEF Typed, Moved, Elsewhere, PartSize
<1>5. CallInv(p, c)'
  BY <1>1, <1>2, <1>3 DEF CallInv
<1>6. (Quiet(p, c) /\ Within) => Within'
  <2>1. Here(p, c)' => Here(p, c)
    BY <1>1, <1>3 DEF Here, HalfAside, AdmittedBy, InProgress, NextSeq
  <2> QED
    BY <1>1, <1>2, <1>3, <1>4, <2>1, NoMoreRoom
<1> QED
  BY <1>1, <1>3, <1>4, <1>5, <1>6, RunningStep

LEMMA StoreSafe ==
  ASSUME AttachInv, NEW p \in Procs, NEW c \in Contents, Sends[p] = c, StorePart(p, c)
  PROVE  AttachInv'
<1>1. /\ call[p].at = "verified" /\ ~Ready(p)
      /\ meta' = meta /\ rejected' = rejected
      /\ abandoned' = abandoned /\ overlap' = overlap /\ halfMoved' = halfMoved
  BY DEF StorePart, Ready, noted
<1>2. /\ Typed /\ PartSize(c) \in Nat /\ CallInv(p, c) /\ call[p].expected = call[p].send
      /\ part[c] \in Seq(Int)
  BY <1>1, RunningTyped
<1>3. /\ Moved(p)
      /\ \/ call'[p].at = "ready"
         \/ call'[p].at = "stored" /\ call'[p].send = call'[p].expected
      /\ \/ part' = part /\ stored' = stored
         \/ stored' = [stored EXCEPT ![c] = part[c]] /\ part' = [part EXCEPT ![c] = NoFile]
  <2>1. CASE part[c] = NoFile /\ Raises(p) /\ UNCHANGED <<part, stored>>
    BY <1>2, <2>1, EndsTyped
  <2>2. CASE /\ stored' = [stored EXCEPT ![c] = part[c]] /\ part' = [part EXCEPT ![c] = NoFile]
             /\ Goes(p, "stored")
    BY <1>2, <2>2, GoesTyped
  <2> QED
    BY <2>1, <2>2 DEF StorePart
<1>4. /\ Typed' /\ Elsewhere(c)
      /\ \/ part'[c] = part[c] /\ stored'[c] = stored[c]
         \/ part'[c] = NoFile /\ stored'[c] = part[c]
  <2>1. CASE part' = part /\ stored' = stored
    BY <1>1, <1>2, <1>3, <2>1 DEF Typed, Moved, Elsewhere
  <2>2. CASE stored' = [stored EXCEPT ![c] = part[c]] /\ part' = [part EXCEPT ![c] = NoFile]
    <3>1. /\ part \in [Contents -> Seq(Int)] /\ stored \in [Contents -> Seq(Int)]
          /\ part[c] \in Seq(Int) /\ NoFile \in Seq(Int)
      BY <1>2, LengthTyped DEF Typed
    <3>2. /\ part' \in [Contents -> Seq(Int)] /\ stored' \in [Contents -> Seq(Int)]
          /\ part'[c] = NoFile /\ stored'[c] = part[c]
          /\ \A d \in Contents \ {c} : part'[d] = part[d] /\ stored'[d] = stored[d]
      BY <2>2, <3>1
    <3> QED
      BY <1>1, <1>2, <1>3, <3>2 DEF Typed, Moved, Elsewhere
  <2> QED
    BY <1>3, <2>1, <2>2
<1>5. PartSize(c)' <= PartSize(c)
  BY <1>2, <1>4, LengthTyped DEF PartSize
<1>6. CallInv(p, c)'
  BY <1>1, <1>2, <1>3 DEF CallInv
<1>7. c \notin overlap => (stored'[c] = stored[c] \/ stored'[c] = Content)
  BY <1>1, <1>2, <1>4 DEF CallInv
<1>8. (Quiet(p, c) /\ Within) => Within'
  <2>1. Here(p, c)' => Here(p, c)
    BY <1>1, <1>3 DEF Here, HalfAside, AdmittedBy, InProgress, NextSeq
  <2> QED
    BY <1>1, <1>2, <1>3, <1>4, <1>5, <2>1, NoMoreRoom
<1> QED
  BY <1>1, <1>3, <1>4, <1>6, <1>7, <1>8, RunningStep

LEMMA RejectSafe ==
  ASSUME AttachInv, NEW p \in Procs, NEW c \in Contents, Sends[p] = c, RejectPart(p, c)
  PROVE  AttachInv'
<1>1. /\ call[p].at = "bad" /\ ~Ready(p)
      /\ meta' = meta /\ stored' = stored
      /\ abandoned' = abandoned /\ overlap' = overlap /\ halfMoved' = halfMoved
  BY DEF RejectPart, Ready, noted
<1>2. /\ Typed /\ PartSize(c) \in Nat /\ CallInv(p, c) /\ call[p].expected = call[p].send
      /\ part[c] \in Seq(Int)
  BY <1>1, RunningTyped
<1>3. /\ Moved(p)
      /\ \/ call'[p].at = "ready"
         \/ call'[p].at = "badMoved" /\ call'[p].send = call'[p].expected
      /\ \/ part' = part /\ rejected' = rejected
         \/ rejected' = [rejected EXCEPT ![c] = part[c]] /\ part' = [part EXCEPT ![c] = NoFile]
  <2>1. CASE part[c] = NoFile /\ Raises(p) /\ UNCHANGED <<part, rejected>>
    BY <1>2, <2>1, EndsTyped
  <2>2. CASE /\ rejected' = [rejected EXCEPT ![c] = part[c]] /\ part' = [part EXCEPT ![c] = NoFile]
             /\ Goes(p, "badMoved")
    BY <1>2, <2>2, GoesTyped
  <2> QED
    BY <2>1, <2>2 DEF RejectPart
<1>4. /\ Typed' /\ Elsewhere(c)
      /\ \/ part' = part /\ rejected' = rejected
         \/ part'[c] = NoFile /\ rejected'[c] = part[c]
  <2>1. CASE part' = part /\ rejected' = rejected
    BY <1>1, <1>2, <1>3, <2>1 DEF Typed, Moved, Elsewhere
  <2>2. CASE rejected' = [rejected EXCEPT ![c] = part[c]] /\ part' = [part EXCEPT ![c] = NoFile]
    <3>1. /\ part \in [Contents -> Seq(Int)] /\ rejected \in [Contents -> Seq(Int)]
          /\ part[c] \in Seq(Int) /\ NoFile \in Seq(Int)
      BY <1>2, LengthTyped DEF Typed
    <3>2. /\ part' \in [Contents -> Seq(Int)] /\ rejected' \in [Contents -> Seq(Int)]
          /\ part'[c] = NoFile /\ rejected'[c] = part[c]
          /\ \A d \in Contents \ {c} : part'[d] = part[d] /\ rejected'[d] = rejected[d]
      BY <2>2, <3>1
    <3> QED
      BY <1>1, <1>2, <1>3, <3>2 DEF Typed, Moved, Elsewhere
  <2> QED
    BY <1>3, <2>1, <2>2
<1>5. CallInv(p, c)'
  BY <1>1, <1>2, <1>3 DEF CallInv
<1>6. (Quiet(p, c) /\ Within /\ c \notin overlap) => Within'
  <2> SUFFICES ASSUME Quiet(p, c), Within, c \notin overlap PROVE Within'
    OBVIOUS
  <2>1. meta[c] = N
    BY <1>1, <1>2 DEF CallInv
  <2>2. ~Here(p, c)'
    BY <1>1, <1>3, <2>1, AttachAssumption DEF Here, AdmittedBy, InProgress, NextSeq, NoMeta, Empty
  <2>3. CASE part'[c] = NoFile /\ rejected'[c] = part[c]
    <3>1. abandoned'[c] = abandoned[c]
      BY <1>1
    <3> QED
      BY <1>2, <1>3, <1>4, <2>2, <2>3, <3>1, RoomMovedAside
  <2>4. CASE part' = part /\ rejected' = rejected
    <3>1. PartSize(c)' <= PartSize(c)
      BY <1>2, <2>4 DEF PartSize
    <3> QED
      BY <1>1, <1>2, <1>3, <1>4, <2>2, <2>4, <3>1, NoMoreRoom
  <2> QED
    BY <1>4, <2>3, <2>4
<1> QED
  BY <1>1, <1>3, <1>4, <1>5, <1>6, RunningStep

LEMMA FinishSafe ==
  ASSUME AttachInv, NEW p \in Procs, NEW c \in Contents, Sends[p] = c, FinishMeta(p, c)
  PROVE  AttachInv'
<1>1. /\ call[p].at \in {"stored", "badMoved"} /\ ~Ready(p)
      /\ meta' = [meta EXCEPT ![c] = NoMeta] /\ (Returns(p) \/ Raises(p))
      /\ part' = part /\ stored' = stored /\ rejected' = rejected
      /\ abandoned' = abandoned /\ overlap' = overlap /\ halfMoved' = halfMoved
  BY DEF FinishMeta, Ready, noted
<1>2. Typed /\ PartSize(c) \in Nat
  BY <1>1, RunningTyped
<1>3. Moved(p) /\ call'[p].at = "ready"
  BY <1>1, <1>2, EndsTyped
<1>4. Typed' /\ Elsewhere(c) /\ meta'[c] = NoMeta /\ PartSize(c)' = PartSize(c)
  BY <1>1, <1>2, <1>3 DEF Typed, Moved, Elsewhere, PartSize
<1>5. CallInv(p, c)'
  BY <1>3 DEF CallInv
<1>6. (Quiet(p, c) /\ Within) => Within'
  <2>1. ~Here(p, c)'
    BY <1>3, <1>4 DEF Here, AdmittedBy, InProgress, NextSeq
  <2> QED
    BY <1>1, <1>2, <1>3, <1>4, <2>1, NoMoreRoom
<1> QED
  BY <1>1, <1>3, <1>4, <1>5, <1>6, RunningStep

LEMMA KillSafe ==
  ASSUME AttachInv, NEW p \in Procs, NEW c \in Contents, Sends[p] = c, Kill(p, c)
  PROVE  AttachInv'
<1>1. /\ ~Ready(p) /\ stored' = stored /\ rejected' = rejected
      /\ abandoned' = abandoned /\ overlap' = overlap
      /\ halfMoved' = halfMoved \cup {d \in {c} : HalfAside(p, c)}
      /\ \E k \in {0, call[p].send} : call' = [call EXCEPT ![p] = Idle(k)]
      /\ \/ part' = part /\ meta' = meta
         \/ call[p].at = "checked" /\ part' = Appended(c, <<Data(p)[1]>>) /\ meta' = meta
         \/ meta' = [meta EXCEPT ![c] = Empty] /\ part' = part
  BY DEF Kill, Ready, HalfAside
<1>2. /\ Typed /\ PartSize(c) \in Nat /\ Size \in Nat /\ CallInv(p, c)
  BY <1>1, RunningTyped
<1>3. Moved(p) /\ call'[p].at = "ready"
  BY <1>1, <1>2, EndsTyped
<1>4. CallInv(p, c)'
  BY <1>3 DEF CallInv
<1>5. halfMoved' \subseteq Contents /\ halfMoved \subseteq halfMoved' /\ (halfMoved' = {} => ~HalfAside(p, c))
  BY <1>1, <1>2 DEF Typed
<1>6. ASSUME part' = part, meta' = meta \/ meta' = [meta EXCEPT ![c] = Empty]
      PROVE  AttachInv'
  <2>1. Typed' /\ Elsewhere(c) /\ (meta'[c] = meta[c] \/ meta'[c] = Empty)
    BY <1>1, <1>2, <1>3, <1>5, <1>6 DEF Typed, Moved, Elsewhere
  <2>2. (Quiet(p, c) /\ Within /\ halfMoved' = {}) => Within'
    <3>1. PartSize(c)' = PartSize(c)
      BY <1>6 DEF PartSize
    <3>2. halfMoved' = {} => (Here(p, c)' => Here(p, c))
      BY <1>3, <1>5, <2>1 DEF Here, AdmittedBy, InProgress, NextSeq, Empty
    <3> QED
      BY <1>1, <1>2, <1>3, <2>1, <3>1, <3>2, NoMoreRoom
  <2> QED
    BY <1>1, <1>3, <1>4, <1>5, <2>1, <2>2, RunningStep
<1>7. CASE call[p].at = "checked" /\ part' = Appended(c, <<Data(p)[1]>>) /\ meta' = meta
  <2>1. /\ part' \in [Contents -> Seq(Int)] /\ \A d \in Contents \ {c} : part'[d] = part[d]
        /\ PartSize(c)' \in Nat /\ PartSize(c)' <= PartSize(c) + 1
    <3>1. <<Data(p)[1]>> \in Seq(Int) /\ Len(<<Data(p)[1]>>) = 1
      BY <1>2, DataTyped
    <3> QED
      BY <1>2, <1>7, <3>1, AppendedTyped
  <2>2. Typed' /\ Elsewhere(c)
    BY <1>1, <1>2, <1>3, <1>5, <1>7, <2>1 DEF Typed, Moved, Elsewhere
  <2>3. (Quiet(p, c) /\ Within /\ c \notin overlap) => Within'
    <3>1. Here(p, c) /\ (c \notin overlap => PartSize(c) + 2 <= Size)
      BY <1>2, <1>7 DEF Here, AdmittedBy, CallInv
    <3>2. c \notin overlap => PartSize(c)' <= Size
      BY <1>2, <2>1, <3>1
    <3> QED
      BY <1>1, <1>2, <1>3, <2>2, <3>1, <3>2, NoMoreRoom
  <2> QED
    BY <1>1, <1>3, <1>4, <1>5, <2>2, <2>3, RunningStep
<1> QED
  BY <1>1, <1>6, <1>7

-----------------------------------------------------------------------------
(* A call begins, or has nothing to do *)

\* No file changes.
FilesKept == UNCHANGED <<part, meta, stored, rejected, abandoned, halfMoved>>

LEMMA ReadyElsewhere ==
  ASSUME Typed, NEW p \in Procs, NEW c \in Contents, Sends[p] = c, Moved(p), FilesKept
  PROVE  /\ Elsewhere(c) /\ PartSize(c)' = PartSize(c)
         /\ overlap' \subseteq Contents => Typed'
<1>1. Elsewhere(c) /\ PartSize(c)' = PartSize(c)
  BY DEF Elsewhere, FilesKept, PartSize
<1>2. overlap' \subseteq Contents => Typed'
  BY DEF Typed, Moved, FilesKept
<1> QED
  BY <1>1, <1>2

\* A call begins: alone on its content, or overlap is noted.
LEMMA BeginSafe ==
  ASSUME AttachInv, NEW p \in Procs, NEW c \in Contents, Sends[p] = c,
         NEW good \in BOOLEAN, Begin(p, c, good)
  PROVE  AttachInv'
<1> DEFINE k == call[p].send
<1>1. /\ call[p].at = "ready" /\ FilesKept
      /\ overlap' = overlap \cup {d \in {c} : \E q \in Procs \ {p} : Sends[q] = c /\ ~Ready(q)}
  BY DEF Begin, Ready, FilesKept, files
<1>2. Typed /\ call \in [Procs -> Call] /\ call[p] \in Call /\ k \in 0 .. N - 1
  BY DEF AttachInv, Typed, Call, Seqs
<1>3. /\ Moved(p)
      /\ \/ call'[p].at = "fresh" /\ call'[p].send = 0 /\ call'[p].expected = 0
         \/ call'[p].at = "moved" /\ call'[p].send = k /\ call'[p].expected = k /\ k = NextSeq(c)
         \/ call'[p].at = "ready"
  <2>1. CASE call' = [call EXCEPT ![p] = [at |-> "fresh", send |-> 0, expected |-> 0, good |-> good]]
    <3>1. [at |-> "fresh", send |-> 0, expected |-> 0, good |-> good] \in Call
      BY AttachAssumption DEF Call, Seqs
    <3> QED
      BY <1>2, <2>1, <3>1 DEF Moved
  <2>2. CASE k = NextSeq(c) /\ call' = [call EXCEPT ![p] = [at |-> "moved", send |-> k, expected |-> k, good |-> good]]
    <3>1. [at |-> "moved", send |-> k, expected |-> k, good |-> good] \in Call
      BY <1>2, AttachAssumption DEF Call, Seqs
    <3> HIDE DEF k
    <3> QED
      BY <1>2, <2>2, <3>1 DEF Moved
  <2>3. CASE Raises(p)
    BY <1>2, <2>3, EndsTyped
  <2> QED
    BY <2>1, <2>2, <2>3 DEF Begin
<1> HIDE DEF k
<1>4. /\ overlap \subseteq overlap' /\ overlap' \subseteq Contents
      /\ c \notin overlap' => Quiet(p, c)
  <2>1. overlap \subseteq overlap' /\ overlap' \subseteq overlap \cup {c}
    BY <1>1
  <2>2. c \notin overlap' => ~\E q \in Procs \ {p} : Sends[q] = c /\ ~Ready(q)
    BY <1>1
  <2> QED
    BY <1>2, <2>1, <2>2 DEF Typed, Quiet, Ready
<1>5. Elsewhere(c) /\ PartSize(c)' = PartSize(c) /\ Typed'
  BY <1>1, <1>2, <1>3, <1>4, ReadyElsewhere
<1>6. \A q \in Procs \ {p} : call'[q] = call[q]
  BY <1>3 DEF Moved
<1>7. Running'
  BY <1>3, <1>6 DEF AttachInv, Running, Ready
<1>8. Alone'
  <2> SUFFICES ASSUME NEW q \in Procs, NEW r \in Procs, Sends[q] = Sends[r], Sends[q] \notin overlap',
                      ~Ready(q)', ~Ready(r)', q # r
               PROVE  FALSE
    BY DEF Alone
  <2>1. CASE q = p
    BY <1>4, <1>6, <2>1 DEF Quiet, Ready
  <2>2. CASE r = p
    BY <1>4, <1>6, <2>2 DEF Quiet, Ready
  <2>3. CASE q # p /\ r # p
    BY <1>4, <1>6, <2>3 DEF AttachInv, Alone, Ready
  <2> QED
    BY <2>1, <2>2, <2>3
<1>9. CallsInv'
  <2> SUFFICES ASSUME NEW q \in Procs PROVE CallInv(q, Sends[q])'
    BY DEF CallsInv
  <2>1. CASE q = p
    BY <1>3, <2>1 DEF CallInv
  <2>2. CASE q # p
    <3>1. CallInv(q, Sends[q]) /\ call'[q] = call[q]
      BY <1>6, <2>2 DEF AttachInv, CallsInv
    <3> QED
      BY <1>1, <1>4, <3>1 DEF CallInv, FilesKept, PartSize
  <2> QED
    BY <2>1, <2>2
<1>10. QuotaInv'
  <2> SUFFICES ASSUME overlap' = {}, halfMoved' = {} PROVE Within'
    BY DEF QuotaInv
  <2>1. Within /\ Quiet(p, c)
    BY <1>1, <1>4 DEF AttachInv, QuotaInv, FilesKept
  <2>2. Here(p, c)' => Here(p, c)
    <3>1. (call'[p].at = "moved" /\ call'[p].expected > 0) => InProgress(c)
      BY <1>2, <1>3, AttachAssumption DEF InProgress
    <3>2. (InProgress(c)' => InProgress(c)) /\ ~HalfAside(p, c)
      BY <1>1 DEF InProgress, NextSeq, HalfAside, FilesKept
    <3> QED
      BY <1>3, <3>1, <3>2 DEF Here, AdmittedBy
  <2>3. rejected' = rejected /\ abandoned' = abandoned /\ PartSize(c) \in Nat
    BY <1>1, <1>2, LengthTyped DEF FilesKept, Typed, PartSize
  <2> QED
    BY <1>2, <1>3, <1>5, <2>1, <2>2, <2>3, NoMoreRoom
<1>11. StoredIsRight'
  BY <1>1, <1>4 DEF AttachInv, StoredIsRight, HasStored, FilesKept
<1> QED
  BY <1>5, <1>7, <1>8, <1>9, <1>10, <1>11 DEF AttachInv

\* A step that changes no file and no call that runs.
LEMMA AttachUntouched ==
  ASSUME AttachInv, FilesKept, overlap' = overlap, call' \in [Procs -> Call],
         \A q \in Procs : call'[q] = call[q] \/ (call[q].at = "ready" /\ call'[q].at = "ready")
  PROVE  AttachInv'
<1>1. Typed' /\ Running'
  BY DEF AttachInv, Typed, Running, Ready, FilesKept
<1>2. Alone' /\ StoredIsRight'
  BY DEF AttachInv, Alone, StoredIsRight, HasStored, Ready, FilesKept
<1>3. CallsInv'
  <2> SUFFICES ASSUME NEW q \in Procs PROVE CallInv(q, Sends[q])'
    BY DEF CallsInv
  <2>1. CallInv(q, Sends[q])
    BY DEF AttachInv, CallsInv
  <2> QED
    BY <2>1 DEF CallInv, FilesKept, PartSize
<1>4. QuotaInv'
  <2> SUFFICES ASSUME Within PROVE Within'
    BY DEF AttachInv, QuotaInv, FilesKept
  <2>1. SizesTyped /\ SizesTyped'
    BY <1>1, SizesAreTyped, PTL DEF AttachInv
  <2>2. FileSize' = FileSize /\ Size' = Size
    BY DEF FileSize, PartSize, Length, FilesKept, Size
  <2>3. ASSUME NEW c \in Contents PROVE Admitted(c)' <=> Admitted(c)
    <3>1. InProgress(c)' <=> InProgress(c)
      BY DEF InProgress, NextSeq, FilesKept
    <3>2. ASSUME NEW q \in Procs
          PROVE  (HalfAside(q, c)' <=> HalfAside(q, c)) /\ (AdmittedBy(q, c)' <=> AdmittedBy(q, c))
      BY DEF HalfAside, AdmittedBy, FilesKept
    <3> QED
      BY <3>1, <3>2 DEF Admitted
  <2>4. \A w \in Files : Room'[w] = Room[w]
    <3> TAKE w \in Files
    <3>1. w[1] \in Contents
      BY DEF Files
    <3> QED
      BY <2>2, <2>3, <3>1 DEF Room
  <2>5. Room \in [Files -> Nat] /\ Room' \in [Files -> Nat]
    BY <2>1 DEF SizesTyped
  <2>6. Room' = Room
    BY <2>4, <2>5
  <2>7. Cardinality(Bytes(Room)) \in Int
    BY FS_CardinalityType DEF Within
  <2> QED
    BY <2>6, <2>7, NextBytes DEF Within
<1> QED
  BY <1>1, <1>2, <1>3, <1>4 DEF AttachInv

LEMMA DuplicateSafe ==
  ASSUME AttachInv, NEW p \in Procs, NEW c \in Contents, Duplicate(p, c)
  PROVE  AttachInv'
<1>1. call[p].at = "ready" /\ Returns(p) /\ FilesKept /\ overlap' = overlap /\ Typed
  BY DEF Duplicate, Ready, FilesKept, files, noted, AttachInv
<1>2. Moved(p) /\ call'[p].at = "ready"
  BY <1>1, EndsTyped
<1> QED
  BY <1>1, <1>2, AttachUntouched DEF Moved

-----------------------------------------------------------------------------

LEMMA AttachInit == Init => AttachInv
<1> SUFFICES ASSUME Init PROVE AttachInv
  OBVIOUS
<1>1. /\ part = [c \in Contents |-> NoFile] /\ meta = [c \in Contents |-> NoMeta]
      /\ stored = [c \in Contents |-> NoFile] /\ rejected = [c \in Contents |-> NoFile]
      /\ abandoned = [c \in Contents |-> 0] /\ overlap = {} /\ halfMoved = {}
      /\ call = [p \in Procs |-> [at |-> "ready", send |-> 0, expected |-> 0, good |-> TRUE]]
  BY DEF Init, Idle
<1>2. \A p \in Procs : call[p].at = "ready"
  BY <1>1
<1>3. Typed
  <2>1. [at |-> "ready", send |-> 0, expected |-> 0, good |-> TRUE] \in Call
    BY AttachAssumption DEF Call, Seqs
  <2>2. call \in [Procs -> Call]
    BY <1>1, <2>1
  <2> QED
    BY <1>1, <2>2, LengthTyped DEF Typed
<1>4. Running /\ Alone /\ CallsInv /\ StoredIsRight
  BY <1>1, <1>2 DEF Running, Alone, CallsInv, CallInv, StoredIsRight, HasStored, Ready
<1>5. Within
  <2>1. SizesTyped
    BY <1>3, SizesAreTyped
  <2>2. ASSUME NEW c \in Contents PROVE ~Admitted(c) /\ PartSize(c) = 0 /\ RejectedSize(c) = 0 /\ abandoned[c] = 0
    <3>1. ~Admitted(c)
      BY <1>1, <1>2 DEF Admitted, AdmittedBy, InProgress, NextSeq
    <3> QED
      BY <1>1, <3>1, LengthTyped DEF PartSize, RejectedSize
  <2>3. \A w \in Files : Room[w] = 0
    <3> TAKE w \in Files
    <3>1. PICK c \in Contents : w \in {<<c, ".partial">>, <<c, ".rejected">>, <<c, ".abandoned">>}
      BY DEF Files, Kinds
    <3>2. /\ Room[<<c, ".partial">>] = 0 /\ Room[<<c, ".rejected">>] = 0
          /\ Room[<<c, ".abandoned">>] = 0
      BY <2>1, <2>2 DEF SizesTyped
    <3> QED
      BY <3>1, <3>2
  <2>4. Bytes(Room) = {}
    BY <2>3, InBytes
  <2>5. IsFiniteSet(Bytes(Room)) /\ Cardinality(Bytes(Room)) = 0
    BY <2>4, FS_EmptySet
  <2>6. 0 <= Bound
    <3>1. Cardinality(Contents) \in Nat /\ Cardinality(Contents) # 0
      BY AttachAssumption, FS_EmptySet, FS_CardinalityType
    <3>2. Size \in Nat /\ Cardinality(Contents) - 1 \in Nat
      BY <3>1, AttachAssumption DEF Size
    <3> HIDE DEF Size
    <3>3. (Cardinality(Contents) - 1) * Size \in Nat
      BY <3>2
    <3> QED
      BY <3>3, AttachAssumption DEF Bound
  <2> QED
    BY <2>5, <2>6 DEF Within
<1>6. QuotaInv
  BY <1>5 DEF QuotaInv
<1> QED
  BY <1>3, <1>4, <1>6 DEF AttachInv

LEMMA AttachStep == AttachInv /\ [Next]_vars => AttachInv'
<1> SUFFICES ASSUME AttachInv, [Next]_vars PROVE AttachInv'
  OBVIOUS
<1>1. ASSUME NEW p \in Procs, NEW c \in Contents, Sends[p] = c,
             Step(p, c) \/ Begin(p, c, FALSE) \/ Duplicate(p, c) \/ Kill(p, c)
      PROVE  AttachInv'
  BY <1>1, BeginSafe, AbandonPartSafe, AbandonMetaSafe, CheckRoomSafe, AppendSafe, WriteMetaSafe,
     VerifySafe, StoreSafe, RejectSafe, FinishSafe, DuplicateSafe, KillSafe DEF Step
<1>2. CASE Time \/ UNCHANGED vars
  <2>1. FilesKept /\ overlap' = overlap /\ call' = call
    BY <1>2 DEF Time, vars, files, noted, FilesKept
  <2> QED
    BY <2>1, AttachUntouched DEF AttachInv, Typed
<1>3. CASE \E p \in Procs : LET c == Sends[p] IN
              Step(p, c) \/ Begin(p, c, FALSE) \/ Duplicate(p, c) \/ Kill(p, c)
  <2>1. PICK p \in Procs : Step(p, Sends[p]) \/ Begin(p, Sends[p], FALSE)
                           \/ Duplicate(p, Sends[p]) \/ Kill(p, Sends[p])
    BY <1>3
  <2>2. Sends[p] \in Contents
    BY AttachAssumption
  <2> QED
    BY <1>1, <2>1, <2>2
<1> QED
  BY <1>2, <1>3 DEF Next

\* receive_chunk and kills keep the invariant: calls that do not overlap run one at
\* a time on a content, on the data they verified, and what the transfers that were
\* compared with the quota may still add is within the bound.
THEOREM AttachCorrect == Spec => []AttachInv
<1> QED
  BY AttachInit, AttachStep, PTL DEF Spec

\* What bus_attach.py has stored has the announced hash, whenever calls are killed
\* and whatever they were fed, if no two calls of one content overlap.
THEOREM StoredHasItsHash == Spec => []StoredIsRight
<1>1. AttachInv => StoredIsRight
  BY DEF AttachInv
<1> QED
  BY <1>1, AttachCorrect, PTL

\* The work files of the store exceed MAX_WORK_BYTES by no more than the size of the
\* contents but one, although only chunk 0 is compared with it, unless calls on a
\* content overlap or one is killed between the two moves of an orphan.
THEOREM WorkWithinBound == Spec => []WorkBounded
<1>1. AttachInv => WorkBounded
  <2> SUFFICES ASSUME AttachInv, overlap = {}, halfMoved = {}
               PROVE  Cardinality(Bytes(FileSize)) <= MaxWork + (Cardinality(Contents) - 1) * Size
    BY DEF WorkBounded
  <2>1. SizesTyped /\ Within
    BY SizesAreTyped DEF AttachInv, QuotaInv
  <2>2. Cardinality(Bytes(FileSize)) <= Cardinality(Bytes(Room)) /\ IsFiniteSet(Bytes(FileSize))
    BY <2>1, NotMore DEF SizesTyped, Within
  <2>3. Cardinality(Bytes(FileSize)) \in Nat /\ Cardinality(Bytes(Room)) \in Nat
    BY <2>1, <2>2, FS_CardinalityType DEF Within
  <2>4. MaxWork + (Cardinality(Contents) - 1) * Size \in Int
    <3>1. Cardinality(Contents) \in Nat /\ Size \in Nat
      BY AttachAssumption, FS_CardinalityType DEF Size
    <3> QED
      BY <3>1, AttachAssumption
  <2> QED
    BY <2>1, <2>2, <2>3, <2>4 DEF Within, Bound
<1> QED
  BY <1>1, AttachCorrect, PTL
=============================================================================
