--------------------------- MODULE AuditChain_proofs ---------------------------
(***************************************************************************)
(* What TLAPS proves of AuditChain for any number of writers, of rows and  *)
(* of rows older than the chain: as long as no number is given twice,      *)
(* everything the bus appends is accepted by both verifiers, whole and in  *)
(* slices, and no one-step change of the chain is accepted by either; once *)
(* one is, the table never verifies again.                                 *)
(***************************************************************************)
EXTENDS AuditChain, FiniteSetTheorems, SequenceTheorems, TLAPS

\* The first m rows are older than the chain; each later one carries the next
\* number and payload and the hash of the row before it.
Chain(s, m) ==
    /\ \A i \in 1 .. m : s[i] = LegacyRow(i)
    /\ \A i \in m + 1 .. Len(s) :
          s[i] = ChainRow(i - m - 1, i - m, IF i = m + 1 THEN Genesis ELSE s[i - 1].hash)

\* What a call has read was the head when the chain had k rows.
HeadRead(s, m, h) ==
    \E k \in 0 .. Len(s) - m : h.seq = k /\ h.prev = IF k = 0 THEN Genesis ELSE s[m + k].hash

Sound(s, n, m, heads) ==
    /\ Chain(s, m) /\ n = Len(s) - m + 1
    /\ \A w \in Writers : heads[w].busy => HeadRead(s, m, heads[w])

ChainInv == \E m \in 0 .. Len(rows) : Sound(rows, clock, m, held)

\* Some number is there twice, and some row does not follow the one before it.
Twice(s)  == \E i, j \in DOMAIN s : i # j /\ s[i].seq # NoSeq /\ s[i].seq = s[j].seq
Broken(s) == \E i \in 1 .. Len(s) - 1 :
                IsChained(s[i]) /\ IsChained(s[i + 1]) /\ s[i + 1].prev # s[i].hash

TableInv ==
    /\ \E S : rows \in Seq(S)
    /\ held = [w \in Writers |-> held[w]]
    /\ ChainInv \/ (Twice(rows) /\ Broken(rows))

-----------------------------------------------------------------------------
(* Hashes *)

\* A hash is no placeholder, and holds the payload it is the hash of.
LEMMA Hashes ==
    ASSUME NEW seq, NEW pay, NEW prev
    PROVE  /\ RowHash(seq, pay, prev) # NoHash /\ RowHash(seq, pay, prev) # Genesis
           /\ \A seq2, pay2, prev2 :
                 RowHash(seq, pay, prev) = RowHash(seq2, pay2, prev2) => seq = seq2 /\ pay = pay2
           /\ NoHash # Genesis
BY DEF RowHash, NoHash, Genesis

\* Appending keeps the rows there are.
LEMMA RowAppended ==
    ASSUME NEW S, NEW s \in Seq(S), NEW r
    PROVE  /\ Append(s, r) \in Seq(S \cup {r}) /\ Len(Append(s, r)) = Len(s) + 1
           /\ \A i \in 1 .. Len(s) : Append(s, r)[i] = s[i]
           /\ Append(s, r)[Len(s) + 1] = r
<1>1. \A i \in 1 .. Len(s) : s[i] \in S \cup {r}
  OBVIOUS
<1>2. s \in Seq(S \cup {r})
  BY <1>1, IsASeq
<1> QED BY <1>2

\* Appending a chained row gives a longer chain.
LEMMA ChainGrows ==
    ASSUME NEW S, NEW s \in Seq(S), NEW m \in 0 .. Len(s), Chain(s, m),
           NEW r, r = ChainRow(Len(s) - m, Len(s) - m + 1,
                               IF Len(s) = m THEN Genesis ELSE s[Len(s)].hash)
    PROVE  /\ Append(s, r) \in Seq(S \cup {r}) /\ m \in 0 .. Len(Append(s, r))
           /\ Len(Append(s, r)) = Len(s) + 1 /\ Chain(Append(s, r), m)
<1> DEFINE t == Append(s, r)
<1>2. /\ t \in Seq(S \cup {r}) /\ Len(t) = Len(s) + 1
      /\ \A i \in 1 .. Len(s) : t[i] = s[i]
      /\ t[Len(s) + 1] = r
  BY RowAppended
<1> HIDE DEF t
<1>3. Len(s) \in Nat
  OBVIOUS
<1>4. \A i \in 1 .. m : t[i] = LegacyRow(i)
  BY <1>2, <1>3 DEF Chain
<1>5. ASSUME NEW i \in m + 1 .. Len(t)
      PROVE  t[i] = ChainRow(i - m - 1, i - m, IF i = m + 1 THEN Genesis ELSE t[i - 1].hash)
  <2>1. CASE i = Len(s) + 1
    <3>1. t[i] = r /\ i - m - 1 = Len(s) - m /\ i - m = Len(s) - m + 1 /\ i - 1 = Len(s)
      BY <1>2, <1>3, <2>1
    <3>2. i # m + 1 => t[Len(s)] = s[Len(s)]
      BY <1>2, <1>3, <2>1
    <3>3. (Len(s) = m) <=> (i = m + 1)
      BY <1>3, <2>1
    <3> QED BY <3>1, <3>2, <3>3
  <2>2. CASE i \in m + 1 .. Len(s)
    <3>1. i \in 1 .. Len(s) /\ (i # m + 1 => i - 1 \in 1 .. Len(s))
      BY <1>3, <2>2
    <3>2. t[i] = s[i] /\ (i # m + 1 => t[i - 1] = s[i - 1])
      BY <1>2, <3>1
    <3> QED BY <2>2, <3>2 DEF Chain
  <2> QED BY <1>2, <1>3, <2>1, <2>2
<1>6. Chain(t, m) /\ m \in 0 .. Len(t)
  BY <1>2, <1>3, <1>4, <1>5 DEF Chain
<1> QED BY <1>2, <1>6 DEF t

-----------------------------------------------------------------------------
(* Selections *)

\* A selection of all positions from one on is that part of the sequence.
LEMMA SuffixSelected ==
    ASSUME NEW S, NEW s \in Seq(S), NEW m \in 0 .. Len(s)
    PROVE  Select(s, m + 1 .. Len(s)) = SubSeq(s, m + 1, Len(s))
<1> DEFINE n == Len(s)
           P == m + 1 .. n
<1>1. n \in Nat /\ m \in Nat /\ n - m \in Nat
  OBVIOUS
<1>2. \A i \in P : Cardinality({j \in P : j <= i}) = i - m
  <2> TAKE i \in P
  <2>1. {j \in P : j <= i} = m + 1 .. i
    BY <1>1
  <2>2. Cardinality(m + 1 .. i) = i - m
    BY <1>1, FS_Interval
  <2> QED BY <2>1, <2>2
<1>3. Cardinality(P) = n - m
  <2>1. m + 1 \in Int /\ n \in Int
    BY <1>1
  <2> HIDE DEF n
  <2>2. Cardinality(m + 1 .. n) = IF m + 1 > n THEN 0 ELSE n - (m + 1) + 1
    BY ONLY <2>1, FS_Interval
  <2> QED BY <1>1, <2>1, <2>2
<1> HIDE DEF P, n
<1>4. ASSUME NEW k \in 1 .. n - m PROVE Nth(P, k) = m + k
  <2>1. m + k \in P /\ Cardinality({j \in P : j <= m + k}) = k
    BY <1>1, <1>2 DEF P
  <2>2. \A i \in P : Cardinality({j \in P : j <= i}) = k => i = m + k
    BY <1>1, <1>2 DEF P
  <2> QED BY <2>1, <2>2 DEF Nth
<1>5. Select(s, P) = [k \in 1 .. n - m |-> s[m + k]]
  BY <1>3, <1>4 DEF Select
<1>6. [k \in 1 .. n - m |-> s[m + k]] = SubSeq(s, m + 1, n)
  <2>1. [k \in 1 .. n - m |-> s[m + k]] \in [1 .. n - m -> S]
    BY <1>1 DEF n
  <2>2. [k \in 1 .. n - m |-> s[m + k]] \in Seq(S)
    BY <1>1, <2>1, SeqDef
  <2>3. /\ SubSeq(s, m + 1, n) \in Seq(S) /\ Len(SubSeq(s, m + 1, n)) = n - m
        /\ \A k \in 1 .. n - m : SubSeq(s, m + 1, n)[k] = s[m + k]
    BY <1>1, SubSeqProperties DEF n
  <2> QED BY <1>1, <2>2, <2>3, SeqEqual
<1> QED BY <1>5, <1>6 DEF P, n

-----------------------------------------------------------------------------
(* What both verifiers ask of a sequence of chained rows *)

Linked(t) ==
    \A i \in 1 .. Len(t) : /\ HashHolds(t[i])
                           /\ t[i].prev = IF i = 1 THEN Genesis ELSE t[i - 1].hash

\* audit_verify goes from GENESIS along all rows that have a hash.
LEMMA VerifyLinks ==
    ASSUME NEW S, NEW t \in Seq(S), \A i \in DOMAIN t : IsChained(t[i]), AuditVerify(t)
    PROVE  Linked(t)
<1> SUFFICES ASSUME NEW i \in 1 .. Len(t)
             PROVE  /\ HashHolds(t[i])
                    /\ t[i].prev = IF i = 1 THEN Genesis ELSE t[i - 1].hash
  BY DEF Linked
<1>1. HashHolds(t[i]) /\ t[i].prev = PrevHash(t, i)
  BY DEF AuditVerify
<1>2. {j \in 1 .. i - 1 : IsChained(t[j])} = 1 .. i - 1
  OBVIOUS
<1>3. i # 1 => 1 .. i - 1 # {} /\ Max(1 .. i - 1) = i - 1
  BY DEF Max
<1>4. i = 1 => 1 .. i - 1 = {}
  OBVIOUS
<1> QED BY <1>1, <1>2, <1>3, <1>4 DEF PrevHash

\* An export that is ok by itself goes from GENESIS too.
LEMMA ExportLinks ==
    ASSUME NEW S, NEW t \in Seq(S), ExportOk(t)
    PROVE  Linked(t)
<1> SUFFICES ASSUME NEW i \in 1 .. Len(t)
             PROVE  /\ HashHolds(t[i])
                    /\ t[i].prev = IF i = 1 THEN Genesis ELSE t[i - 1].hash
  BY DEF Linked
<1>1. HashHolds(t[i]) /\ (i > 1 => t[i].prev = t[i - 1].hash)
  BY DEF ExportOk, ChainOk
<1>2. i = 1 => t[i].prev = Genesis
  BY DEF ExportOk, Anchored
<1> QED BY <1>1, <1>2

\* The chained rows of a table are a chain from GENESIS.
LEMMA ChainTail ==
    ASSUME NEW S, NEW s \in Seq(S), NEW m \in 0 .. Len(s), Chain(s, m)
    PROVE  /\ SubSeq(s, m + 1, Len(s)) \in Seq(S)
           /\ Len(SubSeq(s, m + 1, Len(s))) = Len(s) - m
           /\ \A k \in 1 .. Len(s) - m : SubSeq(s, m + 1, Len(s))[k] = s[m + k]
           /\ Chain(SubSeq(s, m + 1, Len(s)), 0)
<1> DEFINE c == SubSeq(s, m + 1, Len(s))
<1>1. Len(s) \in Nat /\ m \in Nat /\ Len(s) - m \in Nat
  OBVIOUS
<1>2. /\ c \in Seq(S) /\ Len(c) = Len(s) - m
      /\ \A k \in 1 .. Len(s) - m : c[k] = s[m + k]
  BY <1>1, SubSeqProperties
<1> HIDE DEF c
<1>3. ASSUME NEW i \in 1 .. Len(c)
      PROVE  c[i] = ChainRow(i - 1, i, IF i = 1 THEN Genesis ELSE c[i - 1].hash)
  <2>1. c[i] = s[m + i] /\ (i # 1 => c[i - 1] = s[m + i - 1])
    BY <1>1, <1>2
  <2>2. m + i \in m + 1 .. Len(s)
    BY <1>1, <1>2
  <2>3. s[m + i] = ChainRow(m + i - m - 1, m + i - m,
                            IF m + i = m + 1 THEN Genesis ELSE s[m + i - 1].hash)
    BY <2>2 DEF Chain
  <2>4. m + i - m - 1 = i - 1 /\ m + i - m = i /\ (m + i = m + 1 <=> i = 1)
    BY <1>1, <1>2
  <2> QED BY <2>1, <2>3, <2>4
<1>4. Chain(c, 0)
  <2>1. \A i \in 0 + 1 .. Len(c) : /\ i \in 1 .. Len(c) /\ i - 0 - 1 = i - 1 /\ i - 0 = i
                                  /\ 0 + 1 = 1
    BY <1>1, <1>2
  <2>2. \A i \in 1 .. 0 : c[i] = LegacyRow(i)
    OBVIOUS
  <2> QED BY <1>3, <2>1, <2>2 DEF Chain
<1> QED BY <1>2, <1>4 DEF c

\* The rows of a chain: their hashes differ, and none is a placeholder.
LEMMA ChainRows ==
    ASSUME NEW S, NEW c \in Seq(S), Chain(c, 0)
    PROVE  /\ \A i \in 1 .. Len(c) :
                 /\ c[i] = ChainRow(i - 1, i, c[i].prev)
                 /\ c[i].prev = IF i = 1 THEN Genesis ELSE c[i - 1].hash
                 /\ HashHolds(c[i]) /\ c[i].seq = i - 1
                 /\ c[i].hash # Genesis /\ IsChained(c[i]) /\ c[i].prev # c[i].hash
           /\ \A i, j \in 1 .. Len(c) : c[i].hash = c[j].hash => i = j
<1>1. ASSUME NEW i \in 1 .. Len(c)
      PROVE  /\ c[i] = ChainRow(i - 1, i, c[i].prev)
             /\ c[i].hash = RowHash(c[i].seq, c[i].payload, c[i].prev)
             /\ c[i].prev = IF i = 1 THEN Genesis ELSE c[i - 1].hash
             /\ c[i].seq = i - 1 /\ c[i].payload = i
  <2>1. c[i] = ChainRow(i - 1, i, IF i = 1 THEN Genesis ELSE c[i - 1].hash)
    <3>1. i \in 0 + 1 .. Len(c) /\ i - 0 - 1 = i - 1 /\ i - 0 = i /\ 0 + 1 = 1
      OBVIOUS
    <3> QED BY <3>1 DEF Chain
  <2> QED BY <2>1 DEF ChainRow
<1>2. \A i, j \in 1 .. Len(c) : c[i].hash = c[j].hash => i = j
  BY <1>1, Hashes
<1>3. \A i \in 1 .. Len(c) : c[i].hash # Genesis /\ c[i].hash # NoHash
  BY <1>1, Hashes
<1>4. ASSUME NEW i \in 1 .. Len(c) PROVE c[i].prev # c[i].hash
  <2>1. i # 1 => i - 1 \in 1 .. Len(c) /\ i - 1 # i
    OBVIOUS
  <2> QED BY <1>1, <1>2, <1>3, <2>1
<1> QED BY <1>1, <1>2, <1>3, <1>4 DEF HashHolds, IsChained

\* So a sequence made of its rows has chained rows only.
LEMMA RowsChained ==
    ASSUME NEW S, NEW c \in Seq(S), Chain(c, 0)
    PROVE  c \in Seq({r \in S : IsChained(r)})
<1> DEFINE C == {r \in S : IsChained(r)}
<1>1. c \in [1 .. Len(c) -> S] /\ Len(c) \in Nat
  BY LenProperties
<1>2. \A i \in 1 .. Len(c) : c[i] \in C
  BY <1>1, ChainRows
<1>3. c \in [1 .. Len(c) -> C]
  BY <1>1, <1>2
<1> QED BY <1>1, <1>3, SeqDef

\* Two sequences joined.
LEMMA Joined ==
    ASSUME NEW S, NEW a \in Seq(S), NEW b \in Seq(S)
    PROVE  /\ a \o b \in Seq(S) /\ Len(a \o b) = Len(a) + Len(b)
           /\ \A k \in 1 .. Len(a) : (a \o b)[k] = a[k]
           /\ \A k \in 1 .. Len(b) : (a \o b)[Len(a) + k] = b[k]
OBVIOUS

-----------------------------------------------------------------------------
(* What a careless hand leaves *)

\* A row taken out: the one behind it no longer follows.
LEMMA TakenBreaks ==
    ASSUME NEW S, NEW c \in Seq(S), Chain(c, 0), NEW i \in 1 .. Len(c) - 1,
           NEW t, t = RemoveAt(c, i)
    PROVE  (\E T : t \in Seq(T)) /\ (\A k \in DOMAIN t : IsChained(t[k])) /\ ~Linked(t)
<1> DEFINE C     == {r \in S : IsChained(r)}
           front == SubSeq(c, 1, i - 1)
           back  == SubSeq(c, i + 1, Len(c))
<1>1. /\ Len(c) \in Nat /\ i \in 1 .. Len(c) /\ i + 1 \in 1 .. Len(c)
      /\ i - 1 \in Nat /\ Len(c) - i \in Nat /\ c \in Seq(C)
  BY RowsChained
<1>2. /\ front \in Seq(C) /\ Len(front) = i - 1
      /\ \A k \in 1 .. i - 1 : front[k] = c[k]
      /\ back \in Seq(C) /\ Len(back) = Len(c) - i
      /\ \A k \in 1 .. Len(c) - i : back[k] = c[i + k]
  <2> HIDE DEF C
  <2> QED BY <1>1, SubSeqProperties
<1>3. t = front \o back
  BY DEF RemoveAt
<1> HIDE DEF C, front, back
<1>4. /\ t \in Seq(C) /\ Len(t) = i - 1 + (Len(c) - i)
      /\ \A k \in 1 .. i - 1 : t[k] = front[k]
      /\ \A k \in 1 .. Len(c) - i : t[i - 1 + k] = back[k]
  <2>1. front \in Seq(C) /\ back \in Seq(C)
    BY <1>2
  <2>2. /\ front \o back \in Seq(C) /\ Len(front \o back) = Len(front) + Len(back)
        /\ \A k \in 1 .. Len(front) : (front \o back)[k] = front[k]
        /\ \A k \in 1 .. Len(back) : (front \o back)[Len(front) + k] = back[k]
    BY ONLY <2>1, Joined
  <2> QED BY <1>1, <1>2, <1>3, <2>2
<1>5. t[i] = c[i + 1] /\ i \in 1 .. Len(t)
  <2>1. 1 \in 1 .. Len(c) - i /\ i - 1 + 1 = i
    BY <1>1
  <2> QED BY <1>1, <1>2, <1>4, <2>1
<1>6. i # 1 => i - 1 \in 1 .. Len(c) /\ t[i - 1] = c[i - 1]
  <2>1. i # 1 => i - 1 \in 1 .. i - 1 /\ i - 1 \in 1 .. Len(c)
    BY <1>1
  <2> QED BY <1>2, <1>4, <2>1
<1>7. \A k \in DOMAIN t : IsChained(t[k])
  BY <1>4 DEF C
<1>8. t[i].prev = c[i].hash /\ c[i].hash # Genesis
  <2>1. i + 1 # 1 /\ i + 1 - 1 = i
    BY <1>1
  <2>2. c[i + 1].prev = c[i].hash /\ c[i].hash # Genesis
    BY <1>1, <2>1, ChainRows
  <2> QED BY <1>5, <2>2
<1>9. i # 1 => t[i - 1].hash # c[i].hash
  <2>1. i - 1 # i
    BY <1>1
  <2> QED BY <1>1, <1>6, <2>1, ChainRows
<1>10. ~Linked(t)
  BY <1>5, <1>8, <1>9 DEF Linked
<1> QED BY <1>4, <1>7, <1>10

\* A row rewritten: its hash is that of what it said before.
LEMMA RewrittenBreaks ==
    ASSUME NEW S, NEW c \in Seq(S), Chain(c, 0), NEW i \in 1 .. Len(c), NEW t,
           t = [c EXCEPT ![i].payload = 0] \/ t = [c EXCEPT ![i].seq = @ + 1]
    PROVE  (\E T : t \in Seq(T)) /\ (\A k \in DOMAIN t : IsChained(t[k])) /\ ~Linked(t)
<1>1. c[i] = ChainRow(i - 1, i, c[i].prev)
  BY ChainRows
<1>2. PICK p : p = c[i].prev
  OBVIOUS
<1>3. PICK r : /\ t = [c EXCEPT ![i] = r] /\ r.hash = RowHash(i - 1, i, p)
               /\ r.seq # i - 1 \/ r.payload # i
  <2>1. CASE t = [c EXCEPT ![i].payload = 0]
    <3> DEFINE r == [c[i] EXCEPT !.payload = 0]
    <3>1. r.hash = RowHash(i - 1, i, p) /\ r.payload # i
      BY <1>1, <1>2 DEF ChainRow
    <3> QED BY <2>1, <3>1
  <2>2. CASE t = [c EXCEPT ![i].seq = @ + 1]
    <3> DEFINE r == [c[i] EXCEPT !.seq = @ + 1]
    <3>1. r.hash = RowHash(i - 1, i, p) /\ r.seq # i - 1
      BY <1>1, <1>2 DEF ChainRow
    <3> QED BY <2>2, <3>1
  <2> QED BY <2>1, <2>2
<1>4. /\ t \in Seq(S \cup {r}) /\ Len(t) = Len(c) /\ t[i] = r
      /\ \A k \in 1 .. Len(c) : k # i => t[k] = c[k]
  <2>1. c \in Seq(S \cup {r})
    BY SeqMonotonic
  <2> QED BY <1>3, <2>1, ExceptSeq
<1>5. ~HashHolds(t[i])
  BY <1>3, <1>4, Hashes DEF HashHolds
<1>6. \A k \in DOMAIN t : IsChained(t[k])
  BY <1>3, <1>4, ChainRows, Hashes DEF IsChained
<1> QED BY <1>4, <1>5, <1>6 DEF Linked

\* A copy put in: it does not follow the row before it, or that behind it does not.
LEMMA RepeatedBreaks ==
    ASSUME NEW S, NEW c \in Seq(S), Chain(c, 0), NEW i \in 1 .. Len(c) + 1,
           NEW j \in 1 .. Len(c), NEW t, t = InsertAt(c, i, c[j])
    PROVE  (\E T : t \in Seq(T)) /\ (\A k \in DOMAIN t : IsChained(t[k])) /\ ~Linked(t)
<1> DEFINE C     == {r \in S : IsChained(r)}
           front == SubSeq(c, 1, i - 1)
           back  == SubSeq(c, i, Len(c))
           copy  == <<c[j]>>
<1>1. /\ Len(c) \in Nat /\ i \in Nat /\ i - 1 \in Nat /\ Len(c) - i + 1 \in Nat
      /\ c \in Seq(C) /\ c[j] \in C
  <2>1. c \in Seq(C)
    BY RowsChained
  <2> HIDE DEF C
  <2> QED BY <2>1
<1>2. /\ front \in Seq(C) /\ Len(front) = i - 1
      /\ \A k \in 1 .. i - 1 : front[k] = c[k]
      /\ back \in Seq(C) /\ Len(back) = Len(c) - i + 1
      /\ \A k \in 1 .. Len(c) - i + 1 : back[k] = c[i + k - 1]
  <2> HIDE DEF C
  <2> QED BY <1>1, SubSeqProperties
<1>3. copy \in Seq(C) /\ Len(copy) = 1 /\ copy[1] = c[j]
  <2> HIDE DEF C
  <2> QED BY <1>1
<1>4. t = front \o copy \o back
  BY DEF InsertAt
<1> HIDE DEF C, front, back, copy
<1>5. /\ front \o copy \in Seq(C) /\ Len(front \o copy) = i - 1 + 1
      /\ \A k \in 1 .. i - 1 : (front \o copy)[k] = front[k]
      /\ \A k \in 1 .. 1 : (front \o copy)[i - 1 + k] = copy[k]
  <2>1. front \in Seq(C) /\ copy \in Seq(C)
    BY <1>2, <1>3
  <2>2. /\ front \o copy \in Seq(C) /\ Len(front \o copy) = Len(front) + Len(copy)
        /\ \A k \in 1 .. Len(front) : (front \o copy)[k] = front[k]
        /\ \A k \in 1 .. Len(copy) : (front \o copy)[Len(front) + k] = copy[k]
    BY ONLY <2>1, Joined
  <2> QED BY <1>1, <1>2, <1>3, <2>2
<1>6. /\ t \in Seq(C) /\ Len(t) = Len(c) + 1
      /\ i \in 1 .. Len(t) /\ t[i] = c[j]
      /\ i # 1 => t[i - 1] = c[i - 1]
      /\ i <= Len(c) => t[i + 1] = c[i] /\ i + 1 \in 1 .. Len(t)
  <2> DEFINE head == front \o copy
  <2>1. /\ head \in Seq(C) /\ Len(head) = i /\ head[i] = c[j]
        /\ i # 1 => head[i - 1] = c[i - 1]
    <3>1. i - 1 + 1 = i /\ 1 \in 1 .. 1 /\ (i # 1 => i - 1 \in 1 .. i - 1)
      BY <1>1
    <3> QED BY <1>2, <1>3, <1>5, <3>1
  <2> HIDE DEF head
  <2>2. /\ t \in Seq(C) /\ Len(t) = i + (Len(c) - i + 1)
        /\ \A k \in 1 .. i : t[k] = head[k]
        /\ \A k \in 1 .. Len(c) - i + 1 : t[i + k] = back[k]
    <3>1. t = head \o back
      BY <1>4 DEF head
    <3>2. head \in Seq(C) /\ back \in Seq(C)
      BY <1>2, <2>1
    <3>3. /\ head \o back \in Seq(C) /\ Len(head \o back) = Len(head) + Len(back)
          /\ \A k \in 1 .. Len(head) : (head \o back)[k] = head[k]
          /\ \A k \in 1 .. Len(back) : (head \o back)[Len(head) + k] = back[k]
      BY ONLY <3>2, Joined
    <3> QED BY <1>1, <1>2, <2>1, <3>1, <3>3
  <2>3. t[i] = c[j] /\ (i # 1 => t[i - 1] = c[i - 1])
    BY <1>1, <2>1, <2>2
  <2>4. i <= Len(c) => t[i + 1] = c[i]
    <3>1. i <= Len(c) => 1 \in 1 .. Len(c) - i + 1 /\ i + 1 - 1 = i
      BY <1>1
    <3> QED BY <1>2, <2>2, <3>1
  <2>5. Len(t) = Len(c) + 1 /\ i \in 1 .. Len(t)
    BY <1>1, <2>2
  <2>6. i <= Len(c) => i + 1 \in 1 .. Len(t)
    BY <1>1, <2>5
  <2> QED BY <2>2, <2>3, <2>4, <2>5, <2>6
<1>7. \A k \in DOMAIN t : IsChained(t[k])
  BY <1>6 DEF C
<1>8. ASSUME Linked(t) PROVE FALSE
  <2>1. c[j].prev = IF i = 1 THEN Genesis ELSE c[i - 1].hash
    BY <1>6, <1>8 DEF Linked
  <2>2. c[j].prev = IF j = 1 THEN Genesis ELSE c[j - 1].hash
    BY ChainRows
  <2>3. i = j
    <3>1. j # 1 => j - 1 \in 1 .. Len(c) /\ c[j - 1].hash # Genesis
      BY ChainRows
    <3>2. i # 1 => i - 1 \in 1 .. Len(c) /\ c[i - 1].hash # Genesis
      BY ChainRows
    <3>3. i # 1 /\ j # 1 => i - 1 = j - 1
      BY <2>1, <2>2, <3>1, <3>2, ChainRows
    <3> QED BY <2>1, <2>2, <3>1, <3>2, <3>3
  <2>4. t[i] = c[i] /\ t[i + 1] = c[i]
    BY <1>6, <2>3
  <2>5. i + 1 # 1 /\ i + 1 - 1 = i /\ i + 1 \in 1 .. Len(t)
    BY <1>6, <2>3
  <2>6. c[i].prev = c[i].hash
    BY <1>8, <2>4, <2>5 DEF Linked
  <2> QED BY <2>3, <2>6, ChainRows
<1> QED BY <1>6, <1>7, <1>8

\* No change of a chain leaves one.
LEMMA TamperedBreaks ==
    ASSUME NEW S, NEW c \in Seq(S), Chain(c, 0), NEW t \in Tampered(c)
    PROVE  ~AuditVerify(t) /\ ~ExportOk(t)
<1>1. DOMAIN c = 1 .. Len(c)
  OBVIOUS
<1>2. (\E T : t \in Seq(T)) /\ (\A k \in DOMAIN t : IsChained(t[k])) /\ ~Linked(t)
  <2>1. CASE t \in Taken(c)
    <3>1. PICK i \in 1 .. Len(c) - 1 : t = RemoveAt(c, i)
      BY <2>1 DEF Taken
    <3> QED BY <3>1, TakenBreaks
  <2>2. CASE t \in Rewritten(c)
    <3>1. PICK i \in 1 .. Len(c) : \/ t = [c EXCEPT ![i].payload = 0]
                                   \/ t = [c EXCEPT ![i].seq = @ + 1]
      BY <1>1, <2>2 DEF Rewritten
    <3> QED BY <3>1, RewrittenBreaks
  <2>3. CASE t \in Repeated(c)
    <3>1. PICK i \in 1 .. Len(c) + 1, j \in 1 .. Len(c) : t = InsertAt(c, i, c[j])
      BY <1>1, <2>3 DEF Repeated
    <3> QED BY <3>1, RepeatedBreaks
  <2> QED BY <2>1, <2>2, <2>3 DEF Tampered
<1>3. PICK T : t \in Seq(T)
  BY <1>2
<1> QED BY <1>2, <1>3, VerifyLinks, ExportLinks

-----------------------------------------------------------------------------
(* The rows the bus appends are a chain *)

\* What the columns of a row in a table with a chain say.
LEMMA RowAt ==
    ASSUME NEW S, NEW s \in Seq(S), NEW m \in 0 .. Len(s), Chain(s, m)
    PROVE  /\ \A i \in 1 .. m : ~IsChained(s[i]) /\ s[i].seq = NoSeq /\ s[i].hash = NoHash
           /\ \A i \in m + 1 .. Len(s) :
                 /\ HashHolds(s[i]) /\ IsChained(s[i]) /\ s[i].hash # NoHash
                 /\ s[i].seq = i - m - 1 /\ s[i].seq # NoSeq
                 /\ s[i].prev = IF i = m + 1 THEN Genesis ELSE s[i - 1].hash
<1>1. \A i \in 1 .. m : s[i] = LegacyRow(i)
  BY DEF Chain
<1>2. ASSUME NEW i \in m + 1 .. Len(s)
      PROVE  s[i] = ChainRow(i - m - 1, i - m, IF i = m + 1 THEN Genesis ELSE s[i - 1].hash)
  BY DEF Chain
<1>3. ASSUME NEW i \in m + 1 .. Len(s)
      PROVE  /\ s[i].hash = RowHash(s[i].seq, s[i].payload, s[i].prev)
             /\ s[i].seq = i - m - 1 /\ s[i].seq # NoSeq
             /\ s[i].prev = IF i = m + 1 THEN Genesis ELSE s[i - 1].hash
  <2>1. PICK p : p = IF i = m + 1 THEN Genesis ELSE s[i - 1].hash
    OBVIOUS
  <2>2. s[i] = ChainRow(i - m - 1, i - m, p)
    BY <1>2, <2>1
  <2>3. /\ s[i].hash = RowHash(s[i].seq, s[i].payload, s[i].prev)
        /\ s[i].seq = i - m - 1 /\ s[i].prev = p
    BY <2>2 DEF ChainRow
  <2>4. i - m - 1 # NoSeq
    BY DEF NoSeq
  <2> QED BY <2>1, <2>3, <2>4
<1>4. ASSUME NEW i \in m + 1 .. Len(s) PROVE s[i].hash # NoHash
  BY <1>3, Hashes
<1>5. \A i \in 1 .. m : s[i].seq = NoSeq /\ s[i].hash = NoHash
  <2> TAKE i \in 1 .. m
  <2>1. s[i] = LegacyRow(i)
    BY <1>1
  <2> QED BY <2>1 DEF LegacyRow
<1>6. /\ \A i \in 1 .. m : ~IsChained(s[i])
      /\ \A i \in m + 1 .. Len(s) : HashHolds(s[i]) /\ IsChained(s[i])
  BY <1>3, <1>4, <1>5 DEF HashHolds, IsChained
<1> QED BY <1>3, <1>4, <1>5, <1>6

\* What _append_audit reads of the last row: where the chain goes on.
LEMMA HeadOfChain ==
    ASSUME NEW S, rows \in Seq(S), NEW m \in 0 .. Len(rows), Chain(rows, m)
    PROVE  /\ NextSeq = Len(rows) - m
           /\ NextPrev = IF Len(rows) = m THEN Genesis ELSE rows[Len(rows)].hash
<1>1. Len(rows) \in Nat /\ (rows = <<>> <=> Len(rows) = 0)
  OBVIOUS
<1>2. CASE Len(rows) = m
  <2>1. rows # <<>> => Last(rows).hash = NoHash
    <3>1. Len(rows) # 0 => rows[Len(rows)].hash = NoHash
      BY <1>1, <1>2, RowAt
    <3> QED BY <1>1, <3>1 DEF Last
  <2> QED BY <1>1, <1>2, <2>1 DEF NextSeq, NextPrev
<1>3. CASE Len(rows) # m
  <2>1. Len(rows) \in m + 1 .. Len(rows)
    BY <1>1, <1>3
  <2>2. rows[Len(rows)].hash # NoHash /\ rows[Len(rows)].seq = Len(rows) - m - 1
    BY <2>1, RowAt
  <2>3. rows # <<>> /\ Last(rows) = rows[Len(rows)] /\ Len(rows) - m - 1 + 1 = Len(rows) - m
    BY <1>1, <2>1 DEF Last
  <2> QED BY <1>3, <2>2, <2>3 DEF NextSeq, NextPrev
<1> QED BY <1>2, <1>3

\* A row that goes on from the head keeps the chain, and what was read of it.
LEMMA SoundGrows ==
    ASSUME NEW S, NEW s \in Seq(S), NEW m \in 0 .. Len(s), NEW n, NEW heads, NEW left,
           Sound(s, n, m, heads),
           \A w \in Writers : left[w].busy => left[w] = heads[w],
           NEW r, r = ChainRow(Len(s) - m, n, IF Len(s) = m THEN Genesis ELSE s[Len(s)].hash)
    PROVE  m \in 0 .. Len(Append(s, r)) /\ Sound(Append(s, r), n + 1, m, left)
<1> DEFINE t == Append(s, r)
<1>1. Len(s) \in Nat /\ m \in Nat /\ Chain(s, m) /\ n = Len(s) - m + 1
  BY DEF Sound
<1>2. m \in 0 .. Len(t) /\ Len(t) = Len(s) + 1 /\ Chain(t, m)
  BY <1>1, ChainGrows
<1>3. \A i \in 1 .. Len(s) : t[i] = s[i]
  BY RowAppended
<1> HIDE DEF t
<1>4. n + 1 = Len(t) - m + 1
  BY <1>1, <1>2
<1>5. ASSUME NEW w \in Writers, left[w].busy
      PROVE  HeadRead(t, m, left[w])
  <2>1. PICK h : h = left[w]
    OBVIOUS
  <2>2. HeadRead(s, m, h)
    BY <1>5, <2>1 DEF Sound
  <2>3. PICK k \in 0 .. Len(s) - m : h.seq = k /\ h.prev = IF k = 0 THEN Genesis ELSE s[m + k].hash
    BY <2>2 DEF HeadRead
  <2>4. k \in 0 .. Len(t) - m /\ (k # 0 => m + k \in 1 .. Len(s))
    BY <1>1, <1>2
  <2>5. h.prev = IF k = 0 THEN Genesis ELSE t[m + k].hash
    BY <1>3, <2>3, <2>4
  <2>6. HeadRead(t, m, h)
    BY <2>3, <2>4, <2>5 DEF HeadRead
  <2> QED BY <2>1, <2>6
<1>6. Sound(t, n + 1, m, left)
  BY <1>2, <1>4, <1>5 DEF Sound
<1> QED BY <1>2, <1>6 DEF t

\* A row that goes on from an older head takes a number again, and the hash it
\* names is not that of the row before it.
LEMMA OldHeadBranches ==
    ASSUME NEW S, NEW s \in Seq(S), NEW m \in 0 .. Len(s), Chain(s, m),
           NEW k \in 0 .. Len(s) - m, k # Len(s) - m, NEW pay,
           NEW r, r = ChainRow(k, pay, IF k = 0 THEN Genesis ELSE s[m + k].hash)
    PROVE  Twice(Append(s, r)) /\ Broken(Append(s, r))
<1> DEFINE t == Append(s, r)
           l == Len(s)
<1>1. l \in Nat /\ m \in Nat /\ m + k + 1 \in m + 1 .. l /\ l \in m + 1 .. l
  OBVIOUS
<1>2. /\ Len(t) = l + 1 /\ \A i \in 1 .. l : t[i] = s[i]
      /\ t[l + 1] = r /\ DOMAIN t = 1 .. Len(t)
  BY RowAppended
<1> HIDE DEF t
<1>3. r.seq = k /\ r.hash # NoHash /\ r.prev = IF k = 0 THEN Genesis ELSE s[m + k].hash
  BY Hashes DEF ChainRow
<1>4. /\ s[m + k + 1].seq = k /\ k # NoSeq
      /\ s[l].seq = l - m - 1 /\ IsChained(s[l]) /\ HashHolds(s[l])
  <2>1. m + k + 1 - m - 1 = k /\ k # NoSeq
    BY <1>1 DEF NoSeq
  <2>2. s[m + k + 1].seq = m + k + 1 - m - 1
    BY <1>1, RowAt
  <2>3. s[l].seq = l - m - 1 /\ IsChained(s[l]) /\ HashHolds(s[l])
    BY <1>1, RowAt
  <2> QED BY <2>1, <2>2, <2>3
<1>5. Twice(t)
  <2>1. m + k + 1 \in DOMAIN t /\ l + 1 \in DOMAIN t /\ m + k + 1 # l + 1
    BY <1>1, <1>2
  <2>2. t[m + k + 1] = s[m + k + 1]
    BY <1>1, <1>2
  <2> QED BY <1>2, <1>3, <1>4, <2>1, <2>2 DEF Twice
<1>6. r.prev # s[l].hash
  <2>1. s[l].hash = RowHash(l - m - 1, s[l].payload, s[l].prev)
    BY <1>4 DEF HashHolds
  <2>2. CASE k = 0
    BY <1>3, <2>1, <2>2, Hashes
  <2>3. CASE k # 0
    <3>1. m + k \in m + 1 .. l /\ m + k - m - 1 = k - 1 /\ k - 1 # l - m - 1
      BY <1>1, <2>3
    <3>2. s[m + k].seq = k - 1 /\ HashHolds(s[m + k])
      BY <3>1, RowAt
    <3>3. s[m + k].hash = RowHash(k - 1, s[m + k].payload, s[m + k].prev)
      BY <3>2 DEF HashHolds
    <3> QED BY <1>3, <2>1, <2>3, <3>1, <3>3, Hashes
  <2> QED BY <2>2, <2>3
<1>7. Broken(t)
  <2>1. l \in 1 .. Len(t) - 1 /\ t[l] = s[l]
    BY <1>1, <1>2
  <2>2. IsChained(r)
    BY <1>3 DEF IsChained
  <2> QED BY <1>2, <1>4, <1>6, <2>1, <2>2 DEF Broken
<1> QED BY <1>5, <1>7 DEF t

\* What is behind a branch does not mend it.
LEMMA BranchStays ==
    ASSUME NEW S, NEW s \in Seq(S), NEW r, Twice(s), Broken(s)
    PROVE  Twice(Append(s, r)) /\ Broken(Append(s, r))
<1> DEFINE t == Append(s, r)
<1>1. /\ Len(s) \in Nat /\ Len(t) = Len(s) + 1 /\ \A i \in 1 .. Len(s) : t[i] = s[i]
      /\ DOMAIN t = 1 .. Len(t) /\ DOMAIN s = 1 .. Len(s)
  BY RowAppended
<1> HIDE DEF t
<1>2. Twice(t)
  <2>1. PICK i \in DOMAIN s, j \in DOMAIN s :
           i # j /\ s[i].seq # NoSeq /\ s[i].seq = s[j].seq
    BY DEF Twice
  <2>2. i \in DOMAIN t /\ j \in DOMAIN t /\ t[i] = s[i] /\ t[j] = s[j]
    BY <1>1
  <2> QED BY <2>1, <2>2 DEF Twice
<1>3. Broken(t)
  <2>1. PICK i \in 1 .. Len(s) - 1 :
           IsChained(s[i]) /\ IsChained(s[i + 1]) /\ s[i + 1].prev # s[i].hash
    BY DEF Broken
  <2>2. i \in 1 .. Len(t) - 1 /\ t[i] = s[i] /\ t[i + 1] = s[i + 1]
    BY <1>1
  <2> QED BY <2>1, <2>2 DEF Broken
<1> QED BY <1>2, <1>3 DEF t

\* audit_verify stops where a row does not follow the one before it.
LEMMA BrokenFails ==
    ASSUME NEW S, NEW s \in Seq(S), Broken(s)
    PROVE  ~AuditVerify(s)
<1>1. PICK i \in 1 .. Len(s) - 1 :
         IsChained(s[i]) /\ IsChained(s[i + 1]) /\ s[i + 1].prev # s[i].hash
  BY DEF Broken
<1>2. i + 1 \in DOMAIN s /\ i + 1 - 1 = i
  OBVIOUS
<1> DEFINE before == {j \in 1 .. i : IsChained(s[j])}
<1>3. i \in before /\ \A j \in before : j <= i
  BY <1>1
<1>4. Max(before) = i
  <2>1. before \subseteq 1 .. i
    OBVIOUS
  <2> HIDE DEF before
  <2>2. \A y \in before : i >= y
    BY <1>3, <2>1
  <2>3. \A x \in before : (\A y \in before : x >= y) => x = i
    BY <1>3, <2>1, <2>2
  <2> QED BY <1>3, <2>2, <2>3 DEF Max
<1>5. PrevHash(s, i + 1) = s[i].hash
  BY <1>2, <1>3, <1>4 DEF PrevHash
<1> QED BY <1>1, <1>2, <1>5 DEF AuditVerify

\* Any insert that goes on from a head that was read, or is read now.
LEMMA Inserted ==
    ASSUME NEW S, NEW s \in Seq(S), NEW n, NEW heads, NEW left,
           (\E m \in 0 .. Len(s) : Sound(s, n, m, heads)) \/ (Twice(s) /\ Broken(s)),
           \A w \in Writers : left[w].busy => left[w] = heads[w],
           NEW h, \A m \in 0 .. Len(s) : Sound(s, n, m, heads) => HeadRead(s, m, h),
           NEW r, r = ChainRow(h.seq, n, h.prev)
    PROVE  \/ \E m \in 0 .. Len(Append(s, r)) : Sound(Append(s, r), n + 1, m, left)
           \/ Twice(Append(s, r)) /\ Broken(Append(s, r))
<1>1. CASE Twice(s) /\ Broken(s)
  BY <1>1, BranchStays
<1>2. ASSUME NEW m \in 0 .. Len(s), Sound(s, n, m, heads)
      PROVE  \/ \E m2 \in 0 .. Len(Append(s, r)) : Sound(Append(s, r), n + 1, m2, left)
             \/ Twice(Append(s, r)) /\ Broken(Append(s, r))
  <2>1. HeadRead(s, m, h) /\ Chain(s, m)
    BY <1>2 DEF Sound
  <2>2. PICK k \in 0 .. Len(s) - m : h.seq = k /\ h.prev = IF k = 0 THEN Genesis ELSE s[m + k].hash
    BY <2>1 DEF HeadRead
  <2>3. CASE k # Len(s) - m
    <3>1. r = ChainRow(k, n, IF k = 0 THEN Genesis ELSE s[m + k].hash)
      BY <2>2
    <3> QED BY <2>1, <2>3, <3>1, OldHeadBranches
  <2>4. CASE k = Len(s) - m
    <3>1. (k = 0 <=> Len(s) = m) /\ m + k = Len(s) /\ Len(s) \in Nat
      BY <2>4
    <3>2. h.prev = IF Len(s) = m THEN Genesis ELSE s[Len(s)].hash
      BY <2>2, <3>1
    <3>3. r = ChainRow(Len(s) - m, n, IF Len(s) = m THEN Genesis ELSE s[Len(s)].hash)
      BY <2>2, <2>4, <3>2
    <3> QED BY <1>2, <3>3, SoundGrows
  <2> QED BY <2>3, <2>4
<1> QED BY <1>1, <1>2

\* The head is one that could be read.
LEMMA HeadIsRead ==
    ASSUME NEW S, rows \in Seq(S), NEW m \in 0 .. Len(rows), Chain(rows, m),
           NEW h, h.seq = NextSeq, h.prev = NextPrev
    PROVE  HeadRead(rows, m, h)
<1>1. PICK k \in 0 .. Len(rows) - m : k = Len(rows) - m
  OBVIOUS
<1>2. (k = 0 <=> Len(rows) = m) /\ m + k = Len(rows)
  BY <1>1
<1>3. h.seq = k /\ h.prev = IF k = 0 THEN Genesis ELSE rows[m + k].hash
  BY <1>1, <1>2, HeadOfChain
<1> QED BY <1>3 DEF HeadRead

\* recv, ack, mark_delivered and replay of any processes, with any number of rows
\* older than the chain: the rows are a chain, or some number is there twice and
\* the chain is broken.
THEOREM ChainCorrect == Spec => []TableInv
<1>1. Init => TableInv
  <2> SUFFICES ASSUME Init PROVE TableInv
    OBVIOUS
  <2>1. PICK n \in 0 .. MaxLegacy : rows = [k \in 1 .. n |-> LegacyRow(k)]
    BY DEF Init
  <2>2. n \in Nat
    BY ChainAssumption
  <2>3. rows \in Seq({LegacyRow(k) : k \in 1 .. n}) /\ Len(rows) = n
    BY <2>1, <2>2
  <2>4. Chain(rows, n)
    BY <2>1, <2>2, <2>3 DEF Chain
  <2>5. n \in 0 .. Len(rows) /\ clock = Len(rows) - n + 1
    BY <2>2, <2>3 DEF Init
  <2>6. held = [v \in Writers |-> held[v]] /\ \A v \in Writers : ~held[v].busy
    BY DEF Init, Free
  <2>7. Sound(rows, clock, n, held)
    BY <2>4, <2>5, <2>6 DEF Sound
  <2> QED BY <2>3, <2>5, <2>6, <2>7 DEF TableInv, ChainInv
<1>2. TableInv /\ [Next]_vars => TableInv'
  <2> SUFFICES ASSUME TableInv, [Next]_vars PROVE TableInv'
    OBVIOUS
  <2>0. PICK S : rows \in Seq(S)
    BY DEF TableInv
  <2>1. ASSUME NEW w \in Writers, AppendLocked(w) \/ InsertRead(w) PROVE TableInv'
    <3>1. PICK h : \/ AppendLocked(w) /\ h = [seq |-> NextSeq, prev |-> NextPrev]
                   \/ InsertRead(w) /\ h = held[w]
      BY <2>1
    <3>2. PICK r : r = ChainRow(h.seq, clock, h.prev)
      OBVIOUS
    <3>3. rows' = Append(rows, r) /\ clock' = clock + 1
      BY <3>1, <3>2 DEF AppendLocked, InsertRead
    <3>4. /\ held' = [v \in Writers |-> held'[v]]
          /\ \A v \in Writers : held'[v].busy => held'[v] = held[v]
      BY <3>1 DEF AppendLocked, InsertRead, TableInv, Free
    <3>5. ASSUME NEW m \in 0 .. Len(rows), Sound(rows, clock, m, held)
          PROVE  HeadRead(rows, m, h)
      <4>1. CASE InsertRead(w) /\ h = held[w]
        BY <3>5, <4>1 DEF InsertRead, Sound
      <4>2. CASE h = [seq |-> NextSeq, prev |-> NextPrev]
        <5>1. h.seq = NextSeq /\ h.prev = NextPrev /\ Chain(rows, m)
          BY <3>5, <4>2 DEF Sound
        <5> QED BY <2>0, <5>1, HeadIsRead
      <4> QED BY <3>1, <4>1, <4>2
    <3>6. (\E m \in 0 .. Len(rows) : Sound(rows, clock, m, held)) \/ (Twice(rows) /\ Broken(rows))
      BY DEF TableInv, ChainInv
    <3>7. PICK t : t = Append(rows, r)
      OBVIOUS
    <3>8. PICK left : left = held'
      OBVIOUS
    <3>9. \/ \E m \in 0 .. Len(t) : Sound(t, clock + 1, m, left)
          \/ Twice(t) /\ Broken(t)
      BY <2>0, <3>2, <3>4, <3>5, <3>6, <3>7, <3>8, Inserted
    <3>10. \E S2 : t \in Seq(S2)
      BY <2>0, <3>7, RowAppended
    <3>11. rows' = t /\ clock' = clock + 1 /\ held' = left
      BY <3>3, <3>7, <3>8
    <3>12. ChainInv' \/ (Twice(rows') /\ Broken(rows'))
      BY <3>9, <3>11 DEF ChainInv
    <3> QED BY <3>4, <3>10, <3>11, <3>12 DEF TableInv
  <2>2. ASSUME NEW w \in Writers, ReadHead(w) PROVE TableInv'
    <3>1. rows' = rows /\ clock' = clock
      BY <2>2 DEF ReadHead
    <3>2. held' = [held EXCEPT ![w] = [busy |-> TRUE, seq |-> NextSeq, prev |-> NextPrev]]
      BY <2>2 DEF ReadHead
    <3>3. PICK left : left = held'
      OBVIOUS
    <3>4. /\ left = [v \in Writers |-> left[v]]
          /\ left[w].seq = NextSeq /\ left[w].prev = NextPrev
          /\ \A v \in Writers : v # w => left[v] = held[v]
      BY <3>2, <3>3 DEF TableInv
    <3>5. ASSUME NEW m \in 0 .. Len(rows), Sound(rows, clock, m, held)
          PROVE  Sound(rows, clock, m, left)
      <4>1. Chain(rows, m) /\ \A v \in Writers : held[v].busy => HeadRead(rows, m, held[v])
        BY <3>5 DEF Sound
      <4>2. HeadRead(rows, m, left[w])
        BY <2>0, <3>4, <4>1, HeadIsRead
      <4>3. \A v \in Writers : left[v].busy => HeadRead(rows, m, left[v])
        BY <3>4, <4>1, <4>2
      <4> QED BY <3>5, <4>3 DEF Sound
    <3>6. (\E m \in 0 .. Len(rows) : Sound(rows, clock, m, left)) \/ (Twice(rows) /\ Broken(rows))
      BY <3>5 DEF TableInv, ChainInv
    <3>7. ChainInv' \/ (Twice(rows') /\ Broken(rows'))
      BY <3>1, <3>3, <3>6 DEF ChainInv
    <3> QED BY <2>0, <3>1, <3>3, <3>4, <3>7 DEF TableInv
  <2>3. CASE UNCHANGED vars
    BY <2>3 DEF vars, TableInv, ChainInv
  <2> QED BY <2>1, <2>2, <2>3 DEF Next
<1> QED BY <1>1, <1>2, PTL DEF Spec

-----------------------------------------------------------------------------
(* What the verifiers say of them *)

\* audit_export from a number on: the rows of the chain from that one on.
LEMMA Exported ==
    ASSUME NEW S, rows \in Seq(S), NEW m \in 0 .. Len(rows), Chain(rows, m),
           NEW from \in 0 .. Len(rows) - m
    PROVE  /\ Export(from) = SubSeq(rows, m + from + 1, Len(rows))
           /\ Export(from) \in Seq(S) /\ Len(Export(from)) = Len(rows) - m - from
           /\ \A k \in 1 .. Len(rows) - m - from : Export(from)[k] = rows[m + from + k]
<1>1. /\ Len(rows) \in Nat /\ m \in Nat /\ from \in Nat /\ m + from \in 0 .. Len(rows)
      /\ DOMAIN rows = 1 .. Len(rows) /\ Len(rows) - (m + from) = Len(rows) - m - from
  OBVIOUS
<1>2. {i \in DOMAIN rows : rows[i].seq # NoSeq /\ rows[i].seq >= from}
         = (m + from) + 1 .. Len(rows)
  <2>1. \A i \in 1 .. m : rows[i].seq = NoSeq
    BY RowAt
  <2>2. \A i \in m + 1 .. Len(rows) : rows[i].seq = i - m - 1 /\ rows[i].seq # NoSeq
    BY RowAt
  <2>3. ASSUME NEW i \in 1 .. Len(rows)
        PROVE  rows[i].seq # NoSeq /\ rows[i].seq >= from <=> i \in (m + from) + 1 .. Len(rows)
    <3>1. CASE i \in 1 .. m
      <4>1. i \notin (m + from) + 1 .. Len(rows)
        BY <1>1, <3>1
      <4> QED BY <2>1, <3>1, <4>1
    <3>2. CASE i \in m + 1 .. Len(rows)
      <4>1. i - m - 1 >= from <=> i \in (m + from) + 1 .. Len(rows)
        BY <1>1, <3>2
      <4> QED BY <2>2, <3>2, <4>1
    <3> QED BY <1>1, <3>1, <3>2
  <2>4. (m + from) + 1 .. Len(rows) \subseteq 1 .. Len(rows)
    BY <1>1
  <2> QED BY <1>1, <2>3, <2>4
<1>3. Export(from) = SubSeq(rows, (m + from) + 1, Len(rows))
  BY <1>1, <1>2, SuffixSelected DEF Export
<1>4. /\ SubSeq(rows, (m + from) + 1, Len(rows)) \in Seq(S)
      /\ Len(SubSeq(rows, (m + from) + 1, Len(rows))) = Len(rows) - (m + from)
      /\ \A k \in 1 .. Len(rows) - (m + from) :
            SubSeq(rows, (m + from) + 1, Len(rows))[k] = rows[m + from + k]
  <2>1. PICK n : n = m + from
    OBVIOUS
  <2>2. n \in 0 .. Len(rows)
    BY <1>1, <2>1
  <2>3. /\ SubSeq(rows, n + 1, Len(rows)) \in Seq(S)
        /\ Len(SubSeq(rows, n + 1, Len(rows))) = Len(rows) - n
        /\ \A k \in 1 .. Len(rows) - n : SubSeq(rows, n + 1, Len(rows))[k] = rows[n + k]
    <3>1. /\ n + 1 \in Int /\ Len(rows) \in Int /\ \A k \in n + 1 .. Len(rows) : rows[k] \in S
          /\ Len(rows) - (n + 1) + 1 = Len(rows) - n
          /\ (n + 1 <= Len(rows)) <=> (Len(rows) - n # 0)
          /\ \A k \in 1 .. Len(rows) - n : n + 1 + k - 1 = n + k
      <4>1. n \in Nat /\ Len(rows) \in Nat /\ n <= Len(rows)
        BY <1>1, <2>2
      <4>2. \A k \in n + 1 .. Len(rows) : rows[k] \in S
        <5>1. \A k \in 1 .. Len(rows) : rows[k] \in S
          OBVIOUS
        <5> QED BY <4>1, <5>1
      <4>3. PICK l \in Nat : l = Len(rows)
        BY <4>1
      <4>4. /\ n + 1 \in Int /\ l \in Int /\ l - (n + 1) + 1 = l - n
            /\ (n + 1 <= l) <=> (l - n # 0)
            /\ \A k \in 1 .. l - n : n + 1 + k - 1 = n + k
        BY <4>1, <4>3
      <4> QED BY <4>2, <4>3, <4>4
    <3> QED BY <3>1, SubSeqProperties
  <2> QED BY <2>1, <2>3
<1> QED BY <1>1, <1>3, <1>4

\* The chain of rows, with its older rows before it, is accepted.
LEMMA ChainAccepted ==
    ASSUME TableInv, ChainInv
    PROVE  HonestAccepted
<1>1. PICK S : rows \in Seq(S)
  BY DEF TableInv
<1>2. PICK m \in 0 .. Len(rows) : Chain(rows, m)
  BY DEF ChainInv, Sound
<1>3. Len(rows) \in Nat /\ m \in Nat /\ Len(rows) - m \in Nat
  BY <1>1, <1>2
<1>4. \A i \in m + 1 .. Len(rows) :
         /\ HashHolds(rows[i]) /\ rows[i].seq = i - m - 1
         /\ rows[i].prev = IF i = m + 1 THEN Genesis ELSE rows[i - 1].hash
  BY <1>1, <1>2, RowAt
<1>5. AuditVerify(rows)
  <2> SUFFICES ASSUME NEW i \in DOMAIN rows, IsChained(rows[i])
               PROVE  HashHolds(rows[i]) /\ rows[i].prev = PrevHash(rows, i)
    BY DEF AuditVerify
  <2>1. /\ \A j \in 1 .. m : ~IsChained(rows[j])
        /\ \A j \in m + 1 .. Len(rows) : IsChained(rows[j])
    BY <1>1, <1>2, RowAt
  <2>2. i \in m + 1 .. Len(rows)
    <3>1. DOMAIN rows = 1 .. Len(rows)
      BY <1>1
    <3> QED BY <1>3, <2>1, <3>1
  <2>3. {j \in 1 .. i - 1 : IsChained(rows[j])} = m + 1 .. i - 1
    BY <1>3, <2>1, <2>2
  <2>4. i = m + 1 => m + 1 .. i - 1 = {}
    BY <1>3
  <2>5. i # m + 1 => m + 1 .. i - 1 # {} /\ Max(m + 1 .. i - 1) = i - 1
    BY <1>3, <2>2 DEF Max
  <2>6. PrevHash(rows, i) = IF i = m + 1 THEN Genesis ELSE rows[i - 1].hash
    BY <2>3, <2>4, <2>5 DEF PrevHash
  <2> QED BY <1>4, <2>2, <2>6
<1>6. ASSUME NEW from \in 0 .. Len(rows) - m
      PROVE  /\ Export(from) \in Seq(S) /\ Len(Export(from)) = Len(rows) - m - from
             /\ \A k \in 1 .. Len(rows) - m - from : Export(from)[k] = rows[m + from + k]
             /\ ChainOk(Export(from))
  <2>1. PICK e : e = Export(from)
    OBVIOUS
  <2>2. /\ e \in Seq(S) /\ Len(e) = Len(rows) - m - from
        /\ \A k \in 1 .. Len(rows) - m - from : e[k] = rows[m + from + k]
    BY <1>1, <1>2, <2>1, Exported
  <2>3. ASSUME NEW i \in 1 .. Len(e)
        PROVE  /\ HashHolds(e[i])
               /\ i > 1 => e[i].prev = e[i - 1].hash /\ e[i].seq = e[i - 1].seq + 1
    <3>1. PICK j : j = m + from + i
      OBVIOUS
    <3>2. j \in m + 1 .. Len(rows) /\ e[i] = rows[j]
      BY <1>3, <2>2, <3>1
    <3>3. HashHolds(e[i])
      BY <1>4, <3>2
    <3>4. ASSUME i > 1
          PROVE  e[i].prev = e[i - 1].hash /\ e[i].seq = e[i - 1].seq + 1
      <4>1. i - 1 \in 1 .. Len(rows) - m - from /\ m + from + (i - 1) = j - 1
        BY <1>3, <2>2, <3>1, <3>4
      <4>2. e[i - 1] = rows[j - 1]
        BY <2>2, <4>1
      <4>3. j # m + 1 /\ j - 1 \in m + 1 .. Len(rows) /\ j - m - 1 = j - 1 - m - 1 + 1
        BY <1>3, <3>1, <3>2, <3>4
      <4>4. rows[j].prev = rows[j - 1].hash /\ rows[j].seq = j - m - 1
        BY <1>4, <3>2, <4>3
      <4>5. rows[j - 1].seq = j - 1 - m - 1
        BY <1>4, <4>3
      <4> QED BY <3>2, <4>2, <4>3, <4>4, <4>5
    <3> QED BY <3>3, <3>4
  <2>4. ChainOk(e)
    BY <2>2, <2>3 DEF ChainOk
  <2> QED BY <2>1, <2>2, <2>4
<1>7. PICK all : all = Export(0)
  OBVIOUS
<1>8. /\ all \in Seq(S) /\ Len(all) = Len(rows) - m /\ ChainOk(all)
      /\ \A k \in 1 .. Len(rows) - m : all[k] = rows[m + k]
  <2>1. PICK z \in 0 .. Len(rows) - m : z = 0
    BY <1>3
  <2>2. Len(rows) - m - z = Len(rows) - m /\ \A k \in 1 .. Len(rows) - m : m + z + k = m + k
    BY <1>3, <2>1
  <2>3. /\ all \in Seq(S) /\ Len(all) = Len(rows) - m - z /\ ChainOk(all)
        /\ \A k \in 1 .. Len(rows) - m - z : all[k] = rows[m + z + k]
    BY <1>6, <1>7, <2>1
  <2> QED BY <2>2, <2>3
<1>9. ASSUME all # <<>>
      PROVE  ExportOk(all)
  <2>1. Len(all) # 0
    BY <1>8, <1>9, EmptySeq
  <2>2. 1 \in 1 .. Len(rows) - m /\ m + 1 \in m + 1 .. Len(rows) /\ m + 1 - m - 1 = 0
    <3>1. Len(rows) - m # 0
      BY <1>8, <2>1
    <3> QED BY <1>3, <3>1
  <2>3. Head(all) = rows[m + 1]
    BY <1>8, <2>2
  <2> QED BY <1>4, <1>8, <1>9, <2>2, <2>3 DEF ExportOk, Anchored
<1>10. ASSUME NEW from \in 1 .. Len(all) - 1
       PROVE  ExportOkAt(Export(from), all[from].hash)
  <2>1. from \in 1 .. Len(rows) - m /\ from \in 0 .. Len(rows) - m
    BY <1>3, <1>8
  <2>2. PICK e : e = Export(from)
    OBVIOUS
  <2>3. /\ e \in Seq(S) /\ Len(e) = Len(rows) - m - from
        /\ \A k \in 1 .. Len(rows) - m - from : e[k] = rows[m + from + k]
        /\ ChainOk(e)
    BY <1>6, <2>1, <2>2
  <2>4. 1 \in 1 .. Len(rows) - m - from /\ Len(e) # 0
    <3>1. from \in 1 .. Len(rows) - m - 1
      BY <1>8
    <3>2. Len(rows) - m - from \in Nat /\ Len(rows) - m - from # 0
      BY <1>3, <3>1
    <3>3. Len(e) = Len(rows) - m - from
      BY <2>3
    <3> QED BY <3>2, <3>3
  <2>5. e # <<>> /\ Head(e) = rows[m + from + 1]
    <3>1. e[1] = rows[m + from + 1]
      BY <2>3, <2>4
    <3> QED BY <2>3, <2>4, <3>1
  <2>6. /\ m + from + 1 \in m + 1 .. Len(rows) /\ m + from + 1 # m + 1
        /\ m + from + 1 - 1 = m + from
    <3>1. from \in 1 .. Len(rows) - m - 1
      BY <1>8
    <3> QED BY <1>3, <3>1
  <2>7. rows[m + from + 1].prev = rows[m + from].hash /\ all[from] = rows[m + from]
    BY <1>4, <1>8, <2>1, <2>6
  <2> QED BY <2>2, <2>3, <2>5, <2>7 DEF ExportOkAt, AnchoredAt
<1> QED BY <1>5, <1>7, <1>9, <1>10 DEF HonestAccepted

\* A chain with something changed, or without its beginning, is not.
LEMMA ChangeEvident ==
    ASSUME TableInv, ChainInv
    PROVE  TamperEvident
<1>1. PICK S : rows \in Seq(S)
  BY DEF TableInv
<1>2. PICK m \in 0 .. Len(rows) : Chain(rows, m)
  BY DEF ChainInv, Sound
<1>3. Len(rows) \in Nat /\ m \in Nat /\ Len(rows) - m \in Nat /\ DOMAIN rows = 1 .. Len(rows)
  BY <1>1, <1>2
<1>4. PICK c : c = SubSeq(rows, m + 1, Len(rows))
  OBVIOUS
<1>5. c \in Seq(S) /\ Len(c) = Len(rows) - m /\ Chain(c, 0)
  BY <1>1, <1>2, <1>4, ChainTail
<1>6. Chained(rows) = c
  <2>1. {i \in DOMAIN rows : IsChained(rows[i])} = m + 1 .. Len(rows)
    <3>1. /\ \A j \in 1 .. m : ~IsChained(rows[j])
          /\ \A j \in m + 1 .. Len(rows) : IsChained(rows[j])
      BY <1>1, <1>2, RowAt
    <3> QED BY <1>3, <3>1
  <2> QED BY <1>1, <1>2, <1>4, <2>1, SuffixSelected DEF Chained
<1>7. Export(0) = c
  <2>1. 0 \in 0 .. Len(rows) - m /\ m + 0 + 1 = m + 1
    BY <1>3
  <2> QED BY <1>1, <1>2, <1>4, <2>1, Exported
<1>8. \A t \in Tampered(c) : ~AuditVerify(t) /\ ~ExportOk(t)
  BY <1>5, TamperedBreaks
<1>9. ASSUME NEW n \in 2 .. Len(c), ExportOk(SubSeq(c, n, Len(c)))
      PROVE  FALSE
  <2>1. PICK e : e = SubSeq(c, n, Len(c))
    OBVIOUS
  <2>2. e \in Seq(S) /\ Len(e) = Len(c) - n + 1 /\ e[1] = c[n]
    <3>1. Len(c) \in Nat /\ n \in 1 .. Len(c) /\ 1 \in 1 .. Len(c) - n + 1 /\ n + 1 - 1 = n
      BY <1>5
    <3> QED BY <1>5, <2>1, <3>1, SubSeqProperties
  <2>3. Head(e) = c[n]
    BY <2>2
  <2>4. c[n].seq = n - 1 /\ n - 1 # 0
    BY <1>5, ChainRows
  <2> QED BY <1>9, <2>1, <2>3, <2>4 DEF ExportOk, Anchored
<1> QED BY <1>6, <1>7, <1>8, <1>9 DEF TamperEvident

\* The numbers of a chain differ.
LEMMA ChainNotBranched ==
    ASSUME TableInv, ChainInv
    PROVE  ~Branched
<1>1. PICK S : rows \in Seq(S)
  BY DEF TableInv
<1>2. PICK m \in 0 .. Len(rows) : Chain(rows, m)
  BY DEF ChainInv, Sound
<1>3. DOMAIN rows = 1 .. Len(rows) /\ Len(rows) \in Nat /\ m \in Nat
  BY <1>1
<1>4. ASSUME NEW i \in DOMAIN rows, rows[i].seq # NoSeq
      PROVE  i \in m + 1 .. Len(rows) /\ rows[i].seq = i - m - 1
  <2>1. i \notin 1 .. m
    BY <1>1, <1>2, <1>4, RowAt
  <2>2. i \in m + 1 .. Len(rows)
    BY <1>3, <2>1
  <2> QED BY <1>1, <1>2, <2>2, RowAt
<1>5. ASSUME NEW i \in DOMAIN rows, NEW j \in DOMAIN rows,
             rows[i].seq # NoSeq, rows[i].seq = rows[j].seq
      PROVE  i = j
  <2>1. i - m - 1 = j - m - 1 /\ i \in Int /\ j \in Int
    BY <1>4, <1>5
  <2> QED BY <1>3, <2>1
<1> QED BY <1>5 DEF Branched

\* "atomic with the cursor move, no TOCTOU" (_append_audit), as far as it goes:
\* whatever any processes have appended, audit_verify accepts the table, and
\* audit_chain_verify the full export and every slice of it with the hash of the
\* row before it - or two calls have gone on from one head, and audit_verify
\* rejects the table from then on.
THEOREM AppendedAccepted == Spec => []BranchOrAccepted
<1>1. Spec => []TableInv
  BY ChainCorrect
<1>2. TableInv => BranchOrAccepted
  <2> SUFFICES ASSUME TableInv PROVE BranchOrAccepted
    OBVIOUS
  <2>1. CASE ChainInv
    BY <2>1, ChainAccepted, ChainNotBranched DEF BranchOrAccepted
  <2>2. CASE Twice(rows) /\ Broken(rows)
    <3>1. Branched
      BY <2>2 DEF Twice, Branched
    <3>2. ~AuditVerify(rows)
      BY <2>2, BrokenFails DEF TableInv
    <3> QED BY <3>1, <3>2 DEF BranchOrAccepted
  <2> QED BY <2>1, <2>2 DEF TableInv
<1> QED BY <1>1, <1>2, PTL

\* "deleting/rewriting any row gives a chain break/hash mismatch" (audit_verify),
\* for chains of any length: take a row out with others behind it, change its
\* number or content, or put a copy of a row anywhere, and neither audit_verify
\* nor audit_chain_verify accepts; nor is an export without its beginning ok.
\* This of a table audit_verify accepts; one with two branches is rejected as it is.
THEOREM ChangesSeen == Spec => []TamperEvident
<1>1. Spec => []TableInv
  BY ChainCorrect
<1>2. TableInv => TamperEvident
  <2>1. TableInv /\ Broken(rows) => ~AuditVerify(rows)
    BY BrokenFails DEF TableInv
  <2> QED BY <2>1, ChangeEvident DEF TableInv, TamperEvident
<1> QED BY <1>1, <1>2, PTL

=============================================================================
