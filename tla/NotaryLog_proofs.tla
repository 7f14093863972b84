--------------------------- MODULE NotaryLog_proofs ---------------------------
(***************************************************************************)
(* What TLAPS proves of the notary log, for any number of writers, records *)
(* checkpoints and writers that die: what record returned is in the file;  *)
(* what is written verifies and its exports do; a line changed, removed or *)
(* moved does not; a log chained again is not trusted; and of a notary     *)
(* that signs two branches, slices that meet behind the fork show it.      *)
(***************************************************************************)
EXTENDS NotaryLog, FiniteSetTheorems, SequenceTheorems, WellFoundedInduction, TLAPS

\* The entries of s are numbered a..b, the k-th is at position p[k], and each
\* holds its hash and names that of the one before.
Chain(s, p, a, b) ==
    /\ p \in [a .. b -> DOMAIN s]
    /\ \A j, k \in a .. b : j < k => p[j] < p[k]
    /\ EntryAt(s) = {p[k] : k \in a .. b}
    /\ \A k \in a .. b : s[p[k]] = Entry(k, s[p[k]].prev, s[p[k]].pay)
    /\ \A k \in a + 1 .. b : s[p[k]].prev = s[p[k - 1]].hash

\* Of a chain that begins at 1: the hash of entry q.
HashOf(s, p, q) == IF q = 0 THEN Genesis ELSE s[p[q]].hash

Whole(s, p, N) ==
    /\ Chain(s, p, 1, N)
    /\ \A k \in 1 .. N : s[p[k]].prev = HashOf(s, p, k - 1) /\ s[p[k]].pay \in Nat \ {0}

\* Of the entries at a..b those up to q are before line i.
Reached(p, a, b, q, i) == q \in a - 1 .. b /\ \A k \in a .. b : p[k] < i <=> k <= q

Upto(p, a, q) == {p[k] : k \in a .. q}

\* Each checkpoint is signed for the last entry before it.
Sealed(s, p, N) ==
    \A i \in SealAt(s) : \E q \in 0 .. N :
        Reached(p, 1, N, q, i) /\ s[i] = Checkpoint(q, HashOf(s, p, q), Notary)

-----------------------------------------------------------------------------
(* Numbers and positions *)

LEMMA Smallest ==
    ASSUME NEW S \in SUBSET Nat, S # {}
    PROVE  \E m \in S : \A x \in S : m <= x
<1>1. \E m \in S : \A y \in S : ~(<<y, m>> \in OpToRel(<, Nat))
  BY WFMin, NatLessThanWellFounded
<1>2. \A x, y \in Nat : <<y, x>> \in OpToRel(<, Nat) <=> y < x
  BY DEF OpToRel
<1>3. PICK m \in S : \A y \in S : ~(<<y, m>> \in OpToRel(<, Nat))
  BY <1>1
<1>4. \A y \in S : ~(y < m)
  BY <1>2, <1>3, Zenon
<1> QED BY <1>4

LEMMA Induct ==
    ASSUME NEW W, 0 \in W, \A n \in Nat : n \in W => n + 1 \in W
    PROVE  Nat \subseteq W
<1>1. SUFFICES ASSUME Nat \ W # {} PROVE FALSE
  OBVIOUS
<1>2. PICK m \in Nat \ W : \A x \in Nat \ W : m <= x
  BY <1>1, Smallest
<1>3. m # 0 /\ m - 1 \in Nat
  BY <1>2
<1>4. m - 1 \in W
  BY <1>2, <1>3
<1> QED BY <1>2, <1>3, <1>4

LEMMA Tops ==
    ASSUME NEW n \in Nat, NEW S \in SUBSET (0 .. n), S # {}
    PROVE  Max(S) \in S /\ \A x \in S : x <= Max(S)
<1> DEFINE B == {m \in Nat : \A x \in S : x <= m}
<1>1. PICK m \in B : \A x \in B : m <= x
  <2>1. B \in SUBSET Nat /\ n \in B
    OBVIOUS
  <2> QED BY <2>1, Smallest
<1>2. m \in S
  <2>1. SUFFICES ASSUME m \notin S PROVE FALSE
    OBVIOUS
  <2>2. \A x \in S : x < m /\ x \in Nat
    BY <1>1, <2>1
  <2>3. m - 1 \in B
    <3>1. PICK x \in S : TRUE
      OBVIOUS
    <3>2. m - 1 \in Nat
      BY <1>1, <2>2, <3>1
    <3>3. \A y \in S : y <= m - 1
      BY <1>1, <2>2
    <3> QED BY <3>2, <3>3
  <2> QED BY <1>1, <2>3
<1>3. \E x \in S : \A y \in S : x >= y
  BY <1>1, <1>2
<1>4. Max(S) \in S /\ \A y \in S : Max(S) >= y
  BY <1>3 DEF Max
<1> QED BY <1>4

LEMMA Bottoms ==
    ASSUME NEW S \in SUBSET Nat, S # {}
    PROVE  Min(S) \in S /\ \A x \in S : Min(S) <= x
<1>1. \E x \in S : \A y \in S : x =< y
  BY Smallest
<1> QED BY <1>1 DEF Min

-----------------------------------------------------------------------------
(* Selections *)

Rank(S, i) == Cardinality({j \in S : j <= i})

\* R is S without its highest number n, if n is in it.
Below(S, R, n) ==
    /\ IsFiniteSet(S) /\ IsFiniteSet(R)
    /\ Cardinality(S) = IF n \in S THEN Cardinality(R) + 1 ELSE Cardinality(R)
    /\ \A i \in R : Rank(S, i) = Rank(R, i)
    /\ n \in S => Rank(S, n) = Cardinality(S)

LEMMA RankStep ==
    ASSUME NEW n \in Nat, NEW S \in SUBSET (1 .. n), NEW R \in SUBSET S, R = S \ {n}
    PROVE  Below(S, R, n)
<1>1. IsFiniteSet(S)
  <2>1. IsFiniteSet(1 .. n)
    BY FS_Interval
  <2> QED BY <2>1, FS_Subset
<1>2. IsFiniteSet(R)
  BY <1>1, FS_Subset
<1>3. n \in S => S = R \cup {n} /\ n \notin R
  OBVIOUS
<1>4. Cardinality(S) = IF n \in S THEN Cardinality(R) + 1 ELSE Cardinality(R)
  <2>1. CASE n \in S
    BY <1>2, <1>3, <2>1, FS_AddElement
  <2>2. CASE n \notin S
    BY <2>2
  <2> QED BY <2>1, <2>2
<1>5. \A i \in R : {j \in S : j <= i} = {j \in R : j <= i}
  <2> TAKE i \in R
  <2>1. \A j \in S : j <= i => j # n
    OBVIOUS
  <2> QED BY <2>1, Zenon
<1>6. {j \in S : j <= n} = S
  <2>1. \A j \in S : j <= n
    OBVIOUS
  <2> QED BY <2>1, Zenon
<1> QED BY <1>1, <1>2, <1>4, <1>5, <1>6 DEF Rank, Below

\* The k-th position of a set is there.
LEMMA RankFound ==
    ASSUME NEW n \in Nat
    PROVE  \A S \in SUBSET (1 .. n) : \A k \in 1 .. Cardinality(S) : \E i \in S : Rank(S, i) = k
<1> DEFINE W == {m \in Nat : \A S \in SUBSET (1 .. m) :
                    \A k \in 1 .. Cardinality(S) : \E i \in S : Rank(S, i) = k}
<1>1. 0 \in W
  <2>1. \A S \in SUBSET (1 .. 0) : S = {}
    OBVIOUS
  <2>2. Cardinality({}) = 0
    BY FS_EmptySet
  <2> QED BY <2>1, <2>2
<1>2. ASSUME NEW m \in Nat, m \in W PROVE m + 1 \in W
  <2>1. SUFFICES ASSUME NEW S \in SUBSET (1 .. m + 1), NEW k \in 1 .. Cardinality(S)
                 PROVE  \E i \in S : Rank(S, i) = k
    OBVIOUS
  <2> DEFINE R == S \ {m + 1}
  <2>2. R \in SUBSET (1 .. m) /\ R \in SUBSET S
    OBVIOUS
  <2>3. /\ IsFiniteSet(S) /\ IsFiniteSet(R)
        /\ Cardinality(S) = IF m + 1 \in S THEN Cardinality(R) + 1 ELSE Cardinality(R)
        /\ \A i \in R : Rank(S, i) = Rank(R, i)
        /\ m + 1 \in S => Rank(S, m + 1) = Cardinality(S)
    <3>1. PICK l \in Nat : l = m + 1
      OBVIOUS
    <3>2. S \in SUBSET (1 .. l) /\ R = S \ {l}
      BY <3>1
    <3> HIDE DEF R
    <3>3. Below(S, R, l)
      BY ONLY <2>2, <3>1, <3>2, RankStep
    <3> QED BY ONLY <3>1, <3>3 DEF Below
  <2>4. Cardinality(R) \in Nat
    BY <2>3, FS_CardinalityType
  <2>5. \A j \in 1 .. Cardinality(R) : \E i \in R : Rank(R, i) = j
    BY <1>2, <2>2
  <2> HIDE DEF R, W
  <2>6. CASE k \in 1 .. Cardinality(R)
    BY <2>2, <2>3, <2>5, <2>6
  <2>7. CASE k \notin 1 .. Cardinality(R)
    <3>1. m + 1 \in S /\ k = Cardinality(S)
      BY <2>3, <2>4, <2>7
    <3> QED BY <2>3, <3>1
  <2> QED BY <2>6, <2>7
<1> HIDE DEF W
<1>3. Nat \subseteq W
  BY <1>1, <1>2, Induct
<1>4. n \in W
  BY <1>3
<1> QED BY <1>4 DEF W

\* Select takes just the lines at the positions given, in their order.
LEMMA Ranked ==
    ASSUME NEW n \in Nat, NEW S \in SUBSET (1 .. n)
    PROVE  /\ IsFiniteSet(S) /\ Cardinality(S) \in Nat
           /\ \A k \in 1 .. Cardinality(S) : Nth(S, k) \in S /\ Rank(S, Nth(S, k)) = k
           /\ \A i \in S : Rank(S, i) \in 1 .. Cardinality(S) /\ Nth(S, Rank(S, i)) = i
           /\ \A i, j \in S : i < j => Rank(S, i) < Rank(S, j)
<1>1. IsFiniteSet(S)
  <2>1. IsFiniteSet(1 .. n)
    BY FS_Interval
  <2> QED BY <2>1, FS_Subset
<1>2. Cardinality(S) \in Nat
  BY <1>1, FS_CardinalityType
<1>3. ASSUME NEW k \in 1 .. Cardinality(S) PROVE Nth(S, k) \in S /\ Rank(S, Nth(S, k)) = k
  <2>1. \E i \in S : Cardinality({j \in S : j <= i}) = k
    BY RankFound DEF Rank
  <2> QED BY <2>1 DEF Nth, Rank
<1>4. \A i \in S : Rank(S, i) \in 1 .. Cardinality(S)
  <2> TAKE i \in S
  <2> DEFINE R == {j \in S : j <= i}
  <2>1. IsFiniteSet(R) /\ Cardinality(R) <= Cardinality(S) /\ i \in R
    BY <1>1, FS_Subset
  <2>2. Cardinality(R) \in Nat /\ Cardinality(R) # 0
    BY <2>1, FS_CardinalityType, FS_EmptySet
  <2> HIDE DEF R
  <2>3. Cardinality(R) \in 1 .. Cardinality(S)
    BY <1>2, <2>1, <2>2
  <2> QED BY <2>3 DEF Rank, R
<1>5. ASSUME NEW i \in S, NEW j \in S, i < j PROVE Rank(S, i) < Rank(S, j)
  <2> DEFINE A == {x \in S : x <= i}
             B == {x \in S : x <= j}
  <2>1. IsFiniteSet(A) /\ IsFiniteSet(B) /\ A \in SUBSET B
    <3>1. B \in SUBSET S
      OBVIOUS
    <3>2. \A x \in S : x <= i => x <= j
      BY <1>5
    <3>3. A \in SUBSET B
      BY <3>2, Zenon
    <3> QED BY <1>1, <3>1, <3>3, FS_Subset
  <2>3. j \in B /\ j \notin A
    BY <1>5
  <2> HIDE DEF A, B
  <2>4. A # B
    BY <2>3
  <2>5. Cardinality(A) \in Nat /\ Cardinality(B) \in Nat
    BY <2>1, FS_CardinalityType
  <2>6. Cardinality(A) <= Cardinality(B) /\ Cardinality(A) # Cardinality(B)
    BY <2>1, <2>4, FS_Subset
  <2>7. Cardinality(A) < Cardinality(B)
    BY <2>5, <2>6
  <2> QED BY <2>7 DEF A, B, Rank
<1>6. ASSUME NEW i \in S PROVE Nth(S, Rank(S, i)) = i
  <2> DEFINE m == Nth(S, Rank(S, i))
  <2>1. m \in S /\ Rank(S, m) = Rank(S, i)
    BY <1>3, <1>4
  <2> HIDE DEF m
  <2>2. m \in Int /\ i \in Int
    BY <2>1
  <2>3. ~(m < i) /\ ~(i < m)
    <3>1. Rank(S, i) \in Int
      BY <1>4
    <3> QED BY <1>5, <2>1, <3>1
  <2>4. m = i
    BY <2>2, <2>3
  <2> QED BY <2>4 DEF m
<1> QED BY <1>1, <1>2, <1>3, <1>4, <1>5, <1>6

Picked(x, s, S) ==
    /\ \E T : x \in Seq(T)
    /\ Cardinality(S) \in Nat
    /\ DOMAIN x = 1 .. Cardinality(S) /\ Len(x) = Cardinality(S)
    /\ \A k \in DOMAIN x : Nth(S, k) \in S /\ x[k] = s[Nth(S, k)]
    /\ \A i \in S : \E k \in DOMAIN x : x[k] = s[i]

LEMMA Selected ==
    ASSUME NEW s, NEW n \in Nat, NEW S \in SUBSET (1 .. n)
    PROVE  Picked(Select(s, S), s, S)
<1> DEFINE x == Select(s, S)
<1> DEFINE C == Cardinality(S)
<1>1. C \in Nat /\ \A k \in 1 .. C : Nth(S, k) \in S
  BY Ranked
<1>2. \A i \in S : Rank(S, i) \in 1 .. C /\ Nth(S, Rank(S, i)) = i
  BY Ranked
<1>3. x = [k \in 1 .. C |-> s[Nth(S, k)]]
  BY DEF Select
<1> HIDE DEF C, x
<1>4. x \in Seq({s[i] : i \in S})
  <2>1. x \in [1 .. C -> {s[i] : i \in S}]
    BY <1>1, <1>3
  <2> QED BY <1>1, <2>1, SeqDef
<1>5. \A i \in S : \E k \in 1 .. C : x[k] = s[i]
  BY <1>2, <1>3
<1>6. DOMAIN x = 1 .. C /\ Len(x) = C
  BY <1>1, <1>3, <1>4
<1> QED BY <1>1, <1>3, <1>4, <1>5, <1>6 DEF C, x, Picked

-----------------------------------------------------------------------------
(* Entries of a chain *)

\* What the entry at position p[k] says.
LEMMA ChainAt ==
    ASSUME NEW s, NEW n \in Nat, DOMAIN s = 1 .. n, NEW a \in Nat, NEW b \in Int, NEW p,
           Chain(s, p, a, b)
    PROVE  \A k \in a .. b :
              /\ p[k] \in 1 .. n /\ p[k] \in EntryAt(s) /\ s[p[k]].type = "entry"
              /\ s[p[k]].seq = k
              /\ s[p[k]].hash = EntryHash(k, s[p[k]].prev, s[p[k]].pay)
<1>1. ASSUME NEW k \in a .. b
      PROVE  /\ p[k] \in 1 .. n /\ p[k] \in EntryAt(s)
             /\ s[p[k]] = Entry(k, s[p[k]].prev, s[p[k]].pay)
  <2>1. p[k] \in DOMAIN s /\ p[k] \in {p[j] : j \in a .. b}
    BY DEF Chain
  <2> QED BY <2>1 DEF Chain
<1>2. \A seq, prev, pay :
         /\ Entry(seq, prev, pay).type = "entry" /\ Entry(seq, prev, pay).seq = seq
         /\ Entry(seq, prev, pay).hash = EntryHash(seq, prev, pay)
  BY DEF Entry
<1> QED BY <1>1, <1>2

\* No two positions of a chain are in the wrong order.
LEMMA InOrder ==
    ASSUME NEW s, NEW n \in Nat, DOMAIN s = 1 .. n, NEW a \in Nat, NEW b \in Int, NEW p,
           Chain(s, p, a, b), NEW j \in a .. b, NEW k \in a .. b
    PROVE  p[j] < p[k] <=> j < k
<1>1. p[j] \in Int /\ p[k] \in Int
  BY ChainAt
<1>2. j < k => p[j] < p[k]
  BY DEF Chain
<1>3. k < j => p[k] < p[j]
  BY DEF Chain
<1>4. j \in Int /\ k \in Int
  OBVIOUS
<1>5. ~(j < k) => j = k \/ k < j
  BY <1>4
<1> QED BY <1>1, <1>2, <1>3, <1>5

\* Of the entries up to the q-th: their numbers, the last of them and the hashes.
LEMMA Numbered ==
    ASSUME NEW s, NEW n \in Nat, DOMAIN s = 1 .. n, NEW a \in Nat, NEW b \in Int, NEW p,
           Chain(s, p, a, b), NEW q \in a .. b, NEW P, P = Upto(p, a, q)
    PROVE  /\ Seqs(s, P) = a .. q /\ Highest(s, P) = q
           /\ Newest(s, P) = s[p[q]]
           /\ \A k \in a .. q : HeadAt(s, P, k) = s[p[k]].hash
<1>1. \A k \in a .. b : p[k] \in 1 .. n /\ s[p[k]].seq = k
  BY ChainAt
<1>2. a .. q \subseteq a .. b /\ q \in a .. q
  OBVIOUS
<1>3. Seqs(s, P) = a .. q
  <2>1. \A x : x \in Seqs(s, P) <=> \E k \in a .. q : x = s[p[k]].seq
    BY DEF Seqs, Upto
  <2>2. \A x : x \in Seqs(s, P) <=> \E k \in a .. q : x = k
    BY <1>1, <1>2, <2>1
  <2> QED BY <2>2
<1>4. Highest(s, P) = q
  <2> DEFINE S == (a .. q) \cup {0}
  <2>1. S \in SUBSET (0 .. q) /\ q \in S /\ q \in Nat
    BY <1>2
  <2> HIDE DEF S
  <2>2. Max(S) \in S /\ q <= Max(S)
    BY <2>1, Tops
  <2>3. Max(S) = q
    <3>1. Max(S) \in 0 .. q
      BY <2>1, <2>2, Zenon
    <3> QED BY <2>1, <2>2, <3>1
  <2> QED BY <1>3, <2>3 DEF Highest, S
<1>5. \A k \in a .. q : {j \in P : s[j].seq = k} = {p[k]}
  <2> TAKE k \in a .. q
  <2>1. \A j \in P : s[j].seq = k <=> j = p[k]
    BY <1>1, <1>2 DEF Upto
  <2>2. p[k] \in P
    BY DEF Upto
  <2> QED BY <2>1, <2>2
<1>6. \A m \in Int : Max({m}) = m /\ Min({m}) = m
  BY DEF Max, Min
<1>7. \A k \in a .. q : p[k] \in Int
  BY <1>1, <1>2
<1>8. Newest(s, P) = s[p[q]]
  <2>1. {j \in P : s[j].seq = q} = {p[q]} /\ p[q] \in Int
    BY <1>2, <1>5, <1>7
  <2> QED BY <1>4, <1>6, <2>1 DEF Newest
<1>9. \A k \in a .. q : HeadAt(s, P, k) = s[p[k]].hash
  BY <1>5, <1>6, <1>7 DEF HeadAt
<1> QED BY <1>3, <1>4, <1>8, <1>9

\* The entries before a line.
LEMMA Befores ==
    ASSUME NEW s, NEW n \in Nat, DOMAIN s = 1 .. n, NEW a \in Nat, NEW b \in Int, NEW p,
           Chain(s, p, a, b)
    PROVE  /\ \A i, q : Reached(p, a, b, q, i) => Before(s, i) = Upto(p, a, q)
           /\ \A k \in a .. b : Reached(p, a, b, k - 1, p[k])
<1>1. ASSUME NEW i, NEW q, Reached(p, a, b, q, i)
      PROVE  Before(s, i) = Upto(p, a, q)
  <2>1. \A k \in a .. b : p[k] < i <=> k \in a .. q
    BY <1>1 DEF Reached
  <2>2. a .. q \subseteq a .. b
    BY <1>1 DEF Reached
  <2>3. EntryAt(s) = {p[k] : k \in a .. b}
    BY DEF Chain
  <2> QED BY <2>1, <2>2, <2>3 DEF Before, Upto
<1>2. ASSUME NEW k \in a .. b PROVE Reached(p, a, b, k - 1, p[k])
  <2>1. \A j \in a .. b : p[j] < p[k] <=> j <= k - 1
    <3> TAKE j \in a .. b
    <3>1. p[j] < p[k] <=> j < k
      BY InOrder
    <3> QED BY <3>1
  <2> QED BY <2>1 DEF Reached
<1> QED BY <1>1, <1>2

\* What a chain says of itself holds, whatever is left out before it.
LEMMA EntriesHold ==
    ASSUME NEW s, NEW n \in Nat, DOMAIN s = 1 .. n, NEW a \in Nat, NEW b \in Int, NEW p,
           Chain(s, p, a, b), NEW start,
           a <= b => /\ start = NoStart \/ s[p[a]].prev = start
                     /\ a = 1 => s[p[a]].prev = Genesis
    PROVE  \A i \in EntryAt(s) : EntryHolds(s, i, start)
<1> TAKE i \in EntryAt(s)
<1>1. PICK k \in a .. b : i = p[k]
  BY DEF Chain
<1>2. s[i].seq = k /\ s[i].hash = EntryHash(s[i].seq, s[i].prev, s[i].pay)
  BY <1>1, ChainAt
<1>3. Before(s, i) = Upto(p, a, k - 1)
  BY <1>1, Befores
<1>4. CASE k = a
  <2>1. Before(s, i) = {}
    BY <1>3, <1>4 DEF Upto
  <2> QED BY <1>1, <1>2, <1>4, <2>1 DEF EntryHolds
<1>5. CASE k # a
  <2>1. k - 1 \in a .. b /\ k \in a + 1 .. b /\ Before(s, i) # {}
    BY <1>3, <1>5 DEF Upto
  <2>2. Newest(s, Before(s, i)) = s[p[k - 1]]
    BY <1>3, <2>1, Numbered
  <2>3. s[p[k - 1]].seq = k - 1 /\ s[i].prev = s[p[k - 1]].hash
    <3>1. s[p[k - 1]].seq = k - 1
      BY <2>1, ChainAt
    <3>2. s[p[k]].prev = s[p[k - 1]].hash
      BY <2>1 DEF Chain
    <3> QED BY <1>1, <3>1, <3>2
  <2>4. Follows(Newest(s, Before(s, i)), s[i])
    BY <1>2, <2>2, <2>3 DEF Follows
  <2> QED BY <1>2, <2>1, <2>4 DEF EntryHolds
<1> QED BY <1>4, <1>5

\* Each checkpoint is the notary's, for an entry before it or one left out.
Bound(s, p, a, b) ==
    \A i \in SealAt(s) :
        /\ s[i] = Checkpoint(s[i].seq, s[i].head, Notary) /\ s[i].seq \in Nat
        /\ \E q : Reached(p, a, b, q, i) /\ s[i].seq <= IF q < a THEN 0 ELSE q
        /\ s[i].seq \in a .. b => s[i].head = s[p[s[i].seq]].hash

LEMMA SealFields ==
    ASSUME NEW seq, NEW head, NEW key
    PROVE  /\ Checkpoint(seq, head, key).type = "checkpoint"
           /\ Checkpoint(seq, head, key).seq = seq /\ Checkpoint(seq, head, key).head = head
           /\ Checkpoint(seq, head, key).key = key
           /\ Checkpoint(seq, head, key).sig = <<seq, head, key>>
BY DEF Checkpoint

LEMMA NoneBefore ==
    ASSUME NEW s PROVE Seqs(s, {}) = {} /\ Highest(s, {}) = 0
<1>1. Seqs(s, {}) = {}
  BY DEF Seqs
<1>2. Max({0}) = 0
  BY DEF Max
<1>3. {} \cup {0} = {0}
  OBVIOUS
<1> QED BY <1>1, <1>2, <1>3 DEF Highest

LEMMA SealsHold ==
    ASSUME NEW s, NEW n \in Nat, DOMAIN s = 1 .. n, NEW a \in Nat \ {0}, NEW b \in Int, NEW p,
           Chain(s, p, a, b), Bound(s, p, a, b)
    PROVE  \A i \in SealAt(s) : CheckpointHolds(s, i)
<1> TAKE i \in SealAt(s)
<1>1. /\ s[i] = Checkpoint(s[i].seq, s[i].head, Notary) /\ s[i].seq \in Nat
      /\ s[i].seq \in a .. b => s[i].head = s[p[s[i].seq]].hash
  BY DEF Bound
<1>2. PICK q : Reached(p, a, b, q, i) /\ s[i].seq <= IF q < a THEN 0 ELSE q
  BY DEF Bound
<1>3. s[i].key = Notary /\ s[i].sig = <<s[i].seq, s[i].head, s[i].key>>
  BY <1>1, SealFields
<1>4. Before(s, i) = Upto(p, a, q)
  <2>1. \A i2, q2 : Reached(p, a, b, q2, i2) => Before(s, i2) = Upto(p, a, q2)
    BY Befores
  <2> QED BY <1>2, <2>1
<1>5. q \in a - 1 .. b
  BY <1>2 DEF Reached
<1>6. HeadBound(s, s[i], Before(s, i))
  <2>1. CASE q < a
    <3>1. Before(s, i) = {} /\ s[i].seq = 0
      BY <1>1, <1>2, <1>4, <1>5, <2>1 DEF Upto
    <3> QED BY <3>1, NoneBefore DEF HeadBound
  <2>2. CASE q \in a .. b
    <3>1. /\ Seqs(s, Before(s, i)) = a .. q /\ Highest(s, Before(s, i)) = q
          /\ \A k \in a .. q : HeadAt(s, Before(s, i), k) = s[p[k]].hash
      BY <1>4, <2>2, Numbered
    <3>2. s[i].seq <= q
      BY <1>2, <2>2
    <3>3. s[i].seq \in a .. q => s[i].seq \in a .. b
      BY <2>2
    <3> QED BY <1>1, <3>1, <3>2, <3>3 DEF HeadBound
  <2> QED BY <1>5, <2>1, <2>2
<1> QED BY <1>3, <1>6 DEF CheckpointHolds

LEMMA ChainVerifies ==
    ASSUME NEW s, NEW n \in Nat, DOMAIN s = 1 .. n, NEW a \in Nat \ {0}, NEW b \in Int, NEW p,
           Chain(s, p, a, b), Bound(s, p, a, b), NEW start,
           \A i \in DOMAIN s : s[i].type \in {"entry", "checkpoint"},
           a <= b => /\ start = NoStart \/ s[p[a]].prev = start
                     /\ a = 1 => s[p[a]].prev = Genesis
    PROVE  VerifyOk(s, start)
<1>1. \A i \in EntryAt(s) : EntryHolds(s, i, start)
  BY EntriesHold
<1>2. \A i \in SealAt(s) : CheckpointHolds(s, i)
  BY SealsHold
<1>3. ASSUME NEW i \in DOMAIN s PROVE LineHolds(s, i, start)
  <2>1. CASE s[i].type = "entry"
    BY <1>1, <2>1 DEF LineHolds, EntryAt
  <2>2. CASE s[i].type = "checkpoint"
    BY <1>2, <2>2 DEF LineHolds, SealAt
  <2> QED BY <2>1, <2>2
<1> QED BY <1>3 DEF VerifyOk

\* The log's own checkpoints are such.
LEMMA SealedBound ==
    ASSUME NEW s, NEW n \in Nat, DOMAIN s = 1 .. n, NEW N \in Nat, NEW p,
           Whole(s, p, N), Sealed(s, p, N)
    PROVE  Bound(s, p, 1, N)
<1> SUFFICES ASSUME NEW i \in SealAt(s)
             PROVE  /\ s[i] = Checkpoint(s[i].seq, s[i].head, Notary) /\ s[i].seq \in Nat
                    /\ \E q : Reached(p, 1, N, q, i) /\ s[i].seq <= IF q < 1 THEN 0 ELSE q
                    /\ s[i].seq \in 1 .. N => s[i].head = s[p[s[i].seq]].hash
  BY DEF Bound
<1>1. PICK q \in 0 .. N : Reached(p, 1, N, q, i) /\ s[i] = Checkpoint(q, HashOf(s, p, q), Notary)
  BY DEF Sealed
<1>2. s[i].seq = q /\ s[i].head = HashOf(s, p, q)
  BY <1>1, SealFields
<1>3. q \in 1 .. N => HashOf(s, p, q) = s[p[q]].hash
  BY DEF HashOf
<1> QED BY <1>1, <1>2, <1>3

LEMMA WholeVerifies ==
    ASSUME NEW s, NEW n \in Nat, DOMAIN s = 1 .. n, NEW N \in Nat, NEW p,
           Whole(s, p, N), Sealed(s, p, N),
           \A i \in DOMAIN s : s[i].type \in {"entry", "checkpoint"}
    PROVE  VerifyOk(s, NoStart)
<1>1. Chain(s, p, 1, N) /\ Bound(s, p, 1, N)
  BY SealedBound DEF Whole
<1>2. 1 <= N => s[p[1]].prev = Genesis
  BY DEF Whole, HashOf
<1> QED BY <1>1, <1>2, ChainVerifies

-----------------------------------------------------------------------------
(* Writing *)

\* A line put behind a log.
LEMMA Behind ==
    ASSUME NEW S, NEW s \in Seq(S), NEW r, NEW t, t = Append(s, r)
    PROVE  /\ Len(s) \in Nat /\ DOMAIN s = 1 .. Len(s) /\ DOMAIN t = 1 .. Len(s) + 1
           /\ Len(t) = Len(s) + 1 /\ t \in Seq(S \cup {r})
           /\ \A i \in 1 .. Len(s) : t[i] = s[i]
           /\ t[Len(s) + 1] = r
<1>1. s \in Seq(S \cup {r})
  <2>1. \A i \in 1 .. Len(s) : s[i] \in S \cup {r}
    OBVIOUS
  <2> QED BY <2>1, IsASeq
<1> QED BY <1>1

LEMMA EntryGrows ==
    ASSUME NEW s, NEW n \in Nat, DOMAIN s = 1 .. n, NEW N \in Nat, NEW p,
           Whole(s, p, N), Sealed(s, p, N), NEW pay \in Nat \ {0},
           NEW t, DOMAIN t = 1 .. n + 1, \A i \in 1 .. n : t[i] = s[i],
           t[n + 1] = Entry(N + 1, HashOf(s, p, N), pay)
    PROVE  \E q : /\ Whole(t, q, N + 1) /\ Sealed(t, q, N + 1)
                  /\ HashOf(t, q, N + 1) = EntryHash(N + 1, HashOf(s, p, N), pay)
<1> DEFINE e == Entry(N + 1, HashOf(s, p, N), pay)
           q == [k \in 1 .. N + 1 |-> IF k = N + 1 THEN n + 1 ELSE p[k]]
<1>1. /\ n \in Nat /\ DOMAIN s = 1 .. n /\ DOMAIN t = 1 .. n + 1
      /\ \A i \in 1 .. n : t[i] = s[i]
      /\ t[n + 1] = e
  OBVIOUS
<1>2. /\ e.type = "entry" /\ e.seq = N + 1 /\ e.prev = HashOf(s, p, N) /\ e.pay = pay
      /\ e.hash = EntryHash(N + 1, HashOf(s, p, N), pay)
      /\ e = Entry(N + 1, e.prev, e.pay)
  BY DEF Entry
<1>3. Chain(s, p, 1, N) /\ \A k \in 1 .. N : s[p[k]].prev = HashOf(s, p, k - 1) /\ s[p[k]].pay \in Nat \ {0}
  BY DEF Whole
<1> HIDE DEF e
<1>4. \A k \in 1 .. N : p[k] \in 1 .. n /\ q[k] = p[k] /\ t[q[k]] = s[p[k]]
  <2>1. \A k \in 1 .. N : p[k] \in 1 .. n
    BY <1>1, <1>3, ChainAt
  <2>2. \A k \in 1 .. N : q[k] = p[k]
    OBVIOUS
  <2> QED BY <1>1, <2>1, <2>2
<1>5. q[N + 1] = n + 1 /\ t[q[N + 1]] = e
  BY <1>1
<1>6. EntryAt(t) = EntryAt(s) \cup {n + 1} /\ SealAt(t) = SealAt(s)
  BY <1>1, <1>2 DEF EntryAt, SealAt
<1>7. q \in [1 .. N + 1 -> DOMAIN t]
  <2>1. \A k \in 1 .. N + 1 : (IF k = N + 1 THEN n + 1 ELSE p[k]) \in 1 .. n + 1
    <3>1. \A k \in 1 .. N : p[k] \in 1 .. n
      BY <1>4
    <3> HIDE DEF q
    <3> QED BY <1>1, <3>1
  <2> QED BY <1>1, <2>1
<1> HIDE DEF q
<1>8. \A j, k \in 1 .. N + 1 : j < k => q[j] < q[k]
  <2>1. \A j, k \in 1 .. N : j < k => p[j] < p[k]
    BY <1>3 DEF Chain
  <2> TAKE j, k \in 1 .. N + 1
  <2> HAVE j < k
  <2>2. j \in 1 .. N /\ q[j] = p[j] /\ p[j] \in 1 .. n
    BY <1>4
  <2>3. CASE k = N + 1
    BY <1>5, <2>2, <2>3
  <2>4. CASE k \in 1 .. N
    <3>1. q[k] = p[k]
      BY <1>4, <2>4
    <3> QED BY <2>1, <2>2, <2>4, <3>1
  <2> QED BY <2>3, <2>4
<1>9. EntryAt(t) = {q[k] : k \in 1 .. N + 1}
  <2>1. EntryAt(s) = {p[k] : k \in 1 .. N}
    BY <1>3 DEF Chain
  <2>2. \A x : (\E k \in 1 .. N + 1 : x = q[k]) <=> (\E k \in 1 .. N : x = p[k]) \/ x = n + 1
    <3>1. 1 .. N + 1 = (1 .. N) \cup {N + 1}
      OBVIOUS
    <3> QED BY <1>4, <1>5, <3>1, Zenon
  <2> QED BY <1>6, <2>1, <2>2
<1>10. \A k \in 0 .. N : HashOf(t, q, k) = HashOf(s, p, k)
  BY <1>4 DEF HashOf
<1>11. ASSUME NEW k \in 1 .. N + 1
       PROVE  /\ t[q[k]] = Entry(k, t[q[k]].prev, t[q[k]].pay)
              /\ t[q[k]].prev = HashOf(t, q, k - 1) /\ t[q[k]].pay \in Nat \ {0}
  <2>1. CASE k \in 1 .. N
    <3>1. s[p[k]] = Entry(k, s[p[k]].prev, s[p[k]].pay)
      BY <1>3, <2>1 DEF Chain
    <3>2. HashOf(t, q, k - 1) = HashOf(s, p, k - 1)
      BY <1>10, <2>1
    <3> QED BY <1>3, <1>4, <2>1, <3>1, <3>2
  <2>2. CASE k = N + 1
    <3>1. HashOf(t, q, k - 1) = HashOf(s, p, N)
      BY <1>10, <2>2
    <3> QED BY <1>2, <1>5, <2>2, <3>1
  <2> QED BY <2>1, <2>2
<1>12. \A k \in 2 .. N + 1 : t[q[k]].prev = t[q[k - 1]].hash
  BY <1>11 DEF HashOf
<1>13. Whole(t, q, N + 1)
  <2>1. 1 + 1 = 2
    OBVIOUS
  <2> QED BY <1>7, <1>8, <1>9, <1>11, <1>12, <2>1 DEF Whole, Chain
<1>14. Sealed(t, q, N + 1)
  <2> SUFFICES ASSUME NEW i \in SealAt(t)
               PROVE  \E m \in 0 .. N + 1 : /\ Reached(q, 1, N + 1, m, i)
                                            /\ t[i] = Checkpoint(m, HashOf(t, q, m), Notary)
    BY DEF Sealed
  <2>1. i \in SealAt(s) /\ i \in 1 .. n
    BY <1>1, <1>6 DEF SealAt
  <2>2. PICK m \in 0 .. N : Reached(p, 1, N, m, i) /\ s[i] = Checkpoint(m, HashOf(s, p, m), Notary)
    BY <2>1 DEF Sealed
  <2>3. Reached(q, 1, N + 1, m, i)
    <3>1. \A k \in 1 .. N : q[k] < i <=> k <= m
      BY <1>4, <2>2 DEF Reached
    <3>2. ~(q[N + 1] < i) /\ ~(N + 1 <= m)
      BY <1>1, <1>5, <2>1
    <3> QED BY <3>1, <3>2 DEF Reached
  <2>4. t[i] = Checkpoint(m, HashOf(t, q, m), Notary)
    BY <1>1, <1>10, <2>1, <2>2
  <2> QED BY <2>3, <2>4
<1>15. HashOf(t, q, N + 1) = EntryHash(N + 1, HashOf(s, p, N), pay)
  BY <1>2, <1>5 DEF HashOf
<1> QED BY <1>13, <1>14, <1>15

LEMMA SealGrows ==
    ASSUME NEW s, NEW n \in Nat, DOMAIN s = 1 .. n, NEW N \in Nat, NEW p,
           Whole(s, p, N), Sealed(s, p, N),
           NEW t, DOMAIN t = 1 .. n + 1, \A i \in 1 .. n : t[i] = s[i],
           t[n + 1] = Checkpoint(N, HashOf(s, p, N), Notary)
    PROVE  Whole(t, p, N) /\ Sealed(t, p, N)
<1> DEFINE c == Checkpoint(N, HashOf(s, p, N), Notary)
<1>1. t[n + 1] = c /\ c.type = "checkpoint"
  BY SealFields
<1> HIDE DEF c
<1>2. EntryAt(t) = EntryAt(s) /\ SealAt(t) = SealAt(s) \cup {n + 1}
  BY <1>1 DEF EntryAt, SealAt
<1>3. Chain(s, p, 1, N) /\ \A k \in 1 .. N : s[p[k]].prev = HashOf(s, p, k - 1) /\ s[p[k]].pay \in Nat \ {0}
  BY DEF Whole
<1>4. \A k \in 1 .. N : p[k] \in 1 .. n /\ t[p[k]] = s[p[k]]
  BY <1>3, ChainAt
<1>5. \A k \in 0 .. N : HashOf(t, p, k) = HashOf(s, p, k)
  BY <1>4 DEF HashOf
<1>6. p \in [1 .. N -> DOMAIN t]
  <2>1. p \in [1 .. N -> 1 .. n]
    BY <1>3 DEF Chain
  <2> QED BY <2>1
<1>7. \A k \in 1 .. N : t[p[k]].prev = HashOf(t, p, k - 1) /\ t[p[k]].pay \in Nat \ {0}
  <2> TAKE k \in 1 .. N
  <2>1. t[p[k]] = s[p[k]] /\ HashOf(t, p, k - 1) = HashOf(s, p, k - 1)
    BY <1>4, <1>5
  <2> QED BY <1>3, <2>1
<1>8. Whole(t, p, N)
  BY <1>2, <1>3, <1>4, <1>6, <1>7 DEF Whole, Chain
<1>9. Sealed(t, p, N)
  <2> SUFFICES ASSUME NEW i \in SealAt(t)
               PROVE  \E m \in 0 .. N : Reached(p, 1, N, m, i) /\ t[i] = Checkpoint(m, HashOf(t, p, m), Notary)
    BY DEF Sealed
  <2>1. CASE i = n + 1
    <3>1. Reached(p, 1, N, N, i)
      BY <1>4, <2>1 DEF Reached
    <3>2. t[i] = Checkpoint(N, HashOf(t, p, N), Notary)
      BY <1>1, <1>5, <2>1 DEF c
    <3> QED BY <3>1, <3>2
  <2>2. CASE i # n + 1
    <3>1. i \in SealAt(s) /\ i \in 1 .. n
      BY <1>2, <2>2 DEF SealAt
    <3>2. PICK m \in 0 .. N : Reached(p, 1, N, m, i) /\ s[i] = Checkpoint(m, HashOf(s, p, m), Notary)
      BY <3>1 DEF Sealed
    <3>3. t[i] = Checkpoint(m, HashOf(t, p, m), Notary)
      BY <1>5, <3>1, <3>2
    <3> QED BY <3>2, <3>3
  <2> QED BY <2>1, <2>2
<1> QED BY <1>8, <1>9

\* A line that is no entry changes nothing for the entries.
LEMMA OtherGrows ==
    ASSUME NEW s, NEW n \in Nat, DOMAIN s = 1 .. n, NEW N \in Nat, NEW p, Whole(s, p, N),
           NEW t, DOMAIN t = 1 .. n + 1, \A i \in 1 .. n : t[i] = s[i], t[n + 1].type # "entry"
    PROVE  Whole(t, p, N)
<1>1. EntryAt(t) = EntryAt(s)
  BY DEF EntryAt
<1>2. Chain(s, p, 1, N) /\ \A k \in 1 .. N : s[p[k]].prev = HashOf(s, p, k - 1) /\ s[p[k]].pay \in Nat \ {0}
  BY DEF Whole
<1>3. \A k \in 1 .. N : p[k] \in 1 .. n /\ t[p[k]] = s[p[k]]
  BY <1>2, ChainAt
<1>4. \A k \in 0 .. N : HashOf(t, p, k) = HashOf(s, p, k)
  BY <1>3 DEF HashOf
<1>5. p \in [1 .. N -> DOMAIN t]
  <2>1. p \in [1 .. N -> 1 .. n]
    BY <1>2 DEF Chain
  <2> QED BY <2>1
<1>6. \A k \in 1 .. N : t[p[k]].prev = HashOf(t, p, k - 1) /\ t[p[k]].pay \in Nat \ {0}
  <2> TAKE k \in 1 .. N
  <2>1. t[p[k]] = s[p[k]] /\ HashOf(t, p, k - 1) = HashOf(s, p, k - 1)
    BY <1>3, <1>4
  <2> QED BY <1>2, <2>1
<1> QED BY <1>1, <1>2, <1>3, <1>5, <1>6 DEF Whole, Chain

\* Some number of the entries is before a line.
LEMMA ReachFound ==
    ASSUME NEW s, NEW n \in Nat, DOMAIN s = 1 .. n, NEW N \in Nat, NEW p, Chain(s, p, 1, N),
           NEW i \in Int
    PROVE  \E q \in 0 .. N : Reached(p, 1, N, q, i)
<1> DEFINE B == {k \in 1 .. N : ~(p[k] < i)}
<1>1. \A k \in 1 .. N : p[k] \in Int
  BY ChainAt
<1>2. CASE B = {}
  <2>1. Reached(p, 1, N, N, i)
    BY <1>2 DEF Reached
  <2> QED BY <2>1
<1>3. CASE B # {}
  <2>1. B \in SUBSET Nat
    OBVIOUS
  <2>2. PICK m \in B : \A x \in B : m <= x
    BY <1>3, <2>1, Smallest
  <2>3. \A k \in 1 .. N : k < m => p[k] < i
    BY <2>2
  <2>4. \A k \in 1 .. N : k > m => ~(p[k] < i)
    <3> TAKE k \in 1 .. N
    <3> HAVE k > m
    <3>1. p[m] < p[k]
      BY <2>2 DEF Chain
    <3> QED BY <1>1, <2>2, <3>1
  <2>5. \A k \in 1 .. N : p[k] < i <=> k <= m - 1
    BY <2>2, <2>3, <2>4
  <2>6. Reached(p, 1, N, m - 1, i) /\ m - 1 \in 0 .. N
    BY <2>2, <2>5 DEF Reached
  <2> QED BY <2>6
<1> QED BY <1>2, <1>3

\* The first lines of a log are a log.
LEMMA Prefix ==
    ASSUME NEW s, NEW n \in Nat, DOMAIN s = 1 .. n, NEW N \in Nat, NEW p, Whole(s, p, N),
           NEW m \in 0 .. n, NEW t, DOMAIN t = 1 .. m, \A i \in 1 .. m : t[i] = s[i],
           NEW M, Reached(p, 1, N, M, m + 1)
    PROVE  /\ M \in 0 .. N
           /\ Whole(t, [k \in 1 .. M |-> p[k]], M)
           /\ Sealed(s, p, N) => Sealed(t, [k \in 1 .. M |-> p[k]], M)
<1> DEFINE q == [k \in 1 .. M |-> p[k]]
<1>1. M \in 0 .. N /\ \A k \in 1 .. N : p[k] < m + 1 <=> k <= M
  BY DEF Reached
<1>2. Chain(s, p, 1, N) /\ \A k \in 1 .. N : s[p[k]].prev = HashOf(s, p, k - 1) /\ s[p[k]].pay \in Nat \ {0}
  BY DEF Whole
<1>3. \A k \in 1 .. N : p[k] \in 1 .. n /\ s[p[k]].type = "entry"
  BY <1>2, ChainAt
<1>4. 1 .. M \subseteq 1 .. N /\ \A k \in 1 .. M : q[k] = p[k] /\ p[k] \in 1 .. m /\ t[q[k]] = s[p[k]]
  BY <1>1, <1>3
<1>5. q \in [1 .. M -> DOMAIN t]
  BY <1>4
<1> HIDE DEF q
<1>6. EntryAt(t) = {q[k] : k \in 1 .. M}
  <2>1. ASSUME NEW i \in EntryAt(t) PROVE \E k \in 1 .. M : i = q[k]
    <3>1. i \in 1 .. m /\ i \in EntryAt(s)
      BY <2>1 DEF EntryAt
    <3>2. PICK k \in 1 .. N : i = p[k]
      BY <1>2, <3>1 DEF Chain
    <3> QED BY <1>1, <1>4, <3>1, <3>2
  <2>2. ASSUME NEW k \in 1 .. M PROVE q[k] \in EntryAt(t)
    BY <1>3, <1>4 DEF EntryAt
  <2> QED BY <2>1, <2>2
<1>7. \A k \in 0 .. M : HashOf(t, q, k) = HashOf(s, p, k)
  BY <1>1, <1>4 DEF HashOf
<1>8. \A k \in 1 .. M : /\ t[q[k]] = Entry(k, t[q[k]].prev, t[q[k]].pay)
                        /\ t[q[k]].prev = HashOf(t, q, k - 1) /\ t[q[k]].pay \in Nat \ {0}
  <2> TAKE k \in 1 .. M
  <2>1. k \in 1 .. N /\ t[q[k]] = s[p[k]] /\ k - 1 \in 0 .. M
    BY <1>1, <1>4
  <2>2. s[p[k]] = Entry(k, s[p[k]].prev, s[p[k]].pay)
    BY <1>2, <2>1 DEF Chain
  <2> QED BY <1>2, <1>7, <2>1, <2>2
<1>9. \A j, k \in 1 .. M : j < k => q[j] < q[k]
  BY <1>2, <1>4 DEF Chain
<1>10. \A k \in 1 + 1 .. M : t[q[k]].prev = t[q[k - 1]].hash
  BY <1>8 DEF HashOf
<1>11. Whole(t, q, M)
  BY <1>5, <1>6, <1>8, <1>9, <1>10 DEF Whole, Chain
<1>12. ASSUME Sealed(s, p, N) PROVE Sealed(t, q, M)
  <2> SUFFICES ASSUME NEW i \in SealAt(t)
               PROVE  \E j \in 0 .. M : Reached(q, 1, M, j, i) /\ t[i] = Checkpoint(j, HashOf(t, q, j), Notary)
    BY DEF Sealed
  <2>1. i \in SealAt(s) /\ i \in 1 .. m
    BY DEF SealAt
  <2>2. PICK j \in 0 .. N : Reached(p, 1, N, j, i) /\ s[i] = Checkpoint(j, HashOf(s, p, j), Notary)
    BY <1>12, <2>1 DEF Sealed
  <2>3. j \in 0 .. M
    <3>1. j # 0 => p[j] < i /\ p[j] < m + 1
      BY <1>3, <2>1, <2>2 DEF Reached
    <3> QED BY <1>1, <3>1
  <2>4. Reached(q, 1, M, j, i)
    BY <1>4, <2>2, <2>3 DEF Reached
  <2> QED BY <1>7, <2>1, <2>2, <2>3, <2>4
<1> QED BY <1>1, <1>11, <1>12 DEF q

-----------------------------------------------------------------------------
(* The calls *)

\* What _tail finds at the end of a log.
LEMMA TailFound ==
    ASSUME NEW s, NEW n \in Nat, DOMAIN s = 1 .. n, NEW N \in Nat, NEW p, Whole(s, p, N)
    PROVE  LogTail(s).seq = N /\ LogTail(s).head = HashOf(s, p, N)
<1>1. Chain(s, p, 1, N)
  BY DEF Whole
<1>2. EntryAt(s) = {p[k] : k \in 1 .. N}
  BY <1>1 DEF Chain
<1>3. CASE N = 0
  <2>1. EntryAt(s) = {}
    BY <1>2, <1>3
  <2> QED BY <1>3, <2>1 DEF LogTail, HashOf
<1>4. CASE N # 0
  <2>1. N \in 1 .. N /\ p[N] \in EntryAt(s) /\ p[N] \in 1 .. n /\ s[p[N]].seq = N
    BY <1>1, <1>4, ChainAt
  <2>2. \A i \in EntryAt(s) : i <= p[N]
    <3> TAKE i \in EntryAt(s)
    <3>1. PICK k \in 1 .. N : i = p[k]
      BY <1>2
    <3>2. k # N => p[k] < p[N]
      BY <1>1, <2>1 DEF Chain
    <3>3. p[k] \in 1 .. n
      BY <1>1, ChainAt
    <3> QED BY <2>1, <3>1, <3>2, <3>3
  <2>3. EntryAt(s) \in SUBSET (0 .. n) /\ EntryAt(s) # {}
    BY <2>1 DEF EntryAt
  <2>4. Max(EntryAt(s)) \in EntryAt(s) /\ p[N] <= Max(EntryAt(s))
    BY <2>1, <2>3, Tops
  <2>5. Max(EntryAt(s)) = p[N]
    <3>1. Max(EntryAt(s)) \in Int /\ Max(EntryAt(s)) <= p[N]
      BY <2>2, <2>3, <2>4
    <3> QED BY <2>1, <2>4, <3>1
  <2> QED BY <1>4, <2>1, <2>3, <2>5 DEF LogTail, HashOf
<1> QED BY <1>3, <1>4
Lines(s) ==
    /\ \E S : s \in Seq(S)
    /\ \A i \in DOMAIN s : s[i].type \in {"entry", "checkpoint", "garbage"}

Pays(s)    == {s[i].pay : i \in EntryAt(s)}
LastPay(s) == IF s # <<>> /\ s[Len(s)].type = "entry" THEN {s[Len(s)].pay} ELSE {}

\* A log of N entries at p, and one without a broken line.
Log(s, p, N)  == N \in Nat /\ Lines(s) /\ Whole(s, p, N)
Good(s, p, N) == Log(s, p, N) /\ Unbroken(s) /\ Sealed(s, p, N)

\* What the file is at any time: its entries are a chain, and unless a line is
\* broken its checkpoints are right.
Fine(s) == \E N, p : Log(s, p, N) /\ (Unbroken(s) => Good(s, p, N))

Added(s, r) == Append(s, r)

\* An entry and a checkpoint added to a log without a broken line.
LEMMA AddEntry ==
    ASSUME NEW s, NEW p, NEW N, Good(s, p, N), NEW pay \in Nat \ {0}
    PROVE  LET t == Added(s, Entry(N + 1, HashOf(s, p, N), pay)) IN
           /\ t # <<>> /\ Pays(s) \subseteq Pays(t) /\ pay \in Pays(t) /\ LastPay(t) = {pay}
           /\ \E q : /\ Good(t, q, N + 1)
                     /\ HashOf(t, q, N + 1) = EntryHash(N + 1, HashOf(s, p, N), pay)
<1> DEFINE t == Added(s, Entry(N + 1, HashOf(s, p, N), pay))
<1> HIDE DEF t
<1>0. /\ Lines(s) /\ Unbroken(s) /\ N \in Nat /\ Whole(s, p, N) /\ Sealed(s, p, N)
      /\ t = Append(s, Entry(N + 1, HashOf(s, p, N), pay))
  BY DEF Good, Log, Added, t
<1> DEFINE e == Entry(N + 1, HashOf(s, p, N), pay)
<1>1. PICK S : s \in Seq(S)
  BY <1>0 DEF Lines
<1>2. e.type = "entry" /\ e.pay = pay
  BY DEF Entry
<1> DEFINE n == Len(s)
<1>3. /\ n \in Nat /\ DOMAIN s = 1 .. n /\ DOMAIN t = 1 .. n + 1
      /\ Len(t) = n + 1 /\ t \in Seq(S \cup {e})
      /\ \A i \in 1 .. n : t[i] = s[i]
      /\ t[n + 1] = e
  <2> HIDE DEF e
  <2>1. t = Append(s, e)
    BY <1>0 DEF e
  <2> QED BY ONLY <1>1, <2>1, Behind DEF n
<1>4. \E q : /\ Whole(t, q, N + 1) /\ Sealed(t, q, N + 1)
             /\ HashOf(t, q, N + 1) = EntryHash(N + 1, HashOf(s, p, N), pay)
  <2> HIDE DEF n
  <2>1. t[n + 1] = Entry(N + 1, HashOf(s, p, N), pay) /\ Whole(s, p, N) /\ Sealed(s, p, N)
        /\ N \in Nat /\ pay \in Nat \ {0}
    BY <1>0, <1>3
  <2> QED BY ONLY <1>3, <2>1, EntryGrows
<1> HIDE DEF e, n
<1>5. Lines(t) /\ Unbroken(t)
  <2>1. \A i \in 1 .. n : s[i].type \in {"entry", "checkpoint", "garbage"} /\ s[i].type # "garbage"
    BY <1>0, <1>3 DEF Lines, Unbroken
  <2>2. \A i \in 1 .. n + 1 : t[i].type \in {"entry", "checkpoint", "garbage"} /\ t[i].type # "garbage"
    BY ONLY <1>2, <1>3, <2>1
  <2> QED BY <1>3, <2>2 DEF Lines, Unbroken
<1>6. Pays(s) \subseteq Pays(t) /\ pay \in Pays(t)
  <2>1. n + 1 \in EntryAt(t)
    BY ONLY <1>2, <1>3 DEF EntryAt
  <2>2. \A i \in EntryAt(s) : i \in EntryAt(t) /\ t[i] = s[i]
    BY ONLY <1>3 DEF EntryAt
  <2> QED BY <1>2, <1>3, <2>1, <2>2 DEF Pays
<1>7. LastPay(t) = {pay}
  <2>1. t # <<>>
    BY ONLY <1>3
  <2> QED BY ONLY <1>2, <1>3, <2>1 DEF LastPay
<1>8. t # <<>>
  BY ONLY <1>3
<1>9. N + 1 \in Nat
  BY <1>0
<1>10. \E q : Good(t, q, N + 1) /\ HashOf(t, q, N + 1) = EntryHash(N + 1, HashOf(s, p, N), pay)
  BY <1>4, <1>5, <1>9 DEF Good, Log
<1> QED BY <1>6, <1>7, <1>8, <1>10 DEF t

LEMMA AddSeal ==
    ASSUME NEW s, NEW p, NEW N, Good(s, p, N)
    PROVE  LET t == Added(s, Checkpoint(N, HashOf(s, p, N), Notary)) IN
           Good(t, p, N) /\ t # <<>> /\ Pays(t) = Pays(s) /\ LastPay(t) = {}
<1> DEFINE t == Added(s, Checkpoint(N, HashOf(s, p, N), Notary))
<1> HIDE DEF t
<1>0. /\ Lines(s) /\ Unbroken(s) /\ N \in Nat /\ Whole(s, p, N) /\ Sealed(s, p, N)
      /\ t = Append(s, Checkpoint(N, HashOf(s, p, N), Notary))
  BY DEF Good, Log, Added, t
<1> DEFINE c == Checkpoint(N, HashOf(s, p, N), Notary)
<1>1. PICK S : s \in Seq(S)
  BY <1>0 DEF Lines
<1>2. c.type = "checkpoint"
  BY SealFields
<1> DEFINE n == Len(s)
<1>3. /\ n \in Nat /\ DOMAIN s = 1 .. n /\ DOMAIN t = 1 .. n + 1
      /\ Len(t) = n + 1 /\ t \in Seq(S \cup {c})
      /\ \A i \in 1 .. n : t[i] = s[i]
      /\ t[n + 1] = c
  <2> HIDE DEF c
  <2>1. t = Append(s, c)
    BY <1>0 DEF c
  <2> QED BY ONLY <1>1, <2>1, Behind DEF n
<1>4. Whole(t, p, N) /\ Sealed(t, p, N)
  <2> HIDE DEF n
  <2>1. t[n + 1] = Checkpoint(N, HashOf(s, p, N), Notary) /\ Whole(s, p, N) /\ Sealed(s, p, N)
        /\ N \in Nat
    BY <1>0, <1>3
  <2> QED BY ONLY <1>3, <2>1, SealGrows
<1> HIDE DEF c, n
<1>5. Lines(t) /\ Unbroken(t)
  <2>1. \A i \in 1 .. n : s[i].type \in {"entry", "checkpoint", "garbage"} /\ s[i].type # "garbage"
    BY <1>0, <1>3 DEF Lines, Unbroken
  <2>2. \A i \in 1 .. n + 1 : t[i].type \in {"entry", "checkpoint", "garbage"} /\ t[i].type # "garbage"
    BY ONLY <1>2, <1>3, <2>1
  <2> QED BY <1>3, <2>2 DEF Lines, Unbroken
<1>6. Pays(t) = Pays(s)
  <2>1. EntryAt(t) = EntryAt(s)
    BY ONLY <1>2, <1>3 DEF EntryAt
  <2>2. \A i \in EntryAt(s) : t[i] = s[i]
    BY ONLY <1>3 DEF EntryAt
  <2> QED BY <2>1, <2>2 DEF Pays
<1>7. LastPay(t) = {}
  BY ONLY <1>2, <1>3 DEF LastPay
<1>8. t # <<>>
  BY ONLY <1>3
<1>9. Good(t, p, N)
  BY <1>0, <1>4, <1>5 DEF Good, Log
<1> QED BY <1>6, <1>7, <1>8, <1>9 DEF t

\* A broken line added, or a line behind one.
LEMMA AddBroken ==
    ASSUME NEW s, NEW p, NEW N, Log(s, p, N), NEW r,
           r.type = "garbage" \/ (r.type = "checkpoint" /\ ~Unbroken(s))
    PROVE  LET t == Added(s, r) IN
           Log(t, p, N) /\ ~Unbroken(t) /\ Pays(t) = Pays(s) /\ t # <<>>
<1> DEFINE t == Added(s, r)
<1> HIDE DEF t
<1>0. Lines(s) /\ N \in Nat /\ Whole(s, p, N) /\ t = Append(s, r)
  BY DEF Log, Added, t
<1>1. PICK S : s \in Seq(S)
  BY <1>0 DEF Lines
<1> DEFINE n == Len(s)
<1>2. /\ n \in Nat /\ DOMAIN s = 1 .. n /\ DOMAIN t = 1 .. n + 1
      /\ Len(t) = n + 1 /\ t \in Seq(S \cup {r})
      /\ \A i \in 1 .. n : t[i] = s[i]
      /\ t[n + 1] = r
  BY <1>0, <1>1, Behind DEF n
<1> HIDE DEF n
<1>3. Whole(t, p, N)
  <2>1. t[n + 1].type # "entry" /\ Whole(s, p, N) /\ N \in Nat
    BY <1>0, <1>2
  <2> QED BY ONLY <1>2, <2>1, OtherGrows
<1>4. Lines(t)
  <2>1. \A i \in 1 .. n : s[i].type \in {"entry", "checkpoint", "garbage"}
    BY <1>0, <1>2 DEF Lines
  <2>2. r.type \in {"entry", "checkpoint", "garbage"}
    OBVIOUS
  <2>3. \A i \in 1 .. n + 1 : t[i].type \in {"entry", "checkpoint", "garbage"}
    BY ONLY <1>2, <2>1, <2>2
  <2> QED BY <1>2, <2>3 DEF Lines
<1>5. ~Unbroken(t)
  <2>1. CASE r.type = "garbage"
    BY <1>2, <2>1 DEF Unbroken
  <2>2. CASE ~Unbroken(s)
    <3>1. PICK i \in 1 .. n : s[i].type = "garbage"
      BY <1>2, <2>2 DEF Unbroken
    <3>2. i \in DOMAIN t /\ t[i].type = "garbage"
      BY ONLY <1>2, <3>1
    <3> QED BY <3>2 DEF Unbroken
  <2> QED BY <2>1, <2>2
<1>6. Pays(t) = Pays(s)
  <2>1. r.type # "entry"
    OBVIOUS
  <2>2. EntryAt(t) = EntryAt(s)
    BY ONLY <1>2, <2>1 DEF EntryAt
  <2>3. \A i \in EntryAt(s) : t[i] = s[i]
    BY ONLY <1>2 DEF EntryAt
  <2> QED BY <2>2, <2>3 DEF Pays
<1>7. t # <<>>
  BY ONLY <1>2
<1>8. Log(t, p, N)
  BY <1>0, <1>3, <1>4 DEF Log
<1> QED BY <1>5, <1>6, <1>7, <1>8 DEF t

\* The last line taken away.
LEMMA Cut ==
    ASSUME NEW s, NEW p, NEW N, Log(s, p, N), s # <<>>
    PROVE  /\ \E M, q : Log(Front(s), q, M)
           /\ Pays(s) \subseteq Pays(Front(s)) \cup LastPay(s)
<1> DEFINE t == Front(s)
<1> HIDE DEF t
<1>0. Lines(s) /\ N \in Nat /\ Whole(s, p, N) /\ t = Front(s)
  BY DEF Log, t
<1>1. PICK S : s \in Seq(S)
  BY <1>0 DEF Lines
<1> DEFINE n == Len(s)
<1>2. n \in Nat \ {0} /\ DOMAIN s = 1 .. n
  BY <1>1
<1>3. /\ t \in Seq(S) /\ DOMAIN t = 1 .. n - 1 /\ \A i \in 1 .. n - 1 : t[i] = s[i]
  <2>1. t = SubSeq(s, 1, n - 1)
    BY <1>0 DEF Front, n
  <2> QED BY <1>1, <1>2, <2>1
<1> HIDE DEF n
<1>4. Lines(t)
  <2>1. \A i \in 1 .. n - 1 : t[i].type \in {"entry", "checkpoint", "garbage"}
    BY <1>0, <1>2, <1>3 DEF Lines
  <2> QED BY <1>3, <2>1 DEF Lines
<1>5. \E M \in Nat : \E q : Whole(t, q, M)
  <2>1. n \in Nat /\ n - 1 \in 0 .. n /\ n - 1 + 1 \in Int /\ N \in Nat /\ Whole(s, p, N) /\ Chain(s, p, 1, N)
    BY <1>0, <1>2 DEF Whole
  <2>2. PICK M \in 0 .. N : Reached(p, 1, N, M, n - 1 + 1)
    BY ONLY <1>2, <2>1, ReachFound
  <2>3. Whole(t, [k \in 1 .. M |-> p[k]], M)
    BY ONLY <1>2, <1>3, <2>1, <2>2, Prefix
  <2> QED BY <2>3
<1>6. Pays(s) \subseteq Pays(t) \cup LastPay(s)
  <2> SUFFICES ASSUME NEW i \in EntryAt(s) PROVE s[i].pay \in Pays(t) \cup LastPay(s)
    BY DEF Pays
  <2>1. i \in 1 .. n /\ s[i].type = "entry"
    BY <1>2 DEF EntryAt
  <2>2. CASE i = n
    BY <2>1, <2>2 DEF LastPay, n
  <2>3. CASE i # n
    <3>1. i \in EntryAt(t) /\ t[i] = s[i]
      BY <1>2, <1>3, <2>1, <2>3 DEF EntryAt
    <3> QED BY <3>1 DEF Pays
  <2> QED BY <2>2, <2>3
<1>7. \E M, q : Log(t, q, M)
  BY <1>4, <1>5 DEF Log
<1> QED BY <1>6, <1>7 DEF t

\* What a call with tail, payload and operation of h has written when it
\* returns or dies.
Forms(h) ==
    LET e == NewEntry(h) IN
    {<<>>, <<Garbage>>} \cup
        IF h.op = "checkpoint" THEN {<<Checkpoint(h.tail.seq, h.tail.head, Notary)>>}
        ELSE {<<e>>, <<e, Garbage>>, <<e, Checkpoint(e.seq, e.hash, Notary)>>}

\* Of the lines L, the first n, alone, with a part of the next or all of it.
Parts(h, L, n) ==
    /\ SubSeq(L, 1, n) \in Forms(h)
    /\ n = 0 <=> SubSeq(L, 1, n) = <<>>
    /\ Append(SubSeq(L, 1, n), Garbage) \in Forms(h) \ {<<>>}
    /\ SubSeq(L, 1, n + 1) \in Forms(h) \ {<<>>}

LEMMA Whatever ==
    ASSUME NEW h
    PROVE  /\ LinesOf(h) \in Forms(h) /\ LinesOf(h) # <<>>
           /\ h.op # "checkpoint" => LinesOf(h) # <<Garbage>>
           /\ \A n \in 0 .. Len(LinesOf(h)) - 1 : Parts(h, LinesOf(h), n)
<1> DEFINE e == NewEntry(h)
           c == Checkpoint(e.seq, e.hash, Notary)
           d == Checkpoint(h.tail.seq, h.tail.head, Notary)
<1>1. \A x, y : /\ Len(<<x>>) = 1 /\ Len(<<x, y>>) = 2
                /\ SubSeq(<<x>>, 1, 0) = <<>> /\ SubSeq(<<x, y>>, 1, 0) = <<>>
                /\ SubSeq(<<x>>, 1, 1) = <<x>> /\ SubSeq(<<x, y>>, 1, 1) = <<x>>
                /\ SubSeq(<<x, y>>, 1, 2) = <<x, y>>
                /\ Append(<<>>, y) = <<y>> /\ Append(<<x>>, y) = <<x, y>>
                /\ <<x>> # <<>> /\ <<x, y>> # <<>>
  <2> TAKE x, y
  <2> DEFINE T == {x, y}
  <2>1. Len(<<x>>) = 1 /\ Len(<<x, y>>) = 2 /\ <<x>> # <<>> /\ <<x, y>> # <<>>
    OBVIOUS
  <2>2. <<>> \in Seq(T) /\ <<x>> \in Seq(T) /\ <<y>> \in Seq(T) /\ <<x, y>> \in Seq(T)
    OBVIOUS
  <2>3. x \in T /\ y \in T
    OBVIOUS
  <2> HIDE DEF T
  <2>4. \A a, b \in Seq(T) :
            Len(a) = Len(b) /\ (\A i \in 1 .. Len(a) : a[i] = b[i]) => a = b
    BY SeqEqual
  <2>5. Append(<<>>, y) = <<y>>
    <3>1. /\ Append(<<>>, y) \in Seq(T) /\ Len(Append(<<>>, y)) = 1 /\ Len(<<y>>) = 1
          /\ Append(<<>>, y)[1] = y /\ <<y>>[1] = y
      BY <2>2, <2>3
    <3>2. \A i \in 1 .. 1 : i = 1
      OBVIOUS
    <3> QED BY ONLY <2>2, <2>4, <3>1, <3>2
  <2>6. Append(<<x>>, y) = <<x, y>>
    <3>1. /\ Append(<<x>>, y) \in Seq(T) /\ Len(Append(<<x>>, y)) = 2 /\ Len(<<x, y>>) = 2
          /\ Append(<<x>>, y)[1] = x /\ <<x, y>>[1] = x
          /\ Append(<<x>>, y)[2] = y /\ <<x, y>>[2] = y
      BY <2>2, <2>3
    <3>2. \A i \in 1 .. 2 : i = 1 \/ i = 2
      OBVIOUS
    <3> QED BY ONLY <2>2, <2>4, <3>1, <3>2
  <2>7. SubSeq(<<x>>, 1, 0) = <<>> /\ SubSeq(<<x, y>>, 1, 0) = <<>>
    BY <2>2, SubSeqEmpty
  <2>8. SubSeq(<<x>>, 1, 1) = <<x>> /\ SubSeq(<<x, y>>, 1, 2) = <<x, y>>
    BY <2>1, <2>2, SubSeqFull
  <2>9. SubSeq(<<x, y>>, 1, 1) = <<x>>
    <3>1. /\ SubSeq(<<x, y>>, 1, 1) \in Seq(T) /\ Len(SubSeq(<<x, y>>, 1, 1)) = 1
          /\ Len(<<x>>) = 1 /\ SubSeq(<<x, y>>, 1, 1)[1] = x /\ <<x>>[1] = x
      BY <2>2
    <3>2. \A i \in 1 .. 1 : i = 1
      OBVIOUS
    <3> QED BY ONLY <2>2, <2>4, <3>1, <3>2
  <2> QED BY <2>1, <2>5, <2>6, <2>7, <2>8, <2>9
<1>2. e.type = "entry" /\ Garbage.type = "garbage"
  BY DEF NewEntry, Entry, Garbage
<1>3. LinesOf(h) = IF h.op = "checkpoint" THEN <<d>>
                   ELSE IF h.tail.since + 1 >= Every THEN <<e, c>> ELSE <<e>>
  BY DEF LinesOf
<1>4. Forms(h) = {<<>>, <<Garbage>>} \cup
                     IF h.op = "checkpoint" THEN {<<d>>} ELSE {<<e>>, <<e, Garbage>>, <<e, c>>}
  BY DEF Forms
<1> HIDE DEF e, c, d
<1>5. CASE h.op = "checkpoint"
  <2>1. LinesOf(h) = <<d>> /\ Forms(h) = {<<>>, <<Garbage>>, <<d>>}
    BY <1>3, <1>4, <1>5
  <2>2. Len(LinesOf(h)) = 1 /\ \A n \in 0 .. 1 - 1 : n = 0 /\ n + 1 = 1
    BY <1>1, <2>1
  <2>3. /\ SubSeq(<<d>>, 1, 0) = <<>> /\ SubSeq(<<d>>, 1, 1) = <<d>>
        /\ Append(<<>>, Garbage) = <<Garbage>> /\ <<Garbage>> # <<>> /\ <<d>> # <<>>
    BY <1>1
  <2>4. \A n \in 0 .. Len(LinesOf(h)) - 1 : Parts(h, <<d>>, n)
    BY ONLY <2>1, <2>2, <2>3 DEF Parts
  <2> QED BY <1>5, <2>1, <2>3, <2>4
<1>6. CASE h.op # "checkpoint"
  <2>1. Forms(h) = {<<>>, <<Garbage>>, <<e>>, <<e, Garbage>>, <<e, c>>}
    BY <1>4, <1>6
  <2>2. <<e>> # <<Garbage>> /\ <<e, c>> # <<Garbage>>
    BY <1>2
  <2>3. CASE LinesOf(h) = <<e>>
    <3>1. Len(LinesOf(h)) = 1 /\ \A n \in 0 .. 1 - 1 : n = 0 /\ n + 1 = 1
      BY <1>1, <2>3
    <3>2. /\ SubSeq(<<e>>, 1, 0) = <<>> /\ SubSeq(<<e>>, 1, 1) = <<e>>
          /\ Append(<<>>, Garbage) = <<Garbage>> /\ <<Garbage>> # <<>> /\ <<e>> # <<>>
      BY <1>1
    <3>3. \A n \in 0 .. Len(LinesOf(h)) - 1 : Parts(h, <<e>>, n)
      BY ONLY <2>1, <3>1, <3>2 DEF Parts
    <3> QED BY <2>1, <2>2, <2>3, <3>2, <3>3
  <2>4. CASE LinesOf(h) = <<e, c>>
    <3>1. Len(LinesOf(h)) = 2 /\ \A n \in 0 .. 2 - 1 : (n = 0 /\ n + 1 = 1) \/ (n = 1 /\ n + 1 = 2)
      BY <1>1, <2>4
    <3> DEFINE L == LinesOf(h)
    <3>2. /\ SubSeq(L, 1, 0) = <<>> /\ SubSeq(L, 1, 1) = <<e>> /\ SubSeq(L, 1, 2) = <<e, c>>
          /\ Append(<<>>, Garbage) = <<Garbage>> /\ Append(<<e>>, Garbage) = <<e, Garbage>>
          /\ <<e>> # <<>> /\ <<e, c>> # <<>> /\ <<Garbage>> # <<>> /\ <<e, Garbage>> # <<>>
      BY <1>1, <2>4
    <3>3. \A n \in 0 .. Len(L) - 1 : (n = 0 /\ n + 1 = 1) \/ (n = 1 /\ n + 1 = 2)
      BY <3>1
    <3> HIDE DEF L
    <3>4. \A n \in 0 .. Len(L) - 1 : Parts(h, L, n)
      <4> TAKE n \in 0 .. Len(L) - 1
      <4>1. CASE n = 0 /\ n + 1 = 1
        <5>1. SubSeq(L, 1, n) = <<>> /\ SubSeq(L, 1, n + 1) = <<e>>
          BY ONLY <3>2, <4>1
        <5> QED BY ONLY <2>1, <3>2, <4>1, <5>1 DEF Parts
      <4>2. CASE n = 1 /\ n + 1 = 2
        <5>1. SubSeq(L, 1, n) = <<e>> /\ SubSeq(L, 1, n + 1) = <<e, c>>
          BY ONLY <3>2, <4>2
        <5> QED BY ONLY <2>1, <3>2, <4>2, <5>1 DEF Parts
      <4> QED BY <3>3, <4>1, <4>2
    <3> QED BY <2>1, <2>2, <2>4, <3>2, <3>4 DEF L
  <2> QED BY <1>3, <1>6, <2>3, <2>4
<1> QED BY <1>5, <1>6

\* Lines joined to a sequence, one by one.
LEMMA OneByOne ==
    ASSUME NEW S, NEW s \in Seq(S), NEW x, NEW y
    PROVE  /\ s \o <<>> = s
           /\ s \o <<x>> = Added(s, x)
           /\ s \o <<x, y>> = Added(Added(s, x), y)
           /\ Tail(<<x>>) = <<>> /\ Tail(<<x, y>>) = <<y>>
<1>1. s \in Seq(S \cup {x, y})
  <2>1. \A i \in 1 .. Len(s) : s[i] \in S \cup {x, y}
    OBVIOUS
  <2> QED BY <2>1, IsASeq
<1>2. /\ s \o <<>> = s
      /\ s \o <<x>> = Append(s, x)
      /\ s \o <<x, y>> = Append(Append(s, x), y)
      /\ Tail(<<x>>) = <<>> /\ Tail(<<x, y>>) = <<y>>
  BY <1>1
<1> QED BY <1>2 DEF Added

LEMMA Joined ==
    ASSUME NEW s, NEW p, NEW N, Log(s, p, N)
    PROVE  /\ s \o <<>> = s
           /\ \A x : s \o <<x>> = Added(s, x)
           /\ \A x, y : s \o <<x, y>> = Added(Added(s, x), y)
           /\ \A x, y : Tail(<<x>>) = <<>> /\ Tail(<<x, y>>) = <<y>>
<1>1. PICK S : s \in Seq(S)
  BY DEF Log, Lines
<1>2. ASSUME NEW x, NEW y
      PROVE  /\ s \o <<>> = s
             /\ s \o <<x>> = Added(s, x)
             /\ s \o <<x, y>> = Added(Added(s, x), y)
             /\ Tail(<<x>>) = <<>> /\ Tail(<<x, y>>) = <<y>>
  BY ONLY <1>1, OneByOne
<1> QED BY <1>2

\* Lines written onto a log without a broken one.
LEMMA Written ==
    ASSUME Fine(log), Unbroken(log), open \in BOOLEAN, open => log # <<>>,
           NEW h, h.tail = LogTail(log), h.pay \in Nat \ {0},
           NEW lines \in Forms(h), lines # <<>>, NEW t, t = Appended(lines)
    PROVE  /\ Fine(t) /\ t # <<>>
           /\ open => ~Unbroken(t) /\ Pays(log) \subseteq Pays(t) \cup LastPay(log)
           /\ ~open => /\ Pays(log) \subseteq Pays(t)
                       /\ (h.op # "checkpoint" /\ lines # <<Garbage>>) => h.pay \in Pays(t)
           /\ Unbroken(t) => LastPay(t) = {} \/ (h.op # "checkpoint" /\ LastPay(t) = {h.pay})
<1> DEFINE e == NewEntry(h)
           c == Checkpoint(e.seq, e.hash, Notary)
           d == Checkpoint(h.tail.seq, h.tail.head, Notary)
<1>1. PICK N, p : Good(log, p, N)
  BY DEF Fine
<1>2. Log(log, p, N) /\ N \in Nat
  BY <1>1 DEF Good, Log
<1>3. LogTail(log).seq = N /\ LogTail(log).head = HashOf(log, p, N)
  <2>1. PICK S : log \in Seq(S)
    BY <1>2 DEF Log, Lines
  <2>2. Len(log) \in Nat /\ DOMAIN log = 1 .. Len(log)
    BY <2>1
  <2>3. Whole(log, p, N)
    BY <1>2 DEF Log
  <2> QED BY ONLY <1>2, <2>2, <2>3, TailFound
<1>4. /\ e = Entry(N + 1, HashOf(log, p, N), h.pay)
      /\ c = Checkpoint(N + 1, EntryHash(N + 1, HashOf(log, p, N), h.pay), Notary)
      /\ d = Checkpoint(N, HashOf(log, p, N), Notary)
  <2>1. e = Entry(N + 1, HashOf(log, p, N), h.pay)
    BY <1>3 DEF NewEntry
  <2>2. e.seq = N + 1 /\ e.hash = EntryHash(N + 1, HashOf(log, p, N), h.pay)
    BY <2>1 DEF Entry
  <2> QED BY <1>3, <2>1, <2>2
<1>5. lines \in {<<Garbage>>} \cup
          IF h.op = "checkpoint" THEN {<<d>>} ELSE {<<e>>, <<e, Garbage>>, <<e, c>>}
  BY DEF Forms
<1>6. Garbage.type = "garbage" /\ c.type = "checkpoint"
  BY <1>4, SealFields DEF Garbage
<1> HIDE DEF e, c, d
<1>7. CASE ~open
  <2>1. t = log \o lines
    BY <1>7 DEF Appended
  <2>2. CASE lines = <<Garbage>>
    <3>1. t = Added(log, Garbage)
      BY <1>2, <2>1, <2>2, Joined
    <3>2. Log(t, p, N) /\ ~Unbroken(t) /\ Pays(t) = Pays(log) /\ t # <<>>
      BY ONLY <1>2, <1>6, <3>1, AddBroken
    <3> QED BY <1>7, <2>2, <3>2 DEF Fine
  <2>3. CASE lines = <<d>> /\ h.op = "checkpoint"
    <3>1. t = Added(log, Checkpoint(N, HashOf(log, p, N), Notary))
      BY <1>2, <1>4, <2>1, <2>3, Joined
    <3>2. Good(t, p, N) /\ t # <<>> /\ Pays(t) = Pays(log) /\ LastPay(t) = {}
      BY ONLY <1>1, <3>1, AddSeal
    <3>3. Fine(t)
      BY <3>2 DEF Fine, Good
    <3> QED BY <1>7, <2>3, <3>2, <3>3
  <2>4. CASE lines \in {<<e>>, <<e, Garbage>>, <<e, c>>} /\ h.op # "checkpoint"
    <3> DEFINE u == Added(log, Entry(N + 1, HashOf(log, p, N), h.pay))
    <3>1. /\ u # <<>> /\ Pays(log) \subseteq Pays(u) /\ h.pay \in Pays(u) /\ LastPay(u) = {h.pay}
          /\ \E q : /\ Good(u, q, N + 1)
                    /\ HashOf(u, q, N + 1) = EntryHash(N + 1, HashOf(log, p, N), h.pay)
      <4>1. h.pay \in Nat \ {0}
        OBVIOUS
      <4> QED BY ONLY <1>1, <4>1, AddEntry
    <3>2. u = Added(log, e)
      BY <1>4
    <3> HIDE DEF u
    <3>3. PICK q : /\ Good(u, q, N + 1)
                   /\ HashOf(u, q, N + 1) = EntryHash(N + 1, HashOf(log, p, N), h.pay)
      BY <3>1
    <3>4. Log(u, q, N + 1)
      BY <3>3 DEF Good
    <3>5. CASE lines = <<e>>
      <4>1. t = u
        BY <1>2, <2>1, <3>2, <3>5, Joined
      <4>2. Fine(t) /\ t # <<>>
        BY <3>1, <3>3, <3>4, <4>1 DEF Fine
      <4> QED BY <1>7, <2>4, <3>1, <4>1, <4>2
    <3>6. CASE lines = <<e, Garbage>>
      <4>1. t = Added(u, Garbage)
        BY <1>2, <2>1, <3>2, <3>6, Joined
      <4>2. Log(t, q, N + 1) /\ ~Unbroken(t) /\ Pays(t) = Pays(u) /\ t # <<>>
        BY ONLY <1>6, <3>4, <4>1, AddBroken
      <4>3. Fine(t)
        BY <4>2 DEF Fine
      <4> QED BY <1>7, <2>4, <3>1, <4>2, <4>3
    <3>7. CASE lines = <<e, c>>
      <4>1. c = Checkpoint(N + 1, HashOf(u, q, N + 1), Notary)
        BY <1>4, <3>3
      <4>2. t = Added(u, Checkpoint(N + 1, HashOf(u, q, N + 1), Notary))
        BY <1>2, <2>1, <3>2, <3>7, <4>1, Joined
      <4>3. Good(t, q, N + 1) /\ t # <<>> /\ Pays(t) = Pays(u) /\ LastPay(t) = {}
        BY ONLY <3>3, <4>2, AddSeal
      <4>4. Fine(t)
        BY <4>3 DEF Fine, Good
      <4> QED BY <1>7, <2>4, <3>1, <4>3, <4>4
    <3> QED BY <2>4, <3>5, <3>6, <3>7
  <2> QED BY <1>5, <2>2, <2>3, <2>4
<1>8. CASE open
  <2> DEFINE f == Front(log)
             u == Added(f, Garbage)
  <2>1. t = f \o <<Garbage>> \o Tail(lines)
    BY <1>8 DEF Appended
  <2>2. PICK M, q : Log(f, q, M)
    BY <1>2, <1>8, Cut
  <2>3. Pays(log) \subseteq Pays(f) \cup LastPay(log)
    BY <1>2, <1>8, Cut
  <2> HIDE DEF f
  <2>4. Log(u, q, M) /\ ~Unbroken(u) /\ Pays(u) = Pays(f) /\ u # <<>>
    BY ONLY <1>6, <2>2, AddBroken
  <2>5. f \o <<Garbage>> = u
    BY <2>2, Joined
  <2> HIDE DEF u
  <2>6. Tail(lines) \in {<<>>, <<Garbage>>, <<c>>}
    <3>1. \A x, y : Tail(<<x>>) = <<>> /\ Tail(<<x, y>>) = <<y>>
      BY <2>4, Joined
    <3>2. lines \in {<<Garbage>>, <<d>>, <<e>>, <<e, Garbage>>, <<e, c>>}
      BY <1>5
    <3> QED BY ONLY <3>1, <3>2
  <2>7. Log(t, q, M) /\ ~Unbroken(t) /\ Pays(t) = Pays(u) /\ t # <<>>
    <3>1. CASE Tail(lines) = <<>>
      <4>1. t = u
        BY <2>1, <2>4, <2>5, <3>1, Joined
      <4> QED BY <2>4, <4>1
    <3>2. CASE Tail(lines) \in {<<Garbage>>, <<c>>}
      <4>1. PICK r \in {Garbage, c} : Tail(lines) = <<r>>
        BY <3>2
      <4>2. t = Added(u, r)
        <5>1. \A x : u \o <<x>> = Added(u, x)
          BY <2>4, Joined
        <5>2. t = u \o <<r>>
          BY <2>1, <2>5, <4>1
        <5> QED BY <5>1, <5>2
      <4>3. r.type = "garbage" \/ (r.type = "checkpoint" /\ ~Unbroken(u))
        BY <1>6, <2>4, <4>1
      <4> QED BY ONLY <2>4, <4>2, <4>3, AddBroken
    <3> QED BY <2>6, <3>1, <3>2
  <2>8. Fine(t)
    BY <2>7 DEF Fine
  <2> QED BY <1>8, <2>3, <2>4, <2>7, <2>8
<1> QED BY <1>7, <1>8

-----------------------------------------------------------------------------
(* The inductive invariant *)

LogInv == Fine(log) /\ open \in BOOLEAN /\ (open => log # <<>>)

\* A writer that holds the lock knows the tail of the file as it is.
HeldBy(h, s, ret, n) ==
    /\ h.op \in {"record", "checkpoint"} /\ h.pay \in Nat \ {0}
    /\ h.tail = LogTail(s) /\ Unbroken(s)
    /\ h.op = "record" => h.pay \in 1 .. n /\ h.pay \notin ret

HeldInv ==
    /\ held = [w \in Writers |-> held[w]]
    /\ \A w \in Writers : held[w] # Unheld => HeldBy(held[w], log, returned, count.records)
    /\ \A v, w \in Writers : held[v] # Unheld /\ held[w] # Unheld => v = w

\* What has returned is there, all but what went onto a line without newline,
\* and such a line is not of a call that returned.
KeptInv ==
    /\ count.records \in Nat /\ returned \subseteq 1 .. count.records
    /\ \E x : returned \subseteq Pays(log) \cup (IF Unbroken(log) THEN {} ELSE {x})
    /\ open /\ Unbroken(log) => LastPay(log) \cap returned = {}

CountInv == \E c \in [records : Nat, seals : Nat, tears : Nat] : count = c

NotaryInv == LogInv /\ HeldInv /\ KeptInv /\ CountInv

LEMMA NotaryStarts == Init => NotaryInv
<1> SUFFICES ASSUME Init PROVE NotaryInv
  OBVIOUS
<1>1. log = <<>> /\ open = FALSE /\ returned = {} /\ count.records = 0
  BY DEF Init
<1>2. DOMAIN log = {} /\ DOMAIN log = 1 .. 0 /\ log \in Seq({})
  BY <1>1
<1>3. EntryAt(log) = {} /\ SealAt(log) = {} /\ Unbroken(log) /\ Lines(log)
  BY <1>2 DEF EntryAt, SealAt, Unbroken, Lines
<1>4. Whole(log, <<>>, 0)
  <2>1. 1 .. 0 = {} /\ 1 + 1 .. 0 = {}
    OBVIOUS
  <2>2. <<>> \in [{} -> DOMAIN log]
    BY <2>1
  <2>3. {<<>>[k] : k \in {}} = {}
    OBVIOUS
  <2> QED BY <1>3, <2>1, <2>2, <2>3 DEF Whole, Chain
<1>5. Sealed(log, <<>>, 0)
  BY <1>3 DEF Sealed
<1>6. LogInv
  <2>1. Log(log, <<>>, 0)
    BY <1>3, <1>4 DEF Log
  <2>2. Good(log, <<>>, 0)
    BY <1>3, <1>5, <2>1 DEF Good
  <2> QED BY <1>1, <2>1, <2>2 DEF LogInv, Fine
<1>7. HeldInv
  <2>1. held = [w \in Writers |-> Unheld]
    BY DEF Init
  <2> QED BY <2>1 DEF HeldInv
<1>8. KeptInv
  BY <1>1 DEF KeptInv
<1>9. CountInv
  BY DEF Init, CountInv
<1> QED BY <1>6, <1>7, <1>8, <1>9 DEF NotaryInv

\* A writer takes the lock and reads.
LEMMA BeginKeeps ==
    ASSUME NotaryInv, NEW w \in Writers, BeginRecord(w) \/ BeginCheckpoint(w)
    PROVE  NotaryInv'
<1>1. PICK c \in [records : Nat, seals : Nat, tears : Nat] : count = c
  BY DEF NotaryInv, CountInv
<1>2. PICK o \in {"record", "checkpoint"} :
         /\ Begin(w, o)
         /\ o = "record" => count' = [count EXCEPT !.records = @ + 1]
         /\ o = "checkpoint" => count' = [count EXCEPT !.seals = @ + 1]
  BY DEF BeginRecord, BeginCheckpoint
<1>3. /\ count' \in [records : Nat, seals : Nat, tears : Nat]
      /\ count'.records = IF o = "record" THEN count.records + 1 ELSE count.records
      /\ count.records \in Nat
  BY <1>1, <1>2
<1>4. log' = log /\ open' = open /\ returned' = returned /\ Unbroken(log)
  BY <1>2 DEF Begin, Readable
<1>5. LogInv'
  <2>1. Fine(log) /\ open \in BOOLEAN /\ (open => log # <<>>)
    BY DEF NotaryInv, LogInv
  <2>2. Fine(log')
    BY ONLY <1>4, <2>1
  <2>3. open' \in BOOLEAN /\ (open' => log' # <<>>)
    BY <1>4, <2>1
  <2> QED BY <2>2, <2>3 DEF LogInv
<1>6. KeptInv'
  <2>1. returned' \subseteq 1 .. count'.records /\ count'.records \in Nat
    BY <1>3, <1>4 DEF NotaryInv, KeptInv
  <2> QED BY <1>4, <2>1 DEF NotaryInv, KeptInv, Pays, LastPay, EntryAt, Unbroken
<1>7. HeldInv'
  <2> PICK h : h = [op |-> o, pay |-> count.records + 1, tail |-> LogTail(log)]
    OBVIOUS
  <2>1. /\ held = [v \in Writers |-> held[v]] /\ held' = [held EXCEPT ![w] = h]
        /\ \A v \in Writers : held[v] = Unheld
    BY <1>2 DEF Begin, LockFree, NotaryInv, HeldInv
  <2>2. /\ h.op = o /\ h.pay = count.records + 1 /\ h.tail = LogTail(log)
    OBVIOUS
  <2>3. h.pay \notin returned /\ (o = "record" => h.pay \in 1 .. count'.records) /\ h.pay \in Nat \ {0}
    BY <1>3, <2>2 DEF NotaryInv, KeptInv
  <2>4. HeldBy(h, log', returned', count'.records)
    <3>1. LogTail(log') = LogTail(log) /\ Unbroken(log')
      BY ONLY <1>4
    <3>2. h.op \in {"record", "checkpoint"} /\ h.tail = LogTail(log')
      BY <2>2, <3>1
    <3> QED BY ONLY <1>4, <2>2, <2>3, <3>1, <3>2 DEF HeldBy
  <2>5. \A v \in Writers : held'[v] = IF v = w THEN h ELSE Unheld
    BY <2>1
  <2>6. held' = [v \in Writers |-> held'[v]]
    BY <2>1
  <2>7. \A v \in Writers : held'[v] # Unheld => HeldBy(held'[v], log', returned', count'.records)
    BY <2>4, <2>5
  <2>8. \A v, x \in Writers : held'[v] # Unheld /\ held'[x] # Unheld => v = x
    BY ONLY <2>5
  <2> QED BY ONLY <2>6, <2>7, <2>8 DEF HeldInv
<1>8. CountInv'
  BY <1>3 DEF CountInv
<1> QED BY <1>5, <1>6, <1>7, <1>8 DEF NotaryInv

\* The lock is free again.
LEMMA Freed ==
    ASSUME NotaryInv, NEW w \in Writers, held[w] # Unheld, held' = [held EXCEPT ![w] = Unheld]
    PROVE  HeldInv'
<1>1. /\ held = [v \in Writers |-> held[v]]
      /\ \A v \in Writers : held[v] # Unheld => v = w
  BY DEF NotaryInv, HeldInv
<1>2. \A v \in Writers : held'[v] = Unheld
  BY <1>1
<1>3. held' = [v \in Writers |-> held'[v]]
  BY <1>1
<1> QED BY <1>2, <1>3 DEF HeldInv

\* What the file and the set of returned calls are after lines were written.
LEMMA AfterLines ==
    ASSUME NotaryInv, NEW w \in Writers, held[w] # Unheld,
           NEW lines \in Forms(held[w]), lines # <<>>,
           log' = Appended(lines), open' \in BOOLEAN,
           \/ returned' = returned
           \/ /\ held[w].op = "record" /\ lines # <<Garbage>> /\ open' = FALSE
              /\ returned' = returned \cup {held[w].pay},
           count'.records = count.records
    PROVE  LogInv' /\ KeptInv'
<1> DEFINE h == held[w]
<1>1. /\ h.op \in {"record", "checkpoint"} /\ h.pay \in Nat \ {0}
      /\ h.tail = LogTail(log) /\ Unbroken(log)
      /\ h.op = "record" => h.pay \in 1 .. count.records /\ h.pay \notin returned
  BY DEF NotaryInv, HeldInv, HeldBy
<1>2. Fine(log) /\ open \in BOOLEAN /\ (open => log # <<>>)
  BY DEF NotaryInv, LogInv
<1>3. lines \in Forms(h)
  OBVIOUS
<1> HIDE DEF h
<1>4. /\ Fine(log') /\ log' # <<>>
      /\ open => ~Unbroken(log') /\ Pays(log) \subseteq Pays(log') \cup LastPay(log)
      /\ ~open => /\ Pays(log) \subseteq Pays(log')
                  /\ (h.op # "checkpoint" /\ lines # <<Garbage>>) => h.pay \in Pays(log')
      /\ Unbroken(log') => LastPay(log') = {} \/ (h.op # "checkpoint" /\ LastPay(log') = {h.pay})
  BY ONLY lines # <<>>, log' = Appended(lines), <1>1, <1>2, <1>3, Written
<1>5. LogInv'
  BY <1>4 DEF LogInv, Fine, Log, Good, Lines, Whole, Sealed, Unbroken
<1>6. KeptInv'
  <2>1. /\ count.records \in Nat /\ returned \subseteq 1 .. count.records
        /\ \E x : returned \subseteq Pays(log) \cup (IF Unbroken(log) THEN {} ELSE {x})
        /\ open /\ Unbroken(log) => LastPay(log) \cap returned = {}
    BY DEF NotaryInv, KeptInv
  <2>2. \/ returned' = returned
        \/ /\ h.op = "record" /\ lines # <<Garbage>> /\ open' = FALSE
           /\ returned' = returned \cup {h.pay}
    BY DEF h
  <2>3. count'.records = count.records
    OBVIOUS
  <2>4. returned \subseteq Pays(log)
    BY <1>1, <2>1
  <2>5. count'.records \in Nat /\ returned' \subseteq 1 .. count'.records
    BY <1>1, <2>1, <2>2, <2>3
  <2>6. \E x : returned' \subseteq Pays(log') \cup (IF Unbroken(log') THEN {} ELSE {x})
    <3>1. CASE open
      <4>1. ~Unbroken(log') /\ returned \subseteq Pays(log')
        BY <1>1, <1>4, <2>1, <2>4, <3>1
      <4>2. returned' \subseteq Pays(log') \cup {h.pay}
        BY <2>2, <4>1
      <4> QED BY <4>1, <4>2
    <3>2. CASE ~open
      <4>1. returned \subseteq Pays(log')
        BY <1>4, <2>4, <3>2
      <4>2. returned' \subseteq Pays(log')
        BY <1>4, <2>2, <3>2, <4>1
      <4> QED BY <4>2
    <3> QED BY <3>1, <3>2
  <2>7. open' /\ Unbroken(log') => LastPay(log') \cap returned' = {}
    <3> HAVE open' /\ Unbroken(log')
    <3>1. returned' = returned
      BY <2>2
    <3>2. h.op # "checkpoint" => h.pay \notin returned
      BY <1>1
    <3> QED BY <1>4, <3>1, <3>2
  <2> QED BY <2>5, <2>6, <2>7 DEF KeptInv
<1> QED BY <1>5, <1>6

\* A call writes its lines and returns.
LEMMA CommitKeeps ==
    ASSUME NotaryInv, NEW w \in Writers, Commit(w)
    PROVE  NotaryInv'
<1> DEFINE h == held[w]  lines == LinesOf(h)
<1>1. /\ held[w] # Unheld /\ log' = Appended(lines) /\ open' = FALSE
      /\ returned' = IF h.op = "record" THEN returned \cup {h.pay} ELSE returned
      /\ held' = [held EXCEPT ![w] = Unheld] /\ count' = count
  BY DEF Commit
<1>2. h.op \in {"record", "checkpoint"}
  BY <1>1 DEF NotaryInv, HeldInv, HeldBy
<1>3. lines \in Forms(h) /\ lines # <<>> /\ (h.op # "checkpoint" => lines # <<Garbage>>)
  BY Whatever
<1> HIDE DEF lines
<1>4. \/ returned' = returned
      \/ /\ held[w].op = "record" /\ lines # <<Garbage>> /\ open' = FALSE
         /\ returned' = returned \cup {held[w].pay}
  BY <1>1, <1>3
<1>5. LogInv' /\ KeptInv'
  <2>1. open' \in BOOLEAN /\ count'.records = count.records
    BY <1>1
  <2>2. lines \in Forms(held[w])
    BY <1>3
  <2> HIDE DEF h
  <2> QED BY ONLY NotaryInv, w \in Writers, <1>1, <1>3, <1>4, <2>1, <2>2, AfterLines
<1>6. HeldInv'
  BY <1>1, Freed
<1>7. CountInv'
  BY <1>1 DEF NotaryInv, CountInv
<1> QED BY <1>5, <1>6, <1>7 DEF NotaryInv

\* A writer dies with a part of its lines in the file.
LEMMA DieKeeps ==
    ASSUME NotaryInv, NEW w \in Writers, Die(w)
    PROVE  NotaryInv'
<1> DEFINE h == held[w]  lines == LinesOf(h)
<1>1. /\ held[w] # Unheld /\ returned' = returned
      /\ held' = [held EXCEPT ![w] = Unheld] /\ count' = [count EXCEPT !.tears = @ + 1]
  BY DEF Die
<1>2. PICK c \in [records : Nat, seals : Nat, tears : Nat] : count = c
  BY DEF NotaryInv, CountInv
<1>3. count'.records = count.records /\ count' \in [records : Nat, seals : Nat, tears : Nat]
  BY <1>1, <1>2
<1>4. PICK n \in 0 .. Len(lines) - 1 :
         \/ log' = Appended(SubSeq(lines, 1, n)) /\ open' = (open /\ n = 0)
         \/ log' = Appended(Append(SubSeq(lines, 1, n), Garbage)) /\ open' = FALSE
         \/ log' = Appended(SubSeq(lines, 1, n + 1)) /\ open' = TRUE
  BY DEF Die
<1>5. /\ SubSeq(lines, 1, n) \in Forms(h)
      /\ n = 0 <=> SubSeq(lines, 1, n) = <<>>
      /\ Append(SubSeq(lines, 1, n), Garbage) \in Forms(h) \ {<<>>}
      /\ SubSeq(lines, 1, n + 1) \in Forms(h) \ {<<>>}
  BY Whatever DEF Parts
<1> HIDE DEF lines
<1>6. LogInv' /\ KeptInv'
  <2>1. CASE log' = log /\ open' = open
    <3>1. LogInv /\ KeptInv
      BY DEF NotaryInv
    <3>2. LogInv'
      <4>1. Fine(log')
        BY <2>1, <3>1 DEF LogInv
      <4> QED BY <2>1, <3>1, <4>1 DEF LogInv
    <3>3. KeptInv'
      <4>1. \E x : returned' \subseteq Pays(log') \cup (IF Unbroken(log') THEN {} ELSE {x})
        BY <1>1, <2>1, <3>1 DEF KeptInv
      <4>2. open' /\ Unbroken(log') => LastPay(log') \cap returned' = {}
        BY <1>1, <2>1, <3>1 DEF KeptInv
      <4> QED BY <1>1, <1>3, <3>1, <4>1, <4>2 DEF KeptInv
    <3> QED BY <3>2, <3>3
  <2>2. CASE \E x \in Forms(h) : x # <<>> /\ log' = Appended(x) /\ open' \in BOOLEAN
    <3>1. PICK x \in Forms(held[w]) : x # <<>> /\ log' = Appended(x) /\ open' \in BOOLEAN
      BY <2>2
    <3> QED BY ONLY NotaryInv, w \in Writers, <1>1, <1>3, <3>1, AfterLines
  <2>3. CASE n = 0 /\ log' = Appended(SubSeq(lines, 1, n)) /\ open' = (open /\ n = 0)
    <3>1. log' = log
      BY <1>5, <2>3 DEF Appended
    <3>2. open \in BOOLEAN
      BY DEF NotaryInv, LogInv
    <3> QED BY <2>1, <2>3, <3>1, <3>2
  <2>4. CASE n # 0 /\ log' = Appended(SubSeq(lines, 1, n)) /\ open' = (open /\ n = 0)
    BY <1>5, <2>2, <2>4
  <2>5. CASE log' = Appended(Append(SubSeq(lines, 1, n), Garbage)) /\ open' = FALSE
    BY <1>5, <2>2, <2>5
  <2>6. CASE log' = Appended(SubSeq(lines, 1, n + 1)) /\ open' = TRUE
    BY <1>5, <2>2, <2>6
  <2> QED BY <1>4, <2>3, <2>4, <2>5, <2>6
<1>7. HeldInv'
  BY <1>1, Freed
<1>8. CountInv'
  BY <1>3 DEF CountInv
<1> QED BY <1>6, <1>7, <1>8 DEF NotaryInv

LEMMA NotaryKeeps ==
    ASSUME NotaryInv, [Next]_vars PROVE NotaryInv'
<1>1. CASE Next
  <2>1. PICK w \in Writers : BeginRecord(w) \/ BeginCheckpoint(w) \/ Commit(w) \/ Die(w)
    BY <1>1 DEF Next
  <2> QED BY <2>1, BeginKeeps, CommitKeeps, DieKeeps
<1>2. CASE UNCHANGED vars
  <2>1. log' = log /\ open' = open /\ held' = held /\ returned' = returned /\ count' = count
    BY <1>2 DEF vars
  <2>2. LogInv'
    <3>1. Fine(log')
      BY <2>1 DEF NotaryInv, LogInv
    <3> QED BY <2>1, <3>1 DEF NotaryInv, LogInv
  <2>3. KeptInv'
    <3>1. \E x : returned' \subseteq Pays(log') \cup (IF Unbroken(log') THEN {} ELSE {x})
      BY <2>1 DEF NotaryInv, KeptInv
    <3>2. open' /\ Unbroken(log') => LastPay(log') \cap returned' = {}
      BY <2>1 DEF NotaryInv, KeptInv
    <3> QED BY <2>1, <3>1, <3>2 DEF NotaryInv, KeptInv
  <2>4. HeldInv'
    BY <2>1 DEF NotaryInv, HeldInv
  <2>5. CountInv'
    BY <2>1 DEF NotaryInv, CountInv
  <2> QED BY <2>2, <2>3, <2>4, <2>5 DEF NotaryInv
<1> QED BY <1>1, <1>2

LEMMA NotaryAlways == Spec => []NotaryInv
<1>1. Init => NotaryInv
  BY NotaryStarts
<1>2. NotaryInv /\ [Next]_vars => NotaryInv'
  BY NotaryKeeps
<1> QED BY <1>1, <1>2, PTL DEF Spec

\* What record() returned is in the file, but for one call whose line went onto
\* the torn line of a writer that died; and a number is given once
\* (record, _append_lines and _tail of bus_notary.py).
THEOREM KeptAlways == Spec => []RecordedKept
<1>1. NotaryInv => RecordedKept
  <2> SUFFICES ASSUME NotaryInv PROVE RecordedKept
    OBVIOUS
  <2>1. PICK N, p : Log(log, p, N)
    BY DEF NotaryInv, LogInv, Fine
  <2>2. N \in Nat /\ Chain(log, p, 1, N) /\ \E S : log \in Seq(S)
    BY <2>1 DEF Log, Whole, Lines
  <2>3. \A r, q \in Entries(log) : r.seq = q.seq => r = q
    <3>1. ASSUME NEW r \in Entries(log) PROVE \E k \in 1 .. N : r = log[p[k]] /\ r.seq = k
      <4>1. PICK i \in EntryAt(log) : r = log[i]
        BY DEF Entries
      <4>2. PICK k \in 1 .. N : i = p[k]
        BY <2>2, <4>1 DEF Chain
      <4>3. log[p[k]].seq = k
        <5>1. PICK S : log \in Seq(S)
          BY <2>2
        <5>2. Len(log) \in Nat /\ DOMAIN log = 1 .. Len(log)
          BY <5>1
        <5> QED BY ONLY <2>2, <4>2, <5>2, ChainAt
      <4> QED BY <4>1, <4>2, <4>3
    <3> TAKE r, q \in Entries(log)
    <3> HAVE r.seq = q.seq
    <3> QED BY <3>1
  <2>4. {r.pay : r \in Entries(log)} = Pays(log)
    BY DEF Entries, Pays
  <2>5. PICK x : returned \subseteq Pays(log) \cup (IF Unbroken(log) THEN {} ELSE {x})
    BY DEF NotaryInv, KeptInv
  <2>6. Cardinality(returned \ Pays(log)) <= IF Intact THEN 0 ELSE 1
    <3>1. CASE Intact
      <4>1. returned \ Pays(log) = {}
        BY <2>5, <3>1 DEF Intact
      <4> QED BY <3>1, <4>1, FS_EmptySet
    <3>2. CASE ~Intact
      <4>1. returned \ Pays(log) \in SUBSET {x}
        BY <2>5, <3>2 DEF Intact
      <4>2. IsFiniteSet({x}) /\ Cardinality({x}) = 1
        BY FS_Singleton
      <4>3. Cardinality(returned \ Pays(log)) <= 1
        BY <4>1, <4>2, FS_Subset
      <4> QED BY <3>2, <4>3
    <3> QED BY <3>1, <3>2
  <2> QED BY <2>3, <2>4, <2>6 DEF RecordedKept
<1> QED BY <1>1, NotaryAlways, PTL

-----------------------------------------------------------------------------
(* Exports *)

\* What Export takes of a log: the entries from a on and the last checkpoint.
Taken(x, s, p, a, N, y, C) ==
    /\ C \in Nat /\ DOMAIN x = 1 .. IF SealAt(s) = {} THEN C ELSE C + 1
    /\ y \in [a .. N -> 1 .. C] /\ 1 .. C = {y[k] : k \in a .. N}
    /\ \A j, k \in a .. N : j < k => y[j] < y[k]
    /\ \A k \in a .. N : x[y[k]] = s[p[k]]
    /\ SealAt(s) # {} => x[C + 1] = s[Max(SealAt(s))]

LEMMA Exported ==
    ASSUME NEW s, NEW n \in Nat, DOMAIN s = 1 .. n, NEW N \in Nat, NEW p, Chain(s, p, 1, N),
           NEW a \in 1 .. N
    PROVE  \E y, C : Taken(Export(s, a), s, p, a, N, y, C)
<1> DEFINE S == {i \in EntryAt(s) : s[i].seq >= a}
           C == Cardinality(S)
           y == [k \in a .. N |-> Rank(S, p[k])]
           z == Select(s, S)
           x == Export(s, a)
<1>1. \A k \in 1 .. N : p[k] \in 1 .. n /\ p[k] \in EntryAt(s) /\ s[p[k]].seq = k
  BY ChainAt
<1>2. a .. N \subseteq 1 .. N
  OBVIOUS
<1>3. S \in SUBSET (1 .. n) /\ \A k \in a .. N : p[k] \in S
  BY <1>1, <1>2 DEF EntryAt
<1>4. \A i \in S : \E k \in a .. N : i = p[k]
  <2> TAKE i \in S
  <2>1. PICK k \in 1 .. N : i = p[k]
    BY DEF Chain
  <2> QED BY <1>1, <2>1
<1> HIDE DEF S
<1>5. /\ C \in Nat
      /\ \A k \in 1 .. C : Nth(S, k) \in S /\ Rank(S, Nth(S, k)) = k
      /\ \A i \in S : Rank(S, i) \in 1 .. C /\ Nth(S, Rank(S, i)) = i
      /\ \A i, j \in S : i < j => Rank(S, i) < Rank(S, j)
  BY <1>3, Ranked
<1>6. /\ DOMAIN z = 1 .. C /\ Len(z) = C /\ \A k \in DOMAIN z : z[k] = s[Nth(S, k)]
      /\ \E T : z \in Seq(T)
  <2> HIDE DEF z
  <2> QED BY <1>3, Selected DEF Picked, C, z
<1> HIDE DEF C, z
<1>7. \A k \in a .. N : y[k] = Rank(S, p[k]) /\ y[k] \in 1 .. C /\ z[y[k]] = s[p[k]]
  BY <1>3, <1>5, <1>6
<1>8. y \in [a .. N -> 1 .. C]
  BY <1>7
<1>9. 1 .. C = {y[k] : k \in a .. N}
  <2>1. ASSUME NEW j \in 1 .. C PROVE \E k \in a .. N : j = y[k]
    <3>1. PICK k \in a .. N : Nth(S, j) = p[k]
      BY <1>4, <1>5
    <3> QED BY <1>5, <1>7, <3>1
  <2> HIDE DEF y
  <2> QED BY <1>7, <2>1
<1>10. \A j, k \in a .. N : j < k => y[j] < y[k]
  <2> TAKE j, k \in a .. N
  <2> HAVE j < k
  <2>1. p[j] < p[k]
    BY <1>2 DEF Chain
  <2> QED BY <1>3, <1>5, <1>7, <2>1
<1> HIDE DEF y
<1>11. CASE SealAt(s) = {}
  <2>1. x = z
    <3>1. x = z \o <<>>
      BY <1>11 DEF Export, z, S
    <3> HIDE DEF x
    <3> QED BY <1>6, <3>1
  <2>2. Taken(x, s, p, a, N, y, C)
    BY ONLY <1>5, <1>6, <1>7, <1>8, <1>9, <1>10, <1>11, <2>1 DEF Taken
  <2> QED BY <2>2
<1>12. CASE SealAt(s) # {}
  <2> DEFINE c == s[Max(SealAt(s))]
  <2>1. x = z \o <<c>>
    BY <1>12 DEF Export, z, S
  <2> HIDE DEF x, c
  <2>2. x = Append(z, c)
    BY <1>6, <2>1, OneByOne DEF Added
  <2>3. /\ DOMAIN x = 1 .. C + 1 /\ \A k \in 1 .. C : x[k] = z[k]
        /\ x[C + 1] = c
    BY <1>6, <2>2, Behind
  <2>4. \A k \in a .. N : x[y[k]] = s[p[k]]
    BY <1>7, <2>3
  <2>5. Taken(x, s, p, a, N, y, C)
    BY ONLY <1>5, <1>8, <1>9, <1>10, <1>12, <2>3, <2>4 DEF Taken, c
  <2> QED BY <2>5 DEF x
<1> QED BY <1>11, <1>12

LEMMA Sliced ==
    ASSUME NEW s, NEW n \in Nat, DOMAIN s = 1 .. n, NEW N \in Nat, NEW p,
           Whole(s, p, N), Sealed(s, p, N), NEW a \in 1 .. N,
           NEW x, NEW y, NEW C, Taken(x, s, p, a, N, y, C)
    PROVE  /\ Chain(x, y, a, N) /\ Bound(x, y, a, N)
           /\ SealAt(x) = IF SealAt(s) = {} THEN {} ELSE {C + 1}
           /\ \A i \in DOMAIN x : x[i].type \in {"entry", "checkpoint"}
           /\ Numbers(x) = a .. N
<1>1. /\ C \in Nat /\ DOMAIN x = 1 .. IF SealAt(s) = {} THEN C ELSE C + 1
      /\ y \in [a .. N -> 1 .. C] /\ 1 .. C = {y[k] : k \in a .. N}
      /\ \A j, k \in a .. N : j < k => y[j] < y[k]
      /\ \A k \in a .. N : x[y[k]] = s[p[k]]
      /\ SealAt(s) # {} => x[C + 1] = s[Max(SealAt(s))]
  BY DEF Taken
<1>2. Chain(s, p, 1, N) /\ a .. N \subseteq 1 .. N
  BY DEF Whole
<1>0. \A k \in 1 .. N : s[p[k]].type = "entry" /\ s[p[k]].seq = k
  BY ONLY n \in Nat, DOMAIN s = 1 .. n, N \in Nat, <1>2, ChainAt
<1>3. \A i \in 1 .. C : x[i].type = "entry"
  <2>1. \A k \in a .. N : x[y[k]].type = "entry"
    BY <1>0, <1>1, <1>2
  <2> QED BY <1>1, <2>1
<1>4. SealAt(s) # {} => \E q \in 0 .. N : x[C + 1] = Checkpoint(q, HashOf(s, p, q), Notary)
  <2> HAVE SealAt(s) # {}
  <2>1. SealAt(s) \in SUBSET (0 .. n)
    BY DEF SealAt
  <2>2. Max(SealAt(s)) \in SealAt(s)
    BY <2>1, Tops
  <2> QED BY <1>1, <2>2 DEF Sealed
<1>5. SealAt(s) # {} => x[C + 1].type = "checkpoint"
  BY <1>4, SealFields
<1>6. EntryAt(x) = 1 .. C /\ SealAt(x) = IF SealAt(s) = {} THEN {} ELSE {C + 1}
  <2>1. \A i \in DOMAIN x : i \in 1 .. C \/ (i = C + 1 /\ SealAt(s) # {})
    BY <1>1
  <2>2. 1 .. C \subseteq DOMAIN x /\ (SealAt(s) # {} => C + 1 \in DOMAIN x)
    BY <1>1
  <2>3. C + 1 \notin 1 .. C
    BY <1>1
  <2>4. EntryAt(x) = 1 .. C
    BY <1>3, <1>5, <2>1, <2>2 DEF EntryAt
  <2>5. \A i \in 1 .. C : i \notin SealAt(x)
    BY <1>3 DEF SealAt
  <2>6. SealAt(x) = IF SealAt(s) = {} THEN {} ELSE {C + 1}
    <3>1. \A i \in SealAt(x) : i = C + 1 /\ SealAt(s) # {}
      BY <2>1, <2>5 DEF SealAt
    <3>2. SealAt(s) # {} => C + 1 \in SealAt(x)
      BY <1>5, <2>2 DEF SealAt
    <3> QED BY <3>1, <3>2
  <2> QED BY <2>4, <2>6
<1>7. \A i \in DOMAIN x : x[i].type \in {"entry", "checkpoint"}
  <2>1. \A i \in DOMAIN x : i \in 1 .. C \/ (i = C + 1 /\ SealAt(s) # {})
    BY <1>1
  <2> QED BY <1>3, <1>5, <2>1
<1>8. Chain(x, y, a, N)
  <2>1. y \in [a .. N -> DOMAIN x]
    BY <1>1
  <2>2. \A k \in a .. N : x[y[k]] = Entry(k, x[y[k]].prev, x[y[k]].pay)
    BY <1>1, <1>2 DEF Chain
  <2>3. \A k \in a + 1 .. N : x[y[k]].prev = x[y[k - 1]].hash
    <3> TAKE k \in a + 1 .. N
    <3>1. k \in a .. N /\ k - 1 \in a .. N /\ k \in 1 + 1 .. N
      OBVIOUS
    <3>2. s[p[k]].prev = s[p[k - 1]].hash
      BY <1>2, <3>1 DEF Chain
    <3> QED BY <1>1, <3>1, <3>2
  <2> QED BY <1>1, <1>6, <2>1, <2>2, <2>3 DEF Chain
<1>9. Bound(x, y, a, N)
  <2> SUFFICES ASSUME NEW i \in SealAt(x)
               PROVE  /\ x[i] = Checkpoint(x[i].seq, x[i].head, Notary) /\ x[i].seq \in Nat
                      /\ \E q : Reached(y, a, N, q, i) /\ x[i].seq <= IF q < a THEN 0 ELSE q
                      /\ x[i].seq \in a .. N => x[i].head = x[y[x[i].seq]].hash
    BY DEF Bound
  <2>1. i = C + 1 /\ SealAt(s) # {}
    BY <1>6
  <2>2. PICK q \in 0 .. N : x[i] = Checkpoint(q, HashOf(s, p, q), Notary)
    BY <1>4, <2>1
  <2>3. x[i].seq = q /\ x[i].head = HashOf(s, p, q)
    BY <2>2, SealFields
  <2>4. Reached(y, a, N, N, i)
    BY <1>1, <2>1 DEF Reached
  <2>5. q \in a .. N => HashOf(s, p, q) = x[y[q]].hash
    BY <1>1 DEF HashOf
  <2>6. q <= IF N < a THEN 0 ELSE N
    OBVIOUS
  <2> QED BY <2>2, <2>3, <2>4, <2>5, <2>6
<1>10. Numbers(x) = a .. N
  <2>1. \A k \in a .. N : x[y[k]].seq = k
    BY <1>0, <1>1, <1>2
  <2>2. \A v : v \in Numbers(x) <=> \E k \in a .. N : v = x[y[k]].seq
    BY <1>8 DEF Numbers, Seqs, Chain
  <2>3. \A v : v \in Numbers(x) <=> v \in a .. N
    BY ONLY <2>1, <2>2
  <2> QED BY <2>3, Zenon
<1> QED BY <1>6, <1>7, <1>8, <1>9, <1>10

\* The last line of a log tells whether the last checkpoint is for the last entry.
LEMMA Closed ==
    ASSUME NEW s, NEW n \in Nat, DOMAIN s = 1 .. n, NEW N \in Nat \ {0}, NEW p,
           Whole(s, p, N), Sealed(s, p, N),
           \A i \in DOMAIN s : s[i].type \in {"entry", "checkpoint"}
    PROVE  /\ n \in DOMAIN s
           /\ s[n].type = "checkpoint"
                 <=> SealAt(s) # {} /\ s[Max(SealAt(s))] = Checkpoint(N, HashOf(s, p, N), Notary)
<1> DEFINE m == Max(SealAt(s))
<1>1. Chain(s, p, 1, N) /\ p[N] \in 1 .. n /\ p[N] \in EntryAt(s) /\ s[p[N]].type = "entry"
  <2>1. Chain(s, p, 1, N) /\ N \in Nat /\ N \in 1 .. N
    BY DEF Whole
  <2>2. \A k \in 1 .. N : p[k] \in 1 .. n /\ p[k] \in EntryAt(s) /\ s[p[k]].type = "entry"
    BY ONLY n \in Nat, DOMAIN s = 1 .. n, <2>1, ChainAt
  <2> QED BY <2>1, <2>2
<1>2. n \in DOMAIN s
  BY <1>1
<1>3. SealAt(s) \in SUBSET (0 .. n)
  BY DEF SealAt
<1>4. SealAt(s) # {} => m \in SealAt(s) /\ \A i \in SealAt(s) : i <= m
  BY <1>3, Tops
<1> HIDE DEF m
<1>5. ASSUME s[n].type = "checkpoint"
      PROVE  SealAt(s) # {} /\ s[m] = Checkpoint(N, HashOf(s, p, N), Notary)
  <2>1. n \in SealAt(s)
    BY <1>2, <1>5 DEF SealAt
  <2>2. m = n
    BY <1>3, <1>4, <2>1
  <2>3. PICK q \in 0 .. N : Reached(p, 1, N, q, m) /\ s[m] = Checkpoint(q, HashOf(s, p, q), Notary)
    BY <1>4, <2>1 DEF Sealed
  <2>4. p[N] # n
    BY <1>1, <1>5
  <2>5. p[N] < m
    BY <1>1, <2>2, <2>4
  <2>6. q = N
    BY <2>3, <2>5 DEF Reached
  <2> QED BY <2>1, <2>3, <2>6
<1>6. ASSUME SealAt(s) # {}, s[m] = Checkpoint(N, HashOf(s, p, N), Notary)
      PROVE  s[n].type = "checkpoint"
  <2>1. PICK q \in 0 .. N : Reached(p, 1, N, q, m) /\ s[m] = Checkpoint(q, HashOf(s, p, q), Notary)
    BY <1>4, <1>6 DEF Sealed
  <2>2. q = N
    <3>1. s[m].seq = N
      BY <1>6, SealFields
    <3>2. s[m].seq = q
      BY <2>1, SealFields
    <3> QED BY <3>1, <3>2
  <2>3. \A k \in 1 .. N : p[k] < m
    BY <2>1, <2>2 DEF Reached
  <2>4. m \in 1 .. n
    BY <1>4, <1>6 DEF SealAt
  <2>5. n \notin EntryAt(s)
    <3> SUFFICES ASSUME n \in EntryAt(s) PROVE FALSE
      OBVIOUS
    <3>1. PICK k \in 1 .. N : n = p[k]
      BY <1>1 DEF Chain
    <3> QED BY <2>3, <2>4, <3>1
  <2> QED BY <1>2, <2>5 DEF EntryAt
<1> QED BY <1>2, <1>5, <1>6 DEF m

\* Whether an export is trusted with the hash before it is whether the log is closed.
LEMMA ExportTrusted ==
    ASSUME NEW s, NEW n \in Nat, DOMAIN s = 1 .. n, NEW N \in Nat, NEW p,
           Whole(s, p, N), Sealed(s, p, N),
           \A i \in DOMAIN s : s[i].type \in {"entry", "checkpoint"},
           NEW a \in 1 .. N, NEW start, start = HashOf(s, p, a - 1)
    PROVE  /\ VerifyOk(Export(s, a), start)
           /\ Trusted(Export(s, a), start) <=> s[n].type = "checkpoint"
<1> DEFINE x == Export(s, a)
<1>1. Chain(s, p, 1, N)
  BY DEF Whole
<1>2. PICK y, C : Taken(x, s, p, a, N, y, C)
  BY <1>1, Exported
<1>3. /\ C \in Nat /\ DOMAIN x = 1 .. IF SealAt(s) = {} THEN C ELSE C + 1
      /\ \A k \in a .. N : x[y[k]] = s[p[k]]
      /\ SealAt(s) # {} => x[C + 1] = s[Max(SealAt(s))]
  BY <1>2 DEF Taken
<1> HIDE DEF x
<1>4. /\ Chain(x, y, a, N) /\ Bound(x, y, a, N)
      /\ SealAt(x) = IF SealAt(s) = {} THEN {} ELSE {C + 1}
      /\ \A i \in DOMAIN x : x[i].type \in {"entry", "checkpoint"}
      /\ Numbers(x) = a .. N
  BY <1>2, Sliced
<1>5. x[y[a]].prev = start /\ (a = 1 => x[y[a]].prev = Genesis)
  <2>1. a \in a .. N
    OBVIOUS
  <2>2. s[p[a]].prev = HashOf(s, p, a - 1)
    BY DEF Whole
  <2>3. a = 1 => HashOf(s, p, a - 1) = Genesis
    BY DEF HashOf
  <2> QED BY <1>3, <2>1, <2>2, <2>3
<1>6. VerifyOk(x, start)
  <2>1. \E m \in Nat : DOMAIN x = 1 .. m
    <3>1. CASE SealAt(s) = {}
      BY <1>3, <3>1
    <3>2. CASE SealAt(s) # {}
      <4>1. C + 1 \in Nat
        BY <1>3
      <4> QED BY <1>3, <3>2, <4>1
    <3> QED BY <3>1, <3>2
  <2>2. a \in Nat \ {0} /\ N \in Int
    OBVIOUS
  <2> QED BY ONLY <1>4, <1>5, <2>1, <2>2, ChainVerifies
<1>7. start # NoStart
  <2>1. CASE a = 1
    BY <2>1 DEF HashOf, Genesis, NoStart
  <2>2. CASE a # 1
    <3>1. a - 1 \in 1 .. N
      BY <2>2
    <3>2. s[p[a - 1]].hash = EntryHash(a - 1, s[p[a - 1]].prev, s[p[a - 1]].pay)
      BY <1>1, <3>1, ChainAt
    <3> QED BY <2>2, <3>2 DEF HashOf, EntryHash, NoStart
  <2> QED BY <2>1, <2>2
<1>8. Covered(x) <=> SealAt(s) # {} /\ x[C + 1].seq = N
  <2>1. \A v : v \in a .. N /\ (\A k \in a .. N : k <= v) <=> v = N
    <3> TAKE v
    <3>1. N \in a .. N
      OBVIOUS
    <3>2. ASSUME v \in a .. N, \A k \in a .. N : k <= v PROVE v = N
      BY <3>1, <3>2
    <3> QED BY <3>1, <3>2
  <2>2. Covered(x) <=> \E i \in SealAt(x) : x[i].seq \in a .. N /\ \A k \in a .. N : k <= x[i].seq
    BY <1>4 DEF Covered
  <2> QED BY <1>4, <2>1, <2>2
<1>9. SealAt(s) # {} =>
         (x[C + 1].seq = N <=> s[Max(SealAt(s))] = Checkpoint(N, HashOf(s, p, N), Notary))
  <2> HAVE SealAt(s) # {}
  <2>1. SealAt(s) \in SUBSET (0 .. n)
    BY DEF SealAt
  <2>2. Max(SealAt(s)) \in SealAt(s)
    BY <2>1, Tops
  <2>3. PICK q \in 0 .. N : s[Max(SealAt(s))] = Checkpoint(q, HashOf(s, p, q), Notary)
    BY <2>2 DEF Sealed
  <2>4. s[Max(SealAt(s))].seq = q
    BY <2>3, SealFields
  <2>5. Checkpoint(N, HashOf(s, p, N), Notary).seq = N
    BY SealFields
  <2> QED BY <1>3, <2>3, <2>4, <2>5
<1>10. s[n].type = "checkpoint"
           <=> SealAt(s) # {} /\ s[Max(SealAt(s))] = Checkpoint(N, HashOf(s, p, N), Notary)
  BY Closed
<1>11. Trusted(x, start) <=> Covered(x)
  BY <1>6, <1>7 DEF Trusted, IsAnchored
<1> QED BY <1>6, <1>8, <1>9, <1>10, <1>11 DEF x

\* The hash that Start(n) finds.
LEMMA Started ==
    ASSUME NEW s, NEW n \in Nat, DOMAIN s = 1 .. n, NEW N \in Nat, NEW p, Whole(s, p, N)
    PROVE  /\ Numbers(s) = 1 .. N
           /\ \A a \in 1 .. N :
                 HashOf(s, p, a - 1) = IF a = 1 THEN Genesis ELSE HeadAt(s, EntryAt(s), a - 1)
<1>1. Chain(s, p, 1, N)
  BY DEF Whole
<1>2. EntryAt(s) = Upto(p, 1, N)
  BY <1>1 DEF Chain, Upto
<1>3. CASE N = 0
  <2>1. EntryAt(s) = {}
    BY <1>2, <1>3 DEF Upto
  <2> QED BY <1>3, <2>1, NoneBefore DEF Numbers
<1>4. CASE N # 0
  <2>1. N \in 1 .. N /\ 1 \in Nat /\ N \in Int
    BY <1>4
  <2>2. /\ Seqs(s, EntryAt(s)) = 1 .. N
        /\ \A k \in 1 .. N : HeadAt(s, EntryAt(s), k) = s[p[k]].hash
    BY <1>1, <1>2, <2>1, Numbered
  <2>3. \A a \in 1 .. N : a # 1 => a - 1 \in 1 .. N /\ a - 1 # 0
    OBVIOUS
  <2> QED BY <2>2, <2>3 DEF Numbers, HashOf
<1> QED BY <1>3, <1>4

\* What record and checkpoint write verifies, wherever writers died, unless a
\* line is broken; every export of it does, and is trusted when the file ends
\* with a checkpoint (record, checkpoint, export and verify of bus_notary.py).
THEOREM HonestAlways == Spec => []HonestVerifies
<1>1. NotaryInv => HonestVerifies
  <2> SUFFICES ASSUME NotaryInv PROVE HonestVerifies
    OBVIOUS
  <2>1. PICK N, p : Log(log, p, N) /\ (Unbroken(log) => Good(log, p, N))
    BY DEF NotaryInv, LogInv, Fine
  <2>2. /\ N \in Nat /\ Whole(log, p, N) /\ \E S : log \in Seq(S)
        /\ \A i \in DOMAIN log : log[i].type \in {"entry", "checkpoint", "garbage"}
    BY <2>1 DEF Log, Lines
  <2>3. Len(log) \in Nat /\ DOMAIN log = 1 .. Len(log)
    <3>1. PICK S : log \in Seq(S)
      BY <2>2
    <3> QED BY <3>1
  <2>4. CASE ~Intact
    <3>1. PICK i \in DOMAIN log : log[i].type = "garbage"
      BY <2>4 DEF Intact, Unbroken
    <3>2. ~LineHolds(log, i, NoStart)
      BY <3>1 DEF LineHolds
    <3> QED BY <2>4, <3>2 DEF HonestVerifies, VerifyOk
  <2>5. CASE Intact
    <3>1. Sealed(log, p, N)
      BY <2>1, <2>5 DEF Intact, Good
    <3>2. \A i \in DOMAIN log : log[i].type \in {"entry", "checkpoint"}
      BY <2>2, <2>5 DEF Intact, Unbroken
    <3>3. VerifyOk(log, NoStart)
      BY ONLY <2>2, <2>3, <3>1, <3>2, WholeVerifies
    <3>4. /\ Recorded = 1 .. N
          /\ \A a \in 1 .. N : Start(a) = HashOf(log, p, a - 1)
      <4>1. /\ Numbers(log) = 1 .. N
            /\ \A a \in 1 .. N :
                  HashOf(log, p, a - 1) = IF a = 1 THEN Genesis ELSE HeadAt(log, EntryAt(log), a - 1)
        BY ONLY <2>2, <2>3, Started
      <4> QED BY <4>1 DEF Recorded, Start
    <3>5. ASSUME NEW a \in 1 .. N
          PROVE  /\ VerifyOk(Export(log, a), Start(a))
                 /\ Trusted(Export(log, a), Start(a)) <=> Last(log).type = "checkpoint"
      <4>1. PICK start : start = Start(a)
        OBVIOUS
      <4>2. start = HashOf(log, p, a - 1) /\ a \in 1 .. N
        BY <3>4, <4>1
      <4>3. /\ VerifyOk(Export(log, a), start)
            /\ Trusted(Export(log, a), start) <=> log[Len(log)].type = "checkpoint"
        BY ONLY <2>2, <2>3, <3>1, <3>2, <4>2, ExportTrusted
      <4> QED BY <4>1, <4>3 DEF Last
    <3> QED BY <2>5, <3>3, <3>4, <3>5 DEF HonestVerifies
  <2> QED BY <2>4, <2>5
<1> QED BY <1>1, NotaryAlways, PTL

-----------------------------------------------------------------------------
(* Tampering *)

\* A log as verify reads it: numbered in order, linked, sealed.
Ordered(s, N) ==
    /\ \A i \in EntryAt(s) : /\ s[i].seq \in 1 .. N /\ s[i].pay \in Nat \ {0}
                             /\ s[i] = Entry(s[i].seq, s[i].prev, s[i].pay)
    /\ \A i, j \in EntryAt(s) : i < j <=> s[i].seq < s[j].seq
    /\ \A k \in 1 .. N : \E i \in EntryAt(s) : s[i].seq = k
    /\ \A i, j \in EntryAt(s) : s[j].seq = s[i].seq + 1 => s[j].prev = s[i].hash
    /\ \A i \in DOMAIN s \ EntryAt(s) :
          s[i] = Checkpoint(s[i].seq, s[i].head, Notary) /\ s[i].head # NoStart

LEMMA LogOrdered ==
    ASSUME NEW s, NEW n \in Nat, DOMAIN s = 1 .. n, NEW N \in Nat, NEW p,
           Whole(s, p, N), Sealed(s, p, N),
           \A i \in DOMAIN s : s[i].type \in {"entry", "checkpoint"}
    PROVE  Ordered(s, N)
<1>1. Chain(s, p, 1, N)
  BY DEF Whole
<1>2. \A k \in 1 .. N : /\ p[k] \in 1 .. n /\ p[k] \in EntryAt(s) /\ s[p[k]].seq = k
                        /\ s[p[k]].hash = EntryHash(k, s[p[k]].prev, s[p[k]].pay)
  BY <1>1, ChainAt
<1>3. \A i \in EntryAt(s) : \E k \in 1 .. N : i = p[k]
  BY <1>1 DEF Chain
<1>4. \A k \in 1 .. N : /\ s[p[k]].pay \in Nat \ {0} /\ s[p[k]] = Entry(k, s[p[k]].prev, s[p[k]].pay)
                        /\ s[p[k]].prev = HashOf(s, p, k - 1)
  BY DEF Whole, Chain
<1>5. \A i \in EntryAt(s) : /\ s[i].seq \in 1 .. N /\ s[i].pay \in Nat \ {0}
                            /\ s[i] = Entry(s[i].seq, s[i].prev, s[i].pay)
  <2> TAKE i \in EntryAt(s)
  <2>1. PICK k \in 1 .. N : i = p[k]
    BY <1>3
  <2> QED BY <1>2, <1>4, <2>1
<1>6. \A i, j \in EntryAt(s) : i < j <=> s[i].seq < s[j].seq
  <2> TAKE i, j \in EntryAt(s)
  <2>1. PICK k \in 1 .. N : i = p[k]
    BY <1>3
  <2>2. PICK l \in 1 .. N : j = p[l]
    BY <1>3
  <2>3. p[k] < p[l] <=> k < l
    BY <1>1, InOrder
  <2> QED BY <1>2, <2>1, <2>2, <2>3
<1>7. \A k \in 1 .. N : \E i \in EntryAt(s) : s[i].seq = k
  BY <1>2
<1>8. \A i, j \in EntryAt(s) : s[j].seq = s[i].seq + 1 => s[j].prev = s[i].hash
  <2> TAKE i, j \in EntryAt(s)
  <2> HAVE s[j].seq = s[i].seq + 1
  <2>1. PICK k \in 1 .. N : i = p[k]
    BY <1>3
  <2>2. PICK l \in 1 .. N : j = p[l]
    BY <1>3
  <2>3. l - 1 = k /\ k # 0
    BY <1>2, <2>1, <2>2
  <2> QED BY <1>4, <2>1, <2>2, <2>3 DEF HashOf
<1>9. \A q \in 0 .. N : HashOf(s, p, q) # NoStart
  <2> TAKE q \in 0 .. N
  <2>1. CASE q = 0
    BY <2>1 DEF HashOf, Genesis, NoStart
  <2>2. CASE q # 0
    <3>1. q \in 1 .. N
      BY <2>2
    <3> QED BY <1>2, <2>2, <3>1 DEF HashOf, EntryHash, NoStart
  <2> QED BY <2>1, <2>2
<1>10. \A i \in DOMAIN s \ EntryAt(s) :
          s[i] = Checkpoint(s[i].seq, s[i].head, Notary) /\ s[i].head # NoStart
  <2> TAKE i \in DOMAIN s \ EntryAt(s)
  <2>1. i \in SealAt(s)
    BY DEF SealAt, EntryAt
  <2>2. PICK q \in 0 .. N : s[i] = Checkpoint(q, HashOf(s, p, q), Notary)
    BY <2>1 DEF Sealed
  <2>3. s[i].seq = q /\ s[i].head = HashOf(s, p, q)
    BY <2>2, SealFields
  <2> QED BY <1>9, <2>2, <2>3
<1> QED BY <1>5, <1>6, <1>7, <1>8, <1>10 DEF Ordered

\* An entry that verifies, with others before it, continues one of them and is
\* numbered above them all.
LEMMA Continues ==
    ASSUME NEW t, NEW m \in Nat, DOMAIN t = 1 .. m, NEW N \in Nat,
           \A i \in EntryAt(t) : t[i].seq \in 1 .. N, NEW start, VerifyOk(t, start),
           NEW j \in EntryAt(t), NEW h \in EntryAt(t), h < j
    PROVE  /\ \E i \in EntryAt(t) : i < j /\ t[j].seq = t[i].seq + 1 /\ t[j].prev = t[i].hash
           /\ t[h].seq < t[j].seq
<1> DEFINE P == Before(t, j)
           S == Seqs(t, P) \cup {0}
           Q == {i \in P : t[i].seq = Highest(t, P)}
<1>1. h \in P /\ P \subseteq EntryAt(t) /\ \A i \in P : i < j
  BY DEF Before
<1>2. EntryHolds(t, j, start)
  <2>1. j \in DOMAIN t /\ t[j].type = "entry"
    BY DEF EntryAt
  <2> QED BY <2>1 DEF VerifyOk, LineHolds
<1>3. Follows(Newest(t, P), t[j])
  BY <1>1, <1>2 DEF EntryHolds
<1> HIDE DEF P
<1>4. S \in SUBSET (0 .. N) /\ S # {}
  BY <1>1 DEF Seqs
<1>5. Highest(t, P) \in S /\ \A x \in S : x <= Highest(t, P)
  <2>1. Max(S) \in S /\ \A x \in S : x <= Max(S)
    <3> HIDE DEF S
    <3> QED BY <1>4, Tops
  <2> QED BY <2>1 DEF Highest
<1>6. t[h].seq \in S /\ \A i \in P : t[i].seq \in 1 .. N
  BY <1>1 DEF Seqs
<1>7. Highest(t, P) \in Seqs(t, P)
  <2>1. Highest(t, P) # 0
    BY <1>5, <1>6
  <2> QED BY <1>5, <2>1
<1>8. Q # {} /\ Q \in SUBSET Nat
  <2>1. Q # {}
    BY <1>7 DEF Seqs
  <2>2. Q \in SUBSET Nat
    BY <1>1 DEF EntryAt
  <2> QED BY <2>1, <2>2
<1> HIDE DEF S
<1>9. PICK i \in P : Newest(t, P) = t[i] /\ t[i].seq = Highest(t, P)
  <2>1. Min(Q) \in Q
    <3> HIDE DEF Q
    <3> QED BY <1>8, Bottoms
  <2> QED BY <2>1 DEF Newest
<1>10. t[j].seq = t[i].seq + 1 /\ t[j].prev = t[i].hash
  BY <1>3, <1>9 DEF Follows
<1>11. t[h].seq < t[j].seq
  <2>1. t[h].seq <= t[i].seq /\ t[h].seq \in 1 .. N /\ t[i].seq \in 1 .. N
    BY <1>1, <1>5, <1>6, <1>9
  <2> QED BY <1>10, <2>1
<1> QED BY <1>1, <1>9, <1>10, <1>11

\* The lines a..b of a sequence.
LEMMA Cutout ==
    ASSUME NEW S, NEW s \in Seq(S), NEW a \in Nat \ {0}, NEW b \in a - 1 .. Len(s)
    PROVE  /\ SubSeq(s, a, b) \in Seq(S) /\ Len(SubSeq(s, a, b)) = b - (a - 1)
           /\ \A x \in 1 .. b - (a - 1) : SubSeq(s, a, b)[x] = s[x + (a - 1)]
<1> DEFINE c == SubSeq(s, a, b)
<1>1. \A x \in a .. b : s[x] \in S
  OBVIOUS
<1>2. a \in Int /\ b \in Int
  OBVIOUS
<1>3. /\ c \in Seq(S) /\ Len(c) = IF a <= b THEN b - a + 1 ELSE 0
      /\ \A x \in 1 .. b - a + 1 : c[x] = s[a + x - 1]
  BY <1>1, <1>2, SubSeqProperties
<1> HIDE DEF c
<1>4. b - a + 1 = b - (a - 1) /\ (a <= b \/ b - (a - 1) = 0)
  OBVIOUS
<1>5. \A x \in 1 .. b - (a - 1) : a + x - 1 = x + (a - 1)
  OBVIOUS
<1>6. Len(c) = b - (a - 1)
  BY <1>3, <1>4
<1>7. \A x \in 1 .. b - (a - 1) : c[x] = s[x + (a - 1)]
  BY <1>3, <1>4, <1>5
<1> QED BY <1>3, <1>6, <1>7 DEF c

\* The lines of a and behind them those of b.
Joins(t, a, k, b, l) ==
    /\ Len(t) = k + l /\ DOMAIN t = 1 .. k + l
    /\ \A x \in 1 .. k : t[x] = a[x]
    /\ \A x \in 1 .. l : t[k + x] = b[x]

LEMMA Joint ==
    ASSUME NEW S, NEW a \in Seq(S), NEW b \in Seq(S), NEW k, Len(a) = k, NEW l, Len(b) = l
    PROVE  a \o b \in Seq(S) /\ Joins(a \o b, a, k, b, l)
<1> DEFINE t == a \o b
<1>1. /\ t \in Seq(S) /\ Len(t) = Len(a) + Len(b)
      /\ \A x \in 1 .. Len(a) + Len(b) : t[x] = IF x <= Len(a) THEN a[x] ELSE b[x - Len(a)]
  BY ConcatProperties
<1> HIDE DEF t
<1>2. k \in Nat /\ l \in Nat /\ Len(t) = k + l /\ DOMAIN t = 1 .. k + l
  BY <1>1
<1>3. \A x \in 1 .. k + l : t[x] = IF x <= k THEN a[x] ELSE b[x - k]
  BY <1>1
<1>4. \A x \in 1 .. k : t[x] = a[x]
  BY <1>2, <1>3
<1>5. \A x \in 1 .. l : t[k + x] = b[x]
  <2> TAKE x \in 1 .. l
  <2>1. k + x \in 1 .. k + l /\ ~(k + x <= k) /\ k + x - k = x
    BY <1>2
  <2> QED BY <1>3, <2>1
<1> QED BY <1>1, <1>2, <1>4, <1>5 DEF t, Joins

\* t has the n lines of s but the i-th.
Without(t, s, n, i) ==
    /\ n - 1 \in Nat /\ DOMAIN t = 1 .. n - 1
    /\ \A x \in 1 .. n : x < i => x \in 1 .. n - 1 /\ t[x] = s[x]
    /\ \A x \in 1 .. n : x > i => x - 1 \in 1 .. n - 1 /\ t[x - 1] = s[x]

LEMMA Removed ==
    ASSUME NEW S, NEW s \in Seq(S), NEW n, n = Len(s), NEW i \in 1 .. n, NEW t, t = RemoveAt(s, i)
    PROVE  Without(t, s, n, i)
<1> DEFINE a == SubSeq(s, 1, i - 1)
           b == SubSeq(s, i + 1, n)
<1>1. n \in Nat /\ 1 \in Nat \ {0} /\ i - 1 \in 1 - 1 .. Len(s) /\ i + 1 \in Nat \ {0}
      /\ n \in i + 1 - 1 .. Len(s)
  OBVIOUS
<1>2. a \in Seq(S) /\ Len(a) = i - 1 - (1 - 1) /\ \A x \in 1 .. i - 1 - (1 - 1) : a[x] = s[x + (1 - 1)]
  BY <1>1, Cutout
<1>3. b \in Seq(S) /\ Len(b) = n - (i + 1 - 1) /\ \A x \in 1 .. n - (i + 1 - 1) : b[x] = s[x + (i + 1 - 1)]
  BY <1>1, Cutout
<1>4. t = a \o b
  BY DEF RemoveAt
<1> HIDE DEF a, b
<1>5. a \in Seq(S) /\ Len(a) = i - 1 /\ \A x \in 1 .. i - 1 : a[x] = s[x]
  BY <1>1, <1>2
<1>6. b \in Seq(S) /\ Len(b) = n - i /\ \A x \in 1 .. n - i : b[x] = s[x + i]
  BY <1>1, <1>3
<1>7. /\ DOMAIN t = 1 .. (i - 1) + (n - i)
      /\ \A x \in 1 .. i - 1 : t[x] = a[x]
      /\ \A x \in 1 .. n - i : t[(i - 1) + x] = b[x]
  <2>1. Joins(t, a, i - 1, b, n - i)
    BY ONLY <1>4, <1>5, <1>6, Joint
  <2> QED BY <2>1 DEF Joins
<1>8. \A x \in 1 .. n : x < i => x \in 1 .. i - 1
  BY <1>1
<1>9. \A x \in 1 .. n : x > i => x - i \in 1 .. n - i /\ (i - 1) + (x - i) = x - 1 /\ x - i + i = x
  BY <1>1
<1>10. \A x \in 1 .. n : x > i => t[x - 1] = s[x]
  <2> TAKE x \in 1 .. n
  <2> HAVE x > i
  <2>1. x - i \in 1 .. n - i /\ (i - 1) + (x - i) = x - 1 /\ x - i + i = x
    BY <1>9
  <2>2. t[(i - 1) + (x - i)] = b[x - i] /\ b[x - i] = s[x - i + i]
    BY <1>6, <1>7, <2>1
  <2> QED BY <2>1, <2>2
<1> QED BY <1>1, <1>5, <1>7, <1>8, <1>10 DEF Without

LEMMA Inserted ==
    ASSUME NEW S, NEW s \in Seq(S), NEW n, n = Len(s), NEW i \in 1 .. n + 1, NEW r \in S,
           NEW t, t = InsertAt(s, i, r)
    PROVE  /\ n \in Nat /\ DOMAIN t = 1 .. n + 1 /\ t[i] = r
           /\ \A x \in 1 .. n : x < i => t[x] = s[x]
           /\ \A x \in 1 .. n : x >= i => t[x + 1] = s[x]
<1> DEFINE a == SubSeq(s, 1, i - 1)
           b == SubSeq(s, i, n)
           c == a \o <<r>>
<1>1. n \in Nat /\ 1 \in Nat \ {0} /\ i - 1 \in 1 - 1 .. Len(s) /\ i \in Nat \ {0}
      /\ n \in i - 1 .. Len(s)
  OBVIOUS
<1>2. a \in Seq(S) /\ Len(a) = i - 1 - (1 - 1) /\ \A x \in 1 .. i - 1 - (1 - 1) : a[x] = s[x + (1 - 1)]
  BY <1>1, Cutout
<1>3. b \in Seq(S) /\ Len(b) = n - (i - 1) /\ \A x \in 1 .. n - (i - 1) : b[x] = s[x + (i - 1)]
  BY <1>1, Cutout
<1>4. t = c \o b
  BY DEF InsertAt
<1> HIDE DEF a, b
<1>5. a \in Seq(S) /\ Len(a) = i - 1 /\ \A x \in 1 .. i - 1 : a[x] = s[x]
  BY <1>1, <1>2
<1>6. <<r>> \in Seq(S) /\ Len(<<r>>) = 1 /\ <<r>>[1] = r /\ 1 \in 1 .. 1
  OBVIOUS
<1>7. /\ c \in Seq(S) /\ Len(c) = (i - 1) + 1
      /\ \A x \in 1 .. i - 1 : c[x] = a[x]
      /\ \A x \in 1 .. 1 : c[(i - 1) + x] = <<r>>[x]
  <2>1. c \in Seq(S) /\ Joins(c, a, i - 1, <<r>>, 1)
    BY <1>5, <1>6, Joint
  <2> QED BY <2>1 DEF Joins
<1> HIDE DEF c
<1>8. /\ DOMAIN t = 1 .. (i - 1) + 1 + (n - (i - 1))
      /\ \A x \in 1 .. (i - 1) + 1 : t[x] = c[x]
      /\ \A x \in 1 .. n - (i - 1) : t[(i - 1) + 1 + x] = b[x]
  <2>1. Joins(t, c, (i - 1) + 1, b, n - (i - 1))
    <3>1. c \in Seq(S) /\ Len(c) = (i - 1) + 1 /\ b \in Seq(S) /\ Len(b) = n - (i - 1)
      BY <1>3, <1>7
    <3>2. Joins(c \o b, c, (i - 1) + 1, b, n - (i - 1))
      BY ONLY <3>1, Joint
    <3> QED BY ONLY <1>4, <3>2
  <2> QED BY <2>1 DEF Joins
<1>9. (i - 1) + 1 + (n - (i - 1)) = n + 1 /\ (i - 1) + 1 = i /\ i \in 1 .. (i - 1) + 1
  BY <1>1
<1>10. t[i] = r
  <2>1. c[(i - 1) + 1] = r
    BY <1>6, <1>7
  <2> QED BY <1>8, <1>9, <2>1
<1>11. \A x \in 1 .. n : x < i => t[x] = s[x]
  <2> TAKE x \in 1 .. n
  <2> HAVE x < i
  <2>1. x \in 1 .. i - 1 /\ x \in 1 .. (i - 1) + 1
    BY <1>1
  <2> QED BY <1>5, <1>7, <1>8, <2>1
<1>12. \A x \in 1 .. n : x >= i => t[x + 1] = s[x]
  <2> TAKE x \in 1 .. n
  <2> HAVE x >= i
  <2>1. x - (i - 1) \in 1 .. n - (i - 1) /\ (i - 1) + 1 + (x - (i - 1)) = x + 1 /\ x - (i - 1) + (i - 1) = x
    BY <1>1
  <2>2. t[(i - 1) + 1 + (x - (i - 1))] = b[x - (i - 1)] /\ b[x - (i - 1)] = s[x - (i - 1) + (i - 1)]
    BY <1>3, <1>8, <2>1
  <2> QED BY <2>1, <2>2
<1> QED BY <1>1, <1>8, <1>9, <1>10, <1>11, <1>12

\* An entry taken out with another behind it.
LEMMA RemovedSeen ==
    ASSUME NEW S, NEW s \in Seq(S), NEW N \in Nat, Ordered(s, N), NEW i \in Inner(s),
           NEW t, t = RemoveAt(s, i), VerifyOk(t, NoStart), IsAnchored(t, NoStart)
    PROVE  FALSE
<1> DEFINE n == Len(s)
           k == s[i].seq
<1>1. n \in Nat /\ DOMAIN s = 1 .. n /\ i \in 1 .. n /\ i \in EntryAt(s)
  BY DEF Inner, EntryAt
<1>2. /\ n - 1 \in Nat /\ DOMAIN t = 1 .. n - 1
      /\ \A x \in 1 .. n : x < i => x \in 1 .. n - 1 /\ t[x] = s[x]
      /\ \A x \in 1 .. n : x > i => x - 1 \in 1 .. n - 1 /\ t[x - 1] = s[x]
  <2>1. n = Len(s)
    OBVIOUS
  <2> HIDE DEF n
  <2>2. Without(t, s, n, i)
    BY ONLY s \in Seq(S), t = RemoveAt(s, i), <1>1, <2>1, Removed
  <2> QED BY ONLY <2>2 DEF Without
<1> DEFINE at(x) == IF x < i THEN x ELSE x - 1
<1>3. \A x \in EntryAt(s) : x # i => at(x) \in EntryAt(t) /\ t[at(x)] = s[x]
  <2> TAKE x \in EntryAt(s)
  <2> HAVE x # i
  <2>1. x \in 1 .. n /\ s[x].type = "entry" /\ (x < i \/ x > i)
    BY <1>1 DEF EntryAt
  <2>2. at(x) \in 1 .. n - 1 /\ t[at(x)] = s[x]
    BY <1>1, <1>2, <2>1
  <2> QED BY <1>2, <2>1, <2>2 DEF EntryAt
<1>4. \A x \in EntryAt(t) : \E z \in EntryAt(s) : z # i /\ t[x] = s[z]
  <2> TAKE x \in EntryAt(t)
  <2>1. x \in 1 .. n - 1 /\ t[x].type = "entry"
    BY <1>2 DEF EntryAt
  <2>2. CASE x < i
    <3>1. x \in EntryAt(s) /\ t[x] = s[x] /\ x # i
      BY <1>1, <1>2, <2>1, <2>2 DEF EntryAt
    <3> QED BY <3>1
  <2>3. CASE ~(x < i)
    <3>1. x + 1 \in 1 .. n /\ x + 1 > i /\ x + 1 - 1 = x
      BY <1>1, <2>1, <2>3
    <3>2. x + 1 \in EntryAt(s) /\ t[x] = s[x + 1] /\ x + 1 # i
      BY <1>1, <1>2, <2>1, <3>1 DEF EntryAt
    <3> QED BY <3>2
  <2> QED BY <2>2, <2>3
<1>5. \A x \in EntryAt(t) : t[x].seq \in 1 .. N /\ t[x].seq # k
  <2> TAKE x \in EntryAt(t)
  <2>1. PICK z \in EntryAt(s) : z # i /\ t[x] = s[z]
    BY <1>4
  <2>2. z \in Int /\ i \in Int
    BY <1>1, <2>1 DEF EntryAt
  <2>3. z < i \/ i < z
    BY <2>1, <2>2
  <2>4. s[z].seq \in 1 .. N /\ s[i].seq \in 1 .. N
    BY <1>1 DEF Ordered
  <2>5. s[z].seq < s[i].seq \/ s[i].seq < s[z].seq
    BY <1>1, <2>3 DEF Ordered
  <2> QED BY <2>1, <2>4, <2>5
<1>6. k \in 1 .. N
  BY <1>1 DEF Ordered
<1>7. k # 1
  <2> SUFFICES ASSUME k = 1 PROVE FALSE
    OBVIOUS
  <2>1. EntryAt(t) # {} /\ Min(Numbers(t)) = 1
    BY DEF IsAnchored
  <2>2. Numbers(t) \in SUBSET Nat /\ Numbers(t) # {}
    BY <1>5, <2>1 DEF Numbers, Seqs
  <2>3. 1 \in Numbers(t)
    BY <2>1, <2>2, Bottoms
  <2> QED BY <1>5, <2>3 DEF Numbers, Seqs
<1>8. PICK j \in EntryAt(s) : s[j].seq = k + 1
  <2>1. PICK l \in EntryAt(s) : l > i
    BY DEF Inner
  <2>2. k < s[l].seq /\ s[l].seq \in 1 .. N
    BY <1>1, <2>1 DEF Ordered
  <2>3. k + 1 \in 1 .. N
    BY <1>6, <2>2
  <2> QED BY <2>3 DEF Ordered
<1>9. PICK h \in EntryAt(s) : s[h].seq = 1
  <2>1. 1 \in 1 .. N
    BY <1>6
  <2> QED BY <2>1 DEF Ordered
<1>10. h < i /\ i < j
  BY <1>1, <1>6, <1>7, <1>8, <1>9 DEF Ordered
<1>11. /\ at(j) \in EntryAt(t) /\ at(h) \in EntryAt(t) /\ at(h) < at(j)
       /\ t[at(j)].seq = k + 1
  <2>1. h \in Int /\ j \in Int
    BY <1>1 DEF EntryAt
  <2> QED BY <1>1, <1>3, <1>8, <1>10, <2>1
<1>12. VerifyOk(t, NoStart)
  OBVIOUS
<1> HIDE DEF at, n, k
<1>13. PICK x \in EntryAt(t) : t[at(j)].seq = t[x].seq + 1
  BY ONLY N \in Nat, <1>2, <1>5, <1>11, <1>12, Continues
<1> QED BY <1>5, <1>6, <1>11, <1>13

LEMMA EntryFields ==
    ASSUME NEW seq, NEW prev, NEW pay
    PROVE  /\ Entry(seq, prev, pay).type = "entry" /\ Entry(seq, prev, pay).seq = seq
           /\ Entry(seq, prev, pay).prev = prev /\ Entry(seq, prev, pay).pay = pay
           /\ Entry(seq, prev, pay).hash = EntryHash(seq, prev, pay)
BY DEF Entry

\* An entry with another behind it rewritten, with a hash of its own.
LEMMA RewrittenSeen ==
    ASSUME NEW s, NEW n \in Nat, DOMAIN s = 1 .. n, NEW N \in Nat, Ordered(s, N),
           NEW i \in Inner(s), NEW t, t = [s EXCEPT ![i] = Entry(s[i].seq, s[i].prev, 0)],
           VerifyOk(t, NoStart)
    PROVE  FALSE
<1> DEFINE e == Entry(s[i].seq, s[i].prev, 0)
<1>1. i \in 1 .. n /\ i \in EntryAt(s) /\ s[i].type = "entry"
  BY DEF Inner, EntryAt
<1>2. e.type = "entry" /\ e.seq = s[i].seq /\ e.hash = EntryHash(s[i].seq, s[i].prev, 0)
  BY EntryFields
<1>3. DOMAIN t = 1 .. n /\ \A x \in 1 .. n : t[x] = IF x = i THEN e ELSE s[x]
  <2> HIDE DEF e
  <2>1. t = [s EXCEPT ![i] = e]
    BY DEF e
  <2> QED BY <1>1, <2>1
<1> HIDE DEF e
<1>4. EntryAt(t) = EntryAt(s)
  BY <1>1, <1>2, <1>3 DEF EntryAt
<1>5. \A x \in EntryAt(s) : t[x].seq = s[x].seq
  <2> TAKE x \in EntryAt(s)
  <2>1. x \in 1 .. n
    BY DEF EntryAt
  <2> QED BY <1>2, <1>3, <2>1
<1>6. \A x \in EntryAt(t) : t[x].seq \in 1 .. N
  BY <1>4, <1>5 DEF Ordered
<1>7. PICK j \in EntryAt(s) : s[j].seq = s[i].seq + 1
  <2>1. PICK l \in EntryAt(s) : l > i
    BY DEF Inner
  <2>2. s[i].seq < s[l].seq /\ s[l].seq \in 1 .. N /\ s[i].seq \in 1 .. N
    BY <1>1, <2>1 DEF Ordered
  <2>3. s[i].seq + 1 \in 1 .. N
    BY <2>2
  <2> QED BY <2>3 DEF Ordered
<1>8. i < j /\ j # i /\ j \in 1 .. n /\ s[i].seq \in 1 .. N
  <2>1. s[i].seq \in 1 .. N
    BY <1>1 DEF Ordered
  <2>2. i < j
    BY <1>1, <1>7, <2>1 DEF Ordered
  <2> QED BY <1>1, <2>1, <2>2 DEF EntryAt
<1>9. PICK h \in EntryAt(t) : t[j].seq = t[h].seq + 1 /\ t[j].prev = t[h].hash
  <2>1. i \in EntryAt(t) /\ j \in EntryAt(t) /\ i < j /\ VerifyOk(t, NoStart)
    BY <1>1, <1>4, <1>7, <1>8
  <2>2. DOMAIN t = 1 .. n
    BY <1>3
  <2> QED BY ONLY n \in Nat, N \in Nat, <1>6, <2>1, <2>2, Continues
<1>10. h = i
  <2>1. s[h].seq = s[i].seq /\ h \in EntryAt(s)
    <3>1. t[j].seq = s[j].seq /\ t[h].seq = s[h].seq /\ s[h].seq \in 1 .. N
      BY <1>4, <1>5, <1>7 DEF Ordered
    <3> QED BY <1>4, <1>7, <1>8, <1>9, <3>1
  <2>2. ~(h < i) /\ ~(i < h)
    BY <1>1, <1>8, <2>1 DEF Ordered
  <2>3. h \in 1 .. n
    BY <2>1 DEF EntryAt
  <2> QED BY <1>1, <2>2, <2>3
<1>11. t[j].prev = EntryHash(s[i].seq, s[i].prev, s[i].pay) /\ s[i].pay # 0
  <2>1. s[j].prev = s[i].hash
    BY <1>1, <1>7 DEF Ordered
  <2>2. s[i] = Entry(s[i].seq, s[i].prev, s[i].pay) /\ s[i].pay # 0
    BY <1>1 DEF Ordered
  <2>3. s[i].hash = EntryHash(s[i].seq, s[i].prev, s[i].pay)
    BY <2>2, EntryFields
  <2> QED BY <1>3, <1>8, <2>1, <2>2, <2>3
<1>12. t[j].prev = EntryHash(s[i].seq, s[i].prev, 0)
  BY <1>1, <1>2, <1>3, <1>9, <1>10
<1> QED BY ONLY <1>11, <1>12 DEF EntryHash

\* An entry's payload changed.
LEMMA ChangedSeen ==
    ASSUME NEW s, NEW n \in Nat, DOMAIN s = 1 .. n, NEW N \in Nat, Ordered(s, N),
           NEW i \in EntryAt(s), NEW t, t = [s EXCEPT ![i].pay = 0], VerifyOk(t, NoStart)
    PROVE  FALSE
<1>1. i \in 1 .. n /\ s[i] = Entry(s[i].seq, s[i].prev, s[i].pay) /\ s[i].pay # 0
  BY DEF EntryAt, Ordered
<1>2. s[i].hash = EntryHash(s[i].seq, s[i].prev, s[i].pay)
  BY <1>1, EntryFields
<1>3. i \in DOMAIN t /\ t[i] = [s[i] EXCEPT !.pay = 0]
  BY <1>1
<1>4. /\ t[i].type = "entry" /\ t[i].seq = s[i].seq /\ t[i].prev = s[i].prev /\ t[i].pay = 0
      /\ t[i].hash = s[i].hash
  <2> DEFINE seq == s[i].seq  prev == s[i].prev  pay == s[i].pay
  <2>1. s[i] = [type |-> "entry", seq |-> seq, prev |-> prev, pay |-> pay,
                hash |-> EntryHash(seq, prev, pay)]
    BY <1>1 DEF Entry
  <2> HIDE DEF seq, prev, pay
  <2>2. /\ s[i].type = "entry" /\ s[i].seq = seq /\ s[i].prev = prev
        /\ s[i].hash = EntryHash(seq, prev, pay)
    BY <2>1
  <2>3. /\ t[i].type = "entry" /\ t[i].seq = seq /\ t[i].prev = prev /\ t[i].pay = 0
        /\ t[i].hash = EntryHash(seq, prev, pay)
    BY <1>3, <2>1
  <2> QED BY <2>2, <2>3
<1>5. EntryHolds(t, i, NoStart)
  BY <1>3, <1>4 DEF VerifyOk, LineHolds
<1>6. t[i].hash = EntryHash(t[i].seq, t[i].prev, t[i].pay)
  BY <1>5 DEF EntryHolds
<1> QED BY <1>1, <1>2, <1>4, <1>6 DEF EntryHash

\* The head of a checkpoint changed.
LEMMA ReheadedSeen ==
    ASSUME NEW s, NEW n \in Nat, DOMAIN s = 1 .. n, NEW N \in Nat, Ordered(s, N),
           NEW i \in DOMAIN s \ EntryAt(s), NEW t, t = [s EXCEPT ![i].head = NoStart],
           VerifyOk(t, NoStart)
    PROVE  FALSE
<1>1. s[i] = Checkpoint(s[i].seq, s[i].head, Notary) /\ s[i].head # NoStart
  BY DEF Ordered
<1>2. i \in DOMAIN t /\ t[i] = [s[i] EXCEPT !.head = NoStart]
  OBVIOUS
<1>3. /\ t[i].type = "checkpoint" /\ t[i].head = NoStart
      /\ t[i].sig = <<s[i].seq, s[i].head, Notary>>
  <2> DEFINE seq == s[i].seq  head == s[i].head
  <2>1. s[i] = [type |-> "checkpoint", seq |-> seq, head |-> head, key |-> Notary,
                sig |-> <<seq, head, Notary>>]
    BY <1>1 DEF Checkpoint
  <2> HIDE DEF seq, head
  <2>2. /\ t[i].type = "checkpoint" /\ t[i].head = NoStart
        /\ t[i].sig = <<seq, head, Notary>>
    BY <1>2, <2>1
  <2> QED BY <2>2 DEF seq, head
<1>4. CheckpointHolds(t, i)
  BY <1>2, <1>3 DEF VerifyOk, LineHolds
<1>5. t[i].sig = <<t[i].seq, t[i].head, t[i].key>>
  BY <1>4 DEF CheckpointHolds
<1> QED BY <1>1, <1>3, <1>5

\* An entry twice.
LEMMA CopiedSeen ==
    ASSUME NEW S, NEW s \in Seq(S), NEW N \in Nat, Ordered(s, N),
           NEW i \in 1 .. Len(s) + 1, NEW j \in EntryAt(s), NEW t, t = InsertAt(s, i, s[j]),
           VerifyOk(t, NoStart)
    PROVE  FALSE
<1> DEFINE n == Len(s)
<1>1. n \in Nat /\ DOMAIN s = 1 .. n /\ i \in 1 .. n + 1 /\ j \in 1 .. n /\ s[j] \in S
  BY DEF EntryAt
<1>2. /\ DOMAIN t = 1 .. n + 1 /\ t[i] = s[j]
      /\ \A x \in 1 .. n : x < i => t[x] = s[x]
      /\ \A x \in 1 .. n : x >= i => t[x + 1] = s[x]
  <2>1. PICK r \in S : r = s[j]
    BY <1>1
  <2>2. n = Len(s) /\ i \in 1 .. n + 1 /\ t = InsertAt(s, i, r)
    BY <2>1
  <2>3. /\ DOMAIN t = 1 .. n + 1 /\ t[i] = r
        /\ \A x \in 1 .. n : x < i => t[x] = s[x]
        /\ \A x \in 1 .. n : x >= i => t[x + 1] = s[x]
    BY ONLY s \in Seq(S), r \in S, <2>2, Inserted
  <2> QED BY <2>1, <2>3
<1> HIDE DEF n
<1>3. \A x \in EntryAt(t) : t[x].seq \in 1 .. N
  <2> TAKE x \in EntryAt(t)
  <2>1. x \in 1 .. n + 1 /\ t[x].type = "entry"
    BY <1>2 DEF EntryAt
  <2>2. CASE x = i
    BY <1>2, <2>2 DEF Ordered
  <2>3. CASE x < i
    <3>1. x \in 1 .. n /\ t[x] = s[x]
      BY <1>1, <1>2, <2>1, <2>3
    <3>2. x \in EntryAt(s)
      BY <1>1, <2>1, <3>1 DEF EntryAt
    <3> QED BY <3>1, <3>2 DEF Ordered
  <2>4. CASE x > i
    <3>1. x - 1 \in 1 .. n /\ x - 1 >= i /\ x - 1 + 1 = x
      BY <1>1, <2>1, <2>4
    <3>2. t[x] = s[x - 1]
      BY <1>2, <3>1
    <3>3. x - 1 \in EntryAt(s)
      BY <1>1, <2>1, <3>1, <3>2 DEF EntryAt
    <3> QED BY <3>2, <3>3 DEF Ordered
  <2> QED BY <1>1, <2>1, <2>2, <2>3, <2>4
<1>4. \E x, y \in EntryAt(t) : x < y /\ t[x] = s[j] /\ t[y] = s[j]
  <2>1. s[j].type = "entry"
    BY DEF EntryAt
  <2>2. i \in EntryAt(t)
    BY <1>1, <1>2, <2>1 DEF EntryAt
  <2>3. CASE j < i
    <3>1. j \in EntryAt(t) /\ t[j] = s[j]
      BY <1>1, <1>2, <2>1, <2>3 DEF EntryAt
    <3> QED BY <1>2, <2>2, <2>3, <3>1
  <2>4. CASE j >= i
    <3>1. t[j + 1] = s[j] /\ j + 1 \in 1 .. n + 1 /\ i < j + 1
      BY <1>1, <1>2, <2>4
    <3>2. j + 1 \in EntryAt(t)
      BY <1>2, <2>1, <3>1 DEF EntryAt
    <3> QED BY <1>2, <2>2, <3>1, <3>2
  <2> QED BY <1>1, <2>3, <2>4
<1>5. PICK x, y \in EntryAt(t) : x < y /\ t[x] = s[j] /\ t[y] = s[j]
  BY <1>4
<1>6. t[x].seq < t[y].seq
  <2>1. n + 1 \in Nat /\ DOMAIN t = 1 .. n + 1 /\ N \in Nat /\ VerifyOk(t, NoStart)
    BY <1>1, <1>2
  <2>2. x \in EntryAt(t) /\ y \in EntryAt(t) /\ x < y
    BY <1>5
  <2> QED BY ONLY <1>3, <2>1, <2>2, Continues
<1>7. s[j].seq \in 1 .. N
  BY DEF Ordered
<1> QED BY <1>5, <1>6, <1>7

\* Two entries in each other's place.
LEMMA SwappedSeen ==
    ASSUME NEW S, NEW s \in Seq(S), NEW n \in Nat, DOMAIN s = 1 .. n, NEW N \in Nat, Ordered(s, N),
           NEW i \in EntryAt(s), NEW j \in EntryAt(s), NEW t, t = [s EXCEPT ![i] = s[j], ![j] = s[i]],
           t # s, VerifyOk(t, NoStart)
    PROVE  FALSE
<1>1. i \in 1 .. n /\ j \in 1 .. n
  BY DEF EntryAt
<1>2. DOMAIN t = 1 .. n /\ \A x \in 1 .. n : t[x] = IF x = j THEN s[i] ELSE IF x = i THEN s[j] ELSE s[x]
  BY <1>1
<1>3. i # j
  <2> SUFFICES ASSUME i = j PROVE FALSE
    OBVIOUS
  <2>1. t = [s EXCEPT ![i] = s[i]]
    <3>1. t = [s EXCEPT ![i] = s[i], ![i] = s[i]]
      OBVIOUS
    <3> QED BY <3>1
  <2>2. t = s
    BY <1>1, <2>1
  <2> QED BY <2>2
<1>4. EntryAt(t) = EntryAt(s) /\ \A x \in EntryAt(t) : t[x].seq \in 1 .. N
  <2>1. \A x \in 1 .. n : t[x].type = s[x].type
    BY <1>2 DEF EntryAt
  <2>2. EntryAt(t) = EntryAt(s)
    BY <1>2, <2>1 DEF EntryAt
  <2>3. \A x \in EntryAt(s) : s[x].seq \in 1 .. N
    BY DEF Ordered
  <2>4. \A x \in EntryAt(s) : t[x].seq \in 1 .. N
    <3> TAKE x \in EntryAt(s)
    <3>1. x \in 1 .. n
      BY DEF EntryAt
    <3> QED BY <1>2, <2>3, <3>1
  <2> QED BY <2>2, <2>4
<1>5. ASSUME NEW x \in EntryAt(s), NEW y \in EntryAt(s), x < y, t[x] = s[y], t[y] = s[x]
      PROVE  FALSE
  <2>1. t[x].seq < t[y].seq
    <3>1. x \in EntryAt(t) /\ y \in EntryAt(t) /\ x < y
      BY <1>4, <1>5
    <3>2. DOMAIN t = 1 .. n /\ VerifyOk(t, NoStart)
      BY <1>2
    <3>3. \A z \in EntryAt(t) : t[z].seq \in 1 .. N
      BY <1>4
    <3> QED BY ONLY n \in Nat, N \in Nat, <3>1, <3>2, <3>3, Continues
  <2>2. s[x].seq < s[y].seq /\ s[x].seq \in 1 .. N /\ s[y].seq \in 1 .. N
    BY <1>5 DEF Ordered
  <2> QED BY <1>5, <2>1, <2>2
<1>6. i < j \/ j < i
  BY <1>1, <1>3
<1>7. t[i] = s[j] /\ t[j] = s[i]
  BY <1>1, <1>2, <1>3
<1> QED BY <1>5, <1>6, <1>7

\* A log that one of its entries was taken out of, was changed, copied or put
\* elsewhere in, or a checkpoint's head was changed in, does not verify from its
\* beginning (verify of bus_notary.py).
THEOREM TamperAlways == Spec => []TamperEvident
<1>1. NotaryInv => TamperEvident
  <2> SUFFICES ASSUME NotaryInv, Intact, NEW t \in Tampered(log),
                      VerifyOk(t, NoStart), IsAnchored(t, NoStart)
               PROVE  FALSE
    BY DEF TamperEvident
  <2>1. PICK N, p : Good(log, p, N)
    BY DEF NotaryInv, LogInv, Fine, Intact
  <2>2. /\ N \in Nat /\ Whole(log, p, N) /\ Sealed(log, p, N) /\ \E S : log \in Seq(S)
        /\ \A i \in DOMAIN log : log[i].type \in {"entry", "checkpoint"}
    BY <2>1 DEF Good, Log, Lines, Unbroken
  <2>3. PICK S : log \in Seq(S)
    BY <2>2
  <2>4. Len(log) \in Nat /\ DOMAIN log = 1 .. Len(log)
    BY <2>3
  <2>5. Ordered(log, N)
    BY ONLY <2>2, <2>4, LogOrdered
  <2>6. CASE \E i \in Inner(log) : t = RemoveAt(log, i)
    BY <2>2, <2>3, <2>5, <2>6, RemovedSeen
  <2>7. CASE \E i \in Inner(log) : t = [log EXCEPT ![i] = Entry(log[i].seq, log[i].prev, 0)]
    BY <2>2, <2>4, <2>5, <2>7, RewrittenSeen
  <2>8. CASE \E i \in EntryAt(log) : t = [log EXCEPT ![i].pay = 0]
    BY <2>2, <2>4, <2>5, <2>8, ChangedSeen
  <2>9. CASE \E i \in DOMAIN log \ EntryAt(log) : t = [log EXCEPT ![i].head = NoStart]
    BY <2>2, <2>4, <2>5, <2>9, ReheadedSeen
  <2>10. CASE \E i \in 1 .. Len(log) + 1, j \in EntryAt(log) : t = InsertAt(log, i, log[j])
    BY <2>2, <2>3, <2>5, <2>10, CopiedSeen
  <2>11. CASE \E i, j \in EntryAt(log) : t = [log EXCEPT ![i] = log[j], ![j] = log[i]] /\ t # log
    BY <2>2, <2>3, <2>4, <2>5, <2>11, SwappedSeen
  <2>12. t # log
    BY DEF Tampered
  <2> QED BY <2>6, <2>7, <2>8, <2>9, <2>10, <2>11, <2>12 DEF Tampered
<1> QED BY <1>1, NotaryAlways, PTL

-----------------------------------------------------------------------------
(* A log chained again *)

\* The payload that the entry r has when the k-th is rewritten, and the head
\* behind the line r when the one before it is h.
PayOf(r, k)     == IF r.seq = k THEN 0 ELSE r.pay
HeadOf(r, h, k) == IF r.type # "entry" THEN h ELSE EntryHash(r.seq, h, PayOf(r, k))

Walk(f, s, k, m) ==
    f = [i \in 0 .. m |-> IF i = 0 THEN Genesis ELSE HeadOf(s[i], f[i - 1], k)]

LEMMA HeadsFound ==
    ASSUME NEW s, NEW k
    PROVE  \A m \in Nat : \E f : Walk(f, s, k, m)
<1> DEFINE G(f, m) == f = [i \in 0 .. m |-> IF i = 0 THEN Genesis ELSE HeadOf(s[i], f[i - 1], k)]
           W == {m \in Nat : \E f : G(f, m)}
<1>1. 0 \in W
  <2> DEFINE f == [i \in 0 .. 0 |-> Genesis]
  <2>1. G(f, 0)
    <3>1. \A i \in 0 .. 0 : i = 0
      OBVIOUS
    <3> QED BY <3>1
  <2> QED BY <2>1
<1>2. ASSUME NEW m \in Nat, m \in W PROVE m + 1 \in W
  <2>1. PICK f : G(f, m)
    BY <1>2
  <2> DEFINE g == [i \in 0 .. m + 1 |-> IF i = m + 1 THEN HeadOf(s[i], f[m], k) ELSE f[i]]
  <2>2. \A i \in 0 .. m : g[i] = f[i]
    OBVIOUS
  <2>3. \A i \in 0 .. m + 1 : g[i] = IF i = 0 THEN Genesis ELSE HeadOf(s[i], g[i - 1], k)
    <3> TAKE i \in 0 .. m + 1
    <3>1. CASE i = m + 1
      <4>1. g[i] = HeadOf(s[i], f[m], k) /\ i # 0 /\ i - 1 = m /\ g[m] = f[m]
        BY <2>2, <3>1
      <4> QED BY <4>1
    <3>2. CASE i \in 1 .. m
      <4>1. g[i] = f[i] /\ i # 0 /\ i - 1 \in 0 .. m /\ g[i - 1] = f[i - 1]
        BY <2>2, <3>2
      <4>2. f[i] = HeadOf(s[i], f[i - 1], k)
        BY <2>1, <3>2
      <4> QED BY <4>1, <4>2
    <3>3. CASE i = 0
      <4>1. g[0] = f[0] /\ f[0] = Genesis
        BY <2>1, <2>2
      <4> QED BY <3>3, <4>1
    <3>4. i = m + 1 \/ i \in 1 .. m \/ i = 0
      OBVIOUS
    <3> QED BY <3>1, <3>2, <3>3, <3>4
  <2>4. g = [i \in 0 .. m + 1 |-> g[i]]
    OBVIOUS
  <2> HIDE DEF g
  <2>5. G(g, m + 1)
    BY <2>3, <2>4
  <2> HIDE DEF G
  <2> QED BY <2>5
<1> HIDE DEF W, G
<1>3. Nat \subseteq W
  BY <1>1, <1>2, Induct
<1> QED BY <1>3 DEF W, G, Walk

\* Heads is what its equation says.
LEMMA HeadsEq ==
    ASSUME NEW s, NEW n \in Nat, Len(s) = n, NEW k, NEW f, f = Heads(s, k)
    PROVE  f[0] = Genesis /\ \A i \in 1 .. n : f[i] = HeadOf(s[i], f[i - 1], k)
<1>1. \E g : g = [i \in 0 .. n |-> IF i = 0 THEN Genesis ELSE HeadOf(s[i], g[i - 1], k)]
  <2>1. \E g : Walk(g, s, k, n)
    BY HeadsFound
  <2> QED BY <2>1 DEF Walk
<1>2. f = [i \in 0 .. n |-> IF i = 0 THEN Genesis ELSE HeadOf(s[i], f[i - 1], k)]
  BY <1>1 DEF Heads, HeadOf, PayOf
<1> QED BY <1>2

\* The entries in order, each with the hash of the one before.
Linked(s, p, N) ==
    Chain(s, p, 1, N) /\ \A k \in 1 .. N : s[p[k]].prev = HashOf(s, p, k - 1)

\* The heads f of the log s, and the entries of t with them.
Walked(f, t, s, k) ==
    /\ f[0] = Genesis /\ \A i \in DOMAIN s : f[i] = HeadOf(s[i], f[i - 1], k)
    /\ \A i \in EntryAt(s) : t[i] = Entry(s[i].seq, f[i - 1], PayOf(s[i], k))

\* A log of entries and checkpoints, and the log chained again.
Again(t, s, k, key) ==
    /\ DOMAIN t = DOMAIN s
    /\ \E f : /\ Walked(f, t, s, k)
              /\ \A i \in SealAt(s) :
                    t[i] = IF s[i].seq < k \/ key = "kept" THEN s[i]
                           ELSE Checkpoint(s[i].seq, f[i - 1], key)

LEMMA Chained ==
    ASSUME NEW s, NEW n \in Nat, Len(s) = n, DOMAIN s = 1 .. n, NEW k, NEW key
    PROVE  Again(Rechained(s, k, key), s, k, key)
<1> DEFINE f == Heads(s, k)
           t == Rechained(s, k, key)
<1>1. f[0] = Genesis /\ \A i \in 1 .. n : f[i] = HeadOf(s[i], f[i - 1], k)
  BY HeadsEq
<1>2. t = [i \in DOMAIN s |->
              IF s[i].type = "entry"
              THEN Entry(s[i].seq, f[i - 1], IF s[i].seq = k THEN 0 ELSE s[i].pay)
              ELSE IF s[i].seq < k \/ key = "kept" THEN s[i]
              ELSE Checkpoint(s[i].seq, f[i - 1], key)]
  BY DEF Rechained
<1> HIDE DEF f, t
<1>3. DOMAIN t = DOMAIN s
  BY <1>2
<1>4. \A i \in EntryAt(s) : t[i] = Entry(s[i].seq, f[i - 1], PayOf(s[i], k))
  BY <1>2 DEF EntryAt, PayOf
<1>5. \A i \in SealAt(s) : t[i] = IF s[i].seq < k \/ key = "kept" THEN s[i]
                                  ELSE Checkpoint(s[i].seq, f[i - 1], key)
  BY <1>2 DEF SealAt
<1>6. Walked(f, t, s, k)
  BY <1>1, <1>4 DEF Walked
<1> QED BY <1>3, <1>5, <1>6 DEF Again, t

\* The heads that the walk has computed are the hashes of the new entries.
LEMMA HeadsReached ==
    ASSUME NEW s, NEW n \in Nat, DOMAIN s = 1 .. n, NEW N \in Nat, NEW p, Chain(s, p, 1, N),
           NEW k, NEW f, NEW t, Walked(f, t, s, k)
    PROVE  \A i \in 0 .. n, q \in 0 .. N : Reached(p, 1, N, q, i + 1) => f[i] = HashOf(t, p, q)
<1> DEFINE W == {i \in Nat : i <= n => \A q \in 0 .. N : Reached(p, 1, N, q, i + 1)
                                                            => f[i] = HashOf(t, p, q)}
<1>0. /\ f[0] = Genesis /\ \A i \in 1 .. n : f[i] = HeadOf(s[i], f[i - 1], k)
      /\ \A i \in EntryAt(s) : t[i] = Entry(s[i].seq, f[i - 1], PayOf(s[i], k))
  BY DEF Walked
<1>1. \A j \in 1 .. N : /\ p[j] \in 1 .. n /\ p[j] \in EntryAt(s) /\ s[p[j]].type = "entry"
                        /\ s[p[j]].seq = j
  BY ChainAt
<1>2. 0 \in W
  <2>1. SUFFICES ASSUME NEW q \in 0 .. N, Reached(p, 1, N, q, 0 + 1) PROVE f[0] = HashOf(t, p, q)
    OBVIOUS
  <2>2. q = 0
    <3>1. SUFFICES ASSUME q \in 1 .. N PROVE FALSE
      OBVIOUS
    <3>2. p[q] < 0 + 1
      BY <2>1, <3>1 DEF Reached
    <3> QED BY <1>1, <3>1, <3>2
  <2> QED BY <1>0, <2>2 DEF HashOf
<1>3. ASSUME NEW i \in Nat, i \in W PROVE i + 1 \in W
  <2>1. SUFFICES ASSUME i + 1 <= n, NEW q \in 0 .. N, Reached(p, 1, N, q, i + 2)
                 PROVE  f[i + 1] = HashOf(t, p, q)
    OBVIOUS
  <2>2. i + 1 \in 1 .. n /\ (i + 1) - 1 = i /\ i <= n
    BY <2>1
  <2>3. f[i + 1] = HeadOf(s[i + 1], f[i], k)
    BY <1>0, <2>2
  <2>4. CASE i + 1 \in EntryAt(s)
    <3>1. PICK j \in 1 .. N : i + 1 = p[j]
      BY <2>4 DEF Chain
    <3>2. j = q
      <4>1. j <= q
        BY <2>1, <3>1 DEF Reached
      <4>2. q \in 1 .. N /\ p[q] < i + 2
        BY <2>1, <4>1 DEF Reached
      <4>3. p[j] < p[q] <=> j < q
        BY <4>2, InOrder
      <4> QED BY <1>1, <3>1, <4>1, <4>2, <4>3
    <3>3. t[p[q]] = Entry(q, f[i], PayOf(s[p[q]], k)) /\ s[p[q]].type = "entry" /\ s[p[q]].seq = q
      BY <1>0, <1>1, <2>2, <3>1, <3>2
    <3>4. t[p[q]].hash = EntryHash(q, f[i], PayOf(s[p[q]], k))
      BY <3>3, EntryFields
    <3>5. f[i + 1] = EntryHash(q, f[i], PayOf(s[p[q]], k))
      BY <2>3, <3>1, <3>2, <3>3 DEF HeadOf
    <3> QED BY <3>2, <3>4, <3>5 DEF HashOf
  <2>5. CASE i + 1 \notin EntryAt(s)
    <3>1. s[i + 1].type # "entry"
      BY <2>2, <2>5 DEF EntryAt
    <3>2. Reached(p, 1, N, q, i + 1)
      <4>1. \A j \in 1 .. N : p[j] < i + 2 <=> p[j] < i + 1
        <5> TAKE j \in 1 .. N
        <5>1. p[j] # i + 1 /\ p[j] \in Int
          BY <1>1, <2>5
        <5> QED BY <5>1
      <4> QED BY <2>1, <4>1 DEF Reached
    <3>3. f[i] = HashOf(t, p, q)
      BY <1>3, <2>2, <3>2
    <3> QED BY <2>3, <3>1, <3>3 DEF HeadOf
  <2> QED BY <2>4, <2>5
<1> HIDE DEF W
<1>4. Nat \subseteq W
  BY <1>2, <1>3, Induct
<1> QED BY <1>4 DEF W

\* Two chains that part at an entry never meet again.
LEMMA Parted ==
    ASSUME NEW s, NEW t, NEW N \in Nat, NEW p, NEW k \in 1 .. N,
           \A q \in 1 .. N : /\ s[p[q]].hash = EntryHash(q, HashOf(s, p, q - 1), s[p[q]].pay)
                             /\ t[p[q]].hash = EntryHash(q, HashOf(t, p, q - 1), t[p[q]].pay),
           s[p[k]].pay # t[p[k]].pay
    PROVE  \A q \in k .. N : HashOf(t, p, q) # HashOf(s, p, q)
<1> DEFINE W == {d \in Nat : k + d <= N => HashOf(t, p, k + d) # HashOf(s, p, k + d)}
<1>1. \A q \in 1 .. N : /\ HashOf(s, p, q) = <<q, HashOf(s, p, q - 1), s[p[q]].pay>>
                        /\ HashOf(t, p, q) = <<q, HashOf(t, p, q - 1), t[p[q]].pay>>
  BY DEF HashOf, EntryHash
<1>2. 0 \in W
  BY <1>1
<1>3. ASSUME NEW d \in Nat, d \in W PROVE d + 1 \in W
  <2>1. SUFFICES ASSUME k + (d + 1) <= N
                 PROVE  HashOf(t, p, k + (d + 1)) # HashOf(s, p, k + (d + 1))
    OBVIOUS
  <2>2. HashOf(t, p, k + d) # HashOf(s, p, k + d)
    BY <1>3, <2>1
  <2>3. k + (d + 1) \in 1 .. N /\ (k + (d + 1)) - 1 = k + d
    BY <2>1
  <2> QED BY <1>1, <2>2, <2>3
<1> HIDE DEF W
<1>4. Nat \subseteq W
  BY <1>2, <1>3, Induct
<1>5. ASSUME NEW q \in k .. N PROVE HashOf(t, p, q) # HashOf(s, p, q)
  <2>1. q - k \in W /\ k + (q - k) = q /\ q <= N
    BY <1>4
  <2> QED BY <2>1 DEF W
<1> QED BY <1>5

\* It has its entries and checkpoints where the log has them, chained; from the
\* rewritten entry on every hash is another; its checkpoints are those of the
\* log, from the rewritten entry on those of the key.
Redone(t, s, p, N, k, key) ==
    /\ EntryAt(t) = EntryAt(s) /\ SealAt(t) = SealAt(s)
    /\ Linked(t, p, N) /\ \A q \in 1 .. N : q # k => t[p[q]].pay = s[p[q]].pay
    /\ \A q \in 0 .. k - 1 : HashOf(t, p, q) = HashOf(s, p, q)
    /\ \A q \in k .. N : HashOf(t, p, q) # HashOf(s, p, q)
    /\ \A i \in SealAt(s) : \E q \in 0 .. N :
          /\ Reached(p, 1, N, q, i) /\ s[i] = Checkpoint(q, HashOf(s, p, q), Notary)
          /\ t[i] = IF q < k \/ key = "kept" THEN s[i] ELSE Checkpoint(q, HashOf(t, p, q), key)

LEMMA AgainRedone ==
    ASSUME NEW s, NEW n \in Nat, DOMAIN s = 1 .. n, NEW N \in Nat, NEW p,
           Whole(s, p, N), Sealed(s, p, N),
           \A i \in DOMAIN s : s[i].type \in {"entry", "checkpoint"},
           NEW k \in 1 .. N, NEW key, NEW t, Again(t, s, k, key)
    PROVE  DOMAIN t = 1 .. n /\ Redone(t, s, p, N, k, key)
<1>0. PICK f : /\ Walked(f, t, s, k)
               /\ \A i \in SealAt(s) :
                     t[i] = IF s[i].seq < k \/ key = "kept" THEN s[i]
                            ELSE Checkpoint(s[i].seq, f[i - 1], key)
  BY DEF Again
<1>1. \A i \in EntryAt(s) : t[i] = Entry(s[i].seq, f[i - 1], PayOf(s[i], k))
  BY <1>0 DEF Walked
<1>2. DOMAIN t = 1 .. n
  BY DEF Again
<1>3. Chain(s, p, 1, N)
  BY DEF Whole
<1>4. \A j \in 1 .. N : /\ p[j] \in 1 .. n /\ p[j] \in EntryAt(s) /\ s[p[j]].type = "entry"
                        /\ s[p[j]].seq = j
                        /\ s[p[j]].hash = EntryHash(j, s[p[j]].prev, s[p[j]].pay)
  BY ONLY DOMAIN s = 1 .. n, n \in Nat, N \in Nat, <1>3, ChainAt
<1>5. \A i \in 0 .. n, q \in 0 .. N : Reached(p, 1, N, q, i + 1) => f[i] = HashOf(t, p, q)
  BY ONLY DOMAIN s = 1 .. n, n \in Nat, N \in Nat, <1>0, <1>3, HeadsReached
<1>6. \A i \in EntryAt(s) : t[i].type = "entry"
  BY <1>1, EntryFields
<1>7. \A i \in SealAt(s) : t[i].type = "checkpoint"
  <2> TAKE i \in SealAt(s)
  <2>1. CASE s[i].seq < k \/ key = "kept"
    BY <1>0, <2>1 DEF SealAt
  <2>2. CASE ~(s[i].seq < k \/ key = "kept")
    BY <1>0, <2>2, SealFields
  <2> QED BY <2>1, <2>2
<1>8. EntryAt(t) = EntryAt(s) /\ SealAt(t) = SealAt(s)
  <2>1. \A i \in 1 .. n : i \in EntryAt(s) \/ i \in SealAt(s)
    BY DEF EntryAt, SealAt
  <2>2. \A i \in 1 .. n : ~(i \in EntryAt(s) /\ i \in SealAt(s))
    BY DEF EntryAt, SealAt
  <2>3. EntryAt(s) \subseteq 1 .. n /\ SealAt(s) \subseteq 1 .. n
    BY DEF EntryAt, SealAt
  <2>4. \A i \in 1 .. n : /\ i \in EntryAt(s) <=> t[i].type = "entry"
                          /\ i \in SealAt(s) <=> t[i].type = "checkpoint"
    BY <1>6, <1>7, <2>1, <2>2
  <2>5. \A i : i \in EntryAt(t) <=> i \in 1 .. n /\ t[i].type = "entry"
    BY <1>2 DEF EntryAt
  <2>6. \A i : i \in SealAt(t) <=> i \in 1 .. n /\ t[i].type = "checkpoint"
    BY <1>2 DEF SealAt
  <2>7. EntryAt(t) = EntryAt(s)
    BY <2>3, <2>4, <2>5, Zenon
  <2>8. SealAt(t) = SealAt(s)
    BY <2>3, <2>4, <2>6, Zenon
  <2> QED BY <2>7, <2>8
<1>9. \A j \in 1 .. N : t[p[j]] = Entry(j, HashOf(t, p, j - 1), PayOf(s[p[j]], k))
  <2> TAKE j \in 1 .. N
  <2>1. Reached(p, 1, N, j - 1, p[j])
    BY <1>3, Befores
  <2>2. p[j] - 1 \in 0 .. n /\ (p[j] - 1) + 1 = p[j] /\ j - 1 \in 0 .. N
    BY <1>4
  <2>3. f[p[j] - 1] = HashOf(t, p, j - 1)
    BY <1>5, <2>1, <2>2
  <2>4. t[p[j]] = Entry(s[p[j]].seq, f[p[j] - 1], PayOf(s[p[j]], k))
    BY <1>1, <1>4
  <2> QED BY <1>4, <2>3, <2>4
<1>10. \A j \in 1 .. N : /\ t[p[j]].prev = HashOf(t, p, j - 1) /\ t[p[j]].pay = PayOf(s[p[j]], k)
                         /\ t[p[j]].seq = j
                         /\ t[p[j]].hash = EntryHash(j, HashOf(t, p, j - 1), t[p[j]].pay)
  BY <1>9, EntryFields
<1>11. Linked(t, p, N)
  <2>1. \A j \in 1 .. N : t[p[j]] = Entry(j, t[p[j]].prev, t[p[j]].pay)
    BY <1>9, <1>10
  <2>2. \A j \in 2 .. N : t[p[j]].prev = t[p[j - 1]].hash
    BY <1>10 DEF HashOf
  <2>3. /\ p \in [1 .. N -> DOMAIN t] /\ \A i, j \in 1 .. N : i < j => p[i] < p[j]
        /\ EntryAt(t) = {p[j] : j \in 1 .. N}
    BY <1>2, <1>3, <1>8 DEF Chain
  <2>4. Chain(t, p, 1, N)
    <3>1. 1 + 1 = 2
      OBVIOUS
    <3> QED BY ONLY <2>1, <2>2, <2>3, <3>1 DEF Chain
  <2> QED BY <1>10, <2>4 DEF Linked
<1>12. \A j \in 1 .. N : s[p[j]].pay \in Nat \ {0} /\ s[p[j]].prev = HashOf(s, p, j - 1)
  BY DEF Whole
<1>13. \A j \in 1 .. N : t[p[j]].pay = IF j = k THEN 0 ELSE s[p[j]].pay
  <2> TAKE j \in 1 .. N
  <2>1. t[p[j]].pay = PayOf(s[p[j]], k) /\ s[p[j]].seq = j
    BY <1>4, <1>10
  <2> QED BY ONLY <2>1 DEF PayOf
<1>14. \A q \in k .. N : HashOf(t, p, q) # HashOf(s, p, q)
  <2>1. s[p[k]].pay # t[p[k]].pay
    BY <1>12, <1>13
  <2>2. \A q \in 1 .. N : /\ s[p[q]].hash = EntryHash(q, HashOf(s, p, q - 1), s[p[q]].pay)
                          /\ t[p[q]].hash = EntryHash(q, HashOf(t, p, q - 1), t[p[q]].pay)
    BY <1>4, <1>10, <1>12
  <2> QED BY ONLY N \in Nat, k \in 1 .. N, <2>1, <2>2, Parted
<1>15. \A q \in 0 .. k - 1 : HashOf(t, p, q) = HashOf(s, p, q)
  <2> DEFINE W == {q \in Nat : q < k => HashOf(t, p, q) = HashOf(s, p, q)}
  <2>1. 0 \in W
    BY DEF HashOf
  <2>2. ASSUME NEW q \in Nat, q \in W PROVE q + 1 \in W
    <3>1. SUFFICES ASSUME q + 1 < k PROVE HashOf(t, p, q + 1) = HashOf(s, p, q + 1)
      OBVIOUS
    <3>2. q + 1 \in 1 .. N /\ q + 1 # k /\ q + 1 # 0 /\ (q + 1) - 1 = q
      BY <3>1
    <3>3. HashOf(t, p, q) = HashOf(s, p, q)
      BY <2>2, <3>1
    <3>4. s[p[q + 1]].hash = EntryHash(q + 1, HashOf(s, p, q), s[p[q + 1]].pay)
      <4>1. s[p[q + 1]].prev = HashOf(s, p, q)
        BY <1>12, <3>2
      <4> QED BY <1>4, <3>2, <4>1
    <3>5. t[p[q + 1]].hash = EntryHash(q + 1, HashOf(t, p, q), s[p[q + 1]].pay)
      BY <1>10, <1>13, <3>2
    <3> QED BY <3>2, <3>3, <3>4, <3>5 DEF HashOf
  <2> HIDE DEF W
  <2>3. Nat \subseteq W
    BY <2>1, <2>2, Induct
  <2> QED BY <2>3 DEF W
<1>16. ASSUME NEW i \in SealAt(s)
       PROVE  \E q \in 0 .. N :
                 /\ Reached(p, 1, N, q, i) /\ s[i] = Checkpoint(q, HashOf(s, p, q), Notary)
                 /\ t[i] = IF q < k \/ key = "kept" THEN s[i]
                           ELSE Checkpoint(q, HashOf(t, p, q), key)
  <2>1. PICK q \in 0 .. N : Reached(p, 1, N, q, i) /\ s[i] = Checkpoint(q, HashOf(s, p, q), Notary)
    BY DEF Sealed
  <2>2. s[i].seq = q
    BY <2>1, SealFields
  <2>3. i - 1 \in 0 .. n /\ (i - 1) + 1 = i
    BY DEF SealAt
  <2>4. f[i - 1] = HashOf(t, p, q)
    BY <1>5, <2>1, <2>3
  <2>5. t[i] = IF q < k \/ key = "kept" THEN s[i] ELSE Checkpoint(q, HashOf(t, p, q), key)
    BY <1>0, <2>2, <2>4
  <2> QED BY <2>1, <2>5
<1> QED BY <1>2, <1>8, <1>11, <1>13, <1>14, <1>15, <1>16 DEF Redone

\* A checkpoint for the last entry before it, in the first lines x of t, holds
\* only with the hash of that entry.
LEMMA HeadSigned ==
    ASSUME NEW t, NEW n \in Nat, DOMAIN t = 1 .. n, NEW N \in Nat, NEW p, Chain(t, p, 1, N),
           NEW m \in 0 .. n, NEW x, DOMAIN x = 1 .. m, \A i \in 1 .. m : x[i] = t[i],
           NEW i \in SealAt(x), CheckpointHolds(x, i),
           NEW q \in 1 .. N, Reached(p, 1, N, q, i), x[i].seq = q
    PROVE  x[i].head = HashOf(t, p, q)
<1> DEFINE P == Before(x, i)
<1>1. \A j \in 1 .. N : p[j] \in 1 .. n /\ t[p[j]].seq = j
  BY ChainAt
<1>2. i \in 1 .. m /\ i \in Int
  BY DEF SealAt
<1>3. P = Upto(p, 1, q)
  <2>1. Before(t, i) = Upto(p, 1, q)
    BY Befores
  <2>2. \A j : j \in EntryAt(x) /\ j < i <=> j \in EntryAt(t) /\ j < i
    <3> TAKE j
    <3>1. j \in 1 .. n /\ j < i => j \in 1 .. m
      BY <1>2
    <3>2. j \in EntryAt(x) <=> j \in 1 .. m /\ x[j].type = "entry"
      BY DEF EntryAt
    <3>3. j \in EntryAt(t) <=> j \in 1 .. n /\ t[j].type = "entry"
      BY DEF EntryAt
    <3>4. j \in 1 .. m => j \in 1 .. n
      OBVIOUS
    <3> QED BY <3>1, <3>2, <3>3, <3>4
  <2>3. Before(x, i) = Before(t, i)
    BY <2>2 DEF Before
  <2> QED BY <2>1, <2>3
<1> HIDE DEF P
<1>4. \A j \in P : x[j] = t[j] /\ \E k \in 1 .. q : j = p[k]
  <2> TAKE j \in P
  <2>1. PICK k \in 1 .. q : j = p[k]
    BY <1>3 DEF Upto
  <2>2. k \in 1 .. N /\ p[k] < i
    BY DEF Reached
  <2>3. p[k] \in 1 .. m
    BY <1>1, <1>2, <2>2
  <2> QED BY <2>1, <2>3
<1>5. q \in 1 .. q /\ p[q] \in P /\ p[q] \in Int
  BY <1>1, <1>3 DEF Upto
<1>6. {j \in P : x[j].seq = q} = {p[q]}
  <2>1. \A j \in P : x[j].seq = q <=> j = p[q]
    <3> TAKE j \in P
    <3>1. PICK k \in 1 .. q : j = p[k]
      BY <1>4
    <3>2. k \in 1 .. N
      OBVIOUS
    <3> QED BY <1>1, <1>4, <3>1, <3>2
  <2> QED BY <1>5, <2>1, Zenon
<1>7. Max({p[q]}) = p[q]
  BY <1>5 DEF Max
<1>8. HeadAt(x, P, q) = t[p[q]].hash
  <2>1. x[p[q]] = t[p[q]]
    BY <1>4, <1>5
  <2> QED BY <1>6, <1>7, <2>1 DEF HeadAt
<1>9. q \in Seqs(x, P)
  <2>1. p[q] \in {j \in P : x[j].seq = q}
    BY <1>6
  <2> QED BY <2>1 DEF Seqs
<1>10. HeadBound(x, x[i], P)
  BY DEF CheckpointHolds, P
<1> QED BY <1>8, <1>9, <1>10 DEF HeadBound, HashOf

\* What of a trusted slice with the rewritten entry is a checkpoint behind it.
LEMMA Behinds ==
    ASSUME NEW x, NEW k \in Numbers(x), Trusted(x, NoStart)
    PROVE  \E i \in SealAt(x) : k <= x[i].seq /\ CheckpointHolds(x, i)
<1>1. PICK i \in SealAt(x) : \A v \in Numbers(x) : v <= x[i].seq
  BY DEF Trusted, Covered
<1>2. LineHolds(x, i, NoStart) /\ x[i].type = "checkpoint"
  BY DEF Trusted, VerifyOk, SealAt
<1> QED BY <1>1, <1>2 DEF LineHolds

\* Chained again, with its checkpoints or with those of another key.
LEMMA RedoneUntrusted ==
    ASSUME NEW s, NEW n \in Nat, DOMAIN s = 1 .. n, NEW N \in Nat, NEW p,
           NEW k \in 1 .. N, NEW key, key \in {"kept", Other},
           NEW t, DOMAIN t = 1 .. n, Redone(t, s, p, N, k, key),
           NEW m \in 0 .. n, NEW x, DOMAIN x = 1 .. m, \A i \in 1 .. m : x[i] = t[i],
           k \in Numbers(x), Trusted(x, NoStart)
    PROVE  FALSE
<1>1. PICK i \in SealAt(x) : k <= x[i].seq /\ CheckpointHolds(x, i)
  BY Behinds
<1>2. i \in 1 .. m /\ x[i] = t[i] /\ i \in SealAt(t)
  BY DEF SealAt
<1>3. PICK q \in 0 .. N : /\ Reached(p, 1, N, q, i) /\ s[i] = Checkpoint(q, HashOf(s, p, q), Notary)
                          /\ t[i] = IF q < k \/ key = "kept" THEN s[i]
                                    ELSE Checkpoint(q, HashOf(t, p, q), key)
  BY <1>2 DEF Redone
<1>4. x[i].seq = q
  BY <1>2, <1>3, SealFields
<1>5. q \in k .. N /\ q \in 1 .. N /\ ~(q < k)
  BY <1>1, <1>4
<1>6. CASE key = "kept"
  <2>1. x[i].head = HashOf(s, p, q)
    BY <1>2, <1>3, <1>6, SealFields
  <2>2. Chain(t, p, 1, N)
    BY DEF Redone, Linked
  <2>3. x[i].head = HashOf(t, p, q)
    BY ONLY n \in Nat, DOMAIN t = 1 .. n, N \in Nat, m \in 0 .. n, DOMAIN x = 1 .. m,
            \A j \in 1 .. m : x[j] = t[j], i \in SealAt(x), <1>1, <1>3, <1>4, <1>5, <2>2, HeadSigned
  <2> QED BY <1>5, <2>1, <2>3 DEF Redone
<1>7. CASE key = Other
  <2>1. key # "kept"
    BY <1>7 DEF Other
  <2>2. x[i].key = Other
    BY <1>2, <1>3, <1>5, <1>7, <2>1, SealFields
  <2> QED BY <1>1, <2>2 DEF CheckpointHolds, Other, Notary
<1> QED BY <1>6, <1>7

\* Without the checkpoints from the k-th entry on.
LEMMA UnsealedUntrusted ==
    ASSUME NEW s, NEW n \in Nat, DOMAIN s = 1 .. n, NEW k \in Nat,
           NEW t, t = Unsealed(s, k),
           NEW m, NEW x, DOMAIN x = 1 .. m, m \in 0 .. Len(t), \A i \in 1 .. m : x[i] = t[i],
           k \in Numbers(x), Trusted(x, NoStart), \A i \in DOMAIN s : s[i].type = "checkpoint" => s[i].seq \in Nat
    PROVE  FALSE
<1> DEFINE S == {i \in DOMAIN s : s[i].type = "checkpoint" => s[i].seq < k}
<1>1. S \in SUBSET (1 .. n)
  OBVIOUS
<1>2. t = Select(s, S)
  BY DEF Unsealed
<1>3. \A i \in S : i \in DOMAIN s /\ (s[i].type = "checkpoint" => s[i].seq < k)
  OBVIOUS
<1> HIDE DEF S
<1>4. Len(t) \in Nat /\ \A i \in 1 .. Len(t) : \E j \in S : t[i] = s[j]
  <2>1. Picked(t, s, S)
    BY <1>1, <1>2, Selected
  <2> QED BY <2>1 DEF Picked
<1>5. PICK i \in SealAt(x) : k <= x[i].seq
  BY Behinds
<1>6. i \in 1 .. m /\ x[i].type = "checkpoint"
  BY DEF SealAt
<1>7. PICK j \in S : x[i] = s[j]
  BY <1>4, <1>6
<1> QED BY <1>3, <1>5, <1>6, <1>7

\* The first lines of a sequence.
LEMMA Firsts ==
    ASSUME NEW S, NEW t \in Seq(S), NEW m \in 1 .. Len(t), NEW x, x = SubSeq(t, 1, m)
    PROVE  DOMAIN x = 1 .. m /\ \A i \in 1 .. m : x[i] = t[i]
<1>1. Len(t) \in Nat /\ m \in Nat
  OBVIOUS
<1>2. \A i \in 1 .. m : t[i] \in S
  BY <1>1
<1> QED BY <1>1, <1>2, SubSeqProperties

\* verify: a log rewritten and chained again - with the checkpoints it had,
\* without those from the rewritten entry on or with new ones of another key -
\* is never trusted, nor is any beginning of it that holds the rewritten entry.
THEOREM RechainedAlways == Spec => []RechainedUntrusted
<1>1. NotaryInv => RechainedUntrusted
  <2> SUFFICES ASSUME NotaryInv, Intact, NEW k \in Recorded,
                      NEW t \in {Rechained(log, k, "kept"), Unsealed(Rechained(log, k, "kept"), k),
                                 Rechained(log, k, Other)},
                      NEW m \in 1 .. Len(t), k \in Numbers(SubSeq(t, 1, m)),
                      Trusted(SubSeq(t, 1, m), NoStart)
               PROVE  FALSE
    BY DEF RechainedUntrusted
  <2>1. PICK N, p : Good(log, p, N)
    BY DEF NotaryInv, LogInv, Fine, Intact
  <2>2. /\ N \in Nat /\ Whole(log, p, N) /\ Sealed(log, p, N) /\ \E S : log \in Seq(S)
        /\ \A i \in DOMAIN log : log[i].type \in {"entry", "checkpoint"}
    BY <2>1 DEF Good, Log, Lines, Unbroken
  <2>3. Len(log) \in Nat /\ DOMAIN log = 1 .. Len(log)
    <3>1. PICK S : log \in Seq(S)
      BY <2>2
    <3> QED BY <3>1
  <2>4. k \in 1 .. N
    BY ONLY <2>2, <2>3, k \in Recorded, Started DEF Recorded
  <2> DEFINE kept == Rechained(log, k, "kept")
             n == Len(log)
             x == SubSeq(t, 1, m)
  <2>5. ASSUME NEW key, NEW u, u = Rechained(log, k, key)
        PROVE  DOMAIN u = 1 .. n /\ Redone(u, log, p, N, k, key)
    <3>1. Again(u, log, k, key)
      BY ONLY <2>3, <2>5, Chained
    <3> QED BY ONLY <2>2, <2>3, <2>4, <3>1, AgainRedone
  <2>6. ASSUME NEW key, NEW u, u = Rechained(log, k, key)
        PROVE  Len(u) = n /\ u \in Seq({u[i] : i \in 1 .. n})
    <3>1. DOMAIN u = 1 .. n /\ u = [i \in 1 .. n |-> u[i]]
      BY <2>3, <2>5, <2>6 DEF Rechained
    <3>2. u \in [1 .. n -> {u[i] : i \in 1 .. n}]
      BY <3>1
    <3> QED BY <2>3, <3>2, SeqDef
  <2>7. ASSUME NEW key \in {"kept", Other}, t = Rechained(log, k, key)
        PROVE  FALSE
    <3>1. DOMAIN t = 1 .. n /\ Redone(t, log, p, N, k, key) /\ Len(t) = n
          /\ t \in Seq({t[i] : i \in 1 .. n})
      BY <2>5, <2>6, <2>7
    <3>2. DOMAIN x = 1 .. m /\ (\A i \in 1 .. m : x[i] = t[i]) /\ m \in 0 .. n /\ n \in Nat
      BY <2>3, <3>1, Firsts
    <3>3. k \in Numbers(x) /\ Trusted(x, NoStart)
      OBVIOUS
    <3> HIDE DEF n, x
    <3> QED BY ONLY <2>2, <2>3, <2>4, <2>7, <3>1, <3>2, <3>3, RedoneUntrusted DEF n
  <2>8. CASE t = Unsealed(kept, k)
    <3>1. DOMAIN kept = 1 .. n /\ Redone(kept, log, p, N, k, "kept")
      BY <2>5
    <3>2. \A i \in DOMAIN kept : kept[i].type = "checkpoint" => kept[i].seq \in Nat
      <4> TAKE i \in DOMAIN kept
      <4> HAVE kept[i].type = "checkpoint"
      <4> HIDE DEF kept
      <4>1. i \in SealAt(log)
        BY <3>1 DEF Redone, SealAt
      <4>2. PICK q \in 0 .. N : /\ log[i] = Checkpoint(q, HashOf(log, p, q), Notary)
                                /\ kept[i] = IF q < k \/ "kept" = "kept" THEN log[i]
                                             ELSE Checkpoint(q, HashOf(kept, p, q), "kept")
        BY <3>1, <4>1 DEF Redone
      <4> QED BY <4>2, SealFields
    <3>3. \E T : t \in Seq(T)
      <4> DEFINE S == {i \in DOMAIN kept : kept[i].type = "checkpoint" => kept[i].seq < k}
      <4>1. S \in SUBSET (1 .. n) /\ t = Select(kept, S)
        BY <2>8, <3>1 DEF Unsealed
      <4> HIDE DEF S, kept, n
      <4>2. Picked(t, kept, S)
        BY ONLY <2>3, <4>1, Selected DEF n
      <4> QED BY <4>2 DEF Picked
    <3>4. PICK T : t \in Seq(T)
      BY <3>3
    <3>5. DOMAIN x = 1 .. m /\ (\A i \in 1 .. m : x[i] = t[i]) /\ m \in 0 .. Len(t)
      BY <3>4, Firsts
    <3>6. k \in Numbers(x) /\ Trusted(x, NoStart) /\ k \in Nat /\ n \in Nat
      BY <2>3, <2>4
    <3> HIDE DEF n, x, kept
    <3> QED BY ONLY <2>8, <3>1, <3>2, <3>5, <3>6, UnsealedUntrusted
  <2> QED BY <2>7, <2>8
<1> QED BY <1>1, NotaryAlways, PTL

-----------------------------------------------------------------------------
(* Two slices *)

\* x has the entries a..M of the log s and checkpoints of it.
SliceOf(x, s, p, N, a, M) ==
    /\ a \in 1 .. N /\ M \in 0 .. N
    /\ \A i \in EntryAt(x) : \E j \in a .. M : x[i] = s[p[j]]
    /\ \A j \in a .. M : \E i \in EntryAt(x) : x[i] = s[p[j]]
    /\ \A i \in SealAt(x) : \E q \in 0 .. N : x[i] = Checkpoint(q, HashOf(s, p, q), Notary)

\* An export of the first lines of a log is such.
LEMMA PrefixSliced ==
    ASSUME NEW S, NEW s \in Seq(S), NEW n \in Nat, DOMAIN s = 1 .. n, Len(s) = n,
           NEW N \in Nat, NEW p, Chain(s, p, 1, N), Sealed(s, p, N),
           NEW a \in 1 .. N, NEW m \in 1 .. n
    PROVE  \E M : SliceOf(Export(SubSeq(s, 1, m), a), s, p, N, a, M)
<1> DEFINE u == SubSeq(s, 1, m)
           R == {i \in EntryAt(u) : u[i].seq >= a}
           z == Select(u, R)
           x == Export(u, a)
           c == u[Max(SealAt(u))]
<1>1. DOMAIN u = 1 .. m /\ \A i \in 1 .. m : u[i] = s[i]
  BY Firsts
<1>2. x = z \o (IF SealAt(u) = {} THEN <<>> ELSE <<c>>)
  BY DEF Export
<1>3. \A j \in 1 .. N : /\ p[j] \in 1 .. n /\ p[j] \in EntryAt(s) /\ s[p[j]].type = "entry"
                        /\ s[p[j]].seq = j
  BY ChainAt
<1>4. PICK M \in 0 .. N : Reached(p, 1, N, M, m + 1)
  BY ReachFound
<1>5. \A j \in 1 .. N : p[j] < m + 1 <=> j <= M
  BY <1>4 DEF Reached
<1> HIDE DEF u
<1>6. \A i \in R : \E j \in a .. M : i = p[j] /\ u[i] = s[p[j]]
  <2> TAKE i \in R
  <2>1. i \in 1 .. m /\ u[i].type = "entry" /\ u[i].seq >= a /\ u[i] = s[i]
    BY <1>1 DEF EntryAt
  <2>2. i \in EntryAt(s)
    BY <2>1 DEF EntryAt
  <2>3. PICK j \in 1 .. N : i = p[j]
    BY <2>2 DEF Chain
  <2> QED BY <1>3, <1>5, <2>1, <2>3
<1>7. \A j \in a .. M : p[j] \in R /\ u[p[j]] = s[p[j]]
  <2> TAKE j \in a .. M
  <2>1. j \in 1 .. N /\ p[j] \in 1 .. m
    BY <1>3, <1>5
  <2>2. u[p[j]] = s[p[j]]
    BY <1>1, <2>1
  <2> QED BY <1>1, <1>3, <2>1, <2>2 DEF EntryAt
<1>8. R \in SUBSET (1 .. m) /\ m \in Nat
  BY <1>1 DEF EntryAt
<1> HIDE DEF R
<1>9. Picked(z, u, R)
  BY <1>8, Selected
<1> DEFINE C == Cardinality(R)
<1>10. /\ C \in Nat /\ DOMAIN z = 1 .. C /\ Len(z) = C
       /\ \A k \in 1 .. C : \E j \in a .. M : z[k] = s[p[j]]
       /\ \A j \in a .. M : \E k \in 1 .. C : z[k] = s[p[j]]
  <2>1. /\ C \in Nat /\ DOMAIN z = 1 .. C /\ Len(z) = C
        /\ \A k \in DOMAIN z : Nth(R, k) \in R /\ z[k] = u[Nth(R, k)]
        /\ \A i \in R : \E k \in DOMAIN z : z[k] = u[i]
    BY <1>9 DEF Picked
  <2> HIDE DEF C, z
  <2>2. \A k \in 1 .. C : \E j \in a .. M : z[k] = s[p[j]]
    <3> TAKE k \in 1 .. C
    <3>1. Nth(R, k) \in R /\ z[k] = u[Nth(R, k)]
      BY <2>1
    <3> QED BY <1>6, <3>1
  <2>3. \A j \in a .. M : \E k \in 1 .. C : z[k] = s[p[j]]
    BY <1>7, <2>1
  <2> QED BY <2>1, <2>2, <2>3
<1>11. PICK T : z \in Seq(T)
  BY <1>9 DEF Picked
<1>12. SealAt(u) # {} => \E q \in 0 .. N : c = Checkpoint(q, HashOf(s, p, q), Notary)
  <2> HAVE SealAt(u) # {}
  <2>1. SealAt(u) \in SUBSET (0 .. m)
    BY <1>1 DEF SealAt
  <2>2. Max(SealAt(u)) \in SealAt(u)
    BY <1>8, <2>1, Tops
  <2>3. Max(SealAt(u)) \in SealAt(s) /\ u[Max(SealAt(u))] = s[Max(SealAt(u))]
    BY <1>1, <2>2 DEF SealAt
  <2> QED BY <2>3 DEF Sealed
<1> HIDE DEF z, C, c, x
<1>13. /\ \A k \in 1 .. C : k \in DOMAIN x /\ x[k] = z[k]
       /\ \A k \in DOMAIN x : k \in 1 .. C \/ (SealAt(u) # {} /\ x[k] = c)
  <2>1. CASE SealAt(u) = {}
    <3>1. x = z
      BY <1>2, <1>11, <2>1, OneByOne
    <3> QED BY <1>10, <3>1
  <2>2. CASE SealAt(u) # {}
    <3>1. x = Append(z, c)
      BY <1>2, <1>11, <2>2, OneByOne DEF Added
    <3>2. DOMAIN x = 1 .. C + 1 /\ (\A k \in 1 .. C : x[k] = z[k]) /\ x[C + 1] = c
      BY ONLY <1>10, <1>11, <3>1, Behind
    <3>3. \A k \in 1 .. C + 1 : k \in 1 .. C \/ k = C + 1
      BY <1>10
    <3>4. \A k \in 1 .. C : k \in 1 .. C + 1
      BY <1>10
    <3> QED BY <2>2, <3>2, <3>3, <3>4
  <2> QED BY <2>1, <2>2
<1>14. \A k \in 1 .. C : x[k].type = "entry"
  <2> TAKE k \in 1 .. C
  <2>1. PICK j \in a .. M : z[k] = s[p[j]]
    BY <1>10
  <2>2. j \in 1 .. N
    OBVIOUS
  <2> QED BY <1>3, <1>13, <2>1, <2>2
<1>15. SealAt(u) # {} => c.type = "checkpoint"
  BY <1>12, SealFields
<1>16. \A i \in EntryAt(x) : \E j \in a .. M : x[i] = s[p[j]]
  <2> TAKE i \in EntryAt(x)
  <2>1. i \in 1 .. C
    BY <1>13, <1>15 DEF EntryAt
  <2>2. PICK j \in a .. M : z[i] = s[p[j]]
    BY <1>10, <2>1
  <2> QED BY <1>13, <2>1, <2>2
<1>17. \A j \in a .. M : \E i \in EntryAt(x) : x[i] = s[p[j]]
  <2> TAKE j \in a .. M
  <2>1. PICK k \in 1 .. C : z[k] = s[p[j]]
    BY <1>10
  <2>2. k \in EntryAt(x)
    BY <1>13, <1>14 DEF EntryAt
  <2> QED BY <1>13, <2>1, <2>2
<1>18. \A i \in SealAt(x) : \E q \in 0 .. N : x[i] = Checkpoint(q, HashOf(s, p, q), Notary)
  <2> TAKE i \in SealAt(x)
  <2>1. SealAt(u) # {} /\ x[i] = c
    BY <1>13, <1>14 DEF SealAt
  <2> QED BY <1>12, <2>1
<1>19. SliceOf(x, s, p, N, a, M)
  BY <1>16, <1>17, <1>18 DEF SliceOf
<1> QED BY <1>19 DEF x, u

\* Of a slice: what its entries and checkpoints say.
LEMMA SliceFields ==
    ASSUME NEW s, NEW n \in Nat, DOMAIN s = 1 .. n, NEW N \in Nat, NEW p, Linked(s, p, N),
           NEW x, NEW a, NEW M, SliceOf(x, s, p, N, a, M)
    PROVE  /\ a \in 1 .. N /\ M \in 0 .. N
           /\ \A i \in EntryAt(x) :
                 /\ x[i].seq \in a .. M /\ x[i] = s[p[x[i].seq]]
                 /\ x[i].hash = HashOf(s, p, x[i].seq) /\ x[i].prev = HashOf(s, p, x[i].seq - 1)
           /\ \A j \in a .. M : \E i \in EntryAt(x) : x[i].seq = j
           /\ \A i \in SealAt(x) : x[i].head = HashOf(s, p, x[i].seq)
           /\ Numbers(x) = a .. M
<1>1. /\ a \in 1 .. N /\ M \in 0 .. N
      /\ \A i \in EntryAt(x) : \E j \in a .. M : x[i] = s[p[j]]
      /\ \A j \in a .. M : \E i \in EntryAt(x) : x[i] = s[p[j]]
      /\ \A i \in SealAt(x) : \E q \in 0 .. N : x[i] = Checkpoint(q, HashOf(s, p, q), Notary)
  BY DEF SliceOf
<1>2. Chain(s, p, 1, N) /\ \A j \in 1 .. N : s[p[j]].prev = HashOf(s, p, j - 1)
  BY DEF Linked
<1>3. \A j \in 1 .. N : s[p[j]].seq = j
  BY <1>2, ChainAt
<1>4. \A j \in a .. M : j \in 1 .. N /\ j # 0
  <2>1. a \in 1 .. N /\ M \in 0 .. N
    BY <1>1
  <2> QED BY ONLY N \in Nat, <2>1
<1>5. \A i \in EntryAt(x) :
         /\ x[i].seq \in a .. M /\ x[i] = s[p[x[i].seq]]
         /\ x[i].hash = HashOf(s, p, x[i].seq) /\ x[i].prev = HashOf(s, p, x[i].seq - 1)
  <2> TAKE i \in EntryAt(x)
  <2>1. PICK j \in a .. M : x[i] = s[p[j]]
    BY <1>1
  <2> QED BY <1>2, <1>3, <1>4, <2>1 DEF HashOf
<1>6. \A j \in a .. M : \E i \in EntryAt(x) : x[i].seq = j
  <2> TAKE j \in a .. M
  <2>1. PICK i \in EntryAt(x) : x[i] = s[p[j]]
    BY <1>1
  <2> QED BY <1>3, <1>4, <2>1
<1>7. \A i \in SealAt(x) : x[i].head = HashOf(s, p, x[i].seq)
  BY <1>1, SealFields
<1>8. Numbers(x) = a .. M
  <2>1. \A v : v \in Numbers(x) <=> \E i \in EntryAt(x) : v = x[i].seq
    BY DEF Numbers, Seqs
  <2>2. \A v : v \in Numbers(x) <=> v \in a .. M
    BY ONLY <1>5, <1>6, <2>1
  <2> QED BY <2>2, Zenon
<1> QED BY <1>1, <1>5, <1>6, <1>7, <1>8

\* Two slices of one log agree.
LEMMA OneLog ==
    ASSUME NEW s, NEW n \in Nat, DOMAIN s = 1 .. n, NEW N \in Nat, NEW p, Linked(s, p, N),
           NEW x, NEW a, NEW M, SliceOf(x, s, p, N, a, M),
           NEW y, NEW b, NEW L, SliceOf(y, s, p, N, b, L)
    PROVE  SameEntries(x, y) /\ SameHeads(x, y) /\ SealsAgree(x, y) /\ LinksAgree(x, y)
<1>1. /\ a \in 1 .. N /\ M \in 0 .. N
      /\ \A i \in EntryAt(x) :
            /\ x[i].seq \in a .. M /\ x[i] = s[p[x[i].seq]] /\ x[i].hash = HashOf(s, p, x[i].seq)
      /\ \A i \in SealAt(x) : x[i].head = HashOf(s, p, x[i].seq)
  BY SliceFields
<1>2. /\ b \in 1 .. N /\ L \in 0 .. N
      /\ \A i \in EntryAt(y) :
            /\ y[i].seq \in b .. L /\ y[i] = s[p[y[i].seq]]
            /\ y[i].hash = HashOf(s, p, y[i].seq) /\ y[i].prev = HashOf(s, p, y[i].seq - 1)
      /\ \A i \in SealAt(y) : y[i].head = HashOf(s, p, y[i].seq)
  BY SliceFields
<1>3. SameEntries(x, y)
  BY <1>1, <1>2 DEF SameEntries
<1>4. SameHeads(x, y)
  BY <1>1, <1>2 DEF SameHeads
<1>5. SealsAgree(x, y)
  BY <1>1, <1>2 DEF SealsAgree
<1>6. LinksAgree(x, y)
  <2> SUFFICES ASSUME NEW i \in EntryAt(x), NEW j \in EntryAt(y), y[j].seq = x[i].seq + 1
               PROVE  y[j].prev = x[i].hash
    BY DEF LinksAgree
  <2>1. x[i].seq \in a .. M /\ x[i].hash = HashOf(s, p, x[i].seq)
    BY <1>1
  <2>2. y[j].prev = HashOf(s, p, y[j].seq - 1)
    BY <1>2
  <2>3. y[j].seq - 1 = x[i].seq
    BY <1>1, <2>1
  <2> QED BY <2>1, <2>2, <2>3
<1> QED BY <1>3, <1>4, <1>5, <1>6

\* Of slices of two logs with other hashes from k on, one that goes on where the
\* other ends does not link to it.
LEMMA EndsApart ==
    ASSUME NEW s, NEW t, NEW n \in Nat, DOMAIN s = 1 .. n, DOMAIN t = 1 .. n,
           NEW N \in Nat, NEW p, Linked(s, p, N), Linked(t, p, N),
           NEW k \in 1 .. N, \A q \in k .. N : HashOf(t, p, q) # HashOf(s, p, q),
           NEW x, NEW a, NEW M, SliceOf(x, s, p, N, a, M), a <= M, k <= M,
           NEW y, NEW b, NEW L, SliceOf(y, t, p, N, b, L), b <= L, b = M + 1
    PROVE  ~LinksAgree(x, y)
<1>1. /\ a \in 1 .. N /\ M \in 0 .. N /\ Numbers(x) = a .. M
      /\ \A i \in EntryAt(x) : x[i].hash = HashOf(s, p, x[i].seq)
      /\ \A j \in a .. M : \E i \in EntryAt(x) : x[i].seq = j
  BY SliceFields
<1>2. /\ b \in 1 .. N /\ L \in 0 .. N
      /\ \A i \in EntryAt(y) : y[i].prev = HashOf(t, p, y[i].seq - 1)
      /\ \A j \in b .. L : \E i \in EntryAt(y) : y[i].seq = j
  BY SliceFields
<1>3. M \in a .. M /\ b \in b .. L /\ M \in k .. N /\ b - 1 = M /\ b \notin a .. M
  BY <1>1, <1>2
<1>4. PICK i \in EntryAt(x) : x[i].seq = M
  BY <1>1, <1>3
<1>5. PICK j \in EntryAt(y) : y[j].seq = b
  BY <1>2, <1>3
<1>6. x[i].hash = HashOf(s, p, M) /\ y[j].prev = HashOf(t, p, M)
  BY <1>1, <1>2, <1>3, <1>4, <1>5
<1>7. x[i].hash # y[j].prev
  BY <1>3, <1>6
<1>8. y[j].seq = x[i].seq + 1 /\ y[j].seq \notin Numbers(x)
  BY <1>1, <1>3, <1>4, <1>5
<1> QED BY <1>7, <1>8 DEF LinksAgree

\* And where both have an entry from k on, it is not the same.
LEMMA MeetsApart ==
    ASSUME NEW s, NEW t, NEW n \in Nat, DOMAIN s = 1 .. n, DOMAIN t = 1 .. n,
           NEW N \in Nat, NEW p, Linked(s, p, N), Linked(t, p, N),
           NEW k \in 1 .. N, \A q \in k .. N : HashOf(t, p, q) # HashOf(s, p, q),
           NEW x, NEW a, NEW M, SliceOf(x, s, p, N, a, M),
           NEW y, NEW b, NEW L, SliceOf(y, t, p, N, b, L),
           NEW v \in k .. N, v \in a .. M, v \in b .. L
    PROVE  ~SameEntries(x, y)
<1>1. /\ \A i \in EntryAt(x) : x[i].hash = HashOf(s, p, x[i].seq)
      /\ \A j \in a .. M : \E i \in EntryAt(x) : x[i].seq = j
  BY SliceFields
<1>2. /\ \A i \in EntryAt(y) : y[i].hash = HashOf(t, p, y[i].seq)
      /\ \A j \in b .. L : \E i \in EntryAt(y) : y[i].seq = j
  BY SliceFields
<1>3. PICK i \in EntryAt(x) : x[i].seq = v
  BY <1>1
<1>4. PICK j \in EntryAt(y) : y[j].seq = v
  BY <1>2
<1>5. x[i].hash # y[j].hash
  BY <1>1, <1>2, <1>3, <1>4
<1>6. x[i] # y[j] /\ x[i].seq = y[j].seq
  BY <1>3, <1>4, <1>5
<1> QED BY <1>6 DEF SameEntries

\* The log chained again by the notary is sealed like the log.
LEMMA RedoneSealed ==
    ASSUME NEW s, NEW t, NEW N \in Nat, NEW p, NEW k \in 1 .. N, Redone(t, s, p, N, k, Notary)
    PROVE  Linked(t, p, N) /\ Sealed(t, p, N)
<1>1. ASSUME NEW i \in SealAt(t)
      PROVE  \E q \in 0 .. N : Reached(p, 1, N, q, i) /\ t[i] = Checkpoint(q, HashOf(t, p, q), Notary)
  <2>1. PICK q \in 0 .. N : /\ Reached(p, 1, N, q, i) /\ s[i] = Checkpoint(q, HashOf(s, p, q), Notary)
                            /\ t[i] = IF q < k \/ Notary = "kept" THEN s[i]
                                      ELSE Checkpoint(q, HashOf(t, p, q), Notary)
    BY DEF Redone
  <2>2. Notary # "kept"
    BY DEF Notary
  <2>3. q < k => HashOf(t, p, q) = HashOf(s, p, q)
    BY DEF Redone
  <2> QED BY <2>1, <2>2, <2>3
<1> QED BY <1>1 DEF Redone, Sealed

LEMMA SlicesAre ==
    ASSUME NEW S, NEW s \in Seq(S), NEW n \in Nat, DOMAIN s = 1 .. n, Len(s) = n,
           NEW N \in Nat, NEW p, Linked(s, p, N), Sealed(s, p, N), NEW x \in Slices(s)
    PROVE  \E a, M : SliceOf(x, s, p, N, a, M)
<1>1. PICK m \in DOMAIN s, a \in Numbers(s) : x = Export(SubSeq(s, 1, m), a)
  BY DEF Slices
<1>2. Chain(s, p, 1, N)
  BY DEF Linked
<1>3. a \in 1 .. N
  <2>1. PICK i \in EntryAt(s) : a = s[i].seq
    BY DEF Numbers, Seqs
  <2>2. PICK j \in 1 .. N : i = p[j]
    BY <1>2 DEF Chain
  <2> QED BY <1>2, <2>1, <2>2, ChainAt
<1>4. m \in 1 .. n
  OBVIOUS
<1> QED BY <1>1, <1>2, <1>3, <1>4, PrefixSliced

\* compare: the slices of a party that reads one log never look like a fork,
\* whenever they were taken; of a notary that signs two branches, two slices
\* that both reach past the fork and meet or touch always do.
THEOREM ForkAlways == Spec => []ForkSeen
<1>1. NotaryInv => ForkSeen
  <2> SUFFICES ASSUME NotaryInv, Intact PROVE ForkSeen
    BY DEF ForkSeen
  <2>1. PICK N, p : Good(log, p, N)
    BY DEF NotaryInv, LogInv, Fine, Intact
  <2>2. /\ N \in Nat /\ Whole(log, p, N) /\ Sealed(log, p, N) /\ \E S : log \in Seq(S)
        /\ \A i \in DOMAIN log : log[i].type \in {"entry", "checkpoint"}
    BY <2>1 DEF Good, Log, Lines, Unbroken
  <2> DEFINE n == Len(log)
  <2>3. n \in Nat /\ DOMAIN log = 1 .. n /\ Len(log) = n
    <3>1. PICK S : log \in Seq(S)
      BY <2>2
    <3> QED BY <3>1
  <2>4. Linked(log, p, N)
    BY <2>2 DEF Whole, Linked
  <2> HIDE DEF n
  <2>5. \A x \in Slices(log) : \E a, M : SliceOf(x, log, p, N, a, M)
    <3> TAKE x \in Slices(log)
    <3>1. PICK S : log \in Seq(S)
      BY <2>2
    <3>2. x \in Slices(log)
      OBVIOUS
    <3> QED BY ONLY <2>2, <2>3, <2>4, <3>1, <3>2, SlicesAre
  <2>6. ASSUME NEW x \in Slices(log), NEW y \in Slices(log) PROVE ~Forked(x, y)
    <3>1. PICK a, M : SliceOf(x, log, p, N, a, M)
      BY <2>5
    <3>2. PICK b, L : SliceOf(y, log, p, N, b, L)
      BY <2>5
    <3>3. SameEntries(x, y) /\ SameHeads(x, y) /\ SealsAgree(x, y) /\ LinksAgree(x, y)
      BY ONLY <2>2, <2>3, <2>4, <3>1, <3>2, OneLog
    <3>4. SealsAgree(y, x) /\ LinksAgree(y, x)
      BY ONLY <2>2, <2>3, <2>4, <3>1, <3>2, OneLog
    <3> QED BY <3>3, <3>4 DEF Forked
  <2>7. ASSUME NEW k \in Recorded, NEW u, u = Rechained(log, k, Notary),
               NEW x \in Slices(log), NEW y \in Slices(u),
               Reaches(x, k), Reaches(y, k), Touching(x, y)
        PROVE  Forked(x, y)
    <3>1. k \in 1 .. N
      BY ONLY <2>2, <2>3, k \in Recorded, Started DEF Recorded
    <3>2. DOMAIN u = 1 .. n /\ Redone(u, log, p, N, k, Notary)
      <4>1. Again(u, log, k, Notary)
        BY ONLY <2>3, <2>7, Chained
      <4> QED BY ONLY <2>2, <2>3, <3>1, <4>1, AgainRedone
    <3>3. Linked(u, p, N) /\ Sealed(u, p, N)
      BY ONLY <2>2, <3>1, <3>2, RedoneSealed
    <3>4. \A q \in k .. N : HashOf(u, p, q) # HashOf(log, p, q)
      BY <3>2 DEF Redone
    <3>5. \E S : u \in Seq(S)
      <4>1. u = [i \in 1 .. n |-> u[i]]
        BY <2>3, <2>7, <3>2 DEF Rechained
      <4>2. u \in [1 .. n -> {u[i] : i \in 1 .. n}]
        BY <4>1
      <4> QED BY <2>3, <4>2, SeqDef
    <3>6. Len(u) = n
      BY <2>3, <3>2, <3>5
    <3>7. PICK a, M : SliceOf(x, log, p, N, a, M)
      BY <2>5
    <3>8. PICK b, L : SliceOf(y, u, p, N, b, L)
      <4>1. PICK S : u \in Seq(S)
        BY <3>5
      <4>2. y \in Slices(u)
        OBVIOUS
      <4> QED BY ONLY <2>2, <2>3, <3>2, <3>3, <3>6, <4>1, <4>2, SlicesAre
    <3>9. a \in 1 .. N /\ M \in 0 .. N /\ Numbers(x) = a .. M
      BY ONLY <2>2, <2>3, <2>4, <3>7, SliceFields
    <3>10. b \in 1 .. N /\ L \in 0 .. N /\ Numbers(y) = b .. L
      BY ONLY <2>2, <2>3, <3>2, <3>3, <3>8, SliceFields
    <3>11. k <= M /\ a <= M /\ k <= L /\ b <= L
      BY <2>7, <3>1, <3>9, <3>10 DEF Reaches
    <3>12. a <= L + 1 /\ b <= M + 1
      BY <2>7, <3>9, <3>10 DEF Touching
    <3>13. CASE b = M + 1
      <4>1. ~LinksAgree(x, y)
        BY ONLY <2>2, <2>3, <2>4, <3>1, <3>2, <3>3, <3>4, <3>7, <3>8, <3>11, <3>13, EndsApart
      <4> QED BY <4>1 DEF Forked
    <3>14. CASE a = L + 1
      <4>1. \A q \in k .. N : HashOf(log, p, q) # HashOf(u, p, q)
        BY <3>4
      <4>2. ~LinksAgree(y, x)
        BY ONLY <2>2, <2>3, <2>4, <3>1, <3>2, <3>3, <4>1, <3>7, <3>8, <3>11, <3>14, EndsApart
      <4> QED BY <4>2 DEF Forked
    <3>15. CASE b <= M /\ a <= L
      <4>1. \E v \in k .. N : v \in a .. M /\ v \in b .. L
        <5>1. CASE M <= L
          <6>1. M \in k .. N /\ M \in a .. M /\ M \in b .. L
            BY <3>1, <3>9, <3>10, <3>11, <3>15, <5>1
          <6> QED BY <6>1
        <5>2. CASE L <= M
          <6>1. L \in k .. N /\ L \in a .. M /\ L \in b .. L
            BY <3>1, <3>9, <3>10, <3>11, <3>15, <5>2
          <6> QED BY <6>1
        <5> QED BY <3>9, <3>10, <5>1, <5>2
      <4>2. PICK v \in k .. N : v \in a .. M /\ v \in b .. L
        BY <4>1
      <4>3. ~SameEntries(x, y)
        BY ONLY <2>2, <2>3, <2>4, <3>1, <3>2, <3>3, <3>4, <3>7, <3>8, <4>2, MeetsApart
      <4> QED BY <4>3 DEF Forked
    <3> QED BY <3>9, <3>10, <3>12, <3>13, <3>14, <3>15
  <2> QED BY <2>6, <2>7 DEF ForkSeen
<1> QED BY <1>1, NotaryAlways, PTL
=============================================================================
