---------------------------- MODULE Exchange_proofs ----------------------------
(***************************************************************************)
(* At-least-once delivery to a remote identity: for any numbers of rounds, *)
(* rows and replies per round, with kills of the endpoint and the client,  *)
(* lost answers, failing calls and overlapping endpoints at any point, the *)
(* cursor stays behind what the client has stored or its own bus has       *)
(* refused.  And what the notary's log of these rounds says: the comparisons with the audit rows and with  *)
(* the receipts accuse no honest bus, and the receipts tell when the log   *)
(* lacks an entry.                                                         *)
(***************************************************************************)
EXTENDS Exchange, FiniteSetTheorems, WellFoundedInduction, TLAPS

Outcomes == {"unknown", "not-sent", "reached", "delivered"}

Receipt == [sent : SUBSET {Item}, ack : Ids0, received : SUBSET Ids, outcome : Outcomes]

IsASeq(s) == \E S : s \in Seq(S)

Typed ==
    /\ rows \in Ids0
    /\ bus \in [cursor : Ids0, level : Ids0, read : SUBSET Ids]
    /\ IsASeq(log)
    /\ ends \in [1 .. MaxRounds -> End]
    /\ rs \in Seq(Receipt) /\ Len(rs) <= MaxRounds
    /\ cl \in [pc : {"idle", "sent", "storing"}, top : Ids0, left : SUBSET Ids]
    /\ savedMax \in Ids0
    /\ stored \in [Ids -> 0 .. 2]

\* Neither the cursor nor an ack under way is ahead of stored_max.
Behind == bus.cursor <= savedMax /\ \A r \in DOMAIN rs : rs[r].ack <= savedMax

\* A page starts where the cursor was: what it leaves out below is saved.
Gapless(ids, upto) == \A i \in ids, j \in Ids : j < i => j \in ids \/ j <= upto

Pages == \A e \in DOMAIN ends : /\ ends[e].pc # "off" => e \in DOMAIN rs
                               /\ Gapless(ends[e].ids, savedMax)

Passed(n) == \A i \in Ids : i <= n => stored[i] > 0 \/ i \in Refusable

\* The storing loop has passed every row below its top.
Storing ==
    /\ Passed(savedMax)
    /\ cl.pc # "idle" => savedMax <= cl.top /\ Passed(cl.top)
    /\ cl.pc = "sent" => cl.top = savedMax /\ Len(rs) \in DOMAIN rs
    /\ cl.pc = "storing" => Gapless(cl.left, cl.top)

\* What is above the rows it has passed is not stored yet.
Reached == IF cl.pc = "idle" THEN savedMax ELSE cl.top

Once == \/ "storeCut" \in odd
        \/ \A i \in Ids : stored[i] <= 1 /\ (i > Reached => stored[i] = 0)

ExInv == Typed /\ Behind /\ Pages /\ Storing /\ Once

-----------------------------------------------------------------------------
(* Operators *)

\* A set of naturals that is not empty has a least element.
LEMMA MinTyped ==
  ASSUME NEW S \in SUBSET Nat, S # {}
  PROVE  Min(S) \in S /\ \A y \in S : Min(S) <= y
<1>1. \E x \in S : \A y \in S : ~(<<y, x>> \in OpToRel(<, Nat))
  BY WFMin, NatLessThanWellFounded
<1>2. \A x, y \in Nat : <<y, x>> \in OpToRel(<, Nat) <=> y < x
  BY DEF OpToRel
<1>3. PICK x \in S : \A y \in S : ~(<<y, x>> \in OpToRel(<, Nat))
  BY <1>1
<1>4. \A y \in S : ~(y < x)
  BY <1>2, <1>3, Zenon
<1>5. \A y \in S : x <= y
  BY <1>4
<1> QED
  BY <1>5 DEF Min

LEMMA PairTyped ==
  ASSUME NEW a \in Int, NEW b \in Int
  PROVE  /\ Max({a, b}) = IF a >= b THEN a ELSE b
         /\ Min({a, b}) = IF a <= b THEN a ELSE b
<1>1. \E x \in {a, b} : \A y \in {a, b} : x >= y
  OBVIOUS
<1>2. \E x \in {a, b} : \A y \in {a, b} : x <= y
  OBVIOUS
<1>3. Max({a, b}) \in {a, b} /\ \A y \in {a, b} : Max({a, b}) >= y
  BY <1>1 DEF Max
<1>4. Min({a, b}) \in {a, b} /\ \A y \in {a, b} : Min({a, b}) <= y
  BY <1>2 DEF Min
<1>5. Max({a, b}) = IF a >= b THEN a ELSE b
  BY <1>3
<1> QED
  BY <1>4, <1>5

LEMMA IdsTyped == Ids \subseteq Ids0 /\ Ids0 \subseteq Nat /\ 0 \in Ids0
  BY ExchangeAssumption DEF Ids, Ids0

LEMMA CountTyped ==
  ASSUME NEW S \in SUBSET Ids
  PROVE  Cardinality(S) \in Ids0
<1>1. IsFiniteSet(Ids) /\ Cardinality(Ids) = MaxRows
  <2>1. Cardinality(1 .. MaxRows) = IF 1 > MaxRows THEN 0 ELSE MaxRows - 1 + 1
    BY FS_Interval, ExchangeAssumption
  <2> QED
    BY <2>1, FS_Interval, ExchangeAssumption DEF Ids
<1>2. IsFiniteSet(S) /\ Cardinality(S) <= Cardinality(Ids)
  BY <1>1, FS_Subset
<1> QED
  BY <1>1, <1>2, FS_CardinalityType DEF Ids0

LEMMA AppendSeq ==
  ASSUME NEW s, IsASeq(s), NEW x
  PROVE  IsASeq(Append(s, x)) /\ Len(s) \in Nat
<1>1. PICK S : s \in Seq(S)
  BY DEF IsASeq
<1>2. s \in Seq(S \cup {x})
  BY <1>1
<1>3. Append(s, x) \in Seq(S \cup {x})
  BY <1>2
<1> QED
  BY <1>1, <1>3 DEF IsASeq

\* An ack moves the cursor forward, and not beyond what was acknowledged.
LEMMA TargetTyped ==
  ASSUME Typed, NEW upto \in Ids0
  PROVE  Target(upto) \in Ids0 /\ (Target(upto) <= bus.cursor \/ Target(upto) <= upto)
<1>1. bus.cursor \in Ids0 /\ bus.level \in Ids0 /\ rows \in Ids0
  BY DEF Typed
<1> DEFINE limit == IF Strict THEN bus.level ELSE rows
<1>0. Ids0 \subseteq Int
  BY IdsTyped
<1>2. limit \in Ids0 /\ upto \in Int /\ limit \in Int
  <2>1. limit \in Ids0
    BY <1>1
  <2> QED
    BY <1>0, <2>1
<1> DEFINE m == Min({upto, limit})
<1>3. m = IF upto <= limit THEN upto ELSE limit
  <2> HIDE DEF limit
  <2> QED
    BY <1>2, PairTyped
<1>4. Target(upto) = Max({bus.cursor, m})
  BY DEF Target
<1> HIDE DEF limit, m
<1>5. m \in Ids0 /\ m <= upto
  BY <1>2, <1>3
<1>6. bus.cursor \in Int /\ m \in Int
  BY <1>0, <1>1, <1>5
<1>7. Target(upto) = IF bus.cursor >= m THEN bus.cursor ELSE m
  BY <1>4, <1>6, PairTyped
<1>8. Target(upto) = bus.cursor \/ Target(upto) = m
  BY <1>7
<1>9. CASE Target(upto) = bus.cursor
  BY <1>1, <1>6, <1>9
<1>10. CASE Target(upto) = m
  BY <1>5, <1>10
<1> QED
  BY <1>8, <1>9, <1>10

LEMMA LevelTyped ==
  ASSUME Typed, NEW read
  PROVE  LevelOf(read) \in Ids0
<1> DEFINE waits == Ahead \ read
<1>1. waits \subseteq Ids
  BY DEF Ahead
<1>2. CASE waits = {}
  BY <1>2 DEF LevelOf, Typed
<1>3. CASE waits # {}
  <2>1. Min(waits) \in Ids
    BY <1>1, <1>3, MinTyped DEF Ids
  <2>2. LevelOf(read) = Min(waits) - 1
    BY <1>3 DEF LevelOf
  <2> QED
    BY <2>1, <2>2, ExchangeAssumption DEF Ids, Ids0
<1> QED
  BY <1>2, <1>3

-----------------------------------------------------------------------------
(* The endpoint *)

\* An endpoint that is on its way serves a round that has a receipt.
LEMMA EndTyped ==
  ASSUME ExInv, NEW e \in DOMAIN ends
  PROVE  ends[e] \in End /\ e \in 1 .. MaxRounds
  BY DEF ExInv, Typed

\* A step of one endpoint that moves the cursor no further than stored_max.
LEMMA EndpointStep ==
  ASSUME ExInv, NEW e \in DOMAIN ends, ends[e].pc # "off", NEW l \in End, To(e, l),
         Gapless(l.ids, savedMax), IsASeq(log'),
         bus' \in [cursor : Ids0, level : Ids0, read : SUBSET Ids], bus'.cursor <= savedMax,
         odd \subseteq odd', UNCHANGED <<rows, clientVars>>
  PROVE  ExInv'
<1>1. /\ ends' \in [1 .. MaxRounds -> End] /\ DOMAIN ends' = DOMAIN ends
      /\ ends'[e] = l /\ \A d \in DOMAIN ends \ {e} : ends'[d] = ends[d]
  BY DEF ExInv, Typed, To
<1>2. UNCHANGED <<rs, cl, savedMax, stored>>
  BY DEF clientVars
<1>3. Typed'
  BY <1>1, <1>2 DEF ExInv, Typed
<1>4. Behind'
  BY <1>2 DEF ExInv, Behind
<1>5. Pages'
  BY <1>1, <1>2 DEF ExInv, Pages, Gapless
<1>6. Storing'
  BY <1>2 DEF ExInv, Storing, Passed, Gapless
<1>7. Once'
  BY <1>2 DEF ExInv, Once, Reached
<1> QED
  BY <1>3, <1>4, <1>5, <1>6, <1>7 DEF ExInv

\* A log entry, or the end of the round.
LEMMA NoteStep ==
  ASSUME ExInv, NEW e \in DOMAIN ends, ends[e].pc # "off", NEW l \in End, NEW entry, NEW how,
         Note(e, entry, l, how), l.ids = ends[e].ids,
         UNCHANGED <<rows, bus, audit, clientVars>>
  PROVE  ExInv'
<1>1. /\ bus' \in [cursor : Ids0, level : Ids0, read : SUBSET Ids] /\ bus'.cursor <= savedMax
      /\ IsASeq(log) /\ ends[e] \in End /\ Gapless(ends[e].ids, savedMax)
  BY EndTyped DEF ExInv, Typed, Behind, Pages
<1>2. CASE log' = Append(log, entry) /\ To(e, l) /\ odd' = odd \cup how
  BY <1>1, <1>2, AppendSeq, EndpointStep
<1>3. CASE /\ odd' = odd \cup {"noteFailed"} /\ UNCHANGED log
           /\ To(e, [At(e, "answer") EXCEPT !.err = TRUE, !.ids = {}])
  <2> DEFINE a == [At(e, "answer") EXCEPT !.err = TRUE, !.ids = {}]
  <2>1. a \in End /\ a.ids = {}
    BY <1>1 DEF At, End, EndPcs
  <2>2. Gapless(a.ids, savedMax)
    BY <2>1 DEF Gapless
  <2> QED
    BY <1>1, <1>3, <2>1, <2>2, EndpointStep
<1> QED
  BY <1>2, <1>3 DEF Note

\* An endpoint that only goes on.
LEMMA AtTyped ==
  ASSUME ExInv, NEW e \in DOMAIN ends, NEW pc \in EndPcs
  PROVE  At(e, pc) \in End /\ At(e, pc).ids = ends[e].ids /\ At(e, pc).pc = pc
         /\ Gapless(ends[e].ids, savedMax)
  BY EndTyped DEF At, End, ExInv, Pages

LEMMA BusTyped ==
  ASSUME ExInv
  PROVE  /\ bus \in [cursor : Ids0, level : Ids0, read : SUBSET Ids]
         /\ bus.cursor \in Int /\ savedMax \in Int /\ rows \in Int /\ bus.cursor <= savedMax
         /\ Ids0 \subseteq Int /\ Ids \subseteq Int /\ IsASeq(log)
<1>1. Ids0 \subseteq Int /\ Ids \subseteq Int
  BY DEF Ids0, Ids
<1>2. /\ bus \in [cursor : Ids0, level : Ids0, read : SUBSET Ids] /\ savedMax \in Ids0
      /\ rows \in Ids0 /\ bus.cursor <= savedMax /\ IsASeq(log)
  BY DEF ExInv, Typed, Behind
<1>3. bus.cursor \in Ids0
  BY <1>2
<1> QED
  BY <1>1, <1>2, <1>3

LEMMA RequestTyped ==
  ASSUME ExInv, NEW e \in DOMAIN ends, ends[e].pc # "off"
  PROVE  e \in DOMAIN rs /\ rs[e].ack \in Ids0 /\ rs[e].ack <= savedMax
<1>1. e \in DOMAIN rs
  BY DEF ExInv, Pages
<1>2. rs[e] \in Receipt
  BY <1>1 DEF ExInv, Typed
<1> QED
  BY <1>1, <1>2 DEF ExInv, Behind, Receipt

LEMMA GoStep ==
  ASSUME ExInv, NEW e \in DOMAIN ends, ends[e].pc # "off", NEW pc \in EndPcs, To(e, At(e, pc)),
         odd \subseteq odd', UNCHANGED <<rows, bus, log, clientVars>>
  PROVE  ExInv'
<1>1. At(e, pc) \in End /\ Gapless(At(e, pc).ids, savedMax)
  BY AtTyped
<1>2. /\ bus' \in [cursor : Ids0, level : Ids0, read : SUBSET Ids] /\ bus'.cursor <= savedMax
      /\ IsASeq(log')
  BY BusTyped
<1> QED
  BY <1>1, <1>2, EndpointStep

LEMMA NoteGoStep ==
  ASSUME ExInv, NEW e \in DOMAIN ends, ends[e].pc # "off", NEW pc \in EndPcs, NEW entry, NEW how,
         Note(e, entry, At(e, pc), how), UNCHANGED <<rows, bus, audit, clientVars>>
  PROVE  ExInv'
<1>1. At(e, pc) \in End /\ At(e, pc).ids = ends[e].ids
  BY AtTyped
<1> QED
  BY <1>1, NoteStep

LEMMA NextPcs ==
  ASSUME NEW r
  PROVE  ToItems(r) \in EndPcs /\ ToAck(r) \in EndPcs /\ ToAck(r) # "off"
  BY DEF ToItems, ToAck, EndPcs

LEMMA AckSafe ==
  ASSUME ExInv, NEW e \in DOMAIN ends, AckNote(e) \/ AckDo(e) \/ AckFailNote(e)
  PROVE  ExInv'
<1>1. ends[e].pc # "off"
  BY DEF AckNote, AckDo, AckFailNote
<1>2. CASE AckNote(e)
  <2>1. PICK entry, how : /\ Note(e, entry, At(e, "acking"), how)
                          /\ UNCHANGED <<rows, bus, audit, clientVars>>
    BY <1>2, Zenon DEF AckNote
  <2> QED
    BY <1>1, <2>1, NoteGoStep DEF EndPcs
<1>3. CASE AckDo(e)
  <2> DEFINE to == Target(rs[e].ack)
             pc == ToItems(rs[e])
  <2>1. UNCHANGED <<rows, log, clientVars>> /\ pc \in EndPcs
    BY <1>3, NextPcs DEF AckDo
  <2>2. CASE /\ bus' = [bus EXCEPT !.cursor = to, !.read = @ \cup 1 .. to]
             /\ To(e, At(e, pc)) /\ UNCHANGED odd
    <3>1. to \in Ids0 /\ (to <= bus.cursor \/ to <= rs[e].ack) /\ rs[e].ack \in Ids0
          /\ rs[e].ack <= savedMax
      BY <1>1, RequestTyped, TargetTyped DEF ExInv
    <3> HIDE DEF to, pc
    <3>2. to <= savedMax
      BY <3>1, BusTyped
    <3>3. 1 .. to \subseteq Ids
      BY <3>1, ExchangeAssumption DEF Ids, Ids0
    <3>4. bus' \in [cursor : Ids0, level : Ids0, read : SUBSET Ids] /\ bus'.cursor = to
      BY <2>2, <3>1, <3>3, BusTyped
    <3>5. At(e, pc) \in End /\ Gapless(At(e, pc).ids, savedMax)
      BY <2>1, AtTyped
    <3> QED
      BY <1>1, <2>1, <2>2, <3>2, <3>4, <3>5, BusTyped, EndpointStep
  <2>3. CASE To(e, At(e, "ackfailed")) /\ odd' = odd \cup {"ackFailed"} /\ UNCHANGED bus
    BY <1>1, <2>1, <2>3, GoStep DEF EndPcs
  <2> QED
    BY <1>3, <2>2, <2>3 DEF AckDo
<1>4. CASE AckFailNote(e)
  <2> DEFINE pc == ToItems(rs[e])
  <2>1. pc \in EndPcs /\ Note(e, AckFailed, At(e, pc), {})
        /\ UNCHANGED <<rows, bus, audit, clientVars>>
    BY <1>4, NextPcs DEF AckFailNote
  <2> HIDE DEF pc
  <2> QED
    BY <1>1, <2>1, NoteGoStep
<1> QED
  BY <1>2, <1>3, <1>4

LEMMA ItemSafe ==
  ASSUME ExInv, NEW e \in DOMAIN ends, ItemNote(e) \/ ItemDo(e) \/ ItemFailNote(e)
  PROVE  ExInv'
<1>0. ends[e].pc # "off"
  BY DEF ItemNote, ItemDo, ItemFailNote
<1>1. CASE ItemNote(e) \/ ItemFailNote(e)
  <2>1. UNCHANGED <<rows, bus, audit, clientVars>>
    BY <1>1 DEF ItemNote, ItemFailNote
  <2>2. \/ Note(e, ItemEntry("rejected", Item, "refused"), At(e, "peek"), {})
        \/ Note(e, ItemEntry("accepted", Item, ""), At(e, "sending"), {})
        \/ Note(e, ItemEntry("rejected", Item, "failed"), At(e, "peek"), {})
    BY <1>1, Zenon DEF ItemNote, ItemFailNote
  <2> QED
    BY <1>0, <2>1, <2>2, NoteGoStep DEF EndPcs
<1>2. CASE ItemDo(e)
  <2>1. PICK pc \in {"peek", "sendfailed"} : To(e, At(e, pc)) /\ odd' = odd \cup ({pc} \ {"peek"})
    BY <1>2 DEF ItemDo
  <2>2. UNCHANGED <<rows, bus, log, clientVars>>
    BY <1>2 DEF ItemDo
  <2> QED
    BY <1>0, <2>1, <2>2, GoStep DEF EndPcs
<1> QED
  BY <1>1, <1>2

\* The page is everything from the cursor up to its last row.
LEMMA PeekSafe ==
  ASSUME ExInv, NEW e \in DOMAIN ends, Peek(e)
  PROVE  ExInv'
<1> DEFINE page == Page
           l == [At(e, "measure") EXCEPT !.ids = page, !.left = page]
<1>1. ends[e].pc # "off" /\ To(e, l) /\ UNCHANGED <<rows, bus, audit, log, clientVars, odd>>
  BY DEF Peek
<1>2. page \subseteq Ids
  BY DEF Page, Ahead
<1>3. At(e, "measure") \in End
  BY AtTyped DEF EndPcs
<1>4. l \in End /\ l.ids = page
  BY <1>2, <1>3 DEF End
<1>5. Gapless(page, savedMax)
  <2> SUFFICES ASSUME NEW i \in page, NEW j \in Ids, j < i, ~(j <= savedMax)
               PROVE  j \in page
    BY DEF Gapless
  <2>1. /\ i \in Int /\ j \in Int /\ MaxReplies \in Int
        /\ i <= rows /\ i <= bus.cursor + MaxReplies
    BY <1>2, BusTyped, ExchangeAssumption DEF Page, Ahead
  <2>2. bus.cursor < j /\ j <= rows /\ j <= bus.cursor + MaxReplies
    BY <2>1, BusTyped
  <2> QED
    BY <2>2 DEF Page, Ahead
<1>6. /\ bus' \in [cursor : Ids0, level : Ids0, read : SUBSET Ids] /\ bus'.cursor <= savedMax
      /\ IsASeq(log')
  BY <1>1 DEF ExInv, Typed, Behind
<1> HIDE DEF l, page
<1> QED
  BY <1>1, <1>4, <1>5, <1>6, EndpointStep

LEMMA MeasureSafe ==
  ASSUME ExInv, NEW e \in DOMAIN ends, Measure(e)
  PROVE  ExInv'
<1> DEFINE rest == Ahead \ ends[e].ids
           next == IF rest = {} THEN 0 ELSE Min(rest)
           l1 == [At(e, "round") EXCEPT !.pending = Cardinality(Ahead), !.next = next]
           l2 == [At(e, "round") EXCEPT !.pending = Cardinality(ends[e].ids), !.known = FALSE]
<1>1. /\ ends[e].pc # "off"
      /\ To(e, l1) \/ To(e, l2)
      /\ UNCHANGED <<rows, bus, audit, log, clientVars>>
      /\ odd' \in {odd, odd \cup {"grew"}}
  BY DEF Measure
<1>2. rest \subseteq Ids /\ Ahead \subseteq Ids /\ ends[e].ids \subseteq Ids
  BY EndTyped DEF Ahead, End
<1>3. next \in Ids0
  <2>1. CASE rest = {}
    BY <2>1, IdsTyped
  <2>2. CASE rest # {}
    <3>1. Min(rest) \in rest
      BY <1>2, <2>2, MinTyped DEF Ids
    <3> QED
      BY <1>2, <2>2, <3>1, IdsTyped
  <2> QED
    BY <2>1, <2>2
<1>4. Cardinality(Ahead) \in Ids0 /\ Cardinality(ends[e].ids) \in Ids0
  BY <1>2, CountTyped
<1>5. At(e, "round") \in End /\ At(e, "round").ids = ends[e].ids /\ Gapless(ends[e].ids, savedMax)
  BY AtTyped DEF EndPcs
<1> HIDE DEF next
<1>6. /\ l1 \in End /\ l1.ids = ends[e].ids
      /\ l2 \in End /\ l2.ids = ends[e].ids
  BY <1>4, <1>3, <1>5 DEF End
<1>7. /\ bus' \in [cursor : Ids0, level : Ids0, read : SUBSET Ids] /\ bus'.cursor <= savedMax
      /\ IsASeq(log')
  BY <1>1 DEF ExInv, Typed, Behind
<1> HIDE DEF l1, l2
<1>8. ASSUME NEW l \in {l1, l2}, To(e, l)
      PROVE  ExInv'
  <2>1. l \in End /\ Gapless(l.ids, savedMax)
    BY <1>5, <1>6
  <2>2. odd \subseteq odd' /\ UNCHANGED <<rows, clientVars>>
    BY <1>1
  <2> QED
    BY <1>1, <1>7, <1>8, <2>1, <2>2, EndpointStep
<1> QED
  BY <1>1, <1>8

LEMMA RoundSafe ==
  ASSUME ExInv, NEW e \in DOMAIN ends, RoundNote(e)
  PROVE  ExInv'
<1>1. ends[e].pc # "off" /\ UNCHANGED <<rows, bus, audit, clientVars>> /\ ends[e] \in End
  BY EndTyped DEF RoundNote
<1>2. ASSUME NEW entry, NEW l,
             l = [ends[e] EXCEPT !.pc = IF ends[e].ids = {} THEN "closing" ELSE "giving",
                                 !.round = Len(log) + 1],
             Note(e, entry, l, {})
      PROVE  ExInv'
  <2>1. Len(log) + 1 \in Nat
    BY AppendSeq DEF ExInv, Typed
  <2>2. l \in End /\ l.ids = ends[e].ids
    BY <1>1, <1>2, <2>1 DEF End, EndPcs
  <2> QED
    BY <1>1, <1>2, <2>2, NoteStep
<1>3. CASE To(e, At(e, "answer")) /\ UNCHANGED <<log, odd>>
  BY <1>1, <1>3, GoStep DEF EndPcs
<1> QED
  BY <1>2, <1>3 DEF RoundNote

LEMMA GivenSafe ==
  ASSUME ExInv, NEW e \in DOMAIN ends, GivenNote(e)
  PROVE  ExInv'
<1> DEFINE l == [ends[e] EXCEPT !.left = @ \ {Min(@)},
                                !.pc = IF ends[e].left = {Min(ends[e].left)} THEN "marking" ELSE @]
<1>1. /\ ends[e].pc # "off" /\ UNCHANGED <<rows, bus, audit, clientVars>> /\ ends[e] \in End
      /\ Note(e, GivenEntry(Min(ends[e].left)), l, {})
  BY EndTyped DEF GivenNote
<1>2. l \in End /\ l.ids = ends[e].ids
  BY <1>1 DEF End, EndPcs
<1> HIDE DEF l
<1> QED
  BY <1>1, <1>2, NoteStep

LEMMA MarkSafe ==
  ASSUME ExInv, NEW e \in DOMAIN ends, MarkDo(e) \/ MarkFailNote(e) \/ CloseNote(e) \/ Kill(e)
  PROVE  ExInv'
<1>0. ends[e].pc # "off" /\ UNCHANGED <<rows, clientVars>>
  BY DEF MarkDo, MarkFailNote, CloseNote, Kill, Busy
<1>1. CASE MarkDo(e)
  <2>1. log' = log
    BY <1>1 DEF MarkDo
  <2>2. CASE /\ bus' = [bus EXCEPT !.read = @ \cup ends[e].ids,
                                   !.level = LevelOf(bus.read \cup ends[e].ids)]
             /\ To(e, At(e, "closing")) /\ UNCHANGED odd
    <3>1. LevelOf(bus.read \cup ends[e].ids) \in Ids0 /\ ends[e].ids \subseteq Ids
      BY LevelTyped, EndTyped DEF ExInv, End
    <3>2. /\ bus' \in [cursor : Ids0, level : Ids0, read : SUBSET Ids]
          /\ bus'.cursor = bus.cursor
      BY <2>2, <3>1 DEF ExInv, Typed
    <3>3. At(e, "closing") \in End /\ Gapless(At(e, "closing").ids, savedMax)
      BY AtTyped DEF EndPcs
    <3> QED
      BY <1>0, <2>1, <2>2, <3>2, <3>3, BusTyped, EndpointStep
  <2>3. CASE To(e, At(e, "markfailed")) /\ odd' = odd \cup {"markFailed"} /\ UNCHANGED bus
    BY <1>0, <2>1, <2>3, GoStep DEF EndPcs
  <2> QED
    BY <1>1, <2>2, <2>3 DEF MarkDo
<1>2. CASE MarkFailNote(e)
  <2>1. Note(e, MarkFailed, At(e, "closing"), {}) /\ UNCHANGED <<rows, bus, audit, clientVars>>
    BY <1>2 DEF MarkFailNote
  <2> QED
    BY <1>0, <2>1, NoteGoStep DEF EndPcs
<1>3. CASE CloseNote(e)
  <2>1. IsASeq(log')
    <3>1. CASE \E x : log' = Append(log, x)
      BY <3>1, AppendSeq, BusTyped
    <3>2. CASE UNCHANGED log
      BY <3>2, BusTyped DEF IsASeq
    <3> QED
      BY <1>3, <3>1, <3>2, Zenon DEF CloseNote
  <2>2. To(e, At(e, "answer")) /\ UNCHANGED <<bus, odd>>
    BY <1>3 DEF CloseNote
  <2>3. At(e, "answer") \in End /\ Gapless(At(e, "answer").ids, savedMax)
    BY AtTyped DEF EndPcs
  <2> QED
    BY <1>0, <2>1, <2>2, <2>3, BusTyped, EndpointStep
<1>4. CASE Kill(e)
  <2>1. To(e, At(e, "dead")) /\ UNCHANGED <<bus, log>> /\ odd \subseteq odd'
    BY <1>4 DEF Kill
  <2> QED
    BY <1>0, <2>1, GoStep DEF EndPcs
<1> QED
  BY <1>1, <1>2, <1>3, <1>4

-----------------------------------------------------------------------------
(* The client *)

\* Only stored_max bounds the acks, and it only grows.
LEMMA RequestSafe ==
  ASSUME ExInv, NEW items \in SUBSET {Item}, Request(items)
  PROVE  ExInv'
<1>1. /\ cl.pc = "idle" /\ Len(rs) < MaxRounds /\ Len(rs) \in Nat /\ DOMAIN rs = 1 .. Len(rs)
      /\ UNCHANGED <<rows, bus, log, savedMax, stored>> /\ odd \subseteq odd'
  <2>1. Len(rs) \in Nat /\ DOMAIN rs = 1 .. Len(rs)
    BY DEF ExInv, Typed
  <2>2. odd \subseteq odd'
    BY DEF Request
  <2>3. /\ cl.pc = "idle" /\ Len(rs) < MaxRounds
        /\ UNCHANGED <<rows, bus, log, savedMax, stored>>
    BY DEF Request, Round
  <2> QED
    BY <2>1, <2>2, <2>3
<1>2. PICK r \in Receipt : rs' = Append(rs, r) /\ r.ack = savedMax
  <2> DEFINE req(outcome) == [sent |-> items, ack |-> savedMax, received |-> {},
                              outcome |-> outcome]
  <2>1. savedMax \in Ids0
    BY DEF ExInv, Typed
  <2>2. /\ req("unknown") \in Receipt /\ req("unknown").ack = savedMax
        /\ req("not-sent") \in Receipt /\ req("not-sent").ack = savedMax
    BY <2>1 DEF Receipt, Outcomes
  <2>3. rs' = Append(rs, req("unknown")) \/ rs' = Append(rs, req("not-sent"))
    BY DEF Request, AckValue
  <2> HIDE DEF req
  <2> QED
    BY <2>2, <2>3
<1>3. /\ rs' \in Seq(Receipt) /\ Len(rs') = Len(rs) + 1 /\ Len(rs') <= MaxRounds
      /\ DOMAIN rs \subseteq DOMAIN rs' /\ rs'[Len(rs) + 1].ack = savedMax
      /\ \A i \in DOMAIN rs : rs'[i] = rs[i]
      /\ DOMAIN rs' = DOMAIN rs \cup {Len(rs) + 1} /\ Len(rs') \in DOMAIN rs'
  BY <1>1, <1>2, ExchangeAssumption DEF ExInv, Typed
<1>4. Behind'
  BY <1>1, <1>3, BusTyped DEF ExInv, Behind
<1>5. CASE /\ cl' = [pc |-> "sent", top |-> savedMax, left |-> {}]
           /\ \E req : To(Len(rs) + 1, [Off EXCEPT !.pc = ToAck(req)])
  <2>1. PICK req : To(Len(rs) + 1, [Off EXCEPT !.pc = ToAck(req)])
    BY <1>5
  <2> DEFINE l == [Off EXCEPT !.pc = ToAck(req)]
  <2>2. l \in End /\ l.ids = {}
    BY NextPcs, IdsTyped DEF Off, End
  <2>3. Len(rs) + 1 \in 1 .. MaxRounds
    BY <1>1, ExchangeAssumption
  <2> HIDE DEF l
  <2>4. /\ ends' \in [1 .. MaxRounds -> End] /\ DOMAIN ends' = DOMAIN ends
        /\ ends'[Len(rs) + 1] = l
        /\ \A d \in DOMAIN ends \ {Len(rs) + 1} : ends'[d] = ends[d]
    BY <2>1, <2>2, <2>3 DEF To, ExInv, Typed, l
  <2>5. Typed'
    BY <1>1, <1>3, <1>5, <2>4, IdsTyped DEF ExInv, Typed
  <2>6. Pages'
    BY <1>1, <1>3, <2>2, <2>4 DEF ExInv, Pages, Gapless
  <2>7. Storing'
    BY <1>1, <1>3, <1>5, BusTyped DEF ExInv, Storing, Passed
  <2>8. Once'
    BY <1>1, <1>5 DEF ExInv, Once, Reached
  <2> QED
    BY <1>4, <2>5, <2>6, <2>7, <2>8 DEF ExInv
<1>6. CASE UNCHANGED <<cl, ends, odd>>
  <2>1. Typed'
    BY <1>1, <1>3, <1>6 DEF ExInv, Typed
  <2>2. Pages'
    BY <1>1, <1>3, <1>6 DEF ExInv, Pages
  <2>3. Storing' /\ Once'
    BY <1>1, <1>6 DEF ExInv, Storing, Passed, Once, Reached
  <2> QED
    BY <1>4, <2>1, <2>2, <2>3 DEF ExInv
<1> QED
  BY <1>5, <1>6 DEF Request, Round

\* The answer carries a page without gaps above stored_max.
LEMMA ReceiveSafe ==
  ASSUME ExInv, Receive
  PROVE  ExInv'
<1> DEFINE n == Len(rs)
           l == ends[n]
<1>1. /\ cl.pc = "sent" /\ cl.top = savedMax /\ n \in DOMAIN rs
      /\ UNCHANGED <<rows, bus, log, savedMax, stored, odd>>
      /\ rs' = [rs EXCEPT ![n].received = l.ids,
                          ![n].outcome = IF l.err THEN "reached" ELSE "delivered"]
      /\ cl' = [cl EXCEPT !.pc = "storing", !.left = l.ids]
      /\ To(n, At(n, "done"))
  BY DEF Receive, Round, ExInv, Storing
<1>2. n \in DOMAIN ends /\ rs[n] \in Receipt /\ l \in End
  BY <1>1 DEF ExInv, Typed
<1>3. At(n, "done") \in End /\ At(n, "done").ids = l.ids /\ Gapless(l.ids, savedMax)
  BY <1>2, AtTyped DEF EndPcs
<1>4. l.ids \in SUBSET Ids /\ (IF l.err THEN "reached" ELSE "delivered") \in Outcomes
  BY <1>2 DEF End, Outcomes
<1> HIDE DEF l
<1>5. /\ rs' \in Seq(Receipt) /\ Len(rs') = Len(rs) /\ DOMAIN rs' = DOMAIN rs
      /\ \A r \in DOMAIN rs : rs'[r].ack = rs[r].ack
  <2>1. rs'[n] = [sent |-> rs[n].sent, ack |-> rs[n].ack, received |-> l.ids,
                  outcome |-> IF l.err THEN "reached" ELSE "delivered"]
    BY <1>1, <1>2 DEF ExInv, Typed, Receipt
  <2>2. rs'[n] \in Receipt
    BY <1>2, <1>4, <2>1 DEF Receipt
  <2>3. rs' = [rs EXCEPT ![n] = rs'[n]]
    BY <1>1 DEF ExInv, Typed
  <2>4. rs \in Seq(Receipt) /\ n \in DOMAIN rs
    BY <1>1 DEF ExInv, Typed
  <2> DEFINE new == rs'[n]
  <2>5. rs' = [rs EXCEPT ![n] = new] /\ new \in Receipt /\ new.ack = rs[n].ack
    BY <2>1, <2>2, <2>3
  <2> HIDE DEF new, n
  <2>6. rs' \in Seq(Receipt) /\ Len(rs') = Len(rs) /\ DOMAIN rs' = DOMAIN rs
    BY <2>4, <2>5
  <2>7. rs'[n] = new /\ \A r \in DOMAIN rs \ {n} : rs'[r] = rs[r]
    BY <2>4, <2>5
  <2> QED
    BY <2>5, <2>6, <2>7
<1>6. /\ ends' \in [1 .. MaxRounds -> End] /\ DOMAIN ends' = DOMAIN ends
      /\ ends'[n].ids = l.ids /\ \A d \in DOMAIN ends \ {n} : ends'[d] = ends[d]
  BY <1>1, <1>2, <1>3 DEF To, ExInv, Typed
<1>7. cl' \in [pc : {"idle", "sent", "storing"}, top : Ids0, left : SUBSET Ids]
      /\ cl'.pc = "storing" /\ cl'.top = savedMax /\ cl'.left = l.ids
  BY <1>1, <1>4 DEF ExInv, Typed
<1>8. Typed'
  BY <1>1, <1>5, <1>6, <1>7 DEF ExInv, Typed
<1>9. Behind'
  BY <1>1, <1>5 DEF ExInv, Behind
<1>10. Pages'
  BY <1>1, <1>3, <1>5, <1>6 DEF ExInv, Pages
<1>11. Storing'
  BY <1>1, <1>3, <1>7, BusTyped DEF ExInv, Storing, Passed
<1>12. Once'
  BY <1>1, <1>7 DEF ExInv, Once, Reached
<1> QED
  BY <1>8, <1>9, <1>10, <1>11, <1>12 DEF ExInv

\* One reply: it is stored, refused, or was stored before.
LEMMA StoreSafe ==
  ASSUME ExInv, StoreNext
  PROVE  ExInv'
<1> DEFINE rid == Min(cl.left)
<1>1. /\ cl.pc = "storing" /\ cl.left # {} /\ UNCHANGED <<rows, bus, audit, log, ends, rs, savedMax, odd>>
      /\ stored' = IF Fresh(rid) /\ rid \notin Refusable
                   THEN [stored EXCEPT ![rid] = Min({2, @ + 1})] ELSE stored
      /\ cl' = [cl EXCEPT !.left = @ \ {rid}, !.top = Max({@, rid})]
  BY DEF StoreNext, endVars
<1>2. cl.left \subseteq Ids /\ cl.top \in Ids0 /\ cl.top \in Int /\ savedMax \in Int
  BY <1>1, BusTyped DEF ExInv, Typed
<1>3. rid \in cl.left /\ rid \in Ids /\ rid \in Int /\ \A y \in cl.left : rid <= y
  <2>1. cl.left \in SUBSET Nat
    BY <1>2 DEF Ids
  <2> QED
    BY <1>1, <1>2, <2>1, MinTyped, BusTyped
<1>4. Max({cl.top, rid}) = IF cl.top >= rid THEN cl.top ELSE rid
  BY <1>2, <1>3, PairTyped
<1> HIDE DEF rid
<1>5. /\ cl'.pc = "storing" /\ cl'.left = cl.left \ {rid}
      /\ cl'.top = IF cl.top >= rid THEN cl.top ELSE rid
  BY <1>1, <1>4 DEF ExInv, Typed
<1>6. cl' \in [pc : {"idle", "sent", "storing"}, top : Ids0, left : SUBSET Ids]
  BY <1>1, <1>2, <1>3, <1>4, IdsTyped DEF ExInv, Typed
<1>7. stored[rid] \in 0 .. 2
  BY <1>3 DEF ExInv, Typed
<1>8. /\ Min({2, stored[rid] + 1}) \in 1 .. 2 /\ Min({2, stored[rid] + 1}) >= stored[rid]
      /\ stored[rid] = 0 => Min({2, stored[rid] + 1}) = 1
  <2>1. stored[rid] + 1 \in Int /\ stored[rid] \in Int /\ 2 \in Int
    BY <1>7
  <2>2. Min({2, stored[rid] + 1}) = IF 2 <= stored[rid] + 1 THEN 2 ELSE stored[rid] + 1
    BY <2>1, PairTyped
  <2> HIDE DEF Min
  <2> QED
    BY <1>7, <2>2
<1>9. /\ stored' \in [Ids -> 0 .. 2]
      /\ \A i \in Ids \ {rid} : stored'[i] = stored[i]
      /\ stored'[rid] >= stored[rid]
      /\ rid > cl.top => stored'[rid] > 0 \/ rid \in Refusable
      /\ rid <= cl.top => stored'[rid] = stored[rid]
      /\ (rid > cl.top /\ stored[rid] = 0) => stored'[rid] <= 1
  <2> DEFINE m == Min({2, stored[rid] + 1})
  <2>1. stored \in [Ids -> 0 .. 2] /\ stored[rid] \in Int /\ m \in 1 .. 2 /\ m >= stored[rid]
        /\ (stored[rid] = 0 => m = 1)
    BY <1>7, <1>8 DEF ExInv, Typed
  <2>3. stored' = IF rid > cl.top /\ rid \notin Refusable
                  THEN [stored EXCEPT ![rid] = m] ELSE stored
    BY <1>1 DEF Fresh
  <2> HIDE DEF m
  <2>2. m \in 0 .. 2 /\ m >= stored[rid] /\ m > 0
    BY <1>7, <2>1
  <2>4. CASE rid > cl.top /\ rid \notin Refusable
    <3>1. stored' = [stored EXCEPT ![rid] = m]
      BY <2>3, <2>4
    <3>2. stored' \in [Ids -> 0 .. 2] /\ stored'[rid] = m
          /\ \A i \in Ids \ {rid} : stored'[i] = stored[i]
      BY <1>3, <2>1, <2>2, <3>1
    <3> QED
      BY <1>2, <1>3, <2>1, <2>2, <2>4, <3>2
  <2>5. CASE ~(rid > cl.top /\ rid \notin Refusable)
    BY <1>2, <1>3, <2>1, <2>3, <2>5
  <2> QED
    BY <2>4, <2>5
<1>10. Typed'
  BY <1>1, <1>6, <1>9 DEF ExInv, Typed
<1>11. Behind' /\ Pages'
  BY <1>1 DEF ExInv, Behind, Pages
<1>12. Storing'
  <2>1. Gapless(cl.left, cl.top) /\ savedMax <= cl.top /\ Passed(cl.top) /\ Passed(savedMax)
    BY <1>1 DEF ExInv, Storing
  <2>2. \A i \in Ids : stored[i] > 0 => stored'[i] > 0
    BY <1>3, <1>7, <1>9 DEF ExInv, Typed
  <2>3. Passed(savedMax)'
    BY <1>1, <2>1, <2>2 DEF Passed
  <2>4. Passed(cl.top)'
    <3> SUFFICES ASSUME NEW i \in Ids, i <= cl'.top PROVE stored'[i] > 0 \/ i \in Refusable
      BY DEF Passed
    <3>1. i \in Int
      BY BusTyped
    <3>2. CASE i <= cl.top
      BY <2>1, <2>2, <3>2 DEF Passed
    <3>3. CASE ~(i <= cl.top) /\ i # rid
      <4>1. i < rid
        BY <1>2, <1>3, <1>5, <3>1, <3>3
      <4>2. i \in cl.left
        BY <1>3, <2>1, <3>3, <4>1 DEF Gapless
      <4> QED
        BY <1>3, <3>1, <4>1, <4>2
    <3>4. CASE ~(i <= cl.top) /\ i = rid
      BY <1>2, <1>3, <1>9, <3>4
    <3> QED
      BY <3>2, <3>3, <3>4
  <2>5. Gapless(cl.left, cl.top)'
    <3> SUFFICES ASSUME NEW i \in cl.left, NEW j \in Ids, j < i, j # rid
                 PROVE  j \in cl.left \/ j <= cl'.top
      BY <1>2, <1>3, <1>5 DEF Gapless
    <3>1. j \in cl.left \/ j <= cl.top
      BY <2>1 DEF Gapless
    <3> QED
      BY <1>2, <1>3, <1>5, <3>1, BusTyped
  <2>6. (savedMax <= cl.top)'
    BY <1>1, <1>2, <1>3, <1>5, <2>1
  <2> QED
    BY <1>5, <2>3, <2>4, <2>5, <2>6 DEF Storing
<1>13. Once'
  <2> SUFFICES ASSUME "storeCut" \notin odd, NEW i \in Ids
               PROVE  stored'[i] <= 1 /\ (i > cl'.top => stored'[i] = 0)
    BY <1>1, <1>5 DEF Once, Reached
  <2>1. stored[i] <= 1 /\ (i > cl.top => stored[i] = 0)
    BY <1>1 DEF ExInv, Once, Reached
  <2>2. i \in Int /\ stored[i] \in Int
    BY BusTyped DEF ExInv, Typed
  <2>3. CASE i = rid
    BY <1>2, <1>3, <1>5, <1>9, <2>1, <2>3
  <2>4. CASE i # rid
    BY <1>2, <1>3, <1>5, <1>9, <2>1, <2>2, <2>4
  <2> QED
    BY <2>3, <2>4
<1> QED
  BY <1>10, <1>11, <1>12, <1>13 DEF ExInv

\* What the storing loop has passed becomes stored_max, or is forgotten.
LEMMA ClientEndSafe ==
  ASSUME ExInv, GiveUp \/ Save \/ StoreCut
  PROVE  ExInv'
<1>1. /\ UNCHANGED <<rows, bus, audit, log, ends, rs, stored>> /\ odd \subseteq odd'
      /\ cl' = [cl EXCEPT !.pc = "idle"] /\ cl.pc # "idle"
      /\ savedMax' = savedMax \/ (savedMax' = cl.top /\ Save)
  BY DEF GiveUp, Save, StoreCut, endVars
<1>2. /\ cl' \in [pc : {"idle", "sent", "storing"}, top : Ids0, left : SUBSET Ids]
      /\ cl'.pc = "idle" /\ cl.top \in Ids0 /\ savedMax \in Ids0
  BY <1>1 DEF ExInv, Typed
<1>3. savedMax <= cl.top /\ Passed(cl.top) /\ Passed(savedMax)
      /\ (cl.pc = "sent" => cl.top = savedMax)
  BY <1>1 DEF ExInv, Storing
<1>4. savedMax' \in Ids0 /\ savedMax' \in Int /\ savedMax \in Int /\ savedMax <= savedMax'
      /\ savedMax' \in {savedMax, cl.top}
  BY <1>1, <1>2, <1>3, BusTyped
<1>5. Typed'
  BY <1>1, <1>2, <1>4 DEF ExInv, Typed
<1>6. Behind'
  <2>1. \A r \in DOMAIN rs : rs[r].ack \in Int
    <3> SUFFICES ASSUME NEW r \in DOMAIN rs PROVE rs[r].ack \in Int
      OBVIOUS
    <3>1. rs[r] \in Receipt
      BY DEF ExInv, Typed
    <3>2. rs[r].ack \in Ids0
      BY <3>1 DEF Receipt
    <3> QED
      BY <3>2, BusTyped
  <2> QED
    BY <1>1, <1>4, <2>1, BusTyped DEF ExInv, Behind
<1>7. Pages'
  BY <1>1, <1>4, BusTyped DEF ExInv, Pages, Gapless
<1>8. Storing'
  BY <1>1, <1>2, <1>3, <1>4 DEF Storing, Passed
<1>9. Once'
  <2>1. CASE Save
    BY <1>1, <1>2, <2>1 DEF ExInv, Once, Reached, Save
  <2>2. CASE GiveUp
    BY <1>1, <1>2, <1>3, <2>2 DEF ExInv, Once, Reached, GiveUp
  <2>3. CASE StoreCut
    <3>1. "storeCut" \in odd' \/ (~(cl.top > savedMax) /\ savedMax' = savedMax)
      BY <2>3 DEF StoreCut
    <3>2. CASE cl.top = savedMax
      BY <1>1, <1>2, <2>3, <3>2 DEF ExInv, Once, Reached, StoreCut
    <3> QED
      BY <1>2, <1>3, <3>1, <3>2, BusTyped DEF Once
  <2> QED
    BY <2>1, <2>2, <2>3
<1> QED
  BY <1>5, <1>6, <1>7, <1>8, <1>9 DEF ExInv

LEMMA ArriveSafe ==
  ASSUME ExInv, Arrive \/ UNCHANGED vars
  PROVE  ExInv'
<1>1. UNCHANGED <<bus, log, ends, rs, cl, savedMax, stored, odd>> /\ rows' \in Ids0
  BY ExchangeAssumption DEF Arrive, vars, endVars, clientVars, ExInv, Typed, Ids0
<1>2. Typed'
  BY <1>1 DEF ExInv, Typed
<1>3. Behind' /\ Pages' /\ Storing' /\ Once'
  BY <1>1 DEF ExInv, Behind, Pages, Storing, Passed, Once, Reached
<1> QED
  BY <1>2, <1>3 DEF ExInv

-----------------------------------------------------------------------------

LEMMA ExInit == Init => ExInv
<1> SUFFICES ASSUME Init PROVE ExInv
  OBVIOUS
<1>1. Off \in End /\ Off.ids = {} /\ Off.pc = "off"
  BY IdsTyped DEF Off, End, EndPcs
<1>2. IsASeq(log)
  <2>1. log \in Seq({})
    BY DEF Init
  <2> QED
    BY <2>1 DEF IsASeq
<1>3. Typed
  <2>1. rs \in Seq(Receipt) /\ Len(rs) <= MaxRounds
    BY ExchangeAssumption DEF Init
  <2> QED
    BY <1>1, <1>2, <2>1, IdsTyped DEF Init, Typed
<1>4. Behind /\ Pages /\ Storing /\ Once
  BY <1>1 DEF Init, Behind, Pages, Storing, Once, Passed, Gapless, Reached, Ids
<1> QED
  BY <1>3, <1>4 DEF ExInv

LEMMA ExStep == ExInv /\ [Next]_vars => ExInv'
<1> SUFFICES ASSUME ExInv, [Next]_vars PROVE ExInv'
  OBVIOUS
<1>1. CASE Arrive \/ UNCHANGED vars
  BY <1>1, ArriveSafe
<1>2. CASE Client
  BY <1>2, RequestSafe, ReceiveSafe, StoreSafe, ClientEndSafe DEF Client
<1>3. ASSUME NEW e \in DOMAIN ends, Endpoint(e)
      PROVE  ExInv'
  BY <1>3, AckSafe, ItemSafe, PeekSafe, MeasureSafe, RoundSafe, GivenSafe, MarkSafe DEF Endpoint
<1> QED
  BY <1>1, <1>2, <1>3 DEF Next

\* Every step of the client, of an endpoint and of the mailbox keeps the cursor,
\* the acks under way and the pages behind what the client has stored.
THEOREM ExchangeCorrect == Spec => []ExInv
<1> QED
  BY ExInit, ExStep, PTL DEF Spec

\* At-least-once delivery (bus_ssh_exchange.exchange, bus_ssh_client.exchange): the
\* cursor never passes a row the remote client has not stored, but for the replies
\* the client's own bus refused, which it passes unstored (bus_ssh_client.py:188).
THEOREM AtLeastOnce == Spec => []AckedIsStored
<1>1. ExInv => AckedIsStored
  <2> SUFFICES ASSUME ExInv, NEW i \in Ids, i <= bus.cursor
               PROVE  stored[i] > 0 \/ i \in Refusable
    BY DEF AckedIsStored
  <2>1. i <= savedMax
    BY BusTyped
  <2> QED
    BY <2>1 DEF ExInv, Storing, Passed
<1> QED
  BY <1>1, ExchangeCorrect, PTL

\* A reply enters the local bus twice only if a storing loop was cut before its
\* stored_max was saved (bus_ssh_client.py).
THEOREM RepliesStoredOnce == Spec => []StoredOnce
<1>1. ExInv => StoredOnce
  <2> SUFFICES ASSUME ExInv, NEW i \in Ids, stored[i] > 1
               PROVE  "storeCut" \in odd
    BY DEF StoredOnce
  <2>1. stored[i] \in 0 .. 2
    BY DEF ExInv, Typed
  <2> QED
    BY <2>1 DEF ExInv, Once
<1> QED
  BY <1>1, ExchangeCorrect, PTL

-----------------------------------------------------------------------------
(* Calm rounds: no fault, no ack that moves nothing, no two endpoints.      *)
(* Then one endpoint runs at a time, and what it logs and what the mailbox  *)
(* writes keep step.                                                        *)

Calm == faults = 0 /\ odd \cap {"idleAck", "overlap"} = {}

Pc  == IF cl.pc = "sent" THEN ends[Round].pc ELSE "rest"
Cur == ends[Round]

BeforeRound == {"item", "sending", "sendfailed", "peek", "measure", "round"}
Opened      == {"giving", "marking", "closing"}
CalmPcs     == {"rest", "ack", "acking", "answer"} \cup BeforeRound \cup Opened

\* One endpoint at most is on its way: the one the client waits for.
Alone ==
    /\ \A e \in DOMAIN ends : ends[e].pc \in {"off", "done"} \/ (e = Round /\ cl.pc = "sent")
    /\ Pc \in CalmPcs

\* What the client has passed, and what was answered, is marked as delivered.
Seen ==
    /\ bus.read \subseteq 1 .. rows
    /\ \A i \in Ids : i <= Reached => i \in bus.read
    /\ cl.pc = "storing" => cl.left \subseteq bus.read
    /\ cl.pc = "sent" => Cur.ids \subseteq 1 .. rows
    /\ Pc \in {"giving", "marking"} => Cur.ids # {}
    /\ Pc \in {"closing", "answer"} => Cur.ids \subseteq bus.read

\* Where the ack of the current round goes.
Aim == Target(rs[Round].ack)

\* Logged acks and audit rows say the same steps of the cursor, each step once,
\* except for the ack whose entry is written and whose row is not; no row
\* counts a skipped message.
Lined ==
    /\ \A i \in Acks(log) :
          /\ log[i].from \in Ids0 /\ log[i].to \in Ids0 /\ log[i].from < log[i].to
          /\ \/ /\ log[i].to <= bus.cursor
                /\ \E k \in AuditAcks(audit) : Step(audit[k]) = Step(log[i])
             \/ /\ Pc = "acking" /\ log[i].from = bus.cursor
                /\ log[i].to = Aim
    /\ \A k \in AuditAcks(audit) :
          /\ audit[k].from \in Ids0 /\ audit[k].to \in Ids0 /\ audit[k].from < audit[k].to
          /\ audit[k].to <= bus.cursor /\ audit[k].skipped = 0
          /\ \E i \in Acks(log) : Step(log[i]) = Step(audit[k])
    /\ Pc = "acking" => \E i \in Acks(log) : log[i].from = bus.cursor
    /\ \A i, j \in Acks(log) : log[i].from = log[j].from => i = j
    /\ \A k, m \in AuditAcks(audit) : audit[k].from = audit[m].from => k = m

\* Every round but the one under way has its one close, behind it and before the
\* next round, and neither names more audit rows than there are.
Anchored ==
    /\ \A r \in Rounds(log) : log[r].anchor \in 0 .. Len(audit) /\ log[r].at \in 0 .. bus.cursor
    /\ \A c \in Closes(log) :
          /\ log[c].round \in Rounds(log) /\ log[c].round < c
          /\ log[c].anchor \in log[log[c].round].anchor .. Len(audit)
    /\ \A c, d \in Closes(log) : log[c].round = log[d].round => c = d
    /\ \A r \in Rounds(log) :
          \/ Pc \in Opened /\ r = Cur.round
          \/ \E c \in Closes(log) : log[c].round = r /\ \A q \in Rounds(log) : q > r => c < q
    /\ Pc \in Opened =>
          /\ Cur.round \in Rounds(log) /\ \A q \in Rounds(log) : q <= Cur.round
          /\ \A c \in Closes(log) : log[c].round # Cur.round

\* The last close covers all audit rows, or a round entry is still due that
\* RoundNote will not leave out, because the ack has moved the cursor.
Covered ==
    /\ \/ Pc \in Opened
       \/ audit = <<>> /\ Rounds(log) = {}
       \/ \E c \in Closes(log) : log[c].anchor = Len(audit)
       \/ Pc \in BeforeRound /\ bus.cursor > 0 /\ \A r \in Rounds(log) : log[r].at < bus.cursor
    /\ audit = <<>> => bus.cursor = 0 /\ (Rounds(log) = {} \/ Pc \in {"giving", "marking"})

Order == Alone /\ Seen /\ Lined /\ Anchored /\ Covered

CrossInv == faults \in Nat /\ IsASeq(audit) /\ (Calm => Order)

-----------------------------------------------------------------------------
LEMMA AppendAt ==
  ASSUME NEW s, IsASeq(s), NEW x
  PROVE  /\ Len(s) \in Nat /\ DOMAIN s = 1 .. Len(s)
         /\ Len(Append(s, x)) = Len(s) + 1 /\ DOMAIN Append(s, x) = 1 .. Len(s) + 1
         /\ Append(s, x)[Len(s) + 1] = x
         /\ \A i \in 1 .. Len(s) : Append(s, x)[i] = s[i]
<1>1. PICK S : s \in Seq(S)
  BY DEF IsASeq
<1>2. s \in Seq(S \cup {x}) /\ x \in S \cup {x}
  BY <1>1
<1> QED
  BY <1>2

LEMMA KindsOf ==
  ASSUME NEW s, NEW i
  PROVE  /\ i \in Acks(s) <=> i \in DOMAIN s /\ s[i].kind = "ack" /\ s[i].dec = "accepted"
         /\ i \in Rounds(s) <=> i \in DOMAIN s /\ s[i].kind = "pickup" /\ s[i].dec = "accepted"
         /\ i \in Closes(s) <=> i \in DOMAIN s /\ s[i].kind = "close"
         /\ i \in AuditAcks(s) <=> i \in DOMAIN s /\ s[i].op = "ack"
  BY DEF Acks, Rounds, Closes, AuditAcks, Matching, Is

LEMMA KindsIn ==
  ASSUME NEW s
  PROVE  Acks(s) \subseteq DOMAIN s /\ Rounds(s) \subseteq DOMAIN s /\ Closes(s) \subseteq DOMAIN s
         /\ AuditAcks(s) \subseteq DOMAIN s
  BY KindsOf

\* One entry more: what was there is still there.
LEMMA KindsGrow ==
  ASSUME NEW s, NEW t, NEW n, n \notin DOMAIN s, DOMAIN t = DOMAIN s \cup {n},
         \A i \in DOMAIN s : t[i] = s[i]
  PROVE  /\ Acks(t) = IF t[n].kind = "ack" /\ t[n].dec = "accepted"
                      THEN Acks(s) \cup {n} ELSE Acks(s)
         /\ Rounds(t) = IF t[n].kind = "pickup" /\ t[n].dec = "accepted"
                        THEN Rounds(s) \cup {n} ELSE Rounds(s)
         /\ Closes(t) = IF t[n].kind = "close" THEN Closes(s) \cup {n} ELSE Closes(s)
<1>1. ASSUME NEW i \in DOMAIN s
      PROVE  /\ i \in Acks(t) <=> i \in Acks(s)
             /\ i \in Rounds(t) <=> i \in Rounds(s)
             /\ i \in Closes(t) <=> i \in Closes(s)
  BY KindsOf
<1>2. /\ n \in Acks(t) <=> t[n].kind = "ack" /\ t[n].dec = "accepted"
      /\ n \in Rounds(t) <=> t[n].kind = "pickup" /\ t[n].dec = "accepted"
      /\ n \in Closes(t) <=> t[n].kind = "close"
  BY KindsOf
<1>3. /\ Acks(t) \subseteq DOMAIN s \cup {n} /\ Acks(s) \subseteq DOMAIN s
      /\ Rounds(t) \subseteq DOMAIN s \cup {n} /\ Rounds(s) \subseteq DOMAIN s
      /\ Closes(t) \subseteq DOMAIN s \cup {n} /\ Closes(s) \subseteq DOMAIN s
  BY KindsIn
<1> QED
  BY <1>1, <1>2, <1>3

\* t is s with x as its entry n.
Grown(s, x, t, n) ==
    /\ n \in Nat /\ n > 0 /\ t[n] = x /\ n \notin DOMAIN s /\ DOMAIN t = DOMAIN s \cup {n}
    /\ \A i \in DOMAIN s : t[i] = s[i] /\ i < n /\ i \in Nat

LEMMA AppendGrows ==
  ASSUME NEW s, IsASeq(s), NEW x
  PROVE  Grown(s, x, Append(s, x), Len(s) + 1)
  BY AppendAt DEF Grown

LEMMA GrownKinds ==
  ASSUME NEW s, NEW x, NEW t, NEW n, Grown(s, x, t, n)
  PROVE  /\ Acks(t) = IF x.kind = "ack" /\ x.dec = "accepted" THEN Acks(s) \cup {n} ELSE Acks(s)
         /\ Rounds(t) = IF x.kind = "pickup" /\ x.dec = "accepted"
                        THEN Rounds(s) \cup {n} ELSE Rounds(s)
         /\ Closes(t) = IF x.kind = "close" THEN Closes(s) \cup {n} ELSE Closes(s)
  BY KindsGrow DEF Grown

\* A target is never behind the cursor.
LEMMA TargetUp ==
  ASSUME Typed, NEW upto \in Ids0
  PROVE  Target(upto) \in Ids0 /\ bus.cursor \in Ids0 /\ bus.cursor <= Target(upto)
<1>1. bus.cursor \in Ids0 /\ bus.level \in Ids0 /\ rows \in Ids0
  BY DEF Typed
<1> DEFINE limit == IF Strict THEN bus.level ELSE rows
           m == Min({upto, limit})
<1>2. limit \in Int /\ upto \in Int /\ bus.cursor \in Int
  BY <1>1 DEF Ids0
<1>3. m \in Int
  <2> HIDE DEF limit
  <2> QED
    BY <1>2, PairTyped
<1>4. Target(upto) = Max({bus.cursor, m})
  BY DEF Target
<1> HIDE DEF m
<1>5. Target(upto) = IF bus.cursor >= m THEN bus.cursor ELSE m
  BY <1>2, <1>3, <1>4, PairTyped
<1> QED
  BY <1>1, <1>2, <1>3, <1>5, TargetTyped

\* A row that arrives does not move the target of an ack for saved rows.
LEMMA TargetStays ==
  ASSUME Typed, NEW upto \in Ids0, upto <= rows, rows' = rows + 1, UNCHANGED bus
  PROVE  Target(upto)' = Target(upto)
<1>1. upto \in Int /\ rows \in Int
  BY DEF Typed, Ids0
<1>2. Min({upto, rows}) = upto /\ Min({upto, rows + 1}) = upto
  <2>1. Min({upto, rows}) = upto
    BY <1>1, PairTyped
  <2>2. rows + 1 \in Int /\ upto <= rows + 1
    BY <1>1
  <2>3. Min({upto, rows + 1}) = upto
    BY <1>1, <2>2, PairTyped
  <2> QED
    BY <2>1, <2>3
<1> DEFINE m(limit) == Max({bus.cursor, Min({upto, limit})})
<1>3. /\ Target(upto) = m(IF Strict THEN bus.level ELSE rows)
      /\ Target(upto)' = m(IF Strict THEN bus.level ELSE rows + 1)
  BY DEF Target
<1>4. m(rows) = m(rows + 1)
  BY <1>2
<1> HIDE DEF m
<1> QED
  BY <1>3, <1>4

-----------------------------------------------------------------------------
(* What a calm step leaves alone *)

\* A disturbance does not go away: before a calm state there are calm ones.
LEMMA CalmBefore ==
  ASSUME faults \in Nat, [Next]_vars
  PROVE  faults' \in {faults, faults + 1} /\ odd \subseteq odd'
<1>1. ASSUME NEW e, NEW x, NEW l, NEW how, Note(e, x, l, how)
      PROVE  faults' \in {faults, faults + 1} /\ odd \subseteq odd'
  BY <1>1 DEF Note, Fault, NoFault
<1>2. ASSUME NEW e, AckNote(e) \/ AckFailNote(e) \/ ItemNote(e) \/ ItemFailNote(e)
                    \/ GivenNote(e) \/ MarkFailNote(e)
      PROVE  \E x, l, how : Note(e, x, l, how)
  BY <1>2, Zenon DEF AckNote, AckFailNote, ItemNote, ItemFailNote, GivenNote, MarkFailNote
<1>3. ASSUME NEW e, RoundNote(e)
      PROVE  (\E x, l, how : Note(e, x, l, how)) \/ (faults' = faults /\ odd' = odd)
  BY <1>3 DEF RoundNote, NoFault
<1>4. ASSUME NEW e, AckDo(e) \/ ItemDo(e) \/ Peek(e) \/ Measure(e) \/ MarkDo(e) \/ CloseNote(e)
                    \/ Kill(e)
      PROVE  faults' \in {faults, faults + 1} /\ odd \subseteq odd'
  <2>1. CASE AckDo(e)
    BY <2>1 DEF AckDo, Fault, NoFault
  <2>2. CASE ItemDo(e) \/ Peek(e)
    BY <2>2 DEF ItemDo, Peek
  <2>3. CASE Measure(e) \/ CloseNote(e) \/ Kill(e)
    BY <2>3 DEF Measure, CloseNote, Kill, Fault, NoFault
  <2>4. CASE MarkDo(e)
    BY <2>4 DEF MarkDo, Fault, NoFault
  <2> QED
    BY <1>4, <2>1, <2>2, <2>3, <2>4
<1>5. ASSUME NEW items, Request(items)
      PROVE  faults' \in {faults, faults + 1} /\ odd \subseteq odd'
  BY <1>5 DEF Request, Fault, NoFault
<1>6. CASE Receive \/ GiveUp \/ StoreNext \/ Save \/ StoreCut \/ Arrive
  BY <1>6 DEF Receive, GiveUp, StoreNext, Save, StoreCut, Arrive, Fault, NoFault
<1>7. CASE UNCHANGED vars
  BY <1>7 DEF vars
<1> QED
  BY <1>1, <1>2, <1>3, <1>4, <1>5, <1>6, <1>7 DEF Next, Client, Endpoint

\* The endpoint that goes on is the one of the current round.
LEMMA EndGo ==
  ASSUME ExInv, Alone, NEW e \in DOMAIN ends, ends[e].pc \notin {"off", "done"},
         NEW l, l.pc \in CalmPcs, To(e, l), UNCHANGED clientVars
  PROVE  /\ e = Round /\ cl.pc = "sent" /\ Pc = ends[e].pc /\ Cur = ends[e]
         /\ Pc' = l.pc /\ Cur' = l /\ Reached' = Reached /\ Alone'
         /\ UNCHANGED <<cl, rs>>
<1>1. e = Round /\ cl.pc = "sent" /\ Pc = ends[e].pc /\ Cur = ends[e]
  BY DEF Alone, Pc, Cur
<1>2. UNCHANGED <<cl, rs, savedMax>> /\ Round' = Round
  BY DEF clientVars, Round
<1>3. DOMAIN ends' = DOMAIN ends /\ ends'[e] = l /\ \A d \in DOMAIN ends \ {e} : ends'[d] = ends[d]
  BY DEF To
<1>4. Pc' = l.pc /\ Cur' = l /\ Reached' = Reached
  BY <1>1, <1>2, <1>3 DEF Pc, Cur, Reached
<1> QED
  BY <1>1, <1>2, <1>3, <1>4 DEF Alone

LEMMA SeenKept ==
  ASSUME Seen, UNCHANGED <<rows, bus, cl>>, Reached' = Reached, Cur'.ids \subseteq 1 .. rows,
         Pc' \in {"giving", "marking"} => Cur'.ids # {},
         Pc' \in {"closing", "answer"} => Cur'.ids \subseteq bus.read
  PROVE  Seen'
  BY DEF Seen

LEMMA LinedKept ==
  ASSUME Lined, Acks(log') = Acks(log), \A i \in Acks(log) : log'[i] = log[i],
         AuditAcks(audit') = AuditAcks(audit), \A k \in AuditAcks(audit) : audit'[k] = audit[k],
         bus'.cursor = bus.cursor, Pc = "acking" <=> Pc' = "acking", Pc = "acking" => Aim' = Aim
  PROVE  Lined'
  BY DEF Lined, Step

LEMMA AnchoredKept ==
  ASSUME Anchored, Rounds(log') = Rounds(log), Closes(log') = Closes(log),
         \A i \in Rounds(log) \cup Closes(log) : log'[i] = log[i],
         Len(audit) \in Nat, Len(audit') \in Nat, Len(audit) <= Len(audit'),
         bus.cursor \in Int, bus'.cursor \in Int, bus.cursor <= bus'.cursor,
         Pc \in Opened <=> Pc' \in Opened, Pc \in Opened => Cur'.round = Cur.round
  PROVE  Anchored'
  BY DEF Anchored

SameEntries ==
    /\ Acks(log') = Acks(log) /\ Rounds(log') = Rounds(log) /\ Closes(log') = Closes(log)
    /\ \A i \in DOMAIN log : log'[i] = log[i]

\* An entry of another kind: an item, a reply.
LEMMA PlainEntry ==
  ASSUME IsASeq(log), NEW x, log' = Append(log, x), x.kind # "close",
         x.kind \notin {"ack", "pickup"} \/ x.dec # "accepted"
  PROVE  SameEntries
<1>1. Grown(log, x, log', Len(log) + 1)
  BY AppendGrows
<1>2. Acks(log') = Acks(log) /\ Rounds(log') = Rounds(log) /\ Closes(log') = Closes(log)
  BY <1>1, GrownKinds
<1>3. \A i \in DOMAIN log : log'[i] = log[i]
  BY <1>1 DEF Grown
<1> QED
  BY <1>2, <1>3 DEF SameEntries

LEMMA BusInts ==
  ASSUME ExInv, IsASeq(audit)
  PROVE  bus.cursor \in Nat /\ rows \in Nat /\ savedMax \in Nat /\ Len(audit) \in Nat /\ IsASeq(log)
         /\ bus.cursor <= savedMax
<1>1. bus.cursor \in Ids0 /\ rows \in Ids0 /\ savedMax \in Ids0
  BY DEF ExInv, Typed
<1>2. Len(audit) \in Nat
  BY AppendAt
<1> QED
  BY <1>1, <1>2, BusTyped DEF Ids0

\* Between the ack and the round entry nothing is compared.
LEMMA BeforeStep ==
  ASSUME ExInv, IsASeq(audit), Order, NEW e \in DOMAIN ends, ends[e].pc \in BeforeRound,
         NEW l, l.pc \in BeforeRound, l.ids \subseteq 1 .. rows, To(e, l),
         UNCHANGED <<rows, bus, audit, clientVars>>, SameEntries
  PROVE  Order'
<1>1. /\ e = Round /\ cl.pc = "sent" /\ Pc = ends[e].pc /\ Cur = ends[e]
      /\ Pc' = l.pc /\ Cur' = l /\ Reached' = Reached /\ Alone'
      /\ UNCHANGED <<cl, rs>>
  BY EndGo DEF Order, BeforeRound, CalmPcs
<1>2. Pc \in BeforeRound /\ Pc' \in BeforeRound
  BY <1>1
<1>3. Seen'
  BY <1>1, <1>2, SeenKept DEF Order, BeforeRound
<1>4. Lined'
  BY <1>2, LinedKept, KindsIn DEF Order, BeforeRound, SameEntries
<1>5. Anchored'
  BY <1>2, AnchoredKept, KindsIn, BusInts DEF Order, BeforeRound, Opened, SameEntries
<1>6. Covered'
  BY <1>2, KindsIn DEF Order, Covered, BeforeRound, Opened, SameEntries
<1> QED
  BY <1>1, <1>3, <1>4, <1>5, <1>6 DEF Order

LEMMA ItemCalm ==
  ASSUME ExInv, IsASeq(audit), Order, faults = 0, faults' = 0, NEW e \in DOMAIN ends,
         ItemNote(e) \/ ItemDo(e) \/ ItemFailNote(e)
  PROVE  Order'
<1>1. ends[e].pc \in {"item", "sending", "sendfailed"} /\ UNCHANGED <<rows, bus, audit, clientVars>>
  BY DEF ItemNote, ItemDo, ItemFailNote
<1> DEFINE Items == {ItemEntry("rejected", Item, "refused"), ItemEntry("accepted", Item, ""),
                     ItemEntry("rejected", Item, "failed")}
<1>2. \A x \in Items : x.kind = "item"
  <2>1. \A dec, why : ItemEntry(dec, Item, why).kind = "item"
    BY DEF ItemEntry
  <2> QED
    BY <2>1
<1>3. ASSUME NEW x \in Items, NEW pc \in BeforeRound, Note(e, x, At(e, pc), {})
      PROVE  To(e, At(e, pc)) /\ log' = Append(log, x)
  <2> HIDE DEF Items
  <2>1. ~Fault
    BY DEF Fault
  <2> QED
    BY <1>3, <2>1 DEF Note
<1>4. \E pc \in BeforeRound : /\ To(e, At(e, pc))
                              /\ UNCHANGED log \/ \E x \in Items : log' = Append(log, x)
  <2>1. CASE ItemDo(e)
    BY <2>1 DEF ItemDo, BeforeRound
  <2>2. CASE ~ItemDo(e)
    <3>1. PICK x \in Items, pc \in {"peek", "sending"} : Note(e, x, At(e, pc), {})
      BY <2>2, Zenon DEF ItemNote, ItemFailNote
    <3>2. pc \in BeforeRound
      BY DEF BeforeRound
    <3> HIDE DEF Items
    <3> QED
      BY <1>3, <3>1, <3>2
  <2> QED
    BY <2>1, <2>2
<1>6. SameEntries
  <2> HIDE DEF Items
  <2>1. CASE UNCHANGED log
    BY <2>1 DEF SameEntries
  <2>2. ASSUME NEW x \in Items, log' = Append(log, x)
        PROVE  SameEntries
    BY <1>2, <2>2, PlainEntry, BusInts
  <2> QED
    BY <1>4, <2>1, <2>2
<1>7. PICK pc \in BeforeRound : To(e, At(e, pc))
  BY <1>4
<1>8. ends[e].ids \subseteq 1 .. rows /\ At(e, pc).pc = pc /\ At(e, pc).ids = ends[e].ids
  <2>1. e = Round /\ cl.pc = "sent"
    BY <1>1 DEF Order, Alone
  <2> QED
    BY <2>1, AtTyped DEF Order, Seen, Cur, BeforeRound, EndPcs
<1>9. ends[e].pc \in BeforeRound /\ At(e, pc).pc \in BeforeRound /\ At(e, pc).ids \subseteq 1 .. rows
  BY <1>1, <1>8 DEF BeforeRound
<1> QED
  BY <1>1, <1>6, <1>7, <1>9, BeforeStep

LEMMA PeekCalm ==
  ASSUME ExInv, IsASeq(audit), Order, faults = 0, faults' = 0, NEW e \in DOMAIN ends,
         Peek(e) \/ Measure(e)
  PROVE  Order'
<1>1. /\ ends[e].pc \in BeforeRound /\ UNCHANGED <<rows, bus, audit, clientVars>>
      /\ UNCHANGED log
  BY DEF Peek, Measure, BeforeRound
<1>2. e = Round /\ cl.pc = "sent" /\ ends[e].ids \subseteq 1 .. rows /\ ends[e] \in End
  <2>1. e = Round /\ cl.pc = "sent"
    BY <1>1 DEF Order, Alone, BeforeRound
  <2> QED
    BY <2>1, EndTyped DEF Order, Seen, Cur
<1>3. \E l : l.pc \in BeforeRound /\ l.ids \subseteq 1 .. rows /\ To(e, l)
  <2>1. CASE Peek(e)
    <3> DEFINE page == Page
               l == [At(e, "measure") EXCEPT !.ids = page, !.left = page]
    <3>1. page \subseteq 1 .. rows
      BY DEF Page, Ahead, Ids
    <3>2. l.pc = "measure" /\ l.ids = page /\ To(e, l)
      BY <1>2, <2>1 DEF Peek, At, End
    <3> QED
      BY <3>1, <3>2 DEF BeforeRound
  <2>2. CASE Measure(e)
    <3> DEFINE next == IF Ahead \ ends[e].ids = {} THEN 0 ELSE Min(Ahead \ ends[e].ids)
               l == [At(e, "round") EXCEPT !.pending = Cardinality(Ahead), !.next = next]
    <3>1. To(e, l)
      BY <2>2 DEF Measure, Fault
    <3>2. l.pc = "round" /\ l.ids = ends[e].ids
      BY <1>2 DEF At, End
    <3> QED
      BY <1>2, <3>1, <3>2 DEF BeforeRound
  <2> QED
    BY <2>1, <2>2
<1>4. SameEntries
  BY <1>1 DEF SameEntries
<1> QED
  BY <1>1, <1>3, <1>4, BeforeStep

\* The acknowledged rows are there, and what the client has passed was marked.
LEMMA SavedSeen ==
  ASSUME ExInv, IsASeq(audit), Order
  PROVE  savedMax <= rows /\ \A i \in Ids : i <= savedMax => i \in bus.read
<1>1. savedMax \in Ids0 /\ savedMax \in Nat /\ rows \in Nat /\ savedMax <= Reached /\ Reached \in Ids0
  BY BusInts DEF ExInv, Typed, Storing, Reached
<1>2. \A i \in Ids : i <= savedMax => i \in bus.read
  BY <1>1 DEF Order, Seen, Ids, Ids0
<1>3. CASE savedMax = 0
  BY <1>1, <1>2, <1>3
<1>4. CASE savedMax # 0
  <2>1. savedMax \in Ids
    BY <1>1, <1>4 DEF Ids, Ids0
  <2>2. savedMax \in bus.read
    BY <1>1, <1>2, <2>1
  <2> QED
    BY <1>1, <1>2, <2>2 DEF Order, Seen
<1> QED
  BY <1>3, <1>4

LEMMA AckNoteCalm ==
  ASSUME ExInv, IsASeq(audit), Order, faults = 0, faults' = 0, Calm', NEW e \in DOMAIN ends,
         AckNote(e)
  PROVE  Order'
<1> DEFINE tgt == Target(rs[e].ack)
           x == AckEntry(bus.cursor, tgt, rs[e].ack)
           n == Len(log) + 1
<1>1. /\ ends[e].pc = "ack" /\ UNCHANGED <<rows, bus, audit, clientVars>>
      /\ log' = Append(log, x) /\ To(e, At(e, "acking"))
      /\ odd' = odd \cup IF tgt = bus.cursor THEN {"idleAck"} ELSE {}
  <2>1. ~Fault
    BY DEF Fault
  <2> QED
    BY <2>1 DEF AckNote, Note
<1>2. tgt # bus.cursor
  BY <1>1 DEF Calm
<1>3. x.kind = "ack" /\ x.dec = "accepted" /\ x.from = bus.cursor /\ x.to = tgt
  BY DEF AckEntry
<1>4. ends[e] \in End /\ At(e, "acking").pc = "acking" /\ At(e, "acking").ids = ends[e].ids
  BY AtTyped, EndTyped DEF EndPcs
<1>5. /\ e = Round /\ cl.pc = "sent" /\ Pc = "ack" /\ Cur = ends[e]
      /\ Pc' = "acking" /\ Cur'.ids = Cur.ids /\ Reached' = Reached /\ Alone'
      /\ UNCHANGED <<cl, rs>>
  BY <1>1, <1>4, EndGo DEF Order, CalmPcs
<1>6. tgt \in Ids0 /\ bus.cursor \in Ids0 /\ bus.cursor < tgt
  <2>1. rs[e].ack \in Ids0
    BY <1>1, RequestTyped
  <2> QED
    BY <1>2, <2>1, TargetUp, BusInts DEF ExInv, Ids0
<1>7. Aim = tgt /\ Aim' = tgt
  BY <1>1, <1>5 DEF Aim, Target, Round
<1> HIDE DEF tgt, x
<1>8. Grown(log, x, log', n)
  BY <1>1, AppendGrows, BusInts
<1> HIDE DEF n
<1>9. /\ Acks(log') = Acks(log) \cup {n} /\ Rounds(log') = Rounds(log) /\ Closes(log') = Closes(log)
      /\ log'[n] = x /\ n \notin DOMAIN log /\ \A i \in DOMAIN log : log'[i] = log[i]
  <2>1. Acks(log') = Acks(log) \cup {n} /\ Rounds(log') = Rounds(log) /\ Closes(log') = Closes(log)
    BY <1>3, <1>8, GrownKinds
  <2> QED
    BY <1>8, <2>1 DEF Grown
<1>10. Seen'
  BY <1>1, <1>5, SeenKept DEF Order, Seen
<1>11. Lined'
  <2>1. /\ log'[n].from = bus.cursor /\ log'[n].to = tgt
        /\ \A i \in Acks(log) : log'[i] = log[i] /\ i # n
    BY <1>3, <1>9, KindsIn
  <2>2. \A i \in Acks(log) : log[i].from < bus.cursor
    BY <1>5, <1>6 DEF Order, Lined, Ids0
  <2>3. ASSUME NEW i \in Acks(log')
        PROVE  /\ log'[i].from \in Ids0 /\ log'[i].to \in Ids0 /\ log'[i].from < log'[i].to
               /\ \/ /\ log'[i].to <= bus'.cursor
                     /\ \E k \in AuditAcks(audit') : Step(audit'[k]) = Step(log'[i])
                  \/ Pc' = "acking" /\ log'[i].from = bus'.cursor /\ log'[i].to = Aim'
    <3>1. CASE i = n
      BY <1>1, <1>5, <1>6, <1>7, <2>1, <3>1
    <3>2. CASE i \in Acks(log)
      <4>1. log'[i] = log[i]
        BY <2>1, <3>2
      <4>2. /\ log[i].from \in Ids0 /\ log[i].to \in Ids0 /\ log[i].from < log[i].to
            /\ log[i].to <= bus.cursor /\ \E k \in AuditAcks(audit) : Step(audit[k]) = Step(log[i])
        BY <1>5, <3>2 DEF Order, Lined
      <4> QED
        BY <1>1, <4>1, <4>2
    <3> QED
      BY <1>9, <3>1, <3>2
  <2>4. ASSUME NEW k \in AuditAcks(audit')
        PROVE  /\ audit'[k].from \in Ids0 /\ audit'[k].to \in Ids0 /\ audit'[k].from < audit'[k].to
               /\ audit'[k].to <= bus'.cursor /\ audit'[k].skipped = 0
               /\ \E i \in Acks(log') : Step(log'[i]) = Step(audit'[k])
    <3>1. k \in AuditAcks(audit) /\ audit' = audit /\ bus' = bus
      BY <1>1
    <3>2. /\ audit[k].from \in Ids0 /\ audit[k].to \in Ids0 /\ audit[k].from < audit[k].to
          /\ audit[k].to <= bus.cursor /\ audit[k].skipped = 0
          /\ \E i \in Acks(log) : Step(log[i]) = Step(audit[k])
      BY <3>1 DEF Order, Lined
    <3>3. PICK i \in Acks(log) : Step(log[i]) = Step(audit[k])
      BY <3>2
    <3>4. i \in Acks(log') /\ log'[i] = log[i]
      BY <1>9, <2>1
    <3>5. Step(log'[i]) = Step(audit'[k])
      BY <3>1, <3>3, <3>4
    <3> QED
      BY <3>1, <3>2, <3>4, <3>5
  <2>5. \A i, j \in Acks(log') : log'[i].from = log'[j].from => i = j
    BY <1>6, <1>9, <2>1, <2>2 DEF Order, Lined, Ids0
  <2> QED
    BY <1>1, <1>9, <2>1, <2>3, <2>4, <2>5 DEF Order, Lined
<1>12. Anchored'
  BY <1>1, <1>5, <1>9, AnchoredKept, KindsIn, BusInts DEF Order, Opened
<1>13. Covered'
  BY <1>1, <1>5, <1>9, KindsIn DEF Order, Covered, Opened, BeforeRound
<1> QED
  BY <1>5, <1>10, <1>11, <1>12, <1>13 DEF Order

LEMMA AckDoCalm ==
  ASSUME ExInv, IsASeq(audit), Order, faults = 0, faults' = 0, NEW e \in DOMAIN ends, AckDo(e)
  PROVE  Order' /\ IsASeq(audit')
<1> DEFINE from == bus.cursor
           to == Target(rs[e].ack)
           x == [op |-> "ack", from |-> from, to |-> to, skipped |-> SkippedBy(from, to)]
           n == Len(audit) + 1
           l == At(e, ToItems(rs[e]))
<1>1. /\ ends[e].pc = "acking" /\ UNCHANGED <<rows, log, clientVars>>
      /\ audit' = IF to = from THEN audit ELSE Append(audit, x)
      /\ bus' = [bus EXCEPT !.cursor = to, !.read = @ \cup 1 .. to]
      /\ To(e, l)
  <2>1. ~Fault
    BY DEF Fault
  <2> QED
    BY <2>1 DEF AckDo
<1>2. ends[e] \in End /\ l.pc \in {"item", "peek"} /\ l.ids = ends[e].ids
  BY EndTyped DEF End, At, ToItems
<1>3. /\ e = Round /\ cl.pc = "sent" /\ Pc = "acking" /\ Cur = ends[e]
      /\ Pc' \in {"item", "peek"} /\ Cur'.ids = Cur.ids /\ Reached' = Reached /\ Alone'
      /\ UNCHANGED <<cl, rs, savedMax>>
  BY <1>1, <1>2, EndGo DEF Order, CalmPcs, BeforeRound, clientVars
<1>4. Aim = to /\ to \in Ids0 /\ from \in Ids0 /\ to <= savedMax
  <2>1. rs[e].ack \in Ids0 /\ rs[e].ack <= savedMax
    BY <1>1, RequestTyped
  <2>2. to \in Ids0 /\ from \in Ids0 /\ (to <= from \/ to <= rs[e].ack)
    BY <2>1, TargetUp, TargetTyped DEF ExInv
  <2> QED
    BY <1>3, <2>1, <2>2, BusInts DEF Aim, Ids0
<1> HIDE DEF to, l
\* Its entry is in the log, and says the same step.
<1>5. PICK i \in Acks(log) : /\ log[i].from = from /\ log[i].to = to /\ from < to
                            /\ Step(log[i]) = <<from, to>>
  <2>1. PICK i \in Acks(log) : log[i].from = from
    BY <1>3 DEF Order, Lined
  <2>2. /\ log[i].from < log[i].to /\ log[i].to \in Ids0
        /\ log[i].to <= from \/ log[i].to = to
    BY <1>4 DEF Order, Lined
  <2>3. log[i].to = to /\ from < to
    BY <1>4, <2>1, <2>2 DEF Ids0
  <2> QED
    BY <2>1, <2>3 DEF Step
<1>6. from \in Nat /\ to \in Nat /\ from < to /\ audit' = Append(audit, x)
  BY <1>1, <1>4, <1>5 DEF Ids0
<1>7. SkippedBy(from, to) = 0
  <2>1. {j \in Ids \ bus.read : from < j /\ j <= to} = {}
    BY <1>4, SavedSeen, BusInts DEF Ids, Ids0
  <2> QED
    BY <2>1, FS_EmptySet DEF SkippedBy
<1>8. x.op = "ack" /\ x.from = from /\ x.to = to /\ x.skipped = 0 /\ Step(x) = <<from, to>>
  BY <1>7 DEF Step
<1> HIDE DEF x
<1>9. /\ Len(audit) \in Nat /\ n \in Nat /\ n > 0 /\ DOMAIN audit = 1 .. Len(audit)
      /\ DOMAIN audit' = 1 .. n /\ Len(audit') = n
      /\ audit'[n] = x /\ \A k \in 1 .. Len(audit) : audit'[k] = audit[k]
      /\ IsASeq(audit') /\ audit' # <<>>
  BY <1>6, AppendAt, AppendSeq
<1>10. /\ AuditAcks(audit') = AuditAcks(audit) \cup {n}
       /\ \A k \in AuditAcks(audit) : audit'[k] = audit[k] /\ k # n
  <2>1. ASSUME NEW k \in 1 .. Len(audit)
        PROVE  k \in AuditAcks(audit') <=> k \in AuditAcks(audit)
    BY <1>9, <2>1, KindsOf
  <2>2. n \in AuditAcks(audit')
    BY <1>8, <1>9, KindsOf
  <2>3. AuditAcks(audit') \subseteq 1 .. n /\ AuditAcks(audit) \subseteq 1 .. Len(audit)
    BY <1>9, KindsIn
  <2> QED
    BY <1>9, <2>1, <2>2, <2>3
<1>11. bus'.cursor = to /\ bus'.read = bus.read \cup 1 .. to
  BY <1>1 DEF ExInv, Typed
<1>12. Seen'
  <2>1. bus'.read \subseteq 1 .. rows
    BY <1>4, <1>6, <1>11, SavedSeen, BusInts DEF Order, Seen
  <2> QED
    BY <1>1, <1>3, <1>11, <2>1 DEF Order, Seen
<1>13. Lined'
  <2>1. ASSUME NEW j \in Acks(log)
        PROVE  /\ log[j].from \in Ids0 /\ log[j].to \in Ids0 /\ log[j].from < log[j].to
               /\ log[j].to <= to /\ \E k \in AuditAcks(audit') : Step(audit'[k]) = Step(log[j])
    <3>1. log[j].from \in Ids0 /\ log[j].to \in Ids0 /\ log[j].from < log[j].to
      BY DEF Order, Lined
    <3>2. CASE log[j].to <= from /\ \E k \in AuditAcks(audit) : Step(audit[k]) = Step(log[j])
      <4>1. PICK k \in AuditAcks(audit) : Step(audit[k]) = Step(log[j])
        BY <3>2
      <4>2. k \in AuditAcks(audit') /\ audit'[k] = audit[k]
        BY <1>10
      <4>3. Step(audit'[k]) = Step(log[j])
        BY <4>1, <4>2
      <4>4. log[j].to <= to
        BY <1>6, <3>1, <3>2 DEF Ids0
      <4> QED
        BY <3>1, <4>2, <4>3, <4>4
    <3>3. CASE log[j].from = from
      <4>1. j = i
        BY <1>5, <3>3 DEF Order, Lined
      <4>2. Step(audit'[n]) = Step(log[j])
        BY <1>5, <1>8, <1>9, <4>1
      <4>3. n \in AuditAcks(audit') /\ log[j].to <= to
        BY <1>5, <1>6, <1>10, <4>1
      <4> QED
        BY <3>1, <4>2, <4>3
    <3> QED
      BY <3>2, <3>3 DEF Order, Lined
  <2>2. ASSUME NEW k \in AuditAcks(audit')
        PROVE  /\ audit'[k].from \in Ids0 /\ audit'[k].to \in Ids0 /\ audit'[k].from < audit'[k].to
               /\ audit'[k].to <= to /\ audit'[k].skipped = 0
               /\ \E j \in Acks(log) : Step(log[j]) = Step(audit'[k])
               /\ k # n => k \in AuditAcks(audit) /\ audit'[k] = audit[k] /\ audit'[k].from < from
               /\ k = n => audit'[k].from = from
    <3>1. CASE k = n
      <4>1. audit'[k] = x
        BY <1>9, <3>1
      <4>2. Step(log[i]) = Step(audit'[k])
        BY <1>5, <1>8, <4>1
      <4> QED
        BY <1>4, <1>6, <1>8, <3>1, <4>1, <4>2
    <3>2. CASE k \in AuditAcks(audit)
      <4>1. audit'[k] = audit[k] /\ k # n
        BY <1>10, <3>2
      <4>2. /\ audit[k].from \in Ids0 /\ audit[k].to \in Ids0 /\ audit[k].from < audit[k].to
            /\ audit[k].to <= from /\ audit[k].skipped = 0
            /\ \E j \in Acks(log) : Step(log[j]) = Step(audit[k])
        BY <3>2 DEF Order, Lined
      <4>3. audit[k].to <= to /\ audit[k].from < from
        BY <1>6, <4>2 DEF Ids0
      <4> QED
        BY <3>2, <4>1, <4>2, <4>3
    <3> QED
      BY <1>10, <3>1, <3>2
  <2>3. ASSUME NEW k \in AuditAcks(audit'), NEW m \in AuditAcks(audit'),
               audit'[k].from = audit'[m].from
        PROVE  k = m
    <3>1. from \notin {y \in Nat : y < from}
      BY <1>6
    <3>2. ASSUME NEW j \in AuditAcks(audit'), j # n
          PROVE  audit'[j].from \in {y \in Nat : y < from}
      BY <2>2, <3>2 DEF Ids0
    <3>3. CASE k # n /\ m # n
      BY <2>2, <2>3, <3>3 DEF Order, Lined
    <3> QED
      BY <2>2, <2>3, <3>1, <3>2, <3>3
  <2>4. log' = log /\ Pc' # "acking"
    BY <1>1, <1>3
  <2> QED
    BY <1>11, <2>1, <2>2, <2>3, <2>4 DEF Order, Lined
<1>14. Anchored'
  BY <1>1, <1>3, <1>6, <1>9, <1>11, AnchoredKept DEF Order, Opened
<1>15. Covered'
  <2>1. \A r \in Rounds(log) : log[r].at \in 0 .. from
    BY DEF Order, Anchored
  <2>2. \A r \in Rounds(log) : log[r].at < to
    BY <1>6, <2>1
  <2> QED
    BY <1>1, <1>3, <1>6, <1>9, <1>11, <2>2 DEF Covered, BeforeRound
<1> QED
  BY <1>3, <1>9, <1>12, <1>13, <1>14, <1>15 DEF Order

\* A set of naturals with an upper bound has a greatest element.
LEMMA MaxTyped ==
  ASSUME NEW n \in Nat, NEW S \in SUBSET (0 .. n), S # {}
  PROVE  Max(S) \in S /\ \A y \in S : y <= Max(S)
<1> DEFINE T == {n - x : x \in S}
<1>1. T \in SUBSET Nat /\ T # {}
  <2>1. \A x \in S : n - x \in Nat
    OBVIOUS
  <2>2. PICK x \in S : TRUE
    OBVIOUS
  <2>3. n - x \in T
    BY <2>2
  <2> QED
    BY <2>1, <2>3
<1>2. Min(T) \in T /\ \A y \in T : Min(T) <= y
  BY <1>1, MinTyped
<1>3. PICK x \in S : Min(T) = n - x
  BY <1>2
<1>4. \A y \in S : y <= x
  <2>1. ASSUME NEW y \in S
        PROVE  y <= x
    <3>1. n - y \in T
      OBVIOUS
    <3>2. n - x <= n - y
      BY <1>2, <1>3, <3>1
    <3> QED
      BY <3>2
  <2> QED
    BY <2>1
<1>5. \E z \in S : \A y \in S : z >= y
  BY <1>4
<1>6. Max(S) \in S /\ \A y \in S : Max(S) >= y
  BY <1>5 DEF Max
<1> QED
  BY <1>6

LEMMA RoundNoteCalm ==
  ASSUME ExInv, IsASeq(audit), Order, faults = 0, faults' = 0, NEW e \in DOMAIN ends, RoundNote(e)
  PROVE  Order'
<1> DEFINE n == Len(log) + 1
           x == RoundEntry(bus.cursor, Cardinality(ends[e].ids), ends[e].pending, ends[e].next,
                           ends[e].known, Len(audit))
           l == [ends[e] EXCEPT !.pc = IF ends[e].ids = {} THEN "closing" ELSE "giving",
                                !.round = n]
           due == ends[e].ids # {} \/ bus.cursor # LastRoundCursor(log)
<1>1. /\ ends[e].pc = "round" /\ UNCHANGED <<rows, bus, audit, clientVars>>
      /\ IF due THEN log' = Append(log, x) /\ To(e, l) ELSE To(e, At(e, "answer")) /\ log' = log
  <2>1. ~Fault
    BY DEF Fault
  <2> QED
    BY <2>1 DEF RoundNote, Note
<1>2. ends[e] \in End
  BY EndTyped
<1>3. ends[e].ids \subseteq 1 .. rows /\ Pc = "round"
  BY <1>1 DEF Order, Alone, Seen, Cur, Pc
<1>4. bus.cursor \in Nat /\ Len(audit) \in Nat /\ IsASeq(log)
  BY BusInts
<1>5. Rounds(log) = {} => LastRoundCursor(log) = 0
  BY DEF LastRoundCursor
<1>6. CASE due
  <2>1. l.pc = (IF ends[e].ids = {} THEN "closing" ELSE "giving") /\ l.ids = ends[e].ids /\ l.round = n
    BY <1>2 DEF End
  <2>2. x.kind = "pickup" /\ x.dec = "accepted" /\ x.anchor = Len(audit) /\ x.at = bus.cursor
    BY DEF RoundEntry
  <2>3. Grown(log, x, log', n)
    BY <1>1, <1>4, <1>6, AppendGrows
  <2> HIDE DEF x, l, due, n
  <2>4. /\ Pc' = l.pc /\ Cur' = l /\ Reached' = Reached /\ Alone' /\ UNCHANGED <<cl, rs>>
    BY <1>1, <1>6, <2>1, EndGo DEF Order, CalmPcs, Opened
  <2>5. Acks(log') = Acks(log) /\ Rounds(log') = Rounds(log) \cup {n} /\ Closes(log') = Closes(log)
    BY <2>2, <2>3, GrownKinds
  <2>6. /\ n \in Nat /\ log'[n] = x /\ n \notin DOMAIN log
        /\ \A i \in DOMAIN log : log'[i] = log[i] /\ i < n /\ i \in Nat
    BY <2>3 DEF Grown
  <2>7. Seen'
    BY <1>1, <1>3, <2>1, <2>4, SeenKept DEF Order
  <2>8. Lined'
    BY <1>1, <1>3, <2>1, <2>4, <2>5, <2>6, LinedKept, KindsIn DEF Order
  <2>9. Pc' \in Opened /\ Cur'.round = n
    BY <2>1, <2>4 DEF Opened
  <2>10. /\ \A r \in Rounds(log) : log'[r] = log[r] /\ r < n /\ r \in Nat
         /\ \A c \in Closes(log) : log'[c] = log[c] /\ c < n /\ c \in Nat
    BY <2>6, KindsIn
  <2>11. Anchored'
    <3>1. \A r \in Rounds(log') : log'[r].anchor \in 0 .. Len(audit') /\ log'[r].at \in 0 .. bus'.cursor
      BY <1>1, <1>4, <2>2, <2>5, <2>6, <2>10 DEF Order, Anchored
    <3>2. ASSUME NEW c \in Closes(log')
          PROVE  /\ log'[c].round \in Rounds(log) /\ log'[c].round < c
                 /\ log'[c].anchor \in log'[log'[c].round].anchor .. Len(audit')
      <4>1. c \in Closes(log) /\ log'[c] = log[c]
        BY <2>5, <2>10
      <4>2. /\ log[c].round \in Rounds(log) /\ log[c].round < c
            /\ log[c].anchor \in log[log[c].round].anchor .. Len(audit)
        BY <4>1 DEF Order, Anchored
      <4>3. log'[log[c].round] = log[log[c].round]
        BY <2>10, <4>2
      <4> QED
        BY <1>1, <4>1, <4>2, <4>3
    <3>3. \A c, d \in Closes(log') : log'[c].round = log'[d].round => c = d
      BY <2>5, <2>10 DEF Order, Anchored
    <3>4. ASSUME NEW r \in Rounds(log'), r # n
          PROVE  \E c \in Closes(log') : log'[c].round = r /\ \A q \in Rounds(log') : q > r => c < q
      <4>1. r \in Rounds(log)
        BY <2>5, <3>4
      <4>2. PICK c \in Closes(log) : log[c].round = r /\ \A q \in Rounds(log) : q > r => c < q
        BY <1>3, <4>1 DEF Order, Anchored, Opened
      <4> QED
        BY <2>5, <2>10, <4>2
    <3>5. \A q \in Rounds(log') : q <= n
      BY <2>5, <2>6, <2>10
    <3>6. \A c \in Closes(log') : log'[c].round # n
      BY <2>5, <2>10, <3>2
    <3> QED
      BY <2>5, <2>9, <3>1, <3>2, <3>3, <3>4, <3>5, <3>6 DEF Anchored
  <2>12. Covered'
    <3>1. ASSUME audit = <<>>
          PROVE  bus.cursor = 0 /\ Pc' = "giving"
      <4>1. bus.cursor = 0 /\ Rounds(log) = {}
        BY <1>3, <3>1 DEF Order, Covered
      <4>2. ends[e].ids # {}
        BY <1>5, <1>6, <4>1 DEF due
      <4> QED
        BY <2>1, <2>4, <4>1, <4>2
    <3> QED
      BY <1>1, <2>9, <3>1 DEF Covered
  <2> QED
    BY <2>4, <2>7, <2>8, <2>11, <2>12 DEF Order
<1>7. CASE ~due
  <2>1. To(e, At(e, "answer")) /\ log' = log /\ ends[e].ids = {} /\ bus.cursor = LastRoundCursor(log)
    BY <1>1, <1>7
  <2> HIDE DEF due
  <2>2. At(e, "answer").pc = "answer" /\ At(e, "answer").ids = {}
    BY <1>2, <2>1 DEF At, End
  <2>3. /\ Pc' = "answer" /\ Cur'.ids = {} /\ Reached' = Reached /\ Alone' /\ UNCHANGED <<cl, rs>>
    BY <1>1, <2>1, <2>2, EndGo DEF Order, CalmPcs
  <2>4. Seen'
    BY <1>1, <2>3, SeenKept DEF Order
  <2>5. Lined'
    BY <1>1, <1>3, <2>1, <2>3, LinedKept DEF Order
  <2>6. Anchored'
    BY <1>1, <1>3, <1>4, <2>1, <2>3, AnchoredKept DEF Order, Opened
  <2>7. ~(bus.cursor > 0 /\ \A r \in Rounds(log) : log[r].at < bus.cursor)
    <3>1. CASE Rounds(log) = {}
      BY <1>4, <1>5, <2>1, <3>1
    <3>2. CASE Rounds(log) # {}
      <4>1. Rounds(log) \subseteq 0 .. Len(log) /\ Len(log) \in Nat
        BY <1>4, AppendAt, KindsIn
      <4>2. Max(Rounds(log)) \in Rounds(log)
        BY <3>2, <4>1, MaxTyped
      <4>3. log[Max(Rounds(log))].at = bus.cursor
        BY <2>1, <3>2 DEF LastRoundCursor
      <4> QED
        BY <1>4, <4>2, <4>3
    <3> QED
      BY <3>1, <3>2
  <2>8. Covered'
    BY <1>1, <1>3, <2>1, <2>3, <2>7 DEF Order, Covered, Opened
  <2> QED
    BY <2>3, <2>4, <2>5, <2>6, <2>8 DEF Order
<1> QED
  BY <1>6, <1>7

LEMMA GivenCalm ==
  ASSUME ExInv, IsASeq(audit), Order, faults = 0, faults' = 0, NEW e \in DOMAIN ends, GivenNote(e)
  PROVE  Order'
<1> DEFINE x == GivenEntry(Min(ends[e].left))
           l == [ends[e] EXCEPT !.left = @ \ {Min(@)},
                                !.pc = IF ends[e].left = {Min(ends[e].left)} THEN "marking" ELSE @]
<1>1. /\ ends[e].pc = "giving" /\ UNCHANGED <<rows, bus, audit, clientVars>>
      /\ log' = Append(log, x) /\ To(e, l)
  <2>1. ~Fault
    BY DEF Fault
  <2> QED
    BY <2>1 DEF GivenNote, Note
<1>2. l.pc \in {"giving", "marking"} /\ l.ids = ends[e].ids /\ l.round = ends[e].round
  BY <1>1, EndTyped DEF End
<1>3. x.kind = "pickup" /\ x.dec = "delivered"
  BY DEF GivenEntry
<1> HIDE DEF x, l
<1>4. SameEntries
  BY <1>1, <1>3, PlainEntry, BusInts
<1>5. /\ Pc = "giving" /\ Cur = ends[e] /\ cl.pc = "sent" /\ Pc' = l.pc /\ Cur' = l
      /\ Reached' = Reached /\ Alone' /\ UNCHANGED <<cl, rs>>
  BY <1>1, <1>2, EndGo DEF Order, CalmPcs, Opened
<1>6. Pc' \in {"giving", "marking"} /\ Cur'.ids = Cur.ids /\ Cur'.round = Cur.round
  BY <1>2, <1>5
<1>7. Seen'
  BY <1>1, <1>5, <1>6, SeenKept DEF Order, Seen
<1>8. Lined'
  BY <1>1, <1>4, <1>5, <1>6, LinedKept, KindsIn DEF Order, SameEntries
<1>9. Anchored'
  BY <1>1, <1>4, <1>5, <1>6, AnchoredKept, KindsIn, BusInts DEF Order, Opened, SameEntries
<1>10. Covered'
  BY <1>1, <1>5, <1>6 DEF Order, Covered, Opened
<1> QED
  BY <1>5, <1>7, <1>8, <1>9, <1>10 DEF Order

Listed(f, c) == \E S : f \in [1 .. c -> S]

\* t is s with the c entries of f behind it.
Joined(s, f, c, t) ==
    /\ IsASeq(t) /\ Len(s) \in Nat /\ Len(t) = Len(s) + c
    /\ DOMAIN s = 1 .. Len(s) /\ DOMAIN t = 1 .. Len(s) + c
    /\ \A i \in 1 .. Len(s) : t[i] = s[i]
    /\ \A i \in 1 .. c : t[Len(s) + i] = f[i]

LEMMA ConcatAt ==
  ASSUME NEW s, IsASeq(s), NEW c \in Nat, NEW f, Listed(f, c)
  PROVE  Joined(s, f, c, s \o f)
<1>1. PICK R : s \in Seq(R)
  BY DEF IsASeq
<1>2. PICK S : f \in [1 .. c -> S]
  BY DEF Listed
<1>3. s \in Seq(R \cup S) /\ f \in Seq(R \cup S) /\ Len(f) = c
  BY <1>1, <1>2
<1>4. s \o f \in Seq(R \cup S)
  BY <1>3
<1>5. IsASeq(s \o f)
  BY <1>4 DEF IsASeq
<1> QED
  BY <1>3, <1>5 DEF Joined

LEMMA MarkDoCalm ==
  ASSUME ExInv, IsASeq(audit), Order, faults = 0, faults' = 0, NEW e \in DOMAIN ends, MarkDo(e)
  PROVE  Order' /\ IsASeq(audit')
<1> DEFINE ids == ends[e].ids
           c == Cardinality(ids)
           row(k) == LET i == SetToSortSeq(ids, <)[k]
                     IN  [op |-> "remote_delivered", from |-> i, to |-> i, skipped |-> 0]
           f == [k \in 1 .. c |-> row(k)]
           l == At(e, "closing")
<1>1. /\ ends[e].pc = "marking" /\ UNCHANGED <<rows, log, clientVars>>
      /\ bus' = [bus EXCEPT !.read = @ \cup ids, !.level = LevelOf(bus.read \cup ids)]
      /\ audit' = audit \o f /\ To(e, l)
  <2>1. ~Fault
    BY DEF Fault
  <2> QED
    BY <2>1 DEF MarkDo
<1>2. l.pc = "closing" /\ l.ids = ids /\ l.round = ends[e].round
  BY EndTyped DEF End, At
<1>3. /\ Pc = "marking" /\ Cur = ends[e] /\ cl.pc = "sent" /\ Pc' = "closing" /\ Cur' = l
      /\ Reached' = Reached /\ Alone' /\ UNCHANGED <<cl, rs>>
  BY <1>1, <1>2, EndGo DEF Order, CalmPcs, Opened
<1>4. ids # {} /\ ids \subseteq 1 .. rows /\ bus.read \subseteq 1 .. rows
  BY <1>3 DEF Order, Seen
<1>5. c \in Nat /\ c > 0
  <2>1. IsFiniteSet(ids)
    <3>1. 1 \in Int /\ rows \in Int
      BY BusInts
    <3>2. IsFiniteSet(1 .. rows)
      BY <3>1, FS_Interval
    <3> QED
      BY <1>4, <3>2, FS_Subset
  <2> QED
    BY <1>4, <2>1, FS_CardinalityType, FS_EmptySet
<1>6. \A k \in 1 .. c : f[k].op # "ack"
  <2>1. \A k : row(k).op = "remote_delivered"
    OBVIOUS
  <2> HIDE DEF row, c
  <2> QED
    BY <2>1
<1>7. Listed(f, c)
  <2> HIDE DEF row, c
  <2>1. f \in [1 .. c -> {row(k) : k \in 1 .. c}]
    OBVIOUS
  <2> HIDE DEF f
  <2> QED
    BY <2>1 DEF Listed
<1> HIDE DEF f, row, c, l
<1>8. /\ IsASeq(audit') /\ Len(audit) \in Nat /\ Len(audit') = Len(audit) + c
      /\ DOMAIN audit = 1 .. Len(audit) /\ DOMAIN audit' = 1 .. Len(audit) + c
      /\ \A k \in 1 .. Len(audit) : audit'[k] = audit[k]
      /\ \A k \in 1 .. c : audit'[Len(audit) + k] = f[k]
  <2>1. Joined(audit, f, c, audit \o f)
    BY <1>5, <1>7, ConcatAt
  <2>2. audit' = audit \o f
    BY <1>1
  <2>3. Joined(audit, f, c, audit')
    BY <2>1, <2>2
  <2> QED
    BY <2>3 DEF Joined
<1>9. /\ AuditAcks(audit') = AuditAcks(audit)
      /\ \A k \in AuditAcks(audit) : audit'[k] = audit[k]
  <2>1. ASSUME NEW k \in 1 .. Len(audit)
        PROVE  k \in AuditAcks(audit') <=> k \in AuditAcks(audit)
    BY <1>5, <1>8, <2>1, KindsOf
  <2>2. ASSUME NEW k \in 1 .. Len(audit) + c, k \notin 1 .. Len(audit)
        PROVE  k \notin AuditAcks(audit')
    <3>1. k - Len(audit) \in 1 .. c /\ k = Len(audit) + (k - Len(audit))
      BY <1>5, <1>8, <2>2
    <3>2. audit'[k].op # "ack"
      BY <1>6, <1>8, <3>1
    <3> QED
      BY <3>2, KindsOf
  <2>3. AuditAcks(audit') \subseteq 1 .. Len(audit) + c /\ AuditAcks(audit) \subseteq 1 .. Len(audit)
    BY <1>8, KindsIn
  <2>4. 1 .. Len(audit) \subseteq 1 .. Len(audit) + c
    BY <1>5, <1>8
  <2> QED
    BY <1>8, <2>1, <2>2, <2>3, <2>4
<1>10. bus'.cursor = bus.cursor /\ bus'.read = bus.read \cup ids
  BY <1>1 DEF ExInv, Typed
<1>11. Seen'
  BY <1>1, <1>2, <1>3, <1>4, <1>10 DEF Order, Seen
<1>12. Lined'
  BY <1>1, <1>3, <1>9, <1>10, LinedKept DEF Order
<1>13. Anchored'
  <2>1. Len(audit') \in Nat /\ Len(audit) <= Len(audit')
    BY <1>5, <1>8
  <2>2. Cur'.round = Cur.round
    BY <1>2, <1>3
  <2> QED
    BY <1>1, <1>3, <1>8, <1>10, <2>1, <2>2, AnchoredKept, BusInts DEF Order, Opened
<1>14. Covered'
  <2>1. audit' # <<>>
    BY <1>5, <1>8
  <2> QED
    BY <1>3, <2>1 DEF Covered, Opened
<1> QED
  BY <1>3, <1>8, <1>11, <1>12, <1>13, <1>14 DEF Order

LEMMA CloseCalm ==
  ASSUME ExInv, IsASeq(audit), Order, faults = 0, faults' = 0, NEW e \in DOMAIN ends, CloseNote(e)
  PROVE  Order'
<1> DEFINE n == Len(log) + 1
           x == CloseEntry(ends[e].round, Len(audit))
           l == At(e, "answer")
<1>1. /\ ends[e].pc = "closing" /\ UNCHANGED <<rows, bus, audit, clientVars>>
      /\ log' = Append(log, x) /\ To(e, l)
  <2>1. ~Fault
    BY DEF Fault
  <2> QED
    BY <2>1 DEF CloseNote, CloseAnchor
<1>2. l.pc = "answer" /\ l.ids = ends[e].ids
  BY EndTyped DEF End, At
<1>3. x.kind = "close" /\ x.round = ends[e].round /\ x.anchor = Len(audit)
  BY DEF CloseEntry
<1>4. Grown(log, x, log', n)
  BY <1>1, AppendGrows, BusInts
<1> HIDE DEF x, l, n
<1>5. /\ Pc = "closing" /\ Cur = ends[e] /\ cl.pc = "sent" /\ Pc' = "answer" /\ Cur' = l
      /\ Reached' = Reached /\ Alone' /\ UNCHANGED <<cl, rs>>
  BY <1>1, <1>2, EndGo DEF Order, CalmPcs, Opened
<1>6. Acks(log') = Acks(log) /\ Rounds(log') = Rounds(log) /\ Closes(log') = Closes(log) \cup {n}
  BY <1>3, <1>4, GrownKinds
<1>7. /\ n \in Nat /\ log'[n] = x
      /\ \A i \in DOMAIN log : log'[i] = log[i] /\ i < n /\ i \in Nat
  BY <1>4 DEF Grown
<1>8. /\ \A r \in Rounds(log) : log'[r] = log[r] /\ r < n /\ r \in Nat
      /\ \A c \in Closes(log) : log'[c] = log[c] /\ c < n /\ c \in Nat
      /\ \A i \in Acks(log) : log'[i] = log[i]
  BY <1>7, KindsIn
<1>9. Seen'
  BY <1>1, <1>2, <1>5, SeenKept DEF Order, Seen
<1>10. Lined'
  BY <1>1, <1>5, <1>6, <1>8, LinedKept DEF Order
<1>11. /\ x.round \in Rounds(log) /\ \A q \in Rounds(log) : q <= x.round
       /\ \A c \in Closes(log) : log[c].round # x.round
  BY <1>3, <1>5 DEF Order, Anchored, Opened
<1>12. Anchored'
  <2>1. Len(audit) \in Nat
    BY BusInts
  <2>2. \A r \in Rounds(log') : log'[r].anchor \in 0 .. Len(audit') /\ log'[r].at \in 0 .. bus'.cursor
    BY <1>1, <1>6, <1>8 DEF Order, Anchored
  <2>3. ASSUME NEW c \in Closes(log')
        PROVE  /\ log'[c].round \in Rounds(log') /\ log'[c].round < c
               /\ log'[c].anchor \in log'[log'[c].round].anchor .. Len(audit')
    <3>1. CASE c = n
      <4>1. log'[x.round] = log[x.round] /\ x.round < n
        BY <1>8, <1>11
      <4>2. log[x.round].anchor \in 0 .. Len(audit)
        BY <1>11 DEF Order, Anchored
      <4> QED
        <5>1. log'[c] = x /\ log'[c].round = x.round /\ log'[c].anchor = Len(audit)
          BY <1>3, <1>7, <3>1
        <5>2. Len(audit) \in log[x.round].anchor .. Len(audit)
          BY <2>1, <4>2
        <5> QED
          BY <1>1, <1>6, <1>11, <3>1, <4>1, <5>1, <5>2
    <3>2. CASE c \in Closes(log)
      <4>1. /\ log[c].round \in Rounds(log) /\ log[c].round < c
            /\ log[c].anchor \in log[log[c].round].anchor .. Len(audit)
        BY <3>2 DEF Order, Anchored
      <4>2. log'[log[c].round] = log[log[c].round] /\ log'[c] = log[c]
        BY <1>8, <3>2, <4>1
      <4> QED
        BY <1>1, <1>6, <4>1, <4>2
    <3> QED
      BY <1>6, <3>1, <3>2
  <2>4. \A c, d \in Closes(log') : log'[c].round = log'[d].round => c = d
    BY <1>6, <1>7, <1>8, <1>11 DEF Order, Anchored
  <2>5. ASSUME NEW r \in Rounds(log')
        PROVE  \E c \in Closes(log') : log'[c].round = r /\ \A q \in Rounds(log') : q > r => c < q
    <3>1. CASE r = x.round
      <4>1. \A q \in Rounds(log') : ~(q > r)
        BY <1>6, <1>8, <1>11, <3>1
      <4>2. n \in Closes(log') /\ log'[n].round = r
        BY <1>6, <1>7, <3>1
      <4> QED
        BY <4>1, <4>2
    <3>2. CASE r # x.round
      <4>1. PICK c \in Closes(log) : log[c].round = r /\ \A q \in Rounds(log) : q > r => c < q
        BY <1>3, <1>5, <1>6, <3>2 DEF Order, Anchored
      <4> QED
        BY <1>6, <1>8, <4>1
    <3> QED
      BY <3>1, <3>2
  <2> QED
    BY <1>5, <2>2, <2>3, <2>4, <2>5 DEF Anchored, Opened
<1>13. Covered'
  <2>1. n \in Closes(log') /\ log'[n].anchor = Len(audit')
    BY <1>1, <1>3, <1>6, <1>7
  <2>2. audit # <<>>
    BY <1>5, <1>11 DEF Order, Covered
  <2> QED
    BY <1>1, <2>1, <2>2 DEF Covered
<1> QED
  BY <1>5, <1>9, <1>10, <1>12, <1>13 DEF Order

LEMMA RequestCalm ==
  ASSUME ExInv, IsASeq(audit), Order, faults = 0, faults' = 0, NEW items, Request(items)
  PROVE  Order'
<1> DEFINE r == [sent |-> items, ack |-> AckValue, received |-> {}, outcome |-> "unknown"]
           q == [sent |-> items, ack |-> AckValue, received |-> {}, outcome |-> ""]
           l == [Off EXCEPT !.pc = ToAck(q)]
<1>1. /\ cl.pc = "idle" /\ Round < MaxRounds /\ rs' = Append(rs, r)
      /\ cl' = [pc |-> "sent", top |-> savedMax, left |-> {}]
      /\ To(Round + 1, l) /\ UNCHANGED <<rows, bus, audit, log, savedMax>>
  <2>1. ~Fault
    BY DEF Fault
  <2> QED
    BY <2>1 DEF Request
<1>2. l.pc \in {"ack", "item", "peek"} /\ l.ids = {}
  BY DEF Off, ToAck, ToItems
<1> HIDE DEF r, l
<1>3. Len(rs) \in Nat /\ Round = Len(rs) /\ Round' = Round + 1
  BY <1>1 DEF ExInv, Typed, Round
<1>4. Round + 1 \in DOMAIN ends /\ DOMAIN ends = 1 .. MaxRounds
  BY <1>1, <1>3, ExchangeAssumption DEF ExInv, Typed
<1>5. /\ DOMAIN ends' = DOMAIN ends /\ ends'[Round + 1] = l
      /\ \A d \in DOMAIN ends \ {Round + 1} : ends'[d] = ends[d]
  BY <1>1, <1>4 DEF To
<1>6. Pc = "rest" /\ Pc' = l.pc /\ Cur' = l /\ cl'.pc = "sent" /\ Reached' = Reached
  BY <1>1, <1>3, <1>5 DEF Pc, Cur, Reached
<1>7. Alone'
  BY <1>1, <1>2, <1>3, <1>5, <1>6 DEF Order, Alone, CalmPcs, BeforeRound
<1>8. Seen'
  BY <1>1, <1>2, <1>6 DEF Order, Seen
<1>9. Lined'
  BY <1>1, <1>2, <1>6, LinedKept DEF Order
<1>10. Anchored'
  BY <1>1, <1>2, <1>6, AnchoredKept, BusInts DEF Order, Opened
<1>11. Covered'
  BY <1>1, <1>2, <1>6 DEF Order, Covered, Opened, BeforeRound
<1> QED
  BY <1>7, <1>8, <1>9, <1>10, <1>11 DEF Order

\* The client and the mail, between two endpoints.
LEMMA ClientCalm ==
  ASSUME ExInv, IsASeq(audit), Order, faults = 0, faults' = 0, UNCHANGED <<bus, audit, log>>,
         Alone', Seen', Pc # "acking" \/ Aim' = Aim, Pc' = Pc \/ (Pc = "answer" /\ Pc' = "rest"),
         Pc \in Opened => Cur'.round = Cur.round
  PROVE  Order'
<1>1. Lined'
  BY LinedKept DEF Order
<1>2. Anchored'
  BY AnchoredKept, BusInts DEF Order, Opened
<1>3. Covered'
  BY DEF Order, Covered, Opened, BeforeRound
<1> QED
  BY <1>1, <1>2, <1>3 DEF Order

LEMMA ReceiveCalm ==
  ASSUME ExInv, IsASeq(audit), Order, faults = 0, faults' = 0, Receive
  PROVE  Order'
<1> DEFINE l == ends[Round]
<1>1. /\ cl.pc = "sent" /\ l.pc = "answer" /\ UNCHANGED <<rows, bus, audit, log, savedMax>>
      /\ cl' = [cl EXCEPT !.pc = "storing", !.left = l.ids]
      /\ To(Round, At(Round, "done"))
      /\ rs' = [rs EXCEPT ![Round].received = l.ids,
                          ![Round].outcome = IF l.err THEN "reached" ELSE "delivered"]
  BY DEF Receive
<1>2. Round' = Round /\ Round \in DOMAIN ends
  <2>1. Len(rs) \in Nat /\ Len(rs') = Len(rs)
    BY <1>1 DEF ExInv, Typed, Round
  <2>2. Round \in DOMAIN rs /\ DOMAIN rs = 1 .. Len(rs) /\ DOMAIN ends = 1 .. MaxRounds
    BY <1>1 DEF ExInv, Typed, Storing, Round
  <2> QED
    BY <2>1, <2>2, ExchangeAssumption DEF Round, ExInv, Typed
<1>3. /\ cl'.pc = "storing" /\ cl'.left = l.ids /\ cl'.top = cl.top
      /\ DOMAIN ends' = DOMAIN ends /\ ends'[Round].pc = "done"
      /\ \A d \in DOMAIN ends \ {Round} : ends'[d] = ends[d]
  BY <1>1, <1>2 DEF ExInv, Typed, To, At, End
<1>4. Pc = "answer" /\ Pc' = "rest" /\ Cur.ids = l.ids /\ Reached' = Reached
  BY <1>1, <1>3 DEF Pc, Cur, Reached
<1>5. Alone'
  BY <1>1, <1>2, <1>3, <1>4 DEF Order, Alone, CalmPcs
<1>6. Seen'
  BY <1>1, <1>3, <1>4 DEF Order, Seen
<1> QED
  BY <1>1, <1>4, <1>5, <1>6, ClientCalm DEF Opened

LEMMA StoreCalm ==
  ASSUME ExInv, IsASeq(audit), Order, faults = 0, faults' = 0, StoreNext \/ Save
  PROVE  Order'
<1>1. cl.pc = "storing" /\ UNCHANGED <<rows, bus, audit, log, ends, rs>>
  BY DEF StoreNext, Save, endVars
<1>2. Pc = "rest" /\ Pc' = "rest" /\ cl'.pc # "sent"
  BY <1>1 DEF Pc, StoreNext, Save, ExInv, Typed
<1>3. Alone'
  BY <1>1, <1>2 DEF Order, Alone, CalmPcs
<1>4. Seen'
  <2>1. CASE StoreNext
    <3> DEFINE rid == Min(cl.left)
    <3>1. /\ cl.left # {} /\ cl.left \subseteq Ids /\ cl.top \in Int
          /\ cl' = [cl EXCEPT !.left = @ \ {rid}, !.top = Max({@, rid})]
      BY <1>1, <2>1, BusTyped DEF StoreNext, ExInv, Typed
    <3>2. rid \in cl.left /\ rid \in Ids /\ rid \in Int
      <4>1. cl.left \in SUBSET Nat
        BY <3>1 DEF Ids
      <4> QED
        BY <3>1, <4>1, MinTyped, BusTyped
    <3> HIDE DEF rid
    <3>3. Max({cl.top, rid}) = IF cl.top >= rid THEN cl.top ELSE rid
      BY <3>1, <3>2, PairTyped
    <3>4. /\ cl'.pc = "storing" /\ cl'.left = cl.left \ {rid}
          /\ cl'.top = IF cl.top >= rid THEN cl.top ELSE rid
      BY <1>1, <3>1, <3>3 DEF ExInv, Typed
    <3>5. Reached = cl.top /\ Reached' = cl'.top
      BY <1>1, <3>4 DEF Reached
    <3>6. ASSUME NEW i \in Ids, i <= Reached'
          PROVE  i \in bus.read
      <4>1. CASE i <= cl.top
        BY <1>1, <3>5, <4>1 DEF Order, Seen
      <4>2. CASE ~(i <= cl.top)
        <5>1. i <= rid /\ i \in Int
          BY <3>1, <3>2, <3>4, <3>5, <3>6, <4>2, BusTyped
        <5>2. i = rid \/ i \in cl.left
          BY <1>1, <3>2, <4>2, <5>1 DEF ExInv, Storing, Gapless
        <5> QED
          BY <1>1, <3>2, <5>2 DEF Order, Seen
      <4> QED
        BY <4>1, <4>2
    <3> QED
      BY <1>1, <1>2, <3>4, <3>6 DEF Order, Seen
  <2>2. CASE Save
    <3>1. savedMax' = cl.top /\ cl'.pc = "idle"
      BY <2>2 DEF Save, ExInv, Typed
    <3>2. Reached' = Reached
      BY <1>1, <3>1 DEF Reached
    <3> QED
      BY <1>1, <1>2, <3>1, <3>2 DEF Order, Seen
  <2> QED
    BY <2>1, <2>2
<1> QED
  BY <1>1, <1>2, <1>3, <1>4, ClientCalm DEF Opened

LEMMA ArriveCalm ==
  ASSUME ExInv, IsASeq(audit), Order, faults = 0, faults' = 0, Arrive
  PROVE  Order'
<1>1. rows' = rows + 1 /\ rows \in Nat /\ UNCHANGED <<bus, audit, log, ends, rs, cl, savedMax>>
  BY BusInts DEF Arrive, endVars, clientVars
<1>2. Pc' = Pc /\ Cur' = Cur /\ Reached' = Reached /\ Alone'
  BY <1>1 DEF Order, Alone, Pc, Cur, Reached, Round
<1>3. Seen'
  <2>1. 1 .. rows \subseteq 1 .. rows'
    BY <1>1
  <2> QED
    BY <1>1, <1>2, <2>1 DEF Order, Seen
<1>4. Pc # "acking" \/ Aim' = Aim
  <2>1. SUFFICES ASSUME Pc = "acking"
                 PROVE  Aim' = Aim
    OBVIOUS
  <2>2. cl.pc = "sent" /\ Round \in DOMAIN rs
    BY <2>1 DEF Pc, ExInv, Storing, Round
  <2>3. rs[Round].ack \in Ids0 /\ rs[Round].ack <= savedMax
    <3>1. rs[Round] \in Receipt
      BY <2>2 DEF ExInv, Typed
    <3> QED
      BY <2>2, <3>1 DEF ExInv, Behind, Receipt
  <2>4. rs[Round].ack <= rows
    BY <2>3, SavedSeen, BusInts DEF Ids0
  <2> DEFINE upto == rs[Round].ack
  <2>5. Aim = Target(upto) /\ Aim' = Target(upto)' /\ upto' = upto
    BY <1>1 DEF Aim, Round
  <2>6. PICK u \in Ids0 : u = upto /\ u <= rows
    BY <2>3, <2>4
  <2>7. Target(u)' = Target(u)
    BY <1>1, <2>6, TargetStays DEF ExInv
  <2>8. Aim = Target(u) /\ Aim' = Target(u)'
    BY <1>1, <2>6 DEF Aim, Round, Target
  <2> QED
    BY <2>7, <2>8
<1> QED
  BY <1>1, <1>2, <1>3, <1>4, ClientCalm

LEMMA AuditIsASeq ==
  ASSUME ExInv, IsASeq(audit), [Next]_vars
  PROVE  IsASeq(audit')
<1>1. ASSUME NEW e \in DOMAIN ends, AckDo(e)
      PROVE  IsASeq(audit')
  <2>1. audit' = audit \/ \E x : audit' = Append(audit, x)
    BY <1>1, Zenon DEF AckDo
  <2>2. ASSUME NEW x, audit' = Append(audit, x)
        PROVE  IsASeq(audit')
    BY <2>2, AppendSeq
  <2> QED
    BY <2>1, <2>2
<1>2. ASSUME NEW e \in DOMAIN ends, MarkDo(e)
      PROVE  IsASeq(audit')
  <2> DEFINE ids == ends[e].ids
             c == Cardinality(ids)
             row(k) == LET i == SetToSortSeq(ids, <)[k]
                       IN  [op |-> "remote_delivered", from |-> i, to |-> i, skipped |-> 0]
             f == [k \in 1 .. c |-> row(k)]
  <2>1. audit' = audit \/ audit' = audit \o f
    BY <1>2 DEF MarkDo
  <2>2. c \in Nat
    BY EndTyped, CountTyped, IdsTyped DEF End
  <2>3. f \in [1 .. c -> {row(k) : k \in 1 .. c}]
    <3> HIDE DEF row, c
    <3> QED
      OBVIOUS
  <2> HIDE DEF f, row, c
  <2>4. IsASeq(audit \o f)
    BY <2>2, <2>3, ConcatAt DEF Listed, Joined
  <2> QED
    BY <2>1, <2>4
<1>3. ASSUME NEW e \in DOMAIN ends, Endpoint(e), ~AckDo(e), ~MarkDo(e)
      PROVE  UNCHANGED audit
  BY <1>3 DEF Endpoint, AckNote, AckFailNote, ItemNote, ItemDo, ItemFailNote, Peek, Measure, RoundNote,
              GivenNote, MarkFailNote, CloseNote, Kill
<1>4. CASE Client \/ Arrive \/ UNCHANGED vars
  BY <1>4 DEF Client, Request, Receive, GiveUp, StoreNext, Save, StoreCut, Arrive, endVars, vars
<1> QED
  BY <1>1, <1>2, <1>3, <1>4 DEF Next

LEMMA CrossInit == Init => CrossInv
<1> SUFFICES ASSUME Init
             PROVE  CrossInv
  OBVIOUS
<1>1. /\ audit = <<>> /\ log = <<>> /\ bus = [cursor |-> 0, level |-> 0, read |-> {}] /\ rows = 0
      /\ cl = [pc |-> "idle", top |-> 0, left |-> {}] /\ savedMax = 0 /\ faults = 0
      /\ ends = [e \in 1 .. MaxRounds |-> Off]
  BY DEF Init
<1>2. Acks(log) = {} /\ Rounds(log) = {} /\ Closes(log) = {} /\ AuditAcks(audit) = {}
  BY <1>1, KindsIn
<1>3. Pc = "rest" /\ Reached = 0
  BY <1>1 DEF Pc, Reached
<1>4. Alone
  BY <1>1, <1>3 DEF Alone, CalmPcs, Off
<1>5. Seen
  BY <1>1, <1>3 DEF Seen, Ids
<1>6. Lined /\ Anchored /\ Covered
  BY <1>1, <1>2, <1>3 DEF Lined, Anchored, Covered, Opened
<1>7. IsASeq(audit)
  <2>1. audit \in Seq({})
    BY <1>1
  <2> QED
    BY <2>1 DEF IsASeq
<1> QED
  BY <1>1, <1>4, <1>5, <1>6, <1>7 DEF CrossInv, Order

LEMMA CrossStep == ExInv /\ CrossInv /\ [Next]_vars => CrossInv'
<1> SUFFICES ASSUME ExInv, CrossInv, [Next]_vars
             PROVE  CrossInv'
  OBVIOUS
<1>1. faults \in Nat /\ IsASeq(audit) /\ faults' \in Nat /\ IsASeq(audit')
  BY CalmBefore, AuditIsASeq DEF CrossInv
<1> SUFFICES ASSUME Calm'
             PROVE  Order'
  BY <1>1 DEF CrossInv
<1>2. faults' = 0 /\ faults = 0 /\ Calm
  BY <1>1, CalmBefore DEF Calm
<1>3. Order
  BY <1>2 DEF CrossInv
<1>4. ~Fault
  BY <1>2 DEF Fault
<1>5. ASSUME NEW e \in DOMAIN ends, Endpoint(e)
      PROVE  Order'
  <2>1. CASE AckNote(e) \/ AckDo(e)
    BY <1>1, <1>2, <1>3, <2>1, AckNoteCalm, AckDoCalm
  <2>2. CASE ItemNote(e) \/ ItemDo(e) \/ ItemFailNote(e)
    BY <1>1, <1>2, <1>3, <2>2, ItemCalm
  <2>3. CASE Peek(e) \/ Measure(e)
    BY <1>1, <1>2, <1>3, <2>3, PeekCalm
  <2>4. CASE RoundNote(e) \/ GivenNote(e)
    BY <1>1, <1>2, <1>3, <2>4, RoundNoteCalm, GivenCalm
  <2>5. CASE MarkDo(e) \/ CloseNote(e)
    BY <1>1, <1>2, <1>3, <2>5, MarkDoCalm, CloseCalm
  <2>6. CASE AckFailNote(e) \/ MarkFailNote(e)
    <3>1. ends[e].pc \in {"ackfailed", "markfailed"}
      BY <2>6 DEF AckFailNote, MarkFailNote
    <3>2. Pc = ends[e].pc
      BY <1>3, <3>1 DEF Order, Alone, Pc
    <3> QED
      BY <1>3, <3>1, <3>2 DEF Order, Alone, CalmPcs, BeforeRound, Opened
  <2>7. CASE Kill(e)
    BY <1>4, <2>7 DEF Kill
  <2> QED
    BY <1>5, <2>1, <2>2, <2>3, <2>4, <2>5, <2>6, <2>7 DEF Endpoint
<1>6. CASE Client
  <2>1. ~StoreCut
    BY <1>4 DEF StoreCut
  <2>2. ~GiveUp
    <3>1. SUFFICES ASSUME GiveUp
                   PROVE  FALSE
      OBVIOUS
    <3>2. cl.pc = "sent" /\ ends[Round].pc = "dead"
      BY <1>4, <3>1 DEF GiveUp
    <3> QED
      BY <1>3, <3>2 DEF Order, Alone, Pc, CalmPcs, BeforeRound, Opened
  <2> QED
    BY <1>1, <1>2, <1>3, <1>6, <2>1, <2>2, RequestCalm, ReceiveCalm, StoreCalm DEF Client
<1>7. CASE Arrive
  BY <1>1, <1>2, <1>3, <1>7, ArriveCalm
<1>8. CASE UNCHANGED vars
  <2>1. Pc' = Pc /\ Cur' = Cur /\ Reached' = Reached /\ Aim' = Aim /\ Round' = Round
    BY <1>8 DEF vars, Pc, Cur, Reached, Aim, Target, Round
  <2> QED
    BY <1>3, <1>8, <2>1 DEF vars, Order, Alone, Seen, Lined, Anchored, Covered
<1> QED
  BY <1>5, <1>6, <1>7, <1>8 DEF Next

\* The inductive invariant of the calm rounds.
THEOREM CrossCorrect == Spec => [](ExInv /\ CrossInv)
<1>1. Init => ExInv /\ CrossInv
  BY ExInit, CrossInit
<1>2. ExInv /\ CrossInv /\ [Next]_vars => (ExInv /\ CrossInv)'
  BY ExStep, CrossStep
<1> QED
  BY <1>1, <1>2, PTL DEF Spec

-----------------------------------------------------------------------------
(* What the comparison with the audit rows says of such a log *)

\* Each logged ack pairs with one row, each row with one logged ack.
LEMMA Paired ==
  ASSUME IsASeq(log), IsASeq(audit), Order, Pc # "acking", NEW i \in Acks(log)
  PROVE  \E k \in AuditAcks(audit) : Step(audit[k]) = Step(log[i]) /\ PairByStep(log, audit, i) = {k}
<1>1. PICK k \in AuditAcks(audit) : Step(audit[k]) = Step(log[i])
  BY DEF Order, Lined
<1>2. audit[k].from = log[i].from
  BY <1>1 DEF Step
<1>0. i \in Nat /\ k \in Nat
  BY AppendAt, KindsIn
<1>3. {j \in Acks(log) : j < i /\ Step(log[j]) = Step(log[i])} = {}
  <2>1. ASSUME NEW j \in Acks(log), j < i, Step(log[j]) = Step(log[i])
        PROVE  FALSE
    <3>1. log[j].from = log[i].from
      BY <2>1 DEF Step
    <3>2. j = i
      BY <3>1 DEF Order, Lined
    <3> QED
      BY <1>0, <2>1, <3>2
  <2> QED
    BY <2>1
<1>4. {m \in AuditAcks(audit) : Step(audit[m]) = Step(log[i])} = {k}
  <2>1. ASSUME NEW m \in AuditAcks(audit), Step(audit[m]) = Step(log[i])
        PROVE  m = k
    <3>1. audit[m].from = audit[k].from
      BY <1>2, <2>1 DEF Step
    <3> QED
      BY <3>1 DEF Order, Lined
  <2> QED
    BY <1>1, <2>1
<1>5. Nth({k}, 0) = {k}
  <2>1. {y \in {k} : y < k} = {}
    BY <1>0
  <2> QED
    BY <2>1, FS_EmptySet DEF Nth
<1>6. Cardinality({}) = 0
  BY FS_EmptySet
<1> QED
  BY <1>1, <1>3, <1>4, <1>5, <1>6 DEF PairByStep

LEMMA AllPaired ==
  ASSUME IsASeq(log), IsASeq(audit), Order, Pc # "acking"
  PROVE  /\ FreeAcks(log, audit) = {}
         /\ Cardinality(Acks(log)) \in Nat /\ Cardinality(Acks(log)) = Cardinality(AuditAcks(audit))
<1>1. FreeAcks(log, audit) = {}
  BY Paired DEF FreeAcks
<1> DEFINE A == Acks(log)
           R == AuditAcks(audit)
           f == [i \in A |-> CHOOSE k \in R : Step(audit[k]) = Step(log[i])]
<1>2. \A i \in A : f[i] \in R /\ Step(audit[f[i]]) = Step(log[i])
  BY Paired
<1>3. \A i, j \in A : f[i] = f[j] => i = j
  <2>1. ASSUME NEW i \in A, NEW j \in A, f[i] = f[j]
        PROVE  i = j
    <3>1. Step(log[i]) = Step(log[j])
      BY <1>2, <2>1
    <3>2. log[i].from = log[j].from
      BY <3>1 DEF Step
    <3> QED
      BY <3>2 DEF Order, Lined
  <2> QED
    BY <2>1
<1>4. \A k \in R : \E i \in A : f[i] = k
  <2>1. ASSUME NEW k \in R
        PROVE  \E i \in A : f[i] = k
    <3>1. PICK i \in A : Step(log[i]) = Step(audit[k])
      BY DEF Order, Lined
    <3>2. Step(audit[f[i]]) = Step(audit[k])
      BY <1>2, <3>1
    <3>3. audit[f[i]].from = audit[k].from
      BY <3>2 DEF Step
    <3>4. f[i] = k
      BY <1>2, <3>3 DEF Order, Lined
    <3> QED
      BY <3>4
  <2> QED
    BY <2>1
<1>5. f \in [A -> R]
  BY <1>2
<1> HIDE DEF f
<1>6. f \in Bijection(A, R)
  BY <1>3, <1>4, <1>5 DEF Bijection, Injection, Surjection, IsInjective
<1>7. ExistsBijection(A, R)
  BY <1>6 DEF ExistsBijection
<1>8. IsFiniteSet(A)
  <2>1. Len(log) \in Int /\ 1 \in Int /\ A \subseteq 1 .. Len(log)
    BY AppendAt, KindsIn
  <2>2. IsFiniteSet(1 .. Len(log))
    BY <2>1, FS_Interval
  <2> QED
    BY <2>1, <2>2, FS_Subset
<1> QED
  BY <1>1, <1>7, <1>8, FS_Bijection, FS_CardinalityType

LEMMA CloseTyped ==
  ASSUME IsASeq(log), Order, Pc \notin Opened
  PROVE  /\ \A r \in Rounds(log) : \A c \in CloseOf(log, r) : c \in Closes(log) /\ log[c].round = r
         /\ \A r \in Rounds(log) : CloseOf(log, r) # {}
         /\ \A c \in Closes(log) : c \in CloseOf(log, log[c].round)
<1> DEFINE mine(r) == {c \in Closes(log) : /\ c > r /\ log[c].round = r
                                           /\ \A q \in Rounds(log) : q > r => c < q}
<1>1. \A r : CloseOf(log, r) = IF mine(r) = {} THEN {} ELSE {Min(mine(r))}
  BY DEF CloseOf
<1>2. ASSUME NEW r \in Rounds(log)
      PROVE  mine(r) # {} /\ Min(mine(r)) \in mine(r)
  <2>1. PICK c \in Closes(log) : log[c].round = r /\ \A q \in Rounds(log) : q > r => c < q
    BY DEF Order, Anchored
  <2>2. r < c
    BY <2>1 DEF Order, Anchored
  <2>3. c \in Nat /\ r \in Nat
    BY AppendAt, KindsIn
  <2>4. c \in mine(r)
    BY <2>1, <2>2, <2>3
  <2>5. mine(r) \in SUBSET Nat
    BY AppendAt, KindsIn
  <2> QED
    BY <2>4, <2>5, MinTyped
<1>3. ASSUME NEW c \in Closes(log)
      PROVE  c \in CloseOf(log, log[c].round)
  <2> DEFINE r == log[c].round
  <2>1. r \in Rounds(log)
    BY DEF Order, Anchored
  <2>2. Min(mine(r)) \in Closes(log) /\ log[Min(mine(r))].round = r /\ mine(r) # {}
    BY <1>2, <2>1
  <2>3. Min(mine(r)) = c
    BY <2>2 DEF Order, Anchored
  <2> QED
    BY <1>1, <2>2, <2>3
<1>4. ASSUME NEW r \in Rounds(log)
      PROVE  CloseOf(log, r) # {} /\ \A c \in CloseOf(log, r) : c \in mine(r)
  <2>1. mine(r) # {} /\ Min(mine(r)) \in mine(r)
    BY <1>2
  <2>2. CloseOf(log, r) = IF mine(r) = {} THEN {} ELSE {Min(mine(r))}
    BY <1>1
  <2> HIDE DEF mine
  <2> QED
    BY <2>1, <2>2
<1>5. ASSUME NEW r \in Rounds(log), NEW c \in CloseOf(log, r)
      PROVE  c \in Closes(log) /\ log[c].round = r
  BY <1>4
<1> HIDE DEF mine
<1> QED
  BY <1>3, <1>4, <1>5

LEMMA CrossEmpty ==
  ASSUME IsASeq(log), IsASeq(audit), Order, Pc = "rest"
  PROVE  CrossHard(log, audit) \cup CrossSoft(log, audit) = {}
<1>1. FreeAcks(log, audit) = {} /\ HardCounts(log, audit) = {}
  BY AllPaired DEF HardCounts
<1>2. SkipAcks(log, audit) = {} /\ Unattributable(log, audit) = {}
  <2>1. \A k \in AuditAcks(audit) : ~(audit[k].skipped > 0)
    BY DEF Order, Lined
  <2> QED
    BY <2>1 DEF SkipAcks, Unattributable
<1>3. HardSkips(log, audit) = {}
  BY <1>2 DEF HardSkips
<1>4. Unclosed(log) = {}
  BY CloseTyped DEF Unclosed, Opened
<1>5. Len(audit) \in Nat /\ \A r \in Rounds(log) : log[r].anchor \in 0 .. Len(audit)
  BY AppendAt DEF Order, Anchored
<1>6. HardOpens(log, audit) = {}
  BY <1>5 DEF HardOpens
<1>7. ASSUME NEW r \in Rounds(log), NEW c \in CloseOf(log, r)
      PROVE  ~(log[c].anchor < log[r].anchor) /\ ~(log[c].anchor > Len(audit))
  <2>1. c \in Closes(log) /\ log[c].round = r
    BY <1>7, CloseTyped DEF Opened
  <2>2. log[c].anchor \in log[r].anchor .. Len(audit)
    BY <2>1 DEF Order, Anchored
  <2> QED
    BY <1>5, <2>2
<1>8. HardCloses(log, audit) = {}
  BY <1>7 DEF HardCloses
<1>9. audit = <<>> => Rounds(log) = {}
  BY DEF Order, Covered
<1>10. CrossHard(log, audit) = {}
  BY <1>1, <1>3, <1>6, <1>8, <1>9 DEF CrossHard
<1>11. CrossSoft(log, audit) = {}
  BY <1>2, <1>4 DEF CrossSoft
<1> QED
  BY <1>10, <1>11

LEMMA ShortFlagged ==
  ASSUME IsASeq(log), IsASeq(audit), Order, Pc = "rest", NEW n \in 0 .. Len(audit) - 1
  PROVE  CrossHard(log, SubSeq(audit, 1, n)) # {}
<1> DEFINE short == SubSeq(audit, 1, n)
<1>1. Len(audit) \in Nat /\ n < Len(audit) /\ n \in Nat /\ Len(short) = n /\ (short = <<>> => n = 0)
  <2>1. PICK S : audit \in Seq(S)
    BY DEF IsASeq
  <2>2. Len(audit) \in Nat /\ n \in Nat /\ n < Len(audit)
    BY <2>1
  <2>3. short \in Seq(S) /\ Len(short) = n
    BY <2>1, <2>2
  <2> QED
    BY <2>2, <2>3
<1>2. audit # <<>>
  BY <1>1
<1>3. PICK c \in Closes(log) : log[c].anchor = Len(audit)
  BY <1>2 DEF Order, Covered, Opened, BeforeRound
<1>4. log[c].round \in Rounds(log) /\ c \in CloseOf(log, log[c].round)
  BY CloseTyped DEF Order, Anchored, Opened
<1>5. log[c].anchor > Len(short)
  BY <1>1, <1>3
<1> HIDE DEF short
<1>6. CASE short = <<>>
  <2>1. CrossHard(log, short) = {<<"audit_evidence_absent", 0>>}
    BY <1>4, <1>6 DEF CrossHard
  <2> QED
    BY <2>1 DEF short
<1>7. CASE short # <<>>
  <2>1. <<"audit_close_not_covered", log[c].round>> \in HardCloses(log, short)
    BY <1>4, <1>5 DEF HardCloses
  <2>2. HardCloses(log, short) \subseteq CrossHard(log, short)
    BY <1>7 DEF CrossHard
  <2> QED
    BY <2>1, <2>2 DEF short
<1> QED
  BY <1>6, <1>7

\* Rounds without a fault, an idle ack or an overlap leave a log that the audit
\* rows of the bus do not contradict.
THEOREM CrossSafe == Spec => []CrossNotAccused
<1>1. ExInv /\ CrossInv => CrossNotAccused
  <2> SUFFICES ASSUME ExInv, CrossInv, Undisturbed
               PROVE  CrossHard(log, audit) \cup CrossSoft(log, audit) = {}
    BY DEF CrossNotAccused
  <2>1. Order /\ Pc = "rest" /\ IsASeq(audit)
    BY DEF CrossInv, Undisturbed, Calm, Quiet, Pc
  <2> QED
    BY <2>1, CrossEmpty DEF ExInv, Typed
<1> QED
  BY <1>1, CrossCorrect, PTL

\* An audit export that lacks rows at its end is flagged, whichever row it ends with.
THEOREM ShortExportFlagged == Spec => []ShortExportEvident
<1>1. ExInv /\ CrossInv => ShortExportEvident
  <2> SUFFICES ASSUME ExInv, CrossInv, Undisturbed, NEW n \in 0 .. Len(audit) - 1
               PROVE  CrossHard(log, SubSeq(audit, 1, n)) # {}
    BY DEF ShortExportEvident
  <2>1. Order /\ Pc = "rest" /\ IsASeq(audit)
    BY DEF CrossInv, Undisturbed, Calm, Quiet, Pc
  <2> QED
    BY <2>1, ShortFlagged DEF ExInv, Typed
<1> QED
  BY <1>1, CrossCorrect, PTL

-----------------------------------------------------------------------------
(* The receipts.  Disturbances in which the log cannot be told from one of  *)
(* a bus that lies: a log write failed, an ack was cut off behind its entry,*)
(* two rounds overlapped.                                                   *)

Clean == odd \cap {"noteFailed", "ackCut", "overlap"} = {}

\* A receipt has an outcome once its round has been answered, and the replies then.
Answered == \A r \in DOMAIN rs :
    /\ rs[r].outcome = "not-sent" <=> ends[r].pc = "off"
    /\ rs[r].outcome \in Proven <=> ends[r].pc = "done"
    /\ rs[r].received = IF ends[r].pc = "done" THEN ends[r].ids ELSE {}

\* Nothing lies further ahead of the cursor than a page, and the client has
\* received what it has passed.
Within(S) == S \subseteq 1 .. Min({rows, bus.cursor + MaxReplies})
Fetched == UNION {rs[r].received : r \in DOMAIN rs}

Near ==
    /\ \A e \in DOMAIN ends : Within(ends[e].ids)
    /\ Within(1 .. savedMax) /\ Within(1 .. cl.top) /\ Within(cl.left)
    /\ \A i \in Ids : i <= Reached => i \in Fetched
    /\ cl.pc = "storing" => cl.left \subseteq Fetched

One == \A d, e \in DOMAIN ends : Busy(d) /\ Busy(e) => d = e

Unasked == {"off", "ack", "acking", "ackfailed", "item"}
Early   == Unasked \cup {"sending", "sendfailed", "peek"}
Late    == {"marking", "markfailed", "closing", "answer", "done"}
InAck   == {"acking", "ackfailed"}

\* What an endpoint holds in hand at each place.
HeldAt(l, r, seen) ==
    /\ l.left \subseteq l.ids /\ l.err = FALSE
    /\ l.pc \in Early => l.ids = {}
    /\ l.pc \in Early \cup {"measure"} => l.next = 0
    /\ l.pc \in {"measure", "round"} => l.left = l.ids
    /\ l.pc = "giving" => l.left # {}
    /\ l.pc \in Late => l.left = {}
    /\ l.pc = "ack" => r.ack # 0
    /\ l.pc = "item" => r.sent = {Item}
    /\ l.pc = "sendfailed" => "sendfailed" \in seen

Held == \A e \in DOMAIN ends : HeldAt(ends[e], rs[e], odd)

\* The entries count what the endpoints have done; one that was killed may have
\* written its last entry or not.
AckedBy(a) == {e \in DOMAIN rs : rs[e].ack = a /\ ends[e].pc \notin {"off", "ack"}}
AskedBy    == {e \in DOMAIN rs : Item \in rs[e].sent /\ ends[e].pc \notin Unasked}
GaveBy(i)  == {e \in DOMAIN ends : i \in ends[e].ids \ ends[e].left}
Live(S)    == {e \in S : ends[e].pc # "dead"}

AckCount(a) == /\ Cardinality(Live(AckedBy(a))) <= AcksLogged(log, a)
               /\ AcksLogged(log, a) <= Cardinality(AckedBy(a))
ItemCount   == /\ Cardinality(Live(AskedBy)) <= Logged(log, Item)
               /\ Logged(log, Item) <= Cardinality(AskedBy)

Counted == /\ \A a \in Ids : AckCount(a)
           /\ ItemCount
           /\ \A i \in Ids : Given(log, i) = Cardinality(GaveBy(i))

\* What single entries say.
AckSays(x) ==
    /\ x.from \in Ids0 /\ x.to \in Ids0 /\ x.ack \in Ids
    /\ x.to <= x.from \/ x.to <= x.ack
    /\ x.to <= x.from + MaxReplies
RoundSays(x, seen) ==
    /\ x.at \in Ids0 /\ x.replies \in Ids0 /\ x.pending \in Ids0 /\ x.next \in Ids0
    /\ x.next = 0 => x.pending = x.replies
    /\ "grew" \notin seen => x.next \in {0, x.at + MaxReplies + 1}

Entries ==
    /\ \A i \in Acks(log) : AckSays(log[i])
    /\ \A r \in Rounds(log) : RoundSays(log[r], odd)
    /\ \A g \in Givens(log) : log[g].id \in Ids
    /\ \A i \in DOMAIN log : log[i].kind = "item" =>
          log[i].item = Item /\ (log[i].why = "failed" => "sendfailed" \in odd)

\* The walk over the log ends where the cursor is, or at the ack under way.
Ends == Len(log) + 1

Traced ==
    /\ \A i \in Acks(log) : /\ log[i].from = Expected(log, 0, i)
                            /\ \A r \in Window(log, i) : log[r].at = log[i].from
    /\ \A r \in Rounds(log) : log[r].at = Expected(log, 0, r)
    /\ \A r \in Rounds(log) : (\A a \in Acks(log) : a < r) => log[r].at = bus.cursor
    /\ \A e \in DOMAIN ends : ends[e].pc \in InAck =>
          \E j \in Acks(log) : /\ \A k \in Closing(log) : k <= j
                               /\ log[j].from = bus.cursor /\ log[j].to = Target(rs[e].ack)
    /\ (\A e \in DOMAIN ends : ends[e].pc \notin InAck) => Expected(log, 0, Ends) = bus.cursor

\* The two peeks of a round under way.
MeasuredAt(l, ahead, at, seen) ==
    /\ l.pc = "measure" => l.ids \subseteq ahead
    /\ l.pc = "round" =>
          /\ l.next = 0 => l.pending = Cardinality(l.ids)
          /\ "grew" \notin seen => l.next \in {0, at + MaxReplies + 1}
Measured == \A e \in DOMAIN ends : MeasuredAt(ends[e], Ahead, bus.cursor, odd)

Told  == One /\ Held /\ Counted /\ Entries /\ Traced /\ Measured
EvInv == Answered /\ Near /\ (Clean => Told)

-----------------------------------------------------------------------------
(* One entry more in the log *)

LEMMA MoreKinds ==
  ASSUME NEW s, NEW i
  PROVE  /\ i \in Givens(s) <=> i \in DOMAIN s /\ s[i].kind = "pickup" /\ s[i].dec = "delivered"
         /\ i \in Refusals(s) <=> i \in DOMAIN s /\ s[i].kind = "ack" /\ s[i].dec = "rejected"
  BY DEF Givens, Refusals, Matching, Is

LEMMA GrownMore ==
  ASSUME NEW s, NEW x, NEW t, NEW n, Grown(s, x, t, n)
  PROVE  /\ Givens(t) = IF x.kind = "pickup" /\ x.dec = "delivered"
                        THEN Givens(s) \cup {n} ELSE Givens(s)
         /\ Refusals(t) = IF x.kind = "ack" /\ x.dec = "rejected"
                          THEN Refusals(s) \cup {n} ELSE Refusals(s)
<1>1. ASSUME NEW i \in DOMAIN s
      PROVE  (i \in Givens(t) <=> i \in Givens(s)) /\ (i \in Refusals(t) <=> i \in Refusals(s))
  BY MoreKinds DEF Grown
<1>2. /\ n \in Givens(t) <=> x.kind = "pickup" /\ x.dec = "delivered"
      /\ n \in Refusals(t) <=> x.kind = "ack" /\ x.dec = "rejected"
  BY MoreKinds DEF Grown
<1>3. /\ Givens(t) \subseteq DOMAIN s \cup {n} /\ Givens(s) \subseteq DOMAIN s
      /\ Refusals(t) \subseteq DOMAIN s \cup {n} /\ Refusals(s) \subseteq DOMAIN s
  BY MoreKinds DEF Grown
<1> QED
  BY <1>1, <1>2, <1>3

\* Behind the entries of s nothing is added before n.
Below(S, T, n) == \A j : j < n => (j \in S <=> j \in T)

LEMMA GrownBelow ==
  ASSUME NEW s, NEW x, NEW t, NEW n, Grown(s, x, t, n), NEW i \in DOMAIN s \cup {n}
  PROVE  /\ Below(Acks(t), Acks(s), i) /\ Below(Rounds(t), Rounds(s), i)
         /\ Below(Givens(t), Givens(s), i) /\ Below(Refusals(t), Refusals(s), i)
<1>1. n \in Nat /\ i \in Nat /\ i <= n
  BY DEF Grown
<1>2. \A S : Below(S \cup {n}, S, i) /\ Below(S, S, i)
  BY <1>1 DEF Below
<1> QED
  BY <1>2, GrownKinds, GrownMore, Zenon

LEMMA LastSame ==
  ASSUME NEW S, NEW T, NEW i, Below(S, T, i)
  PROVE  LastBefore(S, i) = LastBefore(T, i)
<1>1. \A j : j \in LastBefore(S, i) <=> j \in LastBefore(T, i)
  BY DEF LastBefore, Below
<1> QED
  BY <1>1

LEMMA LastOne ==
  ASSUME NEW S \in SUBSET Nat, NEW i, NEW m \in LastBefore(S, i)
  PROVE  LastBefore(S, i) = {m} /\ Max(LastBefore(S, i)) = m /\ m \in S /\ m < i
<1>1. m \in S /\ m < i /\ \A k \in LastBefore(S, i) : k \in S /\ k <= m /\ m <= k
  BY DEF LastBefore
<1>2. LastBefore(S, i) = {m}
  <2>1. ASSUME NEW k \in LastBefore(S, i)
        PROVE  k = m
    <3>1. k \in Nat /\ m \in Nat /\ k <= m /\ m <= k
      BY <1>1
    <3> QED
      BY <3>1
  <2> QED
    BY <2>1
<1>3. Max({m}) = m
  <2>1. Max({m, m}) = m
    BY <1>1, PairTyped
  <2> QED
    BY <2>1
<1> QED
  BY <1>1, <1>2, <1>3

LEMMA KindsNat ==
  ASSUME NEW s, IsASeq(s)
  PROVE  /\ Acks(s) \subseteq Nat /\ Rounds(s) \subseteq Nat /\ Givens(s) \subseteq Nat
         /\ Refusals(s) \subseteq Nat /\ Closing(s) \subseteq Nat /\ Moves(s) \subseteq Closing(s)
         /\ Closing(s) \subseteq DOMAIN s /\ Givens(s) \subseteq DOMAIN s
<1>1. DOMAIN s = 1 .. Len(s) /\ Len(s) \in Nat
  BY AppendAt
<1>2. DOMAIN s \subseteq Nat
  BY <1>1
<1>3. /\ Acks(s) \subseteq DOMAIN s /\ Rounds(s) \subseteq DOMAIN s
      /\ Givens(s) \subseteq DOMAIN s /\ Refusals(s) \subseteq DOMAIN s
  BY KindsOf, MoreKinds
<1> QED
  BY <1>2, <1>3 DEF Closing, Moves

\* What the walk knows at an entry depends on the entries before it.
LEMMA SameOpen ==
  ASSUME NEW s, NEW x, NEW t, NEW n, Grown(s, x, t, n), NEW i \in DOMAIN s \cup {n}
  PROVE  /\ OpenAt(t, i) = OpenAt(s, i) /\ Undone(t, i) = Undone(s, i)
         /\ Window(t, i) = Window(s, i)
<1>1. /\ Below(Acks(t), Acks(s), i) /\ Below(Rounds(t), Rounds(s), i)
      /\ Below(Refusals(t), Refusals(s), i)
  BY GrownBelow
<1>2. Below(Closing(t), Closing(s), i)
  BY <1>1 DEF Closing, Below
<1>3. Below(Acks(t) \cup Refusals(t), Acks(s) \cup Refusals(s), i)
  BY <1>1 DEF Below
<1>4. /\ LastBefore(Closing(t), i) = LastBefore(Closing(s), i)
      /\ LastBefore(Acks(t) \cup Refusals(t), i) = LastBefore(Acks(s) \cup Refusals(s), i)
  BY <1>2, <1>3, LastSame
<1>5. \A S : \A j \in LastBefore(S, i) : j < i
  BY DEF LastBefore
<1>6. OpenAt(t, i) = OpenAt(s, i)
  BY <1>1, <1>4, <1>5 DEF OpenAt, Below
<1>7. Undone(t, i) = Undone(s, i)
  BY <1>1, <1>4, <1>5 DEF Undone, Below
<1>8. {j \in Acks(t) : j < i} = {j \in Acks(s) : j < i}
  BY <1>1 DEF Below
<1>9. Window(t, i) = Window(s, i)
  BY <1>1, <1>8 DEF Window, Below
<1> QED
  BY <1>6, <1>7, <1>9

LEMMA SameMoves ==
  ASSUME NEW s, IsASeq(s), NEW x, NEW t, NEW n, Grown(s, x, t, n)
  PROVE  /\ \A i \in DOMAIN s \cup {n} : Below(Moves(t), Moves(s), i)
         /\ \A m \in Moves(s) : CursorAfter(t, m) = CursorAfter(s, m)
<1>1. ASSUME NEW i \in DOMAIN s \cup {n}
      PROVE  Below(Moves(t), Moves(s), i)
  <2>1. /\ Below(Acks(t), Acks(s), i) /\ Below(Rounds(t), Rounds(s), i)
        /\ Below(Refusals(t), Refusals(s), i)
    BY GrownBelow
  <2>2. \A f \in Refusals(s) : Undone(t, f) = Undone(s, f)
    BY KindsNat, SameOpen DEF Closing
  <2>3. \A f : f < i => (/\ f \in Refusals(t) /\ Undone(t, f) # {}
                         <=> f \in Refusals(s) /\ Undone(s, f) # {})
    BY <2>1, <2>2 DEF Below
  <2> QED
    BY <2>1, <2>3 DEF Moves, Below
<1>2. ASSUME NEW m \in Moves(s)
      PROVE  CursorAfter(t, m) = CursorAfter(s, m)
  <2>1. m \in DOMAIN s /\ t[m] = s[m] /\ Undone(t, m) = Undone(s, m)
    BY KindsNat, SameOpen DEF Grown
  <2>2. CASE Is(s[m], "pickup", "accepted") \/ Is(s[m], "ack", "accepted")
    BY <2>1, <2>2 DEF CursorAfter
  <2>3. CASE ~(Is(s[m], "pickup", "accepted") \/ Is(s[m], "ack", "accepted"))
    <3>1. m \notin Rounds(s) \cup Acks(s)
      BY <2>3, KindsOf DEF Is
    <3>2. PICK u \in Undone(s, m) : TRUE
      BY <3>1 DEF Moves
    <3>3. u \in LastBefore(Acks(s) \cup Refusals(s), m) /\ u \in Acks(s)
      BY <3>2 DEF Undone
    <3>4. Acks(s) \cup Refusals(s) \in SUBSET Nat
      BY KindsNat
    <3>5. LastBefore(Acks(s) \cup Refusals(s), m) = {u}
          /\ Max(LastBefore(Acks(s) \cup Refusals(s), m)) = u
      BY <3>3, <3>4, LastOne
    <3>6. Undone(s, m) = {u} /\ Max({u}) = u
      BY <3>3, <3>5 DEF Undone
    <3>7. t[u] = s[u]
      BY <3>3, KindsIn DEF Grown
    <3> QED
      BY <2>1, <2>3, <3>6, <3>7 DEF CursorAfter
  <2> QED
    BY <2>2, <2>3
<1> QED
  BY <1>1, <1>2

LEMMA ExpectedIs ==
  ASSUME NEW s, IsASeq(s), NEW i, NEW m \in LastBefore(Moves(s), i)
  PROVE  Expected(s, 0, i) = CursorAfter(s, m) /\ m \in Moves(s) /\ m < i
<1>1. Moves(s) \in SUBSET Nat
  BY KindsNat
<1>2. LastBefore(Moves(s), i) = {m} /\ Max(LastBefore(Moves(s), i)) = m /\ m \in Moves(s) /\ m < i
  BY <1>1, LastOne
<1> QED
  BY <1>2 DEF Expected

LEMMA SameExpected ==
  ASSUME NEW s, IsASeq(s), NEW x, NEW t, IsASeq(t), NEW n, Grown(s, x, t, n),
         NEW i, NEW j, LastBefore(Moves(t), j) = LastBefore(Moves(s), i)
  PROVE  Expected(t, 0, j) = Expected(s, 0, i)
<1>1. CASE LastBefore(Moves(s), i) = {}
  BY <1>1 DEF Expected
<1>2. CASE LastBefore(Moves(s), i) # {}
  <2>1. PICK m \in LastBefore(Moves(s), i) : TRUE
    BY <1>2
  <2>2. Expected(s, 0, i) = CursorAfter(s, m) /\ m \in Moves(s)
    BY <2>1, ExpectedIs
  <2>3. Expected(t, 0, j) = CursorAfter(t, m)
    BY <2>1, ExpectedIs
  <2> QED
    BY <2>2, <2>3, SameMoves
<1> QED
  BY <1>1, <1>2

\* A set that may have got the element n.
LEMMA OneMore ==
  ASSUME NEW A, IsFiniteSet(A), NEW n, n \notin A, NEW B, NEW c \in BOOLEAN,
         B = IF c THEN A \cup {n} ELSE A
  PROVE  /\ IsFiniteSet(B) /\ Cardinality(A) \in Nat
         /\ Cardinality(B) = IF c THEN Cardinality(A) + 1 ELSE Cardinality(A)
  BY FS_AddElement, FS_CardinalityType

LEMMA DomainFinite ==
  ASSUME NEW s, IsASeq(s), NEW S \in SUBSET DOMAIN s
  PROVE  IsFiniteSet(S)
<1>1. DOMAIN s = 1 .. Len(s) /\ Len(s) \in Nat
  BY AppendAt
<1>2. IsFiniteSet(1 .. Len(s))
  BY <1>1, FS_Interval
<1> QED
  BY <1>1, <1>2, FS_Subset

\* How the counts of entries grow.
CountsGrow(s, x, t) ==
    /\ \A a : AcksLogged(s, a) \in Nat
              /\ AcksLogged(t, a) = IF x.kind = "ack" /\ x.dec = "accepted" /\ x.ack = a
                                    THEN AcksLogged(s, a) + 1 ELSE AcksLogged(s, a)
    /\ \A m : Logged(s, m) \in Nat
              /\ Logged(t, m) = IF x.kind = "item" /\ x.item = m /\ x.why # "failed"
                                THEN Logged(s, m) + 1 ELSE Logged(s, m)
    /\ \A i : Given(s, i) \in Nat
              /\ Given(t, i) = IF x.kind = "pickup" /\ x.dec = "delivered" /\ x.id = i
                               THEN Given(s, i) + 1 ELSE Given(s, i)

LEMMA GrownCounts ==
  ASSUME NEW s, IsASeq(s), NEW x, NEW t, NEW n, Grown(s, x, t, n)
  PROVE  CountsGrow(s, x, t)
<1>1. ASSUME NEW a
      PROVE  AcksLogged(s, a) \in Nat
             /\ AcksLogged(t, a) = IF x.kind = "ack" /\ x.dec = "accepted" /\ x.ack = a
                                   THEN AcksLogged(s, a) + 1 ELSE AcksLogged(s, a)
  <2> DEFINE A == {i \in Acks(s) : s[i].ack = a}
             B == {i \in Acks(t) : t[i].ack = a}
             c == x.kind = "ack" /\ x.dec = "accepted" /\ x.ack = a
  <2>1. B = IF c THEN A \cup {n} ELSE A
    BY GrownKinds, KindsIn DEF Grown
  <2>2. A \in SUBSET DOMAIN s /\ n \notin A
    BY KindsIn DEF Grown
  <2>3. IsFiniteSet(A)
    BY <2>2, DomainFinite
  <2>4. AcksLogged(s, a) = Cardinality(A) /\ AcksLogged(t, a) = Cardinality(B)
    BY DEF AcksLogged
  <2>5. c \in BOOLEAN
    OBVIOUS
  <2> HIDE DEF A, B, c
  <2>6. Cardinality(A) \in Nat /\ Cardinality(B) = IF c THEN Cardinality(A) + 1 ELSE Cardinality(A)
    BY <2>1, <2>2, <2>3, <2>5, OneMore
  <2> QED
    BY <2>4, <2>6 DEF c
<1>2. ASSUME NEW m
      PROVE  Logged(s, m) \in Nat
             /\ Logged(t, m) = IF x.kind = "item" /\ x.item = m /\ x.why # "failed"
                               THEN Logged(s, m) + 1 ELSE Logged(s, m)
  <2> DEFINE P(e) == e.kind = "item" /\ e.item = m /\ e.why # "failed"
             A == {i \in DOMAIN s : P(s[i])}
             B == {i \in DOMAIN t : P(t[i])}
             c == P(x)
  <2>1. B = IF c THEN A \cup {n} ELSE A
    BY DEF Grown
  <2>2. A \in SUBSET DOMAIN s /\ n \notin A
    BY DEF Grown
  <2>3. IsFiniteSet(A)
    BY <2>2, DomainFinite
  <2>4. Logged(s, m) = Cardinality(A) /\ Logged(t, m) = Cardinality(B)
    BY DEF Logged, Matching
  <2>5. c \in BOOLEAN
    OBVIOUS
  <2> HIDE DEF A, B, c
  <2>6. Cardinality(A) \in Nat /\ Cardinality(B) = IF c THEN Cardinality(A) + 1 ELSE Cardinality(A)
    BY <2>1, <2>2, <2>3, <2>5, OneMore
  <2> QED
    BY <2>4, <2>6 DEF c
<1>3. ASSUME NEW i
      PROVE  Given(s, i) \in Nat
             /\ Given(t, i) = IF x.kind = "pickup" /\ x.dec = "delivered" /\ x.id = i
                              THEN Given(s, i) + 1 ELSE Given(s, i)
  <2> DEFINE P(e) == Is(e, "pickup", "delivered") /\ e.id = i
             A == {g \in DOMAIN s : P(s[g])}
             B == {g \in DOMAIN t : P(t[g])}
             c == P(x)
  <2>1. B = IF c THEN A \cup {n} ELSE A
    BY DEF Grown
  <2>2. A \in SUBSET DOMAIN s /\ n \notin A
    BY DEF Grown
  <2>3. IsFiniteSet(A)
    BY <2>2, DomainFinite
  <2>4. Given(s, i) = Cardinality(A) /\ Given(t, i) = Cardinality(B)
    BY DEF Given, Matching
  <2>5. c \in BOOLEAN /\ (c <=> x.kind = "pickup" /\ x.dec = "delivered" /\ x.id = i)
    BY DEF Is
  <2> HIDE DEF A, B, c
  <2>6. Cardinality(A) \in Nat /\ Cardinality(B) = IF c THEN Cardinality(A) + 1 ELSE Cardinality(A)
    BY <2>1, <2>2, <2>3, <2>5, OneMore
  <2> QED
    BY <2>4, <2>5, <2>6
<1> QED
  BY <1>1, <1>2, <1>3, Zenon DEF CountsGrow

-----------------------------------------------------------------------------
(* What holds however the rounds are disturbed *)

LEMMA WithinTyped ==
  ASSUME ExInv
  PROVE  /\ bus.cursor \in Nat /\ rows \in Nat /\ MaxReplies \in Nat \ {0}
         /\ \A S : Within(S) <=> \A i \in S : i \in Nat /\ 1 <= i /\ i <= rows
                                                /\ i <= bus.cursor + MaxReplies
<1>1. bus.cursor \in Nat /\ rows \in Nat /\ MaxReplies \in Nat \ {0}
  <2>1. bus.cursor \in Ids0 /\ rows \in Ids0
    BY DEF ExInv, Typed
  <2> QED
    BY <2>1, ExchangeAssumption DEF Ids0
<1>2. Min({rows, bus.cursor + MaxReplies})
        = IF rows <= bus.cursor + MaxReplies THEN rows ELSE bus.cursor + MaxReplies
  <2>1. bus.cursor + MaxReplies \in Int /\ rows \in Int
    BY <1>1
  <2> QED
    BY <2>1, PairTyped
<1> QED
  BY <1>1, <1>2 DEF Within

LEMMA WithinGrows ==
  ASSUME ExInv, ExInv', rows <= rows', bus.cursor <= bus.cursor'
  PROVE  \A S : Within(S) => Within(S)'
<1>1. /\ bus.cursor \in Nat /\ rows \in Nat /\ MaxReplies \in Nat
      /\ \A S : Within(S) <=> \A i \in S : i \in Nat /\ 1 <= i /\ i <= rows
                                                /\ i <= bus.cursor + MaxReplies
  BY WithinTyped
<1>2. /\ bus'.cursor \in Nat /\ rows' \in Nat
      /\ \A S : Within(S)' <=> \A i \in S : i \in Nat /\ 1 <= i /\ i <= rows'
                                                /\ i <= bus'.cursor + MaxReplies
  <2>1. bus'.cursor \in Nat /\ rows' \in Nat
    <3>1. bus'.cursor \in Ids0 /\ rows' \in Ids0
      BY DEF ExInv, Typed
    <3> QED
      BY <3>1, ExchangeAssumption DEF Ids0
  <2>2. Min({rows', bus'.cursor + MaxReplies})
          = IF rows' <= bus'.cursor + MaxReplies THEN rows' ELSE bus'.cursor + MaxReplies
    <3>1. bus'.cursor + MaxReplies \in Int /\ rows' \in Int
      BY <1>1, <2>1
    <3> QED
      BY <3>1, PairTyped
  <2> QED
    BY <2>1, <2>2, <1>1 DEF Within
<1>3. ASSUME NEW S, Within(S), NEW i \in S
      PROVE  i \in Nat /\ 1 <= i /\ i <= rows' /\ i <= bus'.cursor + MaxReplies
  <2>1. i \in Nat /\ 1 <= i /\ i <= rows /\ i <= bus.cursor + MaxReplies
    BY <1>1, <1>3
  <2> QED
    BY <1>1, <1>2, <2>1
<1> QED
  BY <1>2, <1>3

\* Where an endpoint goes.
Goes(e, l) ==
    /\ To(e, l) /\ ends[e].pc \notin {"off", "done"} /\ l.pc \notin {"off", "done"}
    /\ l.ids \subseteq ends[e].ids \cup Page
    /\ bus.cursor <= bus'.cursor /\ UNCHANGED <<rows, clientVars>>

LEMMA NoteGoes ==
  ASSUME ExInv, NEW e \in DOMAIN ends, NEW x, NEW l, NEW how, Note(e, x, l, how)
  PROVE  \E m : /\ To(e, m)
                /\ m = l \/ (m.pc = "answer" /\ m.ids = {})
<1> DEFINE a == [At(e, "answer") EXCEPT !.err = TRUE, !.ids = {}]
<1>1. a.pc = "answer" /\ a.ids = {}
  BY EndTyped DEF At, End
<1>2. To(e, l) \/ To(e, a)
  BY DEF Note
<1> HIDE DEF a
<1> QED
  BY <1>1, <1>2

LEMMA EndpointGoes ==
  ASSUME ExInv, NEW e \in DOMAIN ends, Endpoint(e)
  PROVE  \E l : Goes(e, l)
<1>1. bus.cursor \in Int /\ ends[e] \in End
  BY BusTyped, EndTyped
<1>2. ASSUME NEW m, To(e, m), ends[e].pc \notin {"off", "done"}, m.pc \notin {"off", "done"},
             m.ids \subseteq ends[e].ids \cup Page, UNCHANGED <<rows, bus, clientVars>>
      PROVE  \E l : Goes(e, l)
  BY <1>1, <1>2 DEF Goes
<1>3. \A pc : At(e, pc).pc = pc /\ At(e, pc).ids = ends[e].ids
  BY <1>1 DEF At, End
<1>4. \A r : ToItems(r) \notin {"off", "done"}
  BY DEF ToItems
<1>5. ASSUME NEW pc, NEW x, NEW how, Note(e, x, At(e, pc), how), ends[e].pc \notin {"off", "done"},
             pc \notin {"off", "done"}, UNCHANGED <<rows, bus, clientVars>>
      PROVE  \E l : Goes(e, l)
  BY <1>2, <1>3, <1>5, NoteGoes
<1>6. CASE AckNote(e)
  <2>1. PICK x, how : Note(e, x, At(e, "acking"), how)
    BY <1>6, Zenon DEF AckNote
  <2> QED
    BY <1>5, <1>6, <2>1 DEF AckNote
<1>7. CASE AckDo(e)
  <2>1. CASE UNCHANGED bus
    <3>1. PICK pc \in {ToItems(rs[e]), "ackfailed"} : To(e, At(e, pc))
      BY <1>7 DEF AckDo
    <3> QED
      BY <1>2, <1>3, <1>4, <1>7, <2>1, <3>1 DEF AckDo
  <2>2. CASE ~UNCHANGED bus
    <3> DEFINE to == Target(rs[e].ack)
    <3>1. To(e, At(e, ToItems(rs[e]))) /\ bus' = [bus EXCEPT !.cursor = to, !.read = @ \cup 1 .. to]
          /\ UNCHANGED <<rows, clientVars>> /\ ends[e].pc = "acking"
      BY <1>7, <2>2 DEF AckDo
    <3>2. bus.cursor <= to
      BY <3>1, RequestTyped, TargetUp DEF ExInv
    <3> HIDE DEF to
    <3>3. bus'.cursor = to
      BY <3>1, BusTyped
    <3> QED
      BY <1>3, <1>4, <3>1, <3>2, <3>3 DEF Goes
  <2> QED
    BY <2>1, <2>2
<1>8. CASE AckFailNote(e)
  BY <1>4, <1>5, <1>8 DEF AckFailNote
<1>9. CASE ItemNote(e) \/ ItemFailNote(e)
  <2> DEFINE Items == {ItemEntry("rejected", Item, "refused"), ItemEntry("accepted", Item, ""),
                       ItemEntry("rejected", Item, "failed")}
  <2>1. PICK x \in Items, pc \in {"peek", "sending"} : Note(e, x, At(e, pc), {})
    BY <1>9, Zenon DEF ItemNote, ItemFailNote
  <2> HIDE DEF Items
  <2>2. ends[e].pc \in {"item", "sendfailed"} /\ UNCHANGED <<rows, bus, clientVars>>
    BY <1>9 DEF ItemNote, ItemFailNote
  <2> QED
    BY <1>5, <2>1, <2>2
<1>10. CASE ItemDo(e) \/ Kill(e)
  <2>1. PICK pc \in {"peek", "sendfailed", "dead"} : To(e, At(e, pc))
    BY <1>10 DEF ItemDo, Kill
  <2>2. ends[e].pc \notin {"off", "done"} /\ UNCHANGED <<rows, bus, clientVars>>
    BY <1>10 DEF ItemDo, Kill, Busy
  <2> QED
    BY <1>2, <1>3, <2>1, <2>2
<1>11. CASE Peek(e)
  <2> DEFINE l == [At(e, "measure") EXCEPT !.ids = Page, !.left = Page]
  <2>1. l.pc = "measure" /\ l.ids = Page
    BY <1>1 DEF At, End
  <2>2. To(e, l) /\ ends[e].pc = "peek" /\ UNCHANGED <<rows, bus, clientVars>>
    BY <1>11 DEF Peek
  <2> QED
    BY <1>2, <2>1, <2>2
<1>12. CASE Measure(e)
  <2>1. PICK l : To(e, l) /\ l.pc = "round" /\ l.ids = ends[e].ids
    <3> DEFINE rest == Ahead \ ends[e].ids
               a == [At(e, "round") EXCEPT !.pending = Cardinality(Ahead),
                                           !.next = IF rest = {} THEN 0 ELSE Min(rest)]
               b == [At(e, "round") EXCEPT !.pending = Cardinality(ends[e].ids), !.known = FALSE]
    <3>1. To(e, a) \/ To(e, b)
      BY <1>12 DEF Measure
    <3>2. a.pc = "round" /\ b.pc = "round" /\ a.ids = ends[e].ids /\ b.ids = ends[e].ids
      BY <1>1 DEF At, End
    <3> HIDE DEF a, b
    <3> QED
      BY <3>1, <3>2
  <2> QED
    BY <1>2, <1>12, <2>1 DEF Measure
<1>13. CASE RoundNote(e)
  <2> DEFINE l == [ends[e] EXCEPT !.pc = IF ends[e].ids = {} THEN "closing" ELSE "giving",
                                  !.round = Len(log) + 1]
  <2>1. l.pc \in {"closing", "giving"} /\ l.ids = ends[e].ids
    BY <1>1 DEF End
  <2>2. (\E x, how : Note(e, x, l, how)) \/ To(e, At(e, "answer"))
    BY <1>13 DEF RoundNote
  <2> HIDE DEF l
  <2>3. \E m : To(e, m) /\ m.pc \notin {"off", "done"} /\ m.ids \subseteq ends[e].ids
    BY <1>3, <2>1, <2>2, NoteGoes
  <2> QED
    BY <1>2, <1>13, <2>3 DEF RoundNote
<1>14. CASE GivenNote(e)
  <2> DEFINE l == [ends[e] EXCEPT !.left = @ \ {Min(@)},
                      !.pc = IF ends[e].left = {Min(ends[e].left)} THEN "marking" ELSE @]
  <2>1. Note(e, GivenEntry(Min(ends[e].left)), l, {})
    BY <1>14 DEF GivenNote
  <2>2. l.pc \in {"giving", "marking"} /\ l.ids = ends[e].ids
    BY <1>1, <1>14 DEF End, GivenNote
  <2> HIDE DEF l
  <2> QED
    BY <1>2, <1>14, <2>1, <2>2, NoteGoes DEF GivenNote
<1>15. CASE MarkDo(e)
  <2>1. PICK pc \in {"closing", "markfailed"} : To(e, At(e, pc))
    BY <1>15 DEF MarkDo
  <2>2. bus'.cursor = bus.cursor
    BY <1>15, BusTyped DEF MarkDo
  <2> QED
    BY <1>1, <1>3, <1>15, <2>1, <2>2 DEF Goes, MarkDo
<1>16. CASE MarkFailNote(e)
  BY <1>5, <1>16 DEF MarkFailNote
<1>17. CASE CloseNote(e)
  BY <1>2, <1>3, <1>17 DEF CloseNote
<1> QED
  BY <1>6, <1>7, <1>8, <1>9, <1>10, <1>11, <1>12, <1>13, <1>14, <1>15, <1>16, <1>17 DEF Endpoint

Known == Answered /\ Near

LEMMA RsTyped ==
  ASSUME ExInv
  PROVE  /\ rs \in Seq(Receipt) /\ Round \in Nat /\ Round <= MaxRounds /\ DOMAIN rs = 1 .. Round
         /\ DOMAIN ends = 1 .. MaxRounds /\ DOMAIN rs \subseteq DOMAIN ends /\ IsASeq(rs)
         /\ MaxRounds \in Nat /\ \A r \in DOMAIN rs : rs[r] \in Receipt
<1>1. rs \in Seq(Receipt) /\ Len(rs) <= MaxRounds /\ ends \in [1 .. MaxRounds -> End]
  BY DEF ExInv, Typed
<1>2. Len(rs) \in Nat /\ DOMAIN rs = 1 .. Len(rs) /\ \A r \in DOMAIN rs : rs[r] \in Receipt
  BY <1>1
<1>3. IsASeq(rs)
  BY <1>1 DEF IsASeq
<1> QED
  BY <1>1, <1>2, <1>3, ExchangeAssumption DEF Round

LEMMA EndpointKnown ==
  ASSUME ExInv, ExInv', Known, NEW e \in DOMAIN ends, Endpoint(e)
  PROVE  Known'
<1>1. PICK l : Goes(e, l)
  BY EndpointGoes
<1>2. /\ DOMAIN ends' = DOMAIN ends /\ ends'[e] = l
      /\ \A d \in DOMAIN ends \ {e} : ends'[d] = ends[d]
      /\ UNCHANGED <<rows, rs, cl, savedMax>>
  BY <1>1 DEF Goes, To, clientVars
<1>3. Answered'
  <2>1. ASSUME NEW r \in DOMAIN rs
        PROVE  /\ rs[r].outcome = "not-sent" <=> ends'[r].pc = "off"
               /\ rs[r].outcome \in Proven <=> ends'[r].pc = "done"
               /\ rs[r].received = IF ends'[r].pc = "done" THEN ends'[r].ids ELSE {}
    <3>1. r \in DOMAIN ends
      BY RsTyped
    <3>2. CASE r = e
      BY <1>1, <1>2, <3>2 DEF Known, Answered, Goes
    <3>3. CASE r # e
      BY <1>2, <3>1, <3>3 DEF Known, Answered
    <3> QED
      BY <3>2, <3>3
  <2> QED
    BY <1>2, <2>1 DEF Answered
<1>4. bus.cursor <= bus'.cursor /\ rows <= rows'
  BY <1>1, <1>2, BusTyped DEF Goes
<1>5. \A S : Within(S) => Within(S)'
  BY <1>4, WithinGrows
<1>6. Within(l.ids)'
  <2>1. Within(ends[e].ids)
    BY DEF Known, Near
  <2>2. Within(Page)
    BY WithinTyped DEF Page, Ahead, Ids
  <2>3. Within(l.ids)
    BY <1>1, <2>1, <2>2 DEF Within, Goes
  <2> QED
    BY <1>2, <1>5, <2>3
<1>7. \A d \in DOMAIN ends' : Within(ends[d].ids)'
  <2>1. ASSUME NEW d \in DOMAIN ends, d # e
        PROVE  Within(ends[d].ids)'
    <3>1. Within(ends[d].ids) /\ ends'[d].ids = ends[d].ids
      BY <1>2, <2>1 DEF Known, Near
    <3> QED
      BY <1>5, <3>1
  <2> QED
    BY <1>2, <1>6, <2>1
<1>8. Within(1 .. savedMax)' /\ Within(1 .. cl.top)' /\ Within(cl.left)'
  BY <1>2, <1>5 DEF Known, Near
<1>9. Fetched' = Fetched /\ Reached' = Reached
  BY <1>2 DEF Fetched, Reached
<1> QED
  BY <1>2, <1>3, <1>7, <1>8, <1>9 DEF Known, Near

\* A receipt more: what had no receipt was off.
LEMMA RequestKnown ==
  ASSUME ExInv, ExInv', Known, NEW items, Request(items)
  PROVE  Known'
<1> DEFINE req(outcome) == [sent |-> items, ack |-> AckValue, received |-> {}, outcome |-> outcome]
           first == [Off EXCEPT !.pc = ToAck(req(""))]
<1>1. /\ Round \in Nat /\ rs \in Seq(Receipt) /\ DOMAIN rs = 1 .. Round /\ Round < MaxRounds
      /\ DOMAIN ends = 1 .. MaxRounds /\ Round + 1 \in DOMAIN ends /\ Round + 1 \notin DOMAIN rs
      /\ UNCHANGED <<rows, bus, savedMax>> /\ cl.pc = "idle"
  <2>1. Round < MaxRounds /\ UNCHANGED <<rows, bus, savedMax>> /\ cl.pc = "idle"
    BY DEF Request
  <2> QED
    BY <2>1, RsTyped
<1>2. ends[Round + 1].pc = "off"
  BY <1>1 DEF ExInv, Pages
<1>3. PICK out \in {"unknown", "not-sent"} : rs' = Append(rs, req(out))
                 /\ (out = "unknown" => /\ cl' = [pc |-> "sent", top |-> savedMax, left |-> {}]
                                        /\ To(Round + 1, first))
                 /\ (out = "not-sent" => UNCHANGED <<cl, ends>>)
  BY DEF Request
<1>14. /\ out = "unknown" => cl'.pc = "sent" /\ cl'.top = savedMax /\ cl'.left = {}
       /\ out = "not-sent" => cl' = cl
  <2> HIDE DEF req, first
  <2> QED
    BY <1>3
<1>4. /\ DOMAIN rs' = 1 .. Round + 1 /\ rs'[Round + 1] = req(out)
      /\ \A r \in DOMAIN rs : rs'[r] = rs[r]
  <2> HIDE DEF req
  <2>1. /\ Len(rs) = Round /\ rs' = Append(rs, req(out)) /\ IsASeq(rs)
    BY <1>3, RsTyped DEF Round
  <2>2. /\ DOMAIN rs' = 1 .. Len(rs) + 1 /\ rs'[Len(rs) + 1] = req(out)
        /\ \A i \in 1 .. Len(rs) : rs'[i] = rs[i]
    BY <2>1, AppendAt
  <2> QED
    BY <1>1, <2>1, <2>2
<1>5. /\ DOMAIN ends' = DOMAIN ends /\ \A d \in DOMAIN ends \ {Round + 1} : ends'[d] = ends[d]
      /\ (out = "unknown" => /\ ends'[Round + 1].pc \notin {"off", "done"}
                             /\ ends'[Round + 1].ids = {})
      /\ (out = "not-sent" => ends' = ends)
  <2>1. ToAck(req("")) \notin {"off", "done"}
    BY DEF ToAck, ToItems
  <2> HIDE DEF req
  <2> QED
    BY <1>1, <1>3, <2>1 DEF To, Off
<1>6. Answered'
  <2>1. ASSUME NEW r \in DOMAIN rs
        PROVE  /\ rs'[r].outcome = "not-sent" <=> ends'[r].pc = "off"
               /\ rs'[r].outcome \in Proven <=> ends'[r].pc = "done"
               /\ rs'[r].received = IF ends'[r].pc = "done" THEN ends'[r].ids ELSE {}
    <3>1. r \in DOMAIN ends /\ r # Round + 1
      BY <1>1, RsTyped
    <3> QED
      BY <1>4, <1>5, <3>1 DEF Known, Answered
  <2>2. /\ rs'[Round + 1].outcome = "not-sent" <=> ends'[Round + 1].pc = "off"
        /\ rs'[Round + 1].outcome \in Proven <=> ends'[Round + 1].pc = "done"
        /\ rs'[Round + 1].received
             = IF ends'[Round + 1].pc = "done" THEN ends'[Round + 1].ids ELSE {}
    <3>1. /\ req(out).outcome = out /\ req(out).received = {}
      OBVIOUS
    <3>2. out \notin Proven
      BY DEF Proven
    <3>3. CASE out = "unknown"
      BY <1>4, <1>5, <3>1, <3>2, <3>3
    <3>4. CASE out = "not-sent"
      BY <1>2, <1>4, <1>5, <3>1, <3>2, <3>4
    <3> QED
      BY <3>3, <3>4
  <2>3. \A r \in DOMAIN rs' : r \in DOMAIN rs \/ r = Round + 1
    BY <1>1, <1>4
  <2> QED
    BY <2>1, <2>2, <2>3 DEF Answered
<1>7. \A S : Within(S)' <=> Within(S)
  BY <1>1 DEF Within
<1>8. \A d \in DOMAIN ends' : Within(ends'[d].ids)
  <2>1. Within({})
    BY DEF Within
  <2>2. \A d \in DOMAIN ends' : ends'[d] = ends[d] \/ ends'[d].ids = {}
    BY <1>3, <1>5
  <2> QED
    BY <1>5, <2>1, <2>2 DEF Known, Near
<1>9. Within(1 .. savedMax') /\ Within(1 .. cl'.top) /\ Within(cl'.left)
  <2>1. Within({})
    BY DEF Within
  <2>2. CASE out = "unknown"
    BY <1>1, <1>14, <2>1, <2>2 DEF Known, Near
  <2>3. CASE out = "not-sent"
    BY <1>1, <1>14, <2>3 DEF Known, Near
  <2> QED
    BY <2>2, <2>3
<1>10. Fetched' = Fetched
  BY <1>1, <1>4 DEF Fetched
<1>11. Reached' = Reached /\ cl'.pc # "storing"
  <2>1. CASE out = "unknown"
    BY <1>1, <1>14, <2>1 DEF Reached
  <2>2. CASE out = "not-sent"
    BY <1>1, <1>14, <2>2 DEF Reached
  <2> QED
    BY <2>1, <2>2
<1> QED
  BY <1>6, <1>7, <1>8, <1>9, <1>10, <1>11 DEF Known, Near

LEMMA ReceiveKnown ==
  ASSUME ExInv, Known, Receive
  PROVE  Known'
<1> DEFINE l == ends[Round]
<1>1. /\ cl.pc = "sent" /\ l.pc = "answer" /\ UNCHANGED <<rows, bus, savedMax>>
      /\ rs' = [rs EXCEPT ![Round].received = l.ids,
                          ![Round].outcome = IF l.err THEN "reached" ELSE "delivered"]
      /\ cl' = [cl EXCEPT !.pc = "storing", !.left = l.ids]
      /\ To(Round, At(Round, "done"))
  BY DEF Receive
<1>2. Round \in DOMAIN rs /\ Round \in DOMAIN ends /\ rs \in Seq(Receipt) /\ DOMAIN rs \subseteq DOMAIN ends
  <2>1. Round \in DOMAIN rs
    BY <1>1 DEF ExInv, Storing, Round
  <2> QED
    BY <2>1, RsTyped
<1>3. /\ rs[Round] \in Receipt /\ l \in End
      /\ cl \in [pc : {"idle", "sent", "storing"}, top : Ids0, left : SUBSET Ids]
  BY <1>2, RsTyped DEF ExInv, Typed
<1>4. /\ DOMAIN rs' = DOMAIN rs /\ rs'[Round].received = l.ids
      /\ rs'[Round].outcome \in Proven /\ rs'[Round].outcome # "not-sent"
      /\ \A r \in DOMAIN rs \ {Round} : rs'[r] = rs[r]
  BY <1>1, <1>2, <1>3 DEF Receipt, Proven
<1>5. /\ DOMAIN ends' = DOMAIN ends /\ ends'[Round].pc = "done" /\ ends'[Round].ids = l.ids
      /\ \A d \in DOMAIN ends \ {Round} : ends'[d] = ends[d]
  BY <1>1, <1>2, <1>3 DEF To, At, End
<1>6. cl'.pc = "storing" /\ cl'.left = l.ids /\ cl'.top = cl.top
  BY <1>1, <1>3
<1> HIDE DEF l
<1>7. Answered'
  <2>1. ASSUME NEW r \in DOMAIN rs
        PROVE  /\ rs'[r].outcome = "not-sent" <=> ends'[r].pc = "off"
               /\ rs'[r].outcome \in Proven <=> ends'[r].pc = "done"
               /\ rs'[r].received = IF ends'[r].pc = "done" THEN ends'[r].ids ELSE {}
    <3>1. CASE r = Round
      BY <1>4, <1>5, <3>1
    <3>2. CASE r # Round
      BY <1>2, <1>4, <1>5, <3>2 DEF Known, Answered
    <3> QED
      BY <3>1, <3>2
  <2> QED
    BY <1>4, <2>1 DEF Answered
<1>8. \A S : Within(S)' <=> Within(S)
  BY <1>1 DEF Within
<1>9. Within(l.ids) /\ \A d \in DOMAIN ends' : Within(ends'[d].ids)
  <2>1. Within(l.ids)
    BY <1>2 DEF Known, Near, l
  <2>2. \A d \in DOMAIN ends' : ends'[d] = ends[d] \/ ends'[d].ids = l.ids
    BY <1>5
  <2> QED
    BY <1>5, <2>1, <2>2 DEF Known, Near
<1>10. Fetched \subseteq Fetched' /\ l.ids \subseteq Fetched'
  <2>1. rs[Round].received = {}
    BY <1>1, <1>2 DEF Known, Answered, l
  <2>2. \A r \in DOMAIN rs : rs[r].received \subseteq rs'[r].received
    BY <1>4, <2>1
  <2> QED
    BY <1>2, <1>4, <2>2 DEF Fetched
<1>11. Reached' = Reached
  BY <1>1, <1>6 DEF Reached
<1> QED
  BY <1>1, <1>6, <1>7, <1>8, <1>9, <1>10, <1>11 DEF Known, Near

LEMMA StoreKnown ==
  ASSUME ExInv, Known, StoreNext
  PROVE  Known'
<1> DEFINE rid == Min(cl.left)
<1>1. /\ cl.pc = "storing" /\ cl.left # {} /\ cl' = [cl EXCEPT !.left = @ \ {rid}, !.top = Max({@, rid})]
      /\ UNCHANGED <<rows, bus, ends, rs, savedMax>>
  BY DEF StoreNext, endVars
<1>2. /\ cl \in [pc : {"idle", "sent", "storing"}, top : Ids0, left : SUBSET Ids]
      /\ cl.top \in Nat /\ cl.left \subseteq Ids /\ Ids \subseteq Nat
  <2>1. /\ cl \in [pc : {"idle", "sent", "storing"}, top : Ids0, left : SUBSET Ids]
        /\ Ids \subseteq Nat /\ Ids0 \subseteq Nat
    BY IdsTyped DEF ExInv, Typed
  <2>2. cl.top \in Ids0 /\ cl.left \in SUBSET Ids
    BY <2>1
  <2> QED
    BY <2>1, <2>2
<1>3. rid \in cl.left
  <2>1. cl.left \in SUBSET Nat
    BY <1>2
  <2> QED
    BY <1>1, <2>1, MinTyped
<1> HIDE DEF rid
<1>4. /\ cl'.pc = "storing" /\ cl'.left = cl.left \ {rid} /\ rid \in Nat
      /\ cl'.top = IF cl.top >= rid THEN cl.top ELSE rid
  <2>1. rid \in Nat
    BY <1>2, <1>3
  <2>2. Max({cl.top, rid}) = IF cl.top >= rid THEN cl.top ELSE rid
    BY <1>2, <2>1, PairTyped
  <2> QED
    BY <1>1, <1>2, <2>1, <2>2
<1>5. Answered'
  BY <1>1 DEF Known, Answered
<1>6. \A S : Within(S)' <=> Within(S)
  BY <1>1 DEF Within
<1>7. Within(1 .. cl'.top) /\ Within(cl'.left)
  <2>1. /\ \A i \in 1 .. cl.top : i \in Nat /\ 1 <= i /\ i <= rows /\ i <= bus.cursor + MaxReplies
        /\ \A i \in cl.left : i \in Nat /\ 1 <= i /\ i <= rows /\ i <= bus.cursor + MaxReplies
    BY WithinTyped DEF Known, Near
  <2>2. \A i \in 1 .. cl'.top : i \in Nat /\ 1 <= i /\ i <= rows /\ i <= bus.cursor + MaxReplies
    BY <1>2, <1>3, <1>4, <2>1, WithinTyped
  <2>3. Within(1 .. cl'.top)
    BY <2>2, WithinTyped
  <2> QED
    BY <1>4, <2>3 DEF Known, Near, Within
<1>8. Fetched' = Fetched
  BY <1>1 DEF Fetched
<1>9. \A i \in Ids : i <= Reached' => i \in Fetched
  <2>1. /\ cl.left \subseteq Fetched /\ \A i \in Ids : i <= cl.top => i \in Fetched
        /\ Gapless(cl.left, cl.top)
    BY <1>1 DEF Known, Near, Reached, ExInv, Storing
  <2>2. ASSUME NEW i \in Ids, i <= rid
        PROVE  i \in Fetched
    <3>1. i = rid \/ i < rid
      BY <1>2, <1>4, <2>2
    <3>2. CASE i = rid
      BY <1>3, <2>1, <3>2
    <3>3. CASE i < rid
      BY <1>3, <2>1, <3>3 DEF Gapless
    <3> QED
      BY <3>1, <3>2, <3>3
  <2> QED
    BY <1>4, <2>1, <2>2 DEF Reached
<1> QED
  BY <1>1, <1>4, <1>5, <1>6, <1>7, <1>8, <1>9 DEF Known, Near

LEMMA ClientEndKnown ==
  ASSUME ExInv, Known, GiveUp \/ Save \/ StoreCut
  PROVE  Known'
<1>1. UNCHANGED <<rows, bus, ends, rs>>
  BY DEF GiveUp, Save, StoreCut, endVars
<1>2. /\ cl \in [pc : {"idle", "sent", "storing"}, top : Ids0, left : SUBSET Ids]
      /\ cl.top \in Int /\ savedMax \in Int /\ Ids \subseteq Int
  <2>1. /\ cl \in [pc : {"idle", "sent", "storing"}, top : Ids0, left : SUBSET Ids]
        /\ savedMax \in Ids0 /\ Ids0 \subseteq Int
    BY BusTyped DEF ExInv, Typed
  <2>2. cl.top \in Ids0
    BY <2>1
  <2> QED
    BY <2>1, <2>2, BusTyped
<1>3. cl' = [cl EXCEPT !.pc = "idle"] /\ cl.pc \in {"sent", "storing"} /\ savedMax' \in {savedMax, cl.top}
  BY DEF GiveUp, Save, StoreCut
<1>4. cl'.pc = "idle" /\ cl'.top = cl.top /\ cl'.left = cl.left
  BY <1>2, <1>3
<1>5. savedMax' <= cl.top /\ Reached = cl.top /\ Reached' = savedMax'
  BY <1>2, <1>3, <1>4 DEF Reached, ExInv, Storing
<1>6. Answered'
  BY <1>1 DEF Known, Answered
<1>7. (\A S : Within(S)' <=> Within(S)) /\ Fetched' = Fetched
  BY <1>1 DEF Within, Fetched
<1>8. Within(1 .. savedMax')
  BY <1>3 DEF Known, Near
<1>9. \A i \in Ids : i <= Reached' => i \in Fetched
  BY <1>2, <1>3, <1>5 DEF Known, Near
<1> QED
  BY <1>1, <1>4, <1>6, <1>7, <1>8, <1>9 DEF Known, Near

LEMMA ArriveKnown ==
  ASSUME ExInv, ExInv', Known, Arrive
  PROVE  Known'
<1>1. UNCHANGED <<bus, ends, rs, cl, savedMax>> /\ rows' = rows + 1
  BY DEF Arrive, endVars, clientVars
<1>2. rows <= rows' /\ bus.cursor <= bus'.cursor
  BY <1>1, BusTyped
<1>3. \A S : Within(S) => Within(S)'
  BY <1>2, WithinGrows
<1>4. Answered' /\ Fetched' = Fetched /\ Reached' = Reached
  BY <1>1 DEF Known, Answered, Fetched, Reached
<1> QED
  BY <1>1, <1>3, <1>4 DEF Known, Near

LEMMA KnownStep ==
  ASSUME ExInv, ExInv', Known, [Next]_vars
  PROVE  Known'
<1>1. CASE UNCHANGED vars
  BY <1>1 DEF vars, Known, Answered, Near, Within, Fetched, Reached
<1>2. CASE Next
  BY <1>2, EndpointKnown, RequestKnown, ReceiveKnown, StoreKnown, ClientEndKnown, ArriveKnown
     DEF Next, Client
<1> QED
  BY <1>1, <1>2

LEMMA KnownInit == Init => Known
<1> SUFFICES ASSUME Init
             PROVE  Known
  OBVIOUS
<1>1. DOMAIN rs = {} /\ DOMAIN ends = 1 .. MaxRounds /\ rows = 0 /\ savedMax = 0
      /\ bus.cursor = 0 /\ cl.pc = "idle" /\ cl.top = 0 /\ cl.left = {}
      /\ \A e \in DOMAIN ends : ends[e].ids = {}
  BY DEF Init, Off
<1>2. Within({}) /\ 1 .. 0 = {}
  BY DEF Within
<1>3. \A i \in Ids : ~(i <= 0)
  BY DEF Ids
<1> QED
  BY <1>1, <1>2, <1>3 DEF Known, Answered, Near, Reached

-----------------------------------------------------------------------------
(* A step of the one endpoint under way, part by part *)

LEMMA ToMoves ==
  ASSUME NEW e \in DOMAIN ends, NEW l, To(e, l)
  PROVE  DOMAIN ends' = DOMAIN ends /\ ends'[e] = l /\ \A d \in DOMAIN ends \ {e} : ends'[d] = ends[d]
  BY DEF To

LEMMA OneKept ==
  ASSUME One, NEW e \in DOMAIN ends, Busy(e), NEW l, To(e, l)
  PROVE  One' /\ \A d \in DOMAIN ends \ {e} : ends[d].pc \in {"off", "answer", "dead", "done"}
                                              /\ ends'[d] = ends[d]
<1>1. \A d \in DOMAIN ends \ {e} : ends[d].pc \in {"off", "answer", "dead", "done"}
  BY DEF One, Busy
<1>2. DOMAIN ends' = DOMAIN ends /\ \A d \in DOMAIN ends \ {e} : ends'[d] = ends[d]
  BY ToMoves
<1> QED
  BY <1>1, <1>2 DEF One, Busy

LEMMA HeldKept ==
  ASSUME Held, NEW e \in DOMAIN ends, NEW l, To(e, l), HeldAt(l, rs[e], odd'), UNCHANGED rs, odd \subseteq odd'
  PROVE  Held'
<1>1. \A k, r : HeldAt(k, r, odd) => HeldAt(k, r, odd')
  BY DEF HeldAt
<1> QED
  BY <1>1, ToMoves DEF Held

LEMMA MeasuredKept ==
  ASSUME One, NEW e \in DOMAIN ends, Busy(e), NEW l, To(e, l), MeasuredAt(l, Ahead', bus'.cursor, odd')
  PROVE  Measured'
<1>1. \A d \in DOMAIN ends \ {e} : MeasuredAt(ends'[d], Ahead', bus'.cursor, odd')
  BY OneKept DEF MeasuredAt
<1> QED
  BY <1>1, ToMoves DEF Measured

LEMMA Counters ==
  ASSUME ExInv
  PROVE  /\ \A S \in SUBSET DOMAIN rs : IsFiniteSet(S) /\ Cardinality(S) \in Nat
         /\ \A S \in SUBSET DOMAIN ends : IsFiniteSet(S) /\ Cardinality(S) \in Nat
         /\ \A S \in SUBSET DOMAIN rs : \A T \in SUBSET S : Cardinality(T) <= Cardinality(S)
<1>1. IsFiniteSet(DOMAIN ends)
  BY RsTyped, FS_Interval
<1>2. \A S \in SUBSET DOMAIN ends : IsFiniteSet(S) /\ Cardinality(S) \in Nat
  BY <1>1, FS_Subset, FS_CardinalityType
<1> QED
  BY <1>2, RsTyped, FS_Subset

\* Steps that leave the number of entries of an ack, or of items, as it is.
LEMMA AckCountKept ==
  ASSUME ExInv, NEW e \in DOMAIN ends, Busy(e), NEW l, To(e, l), UNCHANGED rs, NEW a, AckCount(a),
         AcksLogged(log, a)' = AcksLogged(log, a), AcksLogged(log, a) \in Nat, l.pc # "off",
         l.pc = "dead" \/ (l.pc = "ack" <=> ends[e].pc = "ack")
  PROVE  AckCount(a)'
<1>1. DOMAIN ends' = DOMAIN ends /\ ends'[e] = l /\ \A d \in DOMAIN ends \ {e} : ends'[d] = ends[d]
  BY ToMoves
<1>2. ends[e].pc \notin {"off", "dead"} /\ DOMAIN rs \subseteq DOMAIN ends
  BY RsTyped DEF Busy
<1>3. AckedBy(a) \subseteq AckedBy(a)' /\ Live(AckedBy(a))' \subseteq Live(AckedBy(a))
  BY <1>1, <1>2 DEF AckedBy, Live
<1>4. AckedBy(a)' \subseteq DOMAIN rs /\ Live(AckedBy(a)) \subseteq DOMAIN rs
  BY DEF AckedBy, Live
<1>5. /\ Cardinality(AckedBy(a)) <= Cardinality(AckedBy(a)')
      /\ Cardinality(Live(AckedBy(a))') <= Cardinality(Live(AckedBy(a)))
  BY <1>3, <1>4, Counters
<1>6. /\ Cardinality(AckedBy(a)) \in Nat /\ Cardinality(AckedBy(a)') \in Nat
      /\ Cardinality(Live(AckedBy(a))') \in Nat /\ Cardinality(Live(AckedBy(a))) \in Nat
  BY <1>3, <1>4, Counters DEF AckedBy
<1> QED
  BY <1>5, <1>6 DEF AckCount

LEMMA AckCountAdd ==
  ASSUME ExInv, NEW e \in DOMAIN ends, ends[e].pc = "ack", NEW l, To(e, l), UNCHANGED rs, NEW a,
         AckCount(a), AcksLogged(log, a) \in Nat,
         AcksLogged(log, a)' = IF rs[e].ack = a THEN AcksLogged(log, a) + 1 ELSE AcksLogged(log, a),
         l.pc \notin {"off", "ack", "dead"}
  PROVE  AckCount(a)'
<1>1. DOMAIN ends' = DOMAIN ends /\ ends'[e] = l /\ \A d \in DOMAIN ends \ {e} : ends'[d] = ends[d]
  BY ToMoves
<1>2. e \in DOMAIN rs /\ DOMAIN rs \subseteq DOMAIN ends
  BY RsTyped, RequestTyped
<1> DEFINE c == rs[e].ack = a
<1>3. /\ AckedBy(a)' = IF c THEN AckedBy(a) \cup {e} ELSE AckedBy(a)
      /\ Live(AckedBy(a))' = IF c THEN Live(AckedBy(a)) \cup {e} ELSE Live(AckedBy(a))
      /\ e \notin AckedBy(a) /\ e \notin Live(AckedBy(a))
  BY <1>1, <1>2 DEF AckedBy, Live
<1>4. IsFiniteSet(AckedBy(a)) /\ IsFiniteSet(Live(AckedBy(a)))
  BY Counters DEF AckedBy, Live
<1>5. c \in BOOLEAN
  OBVIOUS
<1> HIDE DEF c
<1>6. /\ Cardinality(AckedBy(a)) \in Nat
      /\ Cardinality(AckedBy(a)') = IF c THEN Cardinality(AckedBy(a)) + 1 ELSE Cardinality(AckedBy(a))
  BY <1>3, <1>4, <1>5, OneMore
<1>7. /\ Cardinality(Live(AckedBy(a))) \in Nat
      /\ Cardinality(Live(AckedBy(a))')
           = IF c THEN Cardinality(Live(AckedBy(a))) + 1 ELSE Cardinality(Live(AckedBy(a)))
  BY <1>3, <1>4, <1>5, OneMore
<1> QED
  BY <1>6, <1>7 DEF AckCount, c

LEMMA ItemCountKept ==
  ASSUME ExInv, NEW e \in DOMAIN ends, Busy(e), NEW l, To(e, l), UNCHANGED rs, ItemCount,
         Logged(log, Item)' = Logged(log, Item), Logged(log, Item) \in Nat,
         l.pc = "dead" \/ Item \notin rs[e].sent \/ (l.pc \in Unasked <=> ends[e].pc \in Unasked)
  PROVE  ItemCount'
<1>1. DOMAIN ends' = DOMAIN ends /\ ends'[e] = l /\ \A d \in DOMAIN ends \ {e} : ends'[d] = ends[d]
  BY ToMoves
<1>2. ends[e].pc # "dead" /\ DOMAIN rs \subseteq DOMAIN ends /\ "dead" \notin Unasked
  BY RsTyped DEF Busy, Unasked
<1>3. AskedBy \subseteq AskedBy' /\ Live(AskedBy)' \subseteq Live(AskedBy)
  BY <1>1, <1>2 DEF AskedBy, Live
<1>4. AskedBy' \subseteq DOMAIN rs /\ Live(AskedBy) \subseteq DOMAIN rs
  BY DEF AskedBy, Live
<1>5. /\ Cardinality(AskedBy) <= Cardinality(AskedBy')
      /\ Cardinality(Live(AskedBy)') <= Cardinality(Live(AskedBy))
  BY <1>3, <1>4, Counters
<1>6. /\ Cardinality(AskedBy) \in Nat /\ Cardinality(AskedBy') \in Nat
      /\ Cardinality(Live(AskedBy)') \in Nat /\ Cardinality(Live(AskedBy)) \in Nat
  BY <1>3, <1>4, Counters DEF AskedBy
<1> QED
  BY <1>5, <1>6 DEF ItemCount

LEMMA ItemCountAdd ==
  ASSUME ExInv, NEW e \in DOMAIN ends, ends[e].pc = "item", NEW l, To(e, l), UNCHANGED rs,
         ItemCount, Logged(log, Item) \in Nat, rs[e].sent = {Item},
         Logged(log, Item)' = Logged(log, Item) + 1,
         l.pc \notin Unasked, l.pc # "dead"
  PROVE  ItemCount'
<1>1. DOMAIN ends' = DOMAIN ends /\ ends'[e] = l /\ \A d \in DOMAIN ends \ {e} : ends'[d] = ends[d]
  BY ToMoves
<1>2. e \in DOMAIN rs /\ DOMAIN rs \subseteq DOMAIN ends
  BY RsTyped, RequestTyped
<1>3. /\ AskedBy' = AskedBy \cup {e} /\ Live(AskedBy)' = Live(AskedBy) \cup {e}
      /\ e \notin AskedBy /\ e \notin Live(AskedBy)
  BY <1>1, <1>2 DEF AskedBy, Live, Unasked
<1>4. IsFiniteSet(AskedBy) /\ IsFiniteSet(Live(AskedBy))
  BY Counters DEF AskedBy, Live
<1>5. /\ Cardinality(AskedBy) \in Nat /\ Cardinality(AskedBy') = Cardinality(AskedBy) + 1
      /\ Cardinality(Live(AskedBy)) \in Nat
      /\ Cardinality(Live(AskedBy)') = Cardinality(Live(AskedBy)) + 1
  BY <1>3, <1>4, FS_AddElement, FS_CardinalityType
<1> QED
  BY <1>5 DEF ItemCount

GivenCount(i) == Given(log, i) = Cardinality(GaveBy(i))

LEMMA GivenCountKept ==
  ASSUME NEW e \in DOMAIN ends, NEW l, To(e, l), NEW i, GivenCount(i), Given(log, i)' = Given(log, i),
         l.ids \ l.left = ends[e].ids \ ends[e].left
  PROVE  GivenCount(i)'
<1>1. GaveBy(i)' = GaveBy(i)
  BY ToMoves DEF GaveBy
<1> QED
  BY <1>1 DEF GivenCount

LEMMA GivenCountAdd ==
  ASSUME ExInv, NEW e \in DOMAIN ends, NEW l, To(e, l), NEW i, GivenCount(i), NEW g,
         g \in ends[e].left, ends[e].left \subseteq ends[e].ids, l.ids = ends[e].ids,
         l.left = ends[e].left \ {g}, Given(log, i) \in Nat,
         Given(log, i)' = IF g = i THEN Given(log, i) + 1 ELSE Given(log, i)
  PROVE  GivenCount(i)'
<1> DEFINE c == g = i
<1>1. GaveBy(i)' = (IF c THEN GaveBy(i) \cup {e} ELSE GaveBy(i)) /\ (c => e \notin GaveBy(i))
  BY ToMoves DEF GaveBy
<1>2. IsFiniteSet(GaveBy(i))
  BY Counters DEF GaveBy
<1>3. Cardinality(GaveBy(i)') = IF c THEN Cardinality(GaveBy(i)) + 1 ELSE Cardinality(GaveBy(i))
  BY <1>1, <1>2, FS_AddElement
<1> QED
  BY <1>3 DEF GivenCount

\* The entries that are there keep saying what they say.
LEMMA EntriesKept ==
  ASSUME Entries, UNCHANGED log, odd \subseteq odd'
  PROVE  Entries'
  BY DEF Entries, AckSays, RoundSays

LEMMA EntriesAdd ==
  ASSUME Entries, odd \subseteq odd', NEW x, NEW n, Grown(log, x, log', n),
         Is(x, "ack", "accepted") => AckSays(x),
         Is(x, "pickup", "accepted") => RoundSays(x, odd'),
         Is(x, "pickup", "delivered") => x.id \in Ids,
         x.kind = "item" => x.item = Item /\ (x.why = "failed" => "sendfailed" \in odd')
  PROVE  Entries'
<1>1. DOMAIN log' = DOMAIN log \cup {n} /\ log'[n] = x /\ \A i \in DOMAIN log : log'[i] = log[i]
  BY DEF Grown
<1>2. \A y : RoundSays(y, odd) => RoundSays(y, odd')
  BY DEF AckSays, RoundSays
<1>3. \A i \in Acks(log)' : AckSays(log'[i])
  <2>1. ASSUME NEW i \in Acks(log')
        PROVE  AckSays(log'[i])
    <3>1. CASE i = n
      BY <1>1, <2>1, <3>1, KindsOf DEF Is
    <3>2. CASE i # n
      <4>1. i \in Acks(log) /\ log'[i] = log[i]
        BY <1>1, <2>1, <3>2, KindsOf
      <4> QED
        BY <4>1 DEF Entries
    <3> QED
      BY <3>1, <3>2
  <2> QED
    BY <2>1
<1>4. \A i \in Rounds(log)' : RoundSays(log'[i], odd')
  <2>1. ASSUME NEW i \in Rounds(log')
        PROVE  RoundSays(log'[i], odd')
    <3>1. CASE i = n
      BY <1>1, <2>1, <3>1, KindsOf DEF Is
    <3>2. CASE i # n
      <4>1. i \in Rounds(log) /\ log'[i] = log[i]
        BY <1>1, <2>1, <3>2, KindsOf
      <4>2. RoundSays(log[i], odd)
        BY <4>1 DEF Entries
      <4> QED
        BY <1>2, <4>1, <4>2 DEF RoundSays
    <3> QED
      BY <3>1, <3>2
  <2> QED
    BY <2>1
<1>5. \A i \in Givens(log)' : log'[i].id \in Ids
  <2>1. ASSUME NEW i \in Givens(log')
        PROVE  log'[i].id \in Ids
    <3>1. CASE i = n
      BY <1>1, <2>1, <3>1, MoreKinds DEF Is
    <3>2. CASE i # n
      <4>1. i \in Givens(log) /\ log'[i] = log[i]
        BY <1>1, <2>1, <3>2, MoreKinds
      <4> QED
        BY <4>1 DEF Entries
    <3> QED
      BY <3>1, <3>2
  <2> QED
    BY <2>1
<1>6. \A i \in DOMAIN log' : log'[i].kind = "item" =>
          log'[i].item = Item /\ (log'[i].why = "failed" => "sendfailed" \in odd')
  BY <1>1 DEF Entries
<1> QED
  BY <1>3, <1>4, <1>5, <1>6 DEF Entries

-----------------------------------------------------------------------------
(* The walk over the log *)

LEMMA OldExpected ==
  ASSUME NEW s, IsASeq(s), NEW x, NEW t, IsASeq(t), NEW n, Grown(s, x, t, n),
         NEW i \in DOMAIN s \cup {n}
  PROVE  Expected(t, 0, i) = Expected(s, 0, i)
<1>1. Below(Moves(t), Moves(s), i)
  BY SameMoves
<1>2. LastBefore(Moves(t), i) = LastBefore(Moves(s), i)
  BY <1>1, LastSame
<1> QED
  BY <1>2, SameExpected

LEMMA WindowIs ==
  ASSUME NEW s, IsASeq(s), NEW i \in Nat, NEW r \in Window(s, i)
  PROVE  r \in Rounds(s) /\ r < i /\ \A a \in Acks(s) : a < i => a < r
<1> DEFINE since == {0} \cup {j \in Acks(s) : j < i}
<1>1. since \in SUBSET (0 .. i) /\ 0 \in since
  BY KindsNat
<1>2. Max(since) \in since /\ \A y \in since : y <= Max(since)
  BY <1>1, MaxTyped
<1>3. r \in Rounds(s) /\ Max(since) < r /\ r < i
  BY DEF Window
<1>4. \A a \in Acks(s) : a < i => a \in since
  OBVIOUS
<1> DEFINE m == Max(since)
<1> HIDE DEF since
<1>5. r \in Nat
  BY <1>3, KindsNat
<1>6. since \subseteq Nat
  BY <1>1
<1>7. m \in Nat /\ m < r /\ \A y \in since : y <= m
  BY <1>2, <1>3, <1>6
<1> HIDE DEF m
<1>8. \A y \in since : y < r
  BY <1>5, <1>6, <1>7
<1> QED
  BY <1>3, <1>4, <1>8

\* The last entry that closes, seen from the end of the log.
LEMMA LastMove ==
  ASSUME NEW s, IsASeq(s), NEW i \in Nat, NEW m \in Moves(s), m < i, \A k \in Moves(s) : k < i => k <= m
  PROVE  Expected(s, 0, i) = CursorAfter(s, m)
<1>1. m \in LastBefore(Moves(s), i)
  BY DEF LastBefore
<1> QED
  BY <1>1, ExpectedIs

\* Who is between the entry of an ack and the ack.
SameAcking ==
    /\ DOMAIN ends' = DOMAIN ends
    /\ \A d \in DOMAIN ends : ends'[d].pc \in InAck =>
          ends[d].pc \in InAck /\ Target(rs[d].ack)' = Target(rs[d].ack)
    /\ (\E d \in DOMAIN ends : ends[d].pc \in InAck) => \E d \in DOMAIN ends : ends'[d].pc \in InAck

LEMMA TracedKept ==
  ASSUME Traced, UNCHANGED log, bus'.cursor = bus.cursor, SameAcking
  PROVE  Traced'
<1>1. Ends' = Ends
  BY DEF Ends
<1>2. ASSUME NEW d \in DOMAIN ends, ends'[d].pc \in InAck
      PROVE  \E j \in Acks(log) : /\ \A k \in Closing(log) : k <= j
                                  /\ log[j].from = bus.cursor /\ log[j].to = Target(rs[d].ack)'
  BY <1>2 DEF Traced, SameAcking
<1> QED
  BY <1>1, <1>2 DEF Traced, SameAcking

\* One entry more.
More(x) == IsASeq(log) /\ IsASeq(log') /\ Grown(log, x, log', Ends) /\ Ends \in Nat /\ Ends' = Ends + 1
           /\ DOMAIN log \subseteq Nat

LEMMA MoreTyped ==
  ASSUME IsASeq(log), NEW x, log' = Append(log, x)
  PROVE  More(x)
<1>1. Len(log') = Len(log) + 1 /\ Len(log) \in Nat /\ DOMAIN log = 1 .. Len(log)
  BY AppendAt
<1>2. IsASeq(log')
  BY AppendSeq
<1> QED
  BY <1>1, <1>2, AppendGrows DEF More, Ends

LEMMA TracedOld ==
  ASSUME Traced, NEW x, More(x)
  PROVE  /\ \A i \in Acks(log) : /\ log'[i].from = Expected(log', 0, i)
                                 /\ \A r \in Window(log', i) : log'[r].at = log'[i].from
         /\ \A r \in Rounds(log) : log'[r].at = Expected(log', 0, r)
<1>1. \A i \in DOMAIN log : log'[i] = log[i]
  BY DEF More, Grown
<1>2. Acks(log) \subseteq DOMAIN log /\ Rounds(log) \subseteq DOMAIN log
  BY KindsIn
<1>3. \A i \in DOMAIN log : Expected(log', 0, i) = Expected(log, 0, i)
  BY OldExpected DEF More
<1>4. \A i \in DOMAIN log : Window(log', i) = Window(log, i)
  BY SameOpen DEF More
<1>5. \A i : Window(log, i) \subseteq Rounds(log)
  BY DEF Window
<1> QED
  BY <1>1, <1>2, <1>3, <1>4, <1>5 DEF Traced

\* An entry that neither is a round nor concerns an ack.
LEMMA TracedPlain ==
  ASSUME Traced, NEW x, More(x), ~Is(x, "pickup", "accepted"), x.kind # "ack",
         bus'.cursor = bus.cursor, SameAcking
  PROVE  Traced'
<1>1. Acks(log') = Acks(log) /\ Rounds(log') = Rounds(log) /\ Refusals(log') = Refusals(log)
  BY GrownKinds, GrownMore DEF More, Is
<1>2. /\ \A i \in DOMAIN log : log'[i] = log[i]
      /\ Acks(log) \subseteq DOMAIN log /\ Rounds(log) \subseteq DOMAIN log
      /\ Refusals(log) \subseteq DOMAIN log
  BY KindsIn, MoreKinds DEF More, Grown
<1>3. Closing(log') = Closing(log)
  BY <1>1 DEF Closing
<1>4. Moves(log') = Moves(log)
  <2>1. \A f \in Refusals(log) : Undone(log', f) = Undone(log, f)
    BY <1>2, SameOpen DEF More
  <2> QED
    BY <1>1, <2>1 DEF Moves
<1>5. Expected(log', 0, Ends') = Expected(log, 0, Ends)
  <2>1. \A m \in Moves(log) : m \in Nat /\ m < Ends
    BY KindsNat DEF More, Grown
  <2>2. \A m \in Moves(log) : m < Ends /\ m < Ends'
    BY <2>1 DEF More
  <2>3. LastBefore(Moves(log'), Ends') = LastBefore(Moves(log), Ends)
    BY <1>4, <2>2 DEF LastBefore
  <2> QED
    BY <2>3, SameExpected DEF More
<1>6. ASSUME NEW d \in DOMAIN ends, ends'[d].pc \in InAck
      PROVE  \E j \in Acks(log) : /\ \A k \in Closing(log) : k <= j
                                  /\ log'[j].from = bus.cursor /\ log'[j].to = Target(rs[d].ack)'
  <2>1. PICK j \in Acks(log) : /\ \A k \in Closing(log) : k <= j
                               /\ log[j].from = bus.cursor /\ log[j].to = Target(rs[d].ack)'
    BY <1>6 DEF Traced, SameAcking
  <2> QED
    BY <1>2, <2>1
<1>7. \A r \in Rounds(log) : (\A a \in Acks(log) : a < r) => log'[r].at = bus.cursor
  BY <1>2 DEF Traced
<1>8. (\A d \in DOMAIN ends : ends'[d].pc \notin InAck) => Expected(log', 0, Ends') = bus.cursor
  BY <1>5 DEF Traced, SameAcking
<1> QED
  BY <1>1, <1>3, <1>6, <1>7, <1>8, TracedOld DEF Traced, SameAcking

\* One endpoint is under way, and it was not at an ack, or it is not any more.
NoAck == \A d \in DOMAIN ends : ends[d].pc \notin InAck

LEMMA TracedAck ==
  ASSUME Traced, NoAck, NEW e \in DOMAIN ends, NEW l, To(e, l), NEW x, More(x),
         Is(x, "ack", "accepted"), x.from = bus.cursor, x.to = Target(rs[e].ack)',
         UNCHANGED bus, l.pc \in InAck
  PROVE  Traced'
<1>1. /\ Acks(log') = Acks(log) \cup {Ends} /\ Rounds(log') = Rounds(log)
      /\ Refusals(log') = Refusals(log)
  BY GrownKinds, GrownMore DEF More, Is
<1>2. /\ \A i \in DOMAIN log : log'[i] = log[i] /\ i < Ends /\ i \in Nat
      /\ Acks(log) \subseteq DOMAIN log /\ Rounds(log) \subseteq DOMAIN log
      /\ Closing(log) \subseteq DOMAIN log /\ log'[Ends] = x /\ Ends \in Nat
  BY KindsIn, KindsNat DEF More, Grown
<1>3. Closing(log') = Closing(log) \cup {Ends}
  BY <1>1 DEF Closing
<1>4. x.from = Expected(log', 0, Ends)
  <2>1. Expected(log', 0, Ends) = Expected(log, 0, Ends)
    BY OldExpected DEF More
  <2> QED
    BY <2>1 DEF Traced, NoAck
<1>5. \A r \in Window(log', Ends) : log'[r].at = x.from
  <2>1. Window(log', Ends) = Window(log, Ends)
    BY SameOpen DEF More
  <2>2. ASSUME NEW r \in Window(log, Ends)
        PROVE  log'[r].at = x.from
    <3>1. r \in Rounds(log) /\ \A a \in Acks(log) : a < Ends => a < r
      BY <1>2, WindowIs DEF More
    <3> QED
      BY <1>2, <3>1 DEF Traced
  <2> QED
    BY <2>1, <2>2
<1>6. \A i \in Acks(log') : /\ log'[i].from = Expected(log', 0, i)
                            /\ \A r \in Window(log', i) : log'[r].at = log'[i].from
  BY <1>1, <1>2, <1>4, <1>5, TracedOld
<1>7. \A r \in Rounds(log') : log'[r].at = Expected(log', 0, r)
  BY <1>1, TracedOld
<1>8. \A r \in Rounds(log') : ~\A a \in Acks(log') : a < r
  <2>1. \A r \in Rounds(log) : ~(Ends < r)
    BY <1>2
  <2> QED
    BY <1>1, <2>1
<1>9. ASSUME NEW d \in DOMAIN ends', ends'[d].pc \in InAck
      PROVE  \E j \in Acks(log') : /\ \A k \in Closing(log') : k <= j
                                   /\ log'[j].from = bus'.cursor /\ log'[j].to = Target(rs[d].ack)'
  <2>1. d = e
    BY <1>9, ToMoves DEF NoAck
  <2>2. \A k \in Closing(log') : k <= Ends
    BY <1>2, <1>3
  <2> QED
    BY <1>1, <1>2, <2>1, <2>2
<1>10. \E d \in DOMAIN ends' : ends'[d].pc \in InAck
  BY ToMoves
<1> QED
  BY <1>6, <1>7, <1>8, <1>9, <1>10 DEF Traced

\* The logged ack of the endpoint that is at one: nothing moves the cursor after it.
LEMMA AckUnderWay ==
  ASSUME Traced, NEW e \in DOMAIN ends, ends[e].pc \in InAck
  PROVE  \E j \in Acks(log) : /\ \A k \in Closing(log) : k <= j
                              /\ log[j].from = bus.cursor /\ log[j].to = Target(rs[e].ack)
  BY DEF Traced

LEMMA TracedDo ==
  ASSUME Traced, IsASeq(log), NEW e \in DOMAIN ends, ends[e].pc \in InAck, UNCHANGED log,
         bus'.cursor = Target(rs[e].ack), NoAck'
  PROVE  Traced'
<1>1. PICK j \in Acks(log) : /\ \A k \in Closing(log) : k <= j
                             /\ log[j].from = bus.cursor /\ log[j].to = Target(rs[e].ack)
  BY AckUnderWay
<1>2. /\ j \in Nat /\ Rounds(log) \subseteq Nat /\ Rounds(log) \subseteq Closing(log)
      /\ Moves(log) \subseteq Closing(log) /\ j \in DOMAIN log /\ j \in Moves(log)
  BY KindsNat, KindsIn DEF Closing, Moves
<1>3. Ends \in Nat /\ j < Ends
  <2>1. Len(log) \in Nat /\ DOMAIN log = 1 .. Len(log)
    BY AppendAt
  <2> QED
    BY <1>2, <2>1 DEF Ends
<1>4. \A r \in Rounds(log) : ~\A a \in Acks(log) : a < r
  BY <1>1, <1>2
<1>5. Expected(log, 0, Ends) = bus'.cursor
  <2>1. Expected(log, 0, Ends) = CursorAfter(log, j)
    BY <1>1, <1>2, <1>3, LastMove
  <2>2. CursorAfter(log, j) = log[j].to
    BY KindsOf DEF CursorAfter, Is
  <2> QED
    BY <1>1, <2>1, <2>2
<1>6. Ends' = Ends
  BY DEF Ends
<1> QED
  BY <1>4, <1>5, <1>6 DEF Traced, NoAck

LEMMA TracedFail ==
  ASSUME Traced, NEW e \in DOMAIN ends, ends[e].pc \in InAck, NEW x, More(x),
         Is(x, "ack", "rejected"), UNCHANGED bus, NoAck'
  PROVE  Traced'
<1>1. PICK j \in Acks(log) : (\A k \in Closing(log) : k <= j) /\ log[j].from = bus.cursor
  BY AckUnderWay
<1>2. /\ Acks(log') = Acks(log) /\ Rounds(log') = Rounds(log)
      /\ Refusals(log') = Refusals(log) \cup {Ends}
  BY GrownKinds, GrownMore DEF More, Is
<1>3. /\ \A i \in DOMAIN log : log'[i] = log[i] /\ i < Ends /\ i \in Nat
      /\ Acks(log) \subseteq DOMAIN log /\ Rounds(log) \subseteq DOMAIN log
      /\ log'[Ends] = x /\ Ends \in Nat /\ Ends' = Ends + 1
  BY KindsIn DEF More, Grown
<1>4. /\ Closing(log') = Closing(log) \cup {Ends} /\ Rounds(log) \subseteq Closing(log)
      /\ Moves(log') \subseteq Closing(log') /\ Closing(log) \subseteq DOMAIN log
      /\ Acks(log) \cup Refusals(log) \subseteq Closing(log)
  BY <1>2, KindsNat DEF Closing, More
<1>5. j \in Nat /\ j < Ends /\ j \in DOMAIN log
  BY <1>3
<1>6. \A r \in Rounds(log') : ~\A a \in Acks(log') : a < r
  BY <1>1, <1>2, <1>3, <1>4, <1>5
<1>7. Undone(log', Ends) = {j} /\ Max(Undone(log', Ends)) = j
  <2> DEFINE S == Acks(log') \cup Refusals(log')
  <2>1. \A k \in S : k < Ends => k <= j
    BY <1>1, <1>2, <1>3, <1>4
  <2>2. j \in LastBefore(S, Ends)
    BY <1>2, <1>5, <2>1 DEF LastBefore
  <2>3. S \in SUBSET Nat
    BY KindsNat DEF More
  <2>4. LastBefore(S, Ends) = {j} /\ Max(LastBefore(S, Ends)) = j
    BY <2>2, <2>3, LastOne
  <2>5. Undone(log', Ends) = LastBefore(S, Ends) \cap Acks(log')
    BY DEF Undone
  <2> HIDE DEF S
  <2>6. Undone(log', Ends) = {j}
    BY <1>2, <2>4, <2>5
  <2> QED
    BY <2>4, <2>6
<1>8. Expected(log', 0, Ends') = bus.cursor
  <2>1. Ends \in Moves(log')
    BY <1>2, <1>7 DEF Moves
  <2>2. Ends < Ends' /\ Ends' \in Nat /\ \A k \in Moves(log') : k <= Ends
    BY <1>3, <1>4
  <2>3. Expected(log', 0, Ends') = CursorAfter(log', Ends)
    BY <2>1, <2>2, LastMove DEF More
  <2>4. CursorAfter(log', Ends) = log'[j].from
    BY <1>3, <1>7 DEF CursorAfter, Is
  <2> QED
    BY <1>1, <1>3, <1>5, <2>3, <2>4
<1> QED
  BY <1>2, <1>6, <1>8, TracedOld DEF Traced, NoAck

LEMMA TracedRound ==
  ASSUME Traced, NoAck, NoAck', NEW x, More(x), Is(x, "pickup", "accepted"), x.at = bus.cursor,
         UNCHANGED bus
  PROVE  Traced'
<1>1. Acks(log') = Acks(log) /\ Rounds(log') = Rounds(log) \cup {Ends}
  BY GrownKinds DEF More, Is
<1>2. /\ \A i \in DOMAIN log : log'[i] = log[i] /\ i < Ends /\ i \in Nat
      /\ Rounds(log) \subseteq DOMAIN log /\ log'[Ends] = x /\ Ends \in Nat /\ Ends' = Ends + 1
  BY KindsIn DEF More, Grown
<1>3. x.at = Expected(log', 0, Ends)
  <2>1. Expected(log', 0, Ends) = Expected(log, 0, Ends)
    BY OldExpected DEF More
  <2> QED
    BY <2>1 DEF Traced, NoAck
<1>4. \A r \in Rounds(log') : log'[r].at = Expected(log', 0, r)
  BY <1>1, <1>2, <1>3, TracedOld
<1>5. \A r \in Rounds(log') : (\A a \in Acks(log') : a < r) => log'[r].at = bus.cursor
  BY <1>1, <1>2 DEF Traced
<1>6. Expected(log', 0, Ends') = bus.cursor
  <2>1. Ends \in Moves(log')
    BY <1>1 DEF Moves
  <2>2. Ends < Ends' /\ Ends' \in Nat /\ \A k \in Moves(log') : k <= Ends
    <3>1. \A k \in DOMAIN log' : k \in DOMAIN log \/ k = Ends
      BY DEF More, Grown
    <3>2. Moves(log') \subseteq DOMAIN log'
      BY KindsNat DEF More
    <3> QED
      BY <1>2, <3>1, <3>2
  <2>3. Expected(log', 0, Ends') = CursorAfter(log', Ends)
    BY <2>1, <2>2, LastMove DEF More
  <2> QED
    BY <1>2, <2>3 DEF CursorAfter
<1> QED
  BY <1>1, <1>4, <1>5, <1>6, TracedOld DEF Traced, NoAck

-----------------------------------------------------------------------------
(* The endpoint keeps what is told *)

Sound == ExInv /\ Known /\ Told

LEMMA AtIs ==
  ASSUME ExInv, NEW e \in DOMAIN ends, NEW pc
  PROVE  /\ At(e, pc).pc = pc /\ At(e, pc).ids = ends[e].ids /\ At(e, pc).left = ends[e].left
         /\ At(e, pc).err = ends[e].err /\ At(e, pc).next = ends[e].next
         /\ At(e, pc).pending = ends[e].pending /\ At(e, pc).round = ends[e].round
  BY EndTyped DEF At, End

LEMMA CountsNat ==
  ASSUME IsASeq(log)
  PROVE  /\ \A a : AcksLogged(log, a) \in Nat
         /\ \A m : Logged(log, m) \in Nat
         /\ \A i : Given(log, i) \in Nat
<1>1. Grown(log, AckFailed, Append(log, AckFailed), Len(log) + 1)
  BY AppendGrows
<1>2. CountsGrow(log, AckFailed, Append(log, AckFailed))
  BY <1>1, GrownCounts
<1> QED
  BY <1>2 DEF CountsGrow

LEMMA AckPlaces ==
  ASSUME One, NEW e \in DOMAIN ends, Busy(e), NEW l, To(e, l)
  PROVE  /\ NoAck <=> ends[e].pc \notin InAck
         /\ NoAck' <=> l.pc \notin InAck
         /\ (/\ l.pc \in InAck <=> ends[e].pc \in InAck
             /\ l.pc \in InAck => Target(rs[e].ack)' = Target(rs[e].ack)) => SameAcking
<1>1. /\ DOMAIN ends' = DOMAIN ends /\ ends'[e] = l
      /\ \A d \in DOMAIN ends \ {e} : ends'[d] = ends[d] /\ ends[d].pc \notin InAck
  BY OneKept, ToMoves DEF InAck
<1> QED
  BY <1>1 DEF NoAck, SameAcking

CountsSame == /\ \A a : AcksLogged(log, a)' = AcksLogged(log, a)
              /\ Logged(log, Item)' = Logged(log, Item)
              /\ \A i : Given(log, i)' = Given(log, i)

\* A step that logs nothing that is counted.
LEMMA ToldStep ==
  ASSUME ExInv, Told, NEW e \in DOMAIN ends, Busy(e), NEW l, To(e, l), UNCHANGED rs, odd \subseteq odd',
         HeldAt(l, rs[e], odd'), MeasuredAt(l, Ahead', bus'.cursor, odd'), CountsSame, Entries', Traced', l.pc # "off",
         l.pc = "dead" \/ (l.pc = "ack" <=> ends[e].pc = "ack"),
         l.pc = "dead" \/ Item \notin rs[e].sent \/ (l.pc \in Unasked <=> ends[e].pc \in Unasked),
         l.ids \ l.left = ends[e].ids \ ends[e].left
  PROVE  Told'
<1>1. /\ \A a : AcksLogged(log, a) \in Nat
      /\ \A m : Logged(log, m) \in Nat
  BY BusTyped, CountsNat
<1>2. \A a \in Ids : AckCount(a)'
  BY <1>1, AckCountKept DEF Told, Counted, CountsSame
<1>3. ItemCount'
  BY <1>1, ItemCountKept DEF Told, Counted, CountsSame
<1>4. \A i \in Ids : GivenCount(i)'
  BY GivenCountKept DEF Told, Counted, CountsSame, GivenCount
<1>5. Counted'
  BY <1>2, <1>3, <1>4 DEF Counted, GivenCount
<1>6. One' /\ Held' /\ Measured'
  BY OneKept, HeldKept, MeasuredKept DEF Told
<1> QED
  BY <1>5, <1>6 DEF Told

LEMMA CountsStay ==
  ASSUME UNCHANGED log
  PROVE  CountsSame
  BY DEF CountsSame

\* A log write that did not fail.
LEMMA NoteWritten ==
  ASSUME ExInv, Clean', NEW e, NEW x, NEW l, NEW how, Note(e, x, l, how)
  PROVE  /\ To(e, l) /\ odd' = odd \cup how /\ odd \subseteq odd' /\ More(x)
         /\ CountsGrow(log, x, log') /\ Grown(log, x, log', Ends)
<1>1. log' = Append(log, x) /\ To(e, l) /\ odd' = odd \cup how
  BY DEF Note, Clean
<1>2. More(x)
  BY <1>1, BusTyped, MoreTyped
<1>3. CountsGrow(log, x, log')
  BY <1>2, GrownCounts DEF More
<1> QED
  BY <1>1, <1>2, <1>3 DEF More

LEMMA CountsPlain ==
  ASSUME NEW x, CountsGrow(log, x, log'), ~Is(x, "ack", "accepted"), ~Is(x, "pickup", "delivered"),
         x.kind = "item" => x.why = "failed"
  PROVE  CountsSame
  BY DEF CountsGrow, CountsSame, Is

LEMMA HeldOf ==
  ASSUME Told, NEW e \in DOMAIN ends
  PROVE  HeldAt(ends[e], rs[e], odd) /\ MeasuredAt(ends[e], Ahead, bus.cursor, odd)
  BY DEF Told, Held, Measured

\* After the ack the items, if there are any.
LEMMA ToItemsIs ==
  ASSUME ExInv, NEW e \in DOMAIN ends, ends[e].pc # "off"
  PROVE  \/ ToItems(rs[e]) = "peek" /\ Item \notin rs[e].sent
         \/ ToItems(rs[e]) = "item" /\ rs[e].sent = {Item}
<1>1. rs[e].sent \subseteq {Item}
  BY RequestTyped, RsTyped DEF Receipt
<1> QED
  BY <1>1 DEF ToItems

LEMMA AckNoteTold ==
  ASSUME Sound, Clean', NEW e \in DOMAIN ends, AckNote(e)
  PROVE  Told'
<1> DEFINE tgt == Target(rs[e].ack)
           x == AckEntry(bus.cursor, tgt, rs[e].ack)
           l == At(e, "acking")
<1>1. /\ ends[e].pc = "ack" /\ UNCHANGED <<rows, bus, rs, cl>>
      /\ \E how : Note(e, x, l, how)
  BY DEF AckNote, clientVars
<1>2. /\ To(e, l) /\ odd \subseteq odd' /\ More(x)
      /\ CountsGrow(log, x, log') /\ Grown(log, x, log', Ends)
  BY <1>1, NoteWritten DEF Sound
<1>3. /\ x.kind = "ack" /\ x.dec = "accepted" /\ x.from = bus.cursor /\ x.to = tgt
      /\ x.ack = rs[e].ack
  BY DEF AckEntry
<1>4. /\ l.pc = "acking" /\ l.ids = ends[e].ids /\ l.left = ends[e].left
      /\ l.err = ends[e].err /\ l.next = ends[e].next
  BY AtIs DEF Sound
<1>5. HeldAt(ends[e], rs[e], odd) /\ Busy(e)
  BY <1>1, HeldOf DEF Sound, Busy
<1>6. e \in DOMAIN rs /\ rs[e].ack \in Ids /\ rs[e].ack <= savedMax
  <2>1. e \in DOMAIN rs /\ rs[e].ack \in Ids0 /\ rs[e].ack <= savedMax /\ rs[e].ack # 0
    BY <1>1, <1>5, RequestTyped DEF Sound, HeldAt
  <2> QED
    BY <2>1 DEF Ids, Ids0
<1>7. AckSays(x)
  <2>1. /\ tgt \in Ids0 /\ bus.cursor \in Ids0 /\ (tgt <= bus.cursor \/ tgt <= rs[e].ack)
    BY <1>6, IdsTyped, TargetTyped, TargetUp DEF Sound, ExInv
  <2>2. savedMax <= bus.cursor + MaxReplies /\ bus.cursor \in Nat /\ MaxReplies \in Nat /\ savedMax \in Nat
    <3>1. savedMax \in Ids0
      BY DEF Sound, ExInv, Typed
    <3>2. savedMax \in Nat
      BY <3>1, IdsTyped
    <3>3. Within(1 .. savedMax)
      BY DEF Sound, Known, Near
    <3>4. \A i \in 1 .. savedMax : i <= bus.cursor + MaxReplies
      BY <3>3, WithinTyped DEF Sound
    <3>5. bus.cursor \in Nat /\ MaxReplies \in Nat
      BY WithinTyped DEF Sound
    <3> QED
      BY <3>2, <3>4, <3>5
  <2>3. tgt <= bus.cursor + MaxReplies
    <3>1. tgt \in Nat /\ rs[e].ack \in Nat
      BY <1>6, <2>1, IdsTyped
    <3> HIDE DEF tgt
    <3> QED
      BY <1>6, <2>1, <2>2, <3>1
  <2> HIDE DEF tgt, x
  <2> QED
    BY <1>3, <1>6, <2>1, <2>3 DEF AckSays
<1> HIDE DEF x, l
<1>8. HeldAt(l, rs[e], odd') /\ MeasuredAt(l, Ahead', bus'.cursor, odd')
  BY <1>1, <1>2, <1>4, <1>5 DEF HeldAt, MeasuredAt, Early, Unasked, Late
<1>9. Entries'
  BY <1>2, <1>3, <1>7, EntriesAdd DEF Sound, Told, Is
<1>10. Traced'
  <2>1. NoAck
    BY <1>1, <1>2, <1>5, AckPlaces DEF Sound, Told, InAck
  <2>2. x.to = Target(rs[e].ack)'
    BY <1>1, <1>3 DEF Target
  <2> HIDE DEF tgt
  <2> QED
    BY <1>1, <1>2, <1>3, <1>4, <2>1, <2>2, TracedAck DEF Sound, Told, InAck, Is
<1>11. Counted'
  <2>1. ASSUME NEW a \in Ids
        PROVE  AckCount(a)'
    <3>1. /\ AcksLogged(log, a) \in Nat
          /\ AcksLogged(log, a)' = IF rs[e].ack = a THEN AcksLogged(log, a) + 1 ELSE AcksLogged(log, a)
      BY <1>2, <1>3 DEF CountsGrow
    <3> QED
      BY <1>1, <1>2, <1>4, <3>1, AckCountAdd DEF Sound, Told, Counted
  <2>2. ItemCount'
    <3>1. Logged(log, Item) \in Nat /\ Logged(log, Item)' = Logged(log, Item)
      BY <1>2, <1>3 DEF CountsGrow
    <3> QED
      BY <1>1, <1>2, <1>4, <1>5, <3>1, ItemCountKept DEF Sound, Told, Counted, Unasked
  <2>3. \A i \in Ids : GivenCount(i)'
    <3>1. \A i : Given(log, i)' = Given(log, i)
      BY <1>2, <1>3 DEF CountsGrow
    <3> QED
      BY <1>2, <1>4, <3>1, GivenCountKept DEF Sound, Told, Counted, GivenCount
  <2> QED
    BY <2>1, <2>2, <2>3 DEF Counted, GivenCount
<1>12. One' /\ Held' /\ Measured'
  BY <1>1, <1>2, <1>5, <1>8, OneKept, HeldKept, MeasuredKept DEF Sound, Told
<1> QED
  BY <1>9, <1>10, <1>11, <1>12 DEF Told

LEMMA AckDoTold ==
  ASSUME Sound, Clean', NEW e \in DOMAIN ends, AckDo(e)
  PROVE  Told'
<1>1. ends[e].pc = "acking" /\ UNCHANGED <<rows, log, rs, cl>> /\ odd \subseteq odd'
  BY DEF AckDo, clientVars
<1>2. HeldAt(ends[e], rs[e], odd) /\ Busy(e) /\ One /\ Traced /\ Entries /\ Told /\ ExInv /\ IsASeq(log)
  BY <1>1, HeldOf, BusTyped DEF Sound, Busy, Told
<1>3. CountsSame /\ Entries'
  BY <1>1, <1>2, CountsStay, EntriesKept
<1>4. CASE bus'.cursor = Target(rs[e].ack) /\ To(e, At(e, ToItems(rs[e])))
  <2> DEFINE l == At(e, ToItems(rs[e]))
  <2>1. /\ \/ l.pc = "peek" /\ Item \notin rs[e].sent
           \/ l.pc = "item" /\ rs[e].sent = {Item}
        /\ l.ids = ends[e].ids /\ l.left = ends[e].left
        /\ l.err = ends[e].err /\ l.next = ends[e].next /\ To(e, l)
    BY <1>1, <1>2, <1>4, AtIs, ToItemsIs
  <2> HIDE DEF l
  <2>2. HeldAt(l, rs[e], odd') /\ MeasuredAt(l, Ahead', bus'.cursor, odd')
    BY <1>1, <1>2, <2>1 DEF HeldAt, MeasuredAt, Early, Unasked, Late
  <2>3. Traced'
    <3>1. NoAck' /\ ends[e].pc \in InAck
      BY <1>1, <1>2, <2>1, AckPlaces DEF InAck
    <3> QED
      BY <1>1, <1>2, <1>4, <3>1, TracedDo
  <2> QED
    BY <1>1, <1>2, <1>3, <2>1, <2>2, <2>3, ToldStep DEF Unasked
<1>5. CASE UNCHANGED bus /\ To(e, At(e, "ackfailed"))
  <2> DEFINE l == At(e, "ackfailed")
  <2>1. /\ l.pc = "ackfailed" /\ l.ids = ends[e].ids /\ l.left = ends[e].left
        /\ l.err = ends[e].err /\ l.next = ends[e].next /\ To(e, l)
    BY <1>2, <1>5, AtIs
  <2> HIDE DEF l
  <2>2. HeldAt(l, rs[e], odd') /\ MeasuredAt(l, Ahead', bus'.cursor, odd')
    BY <1>1, <1>2, <2>1 DEF HeldAt, MeasuredAt, Early, Unasked, Late
  <2>3. Traced'
    <3>1. Target(rs[e].ack)' = Target(rs[e].ack)
      BY <1>1, <1>5 DEF Target
    <3>2. SameAcking
      BY <1>1, <1>2, <2>1, <3>1, AckPlaces DEF InAck
    <3> QED
      BY <1>1, <1>2, <1>5, <3>2, TracedKept
  <2> QED
    BY <1>1, <1>2, <1>3, <2>1, <2>2, <2>3, ToldStep DEF Unasked
<1>6. bus \in [cursor : Ids0, level : Ids0, read : SUBSET Ids]
  BY BusTyped DEF Sound
<1> QED
  BY <1>4, <1>5, <1>6 DEF AckDo

LEMMA AckFailTold ==
  ASSUME Sound, Clean', NEW e \in DOMAIN ends, AckFailNote(e)
  PROVE  Told'
<1> DEFINE l == At(e, ToItems(rs[e]))
<1>1. ends[e].pc = "ackfailed" /\ UNCHANGED <<rows, bus, rs, cl>> /\ Note(e, AckFailed, l, {})
  BY DEF AckFailNote, clientVars
<1>2. /\ To(e, l) /\ odd \subseteq odd' /\ More(AckFailed)
      /\ CountsGrow(log, AckFailed, log') /\ Grown(log, AckFailed, log', Ends)
  BY <1>1, NoteWritten DEF Sound
<1>3. AckFailed.kind = "ack" /\ AckFailed.dec = "rejected"
  BY DEF AckFailed
<1>4. /\ \/ l.pc = "peek" /\ Item \notin rs[e].sent
         \/ l.pc = "item" /\ rs[e].sent = {Item}
      /\ l.ids = ends[e].ids /\ l.left = ends[e].left
      /\ l.err = ends[e].err /\ l.next = ends[e].next
  BY <1>1, AtIs, ToItemsIs DEF Sound
<1>5. HeldAt(ends[e], rs[e], odd) /\ Busy(e) /\ One /\ Traced /\ Entries /\ Told /\ ExInv
  BY <1>1, HeldOf DEF Sound, Busy, Told
<1> HIDE DEF l
<1>6. HeldAt(l, rs[e], odd') /\ MeasuredAt(l, Ahead', bus'.cursor, odd')
  BY <1>1, <1>2, <1>4, <1>5 DEF HeldAt, MeasuredAt, Early, Unasked, Late
<1>7. CountsSame
  BY <1>2, <1>3, CountsPlain DEF Is
<1>8. Entries'
  BY <1>2, <1>3, <1>5, EntriesAdd DEF Is
<1>9. Traced'
  <2>1. NoAck' /\ ends[e].pc \in InAck
    BY <1>1, <1>2, <1>4, <1>5, AckPlaces DEF InAck
  <2> QED
    BY <1>1, <1>2, <1>3, <1>5, <2>1, TracedFail DEF Is
<1> QED
  BY <1>1, <1>2, <1>4, <1>5, <1>6, <1>7, <1>8, <1>9, ToldStep DEF Unasked

\* An entry that is not counted and says nothing of the cursor.
SmallEntry(x, seen) ==
    /\ x.kind # "ack" /\ ~Is(x, "pickup", "accepted") /\ ~Is(x, "pickup", "delivered")
    /\ x.kind = "item" => x.item = Item /\ x.why = "failed" /\ "sendfailed" \in seen

\* A step far from the ack that changes only where the endpoint is.
LEMMA GoTold ==
  ASSUME Sound, NEW e \in DOMAIN ends, Busy(e), NEW p, To(e, At(e, p)), UNCHANGED rs, odd \subseteq odd',
         bus'.cursor = bus.cursor, ends[e].pc \notin InAck, p \notin InAck,
         p \notin {"off", "measure", "round"},
         \/ UNCHANGED log
         \/ \E x : More(x) /\ CountsGrow(log, x, log') /\ SmallEntry(x, odd'),
         HeldAt(At(e, p), rs[e], odd'),
         p = "dead" \/ (p # "ack" /\ ends[e].pc # "ack"
                        /\ (p \in Unasked <=> ends[e].pc \in Unasked))
  PROVE  Told'
<1>1. Told /\ ExInv /\ One /\ Traced /\ Entries
  BY DEF Sound, Told
<1> DEFINE l == At(e, p)
<1>2. To(e, l) /\ l.pc = p /\ l.ids = ends[e].ids /\ l.left = ends[e].left
      /\ HeldAt(l, rs[e], odd')
  BY AtIs DEF Sound
<1> HIDE DEF l
<1>3. MeasuredAt(l, Ahead', bus'.cursor, odd')
  BY <1>2 DEF MeasuredAt
<1>4. SameAcking
  BY <1>1, <1>2, AckPlaces
<1>5. CountsSame /\ Entries' /\ Traced'
  <2>1. CASE UNCHANGED log
    BY <1>1, <1>4, <2>1, CountsStay, EntriesKept, TracedKept
  <2>2. ASSUME NEW x, More(x), CountsGrow(log, x, log'), SmallEntry(x, odd')
        PROVE  CountsSame /\ Entries' /\ Traced'
    <3>1. CountsSame
      BY <2>2, CountsPlain DEF SmallEntry, Is
    <3>2. Entries'
      BY <1>1, <2>2, EntriesAdd DEF SmallEntry, More, Is
    <3>3. Traced'
      BY <1>1, <1>4, <2>2, TracedPlain DEF SmallEntry
    <3> QED
      BY <3>1, <3>2, <3>3
  <2> QED
    BY <2>1, <2>2
<1> QED
  BY <1>1, <1>2, <1>3, <1>5, ToldStep

\* What it holds is still in place where it goes.
LEMMA AtHeld ==
  ASSUME Sound, NEW e \in DOMAIN ends, NEW p, NEW seen, odd \subseteq seen,
         p \notin {"ack", "item", "measure", "round", "giving"},
         p = "sendfailed" => "sendfailed" \in seen,
         p \in Early => ends[e].pc \in Early, p \in Late => ends[e].pc \in Late
  PROVE  HeldAt(At(e, p), rs[e], seen)
<1>1. HeldAt(ends[e], rs[e], odd)
  BY HeldOf DEF Sound
<1> DEFINE l == At(e, p)
<1>2. /\ l.pc = p /\ l.ids = ends[e].ids /\ l.left = ends[e].left
      /\ l.err = ends[e].err /\ l.next = ends[e].next
  BY AtIs DEF Sound
<1> HIDE DEF l
<1>3. HeldAt(l, rs[e], seen)
  BY <1>1, <1>2 DEF HeldAt
<1> QED
  BY <1>3 DEF l

LEMMA SmallNote ==
  ASSUME ExInv, Clean', NEW e, NEW x, NEW p, Note(e, x, At(e, p), {}), SmallEntry(x, odd)
  PROVE  /\ To(e, At(e, p)) /\ odd \subseteq odd'
         /\ \E y : More(y) /\ CountsGrow(log, y, log') /\ SmallEntry(y, odd')
<1>1. /\ To(e, At(e, p)) /\ odd \subseteq odd' /\ More(x) /\ CountsGrow(log, x, log')
  BY NoteWritten
<1>2. SmallEntry(x, odd')
  BY <1>1 DEF SmallEntry
<1> QED
  BY <1>1, <1>2

LEMMA ItemNoteTold ==
  ASSUME Sound, Clean', NEW e \in DOMAIN ends, ItemNote(e)
  PROVE  Told'
<1>1. ends[e].pc = "item" /\ UNCHANGED <<rows, bus, rs, cl>>
  BY DEF ItemNote, clientVars
<1>2. HeldAt(ends[e], rs[e], odd) /\ Busy(e) /\ One /\ Traced /\ Entries /\ Told /\ ExInv
  BY <1>1, HeldOf DEF Sound, Busy, Told
<1> DEFINE Items == {ItemEntry("rejected", Item, "refused"), ItemEntry("accepted", Item, "")}
<1>3. PICK x \in Items, p \in {"peek", "sending"} : Note(e, x, At(e, p), {})
  BY DEF ItemNote
<1>4. x.kind = "item" /\ x.item = Item /\ x.why # "failed"
  <2>1. \A dec, why : LET y == ItemEntry(dec, Item, why)
                       IN  y.kind = "item" /\ y.item = Item /\ y.why = why
    BY DEF ItemEntry
  <2>2. \E dec, why : x = ItemEntry(dec, Item, why) /\ why # "failed"
    <3>1. /\ x = ItemEntry("rejected", Item, "refused") \/ x = ItemEntry("accepted", Item, "")
          /\ "refused" # "failed" /\ "" # "failed"
      OBVIOUS
    <3> QED
      BY <3>1, Zenon
  <2> HIDE DEF Items
  <2>3. PICK dec, why : x = ItemEntry(dec, Item, why) /\ why # "failed"
    BY <2>2
  <2> QED
    BY <2>1, <2>3, Zenon
<1> HIDE DEF Items
<1> DEFINE l == At(e, p)
<1>5. /\ To(e, l) /\ odd \subseteq odd' /\ More(x)
      /\ CountsGrow(log, x, log') /\ Grown(log, x, log', Ends)
  BY <1>2, <1>3, NoteWritten
<1>6. /\ l.pc = p /\ l.ids = ends[e].ids /\ l.left = ends[e].left
      /\ l.err = ends[e].err /\ l.next = ends[e].next
  BY <1>2, AtIs
<1> HIDE DEF l
<1>7. HeldAt(l, rs[e], odd') /\ MeasuredAt(l, Ahead', bus'.cursor, odd')
  BY <1>1, <1>2, <1>5, <1>6 DEF HeldAt, MeasuredAt, Early, Unasked, Late
<1>8. Entries'
  BY <1>2, <1>4, <1>5, EntriesAdd DEF Is
<1>9. Traced'
  <2>1. SameAcking
    BY <1>1, <1>2, <1>5, <1>6, AckPlaces DEF InAck
  <2> QED
    BY <1>1, <1>2, <1>4, <1>5, <2>1, TracedPlain DEF Is
<1>10. Counted'
  <2>1. ASSUME NEW a \in Ids
        PROVE  AckCount(a)'
    <3>1. AcksLogged(log, a) \in Nat /\ AcksLogged(log, a)' = AcksLogged(log, a)
      BY <1>4, <1>5 DEF CountsGrow
    <3> QED
      BY <1>1, <1>2, <1>5, <1>6, <3>1, AckCountKept DEF Told, Counted
  <2>2. ItemCount'
    <3>1. Logged(log, Item) \in Nat /\ Logged(log, Item)' = Logged(log, Item) + 1
      BY <1>4, <1>5 DEF CountsGrow
    <3>2. rs[e].sent = {Item}
      BY <1>1, <1>2 DEF HeldAt
    <3> QED
      BY <1>1, <1>2, <1>5, <1>6, <3>1, <3>2, ItemCountAdd DEF Told, Counted, Unasked
  <2>3. \A i \in Ids : GivenCount(i)'
    <3>1. \A i : Given(log, i)' = Given(log, i)
      BY <1>4, <1>5 DEF CountsGrow
    <3> QED
      BY <1>2, <1>5, <1>6, <3>1, GivenCountKept DEF Told, Counted, GivenCount
  <2> QED
    BY <2>1, <2>2, <2>3 DEF Counted, GivenCount
<1>11. One' /\ Held' /\ Measured'
  BY <1>1, <1>2, <1>5, <1>7, OneKept, HeldKept, MeasuredKept DEF Told
<1> QED
  BY <1>8, <1>9, <1>10, <1>11 DEF Told

LEMMA ItemDoTold ==
  ASSUME Sound, Clean', NEW e \in DOMAIN ends, ItemDo(e)
  PROVE  Told'
<1>1. PICK p \in {"peek", "sendfailed"} : To(e, At(e, p)) /\ odd' = odd \cup ({p} \ {"peek"})
  BY DEF ItemDo
<1>2. ends[e].pc = "sending" /\ UNCHANGED <<bus, rs, log>> /\ Busy(e) /\ odd \subseteq odd'
  BY <1>1 DEF ItemDo, clientVars, Busy
<1>3. HeldAt(At(e, p), rs[e], odd')
  BY <1>1, <1>2, AtHeld DEF Early, Unasked, Late
<1> QED
  BY <1>1, <1>2, <1>3, GoTold DEF InAck, Unasked

LEMMA ItemFailTold ==
  ASSUME Sound, Clean', NEW e \in DOMAIN ends, ItemFailNote(e)
  PROVE  Told'
<1> DEFINE x == ItemEntry("rejected", Item, "failed")
<1>1. /\ ends[e].pc = "sendfailed" /\ UNCHANGED <<bus, rs>> /\ Busy(e)
      /\ Note(e, x, At(e, "peek"), {})
  BY DEF ItemFailNote, clientVars, Busy
<1>2. SmallEntry(x, odd)
  <2>1. "sendfailed" \in odd
    BY <1>1, HeldOf DEF Sound, HeldAt
  <2>2. x.kind = "item" /\ x.item = Item /\ x.why = "failed" /\ x.dec = "rejected"
    BY DEF ItemEntry
  <2> QED
    BY <2>1, <2>2 DEF SmallEntry, Is
<1> HIDE DEF x
<1>3. /\ To(e, At(e, "peek")) /\ odd \subseteq odd'
      /\ \E y : More(y) /\ CountsGrow(log, y, log') /\ SmallEntry(y, odd')
  BY <1>1, <1>2, SmallNote DEF Sound
<1>4. HeldAt(At(e, "peek"), rs[e], odd')
  BY <1>1, <1>3, AtHeld DEF Early, Unasked, Late
<1> QED
  BY <1>1, <1>3, <1>4, GoTold DEF InAck, Unasked

LEMMA MarkDoTold ==
  ASSUME Sound, Clean', NEW e \in DOMAIN ends, MarkDo(e)
  PROVE  Told'
<1>1. PICK p \in {"closing", "markfailed"} : To(e, At(e, p))
  BY DEF MarkDo
<1>2. ends[e].pc = "marking" /\ UNCHANGED <<rs, log>> /\ Busy(e) /\ odd \subseteq odd'
      /\ bus'.cursor = bus.cursor
  BY BusTyped DEF MarkDo, clientVars, Busy, Sound
<1>3. HeldAt(At(e, p), rs[e], odd')
  BY <1>1, <1>2, AtHeld DEF Early, Unasked, Late
<1> QED
  BY <1>1, <1>2, <1>3, GoTold DEF InAck, Unasked

LEMMA MarkFailTold ==
  ASSUME Sound, Clean', NEW e \in DOMAIN ends, MarkFailNote(e)
  PROVE  Told'
<1>1. /\ ends[e].pc = "markfailed" /\ UNCHANGED <<bus, rs>> /\ Busy(e)
      /\ Note(e, MarkFailed, At(e, "closing"), {})
  BY DEF MarkFailNote, clientVars, Busy
<1>2. SmallEntry(MarkFailed, odd)
  BY DEF SmallEntry, MarkFailed, Is
<1>3. /\ To(e, At(e, "closing")) /\ odd \subseteq odd'
      /\ \E y : More(y) /\ CountsGrow(log, y, log') /\ SmallEntry(y, odd')
  BY <1>1, <1>2, SmallNote DEF Sound
<1>4. HeldAt(At(e, "closing"), rs[e], odd')
  BY <1>1, <1>3, AtHeld DEF Early, Unasked, Late
<1> QED
  BY <1>1, <1>3, <1>4, GoTold DEF InAck, Unasked

LEMMA CloseNoteTold ==
  ASSUME Sound, Clean', NEW e \in DOMAIN ends, CloseNote(e)
  PROVE  Told'
<1> DEFINE x == CloseEntry(ends[e].round, CloseAnchor(e))
<1>1. /\ ends[e].pc = "closing" /\ UNCHANGED <<bus, rs, odd>> /\ Busy(e) /\ To(e, At(e, "answer"))
      /\ log' = Append(log, x) \/ UNCHANGED log
  BY DEF CloseNote, clientVars, Busy
<1>2. SmallEntry(x, odd)
  BY DEF SmallEntry, CloseEntry, Is
<1> HIDE DEF x
<1>3. \/ UNCHANGED log
      \/ \E y : More(y) /\ CountsGrow(log, y, log') /\ SmallEntry(y, odd')
  <2>1. CASE log' = Append(log, x)
    <3>1. More(x)
      BY <2>1, BusTyped, MoreTyped DEF Sound
    <3>2. CountsGrow(log, x, log')
      BY <3>1, GrownCounts DEF More
    <3> QED
      BY <1>1, <1>2, <3>1, <3>2
  <2> QED
    BY <1>1, <2>1
<1>4. HeldAt(At(e, "answer"), rs[e], odd')
  BY <1>1, AtHeld DEF Early, Unasked, Late
<1> QED
  BY <1>1, <1>3, <1>4, GoTold DEF InAck, Unasked

LEMMA KillTold ==
  ASSUME Sound, Clean', NEW e \in DOMAIN ends, Kill(e)
  PROVE  Told'
<1>1. /\ Busy(e) /\ UNCHANGED <<bus, rs, log>> /\ To(e, At(e, "dead")) /\ odd \subseteq odd'
      /\ ends[e].pc \notin InAck
  BY DEF Kill, clientVars, Clean, InAck
<1>2. HeldAt(At(e, "dead"), rs[e], odd')
  BY <1>1, AtHeld DEF Early, Unasked, Late
<1> QED
  BY <1>1, <1>2, GoTold DEF InAck

LEMMA PeekTold ==
  ASSUME Sound, Clean', NEW e \in DOMAIN ends, Peek(e)
  PROVE  Told'
<1> DEFINE l == [At(e, "measure") EXCEPT !.ids = Page, !.left = Page]
<1>1. /\ ends[e].pc = "peek" /\ UNCHANGED <<rows, bus, rs, log, odd>> /\ Busy(e) /\ To(e, l)
  BY DEF Peek, clientVars, Busy
<1>2. /\ l.pc = "measure" /\ l.ids = Page /\ l.left = Page /\ l.err = ends[e].err /\ l.next = ends[e].next
  BY EndTyped DEF At, End, Sound
<1>3. HeldAt(ends[e], rs[e], odd) /\ One /\ Traced /\ Entries /\ Told /\ ExInv
  BY HeldOf DEF Sound, Told
<1> HIDE DEF l
<1>4. HeldAt(l, rs[e], odd') /\ MeasuredAt(l, Ahead', bus'.cursor, odd')
  <2>1. Ahead' = Ahead /\ Page \subseteq Ahead
    BY <1>1 DEF Ahead, Page
  <2> QED
    BY <1>1, <1>2, <1>3, <2>1 DEF HeldAt, MeasuredAt, Early, Unasked, Late
<1>5. CountsSame /\ Entries' /\ Traced'
  <2>1. SameAcking
    BY <1>1, <1>2, <1>3, AckPlaces DEF InAck
  <2> QED
    BY <1>1, <1>3, <2>1, CountsStay, EntriesKept, TracedKept
<1>6. l.ids \ l.left = ends[e].ids \ ends[e].left
  BY <1>1, <1>2, <1>3 DEF HeldAt, Early
<1> QED
  BY <1>1, <1>2, <1>3, <1>4, <1>5, <1>6, ToldStep DEF Unasked

\* With a whole page out, what is left starts right behind it.
LEMMA RestIs ==
  ASSUME ExInv, NEW rest, rest = Ahead \ Page
  PROVE  rest = {} \/ Min(rest) = bus.cursor + MaxReplies + 1
<1>1. bus.cursor \in Nat /\ rows \in Nat /\ MaxReplies \in Nat \ {0} /\ MaxRows \in Nat /\ rows <= MaxRows
  <2>1. rows <= MaxRows
    BY DEF ExInv, Typed, Ids0
  <2> QED
    BY <2>1, WithinTyped, ExchangeAssumption
<1>2. \A i : i \in rest <=> i \in Ids /\ bus.cursor + MaxReplies < i /\ i <= rows
  BY <1>1 DEF Ahead, Page, Ids
<1>3. CASE rest # {}
  <2> DEFINE m == bus.cursor + MaxReplies + 1
  <2>1. rest \in SUBSET Nat
    BY <1>2 DEF Ids
  <2>2. Min(rest) \in rest /\ \A y \in rest : Min(rest) <= y
    BY <1>3, <2>1, MinTyped
  <2>3. Min(rest) \in Nat /\ m <= Min(rest) /\ Min(rest) <= rows
    BY <1>1, <1>2, <2>1, <2>2
  <2>4. m \in rest
    BY <1>1, <1>2, <2>3 DEF Ids
  <2> QED
    BY <1>1, <2>2, <2>3, <2>4
<1> QED
  BY <1>3

LEMMA MeasureTold ==
  ASSUME Sound, Clean', NEW e \in DOMAIN ends, Measure(e)
  PROVE  Told'
<1> DEFINE rest == Ahead \ ends[e].ids
           a == [At(e, "round") EXCEPT !.pending = Cardinality(Ahead),
                                       !.next = IF rest = {} THEN 0 ELSE Min(rest)]
           b == [At(e, "round") EXCEPT !.pending = Cardinality(ends[e].ids), !.known = FALSE]
<1>1. /\ ends[e].pc = "measure" /\ UNCHANGED <<rows, bus, rs, log>> /\ Busy(e)
      /\ odd' = odd \cup (IF Page = ends[e].ids THEN {} ELSE {"grew"})
      /\ To(e, a) \/ To(e, b)
  BY DEF Measure, clientVars, Busy
<1>2. /\ HeldAt(ends[e], rs[e], odd) /\ One /\ Traced /\ Entries /\ Told /\ ExInv
      /\ ends[e].ids \subseteq Ahead
  BY <1>1, HeldOf DEF Sound, Told, MeasuredAt
<1>3. /\ a.pc = "round" /\ a.ids = ends[e].ids /\ a.left = ends[e].left /\ a.err = ends[e].err
      /\ a.pending = Cardinality(Ahead) /\ a.next = IF rest = {} THEN 0 ELSE Min(rest)
      /\ b.pc = "round" /\ b.ids = ends[e].ids /\ b.left = ends[e].left /\ b.err = ends[e].err
      /\ b.pending = Cardinality(ends[e].ids) /\ b.next = ends[e].next
  BY EndTyped DEF At, End, Sound
<1>4. rest # {} => Min(rest) # 0
  <2>1. rest \in SUBSET Nat /\ 0 \notin rest
    BY DEF Ahead, Ids
  <2> QED
    BY <2>1, MinTyped
<1>5. a.next = 0 => a.pending = Cardinality(a.ids)
  <2>1. rest = {} => Ahead = ends[e].ids
    BY <1>2
  <2> HIDE DEF rest
  <2> QED
    BY <1>3, <1>4, <2>1
<1>6. "grew" \notin odd' => a.next \in {0, bus.cursor + MaxReplies + 1}
  <2>1. "grew" \notin odd' => rest = Ahead \ Page
    BY <1>1
  <2> HIDE DEF rest
  <2>2. ASSUME "grew" \notin odd'
        PROVE  rest = {} \/ Min(rest) = bus.cursor + MaxReplies + 1
    BY <1>2, <2>1, <2>2, RestIs
  <2> QED
    BY <1>3, <2>2
<1>7. b.next = 0
  BY <1>1, <1>2, <1>3 DEF HeldAt
<1>8. PICK l \in {a, b} : To(e, l)
  BY <1>1
<1> HIDE DEF a, b, rest
<1>9. /\ l.pc = "round" /\ l.ids = ends[e].ids /\ l.left = ends[e].left /\ l.err = ends[e].err
      /\ l.next = 0 => l.pending = Cardinality(l.ids)
      /\ "grew" \notin odd' => l.next \in {0, bus.cursor + MaxReplies + 1}
  <2>1. CASE l = a
    BY <1>3, <1>5, <1>6, <2>1
  <2>2. CASE l = b
    BY <1>3, <1>7, <2>2
  <2> QED
    BY <2>1, <2>2
<1>10. HeldAt(l, rs[e], odd') /\ MeasuredAt(l, Ahead', bus'.cursor, odd')
  BY <1>1, <1>2, <1>9 DEF HeldAt, MeasuredAt, Early, Unasked, Late
<1>11. CountsSame /\ Entries' /\ Traced'
  <2>1. SameAcking
    BY <1>1, <1>2, <1>8, <1>9, AckPlaces DEF InAck
  <2> QED
    BY <1>1, <1>2, <2>1, CountsStay, EntriesKept, TracedKept
<1> QED
  BY <1>1, <1>2, <1>8, <1>9, <1>10, <1>11, ToldStep DEF Unasked

LEMMA RoundNoteTold ==
  ASSUME Sound, Clean', NEW e \in DOMAIN ends, RoundNote(e)
  PROVE  Told'
<1>1. ends[e].pc = "round" /\ UNCHANGED <<rows, bus, rs>> /\ Busy(e)
  BY DEF RoundNote, clientVars, Busy
<1>2. /\ HeldAt(ends[e], rs[e], odd) /\ MeasuredAt(ends[e], Ahead, bus.cursor, odd)
      /\ One /\ Traced /\ Entries /\ Told /\ ExInv
  BY HeldOf DEF Sound, Told
<1>3. CASE ends[e].ids = {} /\ To(e, At(e, "answer")) /\ UNCHANGED <<log, odd>>
  <2>1. HeldAt(At(e, "answer"), rs[e], odd')
    BY <1>1, <1>2, <1>3, AtIs DEF HeldAt, Early, Unasked, Late
  <2> QED
    BY <1>1, <1>3, <2>1, GoTold DEF InAck, Unasked
<1> DEFINE x == RoundEntry(bus.cursor, Cardinality(ends[e].ids), ends[e].pending, ends[e].next,
                           ends[e].known, Len(audit))
           l == [ends[e] EXCEPT !.pc = IF ends[e].ids = {} THEN "closing" ELSE "giving",
                                !.round = Len(log) + 1]
<1>4. CASE Note(e, x, l, {})
  <2>1. /\ To(e, l) /\ odd' = odd \cup {} /\ odd \subseteq odd' /\ More(x)
        /\ CountsGrow(log, x, log') /\ Grown(log, x, log', Ends)
    BY <1>2, <1>4, NoteWritten
  <2>2. /\ x.kind = "pickup" /\ x.dec = "accepted" /\ x.at = bus.cursor
        /\ x.replies = Cardinality(ends[e].ids) /\ x.pending = ends[e].pending
        /\ x.next = ends[e].next
    BY DEF RoundEntry
  <2>3. /\ l.pc = IF ends[e].ids = {} THEN "closing" ELSE "giving"
        /\ l.ids = ends[e].ids /\ l.left = ends[e].left /\ l.err = ends[e].err
    BY <1>2, EndTyped DEF End
  <2>4. RoundSays(x, odd')
    <3>1. ends[e].ids \in SUBSET Ids /\ ends[e].pending \in Ids0 /\ ends[e].next \in Ids0
          /\ bus.cursor \in Ids0
      BY <1>2, EndTyped DEF End, ExInv, Typed
    <3>2. Cardinality(ends[e].ids) \in Ids0
      BY <3>1, CountTyped
    <3> HIDE DEF x
    <3> QED
      BY <1>1, <1>2, <2>1, <2>2, <3>1, <3>2 DEF RoundSays, MeasuredAt
  <2> HIDE DEF x, l
  <2>5. HeldAt(l, rs[e], odd') /\ MeasuredAt(l, Ahead', bus'.cursor, odd')
    BY <1>1, <1>2, <2>1, <2>3 DEF HeldAt, MeasuredAt, Early, Unasked, Late
  <2>6. CountsSame
    BY <2>1, <2>2, CountsPlain DEF Is
  <2>7. Entries'
    BY <1>2, <2>1, <2>2, <2>4, EntriesAdd DEF Is
  <2>8. Traced'
    <3>1. NoAck /\ NoAck'
      BY <1>1, <1>2, <2>1, <2>3, AckPlaces DEF InAck
    <3> QED
      BY <1>1, <1>2, <2>1, <2>2, <3>1, TracedRound DEF Is
  <2> QED
    BY <1>1, <1>2, <2>1, <2>3, <2>5, <2>6, <2>7, <2>8, ToldStep DEF Unasked
<1> QED
  BY <1>3, <1>4 DEF RoundNote

LEMMA GivenNoteTold ==
  ASSUME Sound, Clean', NEW e \in DOMAIN ends, GivenNote(e)
  PROVE  Told'
<1> DEFINE g == Min(ends[e].left)
           x == GivenEntry(g)
           l == [ends[e] EXCEPT !.left = @ \ {Min(@)},
                      !.pc = IF ends[e].left = {Min(ends[e].left)} THEN "marking" ELSE @]
<1>1. /\ ends[e].pc = "giving" /\ UNCHANGED <<rows, bus, rs>> /\ Busy(e)
      /\ Note(e, x, l, {})
  BY DEF GivenNote, clientVars, Busy
<1>2. /\ HeldAt(ends[e], rs[e], odd) /\ One /\ Traced /\ Entries /\ Told /\ ExInv
  BY HeldOf DEF Sound, Told
<1>3. g \in ends[e].left /\ ends[e].left \subseteq ends[e].ids /\ g \in Ids
  <2>1. ends[e].left \in SUBSET Ids /\ ends[e].left # {} /\ ends[e].left \subseteq ends[e].ids
    BY <1>1, <1>2, EndTyped DEF End, HeldAt
  <2>2. ends[e].left \in SUBSET Nat
    BY <2>1 DEF Ids
  <2> QED
    BY <2>1, <2>2, MinTyped
<1>4. /\ To(e, l) /\ odd \subseteq odd' /\ More(x)
      /\ CountsGrow(log, x, log') /\ Grown(log, x, log', Ends)
  BY <1>1, <1>2, NoteWritten
<1>5. x.kind = "pickup" /\ x.dec = "delivered" /\ x.id = g
  BY DEF GivenEntry
<1>6. /\ l.pc = IF ends[e].left = {g} THEN "marking" ELSE "giving"
      /\ l.ids = ends[e].ids /\ l.left = ends[e].left \ {g} /\ l.err = ends[e].err
  BY <1>1, <1>2, EndTyped DEF End
<1> HIDE DEF g, x, l
<1>7. HeldAt(l, rs[e], odd') /\ MeasuredAt(l, Ahead', bus'.cursor, odd')
  BY <1>1, <1>2, <1>3, <1>4, <1>6 DEF HeldAt, MeasuredAt, Early, Unasked, Late
<1>8. Entries'
  BY <1>2, <1>3, <1>4, <1>5, EntriesAdd DEF Is
<1>9. Traced'
  <2>1. SameAcking
    BY <1>1, <1>2, <1>4, <1>6, AckPlaces DEF InAck
  <2> QED
    BY <1>1, <1>2, <1>4, <1>5, <2>1, TracedPlain DEF Is
<1>10. Counted'
  <2>1. ASSUME NEW a \in Ids
        PROVE  AckCount(a)'
    <3>1. AcksLogged(log, a) \in Nat /\ AcksLogged(log, a)' = AcksLogged(log, a)
      BY <1>4, <1>5 DEF CountsGrow
    <3> QED
      BY <1>1, <1>2, <1>4, <1>6, <3>1, AckCountKept DEF Told, Counted
  <2>2. ItemCount'
    <3>1. Logged(log, Item) \in Nat /\ Logged(log, Item)' = Logged(log, Item)
      BY <1>4, <1>5 DEF CountsGrow
    <3> QED
      BY <1>1, <1>2, <1>4, <1>6, <3>1, ItemCountKept DEF Told, Counted, Unasked
  <2>3. \A i \in Ids : GivenCount(i)'
    <3>1. \A i : /\ Given(log, i) \in Nat
                 /\ Given(log, i)' = IF g = i THEN Given(log, i) + 1 ELSE Given(log, i)
      BY <1>4, <1>5 DEF CountsGrow
    <3> QED
      BY <1>2, <1>3, <1>4, <1>6, <3>1, GivenCountAdd DEF Told, Counted, GivenCount
  <2> QED
    BY <2>1, <2>2, <2>3 DEF Counted, GivenCount
<1>11. One' /\ Held' /\ Measured'
  BY <1>1, <1>2, <1>4, <1>7, OneKept, HeldKept, MeasuredKept DEF Told
<1> QED
  BY <1>8, <1>9, <1>10, <1>11 DEF Told

LEMMA EndpointTold ==
  ASSUME Sound, Clean', NEW e \in DOMAIN ends, Endpoint(e)
  PROVE  Told'
<1>1. CASE AckNote(e) \/ AckDo(e) \/ AckFailNote(e)
  BY <1>1, AckNoteTold, AckDoTold, AckFailTold
<1>2. CASE ItemNote(e) \/ ItemDo(e) \/ ItemFailNote(e)
  BY <1>2, ItemNoteTold, ItemDoTold, ItemFailTold
<1>3. CASE Peek(e) \/ Measure(e) \/ RoundNote(e) \/ GivenNote(e)
  BY <1>3, PeekTold, MeasureTold, RoundNoteTold, GivenNoteTold
<1>4. CASE MarkDo(e) \/ MarkFailNote(e) \/ CloseNote(e) \/ Kill(e)
  BY <1>4, MarkDoTold, MarkFailTold, CloseNoteTold, KillTold
<1> QED
  BY <1>1, <1>2, <1>3, <1>4 DEF Endpoint

-----------------------------------------------------------------------------
(* The client and the mail keep it too *)

\* Steps away from the endpoints and the receipts.
LEMMA StillTold ==
  ASSUME Told, UNCHANGED <<bus, log, ends, rs>>, odd \subseteq odd', Ahead \subseteq Ahead',
         \A d \in DOMAIN ends : ends[d].pc \in InAck => Target(rs[d].ack)' = Target(rs[d].ack)
  PROVE  Told'
<1>1. One' /\ Counted'
  BY DEF Told, One, Busy, Counted, AckCount, ItemCount, AckedBy, AskedBy, GaveBy, Live
<1>2. Held'
  <2>1. \A l, r : HeldAt(l, r, odd) => HeldAt(l, r, odd')
    BY DEF HeldAt
  <2> QED
    BY <2>1 DEF Told, Held
<1>3. Measured'
  <2>1. \A l, at : MeasuredAt(l, Ahead, at, odd) => MeasuredAt(l, Ahead', at, odd')
    BY DEF MeasuredAt
  <2> QED
    BY <2>1 DEF Told, Measured
<1>4. SameAcking
  BY DEF SameAcking
<1> QED
  BY <1>1, <1>2, <1>3, <1>4, EntriesKept, TracedKept DEF Told

LEMMA AwayTold ==
  ASSUME Told, GiveUp \/ StoreNext \/ Save \/ StoreCut \/ UNCHANGED vars
  PROVE  Told'
<1>1. UNCHANGED <<rows, bus, log, ends, rs>> /\ odd \subseteq odd'
  BY DEF GiveUp, StoreNext, Save, StoreCut, vars, endVars
<1>2. Ahead' = Ahead /\ \A u : Target(u)' = Target(u)
  BY <1>1 DEF Ahead, Target
<1> QED
  BY <1>1, <1>2, StillTold

LEMMA ArriveTold ==
  ASSUME Sound, Arrive
  PROVE  Told'
<1>1. UNCHANGED <<bus, log, ends, rs, odd>> /\ rows' = rows + 1 /\ rows \in Nat
  BY WithinTyped DEF Arrive, endVars, clientVars, Sound
<1>2. Ahead \subseteq Ahead'
  BY <1>1 DEF Ahead, Ids
<1>3. savedMax \in Nat /\ savedMax <= rows
  <2>1. savedMax \in Nat
    BY IdsTyped DEF Sound, ExInv, Typed
  <2>2. Within(1 .. savedMax)
    BY DEF Sound, Known, Near
  <2>3. \A i \in 1 .. savedMax : i <= rows
    BY <2>2, WithinTyped DEF Sound
  <2> QED
    BY <1>1, <2>1, <2>3
<1>4. ASSUME NEW d \in DOMAIN ends, ends[d].pc \in InAck
      PROVE  Target(rs[d].ack)' = Target(rs[d].ack)
  <2>1. rs[d].ack \in Ids0 /\ rs[d].ack <= savedMax
    BY <1>4, RequestTyped DEF Sound, InAck
  <2>2. PICK u \in Ids0 : u = rs[d].ack /\ u <= rows
    <3>1. rs[d].ack \in Nat
      BY <2>1, IdsTyped
    <3> QED
      BY <1>1, <1>3, <2>1, <3>1
  <2>3. Target(u)' = Target(u)
    BY <1>1, <2>2, TargetStays DEF Sound, ExInv
  <2>4. Target(rs[d].ack) = Target(u) /\ Target(rs[d].ack)' = Target(u)'
    BY <1>1, <2>2 DEF Target
  <2> QED
    BY <2>3, <2>4
<1> QED
  BY <1>1, <1>2, <1>4, StillTold DEF Sound

LEMMA ReceiveTold ==
  ASSUME Sound, Receive
  PROVE  Told'
<1> DEFINE l == At(Round, "done")
<1>1. /\ cl.pc = "sent" /\ ends[Round].pc = "answer" /\ UNCHANGED <<rows, bus, log, odd>>
      /\ rs' = [rs EXCEPT ![Round].received = ends[Round].ids,
                          ![Round].outcome = IF ends[Round].err THEN "reached" ELSE "delivered"]
      /\ To(Round, l)
  BY DEF Receive
<1>2. Round \in DOMAIN rs /\ Round \in DOMAIN ends /\ DOMAIN rs \subseteq DOMAIN ends
      /\ \A r \in DOMAIN rs : rs[r] \in Receipt
  <2>1. Round \in DOMAIN rs
    BY <1>1 DEF Sound, ExInv, Storing, Round
  <2> QED
    BY <2>1, RsTyped DEF Sound
<1>3. /\ DOMAIN rs' = DOMAIN rs
      /\ \A r \in DOMAIN rs : rs'[r].ack = rs[r].ack /\ rs'[r].sent = rs[r].sent
  BY <1>1, <1>2 DEF Receipt
<1>4. /\ DOMAIN ends' = DOMAIN ends /\ ends'[Round] = l
      /\ \A d \in DOMAIN ends \ {Round} : ends'[d] = ends[d]
      /\ l.pc = "done" /\ l.ids = ends[Round].ids /\ l.left = ends[Round].left
      /\ l.err = ends[Round].err /\ l.next = ends[Round].next
  BY <1>1, <1>2, ToMoves, AtIs DEF Sound
<1> HIDE DEF l
<1>5. Told
  BY DEF Sound
<1>6. One'
  BY <1>1, <1>2, <1>4, <1>5 DEF Told, One, Busy
<1>7. Held'
  <2>1. HeldAt(ends[Round], rs[Round], odd)
    BY <1>2, <1>5, HeldOf
  <2>2. HeldAt(l, rs'[Round], odd)
    BY <1>1, <1>4, <2>1 DEF HeldAt, Early, Unasked, Late
  <2>3. ASSUME NEW d \in DOMAIN ends, d # Round
        PROVE  HeldAt(ends'[d], rs'[d], odd)
    <3>1. HeldAt(ends[d], rs[d], odd) /\ ends'[d] = ends[d]
      BY <1>4, <1>5, <2>3, HeldOf
    <3>2. CASE ends[d].pc = "off"
      BY <3>1, <3>2 DEF HeldAt
    <3>3. CASE ends[d].pc # "off"
      <4>1. d \in DOMAIN rs
        BY <3>3, RequestTyped DEF Sound
      <4> QED
        BY <1>3, <3>1, <4>1 DEF HeldAt
    <3> QED
      BY <3>2, <3>3
  <2> QED
    BY <1>1, <1>4, <2>2, <2>3 DEF Held
<1>8. Counted'
  <2>1. \A r \in DOMAIN rs : ends'[r].pc = ends[r].pc \/ (ends'[r].pc = "done" /\ ends[r].pc = "answer")
    BY <1>1, <1>2, <1>4
  <2>2. ASSUME NEW a
        PROVE  AckedBy(a)' = AckedBy(a) /\ Live(AckedBy(a))' = Live(AckedBy(a))
    BY <1>3, <2>1 DEF AckedBy, Live
  <2>3. AskedBy' = AskedBy /\ Live(AskedBy)' = Live(AskedBy)
    BY <1>3, <2>1 DEF AskedBy, Live, Unasked
  <2>4. \A i : GaveBy(i)' = GaveBy(i)
    BY <1>4 DEF GaveBy
  <2> QED
    BY <1>1, <1>5, <2>2, <2>3, <2>4 DEF Told, Counted, AckCount, ItemCount
<1>9. Measured'
  <2>1. Ahead' = Ahead
    BY <1>1 DEF Ahead
  <2>2. \A d \in DOMAIN ends : MeasuredAt(ends'[d], Ahead, bus.cursor, odd)
    BY <1>4, <1>5 DEF Told, Measured, MeasuredAt
  <2> QED
    BY <1>1, <1>4, <2>1, <2>2 DEF Measured
<1>10. Entries' /\ Traced'
  <2>1. SameAcking
    <3>1. \A d \in DOMAIN ends : ends'[d].pc \in InAck <=> ends[d].pc \in InAck
      BY <1>1, <1>4 DEF InAck
    <3>2. ASSUME NEW d \in DOMAIN ends, ends[d].pc \in InAck
          PROVE  Target(rs[d].ack)' = Target(rs[d].ack)
      <4>1. d \in DOMAIN rs
        BY <3>2, RequestTyped DEF Sound, InAck
      <4> QED
        BY <1>1, <1>3, <4>1 DEF Target
    <3> QED
      BY <1>4, <3>1, <3>2 DEF SameAcking
  <2> QED
    BY <1>1, <1>5, <2>1, EntriesKept, TracedKept DEF Told
<1> QED
  BY <1>6, <1>7, <1>8, <1>9, <1>10 DEF Told

\* A round more has told nothing yet, and there is no other under way.
LEMMA RequestTold ==
  ASSUME Sound, Clean', NEW items \in SUBSET {Item}, Request(items)
  PROVE  Told'
<1> DEFINE n == Round + 1
           req(outcome) == [sent |-> items, ack |-> AckValue, received |-> {}, outcome |-> outcome]
           first == [Off EXCEPT !.pc = ToAck(req(""))]
<1>1. /\ DOMAIN rs = 1 .. Round /\ n \in DOMAIN ends /\ n \notin DOMAIN rs
      /\ UNCHANGED <<rows, bus, log>> /\ ends[n].pc = "off"
      /\ \A d \in DOMAIN ends \ DOMAIN rs : ends[d].pc = "off"
      /\ IsASeq(rs) /\ Len(rs) = Round /\ DOMAIN rs \subseteq DOMAIN ends
  <2>1. Round < MaxRounds /\ UNCHANGED <<rows, bus, log>>
    BY DEF Request
  <2>2. DOMAIN rs = 1 .. Round /\ n \in DOMAIN ends /\ n \notin DOMAIN rs /\ IsASeq(rs)
    BY <2>1, RsTyped DEF Sound
  <2>3. \A d \in DOMAIN ends \ DOMAIN rs : ends[d].pc = "off"
    BY DEF Sound, ExInv, Pages
  <2> QED
    BY <2>1, <2>2, <2>3, RsTyped DEF Round, Sound
<1>2. PICK out \in {"unknown", "not-sent"} :
           /\ rs' = Append(rs, req(out))
           /\ out = "unknown" => /\ To(n, first)
                                 /\ odd' = odd \cup IF \E e \in DOMAIN ends : Busy(e)
                                                    THEN {"overlap"} ELSE {}
           /\ out = "not-sent" => UNCHANGED <<ends, odd>>
  BY DEF Request
<1>3. /\ DOMAIN rs' = DOMAIN rs \cup {n} /\ rs'[n].sent = items /\ rs'[n].ack = AckValue
      /\ \A r \in DOMAIN rs : rs'[r] = rs[r]
  <2> HIDE DEF req, n, first
  <2>4. rs' = Append(rs, req(out)) /\ IsASeq(rs)
    BY <1>1, <1>2
  <2>1. /\ DOMAIN rs' = 1 .. Len(rs) + 1 /\ rs'[Len(rs) + 1] = req(out)
        /\ \A i \in 1 .. Len(rs) : rs'[i] = rs[i]
    BY <2>4, AppendAt
  <2>2. DOMAIN rs' = DOMAIN rs \cup {n}
    BY <1>1, <2>1, RsTyped DEF Sound, n
  <2>3. req(out).sent = items /\ req(out).ack = AckValue
    BY DEF req
  <2> QED
    BY <1>1, <2>1, <2>2, <2>3 DEF n
<1>4. /\ first.ids = {} /\ first.left = {} /\ first.err = FALSE /\ first.next = 0
      /\ first.pc = ToAck(req(""))
  BY DEF Off
<1>5. /\ first.pc \in {"ack", "item", "peek"}
      /\ first.pc = "ack" <=> AckValue # 0
      /\ first.pc = "item" => items = {Item}
      /\ first.pc = "peek" => items = {}
  <2>1. req("").ack = AckValue /\ req("").sent = items
    OBVIOUS
  <2> HIDE DEF req, first
  <2> QED
    BY <1>4, <2>1 DEF ToAck, ToItems
<1> HIDE DEF req, first
<1>6. /\ odd \subseteq odd' /\ DOMAIN ends' = DOMAIN ends
      /\ \A d \in DOMAIN ends \ {n} : ends'[d] = ends[d]
      /\ ends'[n] = first \/ ends'[n] = ends[n]
      /\ ends'[n] = first => \A d \in DOMAIN ends : ~Busy(d)
  <2>1. CASE out = "unknown"
    <3>1. \A d \in DOMAIN ends : ~Busy(d)
      BY <1>2, <2>1 DEF Clean
    <3> QED
      BY <1>1, <1>2, <2>1, <3>1, ToMoves
  <2>2. CASE out = "not-sent"
    BY <1>1, <1>2, <1>4, <1>5, <2>2
  <2> QED
    BY <2>1, <2>2
<1>7. Told
  BY DEF Sound
<1>8. One'
  <2>1. CASE ends'[n] = first
    BY <1>6, <2>1 DEF One, Busy
  <2>2. CASE ends'[n] = ends[n]
    BY <1>6, <1>7, <2>2 DEF Told, One, Busy
  <2> QED
    BY <1>6, <2>1, <2>2
<1>9. Held'
  <2>1. ASSUME NEW d \in DOMAIN ends, d # n
        PROVE  HeldAt(ends'[d], rs'[d], odd')
    <3>1. HeldAt(ends[d], rs[d], odd) /\ ends'[d] = ends[d]
      BY <1>6, <1>7, <2>1, HeldOf
    <3>2. ends[d].pc \in {"ack", "item"} => rs'[d] = rs[d]
      BY <1>1, <1>3
    <3> QED
      BY <1>6, <3>1, <3>2 DEF HeldAt
  <2>2. HeldAt(first, rs'[n], odd')
    BY <1>3, <1>4, <1>5 DEF HeldAt, Early, Unasked, Late
  <2>3. HeldAt(ends[n], rs'[n], odd')
    <3>1. HeldAt(ends[n], rs[n], odd)
      BY <1>1, <1>7, HeldOf
    <3> QED
      BY <1>1, <1>6, <3>1 DEF HeldAt
  <2> QED
    BY <1>6, <2>1, <2>2, <2>3 DEF Held
<1>10. Counted'
  <2>1. \A r \in DOMAIN rs : ends'[r] = ends[r] /\ rs'[r] = rs[r]
    BY <1>1, <1>3, <1>6
  <2>2. ends'[n].pc \in {"off", "ack", "item", "peek"}
    BY <1>1, <1>5, <1>6
  <2>3. ASSUME NEW a \in Ids
        PROVE  AckedBy(a)' = AckedBy(a) /\ Live(AckedBy(a))' = Live(AckedBy(a))
    <3>1. n \notin AckedBy(a)'
      <4>1. a # 0
        BY DEF Ids
      <4> QED
        BY <1>1, <1>3, <1>5, <1>6, <4>1 DEF AckedBy
    <3>2. AckedBy(a)' = AckedBy(a)
      BY <1>1, <1>3, <2>1, <3>1 DEF AckedBy
    <3> QED
      BY <2>1, <3>2 DEF AckedBy, Live
  <2>4. AskedBy' = AskedBy /\ Live(AskedBy)' = Live(AskedBy)
    <3>1. n \notin AskedBy'
      BY <1>1, <1>3, <1>5, <1>6 DEF AskedBy, Unasked
    <3>2. AskedBy' = AskedBy
      BY <1>1, <1>3, <2>1, <3>1 DEF AskedBy
    <3> QED
      BY <2>1, <3>2 DEF AskedBy, Live
  <2>5. \A i : GaveBy(i)' = GaveBy(i)
    <3>1. ends[n].ids = {}
      BY <1>1, <1>7, HeldOf DEF HeldAt, Early, Unasked
    <3>2. ends'[n].ids = {}
      BY <1>4, <1>6, <3>1
    <3> QED
      BY <1>6, <3>1, <3>2 DEF GaveBy
  <2> QED
    BY <1>1, <1>7, <2>3, <2>4, <2>5 DEF Told, Counted, AckCount, ItemCount
<1>11. Measured'
  <2>1. Ahead' = Ahead /\ bus'.cursor = bus.cursor
    BY <1>1 DEF Ahead
  <2>2. ends'[n].pc \notin {"measure", "round"}
    BY <1>1, <1>5, <1>6
  <2>3. \A d \in DOMAIN ends' : MeasuredAt(ends'[d], Ahead, bus.cursor, odd')
    BY <1>6, <1>7, <2>2 DEF Told, Measured, MeasuredAt
  <2> QED
    BY <2>1, <2>3 DEF Measured
<1>12. Entries' /\ Traced'
  <2>1. SameAcking
    <3>1. \A d \in DOMAIN ends : ends'[d].pc \in InAck <=> ends[d].pc \in InAck
      BY <1>1, <1>5, <1>6 DEF InAck
    <3>2. ASSUME NEW d \in DOMAIN ends, ends[d].pc \in InAck
          PROVE  Target(rs[d].ack)' = Target(rs[d].ack)
      <4>1. d \in DOMAIN rs
        BY <3>2, RequestTyped DEF Sound, InAck
      <4> QED
        BY <1>1, <1>3, <4>1 DEF Target
    <3> QED
      BY <1>6, <3>1, <3>2 DEF SameAcking
  <2> QED
    BY <1>1, <1>6, <1>7, <2>1, EntriesKept, TracedKept DEF Told
<1> QED
  BY <1>8, <1>9, <1>10, <1>11, <1>12 DEF Told

-----------------------------------------------------------------------------
LEMMA EvInit == Init => EvInv
<1> SUFFICES ASSUME Init
             PROVE  EvInv
  OBVIOUS
<1>1. /\ log = <<>> /\ rs = <<>> /\ ends = [e \in 1 .. MaxRounds |-> Off] /\ odd = {}
      /\ bus.cursor = 0
  BY DEF Init
<1>2. DOMAIN log = {} /\ DOMAIN rs = {} /\ IsASeq(log)
  BY <1>1 DEF IsASeq
<1>3. \A e \in DOMAIN ends : ends[e] = Off
  BY <1>1
<1>4. One /\ Held /\ Measured
  BY <1>1, <1>3 DEF One, Held, Measured, HeldAt, MeasuredAt, Busy, Off, Early, Unasked, Late
<1>6. /\ Acks(log) = {} /\ Rounds(log) = {} /\ Givens(log) = {} /\ Refusals(log) = {}
  BY <1>2 DEF Acks, Rounds, Givens, Refusals, Matching
<1>7. Entries
  BY <1>2, <1>6 DEF Entries
<1>8. Traced
  <2>1. Closing(log) = {} /\ Moves(log) = {}
    BY <1>6 DEF Closing, Moves
  <2>2. LastBefore({}, Ends) = {}
    BY DEF LastBefore
  <2>3. Expected(log, 0, Ends) = 0
    BY <2>1, <2>2 DEF Expected
  <2> QED
    BY <1>1, <1>3, <1>6, <2>3 DEF Traced, InAck, Off
<1>9. Counted
  <2>1. Cardinality({}) = 0
    BY FS_EmptySet
  <2>2. \A a : AckedBy(a) = {} /\ Live(AckedBy(a)) = {}
    BY <1>2 DEF AckedBy, Live
  <2>3. AskedBy = {} /\ Live(AskedBy) = {}
    BY <1>2 DEF AskedBy, Live
  <2>4. \A i : GaveBy(i) = {}
    BY <1>3 DEF GaveBy, Off
  <2>5. \A a : AcksLogged(log, a) = 0
    BY <1>6, <2>1 DEF AcksLogged
  <2>6. Logged(log, Item) = 0 /\ \A i : Given(log, i) = 0
    BY <1>2, <2>1 DEF Logged, Given, Matching
  <2> QED
    BY <2>1, <2>2, <2>3, <2>4, <2>5, <2>6 DEF Counted, AckCount, ItemCount
<1> QED
  BY <1>4, <1>7, <1>8, <1>9, KnownInit DEF EvInv, Told, Known

LEMMA EvStep == ExInv /\ ExInv' /\ faults \in Nat /\ EvInv /\ [Next]_vars => EvInv'
<1> SUFFICES ASSUME ExInv, ExInv', faults \in Nat, EvInv, [Next]_vars
             PROVE  EvInv'
  OBVIOUS
<1>1. Known /\ Known'
  BY KnownStep DEF EvInv, Known
<1>2. ASSUME Clean'
      PROVE  Told'
  <2>1. Clean
    BY <1>2, CalmBefore DEF Clean
  <2>2. Sound
    BY <1>1, <2>1 DEF EvInv, Sound
  <2>3. CASE UNCHANGED vars
    BY <2>2, <2>3, AwayTold DEF Sound
  <2>4. CASE Arrive
    BY <2>2, <2>4, ArriveTold
  <2>5. CASE Client
    BY <1>2, <2>2, <2>5, RequestTold, ReceiveTold, AwayTold DEF Client, Sound
  <2>6. CASE \E e \in DOMAIN ends : Endpoint(e)
    BY <1>2, <2>2, <2>6, EndpointTold
  <2> QED
    BY <2>3, <2>4, <2>5, <2>6 DEF Next
<1> QED
  BY <1>1, <1>2 DEF EvInv, Known

\* The inductive invariant of the log of a bus that is disturbed, but not in its log.
THEOREM EvidenceCorrect == Spec => [](ExInv /\ CrossInv /\ EvInv)
<1>1. Init => ExInv /\ CrossInv /\ EvInv
  BY ExInit, CrossInit, EvInit
<1>2. ExInv /\ CrossInv /\ EvInv /\ [Next]_vars => (ExInv /\ CrossInv /\ EvInv)'
  BY ExStep, CrossStep, EvStep DEF CrossInv
<1> QED
  BY <1>1, <1>2, PTL DEF Spec

-----------------------------------------------------------------------------
(* What reconcile makes of such a log *)

\* What holds of it between the rounds.
Rest == /\ ExInv /\ Known /\ Told /\ cl.pc = "idle"
        /\ \A e \in DOMAIN ends : ends[e].pc \in {"off", "answer", "dead", "done"}

LEMMA ReceiptIs ==
  ASSUME Rest, NEW r \in DOMAIN rs
  PROVE  /\ rs[r].sent \subseteq {Item} /\ rs[r].ack \in Ids0 /\ rs[r].received \subseteq Ids
         /\ r \in DOMAIN ends
         /\ rs[r].outcome \in Proven <=> ends[r].pc = "done"
         /\ ends[r].pc # "off" => rs[r].outcome \in Proven \cup {"unknown"}
         /\ rs[r].received = IF ends[r].pc = "done" THEN ends[r].ids ELSE {}
<1>1. rs[r] \in Receipt /\ r \in DOMAIN ends
  BY RsTyped DEF Rest
<1>2. /\ rs[r].outcome = "not-sent" <=> ends[r].pc = "off"
      /\ rs[r].outcome \in Proven <=> ends[r].pc = "done"
      /\ rs[r].received = IF ends[r].pc = "done" THEN ends[r].ids ELSE {}
  BY DEF Rest, Known, Answered
<1>3. rs[r].outcome \in {"unknown", "not-sent"} \cup Proven
  BY <1>1 DEF Receipt, Outcomes, Proven
<1> QED
  BY <1>1, <1>2, <1>3 DEF Receipt

\* What was asked for in an answered round is logged.
LEMMA SentLogged ==
  ASSUME Rest, NEW m \in ItemsIn(rs)
  PROVE  ~(Logged(log, m) < Sent(rs, Proven, m))
<1>1. m = Item
  BY ReceiptIs DEF ItemsIn
<1> DEFINE S == {r \in Receipts(rs, Proven) : Item \in rs[r].sent}
<1>2. S \subseteq Live(AskedBy) /\ Live(AskedBy) \subseteq DOMAIN rs
  BY ReceiptIs DEF Receipts, Live, AskedBy, Unasked
<1>3. /\ Cardinality(S) <= Cardinality(Live(AskedBy))
      /\ Cardinality(S) \in Nat /\ Cardinality(Live(AskedBy)) \in Nat
  BY <1>2, Counters DEF Rest
<1>4. Cardinality(Live(AskedBy)) <= Logged(log, Item) /\ Logged(log, Item) \in Nat
  BY BusTyped, CountsNat DEF Rest, Told, Counted, ItemCount
<1>5. Sent(rs, Proven, m) = Cardinality(S)
  BY <1>1 DEF Sent
<1> HIDE DEF S
<1> QED
  BY <1>1, <1>3, <1>4, <1>5

LEMMA ReplyTyped ==
  ASSUME Rest, NEW i \in RepliesIn(log, rs)
  PROVE  i \in Ids
<1>1. CASE i \in {log[g].id : g \in Givens(log)}
  BY <1>1 DEF Rest, Told, Entries
<1>2. CASE i \in UNION {rs[r].received : r \in DOMAIN rs}
  BY <1>2, ReceiptIs
<1>3. RepliesIn(log, rs) = {log[g].id : g \in Givens(log)} \cup UNION {rs[r].received : r \in DOMAIN rs}
  BY DEF RepliesIn, Givens
<1> QED
  BY <1>1, <1>2, <1>3

\* The rounds whose answer brought the reply gave it out.
GotBy(i) == {r \in DOMAIN rs : i \in rs[r].received}

LEMMA GotIs ==
  ASSUME Rest, NEW i \in Ids
  PROVE  /\ GotBy(i) \subseteq GaveBy(i) /\ GaveBy(i) \subseteq DOMAIN rs
         /\ Got(rs, i) = Cardinality(GotBy(i)) /\ Given(log, i) = Cardinality(GaveBy(i))
         /\ Got(rs, i) \in Nat /\ Given(log, i) \in Nat
<1>1. ASSUME NEW e \in DOMAIN ends
      PROVE  /\ ends[e].pc = "done" => ends[e].left = {}
             /\ ends[e].pc = "off" => ends[e].ids = {}
  <2>1. HeldAt(ends[e], rs[e], odd)
    BY HeldOf DEF Rest
  <2> QED
    BY <2>1 DEF HeldAt, Early, Unasked, Late
<1>2. GotBy(i) \subseteq GaveBy(i)
  BY <1>1, ReceiptIs DEF GotBy, GaveBy
<1>3. GaveBy(i) \subseteq DOMAIN rs
  BY <1>1, RequestTyped DEF GaveBy, Rest
<1>4. Got(rs, i) = Cardinality(GotBy(i)) /\ Given(log, i) = Cardinality(GaveBy(i))
  BY DEF Got, GotBy, Rest, Told, Counted
<1>5. Got(rs, i) \in Nat /\ Given(log, i) \in Nat
  BY <1>2, <1>3, <1>4, Counters DEF Rest
<1> QED
  BY <1>2, <1>3, <1>4, <1>5

LEMMA ReceivedLogged ==
  ASSUME Rest, NEW i \in RepliesIn(log, rs)
  PROVE  ~(Given(log, i) < Got(rs, i))
<1>1. i \in Ids
  BY ReplyTyped
<1>2. Cardinality(GotBy(i)) <= Cardinality(GaveBy(i))
  BY <1>1, GotIs, Counters DEF Rest
<1> QED
  BY <1>1, <1>2, GotIs

\* What was given out and never came is above stored_max.
LEMMA DeliveredReceived ==
  ASSUME Rest, NEW i \in RepliesIn(log, rs), Got(rs, i) < Given(log, i),
         ~(AnyPresumed(rs) /\ Got(rs, i) > 0)
  PROVE  i > savedMax
<1>1. i \in Ids /\ i \in Nat /\ savedMax \in Nat
  BY ReplyTyped, IdsTyped DEF Rest, ExInv, Typed
<1>2. PICK e \in GaveBy(i) : e \notin GotBy(i)
  <2>1. GotBy(i) # GaveBy(i)
    BY <1>1, GotIs
  <2> QED
    BY <1>1, <2>1, GotIs
<1>3. AnyPresumed(rs)
  <2>1. e \in DOMAIN rs /\ e \in DOMAIN ends /\ i \in ends[e].ids
    BY <1>1, <1>2, GotIs DEF GaveBy
  <2>2. HeldAt(ends[e], rs[e], odd)
    BY <2>1, HeldOf DEF Rest
  <2>3. ends[e].pc # "off"
    BY <2>1, <2>2 DEF HeldAt, Early, Unasked
  <2>4. ends[e].pc # "done"
    BY <1>2, <2>1, ReceiptIs DEF GotBy
  <2>5. rs[e].outcome = "unknown"
    BY <2>1, <2>3, <2>4, ReceiptIs
  <2> QED
    BY <2>1, <2>5 DEF AnyPresumed, Presumed
<1>4. GotBy(i) = {}
  <2>1. SUFFICES ASSUME GotBy(i) # {}
                 PROVE  FALSE
    OBVIOUS
  <2>2. IsFiniteSet(GotBy(i))
    BY Counters DEF GotBy, Rest
  <2>3. Cardinality(GotBy(i)) # 0
    BY <2>1, <2>2, FS_EmptySet
  <2> QED
    BY <1>1, <1>3, <2>3, GotIs
<1>5. i \notin Fetched
  BY <1>4 DEF Fetched, GotBy
<1>6. ~(i <= savedMax)
  BY <1>1, <1>5 DEF Rest, Known, Near, Reached
<1> QED
  BY <1>1, <1>6

LEMMA AckTyped ==
  ASSUME Rest, NEW a \in AckValues(log, rs)
  PROVE  a \in Ids
<1>1. CASE a \in {log[i].ack : i \in Acks(log)}
  BY <1>1 DEF Rest, Told, Entries, AckSays
<1>2. CASE a \in {rs[r].ack : r \in DOMAIN rs} \ {0}
  <2>1. a \in Ids0 /\ a # 0
    BY <1>2, ReceiptIs
  <2> QED
    BY <2>1 DEF Ids, Ids0
<1> QED
  BY <1>1, <1>2 DEF AckValues

LEMMA AcksTold ==
  ASSUME Rest, NEW a \in AckValues(log, rs)
  PROVE  /\ ~(AcksLogged(log, a) < AcksSent(rs, Proven, a))
         /\ ~(AcksLogged(log, a) > AcksSent(rs, Proven \cup {"unknown"}, a))
<1> DEFINE S == {r \in Receipts(rs, Proven) : rs[r].ack = a}
           T == {r \in Receipts(rs, Proven \cup {"unknown"}) : rs[r].ack = a}
<1>1. a \in Ids
  BY AckTyped
<1>2. /\ S \subseteq Live(AckedBy(a)) /\ AckedBy(a) \subseteq T
      /\ T \subseteq DOMAIN rs /\ AckedBy(a) \subseteq DOMAIN rs /\ Live(AckedBy(a)) \subseteq DOMAIN rs
  BY ReceiptIs DEF Receipts, Live, AckedBy
<1>3. /\ Cardinality(S) <= Cardinality(Live(AckedBy(a)))
      /\ Cardinality(AckedBy(a)) <= Cardinality(T)
      /\ Cardinality(S) \in Nat /\ Cardinality(T) \in Nat
      /\ Cardinality(Live(AckedBy(a))) \in Nat /\ Cardinality(AckedBy(a)) \in Nat
  <2> HIDE DEF S, T
  <2>1. S \subseteq DOMAIN rs
    BY <1>2
  <2> QED
    BY <1>2, <2>1, Counters DEF Rest
<1>4. AckCount(a) /\ AcksLogged(log, a) \in Nat
  BY <1>1, BusTyped, CountsNat DEF Rest, Told, Counted
<1>5. AcksSent(rs, Proven, a) = Cardinality(S)
      /\ AcksSent(rs, Proven \cup {"unknown"}, a) = Cardinality(T)
  BY DEF AcksSent
<1> HIDE DEF S, T
<1> QED
  BY <1>3, <1>4, <1>5 DEF AckCount

LEMMA PairsFinite ==
  ASSUME NEW D, IsFiniteSet(D), NEW U, IsFiniteSet(U), NEW T,
         \A t \in T : \E r \in D, k \in U : t = <<r, k>>
  PROVE  Cardinality(T) \in Nat
<1>1. IsFiniteSet(D \X U)
  BY FS_Product
<1>2. T \subseteq D \X U
  OBVIOUS
<1>3. IsFiniteSet(T)
  BY <1>1, <1>2, FS_Subset
<1> QED
  BY <1>3, FS_CardinalityType

LEMMA TotalNat ==
  ASSUME IsASeq(log), NEW W \in SUBSET DOMAIN log, NEW f \in [W -> Ids0]
  PROVE  Total(f) \in Nat
<1> DEFINE T == UNION {{<<r, k>> : k \in 1 .. f[r]} : r \in DOMAIN f}
<1>1. IsFiniteSet(DOMAIN log) /\ IsFiniteSet(1 .. MaxRows)
  BY DomainFinite, FS_Interval, ExchangeAssumption
<1>2. ASSUME NEW t \in T
      PROVE  \E r \in DOMAIN log, k \in 1 .. MaxRows : t = <<r, k>>
  <2>1. PICK r \in W : \E k \in 1 .. f[r] : t = <<r, k>>
    OBVIOUS
  <2>2. f[r] \in Nat /\ f[r] <= MaxRows /\ MaxRows \in Nat
    BY ExchangeAssumption DEF Ids0
  <2>3. \A k \in 1 .. f[r] : k \in 1 .. MaxRows
    BY <2>2
  <2> QED
    BY <2>1, <2>3
<1> DEFINE D == DOMAIN log
           U == 1 .. MaxRows
<1>3. IsFiniteSet(D) /\ IsFiniteSet(U) /\ \A t \in T : \E r \in D, k \in U : t = <<r, k>>
  BY <1>1, <1>2
<1> HIDE DEF T, D, U
<1>4. Cardinality(T) \in Nat
  BY <1>3, PairsFinite
<1> QED
  BY <1>4 DEF Total, T

\* Unless mail came between the two peeks of a round, no ack skips anything.
LEMMA NothingSkipped ==
  ASSUME Rest, "grew" \notin odd, NEW i \in Acks(log), Truncated(log, i)
  PROVE  ~(log[i].to > Limit(log, i))
<1> DEFINE W == Window(log, i)
           next == {log[r].next : r \in W} \ {0}
<1>1. /\ AckSays(log[i]) /\ log[i].from \in Nat /\ log[i].to \in Nat /\ MaxReplies \in Nat
      /\ IsASeq(log) /\ W \subseteq Rounds(log) /\ W \subseteq DOMAIN log
  <2>1. AckSays(log[i])
    BY DEF Rest, Told, Entries
  <2>2. log[i].from \in Ids0 /\ log[i].to \in Ids0
    BY <2>1 DEF AckSays
  <2>3. W \subseteq Rounds(log) /\ Rounds(log) \subseteq DOMAIN log
    BY KindsIn DEF Window
  <2> QED
    BY <2>1, <2>2, <2>3, IdsTyped, BusTyped, ExchangeAssumption DEF Rest
<1>2. ASSUME NEW r \in W
      PROVE  /\ log[r].at = log[i].from /\ log[r].replies \in Ids0 /\ log[r].pending \in Ids0
             /\ log[r].next = 0 => log[r].pending = log[r].replies
             /\ log[r].next \in {0, log[i].from + MaxReplies + 1}
  <2>1. log[r].at = log[i].from
    BY DEF Rest, Told, Traced
  <2>2. RoundSays(log[r], odd)
    BY <1>1 DEF Rest, Told, Entries
  <2> QED
    BY <2>1, <2>2 DEF RoundSays
<1>3. next # {}
  <2>1. SUFFICES ASSUME next = {}
                 PROVE  FALSE
    OBVIOUS
  <2> DEFINE p == [r \in W |-> log[r].pending]
             q == [r \in W |-> log[r].replies]
  <2>2. \A r \in W : log[r].next = 0
    BY <2>1
  <2>3. p = q /\ q \in [W -> Ids0]
    BY <1>2, <2>2
  <2>4. Total(q) \in Nat
    <3> HIDE DEF q
    <3> QED
      BY <1>1, <2>3, TotalNat
  <2>5. Total(p) > Total(q)
    BY DEF Truncated
  <2> HIDE DEF p, q
  <2> QED
    BY <2>3, <2>4, <2>5
<1>4. next = {log[i].from + MaxReplies + 1}
  BY <1>2, <1>3
<1>5. Min(next) = log[i].from + MaxReplies + 1
  <2> DEFINE n == log[i].from + MaxReplies + 1
  <2>1. n \in Int /\ next = {n, n}
    BY <1>1, <1>4
  <2> HIDE DEF n, next
  <2>2. Min(next) = n
    BY <2>1, PairTyped
  <2> QED
    BY <2>2 DEF n
<1>6. Limit(log, i) = Min(next) - 1
  BY <1>3 DEF Limit
<1> HIDE DEF next, W
<1> QED
  BY <1>1, <1>5, <1>6 DEF AckSays

LEMMA CursorTold ==
  ASSUME Rest, NEW d \in CursorHard(log, 0)
  PROVE  Latecomer(d)
<1>1. ASSUME NEW i \in Acks(log)
      PROVE  ~(log[i].to > Max({log[i].from, log[i].ack})) /\ log[i].from = Expected(log, 0, i)
  <2>1. AckSays(log[i]) /\ log[i].from = Expected(log, 0, i)
    BY DEF Rest, Told, Entries, Traced
  <2>2. log[i].from \in Int /\ log[i].to \in Int /\ log[i].ack \in Int
    BY <2>1 DEF AckSays, Ids0, Ids
  <2>3. Max({log[i].from, log[i].ack}) = IF log[i].from >= log[i].ack THEN log[i].from ELSE log[i].ack
    BY <2>2, PairTyped
  <2> QED
    BY <2>1, <2>2, <2>3 DEF AckSays
<1>2. ASSUME NEW r \in Rounds(log)
      PROVE  ~(log[r].pending > log[r].replies /\ log[r].next = 0) /\ log[r].at = Expected(log, 0, r)
  <2>1. RoundSays(log[r], odd) /\ log[r].at = Expected(log, 0, r)
    BY DEF Rest, Told, Entries, Traced
  <2>2. log[r].pending \in Int /\ log[r].replies \in Int
    BY <2>1 DEF RoundSays, Ids0
  <2> QED
    BY <2>1, <2>2 DEF RoundSays
<1>3. PICK i \in Acks(log) : /\ d = <<"cursor_skips_undelivered", i>>
                             /\ Truncated(log, i) /\ log[i].to > Limit(log, i)
  BY <1>1, <1>2 DEF CursorHard
<1>4. d[1] = "cursor_skips_undelivered"
  BY <1>3
<1> QED
  BY <1>3, <1>4, NothingSkipped DEF Latecomer

LEMMA BagsTold ==
  ASSUME Rest, NEW d \in HardBags(log, rs)
  PROVE  Awaited(d)
<1>1. PICK i \in RepliesIn(log, rs) : /\ d = <<"delivered_not_received", i>>
                                      /\ Got(rs, i) < Given(log, i)
                                      /\ ~(AnyPresumed(rs) /\ Got(rs, i) > 0)
  BY SentLogged, ReceivedLogged, AcksTold DEF HardBags
<1>2. i > savedMax
  BY <1>1, DeliveredReceived
<1>3. d[1] = "delivered_not_received" /\ d[2] = i
  BY <1>1
<1> QED
  BY <1>2, <1>3 DEF Awaited

\* NotAccused in every reachable state: reconcile calls no honest bus a liar.
THEOREM NotAccusedAlways == Spec => []NotAccused
<1>1. ExInv /\ CrossInv /\ EvInv => NotAccused
  <2> SUFFICES ASSUME ExInv, EvInv, Quiet, Clean, NEW d \in Hard(log, rs)
               PROVE  Awaited(d) \/ Latecomer(d)
    BY DEF NotAccused, Clean
  <2>1. Rest
    BY DEF EvInv, Known, Quiet, Busy, Rest
  <2>2. d \in HardBags(log, rs) \/ d \in CursorHard(log, 0)
    BY DEF Hard
  <2> QED
    BY <2>1, <2>2, BagsTold, CursorTold
<1> QED
  BY <1>1, EvidenceCorrect, PTL


-----------------------------------------------------------------------------
(* Rounds without a fault: all of them were answered, and each round entry  *)
(* says how many replies follow it.                                         *)

\* Every round but the one under way was answered.
Answering ==
    /\ \A r \in DOMAIN rs : ends[r].pc = "done" \/ (r = Round /\ cl.pc = "sent")
    /\ \A e \in DOMAIN ends : ends[e].pc \notin {"dead", "ackfailed", "markfailed"}

Regular(x) == \/ Is(x, "ack", "accepted") \/ Is(x, "pickup", "accepted")
              \/ Is(x, "pickup", "delivered") \/ x.kind \in {"item", "close"}

GivenBy(s, q) == Cardinality(GivenIn(s, q))

\* The round whose replies are being entered is the last one.
EntersAt(s, l) == l.pc = "giving" =>
    /\ l.round \in Rounds(s) /\ \A k \in Closing(s) : k <= l.round
    /\ GivenBy(s, l.round) + Cardinality(l.left) = s[l.round].replies

GivenOut ==
    /\ \A q \in Rounds(log) :
          \/ GivenBy(log, q) = log[q].replies
          \/ \E e \in DOMAIN ends : ends[e].pc = "giving" /\ ends[e].round = q
    /\ \A e \in DOMAIN ends : EntersAt(log, ends[e])

Smooth    == Clean /\ Answering /\ (\A i \in DOMAIN log : Regular(log[i])) /\ GivenOut
SmoothInv == faults = 0 => Smooth

LEMMA GivenInGrows ==
  ASSUME NEW x, More(x), NEW q
  PROVE  GivenIn(log', q) = IF Is(x, "pickup", "delivered") /\ q \in OpenAt(log, Ends)
                            THEN GivenIn(log, q) \cup {Ends} ELSE GivenIn(log, q)
<1>1. Grown(log, x, log', Ends) /\ Givens(log) \subseteq DOMAIN log
  BY KindsNat DEF More
<1>2. Givens(log') = IF Is(x, "pickup", "delivered") THEN Givens(log) \cup {Ends} ELSE Givens(log)
  BY <1>1, GrownMore DEF Is
<1>3. \A g \in DOMAIN log \cup {Ends} : OpenAt(log', g) = OpenAt(log, g)
  BY <1>1, SameOpen
<1> QED
  BY <1>1, <1>2, <1>3 DEF GivenIn

LEMMA GivenInFinite ==
  ASSUME IsASeq(log), NEW q
  PROVE  /\ IsFiniteSet(GivenIn(log, q)) /\ GivenBy(log, q) \in Nat
         /\ GivenIn(log, q) \subseteq DOMAIN log
<1>1. GivenIn(log, q) \subseteq Givens(log) /\ Givens(log) \subseteq DOMAIN log
  BY KindsNat DEF GivenIn
<1>2. IsFiniteSet(GivenIn(log, q))
  BY <1>1, DomainFinite
<1> QED
  BY <1>1, <1>2, FS_CardinalityType DEF GivenBy

\* What an entry that is no reply leaves as it is.
LEMMA GivenByStays ==
  ASSUME IsASeq(log), \/ UNCHANGED log
                      \/ \E x : More(x) /\ ~Is(x, "pickup", "delivered")
  PROVE  \A q : GivenBy(log', q) = GivenBy(log, q)
<1>1. ASSUME NEW x, More(x), ~Is(x, "pickup", "delivered"), NEW q
      PROVE  GivenBy(log', q) = GivenBy(log, q)
  BY <1>1, GivenInGrows DEF GivenBy
<1> QED
  BY <1>1 DEF GivenBy

\* An entry that opens no round and gives out nothing.
Aside(x) == Regular(x) /\ ~Is(x, "pickup", "accepted") /\ ~Is(x, "pickup", "delivered")

LEMMA AnsweringKept ==
  ASSUME ExInv, Answering, NEW e \in DOMAIN ends, Busy(e), NEW l, To(e, l), UNCHANGED <<rs, cl>>,
         l.pc \notin {"dead", "ackfailed", "markfailed"}
  PROVE  Answering'
<1>1. DOMAIN ends' = DOMAIN ends /\ ends'[e] = l /\ \A d \in DOMAIN ends \ {e} : ends'[d] = ends[d]
  BY ToMoves
<1>2. Round' = Round
  BY DEF Round
<1>3. ASSUME NEW r \in DOMAIN rs
      PROVE  ends'[r].pc = "done" \/ (r = Round /\ cl.pc = "sent")
  <2>1. CASE r = e
    BY <2>1 DEF Answering, Busy
  <2>2. CASE r # e
    <3>1. ends'[r] = ends[r]
      BY <1>1, <2>2, RsTyped
    <3>2. ends[r].pc = "done" \/ (r = Round /\ cl.pc = "sent")
      BY DEF Answering
    <3> QED
      BY <3>1, <3>2
  <2> QED
    BY <2>1, <2>2
<1> QED
  BY <1>1, <1>2, <1>3 DEF Answering

\* A step of an endpoint that neither enters a round nor replies.
LEMMA SmoothGo ==
  ASSUME Sound, Smooth, Clean', NEW e \in DOMAIN ends, Busy(e), NEW l, To(e, l), UNCHANGED <<rs, cl>>,
         ends[e].pc # "giving", l.pc \notin {"dead", "ackfailed", "markfailed", "giving"},
         UNCHANGED log \/ \E x : More(x) /\ Aside(x)
  PROVE  Smooth'
<1>1. ExInv /\ One /\ Answering /\ GivenOut /\ IsASeq(log)
  BY BusTyped DEF Sound, Told, Smooth
<1>2. \A d \in DOMAIN ends : ends[d].pc # "giving"
  BY <1>1 DEF One, Busy
<1>3. \A d \in DOMAIN ends' : ends'[d].pc # "giving"
  BY <1>2, ToMoves
<1>4. Answering'
  BY <1>1, AnsweringKept
<1>5. \A q : GivenBy(log', q) = GivenBy(log, q)
  BY <1>1, GivenByStays DEF Aside
<1>6. /\ \A i \in DOMAIN log' : Regular(log'[i])
      /\ Rounds(log') = Rounds(log) /\ \A q \in Rounds(log) : log'[q] = log[q]
  <2>1. ASSUME NEW x, More(x), Aside(x)
        PROVE  /\ \A i \in DOMAIN log' : Regular(log'[i])
               /\ Rounds(log') = Rounds(log) /\ \A q \in Rounds(log) : log'[q] = log[q]
    <3>1. /\ DOMAIN log' = DOMAIN log \cup {Ends} /\ log'[Ends] = x
          /\ \A i \in DOMAIN log : log'[i] = log[i]
      BY <2>1 DEF More, Grown
    <3>2. Rounds(log') = Rounds(log) /\ Rounds(log) \subseteq DOMAIN log
      BY <2>1, GrownKinds, KindsIn DEF More, Aside, Is
    <3> QED
      BY <2>1, <3>1, <3>2 DEF Smooth, Aside
  <2> QED
    BY <2>1 DEF Smooth
<1>7. GivenOut'
  <2>1. \A q \in Rounds(log') : GivenBy(log', q) = log'[q].replies
    BY <1>1, <1>2, <1>5, <1>6 DEF GivenOut
  <2> QED
    BY <1>3, <2>1 DEF GivenOut, EntersAt
<1> QED
  BY <1>4, <1>6, <1>7 DEF Smooth

LEMMA RoundNoteSmooth ==
  ASSUME Sound, Smooth, Clean', NEW e \in DOMAIN ends, RoundNote(e)
  PROVE  Smooth'
<1>1. ends[e].pc = "round" /\ UNCHANGED <<rows, bus, rs, cl>> /\ Busy(e)
  BY DEF RoundNote, clientVars, Busy
<1>2. /\ HeldAt(ends[e], rs[e], odd) /\ One /\ ExInv /\ Answering /\ GivenOut /\ IsASeq(log)
  BY HeldOf, BusTyped DEF Sound, Told, Smooth
<1>3. CASE To(e, At(e, "answer")) /\ UNCHANGED log
  <2> DEFINE a == At(e, "answer")
  <2>1. To(e, a) /\ a.pc = "answer"
    BY <1>2, <1>3, AtIs
  <2> HIDE DEF a
  <2> QED
    BY <1>1, <1>3, <2>1, SmoothGo
<1> DEFINE x == RoundEntry(bus.cursor, Cardinality(ends[e].ids), ends[e].pending, ends[e].next,
                           ends[e].known, Len(audit))
           l == [ends[e] EXCEPT !.pc = IF ends[e].ids = {} THEN "closing" ELSE "giving",
                                !.round = Len(log) + 1]
<1>4. CASE Note(e, x, l, {})
  <2>1. /\ To(e, l) /\ More(x) /\ Grown(log, x, log', Ends)
    BY <1>2, <1>4, NoteWritten
  <2>2. /\ x.kind = "pickup" /\ x.dec = "accepted" /\ x.replies = Cardinality(ends[e].ids)
    BY DEF RoundEntry
  <2>3. /\ l.pc = IF ends[e].ids = {} THEN "closing" ELSE "giving"
        /\ l.left = ends[e].ids /\ l.round = Ends
    BY <1>1, <1>2, EndTyped DEF End, HeldAt, Ends
  <2> HIDE DEF x, l
  <2>4. \A d \in DOMAIN ends : ends[d].pc # "giving"
    BY <1>1, <1>2 DEF One, Busy
  <2>5. Answering'
    <3>1. l.pc \in {"closing", "giving"}
      BY <2>3
    <3> QED
      BY <1>1, <1>2, <2>1, <3>1, AnsweringKept
  <2>6. /\ DOMAIN log' = DOMAIN log \cup {Ends} /\ log'[Ends] = x
        /\ \A i \in DOMAIN log : log'[i] = log[i]
        /\ Ends \in Nat /\ \A i \in DOMAIN log : i \in Nat /\ i < Ends
    BY <2>1 DEF More, Grown
  <2>7. \A i \in DOMAIN log' : Regular(log'[i])
    BY <2>2, <2>6 DEF Smooth, Regular, Is
  <2>8. /\ Rounds(log') = Rounds(log) \cup {Ends} /\ Rounds(log) \subseteq DOMAIN log
        /\ Closing(log') \subseteq DOMAIN log'
    BY <2>1, <2>2, GrownKinds, KindsIn, KindsNat DEF More, Is
  <2>9. \A q : GivenBy(log', q) = GivenBy(log, q)
    BY <1>2, <2>1, <2>2, GivenByStays DEF Is
  <2>10. GivenBy(log, Ends) = 0
    <3>1. ASSUME NEW g \in GivenIn(log, Ends)
          PROVE  FALSE
      <4>1. g \in DOMAIN log /\ Ends \in Rounds(log)
        BY <1>2, GivenInFinite DEF GivenIn, OpenAt
      <4> QED
        BY <2>6, <2>8, <4>1
    <3>2. GivenIn(log, Ends) = {}
      BY <3>1
    <3> QED
      BY <3>2, FS_EmptySet DEF GivenBy
  <2>11. ends[e].ids = {} => Cardinality(ends[e].ids) = 0
    BY FS_EmptySet
  <2>12. Cardinality(ends[e].ids) \in Nat
    <3>1. ends[e].ids \in SUBSET Ids
      BY <1>2, EndTyped DEF End
    <3> QED
      BY <3>1, CountTyped, IdsTyped
  <2>13. ends'[e] = l /\ DOMAIN ends' = DOMAIN ends /\ \A d \in DOMAIN ends \ {e} : ends'[d] = ends[d]
    BY <2>1, ToMoves
  <2>14. ASSUME NEW q \in Rounds(log')
         PROVE  \/ GivenBy(log', q) = log'[q].replies
                \/ \E d \in DOMAIN ends' : ends'[d].pc = "giving" /\ ends'[d].round = q
    <3>1. CASE q \in Rounds(log)
      <4>1. GivenBy(log, q) = log[q].replies
        BY <1>2, <2>4, <3>1 DEF GivenOut
      <4> QED
        BY <2>6, <2>8, <2>9, <3>1, <4>1
    <3>2. CASE q = Ends
      BY <2>2, <2>3, <2>6, <2>9, <2>10, <2>11, <2>13, <3>2
    <3> QED
      BY <2>8, <3>1, <3>2
  <2>15. ASSUME NEW d \in DOMAIN ends', ends'[d].pc = "giving"
         PROVE  EntersAt(log', ends'[d])
    <3>1. d = e
      BY <2>4, <2>13, <2>15
    <3>2. \A k \in Closing(log') : k <= Ends
      BY <2>6, <2>8
    <3>3. GivenBy(log', Ends) + Cardinality(ends[e].ids) = log'[Ends].replies
      BY <2>2, <2>6, <2>9, <2>10, <2>12
    <3> QED
      BY <2>3, <2>8, <2>13, <3>1, <3>2, <3>3 DEF EntersAt
  <2>16. GivenOut'
    BY <2>14, <2>15 DEF GivenOut, EntersAt
  <2> QED
    BY <2>5, <2>7, <2>16 DEF Smooth
<1> QED
  BY <1>3, <1>4 DEF RoundNote

LEMMA GivenNoteSmooth ==
  ASSUME Sound, Smooth, Clean', NEW e \in DOMAIN ends, GivenNote(e)
  PROVE  Smooth'
<1> DEFINE g == Min(ends[e].left)
           x == GivenEntry(g)
           l == [ends[e] EXCEPT !.left = @ \ {Min(@)},
                      !.pc = IF ends[e].left = {Min(ends[e].left)} THEN "marking" ELSE @]
           q == ends[e].round
<1>1. /\ ends[e].pc = "giving" /\ UNCHANGED <<rows, bus, rs, cl>> /\ Busy(e)
      /\ Note(e, x, l, {})
  BY DEF GivenNote, clientVars, Busy
<1>2. /\ HeldAt(ends[e], rs[e], odd) /\ One /\ ExInv /\ Answering /\ GivenOut /\ IsASeq(log)
  BY HeldOf, BusTyped DEF Sound, Told, Smooth
<1>3. g \in ends[e].left /\ ends[e].left \in SUBSET Ids
  <2>1. ends[e].left \in SUBSET Ids /\ ends[e].left # {}
    BY <1>1, <1>2, EndTyped DEF End, HeldAt
  <2>2. ends[e].left \in SUBSET Nat
    BY <2>1 DEF Ids
  <2> QED
    BY <2>1, <2>2, MinTyped
<1>4. To(e, l) /\ More(x) /\ Grown(log, x, log', Ends)
  BY <1>1, <1>2, NoteWritten
<1>5. x.kind = "pickup" /\ x.dec = "delivered"
  BY DEF GivenEntry
<1>6. /\ l.pc = IF ends[e].left = {g} THEN "marking" ELSE "giving"
      /\ l.left = ends[e].left \ {g} /\ l.round = q
  BY <1>1, <1>2, EndTyped DEF End
<1> HIDE DEF g, x, l
<1>7. Answering'
  <2>1. l.pc \in {"marking", "giving"}
    BY <1>6
  <2> QED
    BY <1>1, <1>2, <1>4, <2>1, AnsweringKept
<1>8. /\ DOMAIN log' = DOMAIN log \cup {Ends} /\ log'[Ends] = x
      /\ \A i \in DOMAIN log : log'[i] = log[i]
      /\ Ends \in Nat /\ \A i \in DOMAIN log : i \in Nat /\ i < Ends
  BY <1>4 DEF More, Grown
<1>9. \A i \in DOMAIN log' : Regular(log'[i])
  BY <1>5, <1>8 DEF Smooth, Regular, Is
<1>10. Rounds(log') = Rounds(log) /\ Acks(log') = Acks(log) /\ Refusals(log') = Refusals(log)
       /\ Rounds(log) \subseteq DOMAIN log /\ Closing(log) \subseteq DOMAIN log
  BY <1>2, <1>4, <1>5, GrownKinds, GrownMore, KindsIn, KindsNat DEF More, Is
<1>11. Closing(log') = Closing(log)
  BY <1>10 DEF Closing
<1>12. /\ q \in Rounds(log) /\ \A k \in Closing(log) : k <= q
       /\ GivenBy(log, q) + Cardinality(ends[e].left) = log[q].replies
  BY <1>1, <1>2 DEF GivenOut, EntersAt
<1>13. OpenAt(log, Ends) = {q}
  <2>1. q \in Closing(log) /\ q < Ends
    BY <1>8, <1>10, <1>12 DEF Closing
  <2>2. q \in LastBefore(Closing(log), Ends)
    BY <1>12, <2>1 DEF LastBefore
  <2>3. Closing(log) \in SUBSET Nat
    BY <1>2, KindsNat
  <2>4. LastBefore(Closing(log), Ends) = {q}
    BY <2>2, <2>3, LastOne
  <2> QED
    BY <1>12, <2>4 DEF OpenAt
<1>14. /\ \A p : p # q => GivenBy(log', p) = GivenBy(log, p)
       /\ GivenBy(log', q) = GivenBy(log, q) + 1 /\ GivenBy(log, q) \in Nat
  <2>1. \A p : GivenIn(log', p) = IF p = q THEN GivenIn(log, p) \cup {Ends} ELSE GivenIn(log, p)
    BY <1>4, <1>5, <1>13, GivenInGrows DEF Is
  <2>2. Ends \notin GivenIn(log, q) /\ IsFiniteSet(GivenIn(log, q)) /\ GivenBy(log, q) \in Nat
    BY <1>2, <1>8, GivenInFinite
  <2>3. Cardinality(GivenIn(log, q) \cup {Ends}) = Cardinality(GivenIn(log, q)) + 1
    BY <2>2, FS_AddElement
  <2> QED
    BY <2>1, <2>2, <2>3 DEF GivenBy
<1>15. Cardinality(l.left) + 1 = Cardinality(ends[e].left) /\ Cardinality(l.left) \in Nat
       /\ (ends[e].left = {g} => Cardinality(l.left) = 0)
  <2>1. Cardinality(ends[e].left) \in Nat /\ IsFiniteSet(ends[e].left)
    <3>1. IsFiniteSet(Ids)
      BY FS_Interval, ExchangeAssumption DEF Ids
    <3> QED
      BY <1>3, <3>1, FS_Subset, FS_CardinalityType
  <2>2. IsFiniteSet(ends[e].left \ {g})
        /\ Cardinality(ends[e].left \ {g}) = Cardinality(ends[e].left) - 1
    BY <1>3, <2>1, FS_RemoveElement
  <2>3. Cardinality(ends[e].left \ {g}) \in Nat
    BY <2>2, FS_CardinalityType
  <2>4. ends[e].left = {g} => Cardinality(ends[e].left \ {g}) = 0
    <3>1. {g} \ {g} = {}
      OBVIOUS
    <3> QED
      BY <3>1, FS_EmptySet
  <2> QED
    BY <1>6, <2>1, <2>2, <2>3, <2>4
<1>16. ends'[e] = l /\ DOMAIN ends' = DOMAIN ends /\ \A d \in DOMAIN ends \ {e} : ends'[d] = ends[d]
  BY <1>4, ToMoves
<1>17. \A d \in DOMAIN ends : ends[d].pc = "giving" => d = e
  BY <1>1, <1>2 DEF One, Busy
<1>18. GivenBy(log', q) + Cardinality(l.left) = log[q].replies
  BY <1>12, <1>14, <1>15
<1>19. ASSUME NEW p \in Rounds(log')
       PROVE  \/ GivenBy(log', p) = log'[p].replies
              \/ \E d \in DOMAIN ends' : ends'[d].pc = "giving" /\ ends'[d].round = p
  <2>1. CASE p # q
    <3>1. GivenBy(log, p) = log[p].replies
      BY <1>2, <1>10, <1>17, <2>1 DEF GivenOut
    <3> QED
      BY <1>8, <1>10, <1>14, <2>1, <3>1
  <2>2. CASE p = q
    <3>1. CASE ends[e].left = {g}
      <4>1. GivenBy(log', q) = log[q].replies
        BY <1>14, <1>15, <1>18, <3>1
      <4> QED
        BY <1>8, <1>10, <2>2, <4>1
    <3>2. CASE ends[e].left # {g}
      BY <1>6, <1>16, <2>2, <3>2
    <3> QED
      BY <3>1, <3>2
  <2> QED
    BY <2>1, <2>2
<1>20. ASSUME NEW d \in DOMAIN ends', ends'[d].pc = "giving"
       PROVE  EntersAt(log', ends'[d])
  <2>1. d = e
    BY <1>16, <1>17, <1>20
  <2> HIDE DEF q
  <2> QED
    BY <1>6, <1>8, <1>10, <1>11, <1>12, <1>16, <1>18, <2>1 DEF EntersAt
<1>21. GivenOut'
  BY <1>19, <1>20 DEF GivenOut, EntersAt
<1> QED
  BY <1>7, <1>9, <1>21 DEF Smooth

\* A step without a fault.
Fine == faults = 0 /\ faults' = 0

LEMMA FineNote ==
  ASSUME Fine, NEW e, NEW x, NEW l, NEW how, Note(e, x, l, how)
  PROVE  odd' = odd \cup how
  BY DEF Fine, Note, Fault

\* Without a fault the rounds neither lose an entry nor overlap.
LEMMA CleanKept ==
  ASSUME ExInv, Clean, Answering, Fine, [Next]_vars
  PROVE  Clean'
<1>1. ASSUME NEW e, AckNote(e) \/ AckFailNote(e) \/ ItemNote(e) \/ ItemFailNote(e)
                    \/ GivenNote(e) \/ MarkFailNote(e) \/ RoundNote(e)
      PROVE  odd' \subseteq odd \cup {"idleAck"}
  <2>1. ASSUME NEW x, NEW l, NEW how, Note(e, x, l, how), how \subseteq {"idleAck"}
        PROVE  odd' \subseteq odd \cup {"idleAck"}
    BY <2>1, FineNote
  <2>2. CASE AckNote(e)
    <3>1. \E x, l : \E how \in SUBSET {"idleAck"} : Note(e, x, l, how)
      BY <2>2 DEF AckNote
    <3> QED
      BY <2>1, <3>1
  <2>3. CASE AckFailNote(e) \/ ItemNote(e) \/ ItemFailNote(e) \/ GivenNote(e) \/ MarkFailNote(e)
    <3>1. \E x, l : Note(e, x, l, {})
      BY <2>3, Zenon DEF AckFailNote, ItemNote, ItemFailNote, GivenNote, MarkFailNote
    <3> QED
      BY <2>1, <3>1
  <2>4. CASE RoundNote(e)
    <3>1. (\E x, l : Note(e, x, l, {})) \/ odd' = odd
      BY <2>4 DEF RoundNote
    <3> QED
      BY <2>1, <3>1
  <2> QED
    BY <1>1, <2>2, <2>3, <2>4
<1>2. ASSUME NEW e, AckDo(e) \/ ItemDo(e) \/ Peek(e) \/ Measure(e) \/ MarkDo(e) \/ CloseNote(e)
                    \/ Kill(e)
      PROVE  odd' \subseteq odd \cup {"sendfailed", "grew"}
  <2>1. CASE AckDo(e) \/ MarkDo(e)
    <3>1. UNCHANGED odd \/ Fault
      BY <2>1, Zenon DEF AckDo, MarkDo
    <3> QED
      BY <3>1 DEF Fault, Fine
  <2>2. CASE ItemDo(e) \/ Peek(e)
    BY <2>2 DEF ItemDo, Peek
  <2>3. CASE Measure(e)
    <3>1. odd' = odd \cup IF Page = ends[e].ids THEN {} ELSE {"grew"}
      BY <2>3 DEF Measure
    <3> QED
      BY <3>1
  <2>4. CASE CloseNote(e) \/ Kill(e)
    BY <2>4 DEF CloseNote, Kill, Fault, Fine
  <2> QED
    BY <1>2, <2>1, <2>2, <2>3, <2>4
<1>3. ASSUME NEW items, Request(items)
      PROVE  odd' = odd
  <2>1. cl.pc = "idle"
    BY <1>3 DEF Request
  <2>2. \A e \in DOMAIN ends : ~Busy(e)
    BY <2>1 DEF Answering, ExInv, Pages, Busy
  <2> QED
    BY <1>3, <2>2 DEF Request
<1>4. CASE Receive \/ GiveUp \/ StoreNext \/ Save \/ StoreCut \/ Arrive \/ UNCHANGED vars
  BY <1>4 DEF Receive, GiveUp, StoreNext, Save, StoreCut, Arrive, Fault, Fine, Clean, vars
<1>5. CASE \E e \in DOMAIN ends : Endpoint(e)
  <2>1. odd' \subseteq odd \cup {"idleAck", "sendfailed", "grew"}
    BY <1>1, <1>2, <1>5 DEF Endpoint
  <2> QED
    BY <2>1 DEF Clean
<1>6. CASE \E items \in SUBSET {Item} : Request(items)
  BY <1>3, <1>6 DEF Clean
<1> QED
  BY <1>4, <1>5, <1>6 DEF Next, Client

LEMMA NoteSmooth ==
  ASSUME Sound, Smooth, Clean', NEW e \in DOMAIN ends, Busy(e), ends[e].pc # "giving",
         NEW p \in {"acking", "item", "peek", "sending"}, NEW x, Aside(x), NEW how,
         Note(e, x, At(e, p), how), UNCHANGED <<rs, cl>>
  PROVE  Smooth'
<1>1. To(e, At(e, p)) /\ More(x)
  BY NoteWritten DEF Sound
<1>2. At(e, p).pc = p
  BY AtIs DEF Sound
<1> QED
  BY <1>1, <1>2, SmoothGo

LEMMA GoSmooth ==
  ASSUME Sound, Smooth, Clean', NEW e \in DOMAIN ends, Busy(e), ends[e].pc # "giving",
         NEW p \in {"item", "peek", "sendfailed", "closing", "answer"}, To(e, At(e, p)),
         UNCHANGED log \/ \E x : More(x) /\ Aside(x), UNCHANGED <<rs, cl>>
  PROVE  Smooth'
<1>1. At(e, p).pc = p
  BY AtIs DEF Sound
<1> QED
  BY <1>1, SmoothGo

LEMMA EndpointSmooth ==
  ASSUME Sound, Smooth, Clean', Fine, NEW e \in DOMAIN ends, Endpoint(e)
  PROVE  Smooth'
<1>1. ends[e].pc \notin {"dead", "ackfailed", "markfailed"}
  BY DEF Smooth, Answering
<1>2. \A d \in {"accepted", "rejected"} : \A why : Aside(ItemEntry(d, Item, why))
  BY DEF Aside, Regular, ItemEntry, Is
<1>3. CASE AckNote(e)
  <2> DEFINE x == AckEntry(bus.cursor, Target(rs[e].ack), rs[e].ack)
  <2>1. Aside(x)
    BY DEF Aside, Regular, AckEntry, Is
  <2>2. ends[e].pc = "ack" /\ (\E how : Note(e, x, At(e, "acking"), how)) /\ UNCHANGED <<rs, cl>>
    BY <1>3 DEF AckNote, clientVars
  <2> HIDE DEF x
  <2> QED
    BY <2>1, <2>2, NoteSmooth DEF Busy
<1>4. CASE AckDo(e)
  <2>1. /\ ends[e].pc = "acking" /\ To(e, At(e, ToItems(rs[e]))) /\ UNCHANGED <<log, rs, cl>>
    BY <1>4 DEF AckDo, clientVars, Fine, Fault
  <2>2. ToItems(rs[e]) \in {"peek", "item"}
    BY DEF ToItems
  <2> QED
    BY <2>1, <2>2, GoSmooth DEF Busy
<1>5. CASE AckFailNote(e) \/ MarkFailNote(e) \/ Kill(e)
  BY <1>1, <1>5 DEF AckFailNote, MarkFailNote, Kill, Fine, Fault
<1>6. CASE ItemNote(e)
  <2> DEFINE x == ItemEntry("rejected", Item, "refused")
             y == ItemEntry("accepted", Item, "")
  <2>1. Aside(x) /\ Aside(y)
    BY <1>2
  <2>2. /\ ends[e].pc = "item" /\ UNCHANGED <<rs, cl>>
        /\ Note(e, x, At(e, "peek"), {}) \/ Note(e, y, At(e, "sending"), {})
    BY <1>6 DEF ItemNote, clientVars
  <2> HIDE DEF x, y
  <2> QED
    BY <2>1, <2>2, NoteSmooth DEF Busy
<1>7. CASE ItemDo(e)
  <2>1. PICK p \in {"peek", "sendfailed"} : To(e, At(e, p))
    BY <1>7 DEF ItemDo
  <2>2. ends[e].pc = "sending" /\ UNCHANGED <<log, rs, cl>>
    BY <1>7 DEF ItemDo, clientVars
  <2> QED
    BY <2>1, <2>2, GoSmooth DEF Busy
<1>8. CASE ItemFailNote(e)
  <2> DEFINE x == ItemEntry("rejected", Item, "failed")
  <2>1. Aside(x)
    BY <1>2
  <2>2. ends[e].pc = "sendfailed" /\ Note(e, x, At(e, "peek"), {}) /\ UNCHANGED <<rs, cl>>
    BY <1>8 DEF ItemFailNote, clientVars
  <2> HIDE DEF x
  <2> QED
    BY <2>1, <2>2, NoteSmooth DEF Busy
<1>9. CASE Peek(e)
  <2> DEFINE l == [At(e, "measure") EXCEPT !.ids = Page, !.left = Page]
  <2>1. /\ ends[e].pc = "peek" /\ UNCHANGED <<log, rs, cl>> /\ To(e, l)
    BY <1>9 DEF Peek, clientVars
  <2>2. l.pc = "measure"
    BY EndTyped DEF At, End, Sound
  <2> HIDE DEF l
  <2> QED
    BY <2>1, <2>2, SmoothGo DEF Busy
<1>10. CASE Measure(e)
  <2>1. PICK l : To(e, l) /\ l.pc = "round"
    <3>1. \E p, k, c : To(e, [At(e, "round") EXCEPT !.pending = p, !.next = k])
                       \/ To(e, [At(e, "round") EXCEPT !.pending = p, !.known = c])
      BY <1>10, Zenon DEF Measure
    <3>2. ASSUME NEW p, NEW k, NEW c
          PROVE  /\ [At(e, "round") EXCEPT !.pending = p, !.next = k].pc = "round"
                 /\ [At(e, "round") EXCEPT !.pending = p, !.known = c].pc = "round"
      BY EndTyped DEF At, End, Sound
    <3> QED
      BY <3>1, <3>2
  <2>2. ends[e].pc = "measure" /\ UNCHANGED <<log, rs, cl>>
    BY <1>10 DEF Measure, clientVars
  <2> QED
    BY <2>1, <2>2, SmoothGo DEF Busy
<1>11. CASE RoundNote(e) \/ GivenNote(e)
  BY <1>11, RoundNoteSmooth, GivenNoteSmooth
<1>12. CASE MarkDo(e)
  <2>1. ends[e].pc = "marking" /\ To(e, At(e, "closing")) /\ UNCHANGED <<log, rs, cl>>
    BY <1>12 DEF MarkDo, clientVars, Fine, Fault
  <2> QED
    BY <2>1, GoSmooth DEF Busy
<1>13. CASE CloseNote(e)
  <2> DEFINE x == CloseEntry(ends[e].round, CloseAnchor(e))
  <2>1. Aside(x)
    BY DEF Aside, Regular, CloseEntry, Is
  <2>2. /\ ends[e].pc = "closing" /\ To(e, At(e, "answer")) /\ UNCHANGED <<rs, cl>>
        /\ log' = Append(log, x) \/ UNCHANGED log
    BY <1>13 DEF CloseNote, clientVars
  <2> HIDE DEF x
  <2>3. UNCHANGED log \/ More(x)
    BY <2>2, MoreTyped, BusTyped DEF Sound
  <2> QED
    BY <2>1, <2>2, <2>3, GoSmooth DEF Busy
<1> QED
  BY <1>3, <1>4, <1>5, <1>6, <1>7, <1>8, <1>9, <1>10, <1>11, <1>12, <1>13 DEF Endpoint

LEMMA ClientSmooth ==
  ASSUME Sound, Smooth, Clean', Fine, Client \/ Arrive \/ UNCHANGED vars
  PROVE  Smooth'
<1>1. ExInv /\ Answering /\ GivenOut
  BY DEF Sound, Smooth
<1>2. ASSUME Answering', UNCHANGED log,
             \/ UNCHANGED ends
             \/ /\ \A d \in DOMAIN ends : ends[d].pc # "giving"
                /\ \A d \in DOMAIN ends' : ends'[d].pc # "giving"
      PROVE  Smooth'
  <2>1. /\ \A q : GivenBy(log', q) = GivenBy(log, q)
        /\ \A l : EntersAt(log', l) <=> EntersAt(log, l)
        /\ Rounds(log') = Rounds(log)
    BY <1>2
  <2>2. GivenOut'
    <3>1. CASE UNCHANGED ends
      BY <1>1, <1>2, <3>1 DEF GivenOut
    <3>2. CASE /\ \A d \in DOMAIN ends : ends[d].pc # "giving"
               /\ \A d \in DOMAIN ends' : ends'[d].pc # "giving"
      BY <1>1, <1>2, <3>2 DEF GivenOut, EntersAt
    <3> QED
      BY <1>2, <3>1, <3>2
  <2> QED
    BY <1>2, <2>2 DEF Smooth
<1>3. CASE \E items \in SUBSET {Item} : Request(items)
  <2>1. PICK items \in SUBSET {Item} : Request(items)
    BY <1>3
  <2> DEFINE r == [sent |-> items, ack |-> AckValue, received |-> {}, outcome |-> "unknown"]
             n == Round + 1
             first == [Off EXCEPT !.pc = ToAck([sent |-> items, ack |-> AckValue, received |-> {},
                                                outcome |-> ""])]
  <2>2. /\ cl.pc = "idle" /\ Round < MaxRounds /\ UNCHANGED log
        /\ rs' = Append(rs, r) /\ cl'.pc = "sent" /\ To(n, first)
    <3>1. cl.pc = "idle" /\ Round < MaxRounds /\ UNCHANGED log
      BY <2>1 DEF Request
    <3>2. ~Fault
      BY DEF Fine, Fault
    <3>3. /\ rs' = Append(rs, r) /\ To(n, first)
          /\ cl' = [pc |-> "sent", top |-> savedMax, left |-> {}]
      BY <2>1, <3>2 DEF Request
    <3> QED
      BY <3>1, <3>3
  <2>3. first.pc \in {"ack", "item", "peek"}
    BY DEF Off, ToAck, ToItems
  <2> HIDE DEF r, first
  <2>4. /\ DOMAIN rs = 1 .. Round /\ n \in DOMAIN ends /\ Round \in Nat
        /\ Round' = n /\ DOMAIN rs' = 1 .. Round + 1
    BY <1>1, <2>2, AppendAt, RsTyped DEF Round
  <2>5. DOMAIN ends' = DOMAIN ends /\ ends'[n] = first /\ \A d \in DOMAIN ends \ {n} : ends'[d] = ends[d]
    BY <2>2, <2>4, ToMoves
  <2>6. ASSUME NEW d \in DOMAIN ends
        PROVE  ends[d].pc \in {"off", "done"} /\ (d \in DOMAIN rs => ends[d].pc = "done")
    BY <1>1, <2>2 DEF Answering, ExInv, Pages
  <2>7. Answering'
    <3>1. ASSUME NEW d \in DOMAIN rs'
          PROVE  ends'[d].pc = "done" \/ (d = Round' /\ cl'.pc = "sent")
      <4>1. d = n \/ (d \in DOMAIN rs /\ d # n)
        BY <2>4
      <4>2. DOMAIN rs \subseteq DOMAIN ends
        BY <1>1, RsTyped
      <4> QED
        BY <2>2, <2>4, <2>5, <2>6, <4>1, <4>2
    <3>2. \A d \in DOMAIN ends' : ends'[d].pc \notin {"dead", "ackfailed", "markfailed"}
      BY <2>3, <2>5, <2>6
    <3> QED
      BY <3>1, <3>2 DEF Answering
  <2> QED
    BY <1>2, <2>2, <2>3, <2>5, <2>6, <2>7
<1>4. CASE Receive
  <2>1. /\ cl.pc = "sent" /\ ends[Round].pc = "answer" /\ UNCHANGED log
        /\ DOMAIN rs' = DOMAIN rs /\ Len(rs') = Len(rs) /\ To(Round, At(Round, "done"))
    <3>1. \A y : Len([rs EXCEPT ![Round] = y]) = Len(rs) /\ DOMAIN [rs EXCEPT ![Round] = y] = DOMAIN rs
      <4>1. PICK S : rs \in Seq(S)
        BY <1>1, RsTyped
      <4> QED
        BY <4>1
    <3>2. \E y : rs' = [rs EXCEPT ![Round] = y]
      BY <1>4 DEF Receive
    <3> QED
      BY <1>4, <3>1, <3>2 DEF Receive, endVars
  <2>2. Round \in DOMAIN rs /\ DOMAIN rs \subseteq DOMAIN ends
    BY <1>1, <2>1, RsTyped DEF ExInv, Storing, Round
  <2>3. /\ DOMAIN ends' = DOMAIN ends /\ ends'[Round].pc = "done"
        /\ \A d \in DOMAIN ends \ {Round} : ends'[d] = ends[d]
    BY <1>1, <2>1, <2>2, ToMoves, AtIs
  <2>4. ASSUME NEW d \in DOMAIN ends, d # Round
        PROVE  ends[d].pc \in {"off", "done"} /\ (d \in DOMAIN rs => ends[d].pc = "done")
    BY <1>1, <2>4 DEF Answering, ExInv, Pages
  <2>5. Answering'
    BY <2>1, <2>2, <2>3, <2>4 DEF Answering
  <2> QED
    BY <1>2, <2>1, <2>2, <2>3, <2>4, <2>5
<1>5. CASE GiveUp \/ StoreCut
  <2>1. ~GiveUp
    <3>1. cl.pc = "sent" => Round \in DOMAIN ends
      BY <1>1, RsTyped DEF ExInv, Storing, Round
    <3> QED
      BY <1>1, <3>1 DEF GiveUp, Answering, Fine, Fault
  <2> QED
    BY <1>5, <2>1 DEF StoreCut, Fine, Fault
<1>6. CASE StoreNext \/ Save \/ Arrive \/ UNCHANGED vars
  <2>1. /\ UNCHANGED <<log, ends, rs>>
        /\ cl.pc # "sent" \/ cl' = cl
    BY <1>6 DEF StoreNext, Save, Arrive, vars, endVars, clientVars
  <2>2. Answering'
    BY <1>1, <2>1 DEF Answering, Round
  <2> QED
    BY <1>2, <2>1, <2>2
<1> QED
  BY <1>3, <1>4, <1>5, <1>6 DEF Client

LEMMA SmoothInit == Init => SmoothInv
<1> SUFFICES ASSUME Init
             PROVE  Smooth
  BY DEF SmoothInv
<1>1. /\ log = <<>> /\ rs = <<>> /\ odd = {} /\ \A e \in DOMAIN ends : ends[e] = Off
  BY DEF Init
<1>2. DOMAIN log = {} /\ DOMAIN rs = {} /\ Rounds(log) = {}
  BY <1>1 DEF Rounds, Matching
<1> QED
  BY <1>1, <1>2 DEF Smooth, Clean, Answering, GivenOut, EntersAt, Off

LEMMA SmoothStep ==
  ExInv /\ EvInv /\ SmoothInv /\ faults \in Nat /\ [Next]_vars => SmoothInv'
<1> SUFFICES ASSUME ExInv, EvInv, SmoothInv, faults \in Nat, [Next]_vars, faults' = 0
             PROVE  Smooth'
  BY DEF SmoothInv
<1>1. Fine /\ Smooth
  BY CalmBefore DEF SmoothInv, Fine
<1>2. Clean'
  BY <1>1, CleanKept DEF Smooth
<1>3. Sound
  BY <1>1 DEF EvInv, Sound, Known, Smooth
<1> QED
  BY <1>1, <1>2, <1>3, EndpointSmooth, ClientSmooth DEF Next

\* What holds besides as long as there is no fault.
THEOREM SmoothCorrect == Spec => [](ExInv /\ CrossInv /\ EvInv /\ SmoothInv)
<1>1. Init => ExInv /\ CrossInv /\ EvInv /\ SmoothInv
  BY ExInit, CrossInit, EvInit, SmoothInit
<1>2. ExInv /\ CrossInv /\ EvInv /\ SmoothInv /\ [Next]_vars
      => (ExInv /\ CrossInv /\ EvInv /\ SmoothInv)'
  BY ExStep, CrossStep, EvStep, SmoothStep DEF CrossInv
<1> QED
  BY <1>1, <1>2, PTL DEF Spec

-----------------------------------------------------------------------------
(* A log without one of its entries *)

\* Where the entry k of the shorter log stood.
Back(i, k) == IF k < i THEN k ELSE k + 1

\* t is s without the entry i.
CutAt(t, s, i) ==
    /\ IsASeq(s) /\ IsASeq(t) /\ i \in DOMAIN s /\ DOMAIN s \subseteq Nat /\ DOMAIN t \subseteq Nat
    /\ \A k \in DOMAIN t : Back(i, k) \in DOMAIN s /\ t[k] = s[Back(i, k)]
    /\ \A j \in DOMAIN s : j < i => j \in DOMAIN t
    /\ \A j \in DOMAIN s : j > i => j - 1 \in DOMAIN t

LEMMA CutIs ==
  ASSUME NEW s, IsASeq(s), NEW i \in DOMAIN s
  PROVE  CutAt(RemoveAt(s, i), s, i)
<1> DEFINE t == RemoveAt(s, i)
           a == SubSeq(s, 1, i - 1)
           b == SubSeq(s, i + 1, Len(s))
           n == Len(s)
<1>1. PICK S : s \in Seq(S)
  BY DEF IsASeq
<1>2. n \in Nat /\ DOMAIN s = 1 .. n /\ i \in 1 .. n
  BY <1>1
<1>3. a \in Seq(S) /\ Len(a) = i - 1 /\ \A x \in 1 .. i - 1 : a[x] = s[x]
  BY <1>1, <1>2
<1>4. b \in Seq(S) /\ Len(b) = n - i /\ \A x \in 1 .. n - i : b[x] = s[x + i]
  BY <1>1, <1>2
<1>5. t = a \o b
  BY DEF RemoveAt
<1> HIDE DEF a, b, t
<1>6. /\ IsASeq(t) /\ DOMAIN t = 1 .. n - 1
      /\ \A k \in 1 .. i - 1 : t[k] = a[k]
      /\ \A k \in 1 .. n - i : t[i - 1 + k] = b[k]
  <2>1. b \in [1 .. n - i -> S] /\ n - i \in Nat
    BY <1>2, <1>4
  <2>2. IsASeq(a) /\ Listed(b, n - i)
    BY <1>3, <2>1 DEF IsASeq, Listed
  <2>3. Joined(a, b, n - i, t)
    BY <1>5, <2>1, <2>2, ConcatAt
  <2>4. /\ IsASeq(t) /\ DOMAIN t = 1 .. i - 1 + (n - i)
        /\ \A k \in 1 .. i - 1 : t[k] = a[k]
        /\ \A k \in 1 .. n - i : t[i - 1 + k] = b[k]
    BY <1>3, <2>3 DEF Joined
  <2>5. i - 1 + (n - i) = n - 1
    BY <1>2
  <2> QED
    BY <2>4, <2>5
<1>7. ASSUME NEW k \in 1 .. n - 1
      PROVE  Back(i, k) \in 1 .. n /\ t[k] = s[Back(i, k)]
  <2>1. CASE k < i
    BY <1>2, <1>3, <1>6, <2>1 DEF Back
  <2>2. CASE ~(k < i)
    <3> DEFINE m == k - (i - 1)
    <3>1. m \in 1 .. n - i /\ i - 1 + m = k /\ m + i = k + 1 /\ Back(i, k) = k + 1 /\ k + 1 \in 1 .. n
      BY <1>2, <2>2 DEF Back
    <3> HIDE DEF m
    <3>2. t[k] = b[m] /\ b[m] = s[k + 1]
      BY <1>4, <1>6, <3>1
    <3> QED
      BY <3>1, <3>2
  <2> QED
    BY <2>1, <2>2
<1>10. CutAt(t, s, i)
  BY <1>2, <1>6, <1>7 DEF CutAt, IsASeq
<1> QED
  BY <1>10 DEF t

\* A set of entries that held the one left out has become smaller.
LEMMA Fewer ==
  ASSUME NEW i \in Nat, NEW S \in SUBSET Nat, IsFiniteSet(S), i \in S,
         NEW T \in SUBSET Nat, \A k \in T : Back(i, k) \in S
  PROVE  Cardinality(T) < Cardinality(S) /\ Cardinality(T) \in Nat /\ Cardinality(S) \in Nat
<1> DEFINE R == S \ {i}
           f == [k \in T |-> Back(i, k)]
<1>1. \A k \in T : Back(i, k) # i
  BY DEF Back
<1>2. f \in [T -> R]
  BY <1>1
<1>3. \A k, l \in T : f[k] = f[l] => k = l
  BY DEF Back
<1>4. f \in Injection(T, R)
  BY <1>2, <1>3 DEF Injection, IsInjective
<1>5. IsFiniteSet(R) /\ Cardinality(R) = Cardinality(S) - 1
  BY FS_RemoveElement
<1> HIDE DEF R, f
<1>6. IsFiniteSet(T) /\ Cardinality(T) <= Cardinality(R)
  BY <1>4, <1>5, FS_Injection
<1>7. Cardinality(T) \in Nat /\ Cardinality(S) \in Nat
  BY <1>6, FS_CardinalityType
<1> QED
  BY <1>5, <1>6, <1>7

\* The counts of the entries that are about the same thing.
LEMMA CutCounts ==
  ASSUME NEW s, NEW i, NEW t, CutAt(t, s, i)
  PROVE  /\ Is(s[i], "ack", "accepted") => AcksLogged(t, s[i].ack) < AcksLogged(s, s[i].ack)
         /\ s[i].kind = "item" /\ s[i].why # "failed" => Logged(t, s[i].item) < Logged(s, s[i].item)
         /\ Is(s[i], "pickup", "delivered") => Given(t, s[i].id) < Given(s, s[i].id)
<1>1. \A S \in SUBSET DOMAIN s : IsFiniteSet(S) /\ S \in SUBSET Nat
  BY DomainFinite DEF CutAt
<1>2. i \in DOMAIN s /\ i \in Nat /\ DOMAIN t \subseteq Nat
      /\ \A k \in DOMAIN t : Back(i, k) \in DOMAIN s /\ t[k] = s[Back(i, k)]
  BY DEF CutAt
<1>3. ASSUME Is(s[i], "ack", "accepted")
      PROVE  AcksLogged(t, s[i].ack) < AcksLogged(s, s[i].ack)
  <2> DEFINE S == {j \in Acks(s) : s[j].ack = s[i].ack}
             T == {j \in Acks(t) : t[j].ack = s[i].ack}
  <2>1. S \in SUBSET DOMAIN s /\ i \in S /\ T \in SUBSET Nat /\ \A k \in T : Back(i, k) \in S
    BY <1>2, <1>3, KindsOf DEF Is
  <2>2. AcksLogged(t, s[i].ack) = Cardinality(T) /\ AcksLogged(s, s[i].ack) = Cardinality(S)
    BY DEF AcksLogged
  <2> HIDE DEF S, T
  <2> QED
    BY <1>1, <1>2, <2>1, <2>2, Fewer
<1>4. ASSUME s[i].kind = "item", s[i].why # "failed"
      PROVE  Logged(t, s[i].item) < Logged(s, s[i].item)
  <2> DEFINE P(e) == e.kind = "item" /\ e.item = s[i].item /\ e.why # "failed"
             S == {j \in DOMAIN s : P(s[j])}
             T == {j \in DOMAIN t : P(t[j])}
  <2>1. S \in SUBSET DOMAIN s /\ i \in S /\ T \in SUBSET Nat /\ \A k \in T : Back(i, k) \in S
    BY <1>2, <1>4
  <2>2. Logged(t, s[i].item) = Cardinality(T) /\ Logged(s, s[i].item) = Cardinality(S)
    BY DEF Logged, Matching
  <2> HIDE DEF S, T
  <2> QED
    BY <1>1, <1>2, <2>1, <2>2, Fewer
<1>5. ASSUME Is(s[i], "pickup", "delivered")
      PROVE  Given(t, s[i].id) < Given(s, s[i].id)
  <2> DEFINE P(e) == Is(e, "pickup", "delivered") /\ e.id = s[i].id
             S == {j \in DOMAIN s : P(s[j])}
             T == {j \in DOMAIN t : P(t[j])}
  <2>1. S \in SUBSET DOMAIN s /\ i \in S /\ T \in SUBSET Nat /\ \A k \in T : Back(i, k) \in S
    BY <1>2, <1>5
  <2>2. Given(t, s[i].id) = Cardinality(T) /\ Given(s, s[i].id) = Cardinality(S)
    BY DEF Given, Matching
  <2> HIDE DEF S, T
  <2> QED
    BY <1>1, <1>2, <2>1, <2>2, Fewer
<1> QED
  BY <1>3, <1>4, <1>5

\* When a round is left out that was followed by replies, they lie open, or are
\* too many for the round before it.
LEMMA CutRound ==
  ASSUME NEW s, NEW i, NEW t, CutAt(t, s, i), i \in Rounds(s), GivenIn(s, i) # {}, NEW presumed,
         \A q \in Rounds(s) : Cardinality(GivenIn(s, q)) = s[q].replies
  PROVE  CursorSoft(t, presumed) # {}
<1>1. /\ i \in DOMAIN s /\ DOMAIN s \subseteq Nat /\ DOMAIN t \subseteq Nat /\ IsASeq(s) /\ IsASeq(t)
      /\ \A k \in DOMAIN t : Back(i, k) \in DOMAIN s /\ t[k] = s[Back(i, k)]
      /\ \A j \in DOMAIN s : j < i => j \in DOMAIN t /\ t[j] = s[j]
      /\ \A j \in DOMAIN s : j > i => j - 1 \in DOMAIN t /\ t[j - 1] = s[j]
  BY DEF CutAt, Back
<1>2. PICK g \in Givens(s) : i \in OpenAt(s, g)
  BY DEF GivenIn
<1>3. /\ i \in Closing(s) /\ i < g /\ \A k \in Closing(s) : k < g => k <= i
      /\ Closing(s) \subseteq DOMAIN s /\ Givens(s) \subseteq DOMAIN s
      /\ Closing(t) \subseteq DOMAIN t /\ Givens(t) \subseteq DOMAIN t
  BY <1>1, <1>2, KindsNat DEF OpenAt, LastBefore
<1>4. ASSUME NEW j, NEW k \in DOMAIN t, j = Back(i, k)
      PROVE  /\ k \in Closing(t) <=> j \in Closing(s)
             /\ k \in Givens(t) <=> j \in Givens(s)
             /\ k \in Rounds(t) <=> j \in Rounds(s)
  <2>1. k \in Acks(t) <=> j \in Acks(s)
    BY <1>1, <1>4, KindsOf
  <2>2. k \in Rounds(t) <=> j \in Rounds(s)
    BY <1>1, <1>4, KindsOf
  <2>3. /\ k \in Givens(t) <=> j \in Givens(s)
        /\ k \in Refusals(t) <=> j \in Refusals(s)
    BY <1>1, <1>4, MoreKinds
  <2> QED
    BY <2>1, <2>2, <2>3 DEF Closing
<1> DEFINE h == g - 1
<1>5. h \in Givens(t) /\ h \in Nat /\ i <= h /\ g \in Nat
  <2>1. h \in DOMAIN t /\ g \in Nat /\ i \in Nat /\ Back(i, h) = g /\ h \in Nat /\ i <= h
    BY <1>1, <1>3 DEF Back
  <2> QED
    BY <1>4, <2>1
<1>6. CASE OpenAt(t, h) = {}
  BY <1>5, <1>6 DEF CursorSoft
<1>7. ASSUME NEW p \in OpenAt(t, h)
      PROVE  CursorSoft(t, presumed) # {}
  <2>1. p \in Rounds(t) /\ p \in Closing(t) /\ p < h /\ (\A k \in Closing(t) : k < h => k <= p)
    BY <1>7 DEF OpenAt, LastBefore
  <2>2. p \in DOMAIN t /\ p \in Nat /\ i \in Nat
    BY <1>1, <1>3, <2>1
  <2>3. p < i
    <3>1. SUFFICES ASSUME ~(p < i)
                   PROVE  FALSE
      OBVIOUS
    <3>2. Back(i, p) = p + 1 /\ p + 1 < g /\ p + 1 > i
      BY <1>5, <2>1, <2>2, <3>1 DEF Back
    <3>3. p + 1 \in Closing(s)
      BY <1>4, <2>1, <2>2, <3>2
    <3> QED
      BY <1>3, <2>2, <3>2, <3>3
  <2>4. Back(i, p) = p /\ p \in Rounds(s) /\ t[p] = s[p]
    BY <1>1, <1>4, <2>1, <2>2, <2>3 DEF Back
  <2>5. ASSUME NEW d \in GivenIn(s, p)
        PROVE  d \in GivenIn(t, p) /\ d # h
    <3>1. /\ d \in Givens(s) /\ p < d /\ (\A k \in Closing(s) : k < d => k <= p)
      BY DEF GivenIn, OpenAt, LastBefore
    <3>2. d \in Nat /\ d \in DOMAIN s
      BY <1>1, <1>3, <3>1
    <3>3. d # i
      BY <3>1, KindsOf, MoreKinds
    <3>4. d < i
      BY <1>3, <2>2, <2>3, <3>1, <3>2, <3>3
    <3>5. d \in DOMAIN t /\ Back(i, d) = d
      BY <1>1, <3>2, <3>4 DEF Back
    <3>6. d \in Givens(t)
      BY <1>4, <3>1, <3>5
    <3>7. ASSUME NEW k \in Closing(t), k < d
          PROVE  k <= p
      <4>1. k \in DOMAIN t /\ k \in Nat
        BY <1>1, <1>3
      <4>2. Back(i, k) = k
        BY <2>2, <3>2, <3>4, <3>7, <4>1 DEF Back
      <4> QED
        BY <1>4, <3>1, <3>7, <4>1, <4>2
    <3>8. p \in OpenAt(t, d)
      BY <2>1, <3>1, <3>7 DEF OpenAt, LastBefore
    <3> QED
      BY <1>5, <2>2, <3>2, <3>4, <3>6, <3>8 DEF GivenIn
  <2> DEFINE G == GivenIn(s, p)
             H == GivenIn(t, p)
  <2>6. h \in H
    BY <1>5, <1>7 DEF GivenIn
  <2>7. IsFiniteSet(H) /\ IsFiniteSet(G)
    <3>1. H \in SUBSET DOMAIN t /\ G \in SUBSET DOMAIN s
      BY <1>3 DEF GivenIn
    <3> QED
      BY <1>1, <3>1, DomainFinite
  <2>8. G \cup {h} \subseteq H /\ h \notin G
    BY <2>5, <2>6
  <2> HIDE DEF G, H, h
  <2>9. Cardinality(G \cup {h}) = Cardinality(G) + 1
    BY <2>7, <2>8, FS_AddElement
  <2>10. Cardinality(G \cup {h}) <= Cardinality(H)
    BY <2>7, <2>8, FS_Subset
  <2>11. Cardinality(G) \in Nat /\ Cardinality(H) \in Nat
    BY <2>7, FS_CardinalityType
  <2>12. Cardinality(H) # Cardinality(G)
    BY <2>9, <2>10, <2>11
  <2>13. Cardinality(GivenIn(t, p)) # t[p].replies
    BY <2>4, <2>12 DEF G, H
  <2> QED
    BY <2>1, <2>13 DEF CursorSoft
<1> QED
  BY <1>6, <1>7

-----------------------------------------------------------------------------
(* The receipts prove what the log says, entry by entry *)

\* Every round there was has been answered.
Served == Rest /\ Smooth /\ \A r \in DOMAIN rs : rs[r].outcome \in Proven

LEMMA AckMissed ==
  ASSUME Served, NEW i \in DOMAIN log, NEW cut, CutAt(cut, log, i), Is(log[i], "ack", "accepted")
  PROVE  HardBags(cut, rs) # {}
<1> DEFINE a == log[i].ack
           T == {r \in Receipts(rs, Proven) : rs[r].ack = a}
<1>1. a \in Ids /\ a # 0
  <2>1. i \in Acks(log)
    BY KindsOf DEF Is
  <2> QED
    BY <2>1 DEF Served, Rest, Told, Entries, AckSays, Ids
<1>2. AckCount(a) /\ AcksLogged(log, a) \in Nat /\ AcksLogged(cut, a) < AcksLogged(log, a)
      /\ AcksLogged(cut, a) \in Nat
  <2>1. IsASeq(log) /\ IsASeq(cut)
    BY DEF CutAt
  <2>2. AcksLogged(cut, a) \in Nat
    <3>1. {j \in Acks(cut) : cut[j].ack = a} \in SUBSET DOMAIN cut
      BY KindsIn
    <3> QED
      BY <2>1, <3>1, DomainFinite, FS_CardinalityType DEF AcksLogged
  <2> QED
    BY <1>1, <2>1, <2>2, CountsNat, CutCounts DEF Served, Rest, Told, Counted
<1>3. AckedBy(a) \subseteq T /\ T \subseteq DOMAIN rs
  BY DEF AckedBy, Receipts, Served
<1>4. /\ Cardinality(AckedBy(a)) <= Cardinality(T) /\ Cardinality(T) \in Nat
      /\ Cardinality(AckedBy(a)) \in Nat
  <2> HIDE DEF T
  <2>1. T \in SUBSET DOMAIN rs /\ AckedBy(a) \in SUBSET T /\ AckedBy(a) \in SUBSET DOMAIN rs
    BY <1>3
  <2> QED
    BY <2>1, Counters DEF Served, Rest
<1>5. AcksSent(rs, Proven, a) = Cardinality(T)
  BY DEF AcksSent
<1>6. T # {}
  <2>1. Cardinality(T) # 0
    BY <1>2, <1>4 DEF AckCount
  <2> HIDE DEF T
  <2> QED
    BY <2>1, FS_EmptySet
<1>7. a \in AckValues(cut, rs)
  BY <1>1, <1>3, <1>6 DEF AckValues
<1>8. AcksLogged(cut, a) < AcksSent(rs, Proven, a)
  BY <1>2, <1>4, <1>5 DEF AckCount
<1> HIDE DEF a, T
<1>9. <<"ack_sent_not_logged", a>> \in HardBags(cut, rs)
  BY <1>7, <1>8 DEF HardBags
<1> QED
  BY <1>9

LEMMA ItemMissed ==
  ASSUME Served, NEW i \in DOMAIN log, NEW cut, CutAt(cut, log, i), log[i].kind = "item",
         "sendfailed" \notin odd
  PROVE  HardBags(cut, rs) # {}
<1> DEFINE T == {r \in Receipts(rs, Proven) : Item \in rs[r].sent}
<1>1. log[i].item = Item /\ log[i].why # "failed"
  BY DEF Served, Rest, Told, Entries
<1>2. /\ ItemCount /\ Logged(log, Item) \in Nat /\ Logged(cut, Item) \in Nat
      /\ Logged(cut, Item) < Logged(log, Item)
  <2>1. IsASeq(log) /\ IsASeq(cut)
    BY DEF CutAt
  <2>2. Logged(cut, Item) \in Nat
    <3> DEFINE L == {j \in DOMAIN cut : cut[j].kind = "item" /\ cut[j].item = Item /\ cut[j].why # "failed"}
    <3>1. IsFiniteSet(L)
      BY <2>1, DomainFinite
    <3>2. Logged(cut, Item) = Cardinality(L)
      BY DEF Logged, Matching
    <3> HIDE DEF L
    <3> QED
      BY <3>1, <3>2, FS_CardinalityType
  <2> QED
    BY <1>1, <2>1, <2>2, CountsNat, CutCounts DEF Served, Rest, Told, Counted
<1>3. AskedBy \subseteq T /\ T \subseteq DOMAIN rs
  BY DEF AskedBy, Receipts, Served
<1>4. /\ Cardinality(AskedBy) <= Cardinality(T) /\ Cardinality(T) \in Nat
      /\ Cardinality(AskedBy) \in Nat
  <2> HIDE DEF T
  <2>1. T \in SUBSET DOMAIN rs /\ AskedBy \in SUBSET T /\ AskedBy \in SUBSET DOMAIN rs
    BY <1>3
  <2> QED
    BY <2>1, Counters DEF Served, Rest
<1>5. Sent(rs, Proven, Item) = Cardinality(T)
  BY DEF Sent
<1>6. T # {}
  <2>1. Cardinality(T) # 0
    BY <1>2, <1>4 DEF ItemCount
  <2> HIDE DEF T
  <2> QED
    BY <2>1, FS_EmptySet
<1>7. Item \in ItemsIn(rs)
  BY <1>3, <1>6 DEF ItemsIn
<1>8. Logged(cut, Item) < Sent(rs, Proven, Item)
  BY <1>2, <1>4, <1>5 DEF ItemCount
<1> HIDE DEF T
<1>9. <<"sent_not_logged", Item>> \in HardBags(cut, rs)
  BY <1>7, <1>8 DEF HardBags
<1> QED
  BY <1>9

LEMMA ReplyMissed ==
  ASSUME Served, NEW i \in DOMAIN log, NEW cut, CutAt(cut, log, i), Is(log[i], "pickup", "delivered")
  PROVE  HardBags(cut, rs) # {}
<1> DEFINE d == log[i].id
<1>1. d \in Ids
  <2>1. i \in Givens(log)
    BY MoreKinds DEF Is
  <2> QED
    BY <2>1 DEF Served, Rest, Told, Entries
<1>2. /\ GotBy(d) \subseteq GaveBy(d) /\ GaveBy(d) \subseteq DOMAIN rs
      /\ Got(rs, d) = Cardinality(GotBy(d)) /\ Given(log, d) = Cardinality(GaveBy(d))
      /\ Got(rs, d) \in Nat /\ Given(log, d) \in Nat
  BY <1>1, GotIs DEF Served
<1>3. GaveBy(d) = GotBy(d)
  BY <1>2, ReceiptIs DEF GaveBy, GotBy, Served
<1>4. Given(cut, d) < Given(log, d) /\ Given(cut, d) \in Nat
  <2>1. IsASeq(cut)
    BY DEF CutAt
  <2>2. Given(cut, d) \in Nat
    <3> DEFINE L == {j \in DOMAIN cut : Is(cut[j], "pickup", "delivered") /\ cut[j].id = d}
    <3>1. IsFiniteSet(L)
      BY <2>1, DomainFinite
    <3>2. Given(cut, d) = Cardinality(L)
      BY DEF Given, Matching
    <3> HIDE DEF L
    <3> QED
      BY <3>1, <3>2, FS_CardinalityType
  <2> QED
    BY <2>2, CutCounts
<1>5. GotBy(d) # {}
  <2>1. Cardinality(GotBy(d)) # 0
    BY <1>2, <1>3, <1>4
  <2> QED
    BY <2>1, FS_EmptySet
<1>6. d \in RepliesIn(cut, rs)
  BY <1>5 DEF GotBy, RepliesIn
<1>7. Given(cut, d) < Got(rs, d)
  BY <1>2, <1>3, <1>4
<1> HIDE DEF d
<1>8. <<"received_not_logged", d>> \in HardBags(cut, rs)
  BY <1>6, <1>7 DEF HardBags
<1> QED
  BY <1>8

LEMMA RoundMissed ==
  ASSUME Served, NEW i \in DOMAIN log, NEW cut, CutAt(cut, log, i), Is(log[i], "pickup", "accepted"),
         log[i].replies # 0
  PROVE  CursorSoft(cut, AnyPresumed(rs)) # {}
<1>1. i \in Rounds(log)
  BY KindsOf DEF Is
<1>2. \A q \in Rounds(log) : Cardinality(GivenIn(log, q)) = log[q].replies
  BY DEF Served, Rest, Smooth, GivenOut, GivenBy
<1>3. GivenIn(log, i) # {}
  <2>1. Cardinality(GivenIn(log, i)) # 0
    BY <1>1, <1>2
  <2> QED
    BY <2>1, FS_EmptySet
<1> QED
  BY <1>1, <1>2, <1>3, CutRound

\* OmissionEvident in every reachable state: leaving an entry out shows.
THEOREM OmissionSeen == Spec => []OmissionEvident
<1>1. ExInv /\ CrossInv /\ EvInv /\ SmoothInv => OmissionEvident
  <2> SUFFICES ASSUME ExInv, EvInv, Quiet, Smooth, NEW i \in DOMAIN log,
                      NEW cut, cut = RemoveAt(log, i),
                      ~(Is(log[i], "pickup", "accepted") /\ log[i].replies = 0),
                      log[i].kind # "close", ~(log[i].kind = "item" /\ "sendfailed" \in odd)
               PROVE  Hard(cut, rs) \cup Soft(cut, rs) # {}
    BY DEF OmissionEvident, SmoothInv
  <2>1. Rest
    BY DEF EvInv, Known, Quiet, Busy, Rest, Smooth
  <2>2. Served
    <3>1. \A r \in DOMAIN rs : ends[r].pc = "done"
      BY DEF Smooth, Answering, Quiet
    <3> QED
      BY <2>1, <3>1, ReceiptIs DEF Served
  <2>3. CutAt(cut, log, i)
    BY CutIs, BusTyped
  <2>4. Regular(log[i])
    BY DEF Smooth
  <2>5. HardBags(cut, rs) # {} \/ CursorSoft(cut, AnyPresumed(rs)) # {}
    BY <2>2, <2>3, <2>4, AckMissed, ItemMissed, ReplyMissed, RoundMissed DEF Regular
  <2> QED
    BY <2>5 DEF Hard, Soft
<1> QED
  BY <1>1, SmoothCorrect, PTL
=============================================================================
