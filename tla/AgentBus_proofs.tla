---------------------------- MODULE AgentBus_proofs ----------------------------
(***************************************************************************)
(* What TLAPS proves of AgentBus, for any number of processes and messages *)
(* and any limits: the types; that product mode hands content over at most *)
(* once; that a message is logged as replayed at most once and no copy is  *)
(* copied; that a lone process never moves the cursor back.  And of the    *)
(* rows the cursor passes: none is lost without a trace, none that is      *)
(* still good is stranded, and reconcile accuses no row that was handed    *)
(* over - each for the calls it names: the others are known to break it    *)
(* (README, 5).  With that, AgentBus in product mode implements Mailbox.   *)
(* The only assumption is BusAssumption, of AgentBus.                      *)
(***************************************************************************)
EXTENDS AgentBusRefinesMailbox, FiniteSetTheorems, WellFoundedInduction, TLAPS

-----------------------------------------------------------------------------
(* The invariant behind ReplayLoggedOnce, part by part *)

Originals == {i \in DOMAIN msgs : msgs[i].kind = "msg"}

\* An audit row of a replay names two rows of the table.
CopiesKnown == \A c \in copied : c[1] \in Originals /\ c[2] \in DOMAIN msgs

\* What an operator still has to replay are originals, none of them a copy.
CallsOriginals ==
    \A p \in Procs : local[p].pc \in {"replay", "sent"} =>
        /\ local[p].ids \subseteq Originals
        /\ \A c \in copied : c[2] \notin local[p].ids

\* Between the two steps of a dev-mode replay the message sent is known.
CallsSent ==
    \A p \in Procs : local[p].pc = "sent" =>
        /\ local[p].base \in local[p].ids
        /\ local[p].tgt \in DOMAIN msgs /\ msgs[local[p].tgt].kind = "replay"

ReplayInv == CopiesKnown /\ CallsOriginals /\ CallsSent /\ ReplayLoggedOnce

-----------------------------------------------------------------------------
(* Operators *)

\* The rows of the table are rows, and their ids are ids.
LEMMA RowsTyped ==
    ASSUME TypeOK
    PROVE  /\ DOMAIN msgs = 1 .. Len(msgs)
           /\ DOMAIN msgs \subseteq Ids
           /\ \A i \in DOMAIN msgs : msgs[i] \in Row
           /\ Mine \subseteq Ids /\ Replays \subseteq Ids
BY BusAssumption DEF TypeOK, Ids, Mine, Replays

\* A page lies ahead of the cursor; what is kept of it is a part of it.
LEMMA PageTyped ==
    ASSUME TypeOK
    PROVE  /\ Page \subseteq Mine /\ Kept \subseteq Page /\ PeekKept \subseteq Page
           /\ \A i \in Page : i > cursor
BY DEF Page, Kept, PeekKept, First

\* The root of a row is an id.
LEMMA RootTyped ==
    ASSUME TypeOK, NEW i \in DOMAIN msgs
    PROVE  msgs[i].root \in Ids
BY RowsTyped DEF Row

\* A top of a set of ids is an id or 0.
LEMMA TopTyped ==
    ASSUME NEW S \in SUBSET Ids, NEW h, IsTop(h, S)
    PROVE  h \in Ids0
BY BusAssumption DEF IsTop, Ids, Ids0

\* The ids of rows, and 0, are the values of the cursor.
LEMMA IdsTyped == Ids \subseteq Ids0 /\ 0 \in Ids0
BY BusAssumption DEF Ids, Ids0

\* The larger of two ids is one and is not below either.
LEMMA BiggerTyped ==
    ASSUME NEW a \in Ids0, NEW b \in Ids0
    PROVE  Bigger(a, b) \in Ids0 /\ Bigger(a, b) >= a /\ Bigger(a, b) >= b
BY BusAssumption DEF Bigger, Ids0

\* The smaller of two ids is one.
LEMMA SmallerTyped ==
    ASSUME NEW a \in Ids0, NEW b \in Ids0
    PROVE  Smaller(a, b) \in Ids0
BY DEF Smaller

\* A process that is in no call.
LEMMA IdleTyped == Idle \in Local
BY BusAssumption DEF Idle, Local, Ids, Ids0

\* The step between a dev-mode replay's message and its log row.
LEMMA SentTyped ==
    ASSUME NEW l \in Local, NEW i \in Ids, NEW n \in Ids
    PROVE  [l EXCEPT !.pc = "sent", !.base = i, !.tgt = n] \in Local
BY IdsTyped DEF Local

\* What replay would send again are known rows of this mailbox.
LEMMA CandidatesTyped ==
    ASSUME TypeOK
    PROVE  /\ Listed \subseteq Mine \ Replays
           /\ Candidates \subseteq Listed \ Already
           /\ Candidates \subseteq Ids
BY RowsTyped DEF Candidates, Listed

\* Appending a row keeps the table typed, its old rows and their order.
LEMMA InsertTyped ==
    ASSUME TypeOK, NEW row \in Row, Insert(row)
    PROVE  /\ msgs' \in Seq(Row) /\ Len(msgs') = Len(msgs) + 1 /\ Len(msgs') <= MaxMsgs
           /\ NewId \in Ids /\ NewId \notin DOMAIN msgs /\ NewId \in DOMAIN msgs'
           /\ msgs'[NewId] = row
           /\ \A i \in DOMAIN msgs : i \in DOMAIN msgs' /\ msgs'[i] = msgs[i]
BY BusAssumption DEF TypeOK, Insert, NewId, Ids

\* There is an id for a row that still fits the bound.
LEMMA NewIdTyped ==
    ASSUME TypeOK, NEW row, Insert(row)
    PROVE  NewId \in Ids
<1>1. Len(msgs) \in Nat /\ Len(msgs) < MaxMsgs
  BY DEF TypeOK, Insert
<1> QED BY <1>1, BusAssumption DEF NewId, Ids

\* A call that moves to a typed place keeps the calls typed.
LEMMA GotoTyped ==
    ASSUME TypeOK, NEW p \in Procs, NEW l \in Local, Goto(p, l)
    PROVE  local' \in [Procs -> Local]
BY DEF TypeOK, Goto

\* A call moves only itself.
LEMMA GotoMoves ==
    ASSUME TypeOK, NEW p \in Procs, NEW l, Goto(p, l)
    PROVE  local'[p] = l /\ \A q \in Procs : q # p => local'[q] = local[q]
BY DEF TypeOK, Goto

-----------------------------------------------------------------------------
(* Types *)

\* Every call that inserts a row or changes a verdict keeps the rest.
LEMMA EnvironmentTyped ==
    ASSUME TypeOK, Environment
    PROVE  TypeOK'
<1>1. ASSUME NEW v \in Verdicts, Send(v) PROVE TypeOK'
  <2>1. Len(msgs) < MaxMsgs
    BY <1>1 DEF Send, Insert
  <2>2. [to |-> Me, kind |-> "msg", root |-> NewId, orig |-> 0, verdict |-> v] \in Row
    BY <2>1, BusAssumption DEF Row, NewId, Ids, Ids0, TypeOK
  <2>3. msgs' \in Seq(Row) /\ Len(msgs') <= MaxMsgs
    BY <1>1, <2>2, InsertTyped DEF Send
  <2> QED BY <1>1, <2>3 DEF Send, TypeOK
<1>2. CASE SendOther
  <2>1. Len(msgs) < MaxMsgs
    BY <1>2 DEF SendOther, Insert
  <2>2. [to |-> Other, kind |-> "msg", root |-> NewId, orig |-> 0, verdict |-> "ok"] \in Row
    BY <2>1, BusAssumption DEF Row, NewId, Ids, Ids0, TypeOK, AllVerdicts
  <2>3. msgs' \in Seq(Row) /\ Len(msgs') <= MaxMsgs
    BY <1>2, <2>2, InsertTyped DEF SendOther
  <2> QED BY <1>2, <2>3 DEF SendOther, TypeOK
<1>3. ASSUME NEW i \in DOMAIN msgs, Resend(i) PROVE TypeOK'
  <2>1. [msgs[i] EXCEPT !.kind = "msg"] \in Row
    BY RowsTyped DEF Row
  <2>2. msgs' \in Seq(Row) /\ Len(msgs') <= MaxMsgs
    BY <1>3, <2>1, InsertTyped DEF Resend
  <2> QED BY <1>3, <2>2 DEF Resend, TypeOK
<1>4. ASSUME NEW i \in DOMAIN msgs, NEW from, NEW to \in AllVerdicts, Reclassify(i, from, to)
      PROVE  TypeOK'
  <2>1. [msgs[i] EXCEPT !.verdict = to] \in Row
    BY RowsTyped DEF Row
  <2>2. msgs' = [msgs EXCEPT ![i] = [msgs[i] EXCEPT !.verdict = to]]
    BY <1>4 DEF Reclassify
  <2>3. msgs' \in Seq(Row) /\ Len(msgs') = Len(msgs)
    BY <2>1, <2>2 DEF TypeOK
  <2> QED BY <1>4, <2>3 DEF Reclassify, TypeOK
<1> QED
  BY <1>1, <1>2, <1>3, <1>4 DEF Environment, Matures, KeyRegistered, GoesStale, AllVerdicts

\* recv(mark=True) keeps the types, in both modes.
LEMMA RecvTyped ==
    ASSUME TypeOK, NEW p \in Procs, RecvDev(p) \/ RecvProduct(p)
    PROVE  TypeOK'
<1> USE RowsTyped, PageTyped
<1>1. ASSUME NEW S PROVE Count(S) => times' \in [Ids -> 0 .. 2]
  BY DEF Count, TypeOK
<1>2. CASE RecvDev(p)
  <2>1. PICK top \in Page : /\ cursor' = top /\ delivered' = Bigger(delivered, top)
                            /\ readAt' = readAt \cup {i \in Mine : i <= top}
    BY <1>2 DEF RecvDev
  <2>3. cursor' \in Ids0 /\ delivered' \in Ids0 /\ readAt' \subseteq Ids
    BY <2>1, IdsTyped, BiggerTyped DEF TypeOK
  <2>2. times' \in [Ids -> 0 .. 2] /\ handed' \subseteq Ids
    BY <1>1, <1>2 DEF RecvDev, TypeOK
  <2> QED BY <1>2, <2>2, <2>3 DEF RecvDev, TypeOK
<1>3. CASE RecvProduct(p)
  <2>1. PICK top \in Page, acc \in Kept \cup {0} :
            cursor' = top /\ delivered' = Bigger(delivered, acc)
    BY <1>3 DEF RecvProduct
  <2>4. cursor' \in Ids0 /\ delivered' \in Ids0
    BY <2>1, IdsTyped, BiggerTyped DEF TypeOK
  <2>2. times' \in [Ids -> 0 .. 2] /\ handed' \subseteq Ids
    BY <1>1, <1>3 DEF RecvProduct, TypeOK
  <2>3. seen' \subseteq Ids
    BY <1>3, RootTyped DEF RecvProduct, TypeOK, Mine
  <2>5. readAt' \subseteq Ids /\ named' \subseteq Ids /\ open' \subseteq named'
    BY <1>3 DEF RecvProduct, TypeOK
  <2> QED BY <1>3, <2>2, <2>3, <2>4, <2>5 DEF RecvProduct, TypeOK
<1> QED BY <1>2, <1>3

\* So does recv(mark=False), ...
LEMMA PeekTyped ==
    ASSUME TypeOK, NEW p \in Procs, PeekRead(p) \/ PeekAudit(p)
    PROVE  TypeOK'
<1> USE RowsTyped, PageTyped
<1>1. CASE PeekRead(p)
  <2>1. PICK l \in Local : Goto(p, l)
    BY <1>1, IdleTyped DEF PeekRead, Local, PeekRejected
  <2> QED BY <1>1, <2>1, GotoTyped DEF PeekRead, TypeOK, busVars
<1>2. CASE PeekAudit(p)
  <2>1. local[p] \in Local
    BY DEF TypeOK
  <2>2. [local[p] EXCEPT !.pc = "returned", !.pend = {}] \in Local
    BY <2>1 DEF Local
  <2>3. local' \in [Procs -> Local]
    BY <1>2, <2>2, GotoTyped DEF PeekAudit
  <2> QED BY <1>2, <2>1, <2>3 DEF PeekAudit, TypeOK, Local
<1> QED BY <1>1, <1>2

\* ... mark_delivered, ...
LEMMA MarkTyped ==
    ASSUME TypeOK, NEW p \in Procs, MarkFilter(p) \/ MarkPend(p) \/ MarkWrite(p)
    PROVE  TypeOK'
<1> USE RowsTyped
<1>1. local[p] \in Local
  BY DEF TypeOK
<1>2. Respond(p) => handed' \subseteq Ids
  BY <1>1 DEF Respond, TypeOK, Local
<1>3. CASE MarkFilter(p)
  <2>1. handed' \subseteq Ids
    BY <1>2, <1>3 DEF MarkFilter, TypeOK
  <2>2. [local[p] EXCEPT !.pc = "filtered", !.ids = local[p].ids \ PermanentRejects(local[p].ids)]
            \in Local
    BY <1>1 DEF Local
  <2>3. local' \in [Procs -> Local]
    BY <1>3, <2>2, IdleTyped, GotoTyped DEF MarkFilter
  <2> QED BY <1>3, <2>1, <2>3 DEF MarkFilter, TypeOK, busVars
<1>4. CASE MarkPend(p)
  <2>1. Pending \subseteq Ids
    BY DEF Pending, First
  <2>2. [local[p] EXCEPT !.pc = "pending", !.pend = Pending] \in Local
    BY <1>1, <2>1 DEF Local
  <2>3. local' \in [Procs -> Local]
    BY <1>4, <2>2, GotoTyped DEF MarkPend
  <2> QED BY <1>4, <2>3 DEF MarkPend, TypeOK, busVars
<1>5. CASE MarkWrite(p)
  <2>1. local' \in [Procs -> Local]
    BY <1>5, IdleTyped, GotoTyped DEF MarkWrite
  <2> QED BY <1>1, <1>2, <1>5, <2>1 DEF MarkWrite, TypeOK, Local, Closed
<1> QED BY <1>3, <1>4, <1>5

\* ... ack, ...
LEMMA AckTyped ==
    ASSUME TypeOK, NEW p \in Procs, (\E upto \in Ids : AckRead(p, upto)) \/ AckWrite(p)
    PROVE  TypeOK'
<1> USE RowsTyped
<1>1. ASSUME NEW upto \in Ids, AckRead(p, upto) PROVE TypeOK'
  <2>1. PICK hi \in Ids0 :
            Goto(p, [Idle EXCEPT !.pc = "ack", !.base = cursor,
                       !.tgt = AckTarget(upto, IF Strict THEN delivered ELSE hi),
                       !.ids = {i \in Mine \ readAt :
                          cursor < i /\ i <= AckTarget(upto, IF Strict THEN delivered ELSE hi)}])
    BY <1>1 DEF AckRead
  <2>2. AckTarget(upto, IF Strict THEN delivered ELSE hi) \in Ids0
    BY IdsTyped, SmallerTyped, BiggerTyped DEF AckTarget, TypeOK
  <2>3. local' \in [Procs -> Local]
    <3> DEFINE tgt == AckTarget(upto, IF Strict THEN delivered ELSE hi)
    <3>1. [Idle EXCEPT !.pc = "ack", !.base = cursor, !.tgt = tgt,
              !.ids = {i \in Mine \ readAt : cursor < i /\ i <= tgt}] \in Local
      <4> HIDE DEF tgt
      <4> QED BY <2>2, IdleTyped DEF Local, TypeOK, tgt
    <3> QED BY <2>1, <3>1, GotoTyped
  <2> QED BY <1>1, <2>3 DEF AckRead, TypeOK, busVars
<1>2. CASE AckWrite(p)
  <2>1. local[p] \in Local
    BY DEF TypeOK
  <2>2. local' \in [Procs -> Local]
    BY <1>2, IdleTyped, GotoTyped DEF AckWrite
  <2> QED BY <1>2, <2>1, <2>2 DEF AckWrite, TypeOK, Local
<1> QED BY <1>1, <1>2

\* ... what is left of a replay, ...
LEMMA RestTyped ==
    ASSUME TypeOK, NEW p \in Procs, NEW i
    PROVE  Rest(p, i) \in Local
<1>1. local[p] \in Local
  BY DEF TypeOK
<1> QED BY <1>1, IdleTyped DEF Rest, Local

\* ... and a replay, which only copies rows it knows exist.
LEMMA ReplayTyped ==
    ASSUME TypeOK, ReplayInv, NEW p \in Procs,
           \/ ReplayRead(p) \/ ReplayLog(p)
           \/ \E i \in Ids : ReplaySigned(p, i) \/ ReplaySend(p, i)
    PROVE  TypeOK'
<1>0. local[p] \in Local
  BY DEF TypeOK
<1>1. CASE ReplayRead(p)
  <2>1. [Idle EXCEPT !.pc = "replay", !.ids = Candidates] \in Local
    BY CandidatesTyped, IdleTyped DEF Local
  <2>2. local' \in [Procs -> Local]
    BY <1>1, <2>1, GotoTyped DEF ReplayRead
  <2> QED BY <1>1, <2>2 DEF ReplayRead, TypeOK, busVars
<1>2. CASE ReplayLog(p)
  <2>1. local' \in [Procs -> Local]
    BY <1>2, IdleTyped, RestTyped, GotoTyped DEF ReplayLog
  <2>2. copied' \subseteq Ids0 \X Ids0
    BY <1>0, <1>2 DEF ReplayLog, TypeOK, Local
  <2> QED BY <1>2, <2>1, <2>2 DEF ReplayLog, TypeOK
<1>3. ASSUME NEW i \in Ids, ReplaySigned(p, i) PROVE TypeOK'
  <2>1. local' \in [Procs -> Local]
    BY <1>3, RestTyped, GotoTyped DEF ReplaySigned
  <2>2. CASE UNCHANGED <<msgs, copied>>
    BY <1>3, <2>1, <2>2 DEF ReplaySigned, TypeOK
  <2>3. CASE Insert(msgs[i]) /\ copied' = copied \cup {<<i, NewId>>}
    <3>1. i \in local[p].ids
      BY <1>3 DEF ReplaySigned, IsNextCandidate
    <3>2. NewId \in Ids
      BY <2>3, NewIdTyped
    <3>3. copied' \subseteq Ids0 \X Ids0
      BY <2>3, <3>2, IdsTyped DEF TypeOK
    <3>4. msgs[i] \in Row
      BY <1>3, <3>1, RowsTyped DEF ReplaySigned, ReplayInv, CallsOriginals, Originals
    <3>5. msgs' \in Seq(Row) /\ Len(msgs') <= MaxMsgs
      BY <2>3, <3>4, InsertTyped
    <3> QED BY <1>3, <2>1, <3>3, <3>5 DEF ReplaySigned, TypeOK
  <2> QED BY <1>3, <2>2, <2>3 DEF ReplaySigned
<1>4. ASSUME NEW i \in Ids, ReplaySend(p, i) PROVE TypeOK'
  <2>1. NewId \in Ids
    BY <1>4, NewIdTyped DEF ReplaySend
  <2>2. [to |-> Me, kind |-> "replay", root |-> NewId, orig |-> i, verdict |-> "ok"] \in Row
    BY <2>1, IdsTyped DEF Row, AllVerdicts
  <2>3. msgs' \in Seq(Row) /\ Len(msgs') <= MaxMsgs
    BY <1>4, <2>2, InsertTyped DEF ReplaySend
  <2>4. [local[p] EXCEPT !.pc = "sent", !.base = i, !.tgt = NewId] \in Local
    BY <1>0, <2>1, SentTyped
  <2>5. local' \in [Procs -> Local]
    BY <1>4, <2>4, GotoTyped DEF ReplaySend
  <2> QED BY <1>4, <2>3, <2>5 DEF ReplaySend, TypeOK
<1> QED BY <1>1, <1>2, <1>3, <1>4

\* Every step keeps the types.
LEMMA TypeStep ==
    ASSUME TypeOK, ReplayInv, [Next]_vars
    PROVE  TypeOK'
<1>1. CASE UNCHANGED vars
  BY <1>1 DEF vars, TypeOK
<1>2. ASSUME NEW p \in Procs, Stop(p) PROVE TypeOK'
  <2>1. local' \in [Procs -> Local]
    BY <1>2, IdleTyped, GotoTyped DEF Stop
  <2> QED BY <1>2, <2>1 DEF Stop, TypeOK, busVars
<1>3. ASSUME NEW p \in Procs, Call(p) PROVE TypeOK'
  BY <1>2, <1>3, RecvTyped, PeekTyped, MarkTyped, AckTyped, ReplayTyped DEF Call, Continue
<1> QED BY <1>1, <1>3, EnvironmentTyped DEF Next

-----------------------------------------------------------------------------
(* Replays *)

\* No call deletes a row or changes what a row is, its verdict apart.
LEMMA RowsKept ==
    ASSUME TypeOK, ReplayInv, [Next]_vars
    PROVE  /\ DOMAIN msgs \subseteq DOMAIN msgs'
           /\ \A i \in DOMAIN msgs : /\ msgs'[i].kind = msgs[i].kind
                                     /\ msgs'[i].to = msgs[i].to
                                     /\ msgs'[i].root = msgs[i].root
<1> DEFINE Kept1 == /\ DOMAIN msgs \subseteq DOMAIN msgs'
                    /\ \A i \in DOMAIN msgs : /\ msgs'[i].kind = msgs[i].kind
                                              /\ msgs'[i].to = msgs[i].to
                                              /\ msgs'[i].root = msgs[i].root
<1>1. ASSUME NEW row, Insert(row) PROVE Kept1
  BY <1>1 DEF Insert, TypeOK
<1>2. ASSUME NEW i, NEW from, NEW to, Reclassify(i, from, to) PROVE Kept1
  BY <1>2 DEF Reclassify, TypeOK
<1>3. CASE UNCHANGED msgs
  BY <1>3
<1>4. CASE Environment
  BY <1>1, <1>2, <1>4
     DEF Environment, Send, SendOther, Resend, Matures, KeyRegistered, GoesStale
<1>5. ASSUME NEW p \in Procs, NEW i \in Ids, ReplaySigned(p, i) \/ ReplaySend(p, i) PROVE Kept1
  BY <1>1, <1>3, <1>5 DEF ReplaySigned, ReplaySend
<1>6. ASSUME NEW p \in Procs, Call(p) PROVE Kept1
  BY <1>3, <1>5, <1>6
     DEF Call, Continue, RecvDev, RecvProduct, PeekRead, PeekAudit, MarkFilter, MarkPend,
         MarkWrite, AckRead, AckWrite, ReplayRead, ReplayLog, Stop, busVars
<1> QED BY <1>3, <1>4, <1>6 DEF Next, vars

\* A step that writes no replay row and leaves no process in a replay it was
\* not in keeps the invariant.
LEMMA ReplayUntouched ==
    ASSUME TypeOK, ReplayInv, [Next]_vars, UNCHANGED copied,
           \A p \in Procs : \/ local'[p] = local[p]
                            \/ local'[p].pc \notin {"replay", "sent"}
    PROVE  ReplayInv'
<1>1. Originals \subseteq Originals'
  BY RowsKept DEF Originals
<1>2. CopiesKnown' /\ ReplayLoggedOnce'
  BY <1>1, RowsKept DEF ReplayInv, CopiesKnown, ReplayLoggedOnce
<1>3. CallsOriginals'
  BY <1>1 DEF ReplayInv, CallsOriginals
<1>4. CallsSent'
  BY RowsKept DEF ReplayInv, CallsSent
<1> QED BY <1>2, <1>3, <1>4 DEF ReplayInv

\* Where a call that peeks, marks, ends an ack or stops leaves its process.
LEMMA CallMoves ==
    ASSUME TypeOK, NEW p \in Procs,
           \/ PeekRead(p) \/ PeekAudit(p) \/ MarkFilter(p) \/ MarkPend(p) \/ MarkWrite(p)
           \/ AckWrite(p) \/ Stop(p)
    PROVE  /\ local'[p].pc \notin {"replay", "sent", "ack"}
           /\ \A q \in Procs : q # p => local'[q] = local[q]
<1>1. local[p] \in Local
  BY DEF TypeOK
<1>2. CASE PeekRead(p)
  <2> DEFINE out == IF Product THEN {i \in PeekKept : Verdict(i) # "sds"} ELSE Page
             rej == IF Product THEN PeekRejected ELSE {}
             l == [Idle EXCEPT !.pc = IF rej = {} THEN "returned" ELSE "peeked",
                               !.ids = out, !.out = out, !.pend = rej]
  <2>1. Goto(p, l)
    BY <1>2 DEF PeekRead
  <2>2. l.pc \in {"returned", "peeked"}
    <3> HIDE DEF out, rej
    <3> QED BY DEF Idle
  <2> HIDE DEF l
  <2> QED BY <2>1, <2>2, GotoMoves
<1>3. CASE PeekAudit(p)
  <2> DEFINE l == [local[p] EXCEPT !.pc = "returned", !.pend = {}]
  <2>1. Goto(p, l) /\ l.pc = "returned"
    BY <1>1, <1>3 DEF PeekAudit, Local
  <2> HIDE DEF l
  <2> QED BY <2>1, GotoMoves
<1>4. CASE MarkFilter(p)
  <2> DEFINE l == [local[p] EXCEPT !.pc = "filtered",
                     !.ids = local[p].ids \ PermanentRejects(local[p].ids)]
  <2>1. l.pc = "filtered" /\ Idle.pc = "idle"
    BY <1>1 DEF Local, Idle
  <2>2. Goto(p, l) \/ Goto(p, Idle)
    BY <1>4 DEF MarkFilter
  <2> HIDE DEF l
  <2> QED BY <2>1, <2>2, GotoMoves
<1>5. CASE MarkPend(p)
  <2> DEFINE l == [local[p] EXCEPT !.pc = "pending", !.pend = Pending]
  <2>1. Goto(p, l) /\ l.pc = "pending"
    BY <1>1, <1>5 DEF MarkPend, Local
  <2> HIDE DEF l
  <2> QED BY <2>1, GotoMoves
<1>6. CASE MarkWrite(p) \/ AckWrite(p) \/ Stop(p)
  BY <1>6, GotoMoves DEF MarkWrite, AckWrite, Stop, Idle
<1> QED BY <1>2, <1>3, <1>4, <1>5, <1>6

\* Every step keeps the invariant of replays.
LEMMA ReplayStep ==
    ASSUME TypeOK, ReplayInv, [Next]_vars
    PROVE  ReplayInv'
<1>0. /\ Originals \subseteq Originals' /\ Originals \subseteq DOMAIN msgs
      /\ DOMAIN msgs \subseteq DOMAIN msgs'
  BY RowsKept DEF Originals
<1>1. CASE UNCHANGED vars
  BY <1>1, ReplayUntouched DEF vars
<1>2. CASE Environment
  BY <1>2, ReplayUntouched
     DEF Environment, Send, SendOther, Resend, Reclassify, Matures, KeyRegistered, GoesStale
<1>3. ASSUME NEW p \in Procs,
             \/ RecvDev(p) \/ RecvProduct(p) \/ PeekRead(p) \/ PeekAudit(p)
             \/ MarkFilter(p) \/ MarkPend(p) \/ MarkWrite(p)
             \/ (\E upto \in Ids : AckRead(p, upto)) \/ AckWrite(p) \/ Stop(p)
      PROVE  ReplayInv'
  <2>1. UNCHANGED copied
    BY <1>3 DEF RecvDev, RecvProduct, PeekRead, PeekAudit, MarkFilter, MarkPend, MarkWrite,
                AckRead, AckWrite, Stop, busVars
  <2>3. /\ local'[p] = local[p] \/ local'[p].pc \notin {"replay", "sent"}
        /\ \A q \in Procs : q # p => local'[q] = local[q]
    <3>1. CASE RecvDev(p) \/ RecvProduct(p)
      BY <3>1 DEF RecvDev, RecvProduct
    <3>2. CASE ~(RecvDev(p) \/ RecvProduct(p) \/ \E upto \in Ids : AckRead(p, upto))
      BY <1>3, <3>2, CallMoves
    <3>7. ASSUME NEW upto \in Ids, AckRead(p, upto)
          PROVE  /\ local'[p].pc \notin {"replay", "sent"}
                 /\ \A q \in Procs : q # p => local'[q] = local[q]
      <4>1. PICK tgt, skips :
                Goto(p, [Idle EXCEPT !.pc = "ack", !.base = cursor, !.tgt = tgt, !.ids = skips])
        BY <3>7 DEF AckRead
      <4> DEFINE l == [Idle EXCEPT !.pc = "ack", !.base = cursor, !.tgt = tgt, !.ids = skips]
      <4>2. Goto(p, l) /\ l.pc = "ack"
        BY <4>1 DEF Idle
      <4> HIDE DEF l
      <4> QED BY <4>2, GotoMoves
    <3> QED BY <3>1, <3>2, <3>7
  <2> QED BY <2>1, <2>3, ReplayUntouched
<1>4. ASSUME NEW p \in Procs, ReplayRead(p) PROVE ReplayInv'
  <2>1. UNCHANGED <<msgs, copied>>
    BY <1>4 DEF ReplayRead, busVars
  <2>2. Candidates \subseteq Originals /\ \A c \in copied : c[2] \notin Candidates
    BY CandidatesTyped, RowsTyped
       DEF Candidates, Listed, Already, Replays, Mine, Originals, Row
  <2>3. CallsOriginals' /\ CallsSent'
    BY <1>4, <2>1, <2>2
       DEF ReplayRead, Goto, Idle, TypeOK, ReplayInv, CallsOriginals, CallsSent, Originals
  <2> QED BY <2>1, <2>3 DEF ReplayInv, CopiesKnown, ReplayLoggedOnce, Originals
\* The rest of the work of a replay is a part of it.
<1>5. ASSUME NEW p \in Procs, NEW i, local[p].pc \in {"replay", "sent"}, Goto(p, Rest(p, i)),
             \A c \in copied' : c \in copied \/ c[2] \notin Originals
      PROVE  CallsOriginals' /\ CallsSent'
  <2>1. /\ local'[p].pc # "sent"
        /\ local'[p].pc = "replay" => local'[p].ids \subseteq local[p].ids
        /\ \A q \in Procs : q # p => local'[q] = local[q]
    BY <1>5 DEF Goto, Rest, Idle, TypeOK
  <2>2. CallsOriginals'
    BY <1>0, <1>5, <2>1 DEF ReplayInv, CallsOriginals
  <2>3. CallsSent'
    BY <2>1, RowsKept DEF ReplayInv, CallsSent
  <2> QED BY <2>2, <2>3
<1>6. ASSUME NEW p \in Procs, NEW i \in Ids, ReplaySigned(p, i) PROVE ReplayInv'
  <2>1. local[p].pc = "replay" /\ i \in local[p].ids /\ Goto(p, Rest(p, i))
    BY <1>6 DEF ReplaySigned, IsNextCandidate
  <2>2. i \in Originals /\ \A c \in copied : c[2] # i
    BY <2>1 DEF ReplayInv, CallsOriginals
  <2>3. CASE UNCHANGED <<msgs, copied>>
    <3>1. CallsOriginals' /\ CallsSent'
      BY <1>5, <2>1, <2>3
    <3> QED BY <2>3, <3>1 DEF ReplayInv, CopiesKnown, ReplayLoggedOnce, Originals
  <2>4. CASE ~CopyLogged(i) /\ Insert(msgs[i]) /\ copied' = copied \cup {<<i, NewId>>}
    <3>1. NewId \notin DOMAIN msgs /\ NewId \in DOMAIN msgs'
      BY <2>2, <2>4, RowsTyped, InsertTyped DEF Originals
    <3>2. CallsOriginals' /\ CallsSent'
      BY <1>0, <1>5, <2>1, <2>4, <3>1
    <3>3. CopiesKnown'
      BY <1>0, <2>2, <2>4, <3>1 DEF ReplayInv, CopiesKnown
    <3>4. ReplayLoggedOnce'
      BY <1>0, <2>2, <2>4, <3>1 DEF ReplayInv, CopiesKnown, ReplayLoggedOnce, CopyLogged
    <3> QED BY <3>2, <3>3, <3>4 DEF ReplayInv
  <2> QED BY <1>6, <2>3, <2>4 DEF ReplaySigned
<1>7. ASSUME NEW p \in Procs, NEW i \in Ids, ReplaySend(p, i) PROVE ReplayInv'
  <2>1. /\ local[p].pc = "replay" /\ i \in local[p].ids /\ UNCHANGED copied
        /\ Goto(p, [local[p] EXCEPT !.pc = "sent", !.base = i, !.tgt = NewId])
    BY <1>7 DEF ReplaySend, IsNextCandidate
  <2>2. NewId \in DOMAIN msgs' /\ msgs'[NewId].kind = "replay"
    BY <1>7, BusAssumption DEF ReplaySend, Insert, NewId, TypeOK
  <2>3. local[p] \in Local /\ local \in [Procs -> Local]
    BY DEF TypeOK
  <2>4. /\ local'[p].ids = local[p].ids /\ local'[p].base = i /\ local'[p].tgt = NewId
        /\ \A q \in Procs : q # p => local'[q] = local[q]
    BY <2>1, <2>3 DEF Goto, Local
  <2>5. CallsOriginals'
    BY <1>0, <2>1, <2>4 DEF ReplayInv, CallsOriginals
  <2>6. CallsSent'
    BY <2>1, <2>2, <2>4, RowsKept DEF ReplayInv, CallsSent
  <2> QED BY <1>0, <2>1, <2>5, <2>6 DEF ReplayInv, CopiesKnown, ReplayLoggedOnce
<1>8. ASSUME NEW p \in Procs, ReplayLog(p) PROVE ReplayInv'
  <2> DEFINE i == local[p].base
  <2>1. local[p].pc = "sent" /\ UNCHANGED msgs
    BY <1>8 DEF ReplayLog
  <2>2. /\ i \in Originals /\ \A c \in copied : c[2] # i
        /\ local[p].tgt \in DOMAIN msgs \ Originals
    BY <2>1 DEF ReplayInv, CallsOriginals, CallsSent, Originals
  <2>3. CASE CopyLogged(i) /\ Goto(p, Idle) /\ UNCHANGED copied
    BY <2>3, ReplayUntouched DEF Goto, Idle, TypeOK
  <2>4. CASE ~CopyLogged(i) /\ Goto(p, Rest(p, i)) /\ copied' = copied \cup {<<i, local[p].tgt>>}
    <3>1. CallsOriginals' /\ CallsSent'
      BY <1>5, <2>1, <2>2, <2>4
    <3>2. CopiesKnown'
      BY <1>0, <2>1, <2>2, <2>4 DEF ReplayInv, CopiesKnown
    <3>3. ReplayLoggedOnce'
      BY <2>2, <2>4 DEF ReplayInv, CopiesKnown, ReplayLoggedOnce, CopyLogged
    <3> QED BY <3>1, <3>2, <3>3 DEF ReplayInv
  <2> QED BY <1>8, <2>3, <2>4 DEF ReplayLog
<1> QED
  BY <1>1, <1>2, <1>3, <1>4, <1>6, <1>7, <1>8 DEF Next, Call, Continue

\* The two invariants need each other: a replay copies rows it knows exist.
LEMMA Typed == Spec => [](TypeOK /\ ReplayInv)
<1>1. Init => TypeOK /\ ReplayInv
  <2> SUFFICES ASSUME Init PROVE TypeOK /\ ReplayInv
    OBVIOUS
  <2>1. msgs \in Seq(Row) /\ Len(msgs) <= MaxMsgs
    BY BusAssumption DEF Init
  <2>2. local \in [Procs -> Local] /\ \A p \in Procs : local[p].pc = "idle"
    BY IdleTyped DEF Init, Idle
  <2>3. TypeOK
    BY <2>1, <2>2, IdsTyped DEF Init, TypeOK
  <2>4. ReplayInv
    BY <2>2 DEF Init, ReplayInv, CopiesKnown, CallsOriginals, CallsSent, ReplayLoggedOnce
  <2> QED BY <2>3, <2>4
<1>2. (TypeOK /\ ReplayInv) /\ [Next]_vars => (TypeOK /\ ReplayInv)'
  BY TypeStep, ReplayStep
<1> QED BY <1>1, <1>2, PTL DEF Spec

\* The tables and the calls in progress always have the values the code gives
\* them (AgentBus!TypeOK).
THEOREM TypeCorrect == Spec => []TypeOK
BY Typed, PTL

\* init and replay: at most one audit row of a replay per original, and no
\* copy is ever copied, in both modes, however many operators replay at once
\* and wherever they are killed.
THEOREM ReplaysLoggedOnce == Spec => []ReplayLoggedOnce
<1>1. TypeOK /\ ReplayInv => ReplayLoggedOnce
  BY DEF ReplayInv
<1> QED BY <1>1, Typed, PTL

-----------------------------------------------------------------------------
(* Delivery in product mode *)

\* What was handed over once is in the seen-store: this is what makes
\* AtMostOnce inductive.
SeenInv == \A r \in Ids : times[r] <= 1 /\ (times[r] > 0 => r \in seen)

\* In product mode every step keeps what was handed over in the seen-store.
LEMMA SeenStep ==
    ASSUME Product, TypeOK, SeenInv, [Next]_vars
    PROVE  SeenInv'
<1>1. CASE UNCHANGED <<times, seen>>
  BY <1>1 DEF SeenInv
<1>2. ASSUME NEW p \in Procs, RecvProduct(p) PROVE SeenInv'
  <2>1. \A i \in Kept : msgs[i].root \notin seen /\ msgs[i].root \in seen'
    BY <1>2 DEF RecvProduct, Kept, Consumed
  <2>2. PICK S : /\ Count(S) /\ \A r \in S : r \notin seen /\ r \in seen'
    BY <1>2, <2>1 DEF RecvProduct
  <2>3. seen \subseteq seen'
    BY <1>2 DEF RecvProduct
  <2>4. ASSUME NEW r \in Ids PROVE times'[r] <= 1 /\ (times'[r] > 0 => r \in seen')
    <3>1. times[r] \in 0 .. 2 /\ times[r] <= 1 /\ (times[r] > 0 => r \in seen)
      BY DEF TypeOK, SeenInv
    <3>2. times'[r] = IF r \in S /\ times[r] < 2 THEN times[r] + 1 ELSE times[r]
      BY <2>2 DEF Count
    <3> QED BY <2>2, <2>3, <3>1, <3>2
  <2> QED BY <2>4 DEF SeenInv
<1>3. CASE Environment
  BY <1>1, <1>3
     DEF Environment, Send, SendOther, Resend, Reclassify, Matures, KeyRegistered, GoesStale
<1>4. ASSUME NEW p \in Procs, Call(p) PROVE SeenInv'
  BY <1>1, <1>2, <1>4
     DEF Call, Continue, RecvDev, PeekRead, PeekAudit, MarkFilter, MarkPend, MarkWrite,
         AckRead, AckWrite, ReplayRead, ReplaySigned, ReplaySend, ReplayLog, Stop, busVars
<1> QED BY <1>1, <1>3, <1>4 DEF Next, vars

\* recv in product mode: no signed content is handed over twice, by any number
\* of concurrent consumers, whatever is resent, replayed, acknowledged or
\* killed in between.
THEOREM HandedOnce ==
    ASSUME Product
    PROVE  Spec => []AtMostOnce
<1>1. Init => SeenInv
  BY DEF Init, SeenInv
<1>2. TypeOK /\ SeenInv /\ [Next]_vars => SeenInv'
  BY SeenStep
<1>3. SeenInv => AtMostOnce
  BY DEF SeenInv, AtMostOnce
<1> QED BY <1>1, <1>2, <1>3, TypeCorrect, PTL DEF Spec

-----------------------------------------------------------------------------
(* The cursor of a mailbox with one consumer: used for HandedNotAccused below *)

\* The target of an ack in progress is not behind the cursor: nothing moves
\* the cursor between the two steps of an ack when its process is alone.
AckInv == \A p \in Procs : local[p].pc = "ack" => cursor <= local[p].tgt

\* The target of an ack is not behind the cursor it was computed from.
LEMMA AckAhead ==
    ASSUME NEW c \in Ids0, NEW a \in Ids0, NEW b \in Ids0
    PROVE  Bigger(c, Smaller(a, b)) >= c
BY SmallerTyped, BiggerTyped

\* Every step of a lone process keeps the cursor and its pending ack in order.
LEMMA AckStep ==
    ASSUME NEW q, Procs = {q}, TypeOK, AckInv, [Next]_vars
    PROVE  AckInv' /\ (cursor' >= cursor)
<1>0. cursor \in Ids0 /\ cursor \in Int /\ local \in [Procs -> Local] /\ local[q] \in Local
  BY DEF TypeOK, Ids0
<1>1. CASE UNCHANGED <<cursor, local>>
  BY <1>0, <1>1 DEF AckInv
<1>2. CASE RecvDev(q) \/ RecvProduct(q)
  <2>1. local[q].pc = "idle" /\ UNCHANGED local
    BY <1>2 DEF RecvDev, RecvProduct, Idle
  <2>2. cursor' >= cursor
    BY <1>0, <1>2, RowsTyped, PageTyped DEF RecvDev, RecvProduct, Ids
  <2> QED BY <2>1, <2>2 DEF AckInv
<1>3. ASSUME NEW upto \in Ids, AckRead(q, upto) PROVE AckInv' /\ cursor' >= cursor
  <2>1. PICK hi \in Ids0 :
            Goto(q, [Idle EXCEPT !.pc = "ack", !.base = cursor,
                       !.tgt = AckTarget(upto, IF Strict THEN delivered ELSE hi),
                       !.ids = {i \in Mine \ readAt :
                          cursor < i /\ i <= AckTarget(upto, IF Strict THEN delivered ELSE hi)}])
    BY <1>3 DEF AckRead
  <2> DEFINE tgt == AckTarget(upto, IF Strict THEN delivered ELSE hi)
             skips == {i \in Mine \ readAt : cursor < i /\ i <= tgt}
  <2>2. tgt >= cursor
    BY AckAhead, IdsTyped DEF AckTarget, TypeOK
  <2>3. local' = [local EXCEPT ![q] = [Idle EXCEPT !.pc = "ack", !.base = cursor,
                                         !.tgt = tgt, !.ids = skips]]
    BY <2>1 DEF Goto
  <2>4. UNCHANGED cursor
    BY <1>3 DEF AckRead, busVars
  <2> HIDE DEF tgt, skips
  <2>5. local'[q].tgt = tgt
    BY <1>0, <2>3 DEF Idle
  <2> QED BY <1>0, <2>2, <2>4, <2>5 DEF AckInv
<1>4. CASE AckWrite(q)
  <2>1. cursor' = local[q].tgt /\ cursor <= local[q].tgt /\ local'[q] = Idle
    BY <1>4, GotoMoves DEF AckWrite, AckInv
  <2> QED BY <1>0, <2>1 DEF AckInv, Idle
\* The other calls leave the cursor alone and are not in an ack.
<1>5. ASSUME UNCHANGED cursor, local'[q].pc # "ack" PROVE AckInv' /\ cursor' >= cursor
  BY <1>0, <1>5 DEF AckInv
<1>6. CASE Environment
  BY <1>1, <1>6
     DEF Environment, Send, SendOther, Resend, Reclassify, Matures, KeyRegistered, GoesStale
<1>7. CASE \/ PeekRead(q) \/ PeekAudit(q) \/ MarkFilter(q) \/ MarkPend(q) \/ MarkWrite(q)
           \/ Stop(q)
  BY <1>5, <1>7, CallMoves DEF PeekRead, PeekAudit, MarkFilter, MarkPend, MarkWrite, Stop, busVars
<1>8. CASE ReplayRead(q) \/ ReplayLog(q) \/ \E i \in Ids : ReplaySigned(q, i)
  <2>1. UNCHANGED cursor
    BY <1>8 DEF ReplayRead, ReplayLog, ReplaySigned, busVars
  <2> DEFINE l == [Idle EXCEPT !.pc = "replay", !.ids = Candidates]
  <2>2. /\ l.pc = "replay" /\ Idle.pc = "idle"
        /\ \A i : Rest(q, i).pc \in {"idle", "replay"}
    BY DEF Idle, Rest
  <2>3. Goto(q, l) \/ Goto(q, Idle) \/ \E i : Goto(q, Rest(q, i))
    BY <1>8 DEF ReplayRead, ReplayLog, ReplaySigned
  <2> HIDE DEF l
  <2> QED BY <1>5, <2>1, <2>2, <2>3, GotoMoves
<1>9. ASSUME NEW i \in Ids, ReplaySend(q, i) PROVE AckInv' /\ cursor' >= cursor
  <2> DEFINE l == [local[q] EXCEPT !.pc = "sent", !.base = i, !.tgt = NewId]
  <2>1. Goto(q, l) /\ l.pc = "sent" /\ UNCHANGED cursor
    BY <1>0, <1>9 DEF ReplaySend, Local
  <2> HIDE DEF l
  <2> QED BY <1>5, <2>1, GotoMoves
<1> QED
  BY <1>1, <1>2, <1>3, <1>4, <1>6, <1>7, <1>8, <1>9 DEF Next, Call, Continue, vars

-----------------------------------------------------------------------------
(* The rows the cursor passes: what the theorems are about *)

\* What is said of a strict mailbox read by recv and ack ...
ByRecv == "peek" \notin Ops /\ Strict
\* ... and of one that is also peeked, whose clients acknowledge what they got.
ByRounds == "ack" \notin Ops /\ "lossy" \notin Ops

NoEnvelopes == Product => "sds" \notin Verdicts

InPeek == {"peeked", "returned", "filtered", "pending"}

\* A place in a round: what will be marked is in the response.
AtRound(l) == "peek" \in Ops /\ l.ids \subseteq l.out /\ (l.pc = "peeked" => Product)

\* A place in a call that has read no row yet, or in none.
Outside(l) == l.out = {} /\ l.pend = {} /\ l.pc \notin InPeek \cup {"ack"}

-----------------------------------------------------------------------------
(* The invariant behind NothingLost, part by part *)

\* Content is known from its first row on, and no bound is beyond the table.
Known ==
    /\ \A i \in DOMAIN msgs : msgs[i].root \in DOMAIN msgs
    /\ cursor <= Len(msgs) /\ ("ack" \in Ops => delivered <= Len(msgs))
    /\ handed \subseteq DOMAIN msgs /\ named \subseteq DOMAIN msgs
    /\ \A p \in Procs : /\ local[p].out \cup local[p].pend \subseteq DOMAIN msgs
                        /\ local[p].pc = "ack" => local[p].tgt <= Len(msgs)

\* Only dev mode writes replay messages, and only product mode rejects.
Modes ==
    /\ Product => \A i \in DOMAIN msgs : msgs[i].kind = "msg" /\ msgs[i].verdict # "sds"
    /\ ~Product => named = {}

\* A row somebody got, or that is named as rejected.
Covered(i) == i \in handed \/ i \in named

UpTo(n) == \A i \in Mine : i <= n => Covered(i)

\* A rejection that was closed was closed because the row was handed over.
NamedKept == named \subseteq open \cup handed

\* What the cursor, an ack or a response has reached, covers all that is below.
Reached ==
    /\ UpTo(cursor) /\ ("ack" \in Ops => UpTo(delivered))
    /\ \A h \in handed : UpTo(h)
    /\ \A p \in Procs : local[p].pc = "ack" => UpTo(local[p].tgt)

\* What a round will mark delivered is in its response; below a row of the
\* response everything is in it too, or covered, or about to be named.
Rounds ==
    \A p \in Procs :
        /\ local[p].pc \notin InPeek => local[p].out = {} /\ local[p].pend = {}
        /\ local[p].pc \in InPeek => AtRound(local[p])
        /\ \A j \in local[p].out, i \in Mine : i <= j =>
              \/ Covered(i) \/ i \in local[p].out
              \/ local[p].pc = "peeked" /\ i \in local[p].pend

PassedInv == Known /\ Modes /\ NamedKept /\ Reached /\ Rounds

-----------------------------------------------------------------------------
(* Operators *)

\* The first n ids of a set are an initial part of it.
LEMMA FirstInitial ==
    ASSUME NEW S \in SUBSET Ids, NEW n \in Nat, NEW j \in First(n, S), NEW i \in S, i <= j
    PROVE  i \in First(n, S)
<1> DEFINE A == {k \in S : k <= i}
           B == {k \in S : k <= j}
<1>1. IsFiniteSet(B)
  <2>1. IsFiniteSet(Ids)
    BY FS_Interval, BusAssumption DEF Ids
  <2>2. B \subseteq Ids
    OBVIOUS
  <2> QED BY <2>1, <2>2, FS_Subset
<1>2. A \subseteq B
  <2>1. \A k \in S : k \in Int
    BY DEF Ids
  <2> QED BY <2>1 DEF First
<1>3. IsFiniteSet(A) /\ Cardinality(A) <= Cardinality(B)
  BY <1>1, <1>2, FS_Subset
<1>4. Cardinality(A) \in Int /\ Cardinality(B) \in Int
  BY <1>1, <1>3, FS_CardinalityType
<1>5. Cardinality(B) <= n
  BY DEF First
<1> HIDE DEF A, B
<1>6. Cardinality(A) <= n
  BY <1>3, <1>4, <1>5
<1> QED BY <1>6 DEF First, A

\* A page has no gaps: it is all that lies between the cursor and its end.
LEMMA PageInitial ==
    ASSUME TypeOK, NEW i \in Mine, NEW j \in Page, i <= j, ~(i <= cursor)
    PROVE  i \in Page
<1> DEFINE S == {k \in Mine : k > cursor}
<1>1. S \in SUBSET Ids /\ i \in S
  BY RowsTyped DEF TypeOK, Ids, Ids0
<1> HIDE DEF S
<1>2. j \in First(PageLimit, S) /\ PageLimit \in Nat
  BY BusAssumption DEF Page, S
<1>3. i \in First(PageLimit, S)
  BY <1>1, <1>2, FirstInitial
<1> QED BY <1>3 DEF Page, S

\* An ack stays where the cursor is, or goes no further than it was asked to
\* and than its cap.
LEMMA TargetBetween ==
    ASSUME NEW c \in Ids0, NEW a \in Ids0, NEW b \in Ids0
    PROVE  Bigger(c, Smaller(a, b)) = c
           \/ (Bigger(c, Smaller(a, b)) <= a /\ Bigger(c, Smaller(a, b)) <= b)
BY DEF Bigger, Smaller, Ids0

\* The ids of the table, and the bounds, are numbers.
LEMMA Numbers ==
    ASSUME TypeOK
    PROVE  /\ Ids0 \subseteq Int /\ Ids \subseteq Int /\ Len(msgs) \in Nat
           /\ cursor \in Ids0 /\ delivered \in Ids0 /\ cursor \in Int /\ delivered \in Int
           /\ Mine \subseteq DOMAIN msgs /\ DOMAIN msgs = 1 .. Len(msgs)
BY DEF TypeOK, Ids, Ids0, Mine

-----------------------------------------------------------------------------
(* Nothing passed is lost *)

\* A step that adds rows or changes verdicts, and starts, goes on with or ends
\* a call that has reached no row.
LEMMA PassedSteady ==
    ASSUME TypeOK, PassedInv, UNCHANGED <<cursor, delivered, handed, named, open>>,
           Len(msgs') \in Nat, Len(msgs) <= Len(msgs'), DOMAIN msgs' = 1 .. Len(msgs'),
           \A i \in DOMAIN msgs : msgs'[i].to = msgs[i].to,
           \A i \in DOMAIN msgs' : msgs'[i].root \in DOMAIN msgs', Modes',
           \A p \in Procs : \/ local'[p] = local[p]
                            \/ Outside(local'[p])
    PROVE  PassedInv'
<1>1. DOMAIN msgs \subseteq DOMAIN msgs'
  BY Numbers
<1>2. \A p \in Procs : local[p] \in Local
  BY DEF TypeOK
<1>3. Known'
  <2>1. cursor <= Len(msgs') /\ ("ack" \in Ops => delivered <= Len(msgs'))
    BY Numbers DEF PassedInv, Known
  <2>2. ASSUME NEW p \in Procs
        PROVE  /\ local'[p].out \cup local'[p].pend \subseteq DOMAIN msgs'
               /\ local'[p].pc = "ack" => local'[p].tgt <= Len(msgs')
    <3>1. CASE local'[p] = local[p]
      <4>1. /\ local[p].out \cup local[p].pend \subseteq DOMAIN msgs /\ local[p].tgt \in Int
            /\ local[p].pc = "ack" => local[p].tgt <= Len(msgs)
        BY <1>2, Numbers DEF PassedInv, Known, Local
      <4> QED BY <1>1, <3>1, <4>1, Numbers
    <3>2. CASE Outside(local'[p])
      BY <3>2 DEF Outside
    <3> QED BY <3>1, <3>2
  <2> QED BY <1>1, <2>1, <2>2 DEF PassedInv, Known
<1>4. \A i \in Mine' : i \in Mine \/ i > Len(msgs)
  BY Numbers DEF Mine
\* What was below a bound is what was below it before.
<1>5. ASSUME NEW n, n \in Int, n <= Len(msgs), UpTo(n) PROVE UpTo(n)'
  <2> SUFFICES ASSUME NEW i \in Mine', i <= n PROVE Covered(i)'
    BY DEF UpTo
  <2>1. i \in Int
    BY DEF Mine
  <2>2. i \in Mine
    BY <1>4, <1>5, <2>1, Numbers
  <2> QED BY <1>5, <2>2 DEF UpTo, Covered
<1>6. Reached'
  <2>1. UpTo(cursor)' /\ ("ack" \in Ops => UpTo(delivered)')
    BY <1>5, Numbers DEF PassedInv, Known, Reached
  <2>2. \A h \in handed : UpTo(h)'
    BY <1>5, Numbers DEF PassedInv, Known, Reached
  <2>3. ASSUME NEW p \in Procs, local'[p].pc = "ack" PROVE UpTo(local[p].tgt)'
    <3>1. local'[p] = local[p]
      BY <2>3 DEF Outside
    <3>2. local[p].tgt \in Int /\ local[p].tgt <= Len(msgs) /\ UpTo(local[p].tgt)
      BY <1>2, <2>3, <3>1, Numbers DEF PassedInv, Known, Reached, Local
    <3> QED BY <1>5, <3>1, <3>2 DEF UpTo
  <2> QED BY <2>1, <2>2, <2>3 DEF Reached
<1>7. Rounds'
  <2> SUFFICES ASSUME NEW p \in Procs
               PROVE  /\ local'[p].pc \notin InPeek => local'[p].out = {} /\ local'[p].pend = {}
                      /\ local'[p].pc \in InPeek =>
                            AtRound(local'[p])
                      /\ \A j \in local'[p].out, i \in Mine' : i <= j =>
                            \/ Covered(i)' \/ i \in local'[p].out
                            \/ local'[p].pc = "peeked" /\ i \in local'[p].pend
    BY DEF Rounds
  <2>1. CASE Outside(local'[p])
    BY <2>1 DEF Outside
  <2>2. CASE local'[p] = local[p]
    <3>1. ASSUME NEW j \in local[p].out, NEW i \in Mine', i <= j PROVE i \in Mine
      <4>1. j \in DOMAIN msgs /\ i \in Int
        BY DEF PassedInv, Known, Mine
      <4> QED BY <1>4, <3>1, <4>1, Numbers
    <3> QED BY <2>2, <3>1 DEF PassedInv, Rounds, Covered
  <2> QED BY <2>1, <2>2
<1> QED BY <1>3, <1>6, <1>7 DEF PassedInv, NamedKept

\* What was covered stays so while nothing is taken back.
LEMMA CoveredStays ==
    ASSUME UNCHANGED msgs, handed \subseteq handed', named \subseteq named'
    PROVE  /\ \A i : Covered(i) => Covered(i)'
           /\ \A n : UpTo(n) => UpTo(n)'
           /\ Mine' = Mine
BY DEF Covered, UpTo, Mine

\* What is covered up to a row is covered up to the rows below it.
LEMMA BelowUpTo ==
    ASSUME TypeOK, NEW m \in Int, NEW n \in Int, n <= m, UpTo(m)
    PROVE  UpTo(n)
<1>1. \A i \in Mine : i \in Int
  BY Numbers
<1> QED BY <1>1 DEF UpTo

\* A recv that hands over or names every row of its page.
LEMMA PassedRecv ==
    ASSUME TypeOK, PassedInv, UNCHANGED <<msgs, local>>,
           NEW top \in Page, IsTop(top, Page), cursor' = top,
           delivered' = delivered \/ delivered' <= top, delivered' \in Int,
           handed \subseteq handed', handed' \subseteq handed \cup Page,
           named \subseteq named', named' \subseteq named \cup Page,
           Page \subseteq handed' \cup named', named' \subseteq open' \cup handed',
           ~Product => named' = {}
    PROVE  PassedInv'
<1>1. Page \subseteq Mine /\ top \in Int /\ top <= Len(msgs)
  BY PageTyped, Numbers
<1>2. ASSUME NEW n, n \in Int, n <= top PROVE UpTo(n)'
  <2> SUFFICES ASSUME NEW i \in Mine, i <= n PROVE Covered(i)'
    BY DEF UpTo, Mine
  <2>1. i \in Int
    BY Numbers
  <2>2. CASE i <= cursor
    BY <2>2, CoveredStays DEF PassedInv, Reached, UpTo
  <2>3. CASE ~(i <= cursor)
    <3>1. i <= top
      BY <1>1, <1>2, <2>1
    <3> QED BY <2>3, <3>1, PageInitial DEF Covered
  <2> QED BY <2>2, <2>3
<1>3. \A h \in Page : h \in Int /\ h <= top
  BY <1>1, Numbers DEF IsTop
<1>4. Reached'
  <2>1. UpTo(cursor)'
    BY <1>1, <1>2
  <2>2. "ack" \in Ops => UpTo(delivered)'
    BY <1>2, CoveredStays DEF PassedInv, Reached
  <2>3. \A h \in handed' : UpTo(h)'
    BY <1>2, <1>3, CoveredStays DEF PassedInv, Reached
  <2>4. \A p \in Procs : local'[p].pc = "ack" => UpTo(local[p].tgt)'
    BY CoveredStays DEF PassedInv, Reached
  <2> QED BY <2>1, <2>2, <2>3, <2>4 DEF Reached
<1>5. Known'
  <2>1. cursor' <= Len(msgs) /\ ("ack" \in Ops => delivered' <= Len(msgs))
    BY <1>1, Numbers DEF PassedInv, Known
  <2>2. Page \subseteq DOMAIN msgs
    BY <1>1, Numbers
  <2> QED BY <2>1, <2>2 DEF PassedInv, Known
<1>6. Rounds'
  BY CoveredStays DEF PassedInv, Rounds
<1> QED BY <1>4, <1>5, <1>6 DEF PassedInv, Modes, NamedKept

\* A row is added: another message, the same one again, a replay.
LEMMA PassedInsert ==
    ASSUME TypeOK, PassedInv, UNCHANGED <<cursor, delivered, handed, named, open>>,
           NEW row \in Row, Insert(row), row.root \in DOMAIN msgs \cup {NewId},
           Product => row.kind = "msg" /\ row.verdict # "sds",
           \A p \in Procs : \/ local'[p] = local[p]
                            \/ Outside(local'[p])
    PROVE  PassedInv'
<1>1. /\ msgs' \in Seq(Row) /\ Len(msgs') = Len(msgs) + 1 /\ NewId = Len(msgs) + 1
      /\ msgs'[NewId] = row /\ \A i \in DOMAIN msgs : msgs'[i] = msgs[i]
  BY InsertTyped DEF NewId
<1>2. Len(msgs') \in Nat /\ Len(msgs) <= Len(msgs') /\ DOMAIN msgs' = 1 .. Len(msgs')
  BY <1>1, Numbers
<1>3. DOMAIN msgs' = DOMAIN msgs \cup {NewId}
  BY <1>1, <1>2, Numbers
<1>4. /\ \A i \in DOMAIN msgs : msgs'[i].to = msgs[i].to
      /\ \A i \in DOMAIN msgs' : msgs'[i].root \in DOMAIN msgs'
  BY <1>1, <1>3 DEF PassedInv, Known
<1>5. Modes'
  BY <1>1, <1>3 DEF PassedInv, Modes
<1> QED BY <1>2, <1>4, <1>5, PassedSteady

\* The environment keeps the invariant, ...
LEMMA PassedEnvironment ==
    ASSUME TypeOK, PassedInv, NoEnvelopes, Environment
    PROVE  PassedInv'
<1>1. UNCHANGED <<cursor, delivered, handed, named, open, local>>
  BY DEF Environment, Send, SendOther, Resend, Reclassify, Matures, KeyRegistered, GoesStale
<1>2. ASSUME NEW v \in Verdicts, Send(v) PROVE PassedInv'
  <2> DEFINE row == [to |-> Me, kind |-> "msg", root |-> NewId, orig |-> 0, verdict |-> v]
  <2>1. Insert(row)
    BY <1>2 DEF Send
  <2>2. NewId \in Ids
    BY <2>1, NewIdTyped
  <2>3. /\ row \in Row /\ row.root = NewId /\ row.kind = "msg"
        /\ Product => row.verdict # "sds"
    BY <2>2, IdsTyped, BusAssumption DEF Row, NoEnvelopes
  <2> HIDE DEF row
  <2> QED BY <1>1, <2>1, <2>3, PassedInsert
<1>3. CASE SendOther
  <2> DEFINE row == [to |-> Other, kind |-> "msg", root |-> NewId, orig |-> 0, verdict |-> "ok"]
  <2>1. Insert(row)
    BY <1>3 DEF SendOther
  <2>2. NewId \in Ids
    BY <2>1, NewIdTyped
  <2>3. row \in Row /\ row.root = NewId /\ row.kind = "msg" /\ row.verdict # "sds"
    BY <2>2, IdsTyped DEF Row, AllVerdicts
  <2> HIDE DEF row
  <2> QED BY <1>1, <2>1, <2>3, PassedInsert
<1>4. ASSUME NEW i \in DOMAIN msgs, Resend(i) PROVE PassedInv'
  <2> DEFINE row == [msgs[i] EXCEPT !.kind = "msg"]
  <2>1. Insert(row) /\ msgs[i] \in Row /\ msgs[i].root \in DOMAIN msgs
        /\ (Product => msgs[i].verdict # "sds")
    BY <1>4, RowsTyped DEF Resend, PassedInv, Known, Modes
  <2>2. /\ row \in Row /\ row.root = msgs[i].root /\ row.kind = "msg"
        /\ row.verdict = msgs[i].verdict
    BY <2>1 DEF Row
  <2> HIDE DEF row
  <2> QED BY <1>1, <2>1, <2>2, PassedInsert
<1>5. ASSUME NEW i \in DOMAIN msgs, NEW from, NEW to \in {"ok", "stale"}, Reclassify(i, from, to)
      PROVE  PassedInv'
  <2>1. /\ msgs' = [msgs EXCEPT ![i] = [msgs[i] EXCEPT !.verdict = to]]
        /\ msgs[i] \in Row
    BY <1>5, RowsTyped DEF Reclassify
  <2>2. /\ [msgs[i] EXCEPT !.verdict = to] \in Row
        /\ [msgs[i] EXCEPT !.verdict = to].to = msgs[i].to
        /\ [msgs[i] EXCEPT !.verdict = to].root = msgs[i].root
        /\ [msgs[i] EXCEPT !.verdict = to].kind = msgs[i].kind
        /\ [msgs[i] EXCEPT !.verdict = to].verdict # "sds"
    BY <2>1 DEF Row, AllVerdicts
  <2> DEFINE row == [msgs[i] EXCEPT !.verdict = to]
  <2> HIDE DEF row
  <2>3. msgs' = [msgs EXCEPT ![i] = row]
    BY <2>1 DEF row
  <2>4. /\ row \in Row /\ row.to = msgs[i].to /\ row.root = msgs[i].root
        /\ row.kind = msgs[i].kind /\ row.verdict # "sds"
    BY <2>2 DEF row
  <2>5. /\ Len(msgs') = Len(msgs) /\ DOMAIN msgs' = DOMAIN msgs /\ msgs'[i] = row
        /\ \A j \in DOMAIN msgs \ {i} : msgs'[j] = msgs[j]
    BY <2>3, <2>4 DEF TypeOK
  <2>6. Len(msgs') \in Nat /\ Len(msgs) <= Len(msgs') /\ DOMAIN msgs' = 1 .. Len(msgs')
    BY <2>5, Numbers
  <2>7. /\ \A j \in DOMAIN msgs : msgs'[j].to = msgs[j].to
        /\ \A j \in DOMAIN msgs' : msgs'[j].root \in DOMAIN msgs'
    BY <2>4, <2>5 DEF PassedInv, Known
  <2>8. Modes'
    BY <1>1, <2>4, <2>5 DEF PassedInv, Modes
  <2> QED BY <1>1, <2>6, <2>7, <2>8, PassedSteady
<1> QED
  BY <1>2, <1>3, <1>4, <1>5 DEF Environment, Matures, KeyRegistered, GoesStale

\* ... and so do a replay, which copies originals, and the end of a call.
LEMMA PassedReplay ==
    ASSUME TypeOK, ReplayInv, PassedInv, NEW p \in Procs,
           \/ ReplayRead(p) \/ ReplayLog(p) \/ Stop(p)
           \/ \E i \in Ids : ReplaySigned(p, i) \/ ReplaySend(p, i)
    PROVE  PassedInv'
<1>1. UNCHANGED <<cursor, delivered, handed, named, open>>
  BY DEF ReplayRead, ReplayLog, Stop, ReplaySigned, ReplaySend, busVars
<1>2. Outside(Idle) /\ \A i : Outside(Rest(p, i))
  BY DEF Idle, Rest, InPeek, Outside
<1>3. CASE UNCHANGED msgs /\ (ReplayRead(p) \/ ReplayLog(p) \/ Stop(p)
                              \/ \E i \in Ids : ReplaySigned(p, i))
  <2> DEFINE l == [Idle EXCEPT !.pc = "replay", !.ids = Candidates]
  <2>1. Goto(p, l) \/ Goto(p, Idle) \/ \E i : Goto(p, Rest(p, i))
    BY <1>3 DEF ReplayRead, ReplayLog, Stop, ReplaySigned
  <2>2. Outside(l)
    BY DEF Idle, InPeek, Outside
  <2> HIDE DEF l
  <2>3. \A q \in Procs : \/ local'[q] = local[q]
                         \/ Outside(local'[q])
    BY <1>2, <2>1, <2>2, GotoMoves
  <2>4. \A i \in DOMAIN msgs' : msgs'[i].root \in DOMAIN msgs'
    BY <1>3 DEF PassedInv, Known
  <2>5. Modes'
    BY <1>1, <1>3 DEF PassedInv, Modes
  <2> QED BY <1>1, <1>3, <2>3, <2>4, <2>5, Numbers, PassedSteady
<1>4. ASSUME NEW i \in Ids, ReplaySigned(p, i), ~UNCHANGED msgs PROVE PassedInv'
  <2>1. /\ Insert(msgs[i]) /\ i \in local[p].ids /\ local[p].pc = "replay" /\ Goto(p, Rest(p, i))
    BY <1>4 DEF ReplaySigned, IsNextCandidate
  <2>2. i \in DOMAIN msgs
    BY <2>1 DEF ReplayInv, CallsOriginals, Originals
  <2>3. /\ msgs[i] \in Row /\ msgs[i].root \in DOMAIN msgs
        /\ Product => msgs[i].kind = "msg" /\ msgs[i].verdict # "sds"
    BY <2>2, RowsTyped DEF PassedInv, Known, Modes
  <2>4. \A q \in Procs : \/ local'[q] = local[q]
                         \/ Outside(local'[q])
    BY <1>2, <2>1, GotoMoves
  <2> QED BY <1>1, <2>1, <2>3, <2>4, PassedInsert
<1>5. ASSUME NEW i \in Ids, ReplaySend(p, i) PROVE PassedInv'
  <2> DEFINE row == [to |-> Me, kind |-> "replay", root |-> NewId, orig |-> i, verdict |-> "ok"]
             l == [local[p] EXCEPT !.pc = "sent", !.base = i, !.tgt = NewId]
  <2>1. ~Product /\ Insert(row) /\ Goto(p, l) /\ local[p].pc = "replay"
    BY <1>5 DEF ReplaySend
  <2>2. NewId \in Ids
    BY <2>1, NewIdTyped
  <2>3. row \in Row /\ row.root = NewId
    BY <2>2, IdsTyped DEF Row, AllVerdicts
  <2>4. local[p] \in Local /\ local[p].out = {} /\ local[p].pend = {}
    BY <2>1 DEF TypeOK, PassedInv, Rounds, InPeek
  <2>5. Outside(l)
    BY <2>4 DEF Local, InPeek, Outside
  <2> HIDE DEF row, l
  <2>6. \A q \in Procs : \/ local'[q] = local[q]
                         \/ Outside(local'[q])
    BY <2>1, <2>5, GotoMoves
  <2> QED BY <1>1, <2>1, <2>3, <2>6, PassedInsert
<1>6. CASE ReplayRead(p) \/ ReplayLog(p) \/ Stop(p)
  <2>1. UNCHANGED msgs
    BY <1>6 DEF ReplayRead, ReplayLog, Stop, busVars
  <2> QED BY <1>3, <1>6, <2>1
<1> QED BY <1>3, <1>4, <1>5, <1>6

\* Without the envelope gate, what passes the check is handed over.
LEMMA NoGate ==
    ASSUME TypeOK, PassedInv, Product
    PROVE  /\ {i \in Kept : Verdict(i) # "sds"} = Kept
           /\ {i \in PeekKept : Verdict(i) # "sds"} = PeekKept
<1>1. \A i \in DOMAIN msgs : Verdict(i) # "sds"
  BY DEF PassedInv, Known, Modes, Verdict
<1> QED BY <1>1, PageTyped, Numbers

\* recv covers its page.
LEMMA PassedReads ==
    ASSUME TypeOK, PassedInv, NEW p \in Procs, RecvDev(p) \/ RecvProduct(p)
    PROVE  PassedInv'
<1>1. CASE RecvDev(p)
  <2>1. PICK top \in Page : EndsPage(top) /\ cursor' = top /\ delivered' = Bigger(delivered, top)
    BY <1>1 DEF RecvDev
  <2>2. /\ UNCHANGED <<msgs, local, named, open>> /\ handed' = handed \cup Page /\ ~Product
    BY <1>1 DEF RecvDev
  <2>3. top \in Int /\ IsTop(top, Page)
    BY <2>1, PageTyped, Numbers DEF EndsPage
  <2>4. (delivered' = delivered \/ delivered' <= top) /\ delivered' \in Int
    BY <2>1, <2>3, Numbers DEF Bigger
  <2>5. named = {}
    BY <2>2 DEF PassedInv, Modes
  <2> QED BY <2>1, <2>2, <2>3, <2>4, <2>5, PassedRecv
<1>2. CASE RecvProduct(p)
  <2>1. PICK top \in Page, acc \in Kept \cup {0} :
            EndsPage(top) /\ cursor' = top /\ delivered' = Bigger(delivered, acc)
    BY <1>2 DEF RecvProduct
  <2>2. /\ UNCHANGED <<msgs, local>> /\ Product
        /\ handed' = handed \cup {i \in Kept : Verdict(i) # "sds"}
        /\ named' = named \cup (Page \ Kept) /\ open' = open \cup (Page \ Kept)
    BY <1>2 DEF RecvProduct
  <2>3. handed' = handed \cup Kept
    BY <2>2, NoGate
  <2>4. top \in Ids /\ top \in Int /\ IsTop(top, Page) /\ acc \in Int /\ acc <= top
    <3>1. top \in Ids /\ top > 0 /\ \A i \in Page : i <= top /\ i \in Int
      BY <2>1, PageTyped, RowsTyped, Numbers DEF EndsPage, IsTop, Ids
    <3> QED BY <2>1, <3>1, PageTyped, Numbers DEF EndsPage
  <2>5. (delivered' = delivered \/ delivered' <= top) /\ delivered' \in Int
    BY <2>1, <2>4, Numbers DEF Bigger
  <2>6. /\ handed' \subseteq handed \cup Page /\ named' \subseteq named \cup Page
        /\ Page \subseteq handed' \cup named'
    BY <2>2, <2>3, PageTyped
  <2>7. named' \subseteq open' \cup handed'
    BY <2>2, <2>3 DEF PassedInv, NamedKept
  <2> QED BY <2>1, <2>2, <2>3, <2>4, <2>5, <2>6, <2>7, PassedRecv
<1> QED BY <1>1, <1>2

\* A step of one call that reads or marks rows; what it reaches is covered.
LEMMA PassedMoves ==
    ASSUME TypeOK, PassedInv, NEW p \in Procs, UNCHANGED msgs,
           \A q \in Procs : q # p => local'[q] = local[q],
           handed \subseteq handed', named \subseteq named', NamedKept',
           handed' \subseteq DOMAIN msgs, named' \subseteq DOMAIN msgs, ~Product => named' = {},
           cursor' <= Len(msgs), UpTo(cursor)', "ack" \in Ops => delivered' = delivered,
           \A h \in handed' : UpTo(h)',
           local'[p].out \cup local'[p].pend \subseteq DOMAIN msgs,
           local'[p].pc = "ack" => local'[p].tgt <= Len(msgs) /\ UpTo(local[p].tgt)',
           local'[p].pc \notin InPeek => local'[p].out = {} /\ local'[p].pend = {},
           local'[p].pc \in InPeek => AtRound(local'[p]),
           \A j \in local'[p].out, i \in Mine : i <= j =>
              \/ Covered(i)' \/ i \in local'[p].out
              \/ local'[p].pc = "peeked" /\ i \in local'[p].pend
    PROVE  PassedInv'
<1>1. Mine' = Mine
  BY DEF Mine
<1>2. Known'
  BY DEF PassedInv, Known
<1>3. \A q \in Procs : local'[q].pc = "ack" => UpTo(local[q].tgt)'
  <2> SUFFICES ASSUME NEW q \in Procs, local'[q].pc = "ack", q # p
               PROVE  UpTo(local[q].tgt)'
    OBVIOUS
  <2>1. UpTo(local[q].tgt) /\ local'[q].tgt = local[q].tgt
    BY DEF PassedInv, Reached
  <2> QED BY <1>1, <2>1 DEF UpTo, Covered
<1>4. Reached'
  <2>1. "ack" \in Ops => UpTo(delivered)'
    BY <1>1 DEF PassedInv, Reached, UpTo, Covered
  <2> QED BY <1>3, <2>1 DEF Reached
<1>5. Rounds'
  <2> SUFFICES ASSUME NEW q \in Procs
               PROVE  /\ local'[q].pc \notin InPeek => local'[q].out = {} /\ local'[q].pend = {}
                      /\ local'[q].pc \in InPeek =>
                            AtRound(local'[q])
                      /\ \A j \in local'[q].out, i \in Mine : i <= j =>
                            \/ Covered(i)' \/ i \in local'[q].out
                            \/ local'[q].pc = "peeked" /\ i \in local'[q].pend
    BY <1>1 DEF Rounds
  <2>1. CASE q = p
    BY <2>1
  <2>2. CASE q # p
    BY <2>2 DEF PassedInv, Rounds, Covered
  <2> QED BY <2>1, <2>2
<1>6. Modes'
  BY DEF PassedInv, Modes
<1> QED BY <1>2, <1>4, <1>5, <1>6 DEF PassedInv

\* A peek returns or names every row of its page.
LEMMA PassedPeek ==
    ASSUME TypeOK, PassedInv, NEW p \in Procs, PeekRead(p) \/ PeekAudit(p)
    PROVE  PassedInv'
<1>0. local[p] \in Local /\ Page \subseteq Mine /\ Page \subseteq DOMAIN msgs
  BY PageTyped, Numbers DEF TypeOK
<1>1. CASE PeekRead(p)
  <2> DEFINE out == IF Product THEN {i \in PeekKept : Verdict(i) # "sds"} ELSE Page
             rej == IF Product THEN PeekRejected ELSE {}
             l == [Idle EXCEPT !.pc = IF rej = {} THEN "returned" ELSE "peeked",
                               !.ids = out, !.out = out, !.pend = rej]
  <2>1. Goto(p, l) /\ "peek" \in Ops
    BY <1>1 DEF PeekRead
  <2>2. UNCHANGED <<msgs, cursor, delivered, named, open, handed>>
    BY <1>1 DEF PeekRead, busVars
  <2>3. /\ out \subseteq Page /\ rej \subseteq Page /\ (rej # {} => Product)
        /\ \A i \in Page : i \in out \/ i \in named \/ i \in rej
    <3>1. CASE Product
      BY <3>1, NoGate, PageTyped DEF PeekRejected
    <3>2. CASE ~Product
      BY <3>2
    <3> QED BY <3>1, <3>2
  <2> HIDE DEF out, rej
  <2>4. /\ l.pc \in {"returned", "peeked"} /\ l.ids = out /\ l.out = out /\ l.pend = rej
        /\ l.pc = "peeked" <=> rej # {}
    BY DEF Idle
  <2> HIDE DEF l
  <2>5. local'[p] = l /\ \A q \in Procs : q # p => local'[q] = local[q]
    BY <2>1, GotoMoves
  <2>6. ASSUME NEW j \in out, NEW i \in Mine, i <= j
        PROVE  Covered(i) \/ i \in out \/ i \in rej
    <3>1. CASE i <= cursor
      BY <3>1 DEF PassedInv, Reached, UpTo
    <3>2. CASE ~(i <= cursor)
      BY <2>3, <2>6, <3>2, PageInitial DEF Covered
    <3> QED BY <3>1, <3>2
  <2>7. /\ UpTo(cursor)' /\ NamedKept' /\ cursor' <= Len(msgs) /\ (~Product => named' = {})
        /\ handed' \subseteq DOMAIN msgs /\ named' \subseteq DOMAIN msgs
    BY <2>2, CoveredStays DEF PassedInv, Reached, NamedKept, Known, Modes
  <2>8. \A h \in handed' : UpTo(h)'
    BY <2>2, CoveredStays DEF PassedInv, Reached
  <2>9. \A j \in local'[p].out, i \in Mine : i <= j =>
              \/ Covered(i)' \/ i \in local'[p].out
              \/ local'[p].pc = "peeked" /\ i \in local'[p].pend
    BY <2>2, <2>4, <2>5, <2>6 DEF Covered
  <2>10. local'[p].pc \in InPeek /\ local'[p].pc # "ack" /\ AtRound(local'[p])
         /\ local'[p].out \cup local'[p].pend \subseteq DOMAIN msgs
    BY <1>0, <2>1, <2>3, <2>4, <2>5 DEF InPeek, AtRound
  <2> QED BY <2>1, <2>2, <2>5, <2>7, <2>8, <2>9, <2>10, PassedMoves
<1>2. CASE PeekAudit(p)
  <2> DEFINE l == [local[p] EXCEPT !.pc = "returned", !.pend = {}]
  <2>1. /\ Goto(p, l) /\ local[p].pc = "peeked"
        /\ named' = named \cup local[p].pend /\ open' = open \cup local[p].pend
        /\ UNCHANGED <<msgs, cursor, delivered, handed>>
    BY <1>2 DEF PeekAudit
  <2>2. l.pc = "returned" /\ l.ids = local[p].ids /\ l.out = local[p].out /\ l.pend = {}
    BY <1>0 DEF Local
  <2> HIDE DEF l
  <2>3. local'[p] = l /\ \A q \in Procs : q # p => local'[q] = local[q]
    BY <2>1, GotoMoves
  <2>4. /\ UpTo(cursor)' /\ NamedKept' /\ cursor' <= Len(msgs)
        /\ \A h \in handed' : UpTo(h)'
    BY <2>1, CoveredStays DEF PassedInv, Reached, NamedKept, Known
  <2>5. /\ AtRound(local[p]) /\ Product
        /\ local[p].out \cup local[p].pend \subseteq DOMAIN msgs
        /\ handed' \subseteq DOMAIN msgs /\ named' \subseteq DOMAIN msgs
    BY <2>1 DEF PassedInv, Known, Rounds, InPeek, AtRound
  <2>6. AtRound(local'[p])
    BY <2>1, <2>2, <2>3, <2>5 DEF AtRound
  <2>7. \A j \in local'[p].out, i \in Mine : i <= j => Covered(i)' \/ i \in local'[p].out
    BY <2>1, <2>2, <2>3 DEF PassedInv, Rounds, Covered
  <2> QED BY <2>1, <2>2, <2>3, <2>4, <2>5, <2>6, <2>7, PassedMoves DEF InPeek
<1> QED BY <1>1, <1>2

\* A response hands over what was peeked; without lost ones, all of it.
LEMMA PassedMark ==
    ASSUME TypeOK, PassedInv, ByRecv \/ ByRounds, NEW p \in Procs,
           MarkFilter(p) \/ MarkPend(p) \/ MarkWrite(p)
    PROVE  PassedInv'
<1>0. /\ local[p] \in Local /\ Mine \subseteq DOMAIN msgs
      /\ Idle.pc = "idle" /\ Idle.out = {} /\ Idle.pend = {}
  BY Numbers DEF TypeOK, Idle
<1>1. /\ UNCHANGED <<msgs, cursor, named>>
      /\ local[p].pc \in {"returned", "filtered", "pending"}
  BY DEF MarkFilter, MarkPend, MarkWrite, busVars
<1>2. /\ AtRound(local[p]) /\ local[p].out \subseteq DOMAIN msgs
      /\ \A j \in local[p].out, i \in Mine : i <= j => Covered(i) \/ i \in local[p].out
  BY <1>1 DEF PassedInv, Known, Rounds, InPeek
<1>3. "ack" \notin Ops /\ "lossy" \notin Ops
  BY <1>2 DEF AtRound, ByRecv, ByRounds
<1>4. \/ UNCHANGED <<handed, open>>
      \/ handed' = handed \cup local[p].out /\ open \subseteq open' \cup local[p].out
  <2>1. CASE MarkFilter(p)
    BY <1>3, <2>1 DEF MarkFilter, Respond, busVars
  <2>2. CASE MarkPend(p)
    BY <2>2 DEF MarkPend, busVars
  <2>3. CASE MarkWrite(p)
    <3>1. handed' = handed \cup local[p].out /\ open' = open \ local[p].ids
      BY <1>3, <2>3 DEF MarkWrite, Respond, Closed
    <3> QED BY <1>2, <3>1 DEF AtRound
  <2> QED BY <2>1, <2>2, <2>3
<1>5. /\ handed \subseteq handed' /\ handed' \subseteq DOMAIN msgs /\ NamedKept'
      /\ named' \subseteq DOMAIN msgs /\ cursor' <= Len(msgs) /\ UpTo(cursor)'
      /\ ~Product => named' = {}
  BY <1>1, <1>2, <1>4, CoveredStays DEF PassedInv, NamedKept, Known, Reached, Modes
<1>6. \A h \in handed' : UpTo(h)'
  <2> SUFFICES ASSUME NEW h \in handed', NEW i \in Mine, i <= h PROVE Covered(i)'
    BY <1>1 DEF UpTo, Mine
  <2>1. CASE h \in handed
    BY <1>1, <1>5, <2>1, CoveredStays DEF PassedInv, Reached, UpTo
  <2>2. CASE h \notin handed
    <3>1. handed' = handed \cup local[p].out /\ h \in local[p].out
      BY <1>4, <2>2
    <3> QED BY <1>1, <1>2, <3>1 DEF Covered
  <2> QED BY <2>1, <2>2
\* The call goes on with the same response and fewer ids, or ends.
<1>7. PICK l : /\ local'[p] = l /\ \A q \in Procs : q # p => local'[q] = local[q]
               /\ \/ l = Idle
                  \/ /\ l.pc \in {"filtered", "pending"}
                     /\ l.out = local[p].out /\ l.ids \subseteq local[p].ids
                     /\ l.pend \subseteq DOMAIN msgs
  <2>1. CASE MarkFilter(p)
    <3> DEFINE l == [local[p] EXCEPT !.pc = "filtered",
                       !.ids = local[p].ids \ PermanentRejects(local[p].ids)]
    <3>1. Goto(p, Idle) \/ Goto(p, l)
      BY <2>1 DEF MarkFilter
    <3>2. /\ l.pc = "filtered" /\ l.out = local[p].out /\ l.ids \subseteq local[p].ids
          /\ l.pend = local[p].pend
      BY <1>0 DEF Local
    <3>3. local[p].pend \subseteq DOMAIN msgs
      BY DEF PassedInv, Known
    <3> HIDE DEF l
    <3> QED BY <3>1, <3>2, <3>3, GotoMoves
  <2>2. CASE MarkPend(p)
    <3> DEFINE l == [local[p] EXCEPT !.pc = "pending", !.pend = Pending]
    <3>1. Goto(p, l)
      BY <2>2 DEF MarkPend
    <3>2. Pending \subseteq DOMAIN msgs
      BY <1>0 DEF Pending, First
    <3>3. /\ l.pc = "pending" /\ l.out = local[p].out /\ l.ids = local[p].ids
          /\ l.pend = Pending
      BY <1>0 DEF Local
    <3> HIDE DEF l
    <3> QED BY <3>1, <3>2, <3>3, GotoMoves
  <2>3. CASE MarkWrite(p)
    BY <2>3, GotoMoves DEF MarkWrite
  <2> QED BY <2>1, <2>2, <2>3
<1>8. /\ local'[p].out \cup local'[p].pend \subseteq DOMAIN msgs /\ local'[p].pc # "ack"
      /\ local'[p].pc \notin InPeek => local'[p].out = {} /\ local'[p].pend = {}
      /\ local'[p].pc \in InPeek => AtRound(local'[p])
  BY <1>0, <1>2, <1>7 DEF InPeek, AtRound
<1>9. \A j \in local'[p].out, i \in Mine : i <= j => Covered(i)' \/ i \in local'[p].out
  BY <1>0, <1>1, <1>2, <1>5, <1>7, CoveredStays
<1> QED BY <1>1, <1>3, <1>5, <1>6, <1>7, <1>8, <1>9, PassedMoves

\* An ack goes no further than what somebody got, or than delivered_id.
LEMMA PassedAck ==
    ASSUME TypeOK, PassedInv, ByRecv \/ ByRounds, NEW p \in Procs,
           (\E upto \in Ids : AckRead(p, upto)) \/ AckWrite(p)
    PROVE  PassedInv'
<1>1. /\ UNCHANGED <<msgs, delivered, named, open, handed>>
      /\ \A h \in handed' : UpTo(h)'
      /\ NamedKept'
      /\ handed' \subseteq DOMAIN msgs /\ named' \subseteq DOMAIN msgs
      /\ ~Product => named' = {}
  <2>1. UNCHANGED <<msgs, delivered, named, open, handed>>
    BY DEF AckRead, AckWrite, busVars
  <2> QED BY <2>1, CoveredStays DEF PassedInv, Reached, NamedKept, Known, Modes
<1>2. ASSUME NEW upto \in Ids, AckRead(p, upto) PROVE PassedInv'
  <2>1. PICK hi \in Ids0 :
            Goto(p, [Idle EXCEPT !.pc = "ack", !.base = cursor,
                       !.tgt = AckTarget(upto, IF Strict THEN delivered ELSE hi),
                       !.ids = {i \in Mine \ readAt :
                          cursor < i /\ i <= AckTarget(upto, IF Strict THEN delivered ELSE hi)}])
    BY <1>2 DEF AckRead
  <2> DEFINE cap == IF Strict THEN delivered ELSE hi
             tgt == AckTarget(upto, cap)
             skips == {i \in Mine \ readAt : cursor < i /\ i <= tgt}
             l == [Idle EXCEPT !.pc = "ack", !.base = cursor, !.tgt = tgt, !.ids = skips]
  <2>2. Goto(p, l)
    BY <2>1
  <2>3. upto \in Ids0 /\ cap \in Ids0 /\ tgt \in Ids0 /\ tgt \in Int
    BY IdsTyped, Numbers, SmallerTyped, BiggerTyped DEF AckTarget
  <2>4. tgt = cursor \/ (tgt <= upto /\ tgt <= cap)
    <3> HIDE DEF cap
    <3> QED BY <2>3, Numbers, TargetBetween DEF AckTarget
  <2>5. tgt <= Len(msgs) /\ UpTo(tgt)
    <3> HIDE DEF tgt
    <3>1. CASE tgt = cursor
      BY <3>1 DEF PassedInv, Known, Reached
    <3>2. CASE tgt <= upto /\ upto \in handed
      BY <2>3, <3>2, Numbers, BelowUpTo DEF PassedInv, Known, Reached
    <3>3. CASE tgt <= delivered /\ "ack" \in Ops
      BY <2>3, <3>3, Numbers, BelowUpTo DEF PassedInv, Known, Reached
    <3> QED BY <1>2, <2>4, <3>1, <3>2, <3>3 DEF AckRead, ByRecv, ByRounds
  <2> HIDE DEF tgt, skips
  <2>6. l.pc = "ack" /\ l.tgt = tgt /\ l.out = {} /\ l.pend = {}
    BY DEF Idle
  <2> HIDE DEF l
  <2>7. local'[p] = l /\ \A q \in Procs : q # p => local'[q] = local[q]
    BY <2>2, GotoMoves
  <2>8. UNCHANGED cursor /\ cursor <= Len(msgs) /\ UpTo(cursor)'
    BY <1>1, <1>2, CoveredStays DEF AckRead, busVars, PassedInv, Known, Reached
  <2>9. /\ UpTo(local[p].tgt)' /\ local'[p].tgt <= Len(msgs)
        /\ local'[p].out = {} /\ local'[p].pend = {} /\ local'[p].pc \notin InPeek
    BY <1>1, <2>5, <2>6, <2>7 DEF UpTo, Covered, Mine, InPeek
  <2> QED BY <1>1, <2>7, <2>8, <2>9, PassedMoves
<1>3. CASE AckWrite(p)
  <2>1. /\ local[p].pc = "ack" /\ cursor' = local[p].tgt /\ local'[p] = Idle
        /\ \A q \in Procs : q # p => local'[q] = local[q]
    BY <1>3, GotoMoves DEF AckWrite
  <2>2. cursor' <= Len(msgs) /\ UpTo(cursor)'
    BY <1>1, <2>1, CoveredStays DEF PassedInv, Known, Reached
  <2>3. /\ local'[p].out = {} /\ local'[p].pend = {}
        /\ local'[p].pc \notin InPeek /\ local'[p].pc # "ack"
    BY <2>1 DEF Idle, InPeek
  <2> QED BY <1>1, <2>1, <2>2, <2>3, PassedMoves
<1> QED BY <1>2, <1>3

\* Every step keeps the invariant.
LEMMA PassedStep ==
    ASSUME TypeOK, ReplayInv, PassedInv, ByRecv \/ ByRounds, NoEnvelopes, [Next]_vars
    PROVE  PassedInv'
<1>1. CASE UNCHANGED vars
  <2>1. UNCHANGED <<msgs, cursor, delivered, handed, named, open, local>>
    BY <1>1 DEF vars
  <2> QED BY <2>1 DEF PassedInv, Known, Modes, NamedKept, Reached, Rounds, UpTo, Covered, Mine
<1>2. ASSUME NEW p \in Procs, Call(p) PROVE PassedInv'
  BY <1>2, PassedReads, PassedPeek, PassedMark, PassedAck, PassedReplay DEF Call, Continue
<1> QED BY <1>1, <1>2, PassedEnvironment DEF Next

LEMMA PassedInit == Init => PassedInv
<1> SUFFICES ASSUME Init PROVE PassedInv
  OBVIOUS
<1>1. /\ DOMAIN msgs = {} /\ Len(msgs) = 0 /\ Mine = {}
      /\ Idle.out = {} /\ Idle.pend = {} /\ Idle.pc = "idle"
  BY DEF Init, Mine, Idle
<1> QED
  BY <1>1 DEF Init, PassedInv, Known, Modes, NamedKept, Reached, Rounds, UpTo, InPeek

\* The invariants of the table and of what the cursor passes, together.
LEMMA Passed ==
    ASSUME ByRecv \/ ByRounds, NoEnvelopes
    PROVE  Spec => [](TypeOK /\ ReplayInv /\ PassedInv)
<1>1. TypeOK /\ ReplayInv /\ PassedInv /\ [Next]_vars => PassedInv'
  BY PassedStep
<1> QED BY <1>1, PassedInit, Typed, PTL DEF Spec

\* What is covered was handed over, or is rejected and listed.
LEMMA CoveredNotLost ==
    ASSUME TypeOK, PassedInv
    PROVE  NothingLost
<1> SUFFICES ASSUME NEW i \in Mine \ Replays, i <= cursor
             PROVE  Taken(i) \/ i \in Listed
  BY DEF NothingLost
<1>1. CASE i \in handed
  BY <1>1 DEF Taken
<1>2. CASE i \notin handed
  <2>1. i \in named
    BY <1>2 DEF PassedInv, Reached, UpTo, Covered
  <2>2. i \in open /\ Product
    BY <1>2, <2>1 DEF PassedInv, NamedKept, Modes
  <2>3. Replayed = {}
    BY <2>2 DEF PassedInv, Modes, Replayed
  <2> QED BY <2>2, <2>3 DEF Listed
<1> QED BY <1>1, <1>2

\* No-deletion and reconcile, in a mailbox read by recv with the strict ack, or
\* by rounds that are all answered and acknowledged as stored: whatever the
\* cursor has passed was handed over, or reconcile lists it (AgentBus!NothingLost).
THEOREM PassedNotLost ==
    ASSUME ByRecv \/ ByRounds, NoEnvelopes
    PROVE  Spec => []NothingLost
BY CoveredNotLost, Passed, PTL

-----------------------------------------------------------------------------
(* The invariant behind NotStranded, in product mode *)

\* No row waits for its time: such a row is rejected and good again later.
Judged == \A i \in DOMAIN msgs : msgs[i].verdict # "future"

\* The seen-store, what was counted and what was handed over agree.
Counts ==
    /\ \A r \in seen : times[r] > 0
    /\ \A h \in handed : times[msgs[h].root] > 0

\* Accepted once, a content stays accepted until it is stale for good.
Settling(i) == i \in Mine /\ Verdict(i) \in {"ok", "stale"}

\* What an operator replays was accepted when the replay began.
Replaying ==
    \A p \in Procs : /\ local[p].pc # "sent"
                     /\ local[p].pc = "replay" => \A i \in local[p].ids : Settling(i)

\* A copy carries the content of its original; a rejected copy is stale, or
\* its content had been delivered.
Copies ==
    \A c \in copied :
        /\ Settling(c[2]) /\ msgs[c[2]].root = msgs[c[1]].root
        /\ c[2] \in open => Verdict(c[2]) = "stale" \/ msgs[c[2]].root \in seen

StrandInv == Judged /\ Counts /\ Replaying /\ Copies

-----------------------------------------------------------------------------
(* Nothing good is stranded *)

\* A set of ids that is not empty has a first one.
LEMMA LeastId ==
    ASSUME NEW S \in SUBSET Ids, S # {}
    PROVE  \E x \in S : \A y \in S : x <= y
<1>1. S \subseteq Nat
  BY DEF Ids
<1>2. \E x \in S : \A y \in S : ~(<<y, x>> \in OpToRel(<, Nat))
  BY <1>1, WFMin, NatLessThanWellFounded
<1>3. \A x, y \in Nat : <<y, x>> \in OpToRel(<, Nat) <=> y < x
  BY DEF OpToRel
<1>4. PICK x \in S : \A y \in S : ~(<<y, x>> \in OpToRel(<, Nat))
  BY <1>2
<1>5. \A y \in S : ~(y < x)
  BY <1>1, <1>3, <1>4, Zenon
<1>6. \A y \in S : x <= y
  BY <1>1, <1>5
<1> QED BY <1>6

\* A row added leaves what is said of the others as it is.
LEMMA InsertVerdicts ==
    ASSUME TypeOK, PassedInv, NEW row \in Row, Insert(row)
    PROVE  /\ \A i \in DOMAIN msgs : /\ i \in DOMAIN msgs' /\ msgs'[i] = msgs[i]
                                     /\ Verdict(i)' = Verdict(i)
           /\ DOMAIN msgs' = DOMAIN msgs \cup {NewId} /\ msgs'[NewId] = row
           /\ NewId \notin DOMAIN msgs
<1>1. /\ \A i \in DOMAIN msgs : i \in DOMAIN msgs' /\ msgs'[i] = msgs[i]
      /\ msgs' \in Seq(Row) /\ Len(msgs') = Len(msgs) + 1 /\ msgs'[NewId] = row
      /\ NewId \notin DOMAIN msgs
  BY InsertTyped
<1>2. DOMAIN msgs' = DOMAIN msgs \cup {NewId}
  BY <1>1, Numbers DEF NewId
<1> QED BY <1>1, <1>2 DEF PassedInv, Known, Verdict

\* Verdicts settle: what is accepted or stale stays one of the two, and what is
\* stale stays stale.
Settles ==
    /\ \A i \in DOMAIN msgs : /\ i \in DOMAIN msgs' /\ msgs'[i].to = msgs[i].to
                             /\ msgs'[i].root = msgs[i].root
    /\ \A i \in Mine : Verdict(i) \in {"ok", "stale"} => Verdict(i)' \in {"ok", "stale"}
    /\ \A i \in Mine : Verdict(i) = "stale" => Verdict(i)' = "stale"

LEMMA InsertSettles ==
    ASSUME TypeOK, PassedInv, NEW row \in Row, Insert(row)
    PROVE  Settles
BY InsertVerdicts, Numbers DEF Settles, Mine

LEMMA RowsSettle ==
    ASSUME UNCHANGED msgs
    PROVE  Settles
BY DEF Settles, Mine, Verdict

LEMMA ReclassifySettles ==
    ASSUME TypeOK, PassedInv, NEW i \in DOMAIN msgs, NEW from, NEW to \in {"ok", "stale"},
           "stale" \notin from, Reclassify(i, from, to)
    PROVE  Settles /\ (Judged => Judged')
<1>1. /\ msgs' = [msgs EXCEPT ![i] = [msgs[i] EXCEPT !.verdict = to]]
      /\ msgs[i] \in Row /\ msgs[i].verdict # "stale"
  BY RowsTyped DEF Reclassify
<1> DEFINE row == [msgs[i] EXCEPT !.verdict = to]
<1>2. /\ row \in Row /\ row.to = msgs[i].to /\ row.root = msgs[i].root /\ row.verdict = to
  BY <1>1 DEF Row, AllVerdicts
<1>3. msgs' = [msgs EXCEPT ![i] = row]
  BY <1>1
<1> HIDE DEF row
<1>4. /\ DOMAIN msgs' = DOMAIN msgs /\ msgs'[i] = row
      /\ \A j \in DOMAIN msgs \ {i} : msgs'[j] = msgs[j]
  BY <1>2, <1>3 DEF TypeOK
<1>5. \A j \in DOMAIN msgs : /\ msgs'[j].to = msgs[j].to /\ msgs'[j].root = msgs[j].root
                             /\ Verdict(j)' = IF msgs[j].root = i THEN to ELSE Verdict(j)
  BY <1>2, <1>4 DEF PassedInv, Known, Verdict
<1>6. Settles
  BY <1>1, <1>4, <1>5 DEF Settles, Mine, Verdict
<1>7. Judged => Judged'
  BY <1>2, <1>4 DEF Judged
<1> QED BY <1>6, <1>7

\* A step that only settles verdicts, adds rows and ends or starts calls.
LEMMA StrandSteady ==
    ASSUME TypeOK, ReplayInv, PassedInv, StrandInv, Settles, Judged',
           UNCHANGED <<seen, times, handed, open, copied>>,
           \A p \in Procs : \/ local'[p] = local[p]
                            \/ local'[p].pc \notin {"replay", "sent"}
    PROVE  StrandInv'
<1>1. /\ \A i \in DOMAIN msgs : msgs'[i].root = msgs[i].root
      /\ Mine \subseteq Mine' /\ Mine \subseteq DOMAIN msgs
  BY DEF Settles, Mine
<1>2. Counts'
  BY <1>1 DEF StrandInv, Counts, PassedInv, Known
<1>3. \A i : Settling(i) => Settling(i)'
  BY <1>1 DEF Settling, Settles
<1>4. Replaying'
  BY <1>3 DEF StrandInv, Replaying
<1>5. Copies'
  BY <1>1, <1>3 DEF StrandInv, Copies, Settling, Settles, ReplayInv, CopiesKnown, Originals
<1> QED BY <1>2, <1>4, <1>5 DEF StrandInv

\* A mailbox in product mode that only recv and ack read, with no row that is
\* rejected and good again later but for a key registered late.
SettledMail == Product /\ ByRecv /\ {"sds", "future"} \cap Verdicts = {}

\* Messages arrive, are sent again, turn good or stale.
LEMMA StrandEnvironment ==
    ASSUME TypeOK, ReplayInv, PassedInv, StrandInv, SettledMail, Environment
    PROVE  StrandInv'
<1>1. UNCHANGED <<seen, times, handed, open, copied, local>>
  BY DEF Environment, Send, SendOther, Resend, Reclassify, Matures, KeyRegistered, GoesStale
<1>2. SUFFICES Settles /\ Judged'
  BY <1>1, StrandSteady
<1>3. ASSUME NEW row \in Row, Insert(row), row.verdict # "future" PROVE Settles /\ Judged'
  BY <1>3, InsertSettles, InsertVerdicts DEF StrandInv, Judged
<1>4. ASSUME NEW v \in Verdicts, Send(v) PROVE Settles /\ Judged'
  <2> DEFINE row == [to |-> Me, kind |-> "msg", root |-> NewId, orig |-> 0, verdict |-> v]
  <2>1. Insert(row)
    BY <1>4 DEF Send
  <2>2. NewId \in Ids
    BY <2>1, NewIdTyped
  <2>3. row \in Row /\ row.verdict # "future"
    BY <2>2, IdsTyped, BusAssumption DEF Row, SettledMail
  <2> HIDE DEF row
  <2> QED BY <1>3, <2>1, <2>3
<1>5. CASE SendOther
  <2> DEFINE row == [to |-> Other, kind |-> "msg", root |-> NewId, orig |-> 0, verdict |-> "ok"]
  <2>1. Insert(row)
    BY <1>5 DEF SendOther
  <2>2. NewId \in Ids
    BY <2>1, NewIdTyped
  <2>3. row \in Row /\ row.verdict # "future"
    BY <2>2, IdsTyped DEF Row, AllVerdicts
  <2> HIDE DEF row
  <2> QED BY <1>3, <2>1, <2>3
<1>6. ASSUME NEW i \in DOMAIN msgs, Resend(i) PROVE Settles /\ Judged'
  <2> DEFINE row == [msgs[i] EXCEPT !.kind = "msg"]
  <2>1. Insert(row) /\ msgs[i] \in Row /\ msgs[i].verdict # "future"
    BY <1>6, RowsTyped DEF Resend, StrandInv, Judged
  <2>2. row \in Row /\ row.verdict = msgs[i].verdict
    BY <2>1 DEF Row
  <2> HIDE DEF row
  <2> QED BY <1>3, <2>1, <2>2
<1>7. ASSUME NEW i \in DOMAIN msgs, Matures(i) \/ KeyRegistered(i) \/ GoesStale(i)
      PROVE  Settles /\ Judged'
  BY <1>7, ReclassifySettles DEF Matures, KeyRegistered, GoesStale, StrandInv
<1> QED BY <1>4, <1>5, <1>6, <1>7 DEF Environment

\* A row the page rejects although its content is accepted carries a content
\* that is in the seen-store when recv is done: its first row on the page is.
LEMMA RejectedSeen ==
    ASSUME TypeOK, PassedInv, NEW i \in Page \ Kept, Accepted(i)
    PROVE  msgs[i].root \in seen \cup {msgs[k].root : k \in Kept}
<1> DEFINE S == {k \in Page : msgs[k].root = msgs[i].root}
<1>1. S \subseteq Ids /\ i \in S
  BY PageTyped, RowsTyped
<1>2. PICK k \in S : \A y \in S : k <= y
  <2> HIDE DEF S
  <2> QED BY <1>1, LeastId
<1>3. k \in Page /\ msgs[k].root = msgs[i].root /\ Accepted(k)
  BY DEF Accepted, Verdict
<1>4. \A j \in Page : j < k => msgs[j].root # msgs[k].root
  <2> SUFFICES ASSUME NEW j \in Page, j < k, msgs[j].root = msgs[k].root PROVE FALSE
    OBVIOUS
  <2>1. j \in S /\ j \in Int /\ k \in Int
    BY <1>3, PageTyped, Numbers
  <2> QED BY <1>2, <2>1
<1>5. k \in Kept \/ Consumed(k)
  BY <1>3, <1>4 DEF Kept
<1> QED BY <1>3, <1>5 DEF Consumed

\* recv enters in the seen-store what it hands over, and counts it.
LEMMA StrandRecv ==
    ASSUME TypeOK, PassedInv, ReplayInv, StrandInv, SettledMail, NEW p \in Procs, RecvProduct(p)
    PROVE  StrandInv'
<1>1. /\ UNCHANGED <<msgs, local, copied>>
      /\ handed' = handed \cup {i \in Kept : Verdict(i) # "sds"}
      /\ seen' = seen \cup {msgs[i].root : i \in Kept}
      /\ open' = open \cup (Page \ Kept)
      /\ Count({msgs[i].root : i \in {i \in Kept : Verdict(i) # "sds"}})
  BY DEF RecvProduct
<1>2. {i \in Kept : Verdict(i) # "sds"} = Kept
  BY NoGate DEF SettledMail
<1> DEFINE roots == {msgs[i].root : i \in Kept}
<1>3. handed' = handed \cup Kept /\ Count(roots) /\ roots \subseteq Ids
  BY <1>1, <1>2, PageTyped, RootTyped, Numbers
<1>4. seen' = seen \cup roots
  BY <1>1
<1>5. \A i \in Kept : msgs[i].root \in roots
  OBVIOUS
<1>6. handed \subseteq DOMAIN msgs /\ Mine \subseteq DOMAIN msgs /\ Kept \subseteq Mine
  BY PageTyped, Numbers DEF PassedInv, Known
<1> HIDE DEF roots
<1>7. \A r \in Ids : (times[r] > 0 \/ r \in roots) => times'[r] > 0
  <2> SUFFICES ASSUME NEW r \in Ids, times[r] > 0 \/ r \in roots PROVE times'[r] > 0
    OBVIOUS
  <2>1. times[r] \in 0 .. 2
    BY DEF TypeOK
  <2>2. times'[r] = IF r \in roots /\ times[r] < 2 THEN times[r] + 1 ELSE times[r]
    BY <1>3 DEF Count
  <2> QED BY <2>1, <2>2
<1>8. Counts'
  <2>1. seen \subseteq Ids /\ \A h \in handed : msgs[h].root \in Ids
    BY <1>6, RootTyped DEF TypeOK
  <2>2. \A r \in seen' : times'[r] > 0
    BY <1>3, <1>4, <1>7, <2>1 DEF StrandInv, Counts
  <2>3. \A h \in handed' : times'[msgs[h].root] > 0
    BY <1>3, <1>5, <1>6, <1>7, <2>1, RootTyped DEF StrandInv, Counts
  <2> QED BY <1>1, <2>2, <2>3 DEF Counts
<1>9. \A i : Settling(i)' = Settling(i) /\ Verdict(i)' = Verdict(i)
  BY <1>1 DEF Settling, Mine, Verdict
<1>10. Copies'
  <2> SUFFICES ASSUME NEW c \in copied
               PROVE  /\ Settling(c[2]) /\ msgs[c[2]].root = msgs[c[1]].root
                      /\ c[2] \in open' => Verdict(c[2]) = "stale" \/ msgs[c[2]].root \in seen'
    BY <1>1, <1>9 DEF Copies
  <2>1. /\ Settling(c[2]) /\ msgs[c[2]].root = msgs[c[1]].root
        /\ c[2] \in open => Verdict(c[2]) = "stale" \/ msgs[c[2]].root \in seen
    BY DEF StrandInv, Copies
  <2>2. CASE c[2] \in Page \ Kept
    <3>1. Verdict(c[2]) = "stale" \/ Accepted(c[2])
      BY <2>1 DEF Settling, Accepted
    <3> QED BY <1>1, <2>1, <2>2, <3>1, RejectedSeen
  <2>3. CASE c[2] \notin Page \ Kept
    BY <1>1, <2>1, <2>3
  <2> QED BY <2>2, <2>3
<1>11. Judged' /\ Replaying'
  BY <1>1, <1>9 DEF StrandInv, Judged, Replaying
<1> QED BY <1>8, <1>10, <1>11 DEF StrandInv

\* Acks, the start of a replay and the end of a call.
LEMMA StrandCalls ==
    ASSUME TypeOK, PassedInv, ReplayInv, StrandInv, SettledMail, NEW p \in Procs,
           (\E upto \in Ids : AckRead(p, upto)) \/ AckWrite(p) \/ Stop(p) \/ ReplayRead(p)
    PROVE  StrandInv'
<1>1. UNCHANGED <<msgs, seen, times, handed, open, copied>>
  BY DEF AckRead, AckWrite, Stop, ReplayRead, busVars
<1>2. Settles /\ Judged' /\ \A i : Settling(i)' = Settling(i)
  BY <1>1, RowsSettle DEF StrandInv, Judged, Settling, Mine, Verdict
<1>3. CASE AckWrite(p) \/ Stop(p) \/ \E upto \in Ids : AckRead(p, upto)
  <2>1. PICK l : Goto(p, l) /\ l.pc \notin {"replay", "sent"}
    <3>1. ASSUME NEW upto \in Ids, AckRead(p, upto)
          PROVE  \E l : Goto(p, l) /\ l.pc \notin {"replay", "sent"}
      <4>1. PICK tgt, skips :
                Goto(p, [Idle EXCEPT !.pc = "ack", !.base = cursor, !.tgt = tgt, !.ids = skips])
        BY <3>1 DEF AckRead
      <4> DEFINE l == [Idle EXCEPT !.pc = "ack", !.base = cursor, !.tgt = tgt, !.ids = skips]
      <4>2. Goto(p, l) /\ l.pc = "ack"
        BY <4>1 DEF Idle
      <4> HIDE DEF l
      <4> QED BY <4>2
    <3>2. Idle.pc \notin {"replay", "sent"}
      BY DEF Idle
    <3>3. CASE AckWrite(p) \/ Stop(p)
      BY <3>2, <3>3 DEF AckWrite, Stop
    <3> QED BY <1>3, <3>1, <3>3
  <2>2. \A q \in Procs : local'[q] = local[q] \/ local'[q].pc \notin {"replay", "sent"}
    BY <2>1, GotoMoves
  <2> QED BY <1>1, <1>2, <2>2, StrandSteady
<1>4. CASE ReplayRead(p)
  <2> DEFINE l == [Idle EXCEPT !.pc = "replay", !.ids = Candidates]
  <2>1. Goto(p, l)
    BY <1>4 DEF ReplayRead
  <2>2. l.pc = "replay" /\ l.ids = Candidates
    BY DEF Idle
  <2> HIDE DEF l
  <2>3. \A i \in Candidates : Settling(i)
    <3> SUFFICES ASSUME NEW i \in Candidates PROVE Settling(i)
      OBVIOUS
    <3>1. i \in Mine /\ (Accepted(i) \/ Verdict(i) = "future")
      BY CandidatesTyped DEF Candidates, SettledMail
    <3>2. Verdict(i) # "future" /\ Verdict(i) # "sds"
      BY <3>1, Numbers DEF StrandInv, Judged, PassedInv, Known, Modes, Verdict, SettledMail
    <3> QED BY <3>1, <3>2 DEF Accepted, Settling
  <2>4. Replaying'
    BY <1>2, <2>1, <2>2, <2>3, GotoMoves DEF StrandInv, Replaying
  <2>5. Counts' /\ Copies'
    BY <1>1, <1>2 DEF StrandInv, Counts, Copies, Verdict
  <2> QED BY <1>2, <2>4, <2>5 DEF StrandInv
<1> QED BY <1>3, <1>4

\* A signed copy carries what its original carried, and is no reject yet.
LEMMA StrandReplay ==
    ASSUME TypeOK, PassedInv, ReplayInv, StrandInv, SettledMail, NEW p \in Procs,
           NEW i \in Ids, ReplaySigned(p, i)
    PROVE  StrandInv'
<1>1. /\ local[p].pc = "replay" /\ i \in local[p].ids /\ Goto(p, Rest(p, i))
      /\ UNCHANGED <<seen, times, handed, open>>
  BY DEF ReplaySigned, IsNextCandidate
<1>2. Settling(i) /\ i \in DOMAIN msgs /\ msgs[i] \in Row
  BY <1>1, RowsTyped, Numbers DEF StrandInv, Replaying, Settling
<1>3. UNCHANGED <<msgs, copied>> \/ (Insert(msgs[i]) /\ copied' = copied \cup {<<i, NewId>>})
  BY DEF ReplaySigned
<1>4. Settles /\ Judged'
  <2>1. CASE UNCHANGED msgs
    BY <2>1, RowsSettle DEF StrandInv, Judged
  <2>2. CASE Insert(msgs[i])
    BY <1>2, <2>2, InsertSettles, InsertVerdicts DEF StrandInv, Judged
  <2> QED BY <1>3, <2>1, <2>2
<1>5. /\ \A k \in DOMAIN msgs : msgs'[k].root = msgs[k].root
      /\ \A k : Settling(k) => Settling(k)'
      /\ \A k \in Mine : Verdict(k) = "stale" => Verdict(k)' = "stale"
  BY <1>4 DEF Settles, Settling, Mine
<1>6. Counts'
  BY <1>1, <1>5 DEF StrandInv, Counts, PassedInv, Known
<1>7. Replaying'
  <2>1. \A k \in Rest(p, i).ids : k \in local[p].ids
    BY DEF Rest, Idle
  <2>2. Rest(p, i).pc \in {"idle", "replay"}
    BY DEF Rest, Idle
  <2> QED BY <1>1, <1>5, <2>1, <2>2, GotoMoves DEF StrandInv, Replaying
<1>8. \A c \in copied : /\ Settling(c[2])' /\ msgs'[c[2]].root = msgs'[c[1]].root
                        /\ c[2] \in open => Verdict(c[2])' = "stale" \/ msgs'[c[2]].root \in seen
  BY <1>5 DEF StrandInv, Copies, ReplayInv, CopiesKnown, Originals, Settling
<1>9. Copies'
  <2>1. CASE UNCHANGED <<msgs, copied>>
    BY <1>1, <1>8, <2>1 DEF Copies
  <2>2. CASE Insert(msgs[i]) /\ copied' = copied \cup {<<i, NewId>>}
    <3>1. PICK new : new = NewId
      OBVIOUS
    <3>2. /\ new \notin DOMAIN msgs /\ new \in DOMAIN msgs'
          /\ msgs'[new] = msgs[i] /\ msgs'[i] = msgs[i] /\ Verdict(i)' = Verdict(i)
      BY <1>2, <2>2, <3>1, InsertVerdicts
    <3>3. new \notin open
      BY <3>2 DEF TypeOK, PassedInv, Known
    <3>4. Verdict(new)' = Verdict(i)'
      BY <3>2 DEF Verdict
    <3>5. Settling(new)'
      BY <1>2, <3>2, <3>4 DEF Settling, Mine
    <3>6. \A c \in copied' : c \in copied \/ (c[1] = i /\ c[2] = new)
      BY <2>2, <3>1
    <3> QED BY <1>1, <1>8, <3>2, <3>3, <3>5, <3>6 DEF Copies
  <2> QED BY <1>3, <2>1, <2>2
<1> QED BY <1>4, <1>6, <1>7, <1>9 DEF StrandInv

\* Every step keeps the invariant.
LEMMA StrandStep ==
    ASSUME TypeOK, ReplayInv, PassedInv, StrandInv, SettledMail, [Next]_vars
    PROVE  StrandInv'
<1>1. CASE UNCHANGED vars
  BY <1>1
     DEF vars, StrandInv, Judged, Counts, Replaying, Copies, Settling, Mine, Verdict
<1>2. ASSUME NEW p \in Procs, Call(p) PROVE StrandInv'
  <2>1. local[p].pc \notin InPeek /\ local[p].pc # "sent"
    BY DEF PassedInv, Rounds, AtRound, SettledMail, ByRecv, StrandInv, Replaying
  <2>2. /\ ~RecvDev(p) /\ ~PeekRead(p) /\ ~PeekAudit(p) /\ ~ReplayLog(p)
        /\ ~MarkFilter(p) /\ ~MarkPend(p) /\ ~MarkWrite(p) /\ \A i \in Ids : ~ReplaySend(p, i)
    BY <2>1 DEF RecvDev, PeekRead, PeekAudit, ReplayLog, MarkFilter, MarkPend, MarkWrite,
                ReplaySend, SettledMail, ByRecv, InPeek
  <2> QED BY <1>2, <2>2, StrandRecv, StrandCalls, StrandReplay DEF Call, Continue
<1> QED BY <1>1, <1>2, StrandEnvironment DEF Next

\* reconcile and replay: a message the cursor has passed and enforcement
\* accepts, and nobody got, can still reach its reader: replay will send it
\* again, or a copy of it is ahead of the cursor (AgentBus!NotStranded).
THEOREM PassedNotStranded ==
    ASSUME ByRecv, Product => {"sds", "future"} \cap Verdicts = {}
    PROVE  Spec => []NotStranded
<1>1. NoEnvelopes
  BY DEF NoEnvelopes
<1>2. CASE ~Product
  <2>1. PassedInv => NotStranded
    BY <1>2 DEF PassedInv, Modes, Reached, UpTo, Covered, NotStranded, Taken
  <2> QED BY <1>1, <2>1, Passed, PTL
<1>3. CASE Product
  <2>0. SettledMail
    BY <1>3 DEF SettledMail
  <2>1. Init => StrandInv
    BY DEF Init, StrandInv, Judged, Counts, Replaying, Copies, Idle
  <2>2. TypeOK /\ ReplayInv /\ PassedInv /\ StrandInv /\ [Next]_vars => StrandInv'
    BY <2>0, StrandStep
  <2>3. TypeOK /\ ReplayInv /\ PassedInv /\ StrandInv => NotStranded
    <3> SUFFICES ASSUME TypeOK, ReplayInv, PassedInv, StrandInv, NEW i \in Mine \ Replays,
                        i <= cursor, Verdict(i) = "ok", ~Taken(i)
                 PROVE  \/ i \in Candidates
                        \/ \E j \in Mine : j > cursor /\ msgs[j].root = msgs[i].root
      BY DEF NotStranded
    <3>1. i \in open
      BY DEF PassedInv, Reached, UpTo, Covered, NamedKept, Taken
    <3>2. Replayed = {}
      BY <1>3 DEF PassedInv, Modes, Replayed
    <3>3. i \in Listed /\ Accepted(i)
      BY <3>1, <3>2 DEF Listed, Accepted
    <3>4. CASE i \notin Already
      BY <3>3, <3>4 DEF Candidates
    <3>5. CASE i \in Already
      <4>1. PICK c \in copied : i = c[1] \/ i = c[2]
        BY <3>5 DEF Already
      <4>2. /\ c[2] \in Mine /\ msgs[c[2]].root = msgs[i].root /\ c[2] \in DOMAIN msgs
        BY <4>1, Numbers DEF StrandInv, Copies, Settling
      <4>3. Verdict(c[2]) = "ok" /\ msgs[i].root \in Ids
        BY <4>2, RootTyped, Numbers DEF Verdict
      <4>4. ~(times[msgs[i].root] > 0)
        BY DEF Taken
      <4>5. c[2] \notin handed /\ msgs[i].root \notin seen
        BY <4>2, <4>4 DEF StrandInv, Counts
      <4>6. c[2] \notin open
        BY <4>2, <4>3, <4>5 DEF StrandInv, Copies
      <4>7. ~(c[2] <= cursor)
        BY <4>2, <4>5, <4>6 DEF PassedInv, Reached, UpTo, Covered, NamedKept
      <4>8. c[2] > cursor
        BY <4>2, <4>7, Numbers
      <4> QED BY <4>2, <4>8
    <3> QED BY <3>4, <3>5
  <2> QED BY <1>1, <2>1, <2>2, <2>3, Passed, PTL DEF Spec
<1> QED BY <1>2, <1>3

-----------------------------------------------------------------------------
(* What was handed over is not accused *)

\* Mailboxes whose cursor is never moved back: of one process, or without acks.
Lone   == \E q : Procs = {q}
NoAcks == "ack" \notin Ops /\ "ackstored" \notin Ops
OneWay == Lone \/ NoAcks

\* What was handed over stays below delivered_id and apart from the rejections:
\* in dev mode nothing is rejected, and behind a cursor that only goes forward
\* no row is read twice.
Apart ==
    /\ \A p \in Procs : local[p].pc \notin InPeek
    /\ \A h \in handed : h <= delivered
    /\ handed \cap open = {}
    /\ ~Product => open = {}
    /\ OneWay => \A h \in handed \cup open : h <= cursor

\* A page is read for the first time when the cursor has not been moved back.
LEMMA ApartRecv ==
    ASSUME TypeOK, Apart, ~Product \/ OneWay, NEW p \in Procs, RecvDev(p) \/ RecvProduct(p)
    PROVE  Apart'
<1>0. /\ UNCHANGED local /\ delivered \in Int /\ cursor \in Int
      /\ \A i \in Page : i \in Ids0 /\ i \in Int /\ i > cursor
      /\ handed \subseteq Ids /\ open \subseteq Ids /\ Ids \subseteq Int /\ Kept \subseteq Page
  BY PageTyped, RowsTyped, IdsTyped, Numbers DEF RecvDev, RecvProduct, TypeOK
<1>1. CASE RecvDev(p)
  <2>1. PICK top \in Page : EndsPage(top) /\ cursor' = top /\ delivered' = Bigger(delivered, top)
    BY <1>1 DEF RecvDev
  <2>2. handed' = handed \cup Page /\ UNCHANGED open /\ ~Product
    BY <1>1 DEF RecvDev
  <2>3. delivered' >= delivered /\ delivered' >= top /\ delivered' \in Int
    BY <1>0, <2>1, BiggerTyped, Numbers
  <2>4. \A i \in Page : i <= top
    BY <2>1 DEF EndsPage, IsTop
  <2>5. \A h \in handed' : h <= delivered'
    BY <1>0, <2>1, <2>2, <2>3, <2>4 DEF Apart
  <2>6. OneWay => \A h \in handed' \cup open' : h <= cursor'
    BY <1>0, <2>1, <2>2, <2>4 DEF Apart
  <2>7. open' = {}
    BY <2>2 DEF Apart
  <2> QED BY <1>0, <2>5, <2>6, <2>7 DEF Apart
<1>2. CASE RecvProduct(p)
  <2>1. PICK top \in Page, acc \in Kept \cup {0} :
            /\ EndsPage(top) /\ IsTop(acc, Kept)
            /\ cursor' = top /\ delivered' = Bigger(delivered, acc)
    BY <1>2 DEF RecvProduct
  <2> DEFINE out == {i \in Kept : Verdict(i) # "sds"}
  <2>2. /\ handed' = handed \cup out /\ out \subseteq Kept
        /\ open' = open \cup (Page \ Kept) /\ Product
    BY <1>2 DEF RecvProduct
  <2> HIDE DEF out
  <2>3. delivered' >= delivered /\ delivered' >= acc /\ delivered' \in Int /\ acc \in Int
    BY <1>0, <2>1, BiggerTyped, Numbers, IdsTyped
  <2>4. (\A i \in Page : i <= top) /\ \A i \in Kept : i <= acc
    BY <2>1 DEF EndsPage, IsTop
  <2>5. \A h \in handed' : h <= delivered'
    BY <1>0, <2>2, <2>3, <2>4 DEF Apart
  <2>6. \A h \in handed' \cup open' : h <= cursor'
    BY <1>0, <2>1, <2>2, <2>4 DEF Apart
  <2>7. handed' \cap open' = {}
    <3>1. \A h \in handed \cup open : h <= cursor
      BY <2>2 DEF Apart
    <3>2. handed \cap Page = {} /\ open \cap Page = {}
      BY <1>0, <3>1, Numbers
    <3> QED BY <1>0, <2>2, <3>2 DEF Apart
  <2> QED BY <1>0, <2>2, <2>5, <2>6, <2>7 DEF Apart
<1> QED BY <1>1, <1>2

\* Where a call that neither peeks, marks nor starts an ack leaves its process.
LEMMA CallPlaces ==
    ASSUME TypeOK, NEW p \in Procs,
           \/ AckWrite(p) \/ Stop(p) \/ ReplayRead(p) \/ ReplayLog(p)
           \/ \E i \in Ids : ReplaySigned(p, i) \/ ReplaySend(p, i)
    PROVE  /\ local'[p].pc \in {"idle", "replay", "sent"}
           /\ \A q \in Procs : q # p => local'[q] = local[q]
<1>1. local[p] \in Local
  BY DEF TypeOK
<1>2. Idle.pc = "idle" /\ \A i : Rest(p, i).pc \in {"idle", "replay"}
  BY DEF Idle, Rest
<1>3. CASE AckWrite(p) \/ Stop(p) \/ ReplayLog(p) \/ \E i \in Ids : ReplaySigned(p, i)
  <2>1. Goto(p, Idle) \/ \E i : Goto(p, Rest(p, i))
    BY <1>3 DEF AckWrite, Stop, ReplayLog, ReplaySigned
  <2> QED BY <1>2, <2>1, GotoMoves
<1>4. CASE ReplayRead(p)
  <2> DEFINE l == [Idle EXCEPT !.pc = "replay", !.ids = Candidates]
  <2>1. Goto(p, l) /\ l.pc = "replay"
    BY <1>4 DEF ReplayRead, Idle
  <2> HIDE DEF l
  <2> QED BY <2>1, GotoMoves
<1>5. ASSUME NEW i \in Ids, ReplaySend(p, i)
      PROVE  /\ local'[p].pc \in {"idle", "replay", "sent"}
             /\ \A q \in Procs : q # p => local'[q] = local[q]
  <2> DEFINE l == [local[p] EXCEPT !.pc = "sent", !.base = i, !.tgt = NewId]
  <2>1. Goto(p, l) /\ l.pc = "sent"
    BY <1>1, <1>5 DEF ReplaySend, Local
  <2> HIDE DEF l
  <2> QED BY <2>1, GotoMoves
<1> QED BY <1>3, <1>4, <1>5

\* Where a peek and the first step of a mark leave theirs.
LEMMA PeekPlaces ==
    ASSUME TypeOK, NEW p \in Procs, PeekRead(p) \/ PeekAudit(p) \/ MarkFilter(p)
    PROVE  local'[p].pc \in {"idle", "peeked", "returned", "filtered"}
<1>1. local[p] \in Local
  BY DEF TypeOK
<1>2. CASE PeekRead(p)
  <2> DEFINE out == IF Product THEN {i \in PeekKept : Verdict(i) # "sds"} ELSE Page
             rej == IF Product THEN PeekRejected ELSE {}
             l == [Idle EXCEPT !.pc = IF rej = {} THEN "returned" ELSE "peeked",
                               !.ids = out, !.out = out, !.pend = rej]
  <2>1. Goto(p, l)
    BY <1>2 DEF PeekRead
  <2>2. l.pc \in {"returned", "peeked"}
    <3> HIDE DEF out, rej
    <3> QED BY DEF Idle
  <2> HIDE DEF l
  <2> QED BY <2>1, <2>2, GotoMoves
<1>3. CASE PeekAudit(p)
  <2> DEFINE l == [local[p] EXCEPT !.pc = "returned", !.pend = {}]
  <2>1. Goto(p, l) /\ l.pc = "returned"
    BY <1>1, <1>3 DEF PeekAudit, Local
  <2> HIDE DEF l
  <2> QED BY <2>1, GotoMoves
<1>4. CASE MarkFilter(p)
  <2> DEFINE l == [local[p] EXCEPT !.pc = "filtered",
                     !.ids = local[p].ids \ PermanentRejects(local[p].ids)]
  <2>1. l.pc = "filtered" /\ Idle.pc = "idle"
    BY <1>1 DEF Local, Idle
  <2>2. Goto(p, l) \/ Goto(p, Idle)
    BY <1>4 DEF MarkFilter
  <2> HIDE DEF l
  <2> QED BY <2>1, <2>2, GotoMoves
<1> QED BY <1>2, <1>3, <1>4

\* Where the start of an ack leaves its process.
LEMMA AckPlaces ==
    ASSUME TypeOK, NEW p \in Procs, NEW upto \in Ids, AckRead(p, upto)
    PROVE  /\ local'[p].pc = "ack" /\ \A q \in Procs : q # p => local'[q] = local[q]
           /\ \E hi \in Ids0 :
                  local'[p].tgt = AckTarget(upto, IF Strict THEN delivered ELSE hi)
<1>1. PICK hi \in Ids0 :
          Goto(p, [Idle EXCEPT !.pc = "ack", !.base = cursor,
                     !.tgt = AckTarget(upto, IF Strict THEN delivered ELSE hi),
                     !.ids = {i \in Mine \ readAt :
                        cursor < i /\ i <= AckTarget(upto, IF Strict THEN delivered ELSE hi)}])
  BY DEF AckRead
<1> DEFINE tgt == AckTarget(upto, IF Strict THEN delivered ELSE hi)
           skips == {i \in Mine \ readAt : cursor < i /\ i <= tgt}
           l == [Idle EXCEPT !.pc = "ack", !.base = cursor, !.tgt = tgt, !.ids = skips]
<1>2. Goto(p, l)
  BY <1>1
<1> HIDE DEF tgt, skips
<1>3. l.pc = "ack" /\ l.tgt = tgt
  BY DEF Idle
<1> HIDE DEF l
<1> QED BY <1>2, <1>3, GotoMoves DEF tgt

\* Every step keeps what was handed over apart from what reconcile lists.
LEMMA ApartStep ==
    ASSUME TypeOK, TypeOK', Apart, "peek" \notin Ops, ~Product \/ OneWay, [Next]_vars,
           OneWay => cursor' >= cursor
    PROVE  Apart'
<1>0. /\ handed \cup open \subseteq Int /\ cursor \in Int /\ cursor' \in Int
      /\ \A p \in Procs : local[p].pc \notin InPeek
  BY Numbers DEF TypeOK, Apart
\* A step that hands nothing over and rejects nothing.
<1>1. ASSUME UNCHANGED <<delivered, handed, open>>,
             \A p \in Procs : local'[p] = local[p] \/ local'[p].pc \notin InPeek
      PROVE  Apart'
  <2>1. OneWay => \A h \in handed \cup open : h <= cursor'
    <3> SUFFICES ASSUME OneWay, NEW h \in handed \cup open PROVE h <= cursor'
      OBVIOUS
    <3>1. h <= cursor /\ cursor <= cursor' /\ h \in Int
      BY <1>0 DEF Apart
    <3> QED BY <1>0, <3>1
  <2>2. \A p \in Procs : local'[p].pc \notin InPeek
    BY <1>0, <1>1
  <2> QED BY <1>1, <2>1, <2>2 DEF Apart
<1>2. CASE UNCHANGED vars
  BY <1>1, <1>2 DEF vars
<1>3. CASE Environment
  BY <1>1, <1>3
     DEF Environment, Send, SendOther, Resend, Reclassify, Matures, KeyRegistered, GoesStale
<1>4. ASSUME NEW p \in Procs, Call(p) PROVE Apart'
  <2>1. /\ ~PeekRead(p) /\ ~PeekAudit(p) /\ ~MarkFilter(p) /\ ~MarkPend(p) /\ ~MarkWrite(p)
    BY <1>0 DEF PeekRead, PeekAudit, MarkFilter, MarkPend, MarkWrite, InPeek
  <2>2. ASSUME NEW upto \in Ids, AckRead(p, upto) PROVE Apart'
    <3>1. /\ local'[p].pc = "ack" /\ \A q \in Procs : q # p => local'[q] = local[q]
          /\ UNCHANGED <<delivered, handed, open>>
      BY <2>2, AckPlaces DEF AckRead, busVars
    <3> QED BY <1>1, <3>1 DEF InPeek
  <2>3. CASE \/ AckWrite(p) \/ Stop(p) \/ ReplayRead(p) \/ ReplayLog(p)
             \/ \E i \in Ids : ReplaySigned(p, i) \/ ReplaySend(p, i)
    <3>1. /\ local'[p].pc \in {"idle", "replay", "sent"}
          /\ \A q \in Procs : q # p => local'[q] = local[q]
      BY <2>3, CallPlaces
    <3>2. UNCHANGED <<delivered, handed, open>>
      BY <2>3 DEF AckWrite, Stop, ReplayRead, ReplayLog, ReplaySigned, ReplaySend, busVars
    <3> QED BY <1>1, <3>1, <3>2 DEF InPeek
  <2> QED BY <1>4, <2>1, <2>2, <2>3, ApartRecv DEF Call, Continue
<1> QED BY <1>2, <1>3, <1>4 DEF Next

\* Without acks no process is ever inside one.
AckFree == \A p \in Procs : local[p].pc # "ack"

LEMMA AckFreeStep ==
    ASSUME TypeOK, TypeOK', Apart, "peek" \notin Ops, NoAcks, AckFree, [Next]_vars
    PROVE  AckFree' /\ cursor' >= cursor
<1>0. /\ cursor \in Int /\ cursor' \in Int
      /\ \A p \in Procs : local[p].pc \notin InPeek
  BY Numbers DEF TypeOK, Apart
<1>1. ASSUME UNCHANGED cursor, \A p \in Procs : local'[p] = local[p] \/ local'[p].pc # "ack"
      PROVE  AckFree' /\ cursor' >= cursor
  BY <1>0, <1>1 DEF AckFree
<1>2. CASE UNCHANGED vars
  BY <1>1, <1>2 DEF vars
<1>3. CASE Environment
  BY <1>1, <1>3
     DEF Environment, Send, SendOther, Resend, Reclassify, Matures, KeyRegistered, GoesStale
<1>4. ASSUME NEW p \in Procs, Call(p) PROVE AckFree' /\ cursor' >= cursor
  <2>1. /\ ~PeekRead(p) /\ ~PeekAudit(p) /\ ~MarkFilter(p) /\ ~MarkPend(p) /\ ~MarkWrite(p)
        /\ ~AckWrite(p) /\ \A upto \in Ids : ~AckRead(p, upto)
    BY <1>0 DEF PeekRead, PeekAudit, MarkFilter, MarkPend, MarkWrite, InPeek, AckRead, AckWrite,
                NoAcks, AckFree
  <2>2. CASE RecvDev(p) \/ RecvProduct(p)
    <3>1. UNCHANGED local
      BY <2>2 DEF RecvDev, RecvProduct
    <3>2. PICK top \in Page : cursor' = top
      BY <2>2 DEF RecvDev, RecvProduct
    <3>3. top > cursor
      BY <3>2, PageTyped
    <3> QED BY <1>0, <3>1, <3>2, <3>3 DEF AckFree
  <2>3. CASE \/ Stop(p) \/ ReplayRead(p) \/ ReplayLog(p)
             \/ \E i \in Ids : ReplaySigned(p, i) \/ ReplaySend(p, i)
    <3>1. /\ local'[p].pc \in {"idle", "replay", "sent"}
          /\ \A q \in Procs : q # p => local'[q] = local[q]
      BY <2>3, CallPlaces
    <3>2. UNCHANGED cursor
      BY <2>3 DEF Stop, ReplayRead, ReplayLog, ReplaySigned, ReplaySend, busVars
    <3> QED BY <1>1, <3>1, <3>2
  <2> QED BY <1>4, <2>1, <2>2, <2>3 DEF Call, Continue
<1> QED BY <1>2, <1>3, <1>4 DEF Next

\* What is listed was skipped above delivered_id or rejected: neither was handed over.
LEMMA ApartNotAccused == ASSUME TypeOK, Apart PROVE NoFalseAccusation
<1> SUFFICES ASSUME NEW i \in Listed PROVE i \notin handed
  BY DEF NoFalseAccusation
<1>1. delivered < i \/ i \in open
  BY DEF Listed
<1>2. CASE i \in open
  BY <1>2 DEF Apart
<1>3. CASE delivered < i
  <2>1. i \in Int /\ delivered \in Int
    BY RowsTyped, Numbers DEF TypeOK, Listed
  <2> QED BY <1>3, <2>1 DEF Apart
<1> QED BY <1>1, <1>2, <1>3

\* reconcile: no message that recv handed over is listed as never delivered.
\* In dev mode that holds of any number of readers, in product mode too unless
\* one of several calls ack, whose late write moves the cursor back; of recv, ack
\* and replay, wherever they are killed: a peek hands over what a later
\* mark_delivered must close (AgentBus!NoFalseAccusation).
THEOREM HandedNotAccused ==
    ASSUME "peek" \notin Ops, ~Product \/ OneWay
    PROVE  Spec => []NoFalseAccusation
<1>1. Init => Apart
  BY DEF Init, Apart, Idle, InPeek
<1>2. CASE Lone
  <2>1. PICK q : Procs = {q}
    BY <1>2 DEF Lone
  <2>2. Init => AckInv
    BY DEF Init, AckInv, Idle
  <2>3. TypeOK /\ TypeOK' /\ AckInv /\ Apart /\ [Next]_vars => AckInv' /\ Apart'
    BY <1>2, <2>1, AckStep, ApartStep DEF OneWay
  <2>4. TypeOK /\ Apart => NoFalseAccusation
    BY ApartNotAccused
  <2> QED BY <1>1, <2>2, <2>3, <2>4, TypeCorrect, PTL DEF Spec
<1>3. CASE NoAcks
  <2>1. Init => AckFree
    BY DEF Init, AckFree, Idle
  <2>2. TypeOK /\ TypeOK' /\ AckFree /\ Apart /\ [Next]_vars => AckFree' /\ Apart'
    BY <1>3, AckFreeStep, ApartStep DEF OneWay
  <2>3. TypeOK /\ Apart => NoFalseAccusation
    BY ApartNotAccused
  <2> QED BY <1>1, <2>1, <2>2, <2>3, TypeCorrect, PTL DEF Spec
<1>4. CASE ~OneWay
  <2>1. TypeOK /\ TypeOK' /\ Apart /\ [Next]_vars => Apart'
    BY <1>4, ApartStep
  <2>2. TypeOK /\ Apart => NoFalseAccusation
    BY ApartNotAccused
  <2> QED BY <1>1, <2>1, <2>2, TypeCorrect, PTL DEF Spec
<1> QED BY <1>2, <1>3, <1>4 DEF OneWay

-----------------------------------------------------------------------------
(* The cursor stays within what was marked delivered *)

\* The level a lone process recomputes stays at or above the cursor, because
\* the rows it stops at are read ahead of the cursor and the cursor does not
\* move before the write; an ack is capped by a level that does not move either.
LevelInv ==
    /\ cursor <= delivered
    /\ \E r \in Mine \cup {0} : delivered <= r
    /\ \A p \in Procs : /\ local[p].pc = "ack" => local[p].tgt <= delivered
                        /\ local[p].pc = "pending" =>
                              local[p].pend \subseteq {i \in Mine : i > cursor}

\* A step that moves no level and enters neither place.
LEMMA LevelSteady ==
    ASSUME TypeOK, LevelInv, Mine \subseteq Mine', UNCHANGED <<cursor, delivered>>,
           \A p \in Procs : local'[p] = local[p] \/ local'[p].pc \notin {"ack", "pending"}
    PROVE  LevelInv'
<1>1. /\ (cursor <= delivered)'
      /\ (\E r \in Mine \cup {0} : delivered <= r)'
  BY DEF LevelInv
<1>2. ASSUME NEW p \in Procs
      PROVE  /\ local'[p].pc = "ack" => local'[p].tgt <= delivered'
             /\ local'[p].pc = "pending" =>
                   local'[p].pend \subseteq {i \in Mine' : i > cursor'}
  BY <1>2 DEF LevelInv
<1> QED BY <1>1, <1>2 DEF LevelInv

\* The rows mark_delivered waits for lie ahead of the cursor.
LEMMA PendingAhead == Pending \subseteq {i \in Mine : i > cursor}
BY DEF Pending, First

\* mark_delivered: the level it computes is between the cursor and a known row.
LEMMA LevelMark ==
    ASSUME NEW q, Procs = {q}, TypeOK, LevelInv, MarkWrite(q)
    PROVE  LevelInv'
<1>1. PICK h \in Ids0 : IsLevel(h, local[q].pend \ readAt') /\ delivered' = h
  BY DEF MarkWrite
<1> DEFINE left == local[q].pend \ readAt'
<1>2. UNCHANGED <<msgs, cursor>> /\ UNCHANGED Mine /\ local'[q] = Idle
  BY GotoMoves DEF MarkWrite, Mine
<1>3. /\ \A i \in left : i \in Mine /\ i > cursor /\ i \in Int
      /\ cursor \in Int /\ delivered \in Int /\ h \in Int /\ Mine \subseteq Int
  BY <1>1, Numbers DEF LevelInv, MarkWrite
<1> HIDE DEF left
<1>4. cursor <= h /\ \E r \in Mine \cup {0} : h <= r
  <2>1. CASE left # {}
    <3>1. h + 1 \in left
      BY <1>1, <2>1 DEF IsLevel, left
    <3> QED BY <1>3, <3>1
  <2>2. CASE left = {}
    <3>1. h \in Mine \cup {0} /\ (\A j \in Mine : j <= h)
      BY <1>1, <2>2 DEF IsLevel, IsTop, left
    <3>2. PICK r \in Mine \cup {0} : delivered <= r
      BY DEF LevelInv
    <3>3. r <= h
      BY <1>1, <3>1, <3>2 DEF Ids0
    <3>4. cursor <= delivered
      BY DEF LevelInv
    <3> QED BY <1>3, <3>1, <3>2, <3>3, <3>4
  <2> QED BY <2>1, <2>2
<1> QED BY <1>1, <1>2, <1>4 DEF LevelInv, Idle

\* recv and the start of an ack take their bound from the level.
LEMMA LevelRecv ==
    ASSUME NEW q, Procs = {q}, TypeOK, LevelInv, RecvDev(q)
    PROVE  LevelInv'
<1>1. PICK top \in Page : cursor' = top /\ delivered' = Bigger(delivered, top)
  BY DEF RecvDev
<1>2. UNCHANGED local /\ local[q].pc = "idle" /\ UNCHANGED Mine
  BY DEF RecvDev, Idle, Mine
<1>3. top \in Mine /\ top \in Ids0
  BY PageTyped, RowsTyped, IdsTyped
<1>4. delivered' >= top /\ (delivered' = delivered \/ delivered' = top)
  BY <1>1, <1>3, BiggerTyped, Numbers DEF Bigger
<1>5. \E r \in Mine \cup {0} : delivered' <= r
  BY <1>3, <1>4, Numbers DEF LevelInv
<1>6. cursor' <= delivered'
  BY <1>1, <1>3, <1>4, Numbers
<1> QED BY <1>2, <1>5, <1>6 DEF LevelInv

LEMMA LevelAck ==
    ASSUME NEW q, Procs = {q}, Strict, TypeOK, LevelInv, NEW upto \in Ids, AckRead(q, upto)
    PROVE  LevelInv'
<1>1. UNCHANGED <<cursor, delivered>> /\ UNCHANGED Mine
  BY DEF AckRead, busVars, Mine
<1>2. local'[q].pc = "ack" /\ local'[q].tgt = AckTarget(upto, delivered)
  BY AckPlaces
<1>3. AckTarget(upto, delivered) <= delivered
  <2>1. cursor <= delivered /\ cursor \in Ids0 /\ delivered \in Ids0 /\ upto \in Ids0
    BY Numbers, IdsTyped DEF LevelInv
  <2> QED BY <2>1 DEF AckTarget, Bigger, Smaller, Ids0
<1> QED BY <1>1, <1>2, <1>3 DEF LevelInv

\* Every step of a lone process keeps the invariant.
LEMMA LevelStep ==
    ASSUME NEW q, Procs = {q}, Strict, "recv" \notin Ops \/ ~Product,
           TypeOK, ReplayInv, LevelInv, [Next]_vars
    PROVE  LevelInv'
<1>0. Mine \subseteq Mine'
  BY RowsKept DEF Mine
<1>1. CASE UNCHANGED vars
  BY <1>0, <1>1, LevelSteady DEF vars
<1>2. CASE Environment
  BY <1>0, <1>2, LevelSteady
     DEF Environment, Send, SendOther, Resend, Reclassify, Matures, KeyRegistered, GoesStale
<1>3. CASE \/ PeekRead(q) \/ PeekAudit(q) \/ MarkFilter(q) \/ ReplayRead(q) \/ ReplayLog(q)
           \/ Stop(q) \/ \E i \in Ids : ReplaySigned(q, i) \/ ReplaySend(q, i)
  <2>1. UNCHANGED <<cursor, delivered>>
    BY <1>3 DEF PeekRead, PeekAudit, MarkFilter, ReplayRead, ReplayLog, Stop, ReplaySigned,
                ReplaySend, busVars
  <2>2. local'[q].pc \notin {"ack", "pending"}
    BY <1>3, CallPlaces, PeekPlaces
  <2> QED BY <1>0, <2>1, <2>2, LevelSteady
<1>4. CASE MarkPend(q)
  <2>1. UNCHANGED <<cursor, delivered>> /\ UNCHANGED Mine
    BY <1>4 DEF MarkPend, busVars, Mine
  <2>2. local'[q].pc = "pending" /\ local'[q].pend = Pending
    <3> DEFINE l == [local[q] EXCEPT !.pc = "pending", !.pend = Pending]
    <3>1. Goto(q, l)
      BY <1>4 DEF MarkPend
    <3>2. l.pc = "pending" /\ l.pend = Pending
      BY DEF TypeOK, Local
    <3> HIDE DEF l
    <3> QED BY <3>1, <3>2, GotoMoves
  <2> QED BY <2>1, <2>2, PendingAhead DEF LevelInv
<1>5. CASE AckWrite(q)
  <2>1. /\ cursor' = local[q].tgt /\ local'[q] = Idle /\ UNCHANGED delivered
        /\ local[q].pc = "ack" /\ UNCHANGED Mine
    BY <1>5, GotoMoves DEF AckWrite, Mine
  <2> QED BY <2>1 DEF LevelInv, Idle
<1> QED BY <1>1, <1>2, <1>3, <1>4, <1>5, LevelMark, LevelRecv, LevelAck
        DEF Next, Call, Continue, RecvProduct

\* ack and mark_delivered: of a mailbox one strict client works on, the cursor
\* stays within delivered_id, though each mark_delivered computes it anew and
\* may move it back.  recv in product mode passes rejected rows, which it does
\* not mark, and is not in use (AgentBus!WithinDelivered).
THEOREM CursorWithinDelivered ==
    ASSUME NEW q, Procs = {q}, Strict, "recv" \notin Ops \/ ~Product
    PROVE  Spec => []WithinDelivered
<1>1. Init => LevelInv
  BY DEF Init, LevelInv, Idle
<1>2. TypeOK /\ ReplayInv /\ LevelInv /\ [Next]_vars => LevelInv'
  BY LevelStep
<1>3. LevelInv => WithinDelivered
  BY DEF LevelInv, WithinDelivered
<1> QED BY <1>1, <1>2, <1>3, Typed, PTL DEF Spec

-----------------------------------------------------------------------------
(* The refinement: the product mailbox of agent_bus.py, read by recv(mark)   *)
(* and the strict ack, implements the abstract Mailbox.  Every step of every *)
(* process, for any number of processes and messages and any limits, offers  *)
(* a content, hands some over and sets others aside, brings some back, or    *)
(* changes no standing at all.                                               *)

\* What was handed over was counted, and only contents that exist were.
Counted ==
    /\ \A h \in handed : times[msgs[h].root] > 0
    /\ \A r \in Ids : times[r] > 0 => r \in DOMAIN msgs

\* The invariant: with it no content stands "twice" or "lost".
Standings == TypeOK /\ PassedInv /\ SeenInv /\ Counted

-----------------------------------------------------------------------------
(* Where a content stands *)

Content(c) == c \in Mine /\ msgs[c].root = c

Ahead(c) == \E j \in Mine : j > cursor /\ msgs[j].root = c

Stand(c) ==
    IF ~Content(c) THEN "none"
    ELSE IF times[c] > 0 THEN "handed"
    ELSE IF Ahead(c) THEN "waiting" ELSE "aside"

AllStand == \A c \in Ids : Standing(c) = Stand(c)

\* What the cursor has passed and nobody got is listed: it stands aside.
LEMMA NoneTwiceOrLost ==
    ASSUME Product, Standings
    PROVE  AllStand
<1> SUFFICES ASSUME NEW c \in Ids, Content(c), ~(times[c] > 0), ~Ahead(c)
             PROVE  c \in Listed
  <2>1. ASSUME NEW c \in Ids PROVE times[c] <= 1 /\ times[c] \in Int
    BY DEF Standings, SeenInv, TypeOK
  <2>2. ASSUME NEW c \in Ids PROVE ~(times[c] > 1)
    BY <2>1
  <2> QED BY <2>2 DEF AllStand, Standing, Stand, Content, Ahead
<1>1. c \in Mine /\ msgs[c].root = c /\ c \in Int /\ cursor \in Int
  BY Numbers DEF Standings, Content
<1>2. c <= cursor
  BY <1>1 DEF Ahead
<1>3. ~Taken(c)
  BY <1>1 DEF Taken, Standings, Counted
<1>4. Replays = {}
  BY <1>1, Numbers DEF Standings, PassedInv, Modes, Replays
<1>5. NothingLost
  BY CoveredNotLost DEF Standings
<1> QED BY <1>1, <1>2, <1>3, <1>4, <1>5 DEF NothingLost

-----------------------------------------------------------------------------
(* The invariant *)

\* With no peek in use only recv(mark) hands anything over.
LEMMA OnlyRecv ==
    ASSUME Product, ByRecv, TypeOK, PassedInv, [Next]_vars, \A p \in Procs : ~RecvProduct(p)
    PROVE  UNCHANGED <<handed, times>>
<1>1. \A p \in Procs : local[p].pc \notin InPeek
  BY DEF PassedInv, Rounds, AtRound, ByRecv
<1>2. CASE Environment
  BY <1>2
     DEF Environment, Send, SendOther, Resend, Reclassify, Matures, KeyRegistered, GoesStale
<1>3. ASSUME NEW p \in Procs, Call(p) PROVE UNCHANGED <<handed, times>>
  <2>1. /\ ~RecvDev(p) /\ ~RecvProduct(p) /\ ~PeekRead(p) /\ ~PeekAudit(p)
        /\ ~MarkFilter(p) /\ ~MarkPend(p) /\ ~MarkWrite(p)
    BY <1>1 DEF RecvDev, PeekRead, PeekAudit, MarkFilter, MarkPend, MarkWrite, ByRecv, InPeek
  <2> QED
    BY <1>3, <2>1
       DEF Call, Continue, AckRead, AckWrite, ReplayRead, ReplaySigned, ReplaySend, ReplayLog,
           Stop, busVars
<1> QED BY <1>2, <1>3 DEF Next, vars

\* recv(mark) counts what it hands over.
LEMMA RecvCounts ==
    ASSUME Product, Standings, NEW p \in Procs, RecvProduct(p)
    PROVE  /\ handed' = handed \cup Kept /\ UNCHANGED msgs
           /\ \A r \in Ids : times[r] > 0 => times'[r] > 0
           /\ \A i \in Kept : times'[msgs[i].root] > 0
           /\ \A r \in Ids : times'[r] # times[r] => \E i \in Kept : msgs[i].root = r
<1>1. /\ handed' = handed \cup Kept /\ UNCHANGED msgs
      /\ Count({msgs[i].root : i \in Kept})
  BY NoGate DEF RecvProduct, Standings
<1>2. ASSUME NEW r \in Ids
      PROVE  /\ times[r] \in 0 .. 2
             /\ times'[r] = IF (\E i \in Kept : msgs[i].root = r) /\ times[r] < 2
                            THEN times[r] + 1 ELSE times[r]
  BY <1>1 DEF Count, Standings, TypeOK
<1>3. \A i \in Kept : msgs[i].root \in Ids
  BY PageTyped, RootTyped, Numbers DEF Standings
<1>4. ASSUME NEW i \in Kept PROVE times'[msgs[i].root] > 0
  BY <1>2, <1>3
<1> QED BY <1>1, <1>2, <1>4

\* Every step keeps what was counted in step with what was handed over.
LEMMA CountedStep ==
    ASSUME Product, ByRecv, Standings, ReplayInv, [Next]_vars
    PROVE  Counted'
<1>1. /\ DOMAIN msgs \subseteq DOMAIN msgs'
      /\ \A i \in DOMAIN msgs : msgs'[i].root = msgs[i].root
      /\ handed \subseteq DOMAIN msgs
      /\ \A i \in DOMAIN msgs : msgs[i].root \in DOMAIN msgs
  BY RowsKept DEF Standings, PassedInv, Known
<1>2. CASE UNCHANGED <<handed, times>>
  BY <1>1, <1>2 DEF Standings, Counted
<1>3. ASSUME NEW p \in Procs, RecvProduct(p) PROVE Counted'
  <2>1. Kept \subseteq DOMAIN msgs /\ \A h \in DOMAIN msgs : msgs[h].root \in Ids
    BY PageTyped, RootTyped, Numbers DEF Standings
  <2>2. /\ handed' = handed \cup Kept /\ UNCHANGED msgs
        /\ \A r \in Ids : times[r] > 0 => times'[r] > 0
        /\ \A i \in Kept : times'[msgs[i].root] > 0
        /\ \A r \in Ids : times'[r] # times[r] => \E i \in Kept : msgs[i].root = r
    BY <1>3, RecvCounts
  <2>3. \A h \in handed' : times'[msgs'[h].root] > 0
    BY <1>1, <2>1, <2>2 DEF Standings, Counted
  <2>4. \A r \in Ids : times'[r] > 0 => r \in DOMAIN msgs'
    BY <1>1, <2>1, <2>2 DEF Standings, Counted
  <2> QED BY <2>3, <2>4 DEF Counted
<1> QED BY <1>2, <1>3, OnlyRecv DEF Standings

-----------------------------------------------------------------------------
(* The abstract steps *)

Same(c) == Stand(c)' = Stand(c)

\* A step that sets some of what waited aside and hands some over is a Read, ...
LEMMA IsRead ==
    ASSUME AllStand, AllStand',
           \A c \in Ids : \/ Same(c)
                          \/ Stand(c) = "waiting" /\ Stand(c)' \in {"handed", "aside"}
    PROVE  Abstract!Next
<1> DEFINE S == {c \in Ids : Standing(c) = "waiting" /\ Standing(c)' = "handed"}
           T == {c \in Ids : Standing(c) = "waiting" /\ Standing(c)' = "aside"}
<1>1. \A c \in Ids : Standing(c) = Stand(c) /\ Standing(c)' = Stand(c)'
  BY DEF AllStand
<1>2. \A c \in Ids : \/ Standing(c)' = Standing(c)
                     \/ Standing(c) = "waiting" /\ Standing(c)' \in {"handed", "aside"}
  BY <1>1 DEF Same
<1>3. [c \in Ids |-> Standing(c)]' =
          [c \in Ids |-> IF c \in S THEN "handed" ELSE IF c \in T THEN "aside"
                         ELSE [d \in Ids |-> Standing(d)][c]]
  BY <1>2
<1>4. Abstract!Read(S, T)
  BY <1>3 DEF Abstract!Read, Abstract!Are
<1> QED BY <1>4 DEF Abstract!Next

\* ... one that brings some back is a Return, ...
LEMMA IsReturn ==
    ASSUME AllStand, AllStand',
           \A c \in Ids : Same(c) \/ (Stand(c) = "aside" /\ Stand(c)' = "waiting")
    PROVE  Abstract!Next
<1> DEFINE S == {c \in Ids : Standing(c) = "aside" /\ Standing(c)' = "waiting"}
<1>1. \A c \in Ids : Standing(c) = Stand(c) /\ Standing(c)' = Stand(c)'
  BY DEF AllStand
<1>2. \A c \in Ids : \/ Standing(c)' = Standing(c)
                     \/ Standing(c) = "aside" /\ Standing(c)' = "waiting"
  BY <1>1 DEF Same
<1>3. [c \in Ids |-> Standing(c)]' =
          [c \in Ids |-> IF c \in S THEN "waiting" ELSE [d \in Ids |-> Standing(d)][c]]
  BY <1>2
<1>4. Abstract!Return(S)
  BY <1>3 DEF Abstract!Return, Abstract!Are, Abstract!Put
<1> QED BY <1>4 DEF Abstract!Next

\* ... one that starts a content is an Offer.
LEMMA IsOffer ==
    ASSUME AllStand, AllStand', NEW n \in Ids, Stand(n) = "none", Stand(n)' = "waiting",
           \A c \in Ids \ {n} : Same(c)
    PROVE  Abstract!Next
<1>1. \A c \in Ids : Standing(c) = Stand(c) /\ Standing(c)' = Stand(c)'
  BY DEF AllStand
<1>2. /\ \A c \in Ids \ {n} : Standing(c)' = Standing(c)
      /\ Standing(n) = "none" /\ Standing(n)' = "waiting"
  BY <1>1 DEF Same
<1>3. [c \in Ids |-> Standing(c)]' =
          [c \in Ids |-> IF c \in {n} THEN "waiting" ELSE [d \in Ids |-> Standing(d)][c]]
  BY <1>2
<1>4. Abstract!Offer(n)
  BY <1>2, <1>3 DEF Abstract!Offer, Abstract!Put
<1> QED BY <1>4 DEF Abstract!Next

-----------------------------------------------------------------------------
(* What each call does to the standings *)

\* A step that adds no row, counts nothing and leaves the cursor where it is.
LEMMA SameRows ==
    ASSUME UNCHANGED <<cursor, times>>, DOMAIN msgs' = DOMAIN msgs,
           \A i \in DOMAIN msgs : msgs'[i].to = msgs[i].to /\ msgs'[i].root = msgs[i].root
    PROVE  \A c \in Ids : Same(c)
<1>1. Mine' = Mine
  BY DEF Mine
<1>2. \A i \in Mine : msgs'[i].root = msgs[i].root
  BY DEF Mine
<1>3. \A c : Content(c)' <=> Content(c)
  BY <1>1, <1>2 DEF Content
<1>4. \A c : Ahead(c)' <=> Ahead(c)
  BY <1>1, <1>2 DEF Ahead
<1> QED BY <1>3, <1>4 DEF Same, Stand

\* A row added is ahead of the cursor; a content only it carries is new.
LEMMA RowAdded ==
    ASSUME Standings, NEW row \in Row, Insert(row), NEW new, new = NewId
    PROVE  /\ new \in Ids /\ ~Content(new) /\ times[new] \in Int /\ ~(times[new] > 0)
           /\ Content(new)' <=> row.to = Me /\ row.root = new
           /\ \A c \in Ids \ {new} : Content(c)' <=> Content(c)
           /\ UNCHANGED cursor =>
                 \A c : Ahead(c)' <=> (Ahead(c) \/ (row.to = Me /\ row.root = c))
<1>1. /\ \A i \in DOMAIN msgs : msgs'[i] = msgs[i]
      /\ DOMAIN msgs' = DOMAIN msgs \cup {new} /\ msgs'[new] = row /\ new \notin DOMAIN msgs
  BY InsertVerdicts DEF Standings
<1>2. new \in Ids /\ new > cursor
  BY InsertTyped, Numbers DEF Standings, PassedInv, Known, NewId
<1>3. /\ Mine' = Mine \cup (IF row.to = Me THEN {new} ELSE {})
      /\ Mine \subseteq DOMAIN msgs
  BY <1>1 DEF Mine
<1>4. times[new] \in Int /\ ~(times[new] > 0)
  BY <1>1, <1>2 DEF Standings, Counted, TypeOK
<1>5. ~Content(new) /\ (Content(new)' <=> row.to = Me /\ row.root = new)
  BY <1>1, <1>3 DEF Content
<1>6. ASSUME NEW c \in Ids \ {new} PROVE Content(c)' <=> Content(c)
  BY <1>1, <1>3, <1>6 DEF Content
<1>7. ASSUME UNCHANGED cursor, NEW c
      PROVE  Ahead(c)' <=> (Ahead(c) \/ (row.to = Me /\ row.root = c))
  BY <1>1, <1>2, <1>3, <1>7 DEF Ahead
<1> QED BY <1>2, <1>4, <1>5, <1>6, <1>7

\* send: the new row is a new content, which waits.
LEMMA SendOffers ==
    ASSUME Standings, AllStand, AllStand', NEW v \in Verdicts, Send(v)
    PROVE  Abstract!Next
<1> DEFINE row == [to |-> Me, kind |-> "msg", root |-> NewId, orig |-> 0, verdict |-> v]
<1>1. Insert(row) /\ UNCHANGED <<cursor, times>>
  BY DEF Send
<1>2. NewId \in Ids
  BY <1>1, NewIdTyped DEF Standings
<1>3. row \in Row /\ row.to = Me /\ row.root = NewId
  BY <1>2, IdsTyped, BusAssumption DEF Row
<1> HIDE DEF row
<1>4. PICK new : new = NewId
  OBVIOUS
<1>5. /\ new \in Ids /\ ~Content(new) /\ ~(times[new] > 0)
      /\ Content(new)' /\ Ahead(new)'
      /\ \A c \in Ids \ {new} : (Content(c)' <=> Content(c)) /\ (Ahead(c)' <=> Ahead(c))
  BY <1>1, <1>3, <1>4, RowAdded
<1>6. Stand(new) = "none" /\ Stand(new)' = "waiting" /\ \A c \in Ids \ {new} : Same(c)
  BY <1>1, <1>5 DEF Stand, Same
<1> QED BY <1>5, <1>6, IsOffer

\* A row of a known content, or of somebody else: the content may come back.
LEMMA CopyReturns ==
    ASSUME Standings, AllStand, AllStand', NEW row \in Row, Insert(row),
           UNCHANGED <<cursor, times>>, row.to # Me \/ row.root \in DOMAIN msgs
    PROVE  Abstract!Next
<1>1. PICK new : new = NewId
  OBVIOUS
<1>2. NewId \notin DOMAIN msgs
  BY InsertTyped DEF Standings
<1>3. /\ new \in Ids /\ ~Content(new) /\ ~Content(new)'
      /\ \A c \in Ids \ {new} : Content(c)' <=> Content(c)
      /\ \A c : Ahead(c) => Ahead(c)'
  BY <1>1, <1>2, RowAdded
<1>4. \A c \in Ids : Same(c) \/ (Stand(c) = "aside" /\ Stand(c)' = "waiting")
  BY <1>3 DEF Same, Stand
<1> QED BY <1>4, IsReturn

\* recv(mark): what waited on the page is handed over or passed, ...
LEMMA RecvReads ==
    ASSUME Product, Standings, AllStand, AllStand', NEW p \in Procs, RecvProduct(p)
    PROVE  Abstract!Next
<1>1. PICK top \in Page : EndsPage(top) /\ cursor' = top
  BY DEF RecvProduct
<1>2. /\ UNCHANGED msgs
      /\ \A r \in Ids : times[r] > 0 => times'[r] > 0
      /\ \A r \in Ids : times'[r] # times[r] => \E i \in Kept : msgs[i].root = r
  BY RecvCounts
<1>3. /\ Kept \subseteq Mine /\ \A i \in Kept : i > cursor
      /\ cursor \in Int /\ cursor' \in Int /\ cursor' > cursor /\ Mine \subseteq Int
  BY <1>1, PageTyped, Numbers DEF Standings
<1>4. UNCHANGED Mine
  BY <1>2 DEF Mine
<1>5. \A c \in Ids : (Content(c)' <=> Content(c)) /\ (Ahead(c)' => Ahead(c))
  BY <1>2, <1>3, <1>4 DEF Content, Ahead
<1>6. \A c \in Ids : times'[c] # times[c] => Ahead(c)
  BY <1>2, <1>3 DEF Ahead
<1>7. \A c \in Ids : \/ Same(c)
                     \/ Stand(c) = "waiting" /\ Stand(c)' \in {"handed", "aside"}
  BY <1>2, <1>5, <1>6 DEF Same, Stand
<1> QED BY <1>7, IsRead

\* ... and an ack passes what was marked delivered, or goes back behind it.
LEMMA AckReads ==
    ASSUME Standings, AllStand, AllStand', NEW p \in Procs, AckWrite(p)
    PROVE  Abstract!Next
<1>1. /\ UNCHANGED <<msgs, times>> /\ UNCHANGED Mine
      /\ cursor \in Int /\ cursor' \in Int /\ Mine \subseteq Int
  <2>1. local[p] \in Local /\ cursor' = local[p].tgt
    BY DEF AckWrite, Standings, TypeOK
  <2>2. cursor' \in Ids0
    BY <2>1 DEF Local
  <2> QED BY <2>2, Numbers DEF AckWrite, Standings, Mine
<1>2. \A c \in Ids : Content(c)' <=> Content(c)
  BY <1>1 DEF Content
<1>3. CASE cursor' >= cursor
  <2>1. \A c \in Ids : Ahead(c)' => Ahead(c)
    BY <1>1, <1>3 DEF Ahead
  <2>2. \A c \in Ids : Same(c) \/ (Stand(c) = "waiting" /\ Stand(c)' = "aside")
    BY <1>1, <1>2, <2>1 DEF Same, Stand
  <2> QED BY <2>2, IsRead
<1>4. CASE ~(cursor' >= cursor)
  <2>1. \A c \in Ids : Ahead(c) => Ahead(c)'
    BY <1>1, <1>4 DEF Ahead
  <2>2. \A c \in Ids : Same(c) \/ (Stand(c) = "aside" /\ Stand(c)' = "waiting")
    BY <1>1, <1>2, <2>1 DEF Same, Stand
  <2> QED BY <2>2, IsReturn
<1> QED BY <1>3, <1>4

\* A step that changes no standing changes nothing of the abstract mailbox.
LEMMA SameStanding ==
    ASSUME AllStand, AllStand', \A c \in Ids : Same(c)
    PROVE  UNCHANGED [c \in Ids |-> Standing(c)]
<1>1. \A c \in Ids : Standing(c)' = Standing(c)
  BY DEF AllStand, Same
<1> QED BY <1>1

-----------------------------------------------------------------------------
(* The refinement *)

\* Every step is a step of the abstract mailbox, or changes no standing.
LEMMA StepImplements ==
    ASSUME Product, ByRecv, Standings, ReplayInv, AllStand, AllStand', [Next]_vars
    PROVE  [Abstract!Next]_([c \in Ids |-> Standing(c)])
<1> DEFINE Done == Abstract!Next \/ \A c \in Ids : Same(c)
<1> SUFFICES Done
  BY SameStanding
<1>1. CASE UNCHANGED <<msgs, cursor, times>>
  BY <1>1, SameRows
<1>2. CASE Environment
  <2>1. ASSUME NEW v \in Verdicts, Send(v) PROVE Done
    BY <2>1, SendOffers
  <2>2. CASE SendOther
    <3> DEFINE row == [to |-> Other, kind |-> "msg", root |-> NewId, orig |-> 0,
                       verdict |-> "ok"]
    <3>1. Insert(row) /\ UNCHANGED <<cursor, times>>
      BY <2>2 DEF SendOther
    <3>2. row \in Row /\ row.to # Me
      BY <3>1, NewIdTyped, IdsTyped DEF Row, AllVerdicts, Standings, Me, Other
    <3> HIDE DEF row
    <3> QED BY <3>1, <3>2, CopyReturns
  <2>3. ASSUME NEW i \in DOMAIN msgs, Resend(i) PROVE Done
    <3> DEFINE row == [msgs[i] EXCEPT !.kind = "msg"]
    <3>1. Insert(row) /\ UNCHANGED <<cursor, times>> /\ msgs[i].root = i
      BY <2>3 DEF Resend
    <3>2. row \in Row /\ row.root \in DOMAIN msgs
      BY <2>3, <3>1, RowsTyped DEF Row, Standings
    <3> HIDE DEF row
    <3> QED BY <3>1, <3>2, CopyReturns
  <2>4. ASSUME NEW i \in DOMAIN msgs, Matures(i) \/ KeyRegistered(i) \/ GoesStale(i)
        PROVE  Done
    <3>1. /\ DOMAIN msgs' = DOMAIN msgs /\ UNCHANGED <<cursor, times>>
      BY <2>4 DEF Matures, KeyRegistered, GoesStale, Reclassify, Standings, TypeOK
    <3>2. \A j \in DOMAIN msgs : msgs'[j].to = msgs[j].to /\ msgs'[j].root = msgs[j].root
      BY RowsKept DEF Standings
    <3> QED BY <3>1, <3>2, SameRows
  <2> QED BY <1>2, <2>1, <2>2, <2>3, <2>4 DEF Environment
<1>3. ASSUME NEW p \in Procs, RecvProduct(p) PROVE Done
  BY <1>3, RecvReads
<1>4. ASSUME NEW p \in Procs, AckWrite(p) PROVE Done
  BY <1>4, AckReads
\* replay: the signed copy puts the content in the way of the reader again.
<1>5. ASSUME NEW p \in Procs, NEW i \in Ids, ReplaySigned(p, i) PROVE Done
  <2>1. CASE UNCHANGED msgs
    BY <1>1, <1>5, <2>1 DEF ReplaySigned
  <2>2. CASE Insert(msgs[i])
    <3>1. i \in DOMAIN msgs
      BY <1>5 DEF ReplaySigned, IsNextCandidate, ReplayInv, CallsOriginals, Originals, Mine
    <3>2. msgs[i] \in Row /\ msgs[i].root \in DOMAIN msgs
      BY <3>1, RowsTyped DEF Standings, PassedInv, Known
    <3> QED BY <1>5, <2>2, <3>2, CopyReturns DEF ReplaySigned
  <2> QED BY <1>5, <2>1, <2>2 DEF ReplaySigned
<1>6. ASSUME NEW p \in Procs, Call(p) PROVE Done
  <2>1. ~RecvDev(p) /\ \A i \in Ids : ~ReplaySend(p, i)
    BY DEF RecvDev, ReplaySend
  <2>2. CASE \/ PeekRead(p) \/ PeekAudit(p) \/ MarkFilter(p) \/ MarkPend(p) \/ MarkWrite(p)
             \/ ReplayRead(p) \/ ReplayLog(p) \/ Stop(p) \/ \E upto \in Ids : AckRead(p, upto)
    BY <1>1, <2>2
       DEF PeekRead, PeekAudit, MarkFilter, MarkPend, MarkWrite, ReplayRead, ReplayLog, Stop,
           AckRead, busVars
  <2> QED BY <1>3, <1>4, <1>5, <1>6, <2>1, <2>2 DEF Call, Continue
<1> QED BY <1>1, <1>2, <1>6 DEF Next, vars

\* recv, ack and replay in product mode, of any number of processes: each
\* signed content is offered, handed over once or set aside where reconcile
\* lists it, and comes back from there only (AgentBusRefinesMailbox!ImplementsMailbox).
THEOREM MailboxImplemented ==
    ASSUME Product, ByRecv, "sds" \notin Verdicts
    PROVE  Spec => ImplementsMailbox
<1>0. NoEnvelopes
  BY DEF NoEnvelopes
<1>1. Init => SeenInv /\ Counted
  BY DEF Init, SeenInv, Counted
<1>2. TypeOK /\ SeenInv /\ [Next]_vars => SeenInv'
  BY SeenStep
<1>3. TypeOK /\ ReplayInv /\ PassedInv /\ SeenInv /\ Counted /\ [Next]_vars => Counted'
  BY CountedStep DEF Standings
<1>4. TypeOK /\ PassedInv /\ SeenInv /\ Counted => Standings /\ AllStand
  BY NoneTwiceOrLost DEF Standings
<1>5. Init => Abstract!Init
  <2>1. Init => Mine = {}
    BY DEF Init, Mine
  <2> QED BY <2>1 DEF Abstract!Init, Standing
<1>6. Standings /\ ReplayInv /\ AllStand /\ AllStand' /\ [Next]_vars
         => [Abstract!Next]_([c \in Ids |-> Standing(c)])
  BY StepImplements
<1> QED
  BY <1>0, <1>1, <1>2, <1>3, <1>4, <1>5, <1>6, Passed, PTL
     DEF Spec, ImplementsMailbox, Abstract!Spec

=============================================================================
