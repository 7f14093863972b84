----------------------------- MODULE Duty_proofs -----------------------------
(***************************************************************************)
(* Proofs about the duty supervisor: whatever the thresholds, the times    *)
(* the clock is set by, and however often it is set, the machine rebooted  *)
(* or a run killed or left out, a notice is true and a stall is told.      *)
(*                                                                         *)
(* The state file holds times of a wall clock that may have been set       *)
(* since.  The proofs read each as the step it stands for: the last        *)
(* finished run saw the wall clock ahead of the steps by Ahead.            *)
(***************************************************************************)
EXTENDS Duty, TLAPS

Times == {"noPane", "busySince", "waitSince", "idleSince", "nudged", "enterSent", "doneSaid",
          "saidGone", "saidBusy", "saidWaiting", "saidIdle", "saidUnknown", "lastWall", "lastMono"}
Numbers == Times \cup {"busyText", "waitText"}
Names   == {"nobody", "t1", "t2"}

States == {s \in [Numbers \cup {"of"} -> Int \cup Names] :
              s.of \in Names /\ \A k \in Numbers : s[k] \in Int}

Histories ==
    [of : Names, from : [Watched -> Int], poked : Int, told : [Kinds -> Int],
     last : Panes \cup {NothingSeen.last}, row : Nat, skew : Int, moved : BOOLEAN, blind : BOOLEAN]

TypeOK ==
    /\ time \in Nat /\ skew \in Int /\ boot \in 0..time
    /\ Start + skew >= Remind
    /\ pane \in Panes /\ asleep \in BOOLEAN /\ reported \in BOOLEAN
    /\ active \in {"t1", "t2", "none", "lost"}
    /\ st \in States /\ seen \in Histories
    /\ notice \in [kind : Kinds \cup {"none", "nudge", "done", "own", "unknown"}, held : Int, sure : BOOLEAN]
    /\ done \in BOOLEAN
    /\ left \in [changes : Nat, faults : Nat]

Gone    == [kind |-> "gone", text |-> 0]
Idle    == [kind |-> "idle", text |-> 0]
Busy(c) == [kind |-> "busy", text |-> c]
Asks(c) == [kind |-> "waiting", text |-> c]

\* A wall-clock time, kept since the watched pane p was seen, stands for a step
\* from the one p was first seen in to step T.
Kept(t, p, h, K, T) == t # Never => /\ h.from[p] # -1 /\ h.from[p] <= t - K /\ t - K <= T

\* What the state file s says is so, for the history h, when the wall clock was
\* ahead by K at step T.
Facts(s, h, K, T) ==
    /\ \A k \in Shifted : s[k] # Never => s[k] - K \in 0..T
    /\ \A p \in Watched : h.from[p] \in -1..T
    /\ h.poked \in -1..T
    /\ \A k \in Kinds : h.told[k] \in -1..T
    /\ Kept(s.noPane, Gone, h, K, T)
    /\ Kept(s.idleSince, Idle, h, K, T)
    /\ s.busySince # Never => s.busyText \in {1, 2} /\ Kept(s.busySince, Busy(s.busyText), h, K, T)
    /\ (s.waitSince # Never /\ ~h.moved)
           => s.waitText \in {1, 2} /\ Kept(s.waitSince, Asks(s.waitText), h, K, T)
    /\ (s.saidWaiting # Never /\ ~h.moved) => s.saidWaiting - K \in 0..T
    /\ s.nudged # Never => h.poked # -1 /\ h.poked <= s.nudged - K
    /\ s.saidGone # Never => h.told["gone"] # -1
    /\ s.saidBusy # Never => h.told["busy"] # -1
    /\ s.saidWaiting # Never => h.told["waiting"] # -1
    /\ s.saidIdle # Never => h.told["idle"] # -1

\* After row steps of one pane up to step T its clock runs since the first one,
Stood(since, row, K, T) == since # Never /\ since - K <= T - row + 1

\* and the supervisor has been told, and not long ago.
Told(said, told, limit, row, K, T) ==
    /\ said # Never => told # -1 /\ (said - K <= T - row + 1 \/ said - K = told)
    /\ row > limit => told # -1 /\ (row > Remind => T - told < Remind)

RowFacts(s, h, row, K, T) ==
    row > 0 =>
        /\ h.last.kind = "gone" =>
              Stood(s.noPane, row, K, T) /\ Told(s.saidGone, h.told["gone"], Limit("gone"), row, K, T)
        /\ h.last.kind = "busy" =>
              /\ s.busyText = h.last.text /\ Stood(s.busySince, row, K, T)
              /\ Told(s.saidBusy, h.told["busy"], Limit("busy"), row, K, T)
        /\ (h.last.kind = "waiting" /\ ~h.moved) =>
              /\ s.waitText = h.last.text /\ Stood(s.waitSince, row, K, T)
              /\ Told(s.saidWaiting, h.told["waiting"], Limit("waiting"), row, K, T)
        /\ h.last.kind = "idle" =>
              /\ Stood(s.idleSince, row, K, T)
              /\ row > Nudge => s.nudged # Never /\ s.nudged - K <= T - row + 1 + Nudge
              /\ Told(s.saidIdle, h.told["idle"], Limit("idle"), row, K, T)

Ahead == Start + seen.skew
Last  == st.lastWall - Ahead   \* the step of the last finished run

\* The clocks in the state file are those of one run, and it was in the row.
Clocks ==
    /\ Ahead >= Remind
    /\ st.of # "nobody" => /\ st.lastWall # Never
                           /\ st.lastMono \in 0..Last /\ Last <= time
                           /\ boot = Last - st.lastMono \/ boot >= Last
    /\ seen.row > 0 => /\ seen.of # "nobody" /\ seen.last \in Panes
                       /\ boot = Last - st.lastMono
                       /\ IF done THEN time = Last ELSE time = Last + 1

Remembered ==
    (seen.of # "nobody" /\ ~seen.blind)
        => Facts(st, seen, Ahead, Last) /\ RowFacts(st, seen, seen.row, Ahead, Last)

DutyInv == st.of = seen.of /\ Clocks /\ Remembered

-----------------------------------------------------------------------------
(* Types *)

LEMMA NoStateTyped == NoState \in States
<1>1. DOMAIN NoState = Numbers \cup {"of"}
  BY DEF NoState, Numbers, Times
<1> QED
  BY <1>1 DEF NoState, States, Numbers, Times, Names, Never

LEMMA ForgetTyped ==
    ASSUME NEW s \in States, NEW keys \in SUBSET Numbers
    PROVE  /\ Forget(s, keys) \in States
           /\ Forget(s, keys).of = s.of
           /\ \A k \in Numbers : Forget(s, keys)[k] = IF k \in keys THEN 0 ELSE s[k]
<1>1. DOMAIN s = Numbers \cup {"of"} /\ "of" \notin Numbers
  BY DEF States, Numbers, Times
<1> QED
  BY <1>1 DEF States, Forget

LEMMA PutTyped ==
    ASSUME NEW s \in States, NEW k \in Numbers, NEW v \in Int
    PROVE  /\ [s EXCEPT ![k] = v] \in States
           /\ [s EXCEPT ![k] = v].of = s.of
           /\ \A n \in Numbers : [s EXCEPT ![k] = v][n] = IF n = k THEN v ELSE s[n]
<1>1. DOMAIN s = Numbers \cup {"of"} /\ "of" \notin Numbers
  BY DEF States, Numbers, Times
<1> QED
  BY <1>1 DEF States

LEMMA ClocksTyped ==
    ASSUME TypeOK
    PROVE  /\ Wall \in Int /\ Mono \in Nat
           /\ \A t \in Int : Since(t) \in Int
           /\ Nudge \in Nat /\ Alert \in Nat /\ Stuck \in Nat /\ Report \in Nat /\ Remind \in Nat
           /\ Nudge > 0 /\ Alert > 0 /\ Stuck > 0 /\ Report > 0 /\ Remind > 0 /\ Start \in Nat
<1>1. /\ Nudge \in Nat \ {0} /\ Alert \in Nat \ {0} /\ Stuck \in Nat \ {0}
      /\ Report \in Nat \ {0} /\ Remind \in Nat \ {0} /\ Start \in Nat
  BY DutyAssumption
<1>2. Wall \in Int /\ Mono \in Nat
  BY <1>1 DEF TypeOK, Wall, Mono
<1> QED
  BY <1>1, <1>2 DEF Since

-----------------------------------------------------------------------------
(* What decide makes of the state file *)

\* An alert of kind is given and its time kept, under the key said, when due.
Alerts(v, kind, said, s, due) ==
    /\ v.kind = IF due THEN kind ELSE "none"
    /\ v.st[said] = IF due THEN Wall ELSE s[said]

Same(v, s, keys) == \A k \in Numbers \ keys : v.st[k] = s[k]

LEMMA DecidesGone ==
    ASSUME TypeOK, NEW s \in States, ~asleep, pane.kind = "gone", NEW v, v = Decide(s)
    PROVE  /\ v.st \in States /\ v.st.of = s.of
           /\ v.st.noPane = Since(s.noPane)
           /\ Alerts(v, "gone", "saidGone", s, Wall - Since(s.noPane) >= Alert /\ Due(s.saidGone))
           /\ Same(v, s, {"noPane", "saidGone"})
<1>0. Wall \in Int /\ {"noPane", "saidGone"} \subseteq Numbers /\ Since(s.noPane) \in Int
  BY ClocksTyped DEF Numbers, Times, States
<1> DEFINE r == [s EXCEPT !.noPane = Since(@)]
           q == [r EXCEPT !.saidGone = Wall]
<1>1. r \in States /\ r.of = s.of /\ \A n \in Numbers : r[n] = IF n = "noPane" THEN Since(s.noPane) ELSE s[n]
  BY <1>0, PutTyped
<1>2. q \in States /\ q.of = r.of /\ \A n \in Numbers : q[n] = IF n = "saidGone" THEN Wall ELSE r[n]
  <2> HIDE DEF r
  <2> QED BY <1>0, <1>1, PutTyped
<1>3. v = IF Wall - r.noPane >= Alert /\ Due(r.saidGone) THEN Says("alert", "gone", q) ELSE Silent(r)
  BY DEF Decide, OnGone
<1> HIDE DEF r, q
<1>4. r.noPane = Since(s.noPane) /\ r.saidGone = s.saidGone
  BY <1>0, <1>1
<1> QED
  BY <1>0, <1>1, <1>2, <1>3, <1>4 DEF Says, Silent, Alerts, Same

\* The keys forgotten on the way to a pane: work, a question, or none of them.
Freed(s) == Forget(Forget(Forget(s, {"noPane"}), {"busyText", "busySince"}), {"waitText", "waitSince"})

LEMMA Forgets ==
    ASSUME NEW s \in States
    PROVE  LET up   == Forget(s, {"noPane"})
               calm == Forget(up, {"busyText", "busySince"})
           IN /\ up \in States /\ up.of = s.of
              /\ \A k \in Numbers : up[k] = IF k = "noPane" THEN 0 ELSE s[k]
              /\ calm \in States /\ calm.of = s.of
              /\ \A k \in Numbers : calm[k] = IF k \in {"noPane", "busyText", "busySince"} THEN 0 ELSE s[k]
              /\ Freed(s) \in States /\ Freed(s).of = s.of
              /\ \A k \in Numbers :
                    Freed(s)[k] = IF k \in {"noPane", "busyText", "busySince", "waitText", "waitSince"}
                                  THEN 0 ELSE s[k]
<1> DEFINE up   == Forget(s, {"noPane"})
           calm == Forget(up, {"busyText", "busySince"})
           free == Forget(calm, {"waitText", "waitSince"})
<1>0. {"noPane"} \subseteq Numbers /\ {"busyText", "busySince"} \subseteq Numbers
      /\ {"waitText", "waitSince"} \subseteq Numbers
  BY DEF Numbers, Times
<1>1. up \in States /\ up.of = s.of /\ \A k \in Numbers : up[k] = IF k = "noPane" THEN 0 ELSE s[k]
  BY <1>0, ForgetTyped
<1> HIDE DEF up
<1>2. calm \in States /\ calm.of = up.of
      /\ \A k \in Numbers : calm[k] = IF k \in {"busyText", "busySince"} THEN 0 ELSE up[k]
  BY <1>0, <1>1, ForgetTyped
<1> HIDE DEF calm
<1>3. free \in States /\ free.of = calm.of
      /\ \A k \in Numbers : free[k] = IF k \in {"waitText", "waitSince"} THEN 0 ELSE calm[k]
  BY <1>0, <1>2, ForgetTyped
<1>4. Freed(s) = free
  BY DEF Freed, free, calm, up
<1> HIDE DEF free
<1>5. /\ \A k \in Numbers : calm[k] = IF k \in {"noPane", "busyText", "busySince"} THEN 0 ELSE s[k]
      /\ \A k \in Numbers :
            free[k] = IF k \in {"noPane", "busyText", "busySince", "waitText", "waitSince"} THEN 0 ELSE s[k]
  BY <1>1, <1>2, <1>3
<1>6. LET u == up c == calm IN
      /\ u \in States /\ u.of = s.of
      /\ \A k \in Numbers : u[k] = IF k = "noPane" THEN 0 ELSE s[k]
      /\ c \in States /\ c.of = s.of
      /\ \A k \in Numbers : c[k] = IF k \in {"noPane", "busyText", "busySince"} THEN 0 ELSE s[k]
      /\ Freed(s) \in States /\ Freed(s).of = s.of
      /\ \A k \in Numbers :
            Freed(s)[k] = IF k \in {"noPane", "busyText", "busySince", "waitText", "waitSince"} THEN 0 ELSE s[k]
  BY <1>1, <1>2, <1>3, <1>4, <1>5
<1> QED
  BY <1>6 DEF up, calm

LEMMA DecidesBusy ==
    ASSUME TypeOK, NEW s \in States, ~asleep, pane.kind = "busy", NEW v, v = Decide(s)
    PROVE  LET since == IF s.busyText = pane.text THEN Since(s.busySince) ELSE Wall IN
           /\ v.st \in States /\ v.st.of = s.of
           /\ v.st.noPane = 0 /\ v.st.idleSince = 0 /\ v.st.nudged = 0
           /\ v.st.busyText = pane.text /\ v.st.busySince = since
           /\ Alerts(v, "busy", "saidBusy", s, Wall - since >= Stuck /\ Due(s.saidBusy))
           /\ Same(v, s, {"noPane", "idleSince", "nudged", "busyText", "busySince", "saidBusy"})
<1> DEFINE up == Forget(s, {"noPane"})
<1>0. /\ Wall \in Int /\ Since(s.busySince) \in Int /\ pane.text \in Int
      /\ {"noPane", "idleSince", "nudged", "busyText", "busySince", "saidBusy"} \subseteq Numbers
  BY ClocksTyped DEF Numbers, Times, States, TypeOK, Panes
<1>1. up \in States /\ up.of = s.of /\ \A k \in Numbers : up[k] = IF k = "noPane" THEN 0 ELSE s[k]
  BY Forgets
<1>2. v = OnBusy(up)
  BY DEF Decide
<1> HIDE DEF up
<1> DEFINE since == IF s.busyText = pane.text THEN Since(s.busySince) ELSE Wall
           r == [up EXCEPT !.busyText = pane.text,
                           !.busySince = IF SameBusy(up) THEN Since(@) ELSE Wall,
                           !.idleSince = Never, !.nudged = Never]
           q == [r EXCEPT !.saidBusy = Wall]
<1>3. /\ r \in States /\ r.of = s.of
      /\ r.busyText = pane.text /\ r.busySince = since /\ r.idleSince = 0 /\ r.nudged = 0
      /\ \A n \in Numbers \ {"idleSince", "nudged", "busyText", "busySince"} : r[n] = up[n]
  <2>1. DOMAIN up = Numbers \cup {"of"} /\ "of" \notin Numbers
    BY <1>1 DEF States, Numbers, Times
  <2>2. up.busyText = s.busyText /\ up.busySince = s.busySince
    BY <1>0, <1>1
  <2>3. since \in Int
    BY <1>0
  <2>4. r = [up EXCEPT !.busyText = pane.text, !.busySince = since, !.idleSince = 0, !.nudged = 0]
    BY <2>2 DEF SameBusy, Never
  <2> HIDE DEF since, r
  <2> QED BY <1>0, <1>1, <2>1, <2>3, <2>4 DEF States
<1>4. v = IF Wall - r.busySince >= Stuck /\ Due(r.saidBusy) THEN Says("alert", "busy", q) ELSE Silent(r)
  BY <1>2 DEF OnBusy
<1> HIDE DEF r, since
<1>5. q \in States /\ q.of = r.of /\ \A n \in Numbers : q[n] = IF n = "saidBusy" THEN Wall ELSE r[n]
  <2>1. "saidBusy" \in Numbers /\ Wall \in Int /\ r \in States
    BY <1>0, <1>3
  <2> QED BY ONLY <2>1, PutTyped DEF q
<1> HIDE DEF q
<1>6. r.saidBusy = s.saidBusy /\ r.noPane = 0
  BY <1>0, <1>1, <1>3
<1>7. /\ v.st \in States /\ v.st.of = s.of
      /\ v.st.noPane = 0 /\ v.st.idleSince = 0 /\ v.st.nudged = 0
      /\ v.st.busyText = pane.text /\ v.st.busySince = since
      /\ Alerts(v, "busy", "saidBusy", s, Wall - since >= Stuck /\ Due(s.saidBusy))
      /\ Same(v, s, {"noPane", "idleSince", "nudged", "busyText", "busySince", "saidBusy"})
  BY <1>0, <1>1, <1>3, <1>4, <1>5, <1>6 DEF Says, Silent, Alerts, Same
<1> QED
  BY <1>7 DEF since

LEMMA DecidesWaiting ==
    ASSUME TypeOK, NEW s \in States, ~asleep, pane.kind = "waiting", NEW v, v = Decide(s)
    PROVE  LET since == IF s.waitText = pane.text THEN Since(s.waitSince) ELSE Wall IN
           /\ v.st \in States /\ v.st.of = s.of
           /\ v.st.noPane = 0 /\ v.st.busyText = 0 /\ v.st.busySince = 0
           /\ v.st.waitText = pane.text /\ v.st.waitSince = since
           /\ Alerts(v, "waiting", "saidWaiting", s, Wall - since >= Stuck /\ Due(s.saidWaiting))
           /\ Same(v, s, {"noPane", "busyText", "busySince", "waitText", "waitSince", "saidWaiting"})
<1> DEFINE calm == Forget(Forget(s, {"noPane"}), {"busyText", "busySince"})
<1>0. /\ Wall \in Int /\ Since(s.waitSince) \in Int /\ pane.text \in Int
      /\ {"noPane", "busyText", "busySince", "waitText", "waitSince", "saidWaiting"} \subseteq Numbers
  BY ClocksTyped DEF Numbers, Times, States, TypeOK, Panes
<1>1. calm \in States /\ calm.of = s.of
      /\ \A k \in Numbers : calm[k] = IF k \in {"noPane", "busyText", "busySince"} THEN 0 ELSE s[k]
  BY Forgets
<1>2. v = OnWaiting(calm)
  BY DEF Decide
<1> HIDE DEF calm
<1> DEFINE since == IF s.waitText = pane.text THEN Since(s.waitSince) ELSE Wall
           r == [calm EXCEPT !.waitText = pane.text,
                             !.waitSince = IF calm.waitText = pane.text THEN Since(@) ELSE Wall]
           q == [r EXCEPT !.saidWaiting = Wall]
<1>3. /\ r \in States /\ r.of = s.of
      /\ r.waitText = pane.text /\ r.waitSince = since
      /\ \A n \in Numbers \ {"waitText", "waitSince"} : r[n] = calm[n]
  <2>1. DOMAIN calm = Numbers \cup {"of"} /\ "of" \notin Numbers
    BY <1>1 DEF States, Numbers, Times
  <2>2. calm.waitText = s.waitText /\ calm.waitSince = s.waitSince
    BY <1>0, <1>1
  <2>3. since \in Int
    BY <1>0
  <2>4. r = [calm EXCEPT !.waitText = pane.text, !.waitSince = since]
    BY <2>2
  <2> HIDE DEF since, r
  <2> QED BY <1>0, <1>1, <2>1, <2>3, <2>4 DEF States
<1>4. v = IF Wall - r.waitSince >= Stuck /\ Due(r.saidWaiting) THEN Says("alert", "waiting", q) ELSE Silent(r)
  BY <1>2 DEF OnWaiting
<1> HIDE DEF r, since
<1>5. q \in States /\ q.of = r.of /\ \A n \in Numbers : q[n] = IF n = "saidWaiting" THEN Wall ELSE r[n]
  <2>1. "saidWaiting" \in Numbers /\ Wall \in Int /\ r \in States
    BY <1>0, <1>3
  <2> QED BY ONLY <2>1, PutTyped DEF q
<1> HIDE DEF q
<1>6. r.saidWaiting = s.saidWaiting /\ r.noPane = 0 /\ r.busyText = 0 /\ r.busySince = 0
  BY <1>0, <1>1, <1>3
<1>7. /\ v.st \in States /\ v.st.of = s.of
      /\ v.st.noPane = 0 /\ v.st.busyText = 0 /\ v.st.busySince = 0
      /\ v.st.waitText = pane.text /\ v.st.waitSince = since
      /\ Alerts(v, "waiting", "saidWaiting", s, Wall - since >= Stuck /\ Due(s.saidWaiting))
      /\ Same(v, s, {"noPane", "busyText", "busySince", "waitText", "waitSince", "saidWaiting"})
  BY <1>0, <1>1, <1>3, <1>4, <1>5, <1>6 DEF Says, Silent, Alerts, Same
<1> QED
  BY <1>7 DEF since

\* What an empty prompt or a text in it leaves of s.
Cleared(v, s, keys) ==
    /\ v.st \in States /\ v.st.of = s.of
    /\ v.st.noPane = 0 /\ v.st.busyText = 0 /\ v.st.busySince = 0
    /\ v.st.waitText = 0 /\ v.st.waitSince = 0
    /\ Same(v, s, {"noPane", "busyText", "busySince", "waitText", "waitSince"} \cup keys)

LEMMA DecidesTyped ==
    ASSUME TypeOK, NEW s \in States, ~asleep, pane.kind \in {"own", "typed"}, NEW v, v = Decide(s)
    PROVE  /\ Cleared(v, s, {"enterSent"})
           /\ v.kind \in {"own", "none"}
           /\ v.st.enterSent \in {s.enterSent, Wall}
<1>0. Wall \in Int /\ {"enterSent", "noPane", "busyText", "busySince", "waitText", "waitSince"} \subseteq Numbers
  BY ClocksTyped DEF Numbers, Times
<1> DEFINE r == Freed(s)
           q == [r EXCEPT !.enterSent = Wall]
<1>1. r \in States /\ r.of = s.of
      /\ \A k \in Numbers : r[k] = IF k \in {"noPane", "busyText", "busySince", "waitText", "waitSince"}
                                   THEN 0 ELSE s[k]
  BY Forgets
<1>2. v = Says("enter", "own", q) \/ v = Silent(r)
  BY DEF Decide, OnTyped, Freed
<1> HIDE DEF r
<1>3. q \in States /\ q.of = r.of /\ \A n \in Numbers : q[n] = IF n = "enterSent" THEN Wall ELSE r[n]
  <2>1. "enterSent" \in Numbers /\ Wall \in Int /\ r \in States
    BY <1>0, <1>1
  <2> QED BY ONLY <2>1, PutTyped DEF q
<1> HIDE DEF q
<1> QED
  BY <1>0, <1>1, <1>2, <1>3 DEF Says, Silent, Cleared, Same

LEMMA DecidesIdle ==
    ASSUME TypeOK, NEW s \in States, ~asleep, pane.kind = "idle", NEW v, v = Decide(s)
    PROVE  LET since    == Since(s.idleSince)
               finished == reported /\ Wall - since >= Report
               nudges   == ~finished /\ Wall - since >= Nudge /\ s.nudged = Never
               tells    == ~finished /\ s.nudged # Never /\ Wall - s.nudged >= Alert /\ Due(s.saidIdle)
           IN /\ Cleared(v, s, {"idleSince", "doneSaid", "nudged", "saidIdle"})
              /\ v.st.idleSince = since
              /\ v.kind \in {"done", "nudge", "idle", "none"}
              /\ v.kind = "done" => finished
              /\ v.kind = "nudge" <=> nudges
              /\ v.kind = "idle" <=> tells
              /\ v.st.doneSaid = IF v.kind = "done" THEN Wall ELSE s.doneSaid
              /\ v.st.nudged = IF nudges THEN Wall ELSE s.nudged
              /\ v.st.saidIdle = IF tells THEN Wall ELSE s.saidIdle
<1>0. /\ Wall \in Int /\ Since(s.idleSince) \in Int
      /\ {"noPane", "busyText", "busySince", "waitText", "waitSince",
          "idleSince", "doneSaid", "nudged", "saidIdle"} \subseteq Numbers
  BY ClocksTyped DEF Numbers, Times, States
<1> DEFINE f == Freed(s)
           r == [f EXCEPT !.idleSince = Since(@)]
           Put(k) == [r EXCEPT ![k] = Wall]
<1>1. f \in States /\ f.of = s.of
      /\ \A k \in Numbers : f[k] = IF k \in {"noPane", "busyText", "busySince", "waitText", "waitSince"}
                                   THEN 0 ELSE s[k]
  BY Forgets
<1>2. v = OnIdle(f)
  BY DEF Decide, Freed
<1> HIDE DEF f
<1>3. v = IF reported /\ Wall - r.idleSince >= Report
          THEN IF r.doneSaid = Never THEN Says("done", "done", Put("doneSaid")) ELSE Silent(r)
          ELSE IF Wall - r.idleSince >= Nudge /\ r.nudged = Never
          THEN Says("nudge", "nudge", Put("nudged"))
          ELSE IF r.nudged # Never /\ Wall - r.nudged >= Alert /\ Due(r.saidIdle)
          THEN Says("alert", "idle", Put("saidIdle"))
          ELSE Silent(r)
  BY <1>2 DEF OnIdle
<1>4. r \in States /\ r.of = s.of
      /\ \A n \in Numbers : r[n] = IF n = "idleSince" THEN Since(s.idleSince) ELSE f[n]
  <2>1. "idleSince" \in Numbers /\ f.idleSince = s.idleSince
    BY <1>0, <1>1
  <2>2. r = [f EXCEPT !.idleSince = Since(s.idleSince)]
    BY <2>1
  <2> HIDE DEF r
  <2>3. f \in States /\ Since(s.idleSince) \in Int /\ "idleSince" \in Numbers
    BY <1>0, <1>1
  <2>4. r \in States /\ r.of = f.of
        /\ \A n \in Numbers : r[n] = IF n = "idleSince" THEN Since(s.idleSince) ELSE f[n]
    BY ONLY <2>2, <2>3, PutTyped
  <2> QED BY <1>1, <2>4
<1> HIDE DEF r
<1>5. ASSUME NEW k \in {"doneSaid", "nudged", "saidIdle"}
      PROVE  Put(k) \in States /\ Put(k).of = r.of
             /\ \A n \in Numbers : Put(k)[n] = IF n = k THEN Wall ELSE r[n]
  <2>1. k \in Numbers /\ Wall \in Int /\ r \in States
    BY <1>0, <1>4
  <2> QED BY ONLY <2>1, PutTyped DEF Put
<1> HIDE DEF Put
<1>6. /\ r.idleSince = Since(s.idleSince)
      /\ r.doneSaid = s.doneSaid /\ r.nudged = s.nudged /\ r.saidIdle = s.saidIdle
      /\ \A n \in Numbers : r[n] = IF n = "idleSince" THEN Since(s.idleSince)
             ELSE IF n \in {"noPane", "busyText", "busySince", "waitText", "waitSince"} THEN 0 ELSE s[n]
  BY <1>0, <1>1, <1>4
<1> QED
  BY <1>0, <1>3, <1>4, <1>5, <1>6 DEF Says, Silent, Cleared, Same

LEMMA Decided ==
    ASSUME TypeOK, NEW s \in States, NEW v, v = Decide(s)
    PROVE  /\ v.st \in States /\ v.st.of = s.of
           /\ v.kind \in Kinds \cup {"none", "nudge", "done", "own"}
           /\ v.st.lastWall = s.lastWall /\ v.st.lastMono = s.lastMono
<1>0. {"lastWall", "lastMono"} \subseteq Numbers
      /\ pane.kind \in Kinds \cup {"own", "typed"}
  BY DEF Numbers, Times, TypeOK, Panes, Kinds
<1>1. CASE asleep
  BY <1>1 DEF Decide, Silent, Says
<1>2. CASE ~asleep /\ pane.kind = "gone"
  BY <1>0, <1>2, DecidesGone DEF Alerts, Same, Kinds
<1>3. CASE ~asleep /\ pane.kind = "busy"
  BY <1>0, <1>3, DecidesBusy DEF Alerts, Same, Kinds
<1>4. CASE ~asleep /\ pane.kind = "waiting"
  BY <1>0, <1>4, DecidesWaiting DEF Alerts, Same, Kinds
<1>5. CASE ~asleep /\ pane.kind = "idle"
  BY <1>0, <1>5, DecidesIdle DEF Cleared, Same, Kinds
<1>6. CASE ~asleep /\ pane.kind \in {"own", "typed"}
  BY <1>0, <1>6, DecidesTyped DEF Cleared, Same, Kinds
<1> QED
  BY <1>0, <1>1, <1>2, <1>3, <1>4, <1>5, <1>6 DEF Kinds

-----------------------------------------------------------------------------
(* The file as a run takes it *)

Assigned == active \in {"t1", "t2"}

\* The wall clock is ahead of the steps by Now, and what is known of the runs so far.
Now   == Start + skew
Known == [Seen EXCEPT !.skew = skew, !.moved = Moved, !.blind = Blind]

\* The file s made good by the drift d.
Moves(s, d) == [k \in DOMAIN s |-> IF k \in Shifted /\ s[k] # Never THEN s[k] + d ELSE s[k]]

LEMMA MovesTyped ==
    ASSUME NEW s \in States, NEW d \in Int
    PROVE  /\ Moves(s, d) \in States /\ Moves(s, d).of = s.of
           /\ \A k \in Numbers : Moves(s, d)[k] = IF k \in Shifted /\ s[k] # Never THEN s[k] + d ELSE s[k]
<1>1. DOMAIN s = Numbers \cup {"of"} /\ "of" \notin Numbers /\ Shifted \subseteq Numbers
  BY DEF States, Numbers, Times, Shifted
<1>2. /\ s.of \in Names /\ "of" \notin Shifted
      /\ \A k \in Numbers : s[k] \in Int /\ s[k] + d \in Int
  BY <1>1 DEF States
<1> QED
  BY <1>1, <1>2 DEF States, Moves

Fresh == [NoState EXCEPT !.of = active]

LEMMA FreshTyped ==
    ASSUME Assigned
    PROVE  Fresh \in States /\ Fresh.of = active /\ \A k \in Numbers : Fresh[k] = 0
<1>1. DOMAIN NoState = Numbers \cup {"of"} /\ "of" \notin Numbers
  BY NoStateTyped DEF States, Numbers, Times
<1>2. \A k \in Numbers : NoState[k] = 0
  BY DEF Numbers, Times, NoState, Never
<1> QED
  BY <1>1, <1>2, NoStateTyped DEF Fresh, States, Names, Assigned

LEMMA CorrectedTyped ==
    ASSUME TypeOK, Assigned
    PROVE  /\ Corrected \in States /\ Corrected.of = active
           /\ Stamped(Corrected) \in States /\ Stamped(Corrected).of = active
           /\ Stamped(Corrected).lastWall = Wall /\ Stamped(Corrected).lastMono = Mono
           /\ \A k \in Numbers \ {"lastWall", "lastMono"} : Stamped(Corrected)[k] = Corrected[k]
<1> DEFINE s == IF st.of = active THEN st ELSE Fresh
<1>1. s \in States /\ s.of = active
  BY FreshTyped DEF TypeOK
<1>2. Corrected = IF s.lastWall = Never \/ Mono < s.lastMono THEN s ELSE Moves(s, Drift(s))
  BY DEF Corrected, Moves, Fresh
<1> HIDE DEF s
<1>3. Drift(s) \in Int
  <2>1. {"lastWall", "lastMono"} \subseteq Numbers
    BY DEF Numbers, Times
  <2>2. s.lastWall \in Int /\ s.lastMono \in Int
    BY <1>1, <2>1 DEF States
  <2> QED BY <2>2, ClocksTyped DEF Drift
<1>4. Corrected \in States /\ Corrected.of = active
  BY <1>1, <1>2, <1>3, MovesTyped
<1>5. /\ Stamped(Corrected) = [[Corrected EXCEPT !.lastWall = Wall] EXCEPT !.lastMono = Mono]
      /\ "lastWall" \in Numbers /\ "lastMono" \in Numbers
      /\ Wall \in Int /\ Mono \in Int
  BY ClocksTyped DEF Stamped, Numbers, Times
<1> DEFINE r == [Corrected EXCEPT !.lastWall = Wall]
<1>6. r \in States /\ r.of = active /\ \A n \in Numbers : r[n] = IF n = "lastWall" THEN Wall ELSE Corrected[n]
  BY <1>4, <1>5, PutTyped
<1>7. Stamped(Corrected) = [r EXCEPT !.lastMono = Mono]
  BY <1>5
<1> HIDE DEF r
<1>8. /\ [r EXCEPT !.lastMono = Mono] \in States /\ [r EXCEPT !.lastMono = Mono].of = r.of
      /\ \A n \in Numbers : [r EXCEPT !.lastMono = Mono][n] = IF n = "lastMono" THEN Mono ELSE r[n]
  BY ONLY <1>5, <1>6, PutTyped
<1> QED
  BY <1>4, <1>5, <1>6, <1>7, <1>8

\* The correction takes every time to the same step, or to a later one when the
\* machine was rebooted, but not past the present.
LEMMA Shift ==
    ASSUME TypeOK, DutyInv, Assigned, st.of = active, ~Blind
    PROVE  \E e \in Nat :
              /\ Last + e <= time /\ (seen.row > 0 => e = 0)
              /\ \A k \in Numbers \ Shifted : Corrected[k] = st[k]
              /\ \A k \in Shifted : Corrected[k] =
                     IF st[k] = Never THEN Never ELSE st[k] - Ahead + Now + e
<1>1. /\ st \in States /\ seen.of = active /\ st.of # "nobody" /\ seen.skew \in Int /\ seen.row \in Nat
      /\ time \in Nat /\ boot \in 0..time /\ skew \in Int /\ Start \in Nat
  BY ClocksTyped DEF TypeOK, DutyInv, Assigned, Histories
<1>2. /\ "lastWall" \in Numbers /\ "lastMono" \in Numbers /\ Shifted \subseteq Numbers
      /\ \A k \in Numbers : st[k] \in Int
  BY <1>1 DEF Numbers, Times, States, Shifted
<1>3. /\ st.lastWall # Never /\ st.lastMono \in 0..Last /\ Last <= time /\ Last \in Int /\ Ahead \in Int
      /\ st.lastWall = Last + Ahead
      /\ boot = Last - st.lastMono \/ boot >= Last
      /\ seen.row > 0 => boot = Last - st.lastMono
  BY <1>1, <1>2 DEF DutyInv, Clocks, Last, Ahead
<1>4. /\ Mono = time - boot /\ Wall = time + Now /\ Now \in Int
      /\ Drift(st) = Wall - (st.lastWall + (Mono - st.lastMono))
  BY <1>1 DEF Mono, Wall, Now, Drift
<1>5. Corrected = IF st.lastWall = Never \/ Mono < st.lastMono THEN st ELSE Moves(st, Drift(st))
  BY DEF Corrected, Moves
<1>6. CASE Mono < st.lastMono
  <2>1. Now = Ahead
    BY <1>1, <1>6 DEF Blind, Now, Ahead
  <2>2. Corrected = st
    BY <1>5, <1>6
  <2>3. \A k \in Shifted : Corrected[k] = IF st[k] = Never THEN Never ELSE st[k] - Ahead + Now + 0
    BY <1>2, <1>3, <2>1, <2>2
  <2>4. Last + 0 <= time
    BY <1>3
  <2> QED BY <2>2, <2>3, <2>4
<1>7. CASE Mono >= st.lastMono
  <2> DEFINE e == boot + st.lastMono - Last
  <2>1. e \in Nat /\ Last + e <= time /\ (seen.row > 0 => e = 0) /\ Drift(st) = Now - Ahead + e
    BY <1>1, <1>2, <1>3, <1>4, <1>7
  <2> HIDE DEF e
  <2>2. Drift(st) \in Int /\ Corrected = Moves(st, Drift(st))
    BY <1>1, <1>2, <1>3, <1>4, <1>5, <1>7, <2>1
  <2>3. \A k \in Numbers : Corrected[k] = IF k \in Shifted /\ st[k] # Never THEN st[k] + Drift(st) ELSE st[k]
    BY <1>1, <2>2, MovesTyped
  <2>4. \A k \in Shifted : Corrected[k] = IF st[k] = Never THEN Never ELSE st[k] - Ahead + Now + e
    BY <1>2, <1>3, <1>4, <2>1, <2>3
  <2> QED BY <2>1, <2>3, <2>4
<1>8. Mono \in Int /\ st.lastMono \in Int
  BY <1>1, <1>2, <1>4
<1> QED
  BY <1>6, <1>7, <1>8

Taken == Stamped(Corrected)

LEMMA KnownSame ==
    ASSUME TypeOK, seen.of = active
    PROVE  /\ Known \in Histories /\ Known.of = active
           /\ Known.from = seen.from /\ Known.poked = seen.poked /\ Known.told = seen.told
           /\ Known.last = seen.last /\ Known.row = seen.row
           /\ Known.skew = skew /\ Known.moved = Moved /\ Known.blind = Blind
           /\ (~Moved => ~seen.moved /\ Now = Ahead)
<1>1. Known = [seen EXCEPT !.skew = skew, !.moved = Moved, !.blind = Blind]
  BY DEF Known, Seen
<1>2. seen \in Histories /\ skew \in Int /\ Moved \in BOOLEAN /\ Blind \in BOOLEAN
  BY DEF TypeOK, Moved, Blind
<1>3. Known \in Histories
  BY <1>1, <1>2 DEF Histories
<1>4. ~Moved => ~seen.moved /\ Now = Ahead
  BY DEF Moved, Now, Ahead
<1> QED
  BY <1>1, <1>2, <1>3, <1>4 DEF Histories

LEMMA KnownFresh ==
    ASSUME TypeOK, Assigned, seen.of # active
    PROVE  /\ Known \in Histories /\ Known.of = active
           /\ Known.from = [p \in Watched |-> -1] /\ Known.poked = -1 /\ Known.told = [k \in Kinds |-> -1]
           /\ Known.last = [kind |-> "none", text |-> 0] /\ Known.row = 0
           /\ Known.skew = skew /\ Known.moved = Moved /\ Known.blind = Blind
<1>1. Known = [[NothingSeen EXCEPT !.of = active] EXCEPT !.skew = skew, !.moved = Moved, !.blind = Blind]
  BY DEF Known, Seen
<1>2. skew \in Int /\ Moved \in BOOLEAN /\ Blind \in BOOLEAN /\ active \in Names
  BY DEF TypeOK, Moved, Blind, Assigned, Names
<1>3. [p \in Watched |-> -1] \in [Watched -> Int] /\ [k \in Kinds |-> -1] \in [Kinds -> Int]
      /\ NothingSeen.last = [kind |-> "none", text |-> 0]
  BY DEF NothingSeen
<1>4. Known = [of |-> active, from |-> [p \in Watched |-> -1], poked |-> -1,
               told |-> [k \in Kinds |-> -1], last |-> [kind |-> "none", text |-> 0], row |-> 0,
               skew |-> skew, moved |-> Moved, blind |-> Blind]
  BY <1>1 DEF NothingSeen
<1> QED
  BY <1>2, <1>3, <1>4 DEF Histories

LEMMA TakenFresh ==
    ASSUME TypeOK, DutyInv, Assigned, seen.of # active
    PROVE  Facts(Taken, Known, Now, time) /\ Known.row = 0
<1>1. \A k \in Numbers \ {"lastWall", "lastMono"} : Taken[k] = 0
  <2>1. Fresh \in States /\ \A k \in Numbers : Fresh[k] = 0
    BY FreshTyped
  <2>2. Corrected = Fresh
    <3>1. "lastWall" \in Numbers
      BY DEF Numbers, Times
    <3>2. st.of # active /\ Fresh.lastWall = Never
      BY <2>1, <3>1 DEF DutyInv, Never
    <3> QED BY <3>2 DEF Corrected, Fresh
  <2> QED BY <2>1, <2>2, CorrectedTyped DEF Taken
<1>2. /\ {"noPane", "idleSince", "busySince", "waitSince", "nudged", "saidGone", "saidBusy", "saidWaiting",
          "saidIdle"} \subseteq Numbers \ {"lastWall", "lastMono"}
      /\ Shifted \subseteq Numbers \ {"lastWall", "lastMono"}
  BY DEF Numbers, Times, Shifted
<1>3. time \in Nat
  BY DEF TypeOK
<1> QED
  BY <1>1, <1>2, <1>3, KnownFresh DEF Facts, Kept, Never, Watched

LEMMA TakenSame ==
    ASSUME TypeOK, DutyInv, Assigned, seen.of = active, ~Blind
    PROVE  Facts(Taken, Known, Now, time)
<1> PICK e \in Nat :
        /\ Last + e <= time /\ (seen.row > 0 => e = 0)
        /\ \A k \in Numbers \ Shifted : Corrected[k] = st[k]
        /\ \A k \in Shifted : Corrected[k] = IF st[k] = Never THEN Never ELSE st[k] - Ahead + Now + e
  BY Shift DEF DutyInv
<1>1. Facts(st, seen, Ahead, Last)
  BY DEF DutyInv, Remembered, Blind, Assigned
<1>2. /\ st \in States /\ time \in Nat /\ Ahead \in Int /\ Now \in Int /\ Last \in Int /\ Last <= time
      /\ Now > 0 /\ \A k \in Numbers : st[k] \in Int
  <2>1. "lastWall" \in Numbers
    BY DEF Numbers, Times
  <2>2. st \in States /\ seen.skew \in Int /\ skew \in Int /\ Start + skew >= Remind /\ time \in Nat
    BY DEF TypeOK, Histories
  <2>3. Last <= time
    BY DEF DutyInv, Clocks, Assigned
  <2> QED BY <2>1, <2>2, <2>3, ClocksTyped DEF States, Ahead, Now, Last
<1>3. \A k \in Numbers \ {"lastWall", "lastMono"} : Taken[k] = Corrected[k]
  BY CorrectedTyped DEF Taken
<1>4. Shifted \subseteq Numbers \ {"lastWall", "lastMono"}
  BY DEF Numbers, Times, Shifted
<1>5. \A k \in Shifted : Taken[k] # Never =>
          st[k] # Never /\ Taken[k] - Now = st[k] - Ahead + e /\ st[k] - Ahead \in 0..Last
  <2> TAKE k \in Shifted
  <2> HAVE Taken[k] # Never
  <2>1. st[k] # Never /\ Taken[k] = st[k] - Ahead + Now + e /\ st[k] \in Int
    BY <1>2, <1>3, <1>4
  <2>2. st[k] - Ahead \in 0..Last
    BY <1>1, <2>1 DEF Facts
  <2> QED BY <1>2, <2>1, <2>2
<1>6. \A k \in Shifted : Taken[k] # Never => Taken[k] - Now \in 0..time
  BY <1>2, <1>5
<1>7. /\ {"busyText", "waitText", "waitSince", "saidWaiting"} \subseteq Numbers \ {"lastWall", "lastMono"}
      /\ {"busyText", "waitText", "waitSince", "saidWaiting"} \cap Shifted = {}
      /\ {"noPane", "idleSince", "busySince", "nudged", "saidGone", "saidBusy", "saidIdle"} \subseteq Shifted
  BY DEF Numbers, Times, Shifted
<1>8. /\ Taken.busyText = st.busyText /\ Taken.waitText = st.waitText
      /\ Taken.waitSince = st.waitSince /\ Taken.saidWaiting = st.saidWaiting
  BY <1>3, <1>4, <1>7
<1>9. /\ \A p \in Watched : seen.from[p] \in Int
      /\ seen.poked \in Int /\ \A k \in Kinds : seen.told[k] \in Int
  BY DEF TypeOK, Histories
<1>10. /\ \A p \in Watched : seen.from[p] \in -1..time
       /\ seen.poked \in -1..time
       /\ \A k \in Kinds : seen.told[k] \in -1..time
  BY <1>1, <1>2, <1>9 DEF Facts
<1>11. Idle \in Watched /\ Gone \in Watched /\ \A c \in {1, 2} : Busy(c) \in Watched /\ Asks(c) \in Watched
  BY DEF Idle, Gone, Busy, Asks, Watched, Panes, Kinds
<1>12. Kept(Taken.noPane, Gone, seen, Now, time)
  BY <1>1, <1>2, <1>5, <1>6, <1>7, <1>9, <1>11 DEF Facts, Kept
<1>13. Kept(Taken.idleSince, Idle, seen, Now, time)
  BY <1>1, <1>2, <1>5, <1>6, <1>7, <1>9, <1>11 DEF Facts, Kept
<1>14. Taken.busySince # Never =>
          Taken.busyText \in {1, 2} /\ Kept(Taken.busySince, Busy(Taken.busyText), seen, Now, time)
  <2> HAVE Taken.busySince # Never
  <2>1. st.busySince # Never /\ st.busyText \in {1, 2} /\ Kept(st.busySince, Busy(st.busyText), seen, Ahead, Last)
    BY <1>1, <1>5, <1>7 DEF Facts
  <2>2. Busy(st.busyText) \in Watched
    BY <1>11, <2>1
  <2> QED BY <1>2, <1>5, <1>6, <1>7, <1>8, <1>9, <2>1, <2>2 DEF Kept
<1>15. (Taken.waitSince # Never /\ ~Moved) =>
          Taken.waitText \in {1, 2} /\ Kept(Taken.waitSince, Asks(Taken.waitText), seen, Now, time)
  <2> HAVE Taken.waitSince # Never /\ ~Moved
  <2>1. /\ st.waitSince # Never /\ st.waitText \in {1, 2} /\ Now = Ahead
        /\ Kept(st.waitSince, Asks(st.waitText), seen, Ahead, Last)
    BY <1>1, <1>8, KnownSame DEF Facts
  <2>2. Asks(st.waitText) \in Watched /\ st.waitSince \in Int
    BY <1>2, <1>7, <1>11, <2>1
  <2> QED BY <1>2, <1>8, <1>9, <2>1, <2>2 DEF Kept
<1>16. (Taken.saidWaiting # Never /\ ~Moved) => Taken.saidWaiting - Now \in 0..time
  BY <1>1, <1>2, <1>7, <1>8, KnownSame DEF Facts
<1>17. Taken.nudged # Never => seen.poked # -1 /\ seen.poked <= Taken.nudged - Now
  <2> HAVE Taken.nudged # Never
  <2>1. st.nudged # Never /\ Taken.nudged - Now = st.nudged - Ahead + e
    BY <1>5, <1>7
  <2>2. seen.poked # -1 /\ seen.poked <= st.nudged - Ahead
    BY <1>1, <2>1 DEF Facts
  <2>3. st.nudged \in Int
    BY <1>2, <1>4, <1>7
  <2> QED BY <1>2, <1>9, <2>1, <2>2, <2>3
<1>18. /\ Taken.saidGone # Never => seen.told["gone"] # -1
       /\ Taken.saidBusy # Never => seen.told["busy"] # -1
       /\ Taken.saidWaiting # Never => seen.told["waiting"] # -1
       /\ Taken.saidIdle # Never => seen.told["idle"] # -1
  BY <1>1, <1>5, <1>7, <1>8 DEF Facts
<1>19. /\ Known.from = seen.from /\ Known.poked = seen.poked /\ Known.told = seen.told
       /\ Known.moved = Moved
  BY KnownSame
<1> QED
  BY <1>6, <1>10, <1>12, <1>13, <1>14, <1>15, <1>16, <1>17, <1>18, <1>19 DEF Facts, Kept

LEMMA TakenRow ==
    ASSUME TypeOK, DutyInv, Assigned, ~done, ~Blind, Known.row > 0
    PROVE  RowFacts(Taken, Known, Known.row, Now, time - 1)
<1>1. /\ seen.of = active /\ seen.row > 0 /\ Known.row = seen.row
      /\ Known.last = seen.last /\ Known.told = seen.told /\ Known.moved = Moved
      /\ ~Moved => ~seen.moved /\ Now = Ahead
  BY KnownFresh, KnownSame
<1>2. /\ st \in States /\ time \in Nat /\ Ahead \in Int /\ Now \in Int /\ Last \in Int /\ Now > 0
      /\ time - 1 = Last /\ seen.row \in Nat /\ \A k \in Numbers : st[k] \in Int
  <2>1. "lastWall" \in Numbers
    BY DEF Numbers, Times
  <2>2. st \in States /\ seen.skew \in Int /\ skew \in Int /\ Start + skew >= Remind /\ time \in Nat
        /\ seen.row \in Nat
    BY DEF TypeOK, Histories
  <2>3. time = Last + 1
    BY <1>1 DEF DutyInv, Clocks
  <2>4. st.lastWall \in Int /\ \A k \in Numbers : st[k] \in Int
    BY <2>1, <2>2 DEF States
  <2>5. Ahead \in Int /\ Now \in Int /\ Last \in Int /\ Now > 0
    BY <2>2, <2>4, ClocksTyped DEF Ahead, Now, Last
  <2> QED BY <2>2, <2>3, <2>4, <2>5
<1>3. Facts(st, seen, Ahead, Last) /\ RowFacts(st, seen, seen.row, Ahead, Last)
  BY <1>1 DEF DutyInv, Remembered, Blind, Assigned
<1> PICK e \in Nat :
        /\ Last + e <= time /\ (seen.row > 0 => e = 0)
        /\ \A k \in Numbers \ Shifted : Corrected[k] = st[k]
        /\ \A k \in Shifted : Corrected[k] = IF st[k] = Never THEN Never ELSE st[k] - Ahead + Now + e
  BY <1>1, Shift DEF DutyInv
<1>4. \A k \in Numbers \ {"lastWall", "lastMono"} : Taken[k] = Corrected[k]
  BY CorrectedTyped DEF Taken
<1>5. Shifted \subseteq Numbers \ {"lastWall", "lastMono"}
  BY DEF Numbers, Times, Shifted
<1>6. \A k \in Shifted :
          /\ Taken[k] = Never <=> st[k] = Never
          /\ st[k] # Never => Taken[k] - Now = st[k] - Ahead
  <2> TAKE k \in Shifted
  <2>1. Taken[k] = (IF st[k] = Never THEN Never ELSE st[k] - Ahead + Now) /\ st[k] \in Int
    BY <1>1, <1>2, <1>4, <1>5
  <2>2. st[k] # Never => st[k] - Ahead \in 0..Last
    BY <1>3 DEF Facts
  <2> QED BY <1>2, <2>1, <2>2 DEF Never
<1>7. /\ {"busyText", "waitText", "waitSince", "saidWaiting"} \subseteq Numbers \ {"lastWall", "lastMono"}
      /\ {"busyText", "waitText", "waitSince", "saidWaiting"} \cap Shifted = {}
      /\ {"noPane", "idleSince", "busySince", "nudged", "saidGone", "saidBusy", "saidIdle"} \subseteq Shifted
  BY DEF Numbers, Times, Shifted
<1>8. /\ Taken.busyText = st.busyText /\ Taken.waitText = st.waitText
      /\ Taken.waitSince = st.waitSince /\ Taken.saidWaiting = st.saidWaiting
  BY <1>4, <1>5, <1>7
<1>9. seen.last.kind = "gone" =>
        Stood(Taken.noPane, seen.row, Now, Last) /\ Told(Taken.saidGone, seen.told["gone"], Limit("gone"), seen.row, Now, Last)
  BY <1>1, <1>3, <1>6, <1>7 DEF RowFacts, Stood, Told
<1>10. seen.last.kind = "busy" =>
        /\ Taken.busyText = seen.last.text /\ Stood(Taken.busySince, seen.row, Now, Last)
        /\ Told(Taken.saidBusy, seen.told["busy"], Limit("busy"), seen.row, Now, Last)
  BY <1>1, <1>3, <1>6, <1>7, <1>8 DEF RowFacts, Stood, Told
<1>11. (seen.last.kind = "waiting" /\ ~Moved) =>
        /\ Taken.waitText = seen.last.text /\ Stood(Taken.waitSince, seen.row, Now, Last)
        /\ Told(Taken.saidWaiting, seen.told["waiting"], Limit("waiting"), seen.row, Now, Last)
  BY <1>1, <1>3, <1>8 DEF RowFacts, Stood, Told
<1>12. seen.last.kind = "idle" =>
        /\ Stood(Taken.idleSince, seen.row, Now, Last)
        /\ seen.row > Nudge => Taken.nudged # Never /\ Taken.nudged - Now <= Last - seen.row + 1 + Nudge
        /\ Told(Taken.saidIdle, seen.told["idle"], Limit("idle"), seen.row, Now, Last)
  BY <1>1, <1>3, <1>6, <1>7 DEF RowFacts, Stood, Told
<1> QED
  BY <1>1, <1>2, <1>9, <1>10, <1>11, <1>12 DEF RowFacts

-----------------------------------------------------------------------------
(* One more step of the same pane *)

\* After row steps a run tells at once, or nothing changes and, past the limit,
\* it was said not long before.
TellRun(said, told, said2, told2, limit, row, K, T) ==
    /\ {said, told, said2, told2, K} \subseteq Int /\ {limit, row, T} \subseteq Nat
    /\ limit > 0 /\ K > 0
    /\ said # Never => told # -1 /\ said - K <= T
    /\ row > 0 => Told(said, told, limit, row, K, T - 1)
    /\ \/ said2 = T + K /\ told2 = T
       \/ /\ said2 = said /\ told2 = told
          /\ row + 1 > limit => said # Never /\ T + K - said < Remind

LEMMA ToldAgain ==
    ASSUME NEW said, NEW told, NEW said2, NEW told2, NEW limit, NEW row, NEW K, NEW T,
           TellRun(said, told, said2, told2, limit, row, K, T), Remind \in Nat, Remind > 0
    PROVE  Told(said2, told2, limit, row + 1, K, T)
<1> USE DEF TellRun
<1>1. CASE said2 = T + K /\ told2 = T
  BY <1>1 DEF Told, Never
<1>2. CASE said2 = said /\ told2 = told /\ row = 0 /\ (row + 1 > limit => said # Never /\ T + K - said < Remind)
  BY <1>2 DEF Told, Never
<1>3. CASE said2 = said /\ told2 = told /\ row > 0 /\ (row + 1 > limit => said # Never /\ T + K - said < Remind)
  BY <1>3 DEF Told, Never
<1> QED
  BY <1>1, <1>2, <1>3

-----------------------------------------------------------------------------
(* What the history makes of a run *)

LEMMA SeenAsleep ==
    ASSUME TypeOK, Assigned, asleep, NEW kind, NEW h, h = SeenBy(kind)
    PROVE  /\ h \in Histories /\ h.of = active /\ h.row = 0
           /\ h.from = Known.from /\ h.poked = Known.poked /\ h.told = Known.told
           /\ h.skew = skew /\ h.moved = Moved /\ h.blind = Blind
<1>1. Known \in Histories /\ Known.of = active
      /\ Known.skew = skew /\ Known.moved = Moved /\ Known.blind = Blind
  BY KnownSame, KnownFresh
<1>2. h = [Known EXCEPT !.row = 0]
  BY DEF SeenBy, Known
<1> HIDE DEF Known
<1> QED
  BY <1>1, <1>2 DEF Histories

LEMMA SeenAwake ==
    ASSUME TypeOK, Assigned, ~asleep, NEW kind, NEW h, h = SeenBy(kind)
    PROVE  /\ h \in Histories /\ h.of = active /\ h.last = pane
           /\ \A p \in Watched : h.from[p] =
                 IF p = pane THEN IF Known.from[p] = -1 THEN time ELSE Known.from[p]
                 ELSE IF Ends(pane, p) THEN -1 ELSE Known.from[p]
           /\ h.poked = IF kind = "nudge" THEN time ELSE IF pane.kind = "busy" THEN -1 ELSE Known.poked
           /\ \A k \in Kinds : h.told[k] = IF k = kind THEN time ELSE Known.told[k]
           /\ h.row = IF pane.kind = "idle" /\ reported THEN 0
                      ELSE (IF pane = Known.last THEN Known.row ELSE 0) + 1
           /\ h.skew = skew /\ h.moved = Moved /\ h.blind = Blind
<1>1. Known \in Histories /\ Known.of = active
      /\ Known.skew = skew /\ Known.moved = Moved /\ Known.blind = Blind
  BY KnownSame, KnownFresh
<1>2. Seen.last = Known.last /\ Seen.from = Known.from
  <2>1. Seen.of = active /\ (Seen = seen \/ Seen = [NothingSeen EXCEPT !.of = active])
    BY DEF Seen, NothingSeen
  <2>2. CASE Seen = seen
    BY <2>2 DEF Known, TypeOK, Histories
  <2>3. CASE Seen = [NothingSeen EXCEPT !.of = active]
    BY <2>3 DEF Known, NothingSeen
  <2> QED BY <2>1, <2>2, <2>3
<1> DEFINE from == [p \in Watched |-> IF p = pane THEN From(p)
                                      ELSE IF Ends(pane, p) THEN -1 ELSE Known.from[p]]
           poked == IF kind = "nudge" THEN time ELSE IF pane.kind = "busy" THEN -1 ELSE Known.poked
           told == [k \in Kinds |-> IF k = kind THEN time ELSE Known.told[k]]
           row == IF pane.kind = "idle" /\ reported THEN 0
                  ELSE IF pane = Known.last THEN Known.row + 1 ELSE 1
<1>3. h = [Known EXCEPT !.from = from, !.poked = poked, !.told = told, !.row = row, !.last = pane]
  BY <1>1, <1>2 DEF SeenBy, Known, Histories
<1>4. time \in Nat /\ pane \in Panes
  BY DEF TypeOK
<1>5. \A p \in Watched : From(p) = IF Known.from[p] = -1 THEN time ELSE Known.from[p]
  BY <1>2 DEF From
<1>6. /\ from \in [Watched -> Int] /\ poked \in Int /\ told \in [Kinds -> Int]
      /\ row \in Nat /\ row = IF pane.kind = "idle" /\ reported THEN 0
                              ELSE (IF pane = Known.last THEN Known.row ELSE 0) + 1
  <2>1. /\ \A p \in Watched : Known.from[p] \in Int
        /\ Known.poked \in Int /\ Known.row \in Nat /\ \A k \in Kinds : Known.told[k] \in Int
    BY <1>1 DEF Histories
  <2>2. from \in [Watched -> Int]
    BY <1>4, <1>5, <2>1
  <2>3. told \in [Kinds -> Int]
    BY <1>4, <2>1
  <2>4. poked \in Int
    BY <1>4, <2>1
  <2>5. row \in Nat /\ row = IF pane.kind = "idle" /\ reported THEN 0
                              ELSE (IF pane = Known.last THEN Known.row ELSE 0) + 1
    BY <2>1
  <2> QED BY <2>2, <2>3, <2>4, <2>5
<1>7. /\ \A p \in Watched : from[p] = IF p = pane THEN IF Known.from[p] = -1 THEN time ELSE Known.from[p]
                                      ELSE IF Ends(pane, p) THEN -1 ELSE Known.from[p]
      /\ \A k \in Kinds : told[k] = IF k = kind THEN time ELSE Known.told[k]
  BY <1>5
<1> HIDE DEF from, poked, told, row, Known
<1>8. /\ h \in Histories /\ h.of = active /\ h.last = pane
      /\ h.from = from /\ h.poked = poked /\ h.told = told /\ h.row = row
      /\ h.skew = Known.skew /\ h.moved = Known.moved /\ h.blind = Known.blind
  BY <1>1, <1>3, <1>4, <1>6 DEF Histories
<1>9. h.poked = IF kind = "nudge" THEN time ELSE IF pane.kind = "busy" THEN -1 ELSE Known.poked
  BY <1>8 DEF poked
<1> QED
  BY <1>1, <1>6, <1>7, <1>8, <1>9

LEMMA PaneForms ==
    ASSUME TypeOK
    PROVE  /\ pane.kind = "gone" => pane = Gone
           /\ pane.kind = "idle" => pane = Idle
           /\ pane.kind = "busy" => pane.text \in {1, 2} /\ pane = Busy(pane.text)
           /\ pane.kind = "waiting" => pane.text \in {1, 2} /\ pane = Asks(pane.text)
           /\ pane.kind \in Kinds => pane \in Watched
           /\ pane.kind \in Kinds \cup {"own", "typed"}
BY DEF TypeOK, Panes, Gone, Idle, Busy, Asks, Watched, Kinds

LEMMA WatchedForms ==
    /\ Gone \in Watched /\ Idle \in Watched
    /\ \A c \in {1, 2} : Busy(c) \in Watched /\ Asks(c) \in Watched
BY DEF Idle, Gone, Busy, Asks, Watched, Panes, Kinds

\* Which pane leaves the memory of which other one alone.
LEMMA EndsNot ==
    /\ \A q : q.kind # "busy" => ~Ends(q, Idle)
    /\ \A q, c : q.kind = "gone" => ~Ends(q, Busy(c))
    /\ \A q, c : q.kind \in {"gone", "busy"} => ~Ends(q, Asks(c))
<1>1. Idle.kind = "idle" /\ \A c : Busy(c).kind = "busy" /\ Asks(c).kind = "waiting"
  BY DEF Idle, Busy, Asks
<1> QED
  BY <1>1 DEF Ends

\* A time goes on standing for a step since p was first seen while nothing ends
\* p; one stamped now does while p is there.
LEMMA KeptOn ==
    ASSUME TypeOK, Assigned, ~asleep, NEW kind, NEW h, h = SeenBy(kind),
           NEW p \in Watched, NEW t \in Int, NEW u \in Int, Kept(t, p, Known, Now, time),
           Known.from[p] \in -1..time,
           \/ u = Never
           \/ u = t /\ (p = pane \/ ~Ends(pane, p))
           \/ u = Wall /\ p = pane
    PROVE  Kept(u, p, h, Now, time)
<1>1. time \in Nat /\ Now \in Int /\ Wall = time + Now
  BY ClocksTyped DEF TypeOK, Now, Wall
<1>2. h.from[p] = IF p = pane THEN IF Known.from[p] = -1 THEN time ELSE Known.from[p]
                  ELSE IF Ends(pane, p) THEN -1 ELSE Known.from[p]
  BY SeenAwake
<1>3. CASE u = Never
  BY <1>3 DEF Kept
<1>4. CASE u = t /\ (p = pane \/ ~Ends(pane, p))
  BY <1>1, <1>2, <1>4 DEF Kept
<1>5. CASE u = Wall /\ p = pane
  BY <1>1, <1>2, <1>5 DEF Kept
<1> QED
  BY <1>3, <1>4, <1>5

\* What holds of the history and of the shifted times whatever the pane.
LEMMA BoundsOn ==
    ASSUME TypeOK, Assigned, ~asleep, NEW kind, NEW h, h = SeenBy(kind),
           NEW s \in States, Facts(s, Known, Now, time), NEW r \in States,
           \A k \in Shifted : r[k] \in {Never, s[k], Wall}
    PROVE  /\ \A k \in Shifted : r[k] # Never => r[k] - Now \in 0..time
           /\ \A p \in Watched : h.from[p] \in -1..time
           /\ h.poked \in -1..time
           /\ \A k \in Kinds : h.told[k] \in -1..time
<1>1. time \in Nat /\ Now \in Int /\ Wall = time + Now
  BY ClocksTyped DEF TypeOK, Now, Wall
<1>2. /\ \A p \in Watched : Known.from[p] \in -1..time
      /\ Known.poked \in -1..time
      /\ \A k \in Kinds : Known.told[k] \in -1..time
      /\ \A k \in Shifted : s[k] # Never => s[k] - Now \in 0..time
  BY DEF Facts
<1>3. \A k \in Shifted : r[k] # Never => r[k] - Now \in 0..time
  BY <1>1, <1>2
<1>4. \A p \in Watched : h.from[p] \in -1..time
  BY <1>1, <1>2, SeenAwake
<1>5. h.poked \in -1..time /\ \A k \in Kinds : h.told[k] \in -1..time
  BY <1>1, <1>2, SeenAwake
<1> QED
  BY <1>3, <1>4, <1>5

LEMMA Forwards ==
    ASSUME TypeOK, NEW s \in States
    PROVE  /\ Wall \in Int /\ Now \in Int /\ time \in Nat /\ Wall = time + Now /\ Now > 0
           /\ \A k \in Numbers : s[k] \in Int /\ Since(s[k]) \in {s[k], Wall}
           /\ Shifted \subseteq Numbers
           /\ {"noPane", "idleSince", "busySince", "waitSince", "nudged", "saidGone", "saidBusy",
               "saidWaiting", "saidIdle", "busyText", "waitText"} \subseteq Numbers
           /\ {"gone", "busy", "waiting", "idle"} = Kinds
<1>1. Start \in Nat /\ skew \in Int /\ time \in Nat /\ Remind \in Nat /\ Remind > 0 /\ Start + skew >= Remind
  BY ClocksTyped DEF TypeOK
<1>2. Now \in Int /\ Wall = time + Now /\ Now > 0
  BY <1>1 DEF Now, Wall
<1>3. /\ Shifted \subseteq Numbers
      /\ {"noPane", "idleSince", "busySince", "waitSince", "nudged", "saidGone", "saidBusy",
               "saidWaiting", "saidIdle", "busyText", "waitText"} \subseteq Numbers
  BY DEF Shifted, Numbers, Times
<1>4. \A k \in Numbers : s[k] \in Int /\ Since(s[k]) \in {s[k], Wall}
  BY DEF States, Since
<1> QED
  BY <1>1, <1>2, <1>3, <1>4 DEF Kinds

-----------------------------------------------------------------------------
(* The facts after a run, pane by pane *)

LEMMA FactsGone ==
    ASSUME TypeOK, Assigned, ~asleep, pane.kind = "gone",
           NEW s \in States, Facts(s, Known, Now, time),
           NEW v, v = Decide(s), NEW h, h = SeenBy(v.kind)
    PROVE  Facts(v.st, h, Now, time)
<1> DEFINE r == v.st
<1>1. /\ r \in States /\ r.noPane = Since(s.noPane)
      /\ Alerts(v, "gone", "saidGone", s, Wall - Since(s.noPane) >= Alert /\ Due(s.saidGone))
      /\ Same(v, s, {"noPane", "saidGone"})
  BY DecidesGone
<1> HIDE DEF r
<1>2. v.kind \in {"gone", "none"} /\ r.saidGone = IF v.kind = "gone" THEN Wall ELSE s.saidGone
  BY <1>1 DEF Alerts, r
<1>3. \A k \in Numbers \ {"noPane", "saidGone"} : r[k] = s[k]
  BY <1>1 DEF Same, r
<1>4. pane = Gone /\ pane \in Watched
  BY PaneForms DEF Kinds
<1>5. \A k \in Shifted : r[k] \in {Never, s[k], Wall}
  BY <1>1, <1>2, <1>3, Forwards
<1>6. /\ \A k \in Shifted : r[k] # Never => r[k] - Now \in 0..time
      /\ \A p \in Watched : h.from[p] \in -1..time
      /\ h.poked \in -1..time
      /\ \A k \in Kinds : h.told[k] \in -1..time
  BY <1>1, <1>5, BoundsOn
<1>7. /\ r.idleSince = s.idleSince /\ r.busySince = s.busySince /\ r.busyText = s.busyText
      /\ r.waitSince = s.waitSince /\ r.waitText = s.waitText /\ r.saidWaiting = s.saidWaiting
      /\ r.nudged = s.nudged /\ r.saidBusy = s.saidBusy /\ r.saidIdle = s.saidIdle
  BY <1>3, Forwards
<1>8. \A k \in Numbers : r[k] \in Int /\ s[k] \in Int
  BY <1>1 DEF States
<1>9. /\ h.moved = Known.moved /\ h.poked = Known.poked
      /\ \A k \in Kinds : h.told[k] = IF k = v.kind THEN time ELSE Known.told[k]
  BY <1>2, SeenAwake, KnownSame, KnownFresh
<1>10. \A p \in Watched : Known.from[p] \in -1..time
  BY DEF Facts
<1>11. Kept(r.noPane, Gone, h, Now, time)
  <2>1. Kept(s.noPane, Gone, Known, Now, time)
    BY DEF Facts
  <2> QED BY <1>1, <1>4, <1>8, <1>10, <2>1, KeptOn, Forwards
<1>12. Kept(r.idleSince, Idle, h, Now, time)
  <2>1. Kept(s.idleSince, Idle, Known, Now, time)
    BY DEF Facts
  <2> QED BY <1>7, <1>8, <1>10, <2>1, KeptOn, Forwards, EndsNot, WatchedForms
<1>13. r.busySince # Never => r.busyText \in {1, 2} /\ Kept(r.busySince, Busy(r.busyText), h, Now, time)
  <2> HAVE r.busySince # Never
  <2>1. s.busyText \in {1, 2} /\ Kept(s.busySince, Busy(s.busyText), Known, Now, time)
    BY <1>7 DEF Facts
  <2>2. Busy(s.busyText) \in Watched /\ ~Ends(pane, Busy(s.busyText))
    BY <2>1, EndsNot, WatchedForms
  <2> QED BY <1>7, <1>8, <1>10, <2>1, <2>2, KeptOn, Forwards
<1>14. (r.waitSince # Never /\ ~h.moved) => r.waitText \in {1, 2} /\ Kept(r.waitSince, Asks(r.waitText), h, Now, time)
  <2> HAVE r.waitSince # Never /\ ~h.moved
  <2>1. s.waitText \in {1, 2} /\ Kept(s.waitSince, Asks(s.waitText), Known, Now, time)
    BY <1>7, <1>9 DEF Facts
  <2>2. Asks(s.waitText) \in Watched /\ ~Ends(pane, Asks(s.waitText))
    BY <2>1, EndsNot, WatchedForms
  <2> QED BY <1>7, <1>8, <1>10, <2>1, <2>2, KeptOn, Forwards
<1>15. /\ (r.saidWaiting # Never /\ ~h.moved) => r.saidWaiting - Now \in 0..time
       /\ r.nudged # Never => h.poked # -1 /\ h.poked <= r.nudged - Now
  BY <1>7, <1>9 DEF Facts
<1>16. /\ r.saidGone # Never => h.told["gone"] # -1
       /\ r.saidBusy # Never => h.told["busy"] # -1
       /\ r.saidWaiting # Never => h.told["waiting"] # -1
       /\ r.saidIdle # Never => h.told["idle"] # -1
  BY <1>2, <1>7, <1>9, Forwards DEF Facts
<1>17. Facts(r, h, Now, time)
  BY <1>6, <1>11, <1>12, <1>13, <1>14, <1>15, <1>16 DEF Facts
<1> QED
  BY <1>17 DEF r

LEMMA FactsBusy ==
    ASSUME TypeOK, Assigned, ~asleep, pane.kind = "busy",
           NEW s \in States, Facts(s, Known, Now, time),
           NEW v, v = Decide(s), NEW h, h = SeenBy(v.kind)
    PROVE  Facts(v.st, h, Now, time)
<1> DEFINE r == v.st
           since == IF s.busyText = pane.text THEN Since(s.busySince) ELSE Wall
<1>1. /\ r \in States /\ r.noPane = 0 /\ r.idleSince = 0 /\ r.nudged = 0
      /\ r.busyText = pane.text /\ r.busySince = since
      /\ Alerts(v, "busy", "saidBusy", s, Wall - since >= Stuck /\ Due(s.saidBusy))
      /\ Same(v, s, {"noPane", "idleSince", "nudged", "busyText", "busySince", "saidBusy"})
  BY DecidesBusy
<1> HIDE DEF r
<1>2. v.kind \in {"busy", "none"} /\ r.saidBusy = IF v.kind = "busy" THEN Wall ELSE s.saidBusy
  BY <1>1 DEF Alerts, r
<1>3. \A k \in Numbers \ {"noPane", "idleSince", "nudged", "busyText", "busySince", "saidBusy"} : r[k] = s[k]
  BY <1>1 DEF Same, r
<1>4. pane.text \in {1, 2} /\ pane = Busy(pane.text) /\ pane \in Watched
  BY PaneForms DEF Kinds
<1>5. \A k \in Shifted : r[k] \in {Never, s[k], Wall}
  <2>1. r.busySince \in {s.busySince, Wall}
    BY <1>1, Forwards
  <2>2. r.saidBusy \in {s.saidBusy, Wall}
    BY <1>2
  <2>3. \A k \in Shifted : k # "busyText" /\ k \in Numbers
    BY DEF Shifted, Numbers, Times
  <2> QED BY <1>1, <1>3, <2>1, <2>2, <2>3 DEF Never
<1>6. /\ \A k \in Shifted : r[k] # Never => r[k] - Now \in 0..time
      /\ \A p \in Watched : h.from[p] \in -1..time
      /\ h.poked \in -1..time
      /\ \A k \in Kinds : h.told[k] \in -1..time
  BY <1>1, <1>5, BoundsOn
<1>7. /\ r.waitSince = s.waitSince /\ r.waitText = s.waitText /\ r.saidWaiting = s.saidWaiting
      /\ r.saidGone = s.saidGone /\ r.saidIdle = s.saidIdle
  BY <1>3, Forwards
<1>8. \A k \in Numbers : r[k] \in Int /\ s[k] \in Int
  BY <1>1 DEF States
<1>9. /\ h.moved = Known.moved
      /\ \A k \in Kinds : h.told[k] = IF k = v.kind THEN time ELSE Known.told[k]
  BY <1>2, SeenAwake, KnownSame, KnownFresh
<1>10. \A p \in Watched : Known.from[p] \in -1..time
  BY DEF Facts
<1>11. Kept(r.busySince, Busy(r.busyText), h, Now, time)
  <2>1. CASE s.busyText = pane.text
    <3>1. Kept(s.busySince, pane, Known, Now, time)
      BY <1>4, <2>1 DEF Facts, Kept
    <3>2. r.busySince = s.busySince \/ r.busySince = Wall
      BY <1>1, <2>1, Forwards
    <3> QED BY <1>1, <1>4, <1>8, <1>10, <3>1, <3>2, KeptOn, Forwards
  <2>2. CASE s.busyText # pane.text
    <3>1. Kept(Never, pane, Known, Now, time)
      BY DEF Kept
    <3> QED BY <1>1, <1>4, <1>8, <1>10, <2>2, <3>1, KeptOn, Forwards DEF Never
  <2> QED BY <2>1, <2>2
<1>12. (r.waitSince # Never /\ ~h.moved) => r.waitText \in {1, 2} /\ Kept(r.waitSince, Asks(r.waitText), h, Now, time)
  <2> HAVE r.waitSince # Never /\ ~h.moved
  <2>1. s.waitText \in {1, 2} /\ Kept(s.waitSince, Asks(s.waitText), Known, Now, time)
    BY <1>7, <1>9 DEF Facts
  <2>2. Asks(s.waitText) \in Watched /\ ~Ends(pane, Asks(s.waitText))
    BY <2>1, EndsNot, WatchedForms
  <2> QED BY <1>7, <1>8, <1>10, <2>1, <2>2, KeptOn, Forwards
<1>13. (r.saidWaiting # Never /\ ~h.moved) => r.saidWaiting - Now \in 0..time
  BY <1>7, <1>9 DEF Facts
<1>14. /\ r.saidGone # Never => h.told["gone"] # -1
       /\ r.saidBusy # Never => h.told["busy"] # -1
       /\ r.saidWaiting # Never => h.told["waiting"] # -1
       /\ r.saidIdle # Never => h.told["idle"] # -1
  BY <1>2, <1>7, <1>9, Forwards DEF Facts
<1>15. r.noPane = Never /\ r.idleSince = Never /\ r.nudged = Never
  BY <1>1 DEF Never
<1>16. Facts(r, h, Now, time)
  BY <1>1, <1>4, <1>6, <1>11, <1>12, <1>13, <1>14, <1>15 DEF Facts, Kept
<1> QED
  BY <1>16 DEF r

LEMMA FactsWaiting ==
    ASSUME TypeOK, Assigned, ~asleep, pane.kind = "waiting",
           NEW s \in States, Facts(s, Known, Now, time),
           NEW v, v = Decide(s), NEW h, h = SeenBy(v.kind)
    PROVE  Facts(v.st, h, Now, time)
<1> DEFINE r == v.st
           since == IF s.waitText = pane.text THEN Since(s.waitSince) ELSE Wall
<1>1. /\ r \in States /\ r.noPane = 0 /\ r.busyText = 0 /\ r.busySince = 0
      /\ r.waitText = pane.text /\ r.waitSince = since
      /\ Alerts(v, "waiting", "saidWaiting", s, Wall - since >= Stuck /\ Due(s.saidWaiting))
      /\ Same(v, s, {"noPane", "busyText", "busySince", "waitText", "waitSince", "saidWaiting"})
  BY DecidesWaiting
<1> HIDE DEF r
<1>2. v.kind \in {"waiting", "none"} /\ r.saidWaiting = IF v.kind = "waiting" THEN Wall ELSE s.saidWaiting
  BY <1>1 DEF Alerts, r
<1>3. \A k \in Numbers \ {"noPane", "busyText", "busySince", "waitText", "waitSince", "saidWaiting"} : r[k] = s[k]
  BY <1>1 DEF Same, r
<1>4. pane.text \in {1, 2} /\ pane = Asks(pane.text) /\ pane \in Watched
  BY PaneForms DEF Kinds
<1>5. \A k \in Shifted : r[k] \in {Never, s[k], Wall}
  <2>1. \A k \in Shifted : k \notin {"waitText", "waitSince", "saidWaiting", "busyText"} /\ k \in Numbers
    BY DEF Shifted, Numbers, Times
  <2> QED BY <1>1, <1>3, <2>1 DEF Never
<1>6. /\ \A k \in Shifted : r[k] # Never => r[k] - Now \in 0..time
      /\ \A p \in Watched : h.from[p] \in -1..time
      /\ h.poked \in -1..time
      /\ \A k \in Kinds : h.told[k] \in -1..time
  BY <1>1, <1>5, BoundsOn
<1>7. /\ r.idleSince = s.idleSince /\ r.nudged = s.nudged
      /\ r.saidGone = s.saidGone /\ r.saidIdle = s.saidIdle /\ r.saidBusy = s.saidBusy
  BY <1>3, Forwards
<1>8. \A k \in Numbers : r[k] \in Int /\ s[k] \in Int
  BY <1>1 DEF States
<1>9. /\ h.moved = Known.moved /\ h.poked = Known.poked
      /\ \A k \in Kinds : h.told[k] = IF k = v.kind THEN time ELSE Known.told[k]
  BY <1>2, SeenAwake, KnownSame, KnownFresh
<1>10. \A p \in Watched : Known.from[p] \in -1..time
  BY DEF Facts
<1>11. Kept(r.idleSince, Idle, h, Now, time)
  <2>1. Kept(s.idleSince, Idle, Known, Now, time)
    BY DEF Facts
  <2> QED BY <1>7, <1>8, <1>10, <2>1, KeptOn, Forwards, EndsNot, WatchedForms
<1>12. ~h.moved => Kept(r.waitSince, Asks(r.waitText), h, Now, time)
  <2> HAVE ~h.moved
  <2>1. CASE s.waitText = pane.text
    <3>1. Kept(s.waitSince, pane, Known, Now, time)
      BY <1>4, <1>9, <2>1 DEF Facts, Kept
    <3>2. r.waitSince = s.waitSince \/ r.waitSince = Wall
      BY <1>1, <2>1, Forwards
    <3> QED BY <1>1, <1>4, <1>8, <1>10, <3>1, <3>2, KeptOn, Forwards
  <2>2. CASE s.waitText # pane.text
    <3>1. Kept(Never, pane, Known, Now, time)
      BY DEF Kept
    <3> QED BY <1>1, <1>4, <1>8, <1>10, <2>2, <3>1, KeptOn, Forwards DEF Never
  <2> QED BY <2>1, <2>2
<1>13. (r.saidWaiting # Never /\ ~h.moved) => r.saidWaiting - Now \in 0..time
  BY <1>2, <1>9, Forwards DEF Facts
<1>14. r.nudged # Never => h.poked # -1 /\ h.poked <= r.nudged - Now
  BY <1>7, <1>9 DEF Facts
<1>15. /\ r.saidGone # Never => h.told["gone"] # -1
       /\ r.saidBusy # Never => h.told["busy"] # -1
       /\ r.saidWaiting # Never => h.told["waiting"] # -1
       /\ r.saidIdle # Never => h.told["idle"] # -1
  BY <1>2, <1>7, <1>9, Forwards DEF Facts
<1>16. r.noPane = Never /\ r.busySince = Never
  BY <1>1 DEF Never
<1>17. Facts(r, h, Now, time)
  BY <1>1, <1>4, <1>6, <1>11, <1>12, <1>13, <1>14, <1>15, <1>16 DEF Facts, Kept
<1> QED
  BY <1>17 DEF r

\* An empty prompt, or a text in it.
LEMMA FactsPrompt ==
    ASSUME TypeOK, Assigned, ~asleep, pane.kind \in {"idle", "own", "typed"},
           NEW s \in States, Facts(s, Known, Now, time),
           NEW v, v = Decide(s), NEW h, h = SeenBy(v.kind)
    PROVE  Facts(v.st, h, Now, time)
<1> DEFINE r == v.st
<1>1. /\ r \in States /\ r.noPane = 0 /\ r.busyText = 0 /\ r.busySince = 0
      /\ r.waitText = 0 /\ r.waitSince = 0
      /\ \A k \in Numbers \ {"noPane", "busyText", "busySince", "waitText", "waitSince", "enterSent",
                             "idleSince", "doneSaid", "nudged", "saidIdle"} : r[k] = s[k]
      /\ r.enterSent \in {s.enterSent, Wall}
      /\ r.idleSince \in {s.idleSince, Wall} /\ (pane.kind # "idle" => r.idleSince = s.idleSince)
      /\ r.doneSaid \in {s.doneSaid, Wall}
      /\ r.nudged = IF v.kind = "nudge" THEN Wall ELSE s.nudged
      /\ r.saidIdle = IF v.kind = "idle" THEN Wall ELSE s.saidIdle
      /\ v.kind \in {"own", "done", "nudge", "idle", "none"}
  <2>1. {"enterSent", "idleSince", "doneSaid", "nudged", "saidIdle"} \subseteq Numbers
    BY DEF Numbers, Times
  <2>2. CASE pane.kind = "idle"
    BY <2>1, <2>2, DecidesIdle, Forwards DEF Cleared, Same
  <2>3. CASE pane.kind # "idle"
    BY <2>1, <2>3, DecidesTyped DEF Cleared, Same
  <2> QED BY <2>2, <2>3
<1> HIDE DEF r
<1>2. \A k \in Shifted : r[k] \in {Never, s[k], Wall}
  <2>1. \A k \in Shifted : k \notin {"waitText", "waitSince", "busyText"} /\ k \in Numbers
    BY DEF Shifted, Numbers, Times
  <2> QED BY <1>1, <2>1 DEF Never
<1>3. /\ \A k \in Shifted : r[k] # Never => r[k] - Now \in 0..time
      /\ \A p \in Watched : h.from[p] \in -1..time
      /\ h.poked \in -1..time
      /\ \A k \in Kinds : h.told[k] \in -1..time
  BY <1>1, <1>2, BoundsOn
<1>4. r.saidGone = s.saidGone /\ r.saidBusy = s.saidBusy /\ r.saidWaiting = s.saidWaiting
  BY <1>1, Forwards
<1>5. \A k \in Numbers : r[k] \in Int /\ s[k] \in Int
  BY <1>1 DEF States
<1>6. /\ h.moved = Known.moved /\ h.poked = IF v.kind = "nudge" THEN time ELSE Known.poked
      /\ \A k \in Kinds : h.told[k] = IF k = v.kind THEN time ELSE Known.told[k]
  BY <1>1, SeenAwake, KnownSame, KnownFresh
<1>7. \A p \in Watched : Known.from[p] \in -1..time
  BY DEF Facts
<1>8. Kept(r.idleSince, Idle, h, Now, time)
  <2>1. Kept(s.idleSince, Idle, Known, Now, time)
    BY DEF Facts
  <2>2. pane.kind = "idle" => pane = Idle
    BY PaneForms
  <2> QED BY <1>1, <1>5, <1>7, <2>1, <2>2, KeptOn, Forwards, EndsNot, WatchedForms
<1>9. (r.saidWaiting # Never /\ ~h.moved) => r.saidWaiting - Now \in 0..time
  BY <1>4, <1>6 DEF Facts
<1>10. r.nudged # Never => h.poked # -1 /\ h.poked <= r.nudged - Now
  BY <1>1, <1>6, Forwards DEF Facts
<1>11. /\ r.saidGone # Never => h.told["gone"] # -1
       /\ r.saidBusy # Never => h.told["busy"] # -1
       /\ r.saidWaiting # Never => h.told["waiting"] # -1
       /\ r.saidIdle # Never => h.told["idle"] # -1
  BY <1>1, <1>4, <1>6, Forwards DEF Facts
<1>12. r.noPane = Never /\ r.busySince = Never /\ r.waitSince = Never
  BY <1>1 DEF Never
<1>13. Facts(r, h, Now, time)
  BY <1>3, <1>8, <1>9, <1>10, <1>11, <1>12 DEF Facts, Kept
<1> QED
  BY <1>13 DEF r

-----------------------------------------------------------------------------
(* The row after a run, pane by pane *)

LEMMA Limits ==
    /\ Limit("gone") = Alert /\ Limit("busy") = Stuck
    /\ Limit("waiting") = Stuck /\ Limit("idle") = Nudge + Alert
BY DEF Limit, Threshold

\* The steps in a row before this one.
RowBefore == IF pane = Known.last THEN Known.row ELSE 0

LEMMA Overdue ==
    ASSUME TypeOK, NEW said \in Int
    PROVE  Due(said) \/ (said # Never /\ time + Now - said < Remind)
<1>1. Wall = time + Now /\ Now >= Remind /\ time \in Nat /\ Now \in Int /\ Remind \in Nat
  BY ClocksTyped DEF TypeOK, Wall, Now
<1> QED
  BY <1>1 DEF Due, Never

\* A run that follows row steps with the same pane: since when it is there, and
\* when it was said and told before and after the run.
AlertRun(since, since2, row, limit, said, told, said2, told2) ==
    /\ {since, since2, said, told, said2, told2} \subseteq Int
    /\ row \in Nat /\ limit \in Nat /\ limit > 0
    /\ since # Never => since - Now <= time
    /\ row > 0 => Stood(since, row, Now, time - 1)
    /\ \/ since2 = IF since = Never THEN Wall ELSE since
       \/ row = 0 /\ since2 = Wall
    /\ said # Never => told # -1 /\ said - Now <= time
    /\ row > 0 => Told(said, told, limit, row, Now, time - 1)
    /\ (Wall - since2 >= limit /\ Due(said)) => said2 = Wall /\ told2 = time
    /\ ~(Wall - since2 >= limit /\ Due(said)) => said2 = said /\ told2 = told

\* A pane that stays alerts, when it stood for longer than its limit, unless it
\* did so a while ago.
LEMMA RowAlerts ==
    ASSUME TypeOK, NEW since, NEW since2, NEW row, NEW limit,
           NEW said, NEW told, NEW said2, NEW told2,
           AlertRun(since, since2, row, limit, said, told, said2, told2)
    PROVE  Stood(since2, row + 1, Now, time) /\ Told(said2, told2, limit, row + 1, Now, time)
<1> USE DEF AlertRun
<1>1. /\ Wall = time + Now /\ Now > 0 /\ time \in Nat /\ Now \in Int
      /\ Remind \in Nat /\ Remind > 0 /\ Start \in Nat
  BY ClocksTyped DEF TypeOK, Wall, Now
<1>2. Stood(since2, row + 1, Now, time)
  BY <1>1 DEF Stood, Never
<1>3. \/ said2 = time + Now /\ told2 = time
      \/ /\ said2 = said /\ told2 = told
         /\ row + 1 > limit => said # Never /\ time + Now - said < Remind
  BY <1>1, <1>2, Overdue DEF Stood
<1>4. TellRun(said, told, said2, told2, limit, row, Now, time)
  BY <1>1, <1>3 DEF TellRun
<1> QED
  BY <1>1, <1>2, <1>4, ToldAgain

LEMMA HistoryTyped ==
    ASSUME TypeOK, Assigned
    PROVE  /\ Known.row \in Nat /\ RowBefore \in Nat
           /\ \A k \in Kinds : Known.told[k] \in Int
           /\ \A kind : \A k \in Kinds : SeenBy(kind).told[k] \in Int
<1>1. Known \in Histories
  BY KnownSame, KnownFresh
<1>2. \A kind : SeenBy(kind) \in Histories
  BY SeenAsleep, SeenAwake
<1> QED
  BY <1>1, <1>2 DEF Histories, RowBefore

LEMMA RowGone ==
    ASSUME TypeOK, Assigned, ~asleep, pane.kind = "gone",
           NEW s \in States, Facts(s, Known, Now, time),
           Known.row > 0 => RowFacts(s, Known, Known.row, Now, time - 1),
           NEW v, v = Decide(s), NEW h, h = SeenBy(v.kind)
    PROVE  RowFacts(v.st, h, h.row, Now, time)
<1> DEFINE due == Wall - Since(s.noPane) >= Alert /\ Due(s.saidGone)
<1>1. /\ v.st \in States /\ v.st.noPane = Since(s.noPane)
      /\ v.kind = (IF due THEN "gone" ELSE "none")
      /\ v.st.saidGone = IF due THEN Wall ELSE s.saidGone
  BY DecidesGone DEF Alerts
<1>2. /\ h.last = pane /\ h.row = RowBefore + 1
      /\ h.told["gone"] = IF due THEN time ELSE Known.told["gone"]
  BY <1>1, SeenAwake, Forwards DEF RowBefore
<1>3. RowBefore > 0 => /\ Stood(s.noPane, RowBefore, Now, time - 1)
                       /\ Told(s.saidGone, Known.told["gone"], Alert, RowBefore, Now, time - 1)
  BY Limits DEF RowFacts, RowBefore
<1>4. /\ s.noPane # Never => s.noPane - Now <= time
      /\ s.saidGone # Never => Known.told["gone"] # -1 /\ s.saidGone - Now <= time
  <2>1. "noPane" \in Shifted /\ "saidGone" \in Shifted
    BY DEF Shifted
  <2> QED BY <2>1, Forwards DEF Facts
<1>5. /\ s.noPane \in Int /\ v.st.noPane \in Int /\ s.saidGone \in Int /\ v.st.saidGone \in Int
      /\ RowBefore \in Nat /\ Known.told["gone"] \in Int /\ h.told["gone"] \in Int
      /\ Alert \in Nat /\ Alert > 0
  BY <1>1, Forwards, HistoryTyped, ClocksTyped
<1>6. v.st.noPane = IF s.noPane = Never THEN Wall ELSE s.noPane
  BY <1>1 DEF Since
<1>7. /\ (Wall - v.st.noPane >= Alert /\ Due(s.saidGone))
             => v.st.saidGone = Wall /\ h.told["gone"] = time
      /\ ~(Wall - v.st.noPane >= Alert /\ Due(s.saidGone))
             => v.st.saidGone = s.saidGone /\ h.told["gone"] = Known.told["gone"]
  BY <1>1, <1>2
<1>8. /\ Stood(v.st.noPane, RowBefore + 1, Now, time)
      /\ Told(v.st.saidGone, h.told["gone"], Alert, RowBefore + 1, Now, time)
  <2>1. AlertRun(s.noPane, v.st.noPane, RowBefore, Alert, s.saidGone, Known.told["gone"],
                 v.st.saidGone, h.told["gone"])
    BY <1>3, <1>4, <1>5, <1>6, <1>7 DEF AlertRun
  <2> QED BY <2>1, RowAlerts
<1> QED
  BY <1>2, <1>8, Limits DEF RowFacts

LEMMA RowBusy ==
    ASSUME TypeOK, Assigned, ~asleep, pane.kind = "busy",
           NEW s \in States, Facts(s, Known, Now, time),
           Known.row > 0 => RowFacts(s, Known, Known.row, Now, time - 1),
           NEW v, v = Decide(s), NEW h, h = SeenBy(v.kind)
    PROVE  RowFacts(v.st, h, h.row, Now, time)
<1> DEFINE since == IF s.busyText = pane.text THEN Since(s.busySince) ELSE Wall
           due == Wall - since >= Stuck /\ Due(s.saidBusy)
<1>1. /\ v.st \in States /\ v.st.busySince = since /\ v.st.busyText = pane.text
      /\ v.kind = (IF due THEN "busy" ELSE "none")
      /\ v.st.saidBusy = IF due THEN Wall ELSE s.saidBusy
  BY DecidesBusy DEF Alerts
<1>2. /\ h.last = pane /\ h.row = RowBefore + 1
      /\ h.told["busy"] = IF due THEN time ELSE Known.told["busy"]
  BY <1>1, SeenAwake, Forwards DEF RowBefore
<1>3. RowBefore > 0 => /\ s.busyText = pane.text /\ Stood(s.busySince, RowBefore, Now, time - 1)
                       /\ Told(s.saidBusy, Known.told["busy"], Stuck, RowBefore, Now, time - 1)
  BY Limits DEF RowFacts, RowBefore
<1>4. /\ s.busySince # Never => s.busySince - Now <= time
      /\ s.saidBusy # Never => Known.told["busy"] # -1 /\ s.saidBusy - Now <= time
  <2>1. "busySince" \in Shifted /\ "saidBusy" \in Shifted
    BY DEF Shifted
  <2> QED BY <2>1, Forwards DEF Facts
<1>5. /\ s.busySince \in Int /\ v.st.busySince \in Int /\ s.saidBusy \in Int /\ v.st.saidBusy \in Int
      /\ RowBefore \in Nat /\ Known.told["busy"] \in Int /\ h.told["busy"] \in Int
      /\ Stuck \in Nat /\ Stuck > 0
  BY <1>1, Forwards, HistoryTyped, ClocksTyped
<1>6. \/ v.st.busySince = IF s.busySince = Never THEN Wall ELSE s.busySince
      \/ RowBefore = 0 /\ v.st.busySince = Wall
  BY <1>1, <1>3, <1>5 DEF Since
<1>7. /\ (Wall - v.st.busySince >= Stuck /\ Due(s.saidBusy))
             => v.st.saidBusy = Wall /\ h.told["busy"] = time
      /\ ~(Wall - v.st.busySince >= Stuck /\ Due(s.saidBusy))
             => v.st.saidBusy = s.saidBusy /\ h.told["busy"] = Known.told["busy"]
  BY <1>1, <1>2
<1>8. /\ Stood(v.st.busySince, RowBefore + 1, Now, time)
      /\ Told(v.st.saidBusy, h.told["busy"], Stuck, RowBefore + 1, Now, time)
  <2>1. AlertRun(s.busySince, v.st.busySince, RowBefore, Stuck, s.saidBusy, Known.told["busy"],
                 v.st.saidBusy, h.told["busy"])
    BY <1>3, <1>4, <1>5, <1>6, <1>7 DEF AlertRun
  <2> QED BY <2>1, RowAlerts
<1> QED
  BY <1>1, <1>2, <1>8, Limits DEF RowFacts

LEMMA RowWaiting ==
    ASSUME TypeOK, Assigned, ~asleep, pane.kind = "waiting",
           NEW s \in States, Facts(s, Known, Now, time),
           Known.row > 0 => RowFacts(s, Known, Known.row, Now, time - 1),
           NEW v, v = Decide(s), NEW h, h = SeenBy(v.kind)
    PROVE  RowFacts(v.st, h, h.row, Now, time)
<1> DEFINE since == IF s.waitText = pane.text THEN Since(s.waitSince) ELSE Wall
           due == Wall - since >= Stuck /\ Due(s.saidWaiting)
<1>1. /\ v.st \in States /\ v.st.waitSince = since /\ v.st.waitText = pane.text
      /\ v.kind = (IF due THEN "waiting" ELSE "none")
      /\ v.st.saidWaiting = IF due THEN Wall ELSE s.saidWaiting
  BY DecidesWaiting DEF Alerts
<1>2. /\ h.last = pane /\ h.row = RowBefore + 1 /\ h.moved = Known.moved
      /\ h.told["waiting"] = IF due THEN time ELSE Known.told["waiting"]
  BY <1>1, SeenAwake, KnownSame, KnownFresh, Forwards DEF RowBefore
<1> SUFFICES ASSUME ~h.moved PROVE RowFacts(v.st, h, h.row, Now, time)
  BY <1>2 DEF RowFacts
<1>3. RowBefore > 0 => /\ s.waitText = pane.text /\ Stood(s.waitSince, RowBefore, Now, time - 1)
                       /\ Told(s.saidWaiting, Known.told["waiting"], Stuck, RowBefore, Now, time - 1)
  BY <1>2, Limits DEF RowFacts, RowBefore
<1>4. /\ s.waitSince # Never => s.waitSince - Now <= time
      /\ s.saidWaiting # Never => Known.told["waiting"] # -1 /\ s.saidWaiting - Now <= time
  <2>1. (s.waitSince # Never => Kept(s.waitSince, Asks(s.waitText), Known, Now, time))
        /\ (s.saidWaiting # Never => Known.told["waiting"] # -1 /\ s.saidWaiting - Now \in 0..time)
    BY <1>2 DEF Facts
  <2> QED BY <2>1, Forwards DEF Kept
<1>5. /\ s.waitSince \in Int /\ v.st.waitSince \in Int /\ s.saidWaiting \in Int /\ v.st.saidWaiting \in Int
      /\ RowBefore \in Nat /\ Known.told["waiting"] \in Int /\ h.told["waiting"] \in Int
      /\ Stuck \in Nat /\ Stuck > 0
  BY <1>1, Forwards, HistoryTyped, ClocksTyped
<1>6. \/ v.st.waitSince = IF s.waitSince = Never THEN Wall ELSE s.waitSince
      \/ RowBefore = 0 /\ v.st.waitSince = Wall
  BY <1>1, <1>3, <1>5 DEF Since
<1>7. /\ (Wall - v.st.waitSince >= Stuck /\ Due(s.saidWaiting))
             => v.st.saidWaiting = Wall /\ h.told["waiting"] = time
      /\ ~(Wall - v.st.waitSince >= Stuck /\ Due(s.saidWaiting))
             => v.st.saidWaiting = s.saidWaiting /\ h.told["waiting"] = Known.told["waiting"]
  BY <1>1, <1>2
<1>8. /\ Stood(v.st.waitSince, RowBefore + 1, Now, time)
      /\ Told(v.st.saidWaiting, h.told["waiting"], Stuck, RowBefore + 1, Now, time)
  <2>1. AlertRun(s.waitSince, v.st.waitSince, RowBefore, Stuck, s.saidWaiting, Known.told["waiting"],
                 v.st.saidWaiting, h.told["waiting"])
    BY <1>3, <1>4, <1>5, <1>6, <1>7 DEF AlertRun
  <2> QED BY <2>1, RowAlerts
<1> QED
  BY <1>1, <1>2, <1>8, Limits DEF RowFacts

\* A free prompt is poked after Nudge steps, and told Alert steps later.
LEMMA RowIdle ==
    ASSUME TypeOK, Assigned, ~asleep, pane.kind = "idle",
           NEW s \in States, Facts(s, Known, Now, time),
           Known.row > 0 => RowFacts(s, Known, Known.row, Now, time - 1),
           NEW v, v = Decide(s), NEW h, h = SeenBy(v.kind)
    PROVE  RowFacts(v.st, h, h.row, Now, time)
<1> SUFFICES ASSUME ~reported PROVE RowFacts(v.st, h, h.row, Now, time)
  BY SeenAwake DEF RowFacts, TypeOK
<1> DEFINE since  == Since(s.idleSince)
           nudges == Wall - since >= Nudge /\ s.nudged = Never
           tells  == s.nudged # Never /\ Wall - s.nudged >= Alert /\ Due(s.saidIdle)
           row    == RowBefore
<1>1. /\ v.st \in States /\ v.st.idleSince = since
      /\ v.st.nudged = IF nudges THEN Wall ELSE s.nudged
      /\ v.st.saidIdle = IF tells THEN Wall ELSE s.saidIdle
      /\ v.kind = "idle" <=> tells
  BY DecidesIdle DEF Cleared
<1>2. /\ h.last = pane /\ h.row = row + 1
      /\ h.told["idle"] = IF tells THEN time ELSE Known.told["idle"]
  BY <1>1, SeenAwake, Forwards DEF RowBefore
<1>3. row > 0 => /\ Stood(s.idleSince, row, Now, time - 1)
                 /\ row > Nudge => s.nudged # Never /\ s.nudged - Now <= time - 1 - row + 1 + Nudge
                 /\ Told(s.saidIdle, Known.told["idle"], Nudge + Alert, row, Now, time - 1)
  BY Limits DEF RowFacts, RowBefore
<1>4. /\ s.idleSince # Never => s.idleSince - Now <= time
      /\ s.saidIdle # Never => Known.told["idle"] # -1 /\ s.saidIdle - Now <= time
      /\ s.nudged # Never => s.nudged - Now <= time
  <2>1. "idleSince" \in Shifted /\ "saidIdle" \in Shifted /\ "nudged" \in Shifted
    BY DEF Shifted
  <2> QED BY <2>1, Forwards DEF Facts
<1>5. /\ s.idleSince \in Int /\ v.st.idleSince \in Int /\ s.saidIdle \in Int /\ v.st.saidIdle \in Int
      /\ s.nudged \in Int /\ v.st.nudged \in Int
      /\ row \in Nat /\ Known.told["idle"] \in Int /\ h.told["idle"] \in Int
      /\ Nudge \in Nat /\ Nudge > 0 /\ Alert \in Nat /\ Alert > 0 /\ Remind \in Nat /\ Remind > 0
      /\ Wall = time + Now /\ Now > 0 /\ time \in Nat /\ Now \in Int
  BY <1>1, Forwards, HistoryTyped, ClocksTyped
<1>6. since = IF s.idleSince = Never THEN Wall ELSE s.idleSince
  BY DEF Since
<1> HIDE DEF since, row
<1>7. Stood(since, row + 1, Now, time)
  <2>1. CASE row = 0
    BY <1>4, <1>5, <1>6, <2>1 DEF Stood, Never
  <2>2. CASE row > 0
    BY <1>3, <1>5, <1>6, <2>2 DEF Stood, Never
  <2> QED BY <1>5, <2>1, <2>2
<1>8. Wall - since >= row /\ since \in Int
  BY <1>1, <1>5, <1>7 DEF Stood
<1>9. row + 1 > Nudge => v.st.nudged # Never /\ v.st.nudged - Now <= time - (row + 1) + 1 + Nudge
  <2>1. CASE nudges
    BY <1>1, <1>3, <1>5, <2>1 DEF Never
  <2>2. CASE ~nudges
    BY <1>1, <1>3, <1>4, <1>5, <1>8, <2>2 DEF Never
  <2> QED BY <2>1, <2>2
<1>10. (~tells /\ row + 1 > Nudge + Alert) => s.saidIdle # Never /\ time + Now - s.saidIdle < Remind
  <2> HAVE ~tells /\ row + 1 > Nudge + Alert
  <2>1. s.nudged # Never /\ s.nudged - Now <= time - 1 - row + 1 + Nudge
    BY <1>3, <1>5
  <2>2. Wall - s.nudged >= Alert
    BY <1>5, <2>1
  <2>3. ~Due(s.saidIdle)
    BY <2>1, <2>2
  <2> QED BY <1>5, <2>3, Overdue
<1>11. Told(v.st.saidIdle, h.told["idle"], Nudge + Alert, row + 1, Now, time)
  <2>1. TellRun(s.saidIdle, Known.told["idle"], v.st.saidIdle, h.told["idle"], Nudge + Alert, row, Now, time)
    BY <1>1, <1>2, <1>3, <1>4, <1>5, <1>10 DEF TellRun
  <2> QED BY <1>5, <2>1, ToldAgain
<1> QED
  BY <1>1, <1>2, <1>7, <1>9, <1>11, Limits DEF RowFacts

-----------------------------------------------------------------------------
(* A run *)

\* What is said to have lasted has lasted.
LEMMA Lasted ==
    ASSUME TypeOK, Assigned, ~asleep,
           NEW s \in States, Facts(s, Known, Now, time), NEW v, v = Decide(s),
           v.kind \in Kinds \cup {"nudge", "done"}, ~(v.kind = "waiting" /\ Moved)
    PROVE  Held(v.kind) >= Threshold(v.kind)
<1>1. /\ Known.from = Seen.from /\ Known.poked = Seen.poked /\ Known.moved = Moved
  <2>1. Seen.of = active /\ (Seen = seen \/ Seen = [NothingSeen EXCEPT !.of = active])
    BY DEF Seen, NothingSeen
  <2>2. CASE Seen = seen
    BY <2>2 DEF Known, TypeOK, Histories
  <2>3. CASE Seen = [NothingSeen EXCEPT !.of = active]
    BY <2>3 DEF Known, NothingSeen
  <2> QED BY <2>1, <2>2, <2>3
<1>2. ASSUME NEW p \in Watched, NEW t \in Int, Kept(t, p, Known, Now, time), NEW n \in Nat, n > 0,
             Wall - Since(t) >= n
      PROVE  time - From(p) >= n
  <2>1. Known.from[p] \in -1..time /\ Wall = time + Now /\ Now \in Int /\ time \in Nat
    BY Forwards DEF Facts
  <2>2. t # Never
    BY <1>2, <2>1 DEF Since
  <2>3. Seen.from[p] # -1 /\ Seen.from[p] <= t - Now /\ From(p) = Seen.from[p]
    BY <1>1, <1>2, <2>2 DEF Kept, From
  <2> QED BY <1>1, <1>2, <2>1, <2>2, <2>3 DEF Since
<1>3. /\ Alert \in Nat /\ Alert > 0 /\ Stuck \in Nat /\ Stuck > 0 /\ Nudge \in Nat /\ Nudge > 0
      /\ Report \in Nat /\ Report > 0
  BY ClocksTyped
<1>4. CASE pane.kind = "gone"
  <2>1. v.kind = "gone" /\ Wall - Since(s.noPane) >= Alert
    BY <1>4, DecidesGone DEF Alerts, Kinds
  <2>2. pane = Gone /\ s.noPane \in Int /\ Kept(s.noPane, Gone, Known, Now, time)
    BY <1>4, PaneForms, Forwards DEF Facts
  <2>3. time - From(pane) >= Alert
    BY <1>2, <1>3, <2>1, <2>2, WatchedForms
  <2> QED BY <2>1, <2>3 DEF Held, Threshold
<1>5. CASE pane.kind = "busy"
  <2> DEFINE since == IF s.busyText = pane.text THEN Since(s.busySince) ELSE Wall
  <2>1. v.kind = "busy" /\ Wall - since >= Stuck
    BY <1>5, DecidesBusy DEF Alerts, Kinds
  <2>2. s.busyText = pane.text /\ Wall - Since(s.busySince) >= Stuck
    BY <1>3, <2>1, Forwards
  <2>3. pane = Busy(s.busyText) /\ pane \in Watched
    BY <1>5, <2>2, PaneForms DEF Kinds
  <2>4. s.busySince # Never
    BY <1>3, <2>2, Forwards DEF Since
  <2>5. s.busySince \in Int /\ Kept(s.busySince, pane, Known, Now, time)
    BY <2>3, <2>4, Forwards DEF Facts
  <2>6. time - From(pane) >= Stuck
    BY <1>2, <1>3, <2>2, <2>3, <2>5
  <2> QED BY <2>1, <2>6 DEF Held, Threshold
<1>6. CASE pane.kind = "waiting"
  <2> DEFINE since == IF s.waitText = pane.text THEN Since(s.waitSince) ELSE Wall
  <2>1. v.kind = "waiting" /\ Wall - since >= Stuck
    BY <1>6, DecidesWaiting DEF Alerts, Kinds
  <2>2. s.waitText = pane.text /\ Wall - Since(s.waitSince) >= Stuck
    BY <1>3, <2>1, Forwards
  <2>3. pane = Asks(s.waitText) /\ pane \in Watched
    BY <1>6, <2>2, PaneForms DEF Kinds
  <2>4. s.waitSince # Never
    BY <1>3, <2>2, Forwards DEF Since
  <2>5. s.waitSince \in Int /\ Kept(s.waitSince, pane, Known, Now, time)
    BY <1>1, <2>1, <2>3, <2>4, Forwards DEF Facts
  <2>6. time - From(pane) >= Stuck
    BY <1>2, <1>3, <2>2, <2>3, <2>5
  <2> QED BY <2>1, <2>6 DEF Held, Threshold
<1>7. CASE pane.kind = "idle"
  <2> DEFINE since == Since(s.idleSince)
  <2>1. /\ v.kind \in {"done", "nudge", "idle"}
        /\ v.kind = "done" => Wall - since >= Report
        /\ v.kind = "nudge" => Wall - since >= Nudge
        /\ v.kind = "idle" => s.nudged # Never /\ Wall - s.nudged >= Alert
    BY <1>7, DecidesIdle DEF Kinds
  <2>2. s.idleSince \in Int /\ Kept(s.idleSince, Idle, Known, Now, time) /\ Idle = [kind |-> "idle", text |-> 0]
    BY Forwards DEF Facts, Idle
  <2>3. CASE v.kind = "done"
    BY <1>2, <1>3, <2>1, <2>2, <2>3, WatchedForms DEF Held, Threshold
  <2>4. CASE v.kind = "nudge"
    BY <1>2, <1>3, <2>1, <2>2, <2>4, WatchedForms DEF Held, Threshold
  <2>5. CASE v.kind = "idle"
    <3>1. Known.poked # -1 /\ Known.poked <= s.nudged - Now /\ Known.poked \in -1..time
      BY <2>1, <2>5 DEF Facts
    <3>2. s.nudged \in Int /\ Wall = time + Now /\ Now \in Int /\ time \in Nat
      BY Forwards
    <3>3. time - Known.poked >= Alert
      BY <1>3, <2>1, <2>5, <3>1, <3>2
    <3> QED BY <1>1, <2>5, <3>1, <3>3 DEF Held, Threshold
  <2> QED BY <2>1, <2>3, <2>4, <2>5
<1>8. CASE pane.kind \in {"own", "typed"}
  BY <1>8, DecidesTyped DEF Cleared, Kinds
<1> QED
  BY <1>4, <1>5, <1>6, <1>7, <1>8, PaneForms DEF Kinds

\* An assigned agent's run keeps what is known of it.
LEMMA FactsRun ==
    ASSUME TypeOK, Assigned, NEW s \in States, Facts(s, Known, Now, time),
           Known.row > 0 => RowFacts(s, Known, Known.row, Now, time - 1),
           NEW v, v = Decide(s), NEW h, h = SeenBy(v.kind)
    PROVE  Facts(v.st, h, Now, time) /\ RowFacts(v.st, h, h.row, Now, time)
<1>1. CASE asleep
  <2>1. v.st = s
    BY <1>1 DEF Decide, Silent, Says
  <2>2. h.row = 0 /\ h.from = Known.from /\ h.poked = Known.poked /\ h.told = Known.told /\ h.moved = Known.moved
    BY <1>1, SeenAsleep, KnownSame, KnownFresh
  <2> QED BY <2>1, <2>2 DEF Facts, RowFacts, Kept
<1>2. CASE ~asleep /\ pane.kind = "gone"
  BY <1>2, FactsGone, RowGone
<1>3. CASE ~asleep /\ pane.kind = "busy"
  BY <1>3, FactsBusy, RowBusy
<1>4. CASE ~asleep /\ pane.kind = "waiting"
  BY <1>4, FactsWaiting, RowWaiting
<1>5. CASE ~asleep /\ pane.kind = "idle"
  BY <1>5, FactsPrompt, RowIdle
<1>6. CASE ~asleep /\ pane.kind \in {"own", "typed"}
  <2>1. h.last.kind \in {"own", "typed"}
    BY <1>6, SeenAwake
  <2> QED BY <1>6, <2>1, FactsPrompt DEF RowFacts
<1> QED
  BY <1>1, <1>2, <1>3, <1>4, <1>5, <1>6, PaneForms DEF Kinds

-----------------------------------------------------------------------------
(* The steps *)

LEMMA TypeInit == Init => TypeOK
<1> SUFFICES ASSUME Init PROVE TypeOK
  OBVIOUS
<1>1. Start \in Nat /\ Remind \in Nat /\ Start >= Remind /\ MaxChanges \in Nat /\ MaxFaults \in Nat
  BY DutyAssumption
<1>2. NothingSeen \in Histories
  <2>1. [p \in Watched |-> -1] \in [Watched -> Int] /\ [k \in Kinds |-> -1] \in [Kinds -> Int]
    OBVIOUS
  <2> DEFINE l == NothingSeen.last
  <2>2. NothingSeen = [of |-> "nobody", from |-> [p \in Watched |-> -1], poked |-> -1,
                       told |-> [k \in Kinds |-> -1], last |-> l, row |-> 0,
                       skew |-> 0, moved |-> FALSE, blind |-> FALSE]
    BY DEF NothingSeen
  <2> HIDE DEF l
  <2>3. [of |-> "nobody", from |-> [p \in Watched |-> -1], poked |-> -1, told |-> [k \in Kinds |-> -1],
         last |-> l, row |-> 0, skew |-> 0, moved |-> FALSE, blind |-> FALSE]
            \in [of : Names, from : [Watched -> Int], poked : Int, told : [Kinds -> Int],
                 last : Panes \cup {l}, row : Nat, skew : Int, moved : BOOLEAN, blind : BOOLEAN]
    BY <2>1 DEF Names
  <2>4. NothingSeen \in [of : Names, from : [Watched -> Int], poked : Int, told : [Kinds -> Int],
                         last : Panes \cup {l}, row : Nat, skew : Int, moved : BOOLEAN, blind : BOOLEAN]
    BY <2>2, <2>3
  <2> QED BY <2>4 DEF Histories, l
<1>3. /\ time \in Nat /\ skew \in Int /\ boot \in 0..time /\ Start + skew >= Remind
      /\ left \in [changes : Nat, faults : Nat]
  BY <1>1 DEF Init
<1>4. notice \in [kind : Kinds \cup {"none", "nudge", "done", "own", "unknown"}, held : Int, sure : BOOLEAN]
  BY DEF Init, NoNotice
<1> QED
  BY <1>2, <1>3, <1>4, NoStateTyped DEF Init, TypeOK

LEMMA Starts == Init => TypeOK /\ DutyInv /\ NoticeTrue
<1> SUFFICES ASSUME Init PROVE DutyInv /\ NoticeTrue
  BY TypeInit
<1>1. Start \in Nat /\ Remind \in Nat /\ Start >= Remind
  BY DutyAssumption
<1>2. seen.of = "nobody" /\ st.of = "nobody" /\ seen.row = 0 /\ seen.skew = 0
  BY DEF Init, NothingSeen, NoState
<1> QED
  BY <1>1, <1>2 DEF Init, DutyInv, Clocks, Remembered, Ahead, NoticeTrue, NoNotice

\* What a run finds out is typed, whoever is assigned.
LEMMA VerdictTyped ==
    ASSUME TypeOK
    PROVE  /\ Verdict.st \in States
           /\ Verdict.kind \in Kinds \cup {"none", "nudge", "done", "own", "unknown"}
           /\ Assigned => Verdict = Decide(Taken)
           /\ ~Assigned => /\ Verdict.kind \in {"none", "unknown"} /\ Verdict.st.of = st.of
                           /\ \A k \in Numbers \ {"saidUnknown"} : Verdict.st[k] = st[k]
<1>0. st \in States /\ Wall \in Int /\ "saidUnknown" \in Numbers
  BY ClocksTyped DEF TypeOK, Numbers, Times
<1>1. CASE Assigned
  <2>1. Verdict = Decide(Taken)
    BY <1>1 DEF Verdict, Assigned, Taken
  <2>2. Taken \in States
    BY <1>1, CorrectedTyped DEF Taken
  <2> QED BY <1>1, <2>1, <2>2, Decided
<1>2. CASE ~Assigned
  <2> DEFINE q == [st EXCEPT !.saidUnknown = Wall]
  <2>1. q \in States /\ q.of = st.of /\ \A n \in Numbers : q[n] = IF n = "saidUnknown" THEN Wall ELSE st[n]
    BY <1>0, PutTyped
  <2> HIDE DEF q
  <2>2. Verdict \in {Says("alert", "unknown", q), Silent(st)}
    BY <1>2 DEF Verdict, Assigned, TypeOK, q
  <2> QED BY <1>0, <1>2, <2>1, <2>2 DEF Says, Silent
<1> QED
  BY <1>1, <1>2

LEMMA SeenTyped ==
    ASSUME TypeOK, Assigned
    PROVE  \A kind : SeenBy(kind) \in Histories /\ SeenBy(kind).of = active
BY SeenAsleep, SeenAwake

LEMMA HeldTyped ==
    ASSUME TypeOK, NEW kind \in Kinds \cup {"nudge", "done"}
    PROVE  Held(kind) \in Int
<1>1. Seen.poked \in Int /\ \A p \in Watched : Seen.from[p] \in Int
  <2>1. CASE Seen = seen
    BY <2>1 DEF TypeOK, Histories
  <2>2. CASE Seen = [NothingSeen EXCEPT !.of = active]
    BY <2>2 DEF NothingSeen
  <2> QED BY <2>1, <2>2 DEF Seen
<1>2. time \in Nat /\ \A p : From(p) \in Int
  BY <1>1 DEF From, TypeOK
<1> QED
  BY <1>1, <1>2 DEF Held

LEMMA TypeStep ==
    ASSUME TypeOK, [Next]_vars
    PROVE  TypeOK'
<1> USE DEF TypeOK
<1>1. ASSUME NEW saves \in BOOLEAN, Run(saves)
      PROVE  TypeOK'
  <2>1. st' \in States
    BY <1>1, VerdictTyped DEF Run
  <2>2. seen' \in Histories
    <3>1. [seen EXCEPT !.row = 0] \in Histories
      BY DEF Histories
    <3> QED BY <1>1, <3>1, SeenTyped DEF Run, Assigned
  <2>3. notice' \in [kind : Kinds \cup {"none", "nudge", "done", "own", "unknown"}, held : Int, sure : BOOLEAN]
    <3>1. notice' = Notice(Verdict.kind)
      BY <1>1 DEF Run
    <3>2. /\ Verdict.kind \in Kinds \cup {"none", "nudge", "done", "own", "unknown"}
          /\ (IF Verdict.kind \in Kinds \cup {"nudge", "done"} THEN Held(Verdict.kind) ELSE 0) \in Int
      BY VerdictTyped, HeldTyped
    <3> QED BY <3>1, <3>2 DEF Notice
  <2>4. left' \in [changes : Nat, faults : Nat]
    BY <1>1 DEF Run
  <2> QED BY <1>1, <2>1, <2>2, <2>3, <2>4 DEF Run
<1>2. CASE Tick
  <2>1. seen' \in Histories
    <3>1. [seen EXCEPT !.row = 0] \in Histories
      BY DEF Histories
    <3> QED BY <1>2, <3>1 DEF Tick
  <2>2. left' \in [changes : Nat, faults : Nat]
    BY <1>2 DEF Tick
  <2>3. time' \in Nat /\ boot' \in 0..time'
    BY <1>2 DEF Tick
  <2>4. notice' \in [kind : Kinds \cup {"none", "nudge", "done", "own", "unknown"}, held : Int, sure : BOOLEAN]
    BY <1>2 DEF Tick, NoNotice
  <2> QED BY <1>2, <2>1, <2>2, <2>3, <2>4 DEF Tick
<1>3. CASE SetClock
  <2>1. PICK j \in Jumps : Start + skew + j >= Remind /\ skew' = skew + j
    BY <1>3 DEF SetClock
  <2>2. j \in Int /\ Start \in Nat /\ Remind \in Nat
    BY DutyAssumption, ClocksTyped
  <2>3. skew' \in Int /\ Start + skew' >= Remind
    BY <2>1, <2>2
  <2>4. left' \in [changes : Nat, faults : Nat]
    BY <1>3 DEF SetClock
  <2> QED BY <1>3, <2>3, <2>4 DEF SetClock
<1>4. CASE Reboot
  <2>1. [seen EXCEPT !.row = 0] \in Histories
    BY DEF Histories
  <2>2. left' \in [changes : Nat, faults : Nat]
    BY <1>4 DEF Reboot
  <2> QED BY <1>4, <2>1, <2>2 DEF Reboot
<1>5. CASE Change
  <2>1. left' \in [changes : Nat, faults : Nat]
    BY <1>5 DEF Change
  <2>2. pane' \in Panes /\ asleep' \in BOOLEAN /\ reported' \in BOOLEAN
        /\ active' \in {"t1", "t2", "none", "lost"}
    BY <1>5 DEF Change
  <2> QED BY <1>5, <2>1, <2>2 DEF Change
<1>6. CASE UNCHANGED vars
  BY <1>6 DEF vars
<1> QED
  BY <1>1, <1>2, <1>3, <1>4, <1>5, <1>6 DEF Next

\* Facts only speak of what s and h hold in these places.
LEMMA FactsSame ==
    ASSUME NEW s, NEW r, NEW h, NEW g, NEW K, NEW T, Facts(s, h, K, T),
           \A k \in Numbers \ {"saidUnknown"} : r[k] = s[k],
           g.from = h.from, g.poked = h.poked, g.told = h.told, g.moved = h.moved
    PROVE  Facts(r, g, K, T)
<1>1. /\ Shifted \subseteq Numbers \ {"saidUnknown"}
      /\ {"noPane", "idleSince", "busySince", "waitSince", "nudged", "saidGone", "saidBusy",
          "saidWaiting", "saidIdle", "busyText", "waitText"} \subseteq Numbers \ {"saidUnknown"}
  BY DEF Shifted, Numbers, Times
<1>2. \A k \in Shifted : r[k] = s[k]
  BY <1>1
<1>3. /\ r.noPane = s.noPane /\ r.idleSince = s.idleSince /\ r.busySince = s.busySince
      /\ r.waitSince = s.waitSince /\ r.nudged = s.nudged /\ r.saidGone = s.saidGone
      /\ r.saidBusy = s.saidBusy /\ r.saidWaiting = s.saidWaiting /\ r.saidIdle = s.saidIdle
      /\ r.busyText = s.busyText /\ r.waitText = s.waitText
  BY <1>1
<1> QED
  BY <1>2, <1>3 DEF Facts, Kept

LEMMA LastTyped ==
    ASSUME TypeOK
    PROVE  /\ Ahead \in Int /\ Last \in Int /\ seen.row \in Nat /\ st.lastMono \in Int /\ st.lastWall \in Int
           /\ seen.of \in Names /\ time \in Nat /\ boot \in 0..time
<1>1. "lastWall" \in Numbers /\ "lastMono" \in Numbers
  BY DEF Numbers, Times
<1> QED
  BY <1>1, ClocksTyped DEF TypeOK, Histories, States, Ahead, Last

LEMMA RunAssigned ==
    ASSUME TypeOK, DutyInv, Assigned, Run(TRUE)
    PROVE  DutyInv'
<1> DEFINE v == Verdict
           h == SeenBy(v.kind)
<1>1. st' = v.st /\ seen' = h /\ done' = TRUE /\ ~done /\ UNCHANGED <<time, skew, boot, pane>>
  BY DEF Run, Assigned
<1>2. v = Decide(Taken) /\ Taken \in States
  BY VerdictTyped, CorrectedTyped DEF Taken
<1>3. v.st.of = active /\ v.st.lastWall = Wall /\ v.st.lastMono = Mono
  BY <1>2, Decided, CorrectedTyped DEF Taken
<1>4. /\ h.of = active /\ h.skew = skew /\ h.blind = Blind /\ h.row \in Nat
      /\ h.row > 0 => h.last = pane
  BY SeenAsleep, SeenAwake DEF Histories
<1>5. st'.of = seen'.of
  BY <1>1, <1>3, <1>4
<1>6. Ahead' = Now /\ Last' = time
  <2>1. Ahead' = Now
    BY <1>1, <1>4 DEF Ahead, Now
  <2>2. Last' = Wall - Now
    BY <1>1, <1>3, <2>1 DEF Last
  <2> QED BY <1>2, <2>1, <2>2, Forwards
<1>7. Clocks'
  <2>1. /\ Mono = time - boot /\ Mono \in 0..time /\ Now >= Remind /\ Wall # Never
        /\ time \in Nat /\ boot \in Int
    <3>1. time \in Nat /\ boot \in 0..time /\ skew \in Int /\ Start + skew >= Remind
      BY DEF TypeOK
    <3> QED BY <3>1, <1>2, Forwards, ClocksTyped DEF Mono, Now, Never
  <2>2. pane \in Panes /\ active # "nobody"
    BY DEF TypeOK, Assigned
  <2> QED BY <1>1, <1>3, <1>4, <1>6, <2>1, <2>2 DEF Clocks
<1>8. Remembered'
  <2>1. CASE Blind
    BY <1>1, <1>4, <2>1 DEF Remembered
  <2>2. CASE ~Blind
    <3>1. Facts(Taken, Known, Now, time)
      BY <2>2, TakenFresh, TakenSame
    <3>2. Known.row > 0 => RowFacts(Taken, Known, Known.row, Now, time - 1)
      BY <1>1, <2>2, TakenRow
    <3>3. Facts(v.st, h, Now, time) /\ RowFacts(v.st, h, h.row, Now, time)
      BY <1>2, <3>1, <3>2, FactsRun
    <3>4. Facts(st', seen', Ahead', Last') /\ RowFacts(st', seen', seen'.row, Ahead', Last')
      BY <1>1, <1>6, <3>3
    <3>5. Facts(st, seen, Ahead, Last)' /\ RowFacts(st, seen, seen.row, Ahead, Last)'
      BY <3>4 DEF Facts, RowFacts, Kept, Stood, Told, Shifted, Watched, Panes, Kinds, Limit, Threshold
    <3> QED BY <3>5 DEF Remembered
  <2> QED BY <2>1, <2>2
<1> QED
  BY <1>5, <1>7, <1>8 DEF DutyInv

\* Whatever else leaves the file and the history, but for the row, as they are.
LEMMA Untouched ==
    ASSUME TypeOK, DutyInv,
           st'.of = st.of, \A k \in Numbers \ {"saidUnknown"} : st'[k] = st[k],
           seen' = seen \/ seen' = [seen EXCEPT !.row = 0],
           seen'.row > 0 => st' = st,
           time' \in Nat, time' >= time,
           boot' = boot \/ (boot' = time /\ seen'.row = 0),
           seen'.row > 0 => IF done' THEN time' = Last ELSE time' = Last + 1
    PROVE  DutyInv'
<1>1. /\ seen'.of = seen.of /\ seen'.skew = seen.skew /\ seen'.from = seen.from /\ seen'.poked = seen.poked
      /\ seen'.told = seen.told /\ seen'.moved = seen.moved /\ seen'.blind = seen.blind
      /\ seen'.last = seen.last
      /\ seen'.row > 0 => seen' = seen
  BY DEF TypeOK, Histories
<1>2. "lastWall" \in Numbers \ {"saidUnknown"} /\ "lastMono" \in Numbers \ {"saidUnknown"}
  BY DEF Numbers, Times
<1>3. st'.lastWall = st.lastWall /\ st'.lastMono = st.lastMono /\ Ahead' = Ahead /\ Last' = Last
  BY <1>1, <1>2 DEF Ahead, Last
<1>4. /\ Ahead \in Int /\ Last \in Int /\ seen.row \in Nat /\ st.lastMono \in Int /\ st.lastWall \in Int
      /\ time \in Nat /\ boot \in 0..time
  BY LastTyped
<1>5. Clocks'
  <2>1. Ahead' >= Remind
    BY <1>3 DEF DutyInv, Clocks
  <2>2. st'.of # "nobody" => /\ st'.lastWall # Never
                             /\ st'.lastMono \in 0..Last' /\ Last' <= time'
                             /\ boot' = Last' - st'.lastMono \/ boot' >= Last'
    BY <1>3, <1>4 DEF DutyInv, Clocks
  <2>3. seen'.row > 0 => /\ seen'.of # "nobody" /\ seen'.last \in Panes
                         /\ boot' = Last' - st'.lastMono
                         /\ IF done' THEN time' = Last' ELSE time' = Last' + 1
    <3> HAVE seen'.row > 0
    <3>1. seen' = seen /\ boot' = boot
      BY <1>1
    <3> QED BY <1>3, <3>1 DEF DutyInv, Clocks
  <2> QED BY <2>1, <2>2, <2>3 DEF Clocks
<1>6. Remembered'
  <2> SUFFICES ASSUME (seen.of # "nobody" /\ ~seen.blind)'
               PROVE  (Facts(st, seen, Ahead, Last) /\ RowFacts(st, seen, seen.row, Ahead, Last))'
    BY DEF Remembered
  <2>1. Facts(st, seen, Ahead, Last) /\ RowFacts(st, seen, seen.row, Ahead, Last)
    BY <1>1 DEF DutyInv, Remembered
  <2>2. Facts(st', seen', Ahead, Last)
    BY <1>1, <2>1, FactsSame
  <2>3. RowFacts(st', seen', seen'.row, Ahead, Last)
    <3>1. CASE seen'.row > 0
      BY <1>1, <2>1, <3>1
    <3>2. CASE ~(seen'.row > 0)
      BY <3>2 DEF RowFacts
    <3> QED BY <3>1, <3>2
  <2>4. Facts(st', seen', Ahead', Last') /\ RowFacts(st', seen', seen'.row, Ahead', Last')
    BY <1>3, <2>2, <2>3
  <2> QED
    BY <2>4 DEF Facts, RowFacts, Kept, Stood, Told, Shifted, Watched, Panes, Kinds, Limit, Threshold
<1> QED
  BY <1>1, <1>5, <1>6 DEF DutyInv

LEMMA DutyStep ==
    ASSUME TypeOK, DutyInv, [Next]_vars
    PROVE  DutyInv'
<1>1. /\ time \in Nat /\ Last \in Int
      /\ seen.row > 0 => IF done THEN time = Last ELSE time = Last + 1
      /\ [seen EXCEPT !.row = 0].row = 0
  BY LastTyped DEF DutyInv, Clocks, TypeOK, Histories
<1>2. CASE Run(TRUE) /\ Assigned
  BY <1>2, RunAssigned
<1>3. CASE Run(TRUE) /\ ~Assigned
  <2>1. seen' = [seen EXCEPT !.row = 0] /\ st' = Verdict.st /\ time' = time /\ boot' = boot
    BY <1>3 DEF Run, Assigned, TypeOK
  <2>2. st'.of = st.of /\ \A k \in Numbers \ {"saidUnknown"} : st'[k] = st[k]
    BY <1>3, <2>1, VerdictTyped
  <2>3. seen'.row = 0
    BY <1>1, <2>1
  <2> QED BY <1>1, <2>1, <2>2, <2>3, Untouched
<1>4. CASE Run(FALSE)
  <2>1. seen' = [seen EXCEPT !.row = 0] /\ UNCHANGED <<st, time, boot>>
    BY <1>4 DEF Run
  <2> QED BY <1>1, <2>1, Untouched
<1>5. CASE Tick
  <2>1. UNCHANGED <<st, boot>> /\ time' = time + 1 /\ ~done'
    BY <1>5 DEF Tick
  <2>2. CASE done /\ UNCHANGED seen
    BY <1>1, <2>1, <2>2, Untouched
  <2>3. CASE seen' = [seen EXCEPT !.row = 0]
    BY <1>1, <2>1, <2>3, Untouched
  <2> QED BY <1>5, <2>2, <2>3 DEF Tick
<1>6. CASE SetClock
  BY <1>1, <1>6, Untouched DEF SetClock
<1>7. CASE Reboot
  <2>1. seen' = [seen EXCEPT !.row = 0] /\ boot' = time /\ UNCHANGED <<st, time>>
    BY <1>7 DEF Reboot
  <2> QED BY <1>1, <2>1, Untouched
<1>8. CASE Change
  BY <1>1, <1>8, Untouched DEF Change
<1>9. CASE UNCHANGED vars
  BY <1>1, <1>9, Untouched DEF vars
<1> QED
  BY <1>2, <1>3, <1>4, <1>5, <1>6, <1>7, <1>8, <1>9 DEF Next

LEMMA NoticeStep ==
    ASSUME TypeOK, DutyInv, NoticeTrue, [Next]_vars
    PROVE  NoticeTrue'
<1>1. ASSUME NEW saves \in BOOLEAN, Run(saves)
      PROVE  NoticeTrue'
  <2> DEFINE kind == Verdict.kind
  <2>1. notice' = Notice(kind)
    BY <1>1 DEF Run
  <2>2. SUFFICES ASSUME kind \in Kinds \cup {"nudge", "done"}, ~Blind, ~(kind = "waiting" /\ Moved)
                 PROVE  Held(kind) >= Threshold(kind)
    BY <2>1 DEF Notice, NoticeTrue, Kinds, Threshold
  <2>3. Assigned
    BY <2>2, VerdictTyped DEF Kinds
  <2>4. Facts(Taken, Known, Now, time)
    BY <2>2, <2>3, TakenFresh, TakenSame
  <2>5. Verdict = Decide(Taken) /\ Taken \in States
    BY <2>3, VerdictTyped, CorrectedTyped DEF Taken
  <2>6. ~asleep
    BY <2>2, <2>5 DEF Decide, Silent, Says, Kinds
  <2> QED BY <2>2, <2>3, <2>4, <2>5, <2>6, Lasted
<1>2. CASE Tick
  BY <1>2 DEF Tick, NoNotice, NoticeTrue
<1>3. CASE UNCHANGED notice
  BY <1>3 DEF NoticeTrue, Threshold, Kinds
<1> QED
  BY <1>1, <1>2, <1>3 DEF Next, SetClock, Reboot, Change, vars

\* Everything proved of the duty supervisor rests on this.
LEMMA DutyHolds == Spec => [](TypeOK /\ DutyInv /\ NoticeTrue)
<1>1. TypeOK /\ DutyInv /\ NoticeTrue /\ [Next]_vars => (TypeOK /\ DutyInv /\ NoticeTrue)'
  BY TypeStep, DutyStep, NoticeStep
<1> QED
  BY <1>1, Starts, PTL DEF Spec

-----------------------------------------------------------------------------
\* What a notice of run_once says has lasted has lasted, whatever the clock was
\* set by, however often, and whatever runs were killed or left out, as long as
\* the machine was not rebooted while the clock was set (agent_duty.py:235-245).
THEOREM NoticesTrue == Spec => []NoticeTrue
BY DutyHolds, PTL

LEMMA RowTold ==
    ASSUME TypeOK, DutyInv
    PROVE  StallTold
<1> DEFINE k == seen.last.kind
<1> SUFFICES ASSUME seen.row > 0, k \in Kinds, seen.row > Limit(k), seen.of = active, ~seen.blind,
                    ~(k = "waiting" /\ seen.moved)
             PROVE  seen.told[k] # -1 /\ (seen.row > Remind => time - seen.told[k] <= Remind)
  BY DEF StallTold
<1>1. RowFacts(st, seen, seen.row, Ahead, Last) /\ (time = Last \/ time = Last + 1)
  BY DEF DutyInv, Clocks, Remembered
<1>2. seen.told[k] # -1 /\ (seen.row > Remind => Last - seen.told[k] < Remind)
  BY <1>1 DEF RowFacts, Told, Kinds
<1>3. Last \in Int /\ seen.told[k] \in Int /\ Remind \in Nat
  BY LastTyped, ClocksTyped DEF TypeOK, Histories
<1> QED
  BY <1>1, <1>2, <1>3

\* A stall of any kind is told within the time allowed and told again after the
\* time between two reminders, for any thresholds and any bounds: decide's
\* branches lose no stall (agent_duty.py:76-136).
THEOREM StallsTold == Spec => []StallTold
<1>1. TypeOK /\ DutyInv => StallTold
  BY RowTold
<1> QED
  BY <1>1, DutyHolds, PTL
=============================================================================
