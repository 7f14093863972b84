--------------------------------- MODULE Duty ---------------------------------
(***************************************************************************)
(* The duty supervisor agent_duty.py: run_once, called by a timer, looks   *)
(* at the pane of the agent that is assigned and tells the supervisor when *)
(* the work has silently stopped.  What it remembers between two runs is   *)
(* in a file, with wall-clock times; the wall clock may be set, the        *)
(* machine may reboot, a run may be killed or left out.                    *)
(*                                                                         *)
(* Time is counted in steps of the timer.  What enter and nudge do to the  *)
(* pane is one of the things that can happen to a pane at any time.        *)
(***************************************************************************)
EXTENDS Integers, FiniteSets

CONSTANTS
    Report, Nudge, Alert, Stuck, Remind,   \* the minutes of decide, in steps
    Start,        \* what the wall clock shows at first, in steps since the epoch
    MaxTime,      \* bound: steps
    Jumps,        \* by how much the wall clock may be set
    MaxChanges,   \* bound: changes of the pane, of sleep and of the assignment
    MaxFaults     \* bound: clock settings, reboots, killed and skipped runs

ASSUME DutyAssumption ==
    /\ {Report, Nudge, Alert, Stuck, Remind} \subseteq Nat \ {0}
    /\ {MaxTime, MaxChanges, MaxFaults} \subseteq Nat
    /\ Jumps \subseteq Int
    /\ Start \in Nat /\ Start >= Remind

Kinds == {"gone", "busy", "waiting", "idle"}

\* What capture shows: no pane, a pane at work or with a question (and one of
\* two contents), an empty prompt, the waker's own text or another text in it.
Panes ==
    {[kind |-> k, text |-> c] : k \in {"busy", "waiting"}, c \in {1, 2}}
        \cup {[kind |-> k, text |-> 0] : k \in {"gone", "idle", "own", "typed"}}

VARIABLES
    time,      \* steps since the start, whatever the clocks say
    skew,      \* wall clock minus time
    boot,      \* when the machine was booted
    pane, asleep, reported,
    active,    \* the assignment: a task, "none", or "lost" (missing or corrupt)
    st,        \* the state file
    seen,      \* what the finished runs have seen (history, see Watched)
    notice,    \* what the run of this step said: [kind, held, sure]
    done,      \* the run of this step is over
    left       \* [changes, faults]: the bounds

vars == <<time, skew, boot, pane, asleep, reported, active, st, seen, notice, done, left>>

Never == 0   \* a key that is absent or None
Wall  == Start + time + skew
Mono  == time - boot

NoState ==
    [of |-> "nobody", noPane |-> Never, busyText |-> 0, busySince |-> Never,
     waitText |-> 0, waitSince |-> Never, idleSince |-> Never, nudged |-> Never,
     enterSent |-> Never, doneSaid |-> Never, saidGone |-> Never, saidBusy |-> Never,
     saidWaiting |-> Never, saidIdle |-> Never, saidUnknown |-> Never,
     lastWall |-> Never, lastMono |-> 0]

-----------------------------------------------------------------------------
(* decide *)

\* An alert of a kind is given again after a while.
Due(last) == Wall - last >= Remind

Since(t) == IF t = Never THEN Wall ELSE t

Says(action, kind, s) == [action |-> action, kind |-> kind, st |-> s]
Silent(s) == Says("none", "none", s)

OnGone(s) ==
    LET r == [s EXCEPT !.noPane = Since(@)] IN
    IF Wall - r.noPane >= Alert /\ Due(r.saidGone)
    THEN Says("alert", "gone", [r EXCEPT !.saidGone = Wall])
    ELSE Silent(r)

\* Mutant: the clock starts again at every run that sees work.
SameBusy_Never(s) == FALSE

SameBusy(s) == s.busyText = pane.text

OnBusy(s) ==
    LET r == [s EXCEPT !.busyText = pane.text,
                       !.busySince = IF SameBusy(s) THEN Since(@) ELSE Wall,
                       !.idleSince = Never, !.nudged = Never]
    IN IF Wall - r.busySince >= Stuck /\ Due(r.saidBusy)
       THEN Says("alert", "busy", [r EXCEPT !.saidBusy = Wall])
       ELSE Silent(r)

OnWaiting(s) ==
    LET r == [s EXCEPT !.waitText = pane.text,
                       !.waitSince = IF s.waitText = pane.text THEN Since(@) ELSE Wall]
    IN IF Wall - r.waitSince >= Stuck /\ Due(r.saidWaiting)
       THEN Says("alert", "waiting", [r EXCEPT !.saidWaiting = Wall])
       ELSE Silent(r)

\* Only the waker's own text gets an Enter; another text is sacred.
OnTyped(s) ==
    IF pane.kind = "own" /\ Wall - s.enterSent >= 1
    THEN Says("enter", "own", [s EXCEPT !.enterSent = Wall])
    ELSE Silent(s)

OnIdle(s) ==
    LET r    == [s EXCEPT !.idleSince = Since(@)]
        idle == Wall - r.idleSince
    IN IF reported /\ idle >= Report
       THEN IF r.doneSaid = Never THEN Says("done", "done", [r EXCEPT !.doneSaid = Wall])
            ELSE Silent(r)
       ELSE IF idle >= Nudge /\ r.nudged = Never
       THEN Says("nudge", "nudge", [r EXCEPT !.nudged = Wall])
       ELSE IF r.nudged # Never /\ Wall - r.nudged >= Alert /\ Due(r.saidIdle)
       THEN Says("alert", "idle", [r EXCEPT !.saidIdle = Wall])
       ELSE Silent(r)

Forget(s, keys) == [k \in DOMAIN s |-> IF k \in keys THEN 0 ELSE s[k]]

Decide(s) ==
    IF asleep THEN Silent(s)
    ELSE IF pane.kind = "gone" THEN OnGone(s)
    ELSE LET up == Forget(s, {"noPane"}) IN
         IF pane.kind = "busy" THEN OnBusy(up)
         ELSE LET calm == Forget(up, {"busyText", "busySince"}) IN
              IF pane.kind = "waiting" THEN OnWaiting(calm)
              ELSE LET free == Forget(calm, {"waitText", "waitSince"}) IN
                   IF pane.kind = "idle" THEN OnIdle(free) ELSE OnTyped(free)

-----------------------------------------------------------------------------
(* run_once *)

\* Mutant: the time since which a pane looks busy is left behind.
Shifted_NotBusy == {"idleSince", "nudged", "saidGone", "saidBusy", "saidIdle", "enterSent",
                    "doneSaid", "noPane"}

\* The times that move along when the wall clock was set.
Shifted == {"idleSince", "nudged", "saidGone", "saidBusy", "saidIdle", "enterSent",
            "doneSaid", "noPane", "busySince"}

Drift(s) == Wall - (s.lastWall + (Mono - s.lastMono))

\* The file as this run takes it: another agent or topic starts afresh, and a
\* wall clock that did not go like the monotonic one is made good.
\* run_once leaves a drift of up to 60 s alone.  A step of the timer is longer than
\* that, so a drift of one step or more is a jump, and one of 60 s no step.
Corrected ==
    LET s == IF st.of = active THEN st ELSE [NoState EXCEPT !.of = active] IN
    IF s.lastWall = Never \/ Mono < s.lastMono THEN s
    ELSE [k \in DOMAIN s |-> IF k \in Shifted /\ s[k] # Never THEN s[k] + Drift(s) ELSE s[k]]

Stamped(s) == [s EXCEPT !.lastWall = Wall, !.lastMono = Mono]

Verdict ==
    IF active = "none" THEN Silent(st)
    ELSE IF active = "lost"
    THEN IF Due(st.saidUnknown)
         THEN Says("alert", "unknown", [st EXCEPT !.saidUnknown = Wall])
         ELSE Silent(st)
    ELSE Decide(Stamped(Corrected))

(* History: since when the finished runs have seen each pane (from), when    *)
(* the agent was poked and the supervisor told, how many steps in a row,     *)
(* with a run in each, showed the same pane (row), and the clock they saw.   *)
Watched == {p \in Panes : p.kind \in Kinds}

NothingSeen ==
    [of |-> "nobody", from |-> [p \in Watched |-> -1], poked |-> -1,
     told |-> [k \in Kinds |-> -1],
     last |-> [kind |-> "none", text |-> 0], row |-> 0,
     skew |-> 0, moved |-> FALSE, blind |-> FALSE]

\* What ends a state for the code: work ends being idle, a free prompt or
\* another text ends a question, as it ends work; a missing pane ends nothing.
Ends(q, p) ==
    CASE p.kind = "gone"    -> q # p
      [] p.kind = "busy"    -> q # p /\ q.kind # "gone"
      [] p.kind = "waiting" -> q # p /\ q.kind \notin {"gone", "busy"}
      [] OTHER              -> q.kind = "busy"

\* The clock is not where the last run saw it; and if the machine was rebooted
\* as well, nothing tells the two apart any more.
Moved == seen.of = active /\ (seen.moved \/ skew # seen.skew)
Blind == seen.of = active /\ (seen.blind \/ (Mono < st.lastMono /\ skew # seen.skew))

Seen == IF seen.of = active THEN seen ELSE [NothingSeen EXCEPT !.of = active]

From(p) == IF p \notin Watched THEN time ELSE IF Seen.from[p] = -1 THEN time ELSE Seen.from[p]

\* A report in makes an empty prompt no stall.
SeenBy(kind) ==
    LET clock == [Seen EXCEPT !.skew = skew, !.moved = Moved, !.blind = Blind] IN
    IF asleep THEN [clock EXCEPT !.row = 0]
    ELSE [clock EXCEPT
            !.from  = [p \in Watched |-> IF p = pane THEN From(p)
                                       ELSE IF Ends(pane, p) THEN -1 ELSE @[p]],
            !.poked = IF kind = "nudge" THEN time ELSE IF pane.kind = "busy" THEN -1 ELSE @,
            !.told  = [k \in Kinds |-> IF k = kind THEN time ELSE @[k]],
            !.row   = IF pane.kind = "idle" /\ reported THEN 0
                      ELSE IF pane = Seen.last THEN @ + 1 ELSE 1,
            !.last  = pane]

\* How long the state a notice is about has lasted.
Held(kind) ==
    CASE kind \in {"nudge", "done"} -> time - From([kind |-> "idle", text |-> 0])
      [] kind = "idle"              -> IF Seen.poked = -1 THEN -1 ELSE time - Seen.poked
      [] OTHER                      -> time - From(pane)

NoNotice == [kind |-> "none", held |-> 0, sure |-> FALSE]

\* What a run says; it is sure unless the clock was set while the machine was
\* down, and of a question unless the clock was set.
Notice(kind) ==
    [kind |-> kind,
     held |-> IF kind \in Kinds \cup {"nudge", "done"} THEN Held(kind) ELSE 0,
     sure |-> ~Blind /\ ~(kind = "waiting" /\ Moved)]

-----------------------------------------------------------------------------
Init ==
    /\ time = 0 /\ skew = 0 /\ boot = 0
    /\ pane \in {p \in Panes : p.text < 2} /\ asleep = FALSE /\ reported = FALSE
    /\ active = "t1"
    /\ st = NoState /\ seen = NothingSeen
    /\ notice = NoNotice
    /\ done = FALSE
    /\ left = [changes |-> MaxChanges, faults |-> MaxFaults]

\* A run of the timer; a killed one may have acted and does not save.
Run(saves) ==
    /\ ~done /\ done' = TRUE
    /\ notice' = Notice(Verdict.kind)
    /\ IF saves
       THEN /\ st' = Verdict.st
            /\ seen' = IF active \in {"none", "lost"} THEN [seen EXCEPT !.row = 0]
                       ELSE SeenBy(Verdict.kind)
            /\ UNCHANGED left
       ELSE /\ left.faults > 0
            /\ left' = [left EXCEPT !.faults = @ - 1]
            /\ seen' = [seen EXCEPT !.row = 0]
            /\ UNCHANGED st
    /\ UNCHANGED <<time, skew, boot, pane, asleep, reported, active>>

\* The next step; the timer may have left one out.
Tick ==
    /\ time < MaxTime /\ time' = time + 1
    /\ done' = FALSE
    /\ \/ done /\ UNCHANGED <<left, seen>>
       \/ /\ ~done /\ left.faults > 0
          /\ left' = [left EXCEPT !.faults = @ - 1]
          /\ seen' = [seen EXCEPT !.row = 0]
    /\ notice' = NoNotice
    /\ UNCHANGED <<skew, boot, pane, asleep, reported, active, st>>

\* The clock is not set to the first hour after the epoch.
SetClock ==
    /\ left.faults > 0 /\ left' = [left EXCEPT !.faults = @ - 1]
    /\ \E j \in Jumps : Start + skew + j >= Remind /\ skew' = skew + j
    /\ UNCHANGED <<time, boot, pane, asleep, reported, active, st, seen, notice, done>>

Reboot ==
    /\ left.faults > 0 /\ left' = [left EXCEPT !.faults = @ - 1]
    /\ boot' = time
    /\ seen' = [seen EXCEPT !.row = 0]
    /\ UNCHANGED <<time, skew, pane, asleep, reported, active, st, notice, done>>

\* The agent works, asks, stops, reports; it is put to sleep or woken; the
\* waker assigns another task or none, or the assignment file is damaged.
Change ==
    /\ left.changes > 0 /\ left' = [left EXCEPT !.changes = @ - 1]
    /\ \/ pane' \in Panes \ {pane} /\ UNCHANGED <<asleep, reported, active>>
       \/ asleep' = ~asleep /\ UNCHANGED <<pane, reported, active>>
       \/ ~reported /\ reported' = TRUE /\ UNCHANGED <<pane, asleep, active>>
       \/ /\ active' \in {"t1", "t2", "none", "lost"} \ {active}
          /\ reported' = FALSE
          /\ UNCHANGED <<pane, asleep>>
    /\ UNCHANGED <<time, skew, boot, st, seen, notice, done>>

Next == (\E saves \in BOOLEAN : Run(saves)) \/ Tick \/ SetClock \/ Reboot \/ Change

Spec == Init /\ [][Next]_vars

-----------------------------------------------------------------------------
(* Properties *)

Threshold(kind) ==
    CASE kind \in {"gone", "idle"}    -> Alert
      [] kind \in {"busy", "waiting"} -> Stuck
      [] kind = "nudge"               -> Nudge
      [] kind = "done"                -> Report

\* run_once: "on a jump the stored timestamps are shifted, so the elapsed time
\* is preserved (neither delay nor a false alert)": what a notice says has
\* lasted has lasted, over set clocks, reboots, killed and missing runs and
\* changed assignments - unless the clock was set while the machine was down,
\* and for a question unless the clock was set since the assignment (sure).
NoticeTrue ==
    (notice.kind \in Kinds \cup {"nudge", "done"} /\ notice.sure)
        => notice.held >= Threshold(notice.kind)

Limit(kind) == IF kind = "idle" THEN Nudge + Alert ELSE Threshold(kind)

\* The module's promise, "this can stall silently ... this module catches
\* that": a pane that stays as it is for the time allowed, a run in every step
\* (no text in its prompt, the agent awake, no report in), has been told to the
\* supervisor, and is told again within the time between two reminders.
StallTold ==
    LET k == seen.last.kind IN
    (/\ seen.row > 0 /\ k \in Kinds /\ seen.row > Limit(k) /\ seen.of = active /\ ~seen.blind
     /\ ~(k = "waiting" /\ seen.moved))
        => seen.told[k] # -1 /\ (seen.row > Remind => time - seen.told[k] <= Remind)
=============================================================================
