----------------------------- MODULE SingleFlight -----------------------------
(***************************************************************************)
(* bus_singleflight.py: the session lock of one agent identity and the     *)
(* claims on its file inbox.                                               *)
(*                                                                         *)
(* A process is a pid and a birth; a pid can be used again, by a session   *)
(* or by some other program, and a name by a later or a second session.    *)
(* acquire, heartbeat and release hold a flock, so each is one action.  A  *)
(* claim is one rename.  requeue_dead decides that a claimer is dead,      *)
(* lists its files and then renames them one by one: the decision is one   *)
(* action, each rename another.                                            *)
(*                                                                         *)
(* Time is kept as ages: how long ago the lock's ts_ns was written, how    *)
(* old a message file is.  An age stops at the largest limit it is         *)
(* compared with.                                                          *)
(***************************************************************************)
EXTENDS Integers, FiniteSets

CONSTANTS
    Pids,        \* process ids
    Stable,      \* instance names given with --instance or AGENT_BUS_INSTANCE
    Styles,      \* how sessions are named, a subset of AllStyles
    Signals,     \* the liveness signals given to acquire, a subset of AllSignals
    Msgs,        \* message files
    MaxBirth,    \* bound: processes ever started under one pid
    TTL,         \* ttl_ns of the lock
    Grace,       \* LEGACY_GRACE_NS
    ClaimTTL,    \* CLAIM_TTL_NS
    Births,      \* TRUE: /proc/<pid>/stat can be read
    Legacy       \* TRUE: the first lock may be a record without pid_birth

\* host: --owner-pid, the name ends in the session's pid.  cli: no name is
\* given, so it ends in the pid of the command that ran acquire, which exits.
AllStyles  == {"host", "stable", "cli"}
AllSignals == {"owner", "target", "both", "bare"}

ASSUME FlightAssumption ==
    /\ IsFiniteSet(Pids) /\ MaxBirth \in Nat \ {0}
    /\ Styles \subseteq AllStyles /\ Signals \subseteq AllSignals
    /\ TTL \in Nat \ {0} /\ Grace \in Nat \ {0} /\ ClaimTTL \in Nat \ {0}
    /\ Births \in BOOLEAN /\ Legacy \in BOOLEAN

MaxAge == IF TTL > Grace THEN TTL ELSE Grace

\* Instance names.
HostNames == {"host"} \X Pids
CliNames  == {"cli"} \X Pids
Names     == HostNames \cup CliNames \cup ({"stable"} \X Stable)

NoPid == <<"none">>
PidOrNone == {<<"pid", p>> : p \in Pids} \cup {NoPid}

NoLock == <<>>
Record == [inst : Names, pid : PidOrNone, target : BOOLEAN,
           liveness : {"target", "pid", "ttl"}, owned : BOOLEAN,
           birth : 0 .. MaxBirth]

\* Where a message file is: the inbox, a claim directory, the archive.
Absent   == <<"absent">>
Pending  == <<"pending">>
Archived == <<"archived">>

NoLease == <<>>

VARIABLES
    proc,      \* pid -> the process that has it, if up
    pane,      \* the agent's tmux pane exists
    lock,      \* content of wake/<agent>.session.lock
    lockAge,   \* age of its ts_ns
    loc,       \* message -> where its file is
    msgAge,    \* message -> age of its file
    sweep,     \* pid -> what its requeue_dead call has still to rename
    lease,     \* pid -> what acquire told the session, with its age
    handling,  \* <<pid, message>>: the session works on the message
    (* read by the properties only *)
    lockBy,    \* the process that wrote the lock
    forfeit    \* handled messages whose claim could not stand: see ClaimHolds

vars == <<proc, pane, lock, lockAge, loc, msgAge, sweep, lease, handling,
          lockBy, forfeit>>

-----------------------------------------------------------------------------
(* Liveness, as the code measures it *)

Up(p)      == proc[p].up
Session(p) == proc[p].up /\ proc[p].role = "session"
NameOf(p)  == proc[p].name
Self(p)    == <<p, proc[p].birth>>

\* pid_of: the pid at the end of an instance name.
PidOf(inst) == IF inst[1] = "host" THEN <<"pid", inst[2]>> ELSE NoPid

\* _pid_alive
IsAlive(pid) == pid # NoPid /\ Up(pid[2])

\* _pid_birth; 0 is None
PidBirth(pid) == IF Births /\ IsAlive(pid) THEN proc[pid[2]].birth ELSE 0

\* Mutant: the bare pid decides, as it did before the births were recorded.
SameProcessAlive_Bare(l) == IsAlive(l.pid)

SameProcessAlive(l) ==
    /\ IsAlive(l.pid)
    /\ l.birth = 0 => lockAge < Grace
    /\ (l.birth # 0 /\ PidBirth(l.pid) # 0) => PidBirth(l.pid) = l.birth

\* Mutant: the absence of a pid is taken for death.
HolderAlive_NoPidDead(l) ==
    CASE l.liveness = "target" -> pane /\ (l.owned => SameProcessAlive(l))
      [] l.liveness = "pid"    -> SameProcessAlive(l)
      [] OTHER                 -> lockAge < TTL /\ SameProcessAlive(l)

HolderAlive(l) ==
    CASE l.liveness = "target" -> pane /\ (l.owned => SameProcessAlive(l))
      [] l.liveness = "pid"    -> SameProcessAlive(l)
      [] OTHER                 -> lockAge < TTL /\ (l.pid # NoPid => SameProcessAlive(l))

-----------------------------------------------------------------------------
(* The record acquire and heartbeat write *)

GivesTarget(sig) == sig \in {"target", "both"}
GivesOwner(sig)  == sig \in {"owner", "both"}

LivenessOf(target, owner) ==
    IF target THEN "target" ELSE IF owner THEN "pid" ELSE "ttl"

Payload(p, target, owner) ==
    LET pid == IF owner THEN <<"pid", p>> ELSE PidOf(NameOf(p))
    IN [inst |-> NameOf(p), pid |-> pid, target |-> target,
        liveness |-> LivenessOf(target, owner), owned |-> owner,
        birth |-> PidBirth(pid)]

\* The strategy is kept; a missing birth is filled in.
Refreshed(l) == [l EXCEPT !.birth = IF @ = 0 THEN PidBirth(l.pid) ELSE @]

\* Nothing is written for a target, an owner or a derived pid that is not alive.
Refused(p, sig) ==
    \/ GivesTarget(sig) /\ ~pane
    \/ GivesOwner(sig) /\ ~Up(p)
    \/ sig = "bare" /\ PidOf(NameOf(p)) # NoPid /\ ~IsAlive(PidOf(NameOf(p)))

\* What the session was told.  With the pane gone it is void at once.  The
\* record is its own unless it names another process, dead or alive, which a
\* call without a signal takes over from a session of the same name.
Void == MaxAge + 1
Leased(p, l) == [liveness |-> l.liveness, owned |-> l.owned, birth |-> l.birth,
                 age |-> IF l.liveness = "target" /\ ~pane THEN Void ELSE 0,
                 own |-> l.pid \in {NoPid, <<"pid", p>>} /\ l.birth \in {0, proc[p].birth}]

\* p writes or removes the record: it is not that of another session of the
\* same name any more.
Overwritten(p) ==
    [q \in Pids |-> IF q # p /\ lease[q] # NoLease /\ NameOf(q) = NameOf(p)
                    THEN [lease[q] EXCEPT !.own = FALSE] ELSE lease[q]]

Write(p, l) ==
    /\ lock' = l
    /\ lockAge' = 0
    /\ lockBy' = Self(p)
    /\ lease' = [Overwritten(p) EXCEPT ![p] = Leased(p, l)]

\* What acquire writes over the caller's own record.
Kept(p, sig) == IF sig = "bare" THEN Refreshed(lock)
                ELSE Payload(p, GivesTarget(sig), GivesOwner(sig))

AcquireOwn(p, sig) ==                                    \* already-own
    /\ lock # NoLock /\ lock.inst = NameOf(p)
    /\ Write(p, Kept(p, sig))

AcquireFree(p, sig) ==                                   \* acquired
    /\ lock # NoLock => lock.inst # NameOf(p) /\ ~HolderAlive(lock)
    /\ Write(p, Payload(p, GivesTarget(sig), GivesOwner(sig)))

AcquireDuplicate(p) ==                                   \* duplicate
    /\ lock # NoLock /\ lock.inst # NameOf(p) /\ HolderAlive(lock)
    /\ lease' = [lease EXCEPT ![p] = NoLease]
    /\ UNCHANGED <<lock, lockAge, lockBy>>

Acquire(p, sig) ==
    /\ Session(p)
    /\ NameOf(p)[1] = "cli" => sig # "bare"              \* the CLI passes getppid()
    /\ ~Refused(p, sig)
    /\ AcquireOwn(p, sig) \/ AcquireFree(p, sig) \/ AcquireDuplicate(p)
    /\ UNCHANGED <<proc, pane, loc, msgAge, sweep, handling, forfeit>>

Mine(p) == lock # NoLock /\ lock.inst = NameOf(p)

\* A heartbeat with a new signal keeps the stored target.
Beat(p, sig) == IF sig = "bare" THEN Refreshed(lock)
                ELSE Payload(p, GivesTarget(sig) \/ lock.target, GivesOwner(sig))

Heartbeat(p, sig) ==
    /\ Session(p)
    /\ lease[p] # NoLease
    /\ \/ Mine(p) /\ Write(p, Beat(p, sig))
       \/ /\ ~Mine(p)
          /\ lease' = [lease EXCEPT ![p] = NoLease]
          /\ UNCHANGED <<lock, lockAge, lockBy>>
    /\ UNCHANGED <<proc, pane, loc, msgAge, sweep, handling, forfeit>>

Release(p) ==
    /\ Session(p)
    /\ lease[p] # NoLease
    /\ IF Mine(p) THEN lock' = NoLock /\ lockAge' = 0 /\ lockBy' = <<>>
                  ELSE UNCHANGED <<lock, lockAge, lockBy>>
    /\ lease' = [(IF Mine(p) THEN Overwritten(p) ELSE lease) EXCEPT ![p] = NoLease]
    /\ UNCHANGED <<proc, pane, loc, msgAge, sweep, handling, forfeit>>

-----------------------------------------------------------------------------
(* Claims.  The protocol of the module: a duplicate does not drain. *)

Claimed(inst) == {m \in Msgs : loc[m] = inst}

\* Somebody has already decided to empty p's directory of the message.
Listed(p, m) == \E q \in Pids : <<NameOf(p), m>> \in sweep[q]

\* Another live session of the same name works on it.
Sharers(p, m) == {h \in handling : h # <<p, m>> /\ h[2] = m /\ NameOf(h[1]) = NameOf(p)}

NoteShared(p, m) ==
    forfeit' = forfeit \cup Sharers(p, m)
                       \cup {h \in {<<p, m>>} : Listed(p, m) \/ Sharers(p, m) # {}}

Claim(p, m) ==
    /\ Session(p) /\ lease[p] # NoLease
    /\ loc[m] = Pending
    /\ loc' = [loc EXCEPT ![m] = NameOf(p)]
    /\ handling' = handling \cup {<<p, m>>}
    /\ NoteShared(p, m)
    /\ UNCHANGED <<proc, pane, lock, lockAge, msgAge, sweep, lease, lockBy>>

\* claimed_paths: a session finds what is in its directory and works on it.
Adopt(p, m) ==
    /\ Session(p) /\ lease[p] # NoLease
    /\ loc[m] = NameOf(p) /\ <<p, m>> \notin handling
    /\ handling' = handling \cup {<<p, m>>}
    /\ NoteShared(p, m)
    /\ UNCHANGED <<proc, pane, lock, lockAge, loc, msgAge, sweep, lease, lockBy>>

\* The session is done with the message; it can archive what it still has.
Finish(p, m) ==
    /\ Session(p) /\ <<p, m>> \in handling
    /\ loc' = [loc EXCEPT ![m] = IF @ = NameOf(p) THEN Archived ELSE @]
    /\ msgAge' = [msgAge EXCEPT ![m] = IF loc[m] = NameOf(p) THEN 0 ELSE @]
    /\ handling' = handling \ {<<p, m>>}
    /\ forfeit' = forfeit \ {<<p, m>>}
    /\ UNCHANGED <<proc, pane, lock, lockAge, sweep, lease, lockBy>>

\* The newest file of a directory; rename keeps the time a file was written.
Fresh(inst) == \E m \in Claimed(inst) : msgAge[m] < ClaimTTL

\* Mutant: a claimer without a pid is dead.
ClaimerAlive_NoPidDead(inst) == IsAlive(PidOf(inst))

\* _claimer_state: the pid in the name, else a live lock of that name, else
\* how fresh its directory is.  The cli name's pid has exited.
ClaimerAlive(inst) ==
    CASE inst[1] = "host" -> IsAlive(PidOf(inst))
      [] inst[1] = "cli"  -> FALSE
      [] OTHER            -> \/ lock # NoLock /\ lock.inst = inst /\ HolderAlive(lock)
                             \/ Fresh(inst)

Sweepable(p, inst) == inst # NameOf(p) /\ ~ClaimerAlive(inst)

\* The session has itself let its lease run out: by the clock, with its pane,
\* or because its birth could not be read.
Lapsed(p) ==
    \/ lease[p].age = Void
    \/ lease[p].liveness = "ttl" /\ lease[p].age >= TTL
    \/ lease[p].birth = 0 /\ lease[p].age >= Grace

\* It was told to be the worker, in time, by a record about itself.
GoodLease(p) == lease[p] # NoLease /\ ~Lapsed(p) /\ lease[p].own

\* A claim under a given name says nothing of a pid: it stands while the lock of
\* that name or the age of the files does.
RanOut(p, m) == NameOf(p)[1] = "stable" /\ ~GoodLease(p) /\ msgAge[m] >= ClaimTTL

RequeueScan(p, inst) ==
    /\ Session(p) /\ sweep[p] = {}
    /\ Claimed(inst) # {}
    /\ Sweepable(p, inst)
    /\ sweep' = [sweep EXCEPT ![p] = {<<inst, m>> : m \in Claimed(inst)}]
    /\ forfeit' = forfeit \cup {h \in handling : NameOf(h[1]) = inst /\ RanOut(h[1], h[2])}
    /\ UNCHANGED <<proc, pane, lock, lockAge, loc, msgAge, lease, handling, lockBy>>

\* The rename fails when the file is not there any more.
RequeueMove(p, inst, m) ==
    /\ Session(p) /\ <<inst, m>> \in sweep[p]
    /\ sweep' = [sweep EXCEPT ![p] = @ \ {<<inst, m>>}]
    /\ loc' = [loc EXCEPT ![m] = IF @ = inst THEN Pending ELSE @]
    /\ UNCHANGED <<proc, pane, lock, lockAge, msgAge, lease, handling, lockBy, forfeit>>

-----------------------------------------------------------------------------
(* The surroundings: processes, the pane, time, arriving files *)

NamesFor(p) ==
    {n \in Names : /\ n[1] \in Styles
                   /\ n[1] \in {"host", "cli"} => n[2] = p
                   /\ n[1] = "cli" => proc[p].birth = 0}

\* The pid is free; the name is no one's.
NoProcess(p, birth) == [up |-> FALSE, birth |-> birth, role |-> "other", name |-> <<"host", p>>]

\* A given name may be that of a session that runs already, a name that ends
\* in a pid that of the process which had the pid before.  The pid in a cli
\* name is the command's: no later session has it.
Start(p) ==
    /\ ~Up(p) /\ proc[p].birth < MaxBirth
    /\ \/ \E n \in NamesFor(p) :
             proc' = [proc EXCEPT ![p] = [up |-> TRUE, birth |-> proc[p].birth + 1,
                                          role |-> "session", name |-> n]]
       \/ proc' = [proc EXCEPT ![p].up = TRUE, ![p].birth = @ + 1, ![p].role = "other"]
    /\ UNCHANGED <<pane, lock, lockAge, loc, msgAge, sweep, lease, handling, lockBy, forfeit>>

Die(p) ==
    /\ Up(p)
    /\ proc' = [proc EXCEPT ![p] = NoProcess(p, @.birth)]
    /\ sweep' = [sweep EXCEPT ![p] = {}]
    /\ lease' = [lease EXCEPT ![p] = NoLease]
    /\ handling' = {h \in handling : h[1] # p}
    /\ forfeit' = {h \in forfeit : h[1] # p}
    /\ UNCHANGED <<pane, lock, lockAge, loc, msgAge, lockBy>>

TogglePane ==
    /\ \E sig \in Signals : GivesTarget(sig)
    /\ pane' = ~pane
    /\ lease' = [p \in Pids |-> IF lease[p] # NoLease /\ lease[p].liveness = "target" /\ pane
                                THEN [lease[p] EXCEPT !.age = Void] ELSE lease[p]]
    /\ UNCHANGED <<proc, lock, lockAge, loc, msgAge, sweep, handling, lockBy, forfeit>>

Arrive(m) ==
    /\ loc[m] = Absent
    /\ loc' = [loc EXCEPT ![m] = Pending]
    /\ UNCHANGED <<proc, pane, lock, lockAge, msgAge, sweep, lease, handling, lockBy, forfeit>>

Older(age, limit) == IF age < limit THEN age + 1 ELSE age

Tick ==
    /\ lockAge' = IF lock = NoLock THEN lockAge ELSE Older(lockAge, MaxAge)
    /\ msgAge' = [m \in Msgs |-> IF loc[m] \in {Absent, Archived} THEN msgAge[m]
                                 ELSE Older(msgAge[m], ClaimTTL)]
    /\ lease' = [p \in Pids |-> IF lease[p] = NoLease THEN NoLease
                                ELSE [lease[p] EXCEPT !.age = Older(@, MaxAge)]]
    /\ UNCHANGED <<proc, pane, lock, loc, sweep, handling, lockBy, forfeit>>

-----------------------------------------------------------------------------
Process == [up : BOOLEAN, birth : 0 .. MaxBirth, role : {"session", "other"}, name : Names]

\* A record of an older version, of a process that is up.
OldRecord(p) == [inst |-> NameOf(p), pid |-> <<"pid", p>>, target |-> FALSE,
                 liveness |-> "pid", owned |-> TRUE, birth |-> 0]

Init ==
    /\ proc = [p \in Pids |-> NoProcess(p, 0)]
    /\ pane = TRUE
    /\ lock \in {NoLock} \cup (IF Legacy THEN {OldRecord(p) : p \in Pids} ELSE {})
    /\ lockAge = 0
    /\ loc = [m \in Msgs |-> Absent]
    /\ msgAge = [m \in Msgs |-> 0]
    /\ sweep = [p \in Pids |-> {}]
    /\ lease = [p \in Pids |-> NoLease]
    /\ handling = {}
    /\ forfeit = {}
    /\ lockBy = IF lock = NoLock THEN <<>> ELSE <<lock.pid[2], 0>>

Next ==
    \/ Tick
    \/ TogglePane
    \/ \E p \in Pids :
          \/ Start(p) \/ Die(p) \/ Release(p)
          \/ \E sig \in Signals : Acquire(p, sig) \/ Heartbeat(p, sig)
          \/ \E m \in Msgs : Claim(p, m) \/ Adopt(p, m) \/ Finish(p, m)
          \/ \E inst \in Names :
                \/ RequeueScan(p, inst)
                \/ \E m \in Msgs : RequeueMove(p, inst, m)
    \/ \E m \in Msgs : Arrive(m)

Spec == Init /\ [][Next]_vars

\* A session keeps calling acquire; nobody has to start, die, release, send a
\* heartbeat or drain.
Fairness == WF_vars(Tick) /\ \A p \in Pids : WF_vars(\E sig \in Signals : Acquire(p, sig))

FairSpec == Spec /\ Fairness

-----------------------------------------------------------------------------
TypeOK ==
    /\ proc \in [Pids -> Process]
    /\ pane \in BOOLEAN
    /\ lock \in {NoLock} \cup Record
    /\ lockAge \in 0 .. MaxAge
    /\ loc \in [Msgs -> {Absent, Pending, Archived} \cup Names]
    /\ msgAge \in [Msgs -> 0 .. ClaimTTL]
    /\ sweep \in [Pids -> SUBSET (Names \X Msgs)]
    /\ forfeit \subseteq handling /\ handling \subseteq Pids \X Msgs

\* Two live sessions that acquire told to be the worker: one of them has let
\* its lease run out, or was told so by a record that is not about itself.
\* Pids and names used again, panes closed and opened, old records and sessions
\* killed at any time included.  The second exception is a session that takes
\* over the record of a session of its name without a signal of its own, or
\* whose record a session of its name has written or removed since.
Exclusive == \A p, q \in Pids : GoodLease(p) /\ GoodLease(q) => p = q

\* A message a live session works on stays in that session's directory, so no
\* two sessions of different names work on one.  Exempt are claims under a given
\* name whose files' age had run out, and whose session had no good lease, as a
\* sweep began; a message taken into a directory that somebody was already
\* emptying of it, for a dead namesake; and one that a second live session of the
\* same name has taken up.
ClaimHolds == \A h \in handling \ forfeit : loc[h[2]] = NameOf(h[1])

\* "One active worker / agent identity": of two live sessions of different names
\* that acquire told to be the worker, one has let its lease run out.  False:
\* acquire keeps a dead predecessor's pid for a session of the same name.
OneActiveWorker ==
    \A p, q \in Pids :
        (lease[p] # NoLease /\ lease[q] # NoLease /\ NameOf(p) # NameOf(q))
            => Lapsed(p) \/ Lapsed(q)

AnySession == \E p \in Pids : Session(p)

\* The lock of a process that is gone, where the record can tell: a pane that
\* outlives its process keeps the lock if no owner pid was given.
DeadLock ==
    /\ lock # NoLock
    /\ ~Up(lockBy[1]) \/ proc[lockBy[1]].birth # lockBy[2]
    /\ ~(lock.liveness = "target" /\ ~lock.owned)

\* Such a lock is taken over in the end, even when its pid is used again.
LockReclaimed == DeadLock ~> (~DeadLock \/ ~AnySession)
=============================================================================
