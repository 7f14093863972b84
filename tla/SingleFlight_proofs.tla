-------------------------- MODULE SingleFlight_proofs --------------------------
(***************************************************************************)
(* The session lock and the claims on the file inbox: for any pids, names, *)
(* time limits and liveness signals, with processes started and killed,    *)
(* pids used again and the pane closed at any time, births readable or not *)
(* and records of an older version at the start.                           *)
(***************************************************************************)
EXTENDS SingleFlight, TLAPS

Lease == [liveness : {"target", "pid", "ttl"}, owned : BOOLEAN,
          birth : 0 .. MaxBirth, age : 0 .. Void, own : BOOLEAN]

Typed == TypeOK /\ lease \in [Pids -> {NoLease} \cup Lease]

\* A name that ends in a pid belongs to a process with that pid.
NamedRight ==
    \A p \in Pids : Session(p) =>
        /\ NameOf(p)[1] \in Styles
        /\ NameOf(p)[1] \in {"host", "cli"} => NameOf(p)[2] = p

\* A birth is that of the pid, and a strategy that needs a pid has one.
WellFormed(l) ==
    /\ l \in Record
    /\ l.pid = NoPid => l.birth = 0
    /\ (l.owned \/ l.liveness = "pid") => l.pid # NoPid

RecordInv == lock # NoLock => WellFormed(lock)

\* The lock is the one p's lease was given for, and not older than the lease.
Backed(p) ==
    /\ lock \in Record
    /\ lock.inst = NameOf(p)
    /\ lock.liveness = lease[p].liveness
    /\ lock.owned = lease[p].owned
    /\ lock.birth = lease[p].birth
    /\ lock.pid \in {NoPid, <<"pid", p>>}
    /\ lock.birth \in {0, proc[p].birth}
    /\ (lock.owned \/ lock.liveness = "pid") => lock.pid # NoPid
    /\ lockAge <= lease[p].age
    /\ lock.liveness = "target" => pane

LeaseInv ==
    \A p \in Pids : lease[p] # NoLease =>
        /\ Session(p)
        /\ GoodLease(p) => Backed(p)

\* Of the sessions of one name the last that wrote the record may have it as its own.
OwnInv ==
    \A p, q \in Pids :
        (/\ lease[p] # NoLease /\ lease[p].own
         /\ lease[q] # NoLease /\ lease[q].own
         /\ NameOf(p) = NameOf(q)) => p = q

FlightInv == Typed /\ NamedRight /\ RecordInv /\ LeaseInv /\ OwnInv

-----------------------------------------------------------------------------
(* Shapes and types *)

LEMMA RecordShape == NoLock \notin Record
<1>1. DOMAIN NoLock = {}
  BY DEF NoLock
<1>2. \A l \in Record : "inst" \in DOMAIN l
  BY DEF Record
<1> QED
  BY <1>1, <1>2

LEMMA LeaseShape == NoLease \notin Lease
<1>1. DOMAIN NoLease = {}
  BY DEF NoLease
<1>2. \A l \in Lease : "age" \in DOMAIN l
  BY DEF Lease
<1> QED
  BY <1>1, <1>2

LEMMA MaxAgeTyped == MaxAge \in Nat \ {0} /\ TTL <= MaxAge /\ Grace <= MaxAge
                     /\ Void = MaxAge + 1
  BY FlightAssumption DEF MaxAge, Void

LEMMA OlderTyped ==
  ASSUME NEW a \in Nat, NEW limit \in Nat
  PROVE  Older(a, limit) \in Nat /\ a <= Older(a, limit)
         /\ (a <= limit => Older(a, limit) <= limit)
         /\ (a > limit => Older(a, limit) = a)
  BY DEF Older

LEMMA NameShape ==
  ASSUME NEW n \in Names
  PROVE  /\ n[1] \in {"host", "cli", "stable"}
         /\ PidOf(n) \in PidOrNone
         /\ n[1] # "host" => PidOf(n) = NoPid
         /\ n[1] = "host" => PidOf(n) = <<"pid", n[2]>>
         /\ n \notin {Absent, Pending, Archived}
<1>1. n \in HostNames \/ n \in CliNames \/ n \in {"stable"} \X Stable
  BY DEF Names
<1>2. /\ n[1] \in {"host", "cli", "stable"}
      /\ PidOf(n) \in PidOrNone
      /\ n[1] # "host" => PidOf(n) = NoPid
      /\ n[1] = "host" => PidOf(n) = <<"pid", n[2]>>
  BY <1>1 DEF HostNames, CliNames, PidOf, PidOrNone
<1>3. n \notin {Absent, Pending, Archived}
  BY <1>1 DEF HostNames, CliNames, Absent, Pending, Archived
<1> QED
  BY <1>2, <1>3

\* A pid is alive or there is none, and its birth is one the process has.
LEMMA BirthTyped ==
  ASSUME Typed, NEW pid \in PidOrNone
  PROVE  /\ PidBirth(pid) \in 0 .. MaxBirth
         /\ pid = NoPid => PidBirth(pid) = 0
         /\ \A p \in Pids : pid = <<"pid", p>> => PidBirth(pid) \in {0, proc[p].birth}
  BY FlightAssumption DEF Typed, TypeOK, Process, PidOrNone, PidBirth, IsAlive, NoPid

-----------------------------------------------------------------------------
(* Who the lock speaks for *)

LEMMA LiveHolder ==
  ASSUME FlightInv, NEW p \in Pids, GoodLease(p)
  PROVE  lock # NoLock /\ lock.inst = NameOf(p) /\ HolderAlive(lock)
<1>1. Session(p) /\ Backed(p) /\ lease[p] # NoLease /\ ~Lapsed(p)
  BY DEF FlightInv, LeaseInv, GoodLease
<1>2. lock # NoLock /\ lock.inst = NameOf(p)
  BY <1>1, RecordShape DEF Backed
<1>3. /\ lease[p] \in Lease /\ lock \in Record /\ lockAge \in Nat
      /\ lock.liveness = lease[p].liveness /\ lock.birth = lease[p].birth
      /\ lockAge <= lease[p].age
  BY <1>1, MaxAgeTyped DEF FlightInv, Typed, TypeOK, Backed
<1>4. lock.birth = 0 => lockAge < Grace
  BY <1>1, <1>3, MaxAgeTyped, FlightAssumption DEF Lapsed, Lease
<1>5. lock.liveness = "ttl" => lockAge < TTL
  BY <1>1, <1>3, MaxAgeTyped, FlightAssumption DEF Lapsed, Lease
<1>6. lock.pid # NoPid => SameProcessAlive(lock)
  BY <1>1, <1>4 DEF Backed, Session, SameProcessAlive, IsAlive, Up, PidBirth
<1>7. lock.liveness \in {"target", "pid", "ttl"}
  BY <1>3 DEF Record
<1> QED
  BY <1>1, <1>2, <1>5, <1>6, <1>7 DEF HolderAlive, Backed

\* So at most one lease is good.
LEMMA OneGoodLease ==
  ASSUME FlightInv, NEW p \in Pids, NEW q \in Pids, GoodLease(p), GoodLease(q)
  PROVE  p = q
<1>1. NameOf(p) = NameOf(q)
  BY LiveHolder
<1> QED
  BY <1>1 DEF FlightInv, OwnInv, GoodLease

-----------------------------------------------------------------------------
(* Writing the lock *)

LEMMA PayloadRight ==
  ASSUME FlightInv, NEW p \in Pids, Session(p), NEW target \in BOOLEAN, NEW owner \in BOOLEAN
  PROVE  /\ WellFormed(Payload(p, target, owner))
         /\ Payload(p, target, owner).inst = NameOf(p)
<1> DEFINE pid == IF owner THEN <<"pid", p>> ELSE PidOf(NameOf(p))
<1>1. NameOf(p) \in Names
  BY DEF FlightInv, Typed, TypeOK, Process, NameOf
<1>2. pid \in PidOrNone /\ (owner => pid # NoPid)
  BY <1>1, NameShape DEF PidOrNone, NoPid
<1>3. PidBirth(pid) \in 0 .. MaxBirth /\ (pid = NoPid => PidBirth(pid) = 0)
  BY <1>2, BirthTyped DEF FlightInv
<1>4. Payload(p, target, owner) =
        [inst |-> NameOf(p), pid |-> pid, target |-> target,
         liveness |-> LivenessOf(target, owner), owned |-> owner, birth |-> PidBirth(pid)]
  BY DEF Payload
<1>5. /\ LivenessOf(target, owner) \in {"target", "pid", "ttl"}
      /\ LivenessOf(target, owner) = "pid" => owner
  BY DEF LivenessOf
<1> HIDE DEF pid
<1>6. Payload(p, target, owner) \in Record
  BY <1>1, <1>2, <1>3, <1>4, <1>5 DEF Record
<1> QED
  BY <1>2, <1>3, <1>4, <1>5, <1>6 DEF WellFormed

\* The stored record, kept by a session without a signal of its own.
LEMMA RefreshedRight ==
  ASSUME FlightInv, NEW p \in Pids, lock # NoLock, lock.inst = NameOf(p)
  PROVE  /\ WellFormed(Refreshed(lock))
         /\ Refreshed(lock).inst = NameOf(p)
<1>1. lock \in Record /\ WellFormed(lock) /\ lock.pid \in PidOrNone
  BY DEF FlightInv, RecordInv, WellFormed, Record
<1>2. PidBirth(lock.pid) \in 0 .. MaxBirth /\ (lock.pid = NoPid => PidBirth(lock.pid) = 0)
  BY <1>1, BirthTyped DEF FlightInv
<1>3. /\ Refreshed(lock) \in Record
      /\ Refreshed(lock).inst = lock.inst /\ Refreshed(lock).pid = lock.pid
      /\ Refreshed(lock).owned = lock.owned /\ Refreshed(lock).liveness = lock.liveness
      /\ Refreshed(lock).birth \in {lock.birth, PidBirth(lock.pid)}
  BY <1>1, <1>2 DEF Refreshed, Record
<1> QED
  BY <1>1, <1>2, <1>3 DEF WellFormed

LEMMA LeasedTyped ==
  ASSUME NEW p \in Pids, NEW l \in Record, pane \in BOOLEAN
  PROVE  Leased(p, l) \in Lease
<1>1. (l.pid \in {NoPid, <<"pid", p>>} /\ l.birth \in {0, proc[p].birth}) \in BOOLEAN
  OBVIOUS
<1> QED
  BY <1>1, MaxAgeTyped DEF Leased, Lease, Record

\* What p's writing does to the leases of the others.
LEMMA OverwrittenTyped ==
  ASSUME FlightInv, NEW p \in Pids
  PROVE  /\ Overwritten(p) \in [Pids -> {NoLease} \cup Lease]
         /\ \A q \in Pids \ {p} :
               IF lease[q] # NoLease /\ NameOf(q) = NameOf(p)
               THEN Overwritten(p)[q] \in Lease /\ ~Overwritten(p)[q].own
               ELSE Overwritten(p)[q] = lease[q]
<1>1. ASSUME NEW q \in Pids, lease[q] # NoLease
      PROVE  [lease[q] EXCEPT !.own = FALSE] \in Lease /\ ~[lease[q] EXCEPT !.own = FALSE].own
  BY <1>1 DEF FlightInv, Typed, Lease
<1>2. lease \in [Pids -> {NoLease} \cup Lease]
  BY DEF FlightInv, Typed
<1> QED
  BY <1>1, <1>2 DEF Overwritten

\* p may write its record once nobody of another name has a good lease.
LEMMA WriteSafe ==
  ASSUME FlightInv, NEW p \in Pids, Session(p), NEW l,
         WellFormed(l), l.inst = NameOf(p), Write(p, l),
         \A q \in Pids \ {p} : GoodLease(q) => NameOf(q) = NameOf(p),
         UNCHANGED <<proc, pane, loc, msgAge, sweep, handling, forfeit>>
  PROVE  FlightInv'
<1>1. /\ lock' = l /\ lockAge' = 0
      /\ lease' = [Overwritten(p) EXCEPT ![p] = Leased(p, l)]
      /\ l \in Record
  BY DEF Write, WellFormed
<1>2. Leased(p, l) \in Lease /\ Leased(p, l) # NoLease
  BY <1>1, LeasedTyped, LeaseShape DEF FlightInv, Typed, TypeOK
<1>3. /\ lease' \in [Pids -> {NoLease} \cup Lease]
      /\ lease'[p] = Leased(p, l)
      /\ \A q \in Pids \ {p} :
           IF lease[q] # NoLease /\ NameOf(q) = NameOf(p)
           THEN lease'[q] \in Lease /\ ~lease'[q].own
           ELSE lease'[q] = lease[q]
  BY <1>1, <1>2, OverwrittenTyped
<1>4. Typed'
  <2>1. lockAge' \in 0 .. MaxAge
    BY <1>1, MaxAgeTyped
  <2> QED
    BY <1>1, <1>3, <2>1 DEF FlightInv, Typed, TypeOK
<1>5. NamedRight' /\ \A q \in Pids : NameOf(q)' = NameOf(q) /\ (Session(q)' <=> Session(q))
  BY DEF FlightInv, NamedRight, Session, NameOf
<1>6. RecordInv'
  BY <1>1 DEF RecordInv, WellFormed
<1>7. Session(p)' /\ (GoodLease(p) => Backed(p))'
  <2> SUFFICES ASSUME GoodLease(p)' PROVE Backed(p)'
    BY <1>5
  <2>1. lease'[p] = [liveness |-> l.liveness, owned |-> l.owned, birth |-> l.birth,
                     age |-> IF l.liveness = "target" /\ ~pane THEN Void ELSE 0,
                     own |-> l.pid \in {NoPid, <<"pid", p>>} /\ l.birth \in {0, proc[p].birth}]
    BY <1>3 DEF Leased
  <2>2. l.liveness = "target" => pane
    BY <2>1 DEF GoodLease, Lapsed, Void, MaxAge
  <2>3. l.pid \in {NoPid, <<"pid", p>>} /\ l.birth \in {0, proc[p].birth}
    <3>1. lease'[p].own
      BY DEF GoodLease
    <3>2. lease'[p].own = (l.pid \in {NoPid, <<"pid", p>>} /\ l.birth \in {0, proc[p].birth})
      BY <2>1
    <3> QED
      BY <3>1, <3>2, Zenon
  <2> QED
    BY <1>1, <2>1, <2>2, <2>3, MaxAgeTyped DEF Backed, WellFormed, NameOf
<1>8. ASSUME NEW q \in Pids \ {p}, lease'[q] # NoLease
      PROVE  Session(q)' /\ ~GoodLease(q)' /\ (lease'[q].own => NameOf(q) # NameOf(p))
  <2>1. lease[q] # NoLease
    BY <1>3, <1>8
  <2>2. Session(q)'
    BY <1>5, <2>1 DEF FlightInv, LeaseInv
  <2>3. lease'[q].own => NameOf(q) # NameOf(p) /\ lease'[q] = lease[q]
    BY <1>3, <2>1
  <2>4. GoodLease(q)' => GoodLease(q) /\ lease'[q].own
    BY <2>1, <2>3 DEF GoodLease, Lapsed, Void, MaxAge
  <2> QED
    BY <2>2, <2>3, <2>4
<1>9. LeaseInv'
  BY <1>7, <1>8 DEF LeaseInv
<1>10. OwnInv'
  <2> SUFFICES ASSUME NEW q \in Pids, NEW r \in Pids,
                      lease'[q] # NoLease, lease'[q].own, lease'[r] # NoLease, lease'[r].own,
                      NameOf(q) = NameOf(r)
               PROVE  q = r
    BY <1>5 DEF OwnInv
  <2>1. CASE q # p /\ r # p
    <3>1. NameOf(q) # NameOf(p) /\ NameOf(r) # NameOf(p)
      BY <1>8, <2>1
    <3>2. lease'[q] = lease[q] /\ lease'[r] = lease[r]
      BY <1>3, <2>1, <3>1
    <3> QED
      BY <3>2 DEF FlightInv, OwnInv
  <2>2. CASE q = p \/ r = p
    BY <1>8, <2>2
  <2> QED
    BY <2>1, <2>2
<1> QED
  BY <1>4, <1>5, <1>6, <1>9, <1>10 DEF FlightInv

-----------------------------------------------------------------------------
(* The steps *)

\* A session gives its lease up.
LEMMA DropSafe ==
  ASSUME FlightInv, NEW p \in Pids, Session(p),
         \/ /\ lock' = lock /\ lockAge' = lockAge
            /\ lease' = [lease EXCEPT ![p] = NoLease]
         \/ /\ lock' = NoLock /\ Mine(p) /\ lockAge' = 0
            /\ lease' = [Overwritten(p) EXCEPT ![p] = NoLease],
         UNCHANGED <<proc, pane, loc, msgAge, sweep, handling, forfeit>>
  PROVE  FlightInv'
<1>1. /\ lease' \in [Pids -> {NoLease} \cup Lease] /\ lease'[p] = NoLease
      /\ \A q \in Pids \ {p} :
           \/ lease'[q] = lease[q]
                 /\ (lock' = lock \/ lease[q] = NoLease \/ NameOf(q) # NameOf(p))
           \/ lease[q] # NoLease /\ lease'[q] \in Lease /\ ~lease'[q].own
  BY OverwrittenTyped DEF FlightInv, Typed
<1>2. Typed' /\ NamedRight' /\ RecordInv'
  BY <1>1, MaxAgeTyped DEF FlightInv, Typed, TypeOK, NamedRight, RecordInv, Session, NameOf
<1>3. ASSUME NEW q \in Pids, lease'[q] # NoLease
      PROVE  Session(q)' /\ (GoodLease(q) => Backed(q))'
  <2>1. q # p /\ lease[q] # NoLease /\ Session(q)'
    BY <1>1, <1>3 DEF FlightInv, LeaseInv, Session
  <2>2. ASSUME GoodLease(q)' PROVE Backed(q)'
    <3>1. lease'[q] = lease[q] /\ (lock' = lock \/ NameOf(q) # NameOf(p))
      BY <1>1, <2>1, <2>2 DEF GoodLease
    <3>2. GoodLease(q) /\ Backed(q)
      BY <2>1, <2>2, <3>1 DEF GoodLease, Lapsed, Void, MaxAge, FlightInv, LeaseInv
    <3>3. lock' = lock /\ lockAge' = lockAge
      BY <3>1, <3>2 DEF Mine, Backed
    <3> QED
      BY <3>1, <3>2, <3>3 DEF Backed, NameOf
  <2> QED
    BY <2>1, <2>2
<1>4. OwnInv'
  BY <1>1 DEF FlightInv, OwnInv, NameOf
<1> QED
  BY <1>2, <1>3, <1>4 DEF FlightInv, LeaseInv

LEMMA AcquireSafe ==
  ASSUME FlightInv, NEW p \in Pids, NEW sig \in Signals, Acquire(p, sig)
  PROVE  FlightInv'
<1>1. Session(p) /\ UNCHANGED <<proc, pane, loc, msgAge, sweep, handling, forfeit>>
  BY DEF Acquire
<1>2. GivesTarget(sig) \in BOOLEAN /\ GivesOwner(sig) \in BOOLEAN
  BY DEF GivesTarget, GivesOwner
<1>3. CASE AcquireOwn(p, sig)
  <2>1. lock # NoLock /\ lock.inst = NameOf(p) /\ Write(p, Kept(p, sig))
    BY <1>3 DEF AcquireOwn
  <2>2. \A q \in Pids \ {p} : GoodLease(q) => NameOf(q) = NameOf(p)
    BY <2>1, LiveHolder
  <2>3. WellFormed(Kept(p, sig)) /\ Kept(p, sig).inst = NameOf(p)
    BY <1>1, <1>2, <2>1, PayloadRight, RefreshedRight DEF Kept
  <2> QED
    BY <1>1, <2>1, <2>2, <2>3, WriteSafe
<1>4. CASE AcquireFree(p, sig)
  <2>1. \A q \in Pids \ {p} : ~GoodLease(q)
    BY <1>4, LiveHolder DEF AcquireFree
  <2> QED
    BY <1>1, <1>2, <1>4, <2>1, PayloadRight, WriteSafe DEF AcquireFree
<1>5. CASE AcquireDuplicate(p)
  BY <1>1, <1>5, DropSafe DEF AcquireDuplicate
<1> QED
  BY <1>3, <1>4, <1>5 DEF Acquire

LEMMA HeartbeatSafe ==
  ASSUME FlightInv, NEW p \in Pids, NEW sig \in Signals, Heartbeat(p, sig)
  PROVE  FlightInv'
<1>1. Session(p) /\ UNCHANGED <<proc, pane, loc, msgAge, sweep, handling, forfeit>>
  BY DEF Heartbeat
<1>2. CASE Mine(p) /\ Write(p, Beat(p, sig))
  <2>1. lock # NoLock /\ lock.inst = NameOf(p)
    BY <1>2 DEF Mine
  <2>2. \A q \in Pids \ {p} : GoodLease(q) => NameOf(q) = NameOf(p)
    BY <2>1, LiveHolder
  <2>3. WellFormed(Beat(p, sig)) /\ Beat(p, sig).inst = NameOf(p)
    <3>1. CASE sig = "bare"
      BY <2>1, <3>1, RefreshedRight DEF Beat
    <3>2. CASE sig # "bare"
      <4>1. (GivesTarget(sig) \/ lock.target) \in BOOLEAN /\ GivesOwner(sig) \in BOOLEAN
        BY DEF GivesTarget, GivesOwner
      <4> QED
        BY <1>1, <3>2, <4>1, PayloadRight DEF Beat
    <3> QED
      BY <3>1, <3>2
  <2> QED
    BY <1>1, <1>2, <2>2, <2>3, WriteSafe
<1>3. CASE lease' = [lease EXCEPT ![p] = NoLease] /\ UNCHANGED <<lock, lockAge, lockBy>>
  BY <1>1, <1>3, DropSafe
<1> QED
  BY <1>2, <1>3 DEF Heartbeat

LEMMA ReleaseSafe ==
  ASSUME FlightInv, NEW p \in Pids, Release(p)
  PROVE  FlightInv'
  BY DropSafe DEF Release

\* A claim, a sweep or an arriving file touches neither lock nor processes.
LEMMA FilesSafe ==
  ASSUME FlightInv, UNCHANGED <<proc, pane, lock, lockAge, lease, lockBy>>, Typed'
  PROVE  FlightInv'
<1>1. NamedRight' /\ RecordInv'
  BY DEF FlightInv, NamedRight, RecordInv, Session, NameOf
<1>2. LeaseInv'
  BY DEF FlightInv, LeaseInv, Session, GoodLease, Lapsed, Backed, NameOf, Void, MaxAge
<1>3. OwnInv'
  BY DEF FlightInv, OwnInv, NameOf
<1> QED
  BY <1>1, <1>2, <1>3 DEF FlightInv

LEMMA StartSafe ==
  ASSUME FlightInv, NEW p \in Pids, Start(p)
  PROVE  FlightInv'
<1>1. /\ ~Up(p) /\ proc[p].birth < MaxBirth /\ proc[p] \in Process
      /\ UNCHANGED <<pane, lock, lockAge, loc, msgAge, sweep, lease, handling, lockBy, forfeit>>
  BY DEF FlightInv, Typed, TypeOK, Start
<1>2. /\ proc' \in [Pids -> Process]
      /\ \A q \in Pids \ {p} : proc'[q] = proc[q]
      /\ proc'[p].birth = proc[p].birth + 1
      /\ proc'[p].role = "session" => proc'[p].name \in NamesFor(p)
  <2>1. CASE \E n \in NamesFor(p) :
               proc' = [proc EXCEPT ![p] = [up |-> TRUE, birth |-> proc[p].birth + 1,
                                            role |-> "session", name |-> n]]
    <3>1. PICK n \in NamesFor(p) :
               proc' = [proc EXCEPT ![p] = [up |-> TRUE, birth |-> proc[p].birth + 1,
                                            role |-> "session", name |-> n]]
      BY <2>1
    <3>2. [up |-> TRUE, birth |-> proc[p].birth + 1, role |-> "session", name |-> n] \in Process
      BY <1>1, FlightAssumption DEF Process, NamesFor
    <3> QED
      BY <3>1, <3>2 DEF FlightInv, Typed, TypeOK
  <2>2. CASE proc' = [proc EXCEPT ![p].up = TRUE, ![p].birth = @ + 1, ![p].role = "other"]
    <3>1. proc'[p] = [up |-> TRUE, birth |-> proc[p].birth + 1, role |-> "other",
                      name |-> proc[p].name]
      BY <1>1, <2>2 DEF FlightInv, Typed, TypeOK, Process
    <3>2. proc'[p] \in Process
      BY <1>1, <3>1, FlightAssumption DEF Process
    <3>3. proc' = [proc EXCEPT ![p] = proc'[p]]
      BY <2>2 DEF FlightInv, Typed, TypeOK
    <3>4. proc \in [Pids -> Process]
      BY DEF FlightInv, Typed, TypeOK
    <3>5. proc' \in [Pids -> Process] /\ \A q \in Pids \ {p} : proc'[q] = proc[q]
      BY <3>2, <3>3, <3>4
    <3> QED
      BY <3>1, <3>5
  <2> QED
    BY <2>1, <2>2 DEF Start
<1>3. Typed'
  BY <1>1, <1>2 DEF FlightInv, Typed, TypeOK
<1>4. NamedRight'
  BY <1>1, <1>2 DEF FlightInv, NamedRight, Session, NameOf, NamesFor, Process
<1>5. RecordInv'
  BY <1>1 DEF FlightInv, RecordInv
<1>6. lease[p] = NoLease
  BY <1>1 DEF FlightInv, LeaseInv, Session, Up
<1>7. LeaseInv'
  BY <1>1, <1>2, <1>6 DEF FlightInv, LeaseInv, Session, GoodLease, Lapsed, Backed, NameOf,
         Void, MaxAge
<1>8. OwnInv'
  BY <1>1, <1>2, <1>6 DEF FlightInv, OwnInv, NameOf
<1> QED
  BY <1>3, <1>4, <1>5, <1>7, <1>8 DEF FlightInv

LEMMA DieSafe ==
  ASSUME FlightInv, NEW p \in Pids, Die(p)
  PROVE  FlightInv'
<1>1. /\ proc' = [proc EXCEPT ![p] = NoProcess(p, proc[p].birth)] /\ proc[p] \in Process
      /\ lease' = [lease EXCEPT ![p] = NoLease]
      /\ UNCHANGED <<pane, lock, lockAge, loc, msgAge, lockBy>>
  BY DEF FlightInv, Typed, TypeOK, Die
<1>2. /\ proc'[p] \in Process /\ proc'[p].up = FALSE
      /\ \A q \in Pids \ {p} : proc'[q] = proc[q]
      /\ proc' \in [Pids -> Process]
  <2>1. proc[p].birth \in 0 .. MaxBirth
    BY <1>1 DEF Process
  <2>2. NoProcess(p, proc[p].birth) \in Process /\ NoProcess(p, proc[p].birth).up = FALSE
    BY <2>1 DEF NoProcess, Process, Names, HostNames
  <2> QED
    BY <1>1, <2>2 DEF FlightInv, Typed, TypeOK
<1>3. lease'[p] = NoLease /\ \A q \in Pids \ {p} : lease'[q] = lease[q]
  BY <1>1 DEF FlightInv, Typed
<1>4. Typed'
  <2>1. sweep' \in [Pids -> SUBSET (Names \X Msgs)]
    BY DEF FlightInv, Typed, TypeOK, Die
  <2>2. forfeit' \subseteq handling' /\ handling' \subseteq Pids \X Msgs
    BY DEF FlightInv, Typed, TypeOK, Die
  <2> QED
    BY <1>1, <1>2, <2>1, <2>2 DEF FlightInv, Typed, TypeOK
<1>5. NamedRight'
  BY <1>2 DEF FlightInv, NamedRight, Session, NameOf
<1>6. RecordInv'
  BY <1>1 DEF FlightInv, RecordInv
<1>7. LeaseInv'
  BY <1>1, <1>2, <1>3 DEF FlightInv, LeaseInv, Session, GoodLease, Lapsed, Backed, NameOf,
         Void, MaxAge
<1>8. OwnInv'
  BY <1>2, <1>3 DEF FlightInv, OwnInv, NameOf
<1> QED
  BY <1>4, <1>5, <1>6, <1>7, <1>8 DEF FlightInv

\* With the pane a lease that rests on it is void, and stays so.
LEMMA TogglePaneSafe ==
  ASSUME FlightInv, TogglePane
  PROVE  FlightInv'
<1>1. /\ pane' = ~pane
      /\ lease' = [p \in Pids |-> IF lease[p] # NoLease /\ lease[p].liveness = "target" /\ pane
                                  THEN [lease[p] EXCEPT !.age = Void] ELSE lease[p]]
      /\ UNCHANGED <<proc, lock, lockAge, loc, msgAge, sweep, handling, lockBy, forfeit>>
  BY DEF TogglePane
<1>2. ASSUME NEW p \in Pids
      PROVE  \/ lease'[p] = lease[p]
                /\ (lease[p] # NoLease /\ lease[p].liveness = "target" => ~pane)
             \/ /\ lease[p] \in Lease /\ lease'[p] \in Lease
                /\ lease'[p].age = Void /\ lease'[p].own = lease[p].own
  <2>1. CASE lease[p] # NoLease /\ lease[p].liveness = "target" /\ pane
    <3>1. lease[p] \in Lease
      BY <2>1 DEF FlightInv, Typed
    <3> QED
      BY <1>1, <2>1, <3>1, MaxAgeTyped DEF Lease
  <2>2. CASE ~(lease[p] # NoLease /\ lease[p].liveness = "target" /\ pane)
    BY <1>1, <2>2
  <2> QED
    BY <2>1, <2>2
<1>3. Typed'
  <2>1. lease' \in [Pids -> {NoLease} \cup Lease]
    BY <1>1, <1>2 DEF FlightInv, Typed
  <2> QED
    BY <1>1, <2>1 DEF FlightInv, Typed, TypeOK
<1>4. NamedRight' /\ RecordInv'
  BY <1>1 DEF FlightInv, NamedRight, RecordInv, Session, NameOf
<1>5. ASSUME NEW p \in Pids, lease'[p] # NoLease
      PROVE  Session(p)' /\ (GoodLease(p) => Backed(p))'
  <2>1. CASE lease'[p] = lease[p] /\ (lease[p] # NoLease /\ lease[p].liveness = "target" => ~pane)
    <3>1. Session(p)' /\ (GoodLease(p)' <=> GoodLease(p))
      BY <1>1, <1>5, <2>1 DEF FlightInv, LeaseInv, Session, GoodLease, Lapsed, Void, MaxAge
    <3>2. GoodLease(p) => Backed(p)'
      BY <1>1, <1>5, <2>1 DEF FlightInv, LeaseInv, Backed, NameOf
    <3> QED
      BY <3>1, <3>2
  <2>2. CASE lease[p] \in Lease /\ lease'[p] \in Lease /\ lease'[p].age = Void
    BY <1>1, <2>2, LeaseShape DEF FlightInv, LeaseInv, Session, GoodLease, Lapsed, Void, MaxAge
  <2> QED
    BY <1>2, <2>1, <2>2
<1>6. OwnInv'
  <2>1. \A p \in Pids : lease'[p] # NoLease => lease[p] # NoLease /\ lease'[p].own = lease[p].own
    BY <1>2, LeaseShape
  <2> QED
    BY <1>1, <2>1 DEF FlightInv, OwnInv, NameOf
<1> QED
  BY <1>3, <1>4, <1>5, <1>6 DEF FlightInv, LeaseInv

\* The lock and the leases age together.
LEMMA TickSafe ==
  ASSUME FlightInv, Tick
  PROVE  FlightInv'
<1>1. /\ lockAge' = IF lock = NoLock THEN lockAge ELSE Older(lockAge, MaxAge)
      /\ lease' = [p \in Pids |-> IF lease[p] = NoLease THEN NoLease
                                  ELSE [lease[p] EXCEPT !.age = Older(@, MaxAge)]]
      /\ UNCHANGED <<proc, pane, lock, loc, sweep, handling, lockBy, forfeit>>
  BY DEF Tick
<1>2. ASSUME NEW p \in Pids, lease[p] # NoLease
      PROVE  /\ lease[p] \in Lease /\ lease'[p] \in Lease
             /\ lease'[p].age = Older(lease[p].age, MaxAge)
             /\ lease'[p].liveness = lease[p].liveness
             /\ lease'[p].owned = lease[p].owned /\ lease'[p].birth = lease[p].birth
             /\ lease'[p].own = lease[p].own
  <2>1. lease[p] \in Lease
    BY <1>2 DEF FlightInv, Typed
  <2>2. lease'[p] = [lease[p] EXCEPT !.age = Older(lease[p].age, MaxAge)]
    BY <1>1, <1>2
  <2>3. lease[p].age \in 0 .. Void
    BY <2>1 DEF Lease
  <2>4. Older(lease[p].age, MaxAge) \in 0 .. Void
    <3>1. lease[p].age \in Nat /\ MaxAge \in Nat /\ (lease[p].age <= MaxAge \/ lease[p].age = Void)
      BY <2>3, MaxAgeTyped
    <3> HIDE DEF MaxAge, Void
    <3> QED
      BY <2>3, <3>1, MaxAgeTyped DEF Older
  <2> QED
    BY <2>1, <2>2, <2>4 DEF Lease
<1>3. lockAge \in 0 .. MaxAge /\ lockAge' \in 0 .. MaxAge /\ lockAge' <= Older(lockAge, MaxAge)
  BY <1>1, MaxAgeTyped, OlderTyped DEF FlightInv, Typed, TypeOK
<1>4. Typed'
  <2>1. msgAge' \in [Msgs -> 0 .. ClaimTTL]
    <3>1. ASSUME NEW m \in Msgs PROVE Older(msgAge[m], ClaimTTL) \in 0 .. ClaimTTL
      BY OlderTyped, FlightAssumption DEF FlightInv, Typed, TypeOK
    <3> QED
      BY <3>1 DEF FlightInv, Typed, TypeOK, Tick
  <2>2. lease' \in [Pids -> {NoLease} \cup Lease]
    BY <1>1, <1>2
  <2> QED
    BY <1>1, <1>3, <2>1, <2>2 DEF FlightInv, Typed, TypeOK
<1>5. NamedRight' /\ RecordInv'
  BY <1>1 DEF FlightInv, NamedRight, RecordInv, Session, NameOf
<1>6. ASSUME NEW p \in Pids, lease'[p] # NoLease
      PROVE  Session(p)' /\ (GoodLease(p) => Backed(p))'
  <2>1. lease[p] # NoLease
    BY <1>1, <1>6
  <2>2. Session(p)'
    BY <1>1, <2>1 DEF FlightInv, LeaseInv, Session
  <2>3. Lapsed(p) => Lapsed(p)'
    <3>1. /\ lease[p].age \in 0 .. Void /\ Older(lease[p].age, MaxAge) \in Nat
          /\ lease[p].age <= Older(lease[p].age, MaxAge)
          /\ (lease[p].age = Void => Older(lease[p].age, MaxAge) = Void)
      <4>1. lease[p].age \in 0 .. Void
        BY <1>2, <2>1 DEF Lease
      <4>2. lease[p].age \in Nat /\ MaxAge \in Nat /\ Void = MaxAge + 1
        BY <4>1, MaxAgeTyped
      <4> QED
        BY <4>1, <4>2 DEF Older
    <3>2. Void' = Void
      BY DEF Void, MaxAge
    <3> QED
      BY <1>2, <2>1, <3>1, <3>2, MaxAgeTyped, FlightAssumption DEF Lapsed
  <2>4. ASSUME GoodLease(p)' PROVE Backed(p)'
    <3>1. Backed(p)
      BY <1>2, <2>1, <2>3, <2>4 DEF FlightInv, LeaseInv, GoodLease
    <3>2. lockAge' <= Older(lease[p].age, MaxAge)
      BY <1>2, <1>3, <2>1, <3>1, MaxAgeTyped DEF Backed, Older, Lease
    <3> QED
      BY <1>1, <1>2, <2>1, <3>1, <3>2 DEF Backed, NameOf
  <2> QED
    BY <2>2, <2>4
<1>7. OwnInv'
  BY <1>1, <1>2 DEF FlightInv, OwnInv, NameOf
<1> QED
  BY <1>4, <1>5, <1>6, <1>7 DEF FlightInv, LeaseInv

-----------------------------------------------------------------------------
(* Every step *)

LEMMA FlightInit == Init => FlightInv
<1> SUFFICES ASSUME Init PROVE FlightInv
  OBVIOUS
<1>1. /\ proc \in [Pids -> Process] /\ \A p \in Pids : ~proc[p].up /\ proc[p].birth = 0
      /\ \A p \in Pids : NameOf(p) = <<"host", p>>
      /\ lock \in {NoLock} \cup {OldRecord(p) : p \in Pids}
      /\ lease = [p \in Pids |-> NoLease]
  <2>1. \A p \in Pids : NoProcess(p, 0) \in Process
    BY FlightAssumption DEF NoProcess, Process, Names, HostNames
  <2>2. proc = [p \in Pids |-> NoProcess(p, 0)]
    BY DEF Init
  <2> QED
    BY <2>1, <2>2 DEF Init, NoProcess, NameOf
<1>2. \A p \in Pids : WellFormed(OldRecord(p))
  BY <1>1, FlightAssumption DEF OldRecord, WellFormed, Record, PidOrNone, NoPid, Names, HostNames
<1>3. Typed
  <2>1. lock \in {NoLock} \cup Record
    BY <1>1, <1>2 DEF WellFormed
  <2>2. lockAge \in 0 .. MaxAge /\ msgAge \in [Msgs -> 0 .. ClaimTTL]
    BY MaxAgeTyped, FlightAssumption DEF Init
  <2> QED
    BY <1>1, <2>1, <2>2 DEF Init, Typed, TypeOK
<1>4. NamedRight /\ LeaseInv /\ OwnInv
  BY <1>1 DEF NamedRight, LeaseInv, OwnInv, Session
<1>5. RecordInv
  BY <1>1, <1>2 DEF RecordInv
<1> QED
  BY <1>3, <1>4, <1>5 DEF FlightInv

FileStep ==
    \/ \E p \in Pids : \/ \E m \in Msgs : Claim(p, m) \/ Adopt(p, m) \/ Finish(p, m)
                       \/ \E inst \in Names : \/ RequeueScan(p, inst)
                                              \/ \E m \in Msgs : RequeueMove(p, inst, m)
    \/ \E m \in Msgs : Arrive(m)

LEMMA FileStepTyped ==
  ASSUME FlightInv, FileStep
  PROVE  Typed' /\ UNCHANGED <<proc, pane, lock, lockAge, lease, lockBy>>
<1> USE DEF FlightInv, Typed, TypeOK
<1>0. \A p \in Pids : NameOf(p) \in Names
  BY DEF Process, NameOf
<1>1. CASE \E p \in Pids, m \in Msgs : Claim(p, m) \/ Adopt(p, m) \/ Finish(p, m)
  <2>1. PICK p \in Pids, m \in Msgs : Claim(p, m) \/ Adopt(p, m) \/ Finish(p, m)
    BY <1>1
  <2>2. /\ UNCHANGED <<proc, pane, lock, lockAge, sweep, lease, lockBy>>
        /\ msgAge' \in [Msgs -> 0 .. ClaimTTL]
        /\ \/ loc' = loc
           \/ loc' = [loc EXCEPT ![m] = NameOf(p)]
           \/ loc' = [loc EXCEPT ![m] = IF @ = NameOf(p) THEN Archived ELSE @]
        /\ handling' \in {handling \cup {<<p, m>>}, handling \ {<<p, m>>}}
    <3>1. 0 \in 0 .. ClaimTTL
      BY FlightAssumption
    <3> QED
      BY <2>1, <3>1 DEF Claim, Adopt, Finish
  <2>3. loc' \in [Msgs -> {Absent, Pending, Archived} \cup Names]
    BY <1>0, <2>2
  <2>4. handling' \subseteq Pids \X Msgs
    BY <2>2
  <2>5. forfeit' \subseteq handling'
    BY <2>1 DEF Claim, Adopt, Finish, NoteShared, Sharers
  <2> QED
    BY <2>2, <2>3, <2>4, <2>5
<1>2. CASE \E p \in Pids, inst \in Names : RequeueScan(p, inst)
  BY <1>2 DEF RequeueScan, Claimed
<1>3. CASE \E p \in Pids, inst \in Names, m \in Msgs : RequeueMove(p, inst, m)
  <2>1. PICK p \in Pids, inst \in Names, m \in Msgs : RequeueMove(p, inst, m)
    BY <1>3
  <2>2. loc' \in [Msgs -> {Absent, Pending, Archived} \cup Names]
    BY <2>1 DEF RequeueMove
  <2>3. sweep' \in [Pids -> SUBSET (Names \X Msgs)]
    BY <2>1 DEF RequeueMove
  <2> QED
    BY <2>1, <2>2, <2>3 DEF RequeueMove
<1>4. CASE \E m \in Msgs : Arrive(m)
  BY <1>4 DEF Arrive
<1> QED
  BY <1>1, <1>2, <1>3, <1>4 DEF FileStep

LEMMA FlightStep ==
  ASSUME FlightInv, [Next]_vars
  PROVE  FlightInv'
<1>1. CASE Tick
  BY <1>1, TickSafe
<1>2. CASE TogglePane
  BY <1>2, TogglePaneSafe
<1>3. CASE \E p \in Pids : Start(p) \/ Die(p) \/ Release(p)
  BY <1>3, StartSafe, DieSafe, ReleaseSafe
<1>4. CASE \E p \in Pids, sig \in Signals : Acquire(p, sig) \/ Heartbeat(p, sig)
  BY <1>4, AcquireSafe, HeartbeatSafe
<1>5. CASE FileStep
  BY <1>5, FileStepTyped, FilesSafe
<1>6. CASE UNCHANGED vars
  <2>1. Typed'
    BY <1>6 DEF FlightInv, Typed, TypeOK, vars
  <2> QED
    BY <1>6, <2>1, FilesSafe DEF vars
<1> QED
  BY <1>1, <1>2, <1>3, <1>4, <1>5, <1>6 DEF Next, FileStep

\* acquire, heartbeat, release and the lives of the processes keep every good
\* lease backed by the lock record.
THEOREM FlightCorrect == Spec => []FlightInv
<1> QED
  BY FlightInit, FlightStep, PTL DEF Spec

\* The types of the lock, the claims and the processes.
THEOREM FlightTypeCorrect == Spec => []TypeOK
<1>1. FlightInv => TypeOK
  BY DEF FlightInv, Typed
<1> QED
  BY <1>1, FlightCorrect, PTL

\* Single flight (acquire, heartbeat, release of bus_singleflight.py): of two
\* live sessions that acquire told to be the worker one has let its lease run
\* out, or was told so by a record that is not about itself or was written again
\* under its name, whatever the names, limits and signals and however often a
\* pid or a name is used again.
THEOREM OneWorker == Spec => []Exclusive
<1>1. FlightInv => Exclusive
  BY OneGoodLease DEF Exclusive
<1> QED
  BY <1>1, FlightCorrect, PTL

-----------------------------------------------------------------------------
(* Claims *)

\* Whoever works on a message is alive; unless its claim could not stand the
\* message is in its directory, no sweep has it listed there, and no other live
\* session of its name works on it.
ClaimInv ==
    \A h \in handling :
        /\ Session(h[1])
        /\ h \notin forfeit => /\ loc[h[2]] = NameOf(h[1]) /\ ~Listed(h[1], h[2])
                              /\ Sharers(h[1], h[2]) = {}

\* The sweep of another session lists a message that a live session works on
\* only when the claim had run out: the lock of a good lease is live.
LEMMA ScanForfeits ==
  ASSUME FlightInv, ClaimInv, "cli" \notin Styles, NEW q \in Pids, NEW inst \in Names,
         RequeueScan(q, inst), NEW h \in handling, h \notin forfeit, NameOf(h[1]) = inst
  PROVE  h \in forfeit'
<1> DEFINE p == h[1]
           m == h[2]
<1>1. p \in Pids /\ m \in Msgs /\ Session(p) /\ loc[m] = inst
  BY DEF FlightInv, Typed, TypeOK, ClaimInv
<1>2. ~ClaimerAlive(inst)
  BY DEF RequeueScan, Sweepable
<1>3. inst[1] = "stable"
  <2>1. inst[1] # "host"
    BY <1>1, <1>2, NameShape DEF FlightInv, NamedRight, ClaimerAlive, IsAlive, Session, Up,
           NameOf, NoPid
  <2>2. inst[1] # "cli"
    BY <1>1 DEF FlightInv, NamedRight
  <2> QED
    BY <2>1, <2>2, NameShape
<1>4. ~(lock # NoLock /\ lock.inst = inst /\ HolderAlive(lock)) /\ ~Fresh(inst)
  BY <1>2, <1>3 DEF ClaimerAlive
<1>5. ~GoodLease(p)
  BY <1>1, <1>4, LiveHolder
<1>6. msgAge[m] >= ClaimTTL
  BY <1>1, <1>4, FlightAssumption DEF Fresh, Claimed, FlightInv, Typed, TypeOK
<1> QED
  BY <1>1, <1>3, <1>5, <1>6 DEF RequeueScan, RanOut

\* Steps that leave claims and processes alone.
LEMMA ClaimUntouched ==
  ASSUME ClaimInv, UNCHANGED <<proc, loc, sweep, handling, forfeit>>
  PROVE  ClaimInv'
  BY DEF ClaimInv, Session, NameOf, Listed, Sharers

LEMMA ClaimProcess ==
  ASSUME FlightInv, ClaimInv, NEW p \in Pids, Start(p) \/ Die(p)
  PROVE  ClaimInv'
<1>1. handling \subseteq Pids \X Msgs /\ proc \in [Pids -> Process] /\ sweep \in [Pids -> SUBSET (Names \X Msgs)]
  BY DEF FlightInv, Typed, TypeOK
<1>2. \A q \in Pids \ {p} : proc'[q] = proc[q]
  BY <1>1 DEF Start, Die
<1>3. loc' = loc /\ \A q \in Pids : sweep'[q] \subseteq sweep[q]
  BY <1>1 DEF Start, Die
<1>4. handling' \subseteq handling /\ \A h \in handling' : h[1] # p /\ h[1] \in Pids
  BY <1>1 DEF Start, Die, ClaimInv, Session, Up
<1>5. \A h \in handling' : h \notin forfeit' => h \notin forfeit
  BY <1>4 DEF Start, Die
<1> QED
  BY <1>2, <1>3, <1>4, <1>5 DEF ClaimInv, Session, NameOf, Listed, Sharers

LEMMA ClaimWork ==
  ASSUME FlightInv, ClaimInv, NEW p \in Pids, NEW m \in Msgs,
         Claim(p, m) \/ Adopt(p, m) \/ Finish(p, m)
  PROVE  ClaimInv'
<1>1. /\ Session(p) /\ UNCHANGED <<proc, sweep>>
      /\ loc \in [Msgs -> {Absent, Pending, Archived} \cup Names]
      /\ handling \subseteq Pids \X Msgs /\ NameOf(p) \in Names
      /\ handling' \subseteq handling \cup {<<p, m>>}
  BY DEF Claim, Adopt, Finish, FlightInv, Typed, TypeOK, NameOf, Process
<1>2. ASSUME NEW h \in handling, h # <<p, m>>, h \notin forfeit'
      PROVE  /\ loc'[h[2]] = NameOf(h[1])' /\ ~Listed(h[1], h[2])'
             /\ Sharers(h[1], h[2])' = {}
  <2>1. h \notin forfeit
    BY <1>2 DEF Claim, Adopt, Finish, NoteShared
  <2>2. /\ h[1] \in Pids /\ h[2] \in Msgs /\ h = <<h[1], h[2]>> /\ Session(h[1])
        /\ loc[h[2]] = NameOf(h[1]) /\ ~Listed(h[1], h[2]) /\ NameOf(h[1]) \in Names
        /\ Sharers(h[1], h[2]) = {}
    <3>1. h[1] \in Pids /\ h[2] \in Msgs /\ h = <<h[1], h[2]>>
      BY <1>1
    <3>2. NameOf(h[1]) \in Names
      BY <3>1 DEF FlightInv, Typed, TypeOK, NameOf, Process
    <3> QED
      BY <2>1, <3>1, <3>2 DEF ClaimInv
  <2>3. h[2] = m => NameOf(h[1]) # NameOf(p) /\ loc[m] # Pending
    <3>1. CASE Finish(p, m)
      BY <1>2, <2>2, <3>1, NameShape DEF Finish, Sharers
    <3>2. CASE Claim(p, m) \/ Adopt(p, m)
      BY <1>2, <2>2, <3>2, NameShape DEF Claim, Adopt, NoteShared, Sharers
    <3> QED
      BY <3>1, <3>2
  <2>4. loc'[h[2]] = loc[h[2]]
    BY <1>1, <2>2, <2>3 DEF Claim, Adopt, Finish
  <2>5. NameOf(h[1])' = NameOf(h[1]) /\ ~Listed(h[1], h[2])'
    BY <1>1, <2>2 DEF NameOf, Listed
  <2>6. Sharers(h[1], h[2])' = {}
    <3> SUFFICES ASSUME NEW g \in handling', g # <<h[1], h[2]>>, g[2] = h[2],
                        NameOf(g[1])' = NameOf(h[1])'
                 PROVE  FALSE
      BY DEF Sharers
    <3>1. NameOf(g[1]) = NameOf(h[1])
      BY <1>1 DEF NameOf
    <3>2. g = <<p, m>>
      BY <1>1, <2>2, <3>1 DEF Sharers
    <3> QED
      BY <2>3, <3>1, <3>2
  <2> QED
    BY <2>2, <2>4, <2>5, <2>6
<1>3. ASSUME <<p, m>> \in handling', <<p, m>> \notin forfeit'
      PROVE  loc'[m] = NameOf(p)' /\ ~Listed(p, m)' /\ Sharers(p, m)' = {}
  <2>1. (Claim(p, m) \/ Adopt(p, m)) /\ ~Listed(p, m) /\ Sharers(p, m) = {}
    BY <1>3 DEF Claim, Adopt, Finish, NoteShared
  <2>2. loc'[m] = NameOf(p)
    BY <1>1, <2>1 DEF Claim, Adopt
  <2>3. NameOf(p)' = NameOf(p) /\ ~Listed(p, m)'
    BY <1>1, <2>1 DEF NameOf, Listed
  <2>4. Sharers(p, m)' = {}
    BY <1>1, <2>1 DEF Sharers, NameOf
  <2> QED
    BY <2>2, <2>3, <2>4
<1>4. ASSUME NEW h \in handling' PROVE Session(h[1])'
  BY <1>1 DEF ClaimInv, Session
<1>5. ASSUME NEW h \in handling', h \notin forfeit'
      PROVE  /\ loc'[h[2]] = NameOf(h[1])' /\ ~Listed(h[1], h[2])'
             /\ Sharers(h[1], h[2])' = {}
  <2>1. CASE h = <<p, m>>
    BY <1>3, <1>5, <2>1
  <2>2. CASE h # <<p, m>>
    BY <1>1, <1>2, <1>5, <2>2
  <2> QED
    BY <2>1, <2>2
<1> QED
  BY <1>4, <1>5 DEF ClaimInv

LEMMA ClaimSweep ==
  ASSUME FlightInv, ClaimInv, "cli" \notin Styles, NEW q \in Pids, NEW inst \in Names,
         RequeueScan(q, inst) \/ \E m \in Msgs : RequeueMove(q, inst, m)
  PROVE  ClaimInv'
<1>1. /\ UNCHANGED <<proc, handling>> /\ forfeit \subseteq forfeit'
      /\ sweep \in [Pids -> SUBSET (Names \X Msgs)] /\ handling \subseteq Pids \X Msgs
      /\ loc \in [Msgs -> {Absent, Pending, Archived} \cup Names]
  BY DEF RequeueScan, RequeueMove, FlightInv, Typed, TypeOK
<1>2. ASSUME NEW h \in handling, h \notin forfeit'
      PROVE  loc'[h[2]] = NameOf(h[1]) /\ ~Listed(h[1], h[2])'
  <2>1. h \notin forfeit /\ loc[h[2]] = NameOf(h[1]) /\ ~Listed(h[1], h[2]) /\ h[2] \in Msgs
    BY <1>1, <1>2 DEF ClaimInv
  <2>2. CASE RequeueScan(q, inst)
    <3>1. NameOf(h[1]) # inst
      BY <1>2, <2>1, <2>2, ScanForfeits
    <3>2. \A r \in Pids : sweep'[r] = IF r = q THEN {<<inst, m>> : m \in Claimed(inst)} ELSE sweep[r]
      BY <1>1, <2>2 DEF RequeueScan
    <3>3. loc' = loc
      BY <2>2 DEF RequeueScan
    <3>4. \A r \in Pids : <<NameOf(h[1]), h[2]>> \notin sweep'[r]
      <4>1. <<NameOf(h[1]), h[2]>> \notin {<<inst, m>> : m \in Claimed(inst)}
        BY <3>1
      <4> QED
        BY <2>1, <3>2, <4>1 DEF Listed
    <3>5. NameOf(h[1])' = NameOf(h[1])
      BY <1>1 DEF NameOf
    <3> QED
      BY <2>1, <3>3, <3>4, <3>5 DEF Listed
  <2>3. CASE \E m \in Msgs : RequeueMove(q, inst, m)
    <3>1. PICK m \in Msgs : RequeueMove(q, inst, m)
      BY <2>3
    <3>2. \A r \in Pids : sweep'[r] \subseteq sweep[r]
      BY <1>1, <3>1 DEF RequeueMove
    <3>3. loc'[h[2]] = loc[h[2]]
      BY <1>1, <2>1, <3>1 DEF RequeueMove, Listed
    <3> QED
      BY <1>1, <2>1, <3>2, <3>3 DEF Listed, NameOf
  <2> QED
    BY <2>2, <2>3
<1>3. \A h \in handling : h \notin forfeit' => Sharers(h[1], h[2])' = {}
  BY <1>1 DEF ClaimInv, Sharers, NameOf
<1> QED
  BY <1>1, <1>2, <1>3 DEF ClaimInv, Session, NameOf

LEMMA ClaimStep ==
  ASSUME FlightInv, ClaimInv, "cli" \notin Styles, [Next]_vars
  PROVE  ClaimInv'
<1>1. CASE \/ Tick \/ TogglePane \/ UNCHANGED vars
           \/ \E p \in Pids : \/ Release(p)
                              \/ \E sig \in Signals : Acquire(p, sig) \/ Heartbeat(p, sig)
  <2>1. UNCHANGED <<proc, loc, sweep, handling, forfeit>>
    BY <1>1 DEF Tick, TogglePane, vars, Release, Acquire, Heartbeat
  <2> QED
    BY <2>1, ClaimUntouched
<1>2. CASE \E p \in Pids : Start(p) \/ Die(p)
  BY <1>2, ClaimProcess
<1>3. CASE \E p \in Pids, m \in Msgs : Claim(p, m) \/ Adopt(p, m) \/ Finish(p, m)
  BY <1>3, ClaimWork
<1>4. CASE \E p \in Pids, inst \in Names :
             RequeueScan(p, inst) \/ \E m \in Msgs : RequeueMove(p, inst, m)
  BY <1>4, ClaimSweep
<1>5. CASE \E m \in Msgs : Arrive(m)
  <2>1. PICK m \in Msgs : Arrive(m)
    BY <1>5
  <2>2. \A h \in handling : h \notin forfeit => h[2] # m /\ h[2] \in Msgs
    <3>1. \A p \in Pids : NameOf(p) # Absent
      BY NameShape DEF FlightInv, Typed, TypeOK, NameOf, Process
    <3> QED
      BY <2>1, <3>1 DEF Arrive, ClaimInv, FlightInv, Typed, TypeOK
  <2>3. /\ \A n \in Msgs \ {m} : loc'[n] = loc[n]
        /\ UNCHANGED <<proc, sweep, handling, forfeit>>
    BY <2>1 DEF Arrive, FlightInv, Typed, TypeOK
  <2> QED
    BY <2>2, <2>3 DEF ClaimInv, Session, NameOf, Listed, Sharers
<1> QED
  BY <1>1, <1>2, <1>3, <1>4, <1>5 DEF Next

\* A message a live session works on stays in its directory, whoever sweeps
\* (claim_message, claimed_paths, requeue_dead of bus_singleflight.py), unless its
\* claim is forfeit in one of the ways ClaimHolds names.  Sessions must not be
\* named after the command that ran acquire for them: such a name ends in a pid
\* that is gone.
THEOREM ClaimsStand ==
  ASSUME "cli" \notin Styles
  PROVE  Spec => []ClaimHolds
<1>1. Init => ClaimInv
  BY DEF Init, ClaimInv
<1>2. FlightInv /\ ClaimInv /\ [Next]_vars => ClaimInv'
  BY ClaimStep
<1>3. ClaimInv => ClaimHolds
  BY DEF ClaimInv, ClaimHolds
<1> QED
  BY <1>1, <1>2, <1>3, FlightCorrect, PTL DEF Spec
=============================================================================
