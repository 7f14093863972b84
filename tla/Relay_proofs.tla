----------------------------- MODULE Relay_proofs -----------------------------
(***************************************************************************)
(* The relay's spool and its request authentication: for any envelopes,    *)
(* agents, requests, handler threads and limits, with restarts at any      *)
(* time, with or without the nonce file.                                   *)
(***************************************************************************)
EXTENDS Relay, FiniteSetTheorems, TLAPS

Places == {"new", "spool", "picked", "unnotarized"}

SpoolTyped ==
    /\ where \in [Envs -> Places]
    /\ thread \in [Threads -> Thread]

\* Only a pickup has a response, and the envelope it has read is part of it.
OutInv ==
    \A t \in Threads : /\ thread[t].at # "pickup" => thread[t].out = {}
                       /\ thread[t].at = "pickup" => thread[t].cur \subseteq thread[t].out

\* The envelope a delivery has counted is not written yet, the one it has
\* written is; the rate lock lets one delivery at a time be between the two.
DeliverInv ==
    /\ \A t \in Threads : \A e \in thread[t].cur :
          /\ thread[t].at = "counted" => where[e] = "new"
          /\ thread[t].at = "written" => where[e] # "new"
    /\ \A t, u \in Threads :
          (thread[t].at = "counted" /\ thread[u].at = "counted") => t = u

DeniedInv == \A e \in denied \cap Envs : where[e] \notin {"new", "spool"}

SpoolInv ==
    SpoolTyped /\ OutInv /\ DeliverInv /\ DeniedInv /\ PickedAccounted /\ denied \subseteq Envs

-----------------------------------------------------------------------------

LEMMA SpoolInit == Init => SpoolInv
  BY DEF Init, SpoolInv, SpoolTyped, Places, OutInv, DeliverInv, DeniedInv, PickedAccounted,
         Idle, Thread, NoEnv

\* Steps that leave the files and the threads alone.
LEMMA SpoolUntouched ==
  ASSUME SpoolInv, UNCHANGED <<where, thread, denied, got, lost>>
  PROVE  SpoolInv'
  BY DEF SpoolInv, SpoolTyped, OutInv, DeliverInv, DeniedInv, PickedAccounted

\* A restart empties the threads; what they had in their responses is lost.
LEMMA SpoolRestart ==
  ASSUME SpoolInv, NEW loss, Restart(loss)
  PROVE  SpoolInv'
<1>1. thread' = [t \in Threads |-> Idle] /\ UNCHANGED <<where, denied, got>>
  BY DEF Restart
<1>2. SpoolTyped' /\ OutInv' /\ DeliverInv' /\ DeniedInv' /\ (denied \subseteq Envs)'
  BY <1>1 DEF SpoolInv, SpoolTyped, OutInv, DeliverInv, DeniedInv, Idle, Thread, NoEnv
<1>3. PickedAccounted'
  BY <1>1 DEF SpoolInv, PickedAccounted, Restart
<1> QED
  BY <1>2, <1>3 DEF SpoolInv

LEMMA SpoolPickup ==
  ASSUME SpoolInv, NEW t \in Threads,
         \/ \E r \in Reqs : PickupStart(t, r)
         \/ \E e \in Envs : PickupRead(t, e)
         \/ PickupMove(t) \/ PickupAnswer(t)
  PROVE  SpoolInv'
<1> USE DEF SpoolInv
<1>1. CASE \E r \in Reqs : PickupStart(t, r)
  <2>1. PICK r \in Reqs : PickupStart(t, r)
    BY <1>1
  <2>2. CASE UNCHANGED thread
    BY <2>1, <2>2, SpoolUntouched DEF PickupStart, spoolVars
  <2>3. CASE thread' = [thread EXCEPT ![t] = [Idle EXCEPT !.at = "pickup", !.todo = InSpool(By[r])]]
    <3>0. thread[t] = Idle /\ UNCHANGED spoolVars
      BY <2>1 DEF PickupStart
    <3>1. UNCHANGED <<where, denied, got, lost>> /\ thread[t].out = {}
      BY <3>0 DEF spoolVars, Idle
    <3>2. thread'[t] = [at |-> "pickup", todo |-> InSpool(By[r]), cur |-> {}, out |-> {}]
      BY <2>3 DEF Idle, NoEnv, SpoolTyped
    <3>3. SpoolTyped'
      <4>1. thread'[t] \in Thread
        BY <3>2 DEF Thread, InSpool
      <4>2. thread' = [thread EXCEPT ![t] = thread'[t]]
        BY <2>3 DEF SpoolTyped
      <4> QED
        BY <3>1, <4>1, <4>2 DEF SpoolTyped
    <3>4. OutInv' /\ DeliverInv' /\ DeniedInv'
      BY <2>3, <3>1, <3>2 DEF SpoolTyped, OutInv, DeliverInv, DeniedInv
    <3>5. \A u \in Threads : thread'[u].out = thread[u].out
      BY <2>3, <3>1, <3>2 DEF SpoolTyped
    <3>6. PickedAccounted'
      BY <3>1, <3>5 DEF PickedAccounted
    <3> QED
      BY <3>1, <3>3, <3>4, <3>6
  <2> QED
    BY <2>1, <2>2, <2>3 DEF PickupStart
<1>2. CASE \E e \in Envs : PickupRead(t, e)
  <2>1. PICK e \in Envs : PickupRead(t, e)
    BY <1>2
  <2>2. UNCHANGED <<where, denied, got, lost>> /\ thread[t].at = "pickup"
    BY <2>1 DEF PickupRead, spoolVars
  <2>3. /\ thread' \in [Threads -> Thread] /\ thread'[t].at = "pickup"
        /\ thread[t].out \subseteq thread'[t].out
        /\ thread'[t].cur \subseteq thread'[t].out
        /\ \A u \in Threads \ {t} : thread'[u] = thread[u]
    <3> DEFINE read == IF where[e] = "spool" THEN {e} ELSE {}
               next == [at |-> "pickup", todo |-> thread[t].todo \ {e}, cur |-> read,
                        out |-> thread[t].out \cup read]
    <3>1. thread[t] \in Thread
      BY DEF SpoolTyped
    <3>2. thread' = [thread EXCEPT
              ![t].todo = @ \ {e},
              ![t].cur  = IF where[e] = "spool" THEN {e} ELSE {},
              ![t].out  = IF where[e] = "spool" THEN @ \cup {e} ELSE @]
      BY <2>1 DEF PickupRead, NoEnv
    <3>3. thread'[t] = next
      <4>1. CASE where[e] = "spool"
        BY <4>1, <2>2, <3>1, <3>2 DEF SpoolTyped, Thread
      <4>2. CASE where[e] # "spool"
        BY <4>2, <2>2, <3>1, <3>2 DEF SpoolTyped, Thread
      <4> QED
        BY <4>1, <4>2
    <3>4. next \in Thread
      BY <3>1 DEF Thread
    <3>5. DOMAIN thread' = Threads /\ \A u \in Threads \ {t} : thread'[u] = thread[u]
      BY <3>2 DEF SpoolTyped
    <3>6. thread' = [u \in Threads |-> thread'[u]]
      BY <3>2, <3>5 DEF SpoolTyped
    <3>7. \A u \in Threads : thread'[u] \in Thread
      BY <3>3, <3>4, <3>5 DEF SpoolTyped
    <3>8. thread' \in [Threads -> Thread]
      BY <3>6, <3>7
    <3>9. /\ thread'[t].at = "pickup" /\ thread[t].out \subseteq thread'[t].out
          /\ thread'[t].cur \subseteq thread'[t].out
      BY <3>3
    <3> QED
      BY <3>5, <3>8, <3>9
  <2>4. SpoolTyped' /\ OutInv' /\ DeliverInv' /\ DeniedInv'
    BY <2>2, <2>3 DEF SpoolTyped, OutInv, DeliverInv, DeniedInv
  <2>5. \A u \in Threads : thread[u].out \subseteq thread'[u].out
    BY <2>3
  <2>6. PickedAccounted'
    BY <2>2, <2>5 DEF PickedAccounted
  <2> QED
    BY <2>2, <2>4, <2>6
<1>3. CASE PickupMove(t)
  <2>1. /\ thread[t].at = "pickup" /\ UNCHANGED <<denied, got, lost>>
        /\ where' = [e \in Envs |-> IF e \in thread[t].cur /\ where[e] = "spool"
                                    THEN "picked" ELSE where[e]]
        /\ thread' = [thread EXCEPT ![t].cur = {}]
    BY <1>3 DEF PickupMove, NoEnv
  <2>2. /\ thread' \in [Threads -> Thread] /\ thread'[t].at = "pickup"
        /\ thread'[t].cur = {} /\ thread'[t].out = thread[t].out
        /\ \A u \in Threads \ {t} : thread'[u] = thread[u]
    BY <2>1 DEF SpoolTyped, Thread
  <2>3. SpoolTyped'
    BY <2>1, <2>2 DEF SpoolTyped, Places
  <2>4. \A e \in Envs : (where'[e] = "new") <=> (where[e] = "new")
    BY <2>1
  <2>5. OutInv' /\ DeniedInv'
    BY <2>1, <2>2, <2>4 DEF OutInv, DeniedInv
  <2>6. DeliverInv'
    <3>1. ASSUME NEW u \in Threads, NEW e \in thread'[u].cur
          PROVE  /\ thread'[u].at = "counted" => where'[e] = "new"
                 /\ thread'[u].at = "written" => where'[e] # "new"
      <4>1. u # t /\ thread'[u] = thread[u] /\ e \in thread[u].cur
        BY <2>2, <3>1
      <4>2. e \in Envs
        BY <4>1 DEF SpoolTyped, Thread
      <4> QED
        BY <2>4, <4>1, <4>2 DEF DeliverInv
    <3>2. \A u, v \in Threads :
             (thread'[u].at = "counted" /\ thread'[v].at = "counted") => u = v
      BY <2>2 DEF DeliverInv
    <3> QED
      BY <3>1, <3>2 DEF DeliverInv
  <2>7. PickedAccounted'
    BY <2>1, <2>2 DEF PickedAccounted, OutInv
  <2> QED
    BY <2>1, <2>3, <2>5, <2>6, <2>7
<1>4. CASE PickupAnswer(t)
  <2>1. /\ thread' = [thread EXCEPT ![t] = Idle] /\ UNCHANGED <<where, denied>>
        /\ got' \cup lost' = got \cup lost \cup thread[t].out
    BY <1>4 DEF PickupAnswer
  <2>2. /\ thread' \in [Threads -> Thread]
        /\ thread'[t].at = "idle" /\ thread'[t].cur = {} /\ thread'[t].out = {}
        /\ \A u \in Threads \ {t} : thread'[u] = thread[u]
    BY <2>1 DEF SpoolTyped, Thread, Idle, NoEnv
  <2>3. SpoolTyped' /\ OutInv' /\ DeliverInv' /\ DeniedInv'
    BY <2>1, <2>2 DEF SpoolTyped, OutInv, DeliverInv, DeniedInv
  <2>4. PickedAccounted'
    BY <2>1, <2>2 DEF PickedAccounted
  <2> QED
    BY <2>1, <2>3, <2>4
<1> QED
  BY <1>1, <1>2, <1>3, <1>4

LEMMA SpoolDeliver ==
  ASSUME SpoolInv, NEW t \in Threads, NEW e \in Envs,
         DeliverCount(t, e) \/ DeliverWrite(t, e) \/ DeliverNote(t, e)
  PROVE  SpoolInv'
<1> USE DEF SpoolInv
<1>1. CASE DeliverCount(t, e)
  <2>1. /\ thread[t] = Idle /\ where[e] = "new" /\ RateLockFree
        /\ thread' = [thread EXCEPT ![t] = [Idle EXCEPT !.at = "counted", !.cur = {e}]]
        /\ UNCHANGED <<where, denied, got, lost>>
    BY <1>1 DEF DeliverCount, Handle, spoolVars
  <2>2. /\ thread' \in [Threads -> Thread]
        /\ thread'[t].at = "counted" /\ thread'[t].cur = {e} /\ thread'[t].out = {}
        /\ \A u \in Threads \ {t} : thread'[u] = thread[u]
    BY <2>1 DEF SpoolTyped, Thread, Idle
  <2>3. SpoolTyped' /\ OutInv' /\ DeniedInv'
    BY <2>1, <2>2 DEF SpoolTyped, OutInv, DeniedInv
  <2>4. DeliverInv'
    BY <2>1, <2>2 DEF DeliverInv, RateLockFree
  <2>5. PickedAccounted'
    BY <2>1, <2>2 DEF PickedAccounted, Idle
  <2> QED
    BY <2>1, <2>3, <2>4, <2>5
<1>2. CASE DeliverWrite(t, e)
  <2>1. /\ thread[t].at = "counted" /\ thread[t].cur = {e} /\ thread[t].out = {}
        /\ where[e] = "new" /\ UNCHANGED <<denied, got, lost>>
    BY <1>2 DEF DeliverWrite, DeliverInv, OutInv
  <2>2. CASE /\ where' = [where EXCEPT ![e] = "spool"]
             /\ thread' = [thread EXCEPT ![t] = [Idle EXCEPT !.at = "written", !.cur = {e}]]
    <3>1. /\ thread' \in [Threads -> Thread]
          /\ thread'[t].at = "written" /\ thread'[t].cur = {e} /\ thread'[t].out = {}
          /\ \A u \in Threads \ {t} : thread'[u] = thread[u]
      BY <2>2 DEF SpoolTyped, Thread, Idle
    <3>2. where'[e] = "spool" /\ \A f \in Envs \ {e} : where'[f] = where[f]
      BY <2>2 DEF SpoolTyped
    <3>3. SpoolTyped' /\ OutInv'
      BY <2>2, <3>1 DEF SpoolTyped, OutInv, Places
    <3>4. DeniedInv'
      BY <2>1, <3>2 DEF DeniedInv
    <3>5. DeliverInv'
      BY <2>1, <3>1, <3>2 DEF DeliverInv, SpoolTyped, Thread
    <3>6. PickedAccounted'
      BY <2>1, <3>1, <3>2 DEF PickedAccounted
    <3> QED
      BY <2>1, <3>3, <3>4, <3>5, <3>6
  <2>3. CASE UNCHANGED where /\ thread' = [thread EXCEPT ![t] = Idle]
    <3>1. /\ thread' \in [Threads -> Thread]
          /\ thread'[t].at = "idle" /\ thread'[t].cur = {} /\ thread'[t].out = {}
          /\ \A u \in Threads \ {t} : thread'[u] = thread[u]
      BY <2>3 DEF SpoolTyped, Thread, Idle, NoEnv
    <3>2. SpoolTyped' /\ OutInv' /\ DeliverInv' /\ DeniedInv'
      BY <2>1, <2>3, <3>1 DEF SpoolTyped, OutInv, DeliverInv, DeniedInv
    <3>3. PickedAccounted'
      BY <2>1, <2>3, <3>1 DEF PickedAccounted
    <3> QED
      BY <2>1, <3>2, <3>3
  <2> QED
    BY <1>2, <2>2, <2>3 DEF DeliverWrite, Handle
<1>3. CASE DeliverNote(t, e)
  <2>1. /\ thread[t].at = "written" /\ thread[t].cur = {e} /\ thread[t].out = {}
        /\ where[e] # "new" /\ UNCHANGED <<got, lost>>
        /\ thread' = [thread EXCEPT ![t] = Idle]
    BY <1>3 DEF DeliverNote, DeliverInv, OutInv
  <2>2. /\ thread' \in [Threads -> Thread]
        /\ thread'[t].at = "idle" /\ thread'[t].cur = {} /\ thread'[t].out = {}
        /\ \A u \in Threads \ {t} : thread'[u] = thread[u]
    BY <2>1 DEF SpoolTyped, Thread, Idle, NoEnv
  <2>3. /\ where' \in [Envs -> Places]
        /\ \A f \in Envs : /\ where'[f] # where[f] => where[f] = "spool" /\ where'[f] = "unnotarized"
                           /\ f \in denied' => f \in denied \/ (f = e /\ where'[f] # "spool")
        /\ denied' \subseteq Envs
    BY <1>3 DEF DeliverNote, Unwritten, SpoolTyped, Places
  <2>4. SpoolTyped' /\ OutInv'
    BY <2>2, <2>3 DEF SpoolTyped, OutInv
  <2>5. DeniedInv'
    BY <2>1, <2>3 DEF DeniedInv
  <2>6. DeliverInv'
    BY <2>2, <2>3 DEF DeliverInv, SpoolTyped, Thread
  <2>7. PickedAccounted'
    BY <2>1, <2>2, <2>3 DEF PickedAccounted
  <2> QED
    BY <2>3, <2>4, <2>5, <2>6, <2>7
<1> QED
  BY <1>1, <1>2, <1>3

LEMMA SpoolStep == SpoolInv /\ [Next]_vars => SpoolInv'
<1> SUFFICES ASSUME SpoolInv, [Next]_vars
             PROVE  SpoolInv'
  OBVIOUS
<1>1. CASE Tick \/ UNCHANGED vars
  BY <1>1, SpoolUntouched DEF Tick, vars
<1>2. CASE \E loss \in {FALSE, NonceLoss} : Restart(loss)
  BY <1>2, SpoolRestart
<1>3. CASE \E r \in Reqs, skew \in Skews : Sign(r, skew)
  BY <1>3, SpoolUntouched DEF Sign, spoolVars
<1>4. ASSUME NEW t \in Threads,
             \/ PickupMove(t) \/ PickupAnswer(t)
             \/ \E r \in Reqs : PickupStart(t, r)
             \/ \E e \in Envs : PickupRead(t, e)
      PROVE  SpoolInv'
  BY <1>4, SpoolPickup
<1>5. ASSUME NEW t \in Threads, NEW e \in Envs,
             DeliverCount(t, e) \/ DeliverWrite(t, e) \/ DeliverNote(t, e)
      PROVE  SpoolInv'
  BY <1>5, SpoolDeliver
<1> QED
  BY <1>1, <1>2, <1>3, <1>4, <1>5 DEF Next

\* What the two counts of a delivery are worth: none but the delivery between
\* them adds to the spool, so the first still holds when the second is taken.
Disk == Spool \cup Archive

DiskInv ==
    /\ \A t \in Threads : thread[t].at = "counted" => Cardinality(Spool) < MaxSpool
    /\ DiskBounded

LEMMA DiskFinite ==
  /\ IsFiniteSet(Spool) /\ IsFiniteSet(Archive) /\ IsFiniteSet(Disk)
  /\ Cardinality(Spool) \in Nat /\ Cardinality(Archive) \in Nat /\ Cardinality(Disk) \in Nat
<1>1. IsFiniteSet(Envs) /\ Spool \subseteq Envs /\ Archive \subseteq Envs /\ Disk \subseteq Envs
  BY RelayAssumption DEF RelayAssumption, Spool, Archive, Disk
<1>2. IsFiniteSet(Spool) /\ IsFiniteSet(Archive) /\ IsFiniteSet(Disk)
  BY <1>1, FS_Subset
<1> QED
  BY <1>2, FS_CardinalityType

\* Steps that add no file and begin no count.
LEMMA DiskKept ==
  ASSUME DiskInv, Spool' \subseteq Spool, Disk' \subseteq Disk,
         \A t \in Threads : thread'[t].at = "counted" => thread[t].at = "counted"
  PROVE  DiskInv'
<1>1. /\ Cardinality(Spool') \in Nat /\ Cardinality(Spool') <= Cardinality(Spool)
      /\ Cardinality(Disk') \in Nat /\ Cardinality(Disk') <= Cardinality(Disk)
  BY DiskFinite, FS_Subset, FS_CardinalityType
<1> QED
  BY <1>1, DiskFinite, RelayAssumption DEF DiskInv, DiskBounded, Disk, RelayAssumption

LEMMA DiskWritten ==
  ASSUME SpoolInv, DiskInv, NEW t \in Threads, NEW e \in Envs, DeliverWrite(t, e)
  PROVE  DiskInv'
<1>1. thread[t].at = "counted" /\ SpoolTyped /\ DeliverInv
  BY DEF DeliverWrite, SpoolInv
<1>2. CASE UNCHANGED where /\ thread' = [thread EXCEPT ![t] = Idle]
  <2>1. Spool' = Spool /\ Disk' = Disk
    BY <1>2 DEF Spool, Archive, Disk
  <2>2. \A u \in Threads : thread'[u].at = "counted" => thread[u].at = "counted"
    BY <1>1, <1>2 DEF SpoolTyped
  <2> QED
    BY <2>1, <2>2, DiskKept
<1>3. CASE /\ ArchiveRoom
           /\ where' = [where EXCEPT ![e] = "spool"]
           /\ thread' = [thread EXCEPT ![t] = [Idle EXCEPT !.at = "written", !.cur = {e}]]
  <2>1. \A u \in Threads : thread'[u].at # "counted"
    BY <1>1, <1>3 DEF DeliverInv, SpoolTyped, Idle
  <2>2. Disk' \subseteq Disk \cup {e}
    BY <1>1, <1>3 DEF SpoolTyped, Disk, Spool, Archive
  <2>3. Cardinality(Disk) <= Cardinality(Spool) + Cardinality(Archive)
    <3>1. Cardinality(Disk) = Cardinality(Spool) + Cardinality(Archive) - Cardinality(Spool \cap Archive)
      BY DiskFinite, FS_Union DEF Disk
    <3>2. IsFiniteSet(Spool \cap Archive)
      BY DiskFinite, FS_Subset
    <3>3. Cardinality(Spool \cap Archive) \in Nat
      BY <3>2, FS_CardinalityType
    <3> QED
      BY <3>1, <3>3, DiskFinite
  <2>4. /\ IsFiniteSet(Disk \cup {e})
        /\ Cardinality(Disk \cup {e}) \in Nat /\ Cardinality(Disk \cup {e}) <= Cardinality(Disk) + 1
    <3>1. /\ IsFiniteSet(Disk \cup {e})
          /\ Cardinality(Disk \cup {e}) \in {Cardinality(Disk), Cardinality(Disk) + 1}
      BY DiskFinite, FS_AddElement
    <3> QED
      BY <3>1, DiskFinite
  <2>5. Cardinality(Disk') \in Nat /\ Cardinality(Disk') <= Cardinality(Disk \cup {e})
    BY <2>2, <2>4, FS_Subset, FS_CardinalityType
  <2>6. Cardinality(Spool) < MaxSpool /\ Cardinality(Archive) < MaxArchive
    BY <1>1, <1>3 DEF DiskInv, ArchiveRoom
  <2>7. Cardinality(Disk') < MaxSpool + MaxArchive
    BY <2>3, <2>4, <2>5, <2>6, DiskFinite, RelayAssumption DEF RelayAssumption
  <2> QED
    BY <2>1, <2>7 DEF DiskInv, DiskBounded, Disk
<1> QED
  BY <1>2, <1>3 DEF DeliverWrite, Handle, Counts

LEMMA DiskStep == SpoolInv /\ DiskInv /\ [Next]_vars => DiskInv'
<1> SUFFICES ASSUME SpoolInv, DiskInv, [Next]_vars
             PROVE  DiskInv'
  OBVIOUS
<1>0. SpoolTyped
  BY DEF SpoolInv
<1>1. CASE UNCHANGED where /\ \A t \in Threads : thread'[t].at = "counted" => thread[t].at = "counted"
  <2>1. Spool' = Spool /\ Disk' = Disk
    BY <1>1 DEF Spool, Archive, Disk
  <2> QED
    BY <1>1, <2>1, DiskKept
<1>2. CASE Tick \/ UNCHANGED vars \/ (\E r \in Reqs, skew \in Skews : Sign(r, skew))
  BY <1>1, <1>2 DEF Tick, vars, Sign, spoolVars
<1>3. CASE \E loss \in {FALSE, NonceLoss} : Restart(loss)
  BY <1>1, <1>3 DEF Restart, Idle
<1>4. ASSUME NEW t \in Threads, \E r \in Reqs : PickupStart(t, r)
      PROVE  DiskInv'
  <2>1. UNCHANGED where
    BY <1>4 DEF PickupStart, spoolVars
  <2>2. thread' = thread \/ \E r \in Reqs :
            thread' = [thread EXCEPT ![t] = [Idle EXCEPT !.at = "pickup", !.todo = InSpool(By[r])]]
    BY <1>4 DEF PickupStart
  <2>3. \A u \in Threads : thread'[u].at = "counted" => thread[u].at = "counted"
    BY <1>0, <2>2 DEF SpoolTyped, Idle
  <2> QED
    BY <1>1, <2>1, <2>3
<1>5. ASSUME NEW t \in Threads, NEW e \in Envs, PickupRead(t, e)
      PROVE  DiskInv'
  <2>1. UNCHANGED where
    BY <1>5 DEF PickupRead, spoolVars
  <2>2. \A u \in Threads : thread'[u].at = thread[u].at
    BY <1>0, <1>5 DEF PickupRead, SpoolTyped, Thread
  <2> QED
    BY <1>1, <2>1, <2>2
<1>6. ASSUME NEW t \in Threads, PickupMove(t)
      PROVE  DiskInv'
  <2>1. Spool' \subseteq Spool /\ Disk' = Disk
    BY <1>0, <1>6 DEF PickupMove, Spool, Archive, Disk, SpoolTyped
  <2>2. \A u \in Threads : thread'[u].at = thread[u].at
    BY <1>0, <1>6 DEF PickupMove, SpoolTyped, Thread
  <2> QED
    BY <2>1, <2>2, DiskKept
<1>7. ASSUME NEW t \in Threads, PickupAnswer(t)
      PROVE  DiskInv'
  <2>1. \A u \in Threads : thread'[u].at = "counted" => thread[u].at = "counted"
    BY <1>0, <1>7 DEF PickupAnswer, SpoolTyped, Idle
  <2> QED
    BY <1>1, <1>7, <2>1 DEF PickupAnswer
<1>8. ASSUME NEW t \in Threads, NEW e \in Envs, DeliverCount(t, e)
      PROVE  DiskInv'
  <2>1. UNCHANGED where /\ Cardinality(Spool) < MaxSpool
    BY <1>8 DEF DeliverCount, spoolVars, Counts, SpoolRoom
  <2>2. Spool' = Spool /\ Archive' = Archive
    BY <2>1 DEF Spool, Archive
  <2> QED
    BY <2>1, <2>2 DEF DiskInv, DiskBounded
<1>9. ASSUME NEW t \in Threads, NEW e \in Envs, DeliverNote(t, e)
      PROVE  DiskInv'
  <2>1. where' = where \/ where' = [where EXCEPT ![e] = IF @ = "spool" THEN "unnotarized" ELSE @]
    BY <1>9 DEF DeliverNote, Unwritten
  <2>2. Spool' \subseteq Spool /\ Disk' = Disk
    BY <1>0, <2>1 DEF Spool, Archive, Disk, SpoolTyped
  <2>3. \A u \in Threads : thread'[u].at = "counted" => thread[u].at = "counted"
    BY <1>0, <1>9 DEF DeliverNote, SpoolTyped, Idle
  <2> QED
    BY <2>2, <2>3, DiskKept
<1> QED
  BY <1>2, <1>3, <1>4, <1>5, <1>6, <1>7, <1>8, <1>9, DiskWritten DEF Next

\* deliver: the limits bound the disk, though a delivery counts the spool and the
\* archive one after the other while pickups move files between them.
THEOREM DiskStaysBounded == Spec => []DiskBounded
<1>1. Init => DiskInv
  <2> SUFFICES ASSUME Init PROVE DiskInv
    OBVIOUS
  <2>1. Spool = {} /\ Archive = {}
    BY DEF Init, Spool, Archive
  <2>2. Cardinality(Spool \cup Archive) = 0
    BY <2>1, FS_EmptySet
  <2> QED
    BY <2>2, RelayAssumption DEF Init, Idle, DiskInv, DiskBounded, RelayAssumption
<1>2. DiskInv => DiskBounded
  BY DEF DiskInv
<1> QED
  BY SpoolInit, SpoolStep, DiskStep, <1>1, <1>2, PTL DEF Spec

\* pickup, deliver: every envelope that left the spool for a response is in one
\* that is being built, was received or was lost with its connection or its
\* server, whatever other pickups and refused deliveries do meanwhile.
THEOREM PickupsAccounted == Spec => []PickedAccounted
<1>1. SpoolInv => PickedAccounted
  BY DEF SpoolInv
<1> QED
  BY SpoolInit, SpoolStep, <1>1, PTL DEF Spec

\* deliver: an envelope its sender was told was not accepted, for want of a log,
\* never waits in the spool again.
THEOREM DeniedNeverWaits == Spec => []DeniedStaysOut
<1>1. SpoolInv => DeniedStaysOut
  BY DEF SpoolInv, DeniedInv, DeniedStaysOut
<1> QED
  BY SpoolInit, SpoolStep, <1>1, PTL DEF Spec

-----------------------------------------------------------------------------

AuthTyped ==
    /\ now \in Nat
    /\ signed \in [Reqs -> Nat \cup {Never}]
    /\ seen \in [Reqs -> Nat \cup {Never}]
    /\ uses \in [Reqs -> Nat]

\* What bars an accepted request whose nonce was not lost with the file: the
\* stored nonce, or, when that has been dropped, the end of its time band.
Barred(r) == \/ seen[r] # Never /\ signed[r] <= seen[r] + Window
             \/ now > signed[r] + Window

AuthInv ==
    /\ AuthTyped
    /\ \A r \in Reqs : uses[r] > 0 => signed[r] # Never /\ (r \in forgot \/ Barred(r))

LEMMA AuthInit == Init => AuthInv
  BY DEF Init, AuthInv, AuthTyped, Never

\* A dropped nonce is two windows old, so its request is out of its band.
LEMMA DroppedIsLate ==
  ASSUME AuthInv, NEW r \in Reqs, Expired(seen[r]), uses[r] > 0, r \notin forgot
  PROVE  now > signed[r] + Window
  BY RelayAssumption DEF AuthInv, AuthTyped, Barred, Expired, Never, RelayAssumption

LEMMA AuthUntouched ==
  ASSUME AuthInv, UNCHANGED authVars, now' \in Nat, now' >= now
  PROVE  AuthInv'
  BY RelayAssumption DEF AuthInv, AuthTyped, Barred, authVars, Never, RelayAssumption

LEMMA AuthChecked ==
  ASSUME AuthInv, NEW r \in Reqs, Check(r), now' = now
  PROVE  AuthInv'
<1> USE DEF AuthInv
<1>1. /\ signed' = signed /\ forgot' = forgot
      /\ seen' = [s \in Reqs |-> IF s = r THEN now ELSE IF Expired(seen[s]) THEN Never ELSE seen[s]]
      /\ uses' = [uses EXCEPT ![r] = IF @ < 2 THEN @ + 1 ELSE @]
  BY DEF Check
<1>2. signed[r] # Never /\ now - signed[r] \in (-Window) .. Window
  BY DEF Check, Authentic, InBand
<1>3. AuthTyped'
  BY <1>1 DEF AuthTyped, Never
<1>4. ASSUME NEW s \in Reqs, uses'[s] > 0
      PROVE  signed'[s] # Never /\ (s \in forgot' \/ Barred(s)')
  <2>1. CASE s = r
    BY <1>1, <1>2, <2>1, RelayAssumption DEF AuthTyped, Barred, Never, RelayAssumption
  <2>2. CASE s # r
    <3>1. uses[s] > 0 /\ signed[s] # Never /\ (s \in forgot \/ Barred(s))
      BY <1>1, <1>4, <2>2 DEF AuthTyped
    <3>2. CASE Expired(seen[s])
      BY <1>1, <3>1, <3>2, DroppedIsLate DEF Barred
    <3>3. CASE ~Expired(seen[s])
      BY <1>1, <2>2, <3>1, <3>3 DEF Barred
    <3> QED
      BY <3>2, <3>3
  <2> QED
    BY <2>1, <2>2
<1> QED
  BY <1>3, <1>4

LEMMA AuthStep == AuthInv /\ [Next]_vars => AuthInv'
<1> SUFFICES ASSUME AuthInv, [Next]_vars
             PROVE  AuthInv'
  OBVIOUS
<1>0. now \in Nat
  BY DEF AuthInv, AuthTyped
<1>1. CASE Tick \/ UNCHANGED vars
  BY <1>0, <1>1, AuthUntouched DEF Tick, vars, authVars
<1>2. ASSUME NEW loss \in {FALSE, NonceLoss}, Restart(loss)
      PROVE  AuthInv'
  <2>1. /\ signed' = signed /\ uses' = uses
        /\ now' = IF loss THEN now + 1 ELSE now
        /\ seen' = [r \in Reqs |-> IF loss \/ Expired(seen[r]) THEN Never ELSE seen[r]]
        /\ forgot' = IF loss THEN forgot \cup {r \in Reqs : uses[r] > 0} ELSE forgot
    BY <1>2 DEF Restart
  <2>2. AuthTyped'
    BY <1>0, <2>1 DEF AuthInv, AuthTyped, Never
  <2>3. ASSUME NEW s \in Reqs, uses'[s] > 0
        PROVE  signed'[s] # Never /\ (s \in forgot' \/ Barred(s)')
    <3>1. signed[s] # Never /\ uses[s] > 0 /\ (s \in forgot \/ Barred(s))
      BY <2>1, <2>3 DEF AuthInv
    <3>2. CASE loss
      BY <2>1, <3>1, <3>2
    <3>3. CASE ~loss /\ Expired(seen[s])
      BY <2>1, <3>1, <3>3, DroppedIsLate DEF Barred
    <3>4. CASE ~loss /\ ~Expired(seen[s])
      BY <2>1, <3>1, <3>4 DEF Barred
    <3> QED
      BY <3>2, <3>3, <3>4
  <2> QED
    BY <2>2, <2>3 DEF AuthInv
<1>3. ASSUME NEW r \in Reqs, NEW skew \in Skews, Sign(r, skew)
      PROVE  AuthInv'
  <2>1. /\ signed[r] = Never /\ now + skew \in Nat
        /\ signed' = [signed EXCEPT ![r] = now + skew]
        /\ UNCHANGED <<now, seen, uses, forgot>>
    BY <1>0, <1>3, RelayAssumption DEF Sign, RelayAssumption
  <2>2. uses[r] = 0
    BY <2>1 DEF AuthInv, AuthTyped
  <2> QED
    BY <2>1, <2>2 DEF AuthInv, AuthTyped, Barred
<1>4. ASSUME NEW t \in Threads, NEW r \in Reqs, PickupStart(t, r)
      PROVE  AuthInv'
  BY <1>4, AuthChecked DEF PickupStart
<1>5. ASSUME NEW t \in Threads,
             \/ PickupMove(t) \/ PickupAnswer(t)
             \/ \E e \in Envs : \/ PickupRead(t, e) \/ DeliverCount(t, e)
                               \/ DeliverWrite(t, e) \/ DeliverNote(t, e)
      PROVE  AuthInv'
  <2>1. UNCHANGED authVars /\ now' = now
    BY <1>5 DEF PickupMove, PickupAnswer, PickupRead, DeliverCount, DeliverWrite, DeliverNote
  <2> QED
    BY <1>0, <2>1, AuthUntouched
<1> QED
  BY <1>1, <1>2, <1>3, <1>4, <1>5 DEF Next

\* _Auth.check: a signed request is accepted a second time only if its nonce was
\* lost with the file and the start of the server does not bar it, for any
\* window, skew and number of restarts.
THEOREM RequestsAnsweredOnce == Spec => AnsweredOnce
<1>1. AuthInv /\ [Next]_vars
        => [\A r \in Reqs : AcceptsAgain(r) => r \in forgot /\ signed[r] >= notBefore]_vars
  <2> SUFFICES ASSUME AuthInv, Next, NEW r \in Reqs, AcceptsAgain(r)
               PROVE  r \in forgot /\ signed[r] >= notBefore
    BY DEF vars
  <2>1. uses'[r] > uses[r] /\ uses[r] > 0
    BY DEF AcceptsAgain
  <2>2. uses[r] \in Nat
    BY DEF AuthInv, AuthTyped
  <2>3. PICK s \in Reqs : Check(s)
    <3>1. uses' # uses
      BY <2>1, <2>2
    <3>2. ASSUME \/ Tick \/ (\E loss \in {FALSE, NonceLoss} : Restart(loss))
                 \/ \E q \in Reqs, skew \in Skews : Sign(q, skew)
          PROVE  FALSE
      BY <3>1, <3>2 DEF Tick, Restart, Sign, authVars
    <3>3. ASSUME NEW t \in Threads,
                 \/ PickupMove(t) \/ PickupAnswer(t)
                 \/ \E e \in Envs : \/ PickupRead(t, e) \/ DeliverCount(t, e)
                                   \/ DeliverWrite(t, e) \/ DeliverNote(t, e)
          PROVE  FALSE
      BY <3>1, <3>3 DEF PickupMove, PickupAnswer, PickupRead, DeliverCount, DeliverWrite,
         DeliverNote, authVars
    <3>4. PICK t \in Threads, q \in Reqs : PickupStart(t, q)
      BY <3>2, <3>3 DEF Next
    <3> QED
      BY <3>4 DEF PickupStart
  <2>4. s = r
    BY <2>1, <2>2, <2>3 DEF Check, AuthInv, AuthTyped
  <2>5. signed[r] >= notBefore /\ now - signed[r] \in (-Window) .. Window /\ ~Known(r)
    BY <2>3, <2>4 DEF Check, Authentic, InBand
  <2>6. ASSUME r \notin forgot PROVE FALSE
    <3>1. Barred(r)
      BY <2>1, <2>6 DEF AuthInv
    <3>2. ~(now > signed[r] + Window)
      BY <2>5, RelayAssumption DEF AuthInv, AuthTyped, RelayAssumption, Never
    <3>3. Expired(seen[r])
      BY <2>5, <3>1, <3>2 DEF Barred, Known
    <3> QED
      BY <2>1, <2>6, <3>2, <3>3, DroppedIsLate
  <2> QED
    BY <2>5, <2>6
<1> QED
  BY AuthInit, AuthStep, <1>1, PTL DEF Spec, AnsweredOnce

=============================================================================
