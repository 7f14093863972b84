-------------------------------- MODULE Relay --------------------------------
(***************************************************************************)
(* bus_relay.py: the server between machines.  Handler threads of one      *)
(* server share the spool directories, the request authentication and the  *)
(* rate limits.                                                            *)
(*                                                                         *)
(* An envelope is delivered in three steps (limits and the count of the    *)
(* spool; count of the archive and write, still under the rate lock; the   *)
(* notary entry), a pickup in one step for the signed request and the      *)
(* listing, two for each envelope (read, move to .picked) and one for the  *)
(* response.  The server may be killed anywhere; the nonce file is         *)
(* appended under the lock before a request is answered, so memory and     *)
(* file differ only when the file is lost.                                 *)
(***************************************************************************)
EXTENDS Integers, FiniteSets

CONSTANTS
    Agents,        \* the registry: recipients and signers
    Envs,          \* envelopes
    To,            \* Envs -> the recipient each names
    Reqs,          \* signed pickup requests (a nonce each)
    By,            \* Reqs -> the agent that signs it
    Skews,         \* how far the signer's clock may be off
    Threads,       \* handler threads
    MaxPending,    \* max_pending_per_recipient
    MaxSpool,      \* max_spool_total
    MaxArchive,    \* max_archive_total
    MaxRate,       \* max_per_min_per_recipient
    RateWindow,    \* the minute
    Window,        \* WINDOW, the time band of a signature
    MaxTime,       \* bound: the clock stops here
    MaxRestarts,   \* bound: restarts of the server
    NonceLoss      \* TRUE: the nonce file may be lost while the server is down

ASSUME RelayAssumption ==
    /\ IsFiniteSet(Envs)
    /\ To \in [Envs -> Agents] /\ By \in [Reqs -> Agents]
    /\ Skews \subseteq Int
    /\ MaxPending \in Nat \ {0} /\ MaxSpool \in Nat \ {0} /\ MaxArchive \in Nat \ {0}
    /\ MaxRate \in Nat \ {0} /\ RateWindow \in Nat /\ Window \in Nat
    /\ MaxTime \in Nat /\ MaxRestarts \in Nat /\ NonceLoss \in BOOLEAN

Times  == 0 .. MaxTime
Never  == -1
NoEnv  == {}

\* A handler thread: what it does, the envelopes it still has to read, the one
\* it has read and not moved, and its response so far.
Thread == [at : {"idle", "counted", "written", "pickup"},
           todo : SUBSET Envs, cur : SUBSET Envs, out : SUBSET Envs]

Idle == [at |-> "idle", todo |-> {}, cur |-> NoEnv, out |-> {}]

VARIABLES
    now,         \* the server's clock
    where,       \* envelope -> where its file is
    acceptedAt,  \* envelope -> when the rate limit counted it, while it counts
    thread,      \* the handler threads
    signed,      \* request -> its ts, Never while it is not made
    seen,        \* request -> when its nonce was stored
    notBefore,   \* _Auth.not_before
    restarts,
    (* read by the properties only *)
    denied,      \* envelopes answered 503: no log, not accepted
    uses,        \* request -> how often it was accepted
    forgot,      \* accepted requests whose nonce was lost with the file
    got,         \* envelopes in a response a client received
    lost         \* envelopes in a response no client received

authVars  == <<signed, seen, notBefore, uses, forgot>>
spoolVars == <<where, acceptedAt, denied, got, lost>>
vars == <<now, where, acceptedAt, thread, signed, seen, notBefore, restarts,
          denied, uses, forgot, got, lost>>

-----------------------------------------------------------------------------
(* Request authentication *)

\* Mutant: a nonce is dropped at the end of one window.
Expired_OneWindow(t) == t # Never /\ now - t > Window

Expired(t) == t # Never /\ now - t > 2 * Window

Known(r) == seen[r] # Never /\ ~Expired(seen[r])

InBand(r) == now - signed[r] \in (-Window) .. Window

Authentic(r) ==
    /\ signed[r] # Never
    /\ InBand(r)
    /\ signed[r] >= notBefore
    /\ ~Known(r)

Sign(r, skew) ==
    /\ signed[r] = Never /\ now + skew >= 0
    /\ signed' = [signed EXCEPT ![r] = now + skew]
    /\ UNCHANGED <<now, thread, seen, notBefore, restarts, uses, forgot>> /\ UNCHANGED spoolVars

\* check: the nonce is stored, expired ones drop out, then the agent is known.
Check(r) ==
    /\ Authentic(r)
    /\ seen' = [s \in Reqs |-> IF s = r THEN now
                               ELSE IF Expired(seen[s]) THEN Never ELSE seen[s]]
    /\ uses' = [uses EXCEPT ![r] = IF @ < 2 THEN @ + 1 ELSE @]
    /\ UNCHANGED <<signed, notBefore, forgot>>

-----------------------------------------------------------------------------
(* Pickup *)

InSpool(a)  == {e \in Envs : where[e] = "spool" /\ To[e] = a}
Spool       == {e \in Envs : where[e] = "spool"}
Archive     == {e \in Envs : where[e] \in {"picked", "unnotarized"}}

\* The nonce is spent whether the pickup is noted or refused with 503.
PickupStart(t, r) ==
    /\ thread[t] = Idle
    /\ Check(r)
    /\ \/ thread' = [thread EXCEPT ![t] = [Idle EXCEPT !.at = "pickup",
                                                       !.todo = InSpool(By[r])]]
       \/ UNCHANGED thread
    /\ UNCHANGED <<now, restarts>> /\ UNCHANGED spoolVars

\* The file is opened and appended to the response; it may be gone by now.
PickupRead(t, e) ==
    /\ thread[t].at = "pickup" /\ thread[t].cur = NoEnv /\ e \in thread[t].todo
    /\ thread' = [thread EXCEPT
          ![t].todo = @ \ {e},
          ![t].cur  = IF where[e] = "spool" THEN {e} ELSE NoEnv,
          ![t].out  = IF where[e] = "spool" THEN @ \cup {e} ELSE @]
    /\ UNCHANGED <<now, restarts>> /\ UNCHANGED authVars /\ UNCHANGED spoolVars

\* The move fails when another thread, or _unwrite, has moved the file.
PickupMove(t) ==
    /\ thread[t].at = "pickup" /\ thread[t].cur # NoEnv
    /\ thread' = [thread EXCEPT ![t].cur = NoEnv]
    /\ where' = [e \in Envs |-> IF e \in thread[t].cur /\ where[e] = "spool"
                                THEN "picked" ELSE where[e]]
    /\ UNCHANGED <<now, restarts, acceptedAt, denied, got, lost>>
    /\ UNCHANGED authVars

PickupAnswer(t) ==
    /\ thread[t].at = "pickup" /\ thread[t].cur = NoEnv /\ thread[t].todo = {}
    /\ \/ got' = got \cup thread[t].out /\ UNCHANGED lost
       \/ lost' = lost \cup thread[t].out /\ UNCHANGED got
    /\ thread' = [thread EXCEPT ![t] = Idle]
    /\ UNCHANGED <<now, restarts, where, acceptedAt, denied>>
    /\ UNCHANGED authVars

-----------------------------------------------------------------------------
(* Deliver *)

RecentlyAccepted(a) ==
    {e \in Envs : To[e] = a /\ acceptedAt[e] # Never}

HasRoom(a) ==
    /\ Cardinality(RecentlyAccepted(a)) < MaxRate
    /\ Cardinality(InSpool(a)) < MaxPending

SpoolRoom   == Cardinality(Spool) < MaxSpool
ArchiveRoom == Cardinality(Archive) < MaxArchive

\* _rate_lock is held from the first limit to the write.
RateLockFree == \A t \in Threads : thread[t].at # "counted"

Handle(t, at, e) == thread' = [thread EXCEPT ![t] = [Idle EXCEPT !.at = at, !.cur = {e}]]

\* Mutant: the archive is counted before the spool.
Counts_ArchiveFirst == <<ArchiveRoom, SpoolRoom>>

\* The spool is counted first, so what a pickup moves between the two counts is
\* counted twice rather than not at all.
Counts == <<SpoolRoom, ArchiveRoom>>

\* A delivery that is refused changes nothing but the log.
DeliverCount(t, e) ==
    /\ thread[t] = Idle /\ where[e] = "new" /\ RateLockFree
    /\ \A u \in Threads : e \notin thread[u].cur
    /\ HasRoom(To[e]) /\ Counts[1]
    /\ Handle(t, "counted", e)
    /\ UNCHANGED <<now, restarts>> /\ UNCHANGED authVars /\ UNCHANGED spoolVars

DeliverWrite(t, e) ==
    /\ thread[t].at = "counted" /\ thread[t].cur = {e}
    /\ \/ /\ Counts[2]
          /\ where' = [where EXCEPT ![e] = "spool"]
          /\ acceptedAt' = [acceptedAt EXCEPT ![e] = now]
          /\ Handle(t, "written", e)
       \/ /\ ~Counts[2]
          /\ thread' = [thread EXCEPT ![t] = Idle]
          /\ UNCHANGED <<where, acceptedAt>>
    /\ UNCHANGED <<now, restarts, denied, got, lost>> /\ UNCHANGED authVars

\* Mutant: the envelope stays where it was written.
Unwritten_Stays(e) == where

\* Mutant: it goes to the directory of what was picked up.
Unwritten_Picked(e) == [where EXCEPT ![e] = IF @ = "spool" THEN "picked" ELSE @]

\* _unwrite; it fails in silence when a pickup has moved the file.
Unwritten(e) == [where EXCEPT ![e] = IF @ = "spool" THEN "unnotarized" ELSE @]

\* The notary entry of an accepted envelope, or 503 when the log cannot be written.
DeliverNote(t, e) ==
    /\ thread[t].at = "written" /\ thread[t].cur = {e}
    /\ \/ UNCHANGED <<where, denied>>
       \/ where' = Unwritten(e) /\ denied' = denied \cup {e}
    /\ thread' = [thread EXCEPT ![t] = Idle]
    /\ UNCHANGED <<now, restarts, acceptedAt, got, lost>> /\ UNCHANGED authVars

-----------------------------------------------------------------------------
(* Time and restarts *)

Tick ==
    /\ now < MaxTime
    /\ now' = now + 1
    /\ acceptedAt' = [e \in Envs |-> IF now' - acceptedAt[e] < RateWindow
                                     THEN acceptedAt[e] ELSE Never]
    /\ UNCHANGED <<thread, restarts, where, denied, got, lost>> /\ UNCHANGED authVars

\* It is not stored: the next start finds a nonce file and knows of no limit.
NotBefore(loss, start) == IF loss THEN start ELSE 0

\* Responses being built are lost with the process, the rate window too.  With
\* the nonce file gone the server refuses what was signed before it started;
\* losing it takes at least one unit of time.
Restart(loss) ==
    /\ restarts < MaxRestarts
    /\ restarts' = restarts + 1
    /\ now' = IF loss THEN now + 1 ELSE now
    /\ now' <= MaxTime
    /\ seen' = [r \in Reqs |-> IF loss \/ Expired(seen[r]) THEN Never ELSE seen[r]]
    /\ notBefore' = NotBefore(loss, now')
    /\ forgot' = IF loss THEN forgot \cup {r \in Reqs : uses[r] > 0} ELSE forgot
    /\ lost' = lost \cup UNION {thread[t].out : t \in Threads}
    /\ thread' = [t \in Threads |-> Idle]
    /\ acceptedAt' = [e \in Envs |-> Never]
    /\ UNCHANGED <<where, signed, denied, uses, got>>

-----------------------------------------------------------------------------
Init ==
    /\ now = 0 /\ restarts = 0
    /\ where = [e \in Envs |-> "new"]
    /\ acceptedAt = [e \in Envs |-> Never]
    /\ thread = [t \in Threads |-> Idle]
    /\ signed = [r \in Reqs |-> Never]
    /\ seen = [r \in Reqs |-> Never]
    /\ notBefore = 0
    /\ uses = [r \in Reqs |-> 0]
    /\ forgot = {} /\ denied = {} /\ got = {} /\ lost = {}

Next ==
    \/ Tick
    \/ \E loss \in {FALSE, NonceLoss} : Restart(loss)
    \/ \E r \in Reqs, skew \in Skews : Sign(r, skew)
    \/ \E t \in Threads :
          \/ PickupMove(t) \/ PickupAnswer(t)
          \/ \E r \in Reqs : PickupStart(t, r)
          \/ \E e \in Envs :
                \/ PickupRead(t, e) \/ DeliverCount(t, e) \/ DeliverWrite(t, e)
                \/ DeliverNote(t, e)

Spec == Init /\ [][Next]_vars

-----------------------------------------------------------------------------
\* A signed request is accepted once: across the time band, the expiry of its
\* nonce and restarts.  Exempt is one whose nonce was lost with the file, when
\* not_before does not bar it: its signer's clock runs ahead, or the server has
\* started again since.
AcceptsAgain(r) == uses[r] > 0 /\ uses'[r] > uses[r]
AnsweredOnce ==
    [][\A r \in Reqs : AcceptsAgain(r) => r \in forgot /\ signed[r] >= notBefore]_vars

\* The same without the exemption: this does not hold (README, 5).
NeverReplayed == \A r \in Reqs : uses[r] <= 1

\* The disk: spool and archive together stay one below the sum of their limits,
\* whatever is picked up while a delivery counts.
DiskBounded == Cardinality(Spool \cup Archive) < MaxSpool + MaxArchive

\* An envelope out of the spool is in a response being built, was received, or
\* its response was lost; no other way does a pickup lose one.
PickedAccounted ==
    \A e \in Envs : where[e] = "picked" =>
        e \in got \cup lost \cup UNION {thread[t].out : t \in Threads}

\* An envelope refused for want of a log is not in the spool for a later pickup.
DeniedStaysOut == \A e \in denied : where[e] # "spool"

\* No envelope reaches its recipient without a notary entry: this does not hold
\* (README, 5).
DeliveredIsNoted == got \cap denied = {}
=============================================================================
