# Formal models of sealed-agent-bus

A message bus between agents that live on one machine or on several: a SQLite
database (`agent_bus.py`), enforcement of signatures on the reader's side
(`bus_enforce.py`), transports between machines (SSH rounds, an HTTPS relay), a
notary log on both ends of a transport, and the processes around an agent
(watcher, poker, duty supervisor, single-flight locks). This directory holds TLA+
models of it, the TLC runs that check them and the proofs TLAPS checks.

All paths below are relative to `src/`.

## 1. Inventory

| Component | State it keeps | Operations | What makes it correct |
|---|---|---|---|
| Mailbox core, `agent_bus.py` | `messages` (all recipients, one AUTOINCREMENT id), `cursors` (`last_seen_id`, `delivered_id`), `cursor_audit` rows, `enforce_seen` | `send`, `recv(mark)`, `recv(mark=False)` (peek), `ack`, `mark_delivered`, `reconcile`, `replay` | Nothing the cursor passes is lost; nothing is handed over twice; the cursor goes forward only (it does not, 5); a rejected row neither vanishes nor blocks |
| Audit chain, `agent_bus.py` | `seq`, `prev_hash`, `row_hash` of the audit rows | `_append_audit`, `audit_verify`, `audit_export`, `audit_chain_verify` | The bus's own rows verify (unless two calls race, 5), any tampering does not |
| JSON mirror, `agent_bus.py` | one file per message in the recipient's inbox | temporary file, rename | A file in the inbox is complete; a lost mirror loses no mail |
| Enforcement, `bus_enforce.py` | the seen-store (a file, or `enforce_seen`), the mode marker, the key registry | `check`, `DbSeenStore.add`, `sync`, `doctor` | A verdict depends on the signed content, the clock, the registry and what was seen, and on nothing else |
| SSH endpoint, `bus_ssh_exchange.py` | notary log, spool of attachments, the bus database | one round: ack, accept messages, peek, mark delivered, respond | The notary entry precedes the effect; a response lost loses no mail |
| SSH client, `bus_ssh_client.py` | receipts, `stored_max`, the local bus | `exchange`: send, check the receipt, store replies | Every reply is stored at least once; only stored replies are acknowledged (refused ones are too, 5) |
| Notary, `bus_notary.py` | hash-chained log and checkpoint | `record`, `checkpoint`, `export`, `verify`, `compare`, `reconcile`, `_audit_cross` | The log of honest rounds is accused of nothing; a missing, changed or forked entry is found |
| Relay, `bus_relay.py` | spool, `.picked` and `.unnotarized` directories, nonces, rate limits, registry | `deliver`, `pickup`, `_Auth.check` | An accepted envelope is either refused aloud or can be picked up; a request is answered once; the disk is bounded |
| Attachments, `bus_attach.py` | `.partial` with `next_seq`, `.rejected`, `.abandoned` files, the content store | `put`, `get`, `chunks`, `work_stats`, `receive_chunk` | Stored content has the announced hash; a transfer can be retried; the work files are bounded |
| Locks, `bus_singleflight.py` | a session lock file, claimed message files | `acquire`, `heartbeat`, `release`, `claim`, `requeue_dead` | One live worker per agent, and no message worked on twice (both with exceptions under a shared name, 5); a dead worker's lock and messages come back |
| Watcher, `agent_bus_watcher.py`; wake, `agent_wake.py`; poker, `bus_poke.py` | logged top, pending batch, rate window; sleep markers, wake lock; feed and cooldown | `run`, `process_operator_messages`, `wake`, `on_new`, `may_poke` | New mail wakes the agent in the end, and not too often |
| Duty, `agent_duty.py` | stored times, stuck and waiting markers | `decide`, `run_once` | Every long silence is reported; clock jumps and reboots report none that is not there |

Parts that are not behaviour (release packaging, repository tools, probes,
enrolment, key guard, cryptography, schema DDL) are listed in `PROJECT.json` with
the reason they are left out.

How they meet. Every process of one machine opens the same database; SQLite
serialises write transactions, and a call that reads before it writes is open to
what others commit in between. A remote agent does not open it: its client runs
rounds against the SSH endpoint (or posts to the relay), which peeks into the
agent's mailbox, marks what it returns as delivered, and acknowledges in the
*next* round what the client says it has stored. The watcher peeks into the
database, writes the sleep markers when an operator's message tells it to, and
starts sessions; the poker reads the mirrored files and types into the agent's
pane; the duty supervisor looks at the pane and at the marker; sessions exclude
each other by the lock file.

What is hard here: calls that are more than one transaction (`ack`,
`mark_delivered`, `replay`, the audit of a peek); several consumers of one
mailbox; verdicts that change with time (a clock running ahead, a key not yet
registered, a row going stale); two water levels (`last_seen_id`, `delivered_id`)
moved by different calls; entries written before the effect they announce;
responses lost after their effect; processes killed anywhere, in the middle of a
write to a file too; pids used again; clocks that are set; pages full of rows nobody
may read. `PROJECT.json` lists these as hazards, each at its line.

## 2. Modules

| Module | Models | Used by |
|---|---|---|
| `AgentBus` | one mailbox in `agent_bus.py`, dev and product mode, any number of processes, the rounds of a remote reader | the next three |
| `Mailbox` | what the bus promises about one agent's mail (abstract) | |
| `AgentBusRefinesMailbox` | the refinement mapping, `ImplementsMailbox` | |
| `AgentBus_proofs` | theorems about `AgentBus`: types, replay, handing over, the rows the cursor passes; in product mode it implements `Mailbox` | |
| `AuditChain` | the chain of audit rows and both verifiers | |
| `AuditChain_proofs` | theorems about `AuditChain` | |
| `Evidence` | `bus_notary.reconcile` and `_audit_cross`: the discrepancies found in a log, receipts and audit rows | `Exchange` |
| `Exchange` | client, SSH endpoint, mailbox, notary log and receipts of one remote identity, composed | |
| `Exchange_proofs` | theorems about the delivery in `Exchange`, both comparisons of its log, and what is left out of it | |
| `NotaryLog` | the notary log as a file: writers, torn lines; `verify`, `export`, `compare` | |
| `NotaryLog_proofs` | theorems about `NotaryLog` | |
| `Relay` | the relay server: request authentication, deliver, pickup, restarts | |
| `Relay_proofs` | theorems about `Relay` | |
| `Attach` | `receive_chunk` on the contents of one store, step by step | |
| `Attach_proofs` | theorems about `Attach` | |
| `SingleFlight` | the session lock and the claims on the file inbox | |
| `SingleFlight_proofs` | theorems about `SingleFlight` | |
| `Wakeup` | mirror, watcher, wake and sleep, poker around one agent | |
| `Duty` | the duty supervisor over steps of its timer | |
| `Duty_proofs` | theorems about `Duty` | |

Each specification has an `MC` module for TLC, which adds the symmetry sets and the values a
`.cfg` cannot write.

### AgentBus and the code

| Variable | Code |
|---|---|
| `msgs` | table `messages`; the id is the index. A row keeps what enforcement and replay ask of it: recipient, kind, `in_reply_to` of a replay, and `root`, the first row with the same signed bytes. Its verdict is kept at the root, since equal bytes get equal verdicts |
| `readAt` | ids whose `read_at` is set |
| `cursor`, `delivered` | `cursors.last_seen_id`, `cursors.delivered_id` |
| `seen` | `enforce_seen` (`DbSeenStore`) |
| `named`, `open` | ids with an `enforce_reject` audit row, and those without a later `remote_delivered` row |
| `copied`, `skipped` | the `replay` audit rows; the ids counted as skipped in an `ack` audit row |
| `local` | where each process is inside a call that is not one transaction |
| `handed`, `times` | what the consumers got; read by the properties only |

| Action | Code | Split because |
|---|---|---|
| `Send`, `SendOther`, `Resend` | `send` of a new row, of a row for somebody else, of the same presigned row again | one transaction each |
| `Matures`, `KeyRegistered`, `GoesStale` | what `bus_enforce.check` says of a row, changing with the clock and the registry | environment |
| `RecvDev`, `RecvProduct` | `recv(mark=True)` | one `BEGIN IMMEDIATE` |
| `PeekRead`, `PeekAudit` | `recv(mark=False)` | the audit rows are written after the read |
| `MarkFilter`, `MarkPend`, `MarkWrite` | `mark_delivered` | the refusals and the blocking rows are read before the transaction |
| `AckRead`, `AckWrite` | `ack` | cursor, cap and skip count are read in autocommit |
| `ReplayRead`, `ReplaySigned`, `ReplaySend`, `ReplayLog` | `replay(commit=True)` | the list is read first; each signed copy is one transaction, in dev mode the copy and its log are two |
| `Stop` | a caller that only looked; with `"crash"`, a process killed | |

Verdicts: `ok`; `sds`, accepted by `check` and dropped later by the strict
envelope gate; `future`, the clock runs ahead; `forged`, a fresh row whose key is
not registered yet; `stale`, permanent.

`Ops` names the calls in use, so that a run asks about one deployment: `ack` (any
id), `ackstored` (the ids a remote client has stored), `lossy` (a response may
be lost), `crash`, and so on.

Abstractions. The several SELECTs of `reconcile` and of the list of already
replayed rows are one read. The second, wider peek of an SSH round (for the
rejected rows) is not there: it moves nothing. A forged row past the grace is
treated like a stale one, as the code does. A saturating counter (`times`)
stops at 2, which is one more than the property allows.

`KeepsReading` and `KeepsAsking` say which calls a reader keeps making. They stand
before the `=>` of a liveness property, so that one run asks about two kinds of
reader.

### The refinement

`AgentBusRefinesMailbox` maps a signed content to its standing: handed over (`times`),
waiting (a row with its bytes is ahead of the cursor), set aside (reconcile lists it).
Handed over twice, or none of these, is no standing of `Mailbox`, so the refinement
fails on either. Beyond that it forbids every step the abstract mailbox has no name
for, such as content handed over that was set aside and not put back in the reader's
way first.

### AuditChain and the code

A hash is modelled by the tuple it hashes, so hashes are equal exactly when the
contents are. `AppendLocked` is a caller that holds the write lock before it reads
the head (`recv(mark)`, the main transaction of `mark_delivered`, the signed
replay); `ReadHead` and `InsertRead` are one that does not (`ack`, the refusals of
`mark_delivered`, the audit of a peek, the dev-mode replay log). Rows older than the
chain (NULL hashes) may stand in front. `AuditVerify` is the loop of `audit_verify`: each
chained row holds its hash and names that of the chained row before it (`PrevHash`,
the loop's `prev`). `Select` is the SELECT ... ORDER BY id both verifiers' rows come from.

### Evidence, Exchange and the code

`Exchange` runs three things at once: the client of one identity
(`bus_ssh_client.exchange`), one endpoint process per round
(`bus_ssh_exchange.exchange`), which may outlive its client's patience, and the
mailbox behind it. Every entry of the notary log is an action (`AckNote`, `ItemNote`,
`RoundNote`, `GivenNote`, `CloseNote`, and the correcting `AckFailNote`,
`ItemFailNote`, `MarkFailNote`), and every effect another (`AckDo`, `ItemDo`,
`MarkDo`); `Peek` and `Measure` are the two peeks of a round. The client's actions are
`Request` (the receipt is written before ssh starts), `Receive`, `GiveUp`,
`StoreNext` (one reply into the local bus), `Save` (`stored_max`) and `StoreCut`.

The notary's judgement is not a state machine: `Evidence` defines what
`reconcile` (`Hard`, `Soft`) and `_audit_cross` (`CrossHard`, `CrossSoft`) return
for a log, receipts and audit rows, as sets of `<<type, subject>>`; the properties
of `Exchange` apply it to every log that can come about. The bags of hashes become
counts per item. What the variables of the walk over the log hold at an entry (the
expected cursor, the open round, the bound of the next ack) is read off the entries
before it (`Expected`, `OpenAt`, `Window`, `Limit`); the attribution of skips is a
choice of the governing round among sets of positions.

Abstractions: one message a client may send, standing for messages, attachments
and fetches alike; a body or a notary that cannot be opened behaves like a kill at
the first step; all mail is deliverable (`AgentBus` has the rest). `odd` records which
disturbances occurred, for the exceptions in the properties.

### NotaryLog and the code

`BeginRecord`, `BeginCheckpoint` are the flock and `_tail`; `Commit` the write of the
entry and, when due, of the checkpoint behind it; `Die` leaves any beginning of
those lines: whole lines, a part of one (`Garbage`), or one without its newline
(`open`). A hash is the tuple it is a hash of, a signature the signed tuple with
its key. What the code finds while it walks through the lines is said by position:
`EntryAt`, `SealAt` are the entries and the checkpoints, `Before` the entries seen so far,
`Select` the lines an export takes. `VerifyOk`, `Trusted`, `Export` and `Forked` are `verify(...)["ok"]`,
`["trusted"]`, `export` and `compare(...)["fork"]`; the properties apply them to the log,
to its exports, to one-step changes of it (`Tampered`), to a log chained again behind a
rewritten entry (`Rechained`), and to two slices taken at different times.

### Relay and the code

| Action | Code |
|---|---|
| `Sign`, `Check` (inside `PickupStart`) | `_sign_request`; `_Auth.check`: time band, `not_before`, nonces, pruning |
| `PickupStart`, `PickupRead`, `PickupMove`, `PickupAnswer` | `pickup`: listing, then read and move of each file, then the response, which may be lost |
| `DeliverCount`, `DeliverWrite`, `DeliverNote` | `deliver`: limits and spool count under the rate lock; archive count and write; the notary entry, or `_unwrite` and 503 |
| `Tick`, `Restart` | time; a server killed and started again, with its nonce file or (`NonceLoss`) without |

### Attach and the code

One action per file operation of `receive_chunk`: `Begin` (`has`, `next_seq`, a retried
transfer found stale), `AbandonPart`/`AbandonMeta` (the two moves to `.abandoned.<ts>`),
`CheckRoom` (quota and size), `Append1`, `WriteMeta`, `Verify`, then `StorePart` or
`RejectPart`, `FinishMeta`. `Kill` stops a call anywhere, in the middle of an append (data is
counted in half chunks) and between the truncation of `.partial.json` and its new content
too. A sender goes on with the next chunk, or starts the next round with chunk 0.

The store holds several contents, and the files are functions of the content; `Sends` says
which one a process receives, so a run has several processes on one content, or one on each.
`WorkUsed` is `work_stats`: the bytes of all `.partial`, `.rejected` and `.abandoned` files of
the store. A second `.rejected` file of a content has the name of the first and replaces it
(`RejectPart`), while each `.abandoned` file has a name of its own.

### SingleFlight and the code

A process is a pid with a birth; a pid is used again by another process. The lock
file's record has the code's fields (`instance_id`, pid, target, liveness strategy,
birth); `SameProcessAlive` and `HolderAlive` are `_same_process_alive` and
`_holder_alive`. `Acquire`, `Heartbeat`, `Release` hold the flock and are one action
each. A given name may be that of two sessions, one after the other or at once: the code
answers "already-own" to both, and so does the model (`AcquireOwn`, `Heartbeat`). `Claim`,
`Finish` are one rename; `requeue_dead` is split into its
decision with the listing (`RequeueScan`) and each rename (`RequeueMove`), since
sessions start, die and claim between. `lease` is what the session was told and how
long ago: it is what a session, as opposed to the file, may rely on; `own` is false when the
record it was told by is not about itself.

### Wakeup and the code

The watcher's loop is `Poll` up to the call of `wake`, `Wake` and `SessionEnds`; delays
(poll, debounce, rate window) are steps that come at any time. `Obeyed` is what
`process_operator_messages` does to the sleep markers, in row order. The poker is
`PokeRead`, `PokeSlurp` (inotify) or `PokePoll`, then `OnNew`, `PokeLook` (`may_poke`),
`PokeSend`, `PokeSettle` (`safe_send`). `Send` and `Rename` are the JSON mirror: the
temporary file and its rename, with the events each gives the poker. Both
processes are killed and started again with an empty memory; a killed watcher's
session runs on while its lock is free.

### Duty and the code

`Verdict` is `decide` with its branches (`OnGone`, `OnBusy`, `OnWaiting`, `OnTyped`,
`OnIdle`), `Corrected` the clock correction of `run_once`, `Stamped` what it stores of the
clocks. `Run(FALSE)` is a run killed before it saves. The clocks are `Wall` and `Mono`,
off by `skew` and `boot`; times are in steps of the timer, and the minutes of
`decide` are constants in such steps. `seen` is the history the two properties
compare a notice with, kept in true time; whether the clock was set since the last
finished run is judged when a run speaks (`Moved`, `Blind`). `Start` is what the wall clock
shows at first: the code takes 0 for "never", so the model's clock starts, and is never set,
before `Remind` steps after the epoch. `run_once` leaves a drift of up to 60 s alone
(`agent_duty.py:240`): a step is longer than that, so the model's smallest setting of the
clock is a jump, and settings of less than a minute are not modelled.

## 3. Runs

What a comment or docstring says and TLC refutes is not in the runs but in section 5, with the
property that states it.

| Run | Instance | Shows |
|---|---|---|
| `SharedProduct` | product mode, 2 processes, 3 rows, page 2, rows going stale, keys registered, rows stored twice; recv, ack, replay | `TypeOK`, `AtMostOnce`, `ReplayLoggedOnce`, `NothingLost`, `NotStranded`, and every step is one the abstract `Mailbox` allows (`ImplementsMailbox`) |
| `RemoteRound` | product mode, 1 process, 4 rows, page 3; peek, mark, ack of stored ids, crash, all verdict changes | the cursor never passes the delivered level (`WithinDelivered`), nothing is lost (`NothingLost`) |
| `SharedDev` | dev mode, 2 processes, 4 rows; recv, ack, replay, crash | at most one logged replay per original, no copy of a copy; reconcile accuses nothing that was delivered (`NoFalseAccusation`) |
| `DeliveryLive` | product mode, 3 rows, page 1, future and forged rows, lost responses | every acceptable message is handed over to an agent that keeps reading (`RecvDelivers`), and, when nothing is rejected, to a remote one that keeps asking for rounds (`RoundsDeliver`) |
| `AuditChain` | 3 writers in any order, 5 rows, up to 2 old ones | both verifiers accept the bus's rows, or two calls went on from one head and `audit_verify` rejects the table from then on (`BranchOrAccepted`); an accepted table with a one-step change is rejected (`TamperEvident`) |
| `SingleFlight` | 2 pids used twice each, host names and one given name, also both sessions under it, signals owner with pane and none, a record of the older version (owner only), 1 message | two live sessions never both hold a valid lease by a record about themselves (`Exclusive`); a message worked on stays its worker's (`ClaimHolds`); a dead owner's lock is taken over (`LockReclaimed`) |
| `Relay` | 3 envelopes for 2 agents, 2 requests, 2 handler threads, 2 restarts, clock skew, the nonce file lost | `DiskBounded`, `PickedAccounted`, `DeniedStaysOut`, `AnsweredOnce` |
| `Attach` | 2 contents of 2 chunks, one sent by two senders and one by a third, room for 2 transfers, 2 kills or wrong chunks; explored while calls on a content do not overlap | only what has its hash is stored (`StoredIsRight`); the work files of the store stay within the quota and one more content (`WorkBounded`); a sender that goes on gets its content stored (`TransferCompletes`) |
| `Exchange` | 3 rounds, 2 rows, 1 reply per round, 1 fault anywhere | only replies that are stored, or refused by the client's bus, are acknowledged (`AckedIsStored`); each is stored once (`StoredOnce`); an honest log is not accused by the receipts (`NotAccused`) nor by the audit rows (`CrossNotAccused`); a left-out entry and a short export are found (`OmissionEvident`, `ShortExportEvident`) |
| `NotaryLog` | 2 writers, 6 records, 2 extra checkpoints, 2 deaths while writing | `HonestVerifies`, `RecordedKept`, `TamperEvident`, `RechainedUntrusted`, `ForkSeen` |
| `Wakeup` | watcher or poker, 2 messages out of 4 kinds, 1 change by an operator, 2 faults | every unread row on the watcher's page is decided about (`Decided`); every mirrored file gets into the feed (`Fed`) |
| `Duty` | 7 steps, 2 changes of the pane, assignment or sleep, 1 fault (clock set by -4 or +5, reboot, killed or skipped run) | a notice says nothing that is not so (`NoticeTrue`); a stall is told and told again (`StallTold`) |

### Bounds, and why they are enough

*Mailbox.* Two processes are enough for a race between any two calls; every race in
the code is between two transactions of two callers. Three rows are the least that
give a row before, on and behind the end of a page of two, or an original, its copy
and a row between them; four are taken where two processes are not needed or
verdicts do not multiply the states. `PendLimit` is at least the number of rows, so
the LIMIT of `pending_blocking_ids` does not cut (see 5). `PageLimit` is smaller than
the number of rows in every run, so pages do. Symmetry is used on the processes in
runs without liveness; no action or property names one.

*SingleFlight.* Two pids, each with two lives, give an owner, a taker and a stranger
under either's pid. All limits are one step, so every age is "within" or "past". For the time liveness
takes, the run gives two of the four signals: both strategies at once, and none. A lock by the
owner alone is that of the older version's record, whose birth the session fills in; a target
without an owner pid is exempt in `LockReclaimed`. The two invariants are proved for any signals,
and TLC finds all three properties hold with `"owner"` added, and the invariants with all four.

*Relay.* Two envelopes compete for one recipient, the third is somebody else's; spool
and archive have room for two and one. Three time units are past the second window of
a nonce and past the rate window.

*Attach.* Two chunks are a first and a last. Two senders of one content take turns, each
beginning in the other's transfer; the third has a content of its own, so that what one has still
to append, what the quota was compared with and what was moved aside all differ. Two faults are a
kill and a second one during the recovery, or two rejections. With room for two transfers a
rejected one leaves room for one more, and the two contents are then admitted side by side: the
bound is reached. The properties exempt what comes after two calls ran on one content at
once (`StoredIsRight` for that content), so `CONSTRAINT Apart` stops there; without it
`StoredIsRight` and `WorkBounded` are proved, for any number of senders and contents.

*Audit chain.* Three writers may hold an old, a newer and the newest head at once; five rows
let a branch be gone on with, and an old row stand before it.

*Exchange.* Three rounds are one that delivers, one that acknowledges it, and one
between or after; one reply per round and two rows leave something pending. The
properties also hold with `MaxSends = 2`, with `Strict = TRUE`, and with four rounds.
A page of one row does not grow once it is read: with `MaxReplies = 2` and two or three
rows the properties hold too (three rows: 12 million states), and `NotAccused` without
`Latecomer` is violated.

*NotaryLog.* Six records with a checkpoint every three give a log with two due
checkpoints, and two more at any place.

*Wakeup.* Two messages, of which the page shows one; two faults are a kill and a
failing read. Three changes or more change no answer but only the time (2 and 2: 0.7
million states). Watcher and poker share nothing but the sleep markers, so each
installation in the run has one of them.

*Duty.* The thresholds keep the code's order (report and nudge before alert and stuck,
reminders last) with the fewest steps; seven steps reach a second reminder.

Deadlock checking is off everywhere: the bounds end every behaviour, and a bus
with no mail rests.

### Fairness, and why the code justifies it

* `KeepsReading`: an agent keeps calling `recv(mark=True)` (strong: a call is possible
  again and again, between others of the same process), and a call that has
  started is finished. `KeepsAsking`: the client's timer keeps starting rounds, each of
  which acknowledges, peeks and marks; and not every response is lost. `DeliveryLive`
  has no `crash`. The environment is under no fairness: no sender has to send, no row
  has to mature.
* `SingleFlight`: time passes (weak), and a session keeps calling `acquire` (weak):
  only the caller `acquire` did not name a duplicate
  may drain (`bus_singleflight.py:17`, `:331`). Nobody has to release, beat, or drain.
* `Attach`: time passes, and each sender goes on (weak): it retries round after round.
* `Wakeup`: the two processes run on and their delays end (weak); a session ends at the
  latest by its timeout (`agent_bus_watcher.py`, `timeout=600`). Nobody has to read,
  archive, or wake the agent.

## 4. Proofs

Every theorem holds for any number of processes, messages, rounds, rows, chunks or
requests and for any limits, under the named assumption on the constants in the module it
is about. A theorem that needs more says so in its own ASSUME; section 5 has, for each such
premise, the behaviour without it.

### The mailbox (`AgentBus_proofs`)

* `TypeCorrect`: `Spec => []TypeOK`. `TypeOK` alone is not inductive: the signed replay
  copies `msgs[i]`, which is a row only if `i` is one. So it is proved together with
  `ReplayInv`.
* `ReplaysLoggedOnce`: `Spec => []ReplayLoggedOnce`. `ReplayInv` says that a logged replay
  names two rows, the first an original (`CopiesKnown`); that what an operator has
  still to replay are originals and none of them is a logged copy (`CallsOriginals`),
  also when another operator logs copies meanwhile: a new copy has a new id, and in
  dev mode it is a row of another kind; that the message sent but not logged yet is
  known (`CallsSent`). `RowsKept` (no call deletes a row or changes its kind) makes the
  parts stable under the calls that do not replay (`ReplayUntouched`).
* `HandedOnce`, in product mode: `Spec => []AtMostOnce`. Strengthened by "what was handed
  over is in the seen-store" (`SeenInv`): the page asks the store in the transaction
  that enters it.

### What the cursor passes (`AgentBus_proofs`)

* `PassedNotLost`: `Spec => []NothingLost`, for a strict mailbox read by `recv` and `ack`
  (`ByRecv`), or one read by rounds whose answers arrive and whose client
  acknowledges what it has stored (`ByRounds`), with no row the envelope gate drops
  (`NoEnvelopes`). The ways out of these premises are the free ack, the ack of any id beside
  peeks, the lost answer and the gate (5). `NothingLost` speaks of the rows below the
  cursor; whether a call in progress may move the cursor depends on what it has read
  before. `PassedInv` says of each row below the cursor *or* the delivered level where it
  is accounted for (`Reached`), of each place in a call what its sets may still
  contain (`Rounds`, `Modes`), and that a named row stays named (`NamedKept`); a copy
  speaks for its original by well-founded induction on ids (`CoveredNotLost`).
* `PassedNotStranded`: `Spec => []NotStranded`, for `ByRecv`, in product mode without rows
  that the gate drops or that are ahead of the clock (a copy of one is rejected and
  blocks the original for ever, 5). `StrandInv` adds that such a row is good or stale for
  good (`Settling`), that an operator's list contains no other, and that a copy has its
  original's content.
* `HandedNotAccused`: `Spec => []NoFalseAccusation` without peeks (5): in dev mode for any
  calls of any processes, in product mode for one process or without acks (`OneWay`). `Apart`
  keeps what was handed over below the delivered level and apart from the open rejections,
  and both behind the cursor, so that no row is read twice.
* `CursorWithinDelivered`: `Spec => []WithinDelivered` for one process on a strict mailbox.
  `mark_delivered` may move the level back, so `LevelInv` says why not behind the cursor:
  the blocking rows a pending call has read are ahead of the cursor, and the cursor does not
  move before its write; and the target of an ack is within a level that
  does not move either. Both need the process to be alone. In product mode `recv` passes
  rejected rows, which it does not mark.

### The refinement (`AgentBus_proofs`)

* `MailboxImplemented`: `Spec => ImplementsMailbox`, in product mode, for `ByRecv` and no
  dropped envelopes. With `TypeOK`, `PassedInv`, `SeenInv` and `Counted` (the counts of the
  contents agree with what was handed over) a content's standing is none of the two the
  abstract mailbox has no name for (`NoneTwiceOrLost`). Then each action is one abstract
  step: a `Send` offers, a page hands over and sets aside, an ack sets aside, a signed replay
  brings one back, and everything else stutters.

### The audit chain (`AuditChain_proofs`)

For any number of writers. `TableInv` says that the rows are some older ones and then a
chain, each row the next number and the hash of the one before, and that each head that was
read was the head when the chain was that long (`Sound`, `HeadRead`); or else that a number is
there twice and some row does not follow the one before it (`Twice`, `Broken`). An insert at
the newest head gives a chain (`SoundGrows`), at an older one a branch (`OldHeadBranches`),
and a branch stays (`BranchStays`).

* `AppendedAccepted`: `Spec => []BranchOrAccepted`. In a chain, what `SELECT ... ORDER BY id`
  returns is a suffix of the table (`SuffixSelected`), hence what an export contains
  (`Exported`), and no number is there twice (`ChainNotBranched`); a broken table fails
  `audit_verify` at the broken row (`BrokenFails`).
* `ChangesSeen`: `Spec => []TamperEvident`. Both verifiers accept only sequences in which
  each row holds its hash and names that of its predecessor, the first one GENESIS
  (`Linked`: `VerifyLinks`, `ExportLinks`). In a chain all hashes differ (`ChainRows`), so a
  row taken out, rewritten or repeated leaves a place where this fails (`TakenBreaks`,
  `RewrittenBreaks`, `RepeatedBreaks`); a table that is no chain is not accepted as it is.

### The exchange (`Exchange_proofs`)

* `AtLeastOnce`: `Spec => []AckedIsStored`, whose one exception are refused replies (5); kills on both sides,
  lost answers, failing calls and overlapping endpoints included. The cursor and every ack
  under way stay at or below `stored_max` (`Behind`); a page has no gap below its top
  that is not already saved (`Pages`), and the client stores it in order (`Storing`), so
  everything up to what it saves next is stored or was refused by its bus.
* `RepliesStoredOnce`: `Spec => []StoredOnce`. While no storing loop was cut, what is still to
  be stored is ahead of what is (`Once`).
* `CrossSafe`: `Spec => []CrossNotAccused`, and `ShortExportFlagged`: `Spec =>
  []ShortExportEvident`. Their premise is that nothing failed, so `CrossInv` is about calm
  rounds (`Order`). One endpoint runs at a time, for the client that waits for it (`Alone`).
  Everything up to `stored_max` was marked, so no ack skips a row, and an ack that moves
  the cursor has the one audit row of its step, with a `from` no other has (`Lined`,
  `Aim`): the rows pair (`AllPaired`). A round has its one close, behind it, with
  an anchor the audit rows reach (`Anchored`). The last close reaches all of them, or an
  endpoint is still to write one (`Covered`): an ack that moved the cursor makes the round
  of its request a logged one. So whatever is cut off the export is an ack row, and the
  counts differ (`ShortFlagged`), or lies below an anchor.
* `NotAccusedAlways`: `Spec => []NotAccused`, with any faults on either side, as long as no
  log write failed, no ack was cut off behind its entry and no rounds overlapped (`Clean`).
  `EvInv` has two halves. `Answered` and `Near` hold without that premise: a receipt
  has an outcome exactly when its round was answered, nothing received or saved lies further
  ahead of the cursor than a page, and the client has received all it has passed. `Told` is
  about a clean log. Each count of entries lies between the rounds that were answered and
  those that got as far as the entry (`Counted`), where a killed endpoint may be on either
  side. The walk over the log follows the cursor: each entry starts where the walk is, and
  the walk ends at the cursor, or at the ack just entered (`Traced`). The two peeks of
  a round agree unless mail came between them (`Measured`). So no hard count is off
  (`SentLogged` to `AcksTold`) but for replies above `stored_max`, and what the rounds
  before an ack left behind starts one page above the cursor, where no ack reaches
  (`NothingSkipped`).
* `OmissionSeen`: `Spec => []OmissionEvident`, for logs of any length. Without a fault every
  round was answered (`Answering`), every entry is of a regular kind (`Regular`), and every
  round entry is followed by as many replies as it says, or one endpoint is still to enter
  the rest of them (`GivenOut`): that is `Smooth`. Taking one entry out moves all behind it up
  by one (`CutIs`), so of the entries about the same item, reply or ack value there is one
  less (`Fewer`, `CutCounts`), while `Counted` leaves no surplus over the receipts of answered
  rounds. An omitted round leaves its replies to nobody, or to the round before it, which then
  has more of them than it says (`CutRound`).

### The notary log (`NotaryLog_proofs`)

All five properties of the run `NotaryLog`. `NotaryInv` says of the file that its entries are a
chain from the first one on, at positions `p` (`Whole`), and, while no line is broken, that
each checkpoint is signed for the last entry before it (`Sealed`); of the holder of the lock
that the tail it has read is still that of the file (`HeldInv`); of what `record` returned
that it is in the file, but for one payload that lies on a broken line (`KeptInv`). What a
dying writer leaves is one, two or no lines more, or a broken last one (`Written`).

* `KeptAlways`: `Spec => []RecordedKept`, from `KeptInv`.
* `HonestAlways`: `Spec => []HonestVerifies`. A chain whose checkpoints are bound to it
  verifies from wherever it starts (`ChainVerifies`); an export is one (`Exported`, `Sliced`),
  and its checkpoint covers it exactly when the file ends with it (`Closed`).
* `TamperAlways`: `Spec => []TamperEvident`. One lemma per kind of change (`RemovedSeen` to
  `SwappedSeen`); all rest on `Continues`: an entry that verifies with others before it
  names one of them as its predecessor and has a higher number than all of them.
* `RechainedAlways`: `Spec => []RechainedUntrusted`. `Heads` meets its recursive equation (`HeadsFound`),
  hence the log chained again has its entries where the log had them, linked, and from the
  rewritten one on every hash is another (`AgainRedone`, `Parted`). A checkpoint that covers
  that entry signs a head the chain no longer has (`HeadSigned`), or is not the notary's.
* `ForkAlways`: `Spec => []ForkSeen`. A slice has the entries `a..M` of its log (`PrefixSliced`).
  Two of one log agree (`OneLog`); of two logs that have parted an entry both have differs
  (`MeetsApart`), and where one ends the other does not go on (`EndsApart`).

### The relay (`Relay_proofs`)

All four properties of the run `Relay`, with or without the loss of the nonce file.

* `PickupsAccounted`, `DeniedNeverWaits`: `Spec => []PickedAccounted`, `Spec => []DeniedStaysOut`,
  from one invariant (`SpoolInv`): an envelope a pickup has read and not yet moved is part
  of its response (`OutInv`); the one a delivery has counted is new, the one it has written
  is not, and one delivery at a time is between the two (`DeliverInv`, the rate lock); a
  refused one is neither new nor in the spool (`DeniedInv`).
* `DiskStaysBounded`: `Spec => []DiskBounded`. `DiskInv` adds that while a delivery is between its
  two counts the first one still holds: pickups only take out of the spool, and no
  other delivery writes. When the second count is taken, both bounds hold at once.
* `RequestsAnsweredOnce`: `Spec => AnsweredOnce`. `AuthInv` says what bars a request accepted
  before: its stored nonce, stored within one window of its time, or else the end of its
  time band, since a nonce is dropped only when it is two windows old (`DroppedIsLate`).

### The attachments (`Attach_proofs`)

* `StoredHasItsHash`: `Spec => []StoredIsRight`. Calls that do not overlap run one at a
  time (`Alone`), so `.partial` is still what was verified when it is moved (`VerifiedInv`).
* `WorkWithinBound`: `Spec => []WorkBounded`, for any contents and receivers. The quota is
  compared at chunk 0 only, with what the others have appended so far. `QuotaInv` sets apart
  room for the whole size of every transfer that was compared and is not complete (`Room`,
  `Admitted`) and bounds what that and the other work files add up to. A transfer that is
  admitted fits beside what is really there, and each of the others sets apart at most one
  content (`AtMostContents`, `RoomAdmitted`); the other steps set no more apart (`NotMore`,
  `NoMoreRoom`), or move what was there to another file (`MovedAside`, `RoomMovedAside`).

### The session lock and the claims (`SingleFlight_proofs`)

* `OneWorker`: `Spec => []Exclusive`, and `FlightTypeCorrect`: `Spec => []TypeOK`. A lease
  is a session's memory, the lock a file others write; `LeaseInv` ties them: a lease that has
  not lapsed, given by a record about the session itself, is backed by a lock under its name,
  of the same strategy and not older than the lease, whose holder the code's own test finds
  alive (`LiveHolder`). `RecordInv`
  is the shape of a record; `OwnInv`: of the live sessions of one name only the last writer has
  the record as its own. A session told by a record about another one is excepted (5).
* `ClaimsStand`: `Spec => []ClaimHolds`, for sessions that are not named after the command
  that ran `acquire` for them (5). `ClaimInv`: whoever works on a message is
  alive, and no sweep that has already decided has the message on its list.

### The duty supervisor (`Duty_proofs`)

Both properties of the run `Duty`, for any thresholds, numbers of faults and settings of
the clock.

* `NoticesTrue`: `Spec => []NoticeTrue`. The state file holds times of a wall clock that may
  have been set since. `DutyInv` reads each as a step: the last finished run (`Last`) saw the
  clock ahead of the steps by `Ahead`, so the time `t` stands for step `t - Ahead`. `Facts`
  says that this step lies between the one since which the pane has been seen and `Last`.
  `Shift`: the correction of the next run keeps every step when the clock was set, and
  moves it later, but not past the present, when the machine was rebooted; so nothing
  gets older than it is. `Clocks` is what makes this computation exact: the two stamps are
  of one run, and the machine was booted before it or not before it ended.
* `StallsTold`: `Spec => []StallTold`. For a row of runs that showed one pane `RowFacts` gives
  the other bound: its time runs since the first of them at the latest, and once the row is
  longer than the limit, the supervisor was told less than `Remind` steps before the last
  run (`Overdue`, `RowAlerts`). Only the first run of a row moves its time (`TakenRow`).

### Only model-checked

* Liveness under fairness (`RecvDelivers`, `RoundsDeliver`, `LockReclaimed`,
  `TransferCompletes`, `Decided`, `Fed`): out of the prover's reach.

## 5. Observed

Behaviours met while modelling, in which the code does something a comment, a
document or a reader would not expect. Where a run and a property are named, TLC finds the
property violated when it is put in place of the run's; where constants are given, with them in
place of the run's.
Two of them are kept as small configurations of their own, outside the runs:
`CursorBack.cfg` (of `MCAgentBus`, `CursorForward`) and `ExchangeRefused.cfg` (of
`MCExchange`, `CursorAfterStorage`).

### Mailbox and audit chain

* `ack` computes its target before its transaction (`agent_bus.py:1165`); a
  `recv(mark)` in between is undone and the cursor moves back, where `:1159` says "ONLY
  FORWARD". `SharedProduct` with `CursorForward`: p1's `ack` reads the cursor 0, p2's
  `recv(mark)` moves it to 1, p1 writes 0. In product mode the rows handed over come onto a page again, are refused as seen, and reconcile lists them as never
  delivered: `SharedProduct` with `NoFalseAccusation`.
* The strict envelope gate drops a row (`:845`) after the transaction has marked it read,
  seen and delivered, and no audit row names it (`:754-755` say otherwise). `"sds"` in
  `Verdicts`, `Ops = {"recv"}`: `NothingLost` is violated.
* Replay copies a row that is only rejected for the time being; the copy is
  rejected too, and the original can never be replayed again (`:1248`; `:908-910`).
  `"future"` in `Verdicts` and `"replay"` in `Ops`: `NotStranded` is violated.
* A response lost after `mark_delivered`, in a round that brought out a row below what
  the client had stored: the next ack steps over it (`bus_ssh_exchange.py:276`;
  `:30-31`). `RemoteRound` with `"lossy"` in `Ops`: `NothingLost` is violated.
* A page of permanently rejected rows: nothing to mark, the strict ack stays, the
  same page comes for ever (`agent_bus.py:1089`; `:975-976`). `"stale"` in `Verdicts`: without
  `NoneRejected`, `RoundsDeliver` is violated.
* Two calls that read the head outside a transaction chain onto the same row, and
  `audit_verify` reports the bus's own rows (`:346`; `:343` says "no TOCTOU"). `AuditChain`
  with `HonestAccepted` is violated. It is never unseen: `BranchOrAccepted`.
* Dev mode with a free `ack`, then `recv(mark)`: `delivered_id` jumps over ids the ack
  skipped, and reconcile no longer lists them. `Product = FALSE`, `Strict = FALSE`,
  `Ops = {"recv", "ack"}`: `NothingLost` is violated. This is why `SharedDev` does not
  check it.
* A peek names a row of an unregistered key; later the row is accepted and delivered by
  `recv(mark)`; reconcile still lists it, as only `remote_delivered` rows close a
  rejection. `Product = TRUE`, `Ops = {"age", "recv", "peek"}`: `NoFalseAccusation` is
  violated.
* Two operators replaying in dev mode both send a copy before either logs one: the
  unique index keeps the log at one row, the mailbox has two copies. The code's
  comment (`agent_bus.py:388-389`) speaks of the log row.
* `mark_delivered` reads the blocking rows (`agent_bus.py:1115`) before its
  transaction. A message that arrives between is below the new `delivered_id`
  without having been delivered (`:1123-1124`). `Product = TRUE`,
  `Ops = {"peek", "mark", "ack"}`: an ack of any id then steps over it and `NothingLost` is
  violated. A client that acknowledges only ids it has stored (`RemoteRound`) does not.
* `pending_blocking_ids` cuts at its LIMIT before it filters the rejected rows
  (`agent_bus.py:955`): a backlog longer than that is not looked at. With
  `PendLimit = 1` and the `RemoteRound` calls without `crash`, 3 rows and a page of 2,
  `NothingLost` still holds: again the client's acknowledging only stored ids keeps the
  cursor off the rows the level wrongly covers.
* `mark_delivered` recomputes `delivered_id`, which may go down; its docstring calls it
  monotonic. `WithinDelivered` holds nevertheless.

### Rounds and their evidence

* A reply that the client's own bus refuses (`ValueError`, a bad sds frame) is not stored,
  advances `stored_max` all the same, and is acknowledged in the next round
  (`bus_ssh_client.py:188-190`), where the docstring says that "the server's cursor steps only
  AFTER successful local storage" (`:15`). The row is gone on both sides: the bus counts it as
  delivered and read, the client has no trace of it. `Exchange` with
  `CursorAfterStorage` is violated, also without a fault. It is the exception of
  `AckedIsStored` (`Refusable`).
* An ack repeated without effect is logged and has no audit row, and `_audit_cross` counts
  a missing row: the honest bus is accused (`bus_notary.py:671`; `:606`). `Exchange`:
  `HonestRoundNotAccused` is violated.
* An endpoint killed between the entry of an ack and the ack: the log of the next
  round says that the cursor moved without one. A log write that fails ends the
  round without a word on which messages were processed, and the client's receipt then
  accuses the bus (`sent_not_logged`). Rounds that overlap log the same step twice. These
  three are exceptions of `NotAccused`.
* A message that arrives between the two peeks of a round (`bus_ssh_exchange.py:220`,
  `:223`) is left behind, the round says, although it had room on the page: `pending` is
  more than `replies`, and `next_id` is its id. When the answer of that round is
  lost, the next one gives out both, and the client acknowledges them. reconcile adds up
  the rounds since the last ack and keeps the smaller `next_id` (`bus_notary.py:1147-1152`),
  so the honest bus has a hard `cursor_skips_undelivered` (`:1191-1196`). `Exchange` with
  `MaxReplies = 2`: without the exception `Latecomer`, `NotAccused` is violated.
* An answer that was lost counts as a hard `delivered_not_received` until its
  replies have been fetched again (`Awaited`).
* The client killed between storing a reply and saving `stored_max` stores it again in
  the next round (`bus_ssh_client.py:191`), the exception of `StoredOnce`.
* In dev mode a failing `mark_delivered` lets the next ack count the rows as
  skipped, which contradicts what the round said.

### Notary log

* An entry written behind a line without newline makes one line of two: `record`
  returns, and the log is broken from there on (the one entry `RecordedKept` allows to be
  missing). After any broken line `record` fails for good, while
  `last_round_cursor` steps over it.
* `compare` calls two slices consistent that lie in two branches and do not touch, when
  they share no more than an old checkpoint; `ForkSeen` is therefore about slices that
  touch.

### Relay

* A nonce file that was lost is empty after the restart; the next restart finds it and
  sets no `not_before` (`bus_relay.py:158-159`): a request used before is accepted
  again within its time band, as is one whose signer's clock runs ahead (`:228`).
  `NeverReplayed` is violated.
* A pickup between the write of an envelope and its failing notary entry takes the
  envelope that the sender is told was not accepted (`:335-336` say it is not in the
  spool). `DeliveredIsNoted` is violated.
* Two concurrent pickups may both return an envelope; a lost response loses the
  envelopes picked for it; the nonce of a pickup refused with 503 is spent.

### Attachments

* Killed between the append of the only chunk and the write of `next_seq`, or of the last
  one and in the middle of that write, a transfer leaves a full `.partial` with a `next_seq` of 0:
  every further chunk 0 is too much, and since no transfer counts as begun, none is
  abandoned (`bus_attach.py:190-196`): `Wedged`, an exception of `TransferCompletes`.
* Two overlapping calls of one content can store something else under its hash: the
  file that was verified need not be the one that is moved (`:234`; `:173-174`).
  `Attach` without `Apart`: `StoredAlwaysRight` is violated.
* The quota is compared at chunk 0, with what other contents have appended by then
  (`:209-213`): transfers that begin side by side pass it together, by up to the rest of all
  but one of them. `WorkBounded` states how far; with `MaxWork` alone as the bound it is violated
  without a fault.
* A content that is rejected a second time replaces its first `.rejected.<seq>` file (`:230`),
  where `:34` says that such files never disappear. `Attach` with `RejectedKept` is violated.
* Killed between the two moves of an orphan, a transfer goes on that was never compared
  with the quota (`halfMoved`, the exception of `WorkBounded`).

### Single flight

* The command line's default name ends in the pid of the `acquire` command, which has
  exited when the session claims; `requeue_dead` then takes its claims for dead
  (`bus_singleflight.py:535`; `:552-553`). `"cli"` in `Styles`: `ClaimHolds` is violated.
* Under a given name a session that acquires or beats without a signal keeps the pid and the
  birth of the record it finds, which may be those of a dead predecessor, and is told
  "already-own" (`:387-390`; `:381-384` speak of its own live lock). `SingleFlight` with `OneActiveWorker`: a
  session dies, its successor under the same name acquires bare, a third session finds the
  owner dead and is told `acquired`; both work, with neither lease lapsed, where `:15` says "one
  active worker". The same session loses its claims: once the files are older than
  `CLAIM_TTL`, `requeue_dead` of another one takes the message it still works on. Hence `own` in
  `GoodLease`, which `Exclusive` and the forfeits of `ClaimHolds` (`RanOut`) use.
* Two live sessions of one given name are both told "already-own" (`:380`), and either takes up
  what the other has claimed (`claimed_paths`). `Overwritten` and `NoteShared` except them.
* `requeue_dead` decides before it renames: a session that starts under the dead name
  in between has its claims taken. The freshness of a claim is the age of the
  message file, not of the claim. Both are `forfeit`, exceptions of `ClaimHolds`.

### Watcher, wake, poker

* A `recv` that raises during the debounce drops the pending batch, and the top of the
  page stays logged: nothing is decided about these messages until newer mail comes
  (`agent_bus_watcher.py:147-148`, `:173`). The exception `forgot` of `Decided`.
* A batch that was skipped (rate limit, another wake, asleep, disarmed, error) is not
  taken up again until newer mail comes (`:171`). Errors and timeouts do not count
  in the rate limit.
* Rows behind the page, and the operator's commands among them, are not looked at until the
  cursor moves. In product mode, a row that is accepted later than a newer one was logged
  is never decided about.
* A watcher that is started again obeys the unread commands again (`:143`), also a
  `sleep-all` that another agent's `wake-all` has revoked since.
* A watcher that is killed frees its lock while its session runs on: the next wake
  starts a second one.
* Files already in the inbox when the poker starts get into the feed at the next event; a
  refused poke (cooldown, busy, text in the prompt) is not repeated (`bus_poke.py:330`).
  What is typed between the look and the keys is sent with the poke. A sender killed
  before the rename leaves its temporary file.

### Duty

* `stuck_busy` is set with the first alert about a busy pane and never cleared, so a later
  alert about an idle or a missing pane says "looks working" (`agent_duty.py:97`,
  `:262`); `stuck_waiting` is set and never read.
* `waiting_same_since` and `alerted_waiting` are not among the times that are shifted with
  the clock (`:241-242`; the comment at `:235-236` says the elapsed time is preserved): hence
  `moved` in both properties. A clock set while the machine was down cannot be told from
  the time it was down (`blind`).
* A foreign text in the prompt keeps poker and duty silent for as long as it is there; the
  waker's own text gets an Enter every four minutes and is never an alert. `done` is told once
  for an assignment. A run killed between the alert and the save tells twice.

## 6. Not modelled, and why

* Signatures, key guard, enrolment, the decision hook, packaging, probes and tools: no
  state of their own that changes in steps; cryptography is taken as what a
  signature proves.
* The modes and the registry of `bus_enforce` beyond their verdicts, `sync` and `doctor`
  (read-only, or run by hand while nothing else does).
* `sds_envelope`: only whether the gate drops a row.
* The relay's event streams, its sealing and `wait_pending`: pure transport.
* Two clients of one identity on one state file: the models run one at a time. Several
  agents, each with its watcher (they share the `all` marker only, which `Change` covers).
* The wording of feeds, alerts and logs; which pane belongs to an agent (a free
  choice in `Wakeup`).

## 7. Plan

Models: product-mode verdicts in the watcher's page and in `Exchange`; two clients of
one identity; the relay's event slots.
