-------------------------------- MODULE Wakeup --------------------------------
(***************************************************************************)
(* How mail reaches an agent that is not looking: the watcher              *)
(* (agent_bus_watcher.py) polls the mailbox, obeys the operators' wake and *)
(* sleep commands (agent_wake.py) and starts a headless session; the poker *)
(* (bus_poke.py) watches the inbox of mirrored files, writes the feed and  *)
(* types a fixed text into the agent's pane.  Both are processes that may  *)
(* be killed and are started again with an empty memory.                   *)
(*                                                                         *)
(* One agent; its mail is numbered from 1.  Delays (poll, debounce,        *)
(* cooldown, rate window, session) are steps that may come at any time.    *)
(***************************************************************************)
EXTENDS Naturals, Sequences, SequencesExt

CONSTANTS
    Running,     \* which of the two processes an installation runs
    Letters,     \* the messages that may be sent, see Letter
    RecvLimit,   \* _RECV_LIMIT: rows of a page
    MaxPerMin,   \* sessions per minute
    MaxMail,     \* bound: messages
    MaxChanges,  \* bound: what operators and the agent do
    MaxFaults    \* bound: kills, failing reads, another wake

Scopes == {"agent", "all"}

\* Plain mail, or an operator's command for this agent or for everyone; one
\* that is not properly signed, or not an operator's, is not valid.
Letter == [kind : {"plain", "wake", "sleep"}, scope : Scopes, valid : BOOLEAN]

ASSUME WakeupAssumption ==
    /\ Running \subseteq SUBSET {"watcher", "poker"}
    /\ Letters \subseteq Letter
    /\ {RecvLimit, MaxPerMin} \subseteq Nat \ {0}
    /\ {MaxMail, MaxChanges, MaxFaults} \subseteq Nat

VARIABLES
    running,       \* the processes of this installation
    mail, cursor,  \* the agent's rows and its last_seen_id
    tmp, inbox,    \* mirrored files: being written, and in place
    markers,       \* the sleep-safe markers that concern the agent
    armed,         \* the arm flag
    w,             \* the watcher: [pc, top, pending, handled, recent]
    lock,          \* who holds the wake lock: "nobody", "watcher" or "other"
    orphans,       \* sessions whose watcher was killed
    undecided,     \* mail nobody has read nor decided a wake about (history)
    forgot,        \* a failing read has ended the debounce (history)
    events,        \* what the kernel has queued for the poker's watch
    p,             \* the poker: [by, pc, gathered, seen, cooling]
    pane,          \* what the agent's prompt shows
    owed,          \* files put in place under the poker's eyes (history)
    left           \* [changes, faults]: the bounds

watcherVars == <<w, lock, orphans, undecided, forgot>>
pokerVars   == <<events, p, owed>>
boxVars     == <<running, mail, cursor, tmp, inbox>>
vars == <<boxVars, markers, armed, watcherVars, pokerVars, pane, left>>

Ids == 1..Len(mail)

Asleep == markers # {}

LowerOf(a, b) == IF a < b THEN a ELSE b

Page == (cursor + 1)..LowerOf(Len(mail), cursor + RecvLimit)

Spend(what) == left[what] > 0 /\ left' = [left EXCEPT ![what] = @ - 1]

-----------------------------------------------------------------------------
(* agent_wake: the operators' commands *)

\* Waking everyone takes away every marker, waking the agent only its own.
Obey(ms, letter) ==
    IF ~letter.valid THEN ms
    ELSE CASE letter.kind = "wake"  -> IF letter.scope = "all" THEN {} ELSE ms \ {letter.scope}
           [] letter.kind = "sleep" -> ms \cup {letter.scope}
           [] OTHER                 -> ms

\* The commands of the page not obeyed before, in the order of the rows.
Commands == {i \in Page \ w.handled : mail[i].kind # "plain"}

Obeyed == FoldLeft(LAMBDA ms, i : Obey(ms, mail[i]), markers, SetToSortSeq(Commands, <))

-----------------------------------------------------------------------------
(* agent_bus_watcher *)

FreshWatcher ==
    [pc |-> IF "watcher" \in running THEN "poll" ELSE "off", top |-> 0, pending |-> "no", handled |-> {}, recent |-> 0]

\* Mutant: every poll that sees mail starts the debounce again.
NewTop_Always == TRUE

NewTop == LowerOf(Len(mail), cursor + RecvLimit) # w.top

\* One turn of the loop up to the call of wake.
Poll ==
    /\ w.pc = "poll"
    /\ markers' = Obeyed
    /\ LET heard == [w EXCEPT !.handled = @ \cup Commands] IN
       \/ /\ Page = {}
          /\ w' = [heard EXCEPT !.pending = "no"]
          /\ UNCHANGED <<undecided, forgot>>
       \/ /\ Page # {} /\ NewTop
          /\ w' = [heard EXCEPT !.top = LowerOf(Len(mail), cursor + RecvLimit), !.pending = "yes"]
          /\ forgot' = FALSE
          /\ UNCHANGED undecided
       \/ /\ Page # {} /\ ~NewTop /\ w.pending = "due"
          /\ w' = [heard EXCEPT !.pending = "no",
                               !.pc = IF w.recent >= MaxPerMin THEN "poll" ELSE "wake"]
          /\ undecided' = undecided \ Page
          /\ UNCHANGED forgot
       \/ /\ Page # {} /\ ~NewTop /\ w.pending # "due"
          /\ w' = heard
          /\ UNCHANGED <<undecided, forgot>>
    /\ UNCHANGED <<boxVars, armed, lock, orphans, pokerVars, pane, left>>

DebounceEnds ==
    /\ w.pending = "yes" /\ w' = [w EXCEPT !.pending = "due"]
    /\ UNCHANGED <<boxVars, markers, armed, lock, orphans, undecided, forgot, pokerVars, pane, left>>

\* A read that raises counts as an empty mailbox.
RecvFails ==
    /\ w.pc = "poll" /\ Spend("faults")
    /\ w' = [w EXCEPT !.pending = "no"]
    /\ forgot' = (forgot \/ w.pending # "no")
    /\ UNCHANGED <<boxVars, markers, armed, lock, orphans, undecided, pokerVars, pane>>

\* wake: a sleeping or disarmed agent, or one another wake is running for, is
\* left alone; else the session starts under the lock.
Wake ==
    /\ w.pc = "wake"
    /\ LET starts == ~Asleep /\ armed /\ lock = "nobody" IN
       /\ w'    = [w EXCEPT !.pc = IF starts THEN "session" ELSE "poll"]
       /\ lock' = IF starts THEN "watcher" ELSE lock
    /\ UNCHANGED <<boxVars, markers, armed, orphans, undecided, forgot, pokerVars, pane, left>>

\* The session ends or is ended by the timeout; only the first counts.
SessionEnds ==
    /\ w.pc = "session" /\ lock' = "nobody"
    /\ \E woke \in BOOLEAN :
          w' = [w EXCEPT !.pc = "poll", !.recent = IF woke THEN @ + 1 ELSE @]
    /\ UNCHANGED <<boxVars, markers, armed, orphans, undecided, forgot, pokerVars, pane, left>>

MinutePasses ==
    /\ w.recent > 0 /\ w' = [w EXCEPT !.recent = @ - 1]
    /\ UNCHANGED <<boxVars, markers, armed, lock, orphans, undecided, forgot, pokerVars, pane, left>>

\* The kernel frees the lock of a killed watcher, its session runs on.
WatcherDies ==
    /\ w.pc # "off" /\ Spend("faults")
    /\ w' = FreshWatcher /\ forgot' = FALSE
    /\ lock' = IF lock = "watcher" THEN "nobody" ELSE lock
    /\ orphans' = IF w.pc = "session" THEN orphans + 1 ELSE orphans
    /\ UNCHANGED <<boxVars, markers, armed, undecided, pokerVars, pane>>

\* Another watcher of the same agent, and a session nobody waits for.
OtherWake ==
    /\ \/ lock = "nobody" /\ w.pc # "off" /\ Spend("faults") /\ lock' = "other" /\ UNCHANGED orphans
       \/ lock = "other" /\ lock' = "nobody" /\ UNCHANGED <<left, orphans>>
       \/ orphans > 0 /\ orphans' = orphans - 1 /\ UNCHANGED <<left, lock>>
    /\ UNCHANGED <<boxVars, markers, armed, w, undecided, forgot, pokerVars, pane>>

-----------------------------------------------------------------------------
(* bus_poke *)

FreshPoker(by) ==
    [by |-> by, pc |-> IF "poker" \in running THEN "select" ELSE "off",
     gathered |-> {}, seen |-> inbox, cooling |-> FALSE]

\* surface_pending: a line in the feed for every file that is in the inbox.
Feed == owed' = owed \ inbox

\* resolve_target: a pane is found or not - the no-poke marker, the switch, the
\* owner of the session lock, the registry file, the names of the sessions.
Targets == BOOLEAN

\* on_new: the feed always; the pane only for an agent that is awake, has a
\* pane and was not poked just now.
OnNew(q) ==
    /\ Feed
    /\ \E target \in Targets :
          p' = [q EXCEPT !.pc = IF inbox # {} /\ ~q.cooling /\ ~Asleep /\ target
                                THEN "look" ELSE "select"]

PokeRead ==
    /\ p.by = "inotify" /\ p.pc = "select" /\ events # {}
    /\ p' = [p EXCEPT !.pc = "debounce", !.gathered = events]
    /\ events' = {}
    /\ UNCHANGED <<boxVars, markers, armed, watcherVars, owed, pane, left>>

\* Mutant: what came during the debounce is read and dropped.
Leftover_Dropped == {}

Leftover == events

\* Only events of .json files count, not those of the file being written.
Counts(read) == "json" \in read

PokeSlurp ==
    /\ p.pc = "debounce"
    /\ events' = {}
    /\ LET q == [p EXCEPT !.pc = "select", !.gathered = {}] IN
       IF Counts(p.gathered \cup Leftover) THEN OnNew(q) ELSE p' = q /\ UNCHANGED owed
    /\ UNCHANGED <<boxVars, markers, armed, watcherVars, pane, left>>

PokePoll ==
    /\ p.by = "poll" /\ p.pc = "select"
    /\ LET q == [p EXCEPT !.seen = inbox] IN
       IF inbox # p.seen /\ inbox # {} THEN OnNew(q) ELSE p' = q /\ UNCHANGED owed
    /\ UNCHANGED <<boxVars, markers, armed, watcherVars, events, pane, left>>

\* may_poke, on what the pane shows now.
PokeLook ==
    /\ p.pc = "look"
    /\ p' = [p EXCEPT !.pc = IF ~Asleep /\ pane = "empty" THEN "send" ELSE "select"]
    /\ UNCHANGED <<boxVars, markers, armed, watcherVars, events, owed, pane, left>>

\* The text and an Enter, into whatever the pane shows by now; the text may
\* stay in the prompt.
PokeSend ==
    /\ p.pc = "send"
    /\ p' = [p EXCEPT !.pc = IF pane = "dead" THEN "select" ELSE "settle"]
    /\ pane' \in CASE pane = "dead" -> {"dead"}
                   [] pane = "busy" -> {"busy"}
                   [] OTHER         -> {"empty", "typed", "busy"}
    /\ UNCHANGED <<boxVars, markers, armed, watcherVars, events, owed, left>>

\* Only a poke that went out starts the cooldown.
PokeSettle ==
    /\ p.pc = "settle"
    /\ p' = [p EXCEPT !.pc = "select", !.cooling = @ \/ pane \in {"empty", "busy"}]
    /\ UNCHANGED <<boxVars, markers, armed, watcherVars, events, owed, pane, left>>

CooldownEnds ==
    /\ p.cooling /\ p' = [p EXCEPT !.cooling = FALSE]
    /\ UNCHANGED <<boxVars, markers, armed, watcherVars, events, owed, pane, left>>

PokerDies ==
    /\ p.pc # "off" /\ Spend("faults")
    /\ p' = FreshPoker(p.by) /\ events' = {} /\ owed' = {}
    /\ UNCHANGED <<boxVars, markers, armed, watcherVars, pane>>

-----------------------------------------------------------------------------
(* The senders, the agent and the operators *)

\* send commits the row and mirrors it: a temporary file, then a rename.  The
\* mirror is best-effort, and its sender may be killed before it or within.
Send ==
    /\ Len(mail) < MaxMail
    /\ \E letter \in Letters : mail' = Append(mail, letter)
    /\ undecided' = IF w.pc = "off" THEN undecided ELSE undecided \cup {Len(mail) + 1}
    /\ \E mirrored \in IF "poker" \in running THEN BOOLEAN ELSE {FALSE} :
          /\ tmp'    = IF mirrored THEN tmp \cup {Len(mail) + 1} ELSE tmp
          /\ events' = IF mirrored THEN events \cup {"tmp"} ELSE events
    /\ UNCHANGED <<running, cursor, inbox, markers, armed, w, lock, orphans, forgot, p, owed, pane, left>>

Rename ==
    /\ \E i \in tmp :
          /\ tmp' = tmp \ {i} /\ inbox' = inbox \cup {i} /\ owed' = owed \cup {i}
    /\ events' = events \cup {"json"}
    /\ UNCHANGED <<running, mail, cursor, markers, armed, watcherVars, p, pane, left>>

\* The agent, in its pane or in a session, reads its mail; it archives a file.
ReadMail ==
    /\ w.pc # "off" /\ Page # {} /\ cursor' = LowerOf(Len(mail), cursor + RecvLimit)
    /\ undecided' = undecided \ (1..cursor')
    /\ UNCHANGED <<running, mail, tmp, inbox, markers, armed, w, lock, orphans, forgot, pokerVars, pane, left>>

Archive ==
    /\ \E i \in inbox : inbox' = inbox \ {i} /\ owed' = owed \ {i}
    /\ UNCHANGED <<running, mail, cursor, tmp, markers, armed, watcherVars, events, p, pane, left>>

\* The pane changes; the arm flag does; a command to another agent is obeyed.
Change ==
    /\ Spend("changes")
    /\ \/ p.pc # "off" /\ pane' \in {"empty", "typed", "busy", "dead"} \ {pane} /\ UNCHANGED <<armed, markers>>
       \/ w.pc # "off" /\ armed' = ~armed /\ UNCHANGED <<pane, markers>>
       \/ markers' \in SUBSET Scopes \ {markers} /\ UNCHANGED <<pane, armed>>
    /\ UNCHANGED <<boxVars, watcherVars, pokerVars>>

Init ==
    /\ running \in Running
    /\ mail = <<>> /\ cursor = 0 /\ tmp = {} /\ inbox = {}
    /\ markers = {} /\ armed = TRUE
    /\ w = FreshWatcher /\ lock = "nobody" /\ orphans = 0
    /\ undecided = {} /\ forgot = FALSE
    /\ events = {} /\ owed = {} /\ pane = "empty"
    /\ \E by \in IF "poker" \in running THEN {"inotify", "poll"} ELSE {"poll"} : p = FreshPoker(by)
    /\ left = [changes |-> MaxChanges, faults |-> MaxFaults]

Next ==
    \/ Poll \/ DebounceEnds \/ RecvFails \/ Wake \/ SessionEnds \/ MinutePasses
    \/ WatcherDies \/ OtherWake
    \/ PokeRead \/ PokeSlurp \/ PokePoll \/ PokeLook \/ PokeSend \/ PokeSettle
    \/ CooldownEnds \/ PokerDies
    \/ Send \/ Rename \/ ReadMail \/ Archive \/ Change

\* The two processes run, and time passes: a debounce ends, a session ends or
\* is ended by its timeout.  Nobody must read, archive or change anything.
Spec ==
    /\ Init /\ [][Next]_vars
    /\ WF_vars(Poll) /\ WF_vars(DebounceEnds) /\ WF_vars(Wake) /\ WF_vars(SessionEnds)
    /\ WF_vars(PokeRead) /\ WF_vars(PokeSlurp) /\ WF_vars(PokePoll)
    /\ WF_vars(PokeLook) /\ WF_vars(PokeSend) /\ WF_vars(PokeSettle)

-----------------------------------------------------------------------------
(* Properties *)

\* run: every unread row that comes onto the watcher's page is in the end read
\* by the agent, or in a batch the watcher has decided about (woken, or skipped
\* for a reason it logs), over new mail, kills, sessions and other wakes -
\* unless a failing read has ended the debounce.
Decided ==
    \A i \in 1..MaxMail :
        (i \in undecided /\ i <= cursor + RecvLimit) ~> (i \notin undecided \/ forgot)

\* Poker: every file put in place while the poker runs is in the end in the
\* feed, or archived, or the poker has been killed - whenever its events come,
\* whatever the pane shows and whether the agent sleeps.
Fed == \A i \in 1..MaxMail : (i \in owed) ~> (i \notin owed)
=============================================================================
