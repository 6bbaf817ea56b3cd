------------------------------ MODULE PlanWrites ------------------------------
(***************************************************************************)
(* The durable copies of one session's plan.  The plan lives in memory     *)
(* (core/task-ledger.ts) and is kept twice outside it, by the two write    *)
(* disciplines of agentbox/keyed-writes.ts: a snapshot file, of which only *)
(* the newest matters (createCoalescedWriter), and the log of task events  *)
(* in the control plane, replayed to rebuild the plan (createSerialQueue). *)
(* Tool calls change the plan in batches while writes are outstanding; the *)
(* session is released, reopened, closed or restored from the log, the     *)
(* emptied plan is cleared by a timer, and the process may die.            *)
(*                                                                         *)
(* An upsert event refers to the live task: what it appends is the state   *)
(* the task has when its turn to be sent comes, or had when it left the    *)
(* plan (emitUpsert hands the ledger's own object on).                     *)
(***************************************************************************)
EXTENDS Naturals, Sequences, SequencesExt

CONSTANTS
    MaxTasks,       \* tasks one ledger numbers
    MaxChanges,     \* tool calls
    MaxLosses       \* failed writes and appends, and process deaths, together

ASSUME PlanAssumption == {MaxTasks, MaxChanges, MaxLosses} \subseteq Nat

VARIABLES
    held,       \* ledgers has an entry for the session
    plan,       \* its tasks (kept, for the properties, when the entry is dropped)
    seq,        \* TaskLedger.seq
    hide,       \* ledgerHideTimers has a timer for it
    chain,      \* task events pushed and not yet being sent
    sending,    \* the append in flight: no event or one
    logged,     \* what a replay of the control plane's log gives
    flight,     \* the snapshot write in flight
    again,      \* the key is in the coalesced writer's pending set
    file,       \* .plan-ledger.json
    resident,   \* the session map has the session
    prompting,  \* a prompt of it runs, with its tools
    draining,   \* what close() is draining
    changes, losses,
    unsaved,    \* history: the last snapshot write failed
    unlogged,   \* history: an append failed
    orphaned    \* history: a copy has lost what nothing will write again

planVars == <<held, plan, seq, hide, chain, sending, logged, flight, again, file, resident,
              prompting, draining, changes, losses, unsaved, unlogged, orphaned>>

Ids == 1..MaxTasks
Status == {"none", "pending", "completed"}
Plan == [Ids -> Status]
Empty == [t \in Ids |-> "none"]
Tasks(p) == {t \in Ids : p[t] # "none"}

\* TaskLedger.allCompleted
AllCompleted(p) == Tasks(p) # {} /\ \A t \in Tasks(p) : p[t] = "completed"

\* The highest id of a set of tasks: what hydrate() leaves in seq.
HighWater(s) == IF s = {} THEN 0 ELSE CHOOSE t \in s : \A u \in s : u <= t

\* A queued event: an upsert of the live task, an upsert frozen when the task left
\* the plan, a delete, or a reset.
Event == [task : Ids, to : {"live", "pending", "completed", "none"}] \cup {[task |-> 0, to |-> "reset"]}

Upsert(t) == [task |-> t, to |-> "live"]
Delete(t) == [task |-> t, to |-> "none"]
Reset == [task |-> 0, to |-> "reset"]

\* The body of the append, serialised when it is sent.
Body(e) == IF e.to = "live" THEN [e EXCEPT !.to = plan[e.task]] ELSE e

\* The tasks of `gone' leave the ledger: events that refer to them keep what they were.
Freeze(q, gone) ==
    [i \in DOMAIN q |-> IF q[i].to = "live" /\ q[i].task \in gone THEN Body(q[i]) ELSE q[i]]

\* restoreTaskLedgerFromHistory(), one event of the log.
Replay(log, e) ==
    [plan |-> IF e.to = "reset" THEN Empty ELSE [log.plan EXCEPT ![e.task] = e.to],
     high |-> IF e.to \in {"pending", "completed"} /\ e.task > log.high THEN e.task ELSE log.high,
     any |-> TRUE]

Idle == [state |-> "idle", plan |-> Empty]

\* write(key): the ledger is read when the write starts; without one nothing is written.
WriteOf(has, p) == IF has THEN [state |-> "data", plan |-> p] ELSE [state |-> "nothing", plan |-> Empty]

NotClosing == [open |-> FALSE, events |-> 0, snapshot |-> FALSE]

PlanInit ==
    /\ held = FALSE /\ plan = Empty /\ seq = 0 /\ hide = FALSE
    /\ chain = <<>> /\ sending = <<>>
    /\ logged = [plan |-> Empty, high |-> 0, any |-> FALSE]
    /\ flight = Idle /\ again = FALSE /\ file = Empty
    /\ resident = FALSE /\ prompting = FALSE /\ draining = NotClosing
    /\ changes = 0 /\ losses = 0 /\ unsaved = FALSE
    /\ unlogged = FALSE /\ orphaned = FALSE

\* Mutant: a request that finds a write in flight leaves nothing behind it.
SnapshotOnce(first, n) ==
    /\ flight' = IF flight.state = "idle" THEN WriteOf(TRUE, first) ELSE flight
    /\ again' = again

\* Requests the snapshot: the first of a batch starts the write, with the plan as it
\* was after that event, the others leave one follow-up behind it.
Snapshot(first, n) ==
    /\ flight' = IF flight.state = "idle" THEN WriteOf(TRUE, first) ELSE flight
    /\ again' = (again \/ flight.state # "idle" \/ n > 1)

\* What the ledger holds, to a tool: getOrCreateLedger() makes an empty one.
Held == IF held THEN plan ELSE Empty
Numbered == IF held THEN seq ELSE 0

\* emitExtraEvent() for every event of a tool call or of the timer: `plans' is the
\* plan after each, the snapshot is asked for each time, the last decides the timer.
Emit(events, plans) ==
    /\ held' = TRUE
    /\ plan' = plans[Len(plans)]
    /\ chain' = Freeze(chain, {t \in Tasks(Held) : plans[Len(plans)][t] = "none"}) \o events
    /\ Snapshot(plans[1], Len(plans))
    /\ hide' = (events # <<Reset>> /\ AllCompleted(plans[Len(plans)]))
    /\ orphaned' = (orphaned \/ ~held)

Tool ==
    /\ prompting
    /\ changes < MaxChanges
    /\ changes' = changes + 1

\* task_create, one to two tasks in one call.
Created(n) ==
    [i \in 1..n |-> [t \in Ids |-> IF t \in (Numbered + 1)..(Numbered + i)
                                   THEN "pending" ELSE Held[t]]]

TaskCreate ==
    \E n \in 1..2 :
        /\ Tool
        /\ Numbered + n <= MaxTasks
        /\ seq' = Numbered + n
        /\ Emit([i \in 1..n |-> Upsert(Numbered + i)], Created(n))
        /\ UNCHANGED <<sending, logged, file, resident, prompting, draining, losses, unsaved, unlogged>>

\* task_update of one or two tasks in one call: a status, or a deletion.
UpdateOf(t, to) == IF to = "none" THEN Delete(t) ELSE Upsert(t)

Updated(s, to) ==
    [i \in DOMAIN s |-> [t \in Ids |-> IF \E j \in 1..i : s[j] = t THEN to ELSE Held[t]]]

UpdateTasks(s, to) ==
    /\ Tool
    /\ \A i \in DOMAIN s : Held[s[i]] # "none"
    /\ Len(s) = 2 => s[1] # s[2]
    /\ Emit([i \in DOMAIN s |-> UpdateOf(s[i], to)], Updated(s, to))
    /\ seq' = Numbered
    /\ UNCHANGED <<sending, logged, file, resident, prompting, draining, losses, unsaved, unlogged>>

TaskUpdate ==
    \E s \in {<<t>> : t \in Ids} \cup {<<t, u>> : t, u \in Ids}, to \in Status : UpdateTasks(s, to)

\* A call that finds no task still makes the ledger.
TaskUnknown ==
    /\ Tool
    /\ Held = Empty
    /\ held' = TRUE /\ plan' = Held /\ seq' = Numbered
    /\ orphaned' = (orphaned \/ ~held)
    /\ UNCHANGED <<hide, chain, sending, logged, flight, again, file, resident, prompting, draining,
                   losses, unsaved, unlogged>>

\* scheduleLedgerAutoClear(): the timer clears a plan that is still complete.
HideTimerFires ==
    /\ hide
    /\ IF AllCompleted(Held)
       THEN /\ Emit(<<Reset>>, <<Empty>>)
            /\ UNCHANGED seq
       ELSE /\ hide' = FALSE /\ held' = TRUE /\ plan' = Held /\ seq' = Numbered
            /\ orphaned' = (orphaned \/ ~held)
            /\ UNCHANGED <<chain, flight, again>>
    /\ UNCHANGED <<sending, logged, file, resident, prompting, draining, changes, losses, unsaved, unlogged>>

\* Mutant: nothing chains the appends of a key.
SendAnyEvent ==
    /\ sending = <<>>
    /\ \E i \in DOMAIN chain :
           /\ sending' = <<Body(chain[i])>>
           /\ chain' = RemoveAt(chain, i)
    /\ UNCHANGED <<held, plan, seq, hide, logged, flight, again, file, resident, prompting, draining,
                   changes, losses, unsaved, unlogged, orphaned>>

\* createSerialQueue(): the next event of the chain is sent, and its append ends.
SendEvent ==
    /\ sending = <<>> /\ chain # <<>>
    /\ sending' = <<Body(Head(chain))>>
    /\ chain' = Tail(chain)
    /\ UNCHANGED <<held, plan, seq, hide, logged, flight, again, file, resident, prompting, draining,
                   changes, losses, unsaved, orphaned, unlogged>>

EventEnds ==
    /\ sending # <<>>
    /\ sending' = <<>>
    /\ draining' = [draining EXCEPT !.events = IF @ > 0 THEN @ - 1 ELSE 0]

EventLands ==
    /\ EventEnds
    /\ logged' = Replay(logged, sending[1])
    /\ UNCHANGED <<held, plan, seq, hide, chain, flight, again, file, resident, prompting, changes,
                   losses, unsaved, orphaned, unlogged>>

\* The append is reported as failed, and may have been recorded all the same.
EventFails ==
    /\ EventEnds
    /\ losses < MaxLosses
    /\ losses' = losses + 1
    /\ \E e \in {0, 1} : logged' = IF e = 0 THEN logged ELSE Replay(logged, sending[1])
    /\ unlogged' = TRUE
    /\ UNCHANGED <<held, plan, seq, hide, chain, flight, again, file, resident, prompting, changes,
                   unsaved, orphaned>>

\* createCoalescedWriter(): a write ends, a pending key is written again, and drain()
\* is answered when nothing is in flight.
SnapshotEnds ==
    /\ flight.state # "idle"
    /\ flight' = IF again THEN WriteOf(held, plan) ELSE Idle
    /\ again' = FALSE
    /\ draining' = [draining EXCEPT !.snapshot = @ /\ again]

SnapshotLands ==
    /\ SnapshotEnds
    /\ file' = IF flight.state = "data" THEN flight.plan ELSE file
    /\ unsaved' = (unsaved /\ flight.state = "nothing")
    /\ UNCHANGED <<held, plan, seq, hide, chain, sending, logged, resident, prompting, changes,
                   losses, orphaned, unlogged>>

SnapshotFails ==
    /\ SnapshotEnds
    /\ flight.state = "data"
    /\ losses < MaxLosses
    /\ losses' = losses + 1
    /\ unsaved' = TRUE
    /\ UNCHANGED <<held, plan, seq, hide, chain, sending, logged, file, resident, prompting, changes,
                   orphaned, unlogged>>

\* getOrCreate(): rehydrateLedger() reads the file when the ledger is empty; the prompt starts.
ReopenSession ==
    /\ ~prompting
    /\ prompting' = TRUE /\ resident' = TRUE
    /\ IF resident
       THEN UNCHANGED <<held, plan, seq, unsaved, orphaned>>
       ELSE LET reads == Held = Empty /\ Tasks(file) # {}
            IN  /\ held' = TRUE
                /\ plan' = IF reads THEN file ELSE Held
                /\ seq' = IF reads THEN HighWater(Tasks(file)) ELSE Numbered
                /\ orphaned' = (orphaned \/ (IF held THEN reads ELSE unsaved \/ flight.state # "idle"))
                /\ unsaved' = (unsaved /\ held)
    /\ UNCHANGED <<hide, chain, sending, logged, flight, again, file, draining, changes, losses, unlogged>>

SessionPromptEnds ==
    /\ prompting
    /\ prompting' = FALSE
    /\ UNCHANGED <<held, plan, seq, hide, chain, sending, logged, flight, again, file, resident,
                   draining, changes, losses, unsaved, orphaned, unlogged>>

\* A session without a prompt leaves the memory.  (A handoff also deletes its
\* directory, the file included; that is left out.)
Release ==
    /\ resident /\ ~prompting
    /\ resident' = FALSE
    /\ UNCHANGED <<held, plan, seq, hide, chain, sending, logged, flight, again, file, prompting,
                   draining, changes, losses, unsaved, orphaned, unlogged>>

\* ensureSessionContext(): the session is released, and the log replayed into the ledger.
Restore ==
    /\ ~prompting
    /\ resident' = FALSE
    /\ logged.any
    /\ held' = TRUE
    /\ plan' = logged.plan
    /\ seq' = logged.high
    /\ Snapshot(logged.plan, 1)
    /\ chain' = Freeze(chain, Ids)
    /\ orphaned' = (chain # <<>> \/ sending # <<>> \/ draining.open)
    /\ unlogged' = FALSE
    /\ UNCHANGED <<hide, sending, logged, file, prompting, draining, changes, losses, unsaved>>

\* close(), to the point where it waits for the writes.  A prompt may still run.
CloseStarts ==
    /\ resident /\ ~draining.open
    /\ resident' = FALSE
    /\ hide' = FALSE
    /\ draining' = [open |-> TRUE, events |-> Len(chain) + Len(sending), snapshot |-> flight.state # "idle"]
    /\ UNCHANGED <<held, plan, seq, chain, sending, logged, flight, again, file, prompting, changes,
                   losses, unsaved, orphaned, unlogged>>

\* Everything it waits for has ended: deleteLedger().
CloseEnds ==
    /\ draining.open /\ draining.events = 0 /\ ~draining.snapshot
    /\ draining' = NotClosing
    /\ held' = FALSE /\ seq' = 0
    /\ chain' = Freeze(chain, Ids)
    /\ orphaned' = (orphaned \/ resident \/ prompting \/ again)
    /\ UNCHANGED <<plan, hide, sending, logged, flight, again, file, resident, prompting, changes,
                   losses, unsaved, unlogged>>

\* The process dies: memory is lost, the writes in flight do not land.
ProcessDies ==
    /\ losses < MaxLosses
    /\ losses' = losses + 1
    /\ held' = FALSE /\ seq' = 0 /\ hide' = FALSE /\ chain' = <<>> /\ sending' = <<>>
    /\ flight' = Idle /\ again' = FALSE
    /\ resident' = FALSE /\ prompting' = FALSE /\ draining' = NotClosing
    /\ orphaned' = (orphaned \/ chain # <<>> \/ sending # <<>> \/ flight.state # "idle")
    /\ UNCHANGED <<plan, logged, file, changes, unsaved, unlogged>>

PlanNext ==
    \/ TaskCreate \/ TaskUpdate \/ TaskUnknown \/ HideTimerFires
    \/ SendEvent \/ EventLands \/ EventFails
    \/ SnapshotLands \/ SnapshotFails
    \/ ReopenSession \/ SessionPromptEnds \/ Release \/ Restore \/ CloseStarts \/ CloseEnds
    \/ ProcessDies

PlanSpec == PlanInit /\ [][PlanNext]_planVars

-------------------------------------------------------------------------------

\* The types of the plan, of its two copies and of what writes them.
PlanTypeOK ==
    /\ {held, hide, again, resident, prompting, unsaved, unlogged, orphaned} \subseteq BOOLEAN
    /\ plan \in Plan /\ file \in Plan
    /\ seq \in 0..MaxTasks
    /\ chain \in Seq(Event) /\ sending \in Seq(Event) /\ Len(sending) <= 1
    /\ logged \in [plan : Plan, high : 0..MaxTasks, any : BOOLEAN]
    /\ flight \in [state : {"idle", "data", "nothing"}, plan : Plan]
    /\ again => flight.state # "idle"
    /\ draining \in [open : BOOLEAN, events : Nat, snapshot : BOOLEAN]
    /\ draining.snapshot => flight.state # "idle"
    /\ changes \in 0..MaxChanges /\ losses \in 0..MaxLosses

\* The control plane's log and the events still on their way to it rebuild the plan, a
\* closed session's last plan too: the appends of a batch are recorded in the order
\* the plan changed.  Not claimed when an append failed, or when the plan was lost or
\* replaced with events outstanding.
LogRebuildsThePlan ==
    ~orphaned /\ ~unlogged =>
        FoldLeft(Replay, logged, sending \o [i \in DOMAIN chain |-> Body(chain[i])]).plan = plan

\* With no write in flight the snapshot file holds the plan: the last request of a batch
\* is not lost behind the write it finds, and neither a write that outlives close() nor
\* a drain that ends early leaves the file behind or empties it.  Not claimed when the
\* last write failed.
QuietSnapshotIsThePlan ==
    flight.state = "idle" /\ ~unsaved /\ ~orphaned => file = plan

===============================================================================
