# Siclaw: a TLA+ model

Siclaw runs SRE agents for its users. A **Portal** (control plane, database, REST) talks to a
**Runtime** (`src/gateway`), which places each conversation on an **AgentBox** (`src/agentbox`),
a process that holds the conversation in memory, runs the model and its tools (`src/core`,
`src/tools`), and keeps background commands and sub-agents alive between prompts. Next to
conversations the Runtime drives *capability runs* (long jobs in single-use boxes) for a
consumer, scheduled tasks, and sandboxes for scripts. The modules here specify the parts of
it where the order of events decides what is right: TLC checks them on small instances, TLAPS
proves the central invariants for all instances.

Paths below are relative to the repository root (the sources live in `src/`).

## 1. The system

| Component | State | Operations | Hard part | What makes it correct |
|---|---|---|---|---|
| Turn lock of the Runtime (`gateway/session-turn-lock.ts`) | per session: entry with queue, box, acceptance, steers that wait | acquire with timeout, release with hand-over, noteBox, markPromptAccepted, whenPromptAccepted, busyOn | a timer against a hand-over; an entry that outlives its turn | one turn per session, first come first served, no wedged session, the entry describes the running turn |
| Chat dispatch (`gateway/server.ts`, `sse-consumer.ts`) | live turns, aborts, recent dispatches | chat.send, chat.steer, chat.abort, event consumption | a stop at each await, a lost acknowledgement, a retry after a restart | one terminal per turn, a stop reaches the turn it names |
| Session manager of the box (`agentbox/session.ts`, `http-server.ts`) | map of `ManagedSession`: mutex, abort latch, invalidation, work count, pending notices, timers; pending aborts; handoff markers | prompt, steer, abort, reload, release, rebuild, handoff and hand-back, synthetic turns | handlers, timers and settlements interleave at every await; "the session" is looked up by id, while a running prompt keeps its instance | one brain per session, no release under work, notices exactly once, a Stop is final |
| Background jobs (`core/job-registry.ts`, `background-bash-runner.ts`, `agentbox/background-work-turn.ts`) | registry of jobs, notification latch, kill hook; mailbox of a prompt | register, stop, settle, notify; next, complete, cancel | exit against job_stop, completion against cancel | told once, to its owner, and a stop wins |
| Sub-agent fan-out (`agentbox/session.ts`, `subagent-group.ts`, `core/concurrency-limiter.ts`) | limiters of pool, batches, session, box; breaker, timer, abort signals of a batch | spawn, batch (map, breaker, reduce), cancel | nested limiters, work queued past an abort, a breaker that re-closes | exact slots, no deadlock, no starvation, an honest verdict |
| Sub-agent acceptance (`agentbox/subagent-lifecycle.ts`, `session.ts`) | mailbox of guidance and its delivery chain, brain's queue, review flag, seal | send, deliver, takePending, review, repair, seal, stop | guidance against gathering, review and completion | acknowledged guidance is delivered, once |
| Durable plan (`agentbox/keyed-writes.ts`, `core/task-ledger.ts`, `agentbox/session.ts`) | ledger, snapshot file with write in flight and follow-up, log of events with its queue | tool calls, auto-clear, release, reopen, close, restore | closing and restoring with writes outstanding; events that refer to live tasks | the newest snapshot is durable, the log rebuilds the plan |
| Capability runs (`gateway/capability/*`, `gateway/server.ts`, `kbc/platform/pod`) | record in memory, row at the consumer, chain of row writes, session of the box, relay of its events, watchdog | start, message, cancel, ensure, relay with acknowledgement, reconcile, adopt, recover | a restart, lost answer or failed write between any two steps; a stale listing; records held across awaits | no acknowledged turn is lost, the row follows the record, done never degrades |
| Task coordinator, cron (`gateway/task-coordinator.ts`, `cron/*`, `portal/adapter.ts`) | the task's row, rows of its runs, timers, running marks | reconcile, fire, fireNow, pause, delete, stop | overlapping listings, a deletion under a run, an answer that is stale on arrival | one run at a time, a task whose schedule has a next occurrence waits for it |
| Script sandbox (`script-sandbox/service.ts`, `pool.ts`) | warm entries, the fill task, retiring instances, active runs | run, prewarm, expire, exit, retire, abort, shutdown | an entry taken while it expires, a fill that ends after shutdown, failed clean-ups | an instance executes one script, the pool is bounded, nothing is left behind |
| Usage outbox (`agentbox/usage-outbox.ts`, `gateway/capability/model-usage.ts`) | event files, counters in memory and on disk, the batch in flight | record, flush, retire, recover | a lost answer, a full disk, a directory that cannot be opened, a process that dies between two writes | every observation an outbox took is received or counted as dropped |
| Turn ledger (`agentbox/turn-ledger.ts`) | last 200 accepted turn ids, on disk | check, record | check and record are apart; restarts | a retried dispatch does not run twice |
| Box placement (`gateway/agentbox/*`) | boxes, their image and drain state, bindings | getOrCreate, drain, reap | spawn, drain and use race | a conversation finds its box, a draining box ends |
| Model routing (`core/model-routing.ts`) | route state, cooldowns | choose, fail over | retries that repeat a prompt | a turn ends on one candidate |
| User rows, resource sync, credentials, channels, portal, tools, memory | see `PROJECT.json` | | | |

How they interact: a message reaches chat.send, takes the turn lock of its session, is placed on a
box, and becomes `POST /api/prompt` there. The box claims the session's prompt mutex, runs the
model, and, while the model or its prompt runs, launches background jobs. The prompt's own
mailbox collects the completions of its jobs and the prompt goes on with them until none is
left; completions without an owner become *synthetic turns*. A Stop (`POST /abort`) latches the
session, cancels the mailbox and stops the jobs. A session without prompt, work and notices
is released from memory and recreated from its transcript by the next prompt; its plan is
recreated from a file or, on another box, from the log in the control plane. A capability run
has a box to itself, whose session it opens, whose durable events it relays one by one to the
consumer, and whose model usage it reports through an outbox.

`PROJECT.json` lists every component with its status and the hazards with the line where each bites.

## 2. Modules

| Module | Models |
|---|---|
| `TurnMutex` | abstract: a mutex per session with a first-come-first-served line |
| `SessionTurnLocks` | the Runtime's lock with its callers and steers; implements `TurnMutex` |
| `JobRegistry` | the registry of background jobs: state and operations |
| `BackgroundWorkTurn` | the mailbox of one prompt: state and operations |
| `CompletionNotices` | abstract: where the notice of a completion waits and how it leaves, told or given up |
| `AgentBoxSession` | one session id in a box: composes registry and mailboxes with the session manager, the HTTP handlers, the job runners and the notices; implements `CompletionNotices` |
| `BoxTurns` | what the box does with the prompts and aborts of one session: ledger, busy guard, pending aborts |
| `ChatTurn` | a dispatch of the Runtime from chat.send to its terminal, with chat.abort, `endTurns()`, lost messages and restarts; composes `BoxTurns` and `TurnMutex` |
| `ConcurrencyLimiter` | the counting semaphore, for a family of limiters |
| `SubagentGroups` | single spawns and map-reduce batches over nested limiters |
| `SubagentMailbox` | guidance for one child, from its acceptance to the seal |
| `PlanWrites` | the plan of one session and its two durable copies |
| `CapabilityRun` | one capability run: record, row, box, relay, handlers, watchdog, crashes |
| `TaskSchedule` | one scheduled task: row, timer, reconciliations, runs |
| `ScriptSandbox` | the warm pool and the runs of the script service |
| `UsageOutbox` | the outbox of one capability run |
| `X_proofs` | theorems about `X`, for seven of these; `Services_proofs` about `ScriptSandbox`, `TaskSchedule` and `UsageOutbox` |
| `MC*` | instances for TLC; `MCServices` joins the last six components, which share no state: a behaviour of it is a behaviour of one of them |

### 2.1 SessionTurnLocks

`held`, `queue`, `boxId`, `accepted`, `acceptWaiters` are the map of entries and their fields;
`pc`, `at`, `tries`, `box` are the requests, `steer`, `behind` the chat.steer calls. Every method of
the class runs without yielding, so each is one action: `AcquireFree`/`AcquireBusy`
(`waitForTurn`), `Timeout` (the waiter's timer), `Release` (the function `acquire` returned: the entry is
deleted or handed over, and a second call does nothing), `Place` (`noteBox`), `PromptTaken`
(`markPromptAccepted`), `SteerInto` (the degrade of a refused chat.send into a steer of the
running turn, by `busyOn`), `SteerArrives`/`SteerTimeout` (`whenPromptAccepted`). A refused
request asks once more, as chat.send does; channel and task callers, which ask once, are the
behaviours that stop earlier. A settled steer may stay in `acceptWaiters`: resolving it again has
no effect, in the code and in `Resolve`.

`TurnMutex` knows an owner and a line per session, with `Take`, `Join`, `Leave`, `Pass`. The
refinement maps the owner to the request between `acquire` and release and the line to the queue,
so it says that nobody overtakes and nobody overlaps, whatever times out.

### 2.2 AgentBoxSession

A step is what the event loop does between two awaits that really yield. `_promptDone` and
`_promptInflight` change together in every such step and are one variable, `busy` (idle, an HTTP
prompt, a synthetic turn). A session id is served by a sequence of instances; `resident` is the
map entry. Handlers find the session by id (`resident`), a running prompt keeps the
instance it captured (`on`): the difference is the point of the model.

 - *Prompts*: `RestoreHandedAway`, `PromptCold`, `PromptRebuild`, `PromptRefused`, `PromptWarm`,
   `Created` are the ways through `getOrCreate` and the busy guard. From the guard to the start of
   the run the handler does not yield, so the claim, with its failure and pre-prompt-latch
   exits, is part of the admitting action (`Claim`). `ModelReturns`/`ModelAborted`/`ModelFails`,
   `NextResults`/`NextSteer`/`NextEnds` and `DeferredFinish` are the prompt's loop and its end
   (`onPromptFinish`, `actuallyFinish`, the release that ends it included).
 - *Jobs*: `Launch`, `LaunchUnderStop`, `Start` (the dial resolves or the child has slots and
   session), `Exit` (the status is read), `Settle` (flush done: status, notice, count, release),
   `JobStop`. A sub-agent is registered without kill hook until it runs.
 - *Notices*: `NotifyParent` routes a completion to the owner's mailbox or to the pending
   buffer; `FlushUnderStop`, `FlushRearm`, `FlushDeliver`, `FlushNothing` are the coalescing
   timer, `SyntheticEnds` the end of a synthetic turn. `CompletionNotices` says what all of this amounts to: a job that begins owes one
   completion; it is then waiting at one place, or moot; a place is told as a whole (`TellAll`) or given up as a whole (`GiveUp`); nothing comes
   back. The mapping reads the life of a completion off `run`, its places off the pending buffers and off the mailboxes that nobody
   cancelled, and `told` off `tellings`. That a notice is not given up without reason is not part of it: `NoLostNotice` is, under the flags it needs.
 - *Control*: `Stop` (up to `brain.abort()`), `StopDrained` (the second sweep), `StopEarly` and
   `PendingAbortExpires` (an abort before its prompt), `Invalidate`, `ReleaseTimerFires`, `ReleaseDone`,
   `Handoff`.

Five constants say what the deployment and callers do: `SlowTeardown` (`release()` really awaits
because memory or MCP is configured), `SerialPrompts` (the Runtime's lock keeps prompts apart),
`ContextChanges`, `Handoffs`, `SetupMayFail`. `countedOn`, `underStop`, `tellings` and `fate` are
history: nothing reads them but the properties.

Abstractions: "completed" stands for done, partial and timed_out; timers have no length and may fire at
any time after they are armed; a spawn that throws leaves no state and is omitted; the length of a queue
of steers in the brain itself is not modelled; `brain.abort()` may outlive the prompt it aborts.

### 2.3 ChatTurn and BoxTurns

An *attempt* is one chat.send call; attempts that carry the same dispatchId (which is their turn id, so also the id
the box's ledger and aborts go by) are retries of one *dispatch*. `pc` says where the background task of an
attempt waits: for storage (`persist`), in the line of the lock (`queued`, `requeued`), for a box (`held`),
for the answer of a steer (`steering`, `resteering`), of the prompt (`prompting`) or of an abort (`stopping`,
`compensating`), or for the end of the stream (`consuming`). Between two of these the code does not yield,
so each way out of one is an action, and the catch and finally that end an attempt (`Finish`, `Settle`) are part
of it. `reserved` is `recentDispatches`; `stopped` the turns' abort signals; `supervisorEnded`, `boxAbortAsked`
and `shuttingDown` belong to `endTurns()`; `stopCalls` and `askCalls` are the abort requests on their way.
The lock is its abstract specification, which `SessionTurnLocks` implements: its steps are `Take`, `Join`,
`Leave`, `Pass`.

A prompt is two steps on the box, as in the handler: `CheckPrompt` looks into the ledger, `ClaimPrompt` (after the
awaits of the context read and `getOrCreate`) claims the session, records the turn and consumes a pending abort.
A request may get lost, arrive after its sender gave up, or be answered too late (`LosePrompt`, `PromptFails`,
`HangUp`). `AbortTurn` stops the current turn or leaves a latch. `RuntimeRestarts` forgets everything but what is on
the box; `BoxRestarts` everything but the session directory with its ledger. `runs` and `raced` are history.

Abstractions: placement is one step with one box; one abort stands for the three tries of `stopTurnOnBox`; a
run that outlives its abort by the two seconds the handler waits is not modelled, nor the cap of the ledger; a
latch outlives a request that is on its way (180 s against a client timeout of 30 s).

### 2.4 SubagentGroups

A child climbs a ladder of limiters (an item: pool, batches of the box, session, box), runs, and
gives the slots back on its way down, each await a step. `EnterSlot` is the second look at the
abort signal with the slot in hand; `Record` is what follows the slots (status, breaker, abort of
the map phase); `StartReduce`, `EndWithoutReduce`, `EndAfterReduce` are the reduce gate and the status.
"failed" stands for timed_out, which the breaker counts alike. A child's limiter is fixed when it is
submitted (`OwnerOf`), the shared limiter of sessions that are gone being an owner like the others.
A cancel may come between the drained map and the gate; the code does not yield there, so the model
has one behaviour more than the code, and the properties hold in it too. The comment at `agentbox/session.ts:1438`, that
a `partial` is always a cancellation stub, is older than the one at 1488, which the model follows.

### 2.5 SubagentMailbox

`pending`, `delivery` and `accepting` are the fields of the mailbox: what `send` accepted, the promise chain of deliveries, and
whether it is sealed or closed. A message goes two ways: it is `pending` until a prompt takes it, and it is chained for delivery into the
running brain (`DeliveryRuns`, `DeliveryRefused`, `SteerReturns`), whose own `queue` the model reads between two of its
turns (`BrainReads`). `takePending` awaits the chain as it was when it was called: `ahead` counts the deliveries it still
has before it, so a take is two steps (`Take`, `Taken`), and messages may arrive in between.
`phase` is the acceptance loop: `Attach`, `Gather`/`Gathered`, `Prompt`, `PromptEnds`, `Collected`, `Review`, `Reviewed`, `Rechecked`,
`Settle` (go round, repair, or seal), with `Stop` and `Fails`. `Quiet` says when a message can arrive: not between two continuations that
run at once, except in the gap before the seal, which is what the seal's own check is for. `heard` and `early` are history.

### 2.6 PlanWrites

`plan`, `seq`, `hide` are the ledger; `flight`, `again` the coalesced writer of the snapshot `file`; `chain`, `sending` the serial queue of
task events and `logged` what a replay of the log gives. A tool call (`TaskCreate`, `TaskUpdate`, `TaskUnknown`) changes a batch of tasks, queues its events
and asks for a snapshot. An upsert event carries the task object itself, so its content is that of the moment it is sent
(`Body`), or of the moment the task left the plan (`Freeze`). `HideTimerFires` clears a completed plan. `ReopenSession`,
`SessionPromptEnds`, `Release`, `Restore` (from the log), `CloseStarts`/`CloseEnds` (which drain both queues) and `ProcessDies` are the
life of the session around it. `unsaved`, `unlogged`, `orphaned` are history: a copy that a failed write or the end of a process
has left behind is not claimed to be the plan.

### 2.7 CapabilityRun

`recs` holds every record made of the run and `runs` the one the Runtime finds: an await may hold a record that has been dropped
or replaced. `writes` is the chain of row writes of `persistTails`, each with the snapshot its caller took. `row` and `saved` are the consumer's side;
`box` is the pod with its session, which offers durable events one at a time and drops one when it is acknowledged (`acked`).
`session` and `relay` are `ensureCapabilitySession` and `driveCapabilitySession`; `start`, `call`, `cancel` the three handlers of `gateway/server.ts`,
`dog` one pass of `reconcile()`, `reattach` the search for a live box after an adoption. The next-state relation groups them:
`BoxStep`, `SessionStep`, `RelayStep`, `HandlerStep`, `DogStep`, and `StoreStep` (a write of the row lands or fails and wakes its
caller). `RuntimeCrashes` forgets everything in the Runtime; the row and the box remain. An event is relayed in the code's
order: frame, turn into the history, row, acknowledgement, and each of these may fail and be retried or end the relay.
`acked`, `delivered`, `outdated`, `adrift`, `restored` are history.

### 2.8 TaskSchedule

`task` is the status of the row in the portal, `fits` whether its cron expression has a next occurrence, and `rows` the runs whose row says running; `job` (the
scheduler's copy of the row, as far as its schedule fits), `armed`, `firing` are the scheduler's maps, `hasPrompt` and `executing` the coordinator's. A reconciliation asks, is answered from the portal's state of that moment, and applies the answer later
(`SyncAsks`, `SyncReads`, `SyncAdds`/`SyncRemoves`/`SyncFails`); several overlap. A fire (`TimerFires`, `CallRuns`) checks the task's status, reserves a
run, runs and finalizes, each of which may fail; only a fire of the clock rearms the timer. `CallAsks`, `CallReads`, `CallRuns` are `fireNow`.
An expression is unfit if the matcher throws: it is malformed, or nothing matches within four years. `Scheduled` is `scheduleNext()`, which drops the timer
first and logs that error, so that a task under an unfit schedule is known and has no timer. `TaskChanges` pauses, resumes or deletes the task or changes its schedule; `Halt` is `stop()`, `CoordinatorRestarts` a new process. `swept` is history.

### 2.9 ScriptSandbox

`instance` is the provider's side (external: it makes and destroys instances, or refuses to). `idle`, `filling`, `retiring` are the pool:
the warm entries, the one fill task, the clean-ups under way. A run enters (`Enter`), shifts a warm entry, joins the fill or starts an
instance of its own (`Shift`, `OwnStarts`), executes, and retires its instance (`RunEnds`, `RetireEnds`); it may be aborted at any point. `PrewarmTicks`, `EntryExpires`,
`IdleExits` are the pool's timers and the exit watch. The shutdown refuses runs, waits for those under way, then stops the pool, waits for fill and clean-ups, and tries
once more what failed (`ShutdownStarts`, `PoolShutdown`, `CloseAgain`, `ShutdownEnds`).

### 2.10 UsageOutbox

`files` are the event files, `lost` and `onDisk` the counter of `state.json` in memory and on disk, `flush` a batch on its way with the
consumer's answers. `Records`, `RecordDrops`, `RecordFails` are the ways through `record()` (taken; no room or too large; a disk that fails at one of its
writes), each of which opens the outbox if there is none. `OpenFails` is a disk that refuses while the outbox is constructed: there is none
then, and `ExecutionObservationRelay.enqueue` swallows the error. `StateUnreadable` stands for a `state.json` that cannot be read again, which the constructor counts as one drop.
`OutboxTimerFires`, `ReportArrives`, `ReportEnds`, `ReportEndsEarly` (a disk that fails after some files are gone), `ReportFails` are a
flush, at whose end the outbox of a drained run is dropped. `CollectorRestarts` is a new process, which finds the directory again; if it cannot open one of the
directories it ends (`down`), because `recoverCapabilityUsage` throws out of `startRuntime`. The consumer stores an observation by its id, so that one it
receives twice is one. `unseen` (observations that met no outbox) and `blind` (a count was lost with its process or its file) are history.

## 3. What is checked

The runs of one component use one session (two for the lock and the batches): sessions share no state but the limits
of the box. `Spec` is safety only; `FairSpec` adds the fairness below.

| Run | Instance | What it shows |
|---|---|---|
| `turn_lock` | 3 requests, 2 sessions, 2 boxes, 1 steer; fair | `TypeOK`; `LockIsSound`: one turn per session, a held lock has an owner, the queue is the waiters; `EntryIsSound`: the entry describes the turn, a steer waits for its own turn; `ImplementsTurnMutex`; `NobodyIsStuck`: a session becomes free, a steer goes on |
| `core` | 2 prompts, 1 command, 1 sub-agent, 2 instances; fast release, serial prompts, no context change or handoff | `OneBrainPerSession`; `ResidencyIsSound`: no release timer under a prompt, residency covers work, exact work count; `StopHaltsJobs` |
| `handoff` | 2 prompts, 1 command; serial prompts, but slow release, context changes, handoffs, failing setups | `StopSilencesJobs` |
| `unguarded` | the same with concurrent prompts | `TypeOK`; `PromptMutex`, with synthetic turns; `NoticesAreSound`: a completion is told at most once, and reaches no other prompt than its owner |
| `live` | 1 prompt, 2 jobs, handoffs, fair | `NoLostNotice`; `SettledJobIsAnswered`; `StoppedPromptEnds`; `QuietSessionIsReleased`; `ImplementsNotices` with more than one notice at a place |
| `dispatch` | a dispatch with a retry, and a strict, durable turn of the same session; one trouble (Stop, shutdown, box removal, restart of either side), lost requests and answers at will | `RunsAtMostOnce` per dispatch; `ReservationsAreReal`: reservations match what happened; `NoHeadlessRun`: a reported failure leaves no run behind; `AbortHitsItsTurn` |
| `dispatch_live` | two turns of a session, two troubles; fair | `OneTerminal` per turn; `TurnSettles`: every acknowledged chat.send ends and reports |
| `fanout` | 2 batches in 2 sessions, 3 items, one reduce, a breaker window of 1, three slots in a session and in the box | `SlotsAreSound`: types, exact counts, a slot of a session reserved for single spawns; `NoItemStartsAfterAbort`; `BatchIsHonest`: the reduce has input, the verdict agrees with the items |
| `nested` | a batch and 2 spawns, 1 slot everywhere; fair | `FanoutEnds`: nested limiters do not deadlock |
| `services` | one of six components per behaviour, bounds below | `ServicesTypeOK` and the properties of the next table |

| Component of `services` | Property |
|---|---|
| capability run | `AckedTurnIsSaved`: a turn whose frame the box has dropped, or that the row counts as relayed, is in the consumer's history. `RowMirrorsRecord`: with no write under way the row says what the live record says. `AnsweredTurnWasTaken`: a message is answered or remembered only if a box took it. `RestingRunIsIdle`: a run whose box rests does not stay "running". `DoneStaysDone`: a row that is done changes only by a record the row had left behind, by the watchdog's write only if it was not told |
| plan | `LogRebuildsThePlan`: a replay of the log and of the events still outstanding gives the plan, unless something was lost. `QuietSnapshotIsThePlan`: with no write in flight the file holds it |
| mailbox | `SealedRunHeardEverything`: a run that was judged and sealed has given its model every message it accepted. `GuidanceIsHeardOnce` |
| sandbox | `InstanceIsSpentOnce`: an instance executes one script, nobody destroys it meanwhile, and the shutdown leaves none behind |
| schedule | `ScheduleIsSound`: one run at a time; a known task whose schedule has a next occurrence waits for it or runs, and one whose schedule has none has no timer left; a deleted one does not come back, rows say running only under a run |
| usage | `UsageArrives`: while there is a Runtime a pending observation has a sender; every observation is pending, received, or counted as dropped, but for those that met no outbox (`unseen`) and unless a count was lost (`blind`) |

The bounds. Two prompts and two instances are what a stale reference needs: one that holds it
and one that replaced it; a second job adds pairs of jobs settling together. Three requests are a
holder and two waiters, so that the first waiter can time out behind or ahead of the other. Three slots are
the smallest limit whose batch share (all but one) admits two items at once, so that items of a batch overlap and a single spawn's slot is still at
stake; in `nested` every limiter is at its limit with its first client. A window of one lets a trip and a
late success meet in three items (the code's window of five would need six). A retry after a failure, a third request that contends
for the lock, and a trouble at any point are what the properties of `dispatch` relate (`MaxTroubles` is one there; pairs of troubles, such as a late abort of
one that meets the other, are in `dispatch_live`, without the retry); attempts of one dispatch are interchangeable (`SYMMETRY`). `MaxInstances` ends a
behaviour after two creations in the session runs; `ExecCap` is one, so that the cap is met.

In `services`: `MaxOperations` and `MaxTroubles` give a capability run two turns, cancels or watchdog ticks, one of which may be a restart, a failed RPC, a lost answer or a
broken stream, with two asks of a message (`MaxAsks`), two events (`MaxEvents`: the turn's and the run's end) and two records (`MaxRecords`: one held, one that replaced it);
`MaxDeferrals` is one (five in the code), so that a judgement that could not ask the store is reached. A plan has two tasks
(`MaxTasks`), two tool calls (`MaxChanges`) over them and one loss (`MaxLosses`); `MaxChain` lets two events wait behind the one in flight, which is what reordering needs. `MaxGuidance` is three (a first
message and two follow-ups that may meet in a chain), with five prompts and two repairs, so that the budget of prompts ends some behaviours. Two runs on a pool of two and three instances (`WarmPoolSize`, `MaxInstances`) let a
run join a fill, shift an entry or need its own while another expires; `MaxFailures` is one refused start or close. Two runs of a task, three reconciliations and one call by hand with one mishap (`MaxFires`, `MaxSyncs`, `MaxCalls`, `MaxMishaps`) are a
reconciliation before, one under and one after a run. Four observations overfill an outbox of three files in batches of two (`MaxObservations`, `Capacity`, `BatchSize`), with two spoils (`MaxSpoils`): a failed write or opening and the restart after it.

Deadlock is checked in `turn_lock` only: a call of a release function is always possible there. In the other instances every prompt, job and child comes to an
end and the system then stops; that it gets there is what the liveness properties say.

Fairness. Promises settle, timers fire, a model run ends (it answers, fails, or its abort
resolves), a process that was told to stop exits, a sub-agent has its own backstop timer, and chat.send
releases in a `finally` (`gateway/server.ts:1229`). Every await of chat.send settles by itself, a request by the
client's timeout; in `ChatTurn` the timer of a waiter is not assumed to fire, so a turn in the line gets through
because the turns before it end. No user action, and no end of a job that nobody stopped, is
fair: a prompt may wait for its job for ever, and `StoppedPromptEnds` is about exactly that. The components of `services` are checked for safety only.

### 3.1 What the code does not do

Each of these runs finds a behaviour that contradicts what the repository says; `PROJECT.json`
quotes the line.

| Run | Found |
|---|---|
| `queued_child` | `StopReachesQueuedChild`: a sub-agent waiting for a slot has no kill hook at a Stop; the next prompt clears the flag its setup looks at, and it runs |
| `swallowed_retry` | `ConfirmedDispatchRan`: the abort that compensates a lost prompt leaves a latch for its turn id; the retry, which has the same id, is accepted, cancelled by it, and confirmed. A setup that throws after the record has the same effect: the retry finds itself in the ledger |

More were met and have no run of their own. Conversations:

 - A `job_stop` during the output flush of an exited command is overwritten by the status read before
   (`core/background-bash-runner.ts:90`).
 - With `ContextChanges`, a prompt with another mode or capability releases an idle instance whose job still runs
   (`agentbox/session.ts:3469`; `ResidencyIsSound` fails), and that job then decrements the work count of the
   successor; `agentbox/http-server.ts:733` says residency covers background work.
 - With `SlowTeardown`, a prompt admitted while `release()` awaits runs on an instance that is dropped afterwards,
   its job's notice with it (`agentbox/session.ts:4093`; `NoLostNotice` and `OneBrainPerSession` fail).
 - With `SetupMayFail`, a prompt whose setup throws leaves the session resident without a release timer
   (`agentbox/http-server.ts:1102`; `QuietSessionIsReleased` fails).
 - With `Handoffs`, two prompts and two jobs, resuming a conversation that was handed back drops its instance
   whatever it owes (`agentbox/session.ts:3353`; `NoLostNotice` fails).
 - A chat.send that must store its message and cannot (`requireSessionPersistence`) throws without releasing its
   reservation (`gateway/server.ts:892`): the retry is told `duplicate` for a turn that never ran, although
   "Every failure path RELEASES it" (`gateway/server.ts:655`). `ReservationsAreReal` leaves such dispatches out (`Durable`).
 - The ledger is consulted before the awaits of the prompt handler and not again at the claim (`agentbox/http-server.ts:972`,
   1063): two copies of a request inside the handler together may both run. `RunsAtMostOnce` and `NoHeadlessRun` leave such
   dispatches out (`raced`).
 - A Stop that finds no live turn sends an abort without a turn (`gateway/server.ts:2010`), which may hit a
   later prompt, against the comment at `gateway/server.ts:358`.
 - An input that was delivered as a steer is not in the ledger: its retry after a restart of the Runtime runs it as a
   turn of its own.
 - A turn that ends with nobody queued forgets the steers that wait for its acceptance
   (`gateway/session-turn-lock.ts:181`): they go on only by their own timer, which is why `NobodyIsStuck` needs the timer's fairness.

Capability runs:

 - A record made from a stale listing keeps its relay, which may fail a run that is done; only the watchdog's own failure is guarded,
   by a question it asks before (`gateway/capability/run-manager.ts:564-616`). Its mark is for the record that is live when it comes to write, which may have
   been adopted from a stale answer after the question, so the guard holds for what the watchdog was told and no further.
   `DoneStaysDone` excepts records the row had left behind (`outdated`) and says this of the watchdog.
 - A rejected or repeated message puts back the status it read before its POST, "running" after a turn has ended and made the run idle
   (`gateway/server.ts:1576-1581`). `RestingRunIsIdle` excepts these (`restored`).
 - A cancel does not hold back a message that has passed its check or is opening a session (`gateway/server.ts:1648-1651`).
 - persist() counts on the reconciliation for a row write that failed; nothing rewrites a row whose run is not over. `RowMirrorsRecord` excepts it (`adrift`).
 - Two adoptions at once leave the second's record in the map while handlers hold the first.

The plan:

 - A cleared plan may come back: the file still has it when the session was released before the clearing and reopened after it.
 - close() under a running prompt drops the snapshot's follow-up, and a later tool call of that prompt begins a plan that numbers from 1; a session opened while close() drains loses its ledger.
 - A restoration from the log drops events that are still outstanding (`orphaned`).
 - After a restart that follows a clearing or a deletion, ids are given out again, which the comment at `agentbox/session.ts:2746` excludes.

The mailbox: guidance sent while the first prompt is put together is both taken into it and steered, so it may be heard twice
(`early`); a run that fails or uses up its prompts drops guidance it acknowledged, and a queued child that is skipped never reads any.

The schedule: a restart, or a run whose end could not be stored, leaves its row "running", so that fireNow answers `in_flight` until rows
are pruned (`portal/adapter.ts:3066`; `gateway/task-coordinator.ts:396`; `mishaps`). Two calls of fireNow, or a call and the clock, may both be
answered ok while one run is skipped (`gateway/task-coordinator.ts:209`, 455). A reconciliation under way at stop() arms the task again (line 137).
An older listing that is applied late brings a deleted task back until the next one; its runs are turned away by their status check.
A task whose expression has no next occurrence stays known without a timer, and only a log line says so (`cron/cron-scheduler.ts:119`, as its comment at line 78 and its test
at `cron-scheduler.test.ts:220` have it); the pages of the portal refuse such an expression, the RPCs that write the row do not (`portal/adapter.ts:2974`). `KnownTaskIsArmed` is therefore about schedules that fit;
the next listing with one arms the task. That an expression fits is taken not to change with time.

The sandbox: a shutdown of the pool destroys idle entries without taking them off the list. Nothing takes one after it, because the service waits
for its runs first.

The outbox: an observation that a full disk refused is counted in memory, and the count is lost with the process if it cannot be
saved (`blind`); one whose file was written but whose state could not be saved is counted as dropped although it is delivered. A disk that refuses
already when the outbox is opened leaves none: the observation is neither kept nor counted (`agentbox/usage-outbox.ts:24`, 45;
`gateway/capability/execution-observation.ts:70`), and what remains of it is the run's summary that some diagnostics could not be saved, once per relay (`unseen`). At the start of the Runtime
the same failure, for any run's directory, ends the process (`gateway/server.ts:1450`, `down`); its files wait for a start that succeeds.

The passing runs fix the constant that such a behaviour needs, or except it by the history variable named, so that what they show is what holds without it;
`unguarded` shows what holds even so.

### 3.2 Mutants

Each property has a plausible bug of the code that it catches (operators marked "Mutant" in the
modules, listed in `PROJECT.json`): a dropped guard, a counter that is reset, a queue that is
lost, limiters taken in another order, an acknowledgement before the write it stands for.

## 4. What is proved

For every value of the constants, with TLAPS:

 - `SessionTurnLocks_proofs`: types (`Typing`); `OneTurnAtATime`, `LockAlwaysHasOwner`,
   `QueueAlwaysTheWaiters` from `LockInv`, together `LockAlwaysSound`; `EntryIsCurrent` and `SteersWaitForTheirTurn` from `EntryInv`, together
   `EntryAlwaysSound`; and `LockImplementsMutex`, the refinement of `TurnMutex`. Mutual exclusion alone is not
   inductive: a hand-over makes the head of a queue an owner, so `LockInv` adds that a held
   lock has an owner and (`Line`) that the positions of a queue are the waiting requests, each once. `EntryInv` adds
   that the entry of a free session is blank, so that the next turn does not inherit anything.
 - `AgentBoxSession_proofs`, whatever the five flags are: types (`Typing`); `PromptsExclude` from `MutexInv`, which adds that
   instances not created yet are idle, so that a new one can be claimed; `ToldAtMostOnce` from `NoticeInv`: a
   notice waits in at most one place (the pending buffer of one instance or one mailbox), only after its job claimed the latch, and
   nowhere once it is told; `ResultsStayWithOwner` from `OwnerInv`: until it is told, a registered job is
   registered with the owner its runner captured, and a job that was never registered has no notice; together they are `NoticesAlwaysSound`. `NoticesImplemented` is the refinement of
   `CompletionNotices`: it needs of `JobInv` that a job without a record has no runner, and one step lemma each for launch, settlement, telling
   and giving up (`LaunchRefines`, `SettleRefines`, `TellRefines`, `GiveUpRefines`). `NoticesPromise` proves of the abstract
   specification alone that a notice is at one place at most and a told one nowhere; `OnePlaceForANotice` carries it over to the session.
 - The same module, under the flags a property needs, each the one whose absence section 3.1 tells the story of.
   `StopAlwaysHalts` (`~SetupMayFail`: a setup that throws leaves the latch of a Stop that came early, and stops nothing) from
   `JobInv`, what status, kill hook and runner of a job tell of each other, and `Halted`.
   `SerialInv` is what the Runtime's lock (`SerialPrompts`) gives the box: one prompt at a time is under way, the one that runs owns the mailbox of the
   resident instance, all other mailboxes are closed. With it a Stop closes every mailbox that knows a job it met and marks the job silent, so the
   job's completion has nowhere to go (`Silenced`): `StopSilencesCommands`, for background commands in any company, and `StopSilencesAll`, which is
   the property `StopSilencesJobs` where there are no detached sub-agents; a child in the queue for its slots has no kill hook and is missed.
   `OneBrainAlways` adds `~SlowTeardown`; its invariant `Brain` is that an armed release timer belongs to the resident, idle instance and that there is no resident while a
   prompt creates one. `ResidencyAlwaysSound` and `NoticesNeverLost` add `~ContextChanges` and that nobody returns to a
   session handed away (`NobodyReturns`: no handoffs, or a single prompt); `Owed` says that every job under way was counted on the resident
   instance, that the count is the number of these jobs, and that only an instance at rest has a release timer.
 - `ChatTurn_proofs`: `DispatchRunsAtMostOnce`, `FailureIsNotHeadless`, `ReservationsAlwaysReal`, `OneTerminalPerTurn` and the action property
   `NamedAbortHitsItsTurn`, all from `ChatInv`: the line is the attempts that wait (`LockSound`); what the box ran and how it answered is in its ledger, and a request between
   check and claim has found its turn absent (`BoxSound`); what a failed or unprompted attempt owes to the box's silence (`HushInv`);
   an abort in flight is for a turn that somebody stopped (`AskInv`); a dispatch has one live attempt, which holds its reservation (`TurnInv`).
   The exceptions of section 3.1 (`raced`, `Durable`) are part of the statements.
 - `SubagentGroups_proofs`: `SlotsAlwaysSound`, `BatchAlwaysHonest` and the action property `AbortedBatchStartsNoItem`. The counts of all the
   nested limiters are one fact (`CountOk`): a limiter's count is the number of children that hold one of its slots,
   and it has waiters only when it is full. `PhaseOk` and `ItemsOk` tie the phase of a batch to where its children are.
 - `CapabilityRun_proofs`: types (`RecordsStayTyped`), `AckedTurnsAreSaved`, `AnsweredTurnsWereTaken`, `RowsMirrorRecords`, `RestingRunsAreIdle`. What is stored,
   delivered and emitted only grows (`Grows`), so a number that is behind (`Past`) stays behind, and whatever an await of a handler holds
   over (a row seen, a record, a write in the chain) stays true of the run in that sense (`Snap`), however stale it is.
   The row mirrors the record because every change of a live record appends the write that says so, and the newest write of the chain is the last to land (`MirrorOk`).
   The action property `DoneNeverDegrades` follows the status through the chain (`EndInv`): a record that has ended keeps its outcome and so do its later writes,
   two records have writes in the chain only if the later one is `outdated`, and once the row says done, so do all writes of records that are not. `DogAsked` is what the watchdog knows between its question and its write.
   `RestingRunsAreIdle` follows the first record from its birth (`RestInv`): before it is stored there is no box (`BirthOk`), its first session opens with the turn the run
   was started with (`SetupOk`), and while it is live its relay does not close (`AttachOk`). The relay counts the events in their order (`EventsInOrder`), so that a record
   that says "running" has a turn in the box, an event still to be counted or a message on its way to the box (`RunningIsBusy`).
 - `SubagentMailbox_proofs`: types (`MailboxAlwaysTyped`), `SealedAlwaysHeard`, `GuidanceAlwaysHeardOnce`. The invariant of the first two has three parts: an accepted
   message is heard, pending, in the brain's queue or in the prompt at hand (`NoneIsMislaid`); the brain's queue gets nothing once a review has begun
   (`BrainIsClosed`); a prompt is empty in the phases that have none (`PromptIsSpent`). At the seal the last three places are empty. That none is heard twice
   needs that the deliveries behind a gathering are waited for (`ChainIsWaitedFor`) and that a delivery of a message already given finds the brain closed
   (`GivenOnce`). Sequences are handled by lemmas on positions, not by induction.
 - `PlanWrites_proofs`: types (`PlanAlwaysTyped`) and `SnapshotAlwaysQuiet`, that the file is the plan when no write is in
   flight. The invariant, `PlanIsFollowed`, follows a write in flight: it carries the plan already, or the key is marked for a follow-up. That a
   re-read plan numbers on from its highest id is a lemma about `HighWater`, whose CHOOSE has a witness because a bounded set of numbers has a largest.
   `LogAlwaysRebuilds` needs two things. What a replay of a queue leaves of a task is what the last event that touches the task says
   (`ReplayGivesThePlan`); the fold of the library is a recursive function of sets of positions, and that it exists and is reached event by event
   (`ReplayExists`, `ReplayRuns`) is shown by induction on the length, as the least counterexample of a set of numbers. And the invariant `LogFollows`:
   for every task, the last event in flight or waiting that touches it says what the plan says, a live upsert always does, or there is none and the log says it.
   Serialising and freezing events keep that. A plan that is re-read is the one in the file, so the proof leans on `PlanIsFollowed`.
 - `Services_proofs`, the schedule: types (`ScheduleAlwaysTyped`) and `ScheduleAlwaysSound`. One run at a time needs that the mark of each
   map stands for exactly one fire (`RunsAreMarked`); the rows need that a run that runs has reserved its row (`RowsAreReserved`).
   The outbox: types (`OutboxAlwaysTyped`) and `UsageAlwaysArrives`, with its two exceptions in the statement. The invariant adds that a stored answer is true
   (`AnswersAreTrue`), that a live outbox has a timer or a flush, and that files have a live outbox unless the Runtime is down (`OutboxIsActive`), and the count behind the last part
   of the property (`UsageIsAccountedFor`), which needs cardinalities of unions of finite sets.
   The sandbox: `InstanceAlwaysSpentOnce`. The invariant says that an idle or retiring instance is where
   it is looked for (`InstancesArePlaced`) and that a used one has exactly one run (`RunsOwn`); `MadeInOrder` makes a new instance a fresh one, and `ShutdownFollows` says what each
   stage of the shutdown has already waited for. `SandboxStaysInLimits`: the limit on runs is inductive as it stands,
   that of the pool needs that there is room for the one entry that is being made (`RoomToFill`).
   Last, `ServicesRunTheParts`: the behaviours of the run `services` are behaviours of each of its six parts, so that their theorems hold of it, `ServicesAlwaysTyped` the first.

The inductive invariants were checked by TLC before they were proved. The only assumptions are the named
ones about constants, which the runs evaluate (types and bounds; that jobs are of one kind; that batches, items and spawns of the fan-out have names of
their own and the children are finitely many, `NamesAssumption`; that no message has the name of another writer of the row, `CallersAssumption`), and the
flags named in the theorems.

Model-checked only: liveness, which is outside the prover. Every invariant and action property that a passing run checks is a theorem.

## 5. Not modelled

 - In the session manager: `closeAll()`, background *group* jobs, failures while an instance is created, two creations of a
   cold session at once (the Runtime's lock prevents them), the brain's own steer queue (it is in `SubagentMailbox`, for a child).
 - In the parts that are modelled partly: capability.command (the protocol of capability.message with another receipt table), artifacts, test sessions,
   input revisions, the sweep of orphaned boxes; several children of one parent; calendar arithmetic; the broker and messages of one script's
   execution; the outbox's close().
 - The turn ledger's cap of 200 turns, a failed write of it (`agentbox/turn-ledger.ts:81`, which costs the turn its protection across a restart), and the clean-up of a
   handoff, which deletes the session's cached transcript and with it the turn ledger and the plan's snapshot (`agentbox/session.ts:3314`): the Runtime dispatches to
   one box in `BoxTurns`, and `PlanWrites` has the reload from the log (`Restore`) but not the deletion of the file before it.
 - Box placement: its state is that of the cluster, and what could go wrong in it depends on an ordering of the Kubernetes API that the code does not state.
   `ChatTurn` takes placement as one step that may fail or be undone.
 - User rows: pushes and shifts of a queue with a cap; it is worth a module only with the event consumer and the database.
 - Model routing, resource sync, the portal, channels, credentials, construction of agents and prompts, tools, memory: sequential
   arithmetic, I/O, text and data processing, each with its reason in `PROJECT.json`. They are most of the repository's lines, so the mapped share of it is small.
 - Wording, transcripts, output files and their sanitizing, model tiers.

## 6. What could come next

 1. Background group jobs in `AgentBoxSession`: `SubagentGroups` in place of a single sub-agent, composed with notices and Stops.
 2. `PendingUserRows` with the event consumer and its rows; box placement, once the ordering it relies on is stated.
 3. Liveness of the components of `services`: a capability run that a live consumer watches comes to rest, guidance is answered, a usage file is sent.
 4. Proofs: the runs of `CapabilityRun` that have lived through a restart, where a box may be at rest under a record made of an old answer.
