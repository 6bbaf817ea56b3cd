-------------------------- MODULE AgentBoxSession --------------------------
(***************************************************************************)
(* One session id inside an AgentBox: the ManagedSession instances that    *)
(* serve it one after the other (src/agentbox/session.ts), the HTTP        *)
(* handlers that prompt, steer, stop and reload it                         *)
(* (src/agentbox/http-server.ts), the detached background jobs its model   *)
(* launches (src/core/background-bash-runner.ts) and the notices by which  *)
(* their completions reach the model.                                      *)
(*                                                                         *)
(* A step is one run-to-completion segment of the event loop: what a       *)
(* handler, a timer or a promise continuation does between two awaits that *)
(* really yield.  The fields _promptDone and _promptInflight are set and   *)
(* cleared together in every such segment, so they are one variable here,  *)
(* `busy`.  Several instances exist because the map entry of a session id  *)
(* is released and recreated; handlers find "the session" by its id, hence *)
(* `resident`, while a running prompt keeps the instance it captured.      *)
(***************************************************************************)
EXTENDS JobRegistry, BackgroundWorkTurn, FiniteSets

CONSTANTS
    NoTurn,          \* the empty pending-abort slot; also "no mailbox"
    MaxInstances,    \* bound on how often the session is created
    ExecCap,         \* getBackgroundBashConcurrency()
    \* What the deployment and the callers do:
    SlowTeardown,    \* release() awaits: memory is enabled or MCP is configured
    SerialPrompts,   \* the Runtime's turn lock admits one prompt at a time
    ContextChanges,  \* a prompt may ask for another mode or capability
    Handoffs,        \* the model may call transfer_to_agent
    SetupMayFail     \* prompt setup may throw (unsupported media)

ASSUME SessionAssumption ==
    /\ NoTurn \notin Turns
    /\ MaxInstances \in Nat \ {0}
    /\ ExecCap \in Nat \ {0}
    /\ {SlowTeardown, SerialPrompts, ContextChanges, Handoffs, SetupMayFail}
         \subseteq BOOLEAN

Instances == 1..MaxInstances
None == 0

VARIABLES
    \* ManagedSession fields, per instance, and the session map.
    resident,      \* the instance sessions.get(id) returns, or None
    created,       \* how many instances have been created
    busy,          \* who holds the prompt mutex: "idle", "http" or "synth"
    aborted,       \* _aborted
    invalidated,   \* _invalidated
    doneCallback,  \* invalidate()'s release is in _promptDoneCallbacks
    workCount,     \* _backgroundWorkCount
    pending,       \* _pendingNotifications
    coalesceTimer, \* _coalesceTimer is armed
    releaseTimer,  \* _releaseTimer is armed
    workTurn,      \* _backgroundWorkTurn: the turn owning the mailbox
    currentTurn,   \* _currentTurnId
    \* HTTP prompts and the manager's other state.
    pc,            \* where the handler and loop of a prompt are
    on,            \* the instance a prompt captured
    releasing,     \* release() calls that await: <<instance, who waits>>
    draining,      \* instances whose abort handler awaits brain.abort()
    pendingAborts, \* _pendingAborts: turn ids, NoTurn for the session-wide slot
    evicted,       \* the handoff marker of the session exists
    \* Job runners.
    run,           \* life of the process or child behind a job
    outcome,       \* terminal status the runner read before its last await
    killed,        \* the process or child was told to stop
    owner,         \* backgroundWorkOwners: turn whose mailbox was captured
    \* History.
    countedOn,     \* instance whose workCount a launch incremented
    underStop,     \* jobs running in the registry when a user Stop was handled
    tellings,      \* how often a completion was put into a prompt
    fate           \* what became of a completion's notice

sessionVars == <<resident, created, busy, aborted, invalidated, doneCallback,
                 workCount, pending, coalesceTimer, releaseTimer, workTurn,
                 currentTurn>>
handlerVars == <<pc, on, releasing, draining, pendingAborts, evicted>>
runnerVars  == <<run, outcome, killed, owner>>
historyVars == <<countedOn, underStop, tellings, fate>>
noticeVars  == <<tellings, fate>>

vars == <<registryVars, mailboxVars, sessionVars, handlerVars, runnerVars,
          historyVars>>

Admitted == {"releasing", "restoring", "restored", "creating"}
Running  == {"model", "next", "deferred"}
Finished == {"done", "refused"}

SessionTypeOK ==
    /\ resident \in 0..MaxInstances
    /\ created \in 0..MaxInstances
    /\ busy \in [Instances -> {"idle", "http", "synth"}]
    /\ aborted \in [Instances -> BOOLEAN]
    /\ invalidated \in [Instances -> BOOLEAN]
    /\ doneCallback \in [Instances -> BOOLEAN]
    /\ workCount \in [Instances -> Nat]
    /\ pending \in [Instances -> SUBSET Jobs]
    /\ coalesceTimer \in [Instances -> BOOLEAN]
    /\ releaseTimer \in [Instances -> BOOLEAN]
    /\ workTurn \in [Instances -> Turns \cup {NoTurn}]
    /\ currentTurn \in [Instances -> Turns \cup {NoTurn}]

HandlerTypeOK ==
    /\ pc \in [Turns -> {"new"} \cup Admitted \cup Running \cup Finished]
    /\ on \in [Turns -> 0..MaxInstances]
    /\ releasing \subseteq Instances \X (Turns \cup {NoTurn})
    /\ draining \subseteq Instances
    /\ pendingAborts \subseteq Turns \cup {NoTurn}
    /\ evicted \in BOOLEAN

RunnerTypeOK ==
    /\ run \in [Jobs -> {"absent", "starting", "live", "flushing", "over"}]
    /\ outcome \in [Jobs -> JobStatus]
    /\ killed \subseteq Jobs
    /\ owner \in [Jobs -> Turns \cup {NoTurn}]

HistoryTypeOK ==
    /\ countedOn \in [Jobs -> 0..MaxInstances]
    /\ underStop \subseteq Jobs
    /\ tellings \in [Jobs -> Nat]
    /\ fate \in [Jobs -> {"none", "told", "dropped", "lost"}]

TypeOK ==
    /\ RegistryTypeOK
    /\ MailboxTypeOK(Jobs)
    /\ SessionTypeOK
    /\ HandlerTypeOK
    /\ RunnerTypeOK
    /\ HistoryTypeOK

Init ==
    /\ RegistryInit
    /\ MailboxInit
    /\ resident = None
    /\ created = 0
    /\ busy = [i \in Instances |-> "idle"]
    /\ aborted = [i \in Instances |-> FALSE]
    /\ invalidated = [i \in Instances |-> FALSE]
    /\ doneCallback = [i \in Instances |-> FALSE]
    /\ workCount = [i \in Instances |-> 0]
    /\ pending = [i \in Instances |-> {}]
    /\ coalesceTimer = [i \in Instances |-> FALSE]
    /\ releaseTimer = [i \in Instances |-> FALSE]
    /\ workTurn = [i \in Instances |-> NoTurn]
    /\ currentTurn = [i \in Instances |-> NoTurn]
    /\ pc = [t \in Turns |-> "new"]
    /\ on = [t \in Turns |-> None]
    /\ releasing = {}
    /\ draining = {}
    /\ pendingAborts = {}
    /\ evicted = FALSE
    /\ run = [j \in Jobs |-> "absent"]
    /\ outcome = [j \in Jobs |-> "absent"]
    /\ killed = {}
    /\ owner = [j \in Jobs |-> NoTurn]
    /\ countedOn = [j \in Jobs |-> None]
    /\ underStop = {}
    /\ tellings = [j \in Jobs |-> 0]
    /\ fate = [j \in Jobs |-> "none"]

----------------------------------------------------------------------------
(* What handlers share.                                                    *)

Live(j) == run[j] \in {"starting", "live", "flushing"}

\* Mutants: the mutex does not see HTTP prompts; nobody looks at the parent's
\* _aborted; the notices do not defer a release.
PromptIdleUnlessSynthetic(r) == busy[r] # "synth"
UnderStopIgnored == FALSE
NotificationWorkIgnored(r, pn, ct) == FALSE

\* _promptDone && !_promptInflight of the map entry r.
PromptIdle(r) == busy[r] = "idle"

\* isUserAborted: the parent session is under a user Stop.
UnderStop == resident # None /\ aborted[resident]

\* The model of instance i runs, so its tools can be called.
ModelRunning(i) ==
    \/ busy[i] = "synth"
    \/ \E t \in Turns : pc[t] = "model" /\ on[t] = i

\* hasPendingNotificationWork(), over the values a handler has just written.
NotificationWork(r, pn, ct) == pn[r] # {} \/ ct[r]

\* Mutant: detached work does not defer a release.
ScheduleReleaseUnderWork(r, rt, wc, pn, ct) ==
    [i \in Instances |-> rt[i] \/ (i = r /\ ~NotificationWork(i, pn, ct))]

\* scheduleRelease() of the instance r in the map: the value of releaseTimer,
\* given the values the handler has written so far.  The length of the timer
\* (0 or 30 s) is not modelled: a timer may fire at any time.
ScheduleRelease(r, rt, wc, pn, ct) ==
    [i \in Instances |->
        rt[i] \/ (i = r /\ wc[i] = 0 /\ ~NotificationWork(i, pn, ct))]

\* Mutant: a reused session keeps its timer.
ClearTimerForgotten(timer, r) == timer

ClearTimer(timer, r) == [i \in Instances |-> timer[i] /\ i # r]

\* Jobs S get a fate, once.
Fate(S, f) == [j \in Jobs |-> IF j \in S /\ fate[j] = "none" THEN f ELSE fate[j]]

\* The completions S are put into a prompt.
Tell(S) ==
    /\ tellings' = [j \in Jobs |-> IF j \in S THEN tellings[j] + 1 ELSE tellings[j]]
    /\ fate' = Fate(S, "told")

\* The synchronous tail of release(): drop the map entry of r and the
\* notification state the instance still has.
DropResident(r) ==
    /\ resident' = None
    /\ pending' = [pending EXCEPT ![r] = {}]
    /\ coalesceTimer' = [coalesceTimer EXCEPT ![r] = FALSE]
    /\ fate' = Fate(pending[r], "lost")

\* release() of the map entry r for the continuation of w: with nothing to
\* await it is one segment.
BeginRelease(r, w) ==
    IF SlowTeardown
    THEN /\ releasing' = releasing \cup {<<r, w>>}
         /\ UNCHANGED <<resident, pending, coalesceTimer, fate>>
    ELSE /\ DropResident(r)
         /\ UNCHANGED releasing

\* stopSessionJobs(): stop every stoppable job of S.  The kill hook reaches
\* the process only once there is one; during a dial it is a no-op.
StopSessionJobs(S) ==
    /\ StopJobs(S, TRUE)
    /\ killed' = killed \cup {j \in Stoppable(S) : run[j] = "live"}

----------------------------------------------------------------------------
(* POST /api/prompt: getOrCreate(), the busy guard, the claim.             *)

MayArrive(t) ==
    /\ pc[t] = "new"
    /\ SerialPrompts => \A u \in Turns : pc[u] \in {"new"} \cup Finished

\* ensureSessionContext(): a session handed away gives up its resident brain,
\* whatever it still owes, and reads its history back from the control plane.
\* With a busy resident it gives up instead and the busy guard answers.
RestoreHandedAway(t) ==
    /\ MayArrive(t)
    /\ evicted
    /\ resident # None => PromptIdle(resident)
    /\ \E rehydrated \in BOOLEAN : evicted' = ~rehydrated
    /\ IF resident = None
       THEN /\ pc' = [pc EXCEPT ![t] = "restored"]
            /\ UNCHANGED <<resident, pending, coalesceTimer, releaseTimer,
                           releasing, fate>>
       ELSE /\ releaseTimer' = ClearTimer(releaseTimer, resident)
            /\ BeginRelease(resident, t)
            /\ pc' = [pc EXCEPT ![t] = IF SlowTeardown THEN "restoring" ELSE "restored"]
    /\ UNCHANGED <<registryVars, mailboxVars, created, busy, aborted, invalidated,
                   doneCallback, workCount, workTurn, currentTurn, on, draining,
                   pendingAborts, runnerVars, countedOn, underStop, tellings>>

\* The prompt handler goes on to getOrCreate() in this step.
Arrives(t) ==
    \/ pc[t] = "restored"
    \/ MayArrive(t) /\ (evicted => resident # None /\ ~PromptIdle(resident))

\* No instance: create one (ensureSharedComponents(), createSiclawSession()).
PromptCold(t) ==
    /\ Arrives(t)
    /\ resident = None
    /\ pc' = [pc EXCEPT ![t] = "creating"]
    /\ UNCHANGED <<registryVars, mailboxVars, sessionVars, on, releasing, draining,
                   pendingAborts, evicted, runnerVars, historyVars>>

MustRebuild(r) ==
    /\ PromptIdle(r)
    /\ invalidated[r]
    /\ workCount[r] = 0
    /\ ~NotificationWork(r, pending, coalesceTimer)

\* releaseForRebuild(): a mandatory rebuild, or an idle instance whose
\* execution context differs from the request's.
PromptRebuild(t) ==
    /\ Arrives(t)
    /\ resident # None
    /\ PromptIdle(resident)
    /\ MustRebuild(resident) \/ ContextChanges
    /\ releaseTimer' = ClearTimer(releaseTimer, resident)
    /\ BeginRelease(resident, t)
    /\ pc' = [pc EXCEPT ![t] = IF SlowTeardown THEN "releasing" ELSE "creating"]
    /\ UNCHANGED <<registryVars, mailboxVars, created, busy, aborted, invalidated,
                   doneCallback, workCount, workTurn, currentTurn, on, draining,
                   pendingAborts, evicted, runnerVars, countedOn, underStop, tellings>>

\* 409: the instance is busy.  An invalidated busy one is returned at once,
\* before its release timer is cleared.
PromptRefused(t) ==
    /\ Arrives(t)
    /\ resident # None
    /\ ~PromptIdle(resident)
    /\ pc' = [pc EXCEPT ![t] = "refused"]
    /\ releaseTimer' = IF invalidated[resident] THEN releaseTimer
                       ELSE ClearTimer(releaseTimer, resident)
    /\ UNCHANGED <<registryVars, mailboxVars, resident, created, busy, aborted,
                   invalidated, doneCallback, workCount, pending, coalesceTimer,
                   workTurn, currentTurn, on, releasing, draining, pendingAborts,
                   evicted, runnerVars, historyVars>>

\* consumePendingAbort(): this turn's own slot first, else the session-wide one.
PendingAbort(t) == {t, NoTurn} \cap pendingAborts # {}
ConsumedSlot(t) == IF t \in pendingAborts THEN t ELSE NoTurn

\* The claim of instance i by turn t: one segment from the busy guard to the
\* start of the run, with three ends.  rt is the value of releaseTimer that
\* getOrCreate() left.
Claim(t, i, rt) ==
    /\ on' = [on EXCEPT ![t] = i]
    /\ currentTurn' = [currentTurn EXCEPT ![i] = t]
    /\ pendingAborts' = pendingAborts \ {ConsumedSlot(t)}
    /\ \/ /\ SetupMayFail                          \* releasePromptLockOnSetupFailure
          /\ pc' = [pc EXCEPT ![t] = "done"]
          /\ aborted' = [aborted EXCEPT ![i] = PendingAbort(t)]
          /\ CancelMailbox(IF PendingAbort(t) THEN workTurn[i] ELSE NoTurn)
          /\ releaseTimer' = rt
          /\ UNCHANGED <<busy, workTurn>>
       \/ /\ PendingAbort(t)                       \* pre-prompt latch
          /\ pc' = [pc EXCEPT ![t] = "done"]
          /\ aborted' = [aborted EXCEPT ![i] = FALSE]
          /\ cancelled' = [u \in Turns |-> cancelled[u] \/ u \in {t, workTurn[i]}]
          /\ steers' = [u \in Turns |-> IF u \in {t, workTurn[i]} THEN 0 ELSE steers[u]]
          /\ workTurn' = [workTurn EXCEPT ![i] = t]
          /\ releaseTimer' = ScheduleRelease(i, rt, workCount, pending, coalesceTimer)
          /\ UNCHANGED <<busy, registered, ready, consumed>>
       \/ /\ ~PendingAbort(t)                      \* the run starts
          /\ pc' = [pc EXCEPT ![t] = "model"]
          /\ aborted' = [aborted EXCEPT ![i] = FALSE]
          /\ busy' = [busy EXCEPT ![i] = "http"]
          /\ workTurn' = [workTurn EXCEPT ![i] = t]
          /\ releaseTimer' = rt
          /\ UNCHANGED mailboxVars

\* getOrCreate() returns the resident instance and the prompt claims it.  An
\* invalidated one that detached work still owns is used as it is.
PromptWarm(t) ==
    /\ Arrives(t)
    /\ resident # None
    /\ PromptIdle(resident)
    /\ ~MustRebuild(resident)
    /\ Claim(t, resident, ClearTimer(releaseTimer, resident))
    /\ UNCHANGED <<registryVars, resident, created, invalidated, doneCallback, workCount,
                   pending, coalesceTimer, releasing, draining, evicted, runnerVars,
                   historyVars>>

\* createSiclawSession() resolved: the new instance takes the map entry,
\* whatever is in it, and the same continuation claims it.
Created(t) ==
    /\ pc[t] = "creating"
    /\ created < MaxInstances
    /\ created' = created + 1
    /\ resident' = created + 1
    /\ Claim(t, created + 1, releaseTimer)
    /\ UNCHANGED <<registryVars, invalidated, doneCallback, workCount, pending,
                   coalesceTimer, releasing, draining, evicted, runnerVars, historyVars>>

----------------------------------------------------------------------------
(* The run of a prompt: the request loop around the model.                 *)

\* Mutant: the finish does not re-arm the release.
ActuallyFinishNoRelease(t) ==
    /\ pc' = [pc EXCEPT ![t] = "done"]
    /\ CancelMailbox(t)
    /\ busy' = [busy EXCEPT ![on[t]] = "idle"]
    /\ doneCallback' = [doneCallback EXCEPT ![on[t]] = FALSE]
    /\ UNCHANGED releaseTimer

\* actuallyFinish() of turn t: the instance it captured is idle again, and
\* the release of whatever the map holds is scheduled (twice when a reload
\* left its callback; the second call finds the first one's timer).
ActuallyFinish(t) ==
    LET i == on[t] IN
    /\ pc' = [pc EXCEPT ![t] = "done"]
    /\ CancelMailbox(t)
    /\ busy' = [busy EXCEPT ![i] = "idle"]
    /\ doneCallback' = [doneCallback EXCEPT ![i] = FALSE]
    /\ releaseTimer' = ScheduleRelease(resident, releaseTimer, workCount, pending, coalesceTimer)

\* onPromptFinish(): at once, or deferred while the agent still compacts.
OnPromptFinish(t) ==
    \/ ActuallyFinish(t)
    \/ /\ pc' = [pc EXCEPT ![t] = "deferred"]
       /\ UNCHANGED <<mailboxVars, busy, doneCallback, releaseTimer>>

FinishFrame ==
    UNCHANGED <<resident, created, aborted, invalidated, workCount, pending,
                coalesceTimer, workTurn, currentTurn, on, releasing, draining,
                pendingAborts, evicted, run, outcome, owner, historyVars>>

\* runPrompt() resolved and the loop goes on to next().
ModelReturns(t) ==
    /\ pc[t] = "model"
    /\ ~aborted[on[t]]
    /\ pc' = [pc EXCEPT ![t] = "next"]
    /\ UNCHANGED <<mailboxVars, busy, doneCallback, releaseTimer, registryVars, killed>>
    /\ FinishFrame

\* runPrompt() resolved after a Stop: the loop ends.
ModelAborted(t) ==
    /\ pc[t] = "model"
    /\ aborted[on[t]]
    /\ OnPromptFinish(t)
    /\ UNCHANGED <<registryVars, killed>>
    /\ FinishFrame

\* runPrompt() resolved without success (and no Stop did it), or threw: the
\* jobs of the turn are stopped.
ModelFails(t) ==
    /\ pc[t] = "model"
    /\ OnPromptFinish(t)
    /\ StopSessionJobs(registered[t])
    /\ FinishFrame

\* next() handed out results: they are the next prompt of the same turn.
NextResults(t) ==
    /\ pc[t] = "next"
    /\ ~aborted[on[t]]
    /\ ConsumeBatch(t)
    /\ Tell(Batch(t))
    /\ pc' = [pc EXCEPT ![t] = "model"]
    /\ UNCHANGED <<registryVars, sessionVars, on, releasing, draining, pendingAborts,
                   evicted, runnerVars, countedOn, underStop>>

\* next() woke for a steer: it is the next prompt of the same turn.
NextSteer(t) ==
    /\ pc[t] = "next"
    /\ ~aborted[on[t]]
    /\ TakeSteer(t)
    /\ pc' = [pc EXCEPT ![t] = "model"]
    /\ UNCHANGED <<registryVars, sessionVars, on, releasing, draining, pendingAborts,
                   evicted, runnerVars, historyVars>>

\* next() returned nothing to do, or a Stop ended the wait.
NextEnds(t) ==
    /\ pc[t] = "next"
    /\ NextReady(t)
    /\ \/ aborted[on[t]]
       \/ cancelled[t]
       \/ steers[t] = 0 /\ Batch(t) = {}
    /\ OnPromptFinish(t)
    /\ UNCHANGED <<registryVars, killed>>
    /\ FinishFrame

\* The agent is truly done: the deferred finish runs.
DeferredFinish(t) ==
    /\ pc[t] = "deferred"
    /\ ActuallyFinish(t)
    /\ UNCHANGED <<registryVars, killed>>
    /\ FinishFrame

\* POST /steer on the resident instance: while next() waits the mailbox takes
\* it; otherwise it goes to the brain's own queue, which is not modelled.
Steer ==
    /\ resident # None
    /\ \E t \in Turns :
        /\ workTurn[resident] = t
        /\ pc[t] = "next"
        /\ QueueSteer(t)
    /\ UNCHANGED <<registryVars, sessionVars, handlerVars, runnerVars, historyVars>>

----------------------------------------------------------------------------
(* Background jobs.                                                        *)

\* The tool executors look the session up by id, so a launch is accounted to
\* the resident instance r.  Without one nothing is counted and nobody owns it.
Owner(r) == IF r = None THEN NoTurn ELSE workTurn[r]

\* createBackgroundExecExecutor(), startBackgroundSubagent(): the model of
\* instance i launches job j.  Past the cap a background command throws and
\* the tool runs it in the foreground: no job.
Launch(i, j) ==
    /\ ModelRunning(i)
    /\ status[j] = "absent"
    /\ ~UnderStop
    /\ j \in ExecJobs =>
         Cardinality({k \in ExecJobs : status[k] = "running"}) < ExecCap
    /\ RegisterRunning(j)
    /\ \E first \in IF j \in ExecJobs THEN {"starting", "live"} ELSE {"starting"} :
         run' = [run EXCEPT ![j] = first]
    /\ owner' = [owner EXCEPT ![j] = Owner(resident)]
    /\ registered' = RegisterIn(Owner(resident), j)
    /\ workCount' = [k \in Instances |-> IF k = resident THEN workCount[k] + 1
                                                          ELSE workCount[k]]
    /\ releaseTimer' = ClearTimer(releaseTimer, resident)
    /\ countedOn' = [countedOn EXCEPT ![j] = resident]
    /\ UNCHANGED <<ready, consumed, cancelled, steers, resident, created, busy,
                   aborted, invalidated, doneCallback, pending, coalesceTimer,
                   workTurn, currentTurn, handlerVars, outcome, killed, underStop,
                   noticeVars>>

\* The Stop latch of both executors: nothing starts; the job is registered
\* stopped and silent and its notice ends there.
LaunchUnderStop(i, j) ==
    /\ ModelRunning(i)
    /\ status[j] = "absent"
    /\ UnderStop
    /\ RegisterStopped(j)
    /\ run' = [run EXCEPT ![j] = "over"]
    /\ registered' = IF j \in SubJobs THEN RegisterIn(Owner(resident), j) ELSE registered
    /\ fate' = Fate({j}, "dropped")
    /\ UNCHANGED <<ready, consumed, cancelled, steers, sessionVars, handlerVars,
                   outcome, killed, owner, countedOn, underStop, tellings>>

\* The dial of a background command resolved, a child got its slots and its
\* session.  A stop that came during the dial is honoured now; a child asks
\* whether its parent session is under a user Stop.
Start(j) ==
    /\ run[j] = "starting"
    /\ run' = [run EXCEPT ![j] = "live"]
    /\ hook' = [hook EXCEPT ![j] = TRUE]
    /\ killed' = IF \/ j \in ExecJobs /\ status[j] = "stopped"
                    \/ j \in SubJobs /\ UnderStop
                 THEN killed \cup {j} ELSE killed
    /\ UNCHANGED <<status, notified, suppressed, mailboxVars, sessionVars, handlerVars,
                   outcome, owner, historyVars>>

\* The process exited or the dial or spawn failed (settle() with "failed"
\* whatever happened before): the runner reads the terminal status, then
\* awaits the flush of the output.  A child's result is kept until its output
\* is persisted.  `settled` lets one such event through: the job leaves "live".
Exit(j) ==
    /\ run[j] = "live" \/ (run[j] = "starting" /\ j \in ExecJobs)
    /\ run' = [run EXCEPT ![j] = "flushing"]
    /\ \E end \in {"completed", "failed"} :
         outcome' = [outcome EXCEPT ![j] =
             IF j \in ExecJobs /\ end = "completed" /\ status[j] = "stopped"
             THEN "stopped" ELSE end]
    /\ run[j] = "starting" => outcome'[j] = "failed"
    /\ UNCHANGED <<registryVars, mailboxVars, sessionVars, handlerVars, killed, owner,
                   historyVars>>

\* The status written when the job settles: a background command keeps what
\* it read before the flush, a sub-agent honours a stop seen after it.
SettledStatus(j) ==
    IF j \in SubJobs /\ status[j] = "stopped" THEN "stopped" ELSE outcome[j]

\* notifyParent() for the completion of j, in the same segment: w is the
\* captured owner, else the resident instance's own mailbox.
NotifyParent(j) ==
    LET r == resident
        w == IF owner[j] # NoTurn THEN owner[j] ELSE Owner(r)
        reaches == r # None /\ ~notified[j]
        buffered == reaches /\ ~Owns(w, j) /\ ~suppressed[j]
    IN
    /\ ready' = IF reaches THEN CompleteIn(w, j) ELSE ready
    /\ pending' = [i \in Instances |->
                     IF buffered /\ i = r THEN pending[i] \cup {j} ELSE pending[i]]
    /\ coalesceTimer' = [i \in Instances |-> coalesceTimer[i] \/ (buffered /\ i = r)]
    /\ fate' = IF r = None
               THEN Fate({j}, IF suppressed[j] \/ (Owns(w, j) /\ cancelled[w])
                              THEN "dropped" ELSE "lost")
               ELSE IF reaches /\ (IF Owns(w, j) THEN cancelled[w] ELSE suppressed[j])
               THEN Fate({j}, "dropped")
               ELSE fate

\* Mutant: Math.max(0, ...) is missing.
LessWorkUnclamped(r) == [i \in Instances |-> IF i = r THEN workCount[i] - 1
                                                        ELSE workCount[i]]

\* releaseBackgroundWork(): the resident instance's count, whichever instance
\* that is by now.
LessWork(r) == [i \in Instances |-> IF i = r /\ workCount[i] > 0 THEN workCount[i] - 1
                                                                 ELSE workCount[i]]

\* settle(): the status, the notice, then the count and perhaps a release.
Settle(j) ==
    /\ run[j] = "flushing"
    /\ run' = [run EXCEPT ![j] = "over"]
    /\ SetStatusAndClaim(j, SettledStatus(j), resident # None)
    /\ NotifyParent(j)
    /\ workCount' = LessWork(resident)
    /\ releaseTimer' = IF resident # None /\ PromptIdle(resident)
                       THEN ScheduleRelease(resident, releaseTimer, workCount',
                                            pending', coalesceTimer')
                       ELSE releaseTimer
    /\ UNCHANGED <<registered, consumed, cancelled, steers, resident, created, busy,
                   aborted, invalidated, doneCallback, workTurn, currentTurn,
                   handlerVars, outcome, killed, owner, countedOn, underStop, tellings>>

\* The model's job_stop tool.
JobStop(j) ==
    /\ \E i \in Instances : ModelRunning(i)
    /\ j \in Stoppable(Jobs)
    /\ StopJobs({j}, FALSE)
    /\ killed' = killed \cup {k \in {j} : run[k] = "live"}
    /\ UNCHANGED <<mailboxVars, sessionVars, handlerVars, run, outcome, owner, historyVars>>

----------------------------------------------------------------------------
(* Notices that no prompt owns: coalescing, synthetic turns.               *)

\* The coalescing timer of instance i fires; flushPendingNotifications()
\* works on the instance in the map.  Timers run between microtask drains, so
\* the queued continuation of runSyntheticPrompt() belongs to this segment.
FlushUnderStop(i) ==
    /\ coalesceTimer[i]
    /\ UnderStop
    /\ coalesceTimer' = [k \in Instances |-> coalesceTimer[k] /\ k \notin {i, resident}]
    /\ pending' = [pending EXCEPT ![resident] = {}]
    /\ fate' = Fate(pending[resident], "dropped")
    /\ CancelMailbox(workTurn[resident])
    /\ releaseTimer' = IF PromptIdle(resident)
                       THEN ScheduleRelease(resident, releaseTimer, workCount,
                                            pending', coalesceTimer')
                       ELSE releaseTimer
    /\ UNCHANGED <<registryVars, resident, created, busy, aborted, invalidated,
                   doneCallback, workCount, workTurn, currentTurn, handlerVars,
                   runnerVars, countedOn, underStop, tellings>>

\* A turn is running: wait for it, the timer is armed again.
FlushRearm(i) ==
    /\ coalesceTimer[i]
    /\ resident # None
    /\ ~UnderStop
    /\ ~PromptIdle(resident)
    /\ coalesceTimer' = [k \in Instances |-> k = resident \/ (coalesceTimer[k] /\ k # i)]
    /\ UNCHANGED <<registryVars, mailboxVars, resident, created, busy, aborted,
                   invalidated, doneCallback, workCount, pending, releaseTimer,
                   workTurn, currentTurn, handlerVars, runnerVars, historyVars>>

\* runSyntheticPrompt(): the whole batch in one synthetic turn.
FlushDeliver(i) ==
    /\ coalesceTimer[i]
    /\ resident # None
    /\ ~UnderStop
    /\ PromptIdle(resident)
    /\ pending[resident] # {}
    /\ coalesceTimer' = [k \in Instances |-> coalesceTimer[k] /\ k \notin {i, resident}]
    /\ pending' = [pending EXCEPT ![resident] = {}]
    /\ Tell(pending[resident])
    /\ busy' = [busy EXCEPT ![resident] = "synth"]
    /\ releaseTimer' = ClearTimer(releaseTimer, resident)
    /\ UNCHANGED <<registryVars, mailboxVars, resident, created, aborted, invalidated,
                   doneCallback, workCount, workTurn, currentTurn, handlerVars,
                   runnerVars, countedOn, underStop>>

\* Nothing left to flush, or the session is gone.
FlushNothing(i) ==
    /\ coalesceTimer[i]
    /\ \/ resident = None
       \/ /\ resident # None /\ ~UnderStop
          /\ PromptIdle(resident) /\ pending[resident] = {}
    /\ coalesceTimer' = [k \in Instances |-> coalesceTimer[k] /\ k \notin {i, resident}]
    /\ UNCHANGED <<registryVars, mailboxVars, resident, created, busy, aborted,
                   invalidated, doneCallback, workCount, pending, releaseTimer,
                   workTurn, currentTurn, handlerVars, runnerVars, historyVars>>

\* The finally of a synthetic turn on instance i.
SyntheticEnds(i) ==
    /\ busy[i] = "synth"
    /\ busy' = [busy EXCEPT ![i] = "idle"]
    /\ doneCallback' = [doneCallback EXCEPT ![i] = FALSE]
    /\ releaseTimer' = IF doneCallback[i] \/ workCount[i] = 0
                       THEN ScheduleRelease(resident, releaseTimer, workCount,
                                            pending, coalesceTimer)
                       ELSE releaseTimer
    /\ UNCHANGED <<registryVars, mailboxVars, resident, created, aborted, invalidated,
                   workCount, pending, coalesceTimer, workTurn, currentTurn,
                   handlerVars, runnerVars, historyVars>>

----------------------------------------------------------------------------
(* POST /abort, reload, release timers, handoff.                           *)

\* The session is not there, or runs another turn than the one named: record
\* a pending abort for the prompt that may still come.  The session-wide slot
\* is armed only for a session no prompt ever asked for.  Bound: the slot of a turn
\* whose prompt is over is left out, no prompt reads it again.
StopEarly(u) ==
    /\ u \in Turns => pc[u] \notin Finished \cup Running
    /\ IF resident = None
       THEN u # NoTurn \/ \A t \in Turns : pc[t] = "new"
       ELSE u # NoTurn /\ currentTurn[resident] \notin {NoTurn, u}
    /\ pendingAborts' = pendingAborts \cup {u}
    /\ UNCHANGED <<registryVars, mailboxVars, sessionVars, pc, on, releasing, draining,
                   evicted, runnerVars, historyVars>>

\* The time-to-live of a pending abort ran out.
PendingAbortExpires(u) ==
    /\ u \in pendingAborts
    /\ pendingAborts' = pendingAborts \ {u}
    /\ UNCHANGED <<registryVars, mailboxVars, sessionVars, pc, on, releasing, draining,
                   evicted, runnerVars, historyVars>>

\* Up to `await brain.abort()`: latch, cancel the mailbox, discard the pending
\* notices (which may schedule a release), stop every job of the session.
Stop(u) ==
    /\ resident # None
    /\ u = NoTurn \/ currentTurn[resident] \in {NoTurn, u}
    /\ aborted' = [aborted EXCEPT ![resident] = TRUE]
    /\ CancelMailbox(workTurn[resident])
    /\ pending' = [pending EXCEPT ![resident] = {}]
    /\ coalesceTimer' = ClearTimer(coalesceTimer, resident)
    /\ fate' = Fate(pending[resident], "dropped")
    /\ releaseTimer' = IF PromptIdle(resident)
                       THEN ScheduleRelease(resident, releaseTimer, workCount,
                                            pending', coalesceTimer')
                       ELSE releaseTimer
    /\ StopSessionJobs(Jobs)
    /\ draining' = draining \cup {resident}
    /\ underStop' = underStop \cup {j \in Jobs : status[j] = "running"}
    /\ UNCHANGED <<resident, created, busy, invalidated, doneCallback, workCount,
                   workTurn, currentTurn, pc, on, releasing, pendingAborts, evicted,
                   run, outcome, owner, countedOn, tellings>>

\* brain.abort() settled, or its two seconds ran out: sweep again.
StopDrained(i) ==
    /\ i \in draining
    /\ draining' = draining \ {i}
    /\ StopSessionJobs(Jobs)
    /\ UNCHANGED <<mailboxVars, sessionVars, pc, on, releasing, pendingAborts, evicted,
                   run, outcome, owner, historyVars>>

\* POST /reload-*: invalidate() schedules the release now or after the prompt.
Invalidate ==
    /\ resident # None
    /\ invalidated' = [invalidated EXCEPT ![resident] = TRUE]
    /\ IF PromptIdle(resident)
       THEN /\ releaseTimer' = ScheduleRelease(resident, releaseTimer, workCount,
                                               pending, coalesceTimer)
            /\ UNCHANGED doneCallback
       ELSE /\ doneCallback' = [doneCallback EXCEPT ![resident] = TRUE]
            /\ UNCHANGED releaseTimer
    /\ UNCHANGED <<registryVars, mailboxVars, resident, created, busy, aborted,
                   workCount, pending, coalesceTimer, workTurn, currentTurn,
                   handlerVars, runnerVars, historyVars>>

\* The release timer of instance i fires: release() of the session id.
ReleaseTimerFires(i) ==
    /\ releaseTimer[i]
    /\ releaseTimer' = ClearTimer(releaseTimer, i)
    /\ IF resident = None
       THEN UNCHANGED <<resident, pending, coalesceTimer, releasing, fate>>
       ELSE BeginRelease(resident, NoTurn)
    /\ UNCHANGED <<registryVars, mailboxVars, created, busy, aborted, invalidated,
                   doneCallback, workCount, workTurn, currentTurn, pc, on, draining,
                   pendingAborts, evicted, runnerVars, countedOn, underStop, tellings>>

\* The awaits of release() are over; only the same instance is dropped.  The
\* prompt that waited for it, if any, goes on.
ReleaseDone(i, w) ==
    /\ <<i, w>> \in releasing
    /\ releasing' = releasing \ {<<i, w>>}
    /\ IF resident = i
       THEN DropResident(i)
       ELSE UNCHANGED <<resident, pending, coalesceTimer, fate>>
    /\ pc' = [t \in Turns |->
                IF t # w THEN pc[t]
                ELSE IF pc[t] = "restoring" THEN "restored" ELSE "creating"]
    /\ UNCHANGED <<registryVars, mailboxVars, created, busy, aborted, invalidated,
                   doneCallback, workCount, releaseTimer, workTurn, currentTurn, on,
                   draining, pendingAborts, evicted, runnerVars, countedOn, underStop,
                   tellings>>

\* transfer_to_agent: mark the session as handed away, cancel the resident
\* mailbox and stop its jobs.  The model may still launch others in the turn.
Handoff(i) ==
    /\ Handoffs
    /\ ModelRunning(i)
    /\ evicted' = TRUE
    /\ CancelMailbox(Owner(resident))
    /\ StopSessionJobs(UNION {registered[t] : t \in Turns \cap {Owner(resident)}})
    /\ UNCHANGED <<sessionVars, pc, on, releasing, draining, pendingAborts, run, outcome,
                   owner, historyVars>>

----------------------------------------------------------------------------

ModelEnds(t) == ModelReturns(t) \/ ModelAborted(t) \/ ModelFails(t)

TurnNext(t) ==
    \/ RestoreHandedAway(t) \/ PromptCold(t) \/ PromptRebuild(t)
    \/ PromptRefused(t) \/ PromptWarm(t) \/ Created(t)
    \/ ModelReturns(t) \/ ModelAborted(t) \/ ModelFails(t)
    \/ NextResults(t) \/ NextSteer(t) \/ NextEnds(t) \/ DeferredFinish(t)

JobNext(j) ==
    \/ \E i \in Instances : Launch(i, j) \/ LaunchUnderStop(i, j)
    \/ Start(j) \/ Exit(j) \/ Settle(j) \/ JobStop(j)

InstanceNext(i) ==
    \/ FlushUnderStop(i) \/ FlushRearm(i) \/ FlushDeliver(i) \/ FlushNothing(i)
    \/ SyntheticEnds(i) \/ ReleaseTimerFires(i) \/ StopDrained(i) \/ Handoff(i)
    \/ \E w \in Turns \cup {NoTurn} : ReleaseDone(i, w)

Next ==
    \/ \E t \in Turns : TurnNext(t)
    \/ \E j \in Jobs : JobNext(j)
    \/ \E i \in Instances : InstanceNext(i)
    \/ \E u \in Turns \cup {NoTurn} : Stop(u) \/ StopEarly(u) \/ PendingAbortExpires(u)
    \/ Steer
    \/ Invalidate

Spec == Init /\ [][Next]_vars

\* Timers fire, promises settle, a model run ends (it answers, fails or is
\* aborted), a process that was told to stop exits.  Nothing makes a user act
\* or a background job that nobody stopped end.
Fairness ==
    /\ \A t \in Turns :
        /\ WF_vars(Created(t))
        /\ WF_vars(ModelEnds(t))
        /\ WF_vars(NextResults(t) \/ NextSteer(t) \/ NextEnds(t))
        /\ WF_vars(DeferredFinish(t))
    /\ \A j \in Jobs :
        /\ WF_vars(j \in ExecJobs /\ Start(j))
        /\ WF_vars(j \in killed /\ Exit(j))
        /\ WF_vars(Settle(j))
    /\ \A i \in Instances :
        /\ WF_vars(FlushUnderStop(i) \/ FlushRearm(i) \/ FlushDeliver(i) \/ FlushNothing(i))
        /\ WF_vars(SyntheticEnds(i))
        /\ WF_vars(ReleaseTimerFires(i))
        /\ WF_vars(\E w \in Turns \cup {NoTurn} : ReleaseDone(i, w))

FairSpec == Spec /\ Fairness

----------------------------------------------------------------------------
(* What the code promises.                                                 *)

\* "Two concurrent brain.prompt() is unrepresentable": the mutex of an
\* instance is held by at most one prompt, and a turn that runs holds it
\* (the busy guard and claim of POST /prompt against runSyntheticPrompt).
PromptMutex ==
    \A t \in Turns : pc[t] \in Running =>
        /\ on[t] \in Instances
        /\ busy[on[t]] = "http"
        /\ \A u \in Turns : pc[u] \in Running /\ on[u] = on[t] => u = t

\* One model at a time appends to the transcript of the session: no two
\* instances of the session have a prompt running, and a running one is the
\* instance the map holds, so that Stop, steer and notices can find it.
OneBrainPerSession ==
    \A i \in Instances : busy[i] # "idle" => resident = i

\* A completion is put into a prompt at most once, as a result handed to the
\* prompt that owns the job or in a synthetic turn (claimNotification, the
\* consumed set of the mailbox, the splice of the pending buffer).
NoticeAtMostOnce == \A j \in Jobs : tellings[j] <= 1

\* No completion of a job vanishes: notifyParent() finds the session and
\* release() finds no pending notice ("no dropped notify").
NoLostNotice == \A j \in Jobs : fate[j] # "lost"

\* The result of a job that a prompt owns never escapes into a synthetic
\* prompt, even after Stop (complete() answers true once registered).
OwnedResultStaysWithOwner ==
    \A i \in Instances, t \in Turns : pending[i] \cap registered[t] = {}

\* A completion reaches the model once at most, and only through the prompt
\* that owns its job, if one does.
NoticesAreSound == NoticeAtMostOnce /\ OwnedResultStaysWithOwner

\* A prompt in progress is never torn down by a release timer armed before
\* it: whoever takes the prompt mutex has cleared the timer.
NoReleaseTimerUnderPrompt ==
    \A i \in Instances : busy[i] # "idle" => ~releaseTimer[i]

\* "A session holding a background sub-agent is not released", so a box
\* without sessions has no background work (isDrained()).
ResidencyCoversBackgroundWork ==
    resident = None => \A j \in Jobs : ~Live(j)

\* _backgroundWorkCount is the number of jobs that were launched on the
\* instance and have not settled.
WorkCountIsExact ==
    resident # None =>
        workCount[resident] = Cardinality({j \in Jobs : Live(j) /\ countedOn[j] = resident})

\* A session stays in memory as long as a prompt or a job needs it, and by the
\* right count.
ResidencyIsSound ==
    /\ NoReleaseTimerUnderPrompt
    /\ ResidencyCoversBackgroundWork
    /\ WorkCountIsExact

\* Once the abort handler is through and until the next prompt, no process or
\* child of the session runs that has not been told to stop, dials and queued
\* children that come up late included.
StopHaltsJobs ==
    resident # None /\ aborted[resident] /\ draining = {}
        => \A j \in Jobs : run[j] = "live" => j \in killed

\* A user Stop is terminal for the jobs it met: their completions never reach
\* the model, neither then nor after a later prompt reset the latch.
StopSilencesJobs == [][\A j \in underStop : tellings'[j] = tellings[j]]_vars

\* A child that comes up after a user Stop of its session, launched before
\* it, is told to stop at once.
StopReachesQueuedChild ==
    [][\A j \in SubJobs \cap underStop : run[j] = "starting" /\ run'[j] = "live"
                                             => j \in killed']_vars

\* The completion of a job is answered in the end: put into a prompt, or
\* dropped because a Stop or the end of its prompt made it moot.
SettledJobIsAnswered ==
    \A j \in Jobs : run[j] = "over" ~>
        fate[j] # "none" \/ (owner[j] \in Turns /\ cancelled[owner[j]])

\* A stopped prompt ends, also when it waits for a job that never ends.
StoppedPromptEnds ==
    \A t \in Turns : pc[t] \in Running /\ aborted[on[t]] ~> pc[t] = "done"

\* A resident session without prompt, work or notices is released in the end
\* or used again.
Quiet(i) ==
    /\ resident = i
    /\ busy[i] = "idle"
    /\ workCount[i] = 0
    /\ ~NotificationWork(i, pending, coalesceTimer)
QuietSessionIsReleased == \A i \in Instances : Quiet(i) ~> ~Quiet(i)

\* Where the notice of a completion waits: the pending buffer of an instance,
\* or the mailbox of a prompt as long as nobody cancelled it.
Buffer(i) == <<"buffer", i>>
Mailbox(t) == <<"mailbox", t>>
Places == {Buffer(i) : i \in Instances} \cup {Mailbox(t) : t \in Turns}
WaitingAt(p) == IF p[1] = "buffer" THEN pending[p[2]]
                ELSE IF cancelled[p[2]] THEN {} ELSE Batch(p[2])

\* The life of a job's completion: it is due until settle() is over.
LifeOf(j) == CASE run[j] = "absent" -> "ahead"
               [] run[j] = "over"   -> "past"
               [] OTHER             -> "due"

\* Every completion is claimed once, waits at one place at most and is told
\* with the whole batch of that place or not at all (notifyParent(), next(),
\* flushPendingNotifications(), and every release(), cancel() and abort()
\* that empties a place).
Notices == INSTANCE CompletionNotices WITH
              life <- [j \in Jobs |-> LifeOf(j)],
              waiting <- [p \in Places |-> WaitingAt(p)],
              told <- tellings
ImplementsNotices == Notices!Spec

=============================================================================
