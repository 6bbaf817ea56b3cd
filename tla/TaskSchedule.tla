------------------------------ MODULE TaskSchedule ------------------------------
(***************************************************************************)
(* A scheduled task: its row in the portal, the timer that                 *)
(* cron/cron-scheduler.ts keeps for it, and the runs and the periodic      *)
(* reconciliation of gateway/task-coordinator.ts.  Tasks share no state,   *)
(* so there is one.  A request that reads is two steps, the reading and    *)
(* the arrival of the answer, because the answer may be stale by then; a   *)
(* request that writes is one.  A long wait of the timer, split into       *)
(* chunks, is one wait.  Of the cron expression there is whether it fits:  *)
(* whether the matcher finds a next occurrence or throws, because it is    *)
(* malformed or has none within four years.  The portal's pages validate   *)
(* an expression, the row and the scheduler take any.                      *)
(***************************************************************************)
EXTENDS Naturals, FiniteSets

CONSTANTS
    MaxFires,       \* runs, by the clock or by hand
    MaxSyncs,       \* reconciliations
    MaxCalls,       \* calls of fireNow
    MaxMishaps      \* failed requests and restarts

ASSUME ScheduleAssumption == {MaxFires, MaxSyncs, MaxCalls, MaxMishaps} \subseteq Nat

VARIABLES
    task,       \* agent_tasks.status, "gone" without a row
    fits,       \* agent_tasks.schedule has a next occurrence
    rows,       \* runs whose agent_task_runs row says running
    job,        \* scheduler.jobs' copy of the row: "none", or whether its schedule fits
    hasPrompt,  \* jobPrompts has it
    armed,      \* scheduler.timers has its timer
    firing,     \* scheduler.executing has it
    executing,  \* coordinator.executing has it
    fire,       \* the runs
    sync,       \* the reconciliations
    manual,     \* the calls of fireNow
    halted,     \* stop() was called
    mishaps,
    swept       \* history: the last listing that was applied came without the deleted task

scheduleVars == <<task, fits, rows, job, hasPrompt, armed, firing, executing, fire, sync, manual, halted,
                  mishaps, swept>>

Fires == 1..MaxFires
Syncs == 1..MaxSyncs
Calls == 1..MaxCalls
Alive == {f \in Fires : fire[f].at \notin {"none", "over", "lost"}}

NoFire == [at |-> "none", byClock |-> FALSE, said |-> "active", reserved |-> FALSE]

ScheduleInit ==
    /\ task = "active" /\ fits = TRUE /\ rows = {}
    /\ job = "none" /\ hasPrompt = FALSE /\ armed = FALSE
    /\ firing = FALSE /\ executing = FALSE
    /\ fire = [f \in Fires |-> NoFire]
    /\ sync = [s \in Syncs |-> "none"]
    /\ manual = [c \in Calls |-> "none"]
    /\ halted = FALSE /\ mishaps = 0 /\ swept = FALSE

Mishap == mishaps < MaxMishaps /\ mishaps' = mishaps + 1

-----------------------------------------------------------------------------
(* The user, in the portal.  Rows of runs go with their task.              *)

TaskChanges ==
    /\ task # "gone"
    /\ \/ task' \in {"active", "paused", "gone"} \ {task} /\ UNCHANGED fits
       \/ task' = task /\ fits' = ~fits
    /\ rows' = IF task' = "gone" THEN {} ELSE rows
    /\ UNCHANGED <<job, hasPrompt, armed, firing, executing, fire, sync, manual, halted, mishaps, swept>>

-----------------------------------------------------------------------------
(* Reconciliation                                                          *)

\* An interval asks again whether or not the last answer has come.
SyncAsks(s) ==
    /\ ~halted /\ sync[s] = "none"
    /\ \A r \in 1..s - 1 : sync[r] # "none"
    /\ sync' = [sync EXCEPT ![s] = "asking"]
    /\ UNCHANGED <<task, fits, rows, job, hasPrompt, armed, firing, executing, fire, manual, halted, mishaps, swept>>

SyncReads(s) ==
    /\ sync[s] = "asking"
    /\ sync' = [sync EXCEPT ![s] = IF task # "active" THEN "missing" ELSE IF fits THEN "fits" ELSE "unfit"]
    /\ UNCHANGED <<task, fits, rows, job, hasPrompt, armed, firing, executing, fire, manual, halted, mishaps, swept>>

\* scheduleNext(): the timer goes first, and there is a new one only if the
\* schedule has a next occurrence; the error of one that has none is logged.
Scheduled(copy) == copy = "fits"

\* addOrUpdate() takes the listed row.  A timer whose schedule did not change is
\* left as it is, and it fits; otherwise the task is scheduled, one in a run included.
SyncAdds(s) ==
    /\ sync[s] \in {"fits", "unfit"}
    /\ sync' = [sync EXCEPT ![s] = "over"]
    /\ job' = sync[s] /\ hasPrompt' = TRUE /\ armed' = Scheduled(sync[s]) /\ swept' = FALSE
    /\ UNCHANGED <<task, fits, rows, firing, executing, fire, manual, halted, mishaps>>

\* Mutant: the listing removes the tasks that have a timer.
RemovableIfArmed == armed

\* The tasks that a listing may remove are those with a prompt, not those with
\* a timer: a task in a run has none.
Removable == hasPrompt

SyncRemoves(s) ==
    /\ sync[s] = "missing"
    /\ sync' = [sync EXCEPT ![s] = "over"]
    /\ job' = IF Removable THEN "none" ELSE job
    /\ armed' = (armed /\ ~Removable)
    /\ hasPrompt' = (hasPrompt /\ ~Removable)
    /\ swept' = (task = "gone")
    /\ UNCHANGED <<task, fits, rows, firing, executing, fire, manual, halted, mishaps>>

SyncFails(s) ==
    /\ Mishap /\ sync[s] \in {"asking", "fits", "unfit", "missing"}
    /\ sync' = [sync EXCEPT ![s] = "over"]
    /\ UNCHANGED <<task, fits, rows, job, hasPrompt, armed, firing, executing, fire, manual, halted, swept>>

-----------------------------------------------------------------------------
(* Runs                                                                    *)

NextFire(f) == fire[f].at = "none" /\ \A e \in 1..f - 1 : fire[e].at # "none"

\* The timer fires.  A task that runs already, by the clock or by hand, is
\* scheduled again, as before, and otherwise left alone.  (A known task has a prompt, so that the
\* run never ends for want of one.)
TimerFires ==
    /\ armed /\ ~firing /\ ~executing
    /\ \E f \in Fires :
          /\ NextFire(f)
          /\ fire' = [fire EXCEPT ![f] = [NoFire EXCEPT !.at = "asking", !.byClock = TRUE]]
    /\ armed' = FALSE /\ firing' = TRUE /\ executing' = TRUE
    /\ UNCHANGED <<task, fits, rows, job, hasPrompt, sync, manual, halted, mishaps, swept>>

\* A run is over, whichever way, and the scheduler has the given copy; after one
\* by the clock that copy is scheduled, if there is one.
RunOver(f, copy) ==
    /\ fire' = [fire EXCEPT ![f] = [NoFire EXCEPT !.at = "over"]]
    /\ executing' = FALSE
    /\ firing' = (firing /\ ~fire[f].byClock)
    /\ armed' = IF fire[f].byClock THEN Scheduled(copy) ELSE armed /\ copy # "none"

StatusReads(f) ==
    /\ fire[f].at = "asking"
    /\ fire' = [fire EXCEPT ![f].at = "told", ![f].said = task]
    /\ UNCHANGED <<task, fits, rows, job, hasPrompt, armed, firing, executing, sync, manual, halted, mishaps, swept>>

StatusFails(f) ==
    /\ Mishap /\ fire[f].at \in {"asking", "told"}
    /\ RunOver(f, job)
    /\ UNCHANGED <<task, fits, rows, job, hasPrompt, sync, manual, halted, swept>>

StatusActive(f) ==
    /\ fire[f].at = "told" /\ fire[f].said = "active"
    /\ fire' = [fire EXCEPT ![f].at = "starting"]
    /\ UNCHANGED <<task, fits, rows, job, hasPrompt, armed, firing, executing, sync, manual, halted, mishaps, swept>>

\* The task was paused or deleted after its timer was armed.
StatusInactive(f) ==
    /\ fire[f].at = "told" /\ fire[f].said # "active"
    /\ job' = "none" /\ hasPrompt' = FALSE
    /\ RunOver(f, "none")
    /\ UNCHANGED <<task, fits, rows, sync, manual, halted, mishaps, swept>>

\* task.runStart reserves a row, unless the task it refers to is gone.  Without an answer the run goes on and records
\* another row at its end, whether this one was written or not.
Reserves(f) ==
    /\ fire[f].at = "starting" /\ task # "gone"
    /\ rows' = rows \cup {f}
    /\ fire' = [fire EXCEPT ![f].at = "running", ![f].reserved = TRUE]
    /\ UNCHANGED <<task, fits, job, hasPrompt, armed, firing, executing, sync, manual, halted, mishaps, swept>>

ReserveFails(f) ==
    /\ fire[f].at = "starting"
    /\ \/ task = "gone" /\ UNCHANGED <<rows, mishaps>>
       \/ Mishap /\ task # "gone" /\ rows' \in {rows, rows \cup {f}}
    /\ fire' = [fire EXCEPT ![f].at = "running"]
    /\ UNCHANGED <<task, fits, job, hasPrompt, armed, firing, executing, sync, manual, halted, swept>>

\* The conversation ended, failed or timed out.
FireEnds(f) ==
    /\ fire[f].at = "running"
    /\ fire' = [fire EXCEPT ![f].at = "recording"]
    /\ UNCHANGED <<task, fits, rows, job, hasPrompt, armed, firing, executing, sync, manual, halted, mishaps, swept>>

\* task.runFinalize, or task.runRecord of a finished row.
Finalizes(f) ==
    /\ fire[f].at = "recording"
    /\ rows' = IF fire[f].reserved THEN rows \ {f} ELSE rows
    /\ RunOver(f, job)
    /\ UNCHANGED <<task, fits, job, hasPrompt, sync, manual, halted, mishaps, swept>>

FinalizeFails(f) ==
    /\ Mishap /\ fire[f].at = "recording"
    /\ RunOver(f, job)
    /\ UNCHANGED <<task, fits, rows, job, hasPrompt, sync, manual, halted, swept>>

-----------------------------------------------------------------------------
(* fireNow                                                                 *)

CallAsks(c) ==
    /\ manual[c] = "none" /\ \A b \in 1..c - 1 : manual[b] # "none"
    /\ manual' = [manual EXCEPT ![c] = IF executing THEN "refused" ELSE "asking"]
    /\ UNCHANGED <<task, fits, rows, job, hasPrompt, armed, firing, executing, fire, sync, halted, mishaps, swept>>

\* The portal refuses a task that is gone, has a running row, or was run by hand
\* within the cooldown; else it hands out the task, a paused one too.
CallReads(c) ==
    /\ manual[c] = "asking"
    /\ \E answer \in {"refused", "allowed"} :
          /\ answer = "allowed" => task # "gone" /\ rows = {}
          /\ manual' = [manual EXCEPT ![c] = answer]
    /\ UNCHANGED <<task, fits, rows, job, hasPrompt, armed, firing, executing, fire, sync, halted, mishaps, swept>>

\* "ok", but a task that has meanwhile begun to run is not run again.
CallRuns(c) ==
    /\ manual[c] = "allowed"
    /\ manual' = [manual EXCEPT ![c] = "ok"]
    /\ hasPrompt' = TRUE /\ executing' = TRUE
    /\ \/ executing /\ UNCHANGED fire
       \/ /\ ~executing
          /\ \E f \in Fires : NextFire(f) /\ fire' = [fire EXCEPT ![f].at = "starting"]
    /\ UNCHANGED <<task, fits, rows, job, armed, firing, sync, halted, mishaps, swept>>

-----------------------------------------------------------------------------
(* stop() and the end of the process                                       *)

Halt ==
    /\ ~halted /\ halted' = TRUE
    /\ job' = "none" /\ hasPrompt' = FALSE /\ armed' = FALSE
    /\ UNCHANGED <<task, fits, rows, firing, executing, fire, sync, manual, mishaps, swept>>

CoordinatorRestarts ==
    /\ Mishap
    /\ job' = "none" /\ hasPrompt' = FALSE /\ armed' = FALSE /\ halted' = FALSE
    /\ firing' = FALSE /\ executing' = FALSE
    /\ fire' = [f \in Fires |-> IF f \in Alive THEN [NoFire EXCEPT !.at = "lost"] ELSE fire[f]]
    /\ sync' = [s \in Syncs |-> IF sync[s] = "none" THEN "none" ELSE "over"]
    /\ manual' = [c \in Calls |-> IF manual[c] \in {"asking", "allowed"} THEN "refused" ELSE manual[c]]
    /\ UNCHANGED <<task, fits, rows, swept>>

ScheduleNext ==
    \/ TaskChanges \/ TimerFires \/ Halt \/ CoordinatorRestarts
    \/ \E s \in Syncs : SyncAsks(s) \/ SyncReads(s) \/ SyncAdds(s) \/ SyncRemoves(s) \/ SyncFails(s)
    \/ \E f \in Fires :
          \/ StatusReads(f) \/ StatusFails(f) \/ StatusActive(f) \/ StatusInactive(f)
          \/ Reserves(f) \/ ReserveFails(f) \/ FireEnds(f) \/ Finalizes(f) \/ FinalizeFails(f)
    \/ \E c \in Calls : CallAsks(c) \/ CallReads(c) \/ CallRuns(c)

ScheduleSpec == ScheduleInit /\ [][ScheduleNext]_scheduleVars

-----------------------------------------------------------------------------
(* Properties                                                              *)

ScheduleTypeOK ==
    /\ task \in {"active", "paused", "gone"} /\ rows \subseteq Fires
    /\ job \in {"none", "fits", "unfit"}
    /\ {fits, hasPrompt, armed, firing, executing, halted, swept} \subseteq BOOLEAN
    /\ fire \in [Fires -> [at : {"none", "asking", "told", "starting", "running", "recording",
                                 "over", "lost"},
                           byClock : BOOLEAN, said : {"active", "paused", "gone"}, reserved : BOOLEAN]]
    /\ sync \in [Syncs -> {"none", "asking", "fits", "unfit", "missing", "over"}]
    /\ manual \in [Calls -> {"none", "asking", "refused", "allowed", "ok"}]
    /\ mishaps \in 0..MaxMishaps

\* Clock and hand together start one run of the task at a time.
OneRunAtATime == Cardinality(Alive) <= 1 /\ (executing <=> Alive # {})

\* A task the scheduler knows under a schedule that fits is never left without a
\* next occurrence: it has a timer, or a run by the clock that sets one when it
\* ends.  A timer has a known task, and goes when its
\* schedule is replaced by one without a next occurrence.
KnownTaskIsArmed ==
    /\ job = "fits" => armed \/ firing
    /\ armed => job = "fits"
    /\ job # "none" => hasPrompt

\* A deleted task that a listing has removed does not come back, although its
\* run, which rearms the task, was under way.
DeletedTaskStaysForgotten == swept => job = "none"

\* Unless a request failed or the Runtime died, a row says running only while
\* its run is under way.
RowsFollowRuns == mishaps = 0 => rows \subseteq Alive

\* The schedule of a task under overlapping and stale reconciliations, runs by
\* hand, pauses and deletion (cron-scheduler.ts, task-coordinator.ts).
ScheduleIsSound ==
    OneRunAtATime /\ KnownTaskIsArmed /\ DeletedTaskStaysForgotten /\ RowsFollowRuns

=================================================================================
