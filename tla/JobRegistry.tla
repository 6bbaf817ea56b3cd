---------------------------- MODULE JobRegistry ----------------------------
(***************************************************************************)
(* The background-job registry of one parent runtime                       *)
(* (src/core/job-registry.ts): the status of every job, the single-fire    *)
(* notification latch, the flag a user Stop leaves on a job so that its    *)
(* completion does not wake the model, and whether the kill hook is wired. *)
(*                                                                         *)
(* The module has the registry's state and its operations; AgentBoxSession *)
(* composes them with the session manager and the job runners.             *)
(***************************************************************************)

CONSTANTS
    ExecJobs,   \* background commands (bash, node, pod, host)
    SubJobs     \* detached sub-agents

ASSUME JobKindsAssumption == ExecJobs \cap SubJobs = {}

Jobs == ExecJobs \cup SubJobs

VARIABLES
    status,       \* JobRecord.status, "absent" before register()
    notified,     \* JobRecord.notified, the claimNotification latch
    suppressed,   \* JobRecord.suppressNotifyTurn
    hook          \* JobRecord.abort is defined

registryVars == <<status, notified, suppressed, hook>>

\* "completed" also stands for the sub-agent outcomes done, partial, timed_out.
JobStatus == {"absent", "running", "stopped", "completed", "failed"}

RegistryTypeOK ==
    /\ status \in [Jobs -> JobStatus]
    /\ notified \in [Jobs -> BOOLEAN]
    /\ suppressed \in [Jobs -> BOOLEAN]
    /\ hook \in [Jobs -> BOOLEAN]

RegistryInit ==
    /\ status = [j \in Jobs |-> "absent"]
    /\ notified = [j \in Jobs |-> FALSE]
    /\ suppressed = [j \in Jobs |-> FALSE]
    /\ hook = [j \in Jobs |-> FALSE]

isTerminalJobStatus(s) == s \notin {"absent", "running"}

----------------------------------------------------------------------------
(* Operations.                                                             *)

\* The running jobs that stopJob() can stop: without a kill hook it answers
\* "starting up; try again shortly" and leaves the job alone.
Stoppable(S) == {j \in S : status[j] = "running" /\ hook[j]}

\* Mutant: the Stop does not mark the jobs silent.
StopJobsLoud(S, quiet) ==
    /\ status' = [j \in Jobs |-> IF j \in Stoppable(S) THEN "stopped"
                                                        ELSE status[j]]
    /\ UNCHANGED <<notified, suppressed, hook>>

\* stopJob() over a set of jobs; quiet is the suppressNotifyTurn option.
StopJobs(S, quiet) ==
    /\ status' = [j \in Jobs |-> IF j \in Stoppable(S) THEN "stopped"
                                                        ELSE status[j]]
    /\ suppressed' = [j \in Jobs |-> suppressed[j] \/ (quiet /\ j \in Stoppable(S))]
    /\ UNCHANGED <<notified, hook>>

\* register() of a job that starts; only a background command has its kill
\* hook from the start.
RegisterRunning(j) ==
    /\ status' = [status EXCEPT ![j] = "running"]
    /\ hook' = [hook EXCEPT ![j] = j \in ExecJobs]
    /\ UNCHANGED <<notified, suppressed>>

\* register() by the Stop latch: terminal and silent from the start.  The
\* notification that follows at once claims the latch.
RegisterStopped(j) ==
    /\ status' = [status EXCEPT ![j] = "stopped"]
    /\ suppressed' = [suppressed EXCEPT ![j] = TRUE]
    /\ notified' = [notified EXCEPT ![j] = TRUE]
    /\ UNCHANGED hook

\* claimNotification() succeeds once; reachable is FALSE when the caller
\* returned before claiming.
Claimable(j, reachable) == reachable /\ ~notified[j]

\* setStatus() is an unconditional overwrite, then notifyParent() claims.
SetStatusAndClaim(j, s, reachable) ==
    /\ status' = [status EXCEPT ![j] = s]
    /\ notified' = [notified EXCEPT ![j] = notified[j] \/ Claimable(j, reachable)]
    /\ UNCHANGED <<suppressed, hook>>

=============================================================================
