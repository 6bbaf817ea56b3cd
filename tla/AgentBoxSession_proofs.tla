----------------------- MODULE AgentBoxSession_proofs -----------------------
(***************************************************************************)
(* Proofs about AgentBoxSession, for any numbers of turns, jobs and        *)
(* instances.  For every combination of the deployment flags: types, the   *)
(* prompt mutex of an instance, at-most-once delivery of completions, and  *)
(* that a result its prompt owns stays with it.  Then, each under the      *)
(* flags it needs: a Stop halts the jobs of the session and silences them, *)
(* one brain at a time works on it, it stays in memory as long as it is    *)
(* needed and by the right count, and no notice is lost.                   *)
(* Last, under every flag again, the session implements CompletionNotices. *)
(* Each part has its inductive invariant and the frame lemmas that dispose *)
(* of the steps which do not touch its variables; the later ones build on  *)
(* the earlier.                                                            *)
(***************************************************************************)
EXTENDS AgentBoxSession, FiniteSetTheorems, TLAPS

----------------------------------------------------------------------------
(* Types.                                                                  *)

\* The initial state is well typed.
LEMMA TypingInit == Init => TypeOK
  <1> SUFFICES ASSUME Init PROVE TypeOK
    OBVIOUS
  <1> USE DEF Init
  <1>1. RegistryTypeOK
    BY DEF RegistryInit, RegistryTypeOK, JobStatus
  <1>2. MailboxTypeOK(Jobs)
    BY DEF MailboxInit, MailboxTypeOK
  <1>3. SessionTypeOK
    BY SessionAssumption DEF SessionTypeOK, Instances, None
  <1>4. HandlerTypeOK
    <2>1. pc \in [Turns -> {"new"} \cup Admitted \cup Running \cup Finished]
      OBVIOUS
    <2>2. on \in [Turns -> 0..MaxInstances]
      BY SessionAssumption DEF None
    <2>3. releasing \subseteq Instances \X (Turns \cup {NoTurn})
      OBVIOUS
    <2>4. draining \subseteq Instances /\ pendingAborts \subseteq Turns \cup {NoTurn}
      OBVIOUS
    <2>5. evicted \in BOOLEAN
      OBVIOUS
    <2> QED
      BY <2>1, <2>2, <2>3, <2>4, <2>5 DEF HandlerTypeOK
  <1>5. RunnerTypeOK
    BY DEF RunnerTypeOK, JobStatus
  <1>6. HistoryTypeOK
    BY SessionAssumption DEF HistoryTypeOK, None
  <1> QED
    BY <1>1, <1>2, <1>3, <1>4, <1>5, <1>6 DEF TypeOK

\* A release timer stays a flag per instance when a release is scheduled.
LEMMA ScheduleType ==
  ASSUME NEW r, NEW rt \in [Instances -> BOOLEAN], NEW wc, NEW pn, NEW ct
  PROVE  ScheduleRelease(r, rt, wc, pn, ct) \in [Instances -> BOOLEAN]
  BY DEF ScheduleRelease

\* So it does, and so does a coalescing timer, when it is cleared.
LEMMA ClearType ==
  ASSUME NEW r, NEW timer \in [Instances -> BOOLEAN]
  PROVE  ClearTimer(timer, r) \in [Instances -> BOOLEAN]
  BY DEF ClearTimer

\* A fate is only ever replaced by another fate.
LEMMA FateType ==
  ASSUME HistoryTypeOK, NEW S, NEW f \in {"none", "told", "dropped", "lost"}
  PROVE  Fate(S, f) \in [Jobs -> {"none", "told", "dropped", "lost"}]
  BY DEF Fate, HistoryTypeOK

\* Telling completions to the model counts them.
LEMMA TellType ==
  ASSUME HistoryTypeOK, NEW S, Tell(S)
  PROVE  /\ tellings' \in [Jobs -> Nat]
         /\ fate' \in [Jobs -> {"none", "told", "dropped", "lost"}]
  BY FateType DEF Tell, HistoryTypeOK

\* Stopping jobs keeps the registry well typed.
LEMMA StopJobsType ==
  ASSUME RegistryTypeOK, NEW S, NEW quiet \in BOOLEAN, StopJobs(S, quiet)
  PROVE  RegistryTypeOK'
  BY DEF StopJobs, RegistryTypeOK, JobStatus

\* The same with the kill hooks.
LEMMA StopSessionJobsType ==
  ASSUME RegistryTypeOK, RunnerTypeOK, NEW S \in SUBSET Jobs, StopSessionJobs(S)
  PROVE  RegistryTypeOK' /\ killed' \subseteq Jobs
  BY StopJobsType DEF StopSessionJobs, Stoppable, RunnerTypeOK

\* Cancelling a mailbox, or none, keeps the mailboxes well typed.
LEMMA CancelType ==
  ASSUME MailboxTypeOK(Jobs), NEW w, CancelMailbox(w)
  PROVE  MailboxTypeOK(Jobs)'
  BY DEF CancelMailbox, MailboxTypeOK

\* Dropping the resident instance, at once or after an await.
LEMMA DropType ==
  ASSUME TypeOK, NEW r \in Instances, DropResident(r)
  PROVE  /\ resident' \in 0..MaxInstances
         /\ pending' \in [Instances -> SUBSET Jobs]
         /\ coalesceTimer' \in [Instances -> BOOLEAN]
         /\ fate' \in [Jobs -> {"none", "told", "dropped", "lost"}]
  BY FateType, SessionAssumption
  DEF DropResident, TypeOK, SessionTypeOK, None

\* Beginning a release does the same at once or records that it awaits.
LEMMA BeginReleaseType ==
  ASSUME TypeOK, NEW r \in Instances, NEW w \in Turns \cup {NoTurn}, BeginRelease(r, w)
  PROVE  /\ resident' \in 0..MaxInstances
         /\ pending' \in [Instances -> SUBSET Jobs]
         /\ coalesceTimer' \in [Instances -> BOOLEAN]
         /\ fate' \in [Jobs -> {"none", "told", "dropped", "lost"}]
         /\ releasing' \subseteq Instances \X (Turns \cup {NoTurn})
  <1>1. CASE SlowTeardown
    BY <1>1 DEF BeginRelease, TypeOK, SessionTypeOK, HandlerTypeOK, HistoryTypeOK
  <1>2. CASE ~SlowTeardown
    BY <1>2, DropType DEF BeginRelease, TypeOK, HandlerTypeOK
  <1> QED
    BY <1>1, <1>2

\* The end of a prompt, at once or deferred.
LEMMA FinishType ==
  ASSUME TypeOK, NEW t \in Turns, OnPromptFinish(t) \/ ActuallyFinish(t)
  PROVE  /\ pc' \in [Turns -> {"new"} \cup Admitted \cup Running \cup Finished]
         /\ MailboxTypeOK(Jobs)'
         /\ busy' \in [Instances -> {"idle", "http", "synth"}]
         /\ doneCallback' \in [Instances -> BOOLEAN]
         /\ releaseTimer' \in [Instances -> BOOLEAN]
  <1>1. CASE ActuallyFinish(t)
    BY <1>1, ScheduleType, CancelType
    DEF ActuallyFinish, TypeOK, SessionTypeOK, HandlerTypeOK, Finished
  <1>2. CASE OnPromptFinish(t) /\ ~ActuallyFinish(t)
    BY <1>2
    DEF OnPromptFinish, TypeOK, SessionTypeOK, HandlerTypeOK, Running, MailboxTypeOK,
        mailboxVars
  <1> QED
    BY <1>1, <1>2

\* The claim of an instance by a turn, which warm and cold prompts share.
LEMMA ClaimType ==
  ASSUME TypeOK, NEW t \in Turns, NEW i \in Instances,
         NEW rt \in [Instances -> BOOLEAN], Claim(t, i, rt)
  PROVE  /\ on' \in [Turns -> 0..MaxInstances]
         /\ pc' \in [Turns -> {"new"} \cup Admitted \cup Running \cup Finished]
         /\ currentTurn' \in [Instances -> Turns \cup {NoTurn}]
         /\ workTurn' \in [Instances -> Turns \cup {NoTurn}]
         /\ pendingAborts' \subseteq Turns \cup {NoTurn}
         /\ aborted' \in [Instances -> BOOLEAN]
         /\ busy' \in [Instances -> {"idle", "http", "synth"}]
         /\ releaseTimer' \in [Instances -> BOOLEAN]
         /\ MailboxTypeOK(Jobs)'
  <1>1. on' \in [Turns -> 0..MaxInstances]
    <2>1. i \in 0..MaxInstances
      BY SessionAssumption DEF Instances
    <2> QED
      BY <2>1 DEF Claim, TypeOK, HandlerTypeOK
  <1>2. currentTurn' \in [Instances -> Turns \cup {NoTurn}]
    BY DEF Claim, TypeOK, SessionTypeOK
  <1>3. pendingAborts' \subseteq Turns \cup {NoTurn}
    BY DEF Claim, TypeOK, HandlerTypeOK
  <1>4. pc' \in [Turns -> {"new"} \cup Admitted \cup Running \cup Finished]
    BY DEF Claim, TypeOK, HandlerTypeOK, Running, Finished
  <1>5. workTurn' \in [Instances -> Turns \cup {NoTurn}]
    BY DEF Claim, TypeOK, SessionTypeOK
  <1>6. aborted' \in [Instances -> BOOLEAN]
    BY DEF Claim, TypeOK, SessionTypeOK, PendingAbort
  <1>7. busy' \in [Instances -> {"idle", "http", "synth"}]
    BY DEF Claim, TypeOK, SessionTypeOK
  <1>8. releaseTimer' \in [Instances -> BOOLEAN]
    BY ScheduleType DEF Claim
  <1>9. MailboxTypeOK(Jobs)'
    <2>1. CASE CancelMailbox(IF PendingAbort(t) THEN workTurn[i] ELSE NoTurn)
      BY <2>1, CancelType DEF TypeOK
    <2>2. CASE UNCHANGED mailboxVars
      BY <2>2 DEF TypeOK, MailboxTypeOK, mailboxVars
    <2>3. CASE /\ cancelled' = [u \in Turns |-> cancelled[u] \/ u \in {t, workTurn[i]}]
               /\ steers' = [u \in Turns |-> IF u \in {t, workTurn[i]} THEN 0 ELSE steers[u]]
               /\ UNCHANGED <<registered, ready, consumed>>
      <3>1. cancelled' \in [Turns -> BOOLEAN]
        BY <2>3 DEF TypeOK, MailboxTypeOK
      <3>2. steers' \in [Turns -> Nat]
        BY <2>3 DEF TypeOK, MailboxTypeOK
      <3> QED
        BY <2>3, <3>1, <3>2 DEF TypeOK, MailboxTypeOK
    <2> QED
      BY <2>1, <2>2, <2>3 DEF Claim
  <1> QED
    BY <1>1, <1>2, <1>3, <1>4, <1>5, <1>6, <1>7, <1>8, <1>9

\* What a step leaves alone stays well typed.
LEMMA TypeFrame ==
  ASSUME TypeOK
  PROVE  /\ UNCHANGED registryVars => RegistryTypeOK'
         /\ UNCHANGED mailboxVars => MailboxTypeOK(Jobs)'
         /\ UNCHANGED sessionVars => SessionTypeOK'
         /\ UNCHANGED handlerVars => HandlerTypeOK'
         /\ UNCHANGED runnerVars => RunnerTypeOK'
         /\ UNCHANGED historyVars => HistoryTypeOK'
  BY DEF TypeOK, registryVars, mailboxVars, sessionVars, handlerVars, runnerVars,
         historyVars, RegistryTypeOK, MailboxTypeOK, SessionTypeOK, HandlerTypeOK,
         RunnerTypeOK, HistoryTypeOK

\* The steps by which a prompt is admitted keep the types.
LEMMA TypingAdmission ==
  ASSUME TypeOK, NEW t \in Turns,
         RestoreHandedAway(t) \/ PromptCold(t) \/ PromptRebuild(t)
           \/ PromptRefused(t) \/ PromptWarm(t) \/ Created(t)
  PROVE  TypeOK'
  <1> USE TypeFrame
  <1>0. resident # None => resident \in Instances
    BY SessionAssumption DEF TypeOK, SessionTypeOK, None, Instances
  <1>c. ClearTimer(releaseTimer, resident) \in [Instances -> BOOLEAN]
    BY ClearType DEF TypeOK, SessionTypeOK
  <1>1. CASE RestoreHandedAway(t)
    <2>1. CASE resident = None
      <3>1. HandlerTypeOK'
        BY <1>1, <2>1 DEF RestoreHandedAway, TypeOK, HandlerTypeOK, Admitted
      <3> QED
        BY <1>1, <2>1, <3>1
        DEF RestoreHandedAway, TypeOK, SessionTypeOK, HistoryTypeOK
    <2>2. CASE resident # None
      <3> DEFINE r == resident
      <3>1. /\ r \in Instances
            /\ BeginRelease(r, t)
        BY <1>0, <1>1, <2>2 DEF RestoreHandedAway
      <3>2. /\ resident' \in 0..MaxInstances
            /\ pending' \in [Instances -> SUBSET Jobs]
            /\ coalesceTimer' \in [Instances -> BOOLEAN]
            /\ fate' \in [Jobs -> {"none", "told", "dropped", "lost"}]
            /\ releasing' \subseteq Instances \X (Turns \cup {NoTurn})
        BY <3>1, BeginReleaseType
      <3>3. releaseTimer' \in [Instances -> BOOLEAN]
        BY <1>1, <1>c, <2>2 DEF RestoreHandedAway
      <3>4. pc' \in [Turns -> {"new"} \cup Admitted \cup Running \cup Finished]
        BY <1>1, <2>2 DEF RestoreHandedAway, TypeOK, HandlerTypeOK, Admitted
      <3>5. evicted' \in BOOLEAN
        BY <1>1 DEF RestoreHandedAway
      <3> QED
        BY <1>1, <3>2, <3>3, <3>4, <3>5
        DEF RestoreHandedAway, TypeOK, SessionTypeOK, HandlerTypeOK, HistoryTypeOK
    <2> QED
      BY <2>1, <2>2
  <1>2. CASE PromptCold(t)
    <2>1. HandlerTypeOK'
      BY <1>2 DEF PromptCold, TypeOK, HandlerTypeOK, Admitted
    <2> QED
      BY <1>2, <2>1 DEF PromptCold, TypeOK
  <1>3. CASE PromptRebuild(t)
    <2> DEFINE r == resident
    <2>1. /\ r \in Instances
          /\ BeginRelease(r, t)
      BY <1>0, <1>3 DEF PromptRebuild
    <2>2. /\ resident' \in 0..MaxInstances
          /\ pending' \in [Instances -> SUBSET Jobs]
          /\ coalesceTimer' \in [Instances -> BOOLEAN]
          /\ fate' \in [Jobs -> {"none", "told", "dropped", "lost"}]
          /\ releasing' \subseteq Instances \X (Turns \cup {NoTurn})
      BY <2>1, BeginReleaseType
    <2>3. releaseTimer' \in [Instances -> BOOLEAN]
      BY <1>3, <1>c DEF PromptRebuild
    <2>4. pc' \in [Turns -> {"new"} \cup Admitted \cup Running \cup Finished]
      BY <1>3 DEF PromptRebuild, TypeOK, HandlerTypeOK, Admitted
    <2> QED
      BY <1>3, <2>2, <2>3, <2>4
      DEF PromptRebuild, TypeOK, SessionTypeOK, HandlerTypeOK, HistoryTypeOK
  <1>4. CASE PromptRefused(t)
    <2>1. pc' \in [Turns -> {"new"} \cup Admitted \cup Running \cup Finished]
      BY <1>4 DEF PromptRefused, TypeOK, HandlerTypeOK, Finished
    <2>2. releaseTimer' \in [Instances -> BOOLEAN]
      BY <1>4, <1>c DEF PromptRefused, TypeOK, SessionTypeOK
    <2> QED
      BY <1>4, <2>1, <2>2 DEF PromptRefused, TypeOK, SessionTypeOK, HandlerTypeOK
  <1>5. CASE PromptWarm(t)
    <2> DEFINE r == resident
               rt == ClearTimer(releaseTimer, resident)
    <2>1. r \in Instances /\ rt \in [Instances -> BOOLEAN] /\ Claim(t, r, rt)
      BY <1>0, <1>5, <1>c DEF PromptWarm
    <2> HIDE DEF r, rt
    <2>2. /\ on' \in [Turns -> 0..MaxInstances]
          /\ pc' \in [Turns -> {"new"} \cup Admitted \cup Running \cup Finished]
          /\ currentTurn' \in [Instances -> Turns \cup {NoTurn}]
          /\ workTurn' \in [Instances -> Turns \cup {NoTurn}]
          /\ pendingAborts' \subseteq Turns \cup {NoTurn}
          /\ aborted' \in [Instances -> BOOLEAN]
          /\ busy' \in [Instances -> {"idle", "http", "synth"}]
          /\ releaseTimer' \in [Instances -> BOOLEAN]
          /\ MailboxTypeOK(Jobs)'
      BY <2>1, ClaimType
    <2> QED
      BY <1>5, <2>2 DEF PromptWarm, TypeOK, SessionTypeOK, HandlerTypeOK
  <1>6. CASE Created(t)
    <2> DEFINE i == created + 1
    <2>1. i \in Instances /\ i \in 0..MaxInstances /\ releaseTimer \in [Instances -> BOOLEAN]
      BY <1>6, SessionAssumption DEF Created, TypeOK, SessionTypeOK, Instances
    <2>2. Claim(t, i, releaseTimer) /\ resident' = i /\ created' = i
      BY <1>6 DEF Created
    <2> HIDE DEF i
    <2>3. /\ on' \in [Turns -> 0..MaxInstances]
          /\ pc' \in [Turns -> {"new"} \cup Admitted \cup Running \cup Finished]
          /\ currentTurn' \in [Instances -> Turns \cup {NoTurn}]
          /\ workTurn' \in [Instances -> Turns \cup {NoTurn}]
          /\ pendingAborts' \subseteq Turns \cup {NoTurn}
          /\ aborted' \in [Instances -> BOOLEAN]
          /\ busy' \in [Instances -> {"idle", "http", "synth"}]
          /\ releaseTimer' \in [Instances -> BOOLEAN]
          /\ MailboxTypeOK(Jobs)'
      BY <2>1, <2>2, ClaimType
    <2> QED
      BY <1>6, <2>1, <2>2, <2>3 DEF Created, TypeOK, SessionTypeOK, HandlerTypeOK
  <1> QED
    BY <1>1, <1>2, <1>3, <1>4, <1>5, <1>6

\* The steps of a running prompt keep the types.
LEMMA TypingRun ==
  ASSUME TypeOK, NEW t \in Turns,
         ModelReturns(t) \/ ModelAborted(t) \/ ModelFails(t) \/ NextResults(t)
           \/ NextSteer(t) \/ NextEnds(t) \/ DeferredFinish(t)
  PROVE  TypeOK'
  <1> USE TypeFrame
  <1>1. CASE ModelReturns(t)
    <2>1. pc' \in [Turns -> {"new"} \cup Admitted \cup Running \cup Finished]
      BY <1>1 DEF ModelReturns, TypeOK, HandlerTypeOK, Running
    <2> QED
      BY <1>1, <2>1
      DEF ModelReturns, FinishFrame, TypeOK, SessionTypeOK, HandlerTypeOK, RunnerTypeOK
  <1>2. CASE \/ ModelAborted(t)
             \/ NextEnds(t)
             \/ DeferredFinish(t)
    <2>1. (OnPromptFinish(t) \/ ActuallyFinish(t)) /\ FinishFrame
          /\ UNCHANGED <<registryVars, killed>>
      BY <1>2 DEF ModelAborted, NextEnds, DeferredFinish
    <2>2. /\ pc' \in [Turns -> {"new"} \cup Admitted \cup Running \cup Finished]
          /\ MailboxTypeOK(Jobs)'
          /\ busy' \in [Instances -> {"idle", "http", "synth"}]
          /\ doneCallback' \in [Instances -> BOOLEAN]
          /\ releaseTimer' \in [Instances -> BOOLEAN]
      BY <2>1, FinishType
    <2> QED
      BY <2>1, <2>2
      DEF FinishFrame, TypeOK, SessionTypeOK, HandlerTypeOK, RunnerTypeOK
  <1>3. CASE ModelFails(t)
    <2>1. OnPromptFinish(t) /\ FinishFrame /\ StopSessionJobs(registered[t])
      BY <1>3 DEF ModelFails
    <2>2. /\ pc' \in [Turns -> {"new"} \cup Admitted \cup Running \cup Finished]
          /\ MailboxTypeOK(Jobs)'
          /\ busy' \in [Instances -> {"idle", "http", "synth"}]
          /\ doneCallback' \in [Instances -> BOOLEAN]
          /\ releaseTimer' \in [Instances -> BOOLEAN]
      BY <2>1, FinishType
    <2> DEFINE S == registered[t]
    <2>3. S \in SUBSET Jobs /\ StopSessionJobs(S)
      BY <2>1 DEF TypeOK, MailboxTypeOK
    <2> HIDE DEF S
    <2>4. RegistryTypeOK' /\ killed' \subseteq Jobs
      BY <2>3, StopSessionJobsType DEF TypeOK
    <2> QED
      BY <2>1, <2>2, <2>4
      DEF FinishFrame, TypeOK, SessionTypeOK, HandlerTypeOK, RunnerTypeOK
  <1>4. CASE NextResults(t)
    <2>1. pc' \in [Turns -> {"new"} \cup Admitted \cup Running \cup Finished]
      BY <1>4 DEF NextResults, TypeOK, HandlerTypeOK, Running
    <2>2. MailboxTypeOK(Jobs)'
      BY <1>4 DEF NextResults, ConsumeBatch, Batch, TypeOK, MailboxTypeOK
    <2>3. HistoryTypeOK'
      BY <1>4, TellType DEF NextResults, TypeOK, HistoryTypeOK
    <2> QED
      BY <1>4, <2>1, <2>2, <2>3 DEF NextResults, TypeOK, HandlerTypeOK
  <1>5. CASE NextSteer(t)
    <2>1. pc' \in [Turns -> {"new"} \cup Admitted \cup Running \cup Finished]
      BY <1>5 DEF NextSteer, TypeOK, HandlerTypeOK, Running
    <2>2. MailboxTypeOK(Jobs)'
      BY <1>5 DEF NextSteer, TakeSteer, TypeOK, MailboxTypeOK
    <2> QED
      BY <1>5, <2>1, <2>2 DEF NextSteer, TypeOK, HandlerTypeOK
  <1> QED
    BY <1>1, <1>2, <1>3, <1>4, <1>5

\* The registry operations keep the registry well typed.
LEMMA RegistryOpType ==
  ASSUME RegistryTypeOK, NEW j \in Jobs,
         \/ RegisterRunning(j)
         \/ RegisterStopped(j)
         \/ \E s \in JobStatus, reachable \in BOOLEAN : SetStatusAndClaim(j, s, reachable)
  PROVE  RegistryTypeOK'
  <1>1. CASE RegisterRunning(j)
    BY <1>1 DEF RegisterRunning, RegistryTypeOK, JobStatus
  <1>2. CASE RegisterStopped(j)
    BY <1>2 DEF RegisterStopped, RegistryTypeOK, JobStatus
  <1>3. ASSUME NEW s \in JobStatus, NEW reachable \in BOOLEAN,
               SetStatusAndClaim(j, s, reachable)
        PROVE  RegistryTypeOK'
    <2>1. notified[j] \/ Claimable(j, reachable) \in BOOLEAN
      BY DEF Claimable
    <2>2. notified' \in [Jobs -> BOOLEAN]
      BY <1>3 DEF SetStatusAndClaim, Claimable, RegistryTypeOK
    <2> QED
      BY <1>3, <2>2 DEF SetStatusAndClaim, RegistryTypeOK
  <1> QED
    BY <1>1, <1>2, <1>3

\* The steps of a job keep the types.
LEMMA TypingJob ==
  ASSUME TypeOK, NEW j \in Jobs, JobNext(j)
  PROVE  TypeOK'
  <1> USE TypeFrame
  <1>0. Owner(resident) \in Turns \cup {NoTurn}
    BY SessionAssumption DEF Owner, None, TypeOK, SessionTypeOK, Instances
  <1>r. RegisterIn(Owner(resident), j) \in [Turns -> SUBSET Jobs]
    BY DEF RegisterIn, TypeOK, MailboxTypeOK
  <1>1. ASSUME NEW i \in Instances, Launch(i, j)
        PROVE  TypeOK'
    <2>1. RegistryTypeOK'
      BY <1>1, RegistryOpType DEF Launch, TypeOK
    <2>2. MailboxTypeOK(Jobs)'
      BY <1>1, <1>r DEF Launch, TypeOK, MailboxTypeOK
    <2>3. workCount' \in [Instances -> Nat]
      BY <1>1 DEF Launch, TypeOK, SessionTypeOK
    <2>4. releaseTimer' \in [Instances -> BOOLEAN]
      BY <1>1, ClearType DEF Launch, TypeOK, SessionTypeOK
    <2>5. SessionTypeOK'
      BY <1>1, <2>3, <2>4 DEF Launch, TypeOK, SessionTypeOK
    <2>6. run' \in [Jobs -> {"absent", "starting", "live", "flushing", "over"}]
      BY <1>1 DEF Launch, TypeOK, RunnerTypeOK
    <2>7. RunnerTypeOK'
      BY <1>1, <1>0, <2>6 DEF Launch, TypeOK, RunnerTypeOK
    <2>8. HistoryTypeOK'
      BY <1>1 DEF Launch, TypeOK, HistoryTypeOK, SessionTypeOK, noticeVars
    <2> QED
      BY <1>1, <2>1, <2>2, <2>5, <2>7, <2>8 DEF Launch, TypeOK
  <1>2. ASSUME NEW i \in Instances, LaunchUnderStop(i, j)
        PROVE  TypeOK'
    <2>1. RegistryTypeOK'
      BY <1>2, RegistryOpType DEF LaunchUnderStop, TypeOK
    <2>2. MailboxTypeOK(Jobs)'
      BY <1>2, <1>r DEF LaunchUnderStop, TypeOK, MailboxTypeOK
    <2>3. RunnerTypeOK'
      BY <1>2 DEF LaunchUnderStop, TypeOK, RunnerTypeOK
    <2>4. HistoryTypeOK'
      BY <1>2, FateType DEF LaunchUnderStop, TypeOK, HistoryTypeOK
    <2> QED
      BY <1>2, <2>1, <2>2, <2>3, <2>4 DEF LaunchUnderStop, TypeOK
  <1>3. CASE Start(j)
    <2>1. RegistryTypeOK'
      BY <1>3 DEF Start, TypeOK, RegistryTypeOK
    <2>2. RunnerTypeOK'
      BY <1>3 DEF Start, TypeOK, RunnerTypeOK
    <2> QED
      BY <1>3, <2>1, <2>2 DEF Start, TypeOK
  <1>4. CASE Exit(j)
    <2>1. RunnerTypeOK'
      BY <1>4 DEF Exit, TypeOK, RunnerTypeOK, JobStatus
    <2> QED
      BY <1>4, <2>1 DEF Exit, TypeOK
  <1>5. CASE Settle(j)
    <2>1. RegistryTypeOK'
      <3>1. SettledStatus(j) \in JobStatus
        BY DEF SettledStatus, TypeOK, RunnerTypeOK, JobStatus
      <3>2. (resident # None) \in BOOLEAN
        OBVIOUS
      <3> QED
        BY <1>5, <3>1, <3>2, RegistryOpType DEF Settle, TypeOK
    <2>2. MailboxTypeOK(Jobs)'
      <3>1. ready' \in [Turns -> SUBSET Jobs]
        BY <1>5 DEF Settle, NotifyParent, CompleteIn, TypeOK, MailboxTypeOK
      <3> QED
        BY <1>5, <3>1 DEF Settle, TypeOK, MailboxTypeOK
    <2>3. SessionTypeOK'
      <3>1. pending' \in [Instances -> SUBSET Jobs]
        BY <1>5 DEF Settle, NotifyParent, TypeOK, SessionTypeOK
      <3>2. coalesceTimer' \in [Instances -> BOOLEAN]
        BY <1>5 DEF Settle, NotifyParent, TypeOK, SessionTypeOK
      <3>3. workCount' \in [Instances -> Nat]
        BY <1>5 DEF Settle, LessWork, TypeOK, SessionTypeOK
      <3>4. releaseTimer' \in [Instances -> BOOLEAN]
        BY <1>5, ScheduleType DEF Settle, TypeOK, SessionTypeOK
      <3> QED
        BY <1>5, <3>1, <3>2, <3>3, <3>4 DEF Settle, TypeOK, SessionTypeOK
    <2>4. RunnerTypeOK'
      BY <1>5 DEF Settle, TypeOK, RunnerTypeOK
    <2>5. HistoryTypeOK'
      <3>1. fate' \in [Jobs -> {"none", "told", "dropped", "lost"}]
        BY <1>5, FateType DEF Settle, NotifyParent, TypeOK, HistoryTypeOK
      <3> QED
        BY <1>5, <3>1 DEF Settle, TypeOK, HistoryTypeOK
    <2> QED
      BY <1>5, <2>1, <2>2, <2>3, <2>4, <2>5 DEF Settle, TypeOK
  <1>6. CASE JobStop(j)
    <2>1. RegistryTypeOK'
      BY <1>6, StopJobsType DEF JobStop, TypeOK
    <2>2. RunnerTypeOK'
      BY <1>6 DEF JobStop, TypeOK, RunnerTypeOK
    <2> QED
      BY <1>6, <2>1, <2>2 DEF JobStop, TypeOK
  <1> QED
    BY <1>1, <1>2, <1>3, <1>4, <1>5, <1>6 DEF JobNext

\* The timers, releases and synthetic turns of an instance keep the types.
LEMMA TypingInstance ==
  ASSUME TypeOK, NEW i \in Instances, InstanceNext(i)
  PROVE  TypeOK'
  <1> USE TypeFrame
  <1>0. resident # None => resident \in Instances
    BY SessionAssumption DEF TypeOK, SessionTypeOK, None, Instances
  <1>1. CASE FlushUnderStop(i)
    <2>1. pending' \in [Instances -> SUBSET Jobs]
      BY <1>1 DEF FlushUnderStop, TypeOK, SessionTypeOK
    <2>2. coalesceTimer' \in [Instances -> BOOLEAN]
      BY <1>1 DEF FlushUnderStop, TypeOK, SessionTypeOK
    <2>3. releaseTimer' \in [Instances -> BOOLEAN]
      BY <1>1, ScheduleType DEF FlushUnderStop, TypeOK, SessionTypeOK
    <2>4. MailboxTypeOK(Jobs)'
      BY <1>1, CancelType DEF FlushUnderStop, TypeOK
    <2>5. fate' \in [Jobs -> {"none", "told", "dropped", "lost"}]
      BY <1>1, FateType DEF FlushUnderStop, TypeOK
    <2> QED
      BY <1>1, <2>1, <2>2, <2>3, <2>4, <2>5
      DEF FlushUnderStop, TypeOK, SessionTypeOK, HistoryTypeOK
  <1>2. CASE FlushRearm(i)
    <2>1. coalesceTimer' \in [Instances -> BOOLEAN]
      BY <1>2 DEF FlushRearm, TypeOK, SessionTypeOK
    <2> QED
      BY <1>2, <2>1 DEF FlushRearm, TypeOK, SessionTypeOK
  <1>3. CASE FlushDeliver(i)
    <2>1. pending' \in [Instances -> SUBSET Jobs]
      BY <1>3 DEF FlushDeliver, TypeOK, SessionTypeOK
    <2>2. coalesceTimer' \in [Instances -> BOOLEAN]
      BY <1>3 DEF FlushDeliver, TypeOK, SessionTypeOK
    <2>3. releaseTimer' \in [Instances -> BOOLEAN]
      BY <1>3, ClearType DEF FlushDeliver, TypeOK, SessionTypeOK
    <2>4. busy' \in [Instances -> {"idle", "http", "synth"}]
      BY <1>3 DEF FlushDeliver, TypeOK, SessionTypeOK
    <2>5. HistoryTypeOK'
      BY <1>3, TellType DEF FlushDeliver, TypeOK, HistoryTypeOK
    <2> QED
      BY <1>3, <2>1, <2>2, <2>3, <2>4, <2>5 DEF FlushDeliver, TypeOK, SessionTypeOK
  <1>4. CASE FlushNothing(i)
    <2>1. coalesceTimer' \in [Instances -> BOOLEAN]
      BY <1>4 DEF FlushNothing, TypeOK, SessionTypeOK
    <2> QED
      BY <1>4, <2>1 DEF FlushNothing, TypeOK, SessionTypeOK
  <1>5. CASE SyntheticEnds(i)
    <2>1. releaseTimer' \in [Instances -> BOOLEAN]
      BY <1>5, ScheduleType DEF SyntheticEnds, TypeOK, SessionTypeOK
    <2> QED
      BY <1>5, <2>1 DEF SyntheticEnds, TypeOK, SessionTypeOK
  <1>6. CASE ReleaseTimerFires(i)
    <2>1. releaseTimer' \in [Instances -> BOOLEAN]
      BY <1>6, ClearType DEF ReleaseTimerFires, TypeOK, SessionTypeOK
    <2>2. /\ resident' \in 0..MaxInstances
          /\ pending' \in [Instances -> SUBSET Jobs]
          /\ coalesceTimer' \in [Instances -> BOOLEAN]
          /\ fate' \in [Jobs -> {"none", "told", "dropped", "lost"}]
          /\ releasing' \subseteq Instances \X (Turns \cup {NoTurn})
      <3>1. CASE resident = None
        BY <1>6, <3>1
        DEF ReleaseTimerFires, TypeOK, SessionTypeOK, HandlerTypeOK, HistoryTypeOK
      <3>2. CASE resident # None
        <4> DEFINE r == resident
        <4>1. r \in Instances /\ BeginRelease(r, NoTurn)
          BY <1>0, <1>6, <3>2 DEF ReleaseTimerFires
        <4> HIDE DEF r
        <4> QED
          BY <4>1, BeginReleaseType
      <3> QED
        BY <3>1, <3>2
    <2> QED
      BY <1>6, <2>1, <2>2
      DEF ReleaseTimerFires, TypeOK, SessionTypeOK, HandlerTypeOK, HistoryTypeOK
  <1>7. CASE StopDrained(i)
    <2>1. RegistryTypeOK' /\ killed' \subseteq Jobs
      BY <1>7, StopSessionJobsType DEF StopDrained, TypeOK
    <2> QED
      BY <1>7, <2>1 DEF StopDrained, TypeOK, HandlerTypeOK, RunnerTypeOK
  <1>8. CASE Handoff(i)
    <2> DEFINE S == UNION {registered[t] : t \in Turns \cap {Owner(resident)}}
    <2>1. S \in SUBSET Jobs /\ StopSessionJobs(S)
      BY <1>8 DEF Handoff, TypeOK, MailboxTypeOK
    <2> HIDE DEF S
    <2>2. RegistryTypeOK' /\ killed' \subseteq Jobs
      BY <2>1, StopSessionJobsType DEF TypeOK
    <2>3. MailboxTypeOK(Jobs)'
      BY <1>8, CancelType DEF Handoff, TypeOK
    <2> QED
      BY <1>8, <2>2, <2>3 DEF Handoff, TypeOK, HandlerTypeOK, RunnerTypeOK
  <1>9. ASSUME NEW w \in Turns \cup {NoTurn}, ReleaseDone(i, w)
        PROVE  TypeOK'
    <2>1. pc' \in [Turns -> {"new"} \cup Admitted \cup Running \cup Finished]
      BY <1>9 DEF ReleaseDone, TypeOK, HandlerTypeOK, Admitted
    <2>2. /\ resident' \in 0..MaxInstances
          /\ pending' \in [Instances -> SUBSET Jobs]
          /\ coalesceTimer' \in [Instances -> BOOLEAN]
          /\ fate' \in [Jobs -> {"none", "told", "dropped", "lost"}]
      BY <1>9, DropType DEF ReleaseDone, TypeOK, SessionTypeOK, HistoryTypeOK
    <2> QED
      BY <1>9, <2>1, <2>2
      DEF ReleaseDone, TypeOK, SessionTypeOK, HandlerTypeOK, HistoryTypeOK
  <1> QED
    BY <1>1, <1>2, <1>3, <1>4, <1>5, <1>6, <1>7, <1>8, <1>9 DEF InstanceNext

\* The steps of a user keep the types.
LEMMA TypingUser ==
  ASSUME TypeOK,
         \/ \E u \in Turns \cup {NoTurn} : Stop(u) \/ StopEarly(u) \/ PendingAbortExpires(u)
         \/ Steer
         \/ Invalidate
  PROVE  TypeOK'
  <1> USE TypeFrame
  <1>1. ASSUME NEW u \in Turns \cup {NoTurn}, Stop(u)
        PROVE  TypeOK'
    <2>0. resident \in Instances
      BY <1>1, SessionAssumption DEF Stop, TypeOK, SessionTypeOK, None, Instances
    <2>1. pending' \in [Instances -> SUBSET Jobs]
      BY <1>1 DEF Stop, TypeOK, SessionTypeOK
    <2>2. coalesceTimer' \in [Instances -> BOOLEAN]
      BY <1>1, ClearType DEF Stop, TypeOK, SessionTypeOK
    <2>3. releaseTimer' \in [Instances -> BOOLEAN]
      BY <1>1, ScheduleType DEF Stop, TypeOK, SessionTypeOK
    <2>4. aborted' \in [Instances -> BOOLEAN]
      BY <1>1 DEF Stop, TypeOK, SessionTypeOK
    <2>5. SessionTypeOK'
      BY <1>1, <2>1, <2>2, <2>3, <2>4 DEF Stop, TypeOK, SessionTypeOK
    <2>6. MailboxTypeOK(Jobs)'
      BY <1>1, CancelType DEF Stop, TypeOK
    <2>7. fate' \in [Jobs -> {"none", "told", "dropped", "lost"}]
      BY <1>1, FateType DEF Stop, TypeOK
    <2>8. RegistryTypeOK' /\ killed' \subseteq Jobs
      BY <1>1, StopSessionJobsType DEF Stop, TypeOK
    <2>9. HandlerTypeOK'
      BY <1>1, <2>0 DEF Stop, TypeOK, HandlerTypeOK
    <2>10. HistoryTypeOK'
      BY <1>1, <2>7 DEF Stop, TypeOK, HistoryTypeOK
    <2> QED
      BY <1>1, <2>5, <2>6, <2>8, <2>9, <2>10 DEF Stop, TypeOK, RunnerTypeOK
  <1>2. ASSUME NEW u \in Turns \cup {NoTurn}, StopEarly(u) \/ PendingAbortExpires(u)
        PROVE  TypeOK'
    BY <1>2 DEF StopEarly, PendingAbortExpires, TypeOK, HandlerTypeOK
  <1>3. CASE Steer
    <2>1. MailboxTypeOK(Jobs)'
      BY <1>3 DEF Steer, QueueSteer, TypeOK, MailboxTypeOK
    <2> QED
      BY <1>3, <2>1 DEF Steer, TypeOK
  <1>4. CASE Invalidate
    <2>1. releaseTimer' \in [Instances -> BOOLEAN]
      BY <1>4, ScheduleType DEF Invalidate, TypeOK, SessionTypeOK
    <2> QED
      BY <1>4, <2>1 DEF Invalidate, TypeOK, SessionTypeOK
  <1> QED
    BY <1>1, <1>2, <1>3, <1>4

\* Every step keeps the types.
LEMMA TypingStep == TypeOK /\ [Next]_vars => TypeOK'
  <1> SUFFICES ASSUME TypeOK, [Next]_vars
               PROVE  TypeOK'
    OBVIOUS
  <1>1. ASSUME NEW t \in Turns, TurnNext(t)
        PROVE  TypeOK'
    BY <1>1, TypingAdmission, TypingRun DEF TurnNext
  <1>2. CASE UNCHANGED vars
    BY <1>2, TypeFrame DEF vars, TypeOK
  <1> QED
    BY <1>1, <1>2, TypingJob, TypingInstance, TypingUser DEF Next

\* Type correctness: TypeOK holds in every reachable state.
THEOREM Typing == Spec => []TypeOK
  BY TypingInit, TypingStep, PTL DEF Spec

----------------------------------------------------------------------------
(* The prompt mutex.                                                       *)

\* The inductive form of PromptMutex: instances that do not exist yet are
\* idle, so that a new one can be claimed.
MutexInv ==
  /\ TypeOK
  /\ resident <= created
  /\ \A i \in Instances : i > created => busy[i] = "idle"
  /\ PromptMutex

\* A turn that runs holds its instance, so an idle instance runs nothing.
LEMMA IdleRunsNothing ==
  ASSUME MutexInv, NEW i \in Instances, busy[i] # "http", NEW t \in Turns,
         pc[t] \in Running
  PROVE  on[t] # i
  BY DEF MutexInv, PromptMutex

\* The claim of an idle instance leaves at most one turn on every instance.
LEMMA MutexClaim ==
  ASSUME MutexInv, NEW t \in Turns, NEW i \in Instances, NEW rt,
         busy[i] = "idle", Claim(t, i, rt)
  PROVE  PromptMutex' /\ \A k \in Instances \ {i} : busy'[k] = busy[k]
  <1>1. on' = [on EXCEPT ![t] = i] /\ on'[t] = i
    BY DEF Claim, MutexInv, TypeOK, HandlerTypeOK
  <1>2. CASE /\ pc' = [pc EXCEPT ![t] = "done"]
             /\ busy' = busy
    <2>1. pc'[t] \notin Running
      BY <1>2 DEF MutexInv, TypeOK, HandlerTypeOK, Running
    <2>2. \A u \in Turns \ {t} : pc'[u] = pc[u] /\ on'[u] = on[u]
      BY <1>1, <1>2 DEF MutexInv, TypeOK, HandlerTypeOK
    <2> QED
      BY <1>2, <2>1, <2>2 DEF MutexInv, PromptMutex
  <1>3. CASE /\ pc' = [pc EXCEPT ![t] = "model"]
             /\ busy' = [busy EXCEPT ![i] = "http"]
    <2>1. busy'[i] = "http" /\ \A k \in Instances \ {i} : busy'[k] = busy[k]
      BY <1>3 DEF MutexInv, TypeOK, SessionTypeOK
    <2>2. \A u \in Turns \ {t} : pc'[u] = pc[u] /\ on'[u] = on[u]
      BY <1>1, <1>3 DEF MutexInv, TypeOK, HandlerTypeOK
    <2>3. \A u \in Turns \ {t} : pc'[u] \in Running => on'[u] # i
      BY <2>2, IdleRunsNothing
    <2> QED
      BY <1>1, <2>1, <2>2, <2>3 DEF MutexInv, PromptMutex
  <1> QED
    BY <1>2, <1>3 DEF Claim

\* The end of a turn, at once or deferred, gives back its instance only.
LEMMA MutexFinish ==
  ASSUME MutexInv, NEW t \in Turns, pc[t] \in Running,
         OnPromptFinish(t) \/ ActuallyFinish(t), on' = on
  PROVE  PromptMutex' /\ \A k \in Instances : busy'[k] \in {busy[k], "idle"}
  <1>1. CASE ActuallyFinish(t)
    <2>1. pc' = [pc EXCEPT ![t] = "done"] /\ busy' = [busy EXCEPT ![on[t]] = "idle"]
      BY <1>1 DEF ActuallyFinish
    <2>2. pc'[t] \notin Running
      BY <2>1 DEF MutexInv, TypeOK, HandlerTypeOK, Running
    <2>3. \A u \in Turns \ {t} : pc'[u] = pc[u]
      BY <2>1 DEF MutexInv, TypeOK, HandlerTypeOK
    <2>4. \A u \in Turns \ {t} : pc[u] \in Running => on[u] # on[t]
      BY DEF MutexInv, PromptMutex
    <2>5. \A k \in Instances : k # on[t] => busy'[k] = busy[k]
      BY <2>1 DEF MutexInv, TypeOK, SessionTypeOK
    <2>6. \A k \in Instances : busy'[k] \in {busy[k], "idle"}
      BY <2>1 DEF MutexInv, TypeOK, SessionTypeOK
    <2> QED
      BY <2>2, <2>3, <2>4, <2>5, <2>6 DEF MutexInv, PromptMutex
  <1>2. CASE pc' = [pc EXCEPT ![t] = "deferred"] /\ busy' = busy
    <2>1. \A u \in Turns : pc'[u] \in Running => pc[u] \in Running
      BY <1>2 DEF MutexInv, TypeOK, HandlerTypeOK
    <2> QED
      BY <1>2, <2>1 DEF MutexInv, PromptMutex
  <1> QED
    BY <1>1, <1>2 DEF OnPromptFinish

\* A step that starts no run, and takes no instance from one, keeps the mutex.
LEMMA MutexFrame ==
  ASSUME MutexInv, on' = on,
         \A u \in Turns : pc'[u] \in Running => pc[u] \in Running,
         \A k \in Instances : busy[k] = "http" => busy'[k] = "http"
  PROVE  PromptMutex'
  BY DEF MutexInv, PromptMutex

\* The mutex is an inductive invariant.
LEMMA MutexStep == MutexInv /\ [Next]_vars => MutexInv'
  <1> SUFFICES ASSUME MutexInv, [Next]_vars
               PROVE  MutexInv'
    OBVIOUS
  <1>t. TypeOK'
    BY TypingStep DEF MutexInv
  <1>0. resident # None => resident \in Instances
    BY SessionAssumption DEF MutexInv, TypeOK, SessionTypeOK, None, Instances
  <1>n. None <= created
    BY DEF MutexInv, TypeOK, SessionTypeOK, None
  <1>r. ASSUME UNCHANGED <<created, busy, on>>, resident' \in {None, resident},
               \A u \in Turns : pc'[u] \in Running => pc[u] \in Running
        PROVE  MutexInv'
    <2>1. PromptMutex'
      BY <1>r, MutexFrame
    <2> QED
      BY <1>r, <1>t, <1>n, <2>1 DEF MutexInv
  <1>1. ASSUME NEW t \in Turns, TurnNext(t)
        PROVE  MutexInv'
    <2>1. CASE RestoreHandedAway(t) \/ PromptCold(t) \/ PromptRebuild(t) \/ PromptRefused(t)
      <3>1. \A u \in Turns : pc'[u] \in Running => pc[u] \in Running
        BY <2>1
        DEF RestoreHandedAway, PromptCold, PromptRebuild, PromptRefused, MutexInv,
            TypeOK, HandlerTypeOK, Running
      <3>2. UNCHANGED <<created, busy, on>>
        BY <2>1
        DEF RestoreHandedAway, PromptCold, PromptRebuild, PromptRefused, sessionVars
      <3>3. resident' \in {None, resident}
        BY <2>1
        DEF RestoreHandedAway, PromptCold, PromptRebuild, PromptRefused, BeginRelease,
            DropResident, sessionVars
      <3> QED
        BY <3>1, <3>2, <3>3, <1>r
    <2>2. CASE PromptWarm(t)
      <3> DEFINE r == resident
                 rt == ClearTimer(releaseTimer, resident)
      <3>1. /\ r \in Instances
            /\ busy[r] = "idle"
            /\ Claim(t, r, rt)
            /\ UNCHANGED <<resident, created>>
        BY <1>0, <2>2 DEF PromptWarm, PromptIdle
      <3>2. r <= created
        BY DEF MutexInv
      <3> HIDE DEF r, rt
      <3>3. PromptMutex' /\ \A k \in Instances \ {r} : busy'[k] = busy[k]
        BY <3>1, MutexClaim
      <3>4. \A i \in Instances : i > created' => busy'[i] = "idle"
        BY <3>1, <3>2, <3>3 DEF MutexInv, TypeOK, SessionTypeOK, Instances
      <3> QED
        BY <1>t, <3>1, <3>3, <3>4 DEF MutexInv
    <2>3. CASE Created(t)
      <3> DEFINE i == created + 1
      <3>1. i \in Instances /\ i > created
        BY <2>3, SessionAssumption DEF Created, MutexInv, TypeOK, SessionTypeOK, Instances
      <3>2. Claim(t, i, releaseTimer) /\ resident' = i /\ created' = i
        BY <2>3 DEF Created
      <3> HIDE DEF i
      <3>3. busy[i] = "idle"
        BY <3>1 DEF MutexInv
      <3>4. PromptMutex' /\ \A k \in Instances \ {i} : busy'[k] = busy[k]
        BY <3>1, <3>2, <3>3, MutexClaim
      <3>5. \A k \in Instances : k > created' => busy'[k] = "idle"
        BY <3>1, <3>2, <3>4 DEF MutexInv, TypeOK, SessionTypeOK, Instances
      <3>6. resident' <= created'
        BY <3>1, <3>2, SessionAssumption DEF Instances
      <3> QED
        BY <1>t, <3>4, <3>5, <3>6 DEF MutexInv
    <2>4. CASE ModelReturns(t) \/ NextResults(t) \/ NextSteer(t)
      <3>1. \A u \in Turns : pc'[u] \in Running => pc[u] \in Running
        BY <2>4 DEF ModelReturns, NextResults, NextSteer, MutexInv, TypeOK, HandlerTypeOK,
                    Running
      <3>2. UNCHANGED <<created, busy, on, resident>>
        BY <2>4 DEF ModelReturns, NextResults, NextSteer, FinishFrame, sessionVars
      <3> QED
        BY <3>1, <3>2, <1>r
    <2>5. CASE ModelAborted(t) \/ ModelFails(t) \/ NextEnds(t) \/ DeferredFinish(t)
      <3>1. pc[t] \in Running
        BY <2>5 DEF ModelAborted, ModelFails, NextEnds, DeferredFinish, Running
      <3>2. OnPromptFinish(t) \/ ActuallyFinish(t)
        BY <2>5 DEF ModelAborted, ModelFails, NextEnds, DeferredFinish
      <3>3. UNCHANGED <<resident, created, on>>
        BY <2>5 DEF ModelAborted, ModelFails, NextEnds, DeferredFinish, FinishFrame
      <3>4. PromptMutex' /\ \A k \in Instances : busy'[k] \in {busy[k], "idle"}
        BY <3>1, <3>2, <3>3, MutexFinish
      <3> QED
        BY <1>t, <3>3, <3>4 DEF MutexInv
    <2> QED
      BY <1>1, <2>1, <2>2, <2>3, <2>4, <2>5 DEF TurnNext
  <1>2. ASSUME NEW j \in Jobs, JobNext(j)
        PROVE  MutexInv'
    <2>1. UNCHANGED <<created, busy, on, resident, pc>>
      BY <1>2 DEF JobNext, Launch, LaunchUnderStop, Start, Exit, Settle, JobStop,
                  sessionVars, handlerVars
    <2> QED
      BY <2>1, <1>r
  <1>3. ASSUME NEW i \in Instances, InstanceNext(i)
        PROVE  MutexInv'
    <2>1. CASE FlushUnderStop(i) \/ FlushRearm(i) \/ FlushNothing(i) \/ StopDrained(i)
                 \/ Handoff(i)
      <3>1. UNCHANGED <<created, busy, on, resident, pc>>
        BY <2>1 DEF FlushUnderStop, FlushRearm, FlushNothing, StopDrained, Handoff,
                    sessionVars, handlerVars
      <3> QED
        BY <3>1, <1>r
    <2>2. CASE FlushDeliver(i)
      <3>1. /\ resident \in Instances
            /\ busy[resident] = "idle"
            /\ busy' = [busy EXCEPT ![resident] = "synth"]
            /\ UNCHANGED <<created, on, resident, pc>>
        BY <1>0, <2>2 DEF FlushDeliver, PromptIdle, handlerVars
      <3>2. \A k \in Instances : k # resident => busy'[k] = busy[k]
        BY <3>1 DEF MutexInv, TypeOK, SessionTypeOK
      <3>3. \A k \in Instances : busy[k] = "http" => busy'[k] = "http"
        BY <3>1, <3>2
      <3>4. PromptMutex'
        BY <3>1, <3>3, MutexFrame
      <3>5. \A k \in Instances : k > created' => busy'[k] = "idle"
        BY <3>1, <3>2 DEF MutexInv, TypeOK, SessionTypeOK, Instances
      <3> QED
        BY <1>t, <3>1, <3>4, <3>5 DEF MutexInv
    <2>3. CASE SyntheticEnds(i)
      <3>1. /\ busy[i] = "synth"
            /\ busy' = [busy EXCEPT ![i] = "idle"]
            /\ UNCHANGED <<created, on, resident, pc>>
        BY <2>3 DEF SyntheticEnds, handlerVars
      <3>2. \A k \in Instances : k # i => busy'[k] = busy[k]
        BY <3>1 DEF MutexInv, TypeOK, SessionTypeOK
      <3>3. \A k \in Instances : busy[k] = "http" => busy'[k] = "http"
        BY <3>1, <3>2
      <3>4. PromptMutex'
        BY <3>1, <3>3, MutexFrame
      <3>5. \A k \in Instances : k > created' => busy'[k] = "idle"
        BY <3>1, <3>2 DEF MutexInv, TypeOK, SessionTypeOK
      <3> QED
        BY <1>t, <3>1, <3>4, <3>5 DEF MutexInv
    <2>4. CASE ReleaseTimerFires(i)
      <3>1. UNCHANGED <<created, busy, on, pc>> /\ resident' \in {None, resident}
        BY <2>4 DEF ReleaseTimerFires, BeginRelease, DropResident
      <3> QED
        BY <3>1, <1>r
    <2>5. ASSUME NEW w \in Turns \cup {NoTurn}, ReleaseDone(i, w)
          PROVE  MutexInv'
      <3>1. UNCHANGED <<created, busy, on>> /\ resident' \in {None, resident}
        BY <2>5 DEF ReleaseDone, DropResident
      <3>2. \A u \in Turns : pc'[u] \in Running => pc[u] \in Running
        BY <2>5 DEF ReleaseDone, Running
      <3> QED
        BY <3>1, <3>2, <1>r
    <2> QED
      BY <1>3, <2>1, <2>2, <2>3, <2>4, <2>5 DEF InstanceNext
  <1>4. CASE \/ \E u \in Turns \cup {NoTurn} : Stop(u) \/ StopEarly(u) \/ PendingAbortExpires(u)
             \/ Steer
             \/ Invalidate
             \/ UNCHANGED vars
    <2>1. UNCHANGED <<created, busy, on, resident, pc>>
      BY <1>4 DEF Stop, StopEarly, PendingAbortExpires, Steer, Invalidate, sessionVars,
                  handlerVars, vars
    <2> QED
      BY <2>1, <1>r
  <1> QED
    BY <1>1, <1>2, <1>3, <1>4 DEF Next

\* An instance of a session is held by at most one prompt: the busy guard of
\* the prompt route and the guard of synthetic turns exclude each other, for
\* every deployment.
THEOREM PromptsExclude == Spec => []PromptMutex
  <1>1. Init => MutexInv
    BY TypingInit, SessionAssumption
    DEF Init, MutexInv, PromptMutex, None, Running, Instances
  <1>2. MutexInv => PromptMutex
    BY DEF MutexInv
  <1> QED
    BY <1>1, <1>2, MutexStep, PTL DEF Spec

----------------------------------------------------------------------------
(* Every completion is told at most once.                                  *)

\* Where the notice of job j still waits to be told: in the pending buffer of
\* an instance, or in a mailbox that has not handed it out.
Buffered(i, j) == j \in pending[i]
Mailed(t, j) == j \in Batch(t)

\* The inductive form of NoticeAtMostOnce: a notice waits in one place at
\* most, only after its job claimed the latch, and nowhere once it is told.
NoticeInv ==
  /\ TypeOK
  /\ NoticeAtMostOnce
  /\ \A j \in Jobs : ~notified[j] \/ tellings[j] > 0 =>
       /\ \A i \in Instances : ~Buffered(i, j)
       /\ \A t \in Turns : ~Mailed(t, j)
  /\ \A j \in Jobs : ~notified[j] => tellings[j] = 0
  /\ \A j \in Jobs, i, k \in Instances : Buffered(i, j) /\ Buffered(k, j) => i = k
  /\ \A j \in Jobs, t, u \in Turns : Mailed(t, j) /\ Mailed(u, j) => t = u
  /\ \A j \in Jobs, i \in Instances, t \in Turns : ~(Buffered(i, j) /\ Mailed(t, j))

\* A step that tells nothing and adds no waiting notice keeps the invariant.
LEMMA NoticeFrame ==
  ASSUME NoticeInv, TypeOK', UNCHANGED <<tellings, ready, consumed>>,
         \A j \in Jobs : notified[j] => notified'[j],
         \A i \in Instances : pending'[i] \subseteq pending[i]
  PROVE  NoticeInv'
  <1>1. \A j \in Jobs, t \in Turns : Mailed(t, j)' <=> Mailed(t, j)
    BY DEF Mailed, Batch
  <1>2. \A j \in Jobs, i \in Instances : Buffered(i, j)' => Buffered(i, j)
    BY DEF Buffered
  <1>3. NoticeAtMostOnce'
    BY DEF NoticeInv, NoticeAtMostOnce
  <1> QED
    BY <1>1, <1>2, <1>3 DEF NoticeInv

\* Dropping the map entry, at once or never, adds no pending notice.
LEMMA DropShrinks ==
  ASSUME TypeOK, NEW r \in Instances,
         DropResident(r) \/ \E w : BeginRelease(r, w)
  PROVE  \A i \in Instances : pending'[i] \subseteq pending[i]
  BY DEF DropResident, BeginRelease, TypeOK, SessionTypeOK

\* A batch of waiting notices that is told is told for the first time, and
\* no notice of it waits any more.
LEMMA NoticeTold ==
  ASSUME NoticeInv, TypeOK', NEW S \in SUBSET Jobs, Tell(S), notified' = notified,
         \A j \in S : \/ \E i \in Instances : Buffered(i, j)
                      \/ \E t \in Turns : Mailed(t, j),
         \A j \in Jobs, i \in Instances : Buffered(i, j)' => Buffered(i, j) /\ j \notin S,
         \A j \in Jobs, t \in Turns : Mailed(t, j)' => Mailed(t, j) /\ j \notin S
  PROVE  NoticeInv'
  <1>1. \A j \in S : tellings[j] = 0 /\ notified[j]
    BY DEF NoticeInv, TypeOK, HistoryTypeOK
  <1>2. \A j \in Jobs : tellings'[j] = IF j \in S THEN tellings[j] + 1 ELSE tellings[j]
    BY DEF Tell
  <1>3. NoticeAtMostOnce'
    BY <1>1, <1>2 DEF NoticeInv, NoticeAtMostOnce
  <1> QED
    BY <1>1, <1>2, <1>3 DEF NoticeInv

\* The completion of a job is put into one place at most, and only by the
\* claim of its latch.
LEMMA NoticeSettles ==
  ASSUME NoticeInv, TypeOK', NEW j \in Jobs, Settle(j)
  PROVE  NoticeInv'
  <1> DEFINE w == IF owner[j] # NoTurn THEN owner[j] ELSE Owner(resident)
             reaches == resident # None /\ ~notified[j]
  <1>1. /\ tellings' = tellings
        /\ consumed' = consumed
        /\ \A k \in Jobs \ {j} : notified'[k] = notified[k]
        /\ notified'[j] <=> notified[j] \/ reaches
    BY DEF Settle, SetStatusAndClaim, Claimable, NoticeInv, TypeOK, RegistryTypeOK
  <1>2. \A k \in Jobs \ {j}, i \in Instances : Buffered(i, k)' <=> Buffered(i, k)
    BY DEF Settle, NotifyParent, Buffered
  <1>3. \A k \in Jobs \ {j}, t \in Turns : Mailed(t, k)' <=> Mailed(t, k)
    BY <1>1 DEF Settle, NotifyParent, CompleteIn, Mailed, Batch
  <1>4. CASE ~reaches
    <2>1. \A i \in Instances : Buffered(i, j)' <=> Buffered(i, j)
      BY <1>4 DEF Settle, NotifyParent, Buffered
    <2>2. \A t \in Turns : Mailed(t, j)' <=> Mailed(t, j)
      BY <1>1, <1>4 DEF Settle, NotifyParent, Mailed, Batch
    <2>3. notified'[j] <=> notified[j]
      BY <1>1, <1>4
    <2>4. NoticeAtMostOnce'
      BY <1>1 DEF NoticeInv, NoticeAtMostOnce
    <2> QED
      BY <1>1, <1>2, <1>3, <2>1, <2>2, <2>3, <2>4 DEF NoticeInv
  <1>5. CASE reaches
    <2>1. /\ tellings[j] = 0
          /\ \A i \in Instances : ~Buffered(i, j)
          /\ \A t \in Turns : ~Mailed(t, j)
      BY <1>5 DEF NoticeInv
    <2>2. \A i \in Instances : Buffered(i, j)' => i = resident /\ ~Owns(w, j)
      BY <2>1 DEF Settle, NotifyParent, Buffered
    <2>3. \A t \in Turns : Mailed(t, j)' => t = w /\ Owns(w, j)
      BY <1>1, <1>5, <2>1 DEF Settle, NotifyParent, CompleteIn, Mailed, Batch, Owns
    <2>4. notified'[j] /\ tellings'[j] = 0
      BY <1>1, <1>5, <2>1
    <2>5. NoticeAtMostOnce'
      BY <1>1 DEF NoticeInv, NoticeAtMostOnce
    <2> HIDE DEF w, reaches
    <2> QED
      BY <1>1, <1>2, <1>3, <2>2, <2>3, <2>4, <2>5 DEF NoticeInv
  <1> QED
    BY <1>4, <1>5

\* NoticeInv is inductive.
LEMMA NoticeStep == NoticeInv /\ [Next]_vars => NoticeInv'
  <1> SUFFICES ASSUME NoticeInv, [Next]_vars
               PROVE  NoticeInv'
    OBVIOUS
  <1>t. TypeOK'
    BY TypingStep DEF NoticeInv
  <1>0. resident # None => resident \in Instances
    BY SessionAssumption DEF NoticeInv, TypeOK, SessionTypeOK, None, Instances
  <1>f. ASSUME UNCHANGED <<tellings, ready, consumed, pending, notified>>
        PROVE  NoticeInv'
    BY <1>f, <1>t, NoticeFrame
  <1>1. ASSUME NEW t \in Turns, TurnNext(t)
        PROVE  NoticeInv'
    <2>1. CASE RestoreHandedAway(t) \/ PromptRebuild(t)
      <3>1. UNCHANGED <<tellings, ready, consumed, notified>>
        BY <2>1 DEF RestoreHandedAway, PromptRebuild, registryVars, mailboxVars
      <3>2. \A i \in Instances : pending'[i] \subseteq pending[i]
        <4>1. CASE UNCHANGED pending
          BY <4>1
        <4>2. CASE resident # None /\ BeginRelease(resident, t)
          <5> DEFINE r == resident
          <5>1. r \in Instances /\ BeginRelease(r, t) /\ TypeOK
            BY <1>0, <4>2 DEF NoticeInv
          <5> HIDE DEF r
          <5> QED
            BY <5>1, DropShrinks
        <4> QED
          BY <2>1, <4>1, <4>2 DEF RestoreHandedAway, PromptRebuild
      <3> QED
        BY <1>t, <3>1, <3>2, NoticeFrame
    <2>2. CASE PromptCold(t) \/ PromptRefused(t) \/ ModelReturns(t) \/ NextSteer(t)
      <3>1. UNCHANGED <<tellings, ready, consumed, pending, notified>>
        BY <2>2 DEF PromptCold, PromptRefused, ModelReturns, NextSteer, TakeSteer,
                    FinishFrame, registryVars, mailboxVars, sessionVars, historyVars
      <3> QED
        BY <3>1, <1>f
    <2>3. CASE PromptWarm(t) \/ Created(t)
      <3>1. UNCHANGED <<tellings, ready, consumed, pending, notified>>
        BY <2>3 DEF PromptWarm, Created, Claim, CancelMailbox, registryVars, mailboxVars,
                    historyVars
      <3> QED
        BY <3>1, <1>f
    <2>4. CASE ModelAborted(t) \/ ModelFails(t) \/ NextEnds(t) \/ DeferredFinish(t)
      <3>1. OnPromptFinish(t) \/ ActuallyFinish(t)
        BY <2>4 DEF ModelAborted, ModelFails, NextEnds, DeferredFinish
      <3>2. UNCHANGED <<ready, consumed>>
        BY <3>1 DEF OnPromptFinish, ActuallyFinish, CancelMailbox, mailboxVars
      <3>3. UNCHANGED <<tellings, pending, notified>>
        BY <2>4 DEF ModelAborted, ModelFails, NextEnds, DeferredFinish, FinishFrame,
                    StopSessionJobs, StopJobs, registryVars, historyVars
      <3> QED
        BY <3>2, <3>3, <1>f
    <2>5. CASE NextResults(t)
      <3> DEFINE S == Batch(t)
      <3>1. /\ S \in SUBSET Jobs
            /\ Tell(S)
            /\ UNCHANGED <<pending, notified, ready>>
            /\ consumed' = [consumed EXCEPT ![t] = @ \cup Batch(t)]
        BY <2>5 DEF NextResults, ConsumeBatch, Batch, NoticeInv, TypeOK, MailboxTypeOK,
                    registryVars, sessionVars
      <3>2. \A j \in S : Mailed(t, j)
        BY DEF Mailed
      <3>3. \A j \in Jobs, i \in Instances : Buffered(i, j)' => Buffered(i, j) /\ j \notin S
        BY <3>1, <3>2 DEF NoticeInv, Buffered
      <3>4. \A j \in Jobs, u \in Turns : Mailed(u, j)' => Mailed(u, j) /\ j \notin S
        <4>1. \A u \in Turns : Batch(u)' = IF u = t THEN {} ELSE Batch(u)
          BY <3>1 DEF Batch, NoticeInv, TypeOK, MailboxTypeOK
        <4> QED
          BY <4>1, <3>2 DEF Mailed, NoticeInv
      <3> HIDE DEF S
      <3> QED
        BY <1>t, <3>1, <3>2, <3>3, <3>4, NoticeTold
    <2> QED
      BY <1>1, <2>1, <2>2, <2>3, <2>4, <2>5 DEF TurnNext
  <1>2. ASSUME NEW j \in Jobs, JobNext(j)
        PROVE  NoticeInv'
    <2>1. CASE Settle(j)
      BY <2>1, <1>t, NoticeSettles
    <2>2. ASSUME NEW i \in Instances, LaunchUnderStop(i, j)
          PROVE  NoticeInv'
      <3>1. UNCHANGED <<tellings, ready, consumed, pending>>
        BY <2>2 DEF LaunchUnderStop, sessionVars
      <3>2. \A k \in Jobs : notified[k] => notified'[k]
        BY <2>2 DEF LaunchUnderStop, RegisterStopped, NoticeInv, TypeOK, RegistryTypeOK
      <3> QED
        BY <1>t, <3>1, <3>2, NoticeFrame
    <2>3. ASSUME NEW i \in Instances, Launch(i, j)
          PROVE  NoticeInv'
      <3>1. UNCHANGED <<tellings, ready, consumed, pending, notified>>
        BY <2>3 DEF Launch, RegisterRunning, noticeVars
      <3> QED
        BY <3>1, <1>f
    <2>4. CASE Start(j) \/ Exit(j) \/ JobStop(j)
      <3>1. UNCHANGED <<tellings, ready, consumed, pending, notified>>
        BY <2>4 DEF Start, Exit, JobStop, StopJobs, registryVars, mailboxVars, sessionVars,
                    historyVars
      <3> QED
        BY <3>1, <1>f
    <2> QED
      BY <1>2, <2>1, <2>2, <2>3, <2>4 DEF JobNext
  <1>3. ASSUME NEW i \in Instances, InstanceNext(i)
        PROVE  NoticeInv'
    <2>1. CASE FlushUnderStop(i)
      <3>1. UNCHANGED <<tellings, ready, consumed, notified>>
        BY <2>1 DEF FlushUnderStop, CancelMailbox, registryVars
      <3>2. \A k \in Instances : pending'[k] \subseteq pending[k]
        BY <2>1 DEF FlushUnderStop, NoticeInv, TypeOK, SessionTypeOK
      <3> QED
        BY <1>t, <3>1, <3>2, NoticeFrame
    <2>2. CASE FlushDeliver(i)
      <3> DEFINE S == pending[resident]
      <3>1. /\ resident \in Instances
            /\ S \in SUBSET Jobs
            /\ Tell(S)
            /\ UNCHANGED <<notified, ready, consumed>>
            /\ pending' = [pending EXCEPT ![resident] = {}]
        BY <1>0, <2>2 DEF FlushDeliver, NoticeInv, TypeOK, SessionTypeOK, registryVars,
                          mailboxVars
      <3>2. \A j \in S : Buffered(resident, j)
        BY DEF Buffered
      <3>3. \A j \in Jobs, k \in Instances : Buffered(k, j)' => Buffered(k, j) /\ j \notin S
        <4>1. \A k \in Instances : pending'[k] = IF k = resident THEN {} ELSE pending[k]
          BY <3>1 DEF NoticeInv, TypeOK, SessionTypeOK
        <4> QED
          BY <3>1, <3>2, <4>1 DEF Buffered, NoticeInv
      <3>4. \A j \in Jobs, u \in Turns : Mailed(u, j)' => Mailed(u, j) /\ j \notin S
        BY <3>1, <3>2 DEF Mailed, Batch, NoticeInv
      <3> HIDE DEF S
      <3> QED
        BY <1>t, <3>1, <3>2, <3>3, <3>4, NoticeTold
    <2>3. CASE FlushRearm(i) \/ FlushNothing(i) \/ SyntheticEnds(i) \/ StopDrained(i)
                 \/ Handoff(i)
      <3>1. UNCHANGED <<tellings, ready, consumed, pending, notified>>
        BY <2>3 DEF FlushRearm, FlushNothing, SyntheticEnds, StopDrained, Handoff,
                    StopSessionJobs, StopJobs, CancelMailbox, registryVars, mailboxVars,
                    sessionVars, historyVars
      <3> QED
        BY <3>1, <1>f
    <2>4. CASE ReleaseTimerFires(i)
      <3>1. UNCHANGED <<tellings, ready, consumed, notified>>
        BY <2>4 DEF ReleaseTimerFires, registryVars, mailboxVars
      <3>2. \A k \in Instances : pending'[k] \subseteq pending[k]
        <4>1. CASE resident = None
          BY <2>4, <4>1 DEF ReleaseTimerFires
        <4>2. CASE resident # None
          <5> DEFINE r == resident
          <5>1. r \in Instances /\ BeginRelease(r, NoTurn) /\ TypeOK
            BY <1>0, <2>4, <4>2 DEF ReleaseTimerFires, NoticeInv
          <5> HIDE DEF r
          <5> QED
            BY <5>1, DropShrinks
        <4> QED
          BY <4>1, <4>2
      <3> QED
        BY <1>t, <3>1, <3>2, NoticeFrame
    <2>5. ASSUME NEW w \in Turns \cup {NoTurn}, ReleaseDone(i, w)
          PROVE  NoticeInv'
      <3>1. UNCHANGED <<tellings, ready, consumed, notified>>
        BY <2>5 DEF ReleaseDone, registryVars, mailboxVars
      <3>2. \A k \in Instances : pending'[k] \subseteq pending[k]
        BY <2>5, DropShrinks DEF ReleaseDone, NoticeInv
      <3> QED
        BY <1>t, <3>1, <3>2, NoticeFrame
    <2> QED
      BY <1>3, <2>1, <2>2, <2>3, <2>4, <2>5 DEF InstanceNext
  <1>4. ASSUME NEW u \in Turns \cup {NoTurn}, Stop(u)
        PROVE  NoticeInv'
    <2>1. UNCHANGED <<tellings, ready, consumed, notified>>
      BY <1>4 DEF Stop, StopSessionJobs, StopJobs, CancelMailbox
    <2>2. \A k \in Instances : pending'[k] \subseteq pending[k]
      BY <1>4 DEF Stop, NoticeInv, TypeOK, SessionTypeOK
    <2> QED
      BY <1>t, <2>1, <2>2, NoticeFrame
  <1>5. CASE \/ \E u \in Turns \cup {NoTurn} : StopEarly(u) \/ PendingAbortExpires(u)
             \/ Steer
             \/ Invalidate
             \/ UNCHANGED vars
    <2>1. UNCHANGED <<tellings, ready, consumed, pending, notified>>
      BY <1>5 DEF StopEarly, PendingAbortExpires, Steer, QueueSteer, Invalidate,
                  registryVars, mailboxVars, sessionVars, historyVars, vars
    <2> QED
      BY <2>1, <1>f
  <1> QED
    BY <1>1, <1>2, <1>3, <1>4, <1>5 DEF Next

\* No completion is told to the model twice, whatever the interleaving of
\* prompts, Stops, releases and timers, and for every deployment.
THEOREM ToldAtMostOnce == Spec => []NoticeAtMostOnce
  <1>1. Init => NoticeInv
    <2> SUFFICES ASSUME Init PROVE NoticeInv
      OBVIOUS
    <2>1. \A j \in Jobs : tellings[j] = 0
      BY DEF Init
    <2>2. \A j \in Jobs, i \in Instances : ~Buffered(i, j)
      BY DEF Init, Buffered
    <2>3. \A j \in Jobs, t \in Turns : ~Mailed(t, j)
      BY DEF Init, MailboxInit, Mailed, Batch
    <2> QED
      BY <2>1, <2>2, <2>3, TypingInit DEF NoticeInv, NoticeAtMostOnce
  <1>2. NoticeInv => NoticeAtMostOnce
    BY DEF NoticeInv
  <1> QED
    BY <1>1, <1>2, NoticeStep, PTL DEF Spec

----------------------------------------------------------------------------
(* A result that a prompt owns stays with it.                              *)

\* The inductive form of OwnedResultStaysWithOwner: as long as nobody was
\* told, a registered job is registered with the owner its runner captured,
\* and a job that was never registered has no notice.
OwnerInv ==
  /\ TypeOK
  /\ \A j \in Jobs : run[j] = "flushing" => outcome[j] # "absent"
  /\ \A j \in Jobs : status[j] = "absent" =>
       /\ \A i \in Instances : j \notin pending[i]
       /\ \A t \in Turns : j \notin registered[t]
  /\ \A j \in Jobs, t \in Turns : j \in registered[t] /\ ~notified[j] => owner[j] = t
  /\ OwnedResultStaysWithOwner

\* A step that registers no job and buffers no notice keeps the invariant.
LEMMA OwnerFrame ==
  ASSUME OwnerInv, TypeOK', UNCHANGED <<registered, owner, run, outcome>>,
         \A j \in Jobs : status'[j] = "absent" => status[j] = "absent",
         \A j \in Jobs : notified[j] => notified'[j],
         \A i \in Instances : pending'[i] \subseteq pending[i]
  PROVE  OwnerInv'
  <1>1. OwnedResultStaysWithOwner'
    BY DEF OwnerInv, OwnedResultStaysWithOwner
  <1> QED
    BY <1>1 DEF OwnerInv

\* A stop of jobs registers none and leaves none unregistered.
LEMMA StopKeepsStatus ==
  ASSUME TypeOK, NEW S, NEW quiet, StopJobs(S, quiet)
  PROVE  \A j \in Jobs : /\ status'[j] = "absent" => status[j] = "absent"
                         /\ notified'[j] = notified[j]
  BY DEF StopJobs, Stoppable, TypeOK, RegistryTypeOK

\* The launch of a job, and the refusal of one under a Stop, keep OwnerInv.
LEMMA OwnerLaunches ==
  ASSUME OwnerInv, TypeOK', NEW i \in Instances, NEW j \in Jobs,
         Launch(i, j) \/ LaunchUnderStop(i, j)
  PROVE  OwnerInv'
  <1> DEFINE w == Owner(resident)
  <1>1. /\ status[j] = "absent"
        /\ pending' = pending /\ outcome' = outcome
        /\ status' \in [Jobs -> JobStatus] /\ status'[j] # "absent"
        /\ \A k \in Jobs \ {j} : status'[k] = status[k] /\ notified'[k] = notified[k]
        /\ \A k \in Jobs \ {j} : run'[k] = run[k] /\ owner'[k] = owner[k]
        /\ run'[j] # "flushing"
    BY DEF Launch, LaunchUnderStop, RegisterRunning, RegisterStopped, OwnerInv, TypeOK,
           RegistryTypeOK, RunnerTypeOK, sessionVars, JobStatus
  <1>2. /\ \A k \in Jobs \ {j}, t \in Turns : k \in registered'[t] <=> k \in registered[t]
        /\ \A t \in Turns : j \in registered'[t] => t = w
    BY <1>1 DEF Launch, LaunchUnderStop, RegisterIn, OwnerInv, TypeOK, MailboxTypeOK
  <1>3. notified'[j] \/ owner'[j] = w
    BY DEF Launch, LaunchUnderStop, RegisterStopped, OwnerInv, TypeOK, RegistryTypeOK,
           RunnerTypeOK
  <1>4. \A k \in Instances : j \notin pending'[k]
    BY <1>1 DEF OwnerInv
  <1>5. OwnedResultStaysWithOwner'
    BY <1>1, <1>2, <1>4 DEF OwnerInv, OwnedResultStaysWithOwner, TypeOK, SessionTypeOK
  <1> HIDE DEF w
  <1> QED
    BY <1>1, <1>2, <1>3, <1>4, <1>5 DEF OwnerInv

\* A completion is buffered only when no mailbox knows the job.
LEMMA OwnerSettles ==
  ASSUME OwnerInv, TypeOK', NEW j \in Jobs, Settle(j)
  PROVE  OwnerInv'
  <1>1. /\ run[j] = "flushing" /\ outcome[j] # "absent"
        /\ UNCHANGED <<registered, owner, outcome>>
        /\ \A k \in Jobs : run'[k] = "flushing" => run[k] = "flushing"
    BY DEF Settle, OwnerInv, TypeOK, RunnerTypeOK
  <1>2. /\ status'[j] # "absent"
        /\ \A k \in Jobs \ {j} : status'[k] = status[k]
        /\ \A k \in Jobs : notified[k] => notified'[k]
    BY <1>1 DEF Settle, SetStatusAndClaim, SettledStatus, OwnerInv, TypeOK, RegistryTypeOK
  <1>3. \A k \in Jobs \ {j}, i \in Instances : k \in pending'[i] <=> k \in pending[i]
    BY DEF Settle, NotifyParent
  <1>4. ASSUME NEW i \in Instances, NEW t \in Turns, j \in pending'[i], j \in registered[t]
        PROVE  FALSE
    <2>1. j \notin pending[i]
      BY <1>4 DEF OwnerInv, OwnedResultStaysWithOwner
    <2>2. /\ ~notified[j]
          /\ ~Owns(IF owner[j] # NoTurn THEN owner[j] ELSE Owner(resident), j)
      BY <1>4, <2>1 DEF Settle, NotifyParent
    <2>3. owner[j] = t
      BY <1>4, <2>2 DEF OwnerInv
    <2> QED
      BY <1>4, <2>2, <2>3, SessionAssumption DEF Owns
  <1>5. OwnedResultStaysWithOwner'
    <2> SUFFICES ASSUME NEW i \in Instances, NEW t \in Turns, NEW k \in Jobs,
                        k \in pending'[i], k \in registered'[t]
                 PROVE  FALSE
      BY DEF OwnedResultStaysWithOwner, OwnerInv, TypeOK, SessionTypeOK
    <2>1. CASE k = j
      BY <1>1, <1>4, <2>1
    <2>2. CASE k # j
      BY <1>1, <1>3, <2>2 DEF OwnerInv, OwnedResultStaysWithOwner
    <2> QED
      BY <2>1, <2>2
  <1> QED
    BY <1>1, <1>2, <1>3, <1>5 DEF OwnerInv

\* OwnerInv is inductive.
LEMMA OwnerStep == OwnerInv /\ [Next]_vars => OwnerInv'
  <1> SUFFICES ASSUME OwnerInv, [Next]_vars
               PROVE  OwnerInv'
    OBVIOUS
  <1>t. TypeOK /\ TypeOK'
    BY TypingStep DEF OwnerInv
  <1>0. resident # None => resident \in Instances
    BY SessionAssumption DEF OwnerInv, TypeOK, SessionTypeOK, None, Instances
  <1>f. ASSUME UNCHANGED <<registered, owner, run, outcome, status, notified, pending>>
        PROVE  OwnerInv'
    BY <1>f, <1>t, OwnerFrame
  <1>p. ASSUME UNCHANGED <<registered, owner, run, outcome, status, notified>>,
               \/ UNCHANGED pending
               \/ \E r \in Instances : DropResident(r) \/ \E w : BeginRelease(r, w)
        PROVE  OwnerInv'
    <2>1. \A i \in Instances : pending'[i] \subseteq pending[i]
      BY <1>p, <1>t, DropShrinks
    <2> QED
      BY <1>p, <1>t, <2>1, OwnerFrame
  <1>s. ASSUME UNCHANGED <<registered, owner, run, outcome, pending>>,
               NEW S, NEW quiet, StopJobs(S, quiet)
        PROVE  OwnerInv'
    <2>1. \A j \in Jobs : /\ status'[j] = "absent" => status[j] = "absent"
                          /\ notified'[j] = notified[j]
      BY <1>s, <1>t, StopKeepsStatus
    <2> QED
      BY <1>s, <1>t, <2>1, OwnerFrame
  <1>1. ASSUME NEW t \in Turns, TurnNext(t)
        PROVE  OwnerInv'
    <2>1. CASE RestoreHandedAway(t) \/ PromptRebuild(t)
      <3>1. UNCHANGED <<registered, owner, run, outcome, status, notified>>
        BY <2>1 DEF RestoreHandedAway, PromptRebuild, registryVars, mailboxVars, runnerVars
      <3>2. \/ UNCHANGED pending
            \/ resident # None /\ BeginRelease(resident, t)
        BY <2>1 DEF RestoreHandedAway, PromptRebuild
      <3> QED
        BY <1>0, <1>p, <3>1, <3>2
    <2>2. CASE \/ PromptCold(t) \/ PromptRefused(t) \/ PromptWarm(t) \/ Created(t)
               \/ ModelReturns(t) \/ NextSteer(t) \/ NextResults(t)
      <3>1. UNCHANGED <<registered, owner, run, outcome, status, notified, pending>>
        BY <2>2 DEF PromptCold, PromptRefused, PromptWarm, Created, Claim, CancelMailbox,
                    ModelReturns, NextSteer, TakeSteer, NextResults, ConsumeBatch,
                    FinishFrame, registryVars, mailboxVars, sessionVars, runnerVars
      <3> QED
        BY <3>1, <1>f
    <2>3. CASE ModelAborted(t) \/ ModelFails(t) \/ NextEnds(t) \/ DeferredFinish(t)
      <3>1. OnPromptFinish(t) \/ ActuallyFinish(t)
        BY <2>3 DEF ModelAborted, ModelFails, NextEnds, DeferredFinish
      <3>2. registered' = registered
        BY <3>1 DEF OnPromptFinish, ActuallyFinish, CancelMailbox, mailboxVars
      <3>3. UNCHANGED <<owner, run, outcome, pending>>
        BY <2>3 DEF ModelAborted, ModelFails, NextEnds, DeferredFinish, FinishFrame
      <3>4. CASE UNCHANGED <<status, notified>>
        BY <3>2, <3>3, <3>4, <1>f
      <3>5. CASE StopJobs(registered[t], TRUE)
        BY <3>2, <3>3, <3>5, <1>s
      <3> QED
        BY <2>3, <3>4, <3>5
        DEF ModelAborted, ModelFails, NextEnds, DeferredFinish, StopSessionJobs, registryVars
    <2> QED
      BY <1>1, <2>1, <2>2, <2>3 DEF TurnNext
  <1>2. ASSUME NEW j \in Jobs, JobNext(j)
        PROVE  OwnerInv'
    <2>1. CASE Settle(j)
      BY <2>1, <1>t, OwnerSettles
    <2>2. ASSUME NEW i \in Instances, Launch(i, j) \/ LaunchUnderStop(i, j)
          PROVE  OwnerInv'
      BY <2>2, <1>t, OwnerLaunches
    <2>3. CASE Start(j) \/ Exit(j)
      <3>1. UNCHANGED <<registered, owner, status, notified, pending>>
        BY <2>3 DEF Start, Exit, registryVars, mailboxVars, sessionVars
      <3>2. \A k \in Jobs : run'[k] = "flushing" => outcome'[k] # "absent"
        BY <2>3 DEF Start, Exit, OwnerInv, TypeOK, RunnerTypeOK
      <3>3. OwnedResultStaysWithOwner'
        BY <3>1 DEF OwnerInv, OwnedResultStaysWithOwner
      <3> QED
        BY <1>t, <3>1, <3>2, <3>3 DEF OwnerInv
    <2>4. CASE JobStop(j)
      <3>1. /\ UNCHANGED <<registered, owner, run, outcome, pending>>
            /\ StopJobs({j}, FALSE)
        BY <2>4 DEF JobStop, mailboxVars, sessionVars
      <3> QED
        BY <3>1, <1>s
    <2> QED
      BY <1>2, <2>1, <2>2, <2>3, <2>4 DEF JobNext
  <1>3. ASSUME NEW i \in Instances, InstanceNext(i)
        PROVE  OwnerInv'
    <2>1. CASE FlushUnderStop(i) \/ FlushDeliver(i)
      <3>1. UNCHANGED <<registered, owner, run, outcome, status, notified>>
        BY <2>1 DEF FlushUnderStop, FlushDeliver, CancelMailbox, registryVars, mailboxVars,
                    runnerVars
      <3>2. \A k \in Instances : pending'[k] \subseteq pending[k]
        BY <2>1 DEF FlushUnderStop, FlushDeliver, OwnerInv, TypeOK, SessionTypeOK
      <3> QED
        BY <1>t, <3>1, <3>2, OwnerFrame
    <2>2. CASE FlushRearm(i) \/ FlushNothing(i) \/ SyntheticEnds(i)
      <3>1. UNCHANGED <<registered, owner, run, outcome, status, notified, pending>>
        BY <2>2 DEF FlushRearm, FlushNothing, SyntheticEnds, registryVars, mailboxVars,
                    runnerVars
      <3> QED
        BY <3>1, <1>f
    <2>3. CASE StopDrained(i) \/ Handoff(i)
      <3>1. UNCHANGED <<registered, owner, run, outcome, pending>>
        BY <2>3 DEF StopDrained, Handoff, CancelMailbox, mailboxVars, sessionVars
      <3>2. \E S : StopJobs(S, TRUE)
        BY <2>3 DEF StopDrained, Handoff, StopSessionJobs
      <3> QED
        BY <3>1, <3>2, <1>s
    <2>4. CASE ReleaseTimerFires(i)
      <3>1. UNCHANGED <<registered, owner, run, outcome, status, notified>>
        BY <2>4 DEF ReleaseTimerFires, registryVars, mailboxVars, runnerVars
      <3>2. \/ UNCHANGED pending
            \/ resident # None /\ BeginRelease(resident, NoTurn)
        BY <2>4 DEF ReleaseTimerFires
      <3> QED
        BY <1>0, <1>p, <3>1, <3>2
    <2>5. ASSUME NEW w \in Turns \cup {NoTurn}, ReleaseDone(i, w)
          PROVE  OwnerInv'
      <3>1. UNCHANGED <<registered, owner, run, outcome, status, notified>>
        BY <2>5 DEF ReleaseDone, registryVars, mailboxVars, runnerVars
      <3>2. UNCHANGED pending \/ DropResident(i)
        BY <2>5 DEF ReleaseDone
      <3> QED
        BY <1>p, <3>1, <3>2
    <2> QED
      BY <1>3, <2>1, <2>2, <2>3, <2>4, <2>5 DEF InstanceNext
  <1>4. ASSUME NEW u \in Turns \cup {NoTurn}, Stop(u)
        PROVE  OwnerInv'
    <2>1. UNCHANGED <<registered, owner, run, outcome>> /\ StopJobs(Jobs, TRUE)
      BY <1>4 DEF Stop, StopSessionJobs, CancelMailbox
    <2>2. \A k \in Instances : pending'[k] \subseteq pending[k]
      BY <1>4 DEF Stop, OwnerInv, TypeOK, SessionTypeOK
    <2>3. \A j \in Jobs : /\ status'[j] = "absent" => status[j] = "absent"
                          /\ notified'[j] = notified[j]
      BY <1>t, <2>1, StopKeepsStatus
    <2> QED
      BY <1>t, <2>1, <2>2, <2>3, OwnerFrame
  <1>5. CASE \/ \E u \in Turns \cup {NoTurn} : StopEarly(u) \/ PendingAbortExpires(u)
             \/ Steer
             \/ Invalidate
             \/ UNCHANGED vars
    <2>1. UNCHANGED <<registered, owner, run, outcome, status, notified, pending>>
      BY <1>5 DEF StopEarly, PendingAbortExpires, Steer, QueueSteer, Invalidate,
                  registryVars, mailboxVars, sessionVars, runnerVars, vars
    <2> QED
      BY <2>1, <1>f
  <1> QED
    BY <1>1, <1>2, <1>3, <1>4, <1>5 DEF Next

\* The result of a job that a prompt owns never escapes into a synthetic
\* prompt, whatever stops, hands over or releases the session.
THEOREM ResultsStayWithOwner == Spec => []OwnedResultStaysWithOwner
  <1>1. Init => OwnerInv
    <2> SUFFICES ASSUME Init PROVE OwnerInv
      OBVIOUS
    <2>1. /\ \A j \in Jobs : run[j] # "flushing"
          /\ \A i \in Instances : pending[i] = {}
          /\ \A t \in Turns : registered[t] = {}
      BY DEF Init, MailboxInit
    <2> QED
      BY <2>1, TypingInit DEF OwnerInv, OwnedResultStaysWithOwner
  <1>2. OwnerInv => OwnedResultStaysWithOwner
    BY DEF OwnerInv
  <1> QED
    BY <1>1, <1>2, OwnerStep, PTL DEF Spec

\* Both together: no interleaving lets a completion reach the model twice, or
\* past the prompt that owns it.
THEOREM NoticesAlwaysSound == Spec => []NoticesAreSound
  BY ToldAtMostOnce, ResultsStayWithOwner, PTL DEF NoticesAreSound

----------------------------------------------------------------------------
(* The life of a job.                                                      *)

\* What its status, its kill hook and its runner tell of each other: a job that
\* runs has a runner and no notice yet, one that is up can be stopped, and one
\* that was stopped while up has been told so.
JobShape(j) ==
  /\ status[j] = "absent" <=> run[j] = "absent"
  /\ status[j] = "absent" => ~notified[j]
  /\ status[j] = "running" => Live(j) /\ ~notified[j] /\ (j \in ExecJobs => hook[j])
  /\ run[j] = "starting" => /\ status[j] = "running" \/ (status[j] = "stopped" /\ hook[j])
                            /\ hook[j] <=> j \in ExecJobs
  /\ run[j] = "live" => hook[j] /\ (status[j] = "running" \/ j \in killed)
  /\ run[j] = "flushing" => outcome[j] \in {"completed", "failed", "stopped"}

JobInv == TypeOK /\ \A j \in Jobs : JobShape(j)

\* A step that leaves a job alone leaves its shape alone.
LEMMA ShapeFrame ==
  ASSUME NEW j \in Jobs, JobShape(j), status'[j] = status[j], notified'[j] = notified[j],
         hook'[j] = hook[j], run'[j] = run[j], outcome'[j] = outcome[j],
         j \in killed => j \in killed'
  PROVE  JobShape(j)'
  BY DEF JobShape, Live

\* A stop keeps the shape of every job, when it tells those that are up.
LEMMA ShapeStopped ==
  ASSUME JobInv, NEW S \in SUBSET Jobs, NEW quiet, StopJobs(S, quiet), UNCHANGED <<run, outcome>>,
         killed' = killed \cup {k \in Stoppable(S) : run[k] = "live"}
  PROVE  \A j \in Jobs : JobShape(j)'
  <1> SUFFICES ASSUME NEW j \in Jobs PROVE JobShape(j)'
    OBVIOUS
  <1>1. JobShape(j)
    BY DEF JobInv
  <1>2. CASE j \in Stoppable(S)
    <2>1. status'[j] = "stopped" /\ hook[j] /\ status[j] = "running" /\ hook'[j] = hook[j]
          /\ (run[j] = "live" => j \in killed') /\ run'[j] = run[j] /\ outcome'[j] = outcome[j]
      BY <1>2 DEF StopJobs, Stoppable
    <2> QED
      BY <1>1, <2>1 DEF JobShape, Live
  <1>3. CASE j \notin Stoppable(S)
    <2>1. status'[j] = status[j] /\ notified'[j] = notified[j] /\ hook'[j] = hook[j]
          /\ run'[j] = run[j] /\ outcome'[j] = outcome[j] /\ (j \in killed => j \in killed')
      BY <1>3 DEF StopJobs
    <2> QED
      BY <1>1, <2>1, ShapeFrame
  <1> QED
    BY <1>2, <1>3

\* The steps of a job keep its shape.
LEMMA ShapeJob ==
  ASSUME JobInv, NEW j \in Jobs, JobNext(j)
  PROVE  \A k \in Jobs : JobShape(k)'
  <1>0. /\ \A k \in Jobs : JobShape(k)
        /\ status \in [Jobs -> JobStatus] /\ notified \in [Jobs -> BOOLEAN] /\ hook \in [Jobs -> BOOLEAN]
        /\ run \in [Jobs -> {"absent", "starting", "live", "flushing", "over"}]
        /\ outcome \in [Jobs -> JobStatus]
    BY DEF JobInv, TypeOK, RegistryTypeOK, RunnerTypeOK
  <1>k. j \in ExecJobs \/ j \in SubJobs
    BY DEF Jobs
  <1>o. ASSUME \A k \in Jobs \ {j} : /\ status'[k] = status[k] /\ notified'[k] = notified[k]
                                     /\ hook'[k] = hook[k] /\ run'[k] = run[k] /\ outcome'[k] = outcome[k]
                                     /\ k \in killed => k \in killed',
               JobShape(j)'
        PROVE  \A k \in Jobs : JobShape(k)'
    <2>1. ASSUME NEW k \in Jobs \ {j} PROVE JobShape(k)'
      BY <1>0, <1>o, ShapeFrame
    <2> QED
      BY <1>o, <2>1
  <1>1. ASSUME NEW i \in Instances, Launch(i, j) PROVE \A k \in Jobs : JobShape(k)'
    <2>1. /\ status[j] = "absent" /\ status' = [status EXCEPT ![j] = "running"]
          /\ hook' = [hook EXCEPT ![j] = j \in ExecJobs] /\ notified' = notified
          /\ UNCHANGED <<outcome, killed>>
      BY <1>1 DEF Launch, RegisterRunning
    <2>2. \/ run' = [run EXCEPT ![j] = "starting"]
          \/ j \in ExecJobs /\ run' = [run EXCEPT ![j] = "live"]
      BY <1>1 DEF Launch
    <2>5. JobShape(j)
      BY <1>0
    <2>6. status'[j] = "running" /\ ~notified'[j]
      BY <1>0, <2>1, <2>5 DEF JobShape
    <2>7. hook'[j] = (j \in ExecJobs)
      BY <1>0, <2>1, Zenon
    <2>8. run'[j] = "starting" \/ (j \in ExecJobs /\ run'[j] = "live")
      BY <1>0, <2>2
    <2>3. status'[j] = "running" /\ ~notified'[j] /\ (hook'[j] <=> j \in ExecJobs)
          /\ (run'[j] = "starting" \/ (j \in ExecJobs /\ run'[j] = "live"))
      BY <2>6, <2>7, <2>8
    <2>4. JobShape(j)'
      BY <2>3 DEF JobShape, Live
    <2> QED
      BY <1>0, <1>o, <2>1, <2>2, <2>4
  <1>2. ASSUME NEW i \in Instances, LaunchUnderStop(i, j) PROVE \A k \in Jobs : JobShape(k)'
    <2>1. /\ status' = [status EXCEPT ![j] = "stopped"] /\ notified' = [notified EXCEPT ![j] = TRUE]
          /\ run' = [run EXCEPT ![j] = "over"] /\ UNCHANGED <<hook, outcome, killed>>
      BY <1>2 DEF LaunchUnderStop, RegisterStopped
    <2>2. status'[j] = "stopped" /\ run'[j] = "over"
      BY <1>0, <2>1
    <2>3. JobShape(j)'
      BY <2>2 DEF JobShape, Live
    <2> QED
      BY <1>0, <1>o, <2>1, <2>3
  <1>3. CASE Start(j)
    <2>1. /\ run[j] = "starting" /\ run' = [run EXCEPT ![j] = "live"] /\ hook' = [hook EXCEPT ![j] = TRUE]
          /\ UNCHANGED <<status, notified, outcome>>
      BY <1>3 DEF Start
    <2>2. killed \subseteq killed' /\ (j \in ExecJobs /\ status[j] = "stopped" => j \in killed')
      BY <1>3 DEF Start
    <2>3. run'[j] = "live" /\ hook'[j] /\ status'[j] = status[j]
          /\ (status[j] = "running" \/ (status[j] = "stopped" /\ j \in ExecJobs))
          /\ (status[j] = "running" => ~notified'[j])
      BY <1>0, <2>1 DEF JobShape
    <2>4. JobShape(j)'
      BY <2>2, <2>3 DEF JobShape, Live
    <2> QED
      BY <1>0, <1>o, <2>1, <2>2, <2>4
  <1>4. CASE Exit(j)
    <2>1. /\ run[j] \in {"starting", "live"} /\ run' = [run EXCEPT ![j] = "flushing"]
          /\ UNCHANGED <<status, notified, hook, killed>>
      BY <1>4 DEF Exit, registryVars
    <2>2. PICK end \in {"completed", "failed"} :
             outcome' = [outcome EXCEPT ![j] =
                            IF j \in ExecJobs /\ end = "completed" /\ status[j] = "stopped"
                            THEN "stopped" ELSE end]
      BY <1>4 DEF Exit
    <2>3. outcome'[j] \in {"completed", "failed", "stopped"}
      BY <1>0, <2>2
    <2>4. run'[j] = "flushing" /\ status'[j] = status[j] /\ notified'[j] = notified[j] /\ hook'[j] = hook[j]
          /\ status[j] # "absent" /\ (status[j] = "running" => ~notified[j] /\ (j \in ExecJobs => hook[j]))
      BY <1>0, <2>1 DEF JobShape
    <2>5. JobShape(j)'
      BY <2>3, <2>4 DEF JobShape, Live
    <2> QED
      BY <1>0, <1>o, <2>1, <2>2, <2>5
  <1>5. CASE Settle(j)
    <2>1. /\ run[j] = "flushing" /\ run' = [run EXCEPT ![j] = "over"]
          /\ status' = [status EXCEPT ![j] = SettledStatus(j)]
          /\ \A k \in Jobs \ {j} : notified'[k] = notified[k]
          /\ UNCHANGED <<hook, outcome, killed>>
      BY <1>0, <1>5 DEF Settle, SetStatusAndClaim
    <2>2. SettledStatus(j) \in {"completed", "failed", "stopped"}
      BY <1>0, <2>1 DEF JobShape, SettledStatus
    <2>3. run'[j] = "over" /\ status'[j] \in {"completed", "failed", "stopped"}
      BY <1>0, <2>1, <2>2
    <2>4. JobShape(j)'
      BY <2>3 DEF JobShape, Live
    <2> QED
      BY <1>0, <1>o, <2>1, <2>4
  <1>6. CASE JobStop(j)
    <2>1. StopJobs({j}, FALSE) /\ UNCHANGED <<run, outcome>> /\ j \in Stoppable(Jobs)
      BY <1>6 DEF JobStop
    <2>2. killed' = killed \cup {k \in Stoppable({j}) : run[k] = "live"}
      BY <1>6 DEF JobStop, Stoppable
    <2> QED
      BY <2>1, <2>2, ShapeStopped
  <1> QED
    BY <1>1, <1>2, <1>3, <1>4, <1>5, <1>6 DEF JobNext

\* JobInv is inductive.
LEMMA JobStep == JobInv /\ [Next]_vars => JobInv'
  <1> SUFFICES ASSUME JobInv, [Next]_vars
               PROVE  \A j \in Jobs : JobShape(j)'
    BY TypingStep DEF JobInv
  <1>f. ASSUME UNCHANGED <<status, notified, hook, run, outcome, killed>>
        PROVE  \A j \in Jobs : JobShape(j)'
    BY <1>f, ShapeFrame DEF JobInv
  <1>s. ASSUME NEW S \in SUBSET Jobs, StopSessionJobs(S), UNCHANGED <<run, outcome>>
        PROVE  \A j \in Jobs : JobShape(j)'
    BY <1>s, ShapeStopped DEF StopSessionJobs
  <1>r. registered \in [Turns -> SUBSET Jobs]
    BY DEF JobInv, TypeOK, MailboxTypeOK
  <1>1. ASSUME NEW t \in Turns, TurnNext(t), ~ModelFails(t)
        PROVE  \A j \in Jobs : JobShape(j)'
    <2>1. UNCHANGED <<status, notified, hook, run, outcome, killed>>
      BY <1>1
      DEF TurnNext, RestoreHandedAway, PromptCold, PromptRebuild, PromptRefused, PromptWarm, Created,
          ModelReturns, ModelAborted, NextResults, NextSteer, NextEnds, DeferredFinish, FinishFrame,
          registryVars, runnerVars
    <2> QED
      BY <1>f, <2>1
  <1>2. ASSUME NEW t \in Turns, ModelFails(t)
        PROVE  \A j \in Jobs : JobShape(j)'
    <2>1. StopSessionJobs(registered[t]) /\ UNCHANGED <<run, outcome>>
      BY <1>2 DEF ModelFails, FinishFrame
    <2> QED
      BY <1>r, <1>s, <2>1
  <1>3. ASSUME NEW j \in Jobs, JobNext(j)
        PROVE  \A k \in Jobs : JobShape(k)'
    BY <1>3, ShapeJob
  <1>4. ASSUME NEW i \in Instances, InstanceNext(i)
        PROVE  \A j \in Jobs : JobShape(j)'
    <2>1. CASE StopDrained(i)
      BY <1>s, <2>1 DEF StopDrained
    <2>2. CASE Handoff(i)
      <3>1. PICK S : S = UNION {registered[t] : t \in Turns \cap {Owner(resident)}}
        OBVIOUS
      <3>2. S \in SUBSET Jobs /\ StopSessionJobs(S) /\ UNCHANGED <<run, outcome>>
        BY <1>r, <2>2, <3>1 DEF Handoff
      <3> QED
        BY <1>s, <3>2
    <2>3. CASE ~StopDrained(i) /\ ~Handoff(i)
      <3>1. UNCHANGED <<status, notified, hook, run, outcome, killed>>
        BY <1>4, <2>3
        DEF InstanceNext, FlushUnderStop, FlushRearm, FlushDeliver, FlushNothing, SyntheticEnds,
            ReleaseTimerFires, ReleaseDone, registryVars, runnerVars
      <3> QED
        BY <1>f, <3>1
    <2> QED
      BY <2>1, <2>2, <2>3
  <1>5. ASSUME NEW u \in Turns \cup {NoTurn}, Stop(u)
        PROVE  \A j \in Jobs : JobShape(j)'
    BY <1>s, <1>5 DEF Stop
  <1>6. CASE \/ \E u \in Turns \cup {NoTurn} : StopEarly(u) \/ PendingAbortExpires(u)
             \/ Steer
             \/ Invalidate
             \/ UNCHANGED vars
    <2>1. UNCHANGED <<status, notified, hook, run, outcome, killed>>
      BY <1>6 DEF StopEarly, PendingAbortExpires, Steer, Invalidate, registryVars, runnerVars, vars
    <2> QED
      BY <1>f, <2>1
  <1> QED
    BY <1>1, <1>2, <1>3, <1>4, <1>5, <1>6 DEF Next

\* JobInv holds at first.
LEMMA JobStart == Init => JobInv
  BY TypingInit DEF Init, RegistryInit, JobInv, JobShape, Live

----------------------------------------------------------------------------
(* A Stop halts every job.                                                 *)

\* Under a Stop whatever is up has been told, and a command that still dials is
\* stopped already, so that its start will tell it.
Halted ==
  resident # None /\ aborted[resident] =>
    \A j \in Jobs : /\ run[j] = "live" => j \in killed
                    /\ run[j] = "starting" /\ j \in ExecJobs => status[j] = "stopped"

HaltInv == JobInv /\ Halted

\* A step that brings no job up, revives none and takes no kill back.
LEMMA HaltFrame ==
  ASSUME Halted, resident' \in {None, resident}, aborted' = aborted,
         \A j \in Jobs : /\ run'[j] = run[j] \/ run'[j] \notin {"live", "starting"}
                         /\ status'[j] = status[j] \/ status'[j] = "stopped"
                            \/ run'[j] \notin {"live", "starting"}
                         /\ j \in killed => j \in killed'
  PROVE  Halted'
  BY DEF Halted

\* The frame holds of a stop of jobs.
LEMMA HaltStopJobs ==
  ASSUME JobInv, NEW S, NEW quiet, StopJobs(S, quiet), run' = run, killed \subseteq killed'
  PROVE  \A j \in Jobs : /\ run'[j] = run[j] \/ run'[j] \notin {"live", "starting"}
                         /\ status'[j] = status[j] \/ status'[j] = "stopped"
                            \/ run'[j] \notin {"live", "starting"}
                         /\ j \in killed => j \in killed'
  BY DEF StopJobs, JobInv, TypeOK, RegistryTypeOK

\* A claim that does not fail resets the latch of the instance it takes.
LEMMA HaltClaim ==
  ASSUME TypeOK, ~SetupMayFail, NEW t, NEW i \in Instances, NEW rt, Claim(t, i, rt), resident' = i
  PROVE  Halted'
  <1>1. aborted' = [aborted EXCEPT ![i] = FALSE]
    BY DEF Claim
  <1>2. ~aborted'[i]
    BY <1>1 DEF TypeOK, SessionTypeOK
  <1> QED
    BY <1>2 DEF Halted

\* Halted is kept, unless the setup of a prompt may fail.
LEMMA HaltStep == ~SetupMayFail /\ HaltInv /\ [Next]_vars => Halted'
  <1> SUFFICES ASSUME ~SetupMayFail, HaltInv, [Next]_vars
               PROVE  Halted'
    OBVIOUS
  <1> USE DEF HaltInv
  <1>t. TypeOK /\ \A j \in Jobs : JobShape(j)
    BY DEF JobInv
  <1>0. resident # None => resident \in Instances
    BY <1>t, SessionAssumption DEF TypeOK, SessionTypeOK, None, Instances
  <1>f. ASSUME resident' \in {None, resident}, UNCHANGED <<aborted, run, status, killed>>
        PROVE  Halted'
    BY <1>f, HaltFrame
  <1>s. ASSUME UNCHANGED <<resident, aborted, run>>, NEW S, StopSessionJobs(S)
        PROVE  Halted'
    <2>1. StopJobs(S, TRUE) /\ killed \subseteq killed' /\ run' = run
      BY <1>s DEF StopSessionJobs
    <2> QED
      BY <1>s, <2>1, HaltStopJobs, HaltFrame
  <1>1. ASSUME NEW t \in Turns, TurnNext(t)
        PROVE  Halted'
    <2>1. CASE RestoreHandedAway(t) \/ PromptCold(t) \/ PromptRebuild(t) \/ PromptRefused(t)
               \/ ModelReturns(t) \/ ModelAborted(t) \/ NextResults(t) \/ NextSteer(t) \/ NextEnds(t)
               \/ DeferredFinish(t)
      <3>1. UNCHANGED <<aborted, run, status, killed>>
        BY <2>1
        DEF RestoreHandedAway, PromptCold, PromptRebuild, PromptRefused, ModelReturns, ModelAborted,
            NextResults, NextSteer, NextEnds, DeferredFinish, FinishFrame, registryVars, sessionVars,
            runnerVars
      <3>2. resident' \in {None, resident}
        BY <2>1
        DEF RestoreHandedAway, PromptCold, PromptRebuild, PromptRefused, ModelReturns, ModelAborted,
            NextResults, NextSteer, NextEnds, DeferredFinish, FinishFrame, sessionVars, BeginRelease,
            DropResident
      <3> QED
        BY <1>f, <3>1, <3>2
    <2>2. CASE PromptWarm(t)
      <3>1. PICK i \in Instances : i = resident
        BY <1>0, <2>2 DEF PromptWarm
      <3>2. \E rt : Claim(t, i, rt)
        BY <2>2, <3>1 DEF PromptWarm
      <3>3. resident' = i
        BY <2>2, <3>1 DEF PromptWarm
      <3> QED
        BY <1>t, <3>2, <3>3, HaltClaim
    <2>3. CASE Created(t)
      <3>1. PICK i \in Instances : i = created + 1
        BY <1>t, <2>3, SessionAssumption DEF Created, TypeOK, SessionTypeOK, Instances
      <3>2. Claim(t, i, releaseTimer) /\ resident' = i
        BY <2>3, <3>1 DEF Created
      <3> QED
        BY <1>t, <3>2, HaltClaim
    <2>4. CASE ModelFails(t)
      BY <1>s, <2>4 DEF ModelFails, FinishFrame
    <2> QED
      BY <1>1, <2>1, <2>2, <2>3, <2>4 DEF TurnNext
  <1>2. ASSUME NEW j \in Jobs, JobNext(j)
        PROVE  Halted'
    <2>0. /\ status \in [Jobs -> JobStatus]
          /\ run \in [Jobs -> {"absent", "starting", "live", "flushing", "over"}]
      BY <1>t DEF TypeOK, RegistryTypeOK, RunnerTypeOK
    <2>1. ASSUME NEW i \in Instances, Launch(i, j) PROVE Halted'
      BY <2>1 DEF Launch, UnderStop, Halted
    <2>2. ASSUME NEW i \in Instances, LaunchUnderStop(i, j) PROVE Halted'
      <3>1. /\ UNCHANGED <<resident, aborted, killed>>
            /\ run' = [run EXCEPT ![j] = "over"] /\ status' = [status EXCEPT ![j] = "stopped"]
        BY <2>2 DEF LaunchUnderStop, RegisterStopped, sessionVars
      <3> QED
        BY <2>0, <3>1, HaltFrame
    <2>3. CASE Start(j)
      <3>1. /\ UNCHANGED <<resident, aborted, status>> /\ killed \subseteq killed'
            /\ run[j] = "starting" /\ run' = [run EXCEPT ![j] = "live"]
        BY <2>3 DEF Start, sessionVars
      <3>2. ASSUME resident # None, aborted[resident] PROVE j \in killed'
        <4>1. CASE j \in ExecJobs
          <5>1. status[j] = "stopped"
            BY <3>1, <3>2, <4>1 DEF Halted
          <5> QED
            BY <2>3, <4>1, <5>1 DEF Start
        <4>2. CASE j \in SubJobs
          BY <2>3, <3>2, <4>2 DEF Start, UnderStop
        <4> QED
          BY <4>1, <4>2 DEF Jobs
      <3> QED
        BY <2>0, <3>1, <3>2 DEF Halted
    <2>4. CASE Exit(j)
      <3>1. UNCHANGED <<resident, aborted, status, killed>> /\ run' = [run EXCEPT ![j] = "flushing"]
        BY <2>4 DEF Exit, sessionVars, registryVars
      <3> QED
        BY <2>0, <3>1, HaltFrame
    <2>5. CASE Settle(j)
      <3>1. /\ UNCHANGED <<resident, aborted, killed>> /\ run' = [run EXCEPT ![j] = "over"]
            /\ \A k \in Jobs \ {j} : status'[k] = status[k]
        BY <2>0, <2>5 DEF Settle, SetStatusAndClaim
      <3> QED
        BY <2>0, <3>1, HaltFrame
    <2>6. CASE JobStop(j)
      <3>1. UNCHANGED <<resident, aborted, run>> /\ StopJobs({j}, FALSE) /\ killed \subseteq killed'
        BY <2>6 DEF JobStop, sessionVars
      <3> QED
        BY <3>1, HaltStopJobs, HaltFrame
    <2> QED
      BY <1>2, <2>1, <2>2, <2>3, <2>4, <2>5, <2>6 DEF JobNext
  <1>3. ASSUME NEW i \in Instances, InstanceNext(i)
        PROVE  Halted'
    <2>1. CASE StopDrained(i) \/ Handoff(i)
      BY <1>s, <2>1 DEF StopDrained, Handoff, sessionVars
    <2>2. CASE ~StopDrained(i) /\ ~Handoff(i)
      <3>1. UNCHANGED <<aborted, run, status, killed>>
        BY <1>3, <2>2
        DEF InstanceNext, FlushUnderStop, FlushRearm, FlushDeliver, FlushNothing, SyntheticEnds,
            ReleaseTimerFires, ReleaseDone, registryVars, runnerVars
      <3>2. resident' \in {None, resident}
        BY <1>3, <2>2
        DEF InstanceNext, FlushUnderStop, FlushRearm, FlushDeliver, FlushNothing, SyntheticEnds,
            ReleaseTimerFires, ReleaseDone, BeginRelease, DropResident
      <3> QED
        BY <1>f, <3>1, <3>2
    <2> QED
      BY <2>1, <2>2
  <1>4. ASSUME NEW u \in Turns \cup {NoTurn}, Stop(u)
        PROVE  Halted'
    <2>1. StopJobs(Jobs, TRUE) /\ run' = run /\ killed' = killed \cup {j \in Stoppable(Jobs) : run[j] = "live"}
      BY <1>4 DEF Stop, StopSessionJobs
    <2>2. ASSUME NEW j \in Jobs
          PROVE  /\ run[j] = "live" => j \in killed'
                 /\ run[j] = "starting" /\ j \in ExecJobs => status'[j] = "stopped"
      <3>1. JobShape(j)
        BY <1>t
      <3>2. CASE j \in Stoppable(Jobs)
        BY <2>1, <3>2 DEF StopJobs
      <3>3. CASE j \notin Stoppable(Jobs)
        <4>1. status[j] # "running" \/ ~hook[j]
          BY <3>3 DEF Stoppable
        <4>2. status'[j] = status[j]
          BY <2>1, <3>3 DEF StopJobs
        <4> QED
          BY <2>1, <3>1, <4>1, <4>2 DEF JobShape
      <3> QED
        BY <3>2, <3>3
    <2> QED
      BY <2>1, <2>2 DEF Halted
  <1>5. CASE \/ \E u \in Turns \cup {NoTurn} : StopEarly(u) \/ PendingAbortExpires(u)
             \/ Steer
             \/ Invalidate
             \/ UNCHANGED vars
    <2>1. UNCHANGED <<resident, aborted, run, status, killed>>
      BY <1>5 DEF StopEarly, PendingAbortExpires, Steer, Invalidate, registryVars, sessionVars,
                  runnerVars, vars
    <2> QED
      BY <1>f, <2>1
  <1> QED
    BY <1>1, <1>2, <1>3, <1>4, <1>5 DEF Next

\* Once a Stop is through and until the next prompt no job runs that has not been
\* told to stop, for every deployment whose prompt setup does not fail: a setup
\* that does leaves the latch of a Stop that came early, and stops no job.
THEOREM StopAlwaysHalts ==
  ASSUME ~SetupMayFail
  PROVE  Spec => []StopHaltsJobs
  <1>1. Init => HaltInv
    BY JobStart DEF Init, HaltInv, Halted
  <1>2. HaltInv /\ [Next]_vars => HaltInv'
    BY JobStep, HaltStep DEF HaltInv
  <1>3. HaltInv => StopHaltsJobs
    BY DEF HaltInv, Halted, StopHaltsJobs
  <1> QED
    BY <1>1, <1>2, <1>3, PTL DEF Spec

----------------------------------------------------------------------------
(* Behind the Runtime's turn lock.                                         *)

\* The prompt handler of t is under way.
Active(t) == pc[t] \notin {"new"} \cup Finished

\* No other prompt's is.
Alone(t) == \A u \in Turns \ {t} : ~Active(u)

\* A release waits for one prompt, which waits for it.
ReleasesAwaited ==
  /\ \A i \in Instances, w \in Turns : <<i, w>> \in releasing => pc[w] \in {"releasing", "restoring"}
  /\ \A i, k \in Instances, w \in Turns : <<i, w>> \in releasing /\ <<k, w>> \in releasing => i = k

\* One prompt at a time is under way; the one that runs is in the resident
\* instance, if there is one, with its own mailbox; and the mailboxes of all
\* others are closed.
OneAtATime ==
  /\ \A t, u \in Turns : Active(t) /\ Active(u) => t = u
  /\ \A t \in Turns : pc[t] \in Running => workTurn[on[t]] = t /\ resident \in {None, on[t]}
  /\ \A t \in Turns, i \in Instances : workTurn[i] = t /\ ~cancelled[t] => pc[t] \in Running
  /\ \A t \in Turns : registered[t] # {} /\ ~cancelled[t] => pc[t] \in Running

SerialInv == MutexInv /\ ReleasesAwaited /\ OneAtATime

\* The prompt that is under way, or that may arrive, is the only one.
LEMMA AloneWhenActive ==
  ASSUME SerialPrompts, OneAtATime, NEW t \in Turns, Active(t) \/ MayArrive(t) \/ Arrives(t)
  PROVE  Alone(t)
  BY DEF OneAtATime, Active, Alone, MayArrive, Arrives, Finished

\* A prompt that goes on, without claiming an instance.
LEMMA SerialMove ==
  ASSUME SerialInv, MutexInv', NEW t \in Turns, Alone(t), NEW x, NEW k,
         pc' = [pc EXCEPT ![t] = x], UNCHANGED <<on, workTurn, registered>>,
         resident' \in {None, resident}, \A u \in Turns : cancelled[u] => cancelled'[u],
         pc[t] \notin {"releasing", "restoring"}, x \in Running => pc[t] \in Running,
         pc[t] \in Running => x \in Running \/ cancelled'[t],
         \/ releasing' = releasing
         \/ x \in {"releasing", "restoring"} /\ releasing' = releasing \cup {<<k, t>>}
  PROVE  SerialInv'
  <1>0. pc'[t] = x /\ \A u \in Turns \ {t} : pc'[u] = pc[u] /\ ~Active(u)
    BY DEF SerialInv, MutexInv, TypeOK, HandlerTypeOK, Alone
  <1>1. \A u \in Turns \ {t} : pc[u] \notin Running /\ pc[u] \notin {"releasing", "restoring"}
    BY <1>0 DEF Active, Running, Finished
  <1>2. \A i \in Instances, w \in Turns : <<i, w>> \notin releasing
    <2>1. \A w \in Turns : pc[w] \notin {"releasing", "restoring"}
      BY <1>1
    <2> QED
      BY <2>1, Zenon DEF SerialInv, ReleasesAwaited
  <1>3. ReleasesAwaited'
    BY <1>0, <1>2 DEF ReleasesAwaited
  <1>4. OneAtATime'
    <2>1. \A u \in Turns : Active(u)' => u = t
      BY <1>0 DEF Active
    <2>2. \A u \in Turns : pc'[u] \in Running => pc[u] \in Running
      BY <1>0, <1>1
    <2>3. \A u \in Turns : pc[u] \in Running => pc'[u] \in Running \/ cancelled'[u]
      BY <1>0, <1>1
    <2> QED
      BY <2>1, <2>2, <2>3 DEF SerialInv, OneAtATime
  <1> QED
    BY <1>3, <1>4 DEF SerialInv

\* The claim of an instance.
LEMMA SerialClaim ==
  ASSUME SerialInv, MutexInv', NEW t \in Turns, Alone(t), NEW i \in Instances, NEW rt, Claim(t, i, rt),
         resident' = i, pc[t] \notin {"releasing", "restoring"}, pc[t] \notin Running,
         releasing' = releasing
  PROVE  SerialInv'
  <1>0. /\ pc \in [Turns -> {"new"} \cup Admitted \cup Running \cup Finished]
        /\ on \in [Turns -> 0..MaxInstances]
        /\ workTurn \in [Instances -> Turns \cup {NoTurn}]
        /\ cancelled \in [Turns -> BOOLEAN]
    BY DEF SerialInv, MutexInv, TypeOK, HandlerTypeOK, SessionTypeOK, MailboxTypeOK
  <1>1. PICK x \in {"done", "model"} : pc' = [pc EXCEPT ![t] = x]
    BY DEF Claim
  <1>2. pc'[t] = x /\ \A u \in Turns \ {t} : pc'[u] = pc[u] /\ ~Active(u)
    BY <1>0, <1>1 DEF Alone
  <1>3. \A u \in Turns \ {t} : pc[u] \notin Running /\ pc[u] \notin {"releasing", "restoring"}
    BY <1>2 DEF Active, Running, Finished
  <1>4. \A k \in Instances, w \in Turns : <<k, w>> \notin releasing
    <2>1. \A w \in Turns : pc[w] \notin {"releasing", "restoring"}
      BY <1>3
    <2> QED
      BY <2>1, Zenon DEF SerialInv, ReleasesAwaited
  <1>5. ReleasesAwaited'
    BY <1>4 DEF ReleasesAwaited
  <1>6. /\ \A u \in Turns : cancelled[u] => cancelled'[u]
        /\ registered' = registered
    BY <1>0 DEF Claim, CancelMailbox, mailboxVars
  <1>7. /\ \A u \in Turns, k \in Instances : workTurn[k] = u => cancelled[u]
        /\ \A u \in Turns : registered[u] # {} => cancelled[u]
    BY <1>3 DEF SerialInv, OneAtATime
  <1>8. \A u, v \in Turns : Active(u)' /\ Active(v)' => u = v
    BY <1>2 DEF Active
  <1>9. CASE x = "done"
    <2>1. \A u \in Turns : pc'[u] \notin Running
      BY <1>2, <1>3, <1>9 DEF Running
    <2>2. workTurn' = workTurn \/ (workTurn' = [workTurn EXCEPT ![i] = t] /\ cancelled'[t])
      BY <1>0, <1>1, <1>9 DEF Claim
    <2>3. \A u \in Turns, k \in Instances : workTurn'[k] = u => cancelled'[u]
      BY <1>0, <1>6, <1>7, <2>2
    <2> QED
      BY <1>5, <1>6, <1>7, <1>8, <2>1, <2>3 DEF SerialInv, OneAtATime
  <1>10. CASE x = "model"
    <2>1. workTurn' = [workTurn EXCEPT ![i] = t] /\ on' = [on EXCEPT ![t] = i]
      <3>1. pc'[t] # "done"
        BY <1>2, <1>10
      <3>2. pc' # [pc EXCEPT ![t] = "done"]
        BY <1>0, <3>1
      <3> QED
        BY <3>2 DEF Claim
    <2>2. workTurn'[i] = t /\ on'[t] = i
      BY <1>0, <2>1
    <2>3. \A u \in Turns \ {t} : pc'[u] \notin Running
      BY <1>2, <1>3
    <2>4. pc'[t] \in Running
      BY <1>2, <1>10 DEF Running
    <2>5. \A u \in Turns \ {t}, k \in Instances : workTurn'[k] = u => cancelled'[u]
      BY <1>0, <1>6, <1>7, <2>1
    <2> QED
      BY <1>5, <1>6, <1>7, <1>8, <2>2, <2>3, <2>4, <2>5 DEF SerialInv, OneAtATime
  <1> QED
    BY <1>9, <1>10

\* A step that moves no prompt, opens no mailbox and registers nothing.
LEMMA SerialFrame ==
  ASSUME SerialInv, MutexInv', UNCHANGED <<pc, on, workTurn>>, resident' \in {None, resident},
         \A u \in Turns : cancelled[u] => cancelled'[u],
         \A u \in Turns : registered'[u] = registered[u] \/ cancelled[u] \/ pc[u] \in Running,
         \A w \in Turns, i \in Instances : <<i, w>> \in releasing' => <<i, w>> \in releasing
  PROVE  SerialInv'
  <1>1. ReleasesAwaited'
    BY DEF SerialInv, ReleasesAwaited
  <1>2. OneAtATime'
    <2>1. \A u \in Turns : Active(u)' <=> Active(u)
      BY DEF Active
    <2> QED
      BY <2>1 DEF SerialInv, OneAtATime
  <1> QED
    BY <1>1, <1>2 DEF SerialInv

\* Behind the turn lock every step keeps the invariant of the turn lock.
LEMMA SerialStep == SerialPrompts /\ SerialInv /\ [Next]_vars => SerialInv'
  <1> SUFFICES ASSUME SerialPrompts, SerialInv, [Next]_vars
               PROVE  SerialInv'
    OBVIOUS
  <1>m. MutexInv /\ MutexInv'
    BY MutexStep DEF SerialInv
  <1>0. resident # None => resident \in Instances
    BY <1>m, SessionAssumption DEF MutexInv, TypeOK, SessionTypeOK, None, Instances
  <1>1. ASSUME NEW t \in Turns, TurnNext(t)
        PROVE  SerialInv'
    <2>a. Alone(t)
      <3>1. Active(t) \/ MayArrive(t) \/ Arrives(t)
        BY <1>1
        DEF TurnNext, RestoreHandedAway, PromptCold, PromptRebuild, PromptRefused, PromptWarm,
            Created, ModelReturns, ModelAborted, ModelFails, NextResults, NextSteer, NextEnds,
            DeferredFinish, Active, Finished
      <3> QED
        BY <3>1, AloneWhenActive DEF SerialInv
    <2>1. CASE RestoreHandedAway(t) \/ PromptCold(t) \/ PromptRebuild(t) \/ PromptRefused(t)
      <3>1. pc[t] \in {"new", "restored"}
        BY <2>1 DEF RestoreHandedAway, PromptCold, PromptRebuild, PromptRefused, Arrives, MayArrive
      <3>2. UNCHANGED <<on, workTurn, registered, cancelled>> /\ resident' \in {None, resident}
        BY <2>1
        DEF RestoreHandedAway, PromptCold, PromptRebuild, PromptRefused, BeginRelease, DropResident,
            mailboxVars, sessionVars
      <3>3. PICK x \in {"restored", "restoring", "creating", "releasing", "refused"} :
              /\ pc' = [pc EXCEPT ![t] = x]
              /\ \/ releasing' = releasing
                 \/ x \in {"releasing", "restoring"} /\ releasing' = releasing \cup {<<resident, t>>}
        <4>1. CASE RestoreHandedAway(t)
          BY <4>1 DEF RestoreHandedAway, BeginRelease
        <4>2. CASE PromptRebuild(t)
          BY <4>2 DEF PromptRebuild, BeginRelease
        <4>3. CASE PromptCold(t) \/ PromptRefused(t)
          BY <4>3 DEF PromptCold, PromptRefused
        <4> QED
          BY <2>1, <4>1, <4>2, <4>3
      <3>4. x \notin Running /\ pc[t] \notin Running /\ pc[t] \notin {"releasing", "restoring"}
        BY <3>1 DEF Running
      <3> QED
        BY <1>m, <2>a, <3>2, <3>3, <3>4, SerialMove
    <2>2. CASE PromptWarm(t)
      <3>1. /\ resident \in Instances /\ resident' = resident
            /\ Claim(t, resident, ClearTimer(releaseTimer, resident)) /\ releasing' = releasing
        BY <1>0, <2>2 DEF PromptWarm
      <3>2. pc[t] \notin {"releasing", "restoring"} /\ pc[t] \notin Running
        BY <2>2 DEF PromptWarm, Arrives, MayArrive, Running
      <3> QED
        BY <1>m, <2>a, <3>1, <3>2, SerialClaim
    <2>3. CASE Created(t)
      <3>1. /\ created + 1 \in Instances /\ resident' = created + 1
            /\ Claim(t, created + 1, releaseTimer) /\ releasing' = releasing
        BY <1>m, <2>3, SessionAssumption DEF Created, MutexInv, TypeOK, SessionTypeOK, Instances
      <3>2. pc[t] \notin {"releasing", "restoring"} /\ pc[t] \notin Running
        BY <2>3 DEF Created, Running
      <3> QED
        BY <1>m, <2>a, <3>1, <3>2, SerialClaim
    <2>4. CASE \/ ModelReturns(t) \/ ModelAborted(t) \/ ModelFails(t) \/ NextResults(t)
               \/ NextSteer(t) \/ NextEnds(t) \/ DeferredFinish(t)
      <3>1. pc[t] \in Running
        BY <2>4 DEF ModelReturns, ModelAborted, ModelFails, NextResults, NextSteer, NextEnds,
                    DeferredFinish, Running
      <3>2. UNCHANGED <<on, workTurn, registered, resident, releasing>>
        BY <2>4 DEF ModelReturns, ModelAborted, ModelFails, NextResults, NextSteer, NextEnds,
                    DeferredFinish, FinishFrame, OnPromptFinish, ActuallyFinish, CancelMailbox,
                    ConsumeBatch, TakeSteer, mailboxVars, sessionVars
      <3>3. \A u \in Turns : cancelled[u] => cancelled'[u]
        BY <1>m, <2>4 DEF ModelReturns, ModelAborted, ModelFails, NextResults, NextSteer, NextEnds,
                    DeferredFinish, OnPromptFinish, ActuallyFinish, CancelMailbox,
                    ConsumeBatch, TakeSteer, mailboxVars
      <3>4. PICK x \in {"model", "next", "deferred", "done"} :
              /\ pc' = [pc EXCEPT ![t] = x]
              /\ x = "done" => cancelled'[t]
        BY <2>4 DEF ModelReturns, ModelAborted, ModelFails, NextResults, NextSteer, NextEnds,
                    DeferredFinish, OnPromptFinish, ActuallyFinish, CancelMailbox
      <3>5. /\ pc[t] \notin {"releasing", "restoring"} /\ resident' \in {None, resident}
            /\ x \in Running \/ cancelled'[t]
        BY <3>1, <3>2, <3>4 DEF Running
      <3> QED
        BY <1>m, <2>a, <3>1, <3>2, <3>3, <3>4, <3>5, SerialMove
    <2> QED
      BY <1>1, <2>1, <2>2, <2>3, <2>4 DEF TurnNext
  <1>2. ASSUME NEW j \in Jobs, JobNext(j)
        PROVE  SerialInv'
    <2>1. UNCHANGED <<pc, on, workTurn, cancelled, resident, releasing>>
      BY <1>2
      DEF JobNext, Launch, LaunchUnderStop, Start, Exit, Settle, JobStop, handlerVars, sessionVars,
          mailboxVars
    <2>2. \A u \in Turns : registered'[u] = registered[u] \/ cancelled[u] \/ pc[u] \in Running
      <3>1. CASE UNCHANGED registered
        BY <3>1
      <3>2. CASE \E i \in Instances : ModelRunning(i) /\ registered' = RegisterIn(Owner(resident), j)
        <4>1. ASSUME NEW u \in Turns, u = Owner(resident), ~cancelled[u]
              PROVE  pc[u] \in Running
          <5>1. resident \in Instances /\ workTurn[resident] = u
            BY <1>0, <4>1, SessionAssumption DEF Owner
          <5> QED
            BY <4>1, <5>1 DEF SerialInv, OneAtATime
        <4> QED
          BY <3>2, <4>1 DEF RegisterIn
      <3> QED
        BY <1>2, <3>1, <3>2
        DEF JobNext, Launch, LaunchUnderStop, Start, Exit, Settle, JobStop, mailboxVars
    <2> QED
      BY <1>m, <2>1, <2>2, SerialFrame
  <1>3. ASSUME NEW i \in Instances, InstanceNext(i)
        PROVE  SerialInv'
    <2>1. CASE \A w \in Turns \cup {NoTurn} : ~ReleaseDone(i, w)
      <3>1. UNCHANGED <<pc, on, workTurn, registered>> /\ resident' \in {None, resident}
        BY <1>3, <2>1
        DEF InstanceNext, FlushUnderStop, FlushRearm, FlushDeliver, FlushNothing, SyntheticEnds,
            ReleaseTimerFires, StopDrained, Handoff, BeginRelease, DropResident, CancelMailbox,
            handlerVars, sessionVars, mailboxVars
      <3>2. \A u \in Turns : cancelled[u] => cancelled'[u]
        BY <1>m, <1>3, <2>1
        DEF InstanceNext, FlushUnderStop, FlushRearm, FlushDeliver, FlushNothing, SyntheticEnds,
            ReleaseTimerFires, StopDrained, Handoff, CancelMailbox, mailboxVars
      <3>3. \A w \in Turns, k \in Instances : <<k, w>> \in releasing' => <<k, w>> \in releasing
        BY <1>3, <2>1, SessionAssumption
        DEF InstanceNext, FlushUnderStop, FlushRearm, FlushDeliver, FlushNothing, SyntheticEnds,
            ReleaseTimerFires, StopDrained, Handoff, BeginRelease, handlerVars
      <3> QED
        BY <1>m, <3>1, <3>2, <3>3, SerialFrame
    <2>2. ASSUME NEW w \in Turns \cup {NoTurn}, ReleaseDone(i, w)
          PROVE  SerialInv'
      <3>1. /\ <<i, w>> \in releasing /\ releasing' = releasing \ {<<i, w>>}
            /\ UNCHANGED <<on, workTurn, registered, cancelled>> /\ resident' \in {None, resident}
            /\ \A u \in Turns : pc'[u] = IF u # w THEN pc[u]
                                       ELSE IF pc[u] = "restoring" THEN "restored" ELSE "creating"
        BY <2>2 DEF ReleaseDone, DropResident, mailboxVars
      <3>2. w \in Turns => pc[w] \in {"releasing", "restoring"} /\ pc'[w] \in {"restored", "creating"}
        BY <3>1 DEF SerialInv, ReleasesAwaited
      <3>3. ReleasesAwaited'
        <4>1. \A k \in Instances : <<k, w>> \in releasing' => w \notin Turns
          BY <3>1 DEF SerialInv, ReleasesAwaited
        <4> QED
          BY <3>1, <4>1 DEF SerialInv, ReleasesAwaited
      <3>4. OneAtATime'
        <4>1. \A u \in Turns : Active(u)' <=> Active(u)
          BY <3>1, <3>2 DEF Active, Finished
        <4>2. \A u \in Turns : pc'[u] \in Running <=> pc[u] \in Running
          BY <3>1, <3>2 DEF Running
        <4> QED
          BY <3>1, <4>1, <4>2 DEF SerialInv, OneAtATime
      <3> QED
        BY <1>m, <3>3, <3>4 DEF SerialInv
    <2> QED
      BY <2>1, <2>2
  <1>4. CASE \/ \E u \in Turns \cup {NoTurn} : Stop(u) \/ StopEarly(u) \/ PendingAbortExpires(u)
             \/ Steer
             \/ Invalidate
             \/ UNCHANGED vars
    <2>1. UNCHANGED <<pc, on, workTurn, registered, resident, releasing>>
      BY <1>4
      DEF Stop, StopEarly, PendingAbortExpires, Steer, Invalidate, CancelMailbox, QueueSteer,
          mailboxVars, sessionVars, handlerVars, vars
    <2>2. \A u \in Turns : cancelled[u] => cancelled'[u]
      BY <1>m, <1>4
      DEF Stop, StopEarly, PendingAbortExpires, Steer, Invalidate, CancelMailbox, QueueSteer,
          mailboxVars, vars
    <2> QED
      BY <1>m, <2>1, <2>2, SerialFrame
  <1> QED
    BY <1>1, <1>2, <1>3, <1>4 DEF Next

\* Nothing is under way at the start.
LEMMA SerialStart == Init => SerialInv
  <1> SUFFICES ASSUME Init PROVE SerialInv
    OBVIOUS
  <1> USE DEF Init
  <1>1. \A t \in Turns : pc[t] \notin Running /\ ~Active(t)
    BY DEF Running, Active
  <1>2. MutexInv
    BY <1>1, TypingInit, SessionAssumption DEF MutexInv, PromptMutex, Instances, None
  <1>3. ReleasesAwaited
    BY DEF ReleasesAwaited
  <1>4. OneAtATime
    <2>1. \A t \in Turns : registered[t] = {}
      BY DEF MailboxInit
    <2>2. \A t \in Turns, i \in Instances : workTurn[i] # t
      BY SessionAssumption
    <2> QED
      BY <1>1, <2>1, <2>2 DEF OneAtATime
  <1> QED
    BY <1>2, <1>3, <1>4 DEF SerialInv

----------------------------------------------------------------------------
(* What a Stop silences.                                                   *)

\* The completion of j cannot reach the model: no buffer holds it or will, and
\* every mailbox that knows the job is closed.
Silenced(j) ==
  /\ status[j] # "absent"
  /\ suppressed[j]
  /\ \A i \in Instances : j \notin pending[i]
  /\ \A t \in Turns : j \in registered[t] => cancelled[t]

\* The inductive form of StopSilencesJobs for background commands, on top of the
\* turn lock, the life of a job and the places of its notice.
SilentInv ==
  /\ \A t \in Turns : ready[t] \subseteq registered[t]
  /\ \A j \in underStop \cap ExecJobs : Silenced(j)

StopInv == SerialInv /\ JobInv /\ NoticeInv /\ SilentInv

\* A step that opens no way to the model for a silenced command.
LEMMA SilentFrame ==
  ASSUME SilentInv, underStop' = underStop,
         \A t \in Turns : ready'[t] \subseteq registered'[t],
         \A t \in Turns : cancelled[t] => cancelled'[t],
         \A j \in underStop \cap ExecJobs :
            Silenced(j) => /\ status'[j] # "absent" /\ suppressed'[j]
                           /\ \A i \in Instances : j \notin pending'[i]
                           /\ \A t \in Turns : j \in registered'[t] => j \in registered[t]
  PROVE  SilentInv'
  BY DEF SilentInv, Silenced

\* A stop of any jobs keeps what is silent silent.
LEMMA StopKeepsSilence ==
  ASSUME TypeOK, NEW S, NEW quiet, StopJobs(S, quiet), NEW j \in Jobs, status[j] # "absent", suppressed[j]
  PROVE  status'[j] # "absent" /\ suppressed'[j]
  BY DEF StopJobs, TypeOK, RegistryTypeOK

\* Every step keeps what a Stop has silenced silent.
LEMMA SilentStep == StopInv /\ [Next]_vars => SilentInv'
  <1> SUFFICES ASSUME StopInv, [Next]_vars
               PROVE  SilentInv'
    OBVIOUS
  <1>i. TypeOK /\ SilentInv /\ OneAtATime /\ NoticeInv /\ \A j \in Jobs : JobShape(j)
    BY DEF StopInv, JobInv, SerialInv
  <1>0. resident # None => resident \in Instances
    BY <1>i, SessionAssumption DEF TypeOK, SessionTypeOK, None, Instances
  <1>m. /\ cancelled \in [Turns -> BOOLEAN] /\ registered \in [Turns -> SUBSET Jobs]
        /\ pending \in [Instances -> SUBSET Jobs] /\ suppressed \in [Jobs -> BOOLEAN]
        /\ underStop \subseteq Jobs
    BY <1>i DEF TypeOK, MailboxTypeOK, SessionTypeOK, RegistryTypeOK, HistoryTypeOK
  \* A step that leaves registrations, readiness and the history of stops alone.
  <1>f. ASSUME UNCHANGED <<underStop, ready, registered>>,
               \A t \in Turns : cancelled[t] => cancelled'[t],
               \A i \in Instances : pending'[i] \subseteq pending[i],
               \/ UNCHANGED <<status, suppressed>>
               \/ \E S, quiet : StopJobs(S, quiet)
        PROVE  SilentInv'
    <2>1. \A j \in underStop \cap ExecJobs : Silenced(j) => status'[j] # "absent" /\ suppressed'[j]
      BY <1>f, <1>i, <1>m, StopKeepsSilence DEF Silenced
    <2>2. \A t \in Turns : ready'[t] \subseteq registered'[t]
      BY <1>f, <1>i DEF SilentInv
    <2> QED
      BY <1>f, <1>i, <2>1, <2>2, SilentFrame DEF Silenced
  <1>d. ASSUME NEW r \in Instances, NEW w, BeginRelease(r, w) \/ DropResident(r)
        PROVE  \A i \in Instances : pending'[i] \subseteq pending[i]
    BY <1>d, <1>i, DropShrinks
  <1>1. ASSUME NEW t \in Turns, TurnNext(t)
        PROVE  SilentInv'
    <2>1. UNCHANGED <<underStop, ready, registered>>
      BY <1>1
      DEF TurnNext, RestoreHandedAway, PromptCold, PromptRebuild, PromptRefused, PromptWarm,
          Created, ModelReturns, ModelAborted, ModelFails, NextResults, NextSteer, NextEnds,
          DeferredFinish, Claim, OnPromptFinish, ActuallyFinish, FinishFrame, CancelMailbox,
          ConsumeBatch, TakeSteer, mailboxVars, historyVars
    <2>2. \A u \in Turns : cancelled[u] => cancelled'[u]
      BY <1>1, <1>m
      DEF TurnNext, RestoreHandedAway, PromptCold, PromptRebuild, PromptRefused, PromptWarm,
          Created, ModelReturns, ModelAborted, ModelFails, NextResults, NextSteer, NextEnds,
          DeferredFinish, Claim, OnPromptFinish, ActuallyFinish, CancelMailbox,
          ConsumeBatch, TakeSteer, mailboxVars
    <2>3. \A i \in Instances : pending'[i] \subseteq pending[i]
      <3>1. CASE UNCHANGED pending
        BY <3>1
      <3>2. CASE resident # None /\ BeginRelease(resident, t)
        <4> DEFINE r == resident
        <4>1. r \in Instances /\ BeginRelease(r, t)
          BY <1>0, <3>2
        <4> HIDE DEF r
        <4> QED
          BY <4>1, <1>d
      <3> QED
        BY <1>1, <3>1, <3>2
        DEF TurnNext, RestoreHandedAway, PromptCold, PromptRebuild, PromptRefused, PromptWarm,
            Created, ModelReturns, ModelAborted, ModelFails, NextResults, NextSteer, NextEnds,
            DeferredFinish, FinishFrame, sessionVars
    <2>4. \/ UNCHANGED <<status, suppressed>>
          \/ \E S, quiet : StopJobs(S, quiet)
      BY <1>1
      DEF TurnNext, RestoreHandedAway, PromptCold, PromptRebuild, PromptRefused, PromptWarm,
          Created, ModelReturns, ModelAborted, ModelFails, NextResults, NextSteer, NextEnds,
          DeferredFinish, StopSessionJobs, registryVars
    <2> QED
      BY <1>f, <2>1, <2>2, <2>3, <2>4
  <1>2. ASSUME NEW j \in Jobs, JobNext(j)
        PROVE  SilentInv'
    <2>c. underStop' = underStop /\ cancelled' = cancelled
      BY <1>2 DEF JobNext, Launch, LaunchUnderStop, Start, Exit, Settle, JobStop, historyVars, mailboxVars
    <2>1. ASSUME NEW i \in Instances, Launch(i, j) \/ LaunchUnderStop(i, j)
          PROVE  SilentInv'
      <3>1. /\ status[j] = "absent" /\ ready' = ready /\ pending' = pending
            /\ registered' = registered \/ registered' = RegisterIn(Owner(resident), j)
            /\ RegisterRunning(j) \/ RegisterStopped(j)
        BY <2>1 DEF Launch, LaunchUnderStop, sessionVars
      <3>2. j \notin underStop \cap ExecJobs
        BY <1>i, <3>1 DEF SilentInv, Silenced
      <3>3. \A u \in Turns : registered[u] \subseteq registered'[u] /\ registered'[u] \subseteq registered[u] \cup {j}
        BY <3>1 DEF RegisterIn
      <3>4. \A k \in Jobs \ {j} : status'[k] = status[k] /\ suppressed'[k] = suppressed[k]
        BY <1>i, <3>1 DEF RegisterRunning, RegisterStopped, TypeOK, RegistryTypeOK
      <3>5. \A u \in Turns : ready'[u] \subseteq registered'[u]
        BY <1>i, <3>1, <3>3 DEF SilentInv
      <3>6. \A k \in underStop \cap ExecJobs : k \in Jobs \ {j}
        BY <1>m, <3>2
      <3>7. \A k \in underStop \cap ExecJobs :
              Silenced(k) => /\ status'[k] # "absent" /\ suppressed'[k]
                             /\ \A l \in Instances : k \notin pending'[l]
                             /\ \A u \in Turns : k \in registered'[u] => k \in registered[u]
        BY <3>1, <3>3, <3>4, <3>6 DEF Silenced
      <3> QED
        BY <1>i, <2>c, <3>5, <3>7, SilentFrame
    <2>2. CASE Start(j) \/ Exit(j)
      <3>1. UNCHANGED <<ready, registered, pending, status, suppressed>>
        BY <2>2 DEF Start, Exit, mailboxVars, sessionVars, registryVars
      <3> QED
        BY <1>f, <2>c, <3>1
    <2>3. CASE Settle(j)
      <3>1. /\ registered' = registered /\ suppressed' = suppressed
            /\ \A k \in Jobs \ {j} : status'[k] = status[k]
            /\ status'[j] = SettledStatus(j)
        BY <1>i, <2>3 DEF Settle, SetStatusAndClaim, TypeOK, RegistryTypeOK
      <3>2. SettledStatus(j) # "absent"
        BY <1>i, <2>3 DEF Settle, SettledStatus, JobShape
      <3>3. \A i \in Instances, k \in Jobs : k \in pending'[i] => k \in pending[i] \/ ~suppressed[k]
        BY <2>3 DEF Settle, NotifyParent
      <3>4. \A u \in Turns : ready'[u] \subseteq registered'[u]
        BY <1>i, <2>3, <3>1 DEF Settle, NotifyParent, CompleteIn, SilentInv
      <3>5. \A k \in underStop \cap ExecJobs :
              Silenced(k) => /\ status'[k] # "absent" /\ suppressed'[k]
                             /\ \A l \in Instances : k \notin pending'[l]
                             /\ \A u \in Turns : k \in registered'[u] => k \in registered[u]
        BY <1>m, <3>1, <3>2, <3>3 DEF Silenced
      <3> QED
        BY <1>i, <2>c, <3>4, <3>5, SilentFrame
    <2>4. CASE JobStop(j)
      <3>1. UNCHANGED <<ready, registered, pending>> /\ StopJobs({j}, FALSE)
        BY <2>4 DEF JobStop, mailboxVars, sessionVars
      <3> QED
        BY <1>f, <2>c, <3>1
    <2> QED
      BY <1>2, <2>1, <2>2, <2>3, <2>4 DEF JobNext
  <1>3. ASSUME NEW i \in Instances, InstanceNext(i)
        PROVE  SilentInv'
    <2>1. UNCHANGED <<underStop, ready, registered>>
      BY <1>3
      DEF InstanceNext, FlushUnderStop, FlushRearm, FlushDeliver, FlushNothing, SyntheticEnds,
          ReleaseTimerFires, ReleaseDone, StopDrained, Handoff, CancelMailbox, mailboxVars, historyVars
    <2>2. \A u \in Turns : cancelled[u] => cancelled'[u]
      BY <1>3, <1>m
      DEF InstanceNext, FlushUnderStop, FlushRearm, FlushDeliver, FlushNothing, SyntheticEnds,
          ReleaseTimerFires, ReleaseDone, StopDrained, Handoff, CancelMailbox, mailboxVars
    <2>3. \A k \in Instances : pending'[k] \subseteq pending[k]
      <3>1. CASE UNCHANGED pending \/ pending' = [pending EXCEPT ![resident] = {}]
        BY <1>m, <3>1
      <3>2. CASE \E r \in Instances, w \in Turns \cup {NoTurn} : BeginRelease(r, w) \/ DropResident(r)
        BY <3>2, <1>d
      <3>3. CASE ReleaseTimerFires(i)
        BY <1>0, <3>1, <3>2, <3>3 DEF ReleaseTimerFires
      <3> QED
        BY <1>3, <3>1, <3>2, <3>3
        DEF InstanceNext, FlushUnderStop, FlushRearm, FlushDeliver, FlushNothing, SyntheticEnds,
            ReleaseDone, StopDrained, Handoff, sessionVars
    <2>4. \/ UNCHANGED <<status, suppressed>>
          \/ \E S, quiet : StopJobs(S, quiet)
      BY <1>3
      DEF InstanceNext, FlushUnderStop, FlushRearm, FlushDeliver, FlushNothing, SyntheticEnds,
          ReleaseTimerFires, ReleaseDone, StopDrained, Handoff, StopSessionJobs, registryVars
    <2> QED
      BY <1>f, <2>1, <2>2, <2>3, <2>4
  <1>4. ASSUME NEW u \in Turns \cup {NoTurn}, Stop(u)
        PROVE  SilentInv'
    <2>1. /\ StopJobs(Jobs, TRUE) /\ UNCHANGED <<ready, registered>>
          /\ resident \in Instances /\ pending' = [pending EXCEPT ![resident] = {}]
          /\ cancelled' = [t \in Turns |-> cancelled[t] \/ t = workTurn[resident]]
          /\ underStop' = underStop \cup {j \in Jobs : status[j] = "running"}
      BY <1>0, <1>4 DEF Stop, StopSessionJobs, CancelMailbox
    <2>2. /\ \A i \in Instances : pending'[i] \subseteq pending[i]
          /\ \A t \in Turns : cancelled[t] => cancelled'[t]
      BY <1>m, <2>1
    <2>3. ASSUME NEW j \in ExecJobs, j \in Jobs, j \in underStop'
          PROVE  Silenced(j)'
      <3>1. CASE j \in underStop
        <4>1. Silenced(j)
          BY <1>i, <2>3, <3>1 DEF SilentInv
        <4>2. status'[j] # "absent" /\ suppressed'[j]
          BY <1>i, <2>1, <2>3, <4>1, StopKeepsSilence DEF Silenced
        <4> QED
          BY <2>1, <2>2, <4>1, <4>2 DEF Silenced
      <3>2. CASE j \notin underStop
        <4>1. status[j] = "running"
          BY <2>1, <2>3, <3>2
        <4>2. hook[j] /\ ~notified[j]
          BY <1>i, <2>3, <4>1 DEF JobShape
        <4>3. status'[j] = "stopped" /\ suppressed'[j]
          BY <2>1, <2>3, <4>1, <4>2 DEF StopJobs, Stoppable
        <4>4. \A i \in Instances : j \notin pending[i]
          BY <1>i, <2>3, <4>2 DEF NoticeInv, Buffered
        <4>5. ASSUME NEW t \in Turns, j \in registered[t]
              PROVE  cancelled'[t]
          <5>1. CASE cancelled[t]
            BY <2>2, <5>1
          <5>2. CASE ~cancelled[t]
            <6>1. pc[t] \in Running
              BY <1>i, <4>5, <5>2 DEF OneAtATime
            <6>2. workTurn[resident] = t
              BY <1>i, <2>1, <6>1, SessionAssumption DEF OneAtATime, Instances, None
            <6> QED
              BY <2>1, <6>2
          <5> QED
            BY <5>1, <5>2
        <4> QED
          BY <2>1, <2>2, <4>3, <4>4, <4>5 DEF Silenced
      <3> QED
        BY <3>1, <3>2
    <2> QED
      BY <1>i, <2>1, <2>3 DEF SilentInv, Jobs
  <1>5. CASE \/ \E u \in Turns \cup {NoTurn} : StopEarly(u) \/ PendingAbortExpires(u)
             \/ Steer
             \/ Invalidate
             \/ UNCHANGED vars
    <2>1. UNCHANGED <<underStop, ready, registered, cancelled, pending, status, suppressed>>
      BY <1>5
      DEF StopEarly, PendingAbortExpires, Steer, Invalidate, QueueSteer, mailboxVars, registryVars,
          sessionVars, historyVars, vars
    <2> QED
      BY <1>f, <2>1
  <1> QED
    BY <1>1, <1>2, <1>3, <1>4, <1>5 DEF Next

\* No step tells the model of a command that a Stop has silenced.
LEMMA SilencedIsNotTold ==
  StopInv /\ [Next]_vars => \A j \in underStop \cap ExecJobs : tellings'[j] = tellings[j]
  <1> SUFFICES ASSUME StopInv, [Next]_vars, NEW j \in underStop \cap ExecJobs
               PROVE  tellings'[j] = tellings[j]
    OBVIOUS
  <1>1. Silenced(j) /\ j \in Jobs /\ TypeOK /\ SilentInv
    BY DEF StopInv, SilentInv, JobInv, Jobs
  <1>2. ASSUME NEW S, Tell(S), j \notin S
        PROVE  tellings'[j] = tellings[j]
    BY <1>1, <1>2 DEF Tell
  <1>3. ASSUME NEW t \in Turns, TurnNext(t)
        PROVE  tellings'[j] = tellings[j]
    <2>1. CASE NextResults(t)
      <3>1. ~cancelled[t]
        BY <2>1 DEF NextResults, ConsumeBatch
      <3>2. j \notin Batch(t)
        BY <1>1, <3>1 DEF Silenced, Batch, SilentInv
      <3> QED
        BY <1>2, <2>1, <3>2 DEF NextResults
    <2>2. CASE ~NextResults(t)
      BY <1>3, <2>2
      DEF TurnNext, RestoreHandedAway, PromptCold, PromptRebuild, PromptRefused, PromptWarm,
          Created, ModelReturns, ModelAborted, ModelFails, NextSteer, NextEnds,
          DeferredFinish, FinishFrame, historyVars
    <2> QED
      BY <2>1, <2>2
  <1>4. ASSUME NEW k \in Jobs, JobNext(k)
        PROVE  tellings'[j] = tellings[j]
    BY <1>4 DEF JobNext, Launch, LaunchUnderStop, Start, Exit, Settle, JobStop, noticeVars, historyVars
  <1>5. ASSUME NEW i \in Instances, InstanceNext(i)
        PROVE  tellings'[j] = tellings[j]
    <2>1. CASE FlushDeliver(i)
      <3>1. resident \in Instances /\ Tell(pending[resident])
        BY <1>1, <2>1, SessionAssumption DEF FlushDeliver, TypeOK, SessionTypeOK, Instances, None
      <3> QED
        BY <1>1, <1>2, <3>1 DEF Silenced
    <2>2. CASE ~FlushDeliver(i)
      BY <1>5, <2>2
      DEF InstanceNext, FlushUnderStop, FlushRearm, FlushNothing, SyntheticEnds,
          ReleaseTimerFires, ReleaseDone, StopDrained, Handoff, historyVars
    <2> QED
      BY <2>1, <2>2
  <1>6. CASE \/ \E u \in Turns \cup {NoTurn} : Stop(u) \/ StopEarly(u) \/ PendingAbortExpires(u)
             \/ Steer
             \/ Invalidate
             \/ UNCHANGED vars
    BY <1>6 DEF Stop, StopEarly, PendingAbortExpires, Steer, Invalidate, historyVars, vars
  <1> QED
    BY <1>3, <1>4, <1>5, <1>6 DEF Next

\* A user Stop behind the turn lock is terminal for the background commands it
\* met, whatever else the session runs.
THEOREM StopSilencesCommands ==
  ASSUME SerialPrompts
  PROVE  Spec => [][\A j \in underStop \cap ExecJobs : tellings'[j] = tellings[j]]_vars
  <1>1. Init => StopInv
    <2>1. Init => SilentInv /\ NoticeInv
      BY TypingInit
      DEF Init, SilentInv, NoticeInv, NoticeAtMostOnce, Buffered, Mailed, Batch, MailboxInit
    <2> QED
      BY <2>1, SerialStart, JobStart DEF StopInv
  <1>2. StopInv /\ [Next]_vars => StopInv'
    BY SerialStep, JobStep, NoticeStep, SilentStep DEF StopInv
  <1> QED
    BY <1>1, <1>2, SilencedIsNotTold, PTL DEF Spec

\* So where sub-agents run in the foreground a Stop is terminal for every job.  A
\* detached child in the queue for its slots has no kill hook, and is missed.
THEOREM StopSilencesAll ==
  ASSUME SerialPrompts, SubJobs = {}
  PROVE  Spec => StopSilencesJobs
  <1>1. TypeOK => underStop \cap ExecJobs = underStop
    BY DEF TypeOK, HistoryTypeOK, Jobs
  <1>2. TypeOK /\ [\A j \in underStop \cap ExecJobs : tellings'[j] = tellings[j]]_vars
          => [\A j \in underStop : tellings'[j] = tellings[j]]_vars
    BY <1>1
  <1> QED
    BY <1>2, Typing, StopSilencesCommands, PTL DEF StopSilencesJobs

----------------------------------------------------------------------------
(* One brain per session.                                                  *)

\* A release timer that is armed is that of the resident, idle instance.
TimersResident == \A i \in Instances : releaseTimer[i] => resident = i /\ busy[i] = "idle"

\* While a prompt makes the session there is none.
NoneWhileCreating == \A t \in Turns : pc[t] \in {"restored", "creating"} => resident = None

\* The inductive form of OneBrainPerSession, where a release awaits nothing.
Brain == OneBrainPerSession /\ TimersResident /\ NoneWhileCreating /\ releasing = {}
BrainInv == SerialInv /\ Brain

\* A release is scheduled for the instance in the map only, and only if no work
\* and no notice defers it.
LEMMA ScheduleSound ==
  ASSUME NEW r, NEW rt, NEW wc, NEW pn, NEW ct, NEW i \in Instances
  PROVE  ScheduleRelease(r, rt, wc, pn, ct)[i] => rt[i] \/ (i = r /\ wc[i] = 0 /\ pn[i] = {} /\ ~ct[i])
  BY DEF ScheduleRelease, NotificationWork

\* A step that leaves the map and the mutexes alone.
LEMMA BrainFrame ==
  ASSUME Brain, UNCHANGED <<resident, busy, releasing>>,
         \A i \in Instances : releaseTimer'[i] => releaseTimer[i] \/ (i = resident /\ busy[i] = "idle"),
         \A t \in Turns : pc'[t] \in {"restored", "creating"} => pc[t] \in {"restored", "creating"} \/ resident = None
  PROVE  Brain'
  BY DEF Brain, OneBrainPerSession, TimersResident, NoneWhileCreating

\* The session leaves memory, and nothing of it runs.
LEMMA BrainReleased ==
  ASSUME Brain, resident # None => busy[resident] = "idle", resident' = None, UNCHANGED <<busy, releasing>>,
         \A i \in Instances : releaseTimer'[i] => releaseTimer[i] /\ i # resident
  PROVE  Brain'
  BY DEF Brain, OneBrainPerSession, TimersResident, NoneWhileCreating

\* The claim of the instance in the map, or of the one that takes its place when
\* it is empty.
LEMMA BrainClaim ==
  ASSUME BrainInv, NEW t \in Turns, Alone(t), NEW i \in Instances, NEW rt, Claim(t, i, rt),
         resident = i \/ resident = None, resident' = i, busy[i] = "idle", releasing' = releasing,
         \A k \in Instances : rt[k] => releaseTimer[k] /\ k # i
  PROVE  Brain'
  <1>t. /\ busy \in [Instances -> {"idle", "http", "synth"}]
        /\ pc \in [Turns -> {"new"} \cup Admitted \cup Running \cup Finished]
    BY DEF BrainInv, SerialInv, MutexInv, TypeOK, SessionTypeOK, HandlerTypeOK
  <1>1. \A k \in Instances : ~rt[k]
    BY SessionAssumption DEF BrainInv, Brain, TimersResident, Instances, None
  <1>2. \A k \in Instances : busy[k] = "idle"
    BY SessionAssumption DEF BrainInv, Brain, OneBrainPerSession, Instances, None
  <1>3. NoneWhileCreating'
    <2>1. PICK x \in {"done", "model"} : pc' = [pc EXCEPT ![t] = x]
      BY DEF Claim
    <2>2. \A u \in Turns : pc'[u] \notin {"restored", "creating"}
      BY <1>t, <2>1 DEF Alone, Active, Finished
    <2> QED
      BY <2>2 DEF NoneWhileCreating
  <1>4. CASE busy' = busy /\ (releaseTimer' = rt \/ releaseTimer' = ScheduleRelease(i, rt, workCount, pending, coalesceTimer))
    <2>1. \A k \in Instances : releaseTimer'[k] => k = i
      BY <1>1, <1>4, ScheduleSound
    <2> QED
      BY <1>2, <1>3, <1>4, <2>1 DEF BrainInv, Brain, OneBrainPerSession, TimersResident
  <1>5. CASE busy' = [busy EXCEPT ![i] = "http"] /\ releaseTimer' = rt
    BY <1>t, <1>1, <1>2, <1>3, <1>5 DEF BrainInv, Brain, OneBrainPerSession, TimersResident
  <1> QED
    BY <1>4, <1>5 DEF Claim

\* The end of the prompt on instance i, of a turn or of notices.
LEMMA BrainFinish ==
  ASSUME BrainInv, NEW i \in Instances, busy[i] # "idle", busy' = [busy EXCEPT ![i] = "idle"],
         UNCHANGED <<resident, releasing>>,
         \/ releaseTimer' = releaseTimer
         \/ releaseTimer' = ScheduleRelease(resident, releaseTimer, workCount, pending, coalesceTimer),
         \A t \in Turns : pc'[t] \in {"restored", "creating"} => pc[t] \in {"restored", "creating"}
  PROVE  Brain'
  <1>1. resident = i
    BY DEF BrainInv, Brain, OneBrainPerSession
  <1>2. busy'[i] = "idle" /\ \A k \in Instances \ {i} : busy'[k] = busy[k]
    BY DEF BrainInv, SerialInv, MutexInv, TypeOK, SessionTypeOK
  <1>3. \A k \in Instances : releaseTimer'[k] => releaseTimer[k] \/ k = i
    BY <1>1, ScheduleSound
  <1> QED
    BY <1>1, <1>2, <1>3 DEF BrainInv, Brain, OneBrainPerSession, TimersResident, NoneWhileCreating

\* Every step keeps the map and the mutexes together.
LEMMA BrainStep == SerialPrompts /\ ~SlowTeardown /\ BrainInv /\ [Next]_vars => Brain'
  <1> SUFFICES ASSUME SerialPrompts, ~SlowTeardown, BrainInv, [Next]_vars
               PROVE  Brain'
    OBVIOUS
  <1>i. Brain /\ SerialInv /\ MutexInv /\ TypeOK
    BY DEF BrainInv, SerialInv, MutexInv
  <1>0. resident # None => resident \in Instances
    BY <1>i, SessionAssumption DEF TypeOK, SessionTypeOK, None, Instances
  <1>c. \A timer, r : \A i \in Instances : ClearTimer(timer, r)[i] => timer[i] /\ i # r
    BY DEF ClearTimer
  \* A step that schedules a release of an idle resident, or none.
  <1>s. ASSUME UNCHANGED <<pc, resident, busy, releasing>>,
               \/ \A i \in Instances : releaseTimer'[i] => releaseTimer[i]
               \/ /\ resident # None => PromptIdle(resident)
                  /\ \E wc, pn, ct : releaseTimer' = ScheduleRelease(resident, releaseTimer, wc, pn, ct)
        PROVE  Brain'
    <2>1. \A i \in Instances : releaseTimer'[i] => releaseTimer[i] \/ (i = resident /\ busy[i] = "idle")
      <3>1. CASE \A i \in Instances : releaseTimer'[i] => releaseTimer[i]
        BY <3>1
      <3>2. CASE /\ resident # None => PromptIdle(resident)
                 /\ \E wc, pn, ct : releaseTimer' = ScheduleRelease(resident, releaseTimer, wc, pn, ct)
        BY <3>2, ScheduleSound, SessionAssumption DEF PromptIdle, Instances, None
      <3> QED
        BY <1>s, <3>1, <3>2
    <2> QED
      BY <1>s, <1>i, <2>1, BrainFrame
  <1>1. ASSUME NEW t \in Turns, TurnNext(t)
        PROVE  Brain'
    <2>p. pc \in [Turns -> {"new"} \cup Admitted \cup Running \cup Finished]
      BY <1>i DEF TypeOK, HandlerTypeOK
    <2>1. CASE RestoreHandedAway(t) \/ PromptRebuild(t)
      <3>1. resident # None => busy[resident] = "idle"
        BY <2>1 DEF RestoreHandedAway, PromptRebuild, PromptIdle
      <3>2. resident' = None /\ UNCHANGED <<busy, releasing>>
        BY <2>1 DEF RestoreHandedAway, PromptRebuild, BeginRelease, DropResident
      <3>3. \A i \in Instances : releaseTimer'[i] => releaseTimer[i] /\ i # resident
        BY <1>c, <2>1, SessionAssumption DEF RestoreHandedAway, PromptRebuild, Instances, None
      <3> QED
        BY <1>i, <3>1, <3>2, <3>3, BrainReleased
    <2>2. CASE PromptCold(t) \/ PromptRefused(t) \/ ModelReturns(t) \/ NextResults(t) \/ NextSteer(t)
      <3>1. UNCHANGED <<resident, busy, releasing>>
        BY <2>2 DEF PromptCold, PromptRefused, ModelReturns, NextResults, NextSteer, FinishFrame, sessionVars
      <3>2. \A i \in Instances : releaseTimer'[i] => releaseTimer[i]
        BY <1>c, <2>2 DEF PromptCold, PromptRefused, ModelReturns, NextResults, NextSteer, sessionVars
      <3>3. PICK x \in {"creating", "refused", "model", "next"} :
              pc' = [pc EXCEPT ![t] = x] /\ (x = "creating" => resident = None)
        BY <2>2 DEF PromptCold, PromptRefused, ModelReturns, NextResults, NextSteer
      <3>4. \A u \in Turns : pc'[u] \in {"restored", "creating"} => pc[u] \in {"restored", "creating"} \/ resident = None
        BY <2>p, <3>3
      <3> QED
        BY <1>i, <3>1, <3>2, <3>4, BrainFrame
    <2>3. CASE PromptWarm(t)
      <3>1. Alone(t)
        BY <1>i, <2>3, AloneWhenActive DEF PromptWarm, SerialInv
      <3>2. /\ resident \in Instances /\ resident' = resident /\ busy[resident] = "idle"
            /\ Claim(t, resident, ClearTimer(releaseTimer, resident)) /\ releasing' = releasing
        BY <1>0, <2>3 DEF PromptWarm, PromptIdle
      <3> QED
        BY <1>c, <3>1, <3>2, BrainClaim
    <2>4. CASE Created(t)
      <3>1. Alone(t)
        BY <1>i, <2>4, AloneWhenActive DEF Created, Active, Finished, SerialInv
      <3>2. /\ created + 1 \in Instances /\ resident' = created + 1 /\ resident = None
            /\ Claim(t, created + 1, releaseTimer) /\ releasing' = releasing
        BY <1>i, <2>4, SessionAssumption
        DEF Created, TypeOK, SessionTypeOK, Instances, Brain, NoneWhileCreating
      <3>3. busy[created + 1] = "idle"
        BY <1>i, <3>2, SessionAssumption DEF MutexInv, TypeOK, SessionTypeOK
      <3>4. \A k \in Instances : ~releaseTimer[k]
        BY <1>i, <3>2, SessionAssumption DEF Brain, TimersResident, Instances, None
      <3> QED
        BY <3>1, <3>2, <3>3, <3>4, BrainClaim
    <2>5. CASE ModelAborted(t) \/ ModelFails(t) \/ NextEnds(t) \/ DeferredFinish(t)
      <3>1. UNCHANGED <<resident, releasing>> /\ pc[t] \in Running
        BY <2>5 DEF ModelAborted, ModelFails, NextEnds, DeferredFinish, FinishFrame, Running
      <3>2. on[t] \in Instances /\ busy[on[t]] = "http"
        BY <1>i, <3>1 DEF MutexInv, PromptMutex
      <3>3. CASE ActuallyFinish(t)
        <4>1. \A u \in Turns : pc'[u] \in {"restored", "creating"} => pc[u] \in {"restored", "creating"}
          BY <2>p, <3>3 DEF ActuallyFinish
        <4>2. /\ busy' = [busy EXCEPT ![on[t]] = "idle"]
              /\ releaseTimer' = ScheduleRelease(resident, releaseTimer, workCount, pending, coalesceTimer)
          BY <3>3 DEF ActuallyFinish
        <4> DEFINE i == on[t]
        <4>3. i \in Instances /\ busy[i] # "idle" /\ busy' = [busy EXCEPT ![i] = "idle"]
          BY <3>2, <4>2
        <4> HIDE DEF i
        <4> QED
          BY <3>1, <4>1, <4>2, <4>3, BrainFinish
      <3>4. CASE pc' = [pc EXCEPT ![t] = "deferred"] /\ UNCHANGED <<busy, releaseTimer>>
        <4>1. \A u \in Turns : pc'[u] \in {"restored", "creating"} => pc[u] \in {"restored", "creating"}
          BY <2>p, <3>4
        <4> QED
          BY <1>i, <3>1, <3>4, <4>1, BrainFrame
      <3> QED
        BY <2>5, <3>3, <3>4 DEF ModelAborted, ModelFails, NextEnds, DeferredFinish, OnPromptFinish
    <2> QED
      BY <1>1, <2>1, <2>2, <2>3, <2>4, <2>5 DEF TurnNext
  <1>2. ASSUME NEW j \in Jobs, JobNext(j)
        PROVE  Brain'
    <2>1. UNCHANGED <<pc, resident, busy, releasing>>
      BY <1>2 DEF JobNext, Launch, LaunchUnderStop, Start, Exit, Settle, JobStop, sessionVars, handlerVars
    <2>2. \/ \A i \in Instances : releaseTimer'[i] => releaseTimer[i]
          \/ /\ resident # None => PromptIdle(resident)
             /\ \E wc, pn, ct : releaseTimer' = ScheduleRelease(resident, releaseTimer, wc, pn, ct)
      <3>1. CASE \E i \in Instances : Launch(i, j)
        BY <1>c, <3>1 DEF Launch
      <3>2. CASE Settle(j)
        <4>1. CASE resident # None /\ PromptIdle(resident)
          <5>1. releaseTimer' = ScheduleRelease(resident, releaseTimer, workCount', pending', coalesceTimer')
            BY <3>2, <4>1 DEF Settle
          <5> QED
            BY <4>1, <5>1
        <4>2. CASE ~(resident # None /\ PromptIdle(resident))
          BY <3>2, <4>2 DEF Settle
        <4> QED
          BY <4>1, <4>2
      <3>3. CASE (\E i \in Instances : LaunchUnderStop(i, j)) \/ Start(j) \/ Exit(j) \/ JobStop(j)
        BY <3>3 DEF LaunchUnderStop, Start, Exit, JobStop, sessionVars
      <3> QED
        BY <1>2, <3>1, <3>2, <3>3 DEF JobNext
    <2> QED
      BY <1>s, <2>1, <2>2
  <1>3. ASSUME NEW i \in Instances, InstanceNext(i)
        PROVE  Brain'
    <2>1. CASE FlushUnderStop(i) \/ FlushRearm(i) \/ FlushNothing(i) \/ StopDrained(i) \/ Handoff(i)
      <3>1. UNCHANGED <<pc, resident, busy, releasing>>
        BY <2>1 DEF FlushUnderStop, FlushRearm, FlushNothing, StopDrained, Handoff, sessionVars, handlerVars
      <3>2. \/ \A k \in Instances : releaseTimer'[k] => releaseTimer[k]
            \/ /\ resident # None => PromptIdle(resident)
               /\ \E wc, pn, ct : releaseTimer' = ScheduleRelease(resident, releaseTimer, wc, pn, ct)
        BY <2>1 DEF FlushUnderStop, FlushRearm, FlushNothing, StopDrained, Handoff, sessionVars
      <3> QED
        BY <1>s, <3>1, <3>2
    <2>2. CASE FlushDeliver(i)
      <3>1. /\ resident \in Instances /\ UNCHANGED <<pc, resident, releasing>>
            /\ busy' = [busy EXCEPT ![resident] = "synth"]
            /\ releaseTimer' = ClearTimer(releaseTimer, resident)
        BY <1>0, <2>2 DEF FlushDeliver, handlerVars
      <3>2. \A k \in Instances \ {resident} : busy'[k] = busy[k]
        BY <1>i, <3>1 DEF TypeOK, SessionTypeOK
      <3>3. \A k \in Instances : releaseTimer'[k] => releaseTimer[k] /\ k # resident
        BY <1>c, <3>1
      <3> QED
        BY <1>i, <3>1, <3>2, <3>3 DEF Brain, OneBrainPerSession, TimersResident, NoneWhileCreating
    <2>3. CASE SyntheticEnds(i)
      <3>1. /\ busy[i] # "idle" /\ busy' = [busy EXCEPT ![i] = "idle"] /\ UNCHANGED <<pc, resident, releasing>>
            /\ \/ releaseTimer' = releaseTimer
               \/ releaseTimer' = ScheduleRelease(resident, releaseTimer, workCount, pending, coalesceTimer)
        BY <2>3 DEF SyntheticEnds, handlerVars
      <3> QED
        BY <3>1, BrainFinish
    <2>4. CASE ReleaseTimerFires(i)
      <3>1. resident = i /\ busy[i] = "idle" /\ resident # None
        BY <1>i, <2>4, SessionAssumption DEF ReleaseTimerFires, Brain, TimersResident, Instances, None
      <3>2. resident' = None /\ UNCHANGED <<busy, releasing>> /\ releaseTimer' = ClearTimer(releaseTimer, resident)
        BY <2>4, <3>1 DEF ReleaseTimerFires, BeginRelease, DropResident
      <3> QED
        BY <1>c, <1>i, <3>1, <3>2, BrainReleased
    <2>5. ASSUME NEW w, ReleaseDone(i, w)
          PROVE  FALSE
      BY <1>i, <2>5 DEF ReleaseDone, Brain
    <2> QED
      BY <1>3, <2>1, <2>2, <2>3, <2>4, <2>5 DEF InstanceNext
  <1>4. CASE \/ \E u \in Turns \cup {NoTurn} : Stop(u) \/ StopEarly(u) \/ PendingAbortExpires(u)
             \/ Steer
             \/ Invalidate
             \/ UNCHANGED vars
    <2>1. UNCHANGED <<pc, resident, busy, releasing>>
      BY <1>4 DEF Stop, StopEarly, PendingAbortExpires, Steer, Invalidate, sessionVars, handlerVars, vars
    <2>2. \/ \A i \in Instances : releaseTimer'[i] => releaseTimer[i]
          \/ /\ resident # None => PromptIdle(resident)
             /\ \E wc, pn, ct : releaseTimer' = ScheduleRelease(resident, releaseTimer, wc, pn, ct)
      BY <1>4 DEF Stop, StopEarly, PendingAbortExpires, Steer, Invalidate, sessionVars, vars
    <2> QED
      BY <1>s, <2>1, <2>2
  <1> QED
    BY <1>1, <1>2, <1>3, <1>4 DEF Next

\* At the start there is no session.
LEMMA BrainStart == Init => BrainInv
  BY SerialStart, SessionAssumption
  DEF Init, BrainInv, Brain, OneBrainPerSession, TimersResident, NoneWhileCreating

\* One model at a time appends to the transcript of a session, and it is where
\* Stop, steer and notices look for it: where the turn lock admits one prompt at
\* a time and a release has nothing to await.  With a release that awaits a new
\* prompt can be admitted to an instance that is being torn down.
THEOREM OneBrainAlways ==
  ASSUME SerialPrompts, ~SlowTeardown
  PROVE  Spec => []OneBrainPerSession
  <1>1. BrainInv /\ [Next]_vars => BrainInv'
    BY SerialStep, BrainStep DEF BrainInv
  <1>2. BrainInv => OneBrainPerSession
    BY DEF BrainInv, Brain
  <1> QED
    BY <1>1, <1>2, BrainStart, PTL DEF Spec

----------------------------------------------------------------------------
(* What keeps a session in memory.                                         *)

\* The jobs that have been launched and have not settled.
LiveJobs == {j \in Jobs : Live(j)}

\* Neither work nor a notice defers the release of instance i.
Rests(i) == workCount[i] = 0 /\ pending[i] = {} /\ ~coalesceTimer[i]

\* Nobody comes back to a session that was handed away: there is no handoff, or
\* the only prompt is the one that made it.
NobodyReturns == ~Handoffs \/ \A t, u \in Turns : t = u

\* The inductive form of ResidencyIsSound and NoLostNotice: all jobs under way
\* belong to the resident instance and are what its count says; only an instance
\* at rest has a release timer; and nobody will take the session from it.
Owed ==
  /\ evicted => \A t \in Turns : pc[t] # "new"
  /\ created > 0 => \E t \in Turns : pc[t] # "new"
  /\ \A j \in Jobs : Live(j) => resident # None /\ countedOn[j] = resident
  /\ IsFiniteSet(LiveJobs)
  /\ resident # None => workCount[resident] = Cardinality(LiveJobs)
  /\ \A i \in Instances : i > created => Rests(i)
  /\ \A i \in Instances : releaseTimer[i] => Rests(i)
  /\ NoLostNotice

OwedInv == BrainInv /\ JobInv /\ Owed

\* A step that neither starts nor ends a job nor moves the session.
LEMMA OwedFrame ==
  ASSUME Owed, UNCHANGED <<resident, created, workCount, countedOn>>, evicted' => evicted,
         \A j \in Jobs : Live(j)' <=> Live(j),
         \A t \in Turns : pc[t] # "new" => pc'[t] # "new",
         \A j \in Jobs : fate'[j] = "lost" => fate[j] = "lost",
         \A i \in Instances : i > created /\ Rests(i) => Rests(i)',
         \A i \in Instances : releaseTimer'[i] => Rests(i)'
  PROVE  Owed'
  <1>1. LiveJobs' = LiveJobs
    BY DEF LiveJobs
  <1> QED
    BY <1>1 DEF Owed, NoLostNotice

\* An instance at rest gives up the session: nothing of it was under way.
LEMMA OwedReleased ==
  ASSUME Owed, TypeOK, resident \in Instances, Rests(resident), DropResident(resident),
         UNCHANGED <<created, workCount, countedOn, evicted, run>>,
         \A t \in Turns : pc[t] # "new" => pc'[t] # "new",
         \A i \in Instances : releaseTimer'[i] => releaseTimer[i]
  PROVE  Owed'
  <1>1. LiveJobs = {}
    BY FS_EmptySet, SessionAssumption DEF Owed, Rests, Instances, None
  <1>2. LiveJobs' = LiveJobs /\ \A j \in Jobs : ~Live(j) /\ ~Live(j)'
    BY <1>1 DEF LiveJobs, Live
  <1>3. \A j \in Jobs : fate'[j] = fate[j]
    BY DEF DropResident, Fate, Rests
  <1>4. \A i \in Instances : Rests(i) => Rests(i)'
    <2>1. ASSUME NEW i \in Instances, Rests(i)
          PROVE  pending'[i] = {} /\ ~coalesceTimer'[i]
      <3>1. pending' = [pending EXCEPT ![resident] = {}] /\ coalesceTimer' = [coalesceTimer EXCEPT ![resident] = FALSE]
        BY DEF DropResident
      <3>2. pending \in [Instances -> SUBSET Jobs] /\ coalesceTimer \in [Instances -> BOOLEAN]
        BY DEF TypeOK, SessionTypeOK
      <3> QED
        BY <2>1, <3>1, <3>2 DEF Rests
    <2> QED
      BY <2>1 DEF Rests
  <1>5. resident' = None
    BY DEF DropResident
  <1> QED
    BY <1>2, <1>3, <1>4, <1>5 DEF Owed, NoLostNotice

\* The claim of an instance arms its release timer only at rest.
LEMMA ClaimTimers ==
  ASSUME NEW t \in Turns, NEW i \in Instances, NEW rt, Claim(t, i, rt), UNCHANGED <<workCount, pending, coalesceTimer>>,
         \A k \in Instances : rt[k] => Rests(k)
  PROVE  \A k \in Instances : releaseTimer'[k] => Rests(k)'
  <1>1. releaseTimer' = rt \/ releaseTimer' = ScheduleRelease(i, rt, workCount, pending, coalesceTimer)
    BY DEF Claim
  <1>2. \A k \in Instances : releaseTimer'[k] => Rests(k)
    BY <1>1, ScheduleSound DEF Rests
  <1> QED
    BY <1>2 DEF Rests

\* A launch is counted where its settling will be.
LEMMA OwedLaunch ==
  ASSUME OwedInv, NEW i \in Instances, NEW j \in Jobs, Launch(i, j)
  PROVE  Owed'
  <1>t. /\ TypeOK /\ Brain /\ Owed /\ JobShape(j)
        /\ workCount \in [Instances -> Nat] /\ run \in [Jobs -> {"absent", "starting", "live", "flushing", "over"}]
        /\ countedOn \in [Jobs -> 0..MaxInstances]
    BY DEF OwedInv, BrainInv, JobInv, TypeOK, SessionTypeOK, RunnerTypeOK, HistoryTypeOK
  <1>1. resident = i /\ resident # None
    <2>1. busy[i] # "idle"
      <3>1. ASSUME NEW t \in Turns, pc[t] = "model", on[t] = i
            PROVE  busy[i] = "http"
        BY <3>1 DEF OwedInv, BrainInv, SerialInv, MutexInv, PromptMutex, Running
      <3> QED
        BY <3>1 DEF Launch, ModelRunning
    <2> QED
      BY <1>t, <2>1, SessionAssumption DEF Brain, OneBrainPerSession, Instances, None
  <1>2. ~Live(j)
    BY <1>t DEF Launch, JobShape, Live
  <1>3. PICK first \in {"starting", "live"} : run' = [run EXCEPT ![j] = first]
    BY DEF Launch
  <1>4. Live(j)' /\ \A k \in Jobs \ {j} : Live(k)' <=> Live(k)
    BY <1>t, <1>3 DEF Live
  <1>5. LiveJobs' = LiveJobs \cup {j} /\ j \notin LiveJobs
    BY <1>2, <1>4 DEF LiveJobs
  <1>6. IsFiniteSet(LiveJobs') /\ Cardinality(LiveJobs') = Cardinality(LiveJobs) + 1
    BY <1>t, <1>5, FS_AddElement DEF Owed
  <1>7. /\ workCount'[i] = workCount[i] + 1 /\ \A k \in Instances \ {i} : workCount'[k] = workCount[k]
        /\ countedOn' = [countedOn EXCEPT ![j] = i]
        /\ UNCHANGED <<resident, created, pending, coalesceTimer, pc, evicted, fate>>
        /\ \A k \in Instances : releaseTimer'[k] => releaseTimer[k] /\ k # i
    BY <1>1 DEF Launch, ClearTimer, noticeVars, handlerVars
  <1>8. \A k \in Instances \ {i} : Rests(k)' <=> Rests(k)
    BY <1>7 DEF Rests
  <1>9. i <= created
    BY <1>1 DEF OwedInv, BrainInv, SerialInv, MutexInv
  <1>10. \A k \in Jobs : Live(k)' => countedOn'[k] = i
    BY <1>t, <1>1, <1>4, <1>7 DEF Owed
  <1>11. \A k \in Instances : k > created => k # i
    BY <1>9, <1>t DEF TypeOK, SessionTypeOK, Instances
  <1> QED
    BY <1>t, <1>1, <1>6, <1>7, <1>8, <1>10, <1>11 DEF Owed, NoLostNotice

\* A job that settles finds the instance it was counted on, leaves it one less
\* and its notice with somebody.
LEMMA OwedSettle ==
  ASSUME OwedInv, NEW j \in Jobs, Settle(j)
  PROVE  Owed'
  <1>t. /\ TypeOK /\ Brain /\ Owed
        /\ workCount \in [Instances -> Nat] /\ run \in [Jobs -> {"absent", "starting", "live", "flushing", "over"}]
        /\ coalesceTimer \in [Instances -> BOOLEAN] /\ created \in Nat
    BY SessionAssumption DEF OwedInv, BrainInv, JobInv, TypeOK, SessionTypeOK, RunnerTypeOK
  <1>1. Live(j) /\ resident # None /\ resident \in Instances
    BY <1>t, SessionAssumption DEF Settle, Live, Owed, TypeOK, SessionTypeOK, Instances, None
  <1>2. ~Live(j)' /\ \A k \in Jobs \ {j} : Live(k)' <=> Live(k)
    BY <1>t DEF Settle, Live
  <1>3. LiveJobs' = LiveJobs \ {j} /\ j \in LiveJobs
    BY <1>1, <1>2 DEF LiveJobs
  <1>4. /\ IsFiniteSet(LiveJobs') /\ Cardinality(LiveJobs') = Cardinality(LiveJobs) - 1
        /\ Cardinality(LiveJobs) \in Nat /\ Cardinality(LiveJobs') \in Nat
    BY <1>t, <1>3, FS_RemoveElement, FS_CardinalityType DEF Owed
  <1>5. workCount[resident] = Cardinality(LiveJobs) /\ workCount[resident] > 0
    BY <1>t, <1>1, <1>4 DEF Owed
  <1>6. /\ workCount'[resident] = workCount[resident] - 1
        /\ \A k \in Instances \ {resident} : workCount'[k] = workCount[k]
    BY <1>1, <1>5 DEF Settle, LessWork
  <1>7. \A k \in Instances \ {resident} : pending'[k] = pending[k] /\ (coalesceTimer'[k] <=> coalesceTimer[k])
    BY DEF Settle, NotifyParent
  <1>8. \A k \in Instances \ {resident} : Rests(k) => Rests(k)'
    BY <1>6, <1>7 DEF Rests
  <1>9. \A k \in Instances : releaseTimer'[k] => Rests(k)'
    <2>1. ~releaseTimer[resident]
      BY <1>t, <1>1, <1>5 DEF Owed, Rests
    <2>2. ASSUME NEW k \in Instances, releaseTimer'[k]
          PROVE  releaseTimer[k] \/ Rests(k)'
      BY <2>2, ScheduleSound DEF Settle, Rests
    <2> QED
      BY <1>t, <1>8, <2>1, <2>2 DEF Owed, Brain, TimersResident
  <1>10. \A k \in Jobs : fate'[k] = "lost" => fate[k] = "lost"
    BY <1>1 DEF Settle, NotifyParent, Fate
  <1>11. \A k \in Instances : k > created => Rests(k)'
    <2>1. resident <= created
      BY DEF OwedInv, BrainInv, SerialInv, MutexInv
    <2>2. \A k \in Instances : k > created => k # resident
      BY <1>t, <2>1 DEF Instances
    <2> QED
      BY <1>t, <1>8, <2>2 DEF Owed
  <1>12. UNCHANGED <<resident, created, countedOn, evicted, pc>>
    BY DEF Settle, handlerVars
  <1> QED
    BY <1>t, <1>2, <1>4, <1>5, <1>6, <1>9, <1>10, <1>11, <1>12 DEF Owed, NoLostNotice

\* Every step keeps what is owed with the resident instance.
LEMMA OwedStep ==
  ASSUME ~SlowTeardown, ~ContextChanges, NobodyReturns, OwedInv, [Next]_vars
  PROVE  Owed'
  <1>i. Brain /\ SerialInv /\ MutexInv /\ TypeOK /\ Owed
    BY DEF OwedInv, BrainInv, SerialInv, MutexInv
  <1>0. resident # None => resident \in Instances
    BY <1>i, SessionAssumption DEF TypeOK, SessionTypeOK, None, Instances
  <1>m. /\ pc \in [Turns -> {"new"} \cup Admitted \cup Running \cup Finished]
        /\ pending \in [Instances -> SUBSET Jobs] /\ coalesceTimer \in [Instances -> BOOLEAN]
        /\ fate \in [Jobs -> {"none", "told", "dropped", "lost"}]
    BY <1>i DEF TypeOK, HandlerTypeOK, SessionTypeOK, HistoryTypeOK
  <1>c. \A timer, r : \A i \in Instances : ClearTimer(timer, r)[i] => timer[i] /\ i # r
    BY DEF ClearTimer
  <1>l. \A S, f : f # "lost" => \A j \in Jobs : Fate(S, f)[j] = "lost" => fate[j] = "lost"
    BY DEF Fate
  \* A step that at most takes notices away.
  <1>f. ASSUME UNCHANGED <<resident, created, workCount, countedOn>>, evicted' => evicted,
               \A j \in Jobs : Live(j)' <=> Live(j),
               \A u \in Turns : pc[u] # "new" => pc'[u] # "new",
               \A j \in Jobs : fate'[j] = "lost" => fate[j] = "lost",
               \A i \in Instances : pending'[i] \subseteq pending[i] /\ (coalesceTimer'[i] => coalesceTimer[i]),
               \/ \A i \in Instances : releaseTimer'[i] => releaseTimer[i]
               \/ \E r : releaseTimer' = ScheduleRelease(r, releaseTimer, workCount, pending', coalesceTimer')
        PROVE  Owed'
    <2>1. \A i \in Instances : Rests(i) => Rests(i)'
      BY <1>f DEF Rests
    <2>2. \A i \in Instances : releaseTimer'[i] => Rests(i)'
      <3>1. ASSUME NEW i \in Instances, releaseTimer'[i]
            PROVE  releaseTimer[i] \/ Rests(i)'
        BY <1>f, <3>1, ScheduleSound DEF Rests
      <3> QED
        BY <1>i, <2>1, <3>1 DEF Owed
    <2> QED
      BY <1>f, <1>i, <2>1, <2>2, OwedFrame
  <1>1. ASSUME NEW t \in Turns, TurnNext(t)
        PROVE  Owed'
    <2>1. CASE RestoreHandedAway(t)
      BY <1>i, <2>1 DEF RestoreHandedAway, MayArrive, Owed
    <2>2. CASE PromptRebuild(t)
      <3>1. Rests(resident)
        BY <2>2 DEF PromptRebuild, MustRebuild, NotificationWork, Rests
      <3>2. /\ resident \in Instances /\ DropResident(resident)
            /\ UNCHANGED <<created, workCount, countedOn, evicted, run>>
            /\ releaseTimer' = ClearTimer(releaseTimer, resident)
            /\ pc' = [pc EXCEPT ![t] = "creating"]
        BY <1>0, <2>2 DEF PromptRebuild, BeginRelease, runnerVars
      <3>3. \A u \in Turns : pc[u] # "new" => pc'[u] # "new"
        BY <1>m, <3>2
      <3> QED
        BY <1>c, <1>i, <3>1, <3>2, <3>3, OwedReleased
    <2>3. CASE PromptWarm(t)
      <3>1. /\ resident \in Instances /\ Claim(t, resident, ClearTimer(releaseTimer, resident))
            /\ UNCHANGED <<resident, created, workCount, pending, coalesceTimer, evicted, countedOn, run, fate>>
        BY <1>0, <2>3 DEF PromptWarm, runnerVars, historyVars
      <3>2. PICK x \in {"done", "model"} : pc' = [pc EXCEPT ![t] = x]
        BY <3>1 DEF Claim
      <3>3. \A u \in Turns : pc[u] # "new" => pc'[u] # "new"
        BY <1>m, <3>2
      <3>4. \A k \in Instances : ClearTimer(releaseTimer, resident)[k] => Rests(k)
        BY <1>c, <1>i DEF Owed
      <3>5. \A k \in Instances : releaseTimer'[k] => Rests(k)'
        BY <3>1, <3>4, ClaimTimers
      <3> QED
        BY <1>i, <3>1, <3>3, <3>5, OwedFrame DEF Live, Rests
    <2>4. CASE Created(t)
      <3>1. /\ created + 1 \in Instances /\ created \in Nat
            /\ Claim(t, created + 1, releaseTimer)
            /\ resident' = created + 1 /\ created' = created + 1
            /\ UNCHANGED <<workCount, pending, coalesceTimer, evicted, countedOn, run, fate>>
        BY <1>i, <2>4, SessionAssumption
        DEF Created, runnerVars, historyVars, TypeOK, SessionTypeOK, Instances
      <3>2. PICK x \in {"done", "model"} : pc' = [pc EXCEPT ![t] = x]
        BY <3>1 DEF Claim
      <3>3. pc'[t] # "new" /\ \A u \in Turns : pc[u] # "new" => pc'[u] # "new"
        BY <1>m, <3>2
      <3>4. \A k \in Instances : releaseTimer'[k] => Rests(k)'
        BY <1>i, <3>1, ClaimTimers DEF Owed
      <3>5. LiveJobs = {} /\ LiveJobs' = LiveJobs /\ \A j \in Jobs : ~Live(j)'
        BY <1>i, <2>4, <3>1 DEF Owed, Brain, NoneWhileCreating, Created, LiveJobs, Live
      <3>6. \A k \in Instances : k > created => Rests(k)'
        BY <1>i, <3>1 DEF Owed, Rests
      <3>7. workCount'[created + 1] = 0
        BY <3>1, <3>6 DEF Rests
      <3>8. \A k \in Instances : k > created + 1 => k > created
        BY <3>1 DEF Instances
      <3>9. Cardinality(LiveJobs') = 0 /\ IsFiniteSet(LiveJobs')
        BY <3>5, FS_EmptySet
      <3> QED
        BY <1>i, <3>1, <3>3, <3>4, <3>5, <3>6, <3>7, <3>8, <3>9 DEF Owed, NoLostNotice
    <2>5. CASE \/ PromptCold(t) \/ PromptRefused(t) \/ ModelReturns(t) \/ ModelAborted(t) \/ ModelFails(t)
               \/ NextResults(t) \/ NextSteer(t) \/ NextEnds(t) \/ DeferredFinish(t)
      <3>1. UNCHANGED <<resident, created, workCount, countedOn, evicted, run, pending, coalesceTimer>>
        BY <2>5
        DEF PromptCold, PromptRefused, ModelReturns, ModelAborted, ModelFails, NextResults, NextSteer,
            NextEnds, DeferredFinish, FinishFrame, sessionVars, runnerVars, historyVars
      <3>2. PICK x \in {"creating", "refused", "model", "next", "deferred", "done"} : pc' = [pc EXCEPT ![t] = x]
        BY <2>5
        DEF PromptCold, PromptRefused, ModelReturns, ModelAborted, ModelFails, NextResults, NextSteer,
            NextEnds, DeferredFinish, OnPromptFinish, ActuallyFinish
      <3>3. \A u \in Turns : pc[u] # "new" => pc'[u] # "new"
        BY <1>m, <3>2
      <3>4. \A j \in Jobs : fate'[j] = "lost" => fate[j] = "lost"
        <4>1. CASE NextResults(t)
          BY <1>l, <4>1 DEF NextResults, Tell
        <4>2. CASE ~NextResults(t)
          BY <2>5, <4>2
          DEF PromptCold, PromptRefused, ModelReturns, ModelAborted, ModelFails, NextSteer,
              NextEnds, DeferredFinish, FinishFrame, historyVars
        <4> QED
          BY <4>1, <4>2
      <3>5. \/ \A i \in Instances : releaseTimer'[i] => releaseTimer[i]
            \/ \E r : releaseTimer' = ScheduleRelease(r, releaseTimer, workCount, pending, coalesceTimer)
        BY <1>c, <2>5
        DEF PromptCold, PromptRefused, ModelReturns, ModelAborted, ModelFails, NextResults, NextSteer,
            NextEnds, DeferredFinish, OnPromptFinish, ActuallyFinish, sessionVars
      <3>6. \A j \in Jobs : Live(j)' <=> Live(j)
        BY <3>1 DEF Live
      <3> QED
        BY <1>f, <3>1, <3>3, <3>4, <3>5, <3>6
    <2> QED
      BY <1>1, <2>1, <2>2, <2>3, <2>4, <2>5 DEF TurnNext
  <1>2. ASSUME NEW j \in Jobs, JobNext(j)
        PROVE  Owed'
    <2>1. ASSUME NEW i \in Instances, Launch(i, j)
          PROVE  Owed'
      BY <2>1, OwedLaunch
    <2>2. CASE Settle(j)
      BY <2>2, OwedSettle
    <2>3. CASE (\E i \in Instances : LaunchUnderStop(i, j)) \/ Start(j) \/ Exit(j) \/ JobStop(j)
      <3>1. UNCHANGED <<resident, created, workCount, countedOn, evicted, pc, pending, coalesceTimer, releaseTimer>>
        BY <2>3 DEF LaunchUnderStop, Start, Exit, JobStop, sessionVars, handlerVars, historyVars
      <3>2. \A k \in Jobs : Live(k)' <=> Live(k)
        <4>0. JobShape(j) /\ run \in [Jobs -> {"absent", "starting", "live", "flushing", "over"}]
          BY <1>i DEF OwedInv, JobInv, TypeOK, RunnerTypeOK
        <4>1. CASE \E i \in Instances : LaunchUnderStop(i, j)
          <5>1. run[j] = "absent" /\ run' = [run EXCEPT ![j] = "over"]
            BY <4>0, <4>1 DEF LaunchUnderStop, JobShape
          <5> QED
            BY <4>0, <5>1 DEF Live
        <4>2. CASE Start(j) \/ Exit(j)
          BY <4>0, <4>2 DEF Start, Exit, Live
        <4>3. CASE JobStop(j)
          BY <4>3 DEF JobStop, Live
        <4> QED
          BY <2>3, <4>1, <4>2, <4>3
      <3>3. \A k \in Jobs : fate'[k] = "lost" => fate[k] = "lost"
        <4>1. fate' = fate \/ fate' = Fate({j}, "dropped")
          BY <2>3 DEF LaunchUnderStop, Start, Exit, JobStop, historyVars
        <4> QED
          BY <4>1 DEF Fate
      <3> QED
        BY <1>f, <3>1, <3>2, <3>3
    <2> QED
      BY <1>2, <2>1, <2>2, <2>3 DEF JobNext
  <1>3. ASSUME NEW i \in Instances, InstanceNext(i)
        PROVE  Owed'
    <2>1. CASE FlushRearm(i)
      <3>1. /\ resident \in Instances /\ busy[resident] # "idle"
            /\ UNCHANGED <<resident, created, workCount, countedOn, evicted, pc, pending, releaseTimer, run, fate>>
            /\ \A k \in Instances \ {resident} : coalesceTimer'[k] => coalesceTimer[k]
        BY <1>0, <2>1 DEF FlushRearm, PromptIdle, handlerVars, runnerVars, historyVars
      <3>2. ~releaseTimer[resident]
        BY <1>i, <3>1 DEF Brain, TimersResident
      <3>3. \A k \in Instances \ {resident} : Rests(k) => Rests(k)'
        BY <3>1 DEF Rests
      <3>4. \A k \in Instances : k > created => k # resident
        BY <1>i DEF MutexInv, TypeOK, SessionTypeOK, Instances
      <3>5. \A k \in Instances : releaseTimer'[k] => Rests(k)'
        BY <1>i, <3>1, <3>2, <3>3 DEF Owed
      <3> QED
        BY <1>i, <3>1, <3>3, <3>4, <3>5, OwedFrame DEF Live
    <2>2. CASE ReleaseTimerFires(i)
      <3>1. resident = i /\ resident # None /\ Rests(resident)
        BY <1>i, <2>2, SessionAssumption DEF ReleaseTimerFires, Brain, TimersResident, Owed, Instances, None
      <3>2. /\ resident \in Instances /\ DropResident(resident)
            /\ UNCHANGED <<created, workCount, countedOn, evicted, run, pc>>
            /\ releaseTimer' = ClearTimer(releaseTimer, i)
        BY <1>0, <2>2, <3>1 DEF ReleaseTimerFires, BeginRelease, runnerVars
      <3> QED
        BY <1>c, <1>i, <3>1, <3>2, OwedReleased
    <2>3. CASE Handoff(i)
      <3>1. UNCHANGED <<resident, created, workCount, countedOn, pc, pending, coalesceTimer, releaseTimer, run, fate>>
        BY <2>3 DEF Handoff, sessionVars, historyVars
      <3>2. \A t \in Turns : pc[t] # "new"
        <4>1. \E t \in Turns : pc[t] # "new"
          <5>1. CASE busy[i] = "synth"
            <6>1. resident = i /\ resident <= created
              BY <1>i, <5>1 DEF Brain, OneBrainPerSession, MutexInv
            <6>2. created > 0
              BY <1>i, <6>1 DEF TypeOK, SessionTypeOK, Instances
            <6> QED
              BY <1>i, <6>2 DEF Owed
          <5>2. CASE \E t \in Turns : pc[t] = "model"
            BY <5>2
          <5> QED
            BY <2>3, <5>1, <5>2 DEF Handoff, ModelRunning
        <4> QED
          BY <2>3, <4>1 DEF Handoff, NobodyReturns
      <3>3. LiveJobs' = LiveJobs /\ \A j \in Jobs : Live(j)' <=> Live(j)
        BY <3>1 DEF LiveJobs, Live
      <3> QED
        BY <1>i, <3>1, <3>2, <3>3 DEF Owed, Rests, NoLostNotice
    <2>4. CASE FlushUnderStop(i) \/ FlushDeliver(i) \/ FlushNothing(i) \/ SyntheticEnds(i) \/ StopDrained(i)
      <3>1. UNCHANGED <<resident, created, workCount, countedOn, evicted, pc, run>>
        BY <2>4 DEF FlushUnderStop, FlushDeliver, FlushNothing, SyntheticEnds, StopDrained,
                    sessionVars, handlerVars, runnerVars, historyVars
      <3>2. \A k \in Instances : pending'[k] \subseteq pending[k] /\ (coalesceTimer'[k] => coalesceTimer[k])
        BY <1>m, <2>4 DEF FlushUnderStop, FlushDeliver, FlushNothing, SyntheticEnds, StopDrained, sessionVars
      <3>3. \A j \in Jobs : fate'[j] = "lost" => fate[j] = "lost"
        BY <1>l, <2>4 DEF FlushUnderStop, FlushDeliver, FlushNothing, SyntheticEnds, StopDrained, Tell, historyVars
      <3>4. \/ \A k \in Instances : releaseTimer'[k] => releaseTimer[k]
            \/ \E r : releaseTimer' = ScheduleRelease(r, releaseTimer, workCount, pending', coalesceTimer')
        BY <1>c, <2>4 DEF FlushUnderStop, FlushDeliver, FlushNothing, SyntheticEnds, StopDrained, sessionVars
      <3>5. \A j \in Jobs : Live(j)' <=> Live(j)
        BY <3>1 DEF Live
      <3> QED
        BY <1>f, <3>1, <3>2, <3>3, <3>4, <3>5
    <2>5. ASSUME NEW w, ReleaseDone(i, w)
          PROVE  FALSE
      BY <1>i, <2>5 DEF ReleaseDone, Brain
    <2> QED
      BY <1>3, <2>1, <2>2, <2>3, <2>4, <2>5 DEF InstanceNext
  <1>4. CASE \/ \E u \in Turns \cup {NoTurn} : Stop(u) \/ StopEarly(u) \/ PendingAbortExpires(u)
             \/ Steer
             \/ Invalidate
             \/ UNCHANGED vars
    <2>1. UNCHANGED <<resident, created, workCount, countedOn, evicted, pc, run>>
      BY <1>4 DEF Stop, StopEarly, PendingAbortExpires, Steer, Invalidate, sessionVars, handlerVars,
                  runnerVars, historyVars, vars
    <2>2. \A k \in Instances : pending'[k] \subseteq pending[k] /\ (coalesceTimer'[k] => coalesceTimer[k])
      BY <1>c, <1>m, <1>4 DEF Stop, StopEarly, PendingAbortExpires, Steer, Invalidate, sessionVars, vars
    <2>3. \A j \in Jobs : fate'[j] = "lost" => fate[j] = "lost"
      BY <1>l, <1>4 DEF Stop, StopEarly, PendingAbortExpires, Steer, Invalidate, historyVars, vars
    <2>4. \/ \A k \in Instances : releaseTimer'[k] => releaseTimer[k]
          \/ \E r : releaseTimer' = ScheduleRelease(r, releaseTimer, workCount, pending', coalesceTimer')
      BY <1>4 DEF Stop, StopEarly, PendingAbortExpires, Steer, Invalidate, sessionVars, vars
    <2>5. \A j \in Jobs : Live(j)' <=> Live(j)
      BY <2>1 DEF Live
    <2> QED
      BY <1>f, <2>1, <2>2, <2>3, <2>4, <2>5
  <1> QED
    BY <1>1, <1>2, <1>3, <1>4 DEF Next

\* Nothing is owed at the start.
LEMMA OwedStart == Init => OwedInv
  <1> SUFFICES ASSUME Init PROVE OwedInv
    OBVIOUS
  <1>1. LiveJobs = {} /\ \A j \in Jobs : ~Live(j)
    BY DEF Init, LiveJobs, Live
  <1>2. IsFiniteSet(LiveJobs)
    BY <1>1, FS_EmptySet
  <1> QED
    BY <1>1, <1>2, BrainStart, JobStart DEF Init, OwedInv, Owed, Rests, NoLostNotice

\* The invariant is as strong as the residency properties.
LEMMA OwedSuffices == OwedInv => ResidencyIsSound /\ NoLostNotice
  <1> SUFFICES ASSUME OwedInv PROVE ResidencyIsSound /\ NoLostNotice
    OBVIOUS
  <1>1. NoReleaseTimerUnderPrompt
    BY DEF OwedInv, BrainInv, Brain, TimersResident, NoReleaseTimerUnderPrompt
  <1>2. ResidencyCoversBackgroundWork
    BY DEF OwedInv, Owed, ResidencyCoversBackgroundWork
  <1>3. {j \in Jobs : Live(j) /\ countedOn[j] = resident} = LiveJobs
    BY DEF OwedInv, Owed, LiveJobs
  <1>4. WorkCountIsExact
    BY <1>3 DEF OwedInv, Owed, WorkCountIsExact
  <1> QED
    BY <1>1, <1>2, <1>4 DEF ResidencyIsSound, OwedInv, Owed

LEMMA OwedAlways ==
  ASSUME SerialPrompts, ~SlowTeardown, ~ContextChanges, NobodyReturns
  PROVE  Spec => []OwedInv
  <1>1. OwedInv /\ [Next]_vars => OwedInv'
    BY SerialStep, BrainStep, JobStep, OwedStep DEF OwedInv, BrainInv
  <1> QED
    BY <1>1, OwedStart, PTL DEF Spec

\* A session stays in memory as long as a prompt or a job needs it, by the right
\* count, where in addition no request changes the execution context of an idle
\* session and nobody returns to one that was handed away.
THEOREM ResidencyAlwaysSound ==
  ASSUME SerialPrompts, ~SlowTeardown, ~ContextChanges, NobodyReturns
  PROVE  Spec => []ResidencyIsSound
  BY OwedAlways, OwedSuffices, PTL

\* Nor is the notice of a job lost there.
THEOREM NoticesNeverLost ==
  ASSUME SerialPrompts, ~SlowTeardown, ~ContextChanges, NobodyReturns
  PROVE  Spec => []NoLostNotice
  BY OwedAlways, OwedSuffices, PTL

----------------------------------------------------------------------------
(* Refinement: the session implements CompletionNotices.                   *)

\* A place is the buffer of an instance or the mailbox of a turn, and which.
LEMMA PlaceFacts ==
  /\ \A i \in Instances : /\ Buffer(i) \in Places
                          /\ WaitingAt(Buffer(i)) = pending[i]
                          /\ WaitingAt(Buffer(i))' = pending'[i]
  /\ \A t \in Turns : /\ Mailbox(t) \in Places
                      /\ WaitingAt(Mailbox(t)) = IF cancelled[t] THEN {} ELSE Batch(t)
                      /\ WaitingAt(Mailbox(t))' = IF cancelled'[t] THEN {} ELSE Batch(t)'
  /\ \A p \in Places : \/ \E i \in Instances : p = Buffer(i)
                       \/ \E t \in Turns : p = Mailbox(t)
  /\ \A i, k \in Instances : Buffer(i) = Buffer(k) => i = k
  /\ \A t, u \in Turns : Mailbox(t) = Mailbox(u) => t = u
  /\ \A i \in Instances, t \in Turns : Buffer(i) # Mailbox(t)
  BY DEF Places, Buffer, Mailbox, WaitingAt

\* A step that changes no life and tells nothing, and after which a buffer is
\* what it was or empty and a mailbox what it was or cancelled, gives up the
\* notices of those places.
LEMMA GiveUpRefines ==
  ASSUME \A j \in Jobs : LifeOf(j)' = LifeOf(j),
         UNCHANGED <<tellings, ready, consumed>>,
         \A i \in Instances : pending'[i] \in {pending[i], {}},
         \A t \in Turns : cancelled[t] => cancelled'[t]
  PROVE  [Notices!Next]_Notices!noticesVars
  <1> DEFINE P == {p \in Places : WaitingAt(p) # {} /\ WaitingAt(p)' = {}}
  <1>1. \A p \in Places : WaitingAt(p)' \in {WaitingAt(p), {}}
    <2> SUFFICES ASSUME NEW p \in Places PROVE WaitingAt(p)' \in {WaitingAt(p), {}}
      OBVIOUS
    <2>1. ASSUME NEW i \in Instances, p = Buffer(i)
          PROVE  WaitingAt(p)' \in {WaitingAt(p), {}}
      BY <2>1, PlaceFacts
    <2>2. ASSUME NEW t \in Turns, p = Mailbox(t)
          PROVE  WaitingAt(p)' \in {WaitingAt(p), {}}
      <3>1. Batch(t)' = Batch(t)
        BY DEF Batch
      <3>2. cancelled[t] => cancelled'[t]
        OBVIOUS
      <3> QED
        BY <2>2, <3>1, <3>2, PlaceFacts
    <2> QED
      BY <2>1, <2>2, PlaceFacts
  <1>2. [j \in Jobs |-> LifeOf(j)]' = [j \in Jobs |-> LifeOf(j)] /\ tellings' = tellings
    OBVIOUS
  <1>3. CASE P = {}
    <2>1. \A p \in Places : WaitingAt(p)' = WaitingAt(p)
      BY <1>1, <1>3
    <2> QED
      BY <1>2, <2>1 DEF Notices!noticesVars
  <1>4. CASE P # {}
    <2>1. \A p \in Places : WaitingAt(p)' = IF p \in P THEN {} ELSE WaitingAt(p)
      BY <1>1
    <2>2. \E p \in P : p \in Places /\ WaitingAt(p) # {}
      BY <1>4
    <2>3. P \in SUBSET Places
      OBVIOUS
    <2> HIDE DEF P
    <2>4. Notices!GiveUp(P)
      BY <1>2, <2>1, <2>2, <2>3 DEF Notices!GiveUp
    <2> QED
      BY <2>3, <2>4 DEF Notices!Next
  <1> QED
    BY <1>3, <1>4

\* A step that puts exactly what waits at a place into a prompt and empties
\* the place tells that place.
LEMMA TellRefines ==
  ASSUME NEW q \in Places, WaitingAt(q) # {}, Tell(WaitingAt(q)),
         \A j \in Jobs : LifeOf(j)' = LifeOf(j),
         \A p \in Places : WaitingAt(p)' = IF p = q THEN {} ELSE WaitingAt(p)
  PROVE  Notices!Next
  <1>1. [j \in Jobs |-> LifeOf(j)]' = [j \in Jobs |-> LifeOf(j)]
    OBVIOUS
  <1>2. tellings' = [j \in Jobs |-> IF j \in WaitingAt(q) THEN tellings[j] + 1
                                                         ELSE tellings[j]]
    BY DEF Tell
  <1>3. Notices!TellAll(q)
    BY <1>1, <1>2 DEF Notices!TellAll
  <1> QED
    BY <1>3 DEF Notices!Next

\* A launch begins the life of a job or, under a Stop, refuses it.
LEMMA LaunchRefines ==
  ASSUME JobInv, NEW i \in Instances, NEW j \in Jobs,
         Launch(i, j) \/ LaunchUnderStop(i, j)
  PROVE  Notices!Next
  <1>1. LifeOf(j) = "ahead"
    BY DEF Launch, LaunchUnderStop, JobInv, JobShape, LifeOf
  <1>2. \A p \in Places : WaitingAt(p)' = WaitingAt(p)
    <2>1. UNCHANGED <<ready, consumed, cancelled, pending>>
      BY DEF Launch, LaunchUnderStop, sessionVars
    <2> QED
      BY <2>1 DEF WaitingAt, Batch
  <1>3. tellings' = tellings
    BY DEF Launch, LaunchUnderStop, noticeVars
  <1>4. run \in [Jobs -> {"absent", "starting", "live", "flushing", "over"}]
    BY DEF JobInv, TypeOK, RunnerTypeOK
  <1>5. \A k \in Jobs \ {j} : LifeOf(k)' = LifeOf(k)
    <2>1. \A k \in Jobs \ {j} : run'[k] = run[k]
      BY <1>4 DEF Launch, LaunchUnderStop
    <2> QED
      BY <2>1 DEF LifeOf
  <1>6. CASE Launch(i, j)
    <2>1. run'[j] \in {"starting", "live"}
      BY <1>4, <1>6 DEF Launch
    <2>2. LifeOf(j)' = "due"
      BY <2>1 DEF LifeOf
    <2>3. Notices!Begin(j)
      BY <1>1, <1>2, <1>3, <1>5, <2>2 DEF Notices!Begin
    <2> QED
      BY <2>3 DEF Notices!Next
  <1>7. CASE LaunchUnderStop(i, j)
    <2>1. run'[j] = "over"
      BY <1>4, <1>7 DEF LaunchUnderStop
    <2>2. LifeOf(j)' = "past"
      BY <2>1 DEF LifeOf
    <2>3. Notices!Refuse(j)
      BY <1>1, <1>2, <1>3, <1>5, <2>2 DEF Notices!Refuse
    <2> QED
      BY <2>3 DEF Notices!Next
  <1> QED
    BY <1>6, <1>7

\* The end of a job puts its notice into one place, the mailbox of its owner
\* or the buffer of the session, or nowhere.
LEMMA SettleRefines ==
  ASSUME TypeOK, NEW j \in Jobs, Settle(j)
  PROVE  Notices!Next
  <1> DEFINE w == IF owner[j] # NoTurn THEN owner[j] ELSE Owner(resident)
             reaches == resident # None /\ ~notified[j]
             mailed == reaches /\ Owns(w, j) /\ ~cancelled[w] /\ j \notin consumed[w]
             buffered == reaches /\ ~Owns(w, j) /\ ~suppressed[j]
  <1>1. LifeOf(j) = "due" /\ LifeOf(j)' = "past"
    <2>1. run[j] = "flushing" /\ run'[j] = "over"
      BY DEF Settle, TypeOK, RunnerTypeOK
    <2> QED
      BY <2>1 DEF LifeOf
  <1>2. \A k \in Jobs \ {j} : LifeOf(k)' = LifeOf(k)
    <2>1. \A k \in Jobs \ {j} : run'[k] = run[k]
      BY DEF Settle, TypeOK, RunnerTypeOK
    <2> QED
      BY <2>1 DEF LifeOf
  <1>3. tellings' = tellings /\ consumed' = consumed /\ cancelled' = cancelled
    BY DEF Settle
  <1>4. resident # None => resident \in Instances
    BY SessionAssumption DEF TypeOK, SessionTypeOK, None, Instances
  <1>5. \A k \in Instances : pending'[k] = IF buffered /\ k = resident
                                             THEN pending[k] \cup {j} ELSE pending[k]
    BY DEF Settle, NotifyParent
  <1>6. \A t \in Turns : Batch(t)' = IF mailed /\ t = w THEN Batch(t) \cup {j}
                                                       ELSE Batch(t)
    <2>1. \A t \in Turns : ready'[t] = IF reaches /\ t = w /\ Owns(w, j) /\ ~cancelled[w]
                                       THEN ready[t] \cup {j} ELSE ready[t]
      BY DEF Settle, NotifyParent, CompleteIn, Owns
    <2> HIDE DEF w, reaches
    <2> QED
      BY <1>3, <2>1 DEF Batch
  <1>7. mailed => w \in Turns /\ ~cancelled[w] /\ ~buffered
    BY DEF Owns
  <1>8. buffered => resident \in Instances
    BY <1>4
  <1> HIDE DEF w, reaches, mailed, buffered
  <1>9. CASE mailed
    <2>1. ASSUME NEW p \in Places
          PROVE  WaitingAt(p)' = IF p = Mailbox(w) THEN WaitingAt(p) \cup {j}
                                                   ELSE WaitingAt(p)
      <3>1. ASSUME NEW i \in Instances, p = Buffer(i)
            PROVE  WaitingAt(p)' = WaitingAt(p) /\ p # Mailbox(w)
        BY <1>5, <1>7, <1>9, <3>1, PlaceFacts
      <3>2. ASSUME NEW t \in Turns, p = Mailbox(t)
            PROVE  WaitingAt(p)' = IF p = Mailbox(w) THEN WaitingAt(p) \cup {j}
                                                     ELSE WaitingAt(p)
        BY <1>3, <1>6, <1>7, <1>9, <3>2, PlaceFacts
      <3> QED
        BY <3>1, <3>2, PlaceFacts
    <2>2. Mailbox(w) \in Places
      BY <1>7, <1>9, PlaceFacts
    <2>3. Notices!Await(j, Mailbox(w))
      BY <1>1, <1>2, <1>3, <2>1, <2>2 DEF Notices!Await
    <2> QED
      BY <2>2, <2>3 DEF Notices!Next
  <1>10. CASE buffered
    <2>1. ASSUME NEW p \in Places
          PROVE  WaitingAt(p)' = IF p = Buffer(resident) THEN WaitingAt(p) \cup {j}
                                                         ELSE WaitingAt(p)
      <3>1. ASSUME NEW i \in Instances, p = Buffer(i)
            PROVE  WaitingAt(p)' = IF p = Buffer(resident) THEN WaitingAt(p) \cup {j}
                                                           ELSE WaitingAt(p)
        BY <1>5, <1>8, <1>10, <3>1, PlaceFacts
      <3>2. ASSUME NEW t \in Turns, p = Mailbox(t)
            PROVE  WaitingAt(p)' = WaitingAt(p) /\ p # Buffer(resident)
        BY <1>3, <1>6, <1>7, <1>8, <1>10, <3>2, PlaceFacts
      <3> QED
        BY <3>1, <3>2, PlaceFacts
    <2>2. Buffer(resident) \in Places
      BY <1>8, <1>10, PlaceFacts
    <2>3. Notices!Await(j, Buffer(resident))
      BY <1>1, <1>2, <1>3, <2>1, <2>2 DEF Notices!Await
    <2> QED
      BY <2>2, <2>3 DEF Notices!Next
  <1>11. CASE ~mailed /\ ~buffered
    <2>1. \A p \in Places : WaitingAt(p)' = WaitingAt(p)
      <3>1. /\ \A i \in Instances : pending'[i] = pending[i]
            /\ \A t \in Turns : Batch(t)' = Batch(t)
        BY <1>5, <1>6, <1>11
      <3> QED
        BY <1>3, <3>1, PlaceFacts
    <2>2. Notices!Moot(j)
      BY <1>1, <1>2, <1>3, <2>1 DEF Notices!Moot
    <2> QED
      BY <2>2 DEF Notices!Next
  <1> QED
    BY <1>9, <1>10, <1>11

\* Dropping the map entry, at once or never, empties a buffer or leaves it.
LEMMA DropEmpties ==
  ASSUME TypeOK, NEW r \in Instances,
         DropResident(r) \/ \E w : BeginRelease(r, w)
  PROVE  \A i \in Instances : pending'[i] \in {pending[i], {}}
  BY DEF DropResident, BeginRelease, TypeOK, SessionTypeOK

\* Cancelling a mailbox cancels no other less, and hands out nothing.
LEMMA CancelGivesUp ==
  ASSUME NEW w, CancelMailbox(w)
  PROVE  UNCHANGED <<ready, consumed>> /\ \A t \in Turns : cancelled[t] => cancelled'[t]
  BY DEF CancelMailbox

\* Every step of the session is a step of the notices or leaves them alone.
LEMMA NoticesStep == JobInv /\ [Next]_vars => [Notices!Next]_Notices!noticesVars
  <1> SUFFICES ASSUME JobInv, [Next]_vars
               PROVE  [Notices!Next]_Notices!noticesVars
    OBVIOUS
  <1>t. TypeOK
    BY DEF JobInv
  <1>0. resident # None => resident \in Instances
    BY <1>t, SessionAssumption DEF TypeOK, SessionTypeOK, None, Instances
  <1>g. ASSUME UNCHANGED <<run, tellings, ready, consumed>>,
               \A i \in Instances : pending'[i] \in {pending[i], {}},
               \A t \in Turns : cancelled[t] => cancelled'[t]
        PROVE  [Notices!Next]_Notices!noticesVars
    <2>1. \A j \in Jobs : LifeOf(j)' = LifeOf(j)
      BY <1>g DEF LifeOf
    <2> QED
      BY <1>g, <2>1, GiveUpRefines
  <1>c. ASSUME UNCHANGED <<run, tellings, pending>>,
               UNCHANGED <<ready, consumed>> /\ \A t \in Turns : cancelled[t] => cancelled'[t]
        PROVE  [Notices!Next]_Notices!noticesVars
    BY <1>c, <1>g
  <1>d. ASSUME UNCHANGED <<run, tellings, ready, consumed, cancelled>>,
               \/ UNCHANGED pending
               \/ resident # None /\ (DropResident(resident) \/ \E w : BeginRelease(resident, w))
        PROVE  [Notices!Next]_Notices!noticesVars
    <2>1. \A i \in Instances : pending'[i] \in {pending[i], {}}
      <3>1. CASE UNCHANGED pending
        BY <3>1
      <3>2. CASE resident # None /\ (DropResident(resident) \/ \E w : BeginRelease(resident, w))
        <4>1. PICK r \in Instances : r = resident
          BY <1>0, <3>2
        <4>2. DropResident(r) \/ \E w : BeginRelease(r, w)
          BY <3>2, <4>1
        <4> QED
          BY <1>t, <4>2, DropEmpties
      <3> QED
        BY <1>d, <3>1, <3>2
    <2> QED
      BY <1>d, <1>g, <2>1
  <1>1. ASSUME NEW t \in Turns, TurnNext(t)
        PROVE  [Notices!Next]_Notices!noticesVars
    <2>1. CASE RestoreHandedAway(t) \/ PromptRebuild(t)
      <3>1. UNCHANGED <<run, tellings, ready, consumed, cancelled>>
        BY <2>1 DEF RestoreHandedAway, PromptRebuild, runnerVars, mailboxVars
      <3>2. UNCHANGED pending \/ (resident # None /\ BeginRelease(resident, t))
        BY <2>1 DEF RestoreHandedAway, PromptRebuild
      <3> QED
        BY <1>d, <3>1, <3>2
    <2>2. CASE PromptCold(t) \/ PromptRefused(t) \/ ModelReturns(t) \/ NextSteer(t)
      <3>1. UNCHANGED <<run, tellings, ready, consumed, pending, cancelled>>
        BY <2>2 DEF PromptCold, PromptRefused, ModelReturns, NextSteer, TakeSteer,
                    FinishFrame, runnerVars, mailboxVars, sessionVars, historyVars
      <3> QED
        BY <1>c, <3>1
    <2>3. CASE PromptWarm(t) \/ Created(t)
      <3>1. UNCHANGED <<run, tellings, pending>>
        BY <2>3 DEF PromptWarm, Created, runnerVars, historyVars
      <3>2. \E i, rt : Claim(t, i, rt)
        BY <2>3 DEF PromptWarm, Created
      <3>3. UNCHANGED <<ready, consumed>> /\ \A u \in Turns : cancelled[u] => cancelled'[u]
        BY <3>2 DEF Claim, CancelMailbox, mailboxVars
      <3> QED
        BY <1>c, <3>1, <3>3
    <2>4. CASE ModelAborted(t) \/ ModelFails(t) \/ NextEnds(t) \/ DeferredFinish(t)
      <3>1. OnPromptFinish(t) \/ ActuallyFinish(t)
        BY <2>4 DEF ModelAborted, ModelFails, NextEnds, DeferredFinish
      <3>2. UNCHANGED <<ready, consumed>> /\ \A u \in Turns : cancelled[u] => cancelled'[u]
        BY <3>1 DEF OnPromptFinish, ActuallyFinish, CancelMailbox, mailboxVars
      <3>3. UNCHANGED <<run, tellings, pending>>
        BY <2>4 DEF ModelAborted, ModelFails, NextEnds, DeferredFinish, FinishFrame,
                    historyVars
      <3> QED
        BY <1>c, <3>2, <3>3
    <2>5. CASE NextResults(t)
      <3>1. /\ UNCHANGED <<run, pending, ready, cancelled>>
            /\ Tell(Batch(t)) /\ Batch(t) # {} /\ ~cancelled[t]
            /\ consumed' = [consumed EXCEPT ![t] = @ \cup Batch(t)]
        BY <2>5 DEF NextResults, ConsumeBatch, runnerVars, sessionVars
      <3>2. \A u \in Turns : Batch(u)' = IF u = t THEN {} ELSE Batch(u)
        BY <1>t, <3>1 DEF Batch, TypeOK, MailboxTypeOK
      <3>3. WaitingAt(Mailbox(t)) = Batch(t) /\ Mailbox(t) \in Places
        BY <3>1, PlaceFacts
      <3>4. ASSUME NEW p \in Places
            PROVE  WaitingAt(p)' = IF p = Mailbox(t) THEN {} ELSE WaitingAt(p)
        <4>1. ASSUME NEW i \in Instances, p = Buffer(i)
              PROVE  WaitingAt(p)' = WaitingAt(p) /\ p # Mailbox(t)
          BY <3>1, <4>1, PlaceFacts
        <4>2. ASSUME NEW u \in Turns, p = Mailbox(u)
              PROVE  WaitingAt(p)' = IF p = Mailbox(t) THEN {} ELSE WaitingAt(p)
          BY <3>1, <3>2, <4>2, PlaceFacts
        <4> QED
          BY <4>1, <4>2, PlaceFacts
      <3>5. \A j \in Jobs : LifeOf(j)' = LifeOf(j)
        BY <3>1 DEF LifeOf
      <3> QED
        BY <3>1, <3>3, <3>4, <3>5, TellRefines
    <2> QED
      BY <1>1, <2>1, <2>2, <2>3, <2>4, <2>5 DEF TurnNext
  <1>2. ASSUME NEW j \in Jobs, JobNext(j)
        PROVE  [Notices!Next]_Notices!noticesVars
    <2>1. CASE Settle(j)
      BY <1>t, <2>1, SettleRefines
    <2>2. ASSUME NEW i \in Instances, Launch(i, j) \/ LaunchUnderStop(i, j)
          PROVE  Notices!Next
      BY <2>2, LaunchRefines
    <2>3. CASE Start(j) \/ Exit(j)
      <3>1. UNCHANGED <<tellings, ready, consumed, cancelled, pending>>
        BY <2>3 DEF Start, Exit, mailboxVars, sessionVars, historyVars
      <3>2. /\ run[j] \in {"starting", "live"} /\ run'[j] \in {"live", "flushing"}
            /\ \A k \in Jobs \ {j} : run'[k] = run[k]
        BY <1>t, <2>3 DEF Start, Exit, TypeOK, RunnerTypeOK
      <3>3. \A k \in Jobs : LifeOf(k)' = LifeOf(k)
        BY <3>2 DEF LifeOf
      <3> QED
        BY <3>1, <3>3, GiveUpRefines
    <2>4. CASE JobStop(j)
      <3>1. UNCHANGED <<run, tellings, ready, consumed, cancelled, pending>>
        BY <2>4 DEF JobStop, mailboxVars, sessionVars, historyVars
      <3> QED
        BY <1>c, <3>1
    <2> QED
      BY <1>2, <2>1, <2>2, <2>3, <2>4 DEF JobNext
  <1>3. ASSUME NEW i \in Instances, InstanceNext(i)
        PROVE  [Notices!Next]_Notices!noticesVars
    <2>1. CASE FlushUnderStop(i)
      <3>1. UNCHANGED <<run, tellings>>
        BY <2>1 DEF FlushUnderStop, runnerVars
      <3>2. \A k \in Instances : pending'[k] \in {pending[k], {}}
        BY <1>t, <2>1 DEF FlushUnderStop, TypeOK, SessionTypeOK
      <3>3. \E w : CancelMailbox(w)
        BY <2>1 DEF FlushUnderStop
      <3> QED
        BY <1>g, <3>1, <3>2, <3>3, CancelGivesUp
    <2>2. CASE FlushDeliver(i)
      <3>1. /\ resident \in Instances /\ pending[resident] # {}
            /\ Tell(pending[resident])
            /\ UNCHANGED <<run, ready, consumed, cancelled>>
            /\ pending' = [pending EXCEPT ![resident] = {}]
        BY <1>0, <2>2 DEF FlushDeliver, runnerVars, mailboxVars
      <3>2. PICK r \in Instances : r = resident
        BY <3>1
      <3>3. \A k \in Instances : pending'[k] = IF k = r THEN {} ELSE pending[k]
        BY <1>t, <3>1, <3>2 DEF TypeOK, SessionTypeOK
      <3>4. WaitingAt(Buffer(r)) = pending[r] /\ Buffer(r) \in Places
        BY PlaceFacts
      <3>5. ASSUME NEW p \in Places
            PROVE  WaitingAt(p)' = IF p = Buffer(r) THEN {} ELSE WaitingAt(p)
        <4>1. ASSUME NEW k \in Instances, p = Buffer(k)
              PROVE  WaitingAt(p)' = IF p = Buffer(r) THEN {} ELSE WaitingAt(p)
          BY <3>3, <4>1, PlaceFacts
        <4>2. ASSUME NEW u \in Turns, p = Mailbox(u)
              PROVE  WaitingAt(p)' = WaitingAt(p) /\ p # Buffer(r)
          <5>1. Batch(u)' = Batch(u)
            BY <3>1 DEF Batch
          <5> QED
            BY <3>1, <4>2, <5>1, PlaceFacts
        <4> QED
          BY <4>1, <4>2, PlaceFacts
      <3>6. \A j \in Jobs : LifeOf(j)' = LifeOf(j)
        BY <3>1 DEF LifeOf
      <3> QED
        BY <3>1, <3>2, <3>4, <3>5, <3>6, TellRefines
    <2>3. CASE FlushRearm(i) \/ FlushNothing(i) \/ SyntheticEnds(i) \/ StopDrained(i)
      <3>1. UNCHANGED <<run, tellings, ready, consumed, cancelled, pending>>
        BY <2>3 DEF FlushRearm, FlushNothing, SyntheticEnds, StopDrained, runnerVars,
                    mailboxVars, sessionVars, historyVars
      <3> QED
        BY <1>c, <3>1
    <2>4. CASE Handoff(i)
      <3>1. UNCHANGED <<run, tellings, pending>> /\ \E w : CancelMailbox(w)
        BY <2>4 DEF Handoff, sessionVars, historyVars
      <3> QED
        BY <1>c, <3>1, CancelGivesUp
    <2>5. CASE ReleaseTimerFires(i)
      <3>1. UNCHANGED <<run, tellings, ready, consumed, cancelled>>
        BY <2>5 DEF ReleaseTimerFires, runnerVars, mailboxVars
      <3>2. UNCHANGED pending \/ (resident # None /\ BeginRelease(resident, NoTurn))
        BY <2>5 DEF ReleaseTimerFires
      <3> QED
        BY <1>d, <3>1, <3>2
    <2>6. ASSUME NEW w \in Turns \cup {NoTurn}, ReleaseDone(i, w)
          PROVE  [Notices!Next]_Notices!noticesVars
      <3>1. UNCHANGED <<run, tellings, ready, consumed, cancelled>>
        BY <2>6 DEF ReleaseDone, runnerVars, mailboxVars
      <3>2. \A k \in Instances : pending'[k] \in {pending[k], {}}
        BY <1>t, <2>6, DropEmpties DEF ReleaseDone
      <3> QED
        BY <1>g, <3>1, <3>2
    <2> QED
      BY <1>3, <2>1, <2>2, <2>3, <2>4, <2>5, <2>6 DEF InstanceNext
  <1>4. ASSUME NEW u \in Turns \cup {NoTurn}, Stop(u)
        PROVE  [Notices!Next]_Notices!noticesVars
    <2>1. UNCHANGED <<run, tellings>> /\ \E w : CancelMailbox(w)
      BY <1>4 DEF Stop
    <2>2. \A k \in Instances : pending'[k] \in {pending[k], {}}
      BY <1>t, <1>4 DEF Stop, TypeOK, SessionTypeOK
    <2> QED
      BY <1>g, <2>1, <2>2, CancelGivesUp
  <1>5. CASE \/ \E u \in Turns \cup {NoTurn} : StopEarly(u) \/ PendingAbortExpires(u)
             \/ Steer
             \/ Invalidate
             \/ UNCHANGED vars
    <2>1. UNCHANGED <<run, tellings, ready, consumed, cancelled, pending>>
      BY <1>5 DEF StopEarly, PendingAbortExpires, Steer, QueueSteer, Invalidate, runnerVars,
                  mailboxVars, sessionVars, historyVars, vars
    <2> QED
      BY <1>c, <2>1
  <1> QED
    BY <1>1, <1>2, <1>3, <1>4, <1>5 DEF Next

\* The session implements the abstract notices, for every deployment: a
\* completion is claimed once, waits at one place at most, and leaves it with
\* everything that waits there, told or given up.
THEOREM NoticesImplemented == Spec => ImplementsNotices
  <1>1. Init => Notices!Init
    <2> SUFFICES ASSUME Init PROVE Notices!Init
      OBVIOUS
    <2>1. \A j \in Jobs : LifeOf(j) = "ahead"
      BY DEF Init, LifeOf
    <2>2. \A p \in Places : WaitingAt(p) = {}
      <3>1. \A i \in Instances : pending[i] = {}
        BY DEF Init
      <3>2. \A t \in Turns : Batch(t) = {}
        BY DEF Init, MailboxInit, Batch
      <3> QED
        BY <3>1, <3>2, PlaceFacts
    <2> QED
      BY <2>1, <2>2 DEF Init, Notices!Init
  <1> QED
    BY <1>1, NoticesStep, JobStart, JobStep, PTL DEF Spec, ImplementsNotices, Notices!Spec

\* The invariant of the notices, read through the mapping.
LEMMA PromiseMeans ==
  /\ Notices!NoticesInv <=>
       /\ \A j \in Jobs : LifeOf(j) \in {"ahead", "due", "past"}
       /\ \A p \in Places : WaitingAt(p) \in SUBSET Jobs
       /\ tellings \in [Jobs -> Nat]
       /\ \A p, q \in Places : p # q => WaitingAt(p) \cap WaitingAt(q) = {}
       /\ \A p \in Places : \A j \in WaitingAt(p) : tellings[j] = 0
       /\ \A j \in Jobs : tellings[j] <= 1
       /\ \A j \in Jobs : LifeOf(j) # "past" =>
            tellings[j] = 0 /\ \A p \in Places : j \notin WaitingAt(p)
  /\ Notices!NoticesInv' <=>
       /\ \A j \in Jobs : LifeOf(j)' \in {"ahead", "due", "past"}
       /\ \A p \in Places : WaitingAt(p)' \in SUBSET Jobs
       /\ tellings' \in [Jobs -> Nat]
       /\ \A p, q \in Places : p # q => WaitingAt(p)' \cap WaitingAt(q)' = {}
       /\ \A p \in Places : \A j \in WaitingAt(p)' : tellings'[j] = 0
       /\ \A j \in Jobs : tellings'[j] <= 1
       /\ \A j \in Jobs : LifeOf(j)' # "past" =>
            tellings'[j] = 0 /\ \A p \in Places : j \notin WaitingAt(p)'
  BY DEF Notices!NoticesInv, Notices!OnePlaceAtATime

\* A notice that waits at one place at most, and nowhere once told: the
\* promise is kept by every step that the notices allow.
LEMMA PromiseStep ==
  Notices!NoticesInv /\ [Notices!Next]_Notices!noticesVars => Notices!NoticesInv'
  <1> SUFFICES ASSUME Notices!NoticesInv, [Notices!Next]_Notices!noticesVars
               PROVE  Notices!NoticesInv'
    OBVIOUS
  <1>1. ASSUME NEW j \in Jobs, Notices!Begin(j) \/ Notices!Refuse(j) \/ Notices!Moot(j)
        PROVE  Notices!NoticesInv'
    <2>1. /\ LifeOf(j) # "past" /\ LifeOf(j)' \in {"due", "past"}
          /\ \A k \in Jobs \ {j} : LifeOf(k)' = LifeOf(k)
          /\ \A p \in Places : WaitingAt(p)' = WaitingAt(p)
          /\ tellings' = tellings
      BY <1>1 DEF Notices!Begin, Notices!Refuse, Notices!Moot
    <2> QED
      BY <2>1, PromiseMeans
  <1>2. ASSUME NEW j \in Jobs, NEW q \in Places, Notices!Await(j, q)
        PROVE  Notices!NoticesInv'
    <2>1. /\ LifeOf(j) = "due" /\ LifeOf(j)' = "past"
          /\ \A k \in Jobs \ {j} : LifeOf(k)' = LifeOf(k)
          /\ \A p \in Places : WaitingAt(p)' = IF p = q THEN WaitingAt(p) \cup {j}
                                                        ELSE WaitingAt(p)
          /\ tellings' = tellings
      BY <1>2 DEF Notices!Await
    <2> QED
      BY <2>1, PromiseMeans
  <1>3. ASSUME NEW q \in Places, Notices!TellAll(q)
        PROVE  Notices!NoticesInv'
    <2>1. /\ \A j \in Jobs : LifeOf(j)' = LifeOf(j)
          /\ \A p \in Places : WaitingAt(p)' = IF p = q THEN {} ELSE WaitingAt(p)
          /\ tellings' = [j \in Jobs |-> IF j \in WaitingAt(q) THEN tellings[j] + 1
                                                               ELSE tellings[j]]
      BY <1>3 DEF Notices!TellAll
    <2>2. \A j \in Jobs : /\ j \in WaitingAt(q) => tellings'[j] = 1
                          /\ j \notin WaitingAt(q) => tellings'[j] = tellings[j]
      BY <2>1, PromiseMeans
    <2>3. tellings' \in [Jobs -> Nat]
      BY <2>1, PromiseMeans
    <2>4. \A p \in Places : \A j \in WaitingAt(p)' : tellings'[j] = 0
      BY <2>1, <2>2, PromiseMeans
    <2> QED
      BY <2>1, <2>2, <2>3, <2>4, PromiseMeans
  <1>4. ASSUME NEW P \in SUBSET Places, Notices!GiveUp(P)
        PROVE  Notices!NoticesInv'
    <2>1. /\ \A j \in Jobs : LifeOf(j)' = LifeOf(j)
          /\ \A p \in Places : WaitingAt(p)' = IF p \in P THEN {} ELSE WaitingAt(p)
          /\ tellings' = tellings
      BY <1>4 DEF Notices!GiveUp
    <2> QED
      BY <2>1, PromiseMeans
  <1>5. CASE UNCHANGED Notices!noticesVars
    <2>1. /\ \A j \in Jobs : LifeOf(j)' = LifeOf(j)
          /\ \A p \in Places : WaitingAt(p)' = WaitingAt(p)
          /\ tellings' = tellings
      BY <1>5 DEF Notices!noticesVars
    <2> QED
      BY <2>1, PromiseMeans
  <1> QED
    BY <1>1, <1>2, <1>3, <1>4, <1>5 DEF Notices!Next

\* What the abstract notices promise whoever implements them: a notice waits
\* at one place at most, a told one nowhere, and it is told at most once.
THEOREM NoticesPromise == Notices!Spec => []Notices!OnePlaceAtATime
  <1>1. Notices!Init => Notices!NoticesInv
    BY PromiseMeans DEF Notices!Init
  <1>2. Notices!NoticesInv => Notices!OnePlaceAtATime
    BY DEF Notices!NoticesInv
  <1> QED
    BY <1>1, <1>2, PromiseStep, PTL DEF Notices!Spec

\* So the completions of the session wait at one place at most: a synthetic
\* turn and the next() of a prompt never hold the same one.
THEOREM OnePlaceForANotice == Spec => []Notices!OnePlaceAtATime
  BY NoticesImplemented, NoticesPromise, PTL DEF ImplementsNotices

=============================================================================
