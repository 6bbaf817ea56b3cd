---------------------------- MODULE ScriptSandbox ----------------------------
(***************************************************************************)
(* The one-use sandbox instances that execute scripts: the runs of         *)
(* script-sandbox/service.ts, the warm pool of pool.ts that prepares       *)
(* instances before they are asked for, and the shutdown of both.  The     *)
(* provider behind the pool (Kubernetes, E2B) is external: start() makes   *)
(* an instance or rejects, close() destroys it or rejects, and an instance *)
(* may exit by itself.  A run asks for the mode the pool prepares, or for  *)
(* the other, which always starts an instance of its own.                  *)
(***************************************************************************)
EXTENDS Naturals, Sequences, FiniteSets, SequencesExt

CONSTANTS
    Runs,           \* script runs
    Concurrent,     \* maxConcurrentRuns
    WarmPoolSize,
    MaxInstances,   \* instances the provider makes
    MaxFailures     \* rejected starts and closes

ASSUME SandboxAssumption == {Concurrent, WarmPoolSize, MaxInstances, MaxFailures} \subseteq Nat

VARIABLES
    instance,   \* what each instance is doing, by the order of their making
    idle,       \* the warm entries of the preferred mode, oldest first
    expired,    \* entries past their expiry
    filling,    \* the fill task: where it is, and its instance once stopped
    retiring,   \* instances in the retiring map
    run,        \* the runs
    refusing,   \* the service accepts no run
    shut,       \* the pool is stopped
    closing,    \* where shutdown is
    failures

sandboxVars == <<instance, idle, expired, filling, retiring, run, refusing, shut, closing, failures>>

Instances == 1..MaxInstances
Made == {c \in Instances : instance[c] # "none"}
NoInstance == 0

Out == [at |-> "out", channel |-> NoInstance, aborted |-> FALSE]

SandboxInit ==
    /\ instance = [c \in Instances |-> "none"]
    /\ idle = <<>> /\ expired = {} /\ retiring = {}
    /\ filling = [at |-> "no", channel |-> NoInstance]
    /\ run = [r \in Runs |-> Out]
    /\ refusing = FALSE /\ shut = FALSE /\ closing = "no" /\ failures = 0

ProviderFails ==
    /\ failures < MaxFailures
    /\ failures' = failures + 1

\* provider.start() resolves: an instance more.
Makes(c, as) ==
    /\ Cardinality(Made) < MaxInstances
    /\ c = Cardinality(Made) + 1
    /\ instance' = [instance EXCEPT ![c] = as]

\* fill(): one task at a time, none while a cleanup is outstanding.
Filled(warm, retire, task) ==
    IF shut \/ task.at # "no" \/ retire # {} \/ Len(warm) >= WarmPoolSize
    THEN task
    ELSE [at |-> "starting", channel |-> NoInstance]

\* The end of the fill task: runs that joined it go on.
Woken == [r \in Runs |-> IF run[r].at = "joined" THEN [run[r] EXCEPT !.at = "shifting"] ELSE run[r]]

\* The fill task's instance is there: kept until the pool is full, or retired when
\* the pool was stopped meanwhile.
FillGets ==
    /\ filling.at = "starting"
    /\ \E c \in Instances :
           \/ /\ shut
              /\ Makes(c, "retiring")
              /\ retiring' = retiring \cup {c}
              /\ filling' = [at |-> "retiring", channel |-> c]
              /\ UNCHANGED <<idle, run>>
           \/ /\ ~shut
              /\ Makes(c, "idle")
              /\ idle' = Append(idle, c)
              /\ UNCHANGED retiring
              /\ IF Len(idle) + 1 < WarmPoolSize
                 THEN UNCHANGED <<filling, run>>
                 ELSE /\ filling' = [at |-> "no", channel |-> NoInstance]
                      /\ run' = Woken
    /\ UNCHANGED <<expired, refusing, shut, closing, failures>>

\* It is not: the warm-up failed, or shutdown aborted it.
FillFails ==
    /\ filling.at = "starting"
    /\ IF shut THEN UNCHANGED failures ELSE ProviderFails
    /\ filling' = [at |-> "no", channel |-> NoInstance]
    /\ run' = Woken
    /\ UNCHANGED <<instance, idle, expired, retiring, refusing, shut, closing>>

\* prewarm() and its timer: expired entries, the oldest, are retired, the pool is filled.
PrewarmTicks ==
    /\ ~shut
    /\ \E n \in 0..Len(idle) :
           LET old == {idle[i] : i \in 1..n}
           IN  /\ old \subseteq expired
               /\ n < Len(idle) => idle[n + 1] \notin expired
               /\ idle' = SubSeq(idle, n + 1, Len(idle))
               /\ retiring' = retiring \cup old
               /\ instance' = [c \in Instances |-> IF c \in old THEN "retiring" ELSE instance[c]]
    /\ filling' = Filled(idle', retiring', filling)
    /\ UNCHANGED <<expired, run, refusing, shut, closing, failures>>

\* Entries live equally long, so that they expire in the order of their making.
EntryExpires ==
    /\ \E i \in 1..Len(idle) :
           /\ idle[i] \notin expired
           /\ \A j \in 1..i - 1 : idle[j] \in expired
           /\ expired' = expired \cup {idle[i]}
    /\ UNCHANGED <<instance, idle, filling, retiring, run, refusing, shut, closing, failures>>

\* An idle instance exits: its entry is spliced out and retired, unless a run had it.
IdleExits ==
    /\ \E i \in 1..Len(idle) :
           /\ instance[idle[i]] = "idle"
           /\ idle' = RemoveAt(idle, i)
           /\ instance' = [instance EXCEPT ![idle[i]] = "retiring"]
           /\ retiring' = retiring \cup {idle[i]}
    /\ UNCHANGED <<expired, filling, run, refusing, shut, closing, failures>>

\* A retirement ends: a cleanup that failed stays in the map, and fails the run that
\* waited for it.
RetireEnds ==
    /\ \E c \in retiring :
           /\ instance[c] = "retiring"
           /\ \/ /\ instance' = [instance EXCEPT ![c] = "gone"]
                 /\ retiring' = retiring \ {c}
                 /\ run' = [r \in Runs |-> IF run[r].at = "retiring" /\ run[r].channel = c
                                           THEN [run[r] EXCEPT !.at = "shifting", !.channel = NoInstance]
                                           ELSE run[r]]
                 /\ UNCHANGED failures
              \/ /\ ProviderFails
                 /\ instance' = [instance EXCEPT ![c] = "stuck"]
                 /\ run' = [r \in Runs |-> IF run[r].at = "retiring" /\ run[r].channel = c
                                           THEN [run[r] EXCEPT !.at = "over", !.channel = NoInstance]
                                           ELSE run[r]]
                 /\ UNCHANGED retiring
           /\ filling' = IF filling.channel = c THEN [at |-> "no", channel |-> NoInstance] ELSE filling
    /\ UNCHANGED <<idle, expired, refusing, shut, closing>>

\* ScriptSandboxService.run(): a slot, then the broker's authorization.
ActiveRuns == {r \in Runs : run[r].at \notin {"out", "over"}}

Submit(r) ==
    /\ run[r].at = "out" /\ ~refusing
    /\ Cardinality(ActiveRuns) < Concurrent
    /\ run' = [run EXCEPT ![r].at = "authorizing"]
    /\ UNCHANGED <<instance, idle, expired, filling, retiring, refusing, shut, closing, failures>>

Refuse(r) ==
    /\ run[r].at = "authorizing"
    /\ run' = [run EXCEPT ![r].at = "over"]
    /\ UNCHANGED <<instance, idle, expired, filling, retiring, refusing, shut, closing, failures>>

\* ScriptSandboxPool.start(): a run of the preferred mode joins a fill task when
\* nothing is idle; one of the other mode starts an instance.
Enter(r) ==
    /\ run[r].at = "authorizing"
    /\ ~run[r].aborted
    /\ \E preferred \in BOOLEAN :
           run' = [run EXCEPT ![r].at = IF shut THEN "over"
                                        ELSE IF ~preferred THEN "starting"
                                        ELSE IF idle = <<>> /\ filling.at # "no" THEN "joined"
                                        ELSE "shifting"]
    /\ UNCHANGED <<instance, idle, expired, filling, retiring, refusing, shut, closing, failures>>

\* The oldest entry is taken; one that expired is retired first; with none left the
\* run starts its own.
Shift(r) ==
    /\ run[r].at = "shifting"
    /\ IF idle = <<>>
       THEN /\ run' = [run EXCEPT ![r].at = "starting"]
            /\ UNCHANGED <<instance, idle, retiring, filling>>
       ELSE LET c == Head(idle)
            IN  /\ idle' = Tail(idle)
                /\ IF c \in expired
                   THEN /\ run' = [run EXCEPT ![r].at = "retiring", ![r].channel = c]
                        /\ instance' = [instance EXCEPT ![c] = "retiring"]
                        /\ retiring' = retiring \cup {c}
                        /\ UNCHANGED filling
                   ELSE /\ run' = [run EXCEPT ![r].at = "executing", ![r].channel = c]
                        /\ instance' = [instance EXCEPT ![c] = "used"]
                        /\ filling' = Filled(Tail(idle), retiring, filling)
                        /\ UNCHANGED retiring
    /\ UNCHANGED <<expired, refusing, shut, closing, failures>>

\* A run that joined a fill task and was aborted leaves the task alone.
JoinedAborts(r) ==
    /\ run[r].at \in {"joined", "shifting"} /\ run[r].aborted
    /\ run' = [run EXCEPT ![r].at = "over"]
    /\ UNCHANGED <<instance, idle, expired, filling, retiring, refusing, shut, closing, failures>>

OwnStarts(r) ==
    /\ run[r].at = "starting"
    /\ \E c \in Instances :
           /\ Makes(c, "used")
           /\ run' = [run EXCEPT ![r].at = "executing", ![r].channel = c]
    /\ filling' = Filled(idle, retiring, filling)
    /\ UNCHANGED <<idle, expired, retiring, refusing, shut, closing, failures>>

OwnFails(r) ==
    /\ run[r].at = "starting"
    /\ IF run[r].aborted THEN UNCHANGED failures ELSE ProviderFails
    /\ run' = [run EXCEPT ![r].at = "over"]
    /\ UNCHANGED <<instance, idle, expired, filling, retiring, refusing, shut, closing>>

\* A timeout, a caller's cancellation or shutdown.
Abort(r) ==
    /\ run[r].at \notin {"out", "over"} /\ ~run[r].aborted
    /\ run' = [run EXCEPT ![r].aborted = TRUE]
    /\ UNCHANGED <<instance, idle, expired, filling, retiring, refusing, shut, closing, failures>>

\* The script ends or is aborted: the run closes its instance, whatever comes of it.
RunEnds(r) ==
    /\ run[r].at = "executing"
    /\ \/ /\ instance' = [instance EXCEPT ![run[r].channel] = "gone"]
          /\ UNCHANGED failures
       \/ /\ ProviderFails
          /\ instance' = [instance EXCEPT ![run[r].channel] = "stuck"]
    /\ run' = [run EXCEPT ![r] = [Out EXCEPT !.at = "over"]]
    /\ UNCHANGED <<idle, expired, filling, retiring, refusing, shut, closing>>

\* ScriptSandboxService.shutdown(): no new run, the active ones are aborted and awaited.
ShutdownStarts ==
    /\ closing = "no"
    /\ closing' = "runs"
    /\ refusing' = TRUE
    /\ run' = [r \in Runs |-> IF r \in ActiveRuns THEN [run[r] EXCEPT !.aborted = TRUE] ELSE run[r]]
    /\ UNCHANGED <<instance, idle, expired, filling, retiring, shut, failures>>

\* Then ScriptSandboxPool.shutdown(): the fill task is awaited, ...
PoolShutdown ==
    /\ closing = "runs" /\ ActiveRuns = {}
    /\ closing' = "filling"
    /\ shut' = TRUE
    /\ UNCHANGED <<instance, idle, expired, filling, retiring, run, refusing, failures>>

\* Mutant: the shutdown does not wait for the fill task.
RetireIdleAtOnce ==
    /\ closing = "filling"
    /\ closing' = "idle"
    /\ instance' = [c \in Instances |-> IF Contains(idle, c) THEN "retiring" ELSE instance[c]]
    /\ retiring' = retiring \cup Range(idle)
    /\ UNCHANGED <<idle, expired, filling, run, refusing, shut, failures>>

\* ... what is idle is retired, ...
RetireIdle ==
    /\ closing = "filling" /\ filling.at = "no"
    /\ closing' = "idle"
    /\ instance' = [c \in Instances |-> IF Contains(idle, c) THEN "retiring" ELSE instance[c]]
    /\ retiring' = retiring \cup Range(idle)
    /\ UNCHANGED <<idle, expired, filling, run, refusing, shut, failures>>

\* ... and what a cleanup left is closed once more.
CloseAgain ==
    /\ closing = "idle"
    /\ \A c \in Range(idle) : instance[c] # "retiring"
    /\ closing' = "again"
    /\ instance' = [c \in Instances |-> IF c \in retiring THEN "retiring" ELSE instance[c]]
    /\ UNCHANGED <<idle, expired, filling, retiring, run, refusing, shut, failures>>

ShutdownEnds ==
    /\ closing = "again"
    /\ \A c \in retiring : instance[c] # "retiring"
    /\ closing' = "done"
    /\ retiring' = {} /\ idle' = <<>>
    /\ UNCHANGED <<instance, expired, filling, run, refusing, shut, failures>>

SandboxNext ==
    \/ FillGets \/ FillFails \/ PrewarmTicks \/ EntryExpires \/ IdleExits \/ RetireEnds
    \/ \E r \in Runs : \/ Submit(r) \/ Refuse(r) \/ Enter(r) \/ Shift(r) \/ JoinedAborts(r)
                       \/ OwnStarts(r) \/ OwnFails(r) \/ Abort(r) \/ RunEnds(r)
    \/ ShutdownStarts \/ PoolShutdown \/ RetireIdle \/ CloseAgain \/ ShutdownEnds

SandboxSpec == SandboxInit /\ [][SandboxNext]_sandboxVars

------------------------------------------------------------------------------

\* The types of the pool, its instances and the runs.
SandboxTypeOK ==
    /\ instance \in [Instances -> {"none", "idle", "used", "retiring", "stuck", "gone"}]
    /\ {idle} \subseteq Seq(Instances) /\ IsInjective(idle)
    /\ expired \subseteq Instances /\ retiring \subseteq Instances
    /\ filling \in [at : {"no", "starting", "retiring"}, channel : Instances \cup {NoInstance}]
    /\ run \in [Runs -> [at : {"out", "authorizing", "joined", "shifting", "retiring", "starting",
                               "executing", "over"},
                         channel : Instances \cup {NoInstance}, aborted : BOOLEAN]]
    /\ {refusing, shut} \subseteq BOOLEAN
    /\ closing \in {"no", "runs", "filling", "idle", "again", "done"}
    /\ failures \in 0..MaxFailures
    /\ Cardinality(ActiveRuns) <= Concurrent
    /\ Len(idle) <= WarmPoolSize

\* An instance a run executes on is its own: no other run has it, it is not idle and
\* nobody is destroying it; and once the service has shut down, every instance that was
\* made is destroyed, or its destruction was tried and failed.
InstanceIsSpentOnce ==
    /\ \A r \in Runs : run[r].at = "executing" =>
           /\ instance[run[r].channel] = "used"
           /\ ~Contains(idle, run[r].channel) /\ run[r].channel \notin retiring
           /\ \A q \in Runs : q # r => run[q].channel # run[r].channel
    /\ closing = "done" => \A c \in Instances : instance[c] \in {"none", "gone", "stuck"}

==============================================================================
