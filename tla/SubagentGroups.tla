--------------------------- MODULE SubagentGroups ---------------------------
(***************************************************************************)
(* Sub-agent fan-out in one AgentBox (src/agentbox/session.ts:             *)
(* createSpawnSubagentExecutor, runSubagentGroup, startBackgroundSubagent): *)
(* single children and map-reduce batches compete for the slots of their   *)
(* session and of the box through nested ConcurrencyLimiters.  A batch has *)
(* its own worker pool, a circuit breaker, a timer and a cancel signal,    *)
(* runs its items, and then perhaps one reduce child.                      *)
(*                                                                         *)
(* A client of the limiters is a child: an item, a single spawn, or the    *)
(* reduce child of a batch, which is named like the batch.  It climbs a    *)
(* ladder of limiters, runs at the top, and gives the slots back on its    *)
(* way down; each await on the way is a step of its own.                   *)
(***************************************************************************)
EXTENDS ConcurrencyLimiter, FiniteSets, FiniteSetsExt, SequencesExt

CONSTANTS
    Owners,      \* sessions, or the shared limiter of children without one
    Groups,      \* batches; also the names of their pools and reduce children
    ItemsOf,     \* the items of a batch, in submission order
    Singles,     \* single spawns
    OwnerOf,     \* the limiter a batch or single spawn belongs to
    Reducing,    \* batches with a reduce prompt
    GroupGate,   \* podGroupLimiter
    PodGate,     \* podSubagentLimiter
    SessionCap,  \* getSubagentConcurrency()
    PodCap,      \* getSubagentPodConcurrency()
    Window       \* the circuit breaker's window (5)

ASSUME CapAssumption ==
    /\ SessionCap \in Nat \ {0} /\ PodCap \in Nat \ {0} /\ Window \in Nat \ {0}
    /\ ItemsOf \in [Groups -> Seq(Clients)] /\ \A g \in Groups : ItemsOf[g] # <<>>
    /\ OwnerOf \in [Groups \cup Singles -> Owners]
    /\ Reducing \subseteq Groups
    /\ Limiters = Owners \cup Groups \cup {GroupGate, PodGate}
    /\ Clients = Groups \cup Singles \cup UNION {ToSet(ItemsOf[g]) : g \in Groups}

Items(g) == ToSet(ItemsOf[g])
AllItems == UNION {Items(g) : g \in Groups}
GroupOf(c) == CHOOSE g \in Groups : c \in Items(g)

\* Every child, batch and limiter is an object of its own, and an item is
\* submitted once.
ASSUME NamesAssumption ==
    /\ IsFiniteSet(Clients)
    /\ \A g \in Groups : \A i, j \in 1..Len(ItemsOf[g]) : ItemsOf[g][i] = ItemsOf[g][j] => i = j
    /\ \A g, h \in Groups : g # h => Items(g) \cap Items(h) = {}
    /\ Groups \cap Singles = {} /\ AllItems \cap (Groups \cup Singles) = {}
    /\ Owners \cap Groups = {}
    /\ {GroupGate, PodGate} \cap (Owners \cup Groups) = {} /\ GroupGate # PodGate

VARIABLES
    rung,        \* how many limiters of its ladder a child holds
    at,          \* "idle", "queued", "granted", "running", "leaving", "over"
    item,        \* status of an item
    result,      \* what a child's run returned
    phase,       \* "new", "map", "reduce", "over"
    userAbort,   \* userAbort.signal.aborted
    mapAbort,    \* mapAbort.signal.aborted
    timedOut,    \* the group timer fired
    completed,   \* GroupCircuitBreaker fields
    failed,
    succeeded,
    trippedAtWindow,
    verdict      \* the status the batch reports

climbVars == <<rung, at>>
breakerVars == <<completed, failed, succeeded, trippedAtWindow>>
groupVars == <<phase, userAbort, mapAbort, timedOut, verdict>>
vars == <<limiterVars, climbVars, item, result, breakerVars, groupVars>>

\* "failed" also stands for timed_out, which the breaker counts alike.
Outcomes == {"done", "failed", "partial"}
ItemStatus == {"queued", "running", "skipped"} \cup Outcomes

TypeOK ==
    /\ LimiterTypeOK
    /\ rung \in [Clients -> 0..4]
    /\ at \in [Clients -> {"idle", "queued", "granted", "running", "leaving", "over"}]
    /\ item \in [AllItems -> ItemStatus]
    /\ result \in [Clients -> {"none", "skipped"} \cup Outcomes]
    /\ phase \in [Groups -> {"new", "map", "reduce", "over"}]
    /\ userAbort \in [Groups -> BOOLEAN]
    /\ mapAbort \in [Groups -> BOOLEAN]
    /\ timedOut \in [Groups -> BOOLEAN]
    /\ completed \in [Groups -> Nat]
    /\ failed \in [Groups -> Nat]
    /\ succeeded \in [Groups -> Nat]
    /\ trippedAtWindow \in [Groups -> BOOLEAN]
    /\ verdict \in [Groups -> {"none", "done", "partial", "failed", "timed_out"}]

Init ==
    /\ LimiterInit
    /\ rung = [c \in Clients |-> 0]
    /\ at = [c \in Clients |-> "idle"]
    /\ item = [c \in AllItems |-> "queued"]
    /\ result = [c \in Clients |-> "none"]
    /\ phase = [g \in Groups |-> "new"]
    /\ userAbort = [g \in Groups |-> FALSE]
    /\ mapAbort = [g \in Groups |-> FALSE]
    /\ timedOut = [g \in Groups |-> FALSE]
    /\ completed = [g \in Groups |-> 0]
    /\ failed = [g \in Groups |-> 0]
    /\ succeeded = [g \in Groups |-> 0]
    /\ trippedAtWindow = [g \in Groups |-> FALSE]
    /\ verdict = [g \in Groups |-> "none"]

----------------------------------------------------------------------------
(* Limits and ladders.                                                     *)

AtLeastOne(n) == IF n < 1 THEN 1 ELSE n

\* The capacity of a limiter: a batch's pool stays one below its session's
\* cap, the batches together one below the box's.
Limit(l) ==
    IF l = PodGate THEN PodCap
    ELSE IF l = GroupGate THEN AtLeastOne(PodCap - 1)
    ELSE IF l \in Groups
         THEN LET share == AtLeastOne(SessionCap - 1)
              IN  IF Len(ItemsOf[l]) < share THEN Len(ItemsOf[l]) ELSE share
         ELSE SessionCap

\* Mutant: an item takes its slot of the box before that of its session.
LadderPodFirst(c) ==
    IF c \in Singles THEN <<OwnerOf[c], PodGate>>
    ELSE IF c \in Groups THEN <<GroupGate, OwnerOf[c], PodGate>>
    ELSE <<GroupOf(c), GroupGate, PodGate, OwnerOf[GroupOf(c)]>>

\* The limiters a child goes through: pool, then group -> session -> pod.
Ladder(c) ==
    IF c \in Singles THEN <<OwnerOf[c], PodGate>>
    ELSE IF c \in Groups THEN <<GroupGate, OwnerOf[c], PodGate>>
    ELSE <<GroupOf(c), GroupGate, OwnerOf[GroupOf(c)], PodGate>>

Holds(c, l) == \E r \in 1..rung[c] : Ladder(c)[r] = l

\* Child c asks for the next limiter of its ladder.
AskNext(c) ==
    LET l == Ladder(c)[rung[c] + 1]
    IN  \/ /\ AcquireNow(l, Limit(l))
           /\ rung' = [rung EXCEPT ![c] = @ + 1]
           /\ at' = [at EXCEPT ![c] = "granted"]
        \/ /\ AcquireLater(l, Limit(l), c)
           /\ at' = [at EXCEPT ![c] = "queued"]
           /\ UNCHANGED rung

AtTop(c) == rung[c] = Len(Ladder(c))

\* Mutant: a success after the window does not close the breaker again.
TrippedForGood(g) == trippedAtWindow[g]

\* GroupCircuitBreaker.tripped
tripped(g) == trippedAtWindow[g] /\ succeeded[g] = 0

----------------------------------------------------------------------------
(* The way of a child.                                                     *)

StartSingle(c) ==
    /\ at[c] = "idle" /\ c \in Singles
    /\ AskNext(c)
    /\ UNCHANGED <<item, result, breakerVars, groupVars>>

\* Promise.all over the items: the pool takes as many as it may, the others
\* queue in order.
StartGroup(g) ==
    LET share == Limit(g)
        first == ToSet(SubSeq(ItemsOf[g], 1, share))
    IN  /\ phase[g] = "new"
        /\ phase' = [phase EXCEPT ![g] = "map"]
        /\ active' = [active EXCEPT ![g] = share]
        /\ queue' = [queue EXCEPT ![g] = SubSeq(ItemsOf[g], share + 1, Len(ItemsOf[g]))]
        /\ rung' = [c \in Clients |-> IF c \in first THEN 1 ELSE rung[c]]
        /\ at' = [c \in Clients |-> IF c \in first THEN "granted"
                                    ELSE IF c \in Items(g) THEN "queued" ELSE at[c]]
        /\ UNCHANGED <<item, result, breakerVars, userAbort, mapAbort, timedOut, verdict>>

\* Does runOne() skip item c before it asks for a slot?
SkippedEarly(c) ==
    c \in AllItems /\ rung[c] = 1 /\ (mapAbort[GroupOf(c)] \/ tripped(GroupOf(c)))

\* The next limiter of the ladder.
Climb(c) ==
    /\ at[c] = "granted" /\ ~AtTop(c)
    /\ ~SkippedEarly(c)
    /\ AskNext(c)
    /\ UNCHANGED <<item, result, breakerVars, groupVars>>

SkipEarly(c) ==
    /\ at[c] = "granted" /\ SkippedEarly(c)
    /\ at' = [at EXCEPT ![c] = "leaving"]
    /\ item' = [item EXCEPT ![c] = "skipped"]
    /\ result' = [result EXCEPT ![c] = "skipped"]
    /\ UNCHANGED <<limiterVars, rung, breakerVars, groupVars>>

\* Mutant: no second look at the abort signal once the slot is there.
SkippedInSlotNever(c) == FALSE

\* The second look, with the slot in hand.
SkippedInSlot(c) == c \in AllItems /\ mapAbort[GroupOf(c)]

\* All slots are there: the child runs, unless the batch was aborted.
EnterSlot(c) ==
    /\ at[c] = "granted" /\ AtTop(c)
    /\ IF SkippedInSlot(c)
       THEN /\ at' = [at EXCEPT ![c] = "leaving"]
            /\ result' = [result EXCEPT ![c] = "skipped"]
            /\ UNCHANGED item
       ELSE /\ at' = [at EXCEPT ![c] = "running"]
            /\ item' = [d \in AllItems |-> IF d = c THEN "running" ELSE item[d]]
            /\ UNCHANGED result
    /\ UNCHANGED <<limiterVars, rung, breakerVars, groupVars>>

\* runSpawnedSubagent() returns, in whatever way.
ChildEnds(c) ==
    /\ at[c] = "running"
    /\ at' = [at EXCEPT ![c] = "leaving"]
    /\ \E o \in Outcomes : result' = [result EXCEPT ![c] = o]
    /\ UNCHANGED <<limiterVars, rung, item, breakerVars, groupVars>>

\* An item whose slots are given back, all but its place in the pool, still
\* has its result to record.
MustRecord(c) ==
    c \in AllItems /\ rung[c] = 1 /\ item[c] \in {"queued", "running"}

\* runOne() after the slots: the status, breaker.record(), and the abort of
\* the map phase when the breaker trips.
Record(c) ==
    LET g == GroupOf(c)
        counts == result[c] # "skipped"
    IN  /\ at[c] = "leaving" /\ MustRecord(c)
        /\ item' = [item EXCEPT ![c] = result[c]]
        /\ completed' = [completed EXCEPT ![g] = @ + IF counts THEN 1 ELSE 0]
        /\ failed' = [failed EXCEPT ![g] = @ + IF result[c] = "failed" THEN 1 ELSE 0]
        /\ succeeded' = [succeeded EXCEPT ![g] = @ + IF result[c] = "done" THEN 1 ELSE 0]
        /\ trippedAtWindow' = [trippedAtWindow EXCEPT ![g] =
                @ \/ (counts /\ completed'[g] = Window /\ failed'[g] = Window)]
        /\ mapAbort' = [mapAbort EXCEPT ![g] =
                @ \/ (counts /\ trippedAtWindow'[g] /\ succeeded'[g] = 0)]
        /\ UNCHANGED <<limiterVars, climbVars, result, phase, userAbort, timedOut, verdict>>

\* The finally of run(): the topmost slot goes back, its waiter goes on.
LeaveSlot(c) ==
    LET l == Ladder(c)[rung[c]] IN
    /\ at[c] = "leaving" /\ ~MustRecord(c)
    /\ ReleaseSlot(l)
    /\ rung' = [d \in Clients |-> IF d = c THEN rung[c] - 1
                                  ELSE IF Resumed(l, d) THEN rung[d] + 1 ELSE rung[d]]
    /\ at' = [d \in Clients |-> IF d = c THEN (IF rung[c] = 1 THEN "over" ELSE "leaving")
                                ELSE IF Resumed(l, d) THEN "granted" ELSE at[d]]
    /\ UNCHANGED <<item, result, breakerVars, groupVars>>

----------------------------------------------------------------------------
(* The batch.                                                              *)

DoneItems(g) == {c \in Items(g) : item[c] = "done"}
UsableItems(g) == {c \in Items(g) : item[c] \in {"done", "partial"}}

\* The status ladder; reduced is how the reduce stage went: "none", "done",
\* "failed" or "cancelled".
Verdict(g, reduced) ==
    IF tripped(g) THEN "failed"
    ELSE IF DoneItems(g) = Items(g)
         THEN IF reduced \in {"failed", "cancelled"} THEN "partial" ELSE "done"
    ELSE IF UsableItems(g) = {} THEN "failed"
    ELSE IF userAbort[g] THEN "partial"
    ELSE IF timedOut[g] THEN "timed_out" ELSE "partial"

MapOver(g) == phase[g] = "map" /\ \A c \in Items(g) : at[c] = "over"

\* Is there something to synthesise, and nobody who cancelled it?
Reduces(g) ==
    g \in Reducing /\ ~userAbort[g] /\ DoneItems(g) # {} /\ ~tripped(g)

\* The map phase has drained and the timer is disarmed: the reduce child asks
\* for its slots.
StartReduce(g) ==
    /\ MapOver(g) /\ Reduces(g)
    /\ phase' = [phase EXCEPT ![g] = "reduce"]
    /\ AskNext(g)
    /\ UNCHANGED <<item, result, breakerVars, userAbort, mapAbort, timedOut, verdict>>

\* No reduce stage: report.
EndWithoutReduce(g) ==
    /\ MapOver(g) /\ ~Reduces(g)
    /\ phase' = [phase EXCEPT ![g] = "over"]
    /\ verdict' = [verdict EXCEPT ![g] =
            Verdict(g, IF g \in Reducing /\ userAbort[g] THEN "cancelled" ELSE "none")]
    /\ UNCHANGED <<limiterVars, climbVars, item, result, breakerVars, userAbort,
                   mapAbort, timedOut>>

EndAfterReduce(g) ==
    /\ phase[g] = "reduce" /\ at[g] = "over"
    /\ phase' = [phase EXCEPT ![g] = "over"]
    /\ verdict' = [verdict EXCEPT ![g] =
            Verdict(g, IF result[g] = "done" THEN "done" ELSE "failed")]
    /\ UNCHANGED <<limiterVars, climbVars, item, result, breakerVars, userAbort,
                   mapAbort, timedOut>>

\* A user Stop or job_stop of the batch, or the end of the parent's turn.
CancelGroup(g) ==
    /\ phase[g] \in {"map", "reduce"} /\ ~userAbort[g]
    /\ userAbort' = [userAbort EXCEPT ![g] = TRUE]
    /\ mapAbort' = [mapAbort EXCEPT ![g] = TRUE]
    /\ UNCHANGED <<limiterVars, climbVars, item, result, breakerVars, phase, timedOut, verdict>>

\* The batch's timer, armed during the map phase.  A drained map disarms it in
\* the microtask that follows.
GroupTimer(g) ==
    /\ phase[g] = "map" /\ ~MapOver(g) /\ ~timedOut[g]
    /\ timedOut' = [timedOut EXCEPT ![g] = TRUE]
    /\ mapAbort' = [mapAbort EXCEPT ![g] = TRUE]
    /\ UNCHANGED <<limiterVars, climbVars, item, result, breakerVars, phase, userAbort, verdict>>

----------------------------------------------------------------------------

ChildStep(c) ==
    \/ Climb(c) \/ SkipEarly(c) \/ EnterSlot(c) \/ ChildEnds(c) \/ Record(c) \/ LeaveSlot(c)

GroupStep(g) == StartReduce(g) \/ EndWithoutReduce(g) \/ EndAfterReduce(g)

Next ==
    \/ \E c \in Clients : StartSingle(c) \/ ChildStep(c)
    \/ \E g \in Groups : StartGroup(g) \/ GroupStep(g) \/ CancelGroup(g) \/ GroupTimer(g)

Spec == Init /\ [][Next]_vars

\* Promises settle and a child ends: it has a backstop timer of its own.
Fairness ==
    /\ \A c \in Clients : WF_vars(ChildStep(c))
    /\ \A g \in Groups : WF_vars(GroupStep(g))

FairSpec == Spec /\ Fairness

----------------------------------------------------------------------------
(* What fan-out promises.                                                  *)

\* A limiter counts the children that hold one of its slots, within its limit,
\* and children queue only when it is full: no slot leaks, none is given
\* twice, nobody is left waiting at a free one.
SlotsAreExact ==
    \A l \in Limiters :
        /\ active[l] = Cardinality({c \in Clients : Holds(c, l)})
        /\ active[l] <= Limit(l)
        /\ queue[l] # <<>> => active[l] = Limit(l)

\* Batches never take the whole box: a single spawn finds a slot that no batch
\* can hold, and in its session one that a single batch cannot hold.
SpawnKeepsASlot ==
    /\ PodCap > 1 =>
        Cardinality({c \in Clients \ Singles : Holds(c, PodGate)}) < PodCap
    /\ SessionCap > 1 => \A g \in Groups :
        Cardinality({c \in Items(g) : Holds(c, OwnerOf[g])}) < SessionCap

\* Slots are neither lost nor given twice, and batches leave some; limiters and
\* children keep their types.
SlotsAreSound == TypeOK /\ SlotsAreExact /\ SpawnKeepsASlot

\* No child of a batch starts once its map phase is aborted, by the user, the
\* timer or the breaker, however long the item queued for its slot.
NoItemStartsAfterAbort ==
    [][\A g \in Groups : mapAbort[g] =>
          \A c \in Items(g) : at[c] # "running" => at'[c] # "running"]_vars

\* "A cancellation stub can never fabricate a reduce over nothing": a reduce
\* child exists only when every item has its status and one of them is done.
ReduceHasInput ==
    \A g \in Groups : at[g] # "idle" =>
        /\ \A c \in Items(g) : item[c] \notin {"queued", "running"}
        /\ \E c \in Items(g) : item[c] = "done"

\* What a batch reports agrees with its items: it failed only if none of them
\* is done (a success that comes in after the breaker tripped releases it), it
\* is done only if all of them are and its reduce child, if there was to be one,
\* completed, and no item is left without a terminal status.
VerdictIsHonest ==
    \A g \in Groups : phase[g] = "over" =>
        /\ \A c \in Items(g) : item[c] \notin {"queued", "running"}
        /\ verdict[g] = "failed" => DoneItems(g) = {}
        /\ verdict[g] = "done" => /\ DoneItems(g) = Items(g)
                                  /\ g \in Reducing => result[g] = "done"
        /\ verdict[g] = "timed_out" => timedOut[g] /\ ~userAbort[g]

\* Neither the reduce child nor the verdict of a batch is made up.
BatchIsHonest == ReduceHasInput /\ VerdictIsHonest

\* Nested limiters do not block each other for ever: every batch reports and
\* every single spawn ends.
EveryBatchEnds == \A g \in Groups : phase[g] = "map" ~> phase[g] = "over"
EverySpawnEnds == \A c \in Singles : at[c] # "idle" ~> at[c] = "over"
FanoutEnds == EveryBatchEnds /\ EverySpawnEnds

=============================================================================
