-------------------------- MODULE PlanWrites_proofs --------------------------
(***************************************************************************)
(* Proofs about PlanWrites, for any numbers of tasks, tool calls and       *)
(* losses: its types, that the snapshot file of a quiet writer holds the   *)
(* plan, and that the log and the events on their way to it rebuild it.    *)
(***************************************************************************)
EXTENDS PlanWrites, SequenceTheorems, WellFoundedInduction, TLAPS

----------------------------------------------------------------------------
(* The greatest id: least elements exist because < on Nat is well founded. *)

\* The library's order on Nat, as some well-founded relation.
LEMMA LessThanIsWellFounded ==
  \E R : IsWellFoundedOn(R, Nat) /\ \A x, y \in Nat : x < y => <<x, y>> \in R
  <1>1. IsWellFoundedOn(OpToRel(<, Nat), Nat)
    BY NatLessThanWellFounded, Zenon
  <1>2. \A x, y \in Nat : x < y => <<x, y>> \in OpToRel(<, Nat)
    BY DEF OpToRel
  <1> QED
    BY <1>1, <1>2, Zenon

\* Some numbers have a least one.
LEMMA LeastExists ==
  ASSUME NEW U \in SUBSET Nat, U # {}
  PROVE  \E x \in U : \A y \in U : x <= y
  <1>1. PICK R : IsWellFoundedOn(R, Nat) /\ \A x, y \in Nat : x < y => <<x, y>> \in R
    BY LessThanIsWellFounded
  <1>2. IsWellFoundedOn(R, Nat) /\ U \subseteq Nat
    BY <1>1
  <1>3. PICK x \in U : \A y \in U : ~(<<y, x>> \in R)
    BY <1>2, WFMin
  <1>4. \A y \in U : ~(y < x)
    BY <1>1, <1>3
  <1> QED
    BY <1>3, <1>4

\* Some tasks have a highest id: the one at the least distance from MaxTasks.
LEMMA HighestExists ==
  ASSUME NEW s \in SUBSET Ids, s # {}
  PROVE  \E t \in s : \A u \in s : u <= t
  <1> DEFINE T == {MaxTasks - t : t \in s}
  <1> MaxTasks \in Nat
    BY PlanAssumption
  <1>1. \A t \in s : t \in 1..MaxTasks
    BY DEF Ids
  <1>2. \A t \in s : MaxTasks - t \in Nat
    BY <1>1
  <1>3. T \in SUBSET Nat /\ T # {}
    BY <1>2
  <1>4. PICK x \in T : \A y \in T : x <= y
    BY <1>3, LeastExists
  <1>5. PICK t \in s : x = MaxTasks - t
    BY <1>4
  <1>6. ASSUME NEW u \in s PROVE u <= t
    <2>1. MaxTasks - t <= MaxTasks - u
      BY <1>4, <1>5
    <2> QED
      BY <2>1, <1>1
  <1> QED
    BY <1>6

\* hydrate() leaves an id of the ledger, or 0, in seq.
LEMMA HighWaterType ==
  ASSUME NEW s \in SUBSET Ids
  PROVE  HighWater(s) \in 0..MaxTasks
  <1> MaxTasks \in Nat
    BY PlanAssumption
  <1>1. CASE s = {}
    BY <1>1 DEF HighWater
  <1>2. CASE s # {}
    <2>1. \E t \in s : \A u \in s : u <= t
      BY <1>2, HighestExists
    <2>2. HighWater(s) \in s
      BY <1>2, <2>1 DEF HighWater
    <2>3. HighWater(s) \in 1..MaxTasks
      BY <2>2 DEF Ids
    <2> QED
      BY <2>3
  <1> QED
    BY <1>1, <1>2

----------------------------------------------------------------------------
(* Types.                                                                  *)

\* Every event that is being sent has been serialised: it names no live task.
SentIsSerialised == \A i \in DOMAIN sending : sending[i].to # "live"

PlanTyped == PlanTypeOK /\ SentIsSerialised

\* A serialised event is an event, of a task as it is.
LEMMA BodyType ==
  ASSUME plan \in Plan, NEW e \in Event
  PROVE  Body(e) \in Event /\ Body(e).to # "live"
  <1>1. CASE e.to = "live"
    <2>1. e \in [task : Ids, to : {"live", "pending", "completed", "none"}]
      BY <1>1 DEF Event
    <2>2. e.task \in Ids /\ plan[e.task] \in Status
      BY <2>1 DEF Plan
    <2>3. [e EXCEPT !.to = plan[e.task]] \in [task : Ids, to : Status]
      BY <2>1, <2>2
    <2>4. Body(e) \in [task : Ids, to : Status]
      BY <1>1, <2>3 DEF Body
    <2> QED
      BY <2>4 DEF Event, Status
  <1>2. CASE e.to # "live"
    BY <1>2 DEF Body
  <1> QED
    BY <1>1, <1>2

\* Freezing keeps a queue of events.
LEMMA FreezeType ==
  ASSUME plan \in Plan, NEW q \in Seq(Event), NEW gone
  PROVE  Freeze(q, gone) \in Seq(Event)
  <1>1. \A i \in DOMAIN q : q[i] \in Event
    OBVIOUS
  <1>2. \A i \in DOMAIN q : Body(q[i]) \in Event
    BY <1>1, BodyType
  <1>3. Freeze(q, gone) \in [1..Len(q) -> Event]
    BY <1>1, <1>2 DEF Freeze
  <1> QED
    BY <1>3

\* Replaying an event keeps the log's plan a plan.
LEMMA ReplayType ==
  ASSUME logged \in [plan : Plan, high : 0..MaxTasks, any : BOOLEAN],
         NEW e \in Event, e.to # "live"
  PROVE  Replay(logged, e) \in [plan : Plan, high : 0..MaxTasks, any : BOOLEAN]
  <1> MaxTasks \in Nat
    BY PlanAssumption
  <1>1. CASE e.to = "reset"
    BY <1>1 DEF Replay, Event, Plan, Status, Empty, Ids
  <1>2. CASE e.to # "reset"
    <2>1. e.task \in Ids /\ e.to \in Status
      BY <1>2 DEF Event, Status
    <2>2. [logged.plan EXCEPT ![e.task] = e.to] \in Plan
      BY <2>1 DEF Plan
    <2> QED
      BY <1>2, <2>1, <2>2 DEF Replay, Ids
  <1> QED
    BY <1>1, <1>2

\* What Emit() leaves behind.
EmitEffect ==
    /\ {held', hide', again', orphaned'} \subseteq BOOLEAN
    /\ plan' \in Plan
    /\ chain' \in Seq(Event)
    /\ flight' \in [state : {"idle", "data", "nothing"}, plan : Plan]
    /\ flight'.state # "idle"

\* What a tool call or the timer emits leaves everything it touches well typed.
LEMMA EmitTyped ==
  ASSUME PlanTypeOK, NEW events \in Seq(Event), NEW n \in Nat \ {0},
         NEW plans \in [1..n -> Plan], Emit(events, plans)
  PROVE  EmitEffect
  <1> USE DEF PlanTypeOK, Emit, EmitEffect
  <1>0. Len(plans) = n
    OBVIOUS
  <1>1. plan' \in Plan /\ plans[1] \in Plan
    BY <1>0
  <1>2. chain' \in Seq(Event)
    <2>1. Freeze(chain, {t \in Tasks(Held) : plans[Len(plans)][t] = "none"}) \in Seq(Event)
      BY FreezeType
    <2> QED
      BY <2>1
  <1>3. {again'} \subseteq BOOLEAN
        /\ flight' \in [state : {"idle", "data", "nothing"}, plan : Plan]
        /\ flight'.state # "idle"
    BY <1>1 DEF Snapshot, WriteOf
  <1>4. {held', hide', orphaned'} \subseteq BOOLEAN
    BY DEF AllCompleted
  <1> QED
    BY <1>1, <1>2, <1>3, <1>4

\* The initial state is well typed.
LEMMA PlanInitTyped == PlanInit => PlanTyped
  <1> SUFFICES ASSUME PlanInit PROVE PlanTyped
    OBVIOUS
  <1>1. Empty \in Plan
    BY DEF Empty, Plan, Status
  <1> USE DEF PlanInit
  <1>2. 0 \in 0..MaxTasks /\ 0 \in 0..MaxChanges /\ 0 \in 0..MaxLosses
    BY PlanAssumption
  <1>3. chain \in Seq(Event) /\ sending \in Seq(Event) /\ Len(sending) <= 1
    OBVIOUS
  <1>4. logged \in [plan : Plan, high : 0..MaxTasks, any : BOOLEAN]
    BY <1>1, <1>2
  <1>5. flight \in [state : {"idle", "data", "nothing"}, plan : Plan]
    BY <1>1 DEF Idle
  <1>6. draining \in [open : BOOLEAN, events : Nat, snapshot : BOOLEAN] /\ ~draining.snapshot
    BY DEF NotClosing
  <1>7. {held, hide, again, resident, prompting, unsaved, unlogged, orphaned} \subseteq BOOLEAN
        /\ ~again
    OBVIOUS
  <1>8. PlanTypeOK
    BY <1>1, <1>2, <1>3, <1>4, <1>5, <1>6, <1>7 DEF PlanTypeOK
  <1>9. SentIsSerialised
    BY DEF SentIsSerialised
  <1> QED
    BY <1>8, <1>9 DEF PlanTyped

\* What a tool finds is a plan, and a number of tasks.
LEMMA HeldType ==
  ASSUME PlanTypeOK
  PROVE  Held \in Plan /\ Numbered \in 0..MaxTasks
  <1> MaxTasks \in Nat
    BY PlanAssumption
  <1>1. Empty \in Plan
    BY DEF Empty, Plan, Status
  <1> QED
    BY <1>1 DEF Held, Numbered, PlanTypeOK

\* Every step keeps the types.
LEMMA PlanNextTyped ==
  ASSUME PlanTyped, [PlanNext]_planVars
  PROVE  PlanTyped'
  <1> MaxTasks \in Nat /\ MaxChanges \in Nat /\ MaxLosses \in Nat
    BY PlanAssumption
  <1> USE DEF PlanTyped
  <1>1. CASE TaskCreate
    <2>1. PICK n \in 1..2 :
            /\ Tool
            /\ Numbered + n <= MaxTasks
            /\ seq' = Numbered + n
            /\ Emit([i \in 1..n |-> Upsert(Numbered + i)], Created(n))
            /\ UNCHANGED <<sending, logged, file, resident, prompting, draining, losses, unsaved, unlogged>>
      BY <1>1, Zenon DEF TaskCreate
    <2> DEFINE events == [i \in 1..n |-> Upsert(Numbered + i)]
               plans == Created(n)
    <2>2. Held \in Plan /\ Numbered \in 0..MaxTasks
      BY HeldType
    <2>3. events \in Seq(Event)
      <3>1. \A i \in 1..n : Numbered + i \in Ids
        BY <2>1, <2>2 DEF Ids
      <3>2. \A i \in 1..n : Upsert(Numbered + i) \in Event
        BY <3>1 DEF Upsert, Event
      <3> QED
        BY <3>2
    <2>4. plans \in [1..n -> Plan]
      BY <2>2 DEF Created, Plan, Status
    <2>5. n \in Nat \ {0} /\ Emit(events, plans)
      BY <2>1
    <2> HIDE DEF events, plans
    <2>6. EmitEffect
      BY <2>3, <2>4, <2>5, EmitTyped DEF EmitEffect
    <2> QED
      BY <2>1, <2>2, <2>6 DEF Tool, PlanTypeOK, SentIsSerialised, EmitEffect
  <1>2. CASE TaskUpdate
    <2>0. PICK s \in {<<t>> : t \in Ids} \cup {<<t, u>> : t, u \in Ids}, to \in Status :
                 UpdateTasks(s, to)
      BY <1>2 DEF TaskUpdate
    <2>1. /\ Tool
          /\ Emit([i \in DOMAIN s |-> UpdateOf(s[i], to)], Updated(s, to))
          /\ seq' = Numbered
          /\ UNCHANGED <<sending, logged, file, resident, prompting, draining, losses, unsaved, unlogged>>
      BY <2>0 DEF UpdateTasks
    <2> DEFINE events == [i \in DOMAIN s |-> UpdateOf(s[i], to)]
               plans == Updated(s, to)
    <2>2. Held \in Plan /\ Numbered \in 0..MaxTasks
      BY HeldType
    <2>3. PICK n \in {1, 2} : DOMAIN s = 1..n /\ \A i \in 1..n : s[i] \in Ids
      OBVIOUS
    <2>4. events \in Seq(Event)
      <3>1. \A i \in 1..n : UpdateOf(s[i], to) \in Event
        BY <2>3 DEF UpdateOf, Delete, Upsert, Event
      <3>2. events \in [1..n -> Event]
        BY <2>3, <3>1
      <3> QED
        BY <3>2
    <2>5. plans \in [1..n -> Plan]
      BY <2>2, <2>3 DEF Updated, Plan
    <2>6. n \in Nat \ {0} /\ Emit(events, plans)
      BY <2>1, <2>3
    <2> HIDE DEF events, plans
    <2>7. EmitEffect
      BY <2>4, <2>5, <2>6, EmitTyped
    <2> QED
      BY <2>1, <2>2, <2>7, SMTT(30) DEF Tool, PlanTypeOK, SentIsSerialised, EmitEffect
  <1>3. CASE TaskUnknown
    <2>1. Held \in Plan /\ Numbered \in 0..MaxTasks
      BY HeldType
    <2> QED
      BY <1>3, <2>1 DEF TaskUnknown, Tool, PlanTypeOK, SentIsSerialised
  <1>4. CASE HideTimerFires
    <2>1. Held \in Plan /\ Numbered \in 0..MaxTasks
      BY HeldType
    <2>2. CASE AllCompleted(Held)
      <3>1. Emit(<<Reset>>, <<Empty>>) /\ UNCHANGED seq
        BY <1>4, <2>2 DEF HideTimerFires
      <3> DEFINE events == <<Reset>>
                 plans == <<Empty>>
      <3>2. events \in Seq(Event) /\ Emit(events, plans)
        BY <3>1 DEF Reset, Event
      <3>3. plans \in [1..1 -> Plan] /\ 1 \in Nat \ {0}
        BY DEF Empty, Plan, Status
      <3> HIDE DEF events, plans
      <3>4. EmitEffect
        BY <3>2, <3>3, EmitTyped
      <3> QED
        BY <1>4, <3>1, <3>4 DEF HideTimerFires, PlanTypeOK, SentIsSerialised, EmitEffect
    <2>3. CASE ~AllCompleted(Held)
      BY <1>4, <2>1, <2>3 DEF HideTimerFires, PlanTypeOK, SentIsSerialised
    <2> QED
      BY <2>2, <2>3
  <1>5. CASE SendEvent
    <2>1. Body(Head(chain)) \in Event /\ Body(Head(chain)).to # "live" /\ Tail(chain) \in Seq(Event)
      BY <1>5, BodyType DEF SendEvent, PlanTypeOK
    <2> QED
      BY <1>5, <2>1 DEF SendEvent, PlanTypeOK, SentIsSerialised
  <1>6. ASSUME EventEnds
        PROVE  /\ sending' = <<>>
               /\ draining' \in [open : BOOLEAN, events : Nat, snapshot : BOOLEAN]
               /\ draining'.snapshot = draining.snapshot
               /\ Replay(logged, sending[1]) \in [plan : Plan, high : 0..MaxTasks, any : BOOLEAN]
    <2>1. sending[1] \in Event /\ sending[1].to # "live"
      BY <1>6 DEF EventEnds, PlanTypeOK, SentIsSerialised
    <2>2. Replay(logged, sending[1]) \in [plan : Plan, high : 0..MaxTasks, any : BOOLEAN]
      <3>1. PICK e \in Event : e = sending[1] /\ e.to # "live"
        BY <2>1
      <3>2. logged \in [plan : Plan, high : 0..MaxTasks, any : BOOLEAN]
        BY DEF PlanTypeOK
      <3>3. Replay(logged, e) \in [plan : Plan, high : 0..MaxTasks, any : BOOLEAN]
        BY <3>1, <3>2, ReplayType, Zenon
      <3> QED
        BY <3>1, <3>3, Zenon
    <2>3. sending' = <<>>
      BY <1>6 DEF EventEnds
    <2>4. /\ draining' \in [open : BOOLEAN, events : Nat, snapshot : BOOLEAN]
          /\ draining'.snapshot = draining.snapshot
      <3>1. draining \in [open : BOOLEAN, events : Nat, snapshot : BOOLEAN]
        BY DEF PlanTypeOK
      <3> QED
        BY <1>6, <3>1 DEF EventEnds
    <2> QED
      BY <2>2, <2>3, <2>4
  <1>7. CASE EventLands
    BY <1>6, <1>7 DEF EventLands, PlanTypeOK, SentIsSerialised
  <1>8. CASE EventFails
    BY <1>6, <1>8 DEF EventFails, PlanTypeOK, SentIsSerialised
  <1>9. ASSUME SnapshotEnds
        PROVE  /\ flight' \in [state : {"idle", "data", "nothing"}, plan : Plan]
               /\ ~again'
               /\ draining' \in [open : BOOLEAN, events : Nat, snapshot : BOOLEAN]
               /\ draining'.snapshot => flight'.state # "idle"
               /\ again' \in BOOLEAN
    <2>1. Empty \in Plan
      BY DEF Empty, Plan, Status
    <2> QED
      BY <1>9, <2>1 DEF SnapshotEnds, PlanTypeOK, WriteOf, Idle
  <1>10. CASE SnapshotLands
    BY <1>9, <1>10 DEF SnapshotLands, PlanTypeOK, SentIsSerialised
  <1>11. CASE SnapshotFails
    BY <1>9, <1>11 DEF SnapshotFails, PlanTypeOK, SentIsSerialised
  <1>12. CASE ReopenSession
    <2>1. Held \in Plan /\ Numbered \in 0..MaxTasks
      BY HeldType
    <2>2. HighWater(Tasks(file)) \in 0..MaxTasks
      BY HighWaterType DEF Tasks
    <2> QED
      BY <1>12, <2>1, <2>2, ZenonT(40) DEF ReopenSession, PlanTypeOK, SentIsSerialised
  <1>13. CASE SessionPromptEnds
    BY <1>13 DEF SessionPromptEnds, PlanTypeOK, SentIsSerialised
  <1>14. CASE Release
    BY <1>14 DEF Release, PlanTypeOK, SentIsSerialised
  <1>15. CASE Restore
    <2>1. Freeze(chain, Ids) \in Seq(Event)
      BY FreezeType DEF PlanTypeOK
    <2>2. /\ flight' \in [state : {"idle", "data", "nothing"}, plan : Plan]
          /\ flight'.state # "idle"
          /\ again' \in BOOLEAN
      BY <1>15 DEF Restore, Snapshot, WriteOf, PlanTypeOK
    <2> QED
      BY <1>15, <2>1, <2>2 DEF Restore, PlanTypeOK, SentIsSerialised
  <1>16. CASE CloseStarts
    <2>1. Len(chain) + Len(sending) \in Nat
      BY DEF PlanTypeOK
    <2>2. draining' \in [open : BOOLEAN, events : Nat, snapshot : BOOLEAN]
          /\ (draining'.snapshot => flight.state # "idle")
      BY <1>16, <2>1 DEF CloseStarts
    <2>3. resident' \in BOOLEAN /\ hide' \in BOOLEAN
      BY <1>16 DEF CloseStarts
    <2> QED
      BY <1>16, <2>2, <2>3 DEF CloseStarts, PlanTypeOK, SentIsSerialised
  <1>17. CASE CloseEnds
    <2>1. Freeze(chain, Ids) \in Seq(Event)
      BY FreezeType DEF PlanTypeOK
    <2>2. draining' \in [open : BOOLEAN, events : Nat, snapshot : BOOLEAN] /\ ~draining'.snapshot
      BY <1>17 DEF CloseEnds, NotClosing
    <2>3. orphaned' \in BOOLEAN /\ held' \in BOOLEAN
      BY <1>17, Zenon DEF CloseEnds
    <2>4. seq' \in 0..MaxTasks
      BY <1>17 DEF CloseEnds
    <2> QED
      BY <1>17, <2>1, <2>2, <2>3, <2>4 DEF CloseEnds, PlanTypeOK, SentIsSerialised
  <1>18. CASE ProcessDies
    <2>1. Empty \in Plan
      BY DEF Empty, Plan, Status
    <2>2. draining' \in [open : BOOLEAN, events : Nat, snapshot : BOOLEAN] /\ ~draining'.snapshot
      BY <1>18 DEF ProcessDies, NotClosing
    <2>3. flight' \in [state : {"idle", "data", "nothing"}, plan : Plan]
      BY <1>18, <2>1 DEF ProcessDies, Idle
    <2>4. chain' \in Seq(Event) /\ sending' \in Seq(Event) /\ Len(sending') <= 1 /\ SentIsSerialised'
      BY <1>18 DEF ProcessDies, SentIsSerialised
    <2>5. {held', hide', again', resident', prompting', unsaved', unlogged', orphaned'} \subseteq BOOLEAN
          /\ ~again'
      BY <1>18 DEF ProcessDies, PlanTypeOK
    <2>6. plan' \in Plan /\ file' \in Plan /\ logged' = logged /\ seq' \in 0..MaxTasks
          /\ changes' \in 0..MaxChanges /\ losses' \in 0..MaxLosses
      BY <1>18 DEF ProcessDies, PlanTypeOK
    <2> QED
      BY <2>2, <2>3, <2>4, <2>5, <2>6 DEF PlanTypeOK
  <1>19. CASE UNCHANGED planVars
    BY <1>19 DEF planVars, PlanTypeOK, SentIsSerialised
  <1> QED
    BY <1>1, <1>2, <1>3, <1>4, <1>5, <1>7, <1>8, <1>10, <1>11, <1>12, <1>13, <1>14, <1>15, <1>16,
       <1>17, <1>18, <1>19 DEF PlanNext

\* The plan, its copies and their writers keep their types, for every number of
\* tasks, tool calls and losses.
THEOREM PlanAlwaysTyped == PlanSpec => []PlanTypeOK
  <1>1. PlanTyped => PlanTypeOK
    BY DEF PlanTyped
  <1> QED
    BY <1>1, PlanInitTyped, PlanNextTyped, PTL DEF PlanSpec

----------------------------------------------------------------------------
(* The snapshot file.  What a write carries, and whether one follows it,   *)
(* says what the file will hold; every request that finds a write in       *)
(* flight leaves a follow-up, which writes the plan of its own time.       *)

SnapshotFollows ==
    /\ flight.state = "idle" /\ ~unsaved => file = plan
    /\ flight.state = "data" /\ ~again => flight.plan = plan
    /\ flight.state = "nothing" => again
    /\ again => held

PlanIsFollowed == ~orphaned => SnapshotFollows

\* It holds at first.
LEMMA FollowedInit == PlanInit => PlanIsFollowed
  BY DEF PlanInit, PlanIsFollowed, SnapshotFollows, Idle

\* What a tool call or the timer emits is followed: the first request of a batch
\* starts the write, or a follow-up is left behind the one in flight.
LEMMA EmitFollowed ==
  ASSUME PlanTypeOK, PlanIsFollowed, NEW events, NEW n \in Nat \ {0},
         NEW plans \in [1..n -> Plan], Emit(events, plans), UNCHANGED <<file, unsaved>>
  PROVE  PlanIsFollowed'
  <1>0. Len(plans) = n
    OBVIOUS
  <1>1. ~orphaned' => ~orphaned
    BY Zenon DEF Emit
  <1>2. /\ held' = TRUE /\ plan' = plans[n]
        /\ Snapshot(plans[1], n)
    BY <1>0 DEF Emit
  <1>3. CASE flight.state = "idle"
    <2>1. flight' = [state |-> "data", plan |-> plans[1]]
      BY <1>2, <1>3 DEF Snapshot, WriteOf
    <2>2. n > 1 => again' = TRUE
      BY <1>2, Zenon DEF Snapshot
    <2>3. n > 1 \/ n = 1
      OBVIOUS
    <2> QED
      BY <1>2, <2>1, <2>2, <2>3 DEF PlanIsFollowed, SnapshotFollows
  <1>4. CASE flight.state # "idle"
    <2>1. flight' = flight /\ again' = TRUE
      BY <1>2, <1>4 DEF Snapshot
    <2> QED
      BY <1>2, <1>4, <2>1 DEF PlanIsFollowed, SnapshotFollows
  <1> QED
    BY <1>3, <1>4


\* Every step keeps it, or orphans a copy.
LEMMA FollowedNext ==
  ASSUME PlanTyped, PlanIsFollowed, [PlanNext]_planVars
  PROVE  PlanIsFollowed'
  <1> PlanTypeOK
    BY DEF PlanTyped
  <1> MaxTasks \in Nat
    BY PlanAssumption
  <1> USE DEF PlanIsFollowed, SnapshotFollows
  <1>0. Held \in Plan /\ Numbered \in 0..MaxTasks
    BY HeldType
  <1>1. CASE TaskCreate
    <2>1. PICK n \in 1..2 :
            /\ Emit([i \in 1..n |-> Upsert(Numbered + i)], Created(n))
            /\ UNCHANGED <<sending, logged, file, resident, prompting, draining, losses, unsaved, unlogged>>
      BY <1>1, Zenon DEF TaskCreate
    <2>2. n \in Nat \ {0} /\ UNCHANGED <<file, unsaved>>
      BY <2>1
    <2>3. Created(n) \in [1..n -> Plan]
      BY <1>0 DEF Created, Plan, Status
    <2> DEFINE events == [i \in 1..n |-> Upsert(Numbered + i)]
               plans == Created(n)
    <2>4. plans \in [1..n -> Plan] /\ Emit(events, plans)
      BY <2>1, <2>3
    <2> HIDE DEF events, plans
    <2> QED
      BY <2>2, <2>4, EmitFollowed
  <1>2. CASE TaskUpdate
    <2>1. PICK s \in {<<t>> : t \in Ids} \cup {<<t, u>> : t, u \in Ids}, to \in Status :
                 UpdateTasks(s, to)
      BY <1>2 DEF TaskUpdate
    <2>2. PICK n \in {1, 2} : DOMAIN s = 1..n /\ \A i \in 1..n : s[i] \in Ids
      OBVIOUS
    <2> DEFINE events == [i \in DOMAIN s |-> UpdateOf(s[i], to)]
               plans == Updated(s, to)
    <2>3. Emit(events, plans) /\ UNCHANGED <<file, unsaved>>
      BY <2>1 DEF UpdateTasks
    <2>4. plans \in [1..n -> Plan] /\ n \in Nat \ {0}
      BY <1>0, <2>2 DEF Updated, Plan
    <2> HIDE DEF events, plans
    <2> QED
      BY <2>3, <2>4, EmitFollowed
  <1>3. CASE TaskUnknown
    <2>1. (~orphaned' => ~orphaned /\ held) /\ held'
      BY <1>3, Zenon DEF TaskUnknown
    <2>2. held => plan' = plan
      BY <1>3 DEF TaskUnknown, Held
    <2> QED
      BY <1>3, <2>1, <2>2 DEF TaskUnknown
  <1>4. CASE HideTimerFires
    <2>1. CASE AllCompleted(Held)
      <3> DEFINE events == <<Reset>>
                 plans == <<Empty>>
      <3>1. Emit(events, plans) /\ UNCHANGED <<file, unsaved>>
        BY <1>4, <2>1 DEF HideTimerFires
      <3>2. plans \in [1..1 -> Plan] /\ 1 \in Nat \ {0}
        BY DEF Empty, Plan, Status
      <3> HIDE DEF events, plans
      <3> QED
        BY <3>1, <3>2, EmitFollowed
    <2>2. CASE ~AllCompleted(Held)
      <3>1. (~orphaned' => ~orphaned /\ held) /\ held' /\ UNCHANGED <<flight, again, file, unsaved>>
        BY <1>4, <2>2, Zenon DEF HideTimerFires
      <3>2. held => plan' = plan
        BY <1>4, <2>2 DEF HideTimerFires, Held
      <3> QED
        BY <3>1, <3>2
    <2> QED
      BY <2>1, <2>2
  <1>5. CASE SendEvent \/ EventLands \/ EventFails
    BY <1>5 DEF SendEvent, EventLands, EventFails
  <1>6. ASSUME SnapshotEnds, UNCHANGED <<held, plan, orphaned>>, ~orphaned
        PROVE  /\ again => flight' = [state |-> "data", plan |-> plan']
               /\ ~again => flight.state = "data" /\ flight.plan = plan /\ flight'.state = "idle"
               /\ ~again'
    BY <1>6 DEF SnapshotEnds, WriteOf, Idle, PlanTypeOK
  <1>7. CASE SnapshotLands
    BY <1>6, <1>7 DEF SnapshotLands
  <1>8. CASE SnapshotFails
    BY <1>6, <1>8 DEF SnapshotFails
  <1>9. CASE ReopenSession
    <2>1. CASE resident
      BY <1>9, <2>1 DEF ReopenSession
    <2>2. CASE ~resident
      <3>1. held' /\ UNCHANGED <<flight, again, file>>
        BY <1>9, <2>2 DEF ReopenSession
      <3>2. CASE held
        <4>1. unsaved => unsaved'
          BY <1>9, <2>2, <3>2, Zenon DEF ReopenSession
        <4>2. ~orphaned' => ~orphaned /\ ~(Held = Empty /\ Tasks(file) # {})
          BY <1>9, <2>2, <3>2 DEF ReopenSession
        <4>3. ~orphaned' => plan' = plan
          BY <1>9, <2>2, <3>2, <4>2 DEF ReopenSession, Held
        <4> QED
          BY <3>1, <3>2, <4>1, <4>2, <4>3
      <3>3. CASE ~held
        <4>1. ~orphaned' => ~orphaned /\ ~unsaved /\ flight.state = "idle"
          BY <1>9, <2>2, <3>3 DEF ReopenSession
        <4>2. Tasks(file) = {} => file = Empty
          BY DEF Tasks, Empty, Plan, PlanTypeOK
        <4>3. plan' = file
          BY <1>9, <2>2, <3>3, <4>2 DEF ReopenSession, Held
        <4> QED
          BY <3>1, <4>1, <4>3 DEF PlanTypeOK
      <3> QED
        BY <3>2, <3>3
    <2> QED
      BY <2>1, <2>2
  <1>10. CASE SessionPromptEnds \/ Release \/ CloseStarts
    BY <1>10 DEF SessionPromptEnds, Release, CloseStarts
  <1>11. CASE Restore
    <2>1. held' /\ plan' = logged.plan /\ UNCHANGED <<file, unsaved>>
      BY <1>11 DEF Restore
    <2>2. CASE flight.state = "idle"
      BY <1>11, <2>1, <2>2 DEF Restore, Snapshot, WriteOf
    <2>3. CASE flight.state # "idle"
      <3>1. flight' = flight /\ again' = TRUE
        BY <1>11, <2>3 DEF Restore, Snapshot
      <3> QED
        BY <2>1, <2>3, <3>1
    <2> QED
      BY <2>2, <2>3
  <1>12. CASE CloseEnds
    <2>1. ~orphaned' => ~orphaned /\ ~again
      BY <1>12, Zenon DEF CloseEnds
    <2> QED
      BY <1>12, <2>1 DEF CloseEnds
  <1>13. CASE ProcessDies
    <2>1. ~orphaned' => ~orphaned /\ flight.state = "idle"
      BY <1>13, Zenon DEF ProcessDies
    <2> QED
      BY <1>13, <2>1 DEF ProcessDies, Idle
  <1>14. CASE UNCHANGED planVars
    BY <1>14 DEF planVars
  <1> QED
    BY <1>1, <1>2, <1>3, <1>4, <1>5, <1>7, <1>8, <1>9, <1>10, <1>11, <1>12, <1>13, <1>14
       DEF PlanNext

\* When no write is in flight and the last one did not fail, the snapshot file holds
\* the plan, whatever batches, closings, reopenings and restorations came before, for
\* every number of tasks, tool calls and losses.
THEOREM SnapshotAlwaysQuiet == PlanSpec => []QuietSnapshotIsThePlan
  <1>1. PlanInit => PlanTyped /\ PlanIsFollowed
    BY PlanInitTyped, FollowedInit
  <1>2. PlanTyped /\ PlanIsFollowed /\ [PlanNext]_planVars => (PlanTyped /\ PlanIsFollowed)'
    BY PlanNextTyped, FollowedNext
  <1>3. PlanIsFollowed => QuietSnapshotIsThePlan
    BY DEF PlanIsFollowed, SnapshotFollows, QuietSnapshotIsThePlan
  <1> QED
    BY <1>1, <1>2, <1>3, PTL DEF PlanSpec

----------------------------------------------------------------------------
(* What a replay of a queue of events gives.  FoldLeft is a recursive      *)
(* function of the sets of positions; that there is such a function is     *)
(* shown by induction on the length, and what the replay says of a task    *)
(* is what the last event that touches the task says.                      *)

\* Induction, on a set of the lengths for which something holds.
LEMMA EveryLength ==
  ASSUME NEW S \in SUBSET Nat, 0 \in S, \A n \in S : n + 1 \in S
  PROVE  S = Nat
  <1> SUFFICES ASSUME Nat \ S # {} PROVE FALSE
    OBVIOUS
  <1>1. PICK x \in Nat \ S : \A y \in Nat \ S : x <= y
    BY LeastExists
  <1>2. x - 1 \in Nat /\ ~(x <= x - 1)
    BY <1>1
  <1>3. x - 1 \in S
    BY <1>1, <1>2
  <1>4. (x - 1) + 1 \in S
    BY <1>3
  <1> QED
    BY <1>1, <1>4

\* One step of the fold, on the set s of positions.
ReplayOn(b, q, g, s) == IF s = {} THEN b ELSE Replay(g[s \ {Max(s)}], q[Max(s)])

\* The fold of the first n events, as the function FoldLeft chooses.
IsReplay(b, q, n, g) == g = [s \in SUBSET (1..n) |-> ReplayOn(b, q, g, s)]

\* The last of the first n + 1 positions, and of a set of positions.
LEMMA LastPosition ==
  ASSUME NEW n \in Nat, NEW s \in SUBSET (1..(n + 1)), n + 1 \in s
  PROVE  Max(s) = n + 1
  <1>1. \A y \in s : n + 1 >= y /\ y \in Nat
    OBVIOUS
  <1>2. \E x \in s : \A y \in s : x >= y
    BY <1>1
  <1>3. PICK x : x = Max(s)
    OBVIOUS
  <1>4. x \in s /\ \A y \in s : x >= y
    BY <1>2, <1>3, Zenon DEF Max
  <1>5. x = n + 1
    BY <1>1, <1>4
  <1> QED
    BY <1>3, <1>5

\* A fold of n events is one of the first m, and goes on to n + 1.
LEMMA ReplayExtends ==
  ASSUME NEW b, NEW q, NEW n \in Nat, NEW g, IsReplay(b, q, n, g)
  PROVE  \E h : IsReplay(b, q, n + 1, h)
  <1> DEFINE h == [s \in SUBSET (1..(n + 1)) |->
                     IF n + 1 \in s THEN Replay(g[s \ {n + 1}], q[n + 1]) ELSE g[s]]
  <1>1. ASSUME NEW s \in SUBSET (1..(n + 1)) PROVE h[s] = ReplayOn(b, q, h, s)
    <2>1. CASE n + 1 \in s
      <3>1. s \ {n + 1} \in SUBSET (1..(n + 1)) /\ n + 1 \notin s \ {n + 1}
        OBVIOUS
      <3>2. h[s \ {n + 1}] = g[s \ {n + 1}]
        BY <3>1
      <3>3. Max(s) = n + 1 /\ s # {}
        BY <2>1, LastPosition
      <3>4. h[s] = Replay(g[s \ {n + 1}], q[n + 1])
        BY <2>1
      <3> HIDE DEF h
      <3> QED
        BY <3>2, <3>3, <3>4 DEF ReplayOn
    <2>2. CASE n + 1 \notin s
      <3>1. s \in SUBSET (1..n)
        BY <2>2
      <3>2. s \ {Max(s)} \in SUBSET (1..(n + 1)) /\ n + 1 \notin s \ {Max(s)}
        BY <2>2
      <3>3. h[s] = g[s] /\ h[s \ {Max(s)}] = g[s \ {Max(s)}]
        BY <2>2, <3>2
      <3>4. g[s] = ReplayOn(b, q, g, s)
        BY <3>1 DEF IsReplay
      <3> HIDE DEF h
      <3> QED
        BY <3>3, <3>4 DEF ReplayOn
    <2> QED
      BY <2>1, <2>2
  <1>2. h = [s \in SUBSET (1..(n + 1)) |-> h[s]]
    OBVIOUS
  <1> HIDE DEF h
  <1>3. h = [s \in SUBSET (1..(n + 1)) |-> ReplayOn(b, q, h, s)]
    BY <1>1, <1>2
  <1> QED
    BY <1>3 DEF IsReplay

\* There is a fold of every number of events.
LEMMA ReplayExists ==
  ASSUME NEW b, NEW q
  PROVE  \A n \in Nat : \E g : IsReplay(b, q, n, g)
  <1> DEFINE S == {n \in Nat : \E g : IsReplay(b, q, n, g)}
  <1>1. 0 \in S
    <2> DEFINE g == [s \in SUBSET (1..0) |-> b]
    <2>1. \A s \in SUBSET (1..0) : s = {}
      OBVIOUS
    <2>2. g = [s \in SUBSET (1..0) |-> ReplayOn(b, q, g, s)]
      BY <2>1 DEF ReplayOn
    <2> HIDE DEF g
    <2> QED
      BY <2>2 DEF IsReplay
  <1>2. \A n \in S : n + 1 \in S
    BY ReplayExtends
  <1>3. S \in SUBSET Nat
    OBVIOUS
  <1> HIDE DEF S
  <1>4. S = Nat
    BY <1>1, <1>2, <1>3, EveryLength
  <1> QED
    BY <1>4 DEF S

\* v[k] is the replay of the first k events.
IsRun(b, q, n, v) == v[0] = b /\ \A k \in 1..n : v[k] = Replay(v[k - 1], q[k])

\* The replay of a queue is reached event by event.
LEMMA ReplayRuns ==
  ASSUME NEW b, NEW n \in Nat, NEW q, DOMAIN q = 1..n
  PROVE  \E v : IsRun(b, q, n, v) /\ FoldLeft(Replay, b, q) = v[n]
  <1> DEFINE G(g) == g = [s \in SUBSET DOMAIN q |->
                           IF s = {} THEN b ELSE LET x == Max(s) IN Replay(g[s \ {x}], q[x])]
  <1>1. PICK g : g = (CHOOSE h : G(h)) /\ FoldLeft(Replay, b, q) = g[DOMAIN q]
    BY DEF FoldLeft, MapThenFoldSet
  <1>2. \E h : G(h)
    <2>1. PICK h : IsReplay(b, q, n, h)
      BY ReplayExists
    <2>2. G(h)
      BY <2>1 DEF IsReplay, ReplayOn
    <2> HIDE DEF G
    <2> QED
      BY <2>2
  <1>3. G(g)
    <2> HIDE DEF G
    <2> QED
      BY <1>1, <1>2, Zenon
  <1>4. \A s \in SUBSET (1..n) : g[s] = ReplayOn(b, q, g, s)
    BY <1>3 DEF ReplayOn
  <1> DEFINE v == [k \in 0..n |-> g[1..k]]
  <1>5. v[0] = b
    <2>1. 1..0 = {} /\ {} \in SUBSET (1..n)
      OBVIOUS
    <2>2. g[{}] = b
      BY <1>4, <2>1 DEF ReplayOn
    <2> QED
      BY <2>1, <2>2
  <1>6. ASSUME NEW k \in 1..n PROVE v[k] = Replay(v[k - 1], q[k])
    <2>1. k - 1 \in Nat /\ 1..k \in SUBSET (1..((k - 1) + 1)) /\ (k - 1) + 1 \in 1..k
          /\ (k - 1) + 1 = k
      OBVIOUS
    <2>2. Max(1..k) = k
      <3>1. Max(1..k) = (k - 1) + 1
        BY <2>1, LastPosition
      <3> QED
        BY <2>1, <3>1, Zenon
    <2>3. (1..k) \ {k} = 1..(k - 1) /\ 1..k # {} /\ 1..k \in SUBSET (1..n)
      OBVIOUS
    <2>4. g[1..k] = Replay(g[1..(k - 1)], q[k])
      BY <1>4, <2>2, <2>3 DEF ReplayOn
    <2> QED
      BY <2>4
  <1>7. v[n] = g[DOMAIN q]
    OBVIOUS
  <1> HIDE DEF v
  <1> QED
    BY <1>1, <1>5, <1>6, <1>7 DEF IsRun

Logs == [plan : Plan, high : 0..MaxTasks, any : BOOLEAN]

\* The event says something of the task; what it says is what the plan p says.
Touches(e, t) == e.to = "reset" \/ e.task = t

Says(e, t, p) == e.to \in {"live", p[t]} \/ (e.to = "reset" /\ p[t] = "none")

\* What one replayed event says of a task.
LEMMA ReplaySays ==
  ASSUME NEW log \in Logs, NEW e \in Event, e.to # "live", NEW t \in Ids
  PROVE  /\ Replay(log, e) \in Logs
         /\ ~Touches(e, t) => Replay(log, e).plan[t] = log.plan[t]
         /\ \A p \in Plan : Touches(e, t) /\ Says(e, t, p) => Replay(log, e).plan[t] = p[t]
  <1> MaxTasks \in Nat
    BY PlanAssumption
  <1>1. CASE e.to = "reset"
    <2>1. Empty \in Plan /\ Empty[t] = "none"
      BY DEF Empty, Plan, Status
    <2>2. Replay(log, e) = [plan |-> Empty, high |-> log.high, any |-> TRUE]
      BY <1>1 DEF Replay
    <2>3. Touches(e, t) /\ Replay(log, e) \in Logs
      BY <1>1, <2>1, <2>2 DEF Touches, Logs
    <2>4. \A p \in Plan : p[t] # "reset"
      BY DEF Plan, Status
    <2> QED
      BY <1>1, <2>1, <2>2, <2>3, <2>4 DEF Says
  <1>2. CASE e.to # "reset"
    <2>1. e.task \in Ids /\ e.to \in Status
      BY <1>2 DEF Event, Status
    <2>2. log.plan \in [Ids -> Status] /\ log.high \in 0..MaxTasks
      BY DEF Logs, Plan
    <2> DEFINE next == [log.plan EXCEPT ![e.task] = e.to]
    <2>3. next \in Plan /\ next[e.task] = e.to /\ (t # e.task => next[t] = log.plan[t])
      BY <2>1, <2>2 DEF Plan
    <2>4. Replay(log, e).plan = next
      BY <1>2 DEF Replay
    <2> HIDE DEF next
    <2>5. Replay(log, e) \in Logs
      BY <2>1, <2>2, <2>3, <2>4 DEF Logs, Replay, Ids
    <2> QED
      BY <1>2, <2>3, <2>4, <2>5 DEF Touches, Says
  <1> QED
    BY <1>1, <1>2

\* A queue of events that have been serialised.
Serialised(q, n) == DOMAIN q = 1..n /\ \A i \in 1..n : q[i] \in Event /\ q[i].to # "live"

\* Every intermediate result of a replay is one.
LEMMA RunTyped ==
  ASSUME NEW b \in Logs, NEW n \in Nat, NEW q, Serialised(q, n), NEW v, IsRun(b, q, n, v)
  PROVE  \A k \in 0..n : v[k] \in Logs
  <1> DEFINE S == {k \in Nat : k <= n => v[k] \in Logs}
  <1>1. 0 \in S
    BY DEF IsRun
  <1>2. ASSUME NEW k \in S PROVE k + 1 \in S
    <2>1. SUFFICES ASSUME k + 1 <= n PROVE v[k + 1] \in Logs
      OBVIOUS
    <2>2. k + 1 \in 1..n /\ (k + 1) - 1 = k /\ v[k] \in Logs
      BY <2>1
    <2>3. v[k + 1] = Replay(v[k], q[k + 1])
      BY <2>2 DEF IsRun
    <2>4. q[k + 1] \in Event /\ q[k + 1].to # "live"
      BY <2>2 DEF Serialised
    <2>5. PICK e \in Event, log \in Logs : e = q[k + 1] /\ log = v[k] /\ e.to # "live"
      BY <2>2, <2>4
    <2>6. Replay(log, e) \in Logs
      <3>1. CASE Ids = {}
        <4>1. e.to = "reset"
          BY <3>1, <2>5 DEF Event
        <4>2. Empty \in Plan
          BY DEF Empty, Plan, Status
        <4> QED
          BY <4>1, <4>2 DEF Replay, Logs
      <3>2. CASE Ids # {}
        BY <3>2, <2>5, ReplaySays
      <3> QED
        BY <3>1, <3>2
    <2> QED
      BY <2>3, <2>5, <2>6
  <1>3. S \in SUBSET Nat
    OBVIOUS
  <1> HIDE DEF S
  <1>4. S = Nat
    BY <1>1, <1>2, <1>3, EveryLength
  <1> QED
    BY <1>4 DEF S

\* What a replay says of a task stays while no event touches it.
LEMMA RunKeeps ==
  ASSUME NEW b \in Logs, NEW n \in Nat, NEW q, Serialised(q, n), NEW v, IsRun(b, q, n, v),
         NEW t \in Ids, NEW m \in 0..n, \A j \in 1..n : j > m => ~Touches(q[j], t)
  PROVE  v[n].plan[t] = v[m].plan[t]
  <1> DEFINE S == {d \in Nat : m + d <= n => v[m + d].plan[t] = v[m].plan[t]}
  <1>0. \A k \in 0..n : v[k] \in Logs
    BY RunTyped
  <1>1. 0 \in S
    OBVIOUS
  <1>2. ASSUME NEW d \in S PROVE d + 1 \in S
    <2>1. SUFFICES ASSUME m + (d + 1) <= n
                   PROVE  v[m + (d + 1)].plan[t] = v[m].plan[t]
      OBVIOUS
    <2>2. PICK j \in 1..n : j = m + (d + 1)
      BY <2>1
    <2>3. j > m /\ j - 1 = m + d /\ m + d <= n /\ j - 1 \in 0..n
      BY <2>1, <2>2
    <2>4. v[j - 1].plan[t] = v[m].plan[t]
      BY <2>3
    <2>5. v[j] = Replay(v[j - 1], q[j])
      BY <2>2 DEF IsRun
    <2>6. ~Touches(q[j], t)
      BY <2>2, <2>3
    <2>7. PICK e \in Event, log \in Logs : e = q[j] /\ log = v[j - 1] /\ e.to # "live"
      BY <1>0, <2>2, <2>3 DEF Serialised
    <2>8. Replay(log, e).plan[t] = log.plan[t]
      BY <2>6, <2>7, ReplaySays
    <2> QED
      BY <2>2, <2>4, <2>5, <2>7, <2>8
  <1>3. S \in SUBSET Nat
    OBVIOUS
  <1> HIDE DEF S
  <1>4. S = Nat
    BY <1>1, <1>2, <1>3, EveryLength
  <1>5. PICK d \in Nat : m + d = n
    <2>1. n - m \in Nat /\ m + (n - m) = n
      OBVIOUS
    <2> QED
      BY <2>1
  <1>6. d \in S
    BY <1>4
  <1> QED
    BY <1>5, <1>6 DEF S

\* The log and the queue q give the task t what the plan p says: the last event that
\* touches the task says it, or none does and the log says it.
Covers(q, log, p, t) ==
    \/ /\ \A i \in DOMAIN q : ~Touches(q[i], t)
       /\ log.plan[t] = p[t]
    \/ \E i \in DOMAIN q :
           /\ Touches(q[i], t) /\ Says(q[i], t, p)
           /\ \A j \in DOMAIN q : j > i => ~Touches(q[j], t)

\* Then the replay of the queue gives the plan.
LEMMA ReplayGivesThePlan ==
  ASSUME NEW log \in Logs, NEW n \in Nat, NEW q, Serialised(q, n), NEW p \in Plan,
         \A t \in Ids : Covers(q, log, p, t)
  PROVE  FoldLeft(Replay, log, q).plan = p
  <1>1. DOMAIN q = 1..n
    BY DEF Serialised
  <1>2. PICK v : IsRun(log, q, n, v) /\ FoldLeft(Replay, log, q) = v[n]
    BY <1>1, ReplayRuns
  <1>3. \A k \in 0..n : v[k] \in Logs
    BY <1>2, RunTyped
  <1>4. ASSUME NEW t \in Ids PROVE v[n].plan[t] = p[t]
    <2>1. CASE (\A i \in 1..n : ~Touches(q[i], t)) /\ log.plan[t] = p[t]
      <3>1. 0 \in 0..n /\ v[0] = log
        BY <1>2 DEF IsRun
      <3>2. v[n].plan[t] = v[0].plan[t]
        BY <1>2, <2>1, <3>1, RunKeeps
      <3> QED
        BY <2>1, <3>1, <3>2
    <2>2. ASSUME NEW i \in 1..n, Touches(q[i], t), Says(q[i], t, p),
                 \A j \in 1..n : j > i => ~Touches(q[j], t)
          PROVE  v[n].plan[t] = p[t]
      <3>1. i \in 0..n /\ i - 1 \in 0..n
        OBVIOUS
      <3>2. v[n].plan[t] = v[i].plan[t]
        BY <1>2, <2>2, <3>1, RunKeeps
      <3>3. v[i] = Replay(v[i - 1], q[i])
        BY <1>2 DEF IsRun
      <3>4. PICK e \in Event, l \in Logs : e = q[i] /\ l = v[i - 1] /\ e.to # "live"
        BY <1>3, <3>1 DEF Serialised
      <3>5. Replay(l, e).plan[t] = p[t]
        BY <2>2, <3>4, ReplaySays
      <3> QED
        BY <3>2, <3>3, <3>4, <3>5
    <2> QED
      BY <1>1, <2>1, <2>2 DEF Covers
  <1>5. v[n].plan \in [Ids -> Status] /\ p \in [Ids -> Status]
    BY <1>3 DEF Logs, Plan
  <1>6. v[n].plan = p
    BY <1>4, <1>5
  <1> QED
    BY <1>2, <1>6

\* The body of an event touches what the event does, and says the plan where it did.
LEMMA SaidByBody ==
  ASSUME plan \in Plan, NEW e \in Event, NEW t \in Ids
  PROVE  /\ Touches(Body(e), t) <=> Touches(e, t)
         /\ Touches(e, t) /\ Says(e, t, plan) => Says(Body(e), t, plan)
  <1>1. CASE e.to = "live"
    <2>1. e \in [task : Ids, to : {"live", "pending", "completed", "none"}]
      BY <1>1 DEF Event
    <2>2. plan[e.task] \in Status
      BY <2>1 DEF Plan
    <2>3. Body(e).task = e.task /\ Body(e).to = plan[e.task]
      BY <1>1, <2>1 DEF Body
    <2> QED
      BY <1>1, <2>2, <2>3 DEF Touches, Says, Status
  <1>2. CASE e.to # "live"
    BY <1>2 DEF Body
  <1> QED
    BY <1>1, <1>2

----------------------------------------------------------------------------
(* The log.  The events being sent and waiting, in their order, are the    *)
(* queue a replay of the log goes on with.                                 *)

Outgoing == sending \o chain

LogFollows == ~orphaned /\ ~unlogged => \A t \in Ids : Covers(Outgoing, logged, plan, t)

\* Its positions: the append in flight, then the chain.
LEMMA OutgoingPositions ==
  ASSUME PlanTypeOK
  PROVE  /\ Outgoing \in Seq(Event) /\ Len(Outgoing) = Len(sending) + Len(chain)
         /\ sending = <<>> => Outgoing = chain
         /\ \A i \in DOMAIN sending : Outgoing[i] = sending[i]
         /\ \A i \in DOMAIN chain : Outgoing[Len(sending) + i] = chain[i]
  <1>1. sending \in Seq(Event) /\ chain \in Seq(Event)
    BY DEF PlanTypeOK
  <1>2. Outgoing \in Seq(Event) /\ Len(Outgoing) = Len(sending) + Len(chain)
    BY <1>1 DEF Outgoing
  <1>3. sending = <<>> => Outgoing = chain
    BY <1>1 DEF Outgoing
  <1>4. \A i \in DOMAIN sending : Outgoing[i] = sending[i]
    BY <1>1 DEF Outgoing
  <1>5. \A i \in DOMAIN chain : Outgoing[Len(sending) + i] = chain[i]
    BY <1>1 DEF Outgoing
  <1> QED
    BY <1>2, <1>3, <1>4, <1>5

\* Then the log rebuilds the plan: serialising an event keeps what it says.
LEMMA FollowsRebuilds == PlanTyped /\ LogFollows => LogRebuildsThePlan
  <1> SUFFICES ASSUME PlanTyped, LogFollows, ~orphaned, ~unlogged
               PROVE  FoldLeft(Replay, logged,
                               sending \o [i \in DOMAIN chain |-> Body(chain[i])]).plan = plan
    BY Zenon DEF LogRebuildsThePlan
  <1> PlanTypeOK /\ SentIsSerialised
    BY DEF PlanTyped
  <1> DEFINE bodies == [i \in DOMAIN chain |-> Body(chain[i])]
  <1>1. bodies \in Seq(Event) /\ DOMAIN bodies = DOMAIN chain /\ Len(bodies) = Len(chain)
    BY BodyType DEF PlanTypeOK
  <1>2. PICK q : q = sending \o bodies
    OBVIOUS
  <1>3. PICK n \in Nat : n = Len(sending) + Len(chain)
    BY DEF PlanTypeOK
  <1>4. DOMAIN q = 1..n /\ DOMAIN Outgoing = 1..n
    BY <1>1, <1>2, <1>3, OutgoingPositions DEF PlanTypeOK
  <1>5. ASSUME NEW i \in 1..n PROVE q[i] = Body(Outgoing[i])
    <2>1. CASE i <= Len(sending)
      <3>1. i \in DOMAIN sending
        BY <2>1 DEF PlanTypeOK
      <3>2. q[i] = sending[i] /\ Outgoing[i] = sending[i]
        BY <1>1, <1>2, <3>1, OutgoingPositions DEF PlanTypeOK
      <3> QED
        BY <3>1, <3>2 DEF SentIsSerialised, Body
    <2>2. CASE i > Len(sending)
      <3>1. PICK k \in DOMAIN chain : i = Len(sending) + k
        <4>1. i - Len(sending) \in DOMAIN chain /\ i = Len(sending) + (i - Len(sending))
          BY <1>3, <2>2 DEF PlanTypeOK
        <4> QED
          BY <4>1
      <3>2. q[i] = bodies[k]
        BY <1>1, <1>2, <3>1 DEF PlanTypeOK
      <3>3. Outgoing[i] = chain[k]
        BY <3>1, OutgoingPositions
      <3> QED
        BY <3>1, <3>2, <3>3
    <2> QED
      BY <1>3, <2>1, <2>2 DEF PlanTypeOK
  <1>6. \A i \in 1..n : Outgoing[i] \in Event
    BY <1>4, OutgoingPositions
  <1>7. \A i \in 1..n : q[i] \in Event /\ q[i].to # "live"
    BY <1>5, <1>6, BodyType DEF PlanTypeOK
  <1>8. plan \in Plan /\ logged \in Logs
    BY DEF PlanTypeOK, Logs
  <1>9. ASSUME NEW e \in Event, NEW t \in Ids
        PROVE  /\ Touches(Body(e), t) <=> Touches(e, t)
               /\ Touches(e, t) /\ Says(e, t, plan) => Says(Body(e), t, plan)
    BY <1>8, SaidByBody
  <1>10. ASSUME NEW t \in Ids PROVE Covers(q, logged, plan, t)
    <2>1. Covers(Outgoing, logged, plan, t)
      BY Zenon DEF LogFollows
    <2>2. \A i \in 1..n : /\ Touches(q[i], t) <=> Touches(Outgoing[i], t)
                          /\ Touches(Outgoing[i], t) /\ Says(Outgoing[i], t, plan)
                             => Says(q[i], t, plan)
      BY <1>5, <1>6, <1>9
    <2> QED
      BY <1>4, <2>1, <2>2, Zenon DEF Covers
  <1>11. Serialised(q, n)
    BY <1>4, <1>7 DEF Serialised
  <1> HIDE DEF bodies
  <1>12. PICK p \in Plan, log \in Logs : p = plan /\ log = logged
    BY <1>8
  <1>13. FoldLeft(Replay, log, q).plan = p
    BY <1>10, <1>11, <1>12, ReplayGivesThePlan
  <1> QED
    BY <1>2, <1>12, <1>13 DEF bodies

\* Another queue of the same length, whose events touch the same tasks and say at
\* least as much, covers the task as well.
LEMMA CoversKept ==
  ASSUME NEW q, NEW r, DOMAIN r = DOMAIN q, NEW log, NEW p, NEW t,
         Covers(q, log, p, t),
         \A i \in DOMAIN q : /\ Touches(r[i], t) <=> Touches(q[i], t)
                             /\ Touches(q[i], t) /\ Says(q[i], t, p) => Says(r[i], t, p)
  PROVE  Covers(r, log, p, t)
  BY Zenon DEF Covers

\* Events that take the plan from p to next, behind a queue that gives p, make one
\* that gives next.
LEMMA CoversAppend ==
  ASSUME NEW q \in Seq(Event), NEW r \in Seq(Event), NEW log, NEW p, NEW next, NEW t,
         Covers(q, log, p, t), Covers(r, [plan |-> p], next, t)
  PROVE  Covers(q \o r, log, next, t)
  <1>0. q \o r \in Seq(Event)
    OBVIOUS
  <1>1. PICK s \in Seq(Event) : s = q \o r
    BY <1>0, Zenon
  <1>2. /\ \A i \in DOMAIN q : i \in DOMAIN s /\ s[i] = q[i]
        /\ \A i \in DOMAIN r : Len(q) + i \in DOMAIN s /\ s[Len(q) + i] = r[i]
        /\ \A j \in DOMAIN s : j \in DOMAIN q \/ \E i \in DOMAIN r : j = Len(q) + i
    <2>1. DOMAIN s = 1..(Len(q) + Len(r)) /\ DOMAIN q = 1..Len(q) /\ DOMAIN r = 1..Len(r)
      BY <1>1
    <2>2. ASSUME NEW j \in DOMAIN s, j \notin DOMAIN q PROVE \E i \in DOMAIN r : j = Len(q) + i
      <3>1. j - Len(q) \in 1..Len(r) /\ j = Len(q) + (j - Len(q))
        BY <2>1, <2>2
      <3> QED
        BY <2>1, <3>1
    <2> QED
      BY <1>1, <2>1, <2>2
  <1>3. \A i \in DOMAIN q, j \in DOMAIN r : i < Len(q) + j
    OBVIOUS
  <1>4. CASE \E i \in DOMAIN r : Touches(r[i], t) /\ Says(r[i], t, next)
                                 /\ \A j \in DOMAIN r : j > i => ~Touches(r[j], t)
    <2>1. PICK i \in DOMAIN r : Touches(r[i], t) /\ Says(r[i], t, next)
                                /\ \A j \in DOMAIN r : j > i => ~Touches(r[j], t)
      BY <1>4
    <2>2. ASSUME NEW j \in DOMAIN s, j > Len(q) + i PROVE ~Touches(s[j], t)
      <3>1. j \notin DOMAIN q
        BY <2>2
      <3>2. PICK k \in DOMAIN r : j = Len(q) + k
        BY <1>2, <3>1
      <3>3. k > i
        BY <2>2, <3>2
      <3> QED
        BY <1>2, <2>1, <3>2, <3>3
    <2>3. Len(q) + i \in DOMAIN s /\ s[Len(q) + i] = r[i]
      BY <1>2
    <2> QED
      BY <1>1, <2>1, <2>2, <2>3 DEF Covers
  <1>5. CASE (\A i \in DOMAIN r : ~Touches(r[i], t)) /\ p[t] = next[t]
    <2>1. \A i \in DOMAIN r : ~Touches(s[Len(q) + i], t)
      BY <1>2, <1>5
    <2>2. CASE (\A i \in DOMAIN q : ~Touches(q[i], t)) /\ log.plan[t] = p[t]
      <3>1. \A j \in DOMAIN s : ~Touches(s[j], t)
        BY <1>2, <2>1, <2>2
      <3> QED
        BY <1>1, <1>5, <2>2, <3>1 DEF Covers
    <2>3. ASSUME NEW i \in DOMAIN q, Touches(q[i], t), Says(q[i], t, p),
                 \A j \in DOMAIN q : j > i => ~Touches(q[j], t)
          PROVE  Covers(s, log, next, t)
      <3>1. i \in DOMAIN s /\ s[i] = q[i]
        BY <1>2
      <3>2. Says(s[i], t, next)
        BY <1>5, <2>3, <3>1 DEF Says
      <3>3. \A j \in DOMAIN s : j > i => ~Touches(s[j], t)
        BY <1>2, <2>1, <2>3
      <3> QED
        BY <2>3, <3>1, <3>2, <3>3 DEF Covers
    <2> QED
      BY <1>1, <2>2, <2>3 DEF Covers
  <1> QED
    BY <1>4, <1>5 DEF Covers

\* An event that lands goes from the queue to the log.
LEMMA CoversLanded ==
  ASSUME NEW e \in Event, e.to # "live", NEW q \in Seq(Event), NEW log \in Logs,
         NEW p \in Plan, NEW t \in Ids, Covers(<<e>> \o q, log, p, t)
  PROVE  Covers(q, Replay(log, e), p, t)
  <1>0. <<e>> \o q \in Seq(Event)
    OBVIOUS
  <1>1. PICK s \in Seq(Event) : s = <<e>> \o q
    BY <1>0, Zenon
  <1>2. /\ 1 \in DOMAIN s /\ s[1] = e
        /\ \A i \in DOMAIN q : i + 1 \in DOMAIN s /\ s[i + 1] = q[i] /\ i + 1 > 1
    BY <1>1
  <1>3. \A j \in DOMAIN s : j = 1 \/ \E i \in DOMAIN q : j = i + 1
    <2>1. DOMAIN s = 1..(1 + Len(q)) /\ DOMAIN q = 1..Len(q)
      BY <1>1
    <2>2. ASSUME NEW j \in DOMAIN s, j # 1 PROVE \E i \in DOMAIN q : j = i + 1
      <3>1. j - 1 \in 1..Len(q) /\ j = (j - 1) + 1
        BY <2>1, <2>2
      <3> QED
        BY <2>1, <3>1
    <2> QED
      BY <2>2
  <1>4. /\ ~Touches(e, t) => Replay(log, e).plan[t] = log.plan[t]
        /\ Touches(e, t) /\ Says(e, t, p) => Replay(log, e).plan[t] = p[t]
    BY ReplaySays
  <1>5. CASE (\A j \in DOMAIN s : ~Touches(s[j], t)) /\ log.plan[t] = p[t]
    BY <1>2, <1>4, <1>5 DEF Covers
  <1>6. ASSUME NEW j \in DOMAIN s, Touches(s[j], t), Says(s[j], t, p),
               \A k \in DOMAIN s : k > j => ~Touches(s[k], t)
        PROVE  Covers(q, Replay(log, e), p, t)
    <2>1. CASE j = 1
      BY <1>2, <1>4, <1>6, <2>1 DEF Covers
    <2>2. CASE j # 1
      <3>1. PICK i \in DOMAIN q : j = i + 1
        BY <1>3, <2>2
      <3>2. \A k \in DOMAIN q : k > i => ~Touches(q[k], t)
        BY <1>2, <1>6, <3>1
      <3> QED
        BY <1>2, <1>6, <3>1, <3>2 DEF Covers
    <2> QED
      BY <2>1, <2>2
  <1> QED
    BY <1>1, <1>5, <1>6 DEF Covers

\* Freezing events changes nothing of what the queue says.
LEMMA CoversFrozen ==
  ASSUME PlanTypeOK, NEW gone, NEW t \in Ids, Covers(Outgoing, logged, plan, t)
  PROVE  Covers(sending \o Freeze(chain, gone), logged, plan, t)
  <1>1. Freeze(chain, gone) \in Seq(Event)
    BY FreezeType DEF PlanTypeOK
  <1>2. PICK frozen \in Seq(Event) : frozen = Freeze(chain, gone)
    BY <1>1
  <1>3. DOMAIN frozen = DOMAIN chain
    BY <1>2 DEF Freeze
  <1>0. sending \o frozen \in Seq(Event)
    BY <1>2 DEF PlanTypeOK
  <1>4. PICK r \in Seq(Event) : r = sending \o frozen
    BY <1>0, Zenon
  <1>5. Len(frozen) = Len(chain)
    BY <1>3 DEF PlanTypeOK
  <1>6. DOMAIN r = DOMAIN Outgoing
    BY <1>4, <1>5 DEF Outgoing, PlanTypeOK
  <1>7. \A i \in DOMAIN chain : chain[i] \in Event /\ frozen[i] \in {chain[i], Body(chain[i])}
    BY <1>2 DEF Freeze, PlanTypeOK
  <1>8. ASSUME NEW i \in DOMAIN r
        PROVE  Outgoing[i] \in Event /\ r[i] \in {Outgoing[i], Body(Outgoing[i])}
    <2>1. CASE i <= Len(sending)
      BY <1>4, <1>5, <2>1 DEF Outgoing, PlanTypeOK
    <2>2. CASE i > Len(sending)
      <3>1. PICK k \in DOMAIN chain : i = Len(sending) + k
        <4>1. i - Len(sending) \in DOMAIN chain /\ i = Len(sending) + (i - Len(sending))
          BY <1>4, <1>5, <2>2 DEF PlanTypeOK
        <4> QED
          BY <4>1
      <3>2. r[i] = frozen[k] /\ Outgoing[i] = chain[k]
        BY <1>3, <1>4, <3>1, OutgoingPositions DEF PlanTypeOK
      <3> QED
        BY <1>7, <3>2
    <2> QED
      BY <2>1, <2>2 DEF PlanTypeOK
  <1>9. plan \in Plan
    BY DEF PlanTypeOK
  <1>10. \A i \in DOMAIN Outgoing :
            /\ Touches(r[i], t) <=> Touches(Outgoing[i], t)
            /\ Touches(Outgoing[i], t) /\ Says(Outgoing[i], t, plan) => Says(r[i], t, plan)
    BY <1>6, <1>8, <1>9, SaidByBody
  <1>11. Covers(r, logged, plan, t)
    BY <1>6, <1>10, CoversKept
  <1> QED
    BY <1>2, <1>4, <1>11

\* It holds at first: nothing is queued.
LEMMA LogInit == PlanInit => LogFollows
  <1> SUFFICES ASSUME PlanInit, NEW t \in Ids PROVE Covers(Outgoing, logged, plan, t)
    BY Zenon DEF LogFollows
  <1>1. DOMAIN Outgoing = {} /\ logged.plan = plan
    BY DEF PlanInit, Outgoing
  <1> QED
    BY <1>1 DEF Covers

\* Concatenations of queues may be regrouped.
LEMMA Regroup ==
  ASSUME NEW q \in Seq(Event), NEW r \in Seq(Event), NEW s \in Seq(Event)
  PROVE  (q \o r) \o s = q \o (r \o s)
  BY ConcatAssociative

\* A queue of one event.
LEMMA OneEvent ==
  ASSUME NEW q \in Seq(Event), Len(q) <= 1, q # <<>>
  PROVE  q = <<q[1]>> /\ 1 \in DOMAIN q /\ q[1] \in Event
  <1>1. Len(q) = 1
    <2>1. Len(q) = 0 => q = <<>>
      OBVIOUS
    <2>2. Len(q) \in Nat
      OBVIOUS
    <2> QED
      BY <2>1, <2>2
  <1> QED
    BY <1>1

\* What a tool call or the timer emits: the events of the batch take what the ledger
\* held to what it holds.
LEMMA EmitLogged ==
  ASSUME PlanTyped, LogFollows, NEW events \in Seq(Event), NEW n \in Nat \ {0},
         NEW plans \in [1..n -> Plan], Emit(events, plans),
         UNCHANGED <<sending, logged, unlogged>>,
         \A t \in Ids : Covers(events, [plan |-> Held], plans[n], t)
  PROVE  LogFollows'
  <1> PlanTypeOK
    BY DEF PlanTyped
  <1> SUFFICES ASSUME ~orphaned', ~unlogged', NEW t \in Ids
               PROVE  Covers(Outgoing', logged', plan', t)
    BY Zenon DEF LogFollows
  <1>1. Len(plans) = n
    OBVIOUS
  <1>2. ~orphaned /\ held /\ ~unlogged
    BY Zenon DEF Emit
  <1>3. plan' = plans[n] /\ Held = plan
    BY <1>1, <1>2 DEF Emit, Held
  <1>4. PICK frozen : /\ frozen \in Seq(Event)
                      /\ \E gone : frozen = Freeze(chain, gone)
                      /\ chain' = frozen \o events
    <2>1. \A gone : Freeze(chain, gone) \in Seq(Event)
      BY FreezeType DEF PlanTypeOK
    <2> QED
      BY <2>1, Zenon DEF Emit
  <1>5. Covers(Outgoing, logged, plan, t)
    BY <1>2, Zenon DEF LogFollows
  <1>6. Covers(sending \o frozen, logged, plan, t)
    BY <1>4, <1>5, CoversFrozen
  <1>7. PICK q \in Seq(Event) : q = sending \o frozen
    <2>1. sending \o frozen \in Seq(Event)
      BY <1>4 DEF PlanTypeOK
    <2> QED
      BY <2>1, Zenon
  <1>8. Outgoing' = q \o events
    <2>1. Outgoing' = sending \o (frozen \o events)
      BY <1>4 DEF Outgoing
    <2>2. sending \in Seq(Event) /\ frozen \in Seq(Event) /\ events \in Seq(Event)
      BY <1>4 DEF PlanTypeOK
    <2>3. (sending \o frozen) \o events = sending \o (frozen \o events)
      BY <2>2, Regroup, Zenon
    <2> QED
      BY <1>7, <2>1, <2>3
  <1>9. Covers(q \o events, logged, plans[n], t)
    BY <1>3, <1>6, <1>7, CoversAppend
  <1> QED
    BY <1>3, <1>8, <1>9

\* task_create: the events name the tasks that are new.
LEMMA CreatedCovers ==
  ASSUME PlanTypeOK, NEW n \in 1..2, NEW t \in Ids
  PROVE  Covers([i \in 1..n |-> Upsert(Numbered + i)], [plan |-> Held], Created(n)[n], t)
  <1> DEFINE events == [i \in 1..n |-> Upsert(Numbered + i)]
  <1> SUFFICES Covers(events, [plan |-> Held], Created(n)[n], t)
    OBVIOUS
  <1>1. PICK m \in Nat : m = Numbered
    BY HeldType
  <1>2. \A i \in 1..n : events[i].to = "live" /\ events[i].task = m + i
    BY <1>1 DEF Upsert
  <1>3. DOMAIN events = 1..n
    OBVIOUS
  <1>4. Created(n)[n][t] = IF t \in (m + 1)..(m + n) THEN "pending" ELSE Held[t]
    BY <1>1 DEF Created
  <1> HIDE DEF events
  <1>5. CASE t \in (m + 1)..(m + n)
    <2>1. PICK i \in 1..n : t = m + i
      <3>1. t - m \in 1..n /\ t = m + (t - m)
        BY <1>5
      <3> QED
        BY <3>1
    <2>2. \A j \in 1..n : j > i => m + j # t
      BY <2>1
    <2> QED
      BY <1>2, <1>3, <2>1, <2>2 DEF Covers, Touches, Says
  <1>6. CASE t \notin (m + 1)..(m + n)
    <2>1. \A i \in 1..n : m + i # t
      BY <1>6
    <2> QED
      BY <1>2, <1>3, <1>4, <1>6, <2>1 DEF Covers, Touches
  <1> QED
    BY <1>5, <1>6

\* task_update: no two events of a call name the same task.
LEMMA UpdatedCovers ==
  ASSUME PlanTypeOK, NEW n \in {1, 2}, NEW s, DOMAIN s = 1..n, n = 2 => s[1] # s[2],
         NEW to \in Status, NEW t \in Ids,
         NEW events, DOMAIN events = 1..n, \A i \in 1..n : events[i] = UpdateOf(s[i], to)
  PROVE  Covers(events, [plan |-> Held], Updated(s, to)[n], t)
  <1>1. \A i \in 1..n : /\ events[i].task = s[i]
                        /\ events[i].to = IF to = "none" THEN "none" ELSE "live"
    BY DEF UpdateOf, Delete, Upsert
  <1>2. Updated(s, to)[n][t] = IF \E j \in 1..n : s[j] = t THEN to ELSE Held[t]
    BY DEF Updated
  <1>3. CASE \E j \in 1..n : s[j] = t
    <2>1. PICK i \in 1..n : s[i] = t
      BY <1>3
    <2>2. \A j \in 1..n : j > i => s[j] # t
      BY <2>1
    <2>3. Touches(events[i], t) /\ Says(events[i], t, Updated(s, to)[n])
      BY <1>1, <1>2, <1>3, <2>1 DEF Touches, Says
    <2>4. \A j \in 1..n : j > i => ~Touches(events[j], t)
      BY <1>1, <2>2 DEF Touches
    <2> QED
      BY <2>3, <2>4 DEF Covers
  <1>4. CASE ~\E j \in 1..n : s[j] = t
    <2>1. \A j \in 1..n : ~Touches(events[j], t)
      BY <1>1, <1>4 DEF Touches
    <2> QED
      BY <1>2, <1>4, <2>1 DEF Covers
  <1> QED
    BY <1>3, <1>4

\* The reset says that no task is left.
LEMMA ResetCovers ==
  ASSUME NEW t \in Ids, NEW log
  PROVE  Covers(<<Reset>>, log, Empty, t)
  <1>1. DOMAIN <<Reset>> = {1} /\ <<Reset>>[1] = Reset
    OBVIOUS
  <1>2. Touches(Reset, t) /\ Says(Reset, t, Empty)
    BY DEF Touches, Says, Reset, Empty
  <1> QED
    BY <1>1, <1>2 DEF Covers

\* Every step keeps it, or loses an event.
LEMMA LogNext ==
  ASSUME PlanTyped, PlanIsFollowed, LogFollows, [PlanNext]_planVars
  PROVE  LogFollows'
  <1> PlanTypeOK
    BY DEF PlanTyped
  <1> MaxTasks \in Nat
    BY PlanAssumption
  <1>0. Held \in Plan /\ Numbered \in 0..MaxTasks
    BY HeldType
  <1>1. CASE TaskCreate
    <2>1. PICK n \in 1..2 :
            /\ Numbered + n <= MaxTasks
            /\ Emit([i \in 1..n |-> Upsert(Numbered + i)], Created(n))
            /\ UNCHANGED <<sending, logged, file, resident, prompting, draining, losses, unsaved, unlogged>>
      BY <1>1, Zenon DEF TaskCreate
    <2> DEFINE events == [i \in 1..n |-> Upsert(Numbered + i)]
               plans == Created(n)
    <2>2. events \in Seq(Event)
      <3>1. \A i \in 1..n : Numbered + i \in Ids
        BY <1>0, <2>1 DEF Ids
      <3>2. \A i \in 1..n : Upsert(Numbered + i) \in Event
        BY <3>1 DEF Upsert, Event
      <3> QED
        BY <3>2
    <2>3. plans \in [1..n -> Plan] /\ n \in Nat \ {0} /\ UNCHANGED <<sending, logged, unlogged>>
      BY <1>0, <2>1 DEF Created, Plan, Status
    <2>4. \A t \in Ids : Covers(events, [plan |-> Held], plans[n], t)
      BY CreatedCovers
    <2>5. Emit(events, plans)
      BY <2>1
    <2> HIDE DEF events, plans
    <2> QED
      BY <2>2, <2>3, <2>4, <2>5, EmitLogged
  <1>2. CASE TaskUpdate
    <2>1. PICK s, to, n : /\ n \in {1, 2} /\ DOMAIN s = 1..n /\ \A i \in 1..n : s[i] \in Ids
                          /\ to \in Status /\ UpdateTasks(s, to) /\ Len(s) = n
      <3>1. PICK f \in {<<t>> : t \in Ids} \cup {<<t, u>> : t, u \in Ids}, to \in Status :
                   UpdateTasks(f, to)
        BY <1>2 DEF TaskUpdate
      <3>2. PICK n \in {1, 2} : DOMAIN f = 1..n /\ Len(f) = n /\ \A i \in 1..n : f[i] \in Ids
        OBVIOUS
      <3>3. /\ n \in {1, 2} /\ DOMAIN f = 1..n /\ \A i \in 1..n : f[i] \in Ids
            /\ to \in Status /\ UpdateTasks(f, to) /\ Len(f) = n
        BY <3>1, <3>2
      <3> QED
        BY <3>3
    <2> DEFINE events == [i \in DOMAIN s |-> UpdateOf(s[i], to)]
               plans == Updated(s, to)
    <2>2. /\ DOMAIN s = 1..n /\ n \in {1, 2} /\ to \in Status
          /\ n = 2 => s[1] # s[2]
      BY <2>1 DEF UpdateTasks
    <2>3. Emit(events, plans) /\ UNCHANGED <<sending, logged, unlogged>>
      BY <2>1 DEF UpdateTasks
    <2>4. plans \in [1..n -> Plan] /\ n \in Nat \ {0}
      BY <1>0, <2>1 DEF Updated, Plan
    <2>5. events \in Seq(Event)
      <3>1. \A i \in 1..n : UpdateOf(s[i], to) \in Event
        BY <2>1 DEF UpdateOf, Delete, Upsert, Event
      <3>2. events \in [1..n -> Event]
        BY <2>1, <3>1
      <3> QED
        BY <2>4, <3>2
    <2>6. DOMAIN events = 1..n /\ \A i \in 1..n : events[i] = UpdateOf(s[i], to)
      BY <2>2
    <2> HIDE DEF events
    <2>7. ASSUME NEW t \in Ids PROVE Covers(events, [plan |-> Held], plans[n], t)
      BY <2>2, <2>6, UpdatedCovers, Zenon
    <2> HIDE DEF plans
    <2> QED
      BY <2>3, <2>4, <2>5, <2>7, EmitLogged
  <1>3. ASSUME held' = TRUE, orphaned' = (orphaned \/ ~held), plan' = Held,
               UNCHANGED <<chain, sending, logged, unlogged>>
        PROVE  LogFollows'
    <2>1. ~orphaned' => ~orphaned /\ held
      BY <1>3, Zenon
    <2>2. held => plan' = plan
      BY <1>3 DEF Held
    <2>3. Outgoing' = Outgoing
      BY <1>3 DEF Outgoing
    <2> QED
      BY <1>3, <2>1, <2>2, <2>3, Zenon DEF LogFollows
  <1>4. CASE TaskUnknown
    BY <1>3, <1>4 DEF TaskUnknown
  <1>5. CASE HideTimerFires
    <2>1. CASE AllCompleted(Held)
      <3> DEFINE events == <<Reset>>
                 plans == <<Empty>>
      <3>1. Emit(events, plans) /\ UNCHANGED <<sending, logged, unlogged>>
        BY <1>5, <2>1 DEF HideTimerFires
      <3>2. events \in Seq(Event)
        BY DEF Reset, Event
      <3>3. plans \in [1..1 -> Plan] /\ 1 \in Nat \ {0} /\ plans[1] = Empty
        BY DEF Empty, Plan, Status
      <3>4. \A t \in Ids : Covers(events, [plan |-> Held], Empty, t)
        BY ResetCovers
      <3> HIDE DEF events, plans
      <3> QED
        BY <3>1, <3>2, <3>3, <3>4, EmitLogged
    <2>2. CASE ~AllCompleted(Held)
      BY <1>3, <1>5, <2>2 DEF HideTimerFires
    <2> QED
      BY <2>1, <2>2
  <1>6. ASSUME UNCHANGED <<plan, chain, sending, logged>>,
               ~orphaned' => ~orphaned, ~unlogged' => ~unlogged
        PROVE  LogFollows'
    <2>1. Outgoing' = Outgoing
      BY <1>6 DEF Outgoing
    <2> QED
      BY <1>6, <2>1, Zenon DEF LogFollows
  <1>7. CASE SendEvent
    <2>1. /\ sending = <<>> /\ chain # <<>> /\ sending' = <<Body(Head(chain))>>
          /\ chain' = Tail(chain) /\ UNCHANGED <<plan, logged, orphaned, unlogged>>
      BY <1>7 DEF SendEvent
    <2>2. chain \in Seq(Event) /\ plan \in Plan /\ \A i \in DOMAIN chain : chain[i] \in Event
      BY DEF PlanTypeOK
    <2>3. Body(Head(chain)) \in Event
      BY <2>1, <2>2, BodyType
    <2>4. Outgoing = chain /\ Outgoing' = <<Body(Head(chain))>> \o Tail(chain)
      BY <2>1, OutgoingPositions DEF Outgoing
    <2>5. DOMAIN Outgoing' = DOMAIN chain
      BY <2>1, <2>2, <2>3, <2>4
    <2>6. \A i \in DOMAIN chain : Outgoing'[i] \in {chain[i], Body(chain[i])}
      BY <2>1, <2>2, <2>3, <2>4
    <2>7. PICK r : r = Outgoing'
      OBVIOUS
    <2>8. ASSUME NEW t \in Ids, Covers(chain, logged, plan, t) PROVE Covers(r, logged, plan, t)
      <3>1. \A i \in DOMAIN chain :
               /\ Touches(r[i], t) <=> Touches(chain[i], t)
               /\ Touches(chain[i], t) /\ Says(chain[i], t, plan) => Says(r[i], t, plan)
        BY <2>2, <2>6, <2>7, SaidByBody
      <3> QED
        BY <2>5, <2>7, <2>8, <3>1, CoversKept
    <2> QED
      BY <2>1, <2>4, <2>7, <2>8, Zenon DEF LogFollows
  <1>8. CASE EventLands
    <2>1. /\ sending # <<>> /\ sending' = <<>> /\ logged' = Replay(logged, sending[1])
          /\ UNCHANGED <<plan, chain, orphaned, unlogged>>
      BY <1>8 DEF EventLands, EventEnds
    <2>2. PICK e \in Event : sending = <<e>> /\ e.to # "live"
      <3>0. sending \in Seq(Event) /\ Len(sending) <= 1 /\ sending # <<>>
        BY <2>1 DEF PlanTypeOK
      <3>1. sending = <<sending[1]>> /\ 1 \in DOMAIN sending /\ sending[1] \in Event
        BY <3>0, OneEvent, Zenon
      <3>2. sending[1].to # "live"
        BY <3>1 DEF PlanTyped, SentIsSerialised
      <3> QED
        BY <3>1, <3>2
    <2>3. PICK log \in Logs, p \in Plan, q \in Seq(Event) : log = logged /\ p = plan /\ q = chain
      BY DEF PlanTypeOK, Logs
    <2>4. Outgoing = <<e>> \o q /\ Outgoing' = q /\ logged' = Replay(log, e) /\ plan' = p
      BY <2>1, <2>2, <2>3 DEF Outgoing
    <2>5. ASSUME NEW t \in Ids, Covers(<<e>> \o q, log, p, t)
          PROVE  Covers(q, Replay(log, e), p, t)
      BY <2>2, <2>5, CoversLanded
    <2> QED
      BY <2>1, <2>3, <2>4, <2>5, Zenon DEF LogFollows
  <1>9. CASE EventFails
    BY <1>9 DEF EventFails, LogFollows
  <1>10. CASE SnapshotLands \/ SnapshotFails
    BY <1>6, <1>10 DEF SnapshotLands, SnapshotFails
  <1>11. CASE ReopenSession
    <2>1. /\ UNCHANGED <<chain, sending, logged, unlogged>>
          /\ resident => UNCHANGED <<plan, orphaned>>
      BY <1>11 DEF ReopenSession
    <2>2. CASE resident
      BY <1>6, <2>1, <2>2
    <2>3. CASE ~resident /\ ~orphaned'
      <3>1. ~orphaned /\ plan' = plan
        <4>1. CASE held
          <5>1. ~orphaned /\ ~(Held = Empty /\ Tasks(file) # {})
            BY <1>11, <2>3, <4>1 DEF ReopenSession
          <5> QED
            BY <1>11, <2>3, <4>1, <5>1 DEF ReopenSession, Held
        <4>2. CASE ~held
          <5>1. ~orphaned /\ ~unsaved /\ flight.state = "idle"
            BY <1>11, <2>3, <4>2 DEF ReopenSession
          <5>2. file = plan
            BY <5>1 DEF PlanIsFollowed, SnapshotFollows
          <5>3. Tasks(file) = {} => file = Empty
            BY DEF Tasks, Empty, Plan, PlanTypeOK
          <5>4. plan' = file
            BY <1>11, <2>3, <4>2, <5>3 DEF ReopenSession, Held
          <5> QED
            BY <5>1, <5>2, <5>4
        <4> QED
          BY <4>1, <4>2
      <3> QED
        BY <1>6, <2>1, <3>1
    <2> QED
      BY <2>2, <2>3, Zenon DEF LogFollows
  <1>12. CASE SessionPromptEnds \/ Release \/ CloseStarts
    BY <1>6, <1>12 DEF SessionPromptEnds, Release, CloseStarts
  <1>13. CASE Restore
    <2>1. /\ plan' = logged.plan /\ UNCHANGED <<sending, logged>>
          /\ chain' = Freeze(chain, Ids)
          /\ ~orphaned' => chain = <<>> /\ sending = <<>>
      BY <1>13 DEF Restore
    <2>2. SUFFICES ASSUME ~orphaned', NEW t \in Ids PROVE Covers(Outgoing', logged', plan', t)
      BY Zenon DEF LogFollows
    <2>3. DOMAIN Outgoing' = {}
      <3>1. chain' = <<>> /\ sending' = <<>>
        BY <2>1, <2>2 DEF Freeze
      <3> QED
        BY <3>1 DEF Outgoing
    <2> QED
      BY <2>1, <2>3 DEF Covers
  <1>14. CASE CloseEnds
    <2>1. /\ UNCHANGED <<plan, sending, logged, unlogged>>
          /\ chain' = Freeze(chain, Ids)
          /\ ~orphaned' => ~orphaned
      BY <1>14, Zenon DEF CloseEnds
    <2>2. Outgoing' = sending \o Freeze(chain, Ids)
      BY <2>1, Zenon DEF Outgoing
    <2>3. ASSUME NEW t \in Ids, Covers(Outgoing, logged, plan, t)
          PROVE  Covers(sending \o Freeze(chain, Ids), logged, plan, t)
      BY <2>3, CoversFrozen
    <2> QED
      BY <2>1, <2>2, <2>3, Zenon DEF LogFollows
  <1>15. CASE ProcessDies
    <2>1. /\ UNCHANGED <<plan, logged, unlogged>> /\ chain' = <<>> /\ sending' = <<>>
          /\ ~orphaned' => ~orphaned /\ chain = <<>> /\ sending = <<>>
      BY <1>15, Zenon DEF ProcessDies
    <2>2. ~orphaned' => UNCHANGED <<chain, sending>>
      BY <2>1
    <2> QED
      BY <1>6, <2>1, <2>2, Zenon DEF LogFollows
  <1>16. CASE UNCHANGED planVars
    BY <1>6, <1>16 DEF planVars
  <1> QED
    BY <1>1, <1>2, <1>4, <1>5, <1>7, <1>8, <1>9, <1>10, <1>11, <1>12, <1>13, <1>14, <1>15, <1>16
       DEF PlanNext

\* The control plane's log and the events on their way to it rebuild the plan, whatever
\* batches, sendings, closings, reopenings and restorations came before, unless an
\* append failed or the plan was lost with events outstanding.
THEOREM LogAlwaysRebuilds == PlanSpec => []LogRebuildsThePlan
  <1>1. PlanInit => PlanTyped /\ PlanIsFollowed /\ LogFollows
    BY PlanInitTyped, FollowedInit, LogInit
  <1>2. PlanTyped /\ PlanIsFollowed /\ LogFollows /\ [PlanNext]_planVars
        => (PlanTyped /\ PlanIsFollowed /\ LogFollows)'
    BY PlanNextTyped, FollowedNext, LogNext
  <1>3. PlanTyped /\ LogFollows => LogRebuildsThePlan
    BY FollowsRebuilds
  <1> QED
    BY <1>1, <1>2, <1>3, PTL DEF PlanSpec

=============================================================================
