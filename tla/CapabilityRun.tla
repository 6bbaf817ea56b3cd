---------------------------- MODULE CapabilityRun ----------------------------
(***************************************************************************)
(* One capability run: the record the Runtime keeps of it                  *)
(* (gateway/capability/run-manager.ts), the consumer's row that mirrors    *)
(* the record, the single-use box that executes it and offers its durable  *)
(* events one by one (kbc/platform/pod/event_relay.py), the relay that     *)
(* carries them to the consumer (session-driver.ts), and the handlers of   *)
(* gateway/server.ts that start, address and cancel the run.               *)
(*                                                                         *)
(* A record is an object that awaits may still hold when the Runtime has   *)
(* dropped or replaced it: `recs' keeps every record made, `runs' the one  *)
(* the Runtime finds.  persist() serialises the writes of the row:         *)
(* `writes' is that chain, each entry the snapshot its caller took.  The   *)
(* consumer pins its input when it starts the run, so that                 *)
(* setInputRevision() has nothing to write.                                *)
(***************************************************************************)
EXTENDS Naturals, Sequences, SequencesExt, FiniteSets

CONSTANTS
    Messages,       \* the turns the consumer sends, by message_id
    MaxAsks,        \* capability.message calls per turn
    MaxOperations,  \* turns, cancels, watchdog ticks and troubles, together
    MaxEvents,      \* durable events the boxes of the run emit
    MaxRecords,     \* records made of this run
    MaxTroubles,    \* restarts of the Runtime, failed RPCs, lost answers, broken streams
    MaxDeferrals    \* MAX_REAP_DEFERRALS

ASSUME CapabilityAssumption ==
    {MaxAsks, MaxOperations, MaxEvents, MaxRecords, MaxTroubles, MaxDeferrals} \subseteq Nat

\* A message is not taken for one of the other callers that write the row.
ASSUME CallersAssumption == Messages \cap {"start", "relay", "cancel", "dog"} = {}

VARIABLES
    row,        \* the consumer's row of the run
    saved,      \* events whose turn capability.persistTurn stored
    recs,       \* the records made of the run, oldest first
    runs,       \* runs.get(runId): which of them, 0 if none
    deferrals,  \* reapDeferrals.get(runId)
    writes,     \* persistTails: the row writes in flight, oldest first
    box,        \* the run's pod and the session in it
    emitted,    \* events the boxes have emitted
    stopping,   \* a stop of the box that nobody waits for is under way
    session,    \* capabilitySessions.get(runId), and what its setup found
    reattach,   \* onAdopt is looking for a live box
    relay,      \* driveCapabilitySession
    start,      \* capability.start
    call,       \* capability.message, per message
    cancel,     \* capability.cancel
    dog,        \* reconcile()
    operations, troubles,
    acked,      \* history: events whose frame the box has dropped
    delivered,  \* history: messages some box accepted
    outdated,   \* history: records made of an answer the row had left behind
    adrift,     \* history: the last write of the row failed
    restored    \* history: a status was put back after a POST

capabilityVars ==
    <<row, saved, recs, runs, deferrals, writes, box, emitted, stopping, session, reattach,
      relay, start, call, cancel, dog, operations, troubles, acked, delivered, outdated, adrift,
      restored>>

store == <<row, saved, adrift>>
memory == <<recs, runs, deferrals, writes, outdated>>
boxSide == <<box, emitted, stopping, acked, delivered>>
sessionSide == <<session, reattach, relay>>
marks == <<restored, operations>>
handlers == <<start, call, cancel, dog, marks>>

Terminal == {"done", "failed"}
Active == {"running", "idle"}
NoRow == [status |-> "none", relay |-> 0, msgs |-> {}]
NoEvent == [id |-> 0, kind |-> "none"]
NoBox == [pod |-> "absent", turns |-> 0, queue |-> <<>>, pending |-> NoEvent, accepted |-> {}]
NewCall == [pc |-> "new", asks |-> 0, rec |-> 0, prev |-> "none", before |-> {}, seen |-> NoRow]
NoSession == [pc |-> "none", created |-> FALSE, opening |-> FALSE]
NoRelay == [pc |-> "off", event |-> NoEvent, replays |-> FALSE]
DogRests == [pc |-> "rest", rec |-> 0, seen |-> NoRow, outcome |-> "none", blind |-> FALSE]

CapabilityInit ==
    /\ row = NoRow /\ saved = {} /\ adrift = FALSE
    /\ recs = <<>> /\ runs = 0 /\ deferrals = 0 /\ writes = <<>> /\ outdated = {}
    /\ box = NoBox /\ emitted = 0 /\ stopping = FALSE /\ acked = {} /\ delivered = {}
    /\ session = NoSession /\ reattach = FALSE /\ relay = NoRelay
    /\ start = [pc |-> "new", opening |-> FALSE]
    /\ call = [m \in Messages |-> NewCall]
    /\ cancel = [pc |-> "new", seen |-> NoRow]
    /\ dog = DogRests
    /\ restored = FALSE
    /\ operations = 0 /\ troubles = 0

----------------------------------------------------------------------------
(* The record and its row.                                                  *)

Live == runs # 0 /\ recs[runs].status \in Active

Operation ==
    /\ operations + troubles < MaxOperations
    /\ operations' = operations + 1

Fault ==
    /\ troubles < MaxTroubles /\ operations + troubles < MaxOperations
    /\ troubles' = troubles + 1

\* persist(): the state is a snapshot taken by the caller.
Persist(chain, g, r, caller) ==
    Append(chain, [rec |-> g, status |-> r.status, relay |-> r.relay, msgs |-> r.msgs,
                   by |-> caller])

\* setStatus() and endRun() of a live run: a terminal status is sticky, and
\* both count as activity.
Becomes(status, caller) ==
    /\ Live
    /\ recs' = [recs EXCEPT ![runs].status = status, ![runs].silent = FALSE]
    /\ writes' = Persist(writes, runs, recs'[runs], caller)
    /\ UNCHANGED <<runs, deferrals, outdated>>

\* The record startRun(), adopt() and recover() make of what they know.
NewRecord(r) == [status |-> r.status, relay |-> r.relay, persisted |-> r.relay,
                 msgs |-> r.msgs, silent |-> FALSE]

\* adopt() and recover() make a record of the consumer's answer.
Register(answer, status) ==
    /\ Len(recs) < MaxRecords
    /\ recs' = Append(recs, NewRecord([answer EXCEPT !.status = status]))
    /\ runs' = Len(recs) + 1
    /\ outdated' = IF answer # row \/ writes # <<>> THEN outdated \cup {runs'} ELSE outdated

\* touch(): data from or for the box.
Touched(rs) == IF runs = 0 THEN rs ELSE [rs EXCEPT ![runs].silent = FALSE]

\* Silence as long as the status tolerates: dataStaleMs without data or
\* staleMs without any sign when running, idleTtlMs when idle.  (A heartbeat
\* only delays the second.)  Only the watchdog looks, so it matters only then.
TimePasses ==
    /\ dog.pc = "listed"
    /\ Live /\ ~recs[runs].silent
    /\ recs' = [recs EXCEPT ![runs].silent = TRUE]
    /\ UNCHANGED <<runs, deferrals, writes, outdated, store, boxSide, sessionSide, handlers,
                   troubles>>

stalenessOutcome(r) == IF ~r.silent \/ r.status \in Terminal THEN "none"
                       ELSE IF r.status = "idle" THEN "done" ELSE "failed"

----------------------------------------------------------------------------
(* The box: its session, its events and its end.                            *)

\* A turn ends and its turn_done joins the queue.
TurnEnds ==
    /\ box.pod = "live" /\ box.turns > 0 /\ emitted < MaxEvents
    /\ emitted' = emitted + 1
    /\ box' = [box EXCEPT !.turns = @ - 1,
                          !.queue = Append(@, [id |-> emitted', kind |-> "turn"])]
    /\ UNCHANGED <<stopping, acked, delivered, store, memory, sessionSide, handlers, troubles>>

\* The session coroutine exits (done) or fails: its last event, with the `end'
\* frame that follows it and says the same again.
SessionEnds ==
    /\ box.pod = "live" /\ emitted < MaxEvents
    /\ emitted' = emitted + 1
    /\ \E kind \in Terminal :
         box' = [box EXCEPT !.pod = "over", !.turns = 0,
                            !.queue = Append(@, [id |-> emitted', kind |-> kind])]
    /\ UNCHANGED <<stopping, acked, delivered, store, memory, sessionSide, handlers, troubles>>

\* agentBoxManager.stop() behind the back of its caller ends, or fails.
StopLands ==
    /\ stopping
    /\ stopping' = FALSE
    /\ \/ box' = NoBox /\ UNCHANGED troubles
       \/ Fault /\ UNCHANGED box
    /\ UNCHANGED <<emitted, acked, delivered, store, memory, sessionSide, handlers>>

----------------------------------------------------------------------------
(* One box session and one relay per run (ensureCapabilitySession).         *)

\* Joining the setup under way, or beginning one.
Ensure(opening) ==
    session' = IF session.pc = "none"
               THEN [pc |-> "acquire", created |-> FALSE, opening |-> opening] ELSE session

\* The run's live box is reused as it is; only a missing one is spawned.
AcquireBox ==
    /\ session.pc = "acquire"
    /\ session' = [session EXCEPT !.pc = "open", !.created = box.pod = "absent"]
    /\ box' = IF box.pod = "absent" THEN [NoBox EXCEPT !.pod = "empty"] ELSE box
    /\ UNCHANGED <<emitted, stopping, acked, delivered, store, memory, reattach, relay,
                   handlers, troubles>>

\* A call at its next step; one that is over forgets what it held.
At(c, pc) == IF pc \in {"ok", "failed"} THEN [NewCall EXCEPT !.pc = pc, !.asks = c.asks]
             ELSE [c EXCEPT !.pc = pc]

\* The requests that joined the setup go on, or fail with it.
SetupOver(begun, joined) ==
    /\ start' = IF start.pc = "ensuring" THEN [start EXCEPT !.pc = begun] ELSE start
    /\ call' = [m \in Messages |-> IF call[m].pc = "ensuring" THEN At(call[m], joined)
                                   ELSE call[m]]
    /\ UNCHANGED <<cancel, dog, marks>>

\* POST /session, or reattachment to the session the box already runs.
OpenSession ==
    /\ session.pc = "open" /\ box.pod # "absent"
    /\ session' = [NoSession EXCEPT !.pc = "live"]
    /\ box' = IF box.pod = "empty"
              THEN [box EXCEPT !.pod = "live", !.turns = IF session.opening THEN 1 ELSE 0]
              ELSE box
    /\ relay' = [pc |-> "connect", event |-> NoEvent, replays |-> FALSE]
    /\ SetupOver("ok", "ready")
    /\ UNCHANGED <<emitted, stopping, acked, delivered, store, memory, reattach, troubles>>

\* The setup throws; a box it created itself is stopped, a reused one is kept.
SetupFails ==
    /\ session.pc \in {"acquire", "open"}
    /\ \/ session.pc = "open" /\ box.pod = "absent" /\ UNCHANGED troubles
       \/ Fault
    /\ session' = NoSession
    /\ stopping' = (stopping \/ session.created)
    /\ SetupOver("broken", "failed")
    /\ UNCHANGED <<box, emitted, acked, delivered, store, memory, reattach, relay>>

\* onAdopt: a live box gets its relay back, a dead one waits for a message.
Reattach ==
    /\ reattach
    /\ reattach' = FALSE
    /\ IF box.pod = "absent" THEN UNCHANGED session ELSE Ensure(FALSE)
    /\ UNCHANGED <<relay, store, memory, boxSide, handlers, troubles>>

----------------------------------------------------------------------------
(* driveCapabilitySession: one frame at a time, each step retrying only its *)
(* own write.                                                               *)

runSettled == ~Live

StatusAfter(e) == IF e.kind = "turn" THEN "idle" ELSE e.kind

RelayTo(pc) == relay' = [relay EXCEPT !.pc = pc]

BoxServes == box.pod \in {"live", "over"}

\* GET /events: the first connection finds out whether the box can replay.
Connect ==
    /\ relay.pc = "connect"
    /\ relay' = IF BoxServes THEN [relay EXCEPT !.pc = "stream", !.replays = TRUE]
                ELSE [relay EXCEPT !.pc = "lost"]
    /\ UNCHANGED <<session, reattach, store, memory, boxSide, handlers, troubles>>

StreamBreaks ==
    /\ relay.pc = "stream"
    /\ \/ ~BoxServes /\ UNCHANGED troubles
       \/ Fault
    /\ RelayTo("lost")
    /\ UNCHANGED <<session, reattach, store, memory, boxSide, handlers>>

\* A settled run needs no stream; a dead box or too many attempts fail the run.
StreamLost ==
    /\ relay.pc = "lost"
    /\ \/ runSettled /\ RelayTo("closing") /\ UNCHANGED troubles
       \/ ~runSettled /\ (~relay.replays \/ ~BoxServes) /\ RelayTo("failing")
          /\ UNCHANGED troubles
       \/ ~runSettled /\ relay.replays /\ RelayTo("failing") /\ Fault
       \/ ~runSettled /\ relay.replays /\ BoxServes /\ RelayTo("connect") /\ UNCHANGED troubles
    /\ UNCHANGED <<session, reattach, store, memory, boxSide, handlers>>

\* What an offered frame still needs: one committed before is only acknowledged.
FrameStep(e) ==
    IF e = relay.event \/ (runs # 0 /\ recs[runs].persisted = e.id) THEN "ack"
    ELSE IF e.kind = "turn" THEN "save" ELSE "commit"

\* One durable frame is offered at a time, until it is acknowledged.
Frame ==
    /\ relay.pc = "stream" /\ BoxServes
    /\ box.pending # NoEvent \/ box.queue # <<>>
    /\ LET fresh == box.pending = NoEvent
           e == IF fresh THEN Head(box.queue) ELSE box.pending IN
       /\ box' = IF fresh THEN [box EXCEPT !.pending = e, !.queue = Tail(@)] ELSE box
       /\ relay' = [relay EXCEPT !.pc = FrameStep(e), !.event = e]
       /\ IF FrameStep(e) = "ack" THEN UNCHANGED <<recs, deferrals>>
          ELSE recs' = Touched(recs) /\ deferrals' = 0
    /\ UNCHANGED <<runs, writes, outdated, emitted, stopping, acked, delivered, session,
                   reattach, store, handlers, troubles>>

\* Mutant: a persistTurn that failed is passed over.
SaveTurnBestEffort ==
    /\ relay.pc = "save"
    /\ RelayTo("commit")
    /\ \/ saved' = saved \cup {relay.event.id} /\ UNCHANGED troubles
       \/ UNCHANGED saved /\ Fault
    /\ UNCHANGED <<row, adrift, session, reattach, memory, boxSide, handlers>>

\* capability.persistTurn
SaveTurn ==
    /\ relay.pc = "save"
    /\ \/ RelayTo("commit") /\ saved' = saved \cup {relay.event.id} /\ UNCHANGED troubles
       \/ /\ Fault
          /\ saved' \in {saved, saved \cup {relay.event.id}}
          /\ \E pc \in {"failing"} \cup (IF runSettled THEN {} ELSE {"resave"}) : RelayTo(pc)
    /\ UNCHANGED <<row, adrift, session, reattach, memory, boxSide, handlers>>

\* A cancelled run begins no other write; a terminal event keeps its outcome.
RetryStep ==
    /\ \/ /\ relay.pc = "resave"
          /\ RelayTo(IF runSettled THEN "failing" ELSE "save")
       \/ /\ relay.pc = "recommit"
          /\ RelayTo(IF relay.event.kind = "turn" /\ runSettled THEN "failing" ELSE "commit")
    /\ UNCHANGED <<session, reattach, store, memory, boxSide, handlers, troubles>>

\* Mutant: the row is written with the status the run had before the event.
CommitSnapshotsFirst ==
    /\ relay.pc = "commit"
    /\ LET e == relay.event IN
       IF runs = 0 \/ recs[runs].persisted = e.id
       THEN RelayTo("ack") /\ UNCHANGED <<recs, writes>>
       ELSE /\ recs' = [recs EXCEPT
                   ![runs].relay = e.id,
                   ![runs].status = IF Live /\ recs[runs].relay # e.id
                                    THEN StatusAfter(e) ELSE @]
            /\ writes' = Persist(writes, runs, [recs[runs] EXCEPT !.relay = e.id], "relay")
            /\ RelayTo("committing")
    /\ UNCHANGED <<runs, deferrals, outdated, session, reattach, store, boxSide, handlers,
                   troubles>>

\* commitRelayEvent()
Commit ==
    /\ relay.pc = "commit"
    /\ LET e == relay.event IN
       IF runs = 0 \/ recs[runs].persisted = e.id
       THEN RelayTo("ack") /\ UNCHANGED <<recs, writes>>
       ELSE /\ recs' = [recs EXCEPT
                   ![runs].relay = e.id,
                   ![runs].status = IF Live /\ recs[runs].relay # e.id
                                    THEN StatusAfter(e) ELSE @]
            /\ writes' = Persist(writes, runs, recs'[runs], "relay")
            /\ RelayTo("committing")
    /\ UNCHANGED <<runs, deferrals, outdated, session, reattach, store, boxSide, handlers,
                   troubles>>

\* POST /events/ack: only then the box drops the frame.
Ack ==
    /\ relay.pc = "ack"
    /\ LET received == BoxServes /\ box.pending = relay.event IN
       \/ /\ received
          /\ box' = [box EXCEPT !.pending = NoEvent]
          /\ acked' = acked \cup {relay.event}
          /\ \/ RelayTo(IF relay.event.kind \in Terminal THEN "closing" ELSE "stream")
                /\ UNCHANGED troubles
             \/ RelayTo("lost") /\ Fault
       \/ /\ RelayTo("lost")
          /\ IF received THEN Fault ELSE UNCHANGED troubles
          /\ UNCHANGED <<box, acked>>
    /\ UNCHANGED <<emitted, stopping, delivered, session, reattach, store, memory, handlers>>

\* The relay fails the run it can no longer follow.
RelayFails ==
    /\ relay.pc = "failing"
    /\ IF Live THEN Becomes("failed", "relay") /\ RelayTo("ending")
       ELSE RelayTo("closing") /\ UNCHANGED memory
    /\ UNCHANGED <<session, reattach, store, boxSide, handlers, troubles>>

\* Mutant: the closing relay leaves the entry of its session behind.
RelayClosesAlone ==
    /\ relay.pc = "closing"
    /\ relay' = NoRelay
    /\ stopping' = TRUE
    /\ UNCHANGED <<session, reattach, box, emitted, acked, delivered, store, memory, handlers,
                   troubles>>

\* However it ended, its box is of no more use.
RelayCloses ==
    /\ relay.pc = "closing"
    /\ relay' = NoRelay
    /\ session' = NoSession
    /\ stopping' = TRUE
    /\ UNCHANGED <<reattach, box, emitted, acked, delivered, store, memory, handlers, troubles>>

----------------------------------------------------------------------------
(* capability.start                                                         *)

Start ==
    /\ start.pc = "new" /\ Len(recs) < MaxRecords
    /\ \E status \in Active :
         LET r == NewRecord([NoRow EXCEPT !.status = status]) IN
         /\ recs' = Append(recs, r)
         /\ writes' = Persist(writes, Len(recs) + 1, r, "start")
         /\ start' = [pc |-> "writing", opening |-> status = "running"]
    /\ UNCHANGED <<runs, deferrals, outdated, call, cancel, dog, marks, store, boxSide,
                   sessionSide, troubles>>

StartBroken ==
    /\ start.pc = "broken"
    /\ IF Live THEN Becomes("failed", "start") /\ start' = [start EXCEPT !.pc = "ending"]
       ELSE start' = [start EXCEPT !.pc = "failed"] /\ UNCHANGED memory
    /\ UNCHANGED <<call, cancel, dog, marks, store, boxSide, sessionSide, troubles>>

----------------------------------------------------------------------------
(* capability.message: the same turn may be sent again until it is answered. *)

CallTo(m, pc) == call' = [call EXCEPT ![m] = At(@, pc)]

\* A run that has ended is refused, a turn the run has taken is answered at
\* once, any other gets a session.
Addressed(m, r) == IF r.status \in Terminal THEN "failed"
                   ELSE IF m \in r.msgs THEN "ok"
                   ELSE IF session.pc = "live" THEN "ready" ELSE "ensuring"

\* A missing run is looked for in the store.
Ask(m) ==
    /\ start.pc = "ok"
    /\ call[m].pc \in {"new", "failed"} /\ call[m].asks < MaxAsks
    /\ IF call[m].asks = 0 THEN Operation ELSE troubles > 0 /\ UNCHANGED operations
    /\ LET pc == IF runs = 0 THEN "adopting" ELSE Addressed(m, recs[runs]) IN
       /\ call' = [call EXCEPT ![m] = At([@ EXCEPT !.asks = call[m].asks + 1, !.rec = runs,
                                           !.seen = IF runs = 0 THEN row ELSE NoRow], pc)]
       /\ IF pc \in {"ready", "ensuring"}
          THEN recs' = Touched(recs) /\ deferrals' = 0 /\ Ensure(FALSE)
          ELSE UNCHANGED <<recs, deferrals, session>>
    /\ UNCHANGED <<runs, writes, outdated, start, cancel, dog, restored, store, boxSide,
                   reattach, relay, troubles>>

\* adopt(): only a run that has not ended becomes a record.
Adopt(m) ==
    /\ call[m].pc = "adopting"
    /\ \/ /\ CallTo(m, "failed")
          /\ IF call[m].seen.status \in Active THEN Fault ELSE UNCHANGED troubles
          /\ UNCHANGED <<memory, reattach, session>>
       \/ /\ call[m].seen.status \in Active
          /\ Register(call[m].seen, call[m].seen.status)
          /\ deferrals' = 0
          /\ UNCHANGED writes
          /\ reattach' = TRUE
          /\ LET pc == Addressed(m, call[m].seen) IN
             /\ call' = [call EXCEPT ![m] = At([@ EXCEPT !.rec = runs', !.seen = NoRow], pc)]
             /\ IF pc = "ok" THEN UNCHANGED session ELSE Ensure(FALSE)
          /\ UNCHANGED troubles
    /\ UNCHANGED <<start, cancel, dog, marks, store, boxSide, relay>>

\* setStatus(running), before the box can emit the turn_done.
Publish(m) ==
    /\ call[m].pc = "ready"
    /\ call' = [call EXCEPT ![m].prev = recs[call[m].rec].status,
                            ![m].pc = IF Live THEN "publishing" ELSE "posting"]
    /\ IF Live THEN Becomes("running", m) ELSE UNCHANGED memory
    /\ UNCHANGED <<start, cancel, dog, marks, store, boxSide, sessionSide, troubles>>

\* Mutant: a message whose transition could not be stored is sent to the box all the same.
PutBackAndGoOn(m, waiting, after) ==
    /\ IF Live THEN Becomes(call[m].prev, m) /\ CallTo(m, "again")
       ELSE CallTo(m, "accepted") /\ UNCHANGED memory
    /\ restored' = TRUE

\* setStatus(previousStatus), or what follows it when there is nothing to set.
PutBack(m, waiting, after) ==
    /\ IF Live THEN Becomes(call[m].prev, m) /\ CallTo(m, waiting)
       ELSE CallTo(m, after) /\ UNCHANGED memory
    /\ restored' = TRUE

\* The box takes a turn once, by its message_id.
Accept(m) ==
    /\ box' = [box EXCEPT !.accepted = @ \cup {m}, !.turns = @ + 1]
    /\ delivered' = delivered \cup {m}

\* POST /message
Post(m) ==
    /\ call[m].pc = "posting"
    /\ \/ /\ box.pod = "live" /\ m \notin box.accepted
          /\ Accept(m)
          /\ CallTo(m, "accepted")
          /\ UNCHANGED <<memory, restored, troubles>>
       \/ /\ box.pod = "live" /\ m \in box.accepted
          /\ PutBack(m, "again", "accepted")
          /\ UNCHANGED <<box, delivered, troubles>>
       \/ /\ box.pod # "live"
          /\ PutBack(m, "restoring", "failed")
          /\ UNCHANGED <<box, delivered, troubles>>
       \/ /\ box.pod = "live" /\ Fault
          /\ PutBack(m, "restoring", "failed")
          /\ IF m \in box.accepted THEN UNCHANGED <<box, delivered>>
             ELSE Accept(m) \/ UNCHANGED <<box, delivered>>
    /\ UNCHANGED <<start, cancel, dog, operations, store, emitted, stopping, acked, sessionSide>>

\* rememberMessageId(), once the box has accepted the turn.
Remember(m) ==
    /\ call[m].pc = "accepted"
    /\ IF runs = 0 \/ m \in recs[runs].msgs
       THEN CallTo(m, "ok") /\ UNCHANGED <<recs, writes>>
       ELSE /\ recs' = [recs EXCEPT ![runs].msgs = @ \cup {m}]
            /\ writes' = Persist(writes, runs, recs'[runs], m)
            /\ call' = [call EXCEPT ![m].pc = "remembering", ![m].before = recs[runs].msgs]
    /\ UNCHANGED <<runs, deferrals, outdated, start, cancel, dog, marks, store, boxSide,
                   sessionSide, troubles>>

----------------------------------------------------------------------------
(* capability.cancel: end the run first, then stop its box.                 *)

CancelTo(pc) == cancel' = [cancel EXCEPT !.pc = pc]

\* endRun(done); a run that has ended, or is unknown, has nothing to write.
CancelEnds ==
    IF Live THEN Becomes("done", "cancel") /\ CancelTo("ending")
    ELSE CancelTo("stopping") /\ UNCHANGED memory

Cancel ==
    /\ start.pc = "ok" /\ cancel.pc = "new"
    /\ Operation
    /\ IF runs = 0 THEN cancel' = [pc |-> "adopting", seen |-> row] /\ UNCHANGED memory
       ELSE CancelEnds
    /\ UNCHANGED <<start, call, dog, restored, store, boxSide, sessionSide, troubles>>

\* Adopting without a relay, to end it; without a record the row tells which
\* box to stop.
CancelAdopts ==
    /\ cancel.pc = "adopting"
    /\ \/ /\ cancel.seen.status \in Active
          /\ Register(cancel.seen, "done")
          /\ writes' = Persist(writes, runs', recs'[runs'], "cancel")
          /\ UNCHANGED deferrals
          /\ cancel' = [pc |-> "ending", seen |-> NoRow]
          /\ UNCHANGED troubles
       \/ /\ cancel' = [pc |-> "stopping", seen |-> NoRow]
          /\ IF cancel.seen.status \in Active THEN Fault ELSE UNCHANGED troubles
          /\ UNCHANGED memory
    /\ UNCHANGED <<start, call, dog, marks, store, boxSide, sessionSide>>

\* agentBoxManager.stop(), awaited: its failure is the caller's.
CancelStops ==
    /\ cancel.pc = "stopping"
    /\ \/ box' = NoBox /\ CancelTo("confirmed") /\ UNCHANGED troubles
       \/ Fault /\ CancelTo("failed") /\ UNCHANGED box
    /\ UNCHANGED <<emitted, stopping, acked, delivered, start, call, dog, marks, store,
                   memory, sessionSide>>

----------------------------------------------------------------------------
(* reconcile(): flushTerminal(), recover(), reapStale().                    *)

DogTo(pc) == dog' = [dog EXCEPT !.pc = pc]

\* A terminal status whose write failed is written again.
DogFlushes ==
    /\ dog.pc = "rest" /\ runs # 0 /\ ~Live
    /\ Operation
    /\ writes' = Persist(writes, runs, recs[runs], "dog")
    /\ DogTo("flushing")
    /\ UNCHANGED <<recs, runs, deferrals, outdated, start, call, cancel, restored, store,
                   boxSide, sessionSide, troubles>>

\* capability.listActiveRuns is answered from the row as it is now.
DogLists ==
    /\ \/ dog.pc = "rest" /\ start.pc # "new" /\ (runs = 0 \/ Live) /\ Operation
       \/ dog.pc = "listing" /\ UNCHANGED operations
    /\ \/ dog' = [dog EXCEPT !.pc = "listed", !.seen = row] /\ UNCHANGED troubles
       \/ dog' = [dog EXCEPT !.pc = "listed"] /\ Fault
    /\ UNCHANGED <<start, call, cancel, restored, store, memory, boxSide, sessionSide>>

\* The answer comes later: a run the Runtime does not hold becomes a record,
\* one that has been silent too long is looked up in the store again.
DogRecovers ==
    /\ dog.pc = "listed"
    /\ IF dog.seen.status \in Active /\ runs = 0
       THEN Register(dog.seen, dog.seen.status) /\ reattach' = TRUE /\ dog' = DogRests
            /\ UNCHANGED <<deferrals, writes>>
       ELSE /\ dog' = IF runs # 0 /\ stalenessOutcome(recs[runs]) # "none"
                      THEN [DogRests EXCEPT !.pc = "checking", !.rec = runs, !.seen = row]
                      ELSE DogRests
            /\ UNCHANGED <<memory, reattach>>
    /\ UNCHANGED <<session, relay, start, call, cancel, marks, store, boxSide, troubles>>

\* Fresh again, or to be reaped.
DogJudges(blind) ==
    LET outcome == stalenessOutcome(recs[dog.rec]) IN
    dog' = IF outcome = "none" THEN DogRests
           ELSE [dog EXCEPT !.pc = "stopping", !.outcome = outcome, !.blind = blind]

\* The answer: an ended run is forgotten.  Without an answer the run waits,
\* at most MaxDeferrals times.
DogChecks ==
    /\ dog.pc = "checking"
    /\ \/ /\ deferrals' = 0
          /\ IF dog.seen.status \in Terminal THEN runs' = 0 /\ dog' = DogRests
             ELSE DogJudges(FALSE) /\ UNCHANGED runs
          /\ UNCHANGED troubles
       \/ /\ Fault
          /\ IF deferrals + 1 < MaxDeferrals
             THEN deferrals' = deferrals + 1 /\ dog' = DogRests
             ELSE deferrals' = 0 /\ DogJudges(TRUE)
          /\ UNCHANGED runs
    /\ UNCHANGED <<recs, writes, outdated, start, call, cancel, marks, store, boxSide,
                   sessionSide>>

\* onReap: the box goes first.
DogStops ==
    /\ dog.pc = "stopping"
    /\ DogTo("ending")
    /\ \/ box' = NoBox /\ UNCHANGED troubles
       \/ Fault /\ UNCHANGED box
    /\ UNCHANGED <<emitted, stopping, acked, delivered, start, call, cancel, marks, store,
                   memory, sessionSide>>

DogReaps ==
    /\ dog.pc = "ending"
    /\ IF Live THEN Becomes(dog.outcome, "dog") /\ DogTo("reaped")
       ELSE dog' = DogRests /\ UNCHANGED memory
    /\ UNCHANGED <<start, call, cancel, marks, store, boxSide, sessionSide, troubles>>

----------------------------------------------------------------------------
(* The end of a write, and what its caller does next.                       *)

\* endRun() and flushTerminal() drop the run when its end is written.
AfterEnd(written) == runs' = IF written THEN 0 ELSE runs

WrittenForStart(w, written) ==
    /\ IF start.pc = "writing"
       THEN /\ start' = [pc |-> IF written THEN "ensuring" ELSE "failed", opening |-> FALSE]
            /\ IF written THEN runs' = w.rec /\ Ensure(start.opening)
               ELSE UNCHANGED <<runs, session>>
       ELSE /\ start' = [start EXCEPT !.pc = "failed"]
            /\ AfterEnd(written)
            /\ UNCHANGED session
    /\ UNCHANGED <<relay, call, cancel, dog>>

WrittenForRelay(w, written) ==
    /\ AfterEnd(written /\ w.status \in Terminal)
    /\ IF relay.pc = "ending" THEN RelayTo("closing")
       ELSE IF written THEN RelayTo("ack")
       ELSE LET hopeless == runSettled /\ (runs = 0 \/ relay.event.kind = "turn") IN
            \E pc \in {"failing"} \cup (IF hopeless THEN {} ELSE {"recommit"}) : RelayTo(pc)
    /\ UNCHANGED <<session, start, call, cancel, dog>>

WrittenForCall(w, written) ==
    /\ CallTo(w.by, CASE call[w.by].pc = "publishing" -> "posting"
                      [] call[w.by].pc = "restoring" -> "failed"
                      [] call[w.by].pc = "again" -> "accepted"
                      [] call[w.by].pc = "remembering" -> IF written THEN "ok" ELSE "failed")
    /\ UNCHANGED <<runs, session, relay, start, cancel, dog>>

WrittenForCancel(w, written) ==
    /\ CancelTo("stopping")
    /\ AfterEnd(written)
    /\ UNCHANGED <<session, relay, start, call, dog>>

WrittenForDog(w, written) ==
    /\ IF dog.pc = "flushing" THEN DogTo("listing") ELSE dog' = DogRests
    /\ AfterEnd(written)
    /\ UNCHANGED <<session, relay, start, call, cancel>>

Written(w, written) ==
    \/ w.by = "start" /\ WrittenForStart(w, written)
    \/ w.by = "relay" /\ WrittenForRelay(w, written)
    \/ w.by \in Messages /\ WrittenForCall(w, written)
    \/ w.by = "cancel" /\ WrittenForCancel(w, written)
    \/ w.by = "dog" /\ WrittenForDog(w, written)

RowOf(w) == [status |-> w.status, relay |-> w.relay, msgs |-> w.msgs]

\* Mutant: the writes of a run are not serialised, the newest may land first.
NextWriteAny(chain) == Len(chain)

\* The chain is served in order: the next write starts when one has ended.
NextWrite(chain) == 1

WriteLands ==
    /\ writes # <<>>
    /\ LET next == NextWrite(writes)
           w == writes[next] IN
       /\ row' = RowOf(w)
       /\ recs' = [recs EXCEPT ![w.rec].persisted = w.relay]
       /\ Written(w, TRUE)
       /\ writes' = RemoveAt(writes, next)
    /\ adrift' = FALSE
    /\ UNCHANGED <<saved, deferrals, outdated, reattach, marks, boxSide, troubles>>

\* The request fails, though the consumer may have served it;
\* rememberMessageId() takes its mark back.
WriteFails ==
    /\ writes # <<>>
    /\ Fault
    /\ LET w == Head(writes) IN
       /\ row' \in {row, RowOf(w)}
       /\ recs' = IF w.by \in Messages /\ call[w.by].pc = "remembering"
                  THEN [recs EXCEPT ![w.rec].msgs = call[w.by].before] ELSE recs
       /\ Written(w, FALSE)
       /\ writes' = Tail(writes)
    /\ adrift' = TRUE
    /\ UNCHANGED <<saved, deferrals, outdated, reattach, marks, boxSide>>

\* The Runtime restarts: only the row and the box survive, and a write or a
\* stop that was sent may still land.
RuntimeCrashes ==
    /\ Fault
    /\ row' \in {row} \cup (IF writes = <<>> THEN {} ELSE {RowOf(Head(writes))})
    /\ adrift' = FALSE
    /\ runs' = 0 /\ deferrals' = 0 /\ writes' = <<>>
    /\ session' = NoSession /\ reattach' = FALSE /\ relay' = NoRelay
    /\ stopping' \in {FALSE, stopping}
    /\ start' = IF start.pc \in {"new", "ok"} THEN start ELSE [start EXCEPT !.pc = "failed"]
    /\ call' = [m \in Messages |-> IF call[m].pc \in {"new", "ok"} THEN call[m]
                                   ELSE At(call[m], "failed")]
    /\ cancel' = IF cancel.pc \in {"new", "confirmed"} THEN cancel
                 ELSE [cancel EXCEPT !.pc = "failed"]
    /\ dog' = [DogRests EXCEPT !.pc = "listing"]
    /\ UNCHANGED <<saved, recs, outdated, box, emitted, acked, delivered, marks>>

----------------------------------------------------------------------------
BoxStep == TurnEnds \/ SessionEnds \/ StopLands

SessionStep == AcquireBox \/ OpenSession \/ SetupFails \/ Reattach

RelayStep ==
    \/ Connect \/ StreamBreaks \/ StreamLost \/ Frame \/ SaveTurn \/ RetryStep \/ Commit
    \/ Ack \/ RelayFails \/ RelayCloses

HandlerStep ==
    \/ Start \/ StartBroken
    \/ \E m \in Messages : Ask(m) \/ Adopt(m) \/ Publish(m) \/ Post(m) \/ Remember(m)
    \/ Cancel \/ CancelAdopts \/ CancelStops

DogStep ==
    \/ TimePasses \/ DogFlushes \/ DogLists \/ DogRecovers \/ DogChecks \/ DogStops
    \/ DogReaps

StoreStep == WriteLands \/ WriteFails

CapabilityNext ==
    BoxStep \/ SessionStep \/ RelayStep \/ HandlerStep \/ DogStep \/ StoreStep \/ RuntimeCrashes

CapabilitySpec == CapabilityInit /\ [][CapabilityNext]_capabilityVars

----------------------------------------------------------------------------
(* What must hold.                                                          *)

Rows == [status : {"none"} \cup Active \cup Terminal, relay : 0..MaxEvents,
         msgs : SUBSET Messages]

\* Records, rows, writes and queues keep their types (CapabilityRunRecord,
\* CapabilityRunRow, EventRelay); the caller of a write waits for that write.
CapabilityTypeOK ==
    /\ row \in Rows
    /\ saved \subseteq 1..MaxEvents
    /\ \A i \in 1..Len(recs) :
         recs[i] \in [status : Active \cup Terminal, relay : 0..MaxEvents,
                      persisted : 0..MaxEvents, msgs : SUBSET Messages,
                      silent : BOOLEAN]
    /\ runs \in 0..Len(recs) /\ Len(recs) <= MaxRecords
    /\ deferrals \in 0..MaxDeferrals
    /\ \A i, j \in 1..Len(writes) : writes[i].by = writes[j].by => i = j
    /\ box.pod \in {"absent", "empty", "live", "over"}
    /\ session.pc \in {"none", "acquire", "open", "live"}
    /\ (relay.pc # "off") <=> (session.pc = "live")

\* A turn_done whose frame the box has dropped, or that the row counts as
\* relayed, is in the consumer's history: the acknowledgement waits for both
\* writes of the event, through lost answers, re-deliveries and restarts
\* (session-driver.ts:161-184).
AckedTurnIsSaved ==
    /\ \A e \in acked : e.kind = "turn" => e.id \in saved
    /\ relay.event.kind = "turn" /\ row.relay = relay.event.id => relay.event.id \in saved

\* When no write is under way and the last one did not fail, the row says of
\* a live run what its record says: the writes of the relay, the handlers and
\* the watchdog never overtake each other (persistTails, run-manager.ts:139).
RowMirrorsRecord ==
    Live /\ writes = <<>> /\ ~adrift /\ runs \notin outdated
        => row.status = recs[runs].status /\ row.relay = recs[runs].relay

\* A turn is answered, or remembered in the row as taken, only if a box took
\* it, whatever failed in between (rememberMessageId, run-manager.ts:318).
AnsweredTurnWasTaken ==
    \A m \in Messages : call[m].pc = "ok" \/ m \in row.msgs => m \in delivered

\* A run whose box is at rest does not stay "running": running is published
\* before the box can emit the turn_done that ends it.  Left out are the runs
\* where a status was put back after a POST (server.ts:1576-1581).
RestingRunIsIdle ==
    /\ row.status = "running" /\ writes = <<>> /\ ~adrift /\ ~restored
    /\ start.pc = "ok" /\ runs = 1
    /\ \A m \in Messages : call[m].pc \in {"new", "ok"}
    /\ relay.pc = "stream" /\ box.pod = "live" /\ box.pending = NoEvent /\ box.queue = <<>>
    => box.turns > 0

\* "A done never degrades": the row of a run that is done changes only by a
\* record made from an answer the row had left behind; and the watchdog, whose
\* mark may then meet such a record, was not told that the run is done, unless
\* the store refused its every question (reapStale, run-manager.ts:564-616).
DoneStaysDone ==
    [][row.status = "done" /\ row'.status # "done"
         => \E i \in 1..Len(writes) :
              /\ writes[i].status = row'.status
              /\ writes[i].rec \in outdated
              /\ writes[i].by = "dog" /\ dog.pc = "reaped"
                    => dog.blind \/ dog.seen.status # "done"]_capabilityVars

=============================================================================
