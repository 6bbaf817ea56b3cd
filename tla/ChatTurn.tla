------------------------------ MODULE ChatTurn ------------------------------
(***************************************************************************)
(* A chat turn of one session from dispatch to terminal: chat.send,        *)
(* chat.abort and the supervisor's endTurns() in the Runtime               *)
(* (src/gateway/server.ts) against one AgentBox (BoxTurns).  The lock of   *)
(* the session is TurnMutex, which SessionTurnLocks implements.            *)
(*                                                                         *)
(* An attempt is one chat.send call.  Several attempts may carry the same  *)
(* dispatchId, which is their turn id too: a caller that lost the answer,  *)
(* or was told of a failure, retries.  Answers get lost, aborts arrive     *)
(* late, and both processes restart.                                       *)
(***************************************************************************)
EXTENDS BoxTurns, Sequences, SequencesExt

CONSTANTS
    Durable,        \* dispatches with requireSessionPersistence
    Strict,         \* dispatches with requiredResultToolName
    MaxTroubles     \* bound on the Stops, endTurns() calls and restarts

ASSUME TurnAssumption ==
    /\ Durable \subseteq Dispatches /\ Strict \subseteq Dispatches
    /\ MaxTroubles \in Nat

VARIABLES
    pc,             \* where a chat.send is
    stopped,        \* attempts whose turnAbort signal is aborted
    terminals,      \* how many prompt_done events an attempt's turn got
    reserved,       \* recentDispatches: "none", "pending", "confirmed"
    turnOf, line,   \* the turn lock
    supervisorEnded, \* supervisorEndedTurns
    boxAbortAsked,
    shuttingDown,
    stopCalls,      \* abort requests of chat.abort on their way
    askCalls,       \* abort requests of endTurns() on their way
    troubles        \* how many of those there were

lockVars == <<turnOf, line>>
superVars == <<supervisorEnded, boxAbortAsked, shuttingDown>>
callVars == <<stopCalls, askCalls>>
vars == <<boxVars, pc, stopped, terminals, reserved, lockVars, superVars, callVars,
          troubles>>

Lock == INSTANCE TurnMutex WITH Sessions <- {"session"}, Callers <- Attempts
Owner == turnOf["session"]

\* In liveTurnIds, with its turnAbort.
LivePcs == {"persist", "queued", "requeued", "held", "steering", "prompting",
            "resteering", "stopping", "compensating", "consuming"}
Live == {a \in Attempts : pc[a] \in LivePcs}
TurnIds(As) == {DispatchOf[a] : a \in As}

\* busyOn(): the owner of the lock has noted its box.
Placed == Owner # Nobody /\ pc[Owner] # "held"

TypeOK ==
    /\ BoxTypeOK
    /\ pc \in [Attempts -> LivePcs \cup {"new", "duplicate", "rejected", "failed",
                                         "orphaned", "steered", "over", "dead"}]
    /\ stopped \subseteq Attempts
    /\ terminals \in [Attempts -> Nat]
    /\ reserved \in [Dispatches -> {"none", "pending", "confirmed"}]
    /\ turnOf \in [{"session"} -> Attempts \cup {Nobody}]
    /\ line \in [{"session"} -> Seq(Attempts)]
    /\ Owner # Nobody => Owner \in Live
    /\ supervisorEnded \subseteq Dispatches
    /\ boxAbortAsked \subseteq Dispatches
    /\ shuttingDown \in BOOLEAN
    /\ stopCalls \subseteq Dispatches \cup {AnyTurn}
    /\ askCalls \subseteq Dispatches
    /\ troubles \in 0..MaxTroubles

Init ==
    /\ BoxInit
    /\ pc = [a \in Attempts |-> "new"]
    /\ stopped = {}
    /\ terminals = [a \in Attempts |-> 0]
    /\ reserved = [d \in Dispatches |-> "none"]
    /\ Lock!Init
    /\ supervisorEnded = {}
    /\ boxAbortAsked = {}
    /\ shuttingDown = FALSE
    /\ stopCalls = {}
    /\ askCalls = {}
    /\ troubles = 0

----------------------------------------------------------------------------
(* The end of a chat.send.                                                 *)

\* Mutant: an attempt that failed keeps its reservation.
ReservationKept(a, end) ==
    [reserved EXCEPT ![DispatchOf[a]] = IF end = "steered" THEN "confirmed" ELSE @]

\* releaseDispatch() of a failed attempt, confirmDispatch() of a steered one.
ReservationAfter(a, end) ==
    [reserved EXCEPT ![DispatchOf[a]] = IF end = "steered" THEN "confirmed"
                                        ELSE IF end = "over" THEN @ ELSE "none"]

\* Does this attempt report the end of its turn?  Not when it rides another
\* turn, nor when the supervisor reported it.
Reports(a, end) == end # "steered" /\ DispatchOf[a] \notin supervisorEnded

\* Catch and finally: report, forget the turn.  The lock is not given back here.
Settle(a, end) ==
    /\ terminals' = [terminals EXCEPT ![a] = IF Reports(a, end) THEN @ + 1 ELSE @]
    /\ reserved' = ReservationAfter(a, end)
    /\ supervisorEnded' = supervisorEnded \ {DispatchOf[a]}
    /\ boxAbortAsked' = boxAbortAsked \ {DispatchOf[a]}
    /\ UNCHANGED <<stopped, shuttingDown, callVars, troubles>>

\* Mutant: a failed owner does not give the lock back.
GivesBackOnSuccess(end) == end # "failed"

\* releaseTurn?.() in the finally.
GivesBack(end) == TRUE

\* The owner of the lock is through: the head of the line goes on.
Finish(a, end) ==
    /\ Settle(a, end)
    /\ \/ /\ GivesBack(end)
          /\ Lock!Pass("session")
          /\ pc' = [b \in Attempts |-> IF b = a THEN end
                                       ELSE IF b = turnOf'["session"] THEN "held" ELSE pc[b]]
       \/ /\ ~GivesBack(end)
          /\ UNCHANGED lockVars
          /\ pc' = [pc EXCEPT ![a] = end]

----------------------------------------------------------------------------
(* chat.send.                                                              *)

\* Up to the first await: refuse during shutdown, answer a duplicate, or
\* reserve the dispatch and register the turn.
Send(a) ==
    LET d == DispatchOf[a] IN
    /\ pc[a] = "new" /\ ~shuttingDown
    /\ \/ /\ reserved[d] # "none"
          /\ pc' = [pc EXCEPT ![a] = "duplicate"]
          /\ UNCHANGED reserved
       \/ /\ reserved[d] = "none"
          /\ pc' = [pc EXCEPT ![a] = "persist"]
          /\ reserved' = [reserved EXCEPT ![d] = "pending"]
    /\ UNCHANGED <<boxVars, stopped, terminals, lockVars, superVars, callVars, troubles>>

\* acquire(): the lock, or a place in the line.
Acquire(a, waiting) ==
    \/ Lock!Take("session", a) /\ pc' = [pc EXCEPT ![a] = "held"]
    \/ Lock!Join("session", a) /\ pc' = [pc EXCEPT ![a] = waiting]

\* The message is stored, or need not be; the RPC is answered.
Persisted(a) ==
    /\ pc[a] = "persist"
    /\ Acquire(a, "queued")
    /\ UNCHANGED <<boxVars, stopped, terminals, reserved, superVars, callVars, troubles>>

\* A caller that insisted on storage is told: the turn is forgotten, its
\* reservation is not.
PersistFails(a) ==
    /\ pc[a] = "persist" /\ DispatchOf[a] \in Durable
    /\ pc' = [pc EXCEPT ![a] = "rejected"]
    /\ UNCHANGED <<boxVars, stopped, terminals, reserved, lockVars, superVars, callVars,
                   troubles>>

\* SessionBusyError: give up when stopped, when the input must not ride another
\* turn, or the second time.
RefusedForGood(a) == a \in stopped \/ DispatchOf[a] \in Strict \/ pc[a] = "requeued"

\* The waiter's timer fires: fail, steer into the running turn, or, when its
\* box is not known, queue up again at once.
Refused(a) ==
    /\ pc[a] \in {"queued", "requeued"}
    /\ \E k \in DOMAIN line["session"] :
        /\ line["session"][k] = a
        /\ \/ /\ RefusedForGood(a)
              /\ Settle(a, "failed")
              /\ Lock!Leave("session", k)
              /\ pc' = [pc EXCEPT ![a] = "failed"]
           \/ /\ ~RefusedForGood(a) /\ Placed
              /\ Lock!Leave("session", k)
              /\ pc' = [pc EXCEPT ![a] = "steering"]
              /\ UNCHANGED <<stopped, terminals, reserved, superVars, callVars, troubles>>
           \/ /\ ~RefusedForGood(a) /\ ~Placed
              /\ line' = [line EXCEPT !["session"] = Append(RemoveAt(@, k), a)]
              /\ pc' = [pc EXCEPT ![a] = "requeued"]
              /\ UNCHANGED <<turnOf, stopped, terminals, reserved, superVars, callVars,
                             troubles>>
    /\ UNCHANGED boxVars

\* The resident session takes the input as a steer of the running turn.
SteerTaken(a) ==
    /\ current # Nobody
    /\ \/ /\ pc[a] = "steering"
          /\ Settle(a, "steered")
          /\ pc' = [pc EXCEPT ![a] = "steered"]
          /\ UNCHANGED lockVars
       \/ /\ pc[a] = "resteering"
          /\ Finish(a, "steered")
    /\ UNCHANGED boxVars

\* The steer fails: ask for the lock once more, or give up.
SteerFails(a) ==
    /\ \/ /\ pc[a] = "steering"
          /\ Acquire(a, "requeued")
          /\ UNCHANGED <<stopped, terminals, reserved, superVars, callVars, troubles>>
       \/ /\ pc[a] = "resteering"
          /\ Finish(a, "failed")
    /\ UNCHANGED boxVars

\* A box is found and no Stop came in the meantime: noteBox(), client.prompt().
Place(a) ==
    /\ pc[a] = "held" /\ a \notin stopped
    /\ pc' = [pc EXCEPT ![a] = "prompting"]
    /\ SendPrompt(a)
    /\ UNCHANGED <<stopped, terminals, reserved, lockVars, superVars, callVars, troubles>>

\* throwIfStoppedBeforePrompt(), or no box is to be had.
FailsBeforePrompt(a) ==
    /\ pc[a] = "held"
    /\ Finish(a, "failed")
    /\ UNCHANGED boxVars

\* The box answered in time.  A Stop that came meanwhile must reach the box now
\* that it has the session.
PromptAnswered(a) ==
    /\ pc[a] = "prompting"
    /\ \/ /\ answer[a] = "ok"
          /\ reserved' = [reserved EXCEPT ![DispatchOf[a]] = "confirmed"]
          /\ pc' = [pc EXCEPT ![a] = IF a \in stopped THEN "stopping" ELSE "consuming"]
          /\ UNCHANGED <<stopped, terminals, lockVars, superVars, callVars, troubles>>
       \/ /\ answer[a] = "busy" /\ DispatchOf[a] \notin Strict
          /\ pc' = [pc EXCEPT ![a] = "resteering"]
          /\ UNCHANGED <<stopped, terminals, reserved, lockVars, superVars, callVars, troubles>>
       \/ /\ answer[a] = "busy" /\ DispatchOf[a] \in Strict
          /\ Finish(a, "failed")
       \/ /\ answer[a] = "unavailable"
          /\ Finish(a, "failed")
    /\ HangUp({a})

\* An error, a timeout, a lost answer: the outcome is unknown.
PromptFails(a) ==
    /\ pc[a] = "prompting"
    /\ pc' = [pc EXCEPT ![a] = "compensating"]
    /\ HangUp({a})
    /\ UNCHANGED <<stopped, terminals, reserved, lockVars, superVars, callVars, troubles>>

\* The abort of an accepted but stopped turn: it arrives, or three tries fail.
StopAccepted(a) ==
    /\ pc[a] = "stopping"
    /\ AbortTurn(DispatchOf[a]) \/ UNCHANGED boxVars
    /\ pc' = [pc EXCEPT ![a] = "compensating"]
    /\ UNCHANGED <<stopped, terminals, reserved, lockVars, superVars, callVars, troubles>>

\* The abort that undoes a prompt whose outcome is unknown.
Compensate(a) ==
    /\ pc[a] = "compensating"
    /\ AbortTurn(DispatchOf[a])
    /\ Finish(a, "failed")

CompensateFails(a) ==
    /\ pc[a] = "compensating"
    /\ Finish(a, "orphaned")
    /\ UNCHANGED boxVars

\* consumeAgentSse() returns: the run is over or the signal breaks the loop.
StreamEnds(a) ==
    /\ pc[a] = "consuming"
    /\ runBy = Nobody \/ a \in stopped
    /\ Finish(a, "over")
    /\ UNCHANGED boxVars

\* The stream breaks; the run goes on.
StreamBreaks(a) ==
    /\ pc[a] = "consuming"
    /\ Finish(a, "over")
    /\ UNCHANGED boxVars

----------------------------------------------------------------------------
Trouble ==
    /\ troubles < MaxTroubles
    /\ troubles' = troubles + 1

(* chat.abort and the supervisor.                                          *)

\* chat.abort for turn d, or for whatever is running: the signals of the live
\* turns it means, then one abort request for each.
Stop(x) ==
    /\ Trouble
    /\ \/ /\ Live # {} /\ x \in TurnIds(Live) \cup {AnyTurn}
          /\ LET targets == {a \in Live : x \in {DispatchOf[a], AnyTurn}} IN
             /\ stopped' = stopped \cup targets
             /\ stopCalls' = stopCalls \cup TurnIds(targets)
       \/ /\ Live = {}
          /\ stopCalls' = stopCalls \cup {x}
          /\ UNCHANGED stopped
    /\ UNCHANGED <<boxVars, pc, terminals, reserved, lockVars, superVars, askCalls>>

StopArrives(x) ==
    /\ x \in stopCalls
    /\ stopCalls' = stopCalls \ {x}
    /\ AbortTurn(x)
    /\ UNCHANGED <<pc, stopped, terminals, reserved, lockVars, superVars, askCalls, troubles>>

StopLost(x) ==
    /\ x \in stopCalls
    /\ stopCalls' = stopCalls \ {x}
    /\ UNCHANGED <<boxVars, pc, stopped, terminals, reserved, lockVars, superVars, askCalls,
                   troubles>>

\* Mutant: the supervisor reports a turn again.
UnreportedAlways(a) == a \in Live

\* Live, and not yet reported by the supervisor.
Unreported(a) == a \in Live /\ DispatchOf[a] \notin supervisorEnded

\* endTurns(), for a shutdown or because the box is removed: report every live
\* turn, cancel it, and ask the box, if one is known, to stop it.
EndTurns(shutdown) ==
    LET ask == {d \in TurnIds(Live) : Placed} \ boxAbortAsked IN
    /\ Trouble
    /\ shutdown \/ Live # {}
    /\ shuttingDown' = (shuttingDown \/ shutdown)
    /\ terminals' = [a \in Attempts |-> IF Unreported(a) THEN terminals[a] + 1
                                                         ELSE terminals[a]]
    /\ supervisorEnded' = supervisorEnded \cup TurnIds(Live)
    /\ stopped' = stopped \cup Live
    /\ boxAbortAsked' = boxAbortAsked \cup ask
    /\ askCalls' = askCalls \cup ask
    /\ UNCHANGED <<boxVars, pc, reserved, lockVars, stopCalls>>

\* stopTurnOnBox(): one of three tries arrives, or none.
AskArrives(d) ==
    /\ d \in askCalls
    /\ askCalls' = askCalls \ {d}
    /\ AbortTurn(d)
    /\ UNCHANGED <<pc, stopped, terminals, reserved, lockVars, superVars, stopCalls, troubles>>

AskLost(d) ==
    /\ d \in askCalls
    /\ askCalls' = askCalls \ {d}
    /\ boxAbortAsked' = boxAbortAsked \ {d}
    /\ UNCHANGED <<boxVars, pc, stopped, terminals, reserved, lockVars, supervisorEnded,
                   shuttingDown, stopCalls, troubles>>

\* The Runtime process ends and another one starts; requests it sent may still
\* arrive.
RuntimeRestarts ==
    /\ Trouble
    /\ pc' = [a \in Attempts |-> IF a \in Live THEN "dead" ELSE pc[a]]
    /\ reserved' = [d \in Dispatches |-> "none"]
    /\ turnOf' = [turnOf EXCEPT !["session"] = Nobody]
    /\ line' = [line EXCEPT !["session"] = <<>>]
    /\ supervisorEnded' = {} /\ boxAbortAsked' = {} /\ shuttingDown' = FALSE
    /\ HangUp(Live)
    /\ UNCHANGED <<stopped, terminals, callVars>>

BoxRestarts ==
    /\ Trouble
    /\ BoxLost
    /\ UNCHANGED <<pc, stopped, terminals, reserved, lockVars, superVars, callVars>>

----------------------------------------------------------------------------

AttemptStep(a) ==
    \/ Persisted(a) \/ PersistFails(a) \/ SteerTaken(a) \/ SteerFails(a)
    \/ Place(a) \/ FailsBeforePrompt(a) \/ PromptAnswered(a) \/ PromptFails(a)
    \/ StopAccepted(a) \/ Compensate(a) \/ CompensateFails(a) \/ StreamEnds(a)

BoxStep ==
    /\ \/ \E a \in Attempts : CheckPrompt(a) \/ LosePrompt(a) \/ RefusePrompt(a) \/ ClaimPrompt(a)
       \/ \E x \in Dispatches \cup {AnyTurn} : LatchExpires(x)
       \/ RunEnds \/ SessionReleased
    /\ UNCHANGED <<pc, stopped, terminals, reserved, lockVars, superVars, callVars, troubles>>

Next ==
    \/ \E a \in Attempts : Send(a) \/ AttemptStep(a) \/ Refused(a) \/ StreamBreaks(a)
    \/ \E x \in Dispatches \cup {AnyTurn} : Stop(x) \/ StopArrives(x) \/ StopLost(x)
    \/ \E d \in Dispatches : AskArrives(d) \/ AskLost(d)
    \/ \E shutdown \in BOOLEAN : EndTurns(shutdown)
    \/ BoxStep
    \/ RuntimeRestarts \/ BoxRestarts

Spec == Init /\ [][Next]_vars

\* Every await of a chat.send settles (client.prompt has a timeout of its own),
\* and a model run ends.
Fairness ==
    /\ \A a \in Attempts : WF_vars(AttemptStep(a))
    /\ WF_vars(BoxStep /\ runBy # Nobody /\ runBy' = Nobody)

FairSpec == Spec /\ Fairness

----------------------------------------------------------------------------
(* What a dispatch promises.                                               *)

\* A turn gets one terminal: not a second, plain one after the supervisor
\* reported it as interrupted, nor two interruptions with different reasons.
OneTerminal == \A a \in Attempts : terminals[a] <= 1

\* A dispatch runs at most once, whatever is retried, lost or restarted, unless
\* two of its requests were inside the box's prompt handler together.
RunsAtMostOnce == \A d \in Dispatches \ raced : runs[d] <= 1

\* A pending reservation belongs to a chat.send in progress, a confirmed one to
\* a turn that the box accepted or an input it took as a steer.  (A caller that
\* insists on storage is failed without a release, see PersistFails.)  Turns, lock
\* and box keep their types.
ReservationIsReal(d) ==
    /\ reserved[d] = "pending" => d \in TurnIds(Live)
    /\ reserved[d] = "confirmed" =>
          d \in ledger \/ \E a \in Attempts : DispatchOf[a] = d /\ pc[a] = "steered"
ReservationsAreReal == TypeOK /\ \A d \in Dispatches \ Durable : ReservationIsReal(d)

\* An attempt whose failure was reported does not run on the box, then or
\* later: the abort addressed to its turn arrives before, while or after the
\* prompt does, and each time it counts.
NoHeadlessRun ==
    \A a \in Attempts : pc[a] = "failed" /\ DispatchOf[a] \notin raced => runBy # a

\* An abort that names a turn, however late it arrives, ends a run of that turn
\* only, and only if somebody stopped it, gave it up, or asked for it by name.
GivenUp(d) ==
    \/ \E a \in Attempts :
          /\ DispatchOf[a] = d
          /\ a \in stopped \/ pc[a] \in {"compensating", "failed", "orphaned", "dead"}
    \/ d \in stopCalls
NamingAbort ==
    /\ <<pc, stopCalls, askCalls>>' # <<pc, stopCalls, askCalls>>
    /\ AnyTurn \in stopCalls => AnyTurn \in stopCalls'
AbortHitsItsTurn ==
    [][runBy # Nobody /\ runBy' = Nobody /\ NamingAbort => GivenUp(DispatchOf[runBy])]_vars

\* Every chat.send that was acknowledged ends, and its caller sees a terminal
\* unless its input rides another turn or the Runtime died.
Reported(a) == pc[a] \in {"steered", "dead"} \/ (a \notin Live /\ terminals[a] > 0)
TurnSettles == \A a \in Attempts : pc[a] \in LivePcs \ {"persist"} ~> Reported(a)

\* A dispatch that is confirmed ran, rode another turn, or was stopped by
\* somebody: its retry is not answered for a turn that nobody ran.
ConfirmedDispatchRan ==
    \A d \in Dispatches : reserved[d] = "confirmed" =>
        \/ runs[d] > 0
        \/ \E a \in Attempts : DispatchOf[a] = d /\ (pc[a] = "steered" \/ a \in stopped)

=============================================================================
