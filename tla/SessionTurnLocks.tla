-------------------------- MODULE SessionTurnLocks --------------------------
(***************************************************************************)
(* One turn at a time per session, in the Runtime                          *)
(* (src/gateway/session-turn-lock.ts) together with what its callers do    *)
(* with it (src/gateway/server.ts: chat.send and chat.steer): a request    *)
(* takes the lock, is placed on a box, hands the box its prompt and        *)
(* releases; a request that waited too long is told the session is busy    *)
(* and steers into the turn that runs, or asks once more.  A steer waits   *)
(* until the box has taken the prompt of the turn in flight.               *)
(*                                                                         *)
(* Every method of the class runs without yielding, so each is one step.   *)
(***************************************************************************)
EXTENDS Naturals, Sequences, SequencesExt

CONSTANTS
    Sessions,
    Callers,    \* requests that want a turn
    Steers,     \* chat.steer calls
    Boxes,      \* AgentBoxes a turn can be placed on
    Nobody,     \* no request
    NoBox       \* no box recorded

ASSUME LocksAssumption ==
    /\ Nobody \notin Callers
    /\ NoBox \notin Boxes

VARIABLES
    \* The entry of a session in the map `held`.
    held,          \* keys of the map
    queue,         \* Entry.queue: the waiters, each a request
    boxId,         \* Entry.boxId and Entry.endpoint
    accepted,      \* Entry.accepted
    acceptWaiters, \* Entry.acceptWaiters
    \* The requests.
    pc,            \* where a request is
    at,            \* the session it is for
    tries,         \* how often it asked for the lock
    box,           \* the box it was placed on
    \* The steers.
    steer,         \* where a chat.steer is
    behind         \* the request whose turn it waits for

entryVars == <<held, queue, boxId, accepted, acceptWaiters>>
callerVars == <<pc, at, tries, box>>
steerVars == <<steer, behind>>
vars == <<entryVars, callerVars, steerVars>>

Owning == {"holding", "placed", "taken"}

TypeOK ==
    /\ held \subseteq Sessions
    /\ queue \in [Sessions -> Seq(Callers)]
    /\ boxId \in [Sessions -> Boxes \cup {NoBox}]
    /\ accepted \in [Sessions -> BOOLEAN]
    /\ acceptWaiters \in [Sessions -> SUBSET Steers]
    /\ pc \in [Callers -> {"new", "waiting", "refused", "steered", "released"}
                            \cup Owning]
    /\ at \in [Callers -> Sessions]
    /\ tries \in [Callers -> 0..2]
    /\ box \in [Callers -> Boxes \cup {NoBox}]
    /\ steer \in [Steers -> {"new", "waiting", "free"}]
    /\ behind \in [Steers -> Callers \cup {Nobody}]

Init ==
    /\ held = {}
    /\ queue = [s \in Sessions |-> <<>>]
    /\ boxId = [s \in Sessions |-> NoBox]
    /\ accepted = [s \in Sessions |-> FALSE]
    /\ acceptWaiters = [s \in Sessions |-> {}]
    /\ pc = [c \in Callers |-> "new"]
    /\ at \in [Callers -> Sessions]
    /\ tries = [c \in Callers |-> 0]
    /\ box = [c \in Callers |-> NoBox]
    /\ steer = [k \in Steers |-> "new"]
    /\ behind = [k \in Steers |-> Nobody]

Owns(c, s) == at[c] = s /\ pc[c] \in Owning
Holder(s) == IF \E c \in Callers : Owns(c, s)
             THEN CHOOSE c \in Callers : Owns(c, s) ELSE Nobody

----------------------------------------------------------------------------
(* The lock.                                                               *)

\* Mutant: a refused request asks again and again.
MayAskForever(c) == pc[c] \in {"new", "refused"}

\* May c ask for the lock?  A refused request asks once more.
MayAsk(c) == pc[c] \in {"new", "refused"} /\ tries[c] < 2

\* waitForTurn() of a free session: a new entry, the lock is taken.
AcquireFree(c) ==
    /\ MayAsk(c)
    /\ at[c] \notin held
    /\ held' = held \cup {at[c]}
    /\ pc' = [pc EXCEPT ![c] = "holding"]
    /\ tries' = [tries EXCEPT ![c] = @ + 1]
    /\ UNCHANGED <<queue, boxId, accepted, acceptWaiters, at, box, steerVars>>

\* waitForTurn() of a session whose turn runs: queue up, arm the timer.
AcquireBusy(c) ==
    /\ MayAsk(c)
    /\ at[c] \in held
    /\ queue' = [queue EXCEPT ![at[c]] = Append(@, c)]
    /\ pc' = [pc EXCEPT ![c] = "waiting"]
    /\ tries' = [tries EXCEPT ![c] = @ + 1]
    /\ UNCHANGED <<held, boxId, accepted, acceptWaiters, at, box, steerVars>>

\* Mutant: the timer rejects the waiter but leaves it in the queue.
TimeoutStaysQueued(c) ==
    /\ pc[c] = "waiting"
    /\ pc' = [pc EXCEPT ![c] = "refused"]
    /\ UNCHANGED <<entryVars, at, tries, box, steerVars>>

\* The timer of waiter c fires: leave the queue, SessionBusyError.  The timer
\* is armed as long as the request waits (a hand-over clears it).
Timeout(c) ==
    /\ pc[c] = "waiting"
    /\ \E k \in DOMAIN queue[at[c]] :
        /\ queue[at[c]][k] = c
        /\ queue' = [queue EXCEPT ![at[c]] = RemoveAt(@, k)]
    /\ pc' = [pc EXCEPT ![c] = "refused"]
    /\ UNCHANGED <<held, boxId, accepted, acceptWaiters, at, tries, box, steerVars>>

\* Every steer in W that still waits goes on.
Resolve(W) == [k \in Steers |-> IF k \in W /\ steer[k] = "waiting" THEN "free"
                                                                   ELSE steer[k]]

\* release() with nobody waiting: the entry is deleted, and its waiters for
\* the acceptance with it.
ReleaseLast(s) ==
    /\ queue[s] = <<>>
    /\ held' = held \ {s}
    /\ boxId' = [boxId EXCEPT ![s] = NoBox]
    /\ accepted' = [accepted EXCEPT ![s] = FALSE]
    /\ acceptWaiters' = [acceptWaiters EXCEPT ![s] = {}]
    /\ UNCHANGED <<queue, steer>>

\* Mutant: the steers of the finished turn wait for the next one.
HandOverKeepsWaiters(s) ==
    /\ queue[s] # <<>>
    /\ queue' = [queue EXCEPT ![s] = Tail(@)]
    /\ boxId' = [boxId EXCEPT ![s] = NoBox]
    /\ accepted' = [accepted EXCEPT ![s] = FALSE]
    /\ UNCHANGED <<held, acceptWaiters, steer>>

\* release() hands the lock to the next waiter; it keeps the entry but clears
\* what described the turn that ended, and lets its steers go on.
HandOver(s) ==
    /\ queue[s] # <<>>
    /\ queue' = [queue EXCEPT ![s] = Tail(@)]
    /\ boxId' = [boxId EXCEPT ![s] = NoBox]
    /\ accepted' = [accepted EXCEPT ![s] = FALSE]
    /\ acceptWaiters' = [acceptWaiters EXCEPT ![s] = {}]
    /\ steer' = Resolve(acceptWaiters[s])
    /\ UNCHANGED held

\* Where a request stands when c releases and `next` takes over.
PassTo(c, next) ==
    [d \in Callers |-> IF d = c THEN "released"
                       ELSE IF d = next THEN "holding" ELSE pc[d]]

\* Mutant: the waiter that came last is served first.
SuccessorLast(s) == IF queue[s] = <<>> THEN Nobody ELSE queue[s][Len(queue[s])]

\* The request that release() resolves, if any.
Successor(s) == IF queue[s] = <<>> THEN Nobody ELSE Head(queue[s])

\* Mutant: the release function is not idempotent.
ReleaseTwice(c) ==
    /\ pc[c] \in Owning \cup {"released"}
    /\ at[c] \in held
    /\ ReleaseLast(at[c]) \/ HandOver(at[c])
    /\ pc' = PassTo(c, Successor(at[c]))
    /\ UNCHANGED <<at, tries, box, behind>>

\* The release function that acquire() returned.  A second call, a finally
\* that runs after an explicit release, does nothing.
Release(c) ==
    \/ /\ pc[c] \in Owning
       /\ ReleaseLast(at[c]) \/ HandOver(at[c])
       /\ pc' = PassTo(c, Successor(at[c]))
       /\ UNCHANGED <<at, tries, box, behind>>
    \/ /\ pc[c] = "released"
       /\ UNCHANGED vars

----------------------------------------------------------------------------
(* chat.send with the lock held, and after a refusal.                      *)

\* Placement chose box b: noteBox().
Place(c, b) ==
    /\ pc[c] = "holding"
    /\ pc' = [pc EXCEPT ![c] = "placed"]
    /\ box' = [box EXCEPT ![c] = b]
    /\ boxId' = IF at[c] \in held THEN [boxId EXCEPT ![at[c]] = b] ELSE boxId
    /\ UNCHANGED <<held, queue, accepted, acceptWaiters, at, tries, steerVars>>

\* The box answered the prompt: markPromptAccepted() lets the steers go on.
PromptTaken(c) ==
    /\ pc[c] = "placed"
    /\ pc' = [pc EXCEPT ![c] = "taken"]
    /\ IF at[c] \in held /\ ~accepted[at[c]]
       THEN /\ accepted' = [accepted EXCEPT ![at[c]] = TRUE]
            /\ acceptWaiters' = [acceptWaiters EXCEPT ![at[c]] = {}]
            /\ steer' = Resolve(acceptWaiters[at[c]])
       ELSE UNCHANGED <<accepted, acceptWaiters, steer>>
    /\ UNCHANGED <<held, queue, boxId, at, tries, box, behind>>

\* A refused request whose message the box of the running turn (busyOn())
\* took as a steer is done.
SteerInto(c) ==
    /\ pc[c] = "refused"
    /\ at[c] \in held /\ boxId[at[c]] # NoBox
    /\ pc' = [pc EXCEPT ![c] = "steered"]
    /\ UNCHANGED <<entryVars, at, tries, box, steerVars>>

----------------------------------------------------------------------------
(* chat.steer: whenPromptAccepted().                                       *)

SteerArrives(k, s) ==
    /\ steer[k] = "new"
    /\ IF s \in held /\ ~accepted[s]
       THEN /\ steer' = [steer EXCEPT ![k] = "waiting"]
            /\ acceptWaiters' = [acceptWaiters EXCEPT ![s] = @ \cup {k}]
            /\ behind' = [behind EXCEPT ![k] = Holder(s)]
       ELSE /\ steer' = [steer EXCEPT ![k] = "free"]
            /\ UNCHANGED <<acceptWaiters, behind>>
    /\ UNCHANGED <<held, queue, boxId, accepted, callerVars>>

\* Mutant: the timer belongs to the entry and dies with it.
SteerTimeoutOfEntry(k) ==
    /\ steer[k] = "waiting"
    /\ \E s \in Sessions : k \in acceptWaiters[s]
    /\ steer' = [steer EXCEPT ![k] = "free"]
    /\ UNCHANGED <<entryVars, callerVars, behind>>

\* The timer of the steer fires; its function stays in acceptWaiters, where
\* a later call finds it settled.
SteerTimeout(k) ==
    /\ steer[k] = "waiting"
    /\ steer' = [steer EXCEPT ![k] = "free"]
    /\ UNCHANGED <<entryVars, callerVars, behind>>

----------------------------------------------------------------------------

Next ==
    \/ \E c \in Callers :
        \/ AcquireFree(c) \/ AcquireBusy(c) \/ Timeout(c) \/ Release(c)
        \/ PromptTaken(c) \/ SteerInto(c)
        \/ \E b \in Boxes : Place(c, b)
    \/ \E k \in Steers :
        \/ SteerTimeout(k)
        \/ \E s \in Sessions : SteerArrives(k, s)

Spec == Init /\ [][Next]_vars

\* Timers fire and a turn ends: chat.send releases from a finally.
Fairness ==
    /\ \A c \in Callers : WF_vars(Timeout(c)) /\ WF_vars(pc[c] \in Owning /\ Release(c))
    /\ \A k \in Steers : WF_vars(SteerTimeout(k))

FairSpec == Spec /\ Fairness

----------------------------------------------------------------------------
(* What the lock promises.                                                 *)

\* "Two requests for the same session must never run concurrently."
OneTurnPerSession ==
    \A c, d \in Callers :
        pc[c] \in Owning /\ pc[d] \in Owning /\ at[c] = at[d] => c = d

\* A lock that is taken has a request that will release it: it is never
\* handed to a waiter that gave up, which would wedge the session.
LockHasOwner == \A s \in Sessions : s \in held <=> \E c \in Callers : Owns(c, s)

\* A request that waits stands in the queue of its session exactly once, and
\* nobody else does: a hand-over finds every waiter, and only waiters.  They
\* wait behind a turn, so that there will be a hand-over.
QueueIsTheWaiters ==
    \A s \in Sessions :
        /\ queue[s] # <<>> => s \in held
        /\ ToSet(queue[s]) = {c \in Callers : pc[c] = "waiting" /\ at[c] = s}
        /\ \A i, j \in DOMAIN queue[s] : queue[s][i] = queue[s][j] => i = j

\* A session is served by one request at a time, is never wedged, and forgets
\* none of its waiters.
LockIsSound == OneTurnPerSession /\ LockHasOwner /\ QueueIsTheWaiters

\* What the entry says describes the turn that runs, never an earlier one: a
\* steer is sent to the box of the running turn ("it can never become a stale
\* binding"), and acceptance does not carry over.
EntryDescribesTheTurn ==
    \A s \in Sessions, c \in Callers : Owns(c, s) =>
        /\ boxId[s] = IF pc[c] = "holding" THEN NoBox ELSE box[c]
        /\ accepted[s] = (pc[c] = "taken")

\* "A waiter that outlived its turn must not block on the NEXT turn's
\* acceptance": a steer that can be made to go on by a turn waits for it.
SteerWaitsForItsOwnTurn ==
    \A s \in Sessions : \A k \in acceptWaiters[s] :
        steer[k] = "waiting" => Owns(behind[k], s)

\* The entry of a session, its steers included, belongs to the turn that runs.
EntryIsSound == EntryDescribesTheTurn /\ SteerWaitsForItsOwnTurn

\* A session does not stay locked: the holder ends, the waiters are served.
SessionIsFreed == \A s \in Sessions : s \in held ~> s \notin held

\* A steer goes on in the end, whatever becomes of the turn.
SteerGoesOn == \A k \in Steers : steer[k] = "waiting" ~> steer[k] = "free"

\* Nobody waits for ever, for a session or for an acceptance.
NobodyIsStuck == SessionIsFreed /\ SteerGoesOn

\* The lock implements the abstract mutex: the owner is the request between
\* acquire() and release(), the line is the queue of the entry.
Mutex == INSTANCE TurnMutex WITH
            turnOf <- [s \in Sessions |-> Holder(s)],
            line <- queue
ImplementsTurnMutex == Mutex!Spec

=============================================================================
