------------------------------ MODULE BoxTurns ------------------------------
(***************************************************************************)
(* What the AgentBox does with the prompts and aborts that the Runtime     *)
(* sends for one session (src/agentbox/http-server.ts), as far as it       *)
(* decides which turn runs: the turn ledger on disk                        *)
(* (src/agentbox/turn-ledger.ts), the busy guard, the pending aborts.  How *)
(* a turn runs, and what else ends with it, is AgentBoxSession.            *)
(*                                                                         *)
(* POST /api/prompt is two steps: the ledger is consulted on arrival, and  *)
(* the session is claimed when its context has been read and its instance  *)
(* exists.                                                                 *)
(***************************************************************************)
EXTENDS Naturals

CONSTANTS
    Attempts,      \* prompt requests
    Dispatches,    \* the turn ids they carry
    DispatchOf,    \* the turn id of an attempt
    Nobody,        \* no attempt; no turn
    AnyTurn        \* an abort that names no turn; the session-wide latch

ASSUME BoxAssumption ==
    /\ DispatchOf \in [Attempts -> Dispatches]
    /\ Nobody \notin Attempts \cup Dispatches
    /\ AnyTurn \notin Dispatches

VARIABLES
    request,       \* where the prompt request of an attempt is
    answer,        \* what the box answered; "unread" when nobody waits for it
    ledger,        \* turn ids recorded as accepted, on disk
    dirExists,     \* the session directory exists
    current,       \* _currentTurnId of the resident session, else Nobody
    runBy,         \* the attempt whose prompt runs
    pendingAborts, \* _pendingAborts of the session
    \* History.
    runs,          \* how often the model was started for a turn id
    raced          \* turn ids with two requests between check and claim

boxVars == <<request, answer, ledger, dirExists, current, runBy, pendingAborts,
             runs, raced>>

BoxTypeOK ==
    /\ request \in [Attempts -> {"none", "sent", "checked", "over"}]
    /\ answer \in [Attempts -> {"none", "ok", "busy", "unavailable", "error", "unread"}]
    /\ ledger \subseteq Dispatches
    /\ dirExists \in BOOLEAN
    /\ current \in Dispatches \cup {Nobody}
    /\ runBy \in Attempts \cup {Nobody}
    /\ pendingAborts \subseteq Dispatches \cup {AnyTurn}
    /\ runs \in [Dispatches -> Nat]
    /\ raced \subseteq Dispatches

BoxInit ==
    /\ request = [a \in Attempts |-> "none"]
    /\ answer = [a \in Attempts |-> "none"]
    /\ ledger = {}
    /\ dirExists = FALSE
    /\ current = Nobody
    /\ runBy = Nobody
    /\ pendingAborts = {}
    /\ runs = [d \in Dispatches |-> 0]
    /\ raced = {}

Answer(a, reply) ==
    /\ request' = [request EXCEPT ![a] = "over"]
    /\ answer' = [answer EXCEPT ![a] = IF @ = "unread" THEN @ ELSE reply]

SendPrompt(a) ==
    /\ request' = [request EXCEPT ![a] = "sent"]
    /\ UNCHANGED <<answer, ledger, dirExists, current, runBy, pendingAborts, runs, raced>>

\* The senders read the answers they have, and no other.
HangUp(As) ==
    /\ answer' = [a \in Attempts |-> IF a \in As THEN "unread" ELSE answer[a]]
    /\ UNCHANGED <<request, ledger, dirExists, current, runBy, pendingAborts, runs, raced>>

\* A turn id that the ledger holds is answered without starting anything.
\* Looking there creates the session directory.
CheckPrompt(a) ==
    LET d == DispatchOf[a] IN
    /\ request[a] = "sent"
    /\ dirExists' = TRUE
    /\ \/ /\ d \in ledger
          /\ Answer(a, "ok")
          /\ UNCHANGED raced
       \/ /\ d \notin ledger
          /\ request' = [request EXCEPT ![a] = "checked"]
          /\ raced' = raced \cup {e \in {d} : \E b \in Attempts :
                                    DispatchOf[b] = e /\ request[b] = "checked"}
          /\ UNCHANGED answer
    /\ UNCHANGED <<ledger, current, runBy, pendingAborts, runs>>

\* The request never arrives.
LosePrompt(a) ==
    /\ request[a] = "sent"
    /\ request' = [request EXCEPT ![a] = "over"]
    /\ UNCHANGED <<answer, ledger, dirExists, current, runBy, pendingAborts, runs, raced>>

\* The session is busy (409), or its context cannot be read (412): nothing is
\* recorded.
RefusePrompt(a) ==
    /\ request[a] = "checked"
    /\ Answer(a, "unavailable") \/ (runBy # Nobody /\ Answer(a, "busy"))
    /\ UNCHANGED <<ledger, dirExists, current, runBy, pendingAborts, runs, raced>>

\* Mutant: the record is lost.
RecordedNever(d) == ledger

\* recordAcceptedTurn(): before the answer, before the pending abort is looked at.
\* (A write that fails, and the removal of the file by a handoff, are left out.)
Recorded(d) == ledger \cup {d}

\* consumePendingAbort(): this turn's latch first, else the session-wide one.
Latched(d) == {d, AnyTurn} \cap pendingAborts # {}
ConsumedSlot(d) == IF d \in pendingAborts THEN d ELSE AnyTurn

\* From the busy guard to the start of the run: it starts, or a pending abort
\* cancels it (the answer is a success either way), or its setup throws.
ClaimPrompt(a) ==
    LET d == DispatchOf[a] IN
    /\ request[a] = "checked"
    /\ runBy = Nobody
    /\ current' = d
    /\ ledger' = Recorded(d)
    /\ pendingAborts' = pendingAborts \ {ConsumedSlot(d)}
    /\ \/ ~Latched(d) /\ Answer(a, "ok")
          /\ runBy' = a /\ runs' = [runs EXCEPT ![d] = @ + 1]
       \/ Latched(d) /\ Answer(a, "ok") /\ UNCHANGED <<runBy, runs>>
       \/ Answer(a, "error") /\ UNCHANGED <<runBy, runs>>
    /\ UNCHANGED <<dirExists, raced>>

\* The model run ends by itself.
RunEnds ==
    /\ runBy # Nobody
    /\ runBy' = Nobody
    /\ UNCHANGED <<request, answer, ledger, dirExists, current, pendingAborts, runs, raced>>

\* Mutants: a late abort stops whatever runs; an early one is not remembered.
AbortMeansIgnoringTurn(x, t) == t # Nobody
LatchForgotten(x) == {}

\* Does an abort for x mean the current turn t?
AbortMeans(x, t) == t # Nobody /\ x \in {t, AnyTurn}

\* markPendingAbort(): a session-wide latch is armed only for a session that
\* never existed.
Latch(x) == IF x = AnyTurn /\ dirExists THEN {} ELSE {x}

\* POST /abort: stop the run, or remember the abort for a prompt to come.  A
\* run that outlives its abort by more than two seconds is not modelled.
AbortTurn(x) ==
    /\ \/ /\ AbortMeans(x, current)
          /\ runBy' = Nobody
          /\ UNCHANGED pendingAborts
       \/ /\ ~AbortMeans(x, current)
          /\ pendingAborts' = pendingAborts \cup Latch(x)
          /\ UNCHANGED runBy
    /\ UNCHANGED <<request, answer, ledger, dirExists, current, runs, raced>>

\* The time-to-live of a latch ran out.  It is far longer than a request takes:
\* the latch of a turn whose prompt is on its way does not expire.
LatchExpires(x) ==
    /\ x \in pendingAborts
    /\ \A a \in Attempts :
          x \in {DispatchOf[a], AnyTurn} => request[a] \notin {"sent", "checked"}
    /\ pendingAborts' = pendingAborts \ {x}
    /\ UNCHANGED <<request, answer, ledger, dirExists, current, runBy, runs, raced>>

\* The idle session is released from memory.
SessionReleased ==
    /\ current # Nobody
    /\ runBy = Nobody
    /\ current' = Nobody
    /\ UNCHANGED <<request, answer, ledger, dirExists, runBy, pendingAborts, runs, raced>>

\* The process ends and another one takes over: memory and requests are gone,
\* the session directory with its ledger stays.
BoxLost ==
    /\ request' = [a \in Attempts |->
                     IF request[a] \in {"sent", "checked"} THEN "over" ELSE request[a]]
    /\ current' = Nobody
    /\ runBy' = Nobody
    /\ pendingAborts' = {}
    /\ UNCHANGED <<answer, ledger, dirExists, runs, raced>>

=============================================================================
