------------------------- MODULE BackgroundWorkTurn -------------------------
(***************************************************************************)
(* The completion mailbox that one HTTP prompt owns                        *)
(* (src/agentbox/background-work-turn.ts).  A job launched while the       *)
(* prompt runs is registered here; its completion is stored here and handed *)
(* to the prompt's own loop by next(), which also wakes for a steer and for *)
(* cancel().  There is one mailbox per turn.                               *)
(***************************************************************************)
EXTENDS Naturals

CONSTANTS
    Turns       \* the HTTP prompts, each with its mailbox

VARIABLES
    registered, \* keys of the mailbox's job map
    ready,      \* registered jobs whose notification is stored
    consumed,   \* jobs already handed out by next()
    cancelled,  \* cancel() was called
    steers      \* how many steers are queued

mailboxVars == <<registered, ready, consumed, cancelled, steers>>

MailboxTypeOK(Js) ==
    /\ registered \in [Turns -> SUBSET Js]
    /\ ready \in [Turns -> SUBSET Js]
    /\ consumed \in [Turns -> SUBSET Js]
    /\ cancelled \in [Turns -> BOOLEAN]
    /\ steers \in [Turns -> Nat]

MailboxInit ==
    /\ registered = [t \in Turns |-> {}]
    /\ ready = [t \in Turns |-> {}]
    /\ consumed = [t \in Turns |-> {}]
    /\ cancelled = [t \in Turns |-> FALSE]
    /\ steers = [t \in Turns |-> 0]

----------------------------------------------------------------------------
\* What next() would hand out now.
Batch(t) == ready[t] \ consumed[t]

\* pending: some registered job has not been consumed.
MailboxPending(t) == ~cancelled[t] /\ ~(registered[t] \subseteq consumed[t])

\* Mutant: cancel() does not wake the waiter.
NextReadyDeafToCancel(t) ==
    registered[t] \subseteq consumed[t] \/ steers[t] > 0 \/ Batch(t) # {}

\* next() returns instead of waiting.
NextReady(t) ==
    \/ cancelled[t]
    \/ ~MailboxPending(t)
    \/ steers[t] > 0
    \/ Batch(t) # {}

\* The value of `registered` after register(j) on the mailbox of w (w outside
\* Turns: there is no mailbox).
RegisterIn(w, j) ==
    [t \in Turns |-> IF t = w /\ ~cancelled[t] THEN registered[t] \cup {j}
                                               ELSE registered[t]]

\* Mutant: a cancelled mailbox disowns its jobs.
OwnsWhileOpen(w, j) == w \in Turns /\ j \in registered[w] /\ ~cancelled[w]

\* complete() answers true for every registered job, cancelled or not.
Owns(w, j) == w \in Turns /\ j \in registered[w]

\* Mutant: one slot instead of a map of notifications.
CompleteInOneSlot(w, j) ==
    [t \in Turns |-> IF t = w /\ j \in registered[t] /\ ~cancelled[t] /\ ready[t] = {}
                        THEN {j} ELSE ready[t]]

\* The value of `ready` after complete(j) on the mailbox of w.
CompleteIn(w, j) ==
    [t \in Turns |-> IF t = w /\ j \in registered[t] /\ ~cancelled[t]
                        THEN ready[t] \cup {j} ELSE ready[t]]

\* cancel() of the mailbox of w, when there is one.
CancelMailbox(w) ==
    /\ cancelled' = [t \in Turns |-> cancelled[t] \/ t = w]
    /\ steers' = [t \in Turns |-> IF t = w THEN 0 ELSE steers[t]]
    /\ UNCHANGED <<registered, ready, consumed>>

\* queueSteer() accepts only while next() waits (the caller's guard says that
\* the turn is in next()).  A woken next() returns in the same drain of the
\* event loop, so no steer arrives while it is ready to return.
QueueSteer(t) ==
    /\ ~NextReady(t)
    /\ steers' = [steers EXCEPT ![t] = @ + 1]
    /\ UNCHANGED <<registered, ready, consumed, cancelled>>

TakeSteer(t) ==
    /\ ~cancelled[t]
    /\ steers[t] > 0
    /\ steers' = [steers EXCEPT ![t] = @ - 1]
    /\ UNCHANGED <<registered, ready, consumed, cancelled>>

\* Mutant: what was handed out is not marked as consumed.
ConsumeBatchAgain(t) ==
    /\ ~cancelled[t]
    /\ steers[t] = 0
    /\ Batch(t) # {}
    /\ UNCHANGED mailboxVars

\* Mutant: only the first of what was handed out is marked as consumed.
ConsumeBatchFirst(t) ==
    /\ ~cancelled[t]
    /\ steers[t] = 0
    /\ \E j \in Batch(t) : consumed' = [consumed EXCEPT ![t] = @ \cup {j}]
    /\ UNCHANGED <<registered, ready, cancelled, steers>>

\* next() hands out everything that is ready and not yet consumed.
ConsumeBatch(t) ==
    /\ ~cancelled[t]
    /\ steers[t] = 0
    /\ Batch(t) # {}
    /\ consumed' = [consumed EXCEPT ![t] = @ \cup Batch(t)]
    /\ UNCHANGED <<registered, ready, cancelled, steers>>

=============================================================================
