----------------------------- MODULE TurnMutex -----------------------------
(***************************************************************************)
(* What the Runtime promises about the turns of a session: at most one     *)
(* request owns the session's transcript, the requests that wait for it    *)
(* stand in one line, and the session goes to the head of that line before *)
(* anybody who arrives later.  This is the abstract specification that     *)
(* SessionTurnLocks implements.                                            *)
(***************************************************************************)
EXTENDS Sequences, SequencesExt

CONSTANTS
    Sessions,
    Callers,    \* the requests that want a turn
    Nobody      \* the owner of a free session, not a request

VARIABLES
    turnOf,     \* the request that owns a session, or Nobody
    line        \* the requests waiting for a session, first come first

mutexVars == <<turnOf, line>>

\* The request neither owns nor waits for any session.
Away(c) == \A s \in Sessions : /\ turnOf[s] # c
                               /\ \A k \in DOMAIN line[s] : line[s][k] # c

Init ==
    /\ turnOf = [s \in Sessions |-> Nobody]
    /\ line = [s \in Sessions |-> <<>>]

\* A request takes a free session.
Take(s, c) ==
    /\ Away(c)
    /\ turnOf[s] = Nobody
    /\ turnOf' = [turnOf EXCEPT ![s] = c]
    /\ UNCHANGED line

\* A request queues behind the owner.
Join(s, c) ==
    /\ Away(c)
    /\ turnOf[s] # Nobody
    /\ line' = [line EXCEPT ![s] = Append(@, c)]
    /\ UNCHANGED turnOf

\* The request at position k gives up waiting.
Leave(s, k) ==
    /\ k \in DOMAIN line[s]
    /\ line' = [line EXCEPT ![s] = RemoveAt(@, k)]
    /\ UNCHANGED turnOf

\* The owner is done: the head of the line is next.
Pass(s) ==
    /\ turnOf[s] # Nobody
    /\ IF line[s] = <<>>
       THEN turnOf' = [turnOf EXCEPT ![s] = Nobody] /\ UNCHANGED line
       ELSE /\ turnOf' = [turnOf EXCEPT ![s] = Head(line[s])]
            /\ line' = [line EXCEPT ![s] = Tail(@)]

Next ==
    \E s \in Sessions :
        \/ \E c \in Callers : Take(s, c) \/ Join(s, c)
        \/ \E k \in DOMAIN line[s] : Leave(s, k)
        \/ Pass(s)

Spec == Init /\ [][Next]_mutexVars

=============================================================================
