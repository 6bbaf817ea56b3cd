------------------------- MODULE CompletionNotices -------------------------
(***************************************************************************)
(* What an AgentBox promises about the completions of background jobs: a   *)
(* job completes once; its notice then waits at one place, or nowhere when *)
(* it is moot; a place tells everything that waits there at once, or loses *)
(* it at once; what left a place never comes back.  This is the abstract   *)
(* specification that AgentBoxSession implements.                          *)
(***************************************************************************)
EXTENDS Naturals

CONSTANTS
    Jobs,
    Places      \* where a notice can wait

VARIABLES
    life,       \* of a job: "ahead", "due" (its completion will come), "past"
    waiting,    \* the jobs whose notices wait at a place
    told        \* how often the completion of a job was told

noticesVars == <<life, waiting, told>>

Init ==
    /\ life = [j \in Jobs |-> "ahead"]
    /\ waiting = [p \in Places |-> {}]
    /\ told = [j \in Jobs |-> 0]

\* A job starts: it owes one completion.
Begin(j) ==
    /\ life[j] = "ahead"
    /\ life' = [life EXCEPT ![j] = "due"]
    /\ UNCHANGED <<waiting, told>>

\* A job is refused: it will never be told of.
Refuse(j) ==
    /\ life[j] = "ahead"
    /\ life' = [life EXCEPT ![j] = "past"]
    /\ UNCHANGED <<waiting, told>>

\* The job completes and its notice waits at p.
Await(j, p) ==
    /\ life[j] = "due"
    /\ life' = [life EXCEPT ![j] = "past"]
    /\ waiting' = [waiting EXCEPT ![p] = @ \cup {j}]
    /\ UNCHANGED told

\* The job completes and nobody is to know.
Moot(j) ==
    /\ life[j] = "due"
    /\ life' = [life EXCEPT ![j] = "past"]
    /\ UNCHANGED <<waiting, told>>

\* Everything that waits at p is told, together.
TellAll(p) ==
    /\ waiting[p] # {}
    /\ waiting' = [waiting EXCEPT ![p] = {}]
    /\ told' = [j \in Jobs |-> IF j \in waiting[p] THEN told[j] + 1 ELSE told[j]]
    /\ UNCHANGED life

\* Everything that waits at the places P is given up.
GiveUp(P) ==
    /\ \E p \in P : waiting[p] # {}
    /\ waiting' = [p \in Places |-> IF p \in P THEN {} ELSE waiting[p]]
    /\ UNCHANGED <<life, told>>

Next ==
    \/ \E j \in Jobs : Begin(j) \/ Refuse(j) \/ Moot(j)
    \/ \E j \in Jobs, p \in Places : Await(j, p)
    \/ \E p \in Places : TellAll(p)
    \/ \E P \in SUBSET Places : GiveUp(P)

Spec == Init /\ [][Next]_noticesVars

----------------------------------------------------------------------------
\* A notice waits at one place at most, and a told one waits nowhere: the
\* synthetic turn of runSyntheticPrompt() and the next() of a mailbox never
\* hold the same completion, and neither holds one that was put into a prompt.
OnePlaceAtATime ==
    /\ \A p, q \in Places : p # q => waiting[p] \cap waiting[q] = {}
    /\ \A p \in Places : \A j \in waiting[p] : told[j] = 0
    /\ \A j \in Jobs : told[j] <= 1


\* The inductive form of it: a job that has not completed is neither waiting
\* nor told.
NoticesInv ==
    /\ life \in [Jobs -> {"ahead", "due", "past"}]
    /\ waiting \in [Places -> SUBSET Jobs]
    /\ told \in [Jobs -> Nat]
    /\ OnePlaceAtATime
    /\ \A j \in Jobs : life[j] # "past" =>
         told[j] = 0 /\ \A p \in Places : j \notin waiting[p]

=============================================================================
