------------------------- MODULE ConcurrencyLimiter -------------------------
(***************************************************************************)
(* The counting semaphore of src/core/concurrency-limiter.ts, for a family *)
(* of limiters: each has a count of occupied slots and a queue of the      *)
(* callers that wait for one.  acquire() and release() run without         *)
(* yielding; release() gives the slot to the head of the queue at once.    *)
(***************************************************************************)
EXTENDS Integers, Sequences

CONSTANTS
    Limiters,
    Clients     \* callers of run()

VARIABLES
    active,     \* slots occupied, per limiter
    queue       \* clients waiting, per limiter

limiterVars == <<active, queue>>

LimiterTypeOK ==
    /\ active \in [Limiters -> Nat]
    /\ queue \in [Limiters -> Seq(Clients)]

LimiterInit ==
    /\ active = [l \in Limiters |-> 0]
    /\ queue = [l \in Limiters |-> <<>>]

----------------------------------------------------------------------------

\* acquire() finds a free slot; limit is the capacity of l.
AcquireNow(l, limit) ==
    /\ active[l] < limit
    /\ active' = [active EXCEPT ![l] = @ + 1]
    /\ UNCHANGED queue

\* acquire() queues the client.
AcquireLater(l, limit, c) ==
    /\ ~(active[l] < limit)
    /\ queue' = [queue EXCEPT ![l] = Append(@, c)]
    /\ UNCHANGED active

\* Mutant: the waiter's slot is counted, the releaser's is not given back.
ReleaseSlotTwice(l) ==
    \/ /\ queue[l] = <<>>
       /\ active' = [active EXCEPT ![l] = @ - 1]
       /\ UNCHANGED queue
    \/ /\ queue[l] # <<>>
       /\ active' = [active EXCEPT ![l] = @ + 1]
       /\ queue' = [queue EXCEPT ![l] = Tail(@)]

\* release(): the slot goes to the head of the queue, if there is one.
ReleaseSlot(l) ==
    \/ /\ queue[l] = <<>>
       /\ active' = [active EXCEPT ![l] = @ - 1]
       /\ UNCHANGED queue
    \/ /\ queue[l] # <<>>
       /\ queue' = [queue EXCEPT ![l] = Tail(@)]
       /\ UNCHANGED active

\* Is c the client that ReleaseSlot(l) resumes?
Resumed(l, c) == queue[l] # <<>> /\ Head(queue[l]) = c

=============================================================================
