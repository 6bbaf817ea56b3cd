----------------------- MODULE SessionTurnLocks_proofs -----------------------
(***************************************************************************)
(* Theorems about SessionTurnLocks, for every set of sessions, requests,   *)
(* steers and boxes: the types, that a session has one turn at a time and  *)
(* that its queue is the requests that wait for it, and that the lock      *)
(* implements TurnMutex.                                                   *)
(***************************************************************************)
EXTENDS SessionTurnLocks, SequenceTheorems, TLAPS

\* The elements of a concatenation.
LEMMA ConcatFacts ==
    ASSUME NEW S, NEW a \in Seq(S), NEW b \in Seq(S)
    PROVE  /\ a \o b \in Seq(S)
           /\ Len(a \o b) = Len(a) + Len(b)
           /\ \A i \in 1..(Len(a) + Len(b)) :
                (a \o b)[i] = IF i <= Len(a) THEN a[i] ELSE b[i - Len(a)]
  BY ConcatProperties

\* What RemoveAt() leaves of a sequence (Array.splice(k, 1) of the code).
LEMMA RemoveAtFacts ==
    ASSUME NEW S, NEW q \in Seq(S), NEW k \in DOMAIN q
    PROVE  /\ RemoveAt(q, k) \in Seq(S)
           /\ DOMAIN RemoveAt(q, k) = 1..(Len(q) - 1)
           /\ \A i \in 1..(Len(q) - 1) :
                RemoveAt(q, k)[i] = IF i < k THEN q[i] ELSE q[i + 1]
  <1>1. k \in 1..Len(q) /\ Len(q) \in Nat
    BY LenProperties
  <1>2. /\ SubSeq(q, 1, k-1) \in Seq(S)
        /\ Len(SubSeq(q, 1, k-1)) = k - 1
        /\ \A i \in 1..(k-1) : SubSeq(q, 1, k-1)[i] = q[i]
    BY <1>1, SubSeqProperties
  <1>3. /\ SubSeq(q, k+1, Len(q)) \in Seq(S)
        /\ Len(SubSeq(q, k+1, Len(q))) = Len(q) - k
        /\ \A i \in 1..(Len(q)-k) : SubSeq(q, k+1, Len(q))[i] = q[k+i]
    BY <1>1, SubSeqProperties
  <1>4. RemoveAt(q, k) = SubSeq(q, 1, k-1) \o SubSeq(q, k+1, Len(q))
    BY DEF RemoveAt
  <1>5. /\ RemoveAt(q, k) \in Seq(S)
        /\ Len(RemoveAt(q, k)) = Len(q) - 1
        /\ \A i \in 1..(Len(q)-1) :
             RemoveAt(q, k)[i] = IF i <= k-1 THEN q[i] ELSE q[k + (i - (k-1))]
    <2> DEFINE a == SubSeq(q, 1, k-1)
               b == SubSeq(q, k+1, Len(q))
    <2>0. /\ a \in Seq(S) /\ Len(a) = k - 1
          /\ b \in Seq(S) /\ Len(b) = Len(q) - k
          /\ \A i \in 1..(k-1) : a[i] = q[i]
          /\ \A i \in 1..(Len(q)-k) : b[i] = q[k+i]
          /\ RemoveAt(q, k) = a \o b
      BY <1>2, <1>3, <1>4
    <2> HIDE DEF a, b
    <2>1. /\ a \o b \in Seq(S)
          /\ Len(a \o b) = Len(a) + Len(b)
          /\ \A i \in 1..(Len(a) + Len(b)) :
               (a \o b)[i] = IF i <= Len(a) THEN a[i] ELSE b[i - Len(a)]
      BY ONLY <2>0, ConcatFacts
    <2>2. Len(a) + Len(b) = Len(q) - 1
      BY <1>1, <2>0
    <2>3. ASSUME NEW i \in 1..(Len(q)-1)
          PROVE  (a \o b)[i] = IF i <= k-1 THEN q[i] ELSE q[k + (i - (k-1))]
      <3>1. CASE i <= k-1
        BY <3>1, <2>0, <2>1, <2>2, <1>1, SMTT(30)
      <3>2. CASE ~(i <= k-1)
        <4>1. i - (k-1) \in 1..(Len(q)-k)
          BY <3>2, <1>1
        <4>. QED
          BY <3>2, <4>1, <2>0, <2>1, <2>2, <1>1
      <3>. QED
        BY <3>1, <3>2
    <2>. QED
      BY <2>0, <2>1, <2>2, <2>3
  <1>. QED
    BY <1>1, <1>5, LenProperties, SMTT(30)

-----------------------------------------------------------------------------

\* Every request, entry and steer stays in its declared range: a request asks
\* for the lock at most twice.
THEOREM Typing == Spec => []TypeOK
  <1>1. Init => TypeOK
    BY EmptySeq DEF Init, TypeOK
  <1>2. TypeOK /\ [Next]_vars => TypeOK'
    <2> SUFFICES ASSUME TypeOK, [Next]_vars
                 PROVE  TypeOK'
      OBVIOUS
    <2>0. ASSUME NEW c \in Callers, MayAsk(c)
          PROVE  at[c] \in Sessions /\ tries[c] + 1 \in 0..2
      <3>1. at[c] \in Sessions /\ tries[c] \in 0..2 /\ tries[c] < 2
        BY <2>0 DEF TypeOK, MayAsk
      <3>. QED
        BY <3>1
    <2> USE DEF TypeOK, Owning, entryVars, callerVars, steerVars, vars
    <2>1. ASSUME NEW c \in Callers, AcquireFree(c)
          PROVE  TypeOK'
      <3>1. MayAsk(c)
        BY <2>1 DEF AcquireFree
      <3>. QED
        BY <2>0, <2>1, <3>1 DEF AcquireFree
    <2>2. ASSUME NEW c \in Callers, AcquireBusy(c)
          PROVE  TypeOK'
      <3>1. MayAsk(c)
        BY <2>2 DEF AcquireBusy
      <3>2. Append(queue[at[c]], c) \in Seq(Callers)
        BY AppendProperties
      <3>. QED
        BY <2>0, <2>2, <3>1, <3>2 DEF AcquireBusy
    <2>3. ASSUME NEW c \in Callers, Timeout(c)
          PROVE  TypeOK'
      <3>1. PICK k \in DOMAIN queue[at[c]] :
                queue' = [queue EXCEPT ![at[c]] = RemoveAt(@, k)]
        BY <2>3 DEF Timeout
      <3>2. RemoveAt(queue[at[c]], k) \in Seq(Callers)
        BY RemoveAtFacts
      <3>. QED
        BY <2>3, <3>1, <3>2 DEF Timeout
    <2>4. ASSUME NEW c \in Callers, Release(c)
          PROVE  TypeOK'
      <3>1. CASE ReleaseLast(at[c]) /\ pc' = PassTo(c, Successor(at[c]))
                    /\ UNCHANGED <<at, tries, box, behind>>
        BY <3>1 DEF ReleaseLast, PassTo
      <3>2. CASE HandOver(at[c]) /\ pc' = PassTo(c, Successor(at[c]))
                    /\ UNCHANGED <<at, tries, box, behind>>
        <4>1. Tail(queue[at[c]]) \in Seq(Callers)
          BY <3>2, HeadTailProperties DEF HandOver
        <4>. QED
          BY <3>2, <4>1 DEF HandOver, PassTo, Resolve
      <3>3. CASE UNCHANGED vars
        BY <3>3
      <3>. QED
        BY <2>4, <3>1, <3>2, <3>3 DEF Release
    <2>5. ASSUME NEW c \in Callers, PromptTaken(c)
          PROVE  TypeOK'
      BY <2>5 DEF PromptTaken, Resolve
    <2>6. ASSUME NEW c \in Callers, SteerInto(c)
          PROVE  TypeOK'
      BY <2>6 DEF SteerInto
    <2>7. ASSUME NEW c \in Callers, NEW b \in Boxes, Place(c, b)
          PROVE  TypeOK'
      BY <2>7 DEF Place
    <2>8. ASSUME NEW k \in Steers, SteerTimeout(k)
          PROVE  TypeOK'
      BY <2>8 DEF SteerTimeout
    <2>9. ASSUME NEW k \in Steers, NEW s \in Sessions, SteerArrives(k, s)
          PROVE  TypeOK'
      <3>1. Holder(s) \in Callers \cup {Nobody}
        BY DEF Holder
      <3>2. acceptWaiters' \in [Sessions -> SUBSET Steers]
        <4>1. \/ acceptWaiters' = [acceptWaiters EXCEPT ![s] = @ \cup {k}]
              \/ acceptWaiters' = acceptWaiters
          BY <2>9 DEF SteerArrives
        <4>2. acceptWaiters[s] \cup {k} \in SUBSET Steers
          OBVIOUS
        <4>. QED
          BY <4>1, <4>2
      <3>3. steer' \in [Steers -> {"new", "waiting", "free"}]
        BY <2>9 DEF SteerArrives
      <3>4. UNCHANGED <<held, queue, boxId, accepted, pc, at, tries, box>>
        BY <2>9 DEF SteerArrives
      <3>5. behind' \in [Steers -> Callers \cup {Nobody}]
        BY <2>9, <3>1 DEF SteerArrives
      <3>. QED
        BY <3>2, <3>3, <3>4, <3>5
    <2>10. CASE UNCHANGED vars
      BY <2>10
    <2>. QED
      BY <2>1, <2>2, <2>3, <2>4, <2>5, <2>6, <2>7, <2>8, <2>9, <2>10 DEF Next
  <1>. QED
    BY <1>1, <1>2, PTL DEF Spec

-----------------------------------------------------------------------------
(* Mutual exclusion.  The queue is described position by position, which   *)
(* the provers handle better than the sets of QueueIsTheWaiters.           *)

\* Every position of a queue holds a request that waits for the session, no
\* two positions the same one; every waiting request has a position.
Line ==
    /\ \A s \in Sessions : queue[s] # <<>> => s \in held
    /\ \A s \in Sessions : \A k \in DOMAIN queue[s] :
            pc[queue[s][k]] = "waiting" /\ at[queue[s][k]] = s
    /\ \A c \in Callers : pc[c] = "waiting" =>
            \E k \in DOMAIN queue[at[c]] : queue[at[c]][k] = c
    /\ \A s \in Sessions : \A i, j \in DOMAIN queue[s] :
            queue[s][i] = queue[s][j] => i = j

\* The inductive invariant.  Mutual exclusion alone is not inductive: a
\* hand-over makes the head of the queue an owner, which is sound only
\* because queues hold waiting requests and a held lock has one owner.
LockInv == TypeOK /\ OneTurnPerSession /\ LockHasOwner /\ Line

\* The line, position by position, says what QueueIsTheWaiters says.
LEMMA LineIsTheWaiters == TypeOK /\ Line => QueueIsTheWaiters
  <1> SUFFICES ASSUME TypeOK, Line, NEW s \in Sessions
               PROVE  ToSet(queue[s]) = {c \in Callers : pc[c] = "waiting" /\ at[c] = s}
    BY DEF QueueIsTheWaiters, Line
  <1>1. queue[s] \in Seq(Callers)
    BY DEF TypeOK
  <1>2. \A k \in DOMAIN queue[s] : queue[s][k] \in Callers
    BY <1>1, ElementOfSeq, LenProperties
  <1>3. ASSUME NEW c \in Callers, pc[c] = "waiting", at[c] = s
        PROVE  c \in ToSet(queue[s])
    BY <1>3 DEF Line, ToSet
  <1>4. ASSUME NEW k \in DOMAIN queue[s]
        PROVE  queue[s][k] \in {c \in Callers : pc[c] = "waiting" /\ at[c] = s}
    BY <1>2 DEF Line
  <1>. QED
    BY <1>3, <1>4 DEF ToSet

\* A step that moves no request into or out of "waiting" or ownership, and
\* touches neither queues nor entries, keeps the invariant.
LEMMA InertStep ==
    ASSUME TypeOK, TypeOK', OneTurnPerSession, LockHasOwner, Line,
           UNCHANGED <<held, queue, at>>,
           \A c \in Callers : (pc'[c] \in Owning) = (pc[c] \in Owning),
           \A c \in Callers : (pc'[c] = "waiting") = (pc[c] = "waiting")
    PROVE  OneTurnPerSession' /\ LockHasOwner' /\ Line'
  <1>1. OneTurnPerSession'
    BY DEF OneTurnPerSession
  <1>2. LockHasOwner'
    BY DEF LockHasOwner, Owns
  <1>3. \A s \in Sessions : \A k \in DOMAIN queue[s] : queue[s][k] \in Callers
    BY ElementOfSeq, LenProperties DEF TypeOK
  <1>4. Line'
    BY <1>3 DEF Line
  <1>. QED
    BY <1>1, <1>2, <1>4

\* waitForTurn() of a free session.
LEMMA AcquireFreeStep ==
    ASSUME LockInv, TypeOK', NEW c \in Callers, AcquireFree(c)
    PROVE  LockInv'
  <1> USE DEF LockInv
  <1>0. \A s \in Sessions : \A k \in DOMAIN queue[s] : queue[s][k] \in Callers
    BY ElementOfSeq, LenProperties DEF TypeOK
  <1>1. /\ pc' = [pc EXCEPT ![c] = "holding"] /\ at' = at /\ queue' = queue
        /\ held' = held \cup {at[c]} /\ at[c] \notin held
        /\ at[c] \in Sessions /\ pc[c] \notin Owning \cup {"waiting"}
    BY DEF AcquireFree, MayAsk, TypeOK, Owning
  <1>2. \A d \in Callers : ~Owns(d, at[c])
    BY <1>1 DEF LockHasOwner
  <1>3. pc'[c] = "holding" /\ \A d \in Callers : d # c => pc'[d] = pc[d]
    BY <1>1 DEF TypeOK
  <1>4. OneTurnPerSession'
    BY <1>1, <1>2, <1>3 DEF OneTurnPerSession, Owns
  <1>5. LockHasOwner'
    BY <1>1, <1>3 DEF LockHasOwner, Owns, Owning
  <1>6. Line'
    BY <1>0, <1>1, <1>3 DEF Line
  <1>. QED
    BY <1>4, <1>5, <1>6

\* waitForTurn() of a session whose turn runs.
LEMMA AcquireBusyStep ==
    ASSUME LockInv, TypeOK', NEW c \in Callers, AcquireBusy(c)
    PROVE  LockInv'
  <1> USE DEF LockInv
  <1>0. \A s \in Sessions : /\ queue[s] \in Seq(Callers)
                             /\ DOMAIN queue[s] = 1..Len(queue[s])
                             /\ \A k \in DOMAIN queue[s] : queue[s][k] \in Callers
    BY ElementOfSeq, LenProperties DEF TypeOK
  <1>1. /\ pc' = [pc EXCEPT ![c] = "waiting"] /\ at' = at /\ held' = held
        /\ queue' = [queue EXCEPT ![at[c]] = Append(@, c)] /\ at[c] \in held
        /\ at[c] \in Sessions /\ pc[c] \notin Owning \cup {"waiting"}
    BY DEF AcquireBusy, MayAsk, TypeOK, Owning
  <1>2. pc'[c] = "waiting" /\ \A d \in Callers : d # c => pc'[d] = pc[d]
    BY <1>1 DEF TypeOK
  <1>3. OneTurnPerSession'
    BY <1>1, <1>2 DEF OneTurnPerSession, Owning
  <1>4. LockHasOwner'
    BY <1>1, <1>2 DEF LockHasOwner, Owns, Owning
  <1>5. \A s \in Sessions : s # at[c] => queue'[s] = queue[s]
    BY <1>1 DEF TypeOK
  <1>6. /\ DOMAIN queue'[at[c]] = DOMAIN queue[at[c]] \cup {Len(queue[at[c]]) + 1}
        /\ \A k \in DOMAIN queue[at[c]] : queue'[at[c]][k] = queue[at[c]][k]
        /\ queue'[at[c]][Len(queue[at[c]]) + 1] = c
    <2>1. queue'[at[c]] = Append(queue[at[c]], c)
      BY <1>1 DEF TypeOK
    <2>2. /\ Append(queue[at[c]], c) \in Seq(Callers)
          /\ Len(Append(queue[at[c]], c)) = Len(queue[at[c]]) + 1
          /\ \A i \in 1..Len(queue[at[c]]) : Append(queue[at[c]], c)[i] = queue[at[c]][i]
          /\ Append(queue[at[c]], c)[Len(queue[at[c]]) + 1] = c
      BY <1>0, <1>1, AppendProperties
    <2>. QED
      BY <1>0, <1>1, <2>1, <2>2, LenProperties
  <1>7. \A s \in Sessions : \A k \in DOMAIN queue[s] : queue[s][k] # c
    BY <1>0, <1>1 DEF Line
  <1>8. Line'
    <2>1. \A s \in Sessions : queue'[s] # <<>> => s \in held'
      BY <1>1, <1>5 DEF Line
    <2>2. \A s \in Sessions : \A k \in DOMAIN queue'[s] :
             pc'[queue'[s][k]] = "waiting" /\ at'[queue'[s][k]] = s
      BY <1>0, <1>1, <1>2, <1>5, <1>6 DEF Line
    <2>3. ASSUME NEW d \in Callers, pc'[d] = "waiting"
          PROVE  \E k \in DOMAIN queue'[at'[d]] : queue'[at'[d]][k] = d
      <3>1. CASE d = c
        BY <3>1, <1>1, <1>6
      <3>2. CASE d # c
        <4>1. pc[d] = "waiting" /\ at[d] \in Sessions
          BY <2>3, <3>2, <1>2 DEF TypeOK
        <4>2. PICK k \in DOMAIN queue[at[d]] : queue[at[d]][k] = d
          BY <4>1 DEF Line
        <4>. QED
          BY <4>1, <4>2, <1>1, <1>5, <1>6
      <3>. QED
        BY <3>1, <3>2
    <2>4. \A s \in Sessions : \A i, j \in DOMAIN queue'[s] :
             queue'[s][i] = queue'[s][j] => i = j
      BY <1>0, <1>1, <1>5, <1>6, <1>7 DEF Line
    <2>. QED
      BY <2>1, <2>2, <2>3, <2>4 DEF Line
  <1>. QED
    BY <1>3, <1>4, <1>8

\* A waiter's timer fires.
LEMMA TimeoutStep ==
    ASSUME LockInv, TypeOK', NEW c \in Callers, Timeout(c)
    PROVE  LockInv'
  <1> USE DEF LockInv
  <1>0. \A s \in Sessions : /\ queue[s] \in Seq(Callers)
                             /\ DOMAIN queue[s] = 1..Len(queue[s])
                             /\ Len(queue[s]) \in Nat
                             /\ \A k \in DOMAIN queue[s] : queue[s][k] \in Callers
    BY ElementOfSeq, LenProperties DEF TypeOK
  <1>1. /\ pc' = [pc EXCEPT ![c] = "refused"] /\ at' = at /\ held' = held
        /\ at[c] \in Sessions /\ pc[c] = "waiting"
    BY DEF Timeout, TypeOK
  <1> DEFINE q == queue[at[c]]
  <1>2. PICK n \in DOMAIN q : /\ q[n] = c
                              /\ queue' = [queue EXCEPT ![at[c]] = RemoveAt(@, n)]
    BY DEF Timeout
  <1>3. pc'[c] = "refused" /\ \A d \in Callers : d # c => pc'[d] = pc[d]
    BY <1>1 DEF TypeOK
  <1>4. OneTurnPerSession'
    BY <1>1, <1>3 DEF OneTurnPerSession, Owning
  <1>5. LockHasOwner'
    BY <1>1, <1>3 DEF LockHasOwner, Owns, Owning
  <1>6. \A s \in Sessions : s # at[c] => queue'[s] = queue[s]
    BY <1>2 DEF TypeOK
  <1>7. /\ DOMAIN queue'[at[c]] = 1..(Len(q) - 1)
        /\ \A i \in 1..(Len(q) - 1) :
             queue'[at[c]][i] = IF i < n THEN q[i] ELSE q[i + 1]
    <2>1. queue'[at[c]] = RemoveAt(q, n)
      BY <1>1, <1>2 DEF TypeOK
    <2>. QED
      BY <1>0, <1>1, <2>1, RemoveAtFacts, SMTT(30)
  <1>8. /\ q \in Seq(Callers) /\ DOMAIN q = 1..Len(q) /\ Len(q) \in Nat
        /\ \A i \in DOMAIN q : q[i] \in Callers /\ pc[q[i]] = "waiting"
                                /\ at[q[i]] = at[c] /\ (q[i] = c => i = n)
        /\ \A i, j \in DOMAIN q : q[i] = q[j] => i = j
    BY <1>0, <1>1, <1>2 DEF Line
  <1> HIDE DEF q
  <1>9. \A i \in DOMAIN queue'[at[c]] :
           /\ queue'[at[c]][i] \in Callers /\ queue'[at[c]][i] # c
           /\ pc[queue'[at[c]][i]] = "waiting" /\ at[queue'[at[c]][i]] = at[c]
    BY <1>7, <1>8, SMTT(30)
  <1>10. Line'
    <2>1. \A s \in Sessions : queue'[s] # <<>> => s \in held'
      <3>1. at[c] \in held
        BY <1>1, <1>2, <1>8 DEF Line, q
      <3>. QED
        BY <1>1, <1>6, <3>1 DEF Line
    <2>2. \A s \in Sessions : \A k \in DOMAIN queue'[s] :
             pc'[queue'[s][k]] = "waiting" /\ at'[queue'[s][k]] = s
      <3>1. ASSUME NEW s \in Sessions, s # at[c], NEW k \in DOMAIN queue'[s]
            PROVE  pc'[queue'[s][k]] = "waiting" /\ at'[queue'[s][k]] = s
        BY <3>1, <1>0, <1>1, <1>3, <1>6 DEF Line
      <3>2. ASSUME NEW k \in DOMAIN queue'[at[c]]
            PROVE  pc'[queue'[at[c]][k]] = "waiting" /\ at'[queue'[at[c]][k]] = at[c]
        BY <1>1, <1>3, <1>9
      <3>. QED
        BY <3>1, <3>2
    <2>3. ASSUME NEW d \in Callers, pc'[d] = "waiting"
          PROVE  \E k \in DOMAIN queue'[at'[d]] : queue'[at'[d]][k] = d
      <3>1. d # c /\ pc[d] = "waiting" /\ at[d] \in Sessions
        BY <1>3, <2>3 DEF TypeOK
      <3>2. PICK k \in DOMAIN queue[at[d]] : queue[at[d]][k] = d
        BY <3>1 DEF Line
      <3>3. CASE at[d] # at[c]
        BY <1>1, <1>6, <3>1, <3>2, <3>3
      <3>4. CASE at[d] = at[c]
        <4>1. k \in 1..Len(q) /\ q[k] = d /\ k # n /\ n \in 1..Len(q)
          BY <1>2, <1>8, <3>1, <3>2, <3>4 DEF q
        <4>2. CASE k < n
          <5>1. k \in 1..(Len(q) - 1) /\ queue'[at[c]][k] = d
            BY <1>7, <1>8, <4>1, <4>2
          <5>. QED
            BY <5>1, <1>1, <1>7, <3>4
        <4>3. CASE k > n
          <5>1. k - 1 \in 1..(Len(q) - 1) /\ queue'[at[c]][k - 1] = d
            BY <1>7, <1>8, <4>1, <4>3
          <5>. QED
            BY <5>1, <1>1, <1>7, <3>4
        <4>. QED
          BY <4>1, <4>2, <4>3, <1>8
      <3>. QED
        BY <3>3, <3>4
    <2>4. ASSUME NEW s \in Sessions, NEW i \in DOMAIN queue'[s],
                 NEW j \in DOMAIN queue'[s], queue'[s][i] = queue'[s][j]
          PROVE  i = j
      <3>1. CASE s # at[c]
        BY <3>1, <2>4, <1>6 DEF Line
      <3>2. CASE s = at[c]
        <4> DEFINE old(m) == IF m < n THEN m ELSE m + 1
        <4>1. i \in 1..(Len(q) - 1) /\ j \in 1..(Len(q) - 1) /\ n \in 1..Len(q)
          BY <1>2, <1>7, <1>8, <3>2 DEF q
        <4>2. old(i) \in DOMAIN q /\ old(j) \in DOMAIN q /\ q[old(i)] = q[old(j)]
          BY <2>4, <3>2, <4>1, <1>7, <1>8, SMTT(30)
        <4>3. old(i) = old(j)
          BY <4>2, <1>8
        <4>. QED
          BY <4>1, <4>3, <1>8
      <3>. QED
        BY <3>1, <3>2
    <2>. QED
      BY <2>1, <2>2, <2>3, <2>4 DEF Line
  <1>. QED
    BY <1>4, <1>5, <1>10

\* release() with nobody in the queue.
LEMMA ReleaseLastStep ==
    ASSUME LockInv, TypeOK', NEW c \in Callers, pc[c] \in Owning,
           ReleaseLast(at[c]), pc' = PassTo(c, Successor(at[c])), at' = at
    PROVE  LockInv'
  <1> USE DEF LockInv
  <1>0. \A s \in Sessions : \A k \in DOMAIN queue[s] : queue[s][k] \in Callers
    BY ElementOfSeq, LenProperties DEF TypeOK
  <1>1. /\ held' = held \ {at[c]} /\ queue' = queue /\ queue[at[c]] = <<>>
        /\ at[c] \in Sessions /\ Successor(at[c]) = Nobody
    BY DEF ReleaseLast, Successor, TypeOK
  <1>2. pc'[c] = "released" /\ \A d \in Callers : d # c => pc'[d] = pc[d]
    BY <1>1, LocksAssumption DEF PassTo, LocksAssumption
  <1>3. OneTurnPerSession'
    BY <1>2 DEF OneTurnPerSession, Owning
  <1>4. \A d \in Callers : Owns(d, at[c]) => d = c
    BY DEF OneTurnPerSession, Owns
  <1>5. LockHasOwner'
    BY <1>1, <1>2, <1>4 DEF LockHasOwner, Owns, Owning
  <1>6. Line'
    BY <1>0, <1>1, <1>2 DEF Line, Owning
  <1>. QED
    BY <1>3, <1>5, <1>6

\* release() hands the lock to the head of the queue.
LEMMA HandOverStep ==
    ASSUME LockInv, TypeOK', NEW c \in Callers, pc[c] \in Owning,
           HandOver(at[c]), pc' = PassTo(c, Successor(at[c])), at' = at
    PROVE  LockInv'
  <1> USE DEF LockInv
  <1> DEFINE q == queue[at[c]]
             h == Head(q)
  <1>0. \A s \in Sessions : /\ queue[s] \in Seq(Callers)
                             /\ DOMAIN queue[s] = 1..Len(queue[s])
                             /\ Len(queue[s]) \in Nat
                             /\ \A k \in DOMAIN queue[s] : queue[s][k] \in Callers
    BY ElementOfSeq, LenProperties DEF TypeOK
  <1>1. /\ held' = held /\ queue' = [queue EXCEPT ![at[c]] = Tail(@)]
        /\ q # <<>> /\ at[c] \in Sessions /\ Successor(at[c]) = h
        /\ q \in Seq(Callers)
    BY <1>0 DEF HandOver, Successor, TypeOK
  <1>2. /\ 1 \in DOMAIN q /\ q[1] = h
        /\ DOMAIN queue'[at[c]] = 1..(Len(q) - 1)
        /\ \A k \in 1..(Len(q) - 1) : queue'[at[c]][k] = q[k + 1]
    <2>1. queue'[at[c]] = Tail(q)
      BY <1>1 DEF TypeOK
    <2>2. /\ Tail(q) \in Seq(Callers) /\ Len(Tail(q)) = Len(q) - 1
          /\ \A k \in 1..Len(Tail(q)) : Tail(q)[k] = q[k + 1]
      BY <1>1, HeadTailProperties
    <2>3. Len(q) \in Nat /\ Len(q) # 0 /\ DOMAIN q = 1..Len(q)
      BY <1>0, <1>1, EmptySeq
    <2>. QED
      BY <2>1, <2>2, <2>3, LenProperties
  <1>3. h \in Callers /\ pc[h] = "waiting" /\ at[h] = at[c] /\ h # c
    BY <1>0, <1>1, <1>2 DEF Line, Owning
  <1>4. /\ q \in Seq(Callers) /\ DOMAIN q = 1..Len(q) /\ Len(q) \in Nat
        /\ \A i \in DOMAIN q : q[i] \in Callers /\ pc[q[i]] = "waiting"
                                /\ at[q[i]] = at[c] /\ (q[i] = h => i = 1)
        /\ \A i, j \in DOMAIN q : q[i] = q[j] => i = j
    BY <1>0, <1>1, <1>2 DEF Line
  <1>5. \A s \in Sessions : s # at[c] => queue'[s] = queue[s]
    BY <1>1 DEF TypeOK
  <1>6. at[c] \in held
    BY <1>1 DEF LockHasOwner, Owns
  <1>7. pc' = PassTo(c, h)
    BY <1>1
  <1> HIDE DEF q, h
  <1>8. /\ pc'[c] = "released" /\ pc'[h] = "holding"
        /\ \A d \in Callers : d # c /\ d # h => pc'[d] = pc[d]
    BY <1>3, <1>7 DEF PassTo
  <1>9. \A d \in Callers : Owns(d, at[c]) => d = c
    BY DEF OneTurnPerSession, Owns
  <1>10. OneTurnPerSession'
    BY <1>3, <1>8, <1>9 DEF OneTurnPerSession, Owning, Owns
  <1>11. LockHasOwner'
    BY <1>1, <1>3, <1>6, <1>8 DEF LockHasOwner, Owns, Owning
  <1>12. \A i \in DOMAIN queue'[at[c]] :
           /\ queue'[at[c]][i] \in Callers /\ queue'[at[c]][i] # h
           /\ pc[queue'[at[c]][i]] = "waiting" /\ at[queue'[at[c]][i]] = at[c]
    BY <1>2, <1>4, SMTT(30)
  <1>13. Line'
    <2>1. \A s \in Sessions : queue'[s] # <<>> => s \in held'
      BY <1>1, <1>5, <1>6 DEF Line
    <2>2. ASSUME NEW s \in Sessions, NEW k \in DOMAIN queue'[s]
          PROVE  pc'[queue'[s][k]] = "waiting" /\ at'[queue'[s][k]] = s
      <3>1. CASE s # at[c]
        <4>1. /\ k \in DOMAIN queue[s] /\ queue[s][k] \in Callers
              /\ pc[queue[s][k]] = "waiting" /\ at[queue[s][k]] = s
          BY <3>1, <1>0, <1>5 DEF Line
        <4>2. queue[s][k] # c /\ queue[s][k] # h
          BY <3>1, <4>1, <1>3
        <4>. QED
          BY <3>1, <4>1, <4>2, <1>5, <1>8
      <3>2. CASE s = at[c]
        BY <3>2, <1>3, <1>8, <1>12 DEF Owning
      <3>. QED
        BY <3>1, <3>2
    <2>3. ASSUME NEW d \in Callers, pc'[d] = "waiting"
          PROVE  \E k \in DOMAIN queue'[at'[d]] : queue'[at'[d]][k] = d
      <3>1. d # c /\ d # h /\ pc[d] = "waiting" /\ at[d] \in Sessions
        BY <1>8, <2>3 DEF TypeOK
      <3>2. PICK k \in DOMAIN queue[at[d]] : queue[at[d]][k] = d
        BY <3>1 DEF Line
      <3>3. CASE at[d] # at[c]
        BY <1>5, <3>1, <3>2, <3>3
      <3>4. CASE at[d] = at[c]
        <4>1. k \in 1..Len(q) /\ q[k] = d /\ k # 1
          BY <1>2, <1>4, <3>1, <3>2, <3>4 DEF q
        <4>2. k - 1 \in 1..(Len(q) - 1) /\ queue'[at[c]][k - 1] = d
          BY <1>2, <1>4, <4>1
        <4>. QED
          BY <4>2, <1>2, <3>4
      <3>. QED
        BY <3>3, <3>4
    <2>4. ASSUME NEW s \in Sessions, NEW i \in DOMAIN queue'[s],
                 NEW j \in DOMAIN queue'[s], queue'[s][i] = queue'[s][j]
          PROVE  i = j
      <3>1. CASE s # at[c]
        BY <3>1, <2>4, <1>5 DEF Line
      <3>2. CASE s = at[c]
        <4>1. i \in 1..(Len(q) - 1) /\ j \in 1..(Len(q) - 1)
          BY <1>2, <3>2
        <4>2. i + 1 \in DOMAIN q /\ j + 1 \in DOMAIN q /\ q[i + 1] = q[j + 1]
          BY <2>4, <3>2, <4>1, <1>2, <1>4
        <4>. QED
          BY <4>1, <4>2, <1>4
      <3>. QED
        BY <3>1, <3>2
    <2>. QED
      BY <2>1, <2>2, <2>3, <2>4 DEF Line
  <1>. QED
    BY <1>10, <1>11, <1>13

-----------------------------------------------------------------------------

\* At start no session is held, no request waits, no queue has a position.
LEMMA LockInvInit == Init => LockInv
  <1> SUFFICES ASSUME Init PROVE LockInv
    OBVIOUS
  <1>1. TypeOK
    BY EmptySeq DEF Init, TypeOK
  <1>2. OneTurnPerSession /\ LockHasOwner
    BY DEF Init, OneTurnPerSession, LockHasOwner, Owns, Owning
  <1>3. \A s \in Sessions : queue[s] = <<>> /\ DOMAIN queue[s] = {}
    BY EmptySeq DEF Init
  <1>4. Line
    BY <1>3 DEF Init, Line
  <1>. QED
    BY <1>1, <1>2, <1>4 DEF LockInv

\* Every operation of the lock and of its callers keeps the invariant.
LEMMA LockInvStep == LockInv /\ TypeOK' /\ [Next]_vars => LockInv'
  <1> SUFFICES ASSUME LockInv, TypeOK', [Next]_vars
               PROVE  LockInv'
    OBVIOUS
  <1>0. TypeOK /\ OneTurnPerSession /\ LockHasOwner /\ Line
    BY DEF LockInv
  <1>1. ASSUME UNCHANGED <<held, queue, at>>,
               \A c \in Callers : (pc'[c] \in Owning) = (pc[c] \in Owning),
               \A c \in Callers : (pc'[c] = "waiting") = (pc[c] = "waiting")
        PROVE  LockInv'
    BY <1>0, <1>1, InertStep DEF LockInv
  <1>2. ASSUME UNCHANGED <<held, queue, at, pc>>
        PROVE  LockInv'
    BY <1>1, <1>2
  <1>3. ASSUME NEW c \in Callers, NEW v, pc' = [pc EXCEPT ![c] = v],
               UNCHANGED <<held, queue, at>>,
               \/ pc[c] \in Owning /\ v \in Owning
               \/ pc[c] = "refused" /\ v = "steered"
        PROVE  LockInv'
    <2>1. pc'[c] = v /\ \A d \in Callers : d # c => pc'[d] = pc[d]
      BY <1>0, <1>3 DEF TypeOK
    <2>. QED
      BY <1>1, <1>3, <2>1 DEF Owning
  <1>4. ASSUME NEW c \in Callers, AcquireFree(c) PROVE LockInv'
    BY <1>4, AcquireFreeStep
  <1>5. ASSUME NEW c \in Callers, AcquireBusy(c) PROVE LockInv'
    BY <1>5, AcquireBusyStep
  <1>6. ASSUME NEW c \in Callers, Timeout(c) PROVE LockInv'
    BY <1>6, TimeoutStep
  <1>7. ASSUME NEW c \in Callers, Release(c) PROVE LockInv'
    BY <1>2, <1>7, ReleaseLastStep, HandOverStep
       DEF Release, vars, entryVars, callerVars
  <1>8. ASSUME NEW c \in Callers, PromptTaken(c) PROVE LockInv'
    BY <1>3, <1>8 DEF PromptTaken, Owning
  <1>9. ASSUME NEW c \in Callers, SteerInto(c) PROVE LockInv'
    BY <1>3, <1>9 DEF SteerInto, entryVars
  <1>10. ASSUME NEW c \in Callers, NEW b \in Boxes, Place(c, b) PROVE LockInv'
    BY <1>3, <1>10 DEF Place, Owning
  <1>11. ASSUME NEW k \in Steers, SteerTimeout(k) PROVE LockInv'
    BY <1>2, <1>11 DEF SteerTimeout, entryVars, callerVars
  <1>12. ASSUME NEW k \in Steers, NEW s \in Sessions, SteerArrives(k, s) PROVE LockInv'
    BY <1>2, <1>12 DEF SteerArrives, callerVars
  <1>13. CASE UNCHANGED vars
    BY <1>2, <1>13 DEF vars, entryVars, callerVars
  <1>. QED
    BY <1>4, <1>5, <1>6, <1>7, <1>8, <1>9, <1>10, <1>11, <1>12, <1>13 DEF Next

\* The invariant holds in every reachable state.
LEMMA LockInvAlways == Spec => []LockInv
  <1>1. LockInv /\ TypeOK' /\ [Next]_vars => LockInv'
    BY LockInvStep
  <1>. QED
    BY <1>1, LockInvInit, Typing, PTL DEF Spec

\* "Two requests for the same session must never run concurrently": between
\* acquire() and its release at most one request owns a session.
THEOREM OneTurnAtATime == Spec => []OneTurnPerSession
  BY LockInvAlways, PTL DEF LockInv

\* A held lock always has a request that will release it.
THEOREM LockAlwaysHasOwner == Spec => []LockHasOwner
  BY LockInvAlways, PTL DEF LockInv

\* The queue of a session is exactly the requests that wait for it, behind a
\* turn: no waiter is forgotten, none is served after it gave up.
THEOREM QueueAlwaysTheWaiters == Spec => []QueueIsTheWaiters
  <1>1. LockInv => QueueIsTheWaiters
    BY LineIsTheWaiters DEF LockInv
  <1>. QED
    BY <1>1, LockInvAlways, PTL

\* All that the lock promises of its holder and its waiters.
THEOREM LockAlwaysSound == Spec => []LockIsSound
  BY OneTurnAtATime, LockAlwaysHasOwner, QueueAlwaysTheWaiters, PTL DEF LockIsSound

-----------------------------------------------------------------------------
(* Refinement: the lock implements TurnMutex.                              *)

\* With mutual exclusion the owner of a session is unique.
LEMMA HolderFacts ==
    ASSUME OneTurnPerSession
    PROVE  \A s \in Sessions :
             /\ \A c \in Callers : Owns(c, s) => Holder(s) = c
             /\ (\A c \in Callers : ~Owns(c, s)) => Holder(s) = Nobody
  BY DEF OneTurnPerSession, Owns, Holder

\* The same of the next state.
LEMMA HolderFactsNext ==
    ASSUME OneTurnPerSession'
    PROVE  \A s \in Sessions :
             /\ \A c \in Callers : Owns(c, s)' => Holder(s)' = c
             /\ (\A c \in Callers : ~Owns(c, s)') => Holder(s)' = Nobody
  BY DEF OneTurnPerSession, Owns, Holder

\* A step that changes no ownership keeps every holder.
LEMMA HoldersKept ==
    ASSUME OneTurnPerSession, OneTurnPerSession', NEW s \in Sessions,
           \A c \in Callers : Owns(c, s)' = Owns(c, s)
    PROVE  Holder(s)' = Holder(s)
  <1>1. CASE \E c \in Callers : Owns(c, s)
    BY <1>1, HolderFacts, HolderFactsNext
  <1>2. CASE \A c \in Callers : ~Owns(c, s)
    BY <1>2, HolderFacts, HolderFactsNext
  <1>. QED
    BY <1>1, <1>2

\* A request that is not waiting and owns nothing is away from the mutex.
LEMMA AskerIsAway ==
    ASSUME LockInv, NEW c \in Callers, pc[c] \notin Owning \cup {"waiting"}
    PROVE  Mutex!Away(c)
  <1>1. \A s \in Sessions : Holder(s) # c
    <2> SUFFICES ASSUME NEW s \in Sessions, Holder(s) = c PROVE FALSE
      OBVIOUS
    <2>1. CASE \E d \in Callers : Owns(d, s)
      <3>1. Owns(c, s)
        BY <2>1, HolderFacts DEF LockInv
      <3>. QED
        BY <3>1 DEF Owns
    <2>2. CASE \A d \in Callers : ~Owns(d, s)
      BY <2>2, HolderFacts, LocksAssumption DEF LockInv, LocksAssumption
    <2>. QED
      BY <2>1, <2>2
  <1>2. \A s \in Sessions : \A k \in DOMAIN queue[s] : queue[s][k] # c
    BY DEF LockInv, Line
  <1>. QED
    BY <1>1, <1>2 DEF Mutex!Away

\* The lock starts where the mutex starts: no owner, nobody in line.
LEMMA RefinesInit == Init => Mutex!Init
  <1> SUFFICES ASSUME Init PROVE Mutex!Init
    OBVIOUS
  <1>1. \A s \in Sessions : Holder(s) = Nobody
    BY DEF Init, Holder, Owns, Owning
  <1>. QED
    BY <1>1 DEF Init, Mutex!Init

\* waitForTurn() of a free session takes the mutex.
LEMMA AcquireFreeRefines ==
    ASSUME LockInv, LockInv', NEW c \in Callers, AcquireFree(c)
    PROVE  Mutex!Next
  <1>0. OneTurnPerSession /\ OneTurnPerSession'
    BY DEF LockInv
  <1>1. /\ pc' = [pc EXCEPT ![c] = "holding"] /\ at' = at /\ queue' = queue
        /\ at[c] \notin held
        /\ at[c] \in Sessions /\ pc[c] \notin Owning \cup {"waiting"}
    BY DEF AcquireFree, MayAsk, LockInv, TypeOK, Owning
  <1>2. pc'[c] = "holding" /\ \A d \in Callers : d # c => pc'[d] = pc[d]
    BY <1>1 DEF LockInv, TypeOK
  <1>3. Mutex!Away(c)
    BY <1>1, AskerIsAway
  <1>4. Holder(at[c]) = Nobody
    BY <1>0, <1>1, HolderFacts DEF LockInv, LockHasOwner
  <1>5. Holder(at[c])' = c
    BY <1>0, <1>1, <1>2, HolderFactsNext DEF Owns, Owning
  <1>6. ASSUME NEW s \in Sessions, s # at[c]
        PROVE  Holder(s)' = Holder(s)
    BY <1>0, <1>1, <1>2, <1>6, HoldersKept DEF Owns
  <1>7. Mutex!Take(at[c], c)
    BY <1>1, <1>3, <1>4, <1>5, <1>6 DEF Mutex!Take
  <1>. QED
    BY <1>1, <1>7 DEF Mutex!Next

\* waitForTurn() of a busy session joins the line.
LEMMA AcquireBusyRefines ==
    ASSUME LockInv, LockInv', NEW c \in Callers, AcquireBusy(c)
    PROVE  Mutex!Next
  <1>0. OneTurnPerSession /\ OneTurnPerSession'
    BY DEF LockInv
  <1>1. /\ pc' = [pc EXCEPT ![c] = "waiting"] /\ at' = at
        /\ queue' = [queue EXCEPT ![at[c]] = Append(@, c)]
        /\ at[c] \in held /\ at[c] \in Sessions
        /\ pc[c] \notin Owning \cup {"waiting"}
    BY DEF AcquireBusy, MayAsk, LockInv, TypeOK, Owning
  <1>2. pc'[c] = "waiting" /\ \A d \in Callers : d # c => pc'[d] = pc[d]
    BY <1>1 DEF LockInv, TypeOK
  <1>3. Mutex!Away(c)
    BY <1>1, AskerIsAway
  <1>4. Holder(at[c]) # Nobody
    <2>1. PICK d \in Callers : Owns(d, at[c])
      BY <1>1 DEF LockInv, LockHasOwner
    <2>. QED
      BY <1>0, <1>1, <2>1, HolderFacts, LocksAssumption DEF LocksAssumption
  <1>5. ASSUME NEW s \in Sessions
        PROVE  Holder(s)' = Holder(s)
    BY <1>0, <1>1, <1>2, HoldersKept DEF Owns, Owning
  <1>6. Mutex!Join(at[c], c)
    BY <1>1, <1>3, <1>4, <1>5 DEF Mutex!Join
  <1>. QED
    BY <1>1, <1>6 DEF Mutex!Next

\* The timer of a waiter lets it leave the line.
LEMMA TimeoutRefines ==
    ASSUME LockInv, LockInv', NEW c \in Callers, Timeout(c)
    PROVE  Mutex!Next
  <1>0. OneTurnPerSession /\ OneTurnPerSession'
    BY DEF LockInv
  <1>1. /\ pc' = [pc EXCEPT ![c] = "refused"] /\ at' = at
        /\ at[c] \in Sessions /\ pc[c] = "waiting"
    BY DEF Timeout, LockInv, TypeOK
  <1>2. pc'[c] = "refused" /\ \A d \in Callers : d # c => pc'[d] = pc[d]
    BY <1>1 DEF LockInv, TypeOK
  <1>3. PICK n \in DOMAIN queue[at[c]] :
            queue' = [queue EXCEPT ![at[c]] = RemoveAt(@, n)]
    BY DEF Timeout
  <1>4. ASSUME NEW s \in Sessions
        PROVE  Holder(s)' = Holder(s)
    BY <1>0, <1>1, <1>2, HoldersKept DEF Owns, Owning
  <1>5. Mutex!Leave(at[c], n)
    BY <1>1, <1>3, <1>4 DEF Mutex!Leave, RemoveAt, Mutex!RemoveAt
  <1>. QED
    BY <1>1, <1>3, <1>5 DEF Mutex!Next

\* release() gives the mutex back or hands it to the head of the line; a
\* second call changes nothing.
LEMMA ReleaseRefines ==
    ASSUME LockInv, LockInv', NEW c \in Callers, Release(c)
    PROVE  [Mutex!Next]_Mutex!mutexVars
  <1>0. OneTurnPerSession /\ OneTurnPerSession'
    BY DEF LockInv
  <1>1. CASE UNCHANGED vars
    <2>1. \A s \in Sessions : Holder(s)' = Holder(s)
      BY <1>1 DEF vars, callerVars, Holder, Owns
    <2>. QED
      BY <1>1, <2>1 DEF Mutex!mutexVars, vars, entryVars
  <1>2. CASE /\ pc[c] \in Owning
             /\ ReleaseLast(at[c]) \/ HandOver(at[c])
             /\ pc' = PassTo(c, Successor(at[c])) /\ at' = at
    <2>1. at[c] \in Sessions /\ Owns(c, at[c])
      BY <1>2 DEF LockInv, TypeOK, Owns
    <2>0. PICK x \in Sessions : x = at[c]
      BY <2>1
    <2>2. Holder(at[c]) = c /\ c # Nobody
      BY <1>0, <2>1, HolderFacts, LocksAssumption DEF LocksAssumption
    <2>3. \A d \in Callers : Owns(d, at[c]) => d = c
      BY <1>0, <2>1 DEF OneTurnPerSession, Owns
    <2>4. CASE ReleaseLast(at[c])
      <3>1. queue[at[c]] = <<>> /\ queue' = queue /\ Successor(at[c]) = Nobody
        BY <2>4 DEF ReleaseLast, Successor
      <3>2. pc'[c] = "released" /\ \A d \in Callers : d # c => pc'[d] = pc[d]
        BY <1>2, <3>1, LocksAssumption DEF PassTo, LocksAssumption
      <3>3. Holder(x)' = Nobody
        BY <1>0, <1>2, <2>0, <2>3, <3>2, HolderFactsNext DEF Owns, Owning
      <3>4. ASSUME NEW s \in Sessions, s # at[c]
            PROVE  Holder(s)' = Holder(s)
        BY <1>0, <1>2, <3>2, <3>4, HoldersKept DEF Owns
      <3>5. [s \in Sessions |-> Holder(s)]'
               = [[s \in Sessions |-> Holder(s)] EXCEPT ![at[c]] = Nobody]
        <4>1. \A s \in Sessions :
                 Holder(s)' = IF s = at[c] THEN Nobody ELSE Holder(s)
          BY <2>0, <3>3, <3>4
        <4>. QED
          BY ONLY <2>1, <4>1
      <3>6. [s \in Sessions |-> Holder(s)][at[c]] # Nobody
        BY <2>1, <2>2
      <3>7. Mutex!Pass(at[c])
        BY <3>1, <3>5, <3>6 DEF Mutex!Pass
      <3>. QED
        BY <2>1, <3>7 DEF Mutex!Next
    <2>5. CASE HandOver(at[c])
      <3> DEFINE h == Head(queue[at[c]])
      <3>1. /\ queue[at[c]] # <<>> /\ Successor(at[c]) = h
            /\ queue' = [queue EXCEPT ![at[c]] = Tail(@)]
        BY <2>5 DEF HandOver, Successor
      <3>2. h \in Callers /\ pc[h] = "waiting" /\ at[h] = at[c] /\ h # c
        <4>1. queue[at[c]] \in Seq(Callers)
          BY <2>1 DEF LockInv, TypeOK
        <4>2. 1 \in DOMAIN queue[at[c]] /\ h = queue[at[c]][1]
          BY <3>1, <4>1, EmptySeq, LenProperties
        <4>3. h \in Callers
          BY <3>1, <4>1, HeadTailProperties
        <4>4. pc[h] = "waiting" /\ at[h] = at[c]
          BY <2>1, <4>2 DEF LockInv, Line
        <4>. QED
          BY <1>2, <4>3, <4>4 DEF Owning
      <3> HIDE DEF h
      <3>3. pc' = PassTo(c, h)
        BY <1>2, <3>1
      <3>4. /\ pc'[c] = "released" /\ pc'[h] = "holding"
            /\ \A d \in Callers : d # c /\ d # h => pc'[d] = pc[d]
        BY <3>2, <3>3 DEF PassTo
      <3>5. Holder(x)' = h
        BY <1>0, <1>2, <2>0, <3>2, <3>4, HolderFactsNext DEF Owns, Owning
      <3>6. ASSUME NEW s \in Sessions, s # at[c]
            PROVE  Holder(s)' = Holder(s)
        BY <1>0, <1>2, <3>2, <3>4, <3>6, HoldersKept DEF Owns
      <3>7. [s \in Sessions |-> Holder(s)]'
               = [[s \in Sessions |-> Holder(s)] EXCEPT ![at[c]] = h]
        <4>1. \A s \in Sessions :
                 Holder(s)' = IF s = at[c] THEN h ELSE Holder(s)
          BY <2>0, <3>5, <3>6
        <4>. QED
          BY ONLY <2>1, <4>1
      <3>8. [s \in Sessions |-> Holder(s)][at[c]] # Nobody
        BY <2>1, <2>2
      <3>9. Mutex!Pass(at[c])
        BY <3>1, <3>7, <3>8 DEF Mutex!Pass, h
      <3>. QED
        BY <2>1, <3>9 DEF Mutex!Next
    <2>. QED
      BY <1>2, <2>4, <2>5
  <1>. QED
    BY <1>1, <1>2 DEF Release

\* Every step of the lock is a step of the mutex or leaves it alone: what
\* concerns boxes, prompts and steers does not show.
LEMMA RefinesStep ==
    LockInv /\ LockInv' /\ [Next]_vars => [Mutex!Next]_Mutex!mutexVars
  <1> SUFFICES ASSUME LockInv, LockInv', [Next]_vars
               PROVE  [Mutex!Next]_Mutex!mutexVars
    OBVIOUS
  <1>0. OneTurnPerSession /\ OneTurnPerSession'
    BY DEF LockInv
  <1>1. ASSUME UNCHANGED <<queue, at>>,
               \A c \in Callers : (pc'[c] \in Owning) = (pc[c] \in Owning)
        PROVE  UNCHANGED Mutex!mutexVars
    <2>1. \A s \in Sessions : Holder(s)' = Holder(s)
      BY <1>0, <1>1, HoldersKept DEF Owns
    <2>. QED
      BY <1>1, <2>1 DEF Mutex!mutexVars
  <1>2. ASSUME NEW c \in Callers, NEW v, pc' = [pc EXCEPT ![c] = v],
               UNCHANGED <<queue, at>>,
               \/ pc[c] \in Owning /\ v \in Owning
               \/ pc[c] = "refused" /\ v = "steered"
        PROVE  UNCHANGED Mutex!mutexVars
    <2>1. pc'[c] = v /\ \A d \in Callers : d # c => pc'[d] = pc[d]
      BY <1>2 DEF LockInv, TypeOK
    <2>. QED
      BY <1>1, <1>2, <2>1 DEF Owning
  <1>3. ASSUME UNCHANGED <<queue, at, pc>>
        PROVE  UNCHANGED Mutex!mutexVars
    BY <1>1, <1>3
  <1>4. ASSUME NEW c \in Callers,
               AcquireFree(c) \/ AcquireBusy(c) \/ Timeout(c)
        PROVE  Mutex!Next
    BY <1>4, AcquireFreeRefines, AcquireBusyRefines, TimeoutRefines
  <1>5. ASSUME NEW c \in Callers, Release(c)
        PROVE  [Mutex!Next]_Mutex!mutexVars
    BY <1>5, ReleaseRefines
  <1>6. ASSUME NEW c \in Callers, PromptTaken(c) PROVE UNCHANGED Mutex!mutexVars
    BY <1>2, <1>6 DEF PromptTaken, Owning
  <1>7. ASSUME NEW c \in Callers, SteerInto(c) PROVE UNCHANGED Mutex!mutexVars
    BY <1>2, <1>7 DEF SteerInto, entryVars
  <1>8. ASSUME NEW c \in Callers, NEW b \in Boxes, Place(c, b)
        PROVE  UNCHANGED Mutex!mutexVars
    BY <1>2, <1>8 DEF Place, Owning
  <1>9. ASSUME NEW k \in Steers, SteerTimeout(k) PROVE UNCHANGED Mutex!mutexVars
    BY <1>3, <1>9 DEF SteerTimeout, entryVars, callerVars
  <1>10. ASSUME NEW k \in Steers, NEW s \in Sessions, SteerArrives(k, s)
         PROVE  UNCHANGED Mutex!mutexVars
    BY <1>3, <1>10 DEF SteerArrives, callerVars
  <1>11. CASE UNCHANGED vars
    BY <1>3, <1>11 DEF vars, entryVars, callerVars
  <1>. QED
    BY <1>4, <1>5, <1>6, <1>7, <1>8, <1>9, <1>10, <1>11 DEF Next

\* The lock of the Runtime implements the abstract mutex with a line: no
\* overlap, no overtaking, whatever times out, retries or is handed over.
THEOREM LockImplementsMutex == Spec => ImplementsTurnMutex
  <1>1. LockInv /\ LockInv' /\ [Next]_vars => [Mutex!Next]_Mutex!mutexVars
    BY RefinesStep
  <1>. QED
    BY <1>1, RefinesInit, LockInvAlways, PTL DEF Spec, ImplementsTurnMutex, Mutex!Spec

-----------------------------------------------------------------------------
(* What the entry says of the turn that runs.                              *)

\* A session whose lock is free has no entry, hence no destination, no
\* acceptance and no steer that waits for one.
FreeEntryIsBlank ==
    \A s \in Sessions : s \notin held =>
        boxId[s] = NoBox /\ ~accepted[s] /\ acceptWaiters[s] = {}

\* The inductive invariant behind the promises to chat.steer.  The entry
\* describes the running turn only because a free session's entry is blank
\* when the next turn takes it, and a steer waits for the turn it found only
\* because one owner at a time makes `behind` unambiguous.
EntryInv ==
    /\ LockInv
    /\ FreeEntryIsBlank
    /\ EntryDescribesTheTurn
    /\ SteerWaitsForItsOwnTurn
    /\ \A s \in Sessions : \A k \in acceptWaiters[s] :
            steer[k] # "new" /\ behind[k] \in Callers

\* At start no entry exists.
LEMMA EntryInvInit == Init => EntryInv
  BY LockInvInit DEF Init, EntryInv, FreeEntryIsBlank, EntryDescribesTheTurn,
     SteerWaitsForItsOwnTurn, Owns, Owning

\* A step that touches no entry and no steer, and moves c outside the turns.
LEMMA EntryInert ==
    ASSUME EntryInv, LockInv', NEW c \in Callers,
           UNCHANGED <<held, boxId, accepted, acceptWaiters, at, box, steer, behind>>,
           pc[c] \notin Owning, pc'[c] \notin Owning,
           \A d \in Callers : d # c => pc'[d] = pc[d]
    PROVE  EntryInv'
  <1>1. \A d \in Callers, s \in Sessions : Owns(d, s)' = Owns(d, s)
    BY DEF Owns
  <1>2. EntryDescribesTheTurn'
    BY <1>1 DEF EntryInv, EntryDescribesTheTurn, Owns
  <1>3. SteerWaitsForItsOwnTurn'
    BY <1>1 DEF EntryInv, SteerWaitsForItsOwnTurn, Owns
  <1>. QED
    BY <1>2, <1>3 DEF EntryInv, FreeEntryIsBlank

\* A step of the owner c of session s inside its turn, which changes at most
\* the destination, the acceptance and the waiters of s, and lets steers go on.
LEMMA EntryOwner ==
    ASSUME EntryInv, LockInv', NEW c \in Callers, NEW s \in Sessions,
           Owns(c, s), Owns(c, s)', s \in held, UNCHANGED <<held, at, behind>>,
           \A d \in Callers : d # c => pc'[d] = pc[d] /\ box'[d] = box[d],
           \A z \in Sessions : z # s =>
             boxId'[z] = boxId[z] /\ accepted'[z] = accepted[z]
             /\ acceptWaiters'[z] = acceptWaiters[z],
           acceptWaiters'[s] \subseteq acceptWaiters[s],
           \A k \in Steers : steer'[k] = steer[k] \/ steer'[k] = "free",
           boxId'[s] = IF pc'[c] = "holding" THEN NoBox ELSE box'[c],
           accepted'[s] = (pc'[c] = "taken")
    PROVE  EntryInv'
  <1>0. \A d \in Callers, z \in Sessions : Owns(d, z)' = Owns(d, z)
    BY DEF Owns
  <1>1. \A d \in Callers : Owns(d, s) => d = c
    BY DEF EntryInv, LockInv, OneTurnPerSession, Owns
  <1>2. \A z \in Sessions : Owns(c, z) => z = s
    BY DEF Owns
  <1>3. \A z \in Sessions : acceptWaiters'[z] \subseteq acceptWaiters[z]
    OBVIOUS
  <1>4. \A z \in Sessions : acceptWaiters[z] \subseteq Steers
    BY DEF EntryInv, LockInv, TypeOK
  <1>5. FreeEntryIsBlank'
    BY DEF EntryInv, FreeEntryIsBlank
  <1>6. EntryDescribesTheTurn'
    <2> SUFFICES ASSUME NEW z \in Sessions, NEW d \in Callers, Owns(d, z)'
                 PROVE  /\ boxId'[z] = IF pc'[d] = "holding" THEN NoBox ELSE box'[d]
                        /\ accepted'[z] = (pc'[d] = "taken")
      BY DEF EntryDescribesTheTurn
    <2>1. CASE d = c
      BY <2>1, <1>0, <1>2
    <2>2. CASE d # c
      BY <2>2, <1>0, <1>1 DEF EntryInv, EntryDescribesTheTurn
    <2>. QED
      BY <2>1, <2>2
  <1>7. \A z \in Sessions : \A k \in acceptWaiters'[z] :
            /\ steer'[k] # "new" /\ behind'[k] \in Callers
            /\ steer'[k] = "waiting" => Owns(behind'[k], z)
    BY <1>3, <1>4 DEF EntryInv, SteerWaitsForItsOwnTurn
  <1>8. SteerWaitsForItsOwnTurn'
    BY <1>0, <1>7 DEF SteerWaitsForItsOwnTurn, Owns
  <1>. QED
    BY <1>5, <1>6, <1>7, <1>8 DEF EntryInv

\* waitForTurn() of a free session finds a blank entry.
LEMMA EntryTaken ==
    ASSUME EntryInv, LockInv', NEW c \in Callers, AcquireFree(c)
    PROVE  EntryInv'
  <1>1. /\ pc' = [pc EXCEPT ![c] = "holding"] /\ at[c] \in Sessions
        /\ held' = held \cup {at[c]} /\ at[c] \notin held
        /\ pc[c] \notin Owning
        /\ UNCHANGED <<boxId, accepted, acceptWaiters, at, box, steer, behind>>
    BY DEF AcquireFree, MayAsk, EntryInv, LockInv, TypeOK, Owning, steerVars
  <1>2. pc'[c] = "holding" /\ \A d \in Callers : d # c => pc'[d] = pc[d]
    BY <1>1 DEF EntryInv, LockInv, TypeOK
  <1>3. \A d \in Callers : ~Owns(d, at[c])
    BY <1>1 DEF EntryInv, LockInv, LockHasOwner
  <1>4. boxId[at[c]] = NoBox /\ ~accepted[at[c]] /\ acceptWaiters[at[c]] = {}
    BY <1>1 DEF EntryInv, FreeEntryIsBlank
  <1>5. FreeEntryIsBlank'
    BY <1>1 DEF EntryInv, FreeEntryIsBlank
  <1>6. EntryDescribesTheTurn'
    <2> SUFFICES ASSUME NEW s \in Sessions, NEW d \in Callers, Owns(d, s)'
                 PROVE  /\ boxId'[s] = IF pc'[d] = "holding" THEN NoBox ELSE box'[d]
                        /\ accepted'[s] = (pc'[d] = "taken")
      BY DEF EntryDescribesTheTurn
    <2>1. CASE d = c
      <3>1. s = at[c]
        BY <2>1, <1>1 DEF Owns
      <3>2. accepted[s] \in BOOLEAN
        BY DEF EntryInv, LockInv, TypeOK
      <3>. QED
        BY <3>1, <3>2, <2>1, <1>1, <1>2, <1>4
    <2>2. CASE d # c
      BY <2>2, <1>1, <1>2 DEF EntryInv, EntryDescribesTheTurn, Owns
    <2>. QED
      BY <2>1, <2>2
  <1>7. SteerWaitsForItsOwnTurn'
    BY <1>1, <1>2 DEF EntryInv, SteerWaitsForItsOwnTurn, Owns
  <1>. QED
    BY <1>1, <1>5, <1>6, <1>7 DEF EntryInv

\* release(): the entry is deleted, or cleared for the next turn with its
\* steers let go.  The entries of other sessions keep their turns.
LEMMA EntryReleased ==
    ASSUME EntryInv, LockInv', NEW c \in Callers, pc[c] \in Owning,
           ReleaseLast(at[c]) \/ HandOver(at[c]),
           pc' = PassTo(c, Successor(at[c])), UNCHANGED <<at, tries, box, behind>>
    PROVE  EntryInv'
  <1> DEFINE s == at[c]
  <1>0. s \in Sessions /\ TypeOK /\ LockInv
    BY DEF EntryInv, LockInv, TypeOK
  <1>1. /\ boxId'[s] = NoBox /\ ~accepted'[s] /\ acceptWaiters'[s] = {}
        /\ \A z \in Sessions : z # s =>
             /\ boxId'[z] = boxId[z] /\ accepted'[z] = accepted[z]
             /\ acceptWaiters'[z] = acceptWaiters[z]
        /\ held' \cup {s} = held \cup {s}
        /\ \A k \in Steers : steer'[k] = steer[k] \/ steer'[k] = "free"
    BY <1>0 DEF ReleaseLast, HandOver, Resolve, TypeOK, EntryInv, LockInv,
                LockHasOwner, Owns
  <1>2. \A d \in Callers : pc'[d] = IF d = c THEN "released"
                                    ELSE IF d = Successor(s) THEN "holding" ELSE pc[d]
    BY DEF PassTo
  <1>3. Successor(s) \in Callers => at[Successor(s)] = s
    <2>1. CASE queue[s] = <<>>
      BY <2>1, LocksAssumption DEF Successor, LocksAssumption
    <2>2. CASE queue[s] # <<>>
      <3>1. queue[s] \in Seq(Callers) /\ 1 \in DOMAIN queue[s]
        BY <1>0, <2>2, EmptySeq, LenProperties, HeadTailProperties DEF TypeOK
      <3>. QED
        BY <1>0, <2>2, <3>1, HeadTailProperties DEF Successor, LockInv, Line
    <2>. QED
      BY <2>1, <2>2
  <1> HIDE DEF s
  <1>4. \A d \in Callers, z \in Sessions : z # s /\ at[d] = z => pc'[d] = pc[d]
    BY <1>2, <1>3 DEF s
  <1>5. FreeEntryIsBlank'
    BY <1>1 DEF EntryInv, FreeEntryIsBlank
  <1>6. EntryDescribesTheTurn'
    <2> SUFFICES ASSUME NEW z \in Sessions, NEW d \in Callers, Owns(d, z)'
                 PROVE  /\ boxId'[z] = IF pc'[d] = "holding" THEN NoBox ELSE box'[d]
                        /\ accepted'[z] = (pc'[d] = "taken")
      BY DEF EntryDescribesTheTurn
    <2>1. CASE z = s
      <3>1. pc'[d] = "holding"
        <4>1. d # c /\ ~(d # c /\ Owns(d, s))
          BY <1>0, <1>2, <2>1 DEF Owns, Owning, s, LockInv, OneTurnPerSession
        <4>. QED
          BY <4>1, <1>2, <2>1 DEF Owns
      <3>2. accepted'[s] \in BOOLEAN
        BY <1>0 DEF LockInv, TypeOK
      <3>. QED
        BY <1>1, <2>1, <3>1, <3>2
    <2>2. CASE z # s
      <3>1. pc'[d] = pc[d] /\ Owns(d, z)
        BY <1>4, <2>2 DEF Owns
      <3>. QED
        BY <1>1, <2>2, <3>1 DEF EntryInv, EntryDescribesTheTurn
    <2>. QED
      BY <2>1, <2>2
  <1>7. \A z \in Sessions : \A k \in acceptWaiters'[z] :
            /\ z # s /\ steer'[k] # "new" /\ behind[k] \in Callers
            /\ steer'[k] = "waiting" => Owns(behind[k], z)
    <2>1. \A z \in Sessions : acceptWaiters[z] \subseteq Steers
      BY <1>0 DEF TypeOK
    <2>. QED
      BY <1>1, <2>1 DEF EntryInv, SteerWaitsForItsOwnTurn
  <1>8. SteerWaitsForItsOwnTurn'
    BY <1>4, <1>7 DEF SteerWaitsForItsOwnTurn, Owns
  <1>. QED
    BY <1>5, <1>6, <1>7, <1>8 DEF EntryInv

\* whenPromptAccepted() of a chat.steer that has just arrived: the turn it
\* waits behind is the one that holds the session.
LEMMA EntrySteered ==
    ASSUME EntryInv, LockInv', NEW k \in Steers, NEW s \in Sessions,
           SteerArrives(k, s)
    PROVE  EntryInv'
  <1>0. TypeOK /\ LockInv
    BY DEF EntryInv, LockInv
  <1>1. /\ UNCHANGED <<held, boxId, accepted, pc, at, box>>
        /\ steer[k] = "new"
    BY DEF SteerArrives, callerVars
  <1>2. \A d \in Callers, z \in Sessions : Owns(d, z)' = Owns(d, z)
    BY <1>1 DEF Owns
  <1>3. EntryDescribesTheTurn'
    BY <1>1, <1>2 DEF EntryInv, EntryDescribesTheTurn
  <1>4. \A z \in Sessions : k \notin acceptWaiters[z]
    BY <1>1 DEF EntryInv
  <1>5. \A j \in Steers : j # k => steer'[j] = steer[j] /\ behind'[j] = behind[j]
    BY <1>0 DEF SteerArrives, TypeOK
  <1>6. \A z \in Sessions : acceptWaiters[z] \subseteq Steers
    BY <1>0 DEF TypeOK
  <1>7. CASE s \in held /\ ~accepted[s]
    <2>1. /\ steer'[k] = "waiting" /\ behind'[k] = Holder(s)
          /\ acceptWaiters' = [acceptWaiters EXCEPT ![s] = @ \cup {k}]
      BY <1>0, <1>7 DEF SteerArrives, TypeOK
    <2>2. Holder(s) \in Callers /\ Owns(Holder(s), s)
      BY <1>0, <1>7, HolderFacts DEF LockInv, LockHasOwner
    <2>3. \A z \in Sessions : \A j \in acceptWaiters'[z] :
              \/ j \in acceptWaiters[z] /\ j # k
              \/ j = k /\ z = s
      BY <1>0, <1>4, <2>1 DEF TypeOK
    <2>4. \A z \in Sessions : \A j \in acceptWaiters'[z] :
              /\ steer'[j] # "new" /\ behind'[j] \in Callers
              /\ steer'[j] = "waiting" => Owns(behind'[j], z)
      BY <1>5, <1>6, <2>1, <2>2, <2>3 DEF EntryInv, SteerWaitsForItsOwnTurn
    <2>5. SteerWaitsForItsOwnTurn'
      BY <1>2, <2>4 DEF SteerWaitsForItsOwnTurn, Owns
    <2>6. FreeEntryIsBlank'
      BY <1>0, <1>1, <1>7, <2>1 DEF EntryInv, FreeEntryIsBlank, TypeOK
    <2>. QED
      BY <1>3, <2>4, <2>5, <2>6 DEF EntryInv
  <1>8. CASE ~(s \in held /\ ~accepted[s])
    <2>1. UNCHANGED <<acceptWaiters, behind>>
      BY <1>8 DEF SteerArrives
    <2>2. \A z \in Sessions : \A j \in acceptWaiters[z] : j \in Steers /\ j # k
      BY <1>4, <1>6
    <2>3. \A z \in Sessions : \A j \in acceptWaiters[z] : steer'[j] = steer[j]
      BY <1>5, <2>2
    <2>4. SteerWaitsForItsOwnTurn'
      BY <1>1, <2>1, <2>3 DEF EntryInv, SteerWaitsForItsOwnTurn, Owns
    <2>5. FreeEntryIsBlank'
      BY <1>1, <2>1 DEF EntryInv, FreeEntryIsBlank
    <2>. QED
      BY <1>3, <2>1, <2>3, <2>4, <2>5 DEF EntryInv
  <1>. QED
    BY <1>7, <1>8

\* Every operation keeps what the entries say.
LEMMA EntryInvStep == EntryInv /\ LockInv' /\ [Next]_vars => EntryInv'
  <1> SUFFICES ASSUME EntryInv, LockInv', [Next]_vars
               PROVE  EntryInv'
    OBVIOUS
  <1>0. TypeOK /\ LockInv
    BY DEF EntryInv, LockInv
  <1>1. ASSUME UNCHANGED vars PROVE EntryInv'
    BY <1>1 DEF EntryInv, FreeEntryIsBlank, EntryDescribesTheTurn,
                SteerWaitsForItsOwnTurn, Owns, vars, entryVars, callerVars, steerVars
  <1>2. ASSUME NEW c \in Callers, NEW v, pc' = [pc EXCEPT ![c] = v],
               pc[c] \notin Owning, v \notin Owning,
               UNCHANGED <<held, boxId, accepted, acceptWaiters, at, box, steer, behind>>
        PROVE  EntryInv'
    <2>1. pc'[c] = v /\ \A d \in Callers : d # c => pc'[d] = pc[d]
      BY <1>0, <1>2 DEF TypeOK
    <2>. QED
      BY <1>2, <2>1, EntryInert
  <1>3. ASSUME NEW c \in Callers, AcquireFree(c) PROVE EntryInv'
    BY <1>3, EntryTaken
  <1>4. ASSUME NEW c \in Callers, AcquireBusy(c) PROVE EntryInv'
    BY <1>2, <1>4 DEF AcquireBusy, MayAsk, Owning, steerVars
  <1>5. ASSUME NEW c \in Callers, Timeout(c) PROVE EntryInv'
    BY <1>2, <1>5 DEF Timeout, Owning, steerVars
  <1>6. ASSUME NEW c \in Callers, Release(c) PROVE EntryInv'
    BY <1>1, <1>6, EntryReleased DEF Release
  <1>7. ASSUME NEW c \in Callers, PromptTaken(c) PROVE EntryInv'
    <2>1. /\ pc[c] = "placed" /\ pc'[c] = "taken" /\ at[c] \in Sessions
          /\ \A d \in Callers : d # c => pc'[d] = pc[d]
      BY <1>0, <1>7 DEF PromptTaken, TypeOK
    <2>2. Owns(c, at[c]) /\ Owns(c, at[c])' /\ UNCHANGED <<held, at, behind, box, boxId>>
      BY <1>7, <2>1 DEF PromptTaken, Owns, Owning
    <2>3. at[c] \in held
      BY <1>0, <2>1, <2>2 DEF LockInv, LockHasOwner
    <2>4. boxId[at[c]] = box[c] /\ ~accepted[at[c]]
      BY <2>1, <2>2 DEF EntryInv, EntryDescribesTheTurn
    <2>5. /\ accepted' = [accepted EXCEPT ![at[c]] = TRUE]
          /\ acceptWaiters' = [acceptWaiters EXCEPT ![at[c]] = {}]
          /\ steer' = Resolve(acceptWaiters[at[c]])
      BY <1>7, <2>3, <2>4 DEF PromptTaken
    <2>6. \A k \in Steers : steer'[k] = steer[k] \/ steer'[k] = "free"
      BY <2>5 DEF Resolve
    <2>. QED
      BY <1>0, <2>1, <2>2, <2>3, <2>4, <2>5, <2>6, EntryOwner DEF TypeOK
  <1>8. ASSUME NEW c \in Callers, SteerInto(c) PROVE EntryInv'
    BY <1>2, <1>8 DEF SteerInto, Owning, entryVars, steerVars
  <1>9. ASSUME NEW c \in Callers, NEW b \in Boxes, Place(c, b) PROVE EntryInv'
    <2>1. /\ pc[c] = "holding" /\ pc'[c] = "placed" /\ at[c] \in Sessions
          /\ \A d \in Callers : d # c => pc'[d] = pc[d] /\ box'[d] = box[d]
          /\ box'[c] = b
      BY <1>0, <1>9 DEF Place, TypeOK
    <2>2. /\ Owns(c, at[c]) /\ Owns(c, at[c])'
          /\ UNCHANGED <<held, at, behind, accepted, acceptWaiters, steer>>
      BY <1>9, <2>1 DEF Place, Owns, Owning, steerVars
    <2>3. at[c] \in held
      BY <1>0, <2>1, <2>2 DEF LockInv, LockHasOwner
    <2>4. ~accepted[at[c]] /\ accepted[at[c]] \in BOOLEAN
      BY <1>0, <2>1, <2>2 DEF EntryInv, EntryDescribesTheTurn, TypeOK
    <2>5. boxId' = [boxId EXCEPT ![at[c]] = b]
      BY <1>9, <2>3 DEF Place
    <2>6. /\ boxId'[at[c]] = b
          /\ \A z \in Sessions : z # at[c] => boxId'[z] = boxId[z]
      BY <1>0, <2>1, <2>5 DEF TypeOK
    <2>. QED
      BY <2>1, <2>2, <2>3, <2>4, <2>6, EntryOwner
  <1>10. ASSUME NEW k \in Steers, SteerTimeout(k) PROVE EntryInv'
    <2>1. /\ UNCHANGED <<held, boxId, accepted, acceptWaiters, pc, at, box, behind>>
          /\ steer'[k] = "free"
          /\ \A j \in Steers : j # k => steer'[j] = steer[j]
      BY <1>0, <1>10 DEF SteerTimeout, entryVars, callerVars, TypeOK
    <2>2. \A z \in Sessions : acceptWaiters[z] \subseteq Steers
      BY <1>0 DEF TypeOK
    <2>3. FreeEntryIsBlank' /\ EntryDescribesTheTurn'
      BY <2>1 DEF EntryInv, FreeEntryIsBlank, EntryDescribesTheTurn, Owns
    <2>4. SteerWaitsForItsOwnTurn'
      BY <2>1, <2>2 DEF EntryInv, SteerWaitsForItsOwnTurn, Owns
    <2>. QED
      BY <2>1, <2>2, <2>3, <2>4 DEF EntryInv
  <1>11. ASSUME NEW k \in Steers, NEW s \in Sessions, SteerArrives(k, s) PROVE EntryInv'
    BY <1>11, EntrySteered
  <1>. QED
    BY <1>1, <1>3, <1>4, <1>5, <1>6, <1>7, <1>8, <1>9, <1>10, <1>11 DEF Next

\* The entries are right in every reachable state.
LEMMA EntryInvAlways == Spec => []EntryInv
  <1>1. EntryInv /\ LockInv' /\ [Next]_vars => EntryInv'
    BY EntryInvStep
  <1>. QED
    BY <1>1, EntryInvInit, LockInvAlways, PTL DEF Spec

\* A steer is sent to the box of the turn that runs: the destination and the
\* acceptance of an entry are never those of an earlier turn.
THEOREM EntryIsCurrent == Spec => []EntryDescribesTheTurn
  BY EntryInvAlways, PTL DEF EntryInv

\* A steer that the entry still knows waits for the turn it arrived in, never
\* for the acceptance of a later one.
THEOREM SteersWaitForTheirTurn == Spec => []SteerWaitsForItsOwnTurn
  BY EntryInvAlways, PTL DEF EntryInv

\* An entry, with the steers it knows, is about the turn that runs.
THEOREM EntryAlwaysSound == Spec => []EntryIsSound
  BY EntryIsCurrent, SteersWaitForTheirTurn, PTL DEF EntryIsSound

=============================================================================
