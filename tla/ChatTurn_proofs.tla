---------------------------- MODULE ChatTurn_proofs ----------------------------
(***************************************************************************)
(* Proofs about ChatTurn, for any attempts, any dispatches and any number  *)
(* of Stops, endings and restarts: a dispatch runs at most once, an        *)
(* attempt that was reported as failed does not run, an abort that names a *)
(* turn ends that turn only, a turn is reported once, and a reservation    *)
(* belongs to a turn.                                                      *)
(***************************************************************************)
EXTENDS ChatTurn, SequenceTheorems, TLAPS

----------------------------------------------------------------------------
(* Lines of attempts.                                                      *)

Distinct(q) == \A i, j \in 1..Len(q) : q[i] = q[j] => i = j
In(q) == {q[i] : i \in 1..Len(q)}

\* What RemoveAt() leaves of a line: everybody but the one at that position.
LEMMA LineLeft ==
  ASSUME NEW S, NEW q \in Seq(S), NEW k \in 1..Len(q), Distinct(q)
  PROVE  /\ RemoveAt(q, k) \in Seq(S) /\ Distinct(RemoveAt(q, k))
         /\ In(RemoveAt(q, k)) = In(q) \ {q[k]}
  <1> DEFINE a == SubSeq(q, 1, k-1)
             b == SubSeq(q, k+1, Len(q))
             r == RemoveAt(q, k)
  <1>0. Len(q) \in Nat /\ k \in Nat /\ 1 <= k /\ k <= Len(q)
    OBVIOUS
  <1>1. a \in Seq(S) /\ Len(a) = k - 1 /\ \A i \in 1..(k-1) : a[i] = q[i]
    BY <1>0, SubSeqProperties
  <1>2. b \in Seq(S) /\ Len(b) = Len(q) - k /\ \A i \in 1..(Len(q) - k) : b[i] = q[k+i]
    BY <1>0, SubSeqProperties
  <1>3. r = a \o b
    BY DEF RemoveAt
  <1> HIDE DEF a, b, r
  <1>4. /\ a \o b \in Seq(S) /\ Len(a \o b) = Len(a) + Len(b)
        /\ \A i \in 1..(Len(a) + Len(b)) :
             (a \o b)[i] = IF i <= Len(a) THEN a[i] ELSE b[i - Len(a)]
    BY ONLY <1>1, <1>2, ConcatProperties
  <1>5. r \in Seq(S) /\ Len(r) = Len(q) - 1
    BY ONLY <1>0, <1>1, <1>2, <1>3, <1>4
  <1>6. ASSUME NEW i \in 1..(Len(q) - 1)
        PROVE  r[i] = IF i < k THEN q[i] ELSE q[i+1]
    <2>1. r[i] = IF i <= k-1 THEN a[i] ELSE b[i - (k-1)]
      BY ONLY <1>0, <1>1, <1>2, <1>3, <1>4, i \in 1..(Len(q) - 1)
    <2>2. CASE i < k
      BY ONLY <1>0, <1>1, <2>1, <2>2, i \in 1..(Len(q) - 1)
    <2>3. CASE ~(i < k)
      <3>1. i - (k-1) \in 1..(Len(q) - k) /\ k + (i - (k-1)) = i + 1
        BY ONLY <1>0, <2>3, i \in 1..(Len(q) - 1)
      <3>. QED
        BY ONLY <1>0, <1>2, <2>1, <2>3, <3>1, i \in 1..(Len(q) - 1)
    <2>. QED
      BY <2>2, <2>3
  <1>7. Distinct(r)
    BY <1>0, <1>5, <1>6 DEF Distinct
  <1>8. In(r) \subseteq In(q) \ {q[k]}
    <2> SUFFICES ASSUME NEW i \in 1..(Len(q) - 1)
                 PROVE  r[i] \in In(q) \ {q[k]}
      BY <1>5 DEF In
    <2>1. CASE i < k
      BY <2>1, <1>0, <1>6 DEF In, Distinct
    <2>2. CASE ~(i < k)
      BY <2>2, <1>0, <1>6 DEF In, Distinct
    <2>. QED
      BY <2>1, <2>2
  <1>9. In(q) \ {q[k]} \subseteq In(r)
    <2> SUFFICES ASSUME NEW i \in 1..Len(q), i # k
                 PROVE  q[i] \in In(r)
      BY DEF In
    <2>1. CASE i < k
      <3>1. i \in 1..(Len(q) - 1) /\ r[i] = q[i]
        BY <2>1, <1>0, <1>6
      <3>. QED
        BY <3>1, <1>5 DEF In
    <2>2. CASE i > k
      <3>1. i - 1 \in 1..(Len(q) - 1) /\ ~(i - 1 < k) /\ (i - 1) + 1 = i
        BY <2>2, <1>0
      <3>2. r[i - 1] = q[i]
        BY <3>1, <1>6
      <3>. QED
        BY <3>1, <3>2, <1>5 DEF In
    <2>. QED
      BY <2>1, <2>2, <1>0
  <1>. QED
    BY <1>5, <1>7, <1>8, <1>9 DEF r

\* A newcomer joins at the end.
LEMMA LineJoined ==
  ASSUME NEW S, NEW q \in Seq(S), NEW c \in S, Distinct(q), c \notin In(q)
  PROVE  Append(q, c) \in Seq(S) /\ Distinct(Append(q, c)) /\ In(Append(q, c)) = In(q) \cup {c}
  <1>1. PICK t : t = Append(q, c)
    OBVIOUS
  <1>2. t \in Seq(S) /\ Len(t) = Len(q) + 1 /\ t[Len(q) + 1] = c /\ \A i \in 1..Len(q) : t[i] = q[i]
    BY <1>1
  <1>3. \A i \in 1..Len(t) : i \in 1..Len(q) \/ i = Len(q) + 1
    BY <1>2
  <1>4. Distinct(t)
    BY <1>2, <1>3 DEF Distinct, In
  <1>5. In(t) = In(q) \cup {c}
    <2>1. In(t) \subseteq In(q) \cup {c}
      BY <1>2, <1>3 DEF In
    <2>2. In(q) \cup {c} \subseteq In(t)
      <3>1. Len(q) + 1 \in 1..Len(t) /\ \A i \in 1..Len(q) : i \in 1..Len(t)
        BY <1>2
      <3>. QED
        BY <1>2, <3>1 DEF In
    <2>. QED
      BY <2>1, <2>2
  <1>. QED
    BY <1>1, <1>2, <1>4, <1>5

\* The head of a line leaves it.
LEMMA LineServed ==
  ASSUME NEW S, NEW q \in Seq(S), Distinct(q), q # <<>>
  PROVE  Head(q) \in In(q) /\ Tail(q) \in Seq(S) /\ Distinct(Tail(q)) /\ In(Tail(q)) \subseteq In(q)
  <1>1. Len(q) \in Nat /\ Len(q) > 0
    OBVIOUS
  <1>2. PICK t : t = Tail(q)
    OBVIOUS
  <1>3. t \in Seq(S) /\ Len(t) = Len(q) - 1 /\ \A i \in 1..(Len(q) - 1) : t[i] = q[i+1]
    BY <1>1, <1>2
  <1>4. \A i \in 1..Len(t) : i + 1 \in 1..Len(q) /\ t[i] = q[i+1]
    BY <1>1, <1>3
  <1>5. Distinct(t) /\ In(t) \subseteq In(q)
    BY <1>3, <1>4 DEF Distinct, In
  <1>6. Head(q) = q[1] /\ 1 \in 1..Len(q)
    BY <1>1
  <1>. QED
    BY <1>2, <1>3, <1>5, <1>6 DEF In

----------------------------------------------------------------------------
(* The lock of the session.                                                *)

Line == line["session"]
Waiting == {"queued", "requeued"}
OwnerPcs == {"held", "prompting", "resteering", "stopping", "compensating", "consuming"}
Pcs == LivePcs \cup {"new", "duplicate", "rejected", "failed", "orphaned", "steered", "over",
                     "dead"}

\* The line is the attempts that wait, each once; the owner is at work.
LockSound ==
    /\ turnOf \in [{"session"} -> Attempts \cup {Nobody}]
    /\ line \in [{"session"} -> Seq(Attempts)]
    /\ Distinct(Line)
    /\ \A a \in In(Line) : pc[a] \in Waiting
    /\ Owner # Nobody => pc[Owner] \in OwnerPcs

\* Attempt a goes on to x; the lock may pass to one that waits.
Moved(a, x) ==
    /\ pc' \in [Attempts -> Pcs] /\ pc'[a] = x
    /\ \A b \in Attempts \ {a} : pc'[b] = pc[b] \/ (pc[b] \in Waiting /\ pc'[b] = "held")

LEMMA MoveKeepsLock ==
  ASSUME pc \in [Attempts -> Pcs], LockSound, NEW a \in Attempts, pc[a] \notin Waiting, NEW x \in Pcs,
         pc[a] \in OwnerPcs => x \in OwnerPcs, pc' = [pc EXCEPT ![a] = x], UNCHANGED lockVars
  PROVE  Moved(a, x) /\ LockSound'
  <1>1. Moved(a, x)
    BY DEF Moved
  <1>2. \A b \in Attempts : b # a => pc'[b] = pc[b]
    OBVIOUS
  <1>3. \A b \in In(Line) : b \in Attempts /\ b # a
    BY DEF LockSound, In, Line
  <1>4. Owner # Nobody => Owner \in Attempts
    BY DEF LockSound, Owner
  <1>5. Line' = Line /\ Owner' = Owner
    BY DEF Line, Owner, lockVars
  <1>6. \A b \in In(Line)' : pc'[b] \in Waiting
    BY <1>2, <1>3, <1>5 DEF LockSound, In
  <1>7. Owner' # Nobody => pc'[Owner'] \in OwnerPcs
    BY <1>1, <1>2, <1>4, <1>5 DEF LockSound, Moved
  <1>. QED
    BY <1>1, <1>5, <1>6, <1>7 DEF LockSound, lockVars, Distinct

LEMMA AcquireMoves ==
  ASSUME pc \in [Attempts -> Pcs], LockSound, NEW a \in Attempts, pc[a] \notin Waiting \cup OwnerPcs,
         NEW w \in Waiting, Acquire(a, w)
  PROVE  LockSound' /\ (Moved(a, "held") \/ Moved(a, w))
  <1>0. {"held", w} \subseteq Pcs /\ a # Nobody
    BY BoxAssumption DEF Pcs, LivePcs, Waiting
  <1>1. \A b \in In(Line) : b \in Attempts /\ b # a
    BY DEF LockSound, In, Line
  <1>2. CASE Lock!Take("session", a) /\ pc' = [pc EXCEPT ![a] = "held"]
    <2>1. turnOf' = [turnOf EXCEPT !["session"] = a] /\ line' = line
      BY <1>2 DEF Lock!Take
    <2>2. Moved(a, "held")
      BY <1>0, <1>2 DEF Moved
    <2>3. Owner' = a /\ Line' = Line
      BY <2>1 DEF Owner, Line, LockSound
    <2>4. \A b \in In(Line)' : pc'[b] \in Waiting
      BY <1>1, <1>2, <2>3 DEF LockSound, In
    <2>5. pc'[a] \in OwnerPcs
      BY <2>2 DEF Moved, OwnerPcs
    <2>. QED
      BY <2>1, <2>2, <2>3, <2>4, <2>5 DEF LockSound, Distinct
  <1>3. CASE Lock!Join("session", a) /\ pc' = [pc EXCEPT ![a] = w]
    <2>1. line' = [line EXCEPT !["session"] = Append(@, a)] /\ turnOf' = turnOf
      BY <1>3 DEF Lock!Join
    <2>2. Moved(a, w)
      BY <1>0, <1>3 DEF Moved
    <2>3. Line' = Append(Line, a) /\ Owner' = Owner
      BY <2>1 DEF LockSound, Line, Owner
    <2>4. Line' \in Seq(Attempts) /\ Distinct(Line') /\ In(Line') = In(Line) \cup {a}
      BY <1>1, <2>3, LineJoined DEF LockSound, Line
    <2>5. line' \in [{"session"} -> Seq(Attempts)]
      BY <2>1, <2>3, <2>4 DEF LockSound, Line
    <2>6. \A b \in In(Line') : pc'[b] \in Waiting
      BY <1>1, <1>3, <2>4 DEF LockSound
    <2>7. Owner # Nobody => pc'[Owner] \in OwnerPcs
      BY <1>3 DEF LockSound, Owner
    <2>. QED
      BY <2>1, <2>2, <2>3, <2>4, <2>5, <2>6, <2>7 DEF LockSound
  <1>. QED
    BY <1>2, <1>3 DEF Acquire

LEMMA FinishMoves ==
  ASSUME pc \in [Attempts -> Pcs], LockSound, NEW a \in Attempts, pc[a] \notin Waiting,
         NEW end \in Pcs, Finish(a, end)
  PROVE  LockSound' /\ Moved(a, end) /\ Settle(a, end)
  <1>1. /\ Settle(a, end) /\ Lock!Pass("session")
        /\ pc' = [b \in Attempts |-> IF b = a THEN end
                                     ELSE IF b = turnOf'["session"] THEN "held" ELSE pc[b]]
    BY DEF Finish, GivesBack
  <1>2. \A b \in In(Line) : b \in Attempts /\ b # a
    BY DEF LockSound, In, Line
  <1>3. pc' \in [Attempts -> Pcs] /\ pc'[a] = end
    BY <1>1 DEF Pcs, LivePcs
  <1>4. CASE Line = <<>>
    <2>1. turnOf' = [turnOf EXCEPT !["session"] = Nobody] /\ line' = line
      BY <1>1, <1>4 DEF Lock!Pass, Line
    <2>2. Owner' = Nobody /\ Line' = Line
      BY <2>1 DEF LockSound, Owner, Line
    <2>3. \A b \in Attempts : b # a => pc'[b] = pc[b]
      BY <1>1, <2>2, BoxAssumption DEF Owner
    <2>4. \A b \in In(Line)' : pc'[b] \in Waiting
      BY <1>2, <2>2, <2>3 DEF LockSound, In
    <2>. QED
      BY <1>1, <1>3, <2>1, <2>2, <2>3, <2>4 DEF LockSound, Moved, Distinct
  <1>5. CASE Line # <<>>
    <2>1. /\ turnOf' = [turnOf EXCEPT !["session"] = Head(Line)]
          /\ line' = [line EXCEPT !["session"] = Tail(@)]
      BY <1>1, <1>5 DEF Lock!Pass, Line
    <2>2. /\ Head(Line) \in In(Line) /\ Tail(Line) \in Seq(Attempts)
          /\ Distinct(Tail(Line)) /\ In(Tail(Line)) \subseteq In(Line)
      BY <1>5, LineServed DEF LockSound, Line
    <2>3. Owner' = Head(Line) /\ Line' = Tail(Line)
      BY <2>1 DEF LockSound, Owner, Line
    <2>4. /\ Head(Line) \in Attempts \ {a} /\ pc[Head(Line)] \in Waiting
          /\ pc'[Head(Line)] = "held"
      BY <1>1, <1>2, <2>2, <2>3 DEF LockSound, Owner
    <2>5. \A b \in Attempts : b \notin {a, Head(Line)} => pc'[b] = pc[b]
      BY <1>1, <2>3 DEF Owner
    <2>6. Moved(a, end)
      BY <1>3, <2>4, <2>5 DEF Moved
    <2>7. Head(Line) \notin In(Tail(Line))
      <3>1. PICK q : q = Line
        OBVIOUS
      <3>2. q \in Seq(Attempts) /\ Distinct(q) /\ q # <<>>
        BY <1>5, <3>1 DEF LockSound, Line
      <3>3. Len(q) \in Nat /\ Head(q) = q[1] /\ Len(Tail(q)) = Len(q) - 1
            /\ \A i \in 1..(Len(q) - 1) : Tail(q)[i] = q[i + 1]
        BY <3>2
      <3>4. \A i \in 1..(Len(q) - 1) : q[i + 1] # q[1]
        BY <3>2, <3>3 DEF Distinct
      <3>. QED
        BY <3>1, <3>3, <3>4 DEF In
    <2>8. \A b \in In(Line') : pc'[b] \in Waiting
      BY <1>2, <2>2, <2>3, <2>5, <2>7 DEF LockSound
    <2>9. pc'[Owner'] \in OwnerPcs
      BY <2>3, <2>4 DEF OwnerPcs
    <2>10. line' \in [{"session"} -> Seq(Attempts)] /\ turnOf' \in [{"session"} -> Attempts \cup {Nobody}]
      BY <2>1, <2>2, <2>4 DEF LockSound, Line
    <2>. QED
      BY <1>1, <2>2, <2>3, <2>6, <2>8, <2>9, <2>10 DEF LockSound
  <1>. QED
    BY <1>4, <1>5

\* One of the waiters gives up, or goes to the end of the line.
LEMMA LeaveMoves ==
  ASSUME pc \in [Attempts -> Pcs], LockSound, NEW a \in Attempts, pc[a] \in Waiting,
         NEW k \in DOMAIN line["session"], line["session"][k] = a, NEW x \in Pcs,
         Lock!Leave("session", k), pc' = [pc EXCEPT ![a] = x]
  PROVE  LockSound' /\ Moved(a, x)
  <1>1. Moved(a, x)
    BY DEF Moved
  <1>2. Line \in Seq(Attempts) /\ Distinct(Line) /\ k \in 1..Len(Line) /\ Line[k] = a
    BY DEF LockSound, Line
  <1>3. line' = [line EXCEPT !["session"] = RemoveAt(@, k)] /\ turnOf' = turnOf
    BY DEF Lock!Leave, Lock!RemoveAt, RemoveAt
  <1>4. Line' = RemoveAt(Line, k) /\ Owner' = Owner
    BY <1>3 DEF LockSound, Line, Owner
  <1>5. Line' \in Seq(Attempts) /\ Distinct(Line') /\ In(Line') = In(Line) \ {a}
    BY <1>2, <1>4, LineLeft
  <1>6. line' \in [{"session"} -> Seq(Attempts)]
    BY <1>3, <1>4, <1>5 DEF LockSound, Line
  <1>7. \A b \in In(Line') : pc'[b] \in Waiting
    <2>1. \A b \in In(Line) : b \in Attempts
      BY <1>2 DEF In
    <2>2. \A b \in Attempts : b # a => pc'[b] = pc[b]
      OBVIOUS
    <2>. QED
      BY <1>5, <2>1, <2>2 DEF LockSound
  <1>8. Owner # Nobody => pc'[Owner] \in OwnerPcs
    BY DEF LockSound, Owner, Waiting, OwnerPcs
  <1>. QED
    BY <1>1, <1>3, <1>4, <1>5, <1>6, <1>7, <1>8 DEF LockSound

LEMMA RequeueMoves ==
  ASSUME pc \in [Attempts -> Pcs], LockSound, NEW a \in Attempts, pc[a] \in Waiting,
         NEW k \in DOMAIN line["session"], line["session"][k] = a,
         line' = [line EXCEPT !["session"] = Append(RemoveAt(@, k), a)],
         UNCHANGED turnOf, pc' = [pc EXCEPT ![a] = "requeued"]
  PROVE  LockSound' /\ Moved(a, "requeued")
  <1>1. Moved(a, "requeued")
    BY DEF Moved, Pcs, LivePcs
  <1>2. Line \in Seq(Attempts) /\ Distinct(Line) /\ k \in 1..Len(Line) /\ Line[k] = a
    BY DEF LockSound, Line
  <1>3. PICK q : q = RemoveAt(Line, k)
    OBVIOUS
  <1>4. q \in Seq(Attempts) /\ Distinct(q) /\ In(q) = In(Line) \ {a}
    BY <1>2, <1>3, LineLeft
  <1>5. Line' = Append(q, a) /\ Owner' = Owner
    BY <1>3 DEF LockSound, Line, Owner
  <1>6. Line' \in Seq(Attempts) /\ Distinct(Line') /\ In(Line') = In(q) \cup {a}
    BY <1>4, <1>5, LineJoined
  <1>7. line' \in [{"session"} -> Seq(Attempts)]
    BY <1>5, <1>6 DEF LockSound, Line
  <1>8. \A b \in In(Line') : pc'[b] \in Waiting
    <2>1. \A b \in In(Line) : b \in Attempts
      BY <1>2 DEF In
    <2>2. (\A b \in Attempts : b # a => pc'[b] = pc[b]) /\ pc'[a] \in Waiting
      BY DEF Waiting
    <2>. QED
      BY <1>4, <1>6, <2>1, <2>2 DEF LockSound
  <1>9. Owner # Nobody => pc'[Owner] \in OwnerPcs
    BY DEF LockSound, Owner, Waiting, OwnerPcs
  <1>. QED
    BY <1>1, <1>5, <1>6, <1>7, <1>8, <1>9 DEF LockSound

----------------------------------------------------------------------------
(* The box.                                                                *)

\* What the box ran and how it answered is in the ledger, a run belongs to the
\* turn at hand, and a request between check and claim has found its turn absent.
BoxSound ==
    /\ runBy # Nobody => current = DispatchOf[runBy] /\ request[runBy] = "over"
    /\ current # Nobody => current \in ledger
    /\ \A d \in Dispatches : runs[d] > 0 => d \in ledger
    /\ \A d \in Dispatches \ raced : runs[d] <= 1
    /\ \A a \in Attempts : answer[a] = "ok" => DispatchOf[a] \in ledger
    /\ \A a \in Attempts :
          answer[a] \in {"busy", "unavailable"} => request[a] = "over" /\ runBy # a
    /\ \A a \in Attempts :
          request[a] = "checked" /\ DispatchOf[a] \notin raced => DispatchOf[a] \notin ledger
    /\ \A a, b \in Attempts :
          request[a] = "checked" /\ request[b] = "checked" /\ DispatchOf[a] = DispatchOf[b]
          /\ DispatchOf[a] \notin raced => a = b

\* Attempt a neither runs nor asks to.
Silent(a) == request[a] \in {"none", "over"} /\ runBy # a

\* Attempt a does not run, and the box will not let it: the abort waits for it.
Hushed(a) ==
    DispatchOf[a] \notin raced =>
        /\ runBy # a
        /\ request[a] = "sent" => DispatchOf[a] \in ledger \cup pendingAborts
        /\ request[a] = "checked" => DispatchOf[a] \in pendingAborts

\* What the box does leaves the requests that were not sent unsent, the silent
\* ones silent and the hushed ones hushed.
Keeps(a) ==
    /\ request[a] = "none" => request'[a] = "none"
    /\ Silent(a) => Silent(a)'
    /\ Hushed(a) => Hushed(a)'

BoxKeeps == BoxTypeOK' /\ BoxSound' /\ ledger \subseteq ledger' /\ \A a \in Attempts : Keeps(a)

LEMMA AnswerTyped ==
  ASSUME BoxTypeOK, NEW a \in Attempts, NEW reply \in {"ok", "busy", "unavailable", "error"},
         Answer(a, reply)
  PROVE  /\ request' \in [Attempts -> {"none", "sent", "checked", "over"}]
         /\ answer' \in [Attempts -> {"none", "ok", "busy", "unavailable", "error", "unread"}]
         /\ request'[a] = "over" /\ answer'[a] \in {"unread", reply}
         /\ \A b \in Attempts \ {a} : request'[b] = request[b] /\ answer'[b] = answer[b]
  BY DEF BoxTypeOK, Answer

LEMMA CheckKeeps ==
  ASSUME BoxTypeOK, BoxSound, NEW a \in Attempts, CheckPrompt(a)
  PROVE  BoxKeeps
  <1> DEFINE d == DispatchOf[a]
  <1>0. d \in Dispatches /\ a # Nobody
    BY BoxAssumption
  <1>1. request[a] = "sent" /\ UNCHANGED <<ledger, current, runBy, pendingAborts, runs>>
        /\ dirExists' = TRUE
    BY DEF CheckPrompt
  <1>2. CASE d \in ledger /\ Answer(a, "ok") /\ UNCHANGED raced
    <2>1. /\ request' \in [Attempts -> {"none", "sent", "checked", "over"}]
          /\ answer' \in [Attempts -> {"none", "ok", "busy", "unavailable", "error", "unread"}]
          /\ request'[a] = "over" /\ answer'[a] \in {"unread", "ok"}
          /\ \A b \in Attempts \ {a} : request'[b] = request[b] /\ answer'[b] = answer[b]
      BY <1>2, AnswerTyped
    <2>2. BoxTypeOK'
      BY <1>1, <1>2, <2>1 DEF BoxTypeOK
    <2>3. BoxSound'
      BY <1>0, <1>1, <1>2, <2>1 DEF BoxSound, BoxTypeOK
    <2>4. \A b \in Attempts : Keeps(b)
      BY <1>1, <1>2, <2>1 DEF Keeps, Silent, Hushed
    <2>. QED
      BY <1>1, <2>2, <2>3, <2>4 DEF BoxKeeps
  <1>3. CASE /\ d \notin ledger /\ request' = [request EXCEPT ![a] = "checked"]
             /\ raced' = raced \cup {e \in {d} : \E b \in Attempts :
                                        DispatchOf[b] = e /\ request[b] = "checked"}
             /\ UNCHANGED answer
    <2>1. /\ request' \in [Attempts -> {"none", "sent", "checked", "over"}]
          /\ request'[a] = "checked"
          /\ \A b \in Attempts \ {a} : request'[b] = request[b]
      BY <1>3 DEF BoxTypeOK
    <2>2. raced' \subseteq Dispatches /\ raced \subseteq raced'
      BY <1>0, <1>3 DEF BoxTypeOK
    <2>3. d \notin raced' => \A b \in Attempts : DispatchOf[b] = d => request[b] # "checked"
      BY <1>3
    <2>4. BoxTypeOK'
      BY <1>1, <1>3, <2>1, <2>2 DEF BoxTypeOK
    <2>5. BoxSound'
      BY <1>0, <1>1, <1>3, <2>1, <2>2, <2>3 DEF BoxSound, BoxTypeOK
    <2>6. \A b \in Attempts : Keeps(b)
      BY <1>1, <1>3, <2>1, <2>2 DEF Keeps, Silent, Hushed
    <2>. QED
      BY <1>1, <2>4, <2>5, <2>6 DEF BoxKeeps
  <1>. QED
    BY <1>2, <1>3 DEF CheckPrompt

LEMMA ClaimKeeps ==
  ASSUME BoxTypeOK, BoxSound, NEW a \in Attempts, ClaimPrompt(a)
  PROVE  BoxKeeps
  <1> DEFINE d == DispatchOf[a]
  <1>0. d \in Dispatches /\ a # Nobody /\ d # Nobody /\ AnyTurn \notin Dispatches
    BY BoxAssumption
  <1>1. /\ request[a] = "checked" /\ runBy = Nobody /\ current' = d /\ ledger' = ledger \cup {d}
        /\ pendingAborts' = pendingAborts \ {ConsumedSlot(d)}
        /\ UNCHANGED <<dirExists, raced>>
    BY DEF ClaimPrompt, Recorded
  <1>2. PICK reply \in {"ok", "error"} : Answer(a, reply)
    BY DEF ClaimPrompt
  <1>3. /\ request' \in [Attempts -> {"none", "sent", "checked", "over"}]
        /\ answer' \in [Attempts -> {"none", "ok", "busy", "unavailable", "error", "unread"}]
        /\ request'[a] = "over" /\ answer'[a] \in {"unread", "ok", "error"}
        /\ \A b \in Attempts \ {a} : request'[b] = request[b] /\ answer'[b] = answer[b]
    BY <1>2, AnswerTyped
  <1>4. \/ ~Latched(d) /\ runBy' = a /\ runs' = [runs EXCEPT ![d] = @ + 1]
        \/ UNCHANGED <<runBy, runs>>
    BY DEF ClaimPrompt
  <1>5. d \notin raced => d \notin ledger /\ runs[d] = 0
    BY <1>0, <1>1 DEF BoxSound, BoxTypeOK
  <1>6. /\ runs' \in [Dispatches -> Nat] /\ \A e \in Dispatches \ {d} : runs'[e] = runs[e]
        /\ d \notin raced => runs'[d] <= 1
    BY <1>0, <1>4, <1>5 DEF BoxTypeOK
  <1>7. runBy' \in {Nobody, a}
    BY <1>1, <1>4
  <1>8. BoxTypeOK'
    BY <1>0, <1>1, <1>3, <1>6, <1>7 DEF BoxTypeOK
  <1>9. \A b \in Attempts : request[b] = "checked" /\ DispatchOf[b] = d /\ d \notin raced => b = a
    BY <1>1 DEF BoxSound
  <1>10. BoxSound'
    <2>1. /\ runBy' # Nobody => current' = DispatchOf[runBy'] /\ request'[runBy'] = "over"
          /\ current' # Nobody => current' \in ledger'
      BY <1>1, <1>3, <1>7
    <2>2. /\ \A e \in Dispatches : runs'[e] > 0 => e \in ledger'
          /\ \A e \in Dispatches \ raced' : runs'[e] <= 1
      BY <1>0, <1>1, <1>6 DEF BoxSound
    <2>3. /\ \A b \in Attempts : answer'[b] = "ok" => DispatchOf[b] \in ledger'
          /\ \A b \in Attempts :
                answer'[b] \in {"busy", "unavailable"} => request'[b] = "over" /\ runBy' # b
      BY <1>1, <1>3, <1>7 DEF BoxSound
    <2>4. \A b \in Attempts :
            request'[b] = "checked" /\ DispatchOf[b] \notin raced' => DispatchOf[b] \notin ledger'
      BY <1>1, <1>3, <1>9 DEF BoxSound
    <2>5. \A b, c \in Attempts :
            request'[b] = "checked" /\ request'[c] = "checked" /\ DispatchOf[b] = DispatchOf[c]
            /\ DispatchOf[b] \notin raced' => b = c
      BY <1>1, <1>3 DEF BoxSound
    <2>. QED
      BY <2>1, <2>2, <2>3, <2>4, <2>5 DEF BoxSound
  <1>11. ASSUME NEW b \in Attempts PROVE Keeps(b)
    <2>1. (request[b] = "none" => request'[b] = "none") /\ (Silent(b) => Silent(b)')
      BY <1>0, <1>1, <1>3, <1>7 DEF Silent
    <2>2. ASSUME Hushed(b), DispatchOf[b] \notin raced'
          PROVE  /\ runBy' # b
                 /\ request'[b] = "sent" => DispatchOf[b] \in ledger' \cup pendingAborts'
                 /\ request'[b] = "checked" => DispatchOf[b] \in pendingAborts'
      <3>1. CASE b = a
        <4>1. d \in pendingAborts
          BY <1>1, <2>2, <3>1 DEF Hushed
        <4>2. Latched(d)
          BY <4>1 DEF Latched
        <4>. QED
          BY <1>0, <1>1, <1>3, <1>4, <3>1, <4>2
      <3>2. CASE b # a
        <4>1. request'[b] = "checked" => DispatchOf[b] # d
          BY <1>1, <1>3, <1>9, <2>2, <3>2
        <4>2. DispatchOf[b] # d => DispatchOf[b] # ConsumedSlot(d)
          BY <1>0, BoxAssumption DEF ConsumedSlot
        <4>3. runBy' # b
          BY <1>7, <3>2, BoxAssumption
        <4>. QED
          BY <1>1, <1>3, <2>2, <3>2, <4>1, <4>2, <4>3 DEF Hushed
      <3>. QED
        BY <3>1, <3>2
    <2>. QED
      BY <2>1, <2>2 DEF Keeps, Hushed
  <1>. QED
    BY <1>1, <1>8, <1>10, <1>11 DEF BoxKeeps

LEMMA RefuseKeeps ==
  ASSUME BoxTypeOK, BoxSound, NEW a \in Attempts, RefusePrompt(a)
  PROVE  BoxKeeps
  <1>1. /\ request[a] = "checked"
        /\ UNCHANGED <<ledger, dirExists, current, runBy, pendingAborts, runs, raced>>
    BY DEF RefusePrompt
  <1>2. PICK reply \in {"unavailable", "busy"} : Answer(a, reply)
    BY DEF RefusePrompt
  <1>3. /\ request' \in [Attempts -> {"none", "sent", "checked", "over"}]
        /\ answer' \in [Attempts -> {"none", "ok", "busy", "unavailable", "error", "unread"}]
        /\ request'[a] = "over" /\ answer'[a] \in {"unread", "unavailable", "busy"}
        /\ \A b \in Attempts \ {a} : request'[b] = request[b] /\ answer'[b] = answer[b]
    BY <1>2, AnswerTyped
  <1>4. runBy # a
    BY <1>1, BoxAssumption DEF BoxSound
  <1>5. BoxTypeOK'
    BY <1>1, <1>3 DEF BoxTypeOK
  <1>6. BoxSound'
    BY <1>1, <1>3, <1>4 DEF BoxSound, BoxTypeOK
  <1>7. \A b \in Attempts : Keeps(b)
    BY <1>1, <1>3 DEF Keeps, Silent, Hushed
  <1>. QED
    BY <1>1, <1>5, <1>6, <1>7 DEF BoxKeeps

LEMMA LoseKeeps ==
  ASSUME BoxTypeOK, BoxSound, NEW a \in Attempts, LosePrompt(a)
  PROVE  BoxKeeps
  <1>1. /\ request' \in [Attempts -> {"none", "sent", "checked", "over"}] /\ request'[a] = "over"
        /\ \A b \in Attempts \ {a} : request'[b] = request[b]
        /\ UNCHANGED <<answer, ledger, dirExists, current, runBy, pendingAborts, runs, raced>>
    BY DEF LosePrompt, BoxTypeOK
  <1>2. BoxTypeOK'
    BY <1>1 DEF BoxTypeOK
  <1>3. BoxSound'
    BY <1>1 DEF BoxSound, BoxTypeOK
  <1>4. \A b \in Attempts : Keeps(b)
    BY <1>1, LosePrompt(a) DEF Keeps, Silent, Hushed, LosePrompt
  <1>. QED
    BY <1>1, <1>2, <1>3, <1>4 DEF BoxKeeps

\* A latch that expires is not one that a request on its way waits for.
LEMMA ExpiryKeeps ==
  ASSUME BoxTypeOK, BoxSound, NEW x, LatchExpires(x)
  PROVE  BoxKeeps
  <1>1. /\ pendingAborts' = pendingAborts \ {x}
        /\ \A a \in Attempts : DispatchOf[a] = x => request[a] \notin {"sent", "checked"}
        /\ UNCHANGED <<request, answer, ledger, dirExists, current, runBy, runs, raced>>
    BY DEF LatchExpires
  <1>2. BoxTypeOK' /\ BoxSound'
    BY <1>1 DEF BoxTypeOK, BoxSound
  <1>3. \A b \in Attempts : Keeps(b)
    BY <1>1 DEF Keeps, Silent, Hushed
  <1>. QED
    BY <1>1, <1>2, <1>3 DEF BoxKeeps

LEMMA RestKeeps ==
  ASSUME BoxTypeOK, BoxSound, RunEnds \/ SessionReleased \/ UNCHANGED boxVars
  PROVE  BoxKeeps
  <1>1. /\ UNCHANGED <<request, answer, ledger, dirExists, pendingAborts, runs, raced>>
        /\ runBy' \in {runBy, Nobody} /\ current' \in {current, Nobody}
        /\ current' = current \/ runBy' = Nobody
    BY DEF RunEnds, SessionReleased, boxVars
  <1>2. BoxTypeOK'
    BY <1>1 DEF BoxTypeOK
  <1>3. BoxSound'
    BY <1>1, BoxAssumption DEF BoxSound
  <1>4. \A b \in Attempts : Keeps(b)
    BY <1>1, BoxAssumption DEF Keeps, Silent, Hushed
  <1>. QED
    BY <1>1, <1>2, <1>3, <1>4 DEF BoxKeeps

\* An answer that nobody waits for is no promise.
LEMMA HangUpKeeps ==
  ASSUME BoxTypeOK, BoxSound, NEW As, HangUp(As)
  PROVE  BoxKeeps
  <1>1. /\ answer' \in [Attempts -> {"none", "ok", "busy", "unavailable", "error", "unread"}]
        /\ \A a \in Attempts : answer'[a] \in {answer[a], "unread"}
        /\ UNCHANGED <<request, ledger, dirExists, current, runBy, pendingAborts, runs, raced>>
    BY DEF HangUp, BoxTypeOK
  <1>2. BoxTypeOK'
    BY <1>1 DEF BoxTypeOK
  <1>3. BoxSound'
    BY <1>1 DEF BoxSound
  <1>4. \A b \in Attempts : Keeps(b)
    BY <1>1 DEF Keeps, Silent, Hushed
  <1>. QED
    BY <1>1, <1>2, <1>3, <1>4 DEF BoxKeeps

LEMMA LossKeeps ==
  ASSUME BoxTypeOK, BoxSound, BoxLost
  PROVE  BoxKeeps
  <1>1. /\ request' \in [Attempts -> {"none", "over"}]
        /\ \A a \in Attempts : request[a] \in {"none", "over"} => request'[a] = request[a]
        /\ current' = Nobody /\ runBy' = Nobody /\ pendingAborts' = {}
        /\ UNCHANGED <<answer, ledger, dirExists, runs, raced>>
    BY DEF BoxLost, BoxTypeOK
  <1>2. BoxTypeOK'
    BY <1>1 DEF BoxTypeOK
  <1>3. BoxSound'
    BY <1>1, BoxAssumption DEF BoxSound
  <1>4. \A b \in Attempts : Keeps(b)
    BY <1>1, BoxAssumption DEF Keeps, Silent, Hushed
  <1>. QED
    BY <1>1, <1>2, <1>3, <1>4 DEF BoxKeeps

LEMMA AbortKeeps ==
  ASSUME BoxTypeOK, BoxSound, NEW x \in Dispatches \cup {AnyTurn}, AbortTurn(x)
  PROVE  BoxKeeps
  <1>1. /\ UNCHANGED <<request, answer, ledger, dirExists, current, runs, raced>>
        /\ runBy' \in {runBy, Nobody}
        /\ pendingAborts \subseteq pendingAborts' /\ pendingAborts' \subseteq pendingAborts \cup {x}
    BY DEF AbortTurn, Latch
  <1>2. BoxTypeOK'
    BY <1>1 DEF BoxTypeOK
  <1>3. BoxSound'
    BY <1>1, BoxAssumption DEF BoxSound
  <1>4. \A b \in Attempts : Keeps(b)
    BY <1>1, BoxAssumption DEF Keeps, Silent, Hushed
  <1>. QED
    BY <1>1, <1>2, <1>3, <1>4 DEF BoxKeeps

\* The abort of an attempt's turn reaches it before, while or after its prompt
\* is served.
LEMMA AbortHushes ==
  ASSUME BoxTypeOK, BoxSound, NEW a \in Attempts, AbortTurn(DispatchOf[a])
  PROVE  Hushed(a)'
  <1> DEFINE d == DispatchOf[a]
  <1>0. d \in Dispatches /\ d # Nobody /\ d # AnyTurn /\ a # Nobody
    BY BoxAssumption
  <1>1. UNCHANGED <<request, ledger, current, raced>>
    BY DEF AbortTurn
  <1>2. CASE AbortMeans(d, current) /\ runBy' = Nobody
    <2>1. d \in ledger
      BY <1>0, <1>2 DEF AbortMeans, BoxSound
    <2>. QED
      BY <1>0, <1>1, <1>2, <2>1 DEF Hushed, BoxSound
  <1>3. CASE ~AbortMeans(d, current) /\ pendingAborts' = pendingAborts \cup Latch(d) /\ UNCHANGED runBy
    <2>1. current # d /\ d \in pendingAborts'
      BY <1>0, <1>3 DEF AbortMeans, Latch
    <2>2. runBy # a
      BY <1>0, <2>1 DEF BoxSound
    <2>. QED
      BY <1>1, <1>3, <2>1, <2>2 DEF Hushed
  <1>. QED
    BY <1>2, <1>3 DEF AbortTurn

\* The one prompt of an attempt.
LEMMA SendKeeps ==
  ASSUME BoxTypeOK, BoxSound, NEW a \in Attempts, request[a] = "none", SendPrompt(a)
  PROVE  BoxTypeOK' /\ BoxSound' /\ ledger' = ledger /\ \A b \in Attempts \ {a} : Keeps(b)
  <1>1. /\ request' \in [Attempts -> {"none", "sent", "checked", "over"}] /\ request'[a] = "sent"
        /\ \A b \in Attempts \ {a} : request'[b] = request[b]
        /\ UNCHANGED <<answer, ledger, dirExists, current, runBy, pendingAborts, runs, raced>>
    BY DEF SendPrompt, BoxTypeOK
  <1>2. BoxTypeOK'
    BY <1>1 DEF BoxTypeOK
  <1>3. BoxSound'
    BY <1>1 DEF BoxSound, BoxTypeOK
  <1>4. \A b \in Attempts \ {a} : Keeps(b)
    BY <1>1 DEF Keeps, Silent, Hushed
  <1>. QED
    BY <1>1, <1>2, <1>3, <1>4

LEMMA BoxStepKeeps ==
  ASSUME BoxTypeOK, BoxSound, BoxStep
  PROVE  BoxKeeps
  BY CheckKeeps, LoseKeeps, RefuseKeeps, ClaimKeeps, ExpiryKeeps, RestKeeps DEF BoxStep

----------------------------------------------------------------------------
(* The turns.                                                              *)

TurnTyped ==
    /\ pc \in [Attempts -> Pcs]
    /\ stopped \subseteq Attempts
    /\ terminals \in [Attempts -> Nat]
    /\ reserved \in [Dispatches -> {"none", "pending", "confirmed"}]
    /\ supervisorEnded \subseteq Dispatches
    /\ boxAbortAsked \subseteq Dispatches
    /\ shuttingDown \in BOOLEAN
    /\ stopCalls \subseteq Dispatches \cup {AnyTurn}
    /\ askCalls \subseteq Dispatches
    /\ troubles \in 0..MaxTroubles

\* No prompt was sent yet.
Unprompted == {"new", "persist", "queued", "requeued", "held", "steering"}

\* What an attempt that is at x owes to the box's silence.
Owes(a, x) ==
    /\ x \in Unprompted => request[a] = "none"
    /\ x = "resteering" => Silent(a)
    /\ x = "failed" => Hushed(a)

HushInv == \A a \in Attempts : Owes(a, pc[a])

\* An abort that is asked for is asked for a turn that somebody stopped.
AskInv ==
    /\ \A a \in Attempts : pc[a] = "stopping" => a \in stopped
    /\ \A d \in askCalls : \E a \in Attempts : DispatchOf[a] = d /\ a \in stopped

\* A dispatch has one live turn, which holds its reservation and has no terminal
\* but the supervisor's.
TurnInv ==
    /\ \A a, b \in Attempts :
          pc[a] \in LivePcs /\ pc[b] \in LivePcs /\ DispatchOf[a] = DispatchOf[b] => a = b
    /\ \A a \in Attempts : pc[a] \in LivePcs => reserved[DispatchOf[a]] # "none"
    /\ \A a \in Attempts :
          pc[a] \in {"stopping", "consuming"} => reserved[DispatchOf[a]] = "confirmed"
    /\ \A d \in Dispatches : reserved[d] = "confirmed" =>
          d \in ledger \/ \E a \in Attempts : DispatchOf[a] = d /\ pc[a] = "steered"
    /\ \A d \in Dispatches \ Durable : reserved[d] = "pending" =>
          \E a \in Attempts : DispatchOf[a] = d /\ pc[a] \in LivePcs
    /\ \A a \in Attempts : terminals[a] <= 1
    /\ \A a \in Attempts : pc[a] = "new" => terminals[a] = 0
    /\ \A a \in Attempts :
          pc[a] \in LivePcs /\ DispatchOf[a] \notin supervisorEnded => terminals[a] = 0

ChatInv ==
    BoxTypeOK /\ TurnTyped /\ LockSound /\ BoxSound /\ HushInv /\ AskInv /\ TurnInv

LEMMA SilentIsHushed ==
  ASSUME BoxSound
  PROVE  \A a \in Attempts : (request[a] = "none" => Silent(a)) /\ (Silent(a) => Hushed(a))
  BY BoxAssumption, Zenon DEF BoxSound, Silent, Hushed

LEMMA ChatInvInit == Init => ChatInv
  <1> SUFFICES ASSUME Init PROVE ChatInv
    OBVIOUS
  <1>1. Lock!Init /\ Line = <<>> /\ Owner = Nobody
    BY DEF Init, Lock!Init, Line, Owner
  <1>2. LockSound
    BY <1>1 DEF LockSound, Lock!Init, Distinct, In
  <1>3. BoxTypeOK /\ TurnTyped
    <2>1. BoxTypeOK
      BY DEF Init, BoxInit, BoxTypeOK
    <2>2. pc \in [Attempts -> Pcs] /\ terminals \in [Attempts -> Nat]
          /\ reserved \in [Dispatches -> {"none", "pending", "confirmed"}]
      BY DEF Init, Pcs
    <2>3. troubles \in 0..MaxTroubles
      BY TurnAssumption DEF Init
    <2>. QED
      BY <2>1, <2>2, <2>3 DEF Init, TurnTyped
  <1>4. BoxSound
    BY BoxAssumption DEF Init, BoxInit, BoxSound
  <1>5. HushInv /\ AskInv
    BY DEF Init, BoxInit, HushInv, Owes, AskInv, Unprompted
  <1>6. TurnInv
    BY BoxAssumption DEF Init, TurnInv, LivePcs
  <1>. QED
    BY <1>2, <1>3, <1>4, <1>5, <1>6 DEF ChatInv

LEMMA ParamsTyped ==
  ASSUME NEW a \in Attempts
  PROVE  DispatchOf[a] \in Dispatches /\ a # Nobody
  BY BoxAssumption

\* The others are quiet while one attempt moves.
LEMMA HushMoves ==
  ASSUME HushInv, NEW a \in Attempts, NEW x, Moved(a, x), Owes(a, x)',
         \A b \in Attempts \ {a} : Keeps(b)
  PROVE  HushInv'
  <1> SUFFICES ASSUME NEW b \in Attempts PROVE Owes(b, pc[b])'
    BY DEF HushInv
  <1>1. CASE b = a
    BY <1>1 DEF Moved
  <1>2. CASE b # a
    <2>1. Owes(b, pc[b]) /\ Keeps(b)
      BY <1>2 DEF HushInv
    <2>2. pc'[b] = pc[b] \/ (pc[b] \in Waiting /\ pc'[b] = "held")
      BY <1>2 DEF Moved
    <2>. QED
      BY <2>1, <2>2 DEF Owes, Keeps, Waiting, Unprompted
  <1>. QED
    BY <1>1, <1>2

LEMMA OthersMove ==
  ASSUME NEW a \in Attempts, NEW x, Moved(a, x)
  PROVE  \A b \in Attempts \ {a} :
           /\ pc'[b] \in LivePcs <=> pc[b] \in LivePcs
           /\ \A y \in {"stopping", "consuming", "steered", "new"} : pc'[b] = y <=> pc[b] = y
  BY DEF Moved, LivePcs, Waiting

\* An attempt goes on.
LEMMA Stays ==
  ASSUME ChatInv, NEW a \in Attempts, NEW x \in LivePcs, pc[a] \in LivePcs,
         LockSound', Moved(a, x),
         BoxTypeOK', BoxSound', ledger \subseteq ledger', \A b \in Attempts \ {a} : Keeps(b),
         Owes(a, x)',
         \/ reserved' = reserved
         \/ /\ reserved' = [reserved EXCEPT ![DispatchOf[a]] = "confirmed"]
            /\ DispatchOf[a] \in ledger',
         x \in {"stopping", "consuming"} => reserved'[DispatchOf[a]] = "confirmed",
         x = "stopping" => a \in stopped,
         UNCHANGED <<stopped, terminals, superVars, callVars, troubles>>
  PROVE  ChatInv'
  <1>0. DispatchOf[a] \in Dispatches /\ \A b \in Attempts : DispatchOf[b] \in Dispatches
    BY BoxAssumption
  <1>1. HushInv'
    BY HushMoves DEF ChatInv
  <1>2. pc' \in [Attempts -> Pcs] /\ pc'[a] = x
    BY DEF Moved
  <1>3. /\ reserved' \in [Dispatches -> {"none", "pending", "confirmed"}]
        /\ \A d \in Dispatches : reserved'[d] # reserved[d] => reserved'[d] = "confirmed" /\ d \in ledger'
    BY <1>0 DEF ChatInv, TurnTyped
  <1>4. TurnTyped'
    BY <1>2, <1>3 DEF ChatInv, TurnTyped, superVars, callVars
  <1>5. \A b \in Attempts : pc'[b] \in LivePcs <=> pc[b] \in LivePcs
    BY <1>2, OthersMove
  <1>6. \A b \in Attempts : /\ pc[b] = "steered" => pc'[b] = "steered"
                            /\ pc'[b] = "new" => pc[b] = "new"
    BY <1>2, OthersMove DEF LivePcs
  <1>7. AskInv'
    BY <1>2, OthersMove DEF ChatInv, AskInv, callVars
  <1>8. TurnInv'
    <2>1. \A b \in Attempts : pc'[b] \in LivePcs => reserved'[DispatchOf[b]] # "none"
      BY <1>0, <1>3, <1>5 DEF ChatInv, TurnInv
    <2>2. \A b \in Attempts :
            pc'[b] \in {"stopping", "consuming"} => reserved'[DispatchOf[b]] = "confirmed"
      BY <1>0, <1>2, <1>3, OthersMove DEF ChatInv, TurnInv
    <2>3. \A d \in Dispatches : reserved'[d] = "confirmed" =>
            d \in ledger' \/ \E b \in Attempts : DispatchOf[b] = d /\ pc'[b] = "steered"
      BY <1>3, <1>6 DEF ChatInv, TurnInv
    <2>4. \A d \in Dispatches \ Durable : reserved'[d] = "pending" =>
            \E b \in Attempts : DispatchOf[b] = d /\ pc'[b] \in LivePcs
      BY <1>3, <1>5 DEF ChatInv, TurnInv
    <2>. QED
      BY <1>5, <1>6, <2>1, <2>2, <2>3, <2>4 DEF ChatInv, TurnInv, superVars
  <1>. QED
    BY <1>1, <1>4, <1>7, <1>8 DEF ChatInv

Ends == {"failed", "orphaned", "steered", "over"}

\* An attempt is through.
LEMMA EndsWell ==
  ASSUME ChatInv, NEW a \in Attempts, NEW end \in Ends, pc[a] \in LivePcs,
         end = "over" => pc[a] = "consuming",
         LockSound', Moved(a, end), Settle(a, end),
         BoxTypeOK', BoxSound', ledger \subseteq ledger', \A b \in Attempts \ {a} : Keeps(b),
         end = "failed" => Hushed(a)'
  PROVE  ChatInv'
  <1> DEFINE d == DispatchOf[a]
  <1>0. d \in Dispatches /\ \A b \in Attempts : DispatchOf[b] \in Dispatches
    BY BoxAssumption
  <1>1. HushInv'
    <2>1. Owes(a, end)'
      BY DEF Owes, Ends, Unprompted
    <2>. QED
      BY <2>1, HushMoves DEF ChatInv
  <1>2. pc' \in [Attempts -> Pcs] /\ pc'[a] = end /\ end \notin LivePcs
    BY DEF Moved, Ends, LivePcs
  <1>3. /\ terminals' = [terminals EXCEPT ![a] = IF Reports(a, end) THEN @ + 1 ELSE @]
        /\ reserved' = ReservationAfter(a, end)
        /\ supervisorEnded' = supervisorEnded \ {d}
        /\ boxAbortAsked' = boxAbortAsked \ {d}
        /\ UNCHANGED <<stopped, shuttingDown, callVars, troubles>>
    BY DEF Settle
  <1>4. /\ reserved' \in [Dispatches -> {"none", "pending", "confirmed"}]
        /\ \A e \in Dispatches \ {d} : reserved'[e] = reserved[e]
        /\ reserved'[d] = IF end = "steered" THEN "confirmed"
                          ELSE IF end = "over" THEN reserved[d] ELSE "none"
    BY <1>0, <1>3 DEF ChatInv, TurnTyped, ReservationAfter
  <1>5. /\ terminals' \in [Attempts -> Nat]
        /\ \A b \in Attempts \ {a} : terminals'[b] = terminals[b]
        /\ terminals'[a] <= 1
    <2>1. Reports(a, end) => terminals[a] = 0
      BY DEF Reports, ChatInv, TurnInv
    <2>2. terminals \in [Attempts -> Nat] /\ terminals[a] <= 1
      BY DEF ChatInv, TurnTyped, TurnInv
    <2>. QED
      BY <1>3, <2>1, <2>2
  <1>6. TurnTyped'
    BY <1>2, <1>3, <1>4, <1>5 DEF ChatInv, TurnTyped, callVars
  <1>7. \A b \in Attempts : pc'[b] \in LivePcs => b # a /\ pc[b] \in LivePcs /\ DispatchOf[b] # d
    BY <1>2, OthersMove DEF ChatInv, TurnInv
  <1>8. AskInv'
    BY <1>2, <1>3, OthersMove DEF ChatInv, AskInv, callVars, LivePcs
  <1>9. TurnInv'
    <2>1. \A b \in Attempts : pc'[b] \in LivePcs => reserved'[DispatchOf[b]] # "none"
      BY <1>0, <1>4, <1>7 DEF ChatInv, TurnInv
    <2>2. \A b \in Attempts :
            pc'[b] \in {"stopping", "consuming"} => reserved'[DispatchOf[b]] = "confirmed"
      <3>1. \A b \in Attempts : pc'[b] \in {"stopping", "consuming"} =>
              b # a /\ pc[b] \in {"stopping", "consuming"} /\ DispatchOf[b] # d
        BY <1>2, <1>7, OthersMove DEF LivePcs
      <3>. QED
        BY <3>1, <1>0, <1>4 DEF ChatInv, TurnInv
    <2>3. \A e \in Dispatches : reserved'[e] = "confirmed" =>
            e \in ledger' \/ \E b \in Attempts : DispatchOf[b] = e /\ pc'[b] = "steered"
      <3>1. ASSUME NEW e \in Dispatches, reserved'[e] = "confirmed", end # "steered" \/ e # d
            PROVE  reserved[e] = "confirmed"
        BY <3>1, <1>4
      <3>2. \A b \in Attempts : pc[b] = "steered" => pc'[b] = "steered"
        BY OthersMove DEF LivePcs
      <3>. QED
        BY <1>2, <3>1, <3>2 DEF ChatInv, TurnInv
    <2>4. \A e \in Dispatches \ Durable : reserved'[e] = "pending" =>
            \E b \in Attempts : DispatchOf[b] = e /\ pc'[b] \in LivePcs
      <3>1. reserved'[d] # "pending"
        <4>1. end = "over" => reserved[d] = "confirmed"
          BY DEF ChatInv, TurnInv
        <4>. QED
          BY <1>4, <4>1
      <3>2. ASSUME NEW e \in Dispatches \ Durable, reserved'[e] = "pending"
            PROVE  \E b \in Attempts : DispatchOf[b] = e /\ pc'[b] \in LivePcs
        <4>1. e # d /\ reserved[e] = "pending"
          BY <3>1, <3>2, <1>4
        <4>2. PICK b \in Attempts : DispatchOf[b] = e /\ pc[b] \in LivePcs
          BY <4>1 DEF ChatInv, TurnInv
        <4>. QED
          BY <4>1, <4>2, OthersMove
      <3>. QED
        BY <3>2
    <2>5. \A b \in Attempts : pc'[b] \in LivePcs /\ DispatchOf[b] \notin supervisorEnded' => terminals'[b] = 0
      BY <1>3, <1>5, <1>7 DEF ChatInv, TurnInv
    <2>6. \A b \in Attempts : /\ terminals'[b] <= 1
                              /\ pc'[b] = "new" => terminals'[b] = 0
      BY <1>2, <1>5, OthersMove DEF ChatInv, TurnInv, Ends
    <2>7. \A b, c \in Attempts :
            pc'[b] \in LivePcs /\ pc'[c] \in LivePcs /\ DispatchOf[b] = DispatchOf[c] => b = c
      BY <1>7 DEF ChatInv, TurnInv
    <2>. QED
      BY <2>1, <2>2, <2>3, <2>4, <2>5, <2>6, <2>7 DEF TurnInv
  <1>. QED
    BY <1>1, <1>6, <1>8, <1>9 DEF ChatInv

----------------------------------------------------------------------------
(* The steps of a chat.send.                                               *)

LEMMA Untouched ==
  ASSUME BoxTypeOK, BoxSound, UNCHANGED boxVars
  PROVE  BoxTypeOK' /\ BoxSound' /\ ledger \subseteq ledger' /\ \A b \in Attempts : Keeps(b)
  BY RestKeeps DEF BoxKeeps

LEMMA SendStep ==
  ASSUME ChatInv, NEW a \in Attempts, Send(a)
  PROVE  ChatInv'
  <1> DEFINE d == DispatchOf[a]
  <1>0. d \in Dispatches /\ \A b \in Attempts : DispatchOf[b] \in Dispatches
    BY BoxAssumption
  <1>1. /\ pc[a] = "new"
        /\ UNCHANGED <<boxVars, stopped, terminals, lockVars, superVars, callVars, troubles>>
    BY DEF Send
  <1>2. BoxTypeOK' /\ BoxSound' /\ ledger' = ledger /\ \A b \in Attempts : Keeps(b)
    BY <1>1, Untouched DEF ChatInv, boxVars
  <1>3. request[a] = "none" /\ request'[a] = "none"
    BY <1>1, <1>2 DEF ChatInv, HushInv, Owes, Unprompted, Keeps
  <1>4. CASE reserved[d] # "none" /\ pc' = [pc EXCEPT ![a] = "duplicate"] /\ UNCHANGED reserved
    <2>1. Moved(a, "duplicate") /\ LockSound'
      BY <1>1, <1>4, MoveKeepsLock DEF ChatInv, TurnTyped, Pcs, Waiting, OwnerPcs
    <2>2. HushInv'
      <3>1. Owes(a, "duplicate")'
        BY DEF Owes, Unprompted
      <3>. QED
        BY <1>2, <2>1, <3>1, HushMoves DEF ChatInv
    <2>3. TurnTyped'
      BY <1>1, <1>4, <2>1 DEF ChatInv, TurnTyped, Moved, superVars, callVars
    <2>4. \A b \in Attempts : pc'[b] # pc[b] => pc[b] = "new" /\ pc'[b] = "duplicate"
      BY <1>1, <1>4 DEF ChatInv, TurnTyped
    <2>5. AskInv' /\ TurnInv'
      BY <1>0, <1>1, <1>2, <1>4, <2>4
      DEF ChatInv, AskInv, TurnInv, superVars, callVars, LivePcs
    <2>. QED
      BY <1>2, <2>1, <2>2, <2>3, <2>5 DEF ChatInv
  <1>5. CASE /\ reserved[d] = "none" /\ pc' = [pc EXCEPT ![a] = "persist"]
             /\ reserved' = [reserved EXCEPT ![d] = "pending"]
    <2>1. Moved(a, "persist") /\ LockSound'
      BY <1>1, <1>5, MoveKeepsLock DEF ChatInv, TurnTyped, Pcs, LivePcs, Waiting, OwnerPcs
    <2>2. HushInv'
      <3>1. Owes(a, "persist")'
        BY <1>3 DEF Owes, Unprompted
      <3>. QED
        BY <1>2, <2>1, <3>1, HushMoves DEF ChatInv
    <2>3. TurnTyped'
      BY <1>0, <1>1, <1>5, <2>1 DEF ChatInv, TurnTyped, Moved, superVars, callVars
    <2>4. /\ \A b \in Attempts \ {a} : pc'[b] = pc[b]
          /\ pc'[a] = "persist" /\ pc[a] = "new"
      BY <1>1, <1>5 DEF ChatInv, TurnTyped
    <2>5. /\ \A e \in Dispatches \ {d} : reserved'[e] = reserved[e]
          /\ reserved'[d] = "pending"
      BY <1>0, <1>5 DEF ChatInv, TurnTyped
    <2>6. \A b \in Attempts \ {a} : pc[b] \in LivePcs => DispatchOf[b] # d
      BY <1>5 DEF ChatInv, TurnInv
    <2>7. AskInv'
      BY <1>1, <2>4 DEF ChatInv, AskInv, callVars
    <2>8. TurnInv'
      <3>1. \A b, c \in Attempts :
              pc'[b] \in LivePcs /\ pc'[c] \in LivePcs /\ DispatchOf[b] = DispatchOf[c] => b = c
        BY <2>4, <2>6 DEF ChatInv, TurnInv
      <3>2. \A b \in Attempts : pc'[b] \in LivePcs => reserved'[DispatchOf[b]] # "none"
        BY <1>0, <2>4, <2>5 DEF ChatInv, TurnInv
      <3>3. \A b \in Attempts :
              pc'[b] \in {"stopping", "consuming"} => reserved'[DispatchOf[b]] = "confirmed"
        BY <1>0, <2>4, <2>5, <2>6 DEF ChatInv, TurnInv, LivePcs
      <3>4. \A e \in Dispatches : reserved'[e] = "confirmed" =>
              e \in ledger' \/ \E b \in Attempts : DispatchOf[b] = e /\ pc'[b] = "steered"
        BY <1>2, <2>4, <2>5 DEF ChatInv, TurnInv
      <3>5. \A e \in Dispatches \ Durable : reserved'[e] = "pending" =>
              \E b \in Attempts : DispatchOf[b] = e /\ pc'[b] \in LivePcs
        BY <2>4, <2>5 DEF ChatInv, TurnInv, LivePcs
      <3>6. \A b \in Attempts :
              /\ terminals'[b] <= 1
              /\ pc'[b] = "new" => terminals'[b] = 0
              /\ pc'[b] \in LivePcs /\ DispatchOf[b] \notin supervisorEnded' => terminals'[b] = 0
        BY <1>1, <2>4 DEF ChatInv, TurnInv, superVars
      <3>. QED
        BY <3>1, <3>2, <3>3, <3>4, <3>5, <3>6 DEF TurnInv
    <2>. QED
      BY <1>2, <2>1, <2>2, <2>3, <2>7, <2>8 DEF ChatInv
  <1>. QED
    BY <1>4, <1>5 DEF Send

LEMMA PersistFailsStep ==
  ASSUME ChatInv, NEW a \in Attempts, PersistFails(a)
  PROVE  ChatInv'
  <1>0. DispatchOf[a] \in Durable /\ \A b \in Attempts : DispatchOf[b] \in Dispatches
    BY BoxAssumption DEF PersistFails
  <1>1. /\ pc[a] = "persist" /\ pc' = [pc EXCEPT ![a] = "rejected"]
        /\ UNCHANGED <<boxVars, stopped, terminals, reserved, lockVars, superVars, callVars, troubles>>
    BY DEF PersistFails
  <1>2. BoxTypeOK' /\ BoxSound' /\ ledger' = ledger /\ \A b \in Attempts : Keeps(b)
    BY <1>1, Untouched DEF ChatInv, boxVars
  <1>3. Moved(a, "rejected") /\ LockSound'
    BY <1>1, MoveKeepsLock DEF ChatInv, TurnTyped, Pcs, Waiting, OwnerPcs
  <1>4. HushInv'
    <2>1. Owes(a, "rejected")'
      BY DEF Owes, Unprompted
    <2>. QED
      BY <1>2, <1>3, <2>1, HushMoves DEF ChatInv
  <1>5. TurnTyped'
    BY <1>1, <1>3 DEF ChatInv, TurnTyped, Moved, superVars, callVars
  <1>6. \A b \in Attempts : IF b = a THEN pc'[b] = "rejected" ELSE pc'[b] = pc[b]
    BY <1>1 DEF ChatInv, TurnTyped
  <1>7. AskInv'
    BY <1>1, <1>6 DEF ChatInv, AskInv, callVars
  <1>8. TurnInv'
    <2>1. \A d \in Dispatches : reserved'[d] = "confirmed" =>
            d \in ledger' \/ \E b \in Attempts : DispatchOf[b] = d /\ pc'[b] = "steered"
      BY <1>1, <1>2, <1>6 DEF ChatInv, TurnInv
    <2>2. \A d \in Dispatches \ Durable : reserved'[d] = "pending" =>
            \E b \in Attempts : DispatchOf[b] = d /\ pc'[b] \in LivePcs
      BY <1>0, <1>1, <1>6 DEF ChatInv, TurnInv
    <2>3. \A b \in Attempts : pc'[b] \in LivePcs \cup {"new"} => pc'[b] = pc[b]
      BY <1>6 DEF LivePcs
    <2>. QED
      BY <1>1, <2>1, <2>2, <2>3 DEF ChatInv, TurnInv, superVars, LivePcs
  <1>. QED
    BY <1>2, <1>3, <1>4, <1>5, <1>7, <1>8 DEF ChatInv

LEMMA PersistedStep ==
  ASSUME ChatInv, NEW a \in Attempts, Persisted(a)
  PROVE  ChatInv'
  <1>1. /\ pc[a] = "persist" /\ Acquire(a, "queued")
        /\ UNCHANGED <<boxVars, stopped, terminals, reserved, superVars, callVars, troubles>>
    BY DEF Persisted
  <1>2. BoxTypeOK' /\ BoxSound' /\ ledger \subseteq ledger' /\ \A b \in Attempts : Keeps(b)
    BY <1>1, Untouched DEF ChatInv
  <1>3. request'[a] = "none"
    BY <1>1, <1>2 DEF ChatInv, HushInv, Owes, Unprompted, Keeps
  <1>4. PICK x \in {"held", "queued"} : LockSound' /\ Moved(a, x)
    BY <1>1, AcquireMoves DEF ChatInv, TurnTyped, Waiting, OwnerPcs
  <1>5. Owes(a, x)'
    BY <1>3 DEF Owes
  <1>6. x \in LivePcs /\ pc[a] \in LivePcs /\ x \notin {"stopping", "consuming"}
    BY <1>1 DEF LivePcs
  <1>. QED
    BY <1>1, <1>2, <1>4, <1>5, <1>6, Stays

LEMMA RefusedStep ==
  ASSUME ChatInv, NEW a \in Attempts, Refused(a)
  PROVE  ChatInv'
  <1>1. /\ pc[a] \in Waiting /\ UNCHANGED boxVars
    BY DEF Refused, Waiting
  <1>2. BoxTypeOK' /\ BoxSound' /\ ledger \subseteq ledger' /\ \A b \in Attempts : Keeps(b)
    BY <1>1, Untouched DEF ChatInv
  <1>3. request'[a] = "none"
    BY <1>1, <1>2 DEF ChatInv, HushInv, Owes, Unprompted, Keeps, Waiting
  <1>4. PICK k \in DOMAIN line["session"] :
            /\ line["session"][k] = a
            /\ \/ /\ RefusedForGood(a)
                  /\ Settle(a, "failed")
                  /\ Lock!Leave("session", k)
                  /\ pc' = [pc EXCEPT ![a] = "failed"]
               \/ /\ ~RefusedForGood(a) /\ Placed
                  /\ Lock!Leave("session", k)
                  /\ pc' = [pc EXCEPT ![a] = "steering"]
                  /\ UNCHANGED <<stopped, terminals, reserved, superVars, callVars, troubles>>
               \/ /\ ~RefusedForGood(a) /\ ~Placed
                  /\ line' = [line EXCEPT !["session"] = Append(RemoveAt(@, k), a)]
                  /\ pc' = [pc EXCEPT ![a] = "requeued"]
                  /\ UNCHANGED <<turnOf, stopped, terminals, reserved, superVars, callVars,
                                 troubles>>
    BY DEF Refused
  <1>5. pc[a] \in LivePcs /\ {"failed", "steering", "requeued"} \subseteq Pcs
    BY <1>1 DEF Waiting, LivePcs, Pcs
  <1>6. CASE /\ Settle(a, "failed") /\ Lock!Leave("session", k) /\ pc' = [pc EXCEPT ![a] = "failed"]
    <2>1. LockSound' /\ Moved(a, "failed")
      BY <1>1, <1>4, <1>5, <1>6, LeaveMoves DEF ChatInv, TurnTyped
    <2>2. Hushed(a)'
      BY <1>2, <1>3, BoxAssumption DEF Hushed, BoxSound
    <2>. QED
      BY <1>2, <1>5, <1>6, <2>1, <2>2, EndsWell DEF Ends
  <1>7. CASE /\ Lock!Leave("session", k) /\ pc' = [pc EXCEPT ![a] = "steering"]
             /\ UNCHANGED <<stopped, terminals, reserved, superVars, callVars, troubles>>
    <2>1. LockSound' /\ Moved(a, "steering")
      BY <1>1, <1>4, <1>5, <1>7, LeaveMoves DEF ChatInv, TurnTyped
    <2>2. Owes(a, "steering")' /\ "steering" \in LivePcs
      BY <1>3 DEF Owes, LivePcs
    <2>. QED
      BY <1>2, <1>5, <1>7, <2>1, <2>2, Stays
  <1>8. CASE /\ line' = [line EXCEPT !["session"] = Append(RemoveAt(@, k), a)]
             /\ pc' = [pc EXCEPT ![a] = "requeued"]
             /\ UNCHANGED <<turnOf, stopped, terminals, reserved, superVars, callVars, troubles>>
    <2>1. LockSound' /\ Moved(a, "requeued")
      BY <1>1, <1>4, <1>8, RequeueMoves DEF ChatInv, TurnTyped
    <2>2. Owes(a, "requeued")' /\ "requeued" \in LivePcs
      BY <1>3 DEF Owes, LivePcs
    <2>. QED
      BY <1>2, <1>5, <1>8, <2>1, <2>2, Stays
  <1>. QED
    BY <1>4, <1>6, <1>7, <1>8

LEMMA SteerStep ==
  ASSUME ChatInv, NEW a \in Attempts, SteerTaken(a) \/ SteerFails(a)
  PROVE  ChatInv'
  <1>1. UNCHANGED boxVars
    BY DEF SteerTaken, SteerFails
  <1>2. BoxTypeOK' /\ BoxSound' /\ ledger \subseteq ledger' /\ \A b \in Attempts : Keeps(b)
    BY <1>1, Untouched DEF ChatInv
  <1>3. CASE pc[a] = "steering" /\ Settle(a, "steered") /\ pc' = [pc EXCEPT ![a] = "steered"]
             /\ UNCHANGED lockVars
    <2>1. Moved(a, "steered") /\ LockSound'
      BY <1>3, MoveKeepsLock DEF ChatInv, TurnTyped, Pcs, Waiting, OwnerPcs
    <2>2. pc[a] \in LivePcs
      BY <1>3 DEF LivePcs
    <2>. QED
      BY <1>2, <1>3, <2>1, <2>2, EndsWell DEF Ends
  <1>4. CASE pc[a] = "resteering" /\ \E end \in {"steered", "failed"} : Finish(a, end)
    <2>1. PICK end \in {"steered", "failed"} : Finish(a, end)
      BY <1>4
    <2>2. LockSound' /\ Moved(a, end) /\ Settle(a, end)
      BY <1>4, <2>1, FinishMoves DEF ChatInv, TurnTyped, Pcs, Waiting
    <2>3. Hushed(a)'
      <3>1. Silent(a)
        BY <1>4 DEF ChatInv, HushInv, Owes
      <3>. QED
        BY <3>1, <1>2, SilentIsHushed DEF Keeps, ChatInv
    <2>4. pc[a] \in LivePcs
      BY <1>4 DEF LivePcs
    <2>. QED
      BY <1>2, <2>2, <2>3, <2>4, EndsWell DEF Ends
  <1>5. CASE pc[a] = "steering" /\ Acquire(a, "requeued")
             /\ UNCHANGED <<stopped, terminals, reserved, superVars, callVars, troubles>>
    <2>1. PICK x \in {"held", "requeued"} : LockSound' /\ Moved(a, x)
      BY <1>5, AcquireMoves DEF ChatInv, TurnTyped, Waiting, OwnerPcs
    <2>2. request'[a] = "none"
      BY <1>5, <1>2 DEF ChatInv, HushInv, Owes, Unprompted, Keeps
    <2>3. Owes(a, x)'
      BY <2>2 DEF Owes
    <2>4. x \in LivePcs /\ pc[a] \in LivePcs /\ x \notin {"stopping", "consuming"}
      BY <1>5 DEF LivePcs
    <2>. QED
      BY <1>2, <1>5, <2>1, <2>3, <2>4, Stays
  <1>. QED
    BY <1>3, <1>4, <1>5 DEF SteerTaken, SteerFails

LEMMA PlaceStep ==
  ASSUME ChatInv, NEW a \in Attempts, Place(a)
  PROVE  ChatInv'
  <1>1. /\ pc[a] = "held" /\ pc' = [pc EXCEPT ![a] = "prompting"] /\ SendPrompt(a)
        /\ UNCHANGED <<stopped, terminals, reserved, lockVars, superVars, callVars, troubles>>
    BY DEF Place
  <1>2. request[a] = "none"
    BY <1>1 DEF ChatInv, HushInv, Owes, Unprompted
  <1>3. BoxTypeOK' /\ BoxSound' /\ ledger \subseteq ledger' /\ \A b \in Attempts \ {a} : Keeps(b)
    BY <1>1, <1>2, SendKeeps DEF ChatInv
  <1>4. Moved(a, "prompting") /\ LockSound'
    BY <1>1, MoveKeepsLock DEF ChatInv, TurnTyped, Pcs, LivePcs, Waiting, OwnerPcs
  <1>5. Owes(a, "prompting")' /\ "prompting" \in LivePcs /\ pc[a] \in LivePcs
    BY <1>1 DEF Owes, Unprompted, LivePcs
  <1>. QED
    BY <1>1, <1>3, <1>4, <1>5, Stays

LEMMA FailsBeforePromptStep ==
  ASSUME ChatInv, NEW a \in Attempts, FailsBeforePrompt(a)
  PROVE  ChatInv'
  <1>1. pc[a] = "held" /\ Finish(a, "failed") /\ UNCHANGED boxVars
    BY DEF FailsBeforePrompt
  <1>2. BoxTypeOK' /\ BoxSound' /\ ledger \subseteq ledger' /\ \A b \in Attempts : Keeps(b)
    BY <1>1, Untouched DEF ChatInv
  <1>3. LockSound' /\ Moved(a, "failed") /\ Settle(a, "failed")
    BY <1>1, FinishMoves DEF ChatInv, TurnTyped, Pcs, Waiting
  <1>4. Hushed(a)'
    <2>1. request[a] = "none"
      BY <1>1 DEF ChatInv, HushInv, Owes, Unprompted
    <2>. QED
      BY <2>1, <1>2, SilentIsHushed DEF Keeps, ChatInv
  <1>5. pc[a] \in LivePcs
    BY <1>1 DEF LivePcs
  <1>. QED
    BY <1>2, <1>3, <1>4, <1>5, EndsWell DEF Ends

LEMMA PromptAnsweredStep ==
  ASSUME ChatInv, NEW a \in Attempts, PromptAnswered(a)
  PROVE  ChatInv'
  <1>0. pc[a] = "prompting" /\ pc[a] \in LivePcs /\ pc[a] \notin Waiting /\ HangUp({a})
        /\ {"stopping", "consuming", "resteering"} \subseteq Pcs
    BY DEF PromptAnswered, LivePcs, Waiting, Pcs
  <1>1. BoxTypeOK' /\ BoxSound' /\ ledger \subseteq ledger' /\ \A b \in Attempts : Keeps(b)
    BY <1>0, HangUpKeeps DEF ChatInv, BoxKeeps
  <1>2. answer[a] \in {"busy", "unavailable"} => Silent(a)' /\ Hushed(a)'
    <2>1. answer[a] \in {"busy", "unavailable"} => Silent(a)
      BY DEF ChatInv, BoxSound, Silent
    <2>. QED
      BY <2>1, <1>1, SilentIsHushed DEF Keeps, ChatInv
  <1>3. CASE /\ answer[a] = "ok"
             /\ reserved' = [reserved EXCEPT ![DispatchOf[a]] = "confirmed"]
             /\ pc' = [pc EXCEPT ![a] = IF a \in stopped THEN "stopping" ELSE "consuming"]
             /\ UNCHANGED <<stopped, terminals, lockVars, superVars, callVars, troubles>>
    <2>1. PICK x \in {"stopping", "consuming"} :
            pc' = [pc EXCEPT ![a] = x] /\ (x = "stopping" => a \in stopped)
      BY <1>3
    <2>2. Moved(a, x) /\ LockSound'
      BY <1>0, <1>3, <2>1, MoveKeepsLock DEF ChatInv, TurnTyped, OwnerPcs
    <2>3. DispatchOf[a] \in ledger'
      BY <1>1, <1>3 DEF ChatInv, BoxSound
    <2>4. Owes(a, x)' /\ x \in LivePcs
      BY <2>1 DEF Owes, Unprompted, LivePcs
    <2>5. reserved'[DispatchOf[a]] = "confirmed"
      BY <1>3, BoxAssumption DEF ChatInv, TurnTyped
    <2>. QED
      BY <1>0, <1>1, <1>3, <2>1, <2>2, <2>3, <2>4, <2>5, Stays
  <1>4. CASE /\ answer[a] = "busy" /\ pc' = [pc EXCEPT ![a] = "resteering"]
             /\ UNCHANGED <<stopped, terminals, reserved, lockVars, superVars, callVars, troubles>>
    <2>1. Moved(a, "resteering") /\ LockSound'
      BY <1>0, <1>4, MoveKeepsLock DEF ChatInv, TurnTyped, OwnerPcs
    <2>2. Owes(a, "resteering")' /\ "resteering" \in LivePcs
      BY <1>2, <1>4 DEF Owes, Unprompted, LivePcs
    <2>. QED
      BY <1>0, <1>1, <1>4, <2>1, <2>2, Stays
  <1>5. CASE answer[a] \in {"busy", "unavailable"} /\ Finish(a, "failed")
    <2>1. LockSound' /\ Moved(a, "failed") /\ Settle(a, "failed")
      BY <1>0, <1>5, FinishMoves DEF ChatInv, TurnTyped, Pcs
    <2>. QED
      BY <1>0, <1>1, <1>2, <1>5, <2>1, EndsWell DEF Ends
  <1>. QED
    BY <1>3, <1>4, <1>5 DEF PromptAnswered

LEMMA UnknownOutcomeStep ==
  ASSUME ChatInv, NEW a \in Attempts, PromptFails(a) \/ StopAccepted(a)
  PROVE  ChatInv'
  <1>1. /\ pc[a] \in {"prompting", "stopping"} /\ pc' = [pc EXCEPT ![a] = "compensating"]
        /\ UNCHANGED <<stopped, terminals, reserved, lockVars, superVars, callVars, troubles>>
    BY DEF PromptFails, StopAccepted
  <1>2. BoxTypeOK' /\ BoxSound' /\ ledger \subseteq ledger' /\ \A b \in Attempts : Keeps(b)
    <2>1. CASE HangUp({a})
      BY <2>1, HangUpKeeps DEF ChatInv, BoxKeeps
    <2>2. CASE AbortTurn(DispatchOf[a])
      BY <2>2, ParamsTyped, AbortKeeps DEF ChatInv, BoxKeeps
    <2>3. CASE UNCHANGED boxVars
      BY <2>3, Untouched DEF ChatInv
    <2>. QED
      BY <2>1, <2>2, <2>3 DEF PromptFails, StopAccepted
  <1>3. Moved(a, "compensating") /\ LockSound'
    BY <1>1, MoveKeepsLock DEF ChatInv, TurnTyped, Pcs, LivePcs, Waiting, OwnerPcs
  <1>4. Owes(a, "compensating")' /\ "compensating" \in LivePcs /\ pc[a] \in LivePcs
    BY <1>1 DEF Owes, Unprompted, LivePcs
  <1>. QED
    BY <1>1, <1>2, <1>3, <1>4, Stays

LEMMA CompensateStep ==
  ASSUME ChatInv, NEW a \in Attempts, Compensate(a)
  PROVE  ChatInv'
  <1>1. pc[a] = "compensating" /\ AbortTurn(DispatchOf[a]) /\ Finish(a, "failed")
    BY DEF Compensate
  <1>2. BoxTypeOK' /\ BoxSound' /\ ledger \subseteq ledger' /\ \A b \in Attempts : Keeps(b)
    BY <1>1, ParamsTyped, AbortKeeps DEF ChatInv, BoxKeeps
  <1>3. Hushed(a)'
    BY <1>1, AbortHushes DEF ChatInv
  <1>4. LockSound' /\ Moved(a, "failed") /\ Settle(a, "failed")
    BY <1>1, FinishMoves DEF ChatInv, TurnTyped, Pcs, Waiting
  <1>5. pc[a] \in LivePcs
    BY <1>1 DEF LivePcs
  <1>. QED
    BY <1>2, <1>3, <1>4, <1>5, EndsWell DEF Ends

LEMMA LeaveRunningStep ==
  ASSUME ChatInv, NEW a \in Attempts, CompensateFails(a) \/ StreamEnds(a) \/ StreamBreaks(a)
  PROVE  ChatInv'
  <1>1. PICK end \in {"orphaned", "over"} :
          /\ pc[a] \in {"compensating", "consuming"} /\ (end = "over" => pc[a] = "consuming")
          /\ Finish(a, end) /\ UNCHANGED boxVars
    BY DEF CompensateFails, StreamEnds, StreamBreaks
  <1>2. BoxTypeOK' /\ BoxSound' /\ ledger \subseteq ledger' /\ \A b \in Attempts : Keeps(b)
    BY <1>1, Untouched DEF ChatInv
  <1>3. LockSound' /\ Moved(a, end) /\ Settle(a, end)
    BY <1>1, FinishMoves DEF ChatInv, TurnTyped, Pcs, Waiting
  <1>4. pc[a] \in LivePcs
    BY <1>1 DEF LivePcs
  <1>. QED
    BY <1>1, <1>2, <1>3, <1>4, EndsWell DEF Ends

----------------------------------------------------------------------------
(* The steps of the others.                                                *)

\* Where no attempt moves.
LEMMA NobodyMoves ==
  ASSUME ChatInv, BoxKeeps, UNCHANGED <<pc, lockVars>>
  PROVE  BoxTypeOK' /\ BoxSound' /\ LockSound' /\ HushInv'
  <1>1. LockSound'
    BY DEF ChatInv, LockSound, lockVars, Line, Owner, Distinct, In
  <1>2. HushInv'
    BY DEF ChatInv, HushInv, Owes, BoxKeeps, Keeps
  <1>. QED
    BY <1>1, <1>2 DEF BoxKeeps

\* Steps that leave the turns and what they reported alone.
LEMMA CallStep ==
  ASSUME ChatInv, BoxKeeps,
         UNCHANGED <<pc, lockVars, terminals, reserved, supervisorEnded, shuttingDown>>,
         stopped \subseteq stopped', stopped' \subseteq Attempts,
         boxAbortAsked' \subseteq boxAbortAsked, askCalls' \subseteq askCalls,
         stopCalls' \subseteq Dispatches \cup {AnyTurn}, troubles' \in 0..MaxTroubles
  PROVE  ChatInv'
  <1>1. BoxTypeOK' /\ BoxSound' /\ LockSound' /\ HushInv'
    BY NobodyMoves
  <1>2. TurnTyped'
    BY DEF ChatInv, TurnTyped
  <1>3. AskInv'
    BY DEF ChatInv, AskInv
  <1>4. TurnInv'
    <2>1. ledger \subseteq ledger'
      BY DEF BoxKeeps
    <2>. QED
      BY <2>1 DEF ChatInv, TurnInv
  <1>. QED
    BY <1>1, <1>2, <1>3, <1>4 DEF ChatInv

LEMMA TroubleTyped ==
  ASSUME TurnTyped, Trouble
  PROVE  troubles' \in 0..MaxTroubles
  BY TurnAssumption DEF TurnTyped, Trouble

LEMMA EndTurnsStep ==
  ASSUME ChatInv, NEW shutdown \in BOOLEAN, EndTurns(shutdown)
  PROVE  ChatInv'
  <1> DEFINE ask == {d \in TurnIds(Live) : Placed} \ boxAbortAsked
  <1>1. /\ Trouble
        /\ shuttingDown' = (shuttingDown \/ shutdown)
        /\ terminals' = [a \in Attempts |-> IF Unreported(a) THEN terminals[a] + 1
                                                             ELSE terminals[a]]
        /\ supervisorEnded' = supervisorEnded \cup TurnIds(Live)
        /\ stopped' = stopped \cup Live
        /\ boxAbortAsked' = boxAbortAsked \cup ask
        /\ askCalls' = askCalls \cup ask
        /\ UNCHANGED <<boxVars, pc, reserved, lockVars, stopCalls>>
    BY DEF EndTurns
  <1>2. BoxTypeOK' /\ BoxSound' /\ LockSound' /\ HushInv' /\ ledger' = ledger
    BY <1>1, NobodyMoves, RestKeeps DEF ChatInv, boxVars
  <1>3. /\ \A a \in Live : a \in Attempts /\ pc[a] \in LivePcs
        /\ TurnIds(Live) \subseteq Dispatches
        /\ \A d \in ask : \E a \in Attempts : DispatchOf[a] = d /\ a \in Live
    BY BoxAssumption DEF Live, TurnIds
  <1>4. \A a \in Attempts : terminals'[a] \in Nat /\ terminals'[a] <= 1
    <2>1. \A a \in Attempts : Unreported(a) => terminals[a] = 0
      BY <1>3, Zenon DEF Unreported, ChatInv, TurnInv
    <2>2. \A a \in Attempts : terminals[a] \in Nat /\ terminals[a] <= 1
      BY DEF ChatInv, TurnTyped, TurnInv
    <2>. QED
      BY <1>1, <2>1, <2>2
  <1>5. TurnTyped'
    <2>1. terminals' \in [Attempts -> Nat]
      BY <1>1, <1>4
    <2>2. troubles' \in 0..MaxTroubles
      BY <1>1, TroubleTyped DEF ChatInv
    <2>3. shuttingDown' \in BOOLEAN
      BY <1>1 DEF ChatInv, TurnTyped
    <2>4. stopped' \subseteq Attempts /\ supervisorEnded' \subseteq Dispatches
          /\ boxAbortAsked' \subseteq Dispatches /\ askCalls' \subseteq Dispatches
      BY <1>1, <1>3 DEF ChatInv, TurnTyped
    <2>. QED
      BY <1>1, <2>1, <2>2, <2>3, <2>4 DEF ChatInv, TurnTyped
  <1>6. AskInv'
    <2>1. \A a \in Attempts : pc'[a] = "stopping" => a \in stopped'
      BY <1>1 DEF ChatInv, AskInv
    <2>2. \A d \in askCalls' : \E a \in Attempts : DispatchOf[a] = d /\ a \in stopped'
      BY <1>1, <1>3 DEF ChatInv, AskInv
    <2>. QED
      BY <2>1, <2>2 DEF AskInv
  <1>7. TurnInv'
    <2>1. \A a \in Attempts : pc'[a] = "new" => terminals'[a] = 0
      <3>1. \A a \in Attempts : pc[a] = "new" => ~Unreported(a)
        BY <1>3 DEF Unreported, LivePcs
      <3>. QED
        BY <1>1, <3>1 DEF ChatInv, TurnInv
    <2>2. \A a \in Attempts : pc'[a] \in LivePcs => DispatchOf[a] \in supervisorEnded'
      BY <1>1 DEF Live, TurnIds
    <2>. QED
      BY <1>1, <1>2, <1>4, <2>1, <2>2 DEF ChatInv, TurnInv
  <1>. QED
    BY <1>2, <1>5, <1>6, <1>7 DEF ChatInv

LEMMA RuntimeRestartsStep ==
  ASSUME ChatInv, RuntimeRestarts
  PROVE  ChatInv'
  <1>1. /\ Trouble
        /\ pc' = [a \in Attempts |-> IF a \in Live THEN "dead" ELSE pc[a]]
        /\ reserved' = [d \in Dispatches |-> "none"]
        /\ turnOf' = [turnOf EXCEPT !["session"] = Nobody]
        /\ line' = [line EXCEPT !["session"] = <<>>]
        /\ supervisorEnded' = {} /\ boxAbortAsked' = {} /\ shuttingDown' = FALSE
        /\ HangUp(Live)
        /\ UNCHANGED <<stopped, terminals, callVars>>
    BY DEF RuntimeRestarts
  <1>2. BoxTypeOK' /\ BoxSound' /\ \A b \in Attempts : Keeps(b)
    BY <1>1, HangUpKeeps DEF ChatInv, BoxKeeps
  <1>3. /\ pc' \in [Attempts -> Pcs]
        /\ \A a \in Attempts : pc'[a] \notin LivePcs /\ pc'[a] \in {pc[a], "dead"}
    BY <1>1 DEF ChatInv, TurnTyped, Pcs, Live, LivePcs
  <1>4. LockSound'
    <2>1. Line' = <<>> /\ Owner' = Nobody
      BY <1>1 DEF ChatInv, LockSound, Line, Owner
    <2>2. Distinct(Line') /\ In(Line') = {}
      BY <2>1 DEF Distinct, In
    <2>3. turnOf' \in [{"session"} -> Attempts \cup {Nobody}] /\ line' \in [{"session"} -> Seq(Attempts)]
      BY <1>1 DEF ChatInv, LockSound
    <2>. QED
      BY <2>1, <2>2, <2>3 DEF LockSound
  <1>5. HushInv'
    BY <1>2, <1>3 DEF ChatInv, HushInv, Owes, Unprompted, Keeps
  <1>6. TurnTyped'
    BY <1>1, <1>3, TroubleTyped DEF ChatInv, TurnTyped, callVars
  <1>7. AskInv'
    BY <1>1, <1>3 DEF ChatInv, AskInv, callVars, LivePcs
  <1>8. TurnInv'
    BY <1>1, <1>3 DEF ChatInv, TurnInv, LivePcs
  <1>. QED
    BY <1>2, <1>4, <1>5, <1>6, <1>7, <1>8 DEF ChatInv

LEMMA ChatInvStep == ChatInv /\ [Next]_vars => ChatInv'
  <1> SUFFICES ASSUME ChatInv, [Next]_vars PROVE ChatInv'
    OBVIOUS
  <1>0. TurnTyped /\ BoxTypeOK /\ BoxSound
    BY DEF ChatInv
  <1>1. CASE \E a \in Attempts : Send(a) \/ AttemptStep(a) \/ Refused(a) \/ StreamBreaks(a)
    BY <1>1, SendStep, RefusedStep, PersistedStep, PersistFailsStep, SteerStep, PlaceStep,
       FailsBeforePromptStep, PromptAnsweredStep, UnknownOutcomeStep, CompensateStep,
       LeaveRunningStep
    DEF AttemptStep
  <1>2. ASSUME NEW x \in Dispatches \cup {AnyTurn}, Stop(x) PROVE ChatInv'
    <2>1. BoxKeeps
      BY <1>0, <1>2, RestKeeps DEF Stop
    <2>2. troubles' \in 0..MaxTroubles
      BY <1>0, <1>2, TroubleTyped DEF Stop
    <2>3. /\ UNCHANGED <<pc, lockVars, terminals, reserved, superVars, askCalls>>
          /\ \/ stopped' = stopped
             \/ \E T \in SUBSET Live : stopped' = stopped \cup T
          /\ \/ stopCalls' = stopCalls \cup {x}
             \/ \E T \in SUBSET Live : stopCalls' = stopCalls \cup TurnIds(T)
      BY <1>2 DEF Stop
    <2>4. \A T \in SUBSET Live : T \subseteq Attempts /\ TurnIds(T) \subseteq Dispatches
      BY BoxAssumption DEF Live, TurnIds
    <2>5. /\ stopped \subseteq stopped' /\ stopped' \subseteq Attempts
          /\ stopCalls' \subseteq Dispatches \cup {AnyTurn}
      BY <1>0, <2>3, <2>4 DEF TurnTyped
    <2>. QED
      BY <2>1, <2>2, <2>3, <2>5, CallStep DEF superVars
  <1>3. ASSUME NEW x \in Dispatches \cup {AnyTurn}, StopArrives(x) \/ StopLost(x) PROVE ChatInv'
    <2>1. BoxKeeps
      BY <1>0, <1>3, RestKeeps, AbortKeeps DEF StopArrives, StopLost
    <2>. QED
      BY <1>0, <1>3, <2>1, CallStep DEF StopArrives, StopLost, superVars, TurnTyped
  <1>4. ASSUME NEW d \in Dispatches, AskArrives(d) \/ AskLost(d) PROVE ChatInv'
    <2>1. BoxKeeps
      BY <1>0, <1>4, RestKeeps, AbortKeeps DEF AskArrives, AskLost
    <2>. QED
      BY <1>0, <1>4, <2>1, CallStep DEF AskArrives, AskLost, superVars, TurnTyped
  <1>5. CASE \E shutdown \in BOOLEAN : EndTurns(shutdown)
    BY <1>5, EndTurnsStep
  <1>6. CASE BoxStep
    <2>1. BoxKeeps
      BY <1>0, <1>6, BoxStepKeeps
    <2>2. UNCHANGED <<pc, stopped, terminals, reserved, lockVars, superVars, callVars, troubles>>
      BY <1>6 DEF BoxStep
    <2>. QED
      BY <1>0, <2>1, <2>2, CallStep DEF superVars, callVars, TurnTyped
  <1>7. CASE RuntimeRestarts
    BY <1>7, RuntimeRestartsStep
  <1>8. CASE BoxRestarts
    <2>1. BoxKeeps
      BY <1>0, <1>8, LossKeeps DEF BoxRestarts
    <2>2. troubles' \in 0..MaxTroubles
      BY <1>0, <1>8, TroubleTyped DEF BoxRestarts
    <2>. QED
      BY <1>0, <1>8, <2>1, <2>2, CallStep DEF BoxRestarts, superVars, callVars, TurnTyped
  <1>9. CASE UNCHANGED vars
    <2>1. BoxKeeps
      BY <1>0, <1>9, RestKeeps DEF vars
    <2>. QED
      BY <1>0, <1>9, <2>1, CallStep DEF vars, superVars, callVars, TurnTyped
  <1>. QED
    BY <1>1, <1>2, <1>3, <1>4, <1>5, <1>6, <1>7, <1>8, <1>9 DEF Next

LEMMA ChatInvAlways == Spec => []ChatInv
  BY ChatInvInit, ChatInvStep, PTL DEF Spec

----------------------------------------------------------------------------
(* The promises.                                                           *)

\* A dispatch is started at most once, through retries, lost answers and restarts
\* of both processes, unless two of its requests were between the look into the
\* ledger and the claim together: handlePrompt records the turn before it answers,
\* and a retry finds the record (turn-ledger.ts, http-server.ts).
THEOREM DispatchRunsAtMostOnce == Spec => []RunsAtMostOnce
  <1>1. ChatInv => RunsAtMostOnce
    BY DEF ChatInv, BoxSound, RunsAtMostOnce
  <1>. QED
    BY <1>1, ChatInvAlways, PTL

\* An attempt that chat.send reported as failed does not run on the box, then or
\* later: it never prompted, or the box refused it, or the abort that compensates
\* for it finds the run or waits for it among the pending aborts (server.ts,
\* markPendingAbort and consumePendingAbort of http-server.ts).
THEOREM FailureIsNotHeadless == Spec => []NoHeadlessRun
  <1>1. ChatInv => NoHeadlessRun
    BY DEF ChatInv, HushInv, Owes, Hushed, NoHeadlessRun
  <1>. QED
    BY <1>1, ChatInvAlways, PTL

\* A turn is reported at most once, by the end of its chat.send or by the
\* supervisor's endTurns(), never by both (supervisorEndedTurns, server.ts).
THEOREM OneTerminalPerTurn == Spec => []OneTerminal
  <1>1. ChatInv => OneTerminal
    BY Zenon DEF ChatInv, TurnInv, OneTerminal
  <1>. QED
    BY <1>1, ChatInvAlways, PTL

\* A pending reservation of recentDispatches belongs to a chat.send in progress,
\* a confirmed one to a turn in the box's ledger or to a steer that was taken.
THEOREM ReservationsAlwaysReal == Spec => []ReservationsAreReal
  <1>1. ASSUME ChatInv PROVE TypeOK
    <2>1. /\ BoxTypeOK /\ TurnTyped
          /\ turnOf \in [{"session"} -> Attempts \cup {Nobody}]
          /\ line \in [{"session"} -> Seq(Attempts)]
      BY <1>1 DEF ChatInv, LockSound
    <2>2. Owner # Nobody => Owner \in Live
      BY <1>1 DEF ChatInv, LockSound, Owner, Live, OwnerPcs, LivePcs
    <2>. QED
      BY <2>1, <2>2 DEF TurnTyped, TypeOK, Pcs
  <1>2. ASSUME ChatInv, NEW d \in Dispatches \ Durable PROVE ReservationIsReal(d)
    <2>1. reserved[d] = "pending" => d \in TurnIds(Live)
      BY <1>2 DEF ChatInv, TurnInv, TurnIds, Live
    <2>2. reserved[d] = "confirmed" =>
            d \in ledger \/ \E a \in Attempts : DispatchOf[a] = d /\ pc[a] = "steered"
      BY <1>2 DEF ChatInv, TurnInv
    <2>. QED
      BY <2>1, <2>2 DEF ReservationIsReal
  <1>3. ChatInv => ReservationsAreReal
    BY <1>1, <1>2 DEF ReservationsAreReal
  <1>. QED
    BY <1>3, ChatInvAlways, PTL

\* An abort that names a turn stops a run only if the run is of that turn: one
\* that arrives late does not hit the turn that runs now (handleAbort compares
\* the turn id with _currentTurnId, http-server.ts).
THEOREM NamedAbortHitsItsTurn == Spec => AbortHitsItsTurn
  <1>1. ASSUME ChatInv, [Next]_vars, runBy # Nobody, runBy' = Nobody, NamingAbort
        PROVE  GivenUp(DispatchOf[runBy])
    <2>1. /\ current = DispatchOf[runBy] /\ runBy \in Attempts
          /\ current \in Dispatches /\ current # AnyTurn
      BY <1>1, BoxAssumption DEF ChatInv, BoxTypeOK, BoxSound
    <2>2. CASE \E a \in Attempts : (StopAccepted(a) \/ Compensate(a)) /\ AbortTurn(DispatchOf[a])
      <3>1. PICK a \in Attempts : (StopAccepted(a) \/ Compensate(a)) /\ AbortTurn(DispatchOf[a])
        BY <2>2
      <3>2. DispatchOf[a] = current
        BY <1>1, <3>1, BoxAssumption DEF AbortTurn, AbortMeans
      <3>3. pc[a] = "compensating" \/ a \in stopped
        BY <1>1, <3>1 DEF StopAccepted, Compensate, ChatInv, AskInv
      <3>. QED
        BY <2>1, <3>2, <3>3 DEF GivenUp
    <2>3. ASSUME NEW x \in Dispatches \cup {AnyTurn}, StopArrives(x)
          PROVE  GivenUp(DispatchOf[runBy])
      <3>1. x \in stopCalls /\ x \notin stopCalls' /\ x \in {current, AnyTurn}
        BY <1>1, <2>3 DEF StopArrives, AbortTurn, AbortMeans
      <3>2. x = current
        BY <1>1, <3>1 DEF NamingAbort
      <3>. QED
        BY <2>1, <3>1, <3>2 DEF GivenUp
    <2>4. ASSUME NEW d \in Dispatches, AskArrives(d)
          PROVE  GivenUp(DispatchOf[runBy])
      <3>1. d \in askCalls /\ d = current
        BY <1>1, <2>4, BoxAssumption DEF AskArrives, AbortTurn, AbortMeans
      <3>2. \E a \in Attempts : DispatchOf[a] = d /\ a \in stopped
        BY <1>1, <3>1 DEF ChatInv, AskInv
      <3>. QED
        BY <2>1, <3>1, <3>2 DEF GivenUp
    <2>5. CASE \E a \in Attempts : (StopAccepted(a) \/ Compensate(a)) /\ UNCHANGED boxVars
      BY <1>1, <2>5 DEF boxVars
    <2>6. ASSUME NEW a \in Attempts,
                 \/ Send(a) \/ Refused(a) \/ StreamBreaks(a) \/ Persisted(a) \/ PersistFails(a)
                 \/ SteerTaken(a) \/ SteerFails(a) \/ Place(a) \/ FailsBeforePrompt(a)
                 \/ PromptAnswered(a) \/ PromptFails(a) \/ CompensateFails(a) \/ StreamEnds(a)
          PROVE  FALSE
      <3>1. runBy' = runBy
        BY <2>6
        DEF Send, Refused, StreamBreaks, Persisted, PersistFails, SteerTaken, SteerFails, Place,
            SendPrompt, FailsBeforePrompt, PromptAnswered, PromptFails, HangUp, CompensateFails,
            StreamEnds, boxVars
      <3>. QED
        BY <1>1, <3>1
    <2>7. CASE \/ \E x \in Dispatches \cup {AnyTurn} : Stop(x) \/ StopLost(x)
               \/ \E d \in Dispatches : AskLost(d)
               \/ \E shutdown \in BOOLEAN : EndTurns(shutdown)
               \/ RuntimeRestarts \/ UNCHANGED vars
      BY <1>1, <2>7 DEF Stop, StopLost, AskLost, EndTurns, RuntimeRestarts, HangUp, boxVars, vars
    <2>8. CASE BoxStep \/ BoxRestarts
      BY <1>1, <2>8 DEF BoxStep, BoxRestarts, callVars, NamingAbort
    <2>. QED
      BY <1>1, <2>2, <2>3, <2>4, <2>5, <2>6, <2>7, <2>8
      DEF Next, AttemptStep, StopAccepted, Compensate
  <1>2. ASSUME ChatInv, [Next]_vars
        PROVE  [runBy # Nobody /\ runBy' = Nobody /\ NamingAbort => GivenUp(DispatchOf[runBy])]_vars
    BY <1>1, <1>2
  <1>. QED
    BY <1>2, ChatInvAlways, PTL DEF Spec, AbortHitsItsTurn

=============================================================================
