------------------------ MODULE SubagentMailbox_proofs ------------------------
(***************************************************************************)
(* Proofs about SubagentMailbox, for any guidance limit and any budgets of *)
(* prompts and repairs: its types, that a sealed run has given its model   *)
(* every message its mailbox accepted, and that it is given none twice.    *)
(***************************************************************************)
EXTENDS SubagentMailbox, TLAPS

----------------------------------------------------------------------------
(* What the sequences hold.                                                *)

\* The members of a sequence.
LEMMA SetOf ==
  ASSUME NEW S, NEW s \in Seq(S), NEW x
  PROVE  x \in ToSet(s) <=> \E i \in 1..Len(s) : s[i] = x
  BY DEF ToSet

\* One more message.
LEMMA SetOfAppend ==
  ASSUME NEW S, NEW s \in Seq(S), NEW e \in S
  PROVE  Append(s, e) \in Seq(S) /\ ToSet(Append(s, e)) = ToSet(s) \cup {e}
  <1>1. Append(s, e) \in Seq(S) /\ Len(Append(s, e)) = Len(s) + 1
    OBVIOUS
  <1>2. \A i \in 1..Len(s) : Append(s, e)[i] = s[i] /\ i \in 1..Len(Append(s, e))
    OBVIOUS
  <1>3. Append(s, e)[Len(s) + 1] = e /\ Len(s) + 1 \in 1..Len(Append(s, e))
    OBVIOUS
  <1>4. \A i \in 1..Len(Append(s, e)) : i \in 1..Len(s) \/ i = Len(s) + 1
    OBVIOUS
  <1>5. \A x : x \in ToSet(Append(s, e)) <=> \E i \in 1..Len(Append(s, e)) : Append(s, e)[i] = x
    BY <1>1, SetOf
  <1>6. \A x : x \in ToSet(s) <=> \E i \in 1..Len(s) : s[i] = x
    BY SetOf
  <1>7. \A x : x \in ToSet(Append(s, e)) <=> x \in ToSet(s) \/ x = e
    BY <1>2, <1>3, <1>4, <1>5, <1>6
  <1> QED
    BY <1>1, <1>7

\* Two sequences in one.
LEMMA SetOfConcat ==
  ASSUME NEW S, NEW s \in Seq(S), NEW t \in Seq(S)
  PROVE  s \o t \in Seq(S) /\ ToSet(s \o t) = ToSet(s) \cup ToSet(t)
  <1>1. PICK c : c = s \o t
    OBVIOUS
  <1>2. /\ c \in Seq(S)
        /\ \A i \in 1..Len(s) : i \in 1..Len(c) /\ c[i] = s[i]
        /\ \A i \in 1..Len(t) : Len(s) + i \in 1..Len(c) /\ c[Len(s) + i] = t[i]
    BY <1>1
  <1>3. \A i \in 1..Len(c) : i \in 1..Len(s) \/ (i - Len(s) \in 1..Len(t) /\ c[i] = t[i - Len(s)])
    BY <1>1
  <1>4. ASSUME NEW x \in ToSet(c) PROVE x \in ToSet(s) \/ x \in ToSet(t)
    <2>1. PICK i \in 1..Len(c) : c[i] = x
      BY <1>2, SetOf
    <2>2. CASE i \in 1..Len(s)
      BY <1>2, <2>1, <2>2, SetOf
    <2>3. CASE i - Len(s) \in 1..Len(t) /\ c[i] = t[i - Len(s)]
      BY <2>1, <2>3, SetOf
    <2> QED
      BY <1>3, <2>2, <2>3
  <1>5. ASSUME NEW x \in ToSet(s) PROVE x \in ToSet(c)
    <2>1. PICK i \in 1..Len(s) : s[i] = x
      BY SetOf
    <2> QED
      BY <1>2, <2>1, SetOf
  <1>6. ASSUME NEW x \in ToSet(t) PROVE x \in ToSet(c)
    <2>1. PICK i \in 1..Len(t) : t[i] = x
      BY SetOf
    <2> QED
      BY <1>2, <2>1, SetOf
  <1>7. ToSet(c) = ToSet(s) \cup ToSet(t)
    BY <1>4, <1>5, <1>6
  <1> QED
    BY <1>1, <1>2, <1>7

\* Three sequences in one.
LEMMA QueuesRegroup ==
  ASSUME NEW S, NEW s \in Seq(S), NEW t \in Seq(S), NEW u \in Seq(S)
  PROVE  (s \o t) \o u = s \o (t \o u)
  BY SMTT(30)

\* The first message and the others.
LEMMA SetOfTail ==
  ASSUME NEW S, NEW s \in Seq(S), s # <<>>
  PROVE  /\ Head(s) \in S /\ Tail(s) \in Seq(S)
         /\ Len(Tail(s)) = Len(s) - 1
         /\ ToSet(s) = {Head(s)} \cup ToSet(Tail(s))
  <1>1. Tail(s) \in Seq(S) /\ Len(Tail(s)) = Len(s) - 1 /\ Head(s) \in S
    OBVIOUS
  <1>2. \A i \in 1..Len(s) : i = 1 \/ (i - 1 \in 1..Len(Tail(s)) /\ s[i] = Tail(s)[i - 1])
    OBVIOUS
  <1>3. \A i \in 1..Len(Tail(s)) : i + 1 \in 1..Len(s) /\ Tail(s)[i] = s[i + 1]
    OBVIOUS
  <1>4. 1 \in 1..Len(s) /\ s[1] = Head(s)
    OBVIOUS
  <1>5. \A x : x \in ToSet(Tail(s)) <=> \E i \in 1..Len(Tail(s)) : Tail(s)[i] = x
    BY <1>1, SetOf
  <1>6. \A x : x \in ToSet(s) <=> \E i \in 1..Len(s) : s[i] = x
    BY SetOf
  <1>7. \A x : x \in ToSet(s) <=> x = Head(s) \/ x \in ToSet(Tail(s))
    BY <1>2, <1>3, <1>4, <1>5, <1>6
  <1> QED
    BY <1>1, <1>7

\* splice() takes at most the message it is told to take.
LEMMA SetOfWithout ==
  ASSUME NEW S, NEW s \in Seq(S), NEW m
  PROVE  /\ Without(s, m) \in Seq(S)
         /\ ToSet(s) \ {m} \subseteq ToSet(Without(s, m))
         /\ ToSet(Without(s, m)) \subseteq ToSet(s)
  <1>1. CASE ~\E i \in DOMAIN s : s[i] = m
    BY <1>1 DEF Without
  <1>2. CASE \E i \in DOMAIN s : s[i] = m
    <2> DEFINE j == CHOOSE i \in DOMAIN s : s[i] = m
    <2>1. j \in 1..Len(s) /\ s[j] = m
      BY <1>2
    <2>2. Without(s, m) = SubSeq(s, 1, j - 1) \o SubSeq(s, j + 1, Len(s))
      BY <1>2 DEF Without, RemoveAt
    <2> HIDE DEF j
    <2>3. SubSeq(s, 1, j - 1) \in Seq(S) /\ SubSeq(s, j + 1, Len(s)) \in Seq(S)
      BY <2>1
    <2>4. PICK a, b : a = SubSeq(s, 1, j - 1) /\ b = SubSeq(s, j + 1, Len(s))
      OBVIOUS
    <2>5. /\ a \in Seq(S) /\ Len(a) = j - 1 /\ \A i \in 1..(j - 1) : a[i] = s[i]
          /\ b \in Seq(S) /\ Len(b) = Len(s) - j /\ \A i \in 1..(Len(s) - j) : b[i] = s[i + j]
          /\ j \in 1..Len(s) /\ s[j] = m /\ Len(s) \in Nat
      BY <2>1, <2>4
    <2>6. Without(s, m) \in Seq(S) /\ ToSet(Without(s, m)) = ToSet(a) \cup ToSet(b)
      <3>1. Without(s, m) = a \o b /\ a \in Seq(S) /\ b \in Seq(S)
        BY <2>2, <2>4, <2>5
      <3>2. a \o b \in Seq(S) /\ ToSet(a \o b) = ToSet(a) \cup ToSet(b)
        BY <3>1, SetOfConcat
      <3> QED
        BY <3>1, <3>2, Zenon
    <2>7. ASSUME NEW x \in ToSet(s) \ {m} PROVE x \in ToSet(a) \/ x \in ToSet(b)
      <3>1. PICK i \in 1..Len(s) : s[i] = x
        BY SetOf
      <3>2. CASE i < j
        <4>1. i \in 1..Len(a) /\ a[i] = x
          BY <2>5, <3>1, <3>2
        <4> QED
          BY <4>1, <2>5, SetOf
      <3>3. CASE i > j
        <4>1. i - j \in 1..(Len(s) - j)
          BY <2>5, <3>3
        <4>2. (i - j) + j = i
          BY <2>5
        <4>3. i - j \in 1..Len(b) /\ b[i - j] = x
          BY <2>5, <3>1, <4>1, <4>2
        <4> QED
          BY <4>3, <2>5, SetOf
      <3> QED
        BY <2>5, <3>1, <3>2, <3>3
    <2>8. ASSUME NEW x \in ToSet(a) PROVE x \in ToSet(s)
      <3>1. PICK i \in 1..Len(a) : a[i] = x
        BY <2>5, SetOf
      <3>2. i \in 1..Len(s) /\ s[i] = x
        BY <2>5, <3>1
      <3> QED
        BY <3>2, SetOf
    <2>9. ASSUME NEW x \in ToSet(b) PROVE x \in ToSet(s)
      <3>1. PICK i \in 1..Len(b) : b[i] = x
        BY <2>5, SetOf
      <3>2. i + j \in 1..Len(s) /\ s[i + j] = x
        BY <2>5, <3>1
      <3> QED
        BY <3>2, SetOf
    <2> QED
      BY <2>6, <2>7, <2>8, <2>9
  <1> QED
    BY <1>1, <1>2

----------------------------------------------------------------------------
(* Types.                                                                  *)

\* A chain of deliveries waits behind takePending() only while it is awaited.
MailboxTyped ==
    /\ MailboxTypeOK
    /\ phase \notin {"gathering", "collecting", "rechecking", "ended"} => ahead = 0

\* The initial state is well typed.
LEMMA MailboxInitTyped == MailboxInit => MailboxTyped
  <1> SUFFICES ASSUME MailboxInit PROVE MailboxTyped
    OBVIOUS
  <1> USE DEF MailboxInit
  <1>1. 0 \in 0..MaxGuidance /\ 0 \in 0..MaxPrompts /\ 0 \in 0..MaxRepairs
    BY MailboxAssumption
  <1>2. {pending, delivery, queue, prompt, heard} \subseteq Seq(1..MaxGuidance)
    OBVIOUS
  <1>3. {attached, reviewing, accepting, steering, stopped} \subseteq BOOLEAN /\ ~steering
    OBVIOUS
  <1>4. ahead \in Nat /\ ahead = 0 /\ ahead <= Len(delivery) /\ early \subseteq 1..MaxGuidance
    OBVIOUS
  <1> QED
    BY <1>1, <1>2, <1>3, <1>4 DEF MailboxTyped, MailboxTypeOK

\* What is queued and pending makes a prompt.
LEMMA PromptType ==
  ASSUME MailboxTypeOK
  PROVE  /\ queue \o pending \in Seq(1..MaxGuidance)
         /\ prompt \o queue \o pending \in Seq(1..MaxGuidance)
         /\ heard \o prompt \in Seq(1..MaxGuidance)
  BY DEF MailboxTypeOK

\* Every step keeps the types.
LEMMA MailboxNextTyped ==
  ASSUME MailboxTyped, [MailboxNext]_mailboxVars
  PROVE  MailboxTyped'
  <1> MaxGuidance \in Nat /\ MaxPrompts \in Nat /\ MaxRepairs \in Nat
    BY MailboxAssumption
  <1> DEFINE Messages == 1..MaxGuidance
  <1> USE DEF MailboxTyped, MailboxTypeOK
  <1>0. delivery # <<>> => /\ Head(delivery) \in Messages /\ Tail(delivery) \in Seq(Messages)
                          /\ Len(delivery) \in Nat \ {0} /\ Len(Tail(delivery)) = Len(delivery) - 1
    OBVIOUS
  <1>20. ASSUME NextTurn
         PROVE  /\ turn' \in 0..MaxPrompts /\ accepting' \in BOOLEAN
                /\ ahead' \in Nat /\ (ahead' = ahead \/ ahead' = Len(delivery)) 
                /\ phase' \in {"gathering", "ended"}
    <2>1. CASE turn + 1 < MaxPrompts
      <3>1. turn' = turn + 1 /\ phase' = "gathering" /\ ahead' = Len(delivery) /\ accepting' = accepting
        BY <1>20, <2>1 DEF NextTurn
      <3>2. turn + 1 \in 0..MaxPrompts /\ Len(delivery) \in Nat
        BY <2>1
      <3> QED
        BY <3>1, <3>2
    <2>2. CASE ~(turn + 1 < MaxPrompts)
      BY <1>20, <2>2 DEF NextTurn, Ends
    <2> QED
      BY <2>1, <2>2
  <1>1. CASE Send
    <2>1. updates' \in 0..MaxGuidance /\ updates + 1 \in Messages
      BY <1>1 DEF Send
    <2>2. pending' \in Seq(Messages) /\ delivery' \in Seq(Messages) /\ Len(delivery') = Len(delivery) + 1
      BY <1>1, <2>1 DEF Send
    <2>3. early' \subseteq Messages
      BY <1>1, <2>1 DEF Send
    <2>4. ahead' <= Len(delivery') /\ delivery' # <<>> /\ ahead' = ahead
      <3>1. ahead' = ahead /\ ahead \in Nat /\ ahead <= Len(delivery) /\ Len(delivery) \in Nat
        BY <1>1 DEF Send
      <3> QED
        BY <2>2, <3>1
    <2>5. UNCHANGED <<attached, reviewing, accepting, steering, queue, phase, ahead, prompt, verdict,
                      turn, repairs, stopped, heard>>
      BY <1>1 DEF Send
    <2> QED
      BY <2>1, <2>2, <2>3, <2>4, <2>5
  <1>2. CASE DeliveryRuns
    <2>1. CASE attached /\ ~reviewing /\ accepting
      <3>1. queue' \in Seq(Messages)
        <4>1. Head(delivery) \in Messages /\ queue' = Append(queue, Head(delivery))
          BY <1>0, <1>2, <2>1 DEF DeliveryRuns
        <4> QED
          BY <4>1
      <3> QED
        BY <1>2, <2>1, <3>1 DEF DeliveryRuns
    <2>2. CASE ~(attached /\ ~reviewing /\ accepting)
      <3>1. delivery' \in Seq(Messages) /\ ahead' \in Nat /\ ahead' <= Len(delivery')
            /\ (ahead = 0 => ahead' = 0)
        <4>1. delivery' = Tail(delivery) /\ delivery # <<>>
              /\ ahead' = IF ahead > 0 THEN ahead - 1 ELSE 0
          BY <1>2, <2>2 DEF DeliveryRuns
        <4>2. ahead \in Nat /\ ahead <= Len(delivery)
          OBVIOUS
        <4>3. delivery' \in Seq(Messages) /\ Len(delivery') = Len(delivery) - 1 /\ Len(delivery) \in Nat \ {0}
          BY <1>0, <4>1
        <4> QED
          BY <4>1, <4>2, <4>3
      <3> QED
        BY <1>2, <2>2, <3>1 DEF DeliveryRuns
    <2> QED
      BY <2>1, <2>2
  <1>3. CASE DeliveryRefused
    <2>1. delivery' \in Seq(Messages) /\ ahead' = 0 /\ Len(delivery') \in Nat
      BY <1>0, <1>3 DEF DeliveryRefused
    <2> QED
      BY <1>3, <2>1 DEF DeliveryRefused
  <1>4. CASE SteerReturns
    <2>1. delivery' \in Seq(Messages) /\ ahead' \in Nat /\ ahead' <= Len(delivery')
          /\ (ahead = 0 => ahead' = 0)
      BY <1>0, <1>4 DEF SteerReturns
    <2>2. pending' \in Seq(Messages)
      BY <1>4, SetOfWithout DEF SteerReturns
    <2> QED
      BY <1>4, <2>1, <2>2 DEF SteerReturns
  <1>5. CASE Attach
    BY <1>5 DEF Attach
  <1>6. CASE Gather
    BY <1>6 DEF Gather, Take, mailbox
  <1>7. CASE Gathered
    BY PromptType, <1>7 DEF Gathered, Taken
  <1>8. CASE Prompt
    <2>1. CASE stopped
      BY <1>8, <2>1 DEF Prompt, Ends
    <2>2. CASE ~stopped
      <3>1. heard' \in Seq(Messages) /\ prompt' \in Seq(Messages)
        <4>1. heard' = heard \o prompt /\ prompt' = <<>>
          BY <1>8, <2>2 DEF Prompt
        <4>2. heard \o prompt \in Seq(Messages)
          BY PromptType
        <4> QED
          BY <4>1, <4>2
      <3> QED
        BY <1>8, <2>2, <3>1 DEF Prompt
    <2> QED
      BY <2>1, <2>2
  <1>9. CASE BrainReads
    <2>1. queue # <<>> /\ heard' = Append(heard, Head(queue)) /\ queue' = Tail(queue)
      BY <1>9 DEF BrainReads
    <2>2. Head(queue) \in Messages /\ queue' \in Seq(Messages)
      BY <2>1, SMTT(30)
    <2>3. heard' \in Seq(Messages)
      BY <2>1, <2>2
    <2> QED
      BY <1>9, <2>2, <2>3 DEF BrainReads, mailbox
  <1>10. CASE PromptEnds
    <2>1. CASE stopped
      BY <1>10, <2>1 DEF PromptEnds, Ends
    <2>2. CASE ~stopped
      BY <1>10, <2>2 DEF PromptEnds, Take
    <2> QED
      BY <2>1, <2>2
  <1>11. CASE Collected
    BY PromptType, <1>11 DEF Collected, Taken
  <1>12. CASE Review
    <2>1. CASE NextTurn
      <3>1. UNCHANGED <<attached, reviewing, updates, pending, delivery, steering, queue, prompt, verdict,
                        repairs, stopped, heard, early>>
        BY <1>12 DEF Review
      <3> QED
        BY <1>20, <2>1, <3>1, SMTT(30)
    <2>2. CASE Ends /\ UNCHANGED <<turn, ahead>>
      BY <1>12, <2>2 DEF Review, Ends
    <2>3. CASE phase' = "reviewing" /\ UNCHANGED <<accepting, turn, ahead>>
      BY <1>12, <2>3 DEF Review
    <2> QED
      BY <1>12, <2>1, <2>2, <2>3 DEF Review
  <1>13. CASE Reviewed
    <2>1. CASE Ends /\ UNCHANGED <<verdict, ahead>>
      BY <1>13, <2>1 DEF Reviewed, Ends
    <2>2. CASE /\ verdict' \in {"complete", "blocked", "incomplete"}
               /\ Take("reviewing", "rechecking")
               /\ UNCHANGED accepting
      BY <1>13, <2>2 DEF Reviewed, Take
    <2> QED
      BY <1>13, <2>1, <2>2 DEF Reviewed
  <1>14. CASE Rechecked
    BY PromptType, <1>14 DEF Rechecked, Taken
  <1>15. CASE Settle
    <2>1. CASE NextTurn /\ UNCHANGED repairs
      <3>1. UNCHANGED <<attached, reviewing, updates, pending, delivery, steering, queue, prompt, verdict,
                        repairs, stopped, heard, early>>
        BY <1>15, <2>1 DEF Settle
      <3> QED
        BY <1>20, <2>1, <3>1, SMTT(30)
    <2>2. CASE phase' = "sealed" /\ accepting' = FALSE /\ UNCHANGED <<turn, repairs, ahead>>
      BY <1>15, <2>2 DEF Settle
    <2>3. CASE repairs' = repairs + 1 /\ NextTurn /\ ~Final
      <3>1. repairs' \in 0..MaxRepairs
        BY <2>3 DEF Final
      <3> QED
        BY <1>15, <1>20, <2>3, <3>1 DEF Settle
    <2> QED
      BY <1>15, <2>1, <2>2, <2>3 DEF Settle
  <1>16. CASE Stop
    BY <1>16 DEF Stop, mailbox
  <1>17. CASE Fails
    BY <1>17 DEF Fails, Ends
  <1>18. CASE UNCHANGED mailboxVars
    BY <1>18 DEF mailboxVars
  <1> QED
    BY <1>1, <1>2, <1>3, <1>4, <1>5, <1>6, <1>7, <1>8, <1>9, <1>10, <1>11, <1>12, <1>13, <1>14,
       <1>15, <1>16, <1>17, <1>18
       DEF MailboxNext

\* The mailbox and the acceptance loop keep their types, for every guidance limit and
\* every budget of prompts and repairs.
THEOREM MailboxAlwaysTyped == MailboxSpec => []MailboxTypeOK
  <1>1. MailboxTyped => MailboxTypeOK
    BY DEF MailboxTyped
  <1> QED
    BY <1>1, MailboxInitTyped, MailboxNextTyped, PTL DEF MailboxSpec

----------------------------------------------------------------------------
(* Where an accepted message is.  It is pending until a prompt takes it or *)
(* the brain has it; it is in the prompt at hand or in the brain's queue   *)
(* until the model hears it; and when the loop can seal, nothing is left   *)
(* in either, nor on its way into them.                                    *)

\* Every accepted message is somewhere, and the one being steered is with the brain.
NoneIsMislaid ==
    /\ ToSet(heard) \cup ToSet(prompt) \cup ToSet(queue) \cup ToSet(pending) = 1..updates
    /\ ToSet(delivery) \subseteq 1..updates
    /\ steering => Head(delivery) \in ToSet(heard) \cup ToSet(prompt) \cup ToSet(queue)

\* The brain is closed to guidance from the end of a prompt on: what was being steered
\* then is waited for, and cleared out of its queue with the rest.
BrainIsClosed ==
    /\ phase \in {"collected", "reviewing", "rechecking", "rechecked", "sealed"} =>
           reviewing /\ ~steering /\ queue = <<>>
    /\ phase = "collecting" => reviewing /\ (steering => ahead > 0)

\* Nothing is in hand while the loop is not about to prompt.
PromptIsSpent ==
    /\ phase \in {"prompting", "collecting", "reviewing", "rechecking", "sealed"} => prompt = <<>>
    /\ phase = "sealed" => pending = <<>> /\ ~accepting

MailboxInv == NoneIsMislaid /\ BrainIsClosed /\ PromptIsSpent

\* It holds at first.
LEMMA MailboxInvInit == MailboxInit => MailboxInv
  BY DEF MailboxInit, MailboxInv, NoneIsMislaid, BrainIsClosed, PromptIsSpent, ToSet

\* Steps keep the brain closed and the prompt spent.
LEMMA ClosedNext ==
  ASSUME MailboxTyped, BrainIsClosed, PromptIsSpent, [MailboxNext]_mailboxVars
  PROVE  BrainIsClosed' /\ PromptIsSpent'
  <1> USE DEF BrainIsClosed, PromptIsSpent
  <1>0. ahead \in Nat /\ Len(delivery) \in Nat /\ (steering => delivery # <<>>)
        /\ (delivery # <<>> => Len(delivery) > 0)
    BY DEF MailboxTyped, MailboxTypeOK
  <1>1. CASE Send
    BY <1>0, <1>1 DEF Send, Quiet
  <1>2. CASE DeliveryRuns
    BY <1>0, <1>2 DEF DeliveryRuns
  <1>3. CASE DeliveryRefused
    BY <1>0, <1>3 DEF DeliveryRefused
  <1>4. CASE SteerReturns
    BY <1>0, <1>4 DEF SteerReturns
  <1>5. CASE Attach
    BY <1>0, <1>5 DEF Attach
  <1>6. CASE Gather
    BY <1>0, <1>6 DEF Gather, Take, mailbox
  <1>7. CASE Gathered
    BY <1>0, <1>7 DEF Gathered, Taken
  <1>8. CASE Prompt
    BY <1>0, <1>8 DEF Prompt, Ends
  <1>9. CASE BrainReads
    BY <1>0, <1>9 DEF BrainReads, mailbox
  <1>10. CASE PromptEnds
    BY <1>0, <1>10 DEF PromptEnds, Take, Ends
  <1>11. CASE Collected
    BY <1>0, <1>11 DEF Collected, Taken
  <1>12. CASE Review
    BY <1>0, <1>12 DEF Review, NextTurn, Ends
  <1>13. CASE Reviewed
    BY <1>0, <1>13 DEF Reviewed, Take, Ends
  <1>14. CASE Rechecked
    BY <1>0, <1>14 DEF Rechecked, Taken
  <1>15. CASE Settle
    BY <1>0, <1>15 DEF Settle, NextTurn, Ends, Seals
  <1>16. CASE Stop
    BY <1>0, <1>16 DEF Stop, mailbox
  <1>17. CASE Fails
    BY <1>0, <1>17 DEF Fails, Ends
  <1>18. CASE UNCHANGED mailboxVars
    BY <1>18 DEF mailboxVars
  <1> QED
    BY <1>1, <1>2, <1>3, <1>4, <1>5, <1>6, <1>7, <1>8, <1>9, <1>10, <1>11, <1>12, <1>13, <1>14,
       <1>15, <1>16, <1>17, <1>18
       DEF MailboxNext

\* Steps mislay no message.
LEMMA MislaidNext ==
  ASSUME MailboxTyped, MailboxInv, [MailboxNext]_mailboxVars
  PROVE  NoneIsMislaid'
  <1> MaxGuidance \in Nat
    BY MailboxAssumption
  <1> DEFINE Messages == 1..MaxGuidance
  <1>0. /\ {pending, delivery, queue, prompt, heard} \subseteq Seq(Messages)
        /\ updates \in 0..MaxGuidance
    BY DEF MailboxTyped, MailboxTypeOK
  <1> HIDE DEF Messages
  <1> USE DEF NoneIsMislaid
  <1>u. NoneIsMislaid
    BY DEF MailboxInv
  <1>e. ToSet(<<>>) = {}
    BY DEF ToSet
  <1>a. \A s \in Seq(Messages), m \in Messages : ToSet(Append(s, m)) = ToSet(s) \cup {m}
    BY SetOfAppend
  <1>c. \A s, t \in Seq(Messages) : ToSet(s \o t) = ToSet(s) \cup ToSet(t)
    BY SetOfConcat
  <1>d. \A s, t, u \in Seq(Messages) : (s \o t) \o u = s \o (t \o u)
    BY QueuesRegroup, SMTT(30)
  <1>1. CASE Send
    <2>1. updates + 1 \in Messages /\ updates' = updates + 1
      BY <1>0, <1>1 DEF Send, Messages
    <2>2. /\ ToSet(pending') = ToSet(pending) \cup {updates + 1}
          /\ ToSet(delivery') = ToSet(delivery) \cup {updates + 1}
      <3>1. pending' = Append(pending, updates + 1) /\ delivery' = Append(delivery, updates + 1)
        BY <1>1 DEF Send
      <3>2. pending \in Seq(Messages) /\ delivery \in Seq(Messages)
        BY <1>0
      <3>3. ToSet(Append(pending, updates + 1)) = ToSet(pending) \cup {updates + 1}
        BY <1>a, <2>1, <3>2
      <3>4. ToSet(Append(delivery, updates + 1)) = ToSet(delivery) \cup {updates + 1}
        BY <1>a, <2>1, <3>2
      <3> QED
        BY <3>1, <3>3, <3>4, Zenon
    <2>3. steering => Head(delivery') = Head(delivery)
      BY <1>0, <1>1, <2>1 DEF Send, MailboxTyped, MailboxTypeOK
    <2>4. 1..(updates + 1) = (1..updates) \cup {updates + 1}
      BY <1>0
    <2>5. UNCHANGED <<heard, prompt, queue, steering>>
      BY <1>1 DEF Send
    <2> QED
      BY <1>u, <2>1, <2>2, <2>3, <2>4, <2>5
  <1>2. CASE DeliveryRuns
    <2>1. CASE attached /\ ~reviewing /\ accepting
      <3>1. /\ Head(delivery) \in Messages
            /\ Head(delivery) \in ToSet(delivery)
        BY <1>0, <1>2, SetOfTail DEF DeliveryRuns
      <3>2. ToSet(queue') = ToSet(queue) \cup {Head(delivery)}
        <4>1. queue' = Append(queue, Head(delivery))
          BY <1>2, <2>1 DEF DeliveryRuns
        <4>2. ToSet(Append(queue, Head(delivery))) = ToSet(queue) \cup {Head(delivery)}
          <5>1. PICK m \in Messages : m = Head(delivery)
            BY <3>1
          <5>2. queue \in Seq(Messages)
            BY <1>0
          <5>3. ToSet(Append(queue, m)) = ToSet(queue) \cup {m}
            BY <1>a, <5>2
          <5> QED
            BY <5>1, <5>3
        <4> QED
          BY <4>1, <4>2, Zenon
      <3>3. UNCHANGED <<heard, prompt, pending, delivery, updates>>
        BY <1>2, <2>1 DEF DeliveryRuns
      <3> QED
        BY <1>u, <3>1, <3>2, <3>3
    <2>2. CASE ~(attached /\ ~reviewing /\ accepting)
      <3>1. ToSet(delivery') \subseteq ToSet(delivery)
        BY <1>0, <1>2, <2>2, SetOfTail DEF DeliveryRuns
      <3>2. UNCHANGED <<heard, prompt, pending, queue, updates, steering>> /\ ~steering
        BY <1>2, <2>2 DEF DeliveryRuns
      <3> QED
        BY <1>u, <3>1, <3>2
    <2> QED
      BY <2>1, <2>2
  <1>3. CASE DeliveryRefused
    <2>1. ToSet(delivery') \subseteq ToSet(delivery)
      BY <1>0, <1>3, SetOfTail DEF DeliveryRefused
    <2>2. UNCHANGED <<heard, prompt, pending, queue, updates, steering>> /\ ~steering
      BY <1>3 DEF DeliveryRefused
    <2> QED
      BY <1>u, <2>1, <2>2
  <1>4. CASE SteerReturns
    <2>1. delivery # <<>> /\ steering /\ ~steering'
      BY <1>4 DEF SteerReturns, MailboxTyped, MailboxTypeOK
    <2>2. ToSet(delivery') \subseteq ToSet(delivery)
      BY <1>0, <1>4, <2>1, SetOfTail DEF SteerReturns
    <2>3. /\ ToSet(pending) \ {Head(delivery)} \subseteq ToSet(pending')
          /\ ToSet(pending') \subseteq ToSet(pending)
      BY <1>0, <1>4, SetOfWithout DEF SteerReturns
    <2>4. UNCHANGED <<heard, prompt, queue, updates>>
      BY <1>4 DEF SteerReturns
    <2> QED
      BY <1>u, <2>1, <2>2, <2>3, <2>4
  <1>5. ASSUME NEW from, NEW to, Taken(from, to), UNCHANGED <<heard, updates, delivery, steering>>,
               to # "gathered" => prompt = <<>>
        PROVE  NoneIsMislaid'
    <2>1. ToSet(queue \o pending) = ToSet(queue) \cup ToSet(pending) /\ queue \o pending \in Seq(Messages)
      BY <1>0, SetOfConcat
    <2>2. ToSet(prompt \o (queue \o pending)) = ToSet(prompt) \cup ToSet(queue \o pending)
      <3>1. prompt \in Seq(Messages)
        BY <1>0
      <3>2. PICK rest \in Seq(Messages) : rest = queue \o pending
        BY <2>1
      <3>3. ToSet(prompt \o rest) = ToSet(prompt) \cup ToSet(rest)
        BY <1>c, <3>1
      <3> QED
        BY <3>2, <3>3
    <2>3. prompt \o queue \o pending = prompt \o (queue \o pending)
      BY <1>0, <1>d, SMTT(30)
    <2>4. ToSet(prompt') = ToSet(prompt) \cup ToSet(queue) \cup ToSet(pending)
      BY <1>5, <1>e, <2>1, <2>2, <2>3 DEF Taken
    <2>5. ToSet(queue') = {} /\ ToSet(pending') = {}
      BY <1>5, <1>e DEF Taken
    <2> QED
      BY <1>5, <1>u, <2>4, <2>5
  <1>6. CASE Gathered \/ Collected \/ Rechecked
    BY <1>5, <1>6 DEF Gathered, Collected, Rechecked, Taken, MailboxInv, PromptIsSpent
  <1>7. CASE Prompt
    <2>1. CASE stopped
      BY <1>u, <1>7, <2>1 DEF Prompt
    <2>2. CASE ~stopped
      <3>1. ToSet(heard') = ToSet(heard) \cup ToSet(prompt) /\ ToSet(prompt') = {}
        <4>1. heard' = heard \o prompt /\ prompt' = <<>>
          BY <1>7, <2>2 DEF Prompt
        <4>2. heard \in Seq(Messages) /\ prompt \in Seq(Messages)
          BY <1>0
        <4>3. ToSet(heard \o prompt) = ToSet(heard) \cup ToSet(prompt)
          BY <1>c, <4>2
        <4> QED
          BY <1>e, <4>1, <4>3, Zenon
      <3> QED
        BY <1>u, <1>7, <3>1 DEF Prompt
    <2> QED
      BY <2>1, <2>2
  <1>8. CASE BrainReads
    <2>1. /\ ToSet(queue) = {Head(queue)} \cup ToSet(queue')
          /\ Head(queue) \in Messages
      BY <1>0, <1>8, SetOfTail DEF BrainReads
    <2>2. ToSet(heard') = ToSet(heard) \cup {Head(queue)}
      BY <1>0, <1>8, <2>1, SetOfAppend DEF BrainReads
    <2> QED
      BY <1>u, <1>8, <2>1, <2>2 DEF BrainReads, mailbox
  <1>9. CASE Attach \/ Gather \/ PromptEnds \/ Review \/ Reviewed \/ Settle \/ Stop \/ Fails
    <2>1. UNCHANGED <<heard, prompt, queue, pending, updates, delivery, steering>>
      BY <1>9 DEF Attach, Gather, PromptEnds, Review, Reviewed, Settle, Stop, Fails, mailbox
    <2> QED
      BY <1>u, <2>1
  <1>10. CASE UNCHANGED mailboxVars
    BY <1>u, <1>10 DEF mailboxVars
  <1> QED
    BY <1>1, <1>2, <1>3, <1>4, <1>6, <1>7, <1>8, <1>9, <1>10 DEF MailboxNext

\* A run that was judged and sealed has given its model every message its mailbox
\* accepted, for every guidance limit and every budget of prompts and repairs.
THEOREM SealedAlwaysHeard == MailboxSpec => []SealedRunHeardEverything
  <1>1. MailboxInit => MailboxTyped /\ MailboxInv
    BY MailboxInitTyped, MailboxInvInit
  <1>2. MailboxTyped /\ MailboxInv /\ [MailboxNext]_mailboxVars => (MailboxTyped /\ MailboxInv)'
    BY MailboxNextTyped, ClosedNext, MislaidNext DEF MailboxInv
  <1>3. MailboxInv => SealedRunHeardEverything
    <2> SUFFICES ASSUME MailboxInv, phase = "sealed" PROVE ToSet(heard) = 1..updates
      BY DEF SealedRunHeardEverything
    <2>1. queue = <<>> /\ prompt = <<>> /\ pending = <<>>
      BY DEF MailboxInv, BrainIsClosed, PromptIsSpent
    <2>2. ToSet(<<>>) = {}
      BY DEF ToSet
    <2> QED
      BY <2>1, <2>2 DEF MailboxInv, NoneIsMislaid
  <1> QED
    BY <1>1, <1>2, <1>3, PTL DEF MailboxSpec

----------------------------------------------------------------------------
(* Which sequences name a message twice.                                   *)

\* Two positions of s hold the same message only when it is in E.
OnceIn(s, E) == \A i, j \in 1..Len(s) : i # j /\ s[i] = s[j] => s[i] \in E

\* A message added to those that do not hold it.
LEMMA OnceAppend ==
  ASSUME NEW S, NEW E, NEW s \in Seq(S), NEW e \in S, OnceIn(s, E), e \in ToSet(s) => e \in E
  PROVE  OnceIn(Append(s, e), E)
  <1>1. PICK c : c = Append(s, e)
    OBVIOUS
  <1>2. \A i \in 1..Len(c) : \/ i \in 1..Len(s) /\ c[i] = s[i] /\ c[i] \in ToSet(s)
                             \/ i = Len(s) + 1 /\ c[i] = e
    <2>1. \A i \in 1..Len(s) : s[i] \in ToSet(s)
      BY SetOf
    <2>2. \A i \in 1..Len(c) : (i \in 1..Len(s) /\ c[i] = s[i]) \/ (i = Len(s) + 1 /\ c[i] = e)
      BY <1>1
    <2> QED
      BY <2>1, <2>2
  <1>3. ASSUME NEW i \in 1..Len(c), NEW j \in 1..Len(c), i # j, c[i] = c[j] PROVE c[i] \in E
    BY <1>2, <1>3 DEF OnceIn
  <1> QED
    BY <1>1, <1>3 DEF OnceIn

\* Two sequences that share no message but those of E.
LEMMA OnceConcat ==
  ASSUME NEW S, NEW E, NEW s \in Seq(S), NEW t \in Seq(S), OnceIn(s, E), OnceIn(t, E),
         ToSet(s) \cap ToSet(t) \subseteq E
  PROVE  OnceIn(s \o t, E)
  <1>1. PICK c : c = s \o t
    OBVIOUS
  <1>2. \A i \in 1..Len(c) : \/ i \in 1..Len(s) /\ c[i] = s[i]
                             \/ i - Len(s) \in 1..Len(t) /\ c[i] = t[i - Len(s)]
    BY <1>1
  <1>3. \A i \in 1..Len(s) : s[i] \in ToSet(s)
    BY SetOf
  <1>4. \A i \in 1..Len(t) : t[i] \in ToSet(t)
    BY SetOf
  <1>5. ASSUME NEW i \in 1..Len(c), NEW j \in 1..Len(c), i # j, c[i] = c[j] PROVE c[i] \in E
    <2>1. i \in Int /\ j \in Int /\ Len(s) \in Int
      OBVIOUS
    <2>2. CASE /\ i \in 1..Len(s) /\ c[i] = s[i]
               /\ j \in 1..Len(s) /\ c[j] = s[j]
      BY <1>5, <2>2 DEF OnceIn
    <2>3. CASE /\ i - Len(s) \in 1..Len(t) /\ c[i] = t[i - Len(s)]
               /\ j - Len(s) \in 1..Len(t) /\ c[j] = t[j - Len(s)]
      <3>1. PICK x \in 1..Len(t), y \in 1..Len(t) : x = i - Len(s) /\ y = j - Len(s)
        BY <2>3
      <3>2. x # y
        BY <1>5, <2>1, <3>1
      <3>3. c[i] = t[x] /\ t[x] = t[y]
        BY <1>5, <2>3, <3>1
      <3> QED
        BY <3>2, <3>3 DEF OnceIn
    <2>4. CASE \/ /\ i \in 1..Len(s) /\ c[i] = s[i]
                  /\ j - Len(s) \in 1..Len(t) /\ c[j] = t[j - Len(s)]
               \/ /\ j \in 1..Len(s) /\ c[j] = s[j]
                  /\ i - Len(s) \in 1..Len(t) /\ c[i] = t[i - Len(s)]
      BY <1>3, <1>4, <1>5, <2>4
    <2> QED
      BY <1>2, <2>2, <2>3, <2>4
  <1> QED
    BY <1>1, <1>5 DEF OnceIn

\* The beginning of a sequence.
LEMMA OncePrefix ==
  ASSUME NEW S, NEW E, NEW s \in Seq(S), NEW t \in Seq(S), OnceIn(s \o t, E)
  PROVE  OnceIn(s, E)
  <1>1. PICK c : c = s \o t
    OBVIOUS
  <1>2. \A i \in 1..Len(s) : i \in 1..Len(c) /\ c[i] = s[i]
    BY <1>1
  <1> QED
    BY <1>1, <1>2 DEF OnceIn

\* All but the first message; the first is not among them.
LEMMA OnceTail ==
  ASSUME NEW S, NEW E, NEW s \in Seq(S), s # <<>>, OnceIn(s, E)
  PROVE  OnceIn(Tail(s), E) /\ (Head(s) \in ToSet(Tail(s)) => Head(s) \in E)
  <1>1. PICK c : c = Tail(s)
    OBVIOUS
  <1>2. /\ c \in Seq(S) /\ 1 \in 1..Len(s) /\ s[1] = Head(s)
        /\ \A i \in 1..Len(c) : i + 1 \in 1..Len(s) /\ c[i] = s[i + 1] /\ i + 1 # 1
    BY <1>1
  <1>3. OnceIn(c, E)
    BY <1>2 DEF OnceIn
  <1>4. ASSUME Head(s) \in ToSet(c) PROVE Head(s) \in E
    <2>1. PICK i \in 1..Len(c) : c[i] = Head(s)
      BY <1>2, <1>4, SetOf
    <2> QED
      BY <1>2, <2>1 DEF OnceIn
  <1> QED
    BY <1>1, <1>3, <1>4

\* splice() takes the one message there is.
LEMMA OnceWithout ==
  ASSUME NEW S, NEW s \in Seq(S), NEW m, OnceIn(s, {})
  PROVE  OnceIn(Without(s, m), {}) /\ m \notin ToSet(Without(s, m))
  <1>1. CASE ~\E i \in DOMAIN s : s[i] = m
    <2>1. Without(s, m) = s
      BY <1>1 DEF Without
    <2>2. m \notin ToSet(s)
      BY <1>1, SetOf
    <2> QED
      BY <2>1, <2>2
  <1>2. CASE \E i \in DOMAIN s : s[i] = m
    <2> DEFINE j == CHOOSE i \in DOMAIN s : s[i] = m
    <2>1. j \in 1..Len(s) /\ s[j] = m
      BY <1>2
    <2>2. Without(s, m) = SubSeq(s, 1, j - 1) \o SubSeq(s, j + 1, Len(s))
      BY <1>2 DEF Without, RemoveAt
    <2> HIDE DEF j
    <2>3. PICK w : w = Without(s, m)
      OBVIOUS
    <2>4. w \in Seq(S)
      BY <2>3, SetOfWithout
    <2>5. ASSUME NEW k \in 1..Len(w)
          PROVE  \/ k < j /\ k \in 1..Len(s) /\ w[k] = s[k]
                 \/ k >= j /\ k + 1 \in 1..Len(s) /\ w[k] = s[k + 1]
      <3>1. PICK a, b : a = SubSeq(s, 1, j - 1) /\ b = SubSeq(s, j + 1, Len(s))
        OBVIOUS
      <3>2. /\ a \in Seq(S) /\ Len(a) = j - 1 /\ \A i \in 1..(j - 1) : a[i] = s[i]
            /\ b \in Seq(S) /\ Len(b) = Len(s) - j /\ \A i \in 1..(Len(s) - j) : b[i] = s[i + j]
            /\ j \in 1..Len(s) /\ Len(s) \in Nat
        BY <2>1, <3>1
      <3>3. w = a \o b
        BY <2>2, <2>3, <3>1
      <3>4. /\ Len(w) = Len(a) + Len(b) /\ k \in Nat
            /\ k \in 1..Len(a) => w[k] = a[k]
            /\ k > Len(a) => w[k] = b[k - Len(a)]
        <4>1. a \in Seq(S) /\ b \in Seq(S)
          BY <3>2
        <4>2. /\ Len(a \o b) = Len(a) + Len(b)
              /\ \A i \in 1..(Len(a) + Len(b)) :
                     (a \o b)[i] = IF i <= Len(a) THEN a[i] ELSE b[i - Len(a)]
          BY <4>1
        <4>3. Len(w) = Len(a) + Len(b) /\ w[k] = IF k <= Len(a) THEN a[k] ELSE b[k - Len(a)]
          BY <3>3, <4>2
        <4>4. k \in Nat /\ Len(a) \in Nat
          BY <4>1
        <4> QED
          BY <4>3, <4>4
      <3>5. CASE k < j
        BY <3>2, <3>4, <3>5
      <3>6. CASE k >= j
        <4>1. k - (j - 1) \in 1..(Len(s) - j) /\ (k - (j - 1)) + j = k + 1
          <5>1. PICK n, l : n = Len(s) /\ l = Len(w)
            OBVIOUS
          <5>2. n \in Nat /\ j \in 1..n /\ k \in 1..l /\ l = (j - 1) + (n - j)
            BY <3>2, <3>4, <5>1
          <5>3. k - (j - 1) \in 1..(n - j) /\ (k - (j - 1)) + j = k + 1
            BY <3>6, <5>2
          <5> QED
            BY <5>1, <5>3
        <4>2. w[k] = b[k - (j - 1)] /\ k + 1 \in 1..Len(s)
          BY <3>2, <3>4, <3>6, <4>1
        <4> QED
          BY <3>2, <3>6, <4>1, <4>2
      <3> QED
        BY <3>2, <3>4, <3>5, <3>6
    <2>6. \A x, y \in 1..Len(s) : s[x] = s[y] => x = y
      BY DEF OnceIn
    <2>7. OnceIn(w, {})
      <3>1. SUFFICES ASSUME NEW x \in 1..Len(w), NEW y \in 1..Len(w), x # y PROVE w[x] # w[y]
        BY DEF OnceIn
      <3> QED
        BY <2>1, <2>5, <2>6, <3>1
    <2>8. m \notin ToSet(w)
      <3>1. SUFFICES ASSUME NEW k \in 1..Len(w) PROVE w[k] # m
        BY <2>4, SetOf
      <3> QED
        BY <2>1, <2>5, <2>6
    <2> QED
      BY <2>3, <2>7, <2>8
  <1> QED
    BY <1>1, <1>2

----------------------------------------------------------------------------
(* Why the model is given no message twice.  A pending message is given    *)
(* with the next prompt or steered, and a delivery is one of a message     *)
(* that was pending when it was chained.  So a message already given must  *)
(* no longer be steered, nor stay pending once it was: takePending() waits *)
(* for the deliveries before it, and while the loop reviews the others     *)
(* find the brain closed.  Only before the first prompt is it open.        *)

\* The deliveries chained behind a takePending() that gathers the first prompt are of
\* early messages; later there are none, and none is under way when it goes on.
ChainIsWaitedFor ==
    /\ phase = "gathering" => \A i \in 1..Len(delivery) : i <= ahead \/ delivery[i] \in early
    /\ phase = "gathering" /\ turn > 0 => reviewing /\ ~steering
    /\ Gathering /\ ahead = 0 => ~steering
    /\ phase \in {"queued", "setup"} => turn = 0

\* A message is pending once and chained once.
ListedOnce == OnceIn(pending, {}) /\ OnceIn(delivery, {})

\* What the model heard and what it is about to.
Given == ToSet(heard) \cup ToSet(prompt) \cup ToSet(queue)

\* The message is in brain.steer().
AtBrain(m) == steering /\ m = Head(delivery)

\* No message is given twice; one that is given is not pending, and no delivery of it
\* is to come that finds the brain open.
GivenOnce ==
    /\ OnceIn((heard \o prompt) \o queue, early)
    /\ \A m \in Given \cap ToSet(pending) : m \in early \/ AtBrain(m)
    /\ \A m \in Given \cap ToSet(delivery) :
           m \in early \/ AtBrain(m) \/ (reviewing /\ phase # "gathered")

OnceInv == ChainIsWaitedFor /\ ListedOnce /\ GivenOnce

\* It holds at first.
LEMMA OnceInvInit == MailboxInit => OnceInv
  <1> SUFFICES ASSUME MailboxInit PROVE OnceInv
    OBVIOUS
  <1>1. ChainIsWaitedFor
    BY DEF MailboxInit, ChainIsWaitedFor, Gathering
  <1>2. (heard \o prompt) \o queue = <<>> /\ pending = <<>> /\ delivery = <<>>
    BY DEF MailboxInit
  <1>3. \A E : OnceIn(<<>>, E)
    BY DEF OnceIn
  <1>4. ToSet(<<>>) = {}
    BY DEF ToSet
  <1> QED
    BY <1>1, <1>2, <1>3, <1>4 DEF OnceInv, ListedOnce, GivenOnce

\* Steps keep the chain waited for.
LEMMA ChainNext ==
  ASSUME MailboxTyped, MailboxInv, ChainIsWaitedFor, [MailboxNext]_mailboxVars
  PROVE  ChainIsWaitedFor'
  <1> DEFINE Messages == 1..MaxGuidance
  <1> USE DEF ChainIsWaitedFor, Gathering
  <1>0. /\ delivery \in Seq(Messages) /\ Len(delivery) \in Nat /\ ahead \in Nat /\ ahead <= Len(delivery)
        /\ steering => delivery # <<>>
        /\ turn \in Nat
        /\ updates \in Nat
        /\ Len(delivery) = 0 => ~steering
        /\ delivery # <<>> => /\ Tail(delivery) \in Seq(Messages) /\ Len(Tail(delivery)) = Len(delivery) - 1
                              /\ \A i \in 1..Len(Tail(delivery)) : Tail(delivery)[i] = delivery[i + 1]
    <2>1. MailboxTypeOK
      BY DEF MailboxTyped
    <2>2. delivery \in Seq(Messages) /\ ahead \in Nat /\ ahead <= Len(delivery)
          /\ (steering => delivery # <<>>) /\ turn \in Nat /\ updates \in Nat
      BY <2>1, MailboxAssumption DEF MailboxTypeOK
    <2> HIDE DEF Messages
    <2> QED
      BY <2>2
  <1>b. BrainIsClosed
    BY DEF MailboxInv
  <1> HIDE DEF Messages
  <1>1. CASE Send
    <2>1. CASE phase = "gathering"
      <3>1. ahead > 0 /\ delivery # <<>> /\ steering /\ turn = 0
        BY <1>0, <1>1, <2>1 DEF Send, Quiet
      <3>2. delivery' = Append(delivery, updates + 1) /\ early' = early \cup {updates + 1}
        BY <1>1, <2>1, <3>1 DEF Send
      <3>3. \A i \in 1..Len(delivery') :
                (i \in 1..Len(delivery) /\ delivery'[i] = delivery[i]) \/ delivery'[i] = updates + 1
        <4>1. \A i \in 1..Len(Append(delivery, updates + 1)) :
                  \/ i \in 1..Len(delivery) /\ Append(delivery, updates + 1)[i] = delivery[i]
                  \/ Append(delivery, updates + 1)[i] = updates + 1
          BY <1>0
        <4> QED
          BY <3>2, <4>1
      <3>4. UNCHANGED <<phase, ahead, turn>>
        BY <1>1 DEF Send
      <3> QED
        BY <1>0, <2>1, <3>1, <3>2, <3>3, <3>4
    <2>2. CASE phase # "gathering"
      BY <1>1, <2>2 DEF Send
    <2> QED
      BY <2>1, <2>2
  <1>2. ASSUME delivery # <<>>, delivery' = Tail(delivery), ~steering',
               ahead' = IF ahead > 0 THEN ahead - 1 ELSE 0,
               UNCHANGED <<phase, turn, reviewing, early>>
        PROVE  ChainIsWaitedFor'
    <2>1. ASSUME phase = "gathering", NEW i \in 1..Len(Tail(delivery))
          PROVE  i <= ahead' \/ Tail(delivery)[i] \in early
      <3>1. i + 1 \in 1..Len(delivery) /\ Tail(delivery)[i] = delivery[i + 1]
        BY <1>0, <1>2
      <3>2. i + 1 <= ahead \/ Tail(delivery)[i] \in early
        BY <2>1, <3>1
      <3> QED
        BY <1>0, <1>2, <3>2
    <2> QED
      BY <1>2, <2>1
  <1>3. CASE DeliveryRuns
    <2>1. CASE attached /\ ~reviewing /\ accepting
      BY <1>3, <2>1 DEF DeliveryRuns
    <2>2. CASE ~(attached /\ ~reviewing /\ accepting)
      <3>1. /\ delivery # <<>> /\ delivery' = Tail(delivery) /\ ~steering /\ steering' = steering
            /\ ahead' = IF ahead > 0 THEN ahead - 1 ELSE 0
            /\ UNCHANGED <<phase, turn, reviewing, early>>
        BY <1>3, <2>2 DEF DeliveryRuns
      <3> QED
        BY <1>2, <3>1
    <2> QED
      BY <2>1, <2>2
  <1>4. CASE DeliveryRefused
    BY <1>4 DEF DeliveryRefused
  <1>5. CASE SteerReturns
    BY <1>0, <1>2, <1>5 DEF SteerReturns
  <1>6. CASE Attach
    BY <1>6 DEF Attach
  <1>7. CASE Gather
    BY <1>0, <1>7 DEF Gather, Take, mailbox
  <1>8. CASE Gathered \/ Collected \/ Rechecked
    BY <1>8 DEF Gathered, Collected, Rechecked, Taken
  <1>9. CASE Prompt
    BY <1>9 DEF Prompt, Ends
  <1>10. CASE BrainReads
    BY <1>10 DEF BrainReads, mailbox
  <1>11. CASE PromptEnds
    <2>1. CASE stopped
      BY <1>11, <2>1 DEF PromptEnds, Ends
    <2>2. CASE ~stopped
      BY <1>0, <1>11, <2>2 DEF PromptEnds, Take
    <2> QED
      BY <2>1, <2>2
  <1>12. ASSUME NextTurn, UNCHANGED <<delivery, steering, reviewing, early>>, reviewing, ~steering
         PROVE  ChainIsWaitedFor'
    <2>1. CASE turn + 1 < MaxPrompts
      BY <1>0, <1>12, <2>1 DEF NextTurn
    <2>2. CASE ~(turn + 1 < MaxPrompts)
      BY <1>12, <2>2 DEF NextTurn, Ends
    <2> QED
      BY <2>1, <2>2
  <1>13. CASE Review
    <2>1. CASE NextTurn
      <3>1. phase = "collected" /\ UNCHANGED <<delivery, steering, reviewing, early>>
        BY <1>13 DEF Review
      <3>2. reviewing /\ ~steering
        BY <1>b, <3>1 DEF BrainIsClosed
      <3> QED
        BY <1>12, <2>1, <3>1, <3>2
    <2>2. CASE Ends \/ phase' = "reviewing"
      BY <2>2 DEF Ends
    <2> QED
      BY <1>13, <2>1, <2>2 DEF Review
  <1>14. CASE Reviewed
    <2>1. CASE Ends
      BY <2>1 DEF Ends
    <2>2. CASE Take("reviewing", "rechecking")
      BY <1>b, <1>14, <2>2 DEF Reviewed, Take, BrainIsClosed
    <2> QED
      BY <1>14, <2>1, <2>2 DEF Reviewed
  <1>15. CASE Settle
    <2>1. CASE NextTurn
      <3>1. phase = "rechecked" /\ UNCHANGED <<delivery, steering, reviewing, early>>
        BY <1>15 DEF Settle
      <3>2. reviewing /\ ~steering
        BY <1>b, <3>1 DEF BrainIsClosed
      <3> QED
        BY <1>12, <2>1, <3>1, <3>2
    <2>2. CASE phase' = "sealed"
      BY <2>2
    <2> QED
      BY <1>15, <2>1, <2>2 DEF Settle
  <1>16. CASE Stop
    BY <1>16 DEF Stop, mailbox
  <1>17. CASE Fails
    BY <1>17 DEF Fails, Ends
  <1>18. CASE UNCHANGED mailboxVars
    BY <1>18 DEF mailboxVars
  <1> QED
    BY <1>1, <1>3, <1>4, <1>5, <1>6, <1>7, <1>8, <1>9, <1>10, <1>11, <1>13, <1>14, <1>15, <1>16,
       <1>17, <1>18
       DEF MailboxNext

\* Steps list no message twice.
LEMMA ListedNext ==
  ASSUME MailboxTyped, MailboxInv, ListedOnce, [MailboxNext]_mailboxVars
  PROVE  ListedOnce'
  <1> MaxGuidance \in Nat
    BY MailboxAssumption
  <1> DEFINE Messages == 1..MaxGuidance
  <1>0. /\ pending \in Seq(Messages) /\ delivery \in Seq(Messages)
        /\ updates \in 0..MaxGuidance
        /\ steering => delivery # <<>>
    BY DEF MailboxTyped, MailboxTypeOK
  <1>u. ToSet(pending) \subseteq 1..updates /\ ToSet(delivery) \subseteq 1..updates
    BY DEF MailboxInv, NoneIsMislaid
  <1>e. OnceIn(<<>>, {})
    BY DEF OnceIn
  <1>l. OnceIn(pending, {}) /\ OnceIn(delivery, {})
    BY DEF ListedOnce
  <1>1. CASE Send
    <2>1. updates + 1 \in Messages /\ updates + 1 \notin ToSet(pending) /\ updates + 1 \notin ToSet(delivery)
      BY <1>0, <1>1, <1>u DEF Send
    <2> HIDE DEF Messages
    <2>2. PICK m \in Messages : m = updates + 1
      BY <2>1
    <2>3. OnceIn(Append(pending, m), {}) /\ OnceIn(Append(delivery, m), {})
      BY <1>0, <1>l, <2>1, <2>2, OnceAppend
    <2>4. pending' = Append(pending, m) /\ delivery' = Append(delivery, m)
      BY <1>1, <2>2 DEF Send
    <2> QED
      BY <2>3, <2>4 DEF ListedOnce
  <1> HIDE DEF Messages
  <1>2. delivery # <<>> => OnceIn(Tail(delivery), {})
    BY <1>0, <1>l, OnceTail
  <1>3. CASE DeliveryRuns \/ DeliveryRefused
    <2>1. pending' = pending /\ (delivery' = delivery \/ (delivery # <<>> /\ delivery' = Tail(delivery)))
      BY <1>3 DEF DeliveryRuns, DeliveryRefused
    <2> QED
      BY <1>2, <1>l, <2>1 DEF ListedOnce
  <1>4. CASE SteerReturns
    <2>1. pending' = Without(pending, Head(delivery)) /\ delivery # <<>> /\ delivery' = Tail(delivery)
      BY <1>0, <1>4 DEF SteerReturns
    <2>2. OnceIn(Without(pending, Head(delivery)), {})
      BY <1>0, <1>l, OnceWithout
    <2> QED
      BY <1>2, <2>1, <2>2 DEF ListedOnce
  <1>5. CASE Gathered \/ Collected \/ Rechecked
    <2>1. pending' = <<>> /\ delivery' = delivery
      BY <1>5 DEF Gathered, Collected, Rechecked, Taken
    <2> QED
      BY <1>e, <1>l, <2>1 DEF ListedOnce
  <1>6. CASE \/ Attach \/ Gather \/ Prompt \/ BrainReads \/ PromptEnds \/ Review \/ Reviewed \/ Settle
             \/ Stop \/ Fails \/ UNCHANGED mailboxVars
    <2>1. UNCHANGED <<pending, delivery>>
      BY <1>6 DEF Attach, Gather, Prompt, BrainReads, PromptEnds, Review, Reviewed, Settle, Stop, Fails,
                  mailbox, mailboxVars
    <2> QED
      BY <1>l, <2>1 DEF ListedOnce
  <1> QED
    BY <1>1, <1>3, <1>4, <1>5, <1>6 DEF MailboxNext

\* Steps give the model no message twice.
LEMMA GivenNext ==
  ASSUME MailboxTyped, MailboxInv, OnceInv, [MailboxNext]_mailboxVars
  PROVE  GivenOnce'
  <1> MaxGuidance \in Nat
    BY MailboxAssumption
  <1> DEFINE Messages == 1..MaxGuidance
             all == (heard \o prompt) \o queue
  <1>0. /\ pending \in Seq(Messages) /\ delivery \in Seq(Messages) /\ queue \in Seq(Messages)
        /\ prompt \in Seq(Messages) /\ heard \in Seq(Messages)
        /\ updates \in 0..MaxGuidance
        /\ steering => delivery # <<>>
    BY DEF MailboxTyped, MailboxTypeOK
  <1>u. Given \subseteq 1..updates /\ ToSet(pending) \subseteq 1..updates /\ ToSet(delivery) \subseteq 1..updates
    BY DEF MailboxInv, NoneIsMislaid, Given
  <1>n. updates < MaxGuidance => updates + 1 \in Messages /\ updates + 1 \notin 1..updates
    BY <1>0
  <1> HIDE DEF Messages
  <1>c. \A s, t \in Seq(Messages) : s \o t \in Seq(Messages) /\ ToSet(s \o t) = ToSet(s) \cup ToSet(t)
    BY SetOfConcat
  <1>g. all \in Seq(Messages) /\ ToSet(all) = Given /\ heard \o prompt \in Seq(Messages)
    <2> DEFINE first == heard \o prompt
    <2>1. first \in Seq(Messages) /\ ToSet(first) = ToSet(heard) \cup ToSet(prompt)
      BY <1>0, <1>c, Zenon
    <2> HIDE DEF first
    <2>2. first \o queue \in Seq(Messages) /\ ToSet(first \o queue) = ToSet(first) \cup ToSet(queue)
      BY <1>0, <1>c, <2>1, Zenon
    <2>3. first = heard \o prompt
      BY DEF first
    <2> QED
      BY <2>1, <2>2, <2>3 DEF Given
  <1>i. /\ OnceIn(all, early)
        /\ \A m \in Given \cap ToSet(pending) : m \in early \/ AtBrain(m)
        /\ \A m \in Given \cap ToSet(delivery) :
               m \in early \/ AtBrain(m) \/ (reviewing /\ phase # "gathered")
    BY DEF OnceInv, GivenOnce
  <1>e. ToSet(<<>>) = {}
    BY DEF ToSet
  <1>h. delivery # <<>> =>
            /\ Head(delivery) \in Messages /\ Head(delivery) \in ToSet(delivery)
            /\ ToSet(Tail(delivery)) \subseteq ToSet(delivery)
            /\ Head(delivery) \notin ToSet(Tail(delivery))
    <2> SUFFICES ASSUME delivery # <<>>
                 PROVE  /\ Head(delivery) \in Messages /\ Head(delivery) \in ToSet(delivery)
                        /\ ToSet(Tail(delivery)) \subseteq ToSet(delivery)
                        /\ Head(delivery) \notin ToSet(Tail(delivery))
      OBVIOUS
    <2>1. Head(delivery) \in Messages /\ ToSet(delivery) = {Head(delivery)} \cup ToSet(Tail(delivery))
      BY <1>0, SetOfTail
    <2>2. OnceIn(delivery, {})
      BY DEF OnceInv, ListedOnce
    <2>3. \A E : OnceIn(delivery, E) /\ Head(delivery) \in ToSet(Tail(delivery)) => Head(delivery) \in E
      BY <1>0, OnceTail
    <2>4. Head(delivery) \in ToSet(Tail(delivery)) => Head(delivery) \in {}
      BY <2>2, <2>3, Zenon
    <2> QED
      BY <2>1, <2>4
  <1> HIDE DEF all
  \* What is given stays the same, and the lists only shrink.
  <1>1. ASSUME all' = all, Given' = Given, early' = early,
               ToSet(pending') \subseteq ToSet(pending), ToSet(delivery') \subseteq ToSet(delivery),
               \A m \in ToSet(pending') : AtBrain(m) => AtBrain(m)',
               \A m \in ToSet(delivery') : AtBrain(m) => AtBrain(m)',
               reviewing /\ phase # "gathered" => reviewing' /\ phase' # "gathered"
        PROVE  GivenOnce'
    <2>1. OnceIn(all', early')
      BY <1>1, <1>i
    <2>2. all' = (heard' \o prompt') \o queue'
      BY DEF all
    <2>3. ASSUME NEW m \in Given' \cap ToSet(pending') PROVE m \in early' \/ AtBrain(m)'
      BY <1>1, <1>i, <2>3
    <2>4. ASSUME NEW m \in Given' \cap ToSet(delivery')
          PROVE  m \in early' \/ AtBrain(m)' \/ (reviewing' /\ phase' # "gathered")
      BY <1>1, <1>i, <2>4
    <2> QED
      BY <2>1, <2>2, <2>3, <2>4 DEF GivenOnce
  <1>2. ASSUME UNCHANGED <<heard, prompt, queue>> PROVE all' = all /\ Given' = Given
    BY <1>2 DEF all, Given
  <1>3. CASE Send
    <2>1. updates + 1 \in Messages /\ updates + 1 \notin Given
      BY <1>3, <1>n, <1>u DEF Send
    <2>2. all' = all /\ Given' = Given
      BY <1>2, <1>3 DEF Send
    <2>3. early \subseteq early'
      BY <1>3 DEF Send
    <2>4. ToSet(pending') = ToSet(pending) \cup {updates + 1}
      BY <1>0, <1>3, <2>1, SetOfAppend DEF Send
    <2>5. ToSet(delivery') = ToSet(delivery) \cup {updates + 1}
      BY <1>0, <1>3, <2>1, SetOfAppend DEF Send
    <2>6. ASSUME NEW m, AtBrain(m) PROVE AtBrain(m)'
      <3>1. delivery \in Seq(Messages) /\ delivery # <<>> /\ m = Head(delivery) /\ steering
        BY <1>0, <2>6 DEF AtBrain
      <3>2. Head(Append(delivery, updates + 1)) = Head(delivery)
        BY <2>1, <3>1
      <3>3. delivery' = Append(delivery, updates + 1) /\ steering' = steering
        BY <1>3 DEF Send
      <3> QED
        BY <3>1, <3>2, <3>3 DEF AtBrain
    <2>7. OnceIn(all', early')
      BY <1>i, <2>2, <2>3 DEF OnceIn
    <2>8. all' = (heard' \o prompt') \o queue'
      BY DEF all
    <2>9. UNCHANGED <<reviewing, phase>>
      BY <1>3 DEF Send
    <2>10. ASSUME NEW m \in Given' \cap ToSet(pending') PROVE m \in early' \/ AtBrain(m)'
      BY <1>i, <2>1, <2>2, <2>3, <2>4, <2>6
    <2>11. ASSUME NEW m \in Given' \cap ToSet(delivery')
           PROVE  m \in early' \/ AtBrain(m)' \/ (reviewing' /\ phase' # "gathered")
      BY <1>i, <2>1, <2>2, <2>3, <2>5, <2>6, <2>9
    <2> QED
      BY <2>7, <2>8, <2>10, <2>11 DEF GivenOnce
  <1>4. CASE DeliveryRuns /\ attached /\ ~reviewing /\ accepting
    <2>1. /\ delivery # <<>> /\ ~steering /\ steering' /\ queue' = Append(queue, Head(delivery))
          /\ UNCHANGED <<heard, prompt, pending, delivery, reviewing, phase, early>>
      BY <1>4 DEF DeliveryRuns
    <2>2. PICK d \in Messages : d = Head(delivery) /\ d \in ToSet(delivery)
      BY <1>h, <2>1
    <2>3. d \in Given => d \in early
      BY <1>4, <1>i, <2>1, <2>2 DEF AtBrain
    <2>4. ToSet(queue') = ToSet(queue) \cup {d}
      BY <1>0, <2>1, <2>2, SetOfAppend
    <2>5. Given' = Given \cup {d}
      BY <2>1, <2>4 DEF Given
    <2>6. AtBrain(d)'
      BY <2>1, <2>2 DEF AtBrain
    <2>7. OnceIn((heard' \o prompt') \o queue', early')
      <3>1. OnceIn(Append(all, d), early)
        BY <1>g, <1>i, <2>3, OnceAppend
      <3>2. PICK first \in Seq(Messages) : first = heard \o prompt
        BY <1>g
      <3>3. Append(first \o queue, d) = first \o Append(queue, d)
        BY <1>0, SMTT(30)
      <3>4. (heard' \o prompt') \o queue' = Append(all, d)
        BY <2>1, <2>2, <3>2, <3>3 DEF all
      <3> QED
        BY <2>1, <3>1, <3>4
    <2>8. ASSUME NEW m \in Given' \cap ToSet(pending') PROVE m \in early' \/ AtBrain(m)'
      BY <1>i, <2>1, <2>5, <2>6 DEF AtBrain
    <2>9. ASSUME NEW m \in Given' \cap ToSet(delivery')
          PROVE  m \in early' \/ AtBrain(m)' \/ (reviewing' /\ phase' # "gathered")
      BY <1>4, <1>i, <2>1, <2>5, <2>6 DEF AtBrain
    <2> QED
      BY <2>7, <2>8, <2>9 DEF GivenOnce
  <1>5. CASE (DeliveryRuns /\ ~(attached /\ ~reviewing /\ accepting)) \/ DeliveryRefused
    <2>1. /\ delivery # <<>> /\ ~steering /\ delivery' = Tail(delivery)
          /\ UNCHANGED <<heard, prompt, queue, pending, reviewing, phase, early>>
      BY <1>5 DEF DeliveryRuns, DeliveryRefused
    <2> QED
      BY <1>1, <1>2, <1>h, <2>1 DEF AtBrain
  <1>6. CASE SteerReturns
    <2>1. /\ delivery # <<>> /\ steering /\ delivery' = Tail(delivery)
          /\ pending' = Without(pending, Head(delivery))
          /\ UNCHANGED <<heard, prompt, queue, reviewing, phase, early>>
      BY <1>0, <1>6 DEF SteerReturns
    <2>2. ToSet(pending') \subseteq ToSet(pending)
      BY <1>0, <2>1, SetOfWithout
    <2>3. Head(delivery) \notin ToSet(pending')
      <3>1. OnceIn(pending, {})
        BY DEF OnceInv, ListedOnce
      <3> QED
        BY <1>0, <2>1, <3>1, OnceWithout
    <2>4. Head(delivery) \notin ToSet(delivery')
      BY <1>h, <2>1
    <2> QED
      BY <1>1, <1>2, <1>h, <2>1, <2>2, <2>3, <2>4 DEF AtBrain
  <1>7. CASE Gathered \/ Collected \/ Rechecked
    <2>1. /\ Gathering /\ ahead = 0 /\ queue' = <<>> /\ pending' = <<>>
          /\ UNCHANGED <<heard, delivery, steering, reviewing, early>>
          /\ \/ phase = "gathering" /\ phase' = "gathered" /\ prompt' = (prompt \o queue) \o pending
             \/ /\ phase \in {"collecting", "rechecking"} /\ phase' # "gathered"
                /\ prompt' = queue \o pending
      BY <1>7 DEF Gathered, Collected, Rechecked, Taken, Gathering
    <2>2. ~steering
      BY <2>1 DEF OnceInv, ChainIsWaitedFor
    <2>3. phase \in {"collecting", "rechecking"} => prompt = <<>> /\ reviewing
      BY DEF MailboxInv, PromptIsSpent, BrainIsClosed
    <2>4. (heard' \o prompt') \o queue' = all \o pending
      <3>3. \A s \in Seq(Messages) : s \o <<>> = s
        OBVIOUS
      <3>4. /\ prompt \o queue \in Seq(Messages)
            /\ (prompt \o queue) \o pending \in Seq(Messages)
            /\ queue \o pending \in Seq(Messages)
        BY <1>0, <1>c, Zenon
      <3>5. prompt' \in Seq(Messages) /\ heard \o prompt' \in Seq(Messages)
        <4>1. prompt' \in Seq(Messages)
          BY <2>1, <3>4
        <4> QED
          BY <1>0, <1>c, <4>1, Zenon
      <3>c. PICK h, p, q, w \in Seq(Messages) : h = heard /\ p = prompt /\ q = queue /\ w = pending
        BY <1>0
      <3>6. (heard' \o prompt') \o queue' = heard \o prompt'
        BY <2>1, <3>3, <3>5
      <3>7. CASE prompt' = (prompt \o queue) \o pending
        <4>1. h \o ((p \o q) \o w) = ((h \o p) \o q) \o w
          BY SMTT(30)
        <4> QED
          BY <3>6, <3>7, <3>c, <4>1, Zenon DEF all
      <3>8. CASE prompt' = queue \o pending /\ prompt = <<>>
        <4>1. (h \o q) \o w = h \o (q \o w)
          BY SMTT(30)
        <4>2. h \o <<>> = h
          BY <3>3
        <4> QED
          BY <3>6, <3>8, <3>c, <4>1, <4>2, Zenon DEF all
      <3> QED
        BY <2>1, <2>3, <3>7, <3>8
    <2>5. OnceIn(all \o pending, early)
      <3>1. OnceIn(pending, early)
        BY DEF OnceInv, ListedOnce, OnceIn
      <3>2. ToSet(all) \cap ToSet(pending) \subseteq early
        BY <1>g, <1>i, <2>2 DEF AtBrain
      <3> QED
        BY <1>0, <1>g, <1>i, <3>1, <3>2, OnceConcat
    <2>6. OnceIn((heard' \o prompt') \o queue', early')
      <3>1. early' = early
        BY <2>1
      <3> QED
        BY <2>4, <2>5, <3>1, Zenon
    <2>7. ToSet(pending') = {}
      BY <1>e, <2>1
    <2>8. ASSUME NEW m \in ToSet(delivery') PROVE m \in early' \/ (reviewing' /\ phase' # "gathered")
      <3>1. CASE phase = "gathering"
        <4>1. PICK i \in 1..Len(delivery) : delivery[i] = m
          BY <1>0, <2>1, <2>8, SetOf
        <4>2. i <= ahead \/ delivery[i] \in early
          BY <3>1 DEF OnceInv, ChainIsWaitedFor
        <4> QED
          BY <2>1, <4>1, <4>2
      <3>2. CASE phase \in {"collecting", "rechecking"}
        BY <2>1, <2>3, <3>2
      <3> QED
        BY <2>1, <3>1, <3>2
    <2> QED
      BY <2>6, <2>7, <2>8 DEF GivenOnce
  <1>8. CASE Prompt
    <2>1. CASE stopped
      BY <1>1, <1>2, <1>8, <2>1 DEF Prompt, AtBrain
    <2>2. CASE ~stopped
      <3>1. /\ heard' = heard \o prompt /\ prompt' = <<>> /\ phase = "gathered"
            /\ UNCHANGED <<queue, pending, delivery, steering, early>>
        BY <1>8, <2>2 DEF Prompt
      <3>2. all' = all
        <4>1. PICK first \in Seq(Messages) : first = heard \o prompt
          BY <1>g
        <4>2. first \o <<>> = first
          OBVIOUS
        <4> QED
          BY <3>1, <4>1, <4>2 DEF all
      <3>3. Given' = Given
        <4>1. ToSet(heard') = ToSet(heard) \cup ToSet(prompt) /\ ToSet(prompt') = {}
          BY <1>0, <1>e, <3>1, SetOfConcat
        <4> QED
          BY <3>1, <4>1 DEF Given
      <3> QED
        BY <1>1, <3>1, <3>2, <3>3 DEF AtBrain
    <2> QED
      BY <2>1, <2>2
  <1>9. CASE BrainReads
    <2>1. /\ queue # <<>> /\ heard' = Append(heard, Head(queue)) /\ queue' = Tail(queue) /\ prompt = <<>>
          /\ UNCHANGED <<prompt, pending, delivery, steering, early, reviewing, phase>>
      BY <1>9 DEF BrainReads, mailbox, MailboxInv, PromptIsSpent
    <2>2. Head(queue) \in Messages /\ ToSet(queue) = {Head(queue)} \cup ToSet(queue')
      BY <1>0, <2>1, SetOfTail
    <2>3. ToSet(heard') = ToSet(heard) \cup {Head(queue)}
      BY <1>0, <2>1, <2>2, SetOfAppend
    <2>4. Given' = Given
      BY <2>1, <2>2, <2>3 DEF Given
    <2>5. all' = all
      <3>1. heard \o <<>> = heard /\ Append(heard, Head(queue)) \o <<>> = Append(heard, Head(queue))
        BY <1>0, <2>2
      <3>2. Append(heard, Head(queue)) \o Tail(queue) = heard \o queue
        BY <1>0, <2>1, SMTT(30)
      <3> QED
        BY <2>1, <3>1, <3>2, Zenon DEF all
    <2> QED
      BY <1>1, <2>1, <2>4, <2>5 DEF AtBrain
  <1>10. CASE Attach \/ Gather \/ PromptEnds \/ Review \/ Reviewed \/ Settle \/ Stop \/ Fails
    <2>1. UNCHANGED <<heard, prompt, queue, pending, delivery, steering, early>>
      BY <1>10 DEF Attach, Gather, PromptEnds, Review, Reviewed, Settle, Stop, Fails, mailbox
    <2>2. reviewing /\ phase # "gathered" => reviewing' /\ phase' # "gathered"
      BY <1>10 DEF Attach, Gather, PromptEnds, Review, Reviewed, Settle, Stop, Fails, mailbox, Take,
                   NextTurn, Ends
    <2> QED
      BY <1>1, <1>2, <2>1, <2>2 DEF AtBrain
  <1>11. CASE UNCHANGED mailboxVars
    BY <1>1, <1>2, <1>11 DEF mailboxVars, AtBrain
  <1> QED
    BY <1>3, <1>4, <1>5, <1>6, <1>7, <1>8, <1>9, <1>10, <1>11 DEF MailboxNext

\* The model is given no message twice, but for those sent while the first prompt was
\* put together, for every guidance limit and every budget of prompts and repairs.
THEOREM GuidanceAlwaysHeardOnce == MailboxSpec => []GuidanceIsHeardOnce
  <1>1. MailboxInit => MailboxTyped /\ MailboxInv /\ OnceInv
    BY MailboxInitTyped, MailboxInvInit, OnceInvInit
  <1>2. MailboxTyped /\ MailboxInv /\ OnceInv /\ [MailboxNext]_mailboxVars
        => (MailboxTyped /\ MailboxInv /\ OnceInv)'
    BY MailboxNextTyped, ClosedNext, MislaidNext, ChainNext, ListedNext, GivenNext
       DEF MailboxInv, OnceInv
  <1>3. MailboxTyped /\ OnceInv => GuidanceIsHeardOnce
    <2> SUFFICES ASSUME MailboxTyped, OnceInv PROVE GuidanceIsHeardOnce
      OBVIOUS
    <2> DEFINE Messages == 1..MaxGuidance
    <2>1. heard \in Seq(Messages) /\ prompt \in Seq(Messages) /\ queue \in Seq(Messages)
      BY DEF MailboxTyped, MailboxTypeOK
    <2> HIDE DEF Messages
    <2>c. \A s, t \in Seq(Messages) : s \o t \in Seq(Messages)
      OBVIOUS
    <2>2. PICK first \in Seq(Messages) : first = heard \o prompt
      BY <2>1, <2>c, Zenon
    <2>3. OnceIn(first \o queue, early)
      BY <2>2 DEF OnceInv, GivenOnce
    <2>4. OnceIn(first, early)
      BY <2>1, <2>3, OncePrefix
    <2>5. OnceIn(heard, early)
      BY <2>1, <2>2, <2>4, OncePrefix
    <2> QED
      BY <2>1, <2>5 DEF GuidanceIsHeardOnce, OnceIn
  <1> QED
    BY <1>1, <1>2, <1>3, PTL DEF MailboxSpec

=============================================================================
