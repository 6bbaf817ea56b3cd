-------------------------- MODULE CapabilityRun_proofs --------------------------
(***************************************************************************)
(* Proofs about CapabilityRun, for any messages and any number of records, *)
(* events, calls, restarts and failures: a turn whose frame the box has    *)
(* dropped is in the consumer's history, a message that is answered was    *)
(* taken by a box, the row of a live run says what its record says, the    *)
(* row of a run that is done changes only by a record it left behind, and  *)
(* a run whose box rests does not stay running.                            *)
(***************************************************************************)
EXTENDS CapabilityRun, SequenceTheorems, TLAPS

----------------------------------------------------------------------------
(* Types.                                                                  *)

Statuses == Active \cup Terminal
EventKinds == {"none", "turn"} \cup Terminal
RunEvent == [id : 0..MaxEvents, kind : EventKinds]
Rec == [status : Statuses, relay : 0..MaxEvents, persisted : 0..MaxEvents,
        msgs : SUBSET Messages, silent : BOOLEAN]
Writers == {"start", "relay", "cancel", "dog"} \cup Messages
Write == [rec : Nat, status : Statuses, relay : 0..MaxEvents, msgs : SUBSET Messages,
          by : Writers]
CallPcs == {"new", "adopting", "ensuring", "ready", "publishing", "posting", "restoring", "again",
            "accepted", "remembering", "ok", "failed"}
Call == [pc : CallPcs, asks : Nat, rec : Nat, prev : Statuses \cup {"none"},
         before : SUBSET Messages, seen : Rows]
Cancellation == [pc : {"new", "adopting", "ending", "stopping", "confirmed", "failed"}, seen : Rows]
Dog == [pc : {"rest", "listing", "listed", "flushing", "checking", "stopping", "ending", "reaped"},
        rec : Nat, seen : Rows, outcome : Terminal \cup {"none"}, blind : BOOLEAN]
Box == [pod : {"absent", "empty", "live", "over"}, turns : Int, queue : Seq(RunEvent),
        pending : RunEvent, accepted : SUBSET Messages]
RelayPcs == {"off", "connect", "stream", "lost", "save", "resave", "commit", "committing",
             "recommit", "ack", "failing", "ending", "closing"}
Relay == [pc : RelayPcs, event : RunEvent, replays : BOOLEAN]
StartPcs == {"new", "writing", "ensuring", "ok", "broken", "ending", "failed"}
SessionPcs == {"none", "acquire", "open", "live"}

----------------------------------------------------------------------------
(* What is always so.                                                      *)

\* The events that are still on their way, or with the relay.
KnownEvents == {box.queue[i] : i \in 1..Len(box.queue)} \cup {box.pending, relay.event}

\* A number of the relay's that is behind: no event yet to come has it, and if a
\* turn has it, that turn is in the consumer's history.
Past(n) ==
    /\ n \in 0..MaxEvents /\ n <= emitted
    /\ \A e \in KnownEvents : e.kind = "turn" /\ e.id = n => n \in saved

\* What a row, a record, a write or an answer may say of the run.
Snap(r) == Past(r.relay) /\ r.msgs \subseteq delivered

RowOk == row \in Rows /\ Snap(row)

RecsOk ==
    /\ recs \in Seq(Rec) /\ runs \in 0..Len(recs) /\ Len(recs) <= MaxRecords
    /\ \A i \in 1..Len(recs) : Snap(recs[i]) /\ Past(recs[i].persisted)

WritesOk ==
    /\ writes \in Seq(Write)
    /\ \A i \in 1..Len(writes) : writes[i].rec \in 1..Len(recs) /\ Snap(writes[i])
    /\ \A i, j \in 1..Len(writes) : writes[i].by = writes[j].by => i = j

\* Of a live run that was not made of an answer the row had left behind, the
\* newest write, or the row itself when there is none, says what its record says.
Mirrors(r, g) == r.status = recs[g].status /\ r.relay = recs[g].relay
MirrorOk ==
    Live /\ runs \notin outdated =>
        IF writes # <<>>
        THEN writes[Len(writes)].rec = runs /\ Mirrors(writes[Len(writes)], runs)
        ELSE ~adrift => Mirrors(row, runs)

MemoryOk == RowOk /\ RecsOk /\ WritesOk /\ MirrorOk

EventsOk ==
    /\ emitted \in 0..MaxEvents
    /\ \A e \in KnownEvents : e = NoEvent \/ (e.id \in 1..emitted /\ e.kind # "none")
    /\ \A e, f \in KnownEvents : e.id = f.id => e = f
    /\ saved \subseteq 1..MaxEvents
    /\ \A e \in acked : e.kind = "turn" => e.id \in saved

BoxOk ==
    /\ box \in Box /\ \A i \in 1..Len(box.queue) : box.queue[i].kind # "none"
    /\ box.accepted \subseteq delivered /\ delivered \subseteq Messages

\* Only a turn is written to the history, and past that write the turn is stored.
StoredPcs == {"connect", "stream", "lost", "commit", "committing", "recommit", "ack"}
Fits(pc, e) ==
    /\ pc \in {"save", "resave"} => e.kind = "turn"
    /\ pc \in {"commit", "committing", "recommit"} => e.kind # "none"
RelayOk ==
    /\ relay \in Relay /\ Fits(relay.pc, relay.event)
    /\ relay.pc \in StoredPcs /\ relay.event.kind = "turn" => relay.event.id \in saved

SessionOk ==
    /\ session.pc \in SessionPcs /\ (relay.pc # "off" <=> session.pc = "live")
    /\ deferrals \in 0..MaxDeferrals

\* A call is past the box only if a box took its message.
TakenPcs == {"again", "accepted", "remembering", "ok"}
CallOk(m, c) ==
    /\ Snap(c.seen) /\ c.before \subseteq delivered
    /\ c.pc \in TakenPcs => m \in delivered
    /\ c.pc \in {"ensuring", "ready"} => c.rec \in 1..Len(recs)
    /\ c.pc \in {"publishing", "posting"} => c.prev \in Statuses
CallsOk == call \in [Messages -> Call] /\ \A m \in Messages : CallOk(m, call[m])

CancelOk == cancel \in Cancellation /\ Snap(cancel.seen)
DogOk ==
    /\ dog \in Dog /\ Snap(dog.seen)
    /\ dog.pc \in {"stopping", "ending"} => dog.outcome \in Terminal

\* Before the run is stored nobody knows of it.
Unborn ==
    /\ runs = 0 /\ row.status = "none" /\ dog.seen.status = "none" /\ cancel.pc = "new"
    /\ \A m \in Messages : call[m].pc = "new"
Starting == [pc : StartPcs, opening : BOOLEAN]
StartOk ==
    /\ start \in Starting
    /\ start.pc = "new" => Unborn /\ writes = <<>>
    /\ start.pc = "writing" =>
         /\ Unborn /\ Len(writes) = 1 /\ writes[1].by = "start"
         /\ Mirrors(writes[1], writes[1].rec)

\* The caller of a write waits for it.
WaitPcs == {"publishing", "restoring", "again", "remembering"}
Waits(b) ==
    \/ b = "start" /\ start.pc \in {"writing", "ending"}
    \/ b = "relay" /\ relay.pc \in {"committing", "ending"}
    \/ b \in Messages /\ call[b].pc \in WaitPcs
    \/ b = "cancel" /\ cancel.pc = "ending"
    \/ b = "dog" /\ dog.pc \in {"flushing", "reaped"}
WaitersOk == \A i \in 1..Len(writes) : Waits(writes[i].by)

RunInv ==
    /\ MemoryOk /\ EventsOk /\ BoxOk /\ RelayOk /\ SessionOk
    /\ CallsOk /\ CancelOk /\ DogOk /\ StartOk /\ WaitersOk

----------------------------------------------------------------------------
(* Sequences.                                                              *)

\* Element g of a sequence becomes r.
Put(s, t, g, r) ==
    Len(t) = Len(s) /\ t[g] = r /\ \A i \in 1..Len(s) : i # g => t[i] = s[i]

LEMMA SeqPut ==
  ASSUME NEW S, NEW s \in Seq(S), NEW g \in 1..Len(s), NEW r \in S, NEW t, t = [s EXCEPT ![g] = r]
  PROVE  t \in Seq(S) /\ Put(s, t, g, r)
  BY DEF Put

LEMMA SeqPush ==
  ASSUME NEW S, NEW s \in Seq(S), NEW e \in S, NEW t, t = Append(s, e)
  PROVE  /\ t \in Seq(S) /\ Len(t) = Len(s) + 1 /\ t[Len(t)] = e /\ t # <<>>
         /\ \A i \in 1..Len(t) : (i \in 1..Len(s) /\ t[i] = s[i]) \/ (i = Len(t) /\ t[i] = e)
         /\ \A i \in 1..Len(s) : i \in 1..Len(t) /\ t[i] = s[i]
  OBVIOUS

LEMMA SeqPop ==
  ASSUME NEW S, NEW s \in Seq(S), s # <<>>, NEW t, t = Tail(s) \/ t = RemoveAt(s, 1)
  PROVE  /\ t \in Seq(S) /\ Len(t) = Len(s) - 1 /\ Head(s) = s[1] /\ 1 \in 1..Len(s)
         /\ \A i \in 1..Len(t) : i + 1 \in 2..Len(s) /\ t[i] = s[i + 1]
         /\ t # <<>> => Len(t) \in 1..Len(t) /\ t[Len(t)] = s[Len(s)]
         /\ t = <<>> => Len(s) = 1
  <1>1. Len(s) \in Nat /\ Len(s) >= 1 /\ Head(s) = s[1]
    OBVIOUS
  <1>2. t \in Seq(S) /\ Len(t) = Len(s) - 1 /\ \A i \in 1..(Len(s) - 1) : t[i] = s[i + 1]
    <2>1. CASE t = Tail(s)
      BY <1>1, <2>1
    <2>2. CASE t = RemoveAt(s, 1)
      <3> DEFINE a == SubSeq(s, 1, 0)
                 b == SubSeq(s, 2, Len(s))
      <3> HIDE DEF a, b
      <3>1. a \in Seq(S) /\ Len(a) = 0
        BY <1>1, SubSeqProperties DEF a
      <3>2. b \in Seq(S) /\ Len(b) = Len(s) - 1 /\ \A i \in 1..(Len(s) - 1) : b[i] = s[i + 1]
        <4>1. \A i \in 2..Len(s) : s[i] \in S
          BY <1>1
        <4>2. /\ b \in Seq(S) /\ Len(b) = IF 2 <= Len(s) THEN Len(s) - 2 + 1 ELSE 0
              /\ \A i \in 1..(Len(s) - 2 + 1) : b[i] = s[2 + i - 1]
          BY ONLY Len(s) \in Nat, <4>1, SubSeqProperties DEF b
        <4>3. ASSUME NEW i \in 1..(Len(s) - 1) PROVE b[i] = s[i + 1]
          <5>1. i \in 1..(Len(s) - 2 + 1) /\ 2 + i - 1 = i + 1
            BY <1>1
          <5>. QED
            BY <4>2, <5>1
        <4>4. Len(b) = Len(s) - 1
          <5>1. PICK n \in Nat : n = Len(s) /\ n >= 1
            BY <1>1
          <5>2. (IF 2 <= n THEN n - 2 + 1 ELSE 0) = n - 1
            BY ONLY <5>1, n \in Nat
          <5>. QED
            BY <4>2, <5>1, <5>2
        <4>. QED
          BY ONLY <4>2, <4>3, <4>4
      <3>3. t = a \o b
        BY <2>2 DEF RemoveAt, a, b
      <3>4. /\ a \o b \in Seq(S) /\ Len(a \o b) = Len(a) + Len(b)
            /\ \A i \in 1..(Len(a) + Len(b)) :
                 (a \o b)[i] = IF i <= Len(a) THEN a[i] ELSE b[i - Len(a)]
        BY ONLY <3>1, <3>2, ConcatProperties
      <3>. QED
        BY ONLY <1>1, <3>1, <3>2, <3>3, <3>4
    <2>. QED
      BY <2>1, <2>2
  <1>. QED
    BY ONLY <1>1, <1>2, s # <<>>, s \in Seq(S)

----------------------------------------------------------------------------
(* What only grows.                                                        *)

Grows ==
    /\ saved \subseteq saved' /\ delivered \subseteq delivered'
    /\ emitted' \in Nat /\ emitted <= emitted'
    /\ \A e \in KnownEvents' : e \in KnownEvents \/ e.kind # "turn" \/ e.id > emitted

LEMMA SnapGrows ==
  ASSUME EventsOk, Grows
  PROVE  /\ \A n : Past(n) => Past(n)'
         /\ \A r : Snap(r) => Snap(r)'
  <1>1. \A n : Past(n) => Past(n)'
    BY CapabilityAssumption DEF Past, Grows, EventsOk
  <1>. QED
    BY <1>1 DEF Snap, Grows

\* Nothing new is on its way.
LEMMA NothingNew ==
  ASSUME EventsOk, saved \subseteq saved', saved' \subseteq 1..MaxEvents, delivered \subseteq delivered',
         emitted' = emitted, \A e \in KnownEvents' : e \in KnownEvents \cup {NoEvent},
         \A e \in acked' : e \in acked \/ (e.kind = "turn" => e.id \in saved')
  PROVE  EventsOk' /\ Grows
  <1>1. NoEvent.id = 0 /\ NoEvent.kind = "none"
    BY DEF NoEvent
  <1>2. \A e \in KnownEvents' : e = NoEvent \/ (e.id \in 1..emitted /\ e.kind # "none")
    BY DEF EventsOk
  <1>3. \A e, f \in KnownEvents' : e.id = f.id => e = f
    BY <1>1, <1>2, CapabilityAssumption DEF EventsOk
  <1>4. emitted \in 0..MaxEvents /\ MaxEvents \in Nat
    BY CapabilityAssumption DEF EventsOk
  <1>5. EventsOk'
    BY <1>2, <1>3, <1>4 DEF EventsOk
  <1>. QED
    BY <1>1, <1>4, <1>5 DEF Grows

LEMMA NothingHappens ==
  ASSUME EventsOk, UNCHANGED <<saved, acked, emitted>>, delivered \subseteq delivered',
         UNCHANGED <<box, relay>>
  PROVE  EventsOk' /\ Grows
  <1>1. KnownEvents' = KnownEvents
    BY DEF KnownEvents
  <1>. QED
    BY <1>1, NothingNew DEF EventsOk

----------------------------------------------------------------------------
(* The record and its row.                                                  *)

LEMMA RowKept ==
  ASSUME RowOk, EventsOk, Grows, UNCHANGED row
  PROVE  RowOk'
  BY SnapGrows DEF RowOk

LEMMA RecsKept ==
  ASSUME RecsOk, EventsOk, Grows, UNCHANGED recs, runs' \in 0..Len(recs)
  PROVE  RecsOk'
  BY SnapGrows DEF RecsOk

LEMMA WritesKept ==
  ASSUME WritesOk, EventsOk, Grows, UNCHANGED writes, Len(recs) \in Nat, Len(recs') \in Nat,
         Len(recs) <= Len(recs')
  PROVE  WritesOk'
  <1>1. \A i \in 1..Len(writes) : writes[i].rec \in 1..Len(recs') /\ Snap(writes[i])'
    BY SnapGrows DEF WritesOk
  <1>. QED
    BY <1>1 DEF WritesOk

LEMMA MemoryKept ==
  ASSUME MemoryOk, EventsOk, Grows, UNCHANGED <<row, recs, writes, outdated, adrift>>,
         runs' \in {0, runs}
  PROVE  MemoryOk'
  <1>1. RowOk'
    BY RowKept DEF MemoryOk
  <1>2. RecsOk' /\ Len(recs) \in Nat
    BY RecsKept DEF MemoryOk, RecsOk
  <1>3. WritesOk'
    BY <1>2, WritesKept DEF MemoryOk
  <1>4. MirrorOk'
    BY DEF MemoryOk, MirrorOk, Live, Mirrors
  <1>. QED
    BY <1>1, <1>2, <1>3, <1>4 DEF MemoryOk

\* A record changes in nothing that its row knows.
LEMMA SilenceKeeps ==
  ASSUME MemoryOk, EventsOk, Grows, UNCHANGED <<row, runs, writes, outdated, adrift>>,
         NEW silent \in BOOLEAN,
         recs' = IF runs = 0 THEN recs ELSE [recs EXCEPT ![runs].silent = silent]
  PROVE  MemoryOk' /\ Len(recs') = Len(recs)
  <1>1. RowOk'
    BY RowKept DEF MemoryOk
  <1>2. CASE runs = 0
    BY <1>2, MemoryKept
  <1>3. CASE runs # 0
    <2> DEFINE r == [recs[runs] EXCEPT !.silent = silent]
    <2>1. recs \in Seq(Rec) /\ runs \in 1..Len(recs)
      BY <1>3 DEF MemoryOk, RecsOk
    <2>2. recs[runs] \in Rec
      BY <2>1
    <2>3. /\ r \in Rec /\ r.status = recs[runs].status /\ r.relay = recs[runs].relay
          /\ r.persisted = recs[runs].persisted /\ r.msgs = recs[runs].msgs
      <3>1. PICK q \in Rec : q = recs[runs]
        BY <2>2
      <3>2. r = [status |-> q.status, relay |-> q.relay, persisted |-> q.persisted,
                 msgs |-> q.msgs, silent |-> silent]
        BY <3>1 DEF Rec
      <3>3. /\ q.status \in Statuses /\ q.relay \in 0..MaxEvents /\ q.persisted \in 0..MaxEvents
            /\ q.msgs \in SUBSET Messages
        BY DEF Rec
      <3> HIDE DEF r
      <3>. QED
        BY <3>1, <3>2, <3>3, Zenon DEF Rec
    <2>e. recs' = [recs EXCEPT ![runs] = r]
      BY <1>3
    <2> HIDE DEF r
    <2>4. recs' \in Seq(Rec) /\ Put(recs, recs', runs, r)
      BY <2>1, <2>3, <2>e, SeqPut
    <2>5. \A i \in 1..Len(recs) : recs'[i].status = recs[i].status /\ recs'[i].relay = recs[i].relay
                                  /\ recs'[i].persisted = recs[i].persisted /\ recs'[i].msgs = recs[i].msgs
      BY <2>3, <2>4 DEF Put
    <2>6. \A i \in 1..Len(recs') : (Snap(recs[i]) /\ Past(recs[i].persisted))'
      <3>1. ASSUME NEW i \in 1..Len(recs), NEW q, q = recs[i]
            PROVE  (Snap(recs[i]) /\ Past(recs[i].persisted))'
        <4>1. Snap(q) /\ Past(q.persisted)
          BY <3>1 DEF MemoryOk, RecsOk
        <4>2. Snap(q)' /\ Past(q.persisted)'
          BY <4>1, SnapGrows
        <4>. QED
          BY <2>5, <3>1, <4>2 DEF Snap
      <3>. QED
        BY <2>4, <3>1 DEF Put
    <2>7. RecsOk'
      BY <2>4, <2>6 DEF MemoryOk, RecsOk, Put
    <2>8. WritesOk'
      BY <2>1, <2>4, WritesKept DEF MemoryOk, Put
    <2>9. MirrorOk'
      BY <2>1, <2>5 DEF MemoryOk, MirrorOk, Live, Mirrors
    <2>. QED
      BY <1>1, <2>4, <2>7, <2>8, <2>9 DEF MemoryOk, Put
  <1>. QED
    BY <1>2, <1>3

\* The writes after a caller has joined the chain.
Joined(caller) ==
    \A i \in 1..Len(writes') :
        writes'[i].by = caller \/ (i \in 1..Len(writes) /\ writes'[i].by = writes[i].by)

LEMMA WriteJoins ==
  ASSUME WritesOk, EventsOk, Grows, Len(recs) \in Nat, Len(recs') \in Nat, Len(recs) <= Len(recs'),
         NEW w \in Write, Snap(w), w.rec \in 1..Len(recs'),
         \A i \in 1..Len(writes) : writes[i].by # w.by, writes' = Append(writes, w)
  PROVE  /\ WritesOk' /\ Joined(w.by) /\ writes' # <<>> /\ writes'[Len(writes')] = w
         /\ Len(writes') = Len(writes) + 1
  <1>1. writes \in Seq(Write)
    BY DEF WritesOk
  <1>2. /\ writes' \in Seq(Write) /\ Len(writes') = Len(writes) + 1 /\ writes'[Len(writes')] = w
        /\ writes' # <<>>
        /\ \A i \in 1..Len(writes') : (i \in 1..Len(writes) /\ writes'[i] = writes[i])
                                      \/ (i = Len(writes') /\ writes'[i] = w)
    BY <1>1, SeqPush
  <1>3. \A i \in 1..Len(writes') : (writes[i].rec \in 1..Len(recs) /\ Snap(writes[i]))'
    <2> SUFFICES ASSUME NEW i \in 1..Len(writes')
                 PROVE  (writes[i].rec \in 1..Len(recs) /\ Snap(writes[i]))'
      OBVIOUS
    <2>1. PICK q : q = writes'[i]
      OBVIOUS
    <2>2. q.rec \in 1..Len(recs') /\ Snap(q)
      BY <1>2, <2>1 DEF WritesOk
    <2>3. Snap(q)'
      BY <2>2, SnapGrows
    <2>. QED
      BY <2>1, <2>2, <2>3
  <1>4. \A i, j \in 1..Len(writes') : writes'[i].by = writes'[j].by => i = j
    BY <1>2 DEF WritesOk
  <1>. QED
    BY <1>2, <1>3, <1>4 DEF WritesOk, Joined

\* A caller changes the live record and takes its snapshot.
LEMMA SnapshotKeeps ==
  ASSUME MemoryOk, EventsOk, Grows, UNCHANGED <<row, runs, outdated, adrift>>, runs # 0,
         NEW r \in Rec, Snap(r), Past(r.persisted),
         recs' \in Seq(Rec), Put(recs, recs', runs, r),
         NEW caller \in Writers, \A i \in 1..Len(writes) : writes[i].by # caller,
         writes' = Persist(writes, runs, r, caller)
  PROVE  MemoryOk' /\ Len(recs') = Len(recs) /\ Joined(caller)
  <1> DEFINE w == [rec |-> runs, status |-> r.status, relay |-> r.relay, msgs |-> r.msgs,
                   by |-> caller]
  <1>1. recs \in Seq(Rec) /\ runs \in 1..Len(recs) /\ Len(recs) \in Nat /\ Len(recs') = Len(recs)
    BY DEF MemoryOk, RecsOk, Put
  <1>2. w \in Write /\ w.rec = runs /\ w.by = caller /\ w.status = r.status /\ w.relay = r.relay
        /\ Snap(w)
    <2>1. r.status \in Statuses /\ r.relay \in 0..MaxEvents /\ r.msgs \in SUBSET Messages
      BY DEF Rec
    <2>2. w \in Write
      BY <1>1, <2>1 DEF Write
    <2>. QED
      BY <2>2 DEF Snap
  <1>3. writes' = Append(writes, w)
    BY DEF Persist
  <1> HIDE DEF w
  <1>4. /\ WritesOk' /\ Joined(caller) /\ writes' # <<>> /\ writes'[Len(writes')] = w
    BY <1>1, <1>2, <1>3, WriteJoins DEF MemoryOk
  <1>5. RowOk'
    BY RowKept DEF MemoryOk
  <1>6. RecsOk'
    <2>1. \A i \in 1..Len(recs') : (Snap(recs[i]) /\ Past(recs[i].persisted))'
      <3> SUFFICES ASSUME NEW i \in 1..Len(recs')
                   PROVE  (Snap(recs[i]) /\ Past(recs[i].persisted))'
        OBVIOUS
      <3>1. PICK q : q = recs'[i]
        OBVIOUS
      <3>2. Snap(q) /\ Past(q.persisted)
        BY <1>1, <3>1 DEF Put, MemoryOk, RecsOk
      <3>3. Snap(q)' /\ Past(q.persisted)'
        BY <3>2, SnapGrows
      <3>. QED
        BY <3>1, <3>3
    <2>. QED
      BY <1>1, <2>1 DEF MemoryOk, RecsOk
  <1>7. MirrorOk'
    BY <1>2, <1>4 DEF MirrorOk, Mirrors, Put
  <1>. QED
    BY <1>1, <1>4, <1>5, <1>6, <1>7 DEF MemoryOk

LEMMA BecomesKeeps ==
  ASSUME MemoryOk, EventsOk, Grows, UNCHANGED <<row, adrift>>, NEW status \in Statuses,
         NEW caller \in Writers, \A i \in 1..Len(writes) : writes[i].by # caller,
         Becomes(status, caller)
  PROVE  /\ MemoryOk' /\ Len(recs') = Len(recs) /\ Joined(caller) /\ Live
         /\ UNCHANGED <<runs, deferrals, outdated>>
  <1> DEFINE r == [recs[runs] EXCEPT !.status = status, !.silent = FALSE]
  <1>1. recs \in Seq(Rec) /\ runs \in 1..Len(recs) /\ runs # 0 /\ Live
    BY DEF MemoryOk, RecsOk, Becomes, Live
  <1>2. recs[runs] \in Rec
    BY <1>1
  <1>3. r \in Rec /\ r.relay = recs[runs].relay /\ r.persisted = recs[runs].persisted
        /\ r.msgs = recs[runs].msgs
    BY <1>2 DEF Rec
  <1>4. recs' = [recs EXCEPT ![runs] = r] /\ writes' = Persist(writes, runs, recs'[runs], caller)
        /\ UNCHANGED <<runs, deferrals, outdated>>
    BY DEF Becomes
  <1>5. Snap(r) /\ Past(r.persisted)
    BY <1>1, <1>3 DEF MemoryOk, RecsOk, Snap
  <1> HIDE DEF r
  <1>6. recs' \in Seq(Rec) /\ Put(recs, recs', runs, r)
    BY <1>1, <1>3, <1>4, SeqPut
  <1>7. writes' = Persist(writes, runs, r, caller)
    BY <1>4, <1>6 DEF Put
  <1>8. MemoryOk' /\ Len(recs') = Len(recs) /\ Joined(caller)
    BY <1>1, <1>3, <1>4, <1>5, <1>6, <1>7, SnapshotKeeps
  <1>. QED
    BY <1>1, <1>4, <1>8

\* A new record joins the ones that were made.
LEMMA RecordJoins ==
  ASSUME RecsOk, EventsOk, Grows, Len(recs) < MaxRecords, NEW r \in Rec, Snap(r), Past(r.persisted),
         recs' = Append(recs, r), runs' \in 0..(Len(recs) + 1)
  PROVE  /\ RecsOk' /\ Len(recs) \in Nat /\ Len(recs') = Len(recs) + 1 /\ recs'[Len(recs')] = r
         /\ \A i \in 1..Len(recs) : recs'[i] = recs[i]
  <1>1. recs \in Seq(Rec)
    BY DEF RecsOk
  <1>2. /\ recs' \in Seq(Rec) /\ Len(recs') = Len(recs) + 1 /\ recs'[Len(recs')] = r
        /\ \A i \in 1..Len(recs') : (i \in 1..Len(recs) /\ recs'[i] = recs[i])
                                    \/ (i = Len(recs') /\ recs'[i] = r)
        /\ \A i \in 1..Len(recs) : recs'[i] = recs[i]
    BY <1>1, SeqPush
  <1>3. \A i \in 1..Len(recs') : (Snap(recs[i]) /\ Past(recs[i].persisted))'
    <2> SUFFICES ASSUME NEW i \in 1..Len(recs')
                 PROVE  (Snap(recs[i]) /\ Past(recs[i].persisted))'
      OBVIOUS
    <2>1. PICK q : q = recs'[i]
      OBVIOUS
    <2>2. Snap(q) /\ Past(q.persisted)
      BY <1>2, <2>1 DEF RecsOk
    <2>3. Snap(q)' /\ Past(q.persisted)'
      BY <2>2, SnapGrows
    <2>. QED
      BY <2>1, <2>3
  <1>4. Len(recs) \in Nat /\ MaxRecords \in Nat
    BY <1>1, CapabilityAssumption
  <1>. QED
    BY <1>2, <1>3, <1>4 DEF RecsOk

\* What adopt() and recover() make of an answer.
LEMMA RegisterKeeps ==
  ASSUME MemoryOk, EventsOk, Grows, UNCHANGED <<row, adrift>>,
         NEW answer \in Rows, Snap(answer), NEW status \in Statuses,
         Register(answer, status), status = answer.status, UNCHANGED writes
  PROVE  MemoryOk' /\ Len(recs) <= Len(recs') /\ Len(recs) \in Nat /\ runs' \in 1..Len(recs')
  <1> DEFINE r == [status |-> status, relay |-> answer.relay, persisted |-> answer.relay,
                   msgs |-> answer.msgs, silent |-> FALSE]
  <1>1. /\ Len(recs) < MaxRecords /\ recs' = Append(recs, r) /\ runs' = Len(recs) + 1
        /\ outdated' = IF answer # row \/ writes # <<>> THEN outdated \cup {runs'} ELSE outdated
    BY DEF Register, NewRecord, Rows
  <1>2. r \in Rec /\ Snap(r) /\ Past(r.persisted) /\ r.status = status /\ r.relay = answer.relay
    <2>1. answer.relay \in 0..MaxEvents /\ answer.msgs \in SUBSET Messages
      BY DEF Rows
    <2>. QED
      BY <2>1 DEF Rec, Snap
  <1> HIDE DEF r
  <1>3. Len(recs) \in Nat
    BY DEF MemoryOk, RecsOk
  <1>4. /\ RecsOk' /\ Len(recs') = Len(recs) + 1 /\ recs'[Len(recs')] = r
    BY <1>1, <1>2, <1>3, RecordJoins DEF MemoryOk
  <1>5. RowOk' /\ WritesOk'
    BY <1>3, <1>4, RowKept, WritesKept DEF MemoryOk
  <1>6. MirrorOk'
    BY <1>1, <1>2, <1>4 DEF MirrorOk, Mirrors
  <1>. QED
    BY <1>1, <1>3, <1>4, <1>5, <1>6 DEF MemoryOk

\* A record that has ended and its first write are made together: start() and
\* the adoption of a cancelled run.
LEMMA RecordWithWriteKeeps ==
  ASSUME MemoryOk, EventsOk, Grows, UNCHANGED <<row, adrift>>, Len(recs) < MaxRecords,
         NEW r \in Rec, Snap(r), Past(r.persisted), recs' = Append(recs, r),
         NEW caller \in Writers, \A i \in 1..Len(writes) : writes[i].by # caller,
         writes' = Persist(writes, Len(recs) + 1, r, caller),
         runs' \in 0..(Len(recs) + 1), ~Live'
  PROVE  /\ MemoryOk' /\ Len(recs) \in Nat /\ Len(recs) <= Len(recs') /\ Joined(caller)
         /\ Len(writes') = Len(writes) + 1
         /\ writes'[Len(writes')].by = caller /\ (Mirrors(writes[Len(writes)], writes[Len(writes)].rec))'
  <1> DEFINE w == [rec |-> Len(recs) + 1, status |-> r.status, relay |-> r.relay, msgs |-> r.msgs,
                   by |-> caller]
  <1>1. /\ RecsOk' /\ Len(recs) \in Nat /\ Len(recs') = Len(recs) + 1 /\ recs'[Len(recs')] = r
    BY RecordJoins DEF MemoryOk
  <1>2. w \in Write /\ w.rec = Len(recs') /\ w.by = caller /\ w.status = r.status /\ w.relay = r.relay
        /\ Snap(w)
    <2>1. r.status \in Statuses /\ r.relay \in 0..MaxEvents /\ r.msgs \in SUBSET Messages
      BY DEF Rec
    <2>2. w \in Write
      BY <1>1, <2>1 DEF Write
    <2>. QED
      BY <1>1, <2>2 DEF Snap
  <1>3. writes' = Append(writes, w)
    BY DEF Persist
  <1> HIDE DEF w
  <1>4. w.rec \in 1..Len(recs')
    BY <1>1, <1>2
  <1>5. /\ WritesOk' /\ Joined(caller) /\ writes'[Len(writes')] = w /\ Len(writes') = Len(writes) + 1
    BY <1>1, <1>2, <1>3, <1>4, WriteJoins DEF MemoryOk
  <1>6. RowOk' /\ MirrorOk'
    BY RowKept DEF MemoryOk, MirrorOk
  <1>. QED
    BY <1>1, <1>2, <1>5, <1>6 DEF MemoryOk, Mirrors

----------------------------------------------------------------------------
(* The handlers and the watchdog.                                          *)

\* The records made are kept.
Lengthens == Len(recs) \in Nat /\ Len(recs') \in Nat /\ Len(recs) <= Len(recs')

LEMMA CallGrows ==
  ASSUME EventsOk, Grows, Lengthens
  PROVE  \A m, c : CallOk(m, c) => CallOk(m, c)'
  <1>1. \A n \in 1..Len(recs) : n \in 1..Len(recs')
    BY DEF Lengthens
  <1>. QED
    BY <1>1, SnapGrows DEF CallOk, Grows

LEMMA CallsKept ==
  ASSUME CallsOk, EventsOk, Grows, Lengthens, UNCHANGED call
  PROVE  CallsOk'
  BY CallGrows DEF CallsOk

\* One call goes on.
LEMMA CallSet ==
  ASSUME CallsOk, EventsOk, Grows, Lengthens, NEW m \in Messages, NEW c \in Call, CallOk(m, c)',
         call' = [call EXCEPT ![m] = c]
  PROVE  /\ CallsOk' /\ call'[m] = c
         /\ \A n \in Messages : n # m => call'[n] = call[n]
  <1>1. call \in [Messages -> Call] /\ call' \in [Messages -> Call] /\ call'[m] = c
        /\ \A n \in Messages : n # m => call'[n] = call[n]
    BY DEF CallsOk
  <1>2. \A n \in Messages : CallOk(n, call[n])'
    <2> SUFFICES ASSUME NEW n \in Messages
                 PROVE  CallOk(n, call[n])'
      OBVIOUS
    <2>1. CASE n = m
      BY <1>1, <2>1 DEF CallOk
    <2>2. CASE n # m
      <3>1. PICK q : q = call[n]
        OBVIOUS
      <3>2. CallOk(n, q)'
        BY <3>1, CallGrows DEF CallsOk
      <3>. QED
        BY <1>1, <2>2, <3>1, <3>2 DEF CallOk
    <2>. QED
      BY <2>1, <2>2
  <1>. QED
    BY <1>1, <1>2 DEF CallsOk

LEMMA CancelKept ==
  ASSUME CancelOk, EventsOk, Grows, UNCHANGED cancel
  PROVE  CancelOk'
  BY SnapGrows DEF CancelOk

LEMMA DogKept ==
  ASSUME DogOk, EventsOk, Grows, UNCHANGED dog
  PROVE  DogOk'
  BY SnapGrows DEF DogOk

LEMMA StartKept ==
  ASSUME StartOk, UNCHANGED start,
         \/ start.pc \notin {"new", "writing"}
         \/ /\ UNCHANGED <<runs, row, cancel, writes, recs>> /\ dog'.seen.status = dog.seen.status
            /\ \A m \in Messages : call[m].pc = "new" => call'[m].pc = "new"
  PROVE  StartOk'
  BY DEF StartOk, Unborn, Mirrors

\* A caller that does not wait has no write in flight.
LEMMA NoWriteOf ==
  ASSUME WaitersOk, NEW b, ~Waits(b)
  PROVE  \A i \in 1..Len(writes) : writes[i].by # b
  BY DEF WaitersOk

LEMMA WriteTyped ==
  ASSUME WritesOk
  PROVE  /\ Len(writes) \in Nat
         /\ \A i \in 1..Len(writes) : writes[i] \in Write /\ writes[i].by \in Writers
  <1>1. \A i \in 1..Len(writes) : writes[i] \in Write
    BY DEF WritesOk
  <1>. QED
    BY <1>1 DEF WritesOk, Write

LEMMA WaitersKept ==
  ASSUME WritesOk, WaitersOk, UNCHANGED writes, \A b \in Writers : Waits(b) => Waits(b)'
  PROVE  WaitersOk'
  <1>1. \A i \in 1..Len(writes) : writes[i].by \in Writers
    BY WriteTyped
  <1>. QED
    BY <1>1 DEF WaitersOk

LEMMA WaiterJoins ==
  ASSUME WritesOk, WaitersOk, NEW caller, Joined(caller), (Waits(caller))',
         \A b \in Writers : b # caller /\ Waits(b) => Waits(b)'
  PROVE  WaitersOk'
  <1>1. \A i \in 1..Len(writes) : writes[i].by \in Writers
    BY WriteTyped
  <1>. QED
    BY <1>1 DEF WaitersOk, Joined

----------------------------------------------------------------------------
(* The box, the session and the relay.                                     *)

\* A step that leaves the store's row, the memory and the handlers alone.
LEMMA BoxSideStep ==
  ASSUME RunInv, EventsOk', Grows, UNCHANGED <<row, adrift, recs, runs, writes, outdated>>,
         UNCHANGED <<start, call, cancel, dog>>,
         BoxOk', RelayOk', SessionOk',
         relay.pc \in {"committing", "ending"} => relay'.pc \in {"committing", "ending"}
  PROVE  RunInv'
  <1>1. MemoryOk'
    BY MemoryKept DEF RunInv
  <1>2. Lengthens
    BY DEF RunInv, MemoryOk, RecsOk, Lengthens
  <1>3. CallsOk' /\ CancelOk' /\ DogOk'
    BY <1>2, CallsKept, CancelKept, DogKept DEF RunInv
  <1>4. StartOk'
    BY StartKept DEF RunInv
  <1>5. WaitersOk'
    <2>1. \A b \in Writers : Waits(b) => Waits(b)'
      BY DEF Waits
    <2>. QED
      BY <2>1, WaitersKept DEF RunInv, MemoryOk
  <1>. QED
    BY <1>1, <1>3, <1>4, <1>5 DEF RunInv

\* A box emits an event.
LEMMA EventJoins ==
  ASSUME RunInv, emitted < MaxEvents, emitted' = emitted + 1, UNCHANGED <<saved, acked, delivered>>,
         UNCHANGED relay, NEW kind \in {"turn"} \cup Terminal,
         NEW e, e = [id |-> emitted', kind |-> kind],
         NEW pod \in {"live", "over"}, NEW turns \in Int,
         box' = [box EXCEPT !.pod = pod, !.turns = turns, !.queue = Append(@, e)]
  PROVE  EventsOk' /\ Grows /\ BoxOk' /\ RelayOk'
  <1>1. emitted \in Nat /\ MaxEvents \in Nat /\ emitted + 1 \in 0..MaxEvents
    BY CapabilityAssumption DEF RunInv, EventsOk
  <1>2. e \in RunEvent /\ e.id = emitted + 1 /\ e.kind = kind
    BY <1>1 DEF RunEvent, EventKinds
  <1>3. box \in Box /\ box.queue \in Seq(RunEvent)
    BY DEF RunInv, BoxOk, Box
  <1>4. /\ box'.queue = Append(box.queue, e) /\ box'.pod = pod /\ box'.turns = turns
        /\ box'.pending = box.pending /\ box'.accepted = box.accepted
    BY <1>3 DEF Box
  <1>5. /\ box'.queue \in Seq(RunEvent) /\ Len(box'.queue) = Len(box.queue) + 1
        /\ \A i \in 1..Len(box'.queue) : (i \in 1..Len(box.queue) /\ box'.queue[i] = box.queue[i])
                                        \/ (i = Len(box'.queue) /\ box'.queue[i] = e)
    BY <1>2, <1>3, <1>4, SeqPush
  <1>6. box' \in Box
    BY <1>3, <1>5 DEF Box
  <1>7. BoxOk'
    BY <1>2, <1>4, <1>5, <1>6 DEF RunInv, BoxOk, Terminal
  <1>8. \A f \in KnownEvents' : f \in KnownEvents \/ f = e
    BY <1>4, <1>5 DEF KnownEvents
  <1>9. \A f \in KnownEvents : f # NoEvent => f.id \in 1..emitted
    BY DEF RunInv, EventsOk
  <1>10. NoEvent.id = 0
    BY DEF NoEvent
  <1>11. Grows
    BY <1>1, <1>2, <1>8 DEF Grows
  <1>12. \A f \in KnownEvents' : f = NoEvent \/ (f.id \in 1..emitted' /\ f.kind # "none")
    BY <1>1, <1>2, <1>8 DEF RunInv, EventsOk, Terminal
  <1>13. \A f, g \in KnownEvents' : f.id = g.id => f = g
    BY <1>1, <1>2, <1>8, <1>9, <1>10 DEF RunInv, EventsOk
  <1>14. EventsOk'
    BY <1>1, <1>12, <1>13 DEF RunInv, EventsOk
  <1>. QED
    BY <1>7, <1>11, <1>14 DEF RunInv, RelayOk

LEMMA TurnEndsKeeps ==
  ASSUME RunInv, TurnEnds
  PROVE  RunInv'
  <1> DEFINE e == [id |-> emitted', kind |-> "turn"]
  <1>1. box \in Box /\ box.turns \in Int /\ box.pod = "live"
    BY DEF RunInv, BoxOk, Box, TurnEnds
  <1>2. box' = [box EXCEPT !.pod = "live", !.turns = box.turns - 1, !.queue = Append(@, e)]
    BY <1>1 DEF TurnEnds, Box
  <1>3. EventsOk' /\ Grows /\ BoxOk' /\ RelayOk'
    <2>1. /\ emitted < MaxEvents /\ emitted' = emitted + 1 /\ UNCHANGED <<saved, acked, delivered>>
          /\ UNCHANGED relay /\ box.turns - 1 \in Int /\ "live" \in {"live", "over"}
          /\ "turn" \in {"turn"} \cup Terminal
      BY <1>1 DEF TurnEnds, store, sessionSide
    <2>. QED
      BY <1>2, <2>1, EventJoins, Zenon
  <1>4. SessionOk'
    BY DEF RunInv, SessionOk, TurnEnds, memory, sessionSide
  <1>. QED
    BY <1>3, <1>4, BoxSideStep DEF TurnEnds, store, memory, sessionSide, handlers

LEMMA SessionEndsKeeps ==
  ASSUME RunInv, SessionEnds
  PROVE  RunInv'
  <1>1. PICK kind \in Terminal :
          box' = [box EXCEPT !.pod = "over", !.turns = 0,
                             !.queue = Append(@, [id |-> emitted', kind |-> kind])]
    BY Zenon DEF SessionEnds
  <1>2. EventsOk' /\ Grows /\ BoxOk' /\ RelayOk'
    <2>1. /\ emitted < MaxEvents /\ emitted' = emitted + 1 /\ UNCHANGED <<saved, acked, delivered>>
          /\ UNCHANGED relay /\ 0 \in Int /\ "over" \in {"live", "over"}
          /\ kind \in {"turn"} \cup Terminal
      BY DEF SessionEnds, store, sessionSide
    <2>. QED
      BY <1>1, <2>1, EventJoins, Zenon
  <1>3. SessionOk'
    BY DEF RunInv, SessionOk, SessionEnds, memory, sessionSide
  <1>. QED
    BY <1>2, <1>3, BoxSideStep DEF SessionEnds, store, memory, sessionSide, handlers

LEMMA NoBoxIsBox ==
  NoBox \in Box /\ NoBox.queue = <<>> /\ NoBox.pending = NoEvent /\ NoBox.accepted = {}
  BY CapabilityAssumption DEF NoBox, Box, NoEvent, RunEvent, EventKinds

\* The box forgets its events, or none.
LEMMA BoxEmpties ==
  ASSUME RunInv, UNCHANGED <<saved, acked, emitted, delivered, relay>>, box' = box \/ box' = NoBox
  PROVE  EventsOk' /\ Grows /\ BoxOk' /\ RelayOk'
  <1>1. CASE box' = box
    <2>1. EventsOk' /\ Grows
      BY <1>1, NothingHappens DEF RunInv
    <2>. QED
      BY <1>1, <2>1 DEF RunInv, BoxOk, RelayOk
  <1>2. CASE box' = NoBox
    <2>1. NoBox \in Box /\ NoBox.queue = <<>> /\ NoBox.pending = NoEvent /\ NoBox.accepted = {}
      BY NoBoxIsBox
    <2>2. \A e \in KnownEvents' : e \in KnownEvents \cup {NoEvent}
      BY <1>2, <2>1 DEF KnownEvents
    <2>3. EventsOk' /\ Grows
      BY <2>2, NothingNew DEF RunInv, EventsOk
    <2>. QED
      BY <1>2, <2>1, <2>3 DEF RunInv, BoxOk, RelayOk
  <1>. QED
    BY <1>1, <1>2

LEMMA StopLandsKeeps ==
  ASSUME RunInv, StopLands
  PROVE  RunInv'
  <1>1. EventsOk' /\ Grows /\ BoxOk' /\ RelayOk'
    BY BoxEmpties DEF StopLands, store, sessionSide
  <1>2. SessionOk'
    BY DEF RunInv, SessionOk, StopLands, memory, sessionSide
  <1>. QED
    BY <1>1, <1>2, BoxSideStep DEF StopLands, store, memory, sessionSide, handlers

\* A box that changes in nothing but its pod, its turns and what it accepted.
SameEvents(b) == b.queue = box.queue /\ b.pending = box.pending

\* The relay keeps its event or forgets it.
LEMMA RelayMoves ==
  ASSUME RunInv, UNCHANGED <<acked, emitted>>, saved \subseteq saved', saved' \subseteq 1..MaxEvents,
         delivered \subseteq delivered', SameEvents(box'),
         relay'.event \in {relay.event, NoEvent}
  PROVE  EventsOk' /\ Grows
  <1>1. \A e \in KnownEvents' : e \in KnownEvents \cup {NoEvent}
    BY DEF KnownEvents, SameEvents
  <1>. QED
    BY <1>1, NothingNew DEF RunInv, EventsOk

LEMMA AcquireBoxKeeps ==
  ASSUME RunInv, AcquireBox
  PROVE  RunInv'
  <1>1. SessionOk' /\ UNCHANGED relay
    BY DEF RunInv, SessionOk, AcquireBox, memory, SessionPcs
  <1>2. EventsOk' /\ Grows /\ BoxOk' /\ RelayOk'
    <2>1. CASE box.pod # "absent"
      BY <2>1, <1>1, BoxEmpties DEF AcquireBox, store
    <2>2. CASE box.pod = "absent"
      <3>1. box' = [NoBox EXCEPT !.pod = "empty"]
        BY <2>2 DEF AcquireBox
      <3>2. box' \in Box /\ box'.queue = <<>> /\ box'.pending = NoEvent /\ box'.accepted = {}
        BY <3>1, NoBoxIsBox DEF Box
      <3>3. \A e \in KnownEvents' : e \in KnownEvents \cup {NoEvent}
        BY <1>1, <3>2 DEF KnownEvents
      <3>4. EventsOk' /\ Grows
        BY <3>3, NothingNew DEF RunInv, EventsOk, AcquireBox, store
      <3>. QED
        BY <1>1, <3>2, <3>4 DEF RunInv, BoxOk, RelayOk, AcquireBox, store
    <2>. QED
      BY <2>1, <2>2
  <1>. QED
    BY <1>1, <1>2, BoxSideStep DEF AcquireBox, store, memory, handlers

\* Beginning or joining a setup.
LEMMA EnsureKeeps ==
  ASSUME SessionOk, NEW opening, Ensure(opening) \/ UNCHANGED session, UNCHANGED relay,
         deferrals' \in 0..MaxDeferrals
  PROVE  SessionOk'
  BY DEF SessionOk, Ensure, SessionPcs

LEMMA ReattachKeeps ==
  ASSUME RunInv, Reattach
  PROVE  RunInv'
  <1>1. SessionOk'
    BY EnsureKeeps DEF RunInv, SessionOk, Reattach, memory
  <1>2. EventsOk' /\ Grows /\ BoxOk' /\ RelayOk'
    BY BoxEmpties DEF Reattach, store, boxSide
  <1>. QED
    BY <1>1, <1>2, BoxSideStep DEF Reattach, store, memory, handlers

\* The relay goes from one step to the next.
LEMMA RelaySteps ==
  ASSUME RunInv, NEW pc \in RelayPcs, NEW replays \in BOOLEAN,
         relay' = [relay EXCEPT !.pc = pc, !.replays = replays],
         UNCHANGED <<acked, emitted, box, delivered>>, saved \subseteq saved', saved' \subseteq 1..MaxEvents,
         pc \in StoredPcs /\ relay.event.kind = "turn" => relay.event.id \in saved',
         Fits(pc, relay.event)
  PROVE  EventsOk' /\ Grows /\ BoxOk' /\ RelayOk'
  <1>1. relay \in Relay
    BY DEF RunInv, RelayOk
  <1>2. relay' \in Relay /\ relay'.event = relay.event /\ relay'.pc = pc
    BY <1>1 DEF Relay
  <1>3. EventsOk' /\ Grows
    BY <1>2, RelayMoves DEF SameEvents
  <1>. QED
    BY <1>2, <1>3 DEF RunInv, BoxOk, RelayOk

\* The same, by RelayTo().
LEMMA RelayGoes ==
  ASSUME RunInv, NEW pc \in RelayPcs, RelayTo(pc),
         UNCHANGED <<acked, emitted, box, delivered>>, saved \subseteq saved', saved' \subseteq 1..MaxEvents,
         pc \in StoredPcs /\ relay.event.kind = "turn" => relay.event.id \in saved',
         Fits(pc, relay.event)
  PROVE  EventsOk' /\ Grows /\ BoxOk' /\ RelayOk' /\ relay'.pc = pc
  <1>1. relay \in Relay
    BY DEF RunInv, RelayOk
  <1>2. relay.replays \in BOOLEAN /\ relay'.pc = pc
        /\ relay' = [relay EXCEPT !.pc = pc, !.replays = relay.replays]
    BY <1>1 DEF Relay, RelayTo
  <1>. QED
    BY <1>2, RelaySteps, Zenon

LEMMA ConnectKeeps ==
  ASSUME RunInv, Connect
  PROVE  RunInv'
  <1>1. relay \in Relay /\ saved \subseteq 1..MaxEvents
        /\ (relay.event.kind = "turn" => relay.event.id \in saved)
    BY DEF RunInv, RelayOk, EventsOk, Connect, StoredPcs
  <1>2. /\ relay.pc = "connect" /\ UNCHANGED <<saved, acked, emitted, box, delivered, session, deferrals>>
        /\ relay' = [relay EXCEPT !.pc = "stream", !.replays = TRUE]
           \/ relay' = [relay EXCEPT !.pc = "lost"]
    BY DEF Connect, store, boxSide, memory
  <1>3. EventsOk' /\ Grows /\ BoxOk' /\ RelayOk' /\ relay'.pc \in {"stream", "lost"}
    <2>1. CASE relay' = [relay EXCEPT !.pc = "stream", !.replays = TRUE]
      <3>1. relay'.pc = "stream"
        BY <1>1, <2>1 DEF Relay
      <3>2. "stream" \in RelayPcs /\ TRUE \in BOOLEAN /\ "stream" \notin {"save", "resave"}
        BY DEF RelayPcs
      <3>. QED
        BY <1>1, <1>2, <2>1, <3>1, <3>2, RelaySteps, Zenon DEF Fits
    <2>2. CASE relay' = [relay EXCEPT !.pc = "lost"]
      <3>1. RelayTo("lost") /\ "lost" \in RelayPcs /\ "lost" \notin {"save", "resave"}
        BY <2>2 DEF RelayPcs, RelayTo
      <3>. QED
        BY <1>1, <1>2, <3>1, RelayGoes DEF Fits
    <2>. QED
      BY <1>2, <2>1, <2>2
  <1>4. SessionOk'
    BY <1>2, <1>3 DEF RunInv, SessionOk
  <1>. QED
    BY <1>2, <1>3, <1>4, BoxSideStep DEF Connect, store, memory, handlers

\* What the relay's own steps leave alone.
RelayAlone ==
    /\ UNCHANGED <<row, adrift, recs, runs, deferrals, writes, outdated, start, call, cancel, dog>>
    /\ UNCHANGED <<acked, emitted, box, delivered, session>>

LEMMA RelayStepKeeps ==
  ASSUME RunInv, NEW pc \in RelayPcs \ {"off"}, RelayTo(pc), RelayAlone,
         relay.pc \notin {"off", "committing", "ending"},
         saved \subseteq saved', saved' \subseteq 1..MaxEvents,
         pc \in StoredPcs /\ relay.event.kind = "turn" => relay.event.id \in saved',
         Fits(pc, relay.event)
  PROVE  RunInv'
  <1>1. EventsOk' /\ Grows /\ BoxOk' /\ RelayOk' /\ relay'.pc = pc
    BY RelayGoes DEF RelayAlone
  <1>2. SessionOk'
    BY <1>1 DEF RunInv, SessionOk, RelayAlone
  <1>. QED
    BY <1>1, <1>2, BoxSideStep DEF RelayAlone

LEMMA StreamBreaksKeeps ==
  ASSUME RunInv, StreamBreaks
  PROVE  RunInv'
  <1>1. /\ relay.pc = "stream" /\ RelayTo("lost") /\ RelayAlone /\ UNCHANGED saved
    BY DEF StreamBreaks, RelayAlone, store, memory, boxSide, handlers
  <1>2. saved \subseteq 1..MaxEvents /\ (relay.event.kind = "turn" => relay.event.id \in saved)
    BY <1>1 DEF RunInv, RelayOk, EventsOk, StoredPcs
  <1>3. "lost" \in RelayPcs \ {"off"}
    BY DEF RelayPcs
  <1>. QED
    BY <1>1, <1>2, <1>3, RelayStepKeeps DEF Fits

LEMMA StreamLostKeeps ==
  ASSUME RunInv, StreamLost
  PROVE  RunInv'
  <1>1. /\ relay.pc = "lost" /\ RelayAlone /\ UNCHANGED saved
        /\ \E pc \in {"closing", "failing", "connect"} : RelayTo(pc)
    BY DEF StreamLost, RelayAlone, store, memory, boxSide, handlers
  <1>2. saved \subseteq 1..MaxEvents /\ (relay.event.kind = "turn" => relay.event.id \in saved)
    BY <1>1 DEF RunInv, RelayOk, EventsOk, StoredPcs
  <1>3. {"closing", "failing", "connect"} \subseteq RelayPcs \ {"off"}
    BY DEF RelayPcs
  <1>. QED
    BY <1>1, <1>2, <1>3, RelayStepKeeps DEF Fits

LEMMA SaveTurnKeeps ==
  ASSUME RunInv, SaveTurn
  PROVE  RunInv'
  <1>1. /\ relay.pc = "save" /\ RelayAlone
        /\ \/ RelayTo("commit") /\ saved' = saved \cup {relay.event.id}
           \/ /\ saved' \in {saved, saved \cup {relay.event.id}}
              /\ \E pc \in {"failing", "resave"} : RelayTo(pc)
    BY DEF SaveTurn, RelayAlone, memory, boxSide, handlers
  <1>2. saved \subseteq 1..MaxEvents /\ relay.event \in KnownEvents
    BY DEF RunInv, EventsOk, KnownEvents
  <1>3. relay.event.kind = "turn" /\ relay.event.id \in 1..MaxEvents
    <2>1. relay.event.kind = "turn"
      BY <1>1 DEF RunInv, RelayOk, Fits
    <2>2. NoEvent.kind = "none" /\ emitted \in 0..MaxEvents /\ MaxEvents \in Nat
      BY CapabilityAssumption DEF NoEvent, RunInv, EventsOk
    <2>. QED
      BY <1>2, <2>1, <2>2 DEF RunInv, EventsOk
  <1>4. {"failing", "resave", "commit"} \subseteq RelayPcs \ {"off"}
    BY DEF RelayPcs
  <1>. QED
    BY <1>1, <1>2, <1>3, <1>4, RelayStepKeeps DEF StoredPcs, Fits

LEMMA RetryStepKeeps ==
  ASSUME RunInv, RetryStep
  PROVE  RunInv'
  <1>1. /\ RelayAlone /\ UNCHANGED saved
        /\ \/ relay.pc = "resave" /\ \E pc \in {"failing", "save"} : RelayTo(pc)
           \/ relay.pc = "recommit" /\ \E pc \in {"failing", "commit"} : RelayTo(pc)
    BY DEF RetryStep, RelayAlone, store, memory, boxSide, handlers
  <1>2. /\ saved \subseteq 1..MaxEvents
        /\ relay.pc = "resave" => relay.event.kind = "turn"
        /\ relay.pc = "recommit" /\ relay.event.kind = "turn" => relay.event.id \in saved
        /\ relay.pc = "recommit" => relay.event.kind # "none"
    BY <1>1 DEF RunInv, RelayOk, EventsOk, StoredPcs, Fits
  <1>3. {"failing", "save", "commit"} \subseteq RelayPcs \ {"off"}
        /\ "failing" \notin StoredPcs /\ "save" \notin StoredPcs
    BY DEF RelayPcs, StoredPcs
  <1>4. CASE relay.pc = "resave"
    <2>1. PICK pc \in {"failing", "save"} : RelayTo(pc)
      BY <1>1, <1>4
    <2>. QED
      BY <1>1, <1>2, <1>3, <1>4, <2>1, RelayStepKeeps DEF Fits
  <1>5. CASE relay.pc = "recommit"
    <2>1. PICK pc \in {"failing", "commit"} : RelayTo(pc)
      BY <1>1, <1>5
    <2>. QED
      BY <1>1, <1>2, <1>3, <1>5, <2>1, RelayStepKeeps DEF Fits
  <1>. QED
    BY <1>1, <1>4, <1>5

\* The box drops the frame that the relay acknowledges, or the answer is lost.
LEMMA AckKeeps ==
  ASSUME RunInv, Ack
  PROVE  RunInv'
  <1>1. /\ relay.pc = "ack" /\ relay \in Relay /\ box \in Box /\ saved \subseteq 1..MaxEvents
        /\ relay.event.kind = "turn" => relay.event.id \in saved
    BY DEF RunInv, RelayOk, BoxOk, EventsOk, StoredPcs, Ack
  <1>2. /\ UNCHANGED <<row, adrift, recs, runs, deferrals, writes, outdated, start, call, cancel, dog>>
        /\ UNCHANGED <<saved, emitted, delivered, session>>
    BY DEF Ack, store, memory, handlers
  <1>3. \E pc \in {"closing", "stream", "lost"} : RelayTo(pc)
    BY DEF Ack
  <1>4. relay' \in Relay /\ relay'.event = relay.event /\ relay'.pc \in {"closing", "stream", "lost"}
    BY <1>1, <1>3 DEF Relay, RelayTo, RelayPcs
  <1>5. /\ box' = [box EXCEPT !.pending = NoEvent] /\ acked' = acked \cup {relay.event}
        \/ UNCHANGED <<box, acked>>
    BY DEF Ack
  <1>6. /\ box' \in Box /\ box'.queue = box.queue /\ box'.pending \in {box.pending, NoEvent}
        /\ box'.accepted = box.accepted
    <2>1. NoEvent \in RunEvent
      BY CapabilityAssumption DEF NoEvent, RunEvent, EventKinds
    <2>. QED
      BY <1>1, <1>5, <2>1 DEF Box
  <1>7. \A e \in KnownEvents' : e \in KnownEvents \cup {NoEvent}
    BY <1>4, <1>6 DEF KnownEvents
  <1>8. EventsOk' /\ Grows
    <2>1. \A e \in acked' : e \in acked \/ (e.kind = "turn" => e.id \in saved')
      BY <1>1, <1>2, <1>5
    <2>. QED
      BY <1>1, <1>2, <1>7, <2>1, NothingNew DEF RunInv
  <1>9. BoxOk' /\ RelayOk'
    BY <1>1, <1>2, <1>4, <1>6 DEF RunInv, BoxOk, RelayOk, Fits
  <1>10. SessionOk'
    BY <1>1, <1>2, <1>4 DEF RunInv, SessionOk
  <1>. QED
    BY <1>1, <1>2, <1>8, <1>9, <1>10, BoxSideStep

LEMMA NoRelayIsRelay ==
  NoRelay \in Relay /\ NoRelay.pc = "off" /\ NoRelay.event = NoEvent
  BY CapabilityAssumption DEF NoRelay, Relay, RelayPcs, NoEvent, RunEvent, EventKinds

LEMMA RelayClosesKeeps ==
  ASSUME RunInv, RelayCloses
  PROVE  RunInv'
  <1>1. /\ UNCHANGED <<row, adrift, recs, runs, deferrals, writes, outdated, start, call, cancel, dog>>
        /\ UNCHANGED <<saved, acked, emitted, delivered, box>>
        /\ relay.pc = "closing" /\ relay' = NoRelay /\ session' = NoSession
    BY DEF RelayCloses, store, memory, handlers
  <1>2. EventsOk' /\ Grows
    <2>1. saved \subseteq 1..MaxEvents
      BY DEF RunInv, EventsOk
    <2>. QED
      BY <1>1, <2>1, NoRelayIsRelay, RelayMoves DEF SameEvents
  <1>3. BoxOk' /\ RelayOk'
    BY <1>1, NoRelayIsRelay DEF RunInv, BoxOk, RelayOk, StoredPcs, Fits
  <1>4. SessionOk'
    BY <1>1, NoRelayIsRelay DEF RunInv, SessionOk, NoSession, SessionPcs
  <1>. QED
    BY <1>1, <1>2, <1>3, <1>4, BoxSideStep

----------------------------------------------------------------------------
(* The end of a session's setup, for everyone who joined it.               *)

LEMMA NothingKnown ==
  ASSUME EventsOk
  PROVE  NoRow \in Rows /\ Snap(NoRow) /\ NoRow.status = "none" /\ Past(0)
  <1>1. NoRow \in Rows /\ NoRow.relay = 0 /\ NoRow.msgs = {} /\ NoRow.status = "none"
    BY CapabilityAssumption DEF NoRow, Rows
  <1>2. emitted \in 0..MaxEvents /\ MaxEvents \in Nat /\ NoEvent.kind = "none"
    BY CapabilityAssumption DEF EventsOk, NoEvent
  <1>3. \A e \in KnownEvents : e.kind = "turn" => e.id \in 1..emitted
    BY <1>2 DEF EventsOk
  <1>4. Past(0)
    BY <1>2, <1>3 DEF Past
  <1>. QED
    BY <1>1, <1>4 DEF Snap

\* A call that is over forgets all but the number of times it was made.
Forgotten(c) == c.seen = NoRow /\ c.before = {} /\ c.rec = 0 /\ c.prev = "none"

LEMMA AtIsCall ==
  ASSUME NEW c \in Call, NEW pc \in CallPcs
  PROVE  /\ At(c, pc) \in Call /\ At(c, pc).pc = pc
         /\ pc \in {"ok", "failed"} => Forgotten(At(c, pc))
         /\ pc \notin {"ok", "failed"} =>
              /\ At(c, pc).seen = c.seen /\ At(c, pc).before = c.before
              /\ At(c, pc).rec = c.rec /\ At(c, pc).prev = c.prev
  <1>1. NewCall \in Call
    BY CapabilityAssumption DEF NewCall, Call, CallPcs, NoRow, Rows
  <1>2. CASE pc \in {"ok", "failed"}
    <2>1. At(c, pc) = [NewCall EXCEPT !.pc = pc, !.asks = c.asks]
      BY <1>2 DEF At
    <2>2. At(c, pc) \in Call /\ At(c, pc).pc = pc
      BY <1>1, <2>1 DEF Call
    <2>3. Forgotten(At(c, pc))
      BY <2>1 DEF NewCall, Forgotten
    <2>. QED
      BY <1>2, <2>2, <2>3
  <1>3. CASE pc \notin {"ok", "failed"}
    <2>1. At(c, pc) = [c EXCEPT !.pc = pc]
      BY <1>3 DEF At
    <2>. QED
      BY <1>3, <2>1 DEF Call
  <1>. QED
    BY <1>2, <1>3

\* A call in a state where nothing is asked of it but that its message was taken.
LEMMA ForgottenIsOk ==
  ASSUME EventsOk, NEW m, NEW c, Forgotten(c), c.pc \in {"ok", "failed"},
         c.pc = "ok" => m \in delivered
  PROVE  CallOk(m, c)
  BY NothingKnown DEF CallOk, Forgotten, TakenPcs

\* A call that goes on with what it holds.
LEMMA AtIsOk ==
  ASSUME EventsOk, NEW m, NEW c \in Call, CallOk(m, c), NEW pc \in CallPcs,
         pc \in TakenPcs => m \in delivered,
         pc \in {"ensuring", "ready"} => c.rec \in 1..Len(recs),
         pc \in {"publishing", "posting"} => c.prev \in Statuses
  PROVE  CallOk(m, At(c, pc))
  <1>1. CASE pc \in {"ok", "failed"}
    BY <1>1, AtIsCall, ForgottenIsOk DEF TakenPcs
  <1>2. CASE pc \notin {"ok", "failed"}
    BY <1>2, AtIsCall DEF CallOk
  <1>. QED
    BY <1>1, <1>2

\* The requests that joined go on, or fail.
LEMMA SetupOverKeeps ==
  ASSUME RunInv, EventsOk', Grows, UNCHANGED <<row, adrift, recs, runs, writes, outdated>>,
         NEW begun \in StartPcs \ {"new", "writing"}, NEW joined \in {"ready", "failed"},
         SetupOver(begun, joined),
         BoxOk', RelayOk', SessionOk',
         relay.pc \in {"committing", "ending"} => relay'.pc \in {"committing", "ending"}
  PROVE  RunInv'
  <1>1. MemoryOk' /\ Lengthens
    BY MemoryKept DEF RunInv, MemoryOk, RecsOk, Lengthens
  <1>2. UNCHANGED <<cancel, dog>>
    BY DEF SetupOver
  <1>3. CancelOk' /\ DogOk'
    BY <1>2, CancelKept, DogKept DEF RunInv
  <1>4. call \in [Messages -> Call] /\ \A m \in Messages : CallOk(m, call[m])
    BY DEF RunInv, CallsOk
  <1>5. joined \in CallPcs /\ joined \notin TakenPcs /\ joined \notin {"publishing", "posting"}
    BY DEF CallPcs, TakenPcs
  <1>6. ASSUME NEW m \in Messages
        PROVE  /\ call'[m] \in Call /\ CallOk(m, call'[m])
               /\ call[m].pc # "ensuring" => call'[m] = call[m]
    <2>1. call'[m] = IF call[m].pc = "ensuring" THEN At(call[m], joined) ELSE call[m]
      BY DEF SetupOver
    <2>2. CASE call[m].pc = "ensuring"
      <3>1. call[m].rec \in 1..Len(recs)
        BY <1>4, <2>2 DEF CallOk
      <3>. QED
        BY <1>4, <1>5, <2>1, <2>2, <3>1, AtIsCall, AtIsOk DEF RunInv
    <2>. QED
      BY <1>4, <2>1, <2>2
  <1>7. CallsOk'
    <2>1. call' \in [Messages -> Call]
      <3>1. call' = [m \in Messages |-> call'[m]]
        BY DEF SetupOver
      <3>. QED
        BY <1>6, <3>1
    <2>2. ASSUME NEW m \in Messages PROVE CallOk(m, call[m])'
      <3>1. PICK q : q = call'[m]
        OBVIOUS
      <3>2. CallOk(m, q)'
        BY <1>1, <1>6, <3>1, CallGrows DEF RunInv
      <3>. QED
        BY <3>1, <3>2 DEF CallOk
    <2>. QED
      BY <2>1, <2>2 DEF CallsOk
  <1>8. StartOk'
    <2>1. CASE start.pc = "ensuring"
      <3>1. start \in Starting /\ start' = [start EXCEPT !.pc = begun]
        BY <2>1 DEF SetupOver, RunInv, StartOk
      <3>2. start' \in Starting /\ start'.pc = begun
        BY <3>1 DEF Starting
      <3>. QED
        BY <3>2 DEF StartOk
    <2>2. CASE start.pc # "ensuring"
      <3>1. UNCHANGED start
        BY <2>2 DEF SetupOver
      <3>. QED
        BY <1>2, <1>6, <3>1, StartKept DEF RunInv
    <2>. QED
      BY <2>1, <2>2
  <1>9. WaitersOk'
    <2>1. \A b \in Writers : Waits(b) => Waits(b)'
      <3>1. start.pc \in {"writing", "ending"} => start' = start
        BY DEF SetupOver
      <3>2. \A m \in Messages : call[m].pc \in WaitPcs => call'[m] = call[m]
        BY <1>6 DEF WaitPcs
      <3>. QED
        BY <1>2, <3>1, <3>2 DEF Waits
    <2>. QED
      BY <2>1, WaitersKept DEF RunInv, MemoryOk
  <1>. QED
    BY <1>1, <1>3, <1>7, <1>8, <1>9 DEF RunInv

\* The session opens: its relay begins.
LEMMA OpenSessionKeeps ==
  ASSUME RunInv, OpenSession
  PROVE  RunInv'
  <1>1. /\ UNCHANGED <<row, adrift, saved, recs, runs, deferrals, writes, outdated>>
        /\ UNCHANGED <<emitted, acked, delivered>>
        /\ session.pc = "open" /\ SetupOver("ok", "ready")
        /\ session' = [NoSession EXCEPT !.pc = "live"]
        /\ relay' = [pc |-> "connect", event |-> NoEvent, replays |-> FALSE]
    BY DEF OpenSession, store, memory
  <1>2. /\ NoEvent \in RunEvent /\ NoEvent.kind = "none" /\ box \in Box /\ saved \subseteq 1..MaxEvents
    BY CapabilityAssumption DEF NoEvent, RunEvent, EventKinds, RunInv, BoxOk, EventsOk
  <1>3. /\ box' \in Box /\ SameEvents(box') /\ box'.accepted = box.accepted
    <2>1. box' = box \/ \E n \in {0, 1} : box' = [box EXCEPT !.pod = "live", !.turns = n]
      BY DEF OpenSession
    <2>2. CASE box' = box
      BY <1>2, <2>2 DEF SameEvents
    <2>3. CASE \E n \in {0, 1} : box' = [box EXCEPT !.pod = "live", !.turns = n]
      <3>1. PICK n \in {0, 1} : box' = [box EXCEPT !.pod = "live", !.turns = n]
        BY <2>3
      <3>2. n \in Int
        BY ONLY n \in {0, 1}
      <3>3. box' \in Box
        BY <1>2, <3>1, <3>2 DEF Box
      <3>4. box'.queue = box.queue /\ box'.pending = box.pending /\ box'.accepted = box.accepted
        BY <1>2, <3>1 DEF Box
      <3>. QED
        BY <3>3, <3>4 DEF SameEvents
    <2>. QED
      BY <2>1, <2>2, <2>3
  <1>4. EventsOk' /\ Grows
    BY <1>1, <1>2, <1>3, RelayMoves
  <1>5. BoxOk'
    BY <1>1, <1>3 DEF RunInv, BoxOk, SameEvents
  <1>6. RelayOk' /\ relay'.pc = "connect"
    BY <1>1, <1>2 DEF RelayOk, Relay, RelayPcs, Fits
  <1>7. SessionOk'
    BY <1>1, <1>6 DEF RunInv, SessionOk, SessionPcs, NoSession
  <1>8. relay.pc \notin {"committing", "ending"}
    BY <1>1 DEF RunInv, SessionOk
  <1>9. "ok" \in StartPcs \ {"new", "writing"}
    BY DEF StartPcs
  <1>. QED
    BY <1>1, <1>4, <1>5, <1>6, <1>7, <1>8, <1>9, SetupOverKeeps

LEMMA SetupFailsKeeps ==
  ASSUME RunInv, SetupFails
  PROVE  RunInv'
  <1>1. /\ UNCHANGED <<row, adrift, saved, recs, runs, deferrals, writes, outdated>>
        /\ UNCHANGED <<box, emitted, acked, delivered, relay>>
        /\ session.pc # "live" /\ SetupOver("broken", "failed") /\ session' = NoSession
    BY DEF SetupFails, store, memory
  <1>2. EventsOk' /\ Grows /\ BoxOk' /\ RelayOk'
    BY <1>1, BoxEmpties
  <1>3. SessionOk'
    BY <1>1 DEF RunInv, SessionOk, SessionPcs, NoSession
  <1>4. "broken" \in StartPcs \ {"new", "writing"}
    BY DEF StartPcs
  <1>. QED
    BY <1>1, <1>2, <1>3, <1>4, SetupOverKeeps

----------------------------------------------------------------------------
(* Steps that leave the handlers alone.                                     *)

LEMMA HandlersKept ==
  ASSUME RunInv, EventsOk', Grows, Lengthens, UNCHANGED <<start, call, cancel, dog>>,
         start.pc \notin {"new", "writing"} \/ UNCHANGED <<runs, row, writes, recs>>
  PROVE  CallsOk' /\ CancelOk' /\ DogOk' /\ StartOk'
  <1>1. CallsOk' /\ CancelOk' /\ DogOk'
    BY CallsKept, CancelKept, DogKept DEF RunInv
  <1>. QED
    BY <1>1, StartKept DEF RunInv

\* A run that is known has been stored.
LEMMA KnownIsBorn ==
  ASSUME RunInv, runs # 0
  PROVE  start.pc \notin {"new", "writing"}
  BY DEF RunInv, StartOk, Unborn

\* A frame is offered: it is new, or committed before.
LEMMA FrameKeeps ==
  ASSUME RunInv, Frame
  PROVE  RunInv'
  <1> DEFINE e == IF box.pending = NoEvent THEN Head(box.queue) ELSE box.pending
  <1>1. /\ UNCHANGED <<row, adrift, saved, runs, writes, outdated, start, call, cancel, dog>>
        /\ UNCHANGED <<emitted, acked, delivered, session>>
        /\ relay.pc = "stream" /\ (box.pending # NoEvent \/ box.queue # <<>>)
        /\ box' = IF box.pending = NoEvent THEN [box EXCEPT !.pending = e, !.queue = Tail(@)] ELSE box
        /\ relay' = [relay EXCEPT !.pc = FrameStep(e), !.event = e]
    BY DEF Frame, store, handlers
  <1>2. deferrals' \in {0, deferrals} /\ (UNCHANGED recs \/ recs' = Touched(recs))
    BY DEF Frame
  <1>3. box \in Box /\ box.queue \in Seq(RunEvent) /\ box.pending \in RunEvent /\ relay \in Relay
        /\ saved \subseteq 1..MaxEvents
    BY DEF RunInv, BoxOk, RelayOk, EventsOk, Box
  <1>4. e \in KnownEvents /\ e \in RunEvent /\ e.kind # "none"
    <2>1. CASE box.pending = NoEvent
      <3>1. box.queue # <<>> /\ Head(box.queue) = box.queue[1] /\ 1 \in 1..Len(box.queue)
        BY <1>1, <1>3, <2>1
      <3>. QED
        BY <1>3, <2>1, <3>1 DEF KnownEvents, RunInv, BoxOk
    <2>2. CASE box.pending # NoEvent
      BY <1>3, <2>2 DEF KnownEvents, RunInv, EventsOk
    <2>. QED
      BY <2>1, <2>2
  <1>5. FrameStep(e) \in {"ack", "save", "commit"} /\ (e.kind = "turn" => FrameStep(e) # "commit")
        /\ (FrameStep(e) = "save" => e.kind = "turn")
    BY DEF FrameStep
  <1>6. FrameStep(e) = "ack" /\ e.kind = "turn" => e.id \in saved
    <2>1. CASE e = relay.event
      BY <1>1, <2>1 DEF RunInv, RelayOk, StoredPcs
    <2>2. CASE runs # 0 /\ recs[runs].persisted = e.id
      <3>1. Past(recs[runs].persisted)
        BY <2>2 DEF RunInv, MemoryOk, RecsOk
      <3>. QED
        BY <1>4, <2>2, <3>1 DEF Past
    <2>. QED
      BY <2>1, <2>2 DEF FrameStep
  <1> HIDE DEF e
  <1>7. relay' \in Relay /\ relay'.event = e /\ relay'.pc = FrameStep(e)
    BY <1>1, <1>3, <1>4, <1>5 DEF Relay, RelayPcs
  <1>8. RelayOk'
    BY <1>1, <1>4, <1>5, <1>6, <1>7 DEF RelayOk, StoredPcs, Fits
  <1>9. /\ BoxOk' /\ box'.pending \in {box.pending, e}
        /\ \A i \in 1..Len(box'.queue) : \E j \in 1..Len(box.queue) : box'.queue[i] = box.queue[j]
    <2>1. CASE box.pending # NoEvent
      BY <1>1, <2>1 DEF RunInv, BoxOk
    <2>2. CASE box.pending = NoEvent
      <3>1. box.queue # <<>>
        BY <1>1, <2>2
      <3>2. /\ Tail(box.queue) \in Seq(RunEvent) /\ Len(Tail(box.queue)) = Len(box.queue) - 1
            /\ \A i \in 1..Len(Tail(box.queue)) : i + 1 \in 2..Len(box.queue)
                                                 /\ Tail(box.queue)[i] = box.queue[i + 1]
        BY <1>3, <3>1, SeqPop
      <3>3. \A i \in 1..Len(Tail(box.queue)) :
              \E j \in 1..Len(box.queue) : Tail(box.queue)[i] = box.queue[j]
        BY <3>2
      <3>4. box' = [box EXCEPT !.pending = e, !.queue = Tail(@)]
        BY <1>1, <2>2
      <3>5. /\ box' \in Box /\ box'.queue = Tail(box.queue) /\ box'.pending = e
            /\ box'.accepted = box.accepted
        BY <1>3, <1>4, <3>2, <3>4 DEF Box
      <3>. QED
        BY <1>1, <3>3, <3>5 DEF RunInv, BoxOk
    <2>. QED
      BY <2>1, <2>2
  <1>10. EventsOk' /\ Grows
    <2>1. \A f \in KnownEvents' : f \in KnownEvents \cup {NoEvent}
      BY <1>4, <1>7, <1>9 DEF KnownEvents
    <2>. QED
      BY <1>1, <1>3, <2>1, NothingNew DEF RunInv
  <1>11. MemoryOk' /\ Lengthens
    <2>1. Len(recs) \in Nat
      BY DEF RunInv, MemoryOk, RecsOk
    <2>2. CASE UNCHANGED recs
      BY <1>1, <1>10, <2>1, <2>2, MemoryKept DEF RunInv, Lengthens
    <2>3. CASE recs' = Touched(recs)
      <3>1. recs' = IF runs = 0 THEN recs ELSE [recs EXCEPT ![runs].silent = FALSE]
        BY <2>3 DEF Touched
      <3>2. MemoryOk' /\ Len(recs') = Len(recs)
        BY <1>1, <1>10, <3>1, SilenceKeeps DEF RunInv
      <3>. QED
        BY <2>1, <3>2 DEF Lengthens
    <2>. QED
      BY <1>2, <2>2, <2>3
  <1>12. SessionOk'
    BY <1>1, <1>2, <1>5, <1>7, CapabilityAssumption DEF RunInv, SessionOk
  <1>13. start.pc \notin {"new", "writing"} \/ UNCHANGED <<runs, row, writes, recs>>
    BY <1>1, <1>2, KnownIsBorn DEF Touched
  <1>14. CallsOk' /\ CancelOk' /\ DogOk' /\ StartOk'
    BY <1>1, <1>10, <1>11, <1>13, HandlersKept
  <1>15. WaitersOk'
    <2>1. \A b \in Writers : Waits(b) => Waits(b)'
      BY <1>1 DEF Waits
    <2>. QED
      BY <1>1, <2>1, WaitersKept DEF RunInv, MemoryOk
  <1>. QED
    BY <1>8, <1>9, <1>10, <1>11, <1>12, <1>14, <1>15 DEF RunInv

\* What the relay's writes leave alone.
LEMMA RelayWrites ==
  ASSUME RunInv, EventsOk', Grows, BoxOk', RelayOk', SessionOk', MemoryOk', Lengthens,
         UNCHANGED <<row, start, call, cancel, dog>>, runs # 0,
         Joined("relay"), relay'.pc \in {"committing", "ending"}
  PROVE  RunInv'
  <1>1. CallsOk' /\ CancelOk' /\ DogOk' /\ StartOk'
    BY HandlersKept, KnownIsBorn
  <1>2. WaitersOk'
    <2>1. (Waits("relay"))' /\ \A b \in Writers : b # "relay" /\ Waits(b) => Waits(b)'
      BY DEF Waits
    <2>. QED
      BY <2>1, WaiterJoins DEF RunInv, MemoryOk
  <1>. QED
    BY <1>1, <1>2 DEF RunInv

\* A relay between two writes has none in flight.
LEMMA NoRelayWrite ==
  ASSUME RunInv, relay.pc \notin {"committing", "ending"}
  PROVE  \A i \in 1..Len(writes) : writes[i].by # "relay"
  <1>1. ~Waits("relay")
    BY CallersAssumption DEF Waits
  <1>. QED
    BY <1>1, NoWriteOf DEF RunInv

\* The event in hand is stored before it counts as relayed.
LEMMA CommitKeeps ==
  ASSUME RunInv, Commit
  PROVE  RunInv'
  <1> DEFINE e == relay.event
             r == [recs[runs] EXCEPT !.relay = e.id,
                     !.status = IF Live /\ recs[runs].relay # e.id THEN StatusAfter(e) ELSE @]
  <1>1. /\ relay.pc = "commit" /\ UNCHANGED <<row, adrift, saved, runs, deferrals, outdated, session>>
        /\ UNCHANGED <<box, emitted, acked, delivered, start, call, cancel, dog>>
    BY DEF Commit, store, boxSide, handlers
  <1>2. /\ relay \in Relay /\ saved \subseteq 1..MaxEvents /\ e.kind # "none" /\ e \in RunEvent
        /\ e.kind = "turn" => e.id \in saved
    BY <1>1 DEF RunInv, RelayOk, EventsOk, StoredPcs, Fits, Relay
  <1>3. CASE RelayTo("ack") /\ UNCHANGED <<recs, writes>>
    <2>1. RelayAlone
      BY <1>1, <1>3 DEF RelayAlone
    <2>2. "ack" \in RelayPcs \ {"off"} /\ Fits("ack", relay.event)
      BY DEF RelayPcs, Fits
    <2>. QED
      BY <1>1, <1>2, <1>3, <2>1, <2>2, RelayStepKeeps
  <1>4. CASE /\ runs # 0 /\ RelayTo("committing")
             /\ recs' = [recs EXCEPT ![runs] = r]
             /\ writes' = Persist(writes, runs, recs'[runs], "relay")
    <2>1. /\ EventsOk' /\ Grows /\ BoxOk' /\ RelayOk' /\ relay'.pc = "committing"
      <3>1. "committing" \in RelayPcs /\ Fits("committing", relay.event)
        BY <1>2 DEF RelayPcs, Fits
      <3>. QED
        BY <1>1, <1>2, <1>4, <3>1, RelayGoes
    <2>2. recs \in Seq(Rec) /\ runs \in 1..Len(recs) /\ Len(recs) \in Nat
      BY <1>4 DEF RunInv, MemoryOk, RecsOk
    <2>3. recs[runs] \in Rec
      BY <2>2
    <2>4. /\ r \in Rec /\ r.relay = e.id /\ r.persisted = recs[runs].persisted
          /\ r.msgs = recs[runs].msgs
      <3>1. e.id \in 0..MaxEvents /\ StatusAfter(e) \in Statuses
        BY <1>2 DEF RunEvent, EventKinds, StatusAfter, Statuses, Active, Terminal
      <3>. QED
        BY <2>3, <3>1 DEF Rec
    <2>5. Past(e.id)
      <3>1. e \in KnownEvents /\ e.id \in 0..MaxEvents
        BY <1>2 DEF KnownEvents, RunEvent
      <3>2. e.id <= emitted
        BY <3>1, CapabilityAssumption DEF RunInv, EventsOk, NoEvent
      <3>3. \A f \in KnownEvents : f.id = e.id => f = e
        BY <3>1 DEF RunInv, EventsOk
      <3>. QED
        BY <1>2, <3>1, <3>2, <3>3 DEF Past
    <2>6. Snap(r) /\ Past(r.persisted)
      BY <2>2, <2>4, <2>5 DEF RunInv, MemoryOk, RecsOk, Snap
    <2> HIDE DEF r
    <2>7. recs' \in Seq(Rec) /\ Put(recs, recs', runs, r)
      BY <1>4, <2>2, <2>4, SeqPut
    <2>8. writes' = Persist(writes, runs, r, "relay")
      BY <1>4, <2>7 DEF Put
    <2>9. "relay" \in Writers /\ \A i \in 1..Len(writes) : writes[i].by # "relay"
      BY <1>1, NoRelayWrite DEF Writers
    <2>10. MemoryOk' /\ Len(recs') = Len(recs) /\ Joined("relay")
      BY <1>1, <1>4, <2>1, <2>4, <2>6, <2>7, <2>8, <2>9, SnapshotKeeps DEF RunInv
    <2>11. SessionOk' /\ Lengthens
      BY <1>1, <2>1, <2>2, <2>10 DEF RunInv, SessionOk, Lengthens
    <2>. QED
      BY <1>1, <1>4, <2>1, <2>10, <2>11, RelayWrites
  <1>5. recs' = [recs EXCEPT ![runs].relay = e.id,
                   ![runs].status = IF Live /\ recs[runs].relay # e.id THEN StatusAfter(e) ELSE @]
        => recs' = [recs EXCEPT ![runs] = r]
    OBVIOUS
  <1>. QED
    BY <1>3, <1>4, <1>5 DEF Commit

LEMMA RelayFailsKeeps ==
  ASSUME RunInv, RelayFails
  PROVE  RunInv'
  <1>1. /\ relay.pc = "failing" /\ UNCHANGED <<row, adrift, saved, session>>
        /\ UNCHANGED <<box, emitted, acked, delivered, start, call, cancel, dog>>
    BY DEF RelayFails, store, boxSide, handlers
  <1>2. saved \subseteq 1..MaxEvents
    BY DEF RunInv, EventsOk
  <1>3. CASE RelayTo("closing") /\ UNCHANGED memory
    <2>1. RelayAlone
      BY <1>1, <1>3 DEF RelayAlone, memory
    <2>2. "closing" \in RelayPcs \ {"off"} /\ Fits("closing", relay.event) /\ "closing" \notin StoredPcs
      BY DEF RelayPcs, Fits, StoredPcs
    <2>. QED
      BY <1>1, <1>2, <1>3, <2>1, <2>2, RelayStepKeeps
  <1>4. CASE Becomes("failed", "relay") /\ RelayTo("ending")
    <2>1. "ending" \in RelayPcs /\ Fits("ending", relay.event) /\ "ending" \notin StoredPcs
      BY DEF RelayPcs, Fits, StoredPcs
    <2>2. EventsOk' /\ Grows /\ BoxOk' /\ RelayOk' /\ relay'.pc = "ending"
      BY <1>1, <1>2, <1>4, <2>1, RelayGoes
    <2>3. "relay" \in Writers /\ "failed" \in Statuses /\ \A i \in 1..Len(writes) : writes[i].by # "relay"
      BY <1>1, NoRelayWrite DEF Writers, Statuses, Terminal
    <2>4. /\ MemoryOk' /\ Len(recs') = Len(recs) /\ Joined("relay") /\ Live /\ UNCHANGED <<runs, deferrals>>
      BY <1>1, <1>4, <2>2, <2>3, BecomesKeeps DEF RunInv
    <2>5. SessionOk' /\ Lengthens /\ runs # 0
      BY <1>1, <2>2, <2>4 DEF RunInv, SessionOk, Lengthens, Live, MemoryOk, RecsOk
    <2>. QED
      BY <1>1, <2>2, <2>4, <2>5, RelayWrites
  <1>. QED
    BY <1>3, <1>4 DEF RelayFails

----------------------------------------------------------------------------
(* capability.start and capability.message.                                 *)

\* The store's events, the box and the relay stay as they are.
SideAlone == UNCHANGED <<saved, acked, emitted, box, relay>>

LEMMA SideKept ==
  ASSUME RunInv, SideAlone, UNCHANGED delivered
  PROVE  EventsOk' /\ Grows /\ BoxOk' /\ RelayOk'
  BY BoxEmpties DEF SideAlone

\* The run and its first write are made together.
LEMMA StartKeeps ==
  ASSUME RunInv, Start
  PROVE  RunInv'
  <1>1. /\ UNCHANGED <<row, adrift, saved, acked, emitted, box, relay, delivered, session, deferrals>>
        /\ UNCHANGED <<runs, outdated, call, cancel, dog>>
        /\ start.pc = "new" /\ Len(recs) < MaxRecords
    BY DEF Start, store, boxSide, sessionSide
  <1>2. EventsOk' /\ Grows /\ BoxOk' /\ RelayOk'
    BY <1>1, SideKept DEF SideAlone
  <1>3. PICK status \in Active :
          LET r == NewRecord([NoRow EXCEPT !.status = status]) IN
          /\ recs' = Append(recs, r)
          /\ writes' = Persist(writes, Len(recs) + 1, r, "start")
          /\ start' = [pc |-> "writing", opening |-> status = "running"]
    BY DEF Start
  <1> DEFINE r == NewRecord([NoRow EXCEPT !.status = status])
  <1>r. r = [status |-> status, relay |-> 0, persisted |-> 0, msgs |-> {}, silent |-> FALSE]
    BY DEF NewRecord, NoRow
  <1> HIDE DEF r
  <1>4. r \in Rec /\ Snap(r) /\ Past(r.persisted)
    <2>1. Past(0)
      BY NothingKnown DEF RunInv
    <2>3. r \in Rec
      <3>1. status \in Statuses /\ 0 \in 0..MaxEvents /\ {} \in SUBSET Messages
        BY CapabilityAssumption DEF Statuses
      <3>. QED
        BY <1>r, <3>1 DEF Rec
    <2>4. r.relay = 0 /\ r.persisted = 0 /\ r.msgs = {}
      BY <1>r
    <2>. QED
      BY <2>1, <2>3, <2>4 DEF Snap
  <1>5. Unborn /\ writes = <<>>
    BY <1>1 DEF RunInv, StartOk
  <1>6. /\ MemoryOk' /\ Len(recs) \in Nat /\ Len(recs) <= Len(recs') /\ Joined("start")
        /\ Len(writes') = 1 /\ writes'[1].by = "start" /\ (Mirrors(writes[1], writes[1].rec))'
    <2>1. "start" \in Writers /\ \A i \in 1..Len(writes) : writes[i].by # "start"
      BY <1>5 DEF Writers
    <2>2. runs' \in 0..(Len(recs) + 1) /\ ~Live'
      <3>1. Len(recs) \in Nat
        BY DEF RunInv, MemoryOk, RecsOk
      <3>. QED
        BY <1>1, <1>5, <3>1 DEF Unborn, Live
    <2>3. /\ MemoryOk' /\ Len(recs) \in Nat /\ Len(recs) <= Len(recs') /\ Joined("start")
          /\ Len(writes') = Len(writes) + 1
          /\ writes'[Len(writes')].by = "start"
          /\ (Mirrors(writes[Len(writes)], writes[Len(writes)].rec))'
      BY <1>1, <1>2, <1>3, <1>4, <2>1, <2>2, RecordWithWriteKeeps DEF RunInv, r
    <2>. QED
      BY <1>5, <2>3
  <1>7. Lengthens
    BY <1>6 DEF Lengthens, MemoryOk, RecsOk
  <1>8. CallsOk' /\ CancelOk' /\ DogOk'
    BY <1>1, <1>2, <1>7, CallsKept, CancelKept, DogKept DEF RunInv
  <1>9. StartOk'
    BY <1>1, <1>3, <1>5, <1>6 DEF StartOk, Starting, StartPcs, Unborn
  <1>10. SessionOk'
    BY <1>1 DEF RunInv, SessionOk
  <1>11. WaitersOk'
    <2>1. (Waits("start"))' /\ \A b \in Writers : b # "start" /\ Waits(b) => Waits(b)'
      BY <1>1, <1>3 DEF Waits
    <2>. QED
      BY <1>6, <2>1, WaiterJoins DEF RunInv, MemoryOk
  <1>. QED
    BY <1>2, <1>6, <1>8, <1>9, <1>10, <1>11 DEF RunInv

\* A start whose session could not be opened ends the run.
LEMMA StartBrokenKeeps ==
  ASSUME RunInv, StartBroken
  PROVE  RunInv'
  <1>1. /\ UNCHANGED <<row, adrift, saved, acked, emitted, box, relay, delivered, session>>
        /\ UNCHANGED <<call, cancel, dog>> /\ start.pc = "broken"
    BY DEF StartBroken, store, boxSide, sessionSide
  <1>2. EventsOk' /\ Grows /\ BoxOk' /\ RelayOk'
    BY <1>1, SideKept DEF SideAlone
  <1>3. ~Waits("start")
    BY <1>1, CallersAssumption DEF Waits
  <1>4. /\ MemoryOk' /\ Len(recs') = Len(recs) /\ UNCHANGED deferrals
        /\ \/ UNCHANGED writes /\ start' = [start EXCEPT !.pc = "failed"]
           \/ Joined("start") /\ start' = [start EXCEPT !.pc = "ending"]
    <2>1. CASE Becomes("failed", "start") /\ start' = [start EXCEPT !.pc = "ending"]
      <3>1. "start" \in Writers /\ "failed" \in Statuses
        BY DEF Writers, Statuses, Terminal
      <3>2. \A i \in 1..Len(writes) : writes[i].by # "start"
        BY <1>3, NoWriteOf DEF RunInv
      <3>. QED
        BY <1>1, <1>2, <2>1, <3>1, <3>2, BecomesKeeps DEF RunInv
    <2>2. CASE start' = [start EXCEPT !.pc = "failed"] /\ UNCHANGED memory
      BY <1>1, <1>2, <2>2, MemoryKept DEF RunInv, memory
    <2>. QED
      BY <2>1, <2>2 DEF StartBroken
  <1>5. Lengthens
    BY <1>4 DEF Lengthens, RunInv, MemoryOk, RecsOk
  <1>6. CallsOk' /\ CancelOk' /\ DogOk'
    BY <1>1, <1>2, <1>5, CallsKept, CancelKept, DogKept DEF RunInv
  <1>7. start' \in Starting /\ start'.pc \in {"ending", "failed"}
    <2>1. start \in Starting
      BY DEF RunInv, StartOk
    <2>. QED
      BY <1>4, <2>1 DEF Starting, StartPcs
  <1>8. StartOk'
    BY <1>7 DEF StartOk
  <1>9. SessionOk'
    BY <1>1, <1>4 DEF RunInv, SessionOk
  <1>10. WaitersOk'
    <2>1. \A b \in Writers : b # "start" /\ Waits(b) => Waits(b)'
      BY <1>1 DEF Waits
    <2>2. CASE UNCHANGED writes
      BY <1>3, <2>1, <2>2, WaitersKept DEF RunInv, MemoryOk
    <2>3. CASE Joined("start") /\ start' = [start EXCEPT !.pc = "ending"]
      <3>1. (Waits("start"))'
        BY <1>4, <1>7, <2>3 DEF Waits, RunInv, StartOk, Starting
      <3>. QED
        BY <2>1, <2>3, <3>1, WaiterJoins DEF RunInv, MemoryOk
    <2>. QED
      BY <1>4, <2>2, <2>3
  <1>. QED
    BY <1>2, <1>4, <1>6, <1>8, <1>9, <1>10 DEF RunInv

\* A call goes on, with or without a write it waits for.
LEMMA CallStep ==
  ASSUME RunInv, EventsOk', Grows, BoxOk', RelayOk', SessionOk', MemoryOk', Lengthens,
         UNCHANGED <<start, cancel, dog, relay>>, start.pc \notin {"new", "writing"},
         NEW m \in Messages, NEW c \in Call, CallOk(m, c)', call' = [call EXCEPT ![m] = c],
         \/ UNCHANGED writes /\ call[m].pc \notin WaitPcs
         \/ Joined(m) /\ c.pc \in WaitPcs
  PROVE  RunInv'
  <1>1. CancelOk' /\ DogOk' /\ StartOk'
    BY CancelKept, DogKept, StartKept DEF RunInv
  <1>2. CallsOk' /\ call'[m] = c /\ \A n \in Messages : n # m => call'[n] = call[n]
    BY CallSet DEF RunInv
  <1>3. m \in Writers /\ m \notin {"start", "relay", "cancel", "dog"}
    BY CallersAssumption DEF Writers
  <1>4. WaitersOk'
    <2>1. \A b \in Writers : b # m /\ Waits(b) => Waits(b)'
      BY <1>2 DEF Waits
    <2>2. CASE UNCHANGED writes /\ call[m].pc \notin WaitPcs
      <3>1. ~Waits(m)
        BY <1>3, <2>2 DEF Waits
      <3>. QED
        BY <2>1, <2>2, <3>1, WaitersKept DEF RunInv, MemoryOk
    <2>3. CASE Joined(m) /\ c.pc \in WaitPcs
      <3>1. Waits(m)'
        BY <1>2, <2>3 DEF Waits
      <3>. QED
        BY <2>1, <2>3, <3>1, WaiterJoins DEF RunInv, MemoryOk
    <2>. QED
      BY <2>2, <2>3
  <1>. QED
    BY <1>1, <1>2, <1>4 DEF RunInv

\* A call that does not wait has no write in flight, and is not one of the first.
LEMMA CallerIsFree ==
  ASSUME RunInv, NEW m \in Messages
  PROVE  /\ call[m] \in Call /\ CallOk(m, call[m]) /\ m \in Writers
         /\ call[m].pc # "new" => start.pc \notin {"new", "writing"}
         /\ call[m].pc \notin WaitPcs => \A i \in 1..Len(writes) : writes[i].by # m
  <1>1. call[m] \in Call /\ CallOk(m, call[m]) /\ m \in Writers
    BY DEF RunInv, CallsOk, Writers
  <1>2. call[m].pc # "new" => start.pc \notin {"new", "writing"}
    BY DEF RunInv, StartOk, Unborn
  <1>3. call[m].pc \notin WaitPcs => ~Waits(m)
    BY CallersAssumption DEF Waits
  <1>. QED
    BY <1>1, <1>2, <1>3, NoWriteOf DEF RunInv

\* A missing run is looked for, an ended one refused, any other gets a session.
LEMMA AskKeeps ==
  ASSUME RunInv, NEW m \in Messages, Ask(m)
  PROVE  RunInv'
  <1> DEFINE pc == IF runs = 0 THEN "adopting" ELSE Addressed(m, recs[runs])
             d == [call[m] EXCEPT !.asks = @ + 1, !.rec = runs,
                                  !.seen = IF runs = 0 THEN row ELSE NoRow]
  <1>1. /\ UNCHANGED <<row, adrift, saved, acked, emitted, box, relay, delivered>>
        /\ UNCHANGED <<runs, writes, outdated, start, cancel, dog>>
        /\ start.pc = "ok" /\ call[m].pc \in {"new", "failed"}
    BY DEF Ask, store, boxSide
  <1>c. call' = [call EXCEPT ![m] = At(d, pc)]
    BY DEF Ask
  <1>2. \/ pc \in {"ready", "ensuring"} /\ recs' = Touched(recs) /\ deferrals' = 0 /\ Ensure(FALSE)
        \/ pc \notin {"ready", "ensuring"} /\ UNCHANGED <<recs, deferrals, session>>
    BY DEF Ask
  <1>3. EventsOk' /\ Grows /\ BoxOk' /\ RelayOk'
    BY <1>1, SideKept DEF SideAlone
  <1>4. SessionOk'
    <2>1. deferrals' \in {0, deferrals} /\ (Ensure(FALSE) \/ UNCHANGED session)
      BY <1>2
    <2>2. deferrals' \in 0..MaxDeferrals
      BY ONLY <2>1, RunInv, CapabilityAssumption DEF RunInv, SessionOk
    <2>. QED
      BY <1>1, <2>1, <2>2, EnsureKeeps DEF RunInv
  <1>5. Len(recs) \in Nat /\ runs \in 0..Len(recs)
    BY DEF RunInv, MemoryOk, RecsOk
  <1>6. MemoryOk' /\ Len(recs') = Len(recs)
    <2>1. CASE UNCHANGED recs
      BY <1>1, <1>3, <2>1, MemoryKept DEF RunInv
    <2>2. CASE recs' = Touched(recs)
      <3>1. recs' = IF runs = 0 THEN recs ELSE [recs EXCEPT ![runs].silent = FALSE]
        BY <2>2 DEF Touched
      <3>. QED
        BY <1>1, <1>3, <3>1, SilenceKeeps DEF RunInv
    <2>. QED
      BY <1>2, <2>1, <2>2
  <1>7. Lengthens
    BY <1>5, <1>6 DEF Lengthens
  <1>8. /\ pc \in {"adopting", "failed", "ok", "ready", "ensuring"} /\ pc \in CallPcs
        /\ pc # "adopting" => runs # 0
        /\ pc = "ok" => m \in recs[runs].msgs
    BY DEF Addressed, CallPcs
  <1>9. d \in Call /\ CallOk(m, d) /\ d.rec = runs
    <2>1. call[m] \in Call /\ CallOk(m, call[m])
      BY CallerIsFree
    <2>2. row \in Rows /\ Snap(row) /\ NoRow \in Rows /\ Snap(NoRow)
      BY NothingKnown DEF RunInv, MemoryOk, RowOk
    <2>3. call[m].asks + 1 \in Nat /\ runs \in Nat
      BY <1>5, <2>1 DEF Call
    <2>4. /\ d \in Call /\ d.rec = runs /\ d.pc = call[m].pc /\ d.before = call[m].before
          /\ d.prev = call[m].prev /\ d.seen \in {row, NoRow}
      BY <2>1, <2>2, <2>3 DEF Call
    <2>. QED
      BY <1>1, <2>1, <2>2, <2>4 DEF CallOk, TakenPcs
  <1>10. pc = "ok" => m \in delivered
    BY <1>5, <1>8 DEF RunInv, MemoryOk, RecsOk, Snap
  <1>11. pc \in {"ensuring", "ready"} => d.rec \in 1..Len(recs)
    BY <1>5, <1>8, <1>9
  <1> HIDE DEF pc, d
  <1>12. At(d, pc) \in Call /\ CallOk(m, At(d, pc))
    BY <1>8, <1>9, <1>10, <1>11, AtIsCall, AtIsOk DEF RunInv, TakenPcs
  <1>13. PICK c \in Call : c = At(d, pc)
    BY <1>12
  <1>14. CallOk(m, c)'
    BY <1>3, <1>7, <1>12, <1>13, CallGrows DEF RunInv
  <1>15. UNCHANGED writes /\ call[m].pc \notin WaitPcs
    BY <1>1 DEF WaitPcs
  <1>. QED
    BY <1>1, <1>c, <1>3, <1>4, <1>6, <1>7, <1>13, <1>14, <1>15, CallStep

\* CallTo(), with the memory as it is.
LEMMA CallGoes ==
  ASSUME RunInv, EventsOk', Grows, BoxOk', RelayOk', UNCHANGED <<row, adrift, relay, session>>,
         UNCHANGED memory, UNCHANGED <<start, cancel, dog>>,
         NEW m \in Messages, call[m].pc \notin WaitPcs \cup {"new"}, NEW pc \in CallPcs, CallTo(m, pc),
         pc \in TakenPcs => m \in delivered',
         pc \in {"ensuring", "ready"} => call[m].rec \in 1..Len(recs),
         pc \in {"publishing", "posting"} => call[m].prev \in Statuses
  PROVE  RunInv'
  <1>1. MemoryOk' /\ Lengthens
    BY MemoryKept DEF RunInv, memory, MemoryOk, RecsOk, Lengthens
  <1>2. call[m] \in Call /\ CallOk(m, call[m]) /\ start.pc \notin {"new", "writing"}
    BY CallerIsFree
  <1>3. At(call[m], pc) \in Call
    BY <1>2, AtIsCall
  <1>4. PICK c \in Call : c = At(call[m], pc)
    BY <1>3
  <1>5. CallOk(m, c)'
    <2>1. PICK b \in Call : b = call[m]
      BY <1>2
    <2>2. CallOk(m, b)'
      BY <1>1, <1>2, <2>1, CallGrows DEF RunInv
    <2>3. c = At(b, pc) /\ At(b, pc).pc = pc
      BY <1>4, <2>1, AtIsCall
    <2>4. CASE pc \in {"ok", "failed"}
      <3>1. Forgotten(c)
        BY <2>3, <2>4, AtIsCall
      <3>2. Snap(NoRow)'
        <4>1. PICK r : r = NoRow
          OBVIOUS
        <4>2. Snap(r)'
          BY <4>1, NothingKnown, SnapGrows DEF RunInv
        <4>. QED
          BY <4>1, <4>2
      <3>. QED
        BY <2>3, <2>4, <3>1, <3>2 DEF CallOk, Forgotten
    <2>5. CASE pc \notin {"ok", "failed"}
      <3>1. c.pc = pc /\ c.seen = b.seen /\ c.before = b.before /\ c.rec = b.rec /\ c.prev = b.prev
        BY <2>3, <2>5, AtIsCall
      <3>2. Snap(c.seen)' /\ c.before \subseteq delivered'
        BY <2>2, <3>1 DEF CallOk
      <3>3. pc \in {"ensuring", "ready"} => c.rec \in 1..Len(recs')
        BY <2>1, <3>1 DEF memory
      <3>. QED
        BY <2>1, <3>1, <3>2, <3>3 DEF CallOk
    <2>. QED
      BY <2>4, <2>5
  <1>6. call' = [call EXCEPT ![m] = c]
    BY <1>4 DEF CallTo
  <1>7. UNCHANGED writes /\ SessionOk'
    BY DEF memory, RunInv, SessionOk
  <1>. QED
    BY <1>1, <1>2, <1>4, <1>5, <1>6, <1>7, CallStep

\* The same, with a status of the live record that has to be written.
LEMMA CallWrites ==
  ASSUME RunInv, EventsOk', Grows, BoxOk', RelayOk', UNCHANGED <<row, adrift, relay, session>>,
         UNCHANGED <<start, cancel, dog>>, NEW status \in Statuses,
         NEW m \in Messages, call[m].pc \notin WaitPcs \cup {"new"},
         NEW c \in Call, CallOk(m, c)', c.pc \in WaitPcs, call' = [call EXCEPT ![m] = c],
         Becomes(status, m)
  PROVE  RunInv'
  <1>1. /\ m \in Writers /\ start.pc \notin {"new", "writing"}
        /\ \A i \in 1..Len(writes) : writes[i].by # m
    BY CallerIsFree
  <1>2. /\ MemoryOk' /\ Len(recs') = Len(recs) /\ Joined(m) /\ UNCHANGED deferrals
    BY <1>1, BecomesKeeps DEF RunInv
  <1>3. Lengthens /\ SessionOk'
    BY <1>2 DEF RunInv, MemoryOk, RecsOk, Lengthens, SessionOk
  <1>. QED
    BY <1>1, <1>2, <1>3, CallStep

\* Only a run that has not ended becomes a record.
LEMMA AdoptKeeps ==
  ASSUME RunInv, NEW m \in Messages, Adopt(m)
  PROVE  RunInv'
  <1>1. /\ UNCHANGED <<row, adrift, saved, acked, emitted, box, relay, delivered>>
        /\ UNCHANGED <<start, cancel, dog>> /\ call[m].pc = "adopting"
    BY DEF Adopt, store, boxSide
  <1>2. EventsOk' /\ Grows /\ BoxOk' /\ RelayOk'
    BY <1>1, SideKept DEF SideAlone
  <1>3. call[m].pc \notin WaitPcs \cup {"new"}
    BY <1>1 DEF WaitPcs
  <1>4. CASE CallTo(m, "failed") /\ UNCHANGED <<memory, reattach, session>>
    <2>1. "failed" \in CallPcs /\ "failed" \notin TakenPcs
      BY DEF CallPcs, TakenPcs
    <2>. QED
      BY <1>1, <1>2, <1>3, <1>4, <2>1, CallGoes
  <1>5. CASE /\ call[m].seen.status \in Active
             /\ Register(call[m].seen, call[m].seen.status)
             /\ deferrals' = 0 /\ UNCHANGED writes
             /\ LET pc == Addressed(m, call[m].seen) IN
                /\ call' = [call EXCEPT ![m] = At([@ EXCEPT !.rec = runs', !.seen = NoRow], pc)]
                /\ IF pc = "ok" THEN UNCHANGED session ELSE Ensure(FALSE)
    <2> DEFINE pc == Addressed(m, call[m].seen)
    <2>1. call[m] \in Call /\ CallOk(m, call[m]) /\ start.pc \notin {"new", "writing"}
      BY <1>1, CallerIsFree
    <2>2. PICK a : a = call[m].seen
      OBVIOUS
    <2>3. a \in Rows /\ Snap(a) /\ a.status \in Active
      BY <1>5, <2>1, <2>2 DEF Call, CallOk
    <2>4. a.status \in Statuses
      BY <2>3 DEF Statuses
    <2>5. MemoryOk' /\ Len(recs) <= Len(recs') /\ Len(recs) \in Nat /\ runs' \in 1..Len(recs')
      BY <1>1, <1>2, <1>5, <2>2, <2>3, <2>4, RegisterKeeps DEF RunInv
    <2>6. Lengthens
      BY <2>5 DEF Lengthens, MemoryOk, RecsOk
    <2>7. /\ pc \in {"ok", "ready", "ensuring"} /\ pc \in CallPcs /\ (pc = "ok" => m \in a.msgs)
      BY <2>2, <2>3 DEF Addressed, Active, Terminal, CallPcs
    <2>8. call' = [call EXCEPT ![m] = At([call[m] EXCEPT !.rec = runs', !.seen = NoRow], pc)]
      BY <1>5
    <2>9. Ensure(FALSE) \/ UNCHANGED session
      BY <1>5
    <2> HIDE DEF pc
    <2>10. SessionOk'
      <3>1. deferrals' \in 0..MaxDeferrals
        BY <1>5, CapabilityAssumption
      <3>. QED
        BY <1>1, <2>9, <3>1, EnsureKeeps DEF RunInv
    <2>11. NoRow \in Rows /\ Snap(NoRow)
      BY NothingKnown DEF RunInv
    <2>12. PICK d : d = [call[m] EXCEPT !.rec = runs', !.seen = NoRow]
      OBVIOUS
    <2>13. /\ d \in Call /\ d.rec = runs' /\ d.seen = NoRow /\ d.before = call[m].before
           /\ d.pc = "adopting" /\ d.prev = call[m].prev
      <3>1. runs' \in Nat
        BY <2>5
      <3>. QED
        BY <1>1, <2>1, <2>11, <2>12, <3>1 DEF Call
    <2>14. PICK c \in Call : c = At(d, pc)
      BY <2>7, <2>13, AtIsCall
    <2>15. Snap(NoRow)' /\ call[m].before \subseteq delivered' /\ m \in Messages
      <3>1. PICK r : r = NoRow
        OBVIOUS
      <3>2. Snap(r)'
        BY <1>2, <2>11, <3>1, SnapGrows DEF RunInv
      <3>. QED
        BY <1>1, <2>1, <3>1, <3>2 DEF CallOk
    <2>16. CallOk(m, c)'
      <3>1. c.pc = pc /\ (c.before = d.before \/ c.before = {}) /\ c.seen = NoRow
            /\ (pc # "ok" => c.rec = d.rec)
        BY <2>7, <2>13, <2>14, AtIsCall DEF Forgotten
      <3>2. pc = "ok" => m \in delivered'
        BY <1>1, <2>3, <2>7 DEF Snap
      <3>. QED
        BY <2>5, <2>7, <2>13, <2>15, <3>1, <3>2 DEF CallOk, TakenPcs
    <2>17. UNCHANGED writes /\ call[m].pc \notin WaitPcs /\ call' = [call EXCEPT ![m] = c]
      BY <1>3, <1>5, <2>8, <2>12, <2>14
    <2>. QED
      BY <1>1, <1>2, <2>1, <2>5, <2>6, <2>10, <2>14, <2>16, <2>17, CallStep
  <1>. QED
    BY <1>4, <1>5 DEF Adopt

\* The status is published before the turn is posted.
LEMMA PublishKeeps ==
  ASSUME RunInv, NEW m \in Messages, Publish(m)
  PROVE  RunInv'
  <1> DEFINE pc == IF Live THEN "publishing" ELSE "posting"
             prev == recs[call[m].rec].status
  <1>1. /\ UNCHANGED <<row, adrift, saved, acked, emitted, box, relay, delivered, session>>
        /\ UNCHANGED <<start, cancel, dog>> /\ call[m].pc = "ready"
        /\ IF Live THEN Becomes("running", m) ELSE UNCHANGED memory
    BY DEF Publish, store, boxSide, sessionSide
  <1>2. call' = [call EXCEPT ![m].prev = prev, ![m].pc = pc]
    BY DEF Publish
  <1>3. EventsOk' /\ Grows /\ BoxOk' /\ RelayOk'
    BY <1>1, SideKept DEF SideAlone
  <1>4. call \in [Messages -> Call] /\ call[m] \in Call /\ CallOk(m, call[m])
        /\ start.pc \notin {"new", "writing"}
    BY <1>1, CallerIsFree DEF RunInv, CallsOk
  <1>5. prev \in Statuses
    <2>1. recs \in Seq(Rec) /\ call[m].rec \in 1..Len(recs)
      BY <1>1, <1>4 DEF RunInv, MemoryOk, RecsOk, CallOk
    <2>2. recs[call[m].rec] \in Rec
      BY <2>1
    <2>. QED
      BY <2>2 DEF Rec
  <1>6. pc \in {"publishing", "posting"} /\ (Live => pc \in WaitPcs)
    BY DEF WaitPcs
  <1> HIDE DEF pc, prev
  <1>7. PICK c : c = [call[m] EXCEPT !.prev = prev, !.pc = pc]
    OBVIOUS
  <1>8. /\ c \in Call /\ c.pc = pc /\ c.prev = prev /\ c.seen = call[m].seen
        /\ c.before = call[m].before
    BY <1>4, <1>5, <1>6, <1>7 DEF Call, CallPcs
  <1>9. CallOk(m, c)'
    <2>1. PICK b : b = call[m]
      OBVIOUS
    <2>2. Snap(b.seen)' /\ b.before \subseteq delivered'
      BY <1>1, <1>3, <1>4, <2>1, SnapGrows DEF RunInv, CallOk
    <2>3. c.seen = b.seen /\ c.before = b.before /\ c.pc \in {"publishing", "posting"}
          /\ c.prev \in Statuses
      BY <1>5, <1>6, <1>8, <2>1
    <2>. QED
      BY <2>2, <2>3 DEF CallOk, TakenPcs
  <1>10. call' = [call EXCEPT ![m] = c]
    BY <1>2, <1>4, <1>7
  <1>11. call[m].pc \notin WaitPcs \cup {"new"}
    BY <1>1 DEF WaitPcs
  <1>12. CASE Live
    <2>1. "running" \in Statuses /\ Becomes("running", m) /\ c.pc \in WaitPcs
      BY <1>1, <1>6, <1>8, <1>12 DEF Statuses, Active
    <2>. QED
      BY <1>1, <1>3, <1>8, <1>9, <1>10, <1>11, <2>1, CallWrites
  <1>13. CASE ~Live
    <2>1. UNCHANGED memory
      BY <1>1, <1>13
    <2>2. MemoryOk' /\ Lengthens /\ SessionOk' /\ UNCHANGED writes
      BY <1>1, <1>3, <2>1, MemoryKept DEF RunInv, memory, MemoryOk, RecsOk, Lengthens, SessionOk
    <2>. QED
      BY <1>1, <1>3, <1>4, <1>8, <1>9, <1>10, <1>11, <2>2, CallStep
  <1>. QED
    BY <1>12, <1>13

\* The box takes a message, or not.
LEMMA AcceptKeeps ==
  ASSUME RunInv, UNCHANGED <<saved, acked, emitted, relay>>,
         NEW m \in Messages, Accept(m) \/ UNCHANGED <<box, delivered>>
  PROVE  EventsOk' /\ Grows /\ BoxOk' /\ RelayOk'
  <1>1. CASE UNCHANGED <<box, delivered>>
    BY <1>1, SideKept DEF SideAlone
  <1>2. CASE Accept(m)
    <2>1. box \in Box /\ box.turns \in Int /\ box.accepted \in SUBSET Messages
          /\ saved \subseteq 1..MaxEvents
      BY DEF RunInv, BoxOk, Box, EventsOk
    <2>2. /\ box' = [box EXCEPT !.accepted = box.accepted \cup {m}, !.turns = box.turns + 1]
          /\ delivered' = delivered \cup {m}
      BY <1>2 DEF Accept
    <2>3. box.turns + 1 \in Int /\ box.accepted \cup {m} \in SUBSET Messages
      BY <2>1
    <2>4. /\ box' \in Box /\ box'.queue = box.queue /\ box'.pending = box.pending
          /\ box'.accepted = box.accepted \cup {m}
      BY <2>1, <2>2, <2>3 DEF Box
    <2>5. SameEvents(box')
      BY <2>4 DEF SameEvents
    <2>7. EventsOk' /\ Grows
      BY <2>1, <2>2, <2>5, RelayMoves
    <2>8. BoxOk'
      BY <2>2, <2>4 DEF RunInv, BoxOk
    <2>. QED
      BY <2>7, <2>8 DEF RunInv, RelayOk
  <1>. QED
    BY <1>1, <1>2

\* The status from before the turn is put back.
LEMMA PutBackKeeps ==
  ASSUME RunInv, EventsOk', Grows, BoxOk', RelayOk', UNCHANGED <<row, adrift, relay, session>>,
         UNCHANGED <<start, cancel, dog>>, NEW m \in Messages, call[m].pc = "posting",
         NEW waiting \in {"restoring", "again"}, NEW after \in {"failed", "accepted"},
         PutBack(m, waiting, after),
         waiting = "again" \/ after = "accepted" => m \in delivered
  PROVE  RunInv'
  <1>1. call[m] \in Call /\ CallOk(m, call[m]) /\ call[m].prev \in Statuses
    BY CallerIsFree DEF CallOk
  <1>2. call[m].pc \notin WaitPcs \cup {"new"} /\ waiting \in WaitPcs /\ {waiting, after} \subseteq CallPcs
    BY DEF WaitPcs, CallPcs
  <1>3. m \in delivered => m \in delivered'
    BY DEF Grows
  <1>4. CASE Becomes(call[m].prev, m) /\ CallTo(m, waiting)
    <2>1. PICK b : b = call[m]
      OBVIOUS
    <2>2. PICK c : c = At(b, waiting)
      OBVIOUS
    <2>3. c \in Call /\ c.pc = waiting /\ c.seen = b.seen /\ c.before = b.before
      BY <1>1, <1>2, <2>1, <2>2, AtIsCall
    <2>4. Snap(b.seen)' /\ b.before \subseteq delivered'
      BY <1>1, <2>1, SnapGrows DEF RunInv, CallOk, Grows
    <2>5. CallOk(m, c)'
      BY <1>3, <2>3, <2>4 DEF CallOk, TakenPcs
    <2>6. call' = [call EXCEPT ![m] = c]
      BY <1>4, <2>1, <2>2 DEF CallTo
    <2>7. PICK status \in Statuses : status = call[m].prev
      BY <1>1
    <2>8. Becomes(status, m) /\ c.pc \in WaitPcs
      BY <1>2, <1>4, <2>3, <2>7
    <2>. QED
      BY <1>2, <2>3, <2>5, <2>6, <2>7, <2>8, CallWrites
  <1>5. CASE CallTo(m, after) /\ UNCHANGED memory
    <2>1. after \in CallPcs /\ after \notin {"ensuring", "ready", "publishing", "posting"}
          /\ (after \in TakenPcs => m \in delivered')
      BY <1>2, <1>3 DEF TakenPcs
    <2>. QED
      BY <1>2, <1>5, <2>1, CallGoes
  <1>. QED
    BY <1>4, <1>5 DEF PutBack

LEMMA PostKeeps ==
  ASSUME RunInv, NEW m \in Messages, Post(m)
  PROVE  RunInv'
  <1>1. /\ UNCHANGED <<row, adrift, saved, acked, emitted, relay, session>>
        /\ UNCHANGED <<start, cancel, dog>> /\ call[m].pc = "posting"
    BY DEF Post, store, sessionSide
  <1>2. Accept(m) \/ UNCHANGED <<box, delivered>>
    BY DEF Post
  <1>3. EventsOk' /\ Grows /\ BoxOk' /\ RelayOk'
    BY <1>1, <1>2, AcceptKeeps
  <1>4. \/ Accept(m) /\ CallTo(m, "accepted") /\ UNCHANGED memory
        \/ m \in box.accepted /\ PutBack(m, "again", "accepted")
        \/ PutBack(m, "restoring", "failed")
    BY DEF Post
  <1>5. m \in box.accepted => m \in delivered
    BY DEF RunInv, BoxOk
  <1>6. CASE Accept(m) /\ CallTo(m, "accepted") /\ UNCHANGED memory
    <2>1. m \in delivered'
      BY <1>6 DEF Accept
    <2>2. call[m].pc \notin WaitPcs \cup {"new"} /\ "accepted" \in CallPcs
      BY <1>1 DEF WaitPcs, CallPcs
    <2>. QED
      BY <1>1, <1>3, <1>6, <2>1, <2>2, CallGoes
  <1>7. CASE m \in box.accepted /\ PutBack(m, "again", "accepted")
    BY <1>1, <1>3, <1>5, <1>7, PutBackKeeps
  <1>8. CASE PutBack(m, "restoring", "failed")
    BY <1>1, <1>3, <1>8, PutBackKeeps
  <1>. QED
    BY <1>4, <1>6, <1>7, <1>8

\* A turn that a box has accepted is remembered.
LEMMA RememberKeeps ==
  ASSUME RunInv, NEW m \in Messages, Remember(m)
  PROVE  RunInv'
  <1>1. /\ UNCHANGED <<row, adrift, saved, acked, emitted, box, relay, delivered, session>>
        /\ UNCHANGED <<runs, deferrals, outdated, start, cancel, dog>> /\ call[m].pc = "accepted"
    BY DEF Remember, store, boxSide, sessionSide
  <1>2. EventsOk' /\ Grows /\ BoxOk' /\ RelayOk'
    BY <1>1, SideKept DEF SideAlone
  <1>3. /\ call[m] \in Call /\ CallOk(m, call[m]) /\ m \in Writers
        /\ start.pc \notin {"new", "writing"} /\ call[m].pc \notin WaitPcs \cup {"new"}
        /\ \A i \in 1..Len(writes) : writes[i].by # m
    BY <1>1, CallerIsFree DEF WaitPcs
  <1>4. m \in delivered
    BY <1>1, <1>3 DEF CallOk, TakenPcs
  <1>5. CASE CallTo(m, "ok") /\ UNCHANGED <<recs, writes>>
    <2>1. UNCHANGED memory /\ "ok" \in CallPcs
      BY <1>1, <1>5 DEF memory, CallPcs
    <2>. QED
      BY <1>1, <1>2, <1>3, <1>4, <1>5, <2>1, CallGoes
  <1>6. CASE /\ runs # 0
             /\ recs' = [recs EXCEPT ![runs].msgs = @ \cup {m}]
             /\ writes' = Persist(writes, runs, recs'[runs], m)
             /\ call' = [call EXCEPT ![m].pc = "remembering", ![m].before = recs[runs].msgs]
    <2> DEFINE r == [recs[runs] EXCEPT !.msgs = recs[runs].msgs \cup {m}]
    <2>1. recs \in Seq(Rec) /\ runs \in 1..Len(recs) /\ Len(recs) \in Nat
      BY <1>6 DEF RunInv, MemoryOk, RecsOk
    <2>2. recs[runs] \in Rec /\ Snap(recs[runs]) /\ Past(recs[runs].persisted)
      BY <2>1 DEF RunInv, MemoryOk, RecsOk
    <2>3. recs[runs].msgs \in SUBSET Messages /\ recs[runs].msgs \subseteq delivered
      BY <2>2 DEF Rec, Snap
    <2>4. /\ r \in Rec /\ r.relay = recs[runs].relay /\ r.persisted = recs[runs].persisted
          /\ r.msgs = recs[runs].msgs \cup {m}
      BY <2>2, <2>3 DEF Rec
    <2>5. recs' = [recs EXCEPT ![runs] = r]
      BY <1>6
    <2> HIDE DEF r
    <2>6. Snap(r) /\ Past(r.persisted)
      BY <1>4, <2>2, <2>3, <2>4 DEF Snap
    <2>7. recs' \in Seq(Rec) /\ Put(recs, recs', runs, r)
      BY <2>1, <2>4, <2>5, SeqPut
    <2>8. writes' = Persist(writes, runs, r, m)
      BY <1>6, <2>7 DEF Put
    <2>9. MemoryOk' /\ Len(recs') = Len(recs) /\ Joined(m)
      BY <1>1, <1>2, <1>3, <1>6, <2>4, <2>6, <2>7, <2>8, SnapshotKeeps DEF RunInv
    <2>10. Lengthens /\ SessionOk'
      BY <1>1, <2>1, <2>9 DEF RunInv, Lengthens, SessionOk
    <2>11. PICK before \in SUBSET Messages : before = recs[runs].msgs
      BY <2>3
    <2>12. PICK c : c = [call[m] EXCEPT !.pc = "remembering", !.before = before]
      OBVIOUS
    <2>13. c \in Call /\ c.pc = "remembering" /\ c.seen = call[m].seen /\ c.before = before
      BY <1>3, <2>12 DEF Call, CallPcs
    <2>14. CallOk(m, c)'
      <3>1. PICK a : a = call[m].seen
        OBVIOUS
      <3>2. Snap(a)'
        BY <1>2, <1>3, <3>1, SnapGrows DEF RunInv, CallOk
      <3>3. before \subseteq delivered' /\ m \in delivered'
        BY <1>1, <1>4, <2>3, <2>11
      <3>4. c.seen = a
        BY <2>13, <3>1
      <3>. QED
        BY <2>13, <3>2, <3>3, <3>4 DEF CallOk
    <2>15. call' = [call EXCEPT ![m] = c] /\ c.pc \in WaitPcs
      <3>1. call \in [Messages -> Call]
        BY DEF RunInv, CallsOk
      <3>. QED
        BY <1>6, <2>11, <2>12, <2>13, <3>1 DEF WaitPcs
    <2>. QED
      BY <1>1, <1>2, <1>3, <2>9, <2>10, <2>13, <2>14, <2>15, CallStep
  <1>. QED
    BY <1>5, <1>6 DEF Remember

----------------------------------------------------------------------------
(* capability.cancel.                                                       *)

\* The cancellation goes on, with or without a write it waits for.
LEMMA CancelStep ==
  ASSUME RunInv, EventsOk', Grows, BoxOk', RelayOk', SessionOk', MemoryOk', Lengthens,
         UNCHANGED <<start, call, dog, relay>>, start.pc \notin {"new", "writing"}, CancelOk',
         \/ UNCHANGED writes /\ cancel.pc # "ending"
         \/ Joined("cancel") /\ cancel'.pc = "ending"
  PROVE  RunInv'
  <1>1. CallsOk' /\ DogOk' /\ StartOk'
    BY CallsKept, DogKept, StartKept DEF RunInv
  <1>2. WaitersOk'
    <2>1. \A b \in Writers : b # "cancel" /\ Waits(b) => Waits(b)'
      BY DEF Waits
    <2>2. CASE UNCHANGED writes /\ cancel.pc # "ending"
      <3>1. ~Waits("cancel")
        BY <2>2, CallersAssumption DEF Waits
      <3>. QED
        BY <2>1, <2>2, <3>1, WaitersKept DEF RunInv, MemoryOk
    <2>3. CASE Joined("cancel") /\ cancel'.pc = "ending"
      <3>1. (Waits("cancel"))'
        BY <2>3 DEF Waits
      <3>. QED
        BY <2>1, <2>3, <3>1, WaiterJoins DEF RunInv, MemoryOk
    <2>. QED
      BY <2>2, <2>3
  <1>. QED
    BY <1>1, <1>2 DEF RunInv

LEMMA NoCancelWrite ==
  ASSUME RunInv, cancel.pc # "ending"
  PROVE  /\ "cancel" \in Writers /\ \A i \in 1..Len(writes) : writes[i].by # "cancel"
         /\ cancel.pc # "new" => start.pc \notin {"new", "writing"}
  <1>1. ~Waits("cancel")
    BY CallersAssumption DEF Waits
  <1>2. cancel.pc # "new" => start.pc \notin {"new", "writing"}
    BY DEF RunInv, StartOk, Unborn
  <1>. QED
    BY <1>1, <1>2, NoWriteOf DEF RunInv, Writers

\* A live run is ended, any other only needs its box stopped.
LEMMA CancelKeeps ==
  ASSUME RunInv, Cancel
  PROVE  RunInv'
  <1>1. /\ UNCHANGED <<row, adrift, saved, acked, emitted, box, relay, delivered, session>>
        /\ UNCHANGED <<start, call, dog>> /\ start.pc = "ok" /\ cancel.pc = "new"
    BY DEF Cancel, store, boxSide, sessionSide
  <1>2. EventsOk' /\ Grows /\ BoxOk' /\ RelayOk'
    BY <1>1, SideKept DEF SideAlone
  <1>3. /\ cancel \in Cancellation /\ Snap(cancel.seen) /\ row \in Rows /\ Snap(row)
    BY DEF RunInv, CancelOk, MemoryOk, RowOk
  <1>4. CASE Becomes("done", "cancel") /\ CancelTo("ending")
    <2>1. "done" \in Statuses
      BY DEF Statuses, Terminal
    <2>2. MemoryOk' /\ Len(recs') = Len(recs) /\ Joined("cancel") /\ UNCHANGED deferrals
      BY <1>1, <1>2, <1>4, <2>1, NoCancelWrite, BecomesKeeps DEF RunInv
    <2>3. Lengthens /\ SessionOk'
      BY <1>1, <2>2 DEF RunInv, MemoryOk, RecsOk, Lengthens, SessionOk
    <2>4. cancel' \in Cancellation /\ cancel'.seen = cancel.seen /\ cancel'.pc = "ending"
      BY <1>3, <1>4 DEF CancelTo, Cancellation
    <2>5. CancelOk'
      BY <1>2, <1>3, <2>4, SnapGrows DEF CancelOk, RunInv
    <2>. QED
      BY <1>1, <1>2, <2>2, <2>3, <2>4, <2>5, CancelStep
  <1>5. CASE UNCHANGED memory /\ (CancelTo("stopping") \/ cancel' = [pc |-> "adopting", seen |-> row])
    <2>1. MemoryOk' /\ Lengthens /\ SessionOk' /\ UNCHANGED writes
      BY <1>1, <1>2, <1>5, MemoryKept DEF RunInv, memory, MemoryOk, RecsOk, Lengthens, SessionOk
    <2>2. cancel' \in Cancellation /\ cancel'.seen \in {cancel.seen, row}
      BY <1>3, <1>5 DEF CancelTo, Cancellation
    <2>3. CancelOk'
      <3>1. PICK a : a = cancel'.seen
        OBVIOUS
      <3>2. Snap(a)'
        BY <1>2, <1>3, <2>2, <3>1, SnapGrows DEF RunInv
      <3>. QED
        BY <2>2, <3>1, <3>2 DEF CancelOk
    <2>. QED
      BY <1>1, <1>2, <2>1, <2>3, CancelStep
  <1>. QED
    BY <1>4, <1>5 DEF Cancel, CancelEnds

\* A run that is not known is adopted to be ended, or only its box is stopped.
LEMMA CancelAdoptsKeeps ==
  ASSUME RunInv, CancelAdopts
  PROVE  RunInv'
  <1>1. /\ UNCHANGED <<row, adrift, saved, acked, emitted, box, relay, delivered, session>>
        /\ UNCHANGED <<start, call, dog>> /\ cancel.pc = "adopting"
    BY DEF CancelAdopts, store, boxSide, sessionSide
  <1>2. EventsOk' /\ Grows /\ BoxOk' /\ RelayOk'
    BY <1>1, SideKept DEF SideAlone
  <1>3. cancel \in Cancellation /\ Snap(cancel.seen) /\ NoRow \in Rows /\ Snap(NoRow)
    BY NothingKnown DEF RunInv, CancelOk
  <1>4. cancel' \in Cancellation /\ cancel'.seen = NoRow
    <2>1. \E pc \in {"ending", "stopping"} : cancel' = [pc |-> pc, seen |-> NoRow]
      BY DEF CancelAdopts
    <2>. QED
      BY <1>3, <2>1 DEF Cancellation
  <1>5. CancelOk'
    <2>1. PICK a : a = NoRow
      OBVIOUS
    <2>2. Snap(a)'
      BY <1>2, <1>3, <2>1, SnapGrows DEF RunInv
    <2>. QED
      BY <1>4, <2>1, <2>2 DEF CancelOk
  <1>6. CASE /\ Register(cancel.seen, "done") /\ UNCHANGED deferrals
             /\ writes' = Persist(writes, runs', recs'[runs'], "cancel")
             /\ cancel' = [pc |-> "ending", seen |-> NoRow]
    <2>1. PICK a \in Rows : a = cancel.seen
      BY <1>3 DEF Cancellation
    <2> DEFINE r == [status |-> "done", relay |-> a.relay, persisted |-> a.relay,
                     msgs |-> a.msgs, silent |-> FALSE]
    <2>2. Len(recs) < MaxRecords /\ recs' = Append(recs, r) /\ runs' = Len(recs) + 1
      BY <1>6, <2>1 DEF Register, NewRecord, Rows
    <2>3. r \in Rec /\ Snap(r) /\ Past(r.persisted) /\ r.status = "done"
      <3>1. a.relay \in 0..MaxEvents /\ a.msgs \in SUBSET Messages /\ "done" \in Statuses
        BY DEF Rows, Statuses, Terminal
      <3>2. Snap(a)
        BY <1>3, <2>1
      <3>. QED
        BY <3>1, <3>2 DEF Rec, Snap
    <2> HIDE DEF r
    <2>4. recs \in Seq(Rec) /\ Len(recs) \in Nat
      BY DEF RunInv, MemoryOk, RecsOk
    <2>5. recs'[Len(recs) + 1] = r
      BY <2>2, <2>3, <2>4
    <2>6. writes' = Persist(writes, Len(recs) + 1, r, "cancel")
      BY <1>6, <2>2, <2>5
    <2>7. ~Live'
      BY <2>2, <2>3, <2>5 DEF Live, Active
    <2>8. runs' \in 0..(Len(recs) + 1)
      BY <2>2, <2>4
    <2>9. MemoryOk' /\ Len(recs) <= Len(recs') /\ Joined("cancel")
      BY <1>1, <1>2, <2>2, <2>3, <2>6, <2>7, <2>8, NoCancelWrite, RecordWithWriteKeeps DEF RunInv
    <2>10. Lengthens /\ SessionOk' /\ cancel'.pc = "ending"
      BY <1>1, <1>6, <2>4, <2>9 DEF RunInv, MemoryOk, RecsOk, Lengthens, SessionOk
    <2>. QED
      BY <1>1, <1>2, <1>5, <2>9, <2>10, NoCancelWrite, CancelStep
  <1>7. CASE UNCHANGED memory
    <2>1. MemoryOk' /\ Lengthens /\ SessionOk' /\ UNCHANGED writes
      BY <1>1, <1>2, <1>7, MemoryKept DEF RunInv, memory, MemoryOk, RecsOk, Lengthens, SessionOk
    <2>. QED
      BY <1>1, <1>2, <1>5, <2>1, NoCancelWrite, CancelStep
  <1>. QED
    BY <1>6, <1>7 DEF CancelAdopts

LEMMA CancelStopsKeeps ==
  ASSUME RunInv, CancelStops
  PROVE  RunInv'
  <1>1. /\ UNCHANGED <<row, adrift, saved, acked, emitted, relay, delivered, session>>
        /\ UNCHANGED memory /\ UNCHANGED <<start, call, dog>> /\ cancel.pc = "stopping"
        /\ box' = box \/ box' = NoBox
        /\ \E pc \in {"confirmed", "failed"} : CancelTo(pc)
    BY DEF CancelStops, store, sessionSide
  <1>2. EventsOk' /\ Grows /\ BoxOk' /\ RelayOk'
    BY <1>1, BoxEmpties
  <1>3. MemoryOk' /\ Lengthens /\ SessionOk' /\ UNCHANGED writes
    BY <1>1, <1>2, MemoryKept DEF RunInv, memory, MemoryOk, RecsOk, Lengthens, SessionOk
  <1>4. cancel \in Cancellation /\ Snap(cancel.seen)
    BY DEF RunInv, CancelOk
  <1>5. cancel' \in Cancellation /\ cancel'.seen = cancel.seen
    BY <1>1, <1>4 DEF CancelTo, Cancellation
  <1>6. CancelOk'
    <2>1. PICK a : a = cancel.seen
      OBVIOUS
    <2>2. Snap(a)'
      BY <1>2, <1>4, <2>1, SnapGrows DEF RunInv
    <2>. QED
      BY <1>5, <2>1, <2>2 DEF CancelOk
  <1>. QED
    BY <1>1, <1>2, <1>3, <1>6, NoCancelWrite, CancelStep

----------------------------------------------------------------------------
(* The watchdog.                                                            *)

LEMMA DogStepKeeps ==
  ASSUME RunInv, EventsOk', Grows, BoxOk', RelayOk', SessionOk', MemoryOk', Lengthens,
         UNCHANGED <<start, call, cancel, relay>>, DogOk',
         \/ start.pc \notin {"new", "writing"}
         \/ UNCHANGED <<runs, row, writes, recs>> /\ dog'.seen.status = dog.seen.status,
         \/ UNCHANGED writes /\ dog.pc \notin {"flushing", "reaped"}
         \/ Joined("dog") /\ dog'.pc \in {"flushing", "reaped"}
  PROVE  RunInv'
  <1>1. CallsOk' /\ CancelOk' /\ StartOk'
    BY CallsKept, CancelKept, StartKept DEF RunInv
  <1>2. WaitersOk'
    <2>1. \A b \in Writers : b # "dog" /\ Waits(b) => Waits(b)'
      BY DEF Waits
    <2>2. CASE UNCHANGED writes /\ dog.pc \notin {"flushing", "reaped"}
      <3>1. ~Waits("dog")
        BY <2>2, CallersAssumption DEF Waits
      <3>. QED
        BY <2>1, <2>2, <3>1, WaitersKept DEF RunInv, MemoryOk
    <2>3. CASE Joined("dog") /\ dog'.pc \in {"flushing", "reaped"}
      <3>1. (Waits("dog"))'
        BY <2>3 DEF Waits
      <3>. QED
        BY <2>1, <2>3, <3>1, WaiterJoins DEF RunInv, MemoryOk
    <2>. QED
      BY <2>2, <2>3
  <1>. QED
    BY <1>1, <1>2 DEF RunInv

LEMMA NoDogWrite ==
  ASSUME RunInv, dog.pc \notin {"flushing", "reaped"}
  PROVE  "dog" \in Writers /\ \A i \in 1..Len(writes) : writes[i].by # "dog"
  <1>1. ~Waits("dog")
    BY CallersAssumption DEF Waits
  <1>. QED
    BY <1>1, NoWriteOf DEF RunInv, Writers

LEMMA DogRestsOk ==
  ASSUME EventsOk
  PROVE  DogRests \in Dog /\ DogRests.seen = NoRow /\ DogRests.pc = "rest" /\ Snap(DogRests.seen)
  BY NothingKnown DEF DogRests, Dog

\* The watchdog's answer is an older one, the row, or none.
LEMMA DogSees ==
  ASSUME RunInv, EventsOk', Grows, dog' \in Dog, dog'.seen \in {dog.seen, row, NoRow},
         dog'.pc \in {"stopping", "ending"} => dog'.outcome \in Terminal
  PROVE  DogOk'
  <1>1. PICK a : a = dog'.seen
    OBVIOUS
  <1>2. Snap(a)
    BY <1>1, NothingKnown DEF RunInv, DogOk, MemoryOk, RowOk
  <1>3. Snap(a)'
    BY <1>2, SnapGrows DEF RunInv
  <1>. QED
    BY <1>1, <1>3 DEF DogOk

\* What the watchdog always leaves alone.
DogAlone ==
    UNCHANGED <<row, adrift, saved, acked, emitted, relay, delivered, start, call, cancel>>

\* The watchdog goes on without a write.
LEMMA DogMoves ==
  ASSUME RunInv, DogAlone, UNCHANGED <<recs, writes, outdated, session>>,
         runs' \in {0, runs}, deferrals' \in 0..MaxDeferrals, box' = box \/ box' = NoBox,
         dog.pc \notin {"flushing", "reaped"}, dog' \in Dog,
         dog'.seen \in {dog.seen, row, NoRow},
         dog'.pc \in {"stopping", "ending"} => dog'.outcome \in Terminal
  PROVE  RunInv'
  <1>1. EventsOk' /\ Grows /\ BoxOk' /\ RelayOk'
    BY BoxEmpties DEF DogAlone
  <1>2. MemoryOk' /\ Lengthens /\ SessionOk'
    BY <1>1, MemoryKept DEF RunInv, DogAlone, MemoryOk, RecsOk, Lengthens, SessionOk
  <1>3. DogOk'
    BY <1>1, DogSees
  <1>4. \/ start.pc \notin {"new", "writing"}
        \/ UNCHANGED <<runs, row, writes, recs>> /\ dog'.seen.status = dog.seen.status
    <2>1. NoRow.status = "none"
      BY DEF NoRow
    <2>2. Unborn => runs = 0 /\ row.status = "none" /\ dog.seen.status = "none"
      BY DEF Unborn
    <2>3. start.pc \in {"new", "writing"} => Unborn
      BY DEF RunInv, StartOk
    <2>. QED
      BY <2>1, <2>2, <2>3 DEF DogAlone
  <1>. QED
    BY <1>1, <1>2, <1>3, <1>4, DogStepKeeps DEF DogAlone

\* The watchdog goes on with a write it waits for.
LEMMA DogWrites ==
  ASSUME RunInv, EventsOk', Grows, BoxOk', RelayOk', DogAlone, UNCHANGED <<runs, deferrals, session>>,
         runs # 0, MemoryOk', Len(recs') = Len(recs), Joined("dog"),
         NEW pc \in {"flushing", "reaped"}, DogTo(pc)
  PROVE  RunInv'
  <1>1. dog \in Dog
    BY DEF RunInv, DogOk
  <1>2. dog' \in Dog /\ dog'.pc = pc /\ dog'.seen = dog.seen
    BY <1>1 DEF DogTo, Dog
  <1>3. DogOk'
    BY <1>2, DogSees
  <1>4. Lengthens /\ SessionOk'
    BY DEF RunInv, MemoryOk, RecsOk, Lengthens, SessionOk, DogAlone
  <1>. QED
    BY <1>2, <1>3, <1>4, KnownIsBorn, DogStepKeeps DEF DogAlone

LEMMA TimePassesKeeps ==
  ASSUME RunInv, TimePasses
  PROVE  RunInv'
  <1>1. /\ DogAlone /\ SideAlone /\ UNCHANGED <<runs, deferrals, writes, outdated, session, dog>>
        /\ dog.pc = "listed" /\ runs # 0 /\ recs' = [recs EXCEPT ![runs].silent = TRUE]
    BY DEF TimePasses, Live, DogAlone, SideAlone, store, boxSide, sessionSide, handlers
  <1>2. EventsOk' /\ Grows /\ BoxOk' /\ RelayOk'
    BY <1>1, SideKept DEF DogAlone
  <1>3. MemoryOk' /\ Len(recs') = Len(recs)
    BY <1>1, <1>2, SilenceKeeps DEF RunInv, DogAlone
  <1>4. Lengthens /\ SessionOk' /\ DogOk'
    BY <1>1, <1>2, <1>3, DogKept DEF RunInv, MemoryOk, RecsOk, Lengthens, SessionOk, DogAlone
  <1>. QED
    BY <1>1, <1>2, <1>3, <1>4, KnownIsBorn, DogStepKeeps DEF DogAlone

LEMMA DogFlushesKeeps ==
  ASSUME RunInv, DogFlushes
  PROVE  RunInv'
  <1>1. /\ DogAlone /\ SideAlone /\ UNCHANGED <<recs, runs, deferrals, outdated, session>>
        /\ dog.pc = "rest" /\ runs # 0 /\ writes' = Persist(writes, runs, recs[runs], "dog")
        /\ DogTo("flushing")
    BY DEF DogFlushes, DogAlone, SideAlone, store, boxSide, sessionSide
  <1>2. EventsOk' /\ Grows /\ BoxOk' /\ RelayOk'
    BY <1>1, SideKept DEF DogAlone
  <1>3. recs \in Seq(Rec) /\ runs \in 1..Len(recs)
    BY <1>1 DEF RunInv, MemoryOk, RecsOk
  <1>4. PICK r \in Rec : r = recs[runs]
    BY <1>3
  <1>5. Snap(r) /\ Past(r.persisted) /\ recs' \in Seq(Rec) /\ Put(recs, recs', runs, r)
    BY <1>1, <1>3, <1>4 DEF RunInv, MemoryOk, RecsOk, Put
  <1>6. writes' = Persist(writes, runs, r, "dog")
    BY <1>1, <1>4
  <1>7. MemoryOk' /\ Len(recs') = Len(recs) /\ Joined("dog")
    BY <1>1, <1>2, <1>5, <1>6, NoDogWrite, SnapshotKeeps DEF RunInv, DogAlone
  <1>. QED
    BY <1>1, <1>2, <1>7, DogWrites

LEMMA DogListsKeeps ==
  ASSUME RunInv, DogLists
  PROVE  RunInv'
  <1>1. /\ DogAlone /\ UNCHANGED <<recs, runs, deferrals, writes, outdated, session, box>>
        /\ dog.pc \in {"rest", "listing"}
    BY DEF DogLists, DogAlone, store, memory, boxSide, sessionSide
  <1>2. dog' = [dog EXCEPT !.pc = "listed", !.seen = row] \/ dog' = [dog EXCEPT !.pc = "listed"]
    BY DEF DogLists
  <1>3. dog \in Dog /\ row \in Rows /\ deferrals \in 0..MaxDeferrals
    BY DEF RunInv, DogOk, MemoryOk, RowOk, SessionOk
  <1>4. dog' \in Dog /\ dog'.pc = "listed" /\ dog'.seen \in {dog.seen, row}
    BY <1>2, <1>3 DEF Dog
  <1>. QED
    BY <1>1, <1>3, <1>4, DogMoves

LEMMA DogRecoversKeeps ==
  ASSUME RunInv, DogRecovers
  PROVE  RunInv'
  <1>1. /\ DogAlone /\ SideAlone /\ UNCHANGED session /\ dog.pc = "listed"
    BY DEF DogRecovers, DogAlone, SideAlone, store, boxSide
  <1>2. dog \in Dog /\ Snap(dog.seen) /\ row \in Rows /\ deferrals \in 0..MaxDeferrals
        /\ Len(recs) \in Nat /\ runs \in 0..Len(recs)
    BY DEF RunInv, DogOk, MemoryOk, RowOk, RecsOk, SessionOk
  <1>3. CASE /\ dog.seen.status \in Active /\ Register(dog.seen, dog.seen.status)
             /\ dog' = DogRests /\ UNCHANGED <<deferrals, writes>>
    <2>1. EventsOk' /\ Grows /\ BoxOk' /\ RelayOk'
      BY <1>1, SideKept DEF DogAlone
    <2>2. PICK a \in Rows : a = dog.seen
      BY <1>2 DEF Dog
    <2>3. a.status \in Statuses /\ Snap(a) /\ Register(a, a.status)
      BY <1>2, <1>3, <2>2 DEF Statuses
    <2>4. MemoryOk' /\ Lengthens
      <3>1. MemoryOk' /\ Len(recs) <= Len(recs')
        BY <1>1, <1>3, <2>1, <2>3, RegisterKeeps DEF RunInv, DogAlone
      <3>. QED
        BY <1>2, <3>1 DEF MemoryOk, RecsOk, Lengthens
    <2>5. SessionOk'
      BY <1>1, <1>3 DEF RunInv, SessionOk, DogAlone
    <2>6. DogOk'
      BY <1>3, <2>1, DogRestsOk, DogSees DEF RunInv
    <2>7. start.pc \notin {"new", "writing"}
      BY <1>3 DEF RunInv, StartOk, Unborn, Active
    <2>. QED
      BY <1>1, <1>3, <2>1, <2>4, <2>5, <2>6, <2>7, DogStepKeeps DEF DogAlone
  <1>4. CASE /\ UNCHANGED memory
             /\ \/ dog' = [DogRests EXCEPT !.pc = "checking", !.rec = runs, !.seen = row]
                \/ dog' = DogRests
    <2>1. DogRests \in Dog /\ DogRests.seen = NoRow /\ DogRests.pc = "rest"
      BY DogRestsOk DEF RunInv
    <2>2. runs \in Nat
      BY <1>2
    <2>3. dog' \in Dog /\ dog'.seen \in {row, NoRow} /\ dog'.pc \in {"checking", "rest"}
      BY <1>2, <1>4, <2>1, <2>2 DEF Dog
    <2>. QED
      BY <1>1, <1>2, <1>4, <2>3, DogMoves DEF memory, SideAlone
  <1>. QED
    BY <1>3, <1>4 DEF DogRecovers

LEMMA DogChecksKeeps ==
  ASSUME RunInv, DogChecks
  PROVE  RunInv'
  <1>1. /\ DogAlone /\ UNCHANGED <<recs, writes, outdated, session, box>> /\ dog.pc = "checking"
    BY DEF DogChecks, DogAlone, store, boxSide, sessionSide
  <1>2. dog \in Dog /\ deferrals \in 0..MaxDeferrals /\ MaxDeferrals \in Nat
    BY CapabilityAssumption DEF RunInv, DogOk, SessionOk
  <1>3. /\ runs' = 0 \/ runs' = runs
        /\ deferrals' = 0 \/ (deferrals + 1 < MaxDeferrals /\ deferrals' = deferrals + 1)
    BY Zenon DEF DogChecks
  <1>4. deferrals' \in 0..MaxDeferrals
    BY <1>2, <1>3
  <1>5. \/ dog' = DogRests
        \/ \E outcome \in Terminal, blind \in BOOLEAN :
             dog' = [dog EXCEPT !.pc = "stopping", !.outcome = outcome, !.blind = blind]
    <2>1. dog' = DogRests \/ \E blind \in BOOLEAN : DogJudges(blind)
      BY DEF DogChecks
    <2>2. ASSUME NEW blind \in BOOLEAN, DogJudges(blind)
          PROVE  \/ dog' = DogRests
                 \/ \E outcome \in Terminal :
                      dog' = [dog EXCEPT !.pc = "stopping", !.outcome = outcome, !.blind = blind]
      <3>1. stalenessOutcome(recs[dog.rec]) \in Terminal \cup {"none"}
        BY DEF stalenessOutcome, Terminal
      <3>. QED
        BY <2>2, <3>1, Zenon DEF DogJudges
    <2>. QED
      BY <2>1, <2>2, Zenon
  <1>6. /\ dog' \in Dog /\ dog'.seen \in {dog.seen, NoRow}
        /\ dog'.pc \in {"stopping", "ending"} => dog'.outcome \in Terminal
    <2>1. DogRests \in Dog /\ DogRests.seen = NoRow /\ DogRests.pc = "rest"
      BY DogRestsOk DEF RunInv
    <2>2. ASSUME NEW outcome \in Terminal, NEW blind \in BOOLEAN,
                 dog' = [dog EXCEPT !.pc = "stopping", !.outcome = outcome, !.blind = blind]
          PROVE  dog' \in Dog /\ dog'.seen = dog.seen /\ dog'.outcome \in Terminal
      BY <1>2, <2>2 DEF Dog
    <2>. QED
      BY <1>5, <2>1, <2>2, Zenon
  <1>. QED
    BY <1>1, <1>3, <1>4, <1>6, DogMoves

LEMMA DogStopsKeeps ==
  ASSUME RunInv, DogStops
  PROVE  RunInv'
  <1>1. /\ DogAlone /\ UNCHANGED <<recs, runs, deferrals, writes, outdated, session>>
        /\ dog.pc = "stopping" /\ DogTo("ending") /\ (box' = box \/ box' = NoBox)
    BY DEF DogStops, DogAlone, store, memory, sessionSide
  <1>2. dog \in Dog /\ dog.outcome \in Terminal /\ deferrals \in 0..MaxDeferrals
    BY <1>1 DEF RunInv, DogOk, SessionOk
  <1>3. dog' \in Dog /\ dog'.seen = dog.seen /\ dog'.outcome \in Terminal
    BY <1>1, <1>2 DEF DogTo, Dog
  <1>. QED
    BY <1>1, <1>2, <1>3, DogMoves

LEMMA DogReapsKeeps ==
  ASSUME RunInv, DogReaps
  PROVE  RunInv'
  <1>1. DogAlone /\ SideAlone /\ UNCHANGED session /\ dog.pc = "ending"
    BY DEF DogReaps, DogAlone, SideAlone, store, boxSide, sessionSide
  <1>2. dog \in Dog /\ dog.outcome \in Terminal /\ deferrals \in 0..MaxDeferrals
    BY <1>1 DEF RunInv, DogOk, SessionOk
  <1>3. CASE Becomes(dog.outcome, "dog") /\ DogTo("reaped")
    <2>1. EventsOk' /\ Grows /\ BoxOk' /\ RelayOk'
      BY <1>1, SideKept DEF DogAlone
    <2>2. PICK status \in Statuses : status = dog.outcome
      BY <1>2 DEF Statuses
    <2>3. Becomes(status, "dog")
      BY <1>3, <2>2
    <2>4. /\ MemoryOk' /\ Len(recs') = Len(recs) /\ Joined("dog") /\ Live /\ UNCHANGED <<runs, deferrals>>
      BY <1>1, <2>1, <2>3, NoDogWrite, BecomesKeeps DEF RunInv, DogAlone
    <2>5. runs # 0
      BY <2>4 DEF Live
    <2>. QED
      BY <1>1, <1>3, <2>1, <2>4, <2>5, DogWrites
  <1>4. CASE dog' = DogRests /\ UNCHANGED memory
    <2>1. DogRests \in Dog /\ DogRests.seen = NoRow /\ DogRests.pc = "rest"
      BY DogRestsOk DEF RunInv
    <2>. QED
      BY <1>1, <1>2, <1>4, <2>1, DogMoves DEF memory, SideAlone
  <1>. QED
    BY <1>3, <1>4 DEF DogReaps

----------------------------------------------------------------------------
(* The end of a write.                                                      *)

\* The oldest write and the caller that waits for it.
LEMMA OldestWrite ==
  ASSUME RunInv, writes # <<>>, NEW w, w = writes[1]
  PROVE  /\ w \in Write /\ w.rec \in 1..Len(recs) /\ Snap(w) /\ 1 \in 1..Len(writes)
         /\ w.by = "start" => start.pc \in {"writing", "ending"}
         /\ w.by = "relay" => relay.pc \in {"committing", "ending"}
         /\ w.by = "cancel" => cancel.pc = "ending"
         /\ w.by = "dog" => dog.pc \in {"flushing", "reaped"}
         /\ w.by \in Messages => call[w.by].pc \in WaitPcs
         /\ w.by \in Messages => w.by \notin {"start", "relay", "cancel", "dog"}
         /\ start.pc = "writing" => w.by = "start"
         /\ start.pc # "new"
  <1>1. writes \in Seq(Write) /\ 1 \in 1..Len(writes)
    BY DEF RunInv, MemoryOk, WritesOk
  <1>2. w \in Write /\ w.rec \in 1..Len(recs) /\ Snap(w)
    BY <1>1 DEF RunInv, MemoryOk, WritesOk
  <1>3. Waits(w.by)
    BY <1>1 DEF RunInv, WaitersOk
  <1>4. w.by \in Messages => w.by \notin {"start", "relay", "cancel", "dog"}
    BY CallersAssumption
  <1>5. (start.pc = "writing" => w.by = "start") /\ start.pc # "new"
    BY DEF RunInv, StartOk
  <1>. QED
    BY <1>1, <1>2, <1>3, <1>4, <1>5, CallersAssumption DEF Waits

\* The relay goes on, the session may begin, and the run may be dropped.
LEMMA WrittenSide ==
  ASSUME RunInv, writes # <<>>, NEW w, w = writes[1], NEW written \in BOOLEAN, Written(w, written),
         UNCHANGED <<saved, acked, emitted, box, delivered, deferrals>>
  PROVE  /\ EventsOk' /\ Grows /\ BoxOk' /\ RelayOk' /\ SessionOk'
         /\ \/ runs' \in {0, runs}
            \/ w.by = "start" /\ start.pc = "writing" /\ written /\ runs' = w.rec
  <1>1. /\ w.by = "relay" => relay.pc \in {"committing", "ending"}
        /\ saved \subseteq 1..MaxEvents /\ deferrals \in 0..MaxDeferrals
    BY OldestWrite DEF RunInv, EventsOk, SessionOk
  <1>2. CASE w.by = "relay" /\ WrittenForRelay(w, written)
    <2>1. /\ UNCHANGED session /\ runs' \in {0, runs}
          /\ \/ relay.pc = "ending" /\ RelayTo("closing")
             \/ relay.pc = "committing" /\ \E pc \in {"ack", "failing", "recommit"} : RelayTo(pc)
      BY <1>1, <1>2 DEF WrittenForRelay, AfterEnd
    <2>2. PICK pc \in {"closing", "ack", "failing", "recommit"} :
            RelayTo(pc) /\ (pc \in {"ack", "recommit"} => relay.pc = "committing")
      BY <2>1
    <2>3. /\ relay.pc = "committing" /\ relay.event.kind = "turn" => relay.event.id \in saved
          /\ relay.pc = "committing" => relay.event.kind # "none"
      BY DEF RunInv, RelayOk, StoredPcs, Fits
    <2>4. /\ pc \in RelayPcs /\ Fits(pc, relay.event)
          /\ pc \in StoredPcs /\ relay.event.kind = "turn" => relay.event.id \in saved'
      BY <2>2, <2>3 DEF RelayPcs, Fits, StoredPcs
    <2>5. EventsOk' /\ Grows /\ BoxOk' /\ RelayOk' /\ relay'.pc = pc
      BY <1>1, <2>2, <2>4, RelayGoes
    <2>6. SessionOk'
      BY <1>1, <1>2, <2>1, <2>5 DEF RunInv, SessionOk
    <2>. QED
      BY <2>1, <2>5, <2>6
  <1>3. CASE UNCHANGED relay /\ (UNCHANGED session \/ Ensure(start.opening))
    <2>1. EventsOk' /\ Grows /\ BoxOk' /\ RelayOk'
      BY <1>3, BoxEmpties
    <2>2. SessionOk'
      BY <1>1, <1>3, EnsureKeeps DEF RunInv
    <2>. QED
      BY <2>1, <2>2 DEF Written, WrittenForStart, WrittenForRelay, WrittenForCall, WrittenForCancel,
                       WrittenForDog, AfterEnd
  <1>4. \/ w.by = "relay" /\ WrittenForRelay(w, written)
        \/ UNCHANGED relay /\ (UNCHANGED session \/ Ensure(start.opening))
    BY DEF Written, WrittenForStart, WrittenForCall, WrittenForCancel, WrittenForDog
  <1>. QED
    BY <1>2, <1>3, <1>4

\* The caller goes on, the others wait as they did.
OthersWait(by) == \A b \in Writers : b # by /\ Waits(b) => Waits(b)'

LEMMA WrittenForCallKeeps ==
  ASSUME RunInv, EventsOk', Grows, Lengthens, writes # <<>>, NEW w, w = writes[1],
         NEW written \in BOOLEAN, w.by \in Messages, WrittenForCall(w, written), UNCHANGED delivered
  PROVE  CallsOk' /\ \A n \in Messages : n # w.by => call'[n] = call[n]
  <1>1. PICK m \in Messages : m = w.by
    OBVIOUS
  <1>2. call[m].pc \in WaitPcs /\ call[m] \in Call /\ CallOk(m, call[m])
    BY <1>1, OldestWrite, CallerIsFree
  <1>3. PICK pc \in {"posting", "failed", "accepted", "ok"} :
          /\ CallTo(m, pc) /\ (pc = "posting" => call[m].pc = "publishing")
          /\ pc = "accepted" => call[m].pc = "again"
          /\ pc = "ok" => call[m].pc = "remembering"
    BY <1>1, <1>2 DEF WrittenForCall, WaitPcs
  <1>4. pc \in CallPcs /\ (pc \in TakenPcs => m \in delivered)
        /\ (pc = "posting" => call[m].prev \in Statuses)
    BY <1>2, <1>3 DEF CallPcs, TakenPcs, CallOk
  <1>5. At(call[m], pc) \in Call /\ CallOk(m, At(call[m], pc))
    BY <1>2, <1>3, <1>4, AtIsCall, AtIsOk DEF RunInv
  <1>6. PICK c \in Call : c = At(call[m], pc)
    BY <1>5
  <1>7. CallOk(m, c)'
    BY <1>5, <1>6, CallGrows DEF RunInv
  <1>8. call' = [call EXCEPT ![m] = c]
    BY <1>3, <1>6 DEF CallTo
  <1>. QED
    BY <1>1, <1>6, <1>7, <1>8, CallSet DEF RunInv

LEMMA WrittenHandlers ==
  ASSUME RunInv, EventsOk', Grows, Lengthens, writes # <<>>, NEW w, w = writes[1],
         NEW written \in BOOLEAN, Written(w, written), UNCHANGED delivered
  PROVE  CallsOk' /\ CancelOk' /\ DogOk' /\ StartOk' /\ OthersWait(w.by)
  <1>1. /\ w.by = "start" => start.pc \in {"writing", "ending"}
        /\ w.by \in Messages => w.by \notin {"start", "relay", "cancel", "dog"}
        /\ start.pc = "writing" => w.by = "start"
        /\ start.pc # "new"
    BY OldestWrite
  <1>2. start \in Starting /\ cancel \in Cancellation /\ dog \in Dog
    BY DEF RunInv, StartOk, CancelOk, DogOk
  <1>3. CASE w.by = "start" /\ WrittenForStart(w, written)
    <2>1. UNCHANGED <<relay, call, cancel, dog>>
      BY <1>3 DEF WrittenForStart
    <2>2. start' \in Starting /\ start'.pc \in {"ensuring", "failed"}
      <3>1. \/ \E pc \in {"ensuring", "failed"} : start' = [pc |-> pc, opening |-> FALSE]
            \/ start' = [start EXCEPT !.pc = "failed"]
        BY <1>3 DEF WrittenForStart
      <3>2. ASSUME NEW pc \in {"ensuring", "failed"}, start' = [pc |-> pc, opening |-> FALSE]
            PROVE  start' \in Starting /\ start'.pc = pc
        BY <3>2 DEF Starting, StartPcs
      <3>3. ASSUME start' = [start EXCEPT !.pc = "failed"]
            PROVE  start' \in Starting /\ start'.pc = "failed"
        BY <1>2, <3>3 DEF Starting, StartPcs
      <3>. QED
        BY <3>1, <3>2, <3>3
    <2>3. StartOk'
      BY <2>2 DEF StartOk
    <2>4. OthersWait(w.by)
      BY <1>3, <2>1 DEF OthersWait, Waits
    <2>. QED
      BY <2>1, <2>3, <2>4, CallsKept, CancelKept, DogKept DEF RunInv
  <1>4. CASE w.by = "relay" /\ WrittenForRelay(w, written)
    <2>1. UNCHANGED <<start, call, cancel, dog>>
      BY <1>4 DEF WrittenForRelay
    <2>2. OthersWait(w.by)
      BY <1>4, <2>1 DEF OthersWait, Waits
    <2>. QED
      BY <1>1, <1>4, <2>1, <2>2, HandlersKept
  <1>5. CASE w.by \in Messages /\ WrittenForCall(w, written)
    <2>1. UNCHANGED <<relay, start, cancel, dog>>
      BY <1>5 DEF WrittenForCall
    <2>2. CallsOk' /\ \A n \in Messages : n # w.by => call'[n] = call[n]
      BY <1>5, WrittenForCallKeeps
    <2>3. OthersWait(w.by)
      BY <2>1, <2>2 DEF OthersWait, Waits
    <2>4. start.pc \notin {"new", "writing"}
      BY <1>1, <1>5
    <2>. QED
      BY <2>1, <2>2, <2>3, <2>4, CancelKept, DogKept, StartKept DEF RunInv
  <1>6. CASE w.by = "cancel" /\ WrittenForCancel(w, written)
    <2>1. UNCHANGED <<relay, start, call, dog>> /\ cancel' = [cancel EXCEPT !.pc = "stopping"]
      BY <1>6 DEF WrittenForCancel, CancelTo
    <2>2. cancel' \in Cancellation /\ cancel'.seen = cancel.seen
      BY <1>2, <2>1 DEF Cancellation
    <2>3. CancelOk'
      <3>1. PICK a : a = cancel.seen
        OBVIOUS
      <3>2. Snap(a)'
        BY <3>1, SnapGrows DEF RunInv, CancelOk
      <3>. QED
        BY <2>2, <3>1, <3>2 DEF CancelOk
    <2>4. OthersWait(w.by)
      BY <1>6, <2>1 DEF OthersWait, Waits
    <2>5. start.pc \notin {"new", "writing"}
      BY <1>1, <1>6
    <2>. QED
      BY <2>1, <2>3, <2>4, <2>5, CallsKept, DogKept, StartKept DEF RunInv
  <1>7. CASE w.by = "dog" /\ WrittenForDog(w, written)
    <2>1. UNCHANGED <<relay, start, call, cancel>>
          /\ (dog' = [dog EXCEPT !.pc = "listing"] \/ dog' = DogRests)
      BY <1>7 DEF WrittenForDog, DogTo
    <2>2. dog' \in Dog /\ dog'.seen \in {dog.seen, NoRow} /\ dog'.pc \in {"listing", "rest"}
      <3>1. DogRests \in Dog /\ DogRests.seen = NoRow /\ DogRests.pc = "rest"
        BY DogRestsOk DEF RunInv
      <3>. QED
        BY <1>2, <2>1, <3>1 DEF Dog
    <2>3. DogOk'
      BY <2>2, DogSees
    <2>4. OthersWait(w.by)
      BY <1>7, <2>1 DEF OthersWait, Waits
    <2>5. start.pc \notin {"new", "writing"}
      BY <1>1, <1>7
    <2>. QED
      BY <2>1, <2>3, <2>4, <2>5, CallsKept, CancelKept, StartKept DEF RunInv
  <1>. QED
    BY <1>3, <1>4, <1>5, <1>6, <1>7 DEF Written

\* A record with the status and the relay it had.
SameSaying(g, r) == r.status = recs[g].status /\ r.relay = recs[g].relay

\* The row may take the oldest write, whose record learns of it or takes its mark back.
LEMMA WrittenMemory ==
  ASSUME RunInv, EventsOk', Grows, writes # <<>>, NEW w, w = writes[1], UNCHANGED outdated,
         writes' = Tail(writes) \/ writes' = RemoveAt(writes, 1),
         NEW r \in Rec, Snap(r), Past(r.persisted), SameSaying(w.rec, r),
         recs' = recs \/ recs' = [recs EXCEPT ![w.rec] = r],
         row' = row \/ row' = RowOf(w), adrift' \/ row' = RowOf(w),
         \/ runs' \in {0, runs}
         \/ w.by = "start" /\ start.pc = "writing" /\ row' = RowOf(w) /\ runs' = w.rec
  PROVE  MemoryOk' /\ Lengthens
  <1>1. w \in Write /\ w.rec \in 1..Len(recs) /\ Snap(w)
    BY OldestWrite
  <1>2. recs \in Seq(Rec) /\ writes \in Seq(Write) /\ Len(recs) \in Nat /\ runs \in 0..Len(recs)
    BY DEF RunInv, MemoryOk, RecsOk, WritesOk
  <1>3. /\ recs' \in Seq(Rec) /\ Len(recs') = Len(recs)
        /\ \A i \in 1..Len(recs) : recs'[i] = recs[i] \/ (i = w.rec /\ recs'[i] = r)
    <2>1. CASE recs' = recs
      BY <1>2, <2>1
    <2>2. CASE recs' = [recs EXCEPT ![w.rec] = r]
      <3>1. recs' \in Seq(Rec) /\ Put(recs, recs', w.rec, r)
        BY <1>1, <1>2, <2>2, SeqPut
      <3>. QED
        BY <3>1 DEF Put
    <2>. QED
      BY <2>1, <2>2
  <1>4. \A i \in 1..Len(recs) : recs'[i].status = recs[i].status /\ recs'[i].relay = recs[i].relay
    BY <1>3 DEF SameSaying
  <1>5. RecsOk'
    <2>1. ASSUME NEW i \in 1..Len(recs')
          PROVE  (Snap(recs[i]) /\ Past(recs[i].persisted))'
      <3>1. PICK q : q = recs'[i]
        OBVIOUS
      <3>2. Snap(q) /\ Past(q.persisted)
        BY <1>3, <2>1, <3>1 DEF RunInv, MemoryOk, RecsOk
      <3>3. Snap(q)' /\ Past(q.persisted)'
        BY <3>2, SnapGrows DEF RunInv
      <3>. QED
        BY <3>1, <3>3
    <2>2. runs' \in 0..Len(recs) /\ Len(recs') <= MaxRecords
      BY <1>1, <1>2, <1>3 DEF RunInv, MemoryOk, RecsOk
    <2>. QED
      BY <1>3, <2>1, <2>2 DEF RecsOk
  <1>6. /\ writes' \in Seq(Write) /\ Len(writes') = Len(writes) - 1 /\ Len(writes) \in Nat
        /\ \A i \in 1..Len(writes') : i + 1 \in 2..Len(writes) /\ writes'[i] = writes[i + 1]
        /\ writes' # <<>> => Len(writes') \in 1..Len(writes') /\ writes'[Len(writes')] = writes[Len(writes)]
        /\ writes' = <<>> => Len(writes) = 1
    BY <1>2, SeqPop
  <1>7. WritesOk'
    <2>1. ASSUME NEW i \in 1..Len(writes')
          PROVE  (writes[i].rec \in 1..Len(recs) /\ Snap(writes[i]))'
      <3>1. PICK q : q = writes'[i]
        OBVIOUS
      <3>2. q.rec \in 1..Len(recs) /\ Snap(q)
        <4>1. i + 1 \in 1..Len(writes) /\ q = writes[i + 1]
          BY <1>6, <3>1
        <4>. QED
          BY <4>1 DEF RunInv, MemoryOk, WritesOk
      <3>3. Snap(q)'
        BY <3>2, SnapGrows DEF RunInv
      <3>. QED
        BY <1>3, <3>1, <3>2, <3>3
    <2>2. \A i, j \in 1..Len(writes') : writes'[i].by = writes'[j].by => i = j
      <3>1. ASSUME NEW i \in 1..Len(writes'), NEW j \in 1..Len(writes'), writes'[i].by = writes'[j].by
            PROVE  i = j
        <4>1. i + 1 \in 1..Len(writes) /\ j + 1 \in 1..Len(writes)
          BY <1>6
        <4>2. writes[i + 1].by = writes[j + 1].by
          BY <1>6, <3>1
        <4>3. i + 1 = j + 1
          BY <4>1, <4>2 DEF RunInv, MemoryOk, WritesOk
        <4>. QED
          BY <4>3
      <3>. QED
        BY <3>1
    <2>. QED
      BY <1>6, <2>1, <2>2 DEF WritesOk
  <1>8. RowOf(w) \in Rows /\ Snap(RowOf(w)) /\ RowOf(w).status = w.status /\ RowOf(w).relay = w.relay
    BY <1>1 DEF RowOf, Rows, Write, Statuses, Snap
  <1>9. RowOk'
    <2>1. PICK a : a = row'
      OBVIOUS
    <2>2. a \in Rows /\ Snap(a)
      BY <1>8, <2>1 DEF RunInv, MemoryOk, RowOk
    <2>3. Snap(a)'
      BY <2>2, SnapGrows DEF RunInv
    <2>. QED
      BY <2>1, <2>2, <2>3 DEF RowOk
  <1>10. MirrorOk'
    <2>1. SUFFICES ASSUME Live', runs' \notin outdated'
                   PROVE  IF writes' # <<>>
                          THEN writes'[Len(writes')].rec = runs' /\ (Mirrors(writes[Len(writes)], runs))'
                          ELSE ~adrift' => (Mirrors(row, runs))'
      BY DEF MirrorOk
    <2>2. runs' # 0
      BY <2>1 DEF Live
    <2>3. CASE runs' = runs
      <3>1. Live /\ runs \notin outdated /\ runs \in 1..Len(recs)
        BY <1>2, <1>4, <2>1, <2>2, <2>3 DEF Live
      <3>2. writes[Len(writes)].rec = runs /\ Mirrors(writes[Len(writes)], runs)
        BY <3>1 DEF RunInv, MemoryOk, MirrorOk
      <3>3. CASE writes' # <<>>
        BY <1>4, <1>6, <2>3, <3>1, <3>2, <3>3 DEF Mirrors
      <3>4. CASE writes' = <<>>
        <4>1. Mirrors(w, runs)
          BY <1>6, <3>2, <3>4
        <4>. QED
          BY <1>4, <1>8, <2>3, <3>1, <3>4, <4>1 DEF Mirrors
      <3>. QED
        BY <3>3, <3>4
    <2>4. CASE w.by = "start" /\ start.pc = "writing" /\ row' = RowOf(w) /\ runs' = w.rec
      <3>1. Len(writes) = 1 /\ Mirrors(w, w.rec)
        BY <2>4 DEF RunInv, StartOk
      <3>2. writes' = <<>>
        BY <1>6, <3>1
      <3>. QED
        BY <1>1, <1>4, <1>8, <2>4, <3>1, <3>2 DEF Mirrors
    <2>. QED
      BY <2>2, <2>3, <2>4
  <1>. QED
    BY <1>2, <1>3, <1>5, <1>7, <1>9, <1>10 DEF MemoryOk, Lengthens

\* The chain is one write shorter, and everybody but its caller waits on.
LEMMA WriteEnds ==
  ASSUME RunInv, EventsOk', Grows, BoxOk', RelayOk', SessionOk', writes # <<>>, NEW w, w = writes[1],
         NEW written \in BOOLEAN, Written(w, written), UNCHANGED <<delivered, outdated>>,
         writes' = Tail(writes) \/ writes' = RemoveAt(writes, 1), MemoryOk', Lengthens
  PROVE  RunInv'
  <1>1. CallsOk' /\ CancelOk' /\ DogOk' /\ StartOk' /\ OthersWait(w.by)
    BY WrittenHandlers
  <1>2. WaitersOk'
    <2>1. writes \in Seq(Write) /\ 1 \in 1..Len(writes)
      BY OldestWrite DEF RunInv, MemoryOk, WritesOk
    <2>2. \A i \in 1..Len(writes') : i + 1 \in 2..Len(writes) /\ writes'[i] = writes[i + 1]
      BY <2>1, SeqPop
    <2>3. ASSUME NEW i \in 1..Len(writes') PROVE Waits(writes[i].by)'
      <3>1. PICK b : b = writes'[i].by
        OBVIOUS
      <3>2. i + 1 \in 1..Len(writes) /\ i + 1 # 1 /\ b = writes[i + 1].by
        BY <2>1, <2>2, <3>1
      <3>3. b # w.by
        BY <2>1, <3>2 DEF RunInv, MemoryOk, WritesOk
      <3>4. b \in Writers /\ Waits(b)
        BY <3>2, WriteTyped DEF RunInv, MemoryOk, WaitersOk
      <3>5. Waits(b)'
        BY <1>1, <3>3, <3>4 DEF OthersWait
      <3>. QED
        BY <3>1, <3>5
    <2>. QED
      BY <2>3 DEF WaitersOk
  <1>. QED
    BY <1>1, <1>2 DEF RunInv

\* The row takes the write, and its record learns that it did.
LEMMA WriteLandsKeeps ==
  ASSUME RunInv, WriteLands
  PROVE  RunInv'
  <1>1. PICK w : w = writes[1]
    OBVIOUS
  <1>2. /\ writes # <<>> /\ row' = RowOf(w) /\ recs' = [recs EXCEPT ![w.rec].persisted = w.relay]
        /\ Written(w, TRUE) /\ writes' = RemoveAt(writes, 1)
    BY <1>1 DEF WriteLands, NextWrite
  <1>3. UNCHANGED <<saved, acked, emitted, box, delivered, deferrals, outdated>>
    BY DEF WriteLands, boxSide
  <1>4. /\ EventsOk' /\ Grows /\ BoxOk' /\ RelayOk' /\ SessionOk'
        /\ \/ runs' \in {0, runs}
           \/ w.by = "start" /\ start.pc = "writing" /\ runs' = w.rec
    BY <1>1, <1>2, <1>3, WrittenSide
  <1>5. w \in Write /\ w.rec \in 1..Len(recs) /\ Snap(w)
    BY <1>1, <1>2, OldestWrite
  <1>6. PICK r : r = [recs[w.rec] EXCEPT !.persisted = w.relay]
    OBVIOUS
  <1>7. r \in Rec /\ Snap(r) /\ Past(r.persisted) /\ SameSaying(w.rec, r)
    <2>1. recs[w.rec] \in Rec /\ Snap(recs[w.rec])
      BY <1>5 DEF RunInv, MemoryOk, RecsOk
    <2>2. w.relay \in 0..MaxEvents /\ Past(w.relay)
      BY <1>5 DEF Write, Snap
    <2>3. r \in Rec /\ r.persisted = w.relay /\ r.status = recs[w.rec].status
          /\ r.relay = recs[w.rec].relay /\ r.msgs = recs[w.rec].msgs
      BY <1>6, <2>1, <2>2 DEF Rec
    <2>. QED
      BY <2>1, <2>2, <2>3 DEF SameSaying, Snap
  <1>8. recs' = [recs EXCEPT ![w.rec] = r]
    BY <1>2, <1>6
  <1>9. MemoryOk' /\ Lengthens
    BY <1>1, <1>2, <1>3, <1>4, <1>7, <1>8, WrittenMemory
  <1>. QED
    BY <1>1, <1>2, <1>3, <1>4, <1>9, WriteEnds

\* The write fails, whether or not the row took it.
LEMMA WriteFailsKeeps ==
  ASSUME RunInv, WriteFails
  PROVE  RunInv'
  <1>1. PICK w : w = writes[1]
    OBVIOUS
  <1>2. writes # <<>> /\ w = Head(writes)
    BY <1>1 DEF WriteFails, RunInv, MemoryOk, WritesOk
  <1>3. /\ row' \in {row, RowOf(w)} /\ Written(w, FALSE) /\ writes' = Tail(writes) /\ adrift' = TRUE
        /\ recs' = IF w.by \in Messages /\ call[w.by].pc = "remembering"
                   THEN [recs EXCEPT ![w.rec].msgs = call[w.by].before] ELSE recs
    BY <1>2 DEF WriteFails
  <1>4. UNCHANGED <<saved, acked, emitted, box, delivered, deferrals, outdated>>
    BY DEF WriteFails, boxSide
  <1>5. /\ EventsOk' /\ Grows /\ BoxOk' /\ RelayOk' /\ SessionOk' /\ runs' \in {0, runs}
    BY <1>1, <1>2, <1>3, <1>4, WrittenSide
  <1>6. w \in Write /\ w.rec \in 1..Len(recs) /\ Snap(w)
    BY <1>1, <1>2, OldestWrite
  <1>7. recs[w.rec] \in Rec /\ Snap(recs[w.rec]) /\ Past(recs[w.rec].persisted)
    BY <1>6 DEF RunInv, MemoryOk, RecsOk
  <1>8. PICK r \in Rec : /\ Snap(r) /\ Past(r.persisted) /\ SameSaying(w.rec, r)
                         /\ recs' = recs \/ recs' = [recs EXCEPT ![w.rec] = r]
    <2>1. CASE w.by \in Messages /\ call[w.by].pc = "remembering"
      <3>1. call[w.by].before \in SUBSET Messages /\ call[w.by].before \subseteq delivered
        BY <2>1, CallerIsFree DEF Call, CallOk
      <3>2. PICK r : r = [recs[w.rec] EXCEPT !.msgs = call[w.by].before]
        OBVIOUS
      <3>3. r \in Rec /\ r.persisted = recs[w.rec].persisted /\ r.status = recs[w.rec].status
            /\ r.relay = recs[w.rec].relay /\ r.msgs = call[w.by].before
        BY <1>7, <3>1, <3>2 DEF Rec
      <3>4. Snap(r) /\ Past(r.persisted) /\ SameSaying(w.rec, r)
        BY <1>7, <3>1, <3>3 DEF Snap, SameSaying
      <3>5. recs' = [recs EXCEPT ![w.rec] = r]
        BY <1>3, <2>1, <3>2
      <3>. QED
        BY <3>3, <3>4, <3>5
    <2>2. CASE ~(w.by \in Messages /\ call[w.by].pc = "remembering")
      BY <1>3, <1>7, <2>2 DEF SameSaying
    <2>. QED
      BY <2>1, <2>2
  <1>9. MemoryOk' /\ Lengthens
    BY <1>1, <1>2, <1>3, <1>4, <1>5, <1>8, WrittenMemory
  <1>. QED
    BY <1>1, <1>2, <1>3, <1>4, <1>5, <1>9, WriteEnds

----------------------------------------------------------------------------
(* A restart of the Runtime.                                                *)

LEMMA RuntimeCrashesKeeps ==
  ASSUME RunInv, RuntimeCrashes
  PROVE  RunInv'
  <1>1. /\ UNCHANGED <<saved, recs, outdated, box, emitted, acked, delivered>>
        /\ row' = row \/ (writes # <<>> /\ row' = RowOf(Head(writes)))
        /\ runs' = 0 /\ deferrals' = 0 /\ writes' = <<>>
        /\ session' = NoSession /\ relay' = NoRelay
        /\ dog' = [DogRests EXCEPT !.pc = "listing"]
    BY DEF RuntimeCrashes
  <1>2. EventsOk' /\ Grows
    <2>1. saved \subseteq 1..MaxEvents
      BY DEF RunInv, EventsOk
    <2>. QED
      BY <1>1, <2>1, NoRelayIsRelay, RelayMoves DEF SameEvents
  <1>3. BoxOk' /\ RelayOk'
    BY <1>1, NoRelayIsRelay DEF RunInv, BoxOk, RelayOk, StoredPcs, Fits
  <1>4. SessionOk'
    BY <1>1, NoRelayIsRelay, CapabilityAssumption DEF SessionOk, NoSession, SessionPcs
  <1>5. RowOk'
    <2>1. PICK a : a = row'
      OBVIOUS
    <2>2. a \in Rows /\ Snap(a)
      <3>1. CASE row' = row
        BY <2>1, <3>1 DEF RunInv, MemoryOk, RowOk
      <3>2. CASE writes # <<>> /\ row' = RowOf(Head(writes))
        <4>1. PICK w : w = writes[1]
          OBVIOUS
        <4>2. w \in Write /\ Snap(w)
          BY <3>2, <4>1, OldestWrite
        <4>3. Head(writes) = w
          BY <3>2, <4>1 DEF RunInv, MemoryOk, WritesOk
        <4>4. RowOf(w) \in Rows /\ Snap(RowOf(w))
          BY <4>2 DEF RowOf, Rows, Write, Statuses, Snap
        <4>. QED
          BY <2>1, <3>2, <4>3, <4>4
      <3>. QED
        BY <1>1, <3>1, <3>2
    <2>3. Snap(a)'
      BY <1>2, <2>2, SnapGrows DEF RunInv
    <2>. QED
      BY <2>1, <2>2, <2>3 DEF RowOk
  <1>6. MemoryOk' /\ Lengthens
    <2>1. Len(recs) \in Nat
      BY DEF RunInv, MemoryOk, RecsOk
    <2>2. RecsOk'
      BY <1>1, <1>2, <2>1, RecsKept DEF RunInv, MemoryOk
    <2>3. WritesOk' /\ MirrorOk'
      BY <1>1 DEF WritesOk, MirrorOk, Live
    <2>. QED
      BY <1>1, <1>5, <2>1, <2>2, <2>3 DEF MemoryOk, Lengthens
  <1>7. ASSUME NEW m \in Messages
        PROVE  /\ call'[m] \in Call /\ CallOk(m, call'[m])
               /\ call[m].pc = "new" => call'[m] = call[m]
    <2>1. call[m] \in Call /\ CallOk(m, call[m])
      BY CallerIsFree
    <2>2. call'[m] = call[m] \/ (call[m].pc # "new" /\ call'[m] = At(call[m], "failed"))
      BY DEF RuntimeCrashes
    <2>3. "failed" \in CallPcs /\ "failed" \notin TakenPcs
      BY DEF CallPcs, TakenPcs
    <2>4. At(call[m], "failed") \in Call /\ CallOk(m, At(call[m], "failed"))
      BY <2>1, <2>3, AtIsCall, AtIsOk DEF RunInv
    <2>. QED
      BY <2>1, <2>2, <2>4
  <1>8. CallsOk'
    <2>1. call' \in [Messages -> Call]
      <3>1. call' = [m \in Messages |-> call'[m]]
        BY DEF RuntimeCrashes
      <3>. QED
        BY <1>7, <3>1
    <2>2. ASSUME NEW m \in Messages PROVE CallOk(m, call[m])'
      <3>1. PICK q : q = call'[m]
        OBVIOUS
      <3>2. CallOk(m, q)'
        BY <1>2, <1>6, <1>7, <3>1, CallGrows DEF RunInv
      <3>. QED
        BY <3>1, <3>2 DEF CallOk
    <2>. QED
      BY <2>1, <2>2 DEF CallsOk
  <1>9. CancelOk' /\ (cancel.pc = "new" => cancel'.pc = "new")
    <2>1. cancel \in Cancellation /\ Snap(cancel.seen)
      BY DEF RunInv, CancelOk
    <2>2. cancel' = cancel \/ (cancel.pc # "new" /\ cancel' = [cancel EXCEPT !.pc = "failed"])
      BY DEF RuntimeCrashes
    <2>3. cancel' \in Cancellation /\ cancel'.seen = cancel.seen
      BY <2>1, <2>2 DEF Cancellation
    <2>4. PICK a : a = cancel.seen
      OBVIOUS
    <2>5. Snap(a)'
      BY <1>2, <2>1, <2>4, SnapGrows DEF RunInv
    <2>. QED
      BY <2>2, <2>3, <2>4, <2>5 DEF CancelOk
  <1>10. DogOk' /\ dog'.seen = NoRow
    <2>1. DogRests \in Dog /\ DogRests.seen = NoRow
      BY DogRestsOk DEF RunInv
    <2>2. dog' \in Dog /\ dog'.seen = NoRow /\ dog'.pc = "listing"
      BY <1>1, <2>1 DEF Dog
    <2>. QED
      BY <1>2, <2>2, DogSees
  <1>11. StartOk'
    <2>1. start \in Starting
      BY DEF RunInv, StartOk
    <2>2. (start' = start /\ start.pc \in {"new", "ok"}) \/ start' = [start EXCEPT !.pc = "failed"]
      BY DEF RuntimeCrashes
    <2>3. CASE start' = start /\ start.pc = "new"
      <3>1. Unborn /\ writes = <<>>
        BY <2>3 DEF RunInv, StartOk
      <3>2. NoRow.status = "none"
        BY DEF NoRow
      <3>3. Unborn'
        BY <1>1, <1>7, <1>9, <1>10, <3>1, <3>2 DEF Unborn
      <3>. QED
        BY <1>1, <2>1, <2>3, <3>3 DEF StartOk
    <2>4. CASE start' = start /\ start.pc = "ok"
      BY <2>1, <2>4 DEF StartOk
    <2>5. CASE start' = [start EXCEPT !.pc = "failed"]
      <3>1. start' \in Starting /\ start'.pc = "failed"
        BY <2>1, <2>5 DEF Starting, StartPcs
      <3>. QED
        BY <3>1 DEF StartOk
    <2>. QED
      BY <2>2, <2>3, <2>4, <2>5
  <1>12. WaitersOk'
    BY <1>1 DEF WaitersOk
  <1>. QED
    BY <1>2, <1>3, <1>4, <1>6, <1>8, <1>9, <1>10, <1>11, <1>12 DEF RunInv

----------------------------------------------------------------------------
(* The inductive invariant.                                                 *)

LEMMA RunInvInit ==
  ASSUME CapabilityInit
  PROVE  RunInv
  <1>1. /\ row = NoRow /\ saved = {} /\ recs = <<>> /\ runs = 0 /\ deferrals = 0 /\ writes = <<>>
        /\ box = NoBox /\ emitted = 0 /\ acked = {} /\ delivered = {} /\ session = NoSession
        /\ relay = NoRelay /\ start = [pc |-> "new", opening |-> FALSE]
        /\ call = [m \in Messages |-> NewCall] /\ cancel = [pc |-> "new", seen |-> NoRow]
        /\ dog = DogRests
    BY DEF CapabilityInit
  <1>2. NoEvent.id = 0 /\ NoEvent.kind = "none" /\ MaxEvents \in Nat
    BY CapabilityAssumption DEF NoEvent
  <1>3. KnownEvents = {NoEvent}
    BY <1>1, NoBoxIsBox, NoRelayIsRelay DEF KnownEvents
  <1>4. EventsOk
    BY <1>1, <1>2, <1>3 DEF EventsOk
  <1>5. NoRow \in Rows /\ Snap(NoRow) /\ NoRow.status = "none"
    BY <1>4, NothingKnown
  <1>6. MemoryOk
    BY <1>1, <1>5, CapabilityAssumption DEF MemoryOk, RowOk, RecsOk, WritesOk, MirrorOk, Live
  <1>7. BoxOk /\ RelayOk /\ SessionOk
    BY <1>1, NoBoxIsBox, NoRelayIsRelay, CapabilityAssumption
    DEF BoxOk, RelayOk, Fits, StoredPcs, SessionOk, NoSession, SessionPcs
  <1>8. NewCall \in Call /\ NewCall.pc = "new" /\ NewCall.seen = NoRow /\ NewCall.before = {}
    BY <1>5 DEF NewCall, Call, CallPcs
  <1>9. CallsOk
    BY <1>1, <1>5, <1>8 DEF CallsOk, CallOk, TakenPcs
  <1>10. CancelOk /\ DogOk
    BY <1>1, <1>4, <1>5, DogRestsOk DEF CancelOk, Cancellation, DogOk
  <1>11. StartOk
    <2>1. start \in Starting /\ start.pc = "new" /\ cancel.pc = "new"
      BY <1>1 DEF Starting, StartPcs
    <2>2. Unborn
      BY <1>1, <1>5, <1>8, <2>1, DogRestsOk, <1>4 DEF Unborn
    <2>. QED
      BY <1>1, <2>1, <2>2 DEF StartOk
  <1>12. WaitersOk
    BY <1>1 DEF WaitersOk
  <1>. QED
    BY <1>4, <1>6, <1>7, <1>9, <1>10, <1>11, <1>12 DEF RunInv

\* Nothing happens.
LEMMA RunInvStutters ==
  ASSUME RunInv, UNCHANGED capabilityVars
  PROVE  RunInv'
  <1>1. SideAlone /\ RelayAlone
    BY DEF capabilityVars, SideAlone, RelayAlone
  <1>2. EventsOk' /\ Grows /\ BoxOk' /\ RelayOk'
    BY <1>1, SideKept DEF RelayAlone
  <1>3. SessionOk'
    BY <1>1 DEF RunInv, SessionOk, SideAlone, RelayAlone
  <1>. QED
    BY <1>1, <1>2, <1>3, BoxSideStep DEF SideAlone, RelayAlone

LEMMA RunInvStep ==
  ASSUME RunInv, [CapabilityNext]_capabilityVars
  PROVE  RunInv'
  <1>1. CASE BoxStep
    BY <1>1, TurnEndsKeeps, SessionEndsKeeps, StopLandsKeeps DEF BoxStep
  <1>2. CASE SessionStep
    BY <1>2, AcquireBoxKeeps, OpenSessionKeeps, SetupFailsKeeps, ReattachKeeps DEF SessionStep
  <1>3. CASE RelayStep
    BY <1>3, ConnectKeeps, StreamBreaksKeeps, StreamLostKeeps, FrameKeeps, SaveTurnKeeps,
       RetryStepKeeps, CommitKeeps, AckKeeps, RelayFailsKeeps, RelayClosesKeeps DEF RelayStep
  <1>4. CASE HandlerStep
    BY <1>4, StartKeeps, StartBrokenKeeps, AskKeeps, AdoptKeeps, PublishKeeps, PostKeeps,
       RememberKeeps, CancelKeeps, CancelAdoptsKeeps, CancelStopsKeeps DEF HandlerStep
  <1>5. CASE DogStep
    BY <1>5, TimePassesKeeps, DogFlushesKeeps, DogListsKeeps, DogRecoversKeeps, DogChecksKeeps,
       DogStopsKeeps, DogReapsKeeps DEF DogStep
  <1>6. CASE StoreStep
    BY <1>6, WriteLandsKeeps, WriteFailsKeeps DEF StoreStep
  <1>7. CASE RuntimeCrashes
    BY <1>7, RuntimeCrashesKeeps
  <1>8. CASE UNCHANGED capabilityVars
    BY <1>8, RunInvStutters
  <1>. QED
    BY <1>1, <1>2, <1>3, <1>4, <1>5, <1>6, <1>7, <1>8 DEF CapabilityNext

LEMMA RunInvAlways == CapabilitySpec => []RunInv
  BY RunInvInit, RunInvStep, PTL DEF CapabilitySpec

----------------------------------------------------------------------------
(* The end of a run.                                                        *)

\* The runs the Runtime finds are the newest made; what waits behind the write of
\* another record was made while that write was under way.
NewestOk ==
    /\ runs # 0 => runs = Len(recs)
    /\ start.pc = "writing" => writes[1].rec = Len(recs)
    /\ \A i \in 1..Len(writes) : writes[i].rec # Len(recs) => Len(recs) \in outdated
ChainOk ==
    \A i, j \in 1..Len(writes) :
        i < j /\ writes[i].rec # writes[j].rec => writes[j].rec \in outdated

\* A record that has ended keeps its outcome, and so do its writes.
EndsStick ==
    /\ \A i \in 1..Len(writes) :
         writes[i].status \in Terminal => recs[writes[i].rec].status = writes[i].status
    /\ \A i, j \in 1..Len(writes) :
         i < j /\ writes[i].rec = writes[j].rec /\ writes[i].status \in Terminal
           => writes[j].status = writes[i].status

\* Once the row says done, so does every record that was not made of an answer the
\* row had left behind.
DoneOk ==
    row.status = "done" =>
        /\ runs # 0 /\ runs \notin outdated => recs[runs].status = "done"
        /\ \A i \in 1..Len(writes) : writes[i].rec \notin outdated => writes[i].status = "done"

\* The watchdog reaps a run it was not told to be done.
DogAsked == dog.pc \in {"stopping", "ending", "reaped"} => dog.blind \/ dog.seen.status # "done"

EndInv == NewestOk /\ ChainOk /\ EndsStick /\ DoneOk

\* The run is not begun by this step.
NotBegun == start'.pc = "writing" => start.pc = "writing"

\* Who changes the row of a run, and the record it is of, had it stored before.
SameStatus == Len(recs') = Len(recs) /\ \A i \in 1..Len(recs) : recs'[i].status = recs[i].status

LEMMA EndTypes ==
  ASSUME RunInv
  PROVE  /\ recs \in Seq(Rec) /\ writes \in Seq(Write) /\ Len(recs) \in Nat /\ Len(writes) \in Nat
         /\ runs \in 0..Len(recs) /\ \A i \in 1..Len(writes) : writes[i].rec \in 1..Len(recs)
  BY DEF RunInv, MemoryOk, RecsOk, WritesOk

\* A step that leaves the statuses, the row and the chain alone; it may drop the run.
LEMMA QuietEnds ==
  ASSUME RunInv, EndInv, SameStatus, NotBegun, UNCHANGED <<row, writes, outdated>>, runs' \in {0, runs}
  PROVE  EndInv'
  <1>1. /\ recs \in Seq(Rec) /\ writes \in Seq(Write) /\ Len(recs) \in Nat
        /\ runs \in 0..Len(recs) /\ \A i \in 1..Len(writes) : writes[i].rec \in 1..Len(recs)
    BY EndTypes
  <1>2. NewestOk'
    BY DEF EndInv, NewestOk, SameStatus, NotBegun
  <1>3. ChainOk'
    BY DEF EndInv, ChainOk
  <1>4. EndsStick'
    BY <1>1 DEF EndInv, EndsStick, SameStatus
  <1>5. DoneOk'
    BY <1>1 DEF EndInv, DoneOk, SameStatus
  <1>. QED
    BY <1>2, <1>3, <1>4, <1>5 DEF EndInv

\* A caller's snapshot of the live record joins the chain.
LEMMA JoinEnds ==
  ASSUME RunInv, RunInv', EndInv, NotBegun, UNCHANGED <<row, runs, outdated>>, runs # 0,
         NEW caller \in Writers, writes' = Persist(writes, runs, recs'[runs], caller),
         Len(recs') = Len(recs),
         \A i \in 1..Len(recs) : recs'[i].status = recs[i].status
                                 \/ (i = runs /\ recs[i].status \notin Terminal)
  PROVE  EndInv'
  <1> DEFINE r == recs'[runs]
             w == [rec |-> runs, status |-> r.status, relay |-> r.relay, msgs |-> r.msgs, by |-> caller]
  <1>1. /\ recs \in Seq(Rec) /\ writes \in Seq(Write) /\ Len(recs) \in Nat /\ Len(writes) \in Nat
        /\ runs \in 1..Len(recs) /\ runs \in Nat /\ \A i \in 1..Len(writes) : writes[i].rec \in 1..Len(recs)
    BY EndTypes
  <1>2. r \in Rec
    <2>1. recs' \in Seq(Rec)
      BY DEF RunInv, MemoryOk, RecsOk
    <2>. QED
      BY <1>1, <2>1
  <1>3. w \in Write /\ w.rec = runs /\ w.status = r.status
    BY <1>1, <1>2 DEF Rec, Write
  <1>4. writes' = Append(writes, w)
    BY DEF Persist
  <1> HIDE DEF w
  <1>5. /\ Len(writes') = Len(writes) + 1
        /\ \A i \in 1..Len(writes') : (i \in 1..Len(writes) /\ writes'[i] = writes[i])
                                      \/ (i = Len(writes') /\ writes'[i] = w)
    BY <1>1, <1>3, <1>4, SeqPush
  <1> HIDE DEF r
  <1>6. runs = Len(recs) /\ start'.pc # "writing"
    <2>1. start.pc # "writing"
      BY KnownIsBorn
    <2>. QED
      BY <2>1 DEF EndInv, NewestOk, NotBegun
  <1>7. \A i \in 1..Len(writes) : writes[i].rec = runs \/ runs \in outdated
    BY <1>6 DEF EndInv, NewestOk
  <1>8. \A s \in Terminal : recs[runs].status = s => r.status = s
    BY <1>1 DEF r
  <1>9. \A i \in 1..Len(writes) :
          /\ writes[i].status \in Terminal => recs'[writes[i].rec].status = writes[i].status
          /\ writes[i].status \in Terminal /\ writes[i].rec = runs => r.status = writes[i].status
    BY <1>1, <1>8 DEF EndInv, EndsStick
  <1>10. NewestOk'
    BY <1>3, <1>5, <1>6 DEF EndInv, NewestOk
  <1>11. ChainOk'
    BY <1>1, <1>3, <1>5, <1>7 DEF EndInv, ChainOk
  <1>12. EndsStick'
    <2>1. ASSUME NEW i \in 1..Len(writes'), writes'[i].status \in Terminal
          PROVE  recs'[writes'[i].rec].status = writes'[i].status
      BY <1>3, <1>5, <1>9, <2>1 DEF r
    <2>2. ASSUME NEW i \in 1..Len(writes'), NEW j \in 1..Len(writes'), i < j,
                 writes'[i].rec = writes'[j].rec, writes'[i].status \in Terminal
          PROVE  writes'[j].status = writes'[i].status
      <3>1. i \in 1..Len(writes) /\ writes'[i] = writes[i]
        BY <1>1, <1>5, <2>2
      <3>2. CASE j \in 1..Len(writes) /\ writes'[j] = writes[j]
        BY <2>2, <3>1, <3>2 DEF EndInv, EndsStick
      <3>3. CASE writes'[j] = w
        BY <1>3, <1>9, <2>2, <3>1, <3>3
      <3>. QED
        BY <1>5, <3>2, <3>3
    <2>. QED
      BY <2>1, <2>2 DEF EndsStick
  <1>13. DoneOk'
    <2>1. SUFFICES ASSUME row.status = "done"
                   PROVE  /\ runs \notin outdated => recs'[runs].status = "done"
                          /\ \A i \in 1..Len(writes') : writes'[i].rec \notin outdated => writes'[i].status = "done"
      BY DEF DoneOk
    <2>2. runs \notin outdated => r.status = "done"
      BY <1>8, <2>1 DEF EndInv, DoneOk, Terminal
    <2>. QED
      BY <1>3, <1>5, <2>1, <2>2 DEF EndInv, DoneOk, r
  <1>. QED
    BY <1>10, <1>11, <1>12, <1>13 DEF EndInv

\* A record of an answer joins the ones that were made, with a write of its own or without.
LEMMA RegisterEnds ==
  ASSUME RunInv, EndInv, UNCHANGED row, start'.pc # "writing",
         NEW answer \in Rows, answer.status \in Active, NEW status \in Statuses, Register(answer, status),
         NEW caller \in Writers,
         UNCHANGED writes \/ writes' = Persist(writes, runs', recs'[runs'], caller)
  PROVE  EndInv'
  <1> DEFINE r == [status |-> status, relay |-> answer.relay, persisted |-> answer.relay,
                   msgs |-> answer.msgs, silent |-> FALSE]
             n == Len(recs) + 1
             w == [rec |-> n, status |-> status, relay |-> answer.relay, msgs |-> answer.msgs, by |-> caller]
  <1>1. /\ recs \in Seq(Rec) /\ writes \in Seq(Write) /\ Len(recs) \in Nat /\ Len(writes) \in Nat
        /\ runs \in 0..Len(recs) /\ \A i \in 1..Len(writes) : writes[i].rec \in 1..Len(recs)
    BY EndTypes
  <1>2. /\ recs' = Append(recs, r) /\ runs' = n
        /\ outdated' = IF answer # row \/ writes # <<>> THEN outdated \cup {n} ELSE outdated
    BY DEF Register, NewRecord, Rows
  <1>3. r \in Rec /\ w \in Write /\ r.status = status /\ w.status = status /\ w.rec = n
        /\ r.relay = answer.relay /\ r.msgs = answer.msgs
    <2>1. answer.relay \in 0..MaxEvents /\ answer.msgs \in SUBSET Messages /\ n \in Nat
      BY <1>1 DEF Rows
    <2>. QED
      BY <2>1 DEF Rec, Write
  <1> HIDE DEF r
  <1>4. Len(recs') = n /\ recs'[n] = r /\ \A i \in 1..Len(recs) : recs'[i] = recs[i]
    BY <1>1, <1>2, <1>3, SeqPush
  <1>5. UNCHANGED writes \/ writes' = Append(writes, w)
    BY <1>2, <1>3, <1>4 DEF Persist
  <1> HIDE DEF w
  <1>6. /\ Len(writes') \in Nat
        /\ \A i \in 1..Len(writes') : (i \in 1..Len(writes) /\ writes'[i] = writes[i])
                                      \/ (i > Len(writes) /\ writes'[i] = w)
    <2>1. CASE UNCHANGED writes
      BY <1>1, <2>1
    <2>2. CASE writes' = Append(writes, w)
      BY <1>1, <1>3, <2>2, SeqPush
    <2>. QED
      BY <1>5, <2>1, <2>2
  <1>7. /\ n \in Nat /\ n # 0
        /\ \A i \in 1..Len(writes) : writes[i].rec # n /\ writes[i].rec \in 1..Len(recs) /\ n \in outdated'
    <2>1. ASSUME NEW i \in 1..Len(writes) PROVE writes # <<>>
      BY <1>1
    <2>. QED
      BY <1>1, <1>2, <2>1
  <1>8. outdated \subseteq outdated'
    BY <1>2
  <1> HIDE DEF n
  <1>9. NewestOk'
    BY <1>2, <1>3, <1>4, <1>6, <1>7 DEF NewestOk
  <1>10. ChainOk'
    BY <1>1, <1>3, <1>6, <1>7, <1>8 DEF EndInv, ChainOk
  <1>11. EndsStick'
    <2>1. ASSUME NEW i \in 1..Len(writes'), writes'[i].status \in Terminal
          PROVE  recs'[writes'[i].rec].status = writes'[i].status
      <3>1. CASE i \in 1..Len(writes) /\ writes'[i] = writes[i]
        BY <1>4, <1>7, <2>1, <3>1 DEF EndInv, EndsStick
      <3>2. CASE writes'[i] = w
        BY <1>3, <1>4, <3>2
      <3>. QED
        BY <1>6, <3>1, <3>2
    <2>2. ASSUME NEW i \in 1..Len(writes'), NEW j \in 1..Len(writes'), i < j,
                 writes'[i].rec = writes'[j].rec, writes'[i].status \in Terminal
          PROVE  writes'[j].status = writes'[i].status
      <3>1. CASE i \in 1..Len(writes) /\ j \in 1..Len(writes)
        BY <1>6, <2>2, <3>1 DEF EndInv, EndsStick
      <3>2. CASE i \in 1..Len(writes) /\ writes'[j] = w
        BY <1>3, <1>6, <1>7, <2>2, <3>2
      <3>3. CASE writes'[i] = w /\ writes'[j] = w
        BY <3>3
      <3>4. i \in 1..Len(writes) \/ ~(j \in 1..Len(writes))
        BY <1>1, <2>2
      <3>. QED
        BY <1>6, <3>1, <3>2, <3>3, <3>4
    <2>. QED
      BY <2>1, <2>2 DEF EndsStick
  <1>12. DoneOk'
    <2>1. SUFFICES ASSUME row.status = "done"
                   PROVE  \A i \in 1..Len(writes') : writes'[i].rec \notin outdated' => writes'[i].status = "done"
      <3>1. row.status = "done" => n \in outdated'
        BY <1>2 DEF Active
      <3>. QED
        BY <1>2, <3>1 DEF DoneOk
    <2>2. n \in outdated'
      BY <1>2, <2>1 DEF Active
    <2>. QED
      BY <1>3, <1>6, <1>8, <2>1, <2>2 DEF EndInv, DoneOk
  <1>. QED
    BY <1>9, <1>10, <1>11, <1>12 DEF EndInv

\* start() makes the first record there is.
LEMMA StartEnds ==
  ASSUME RunInv, EndInv, Start
  PROVE  EndInv'
  <1>1. start.pc = "new" /\ writes = <<>> /\ runs = 0 /\ row.status = "none" /\ recs \in Seq(Rec)
    BY EndTypes DEF Start, RunInv, StartOk, Unborn
  <1>2. PICK status \in Active :
          LET r == NewRecord([NoRow EXCEPT !.status = status])
          IN  recs' = Append(recs, r) /\ writes' = Persist(writes, Len(recs) + 1, r, "start")
    BY DEF Start
  <1>3. UNCHANGED <<runs, outdated, row>>
    BY DEF Start, store
  <1> DEFINE r == NewRecord([NoRow EXCEPT !.status = status])
             n == Len(recs) + 1
             w == [rec |-> n, status |-> r.status, relay |-> r.relay, msgs |-> r.msgs, by |-> "start"]
  <1>4. r.status = status /\ w.rec = n /\ w.status = r.status
    BY DEF NewRecord, NoRow
  <1>5. recs' = Append(recs, r) /\ writes' = Append(writes, w)
    BY <1>2 DEF Persist
  <1> HIDE DEF r, w
  <1>6. Len(recs') = n /\ recs'[n] = r /\ n \in Nat /\ n # 0
    BY <1>1, <1>5
  <1>7. Len(writes') = 1 /\ writes'[1] = w
    BY <1>1, <1>5
  <1> HIDE DEF n
  <1>8. \A i \in 1..Len(writes') : i = 1
    BY <1>7
  <1>9. NewestOk'
    BY <1>1, <1>3, <1>4, <1>6, <1>7, <1>8 DEF NewestOk
  <1>10. ChainOk'
    BY <1>8 DEF ChainOk
  <1>11. EndsStick'
    <2>1. \A i \in 1..Len(writes') : recs'[writes'[i].rec].status = writes'[i].status
      BY <1>4, <1>6, <1>7, <1>8
    <2>. QED
      BY <1>8, <2>1 DEF EndsStick
  <1>12. DoneOk'
    BY <1>1, <1>3 DEF DoneOk
  <1>. QED
    BY <1>9, <1>10, <1>11, <1>12 DEF EndInv

\* The oldest write ends: the row has taken it, or is as it was.
LEMMA WriteEndsEnds ==
  ASSUME RunInv, EndInv, SameStatus, writes # <<>>, NEW w, w = writes[1], UNCHANGED outdated,
         start'.pc # "writing", writes' = Tail(writes) \/ writes' = RemoveAt(writes, 1),
         \/ runs' \in {0, runs} /\ (row' = row \/ row' = RowOf(w))
         \/ w.by = "start" /\ start.pc = "writing" /\ row' = RowOf(w) /\ runs' = w.rec
  PROVE  EndInv'
  <1>1. /\ recs \in Seq(Rec) /\ writes \in Seq(Write) /\ Len(recs) \in Nat /\ Len(writes) \in Nat
        /\ runs \in 0..Len(recs) /\ \A i \in 1..Len(writes) : writes[i].rec \in 1..Len(recs)
    BY EndTypes
  <1>2. /\ Len(writes') = Len(writes) - 1 /\ 1 \in 1..Len(writes)
        /\ \A i \in 1..Len(writes') : i + 1 \in 2..Len(writes) /\ writes'[i] = writes[i + 1]
    BY <1>1, SeqPop
  <1>3. \A i \in 1..Len(writes') : i + 1 \in 1..Len(writes) /\ 1 < i + 1 /\ i \in Nat
    BY <1>1, <1>2
  <1>4. RowOf(w).status = w.status
    BY DEF RowOf
  <1>5. \A i \in 1..Len(writes') : writes'[i].rec \in 1..Len(recs)
    BY <1>1, <1>2, <1>3
  <1>6. NewestOk'
    <2>1. runs' # 0 => runs' = Len(recs)
      BY DEF EndInv, NewestOk
    <2>. QED
      BY <1>2, <1>3, <2>1 DEF EndInv, NewestOk, SameStatus
  <1>7. ChainOk'
    <2>1. ASSUME NEW i \in 1..Len(writes'), NEW j \in 1..Len(writes'), i < j,
                 writes'[i].rec # writes'[j].rec
          PROVE  writes'[j].rec \in outdated
      <3>1. i + 1 < j + 1
        BY <1>3, <2>1
      <3>. QED
        BY <1>2, <1>3, <2>1, <3>1 DEF EndInv, ChainOk
    <2>. QED
      BY <2>1 DEF ChainOk
  <1>8. EndsStick'
    <2>1. ASSUME NEW i \in 1..Len(writes'), writes'[i].status \in Terminal
          PROVE  recs'[writes'[i].rec].status = writes'[i].status
      <3>1. PICK q : q = writes[i + 1]
        OBVIOUS
      <3>2. i + 1 \in 1..Len(writes) /\ writes'[i] = q
        BY <1>2, <1>3, <3>1
      <3>3. recs[q.rec].status = q.status
        BY <2>1, <3>1, <3>2 DEF EndInv, EndsStick
      <3>. QED
        BY <1>5, <3>2, <3>3 DEF SameStatus
    <2>2. ASSUME NEW i \in 1..Len(writes'), NEW j \in 1..Len(writes'), i < j,
                 writes'[i].rec = writes'[j].rec, writes'[i].status \in Terminal
          PROVE  writes'[j].status = writes'[i].status
      <3>1. i + 1 < j + 1
        BY <1>3, <2>2
      <3>2. PICK p, q : p = writes[i + 1] /\ q = writes[j + 1]
        OBVIOUS
      <3>3. i + 1 \in 1..Len(writes) /\ j + 1 \in 1..Len(writes) /\ writes'[i] = p /\ writes'[j] = q
        BY <1>2, <1>3, <3>2
      <3>4. q.status = p.status
        BY <2>2, <3>1, <3>2, <3>3 DEF EndInv, EndsStick
      <3>. QED
        BY <3>3, <3>4
    <2>. QED
      BY <2>1, <2>2 DEF EndsStick
  <1>9. DoneOk'
    <2>1. CASE row' = row /\ runs' \in {0, runs}
      <3>1. \A i \in 1..Len(writes') : row.status = "done" /\ writes'[i].rec \notin outdated
               => writes'[i].status = "done"
        BY <1>2, <1>3 DEF EndInv, DoneOk
      <3>2. row.status = "done" /\ runs' # 0 /\ runs' \notin outdated => recs'[runs'].status = "done"
        BY <1>1, <2>1 DEF EndInv, DoneOk, SameStatus
      <3>. QED
        BY <2>1, <3>1, <3>2 DEF DoneOk
    <2>2. CASE row' = RowOf(w)
      <3>1. SUFFICES ASSUME w.status = "done"
                     PROVE  /\ runs' # 0 /\ runs' \notin outdated => recs'[runs'].status = "done"
                            /\ \A i \in 1..Len(writes') : writes'[i].rec \notin outdated => writes'[i].status = "done"
        BY <1>4, <2>2 DEF DoneOk
      <3>2. recs[w.rec].status = "done" /\ w.rec \in 1..Len(recs)
        BY <1>1, <1>2, <3>1 DEF EndInv, EndsStick, Terminal
      <3>3. runs' # 0 /\ runs' \notin outdated => runs' = w.rec
        BY <1>2 DEF EndInv, NewestOk
      <3>4. ASSUME NEW i \in 1..Len(writes'), writes'[i].rec \notin outdated PROVE writes'[i].status = "done"
        <4>1. PICK q : q = writes[i + 1]
          OBVIOUS
        <4>2. i + 1 \in 1..Len(writes) /\ 1 < i + 1 /\ writes'[i] = q
          BY <1>2, <1>3, <4>1
        <4>3. w.rec = q.rec
          BY <1>2, <3>4, <4>1, <4>2 DEF EndInv, ChainOk
        <4>4. q.status = "done"
          BY <1>2, <3>1, <4>1, <4>2, <4>3 DEF EndInv, EndsStick, Terminal
        <4>. QED
          BY <4>2, <4>4
      <3>. QED
        BY <3>2, <3>3, <3>4 DEF SameStatus
    <2>. QED
      BY <2>1, <2>2
  <1>. QED
    BY <1>6, <1>7, <1>8, <1>9 DEF EndInv

\* A restart forgets the run and what was waiting.
LEMMA CrashEnds ==
  ASSUME RunInv, RuntimeCrashes
  PROVE  EndInv'
  <1>1. writes' = <<>> /\ runs' = 0
    BY DEF RuntimeCrashes
  <1>2. start'.pc # "writing"
    <2>1. start \in Starting
      BY DEF RunInv, StartOk
    <2>2. (start' = start /\ start.pc \in {"new", "ok"}) \/ start' = [start EXCEPT !.pc = "failed"]
      BY DEF RuntimeCrashes
    <2>. QED
      BY <2>1, <2>2 DEF Starting
  <1>. QED
    BY <1>1, <1>2 DEF EndInv, NewestOk, ChainOk, EndsStick, DoneOk

\* setStatus() and endRun() of a live run.
LEMMA BecomesEnds ==
  ASSUME RunInv, RunInv', EndInv, NotBegun, UNCHANGED row, NEW status \in Statuses,
         NEW caller \in Writers, Becomes(status, caller)
  PROVE  EndInv'
  <1> DEFINE r == [recs[runs] EXCEPT !.status = status, !.silent = FALSE]
  <1>1. recs \in Seq(Rec) /\ runs \in 1..Len(recs) /\ runs # 0 /\ recs[runs].status \notin Terminal
    BY EndTypes DEF Becomes, Live, Active, Terminal
  <1>2. recs[runs] \in Rec
    BY <1>1
  <1>3. r \in Rec
    BY <1>2 DEF Rec
  <1>4. recs' = [recs EXCEPT ![runs] = r] /\ writes' = Persist(writes, runs, recs'[runs], caller)
        /\ UNCHANGED <<runs, outdated>>
    BY DEF Becomes
  <1> HIDE DEF r
  <1>5. Put(recs, recs', runs, r)
    BY <1>1, <1>3, <1>4, SeqPut
  <1>. QED
    BY <1>1, <1>4, <1>5, JoinEnds DEF Put

\* A record changes in nothing but what its status leaves open.
LEMMA RecordTouched ==
  ASSUME RunInv, NEW g \in 1..Len(recs), NEW r \in Rec, r.status = recs[g].status,
         recs' = [recs EXCEPT ![g] = r]
  PROVE  SameStatus
  <1>1. Put(recs, recs', g, r)
    BY EndTypes, SeqPut
  <1>. QED
    BY <1>1 DEF Put, SameStatus

LEMMA SilenceIsQuiet ==
  ASSUME RunInv, NEW silent \in BOOLEAN,
         recs' = recs \/ (runs # 0 /\ recs' = [recs EXCEPT ![runs].silent = silent])
  PROVE  SameStatus
  <1>1. CASE recs' = recs
    BY <1>1 DEF SameStatus
  <1>2. CASE runs # 0 /\ recs' = [recs EXCEPT ![runs].silent = silent]
    <2> DEFINE r == [recs[runs] EXCEPT !.silent = silent]
    <2>1. runs \in 1..Len(recs) /\ recs[runs] \in Rec
      BY <1>2, EndTypes
    <2>2. r \in Rec /\ r.status = recs[runs].status
      BY <2>1 DEF Rec
    <2>3. recs' = [recs EXCEPT ![runs] = r]
      BY <1>2
    <2> HIDE DEF r
    <2>. QED
      BY <2>1, <2>2, <2>3, RecordTouched
  <1>. QED
    BY <1>1, <1>2

LEMMA TouchIsQuiet ==
  ASSUME RunInv, recs' = recs \/ recs' = Touched(recs)
  PROVE  SameStatus
  BY SilenceIsQuiet DEF Touched

\* The box, its session, and the relay but for its commit.
LEMMA BoxEnds ==
  ASSUME RunInv, EndInv, BoxStep \/ SessionStep
  PROVE  EndInv'
  <1>1. UNCHANGED <<row, recs, runs, writes, outdated>>
    <2>1. CASE BoxStep
      BY <2>1, Zenon DEF BoxStep, TurnEnds, SessionEnds, StopLands, store, memory
    <2>2. CASE SessionStep
      BY <2>2, Zenon DEF SessionStep, AcquireBox, OpenSession, SetupFails, Reattach, store, memory
    <2>. QED
      BY <2>1, <2>2
  <1>2. start' = start \/ (start.pc = "ensuring" /\ \E pc \in {"ok", "broken"} : start' = [start EXCEPT !.pc = pc])
    <2>1. CASE BoxStep
      BY <2>1, Zenon DEF BoxStep, TurnEnds, SessionEnds, StopLands, handlers
    <2>2. CASE SessionStep
      BY <2>2, Zenon DEF SessionStep, AcquireBox, OpenSession, SetupFails, Reattach, SetupOver, handlers
    <2>. QED
      BY <2>1, <2>2
  <1>3. NotBegun
    BY <1>2 DEF NotBegun, RunInv, StartOk, Starting
  <1>. QED
    BY <1>1, <1>3, QuietEnds DEF SameStatus

LEMMA CommitEnds ==
  ASSUME RunInv, RunInv', EndInv, Commit
  PROVE  EndInv'
  <1> DEFINE e == relay.event
             r == [recs[runs] EXCEPT !.relay = e.id,
                     !.status = IF Live /\ recs[runs].relay # e.id THEN StatusAfter(e) ELSE @]
  <1>1. UNCHANGED <<row, runs, outdated, start>>
    BY DEF Commit, store, handlers
  <1>2. CASE UNCHANGED <<recs, writes>>
    BY <1>1, <1>2, QuietEnds DEF SameStatus, NotBegun
  <1>3. CASE /\ runs # 0 /\ relay.pc = "commit"
             /\ recs' = [recs EXCEPT ![runs] = r]
             /\ writes' = Persist(writes, runs, recs'[runs], "relay")
    <2>1. recs \in Seq(Rec) /\ runs \in 1..Len(recs) /\ recs[runs] \in Rec
      BY <1>3, EndTypes
    <2>2. e \in RunEvent /\ e.kind # "none"
      BY <1>3 DEF RunInv, RelayOk, Fits, Relay
    <2>3. r \in Rec /\ (r.status = recs[runs].status \/ recs[runs].status \notin Terminal)
      <3>1. e.id \in 0..MaxEvents /\ StatusAfter(e) \in Statuses
        BY <2>2 DEF RunEvent, EventKinds, StatusAfter, Statuses, Active, Terminal
      <3>2. r \in Rec
        BY <2>1, <3>1 DEF Rec
      <3>3. r.status = IF Live /\ recs[runs].relay # e.id THEN StatusAfter(e) ELSE recs[runs].status
        BY <2>1 DEF Rec
      <3>. QED
        BY <3>2, <3>3 DEF Live, Active, Terminal
    <2> HIDE DEF r
    <2>4. Put(recs, recs', runs, r)
      BY <1>3, <2>1, <2>3, SeqPut
    <2>5. "relay" \in Writers
      BY DEF Writers
    <2>. QED
      BY <1>1, <1>3, <2>1, <2>3, <2>4, <2>5, JoinEnds DEF Put, NotBegun
  <1>4. recs' = [recs EXCEPT ![runs].relay = e.id,
                   ![runs].status = IF Live /\ recs[runs].relay # e.id THEN StatusAfter(e) ELSE @]
        => recs' = [recs EXCEPT ![runs] = r]
    OBVIOUS
  <1>. QED
    BY <1>2, <1>3, <1>4 DEF Commit

LEMMA RelayEnds ==
  ASSUME RunInv, RunInv', EndInv, RelayStep
  PROVE  EndInv'
  <1>1. CASE Commit
    BY <1>1, CommitEnds
  <1>2. CASE Connect \/ StreamBreaks \/ StreamLost \/ SaveTurn \/ RetryStep \/ Ack \/ RelayCloses
    <2>1. UNCHANGED <<row, recs, runs, writes, outdated, start>>
      BY <1>2 DEF Connect, StreamBreaks, StreamLost, SaveTurn, RetryStep, Ack, RelayCloses,
                  store, memory, handlers
    <2>. QED
      BY <2>1, QuietEnds DEF SameStatus, NotBegun
  <1>3. CASE Frame
    <2>1. UNCHANGED <<row, runs, writes, outdated, start>> /\ (recs' = recs \/ recs' = Touched(recs))
      BY <1>3 DEF Frame, store, handlers
    <2>. QED
      BY <2>1, TouchIsQuiet, QuietEnds DEF NotBegun
  <1>4. CASE RelayFails
    <2>1. UNCHANGED <<row, start>> /\ (Becomes("failed", "relay") \/ UNCHANGED memory)
      BY <1>4 DEF RelayFails, store, handlers
    <2>2. "failed" \in Statuses /\ "relay" \in Writers
      BY DEF Statuses, Terminal, Writers
    <2>3. CASE Becomes("failed", "relay")
      BY <2>1, <2>2, <2>3, BecomesEnds DEF NotBegun
    <2>4. CASE UNCHANGED memory
      BY <2>1, <2>4, QuietEnds DEF SameStatus, NotBegun, memory
    <2>. QED
      BY <2>1, <2>3, <2>4
  <1>. QED
    BY <1>1, <1>2, <1>3, <1>4 DEF RelayStep

\* Handlers that may set a status.
LEMMA MayBecome ==
  ASSUME RunInv, RunInv', EndInv, NotBegun, UNCHANGED row, NEW status, Live => status \in Statuses,
         NEW caller \in Writers, Becomes(status, caller) \/ UNCHANGED memory
  PROVE  EndInv'
  <1>1. CASE Becomes(status, caller)
    BY <1>1, BecomesEnds DEF Becomes
  <1>2. CASE UNCHANGED memory
    BY <1>2, QuietEnds DEF SameStatus, memory
  <1>. QED
    BY <1>1, <1>2

LEMMA CallEnds ==
  ASSUME RunInv, RunInv', EndInv, NEW m \in Messages,
         Ask(m) \/ Adopt(m) \/ Publish(m) \/ Post(m) \/ Remember(m)
  PROVE  EndInv'
  <1>1. UNCHANGED <<row, start>> /\ m \in Writers
    BY DEF Ask, Adopt, Publish, Post, Remember, store, marks, Writers
  <1>2. NotBegun
    BY <1>1 DEF NotBegun
  <1>3. call[m] \in Call /\ CallOk(m, call[m])
    BY CallerIsFree
  <1>4. CASE Ask(m)
    <2>1. UNCHANGED <<runs, writes, outdated>> /\ (recs' = recs \/ recs' = Touched(recs))
      BY <1>4 DEF Ask
    <2>. QED
      BY <1>1, <1>2, <2>1, TouchIsQuiet, QuietEnds
  <1>5. CASE Adopt(m)
    <2>1. CASE UNCHANGED memory
      BY <1>1, <1>2, <2>1, QuietEnds DEF SameStatus, memory
    <2>2. CASE /\ call[m].seen.status \in Active
               /\ Register(call[m].seen, call[m].seen.status) /\ UNCHANGED writes
      <3>1. start'.pc # "writing"
        BY <1>1, <1>5 DEF Adopt, RunInv, StartOk, Unborn
      <3>2. call[m].seen \in Rows /\ call[m].seen.status \in Statuses
        BY <1>3, <2>2 DEF Call, Statuses
      <3>. QED
        BY <1>1, <2>2, <3>1, <3>2, RegisterEnds
    <2>. QED
      BY <1>5, <2>1, <2>2 DEF Adopt
  <1>6. CASE Publish(m)
    <2>1. Becomes("running", m) \/ UNCHANGED memory
      BY <1>6 DEF Publish
    <2>2. "running" \in Statuses
      BY DEF Statuses, Active
    <2>. QED
      BY <1>1, <1>2, <2>1, <2>2, MayBecome
  <1>7. CASE Post(m)
    <2>1. Becomes(call[m].prev, m) \/ UNCHANGED memory
      BY <1>7 DEF Post, PutBack
    <2>2. call[m].prev \in Statuses
      BY <1>3, <1>7 DEF Post, CallOk
    <2>. QED
      BY <1>1, <1>2, <2>1, <2>2, MayBecome
  <1>8. CASE Remember(m)
    <2>1. UNCHANGED <<runs, outdated>>
      BY <1>8 DEF Remember
    <2>2. CASE UNCHANGED <<recs, writes>>
      BY <1>1, <1>2, <2>1, <2>2, QuietEnds DEF SameStatus
    <2>3. CASE /\ runs # 0 /\ recs' = [recs EXCEPT ![runs].msgs = @ \cup {m}]
               /\ writes' = Persist(writes, runs, recs'[runs], m)
      <3> DEFINE r == [recs[runs] EXCEPT !.msgs = recs[runs].msgs \cup {m}]
      <3>1. runs \in 1..Len(recs) /\ recs[runs] \in Rec
        BY <2>3, EndTypes
      <3>2. r \in Rec /\ r.status = recs[runs].status
        BY <3>1 DEF Rec
      <3>3. recs' = [recs EXCEPT ![runs] = r]
        BY <2>3
      <3> HIDE DEF r
      <3>4. SameStatus
        BY <3>1, <3>2, <3>3, RecordTouched
      <3>. QED
        BY <1>1, <1>2, <2>1, <2>3, <3>4, JoinEnds DEF SameStatus
    <2>. QED
      BY <1>8, <2>2, <2>3 DEF Remember
  <1>. QED
    BY <1>4, <1>5, <1>6, <1>7, <1>8

LEMMA HandlerEnds ==
  ASSUME RunInv, RunInv', EndInv, HandlerStep
  PROVE  EndInv'
  <1>1. CASE Start
    BY <1>1, StartEnds
  <1>2. CASE StartBroken
    <2>1. UNCHANGED row /\ (Becomes("failed", "start") \/ UNCHANGED memory)
      BY <1>2 DEF StartBroken, store
    <2>2. start' = [start EXCEPT !.pc = "ending"] \/ start' = [start EXCEPT !.pc = "failed"]
      BY <1>2 DEF StartBroken
    <2>3. NotBegun
      BY <2>2 DEF NotBegun, RunInv, StartOk, Starting
    <2>4. "failed" \in Statuses /\ "start" \in Writers
      BY DEF Statuses, Terminal, Writers
    <2>. QED
      BY <2>1, <2>3, <2>4, MayBecome
  <1>3. ASSUME NEW m \in Messages, Ask(m) \/ Adopt(m) \/ Publish(m) \/ Post(m) \/ Remember(m)
        PROVE  EndInv'
    BY <1>3, CallEnds
  <1>4. "done" \in Statuses /\ "cancel" \in Writers
    BY DEF Statuses, Terminal, Writers
  <1>5. CASE Cancel
    <2>1. UNCHANGED <<row, start>> /\ (Becomes("done", "cancel") \/ UNCHANGED memory)
      BY <1>5 DEF Cancel, CancelEnds, store
    <2>. QED
      BY <1>4, <2>1, MayBecome DEF NotBegun
  <1>6. CASE CancelAdopts
    <2>1. UNCHANGED <<row, start>>
      BY <1>6 DEF CancelAdopts, store, marks
    <2>2. CASE UNCHANGED memory
      BY <2>1, <2>2, QuietEnds DEF SameStatus, NotBegun, memory
    <2>3. CASE /\ cancel.seen.status \in Active /\ Register(cancel.seen, "done")
               /\ writes' = Persist(writes, runs', recs'[runs'], "cancel")
      <3>1. start'.pc # "writing"
        BY <1>6, <2>1 DEF CancelAdopts, RunInv, StartOk, Unborn
      <3>2. cancel.seen \in Rows
        BY DEF RunInv, CancelOk, Cancellation
      <3>. QED
        BY <1>4, <2>1, <2>3, <3>1, <3>2, RegisterEnds
    <2>. QED
      BY <1>6, <2>2, <2>3 DEF CancelAdopts
  <1>7. CASE CancelStops
    BY <1>7, QuietEnds DEF CancelStops, SameStatus, NotBegun, memory, store
  <1>. QED
    BY <1>1, <1>2, <1>3, <1>5, <1>6, <1>7 DEF HandlerStep

LEMMA DogEnds ==
  ASSUME RunInv, RunInv', EndInv, DogStep
  PROVE  EndInv'
  <1>1. UNCHANGED <<row, start>> /\ "dog" \in Writers
    BY DEF DogStep, TimePasses, DogFlushes, DogLists, DogRecovers, DogChecks, DogStops, DogReaps,
           store, handlers, Writers
  <1>2. NotBegun
    BY <1>1 DEF NotBegun
  <1>3. CASE TimePasses
    <2>1. UNCHANGED <<runs, writes, outdated>> /\ runs # 0 /\ recs' = [recs EXCEPT ![runs].silent = TRUE]
      BY <1>3 DEF TimePasses, Live
    <2>. QED
      BY <1>1, <1>2, <2>1, SilenceIsQuiet, QuietEnds
  <1>4. CASE DogFlushes
    <2>1. /\ runs # 0 /\ writes' = Persist(writes, runs, recs[runs], "dog")
          /\ UNCHANGED <<recs, runs, outdated>>
      BY <1>4 DEF DogFlushes
    <2>. QED
      BY <1>1, <1>2, <2>1, JoinEnds
  <1>5. CASE DogLists \/ DogStops
    BY <1>1, <1>2, <1>5, QuietEnds DEF DogLists, DogStops, memory, SameStatus
  <1>6. CASE DogRecovers
    <2>1. CASE UNCHANGED memory
      BY <1>1, <1>2, <2>1, QuietEnds DEF SameStatus, memory
    <2>2. CASE dog.seen.status \in Active /\ Register(dog.seen, dog.seen.status) /\ UNCHANGED writes
      <3>1. start'.pc # "writing"
        BY <1>1, <2>2 DEF RunInv, StartOk, Unborn, Active
      <3>2. dog.seen \in Rows /\ dog.seen.status \in Statuses
        BY <2>2 DEF RunInv, DogOk, Dog, Statuses
      <3>. QED
        BY <1>1, <2>2, <3>1, <3>2, RegisterEnds
    <2>. QED
      BY <1>6, <2>1, <2>2 DEF DogRecovers
  <1>7. CASE DogChecks
    BY <1>1, <1>2, <1>7, QuietEnds DEF DogChecks, SameStatus
  <1>8. CASE DogReaps
    <2>1. Becomes(dog.outcome, "dog") \/ UNCHANGED memory
      BY <1>8 DEF DogReaps
    <2>2. dog.outcome \in Statuses
      BY <1>8 DEF DogReaps, RunInv, DogOk, Statuses
    <2>. QED
      BY <1>1, <1>2, <2>1, <2>2, MayBecome
  <1>. QED
    BY <1>3, <1>4, <1>5, <1>6, <1>7, <1>8 DEF DogStep

\* Nobody begins the run when a write ends.
LEMMA NobodyBegins ==
  ASSUME RunInv, writes # <<>>, NEW w, w = writes[1], NEW written \in BOOLEAN, Written(w, written)
  PROVE  start'.pc # "writing"
  <1>1. /\ w.by \in Messages => w.by \notin {"start", "relay", "cancel", "dog"}
        /\ start.pc = "writing" => w.by = "start"
    BY OldestWrite
  <1>2. start \in Starting
    BY DEF RunInv, StartOk
  <1>3. CASE w.by = "start" /\ WrittenForStart(w, written)
    <2>1. \/ \E pc \in {"ensuring", "failed"} : start' = [pc |-> pc, opening |-> FALSE]
          \/ start' = [start EXCEPT !.pc = "failed"]
      BY <1>3 DEF WrittenForStart
    <2>. QED
      BY <1>2, <2>1 DEF Starting
  <1>4. CASE w.by # "start" /\ UNCHANGED start
    BY <1>1, <1>4
  <1>. QED
    BY <1>1, <1>3, <1>4
    DEF Written, WrittenForRelay, WrittenForCall, WrittenForCancel, WrittenForDog

LEMMA StoreEnds ==
  ASSUME RunInv, EndInv, StoreStep
  PROVE  EndInv'
  <1>1. PICK w : w = writes[1]
    OBVIOUS
  <1>2. writes # <<>> /\ w.rec \in 1..Len(recs) /\ recs[w.rec] \in Rec /\ w \in Write
    <2>1. writes # <<>>
      BY DEF StoreStep, WriteLands, WriteFails
    <2>2. w \in Write /\ w.rec \in 1..Len(recs)
      BY <1>1, <2>1, OldestWrite
    <2>. QED
      BY <2>1, <2>2, EndTypes
  <1>3. UNCHANGED <<saved, acked, emitted, box, delivered, deferrals, outdated>>
    BY DEF StoreStep, WriteLands, WriteFails, boxSide
  <1>4. CASE WriteLands
    <2>1. /\ row' = RowOf(w) /\ recs' = [recs EXCEPT ![w.rec].persisted = w.relay]
          /\ Written(w, TRUE) /\ writes' = RemoveAt(writes, 1)
      BY <1>1, <1>4 DEF WriteLands, NextWrite
    <2>2. runs' \in {0, runs} \/ (w.by = "start" /\ start.pc = "writing" /\ runs' = w.rec)
      BY <1>1, <1>2, <1>3, <2>1, WrittenSide
    <2>3. SameStatus
      <3> DEFINE r == [recs[w.rec] EXCEPT !.persisted = w.relay]
      <3>1. r \in Rec /\ r.status = recs[w.rec].status
        BY <1>2 DEF Rec, Write
      <3>2. recs' = [recs EXCEPT ![w.rec] = r]
        BY <2>1
      <3> HIDE DEF r
      <3>. QED
        BY <1>2, <3>1, <3>2, RecordTouched
    <2>4. start'.pc # "writing"
      BY <1>1, <1>2, <2>1, NobodyBegins
    <2>. QED
      BY <1>1, <1>2, <1>3, <2>1, <2>2, <2>3, <2>4, WriteEndsEnds
  <1>5. CASE WriteFails
    <2>1. /\ row' \in {row, RowOf(w)} /\ Written(w, FALSE) /\ writes' = Tail(writes)
          /\ recs' = recs \/ (/\ w.by \in Messages /\ call[w.by].pc = "remembering"
                              /\ recs' = [recs EXCEPT ![w.rec].msgs = call[w.by].before])
      <3>1. w = Head(writes)
        BY <1>1, <1>2, EndTypes
      <3>. QED
        BY <1>5, <3>1 DEF WriteFails
    <2>2. runs' \in {0, runs}
      BY <1>1, <1>2, <1>3, <2>1, WrittenSide
    <2>3. SameStatus
      <3>1. CASE recs' = recs
        BY <3>1 DEF SameStatus
      <3>2. CASE w.by \in Messages /\ recs' = [recs EXCEPT ![w.rec].msgs = call[w.by].before]
        <4> DEFINE r == [recs[w.rec] EXCEPT !.msgs = call[w.by].before]
        <4>1. call[w.by].before \in SUBSET Messages
          BY <3>2 DEF RunInv, CallsOk, Call
        <4>2. r \in Rec /\ r.status = recs[w.rec].status
          BY <1>2, <4>1 DEF Rec
        <4>3. recs' = [recs EXCEPT ![w.rec] = r]
          BY <3>2
        <4> HIDE DEF r
        <4>. QED
          BY <1>2, <4>2, <4>3, RecordTouched
      <3>. QED
        BY <2>1, <3>1, <3>2
    <2>4. start'.pc # "writing"
      BY <1>1, <1>2, <2>1, NobodyBegins
    <2>. QED
      BY <1>1, <1>2, <1>3, <2>1, <2>2, <2>3, <2>4, WriteEndsEnds
  <1>. QED
    BY <1>4, <1>5 DEF StoreStep

LEMMA EndInvStep ==
  ASSUME RunInv, RunInv', EndInv, [CapabilityNext]_capabilityVars
  PROVE  EndInv'
  <1>1. CASE UNCHANGED capabilityVars
    BY <1>1, QuietEnds DEF capabilityVars, SameStatus, NotBegun
  <1>. QED
    BY <1>1, BoxEnds, RelayEnds, HandlerEnds, DogEnds, StoreEnds, CrashEnds DEF CapabilityNext

\* The others leave the watchdog alone, and only the end of a write touches the row.
LEMMA Undisturbed ==
  ASSUME BoxStep \/ SessionStep \/ RelayStep \/ HandlerStep
  PROVE  dog' = dog /\ row' = row
  <1>1. CASE BoxStep
    <2>1. TurnEnds => dog' = dog /\ row' = row
      BY DEF TurnEnds, store, handlers
    <2>2. SessionEnds => dog' = dog /\ row' = row
      BY DEF SessionEnds, store, handlers
    <2>3. StopLands => dog' = dog /\ row' = row
      BY DEF StopLands, store, handlers
    <2>. QED
      BY <1>1, <2>1, <2>2, <2>3, Zenon DEF BoxStep
  <1>2. CASE SessionStep
    <2>1. AcquireBox => dog' = dog /\ row' = row
      BY DEF AcquireBox, store, handlers
    <2>2. OpenSession => dog' = dog /\ row' = row
      BY DEF OpenSession, SetupOver, store, handlers
    <2>3. SetupFails => dog' = dog /\ row' = row
      BY DEF SetupFails, SetupOver, store, handlers
    <2>4. Reattach => dog' = dog /\ row' = row
      BY DEF Reattach, store, handlers
    <2>. QED
      BY <1>2, <2>1, <2>2, <2>3, <2>4, Zenon DEF SessionStep
  <1>3. CASE RelayStep
    <2>1. Connect => dog' = dog /\ row' = row
      BY DEF Connect, store, handlers
    <2>2. StreamBreaks => dog' = dog /\ row' = row
      BY DEF StreamBreaks, store, handlers
    <2>3. StreamLost => dog' = dog /\ row' = row
      BY DEF StreamLost, store, handlers
    <2>4. Frame => dog' = dog /\ row' = row
      BY DEF Frame, store, handlers
    <2>5. SaveTurn => dog' = dog /\ row' = row
      BY DEF SaveTurn, store, handlers
    <2>6. RetryStep => dog' = dog /\ row' = row
      BY DEF RetryStep, store, handlers
    <2>7. Commit => dog' = dog /\ row' = row
      BY DEF Commit, store, handlers
    <2>8. Ack => dog' = dog /\ row' = row
      BY DEF Ack, store, handlers
    <2>9. RelayFails => dog' = dog /\ row' = row
      BY DEF RelayFails, store, handlers
    <2>10. RelayCloses => dog' = dog /\ row' = row
      BY DEF RelayCloses, store, handlers
    <2>. QED
      BY <1>3, <2>1, <2>2, <2>3, <2>4, <2>5, <2>6, <2>7, <2>8, <2>9, <2>10, Zenon DEF RelayStep
  <1>4. CASE HandlerStep
    <2>1. Start => dog' = dog /\ row' = row
      BY DEF Start, store, handlers
    <2>2. StartBroken => dog' = dog /\ row' = row
      BY DEF StartBroken, store, handlers
    <2>3. Cancel => dog' = dog /\ row' = row
      BY DEF Cancel, store, handlers
    <2>4. CancelAdopts => dog' = dog /\ row' = row
      BY DEF CancelAdopts, store, handlers
    <2>5. CancelStops => dog' = dog /\ row' = row
      BY DEF CancelStops, store, handlers
    <2>6. \A m \in Messages : Ask(m) => dog' = dog /\ row' = row
      BY DEF Ask, store
    <2>7. \A m \in Messages : Adopt(m) => dog' = dog /\ row' = row
      BY DEF Adopt, store
    <2>8. \A m \in Messages : Publish(m) => dog' = dog /\ row' = row
      BY DEF Publish, store
    <2>9. \A m \in Messages : Post(m) => dog' = dog /\ row' = row
      BY DEF Post, store
    <2>10. \A m \in Messages : Remember(m) => dog' = dog /\ row' = row
      BY DEF Remember, store
    <2>. QED
      BY <1>4, <2>1, <2>2, <2>3, <2>4, <2>5, <2>6, <2>7, <2>8, <2>9, <2>10, Zenon DEF HandlerStep
  <1>. QED
    BY <1>1, <1>2, <1>3, <1>4

\* The watchdog acts on what it was told.
LEMMA DogAskedStep ==
  ASSUME RunInv, DogAsked, [CapabilityNext]_capabilityVars
  PROVE  DogAsked'
  <1>1. dog \in Dog /\ DogRests.pc = "rest"
    BY DEF RunInv, DogOk, DogRests
  <1>2. ASSUME \/ dog' = dog \/ dog'.pc \notin {"stopping", "ending", "reaped"}
               \/ /\ dog.pc \in {"stopping", "ending", "reaped"}
                  /\ dog'.blind = dog.blind /\ dog'.seen = dog.seen
        PROVE  DogAsked'
    BY <1>2 DEF DogAsked
  <1>3. \A pc : dog' = [dog EXCEPT !.pc = pc] => dog'.pc = pc /\ dog'.blind = dog.blind /\ dog'.seen = dog.seen
    BY <1>1 DEF Dog
  <1>4. CASE BoxStep \/ SessionStep \/ RelayStep \/ HandlerStep
    BY <1>2, <1>4, Undisturbed
  <1>5. CASE TimePasses \/ DogFlushes \/ DogLists
    <2>1. CASE TimePasses
      BY <1>2, <2>1 DEF TimePasses, handlers
    <2>2. CASE DogFlushes
      BY <1>2, <1>3, <2>2 DEF DogFlushes, DogTo
    <2>3. CASE DogLists
      <3>1. dog' = [dog EXCEPT !.pc = "listed", !.seen = row] \/ dog' = [dog EXCEPT !.pc = "listed"]
        BY <2>3 DEF DogLists
      <3>2. dog'.pc = "listed"
        BY <1>1, <3>1 DEF Dog
      <3>. QED
        BY <1>2, <3>2
    <2>. QED
      BY <1>5, <2>1, <2>2, <2>3
  <1>6. CASE DogRecovers
    <2>1. dog' = DogRests \/ dog' = [DogRests EXCEPT !.pc = "checking", !.rec = runs, !.seen = row]
      BY <1>6 DEF DogRecovers
    <2>2. dog'.pc \in {"rest", "checking"}
      BY <1>1, <2>1 DEF DogRests
    <2>. QED
      BY <1>2, <2>2
  <1>7. CASE DogChecks
    <2>1. \/ dog' = DogRests
          \/ dog.seen.status \notin Terminal /\ DogJudges(FALSE)
          \/ DogJudges(TRUE)
      BY <1>7 DEF DogChecks
    <2>2. ASSUME NEW blind \in BOOLEAN, DogJudges(blind), blind \/ dog.seen.status \notin Terminal
          PROVE  DogAsked'
      <3> DEFINE o == stalenessOutcome(recs[dog.rec])
      <3>1. dog' = DogRests \/ dog' = [dog EXCEPT !.pc = "stopping", !.outcome = o, !.blind = blind]
        BY <2>2 DEF DogJudges
      <3> HIDE DEF o
      <3>2. CASE dog' = [dog EXCEPT !.pc = "stopping", !.outcome = o, !.blind = blind]
        <4>1. dog'.blind = blind /\ dog'.seen = dog.seen
          BY <1>1, <3>2 DEF Dog
        <4>. QED
          BY <2>2, <4>1, Zenon DEF DogAsked, Terminal
      <3>. QED
        BY <1>1, <1>2, <3>1, <3>2
    <2>. QED
      BY <1>1, <1>2, <2>1, <2>2
  <1>8. CASE DogStops \/ DogReaps
    <2>1. dog.pc \in {"stopping", "ending"} /\ (dog' = DogRests \/ \E pc : dog' = [dog EXCEPT !.pc = pc])
      BY <1>8 DEF DogStops, DogReaps, DogTo
    <2>. QED
      BY <1>1, <1>2, <1>3, <2>1
  <1>9. CASE StoreStep
    <2>1. dog' = dog \/ dog' = DogRests \/ dog' = [dog EXCEPT !.pc = "listing"]
      BY <1>9 DEF StoreStep, WriteLands, WriteFails, Written, WrittenForStart, WrittenForRelay, WrittenForCall,
                   WrittenForCancel, WrittenForDog, DogTo
    <2>. QED
      BY <1>1, <1>2, <1>3, <2>1
  <1>10. CASE RuntimeCrashes
    <2>1. dog' = [DogRests EXCEPT !.pc = "listing"]
      BY <1>10 DEF RuntimeCrashes
    <2>2. dog'.pc = "listing"
      BY <2>1 DEF DogRests
    <2>. QED
      BY <1>2, <2>2
  <1>11. CASE UNCHANGED capabilityVars
    BY <1>2, <1>11 DEF capabilityVars
  <1>. QED
    BY <1>4, <1>5, <1>6, <1>7, <1>8, <1>9, <1>10, <1>11 DEF CapabilityNext, DogStep

\* Only the oldest write, landing, failing or met by a restart, changes the row.
LEMMA RowTakesWrite ==
  ASSUME RunInv, [CapabilityNext]_capabilityVars, row' # row
  PROVE  writes # <<>> /\ row' = RowOf(writes[1])
  <1>1. ~(BoxStep \/ SessionStep \/ RelayStep \/ HandlerStep)
    BY Undisturbed
  <1>2. ~DogStep
    <2>1. TimePasses \/ DogFlushes \/ DogLists => row' = row
      BY DEF TimePasses, DogFlushes, DogLists, store
    <2>2. DogRecovers \/ DogChecks \/ DogStops \/ DogReaps => row' = row
      BY DEF DogRecovers, DogChecks, DogStops, DogReaps, store
    <2>. QED
      BY <2>1, <2>2 DEF DogStep
  <1>3. ~UNCHANGED capabilityVars
    BY DEF capabilityVars
  <1>4. CASE WriteLands
    BY <1>4 DEF WriteLands, NextWrite
  <1>5. writes # <<>> => Head(writes) = writes[1]
    BY EndTypes
  <1>6. CASE WriteFails \/ RuntimeCrashes
    BY <1>5, <1>6 DEF WriteFails, RuntimeCrashes
  <1>. QED
    BY <1>1, <1>2, <1>3, <1>4, <1>6 DEF CapabilityNext, StoreStep

LEMMA DoneStep ==
  ASSUME RunInv, EndInv, DogAsked, [CapabilityNext]_capabilityVars, row.status = "done", row'.status # "done"
  PROVE  \E i \in 1..Len(writes) :
           /\ writes[i].status = row'.status
           /\ writes[i].rec \in outdated
           /\ writes[i].by = "dog" /\ dog.pc = "reaped" => dog.blind \/ dog.seen.status # "done"
  <1>1. writes # <<>> /\ row' = RowOf(writes[1])
    BY RowTakesWrite
  <1>2. 1 \in 1..Len(writes)
    BY <1>1, EndTypes
  <1>3. writes[1].status = row'.status
    BY <1>1 DEF RowOf
  <1>4. writes[1].rec \in outdated
    BY <1>2, <1>3 DEF EndInv, DoneOk
  <1>. QED
    BY <1>2, <1>3, <1>4, Zenon DEF DogAsked

----------------------------------------------------------------------------
(* A run whose box rests.                                                   *)

\* The first record is the only one while the Runtime holds it: the run has lived
\* through no restart.
First == runs = 1 /\ recs[1].status \in Active
FirstServes == First /\ start.pc = "ok"

\* The newest write, or the row when there is none, has the status of the first record.
StatusMirrors ==
    runs = 1 =>
        IF writes # <<>> THEN writes[Len(writes)].status = recs[1].status
        ELSE ~adrift => row.status = recs[1].status

\* Until the run has been stored there is no box.
BirthOk ==
    /\ start.pc \in {"new", "writing"} =>
         box = NoBox /\ session = NoSession /\ relay = NoRelay /\ ~reattach
    /\ start.pc = "new" <=> recs = <<>>
    /\ start.pc = "writing" =>
         /\ Len(recs) = 1 /\ recs[1].status \in Active /\ recs[1].relay = 0 /\ recs[1].persisted = 0
         /\ recs[1].status = "running" => start.opening

\* Its first session opens with the turn that it was started with.
SetupOk ==
    First /\ start.pc = "ensuring" =>
        /\ session.pc \in {"acquire", "open"} /\ (recs[1].status = "running" => session.opening)
        /\ box \in {NoBox, [NoBox EXCEPT !.pod = "empty"]}
        /\ recs[1].relay = 0 /\ recs[1].persisted = 0 /\ writes = <<>>
        /\ \A m \in Messages : call[m].pc = "new"

\* While the run is live, so is its session, and the relay does not close.
AttachOk == FirstServes => session.pc = "live" /\ relay.pc \notin {"ending", "closing"}

\* Events come in their order, and the relay's number runs behind them; what it has
\* counted has not ended the run.  Only an event that is being taken is ahead of it.
Behind(n) == \A i \in 1..Len(box.queue) : n < box.queue[i].id
InOrder == \A i, j \in 1..Len(box.queue) : i < j => box.queue[i].id < box.queue[j].id
Follows(e) == recs[1].relay <= e.id /\ (recs[1].relay = e.id => e.kind \notin Terminal)
TakingPcs == {"save", "resave", "commit", "committing", "recommit"}
AheadPcs == {"save", "resave", "commit", "failing"}
NumbersOk ==
    /\ recs[1].persisted <= recs[1].relay
    /\ \A i \in 1..Len(writes) : writes[i].relay <= recs[1].relay
EventsInOrder ==
    FirstServes =>
        /\ NumbersOk
        /\ InOrder /\ Behind(recs[1].relay) /\ Behind(relay.event.id) /\ Behind(box.pending.id)
        /\ box.pending # NoEvent => Follows(box.pending)
        /\ Follows(relay.event)
        /\ relay.pc \in TakingPcs => box.pending \in {NoEvent, relay.event}
        /\ relay.pc \notin AheadPcs => relay.event.id = recs[1].relay

\* A run that says "running" has a turn in its box, an event that the relay has still to
\* count, or a message on its way to the box.
Coming == box.queue # <<>> \/ (box.pending # NoEvent /\ box.pending.id # recs[1].relay)
Posting(m) == call[m].pc \in {"publishing", "posting"}
RunningIsBusy ==
    FirstServes /\ recs[1].status = "running" /\ ~restored /\ box.pod = "live"
        => box.turns > 0 \/ Coming \/ \E m \in Messages : Posting(m)

Serving == SetupOk /\ AttachOk /\ EventsInOrder /\ RunningIsBusy
Session == [pc : SessionPcs, created : BOOLEAN, opening : BOOLEAN]
RestInv == box.turns \in Nat /\ session \in Session /\ StatusMirrors /\ BirthOk /\ Serving

\* What a step may leave of the first record.
SameFirst ==
    /\ recs'[1].status = recs[1].status /\ recs'[1].relay = recs[1].relay
    /\ recs'[1].persisted = recs[1].persisted

LEMMA FirstTypes ==
  ASSUME RunInv, EndInv, runs = 1
  PROVE  /\ Len(recs) = 1 /\ recs[1] \in Rec /\ recs \in Seq(Rec) /\ Past(recs[1].relay)
         /\ recs[1].relay \in Nat /\ recs[1].persisted \in Nat
         /\ writes \in Seq(Write) /\ Len(writes) \in Nat
         /\ \A i \in 1..Len(writes) : writes[i] \in Write /\ writes[i].rec = 1 /\ writes[i].relay \in Nat
         /\ start.pc \notin {"new", "writing"}
         /\ First <=> Live
  <1>1. Len(recs) = 1 /\ recs[1] \in Rec /\ recs \in Seq(Rec) /\ Past(recs[1].relay)
    BY EndTypes DEF EndInv, NewestOk, RunInv, MemoryOk, RecsOk, Snap
  <1>2. recs[1].relay \in 0..MaxEvents /\ recs[1].persisted \in 0..MaxEvents
    BY <1>1 DEF Rec
  <1>3. writes \in Seq(Write) /\ Len(writes) \in Nat /\ \A i \in 1..Len(writes) : writes[i] \in Write
    BY EndTypes
  <1>4. \A i \in 1..Len(writes) : writes[i].rec = 1 /\ writes[i].relay \in 0..MaxEvents
    BY <1>1, <1>3, EndTypes DEF Write
  <1>. QED
    BY <1>1, <1>2, <1>3, <1>4, KnownIsBorn DEF First, Live

LEMMA BoxTypes ==
  ASSUME RunInv
  PROVE  /\ box \in Box /\ box.queue \in Seq(RunEvent) /\ box.pending \in RunEvent /\ relay \in Relay
         /\ relay.event \in RunEvent /\ emitted \in Nat
         /\ \A i \in 1..Len(box.queue) : box.queue[i].id \in Nat /\ box.queue[i].id <= emitted
         /\ box.pending.id \in Nat /\ box.pending.id <= emitted
         /\ relay.event.id \in Nat /\ relay.event.id <= emitted
         /\ NoEvent.id = 0 /\ NoEvent.kind = "none"
  <1>1. box \in Box /\ relay \in Relay /\ emitted \in 0..MaxEvents
    BY DEF RunInv, BoxOk, RelayOk, EventsOk
  <1>2. box.queue \in Seq(RunEvent) /\ box.pending \in RunEvent /\ relay.event \in RunEvent
    BY <1>1 DEF Box, Relay
  <1>3. NoEvent.id = 0 /\ NoEvent.kind = "none"
    BY DEF NoEvent
  <1>4. \A e \in KnownEvents : e.id \in Nat /\ e.id <= emitted
    BY <1>1, <1>3, CapabilityAssumption DEF RunInv, EventsOk
  <1>5. box.pending \in KnownEvents /\ relay.event \in KnownEvents /\ \A i \in 1..Len(box.queue) : box.queue[i] \in KnownEvents
    BY DEF KnownEvents
  <1>. QED
    BY <1>1, <1>2, <1>3, <1>4, <1>5

----------------------------------------------------------------------------
(* The status of the first record, and its row.                             *)

LEMMA StatusKept ==
  ASSUME StatusMirrors, UNCHANGED <<row, writes, adrift>>,
         runs' = 1 => runs = 1 /\ recs'[1].status = recs[1].status
  PROVE  StatusMirrors'
  BY DEF StatusMirrors

LEMMA StatusJoins ==
  ASSUME RunInv, runs' = 1 => \E w \in Write : writes' = Append(writes, w) /\ w.status = recs'[1].status
  PROVE  StatusMirrors'
  <1>1. ASSUME NEW w \in Write, writes' = Append(writes, w)
        PROVE  writes' # <<>> /\ writes'[Len(writes')] = w
    BY <1>1, EndTypes, SeqPush
  <1>. QED
    BY <1>1 DEF StatusMirrors

----------------------------------------------------------------------------
(* Who serves the first record.                                             *)

LEMMA NotServing ==
  ASSUME ~First' \/ start'.pc \notin {"ensuring", "ok"}
  PROVE  Serving'
  BY DEF Serving, SetupOk, AttachOk, EventsInOrder, RunningIsBusy, FirstServes

LEMMA NothingMoves ==
  ASSUME Serving, UNCHANGED <<recs, runs, writes, box, session, relay, start, call, restored>>
  PROVE  Serving'
  BY DEF Serving, SetupOk, AttachOk, EventsInOrder, RunningIsBusy, First, FirstServes, NumbersOk, InOrder,
         Behind, Follows, Coming, Posting

\* The handlers, the watchdog and the chain leave the events and the relay alone.
LEMMA StillServes ==
  ASSUME RunInv, EndInv, Serving, First, UNCHANGED <<session, relay, start>>, SameEvents(box'),
         box'.pod = box.pod, box.turns \in Nat, box'.turns \in Nat, box.turns <= box'.turns,
         start.pc = "ensuring" => UNCHANGED <<box, writes, call>> /\ SameFirst,
         recs'[1].relay = recs[1].relay, recs'[1].persisted \in {recs[1].persisted, recs[1].relay}
           \cup {writes[i].relay : i \in 1..Len(writes)},
         \A i \in 1..Len(writes') : writes'[i].relay = recs[1].relay
                                    \/ \E j \in 1..Len(writes) : writes'[i].relay = writes[j].relay,
         recs'[1].status = "running" => recs[1].status = "running" \/ \E m \in Messages : Posting(m)',
         \A m \in Messages : Posting(m) => Posting(m)' \/ box'.turns > 0,
         restored' = restored
  PROVE  Serving'
  <1>1. recs[1].relay \in Nat /\ recs[1].persisted \in Nat
    BY FirstTypes DEF First
  <1>2. SetupOk'
    BY DEF Serving, SetupOk, SameFirst, First
  <1>3. AttachOk'
    BY DEF Serving, AttachOk, FirstServes
  <1>4. CASE start.pc = "ok"
    <2>1. NumbersOk'
      BY <1>1, <1>4 DEF Serving, EventsInOrder, FirstServes, NumbersOk
    <2>2. EventsInOrder'
      BY <1>4, <2>1 DEF Serving, EventsInOrder, FirstServes, InOrder, Behind, Follows, SameEvents
    <2>3. RunningIsBusy'
      BY <1>4 DEF Serving, RunningIsBusy, FirstServes, Coming, SameEvents
    <2>. QED
      BY <1>2, <1>3, <2>2, <2>3 DEF Serving
  <1>. QED
    BY <1>2, <1>3, <1>4 DEF Serving, EventsInOrder, RunningIsBusy, FirstServes

\* The same when the status was put back.
LEMMA RestoredServes ==
  ASSUME RunInv, EndInv, Serving, First, UNCHANGED <<session, relay, start>>, SameEvents(box'), start.pc = "ok",
         recs'[1].relay = recs[1].relay, recs'[1].persisted = recs[1].persisted,
         \A i \in 1..Len(writes') : writes'[i].relay = recs[1].relay
                                    \/ \E j \in 1..Len(writes) : writes'[i].relay = writes[j].relay,
         restored'
  PROVE  Serving'
  <1>1. recs[1].relay \in Nat /\ recs[1].persisted \in Nat
    BY FirstTypes DEF First
  <1>2. NumbersOk'
    BY <1>1 DEF Serving, EventsInOrder, FirstServes, NumbersOk
  <1>3. EventsInOrder'
    BY <1>2 DEF Serving, EventsInOrder, FirstServes, InOrder, Behind, Follows, SameEvents
  <1>. QED
    BY <1>3 DEF Serving, SetupOk, AttachOk, RunningIsBusy, FirstServes

\* The box is stopped.
LEMMA BoxIsGone ==
  ASSUME RunInv, EndInv, Serving, First, box' = NoBox,
         UNCHANGED <<recs, runs, writes, session, relay, start, call>>
  PROVE  Serving'
  <1>1. NoBox.queue = <<>> /\ NoBox.pending = NoEvent /\ NoBox.pod = "absent"
    BY DEF NoBox
  <1>2. SetupOk' /\ AttachOk' /\ RunningIsBusy'
    BY <1>1 DEF Serving, SetupOk, AttachOk, RunningIsBusy, First, FirstServes
  <1>3. Len(box'.queue) = 0 /\ box'.pending = NoEvent
    BY <1>1
  <1>4. EventsInOrder'
    BY <1>3 DEF Serving, EventsInOrder, First, FirstServes, NumbersOk, InOrder, Behind, Follows
  <1>. QED
    BY <1>2, <1>4 DEF Serving

----------------------------------------------------------------------------
(* The box and its session.                                                 *)

\* An event joins the queue.
LEMMA EventServes ==
  ASSUME RunInv, EndInv, Serving, FirstServes, NEW e \in RunEvent, e.id = emitted + 1,
         UNCHANGED <<recs, runs, writes, session, relay, start>>,
         box'.queue = Append(box.queue, e), box'.pending = box.pending, box'.pod \in {"live", "over"}
  PROVE  Serving'
  <1>1. /\ recs[1].relay \in Nat /\ recs[1].relay <= emitted /\ emitted \in Nat
        /\ box.queue \in Seq(RunEvent) /\ Len(box.queue) \in Nat
        /\ \A i \in 1..Len(box.queue) : box.queue[i].id \in Nat /\ box.queue[i].id <= emitted
        /\ box.pending.id \in Nat /\ box.pending.id <= emitted
        /\ relay.event.id \in Nat /\ relay.event.id <= emitted
    BY FirstTypes, BoxTypes DEF First, FirstServes, Past
  <1>2. /\ box'.queue # <<>> /\ Len(box'.queue) \in Nat
        /\ \A i \in 1..Len(box'.queue) : \/ i \in 1..Len(box.queue) /\ box'.queue[i] = box.queue[i]
                                         \/ i = Len(box.queue) + 1 /\ box'.queue[i] = e
    BY <1>1, SeqPush
  <1>3. SetupOk' /\ AttachOk'
    BY DEF Serving, SetupOk, AttachOk, FirstServes, First
  <1>4. InOrder'
    <2>1. ASSUME NEW i \in 1..Len(box'.queue), NEW j \in 1..Len(box'.queue), i < j
          PROVE  box'.queue[i].id < box'.queue[j].id
      <3>1. i \in 1..Len(box.queue) /\ box'.queue[i] = box.queue[i]
        BY <1>1, <1>2, <2>1
      <3>2. CASE j \in 1..Len(box.queue) /\ box'.queue[j] = box.queue[j]
        <4>1. InOrder
          BY DEF Serving, EventsInOrder
        <4>2. box.queue[i].id < box.queue[j].id
          BY <2>1, <3>1, <3>2, <4>1 DEF InOrder
        <4>. QED
          BY <3>1, <3>2, <4>2
      <3>3. CASE box'.queue[j] = e
        BY <1>1, <3>1, <3>3
      <3>. QED
        BY <1>2, <3>2, <3>3
    <2>. QED
      BY <2>1 DEF InOrder
  <1>5. Behind(recs[1].relay)' /\ Behind(relay.event.id)' /\ Behind(box.pending.id)'
    <2>1. ASSUME NEW n \in Nat, n <= emitted, Behind(n), NEW i \in 1..Len(box'.queue)
          PROVE  n < box'.queue[i].id
      BY <1>1, <1>2, <2>1 DEF Behind
    <2>2. Behind(recs[1].relay) /\ Behind(relay.event.id) /\ Behind(box.pending.id)
      BY DEF Serving, EventsInOrder
    <2>. QED
      BY <1>1, <2>1, <2>2 DEF Behind
  <1>6. EventsInOrder'
    BY <1>4, <1>5 DEF Serving, EventsInOrder, FirstServes, First, NumbersOk, Follows
  <1>7. RunningIsBusy'
    BY <1>2 DEF RunningIsBusy, Coming
  <1>. QED
    BY <1>3, <1>6, <1>7 DEF Serving

LEMMA BoxRests ==
  ASSUME RunInv, EndInv, RestInv, BoxStep
  PROVE  Serving' /\ StatusMirrors' /\ box'.turns \in Nat
  <1>1. UNCHANGED <<row, adrift, recs, runs, writes, session, relay, start>>
    BY Zenon DEF BoxStep, TurnEnds, SessionEnds, StopLands, store, memory, sessionSide, handlers
  <1>2. StatusMirrors'
    BY <1>1, StatusKept DEF RestInv
  <1>3. box \in Box /\ box.turns \in Nat /\ emitted \in Nat /\ emitted <= MaxEvents /\ MaxEvents \in Nat
    BY BoxTypes, CapabilityAssumption DEF RestInv, RunInv, EventsOk
  <1>4. Serving
    BY DEF RestInv
  <1>5. CASE TurnEnds
    <2> DEFINE e == [id |-> emitted + 1, kind |-> "turn"]
    <2>1. /\ box' = [box EXCEPT !.turns = box.turns - 1, !.queue = Append(box.queue, e)]
          /\ box.pod = "live" /\ box.turns > 0 /\ emitted < MaxEvents
      BY <1>5 DEF TurnEnds
    <2>2. e \in RunEvent /\ e.id = emitted + 1
      BY <1>3, <2>1 DEF RunEvent, EventKinds
    <2> HIDE DEF e
    <2>3. /\ box'.queue = Append(box.queue, e) /\ box'.pending = box.pending /\ box'.pod = "live"
          /\ box'.turns \in Nat
      BY <1>3, <2>1 DEF Box
    <2>4. CASE First /\ start.pc \in {"ensuring", "ok"}
      <3>1. start.pc = "ok"
        BY <1>4, <2>1, <2>4 DEF Serving, SetupOk, NoBox
      <3>. QED
        BY <1>1, <1>2, <1>4, <2>2, <2>3, <2>4, <3>1, EventServes DEF FirstServes
    <2>. QED
      BY <1>1, <1>2, <2>3, <2>4, NotServing DEF First
  <1>6. CASE SessionEnds
    <2>1. PICK kind \in Terminal :
            box' = [box EXCEPT !.pod = "over", !.turns = 0,
                               !.queue = Append(box.queue, [id |-> emitted + 1, kind |-> kind])]
      BY <1>6 DEF SessionEnds
    <2> DEFINE e == [id |-> emitted + 1, kind |-> kind]
    <2>2. e \in RunEvent /\ e.id = emitted + 1 /\ box.pod = "live"
      BY <1>3, <1>6 DEF SessionEnds, RunEvent, EventKinds
    <2>3. /\ box'.queue = Append(box.queue, e) /\ box'.pending = box.pending /\ box'.pod = "over"
          /\ box'.turns \in Nat
      BY <1>3, <2>1 DEF Box
    <2> HIDE DEF e
    <2>4. CASE First /\ start.pc \in {"ensuring", "ok"}
      <3>1. start.pc = "ok"
        BY <1>4, <2>2, <2>4 DEF Serving, SetupOk, NoBox
      <3>. QED
        BY <1>1, <1>2, <1>4, <2>2, <2>3, <2>4, <3>1, EventServes DEF FirstServes
    <2>. QED
      BY <1>1, <1>2, <2>3, <2>4, NotServing DEF First
  <1>7. CASE StopLands
    <2>1. box' = NoBox \/ box' = box
      BY <1>7 DEF StopLands
    <2>2. box'.turns \in Nat
      BY <1>3, <2>1 DEF NoBox
    <2>3. UNCHANGED <<call, restored>>
      BY <1>7 DEF StopLands, handlers, marks
    <2>4. CASE box' = NoBox
      BY <1>1, <1>2, <1>4, <2>2, <2>3, <2>4, BoxIsGone, NotServing DEF First
    <2>5. CASE box' = box
      BY <1>1, <1>2, <1>4, <2>2, <2>3, <2>5, NothingMoves
    <2>. QED
      BY <2>1, <2>4, <2>5
  <1>. QED
    BY <1>5, <1>6, <1>7 DEF BoxStep

LEMMA SessionRests ==
  ASSUME RunInv, EndInv, RestInv, SessionStep
  PROVE  Serving' /\ StatusMirrors' /\ box'.turns \in Nat
  <1>1. UNCHANGED <<row, adrift, recs, runs, writes, restored>>
    BY Zenon DEF SessionStep, AcquireBox, OpenSession, SetupFails, Reattach, SetupOver, store, memory, handlers, marks
  <1>2. StatusMirrors'
    BY <1>1, StatusKept DEF RestInv
  <1>3. /\ box \in Box /\ box.turns \in Nat /\ Serving /\ session \in Session /\ (session.pc = "live" <=> relay.pc # "off")
        /\ NoBox.turns = 0 /\ NoBox \in Box /\ NoBox.queue = <<>> /\ NoBox.pending = NoEvent /\ NoBox.pod = "absent"
    BY BoxTypes, NoBoxIsBox DEF RestInv, RunInv, SessionOk, NoBox
  <1>4. First' <=> First
    BY <1>1 DEF First
  <1>5. First /\ start.pc = "ok" => session.pc = "live"
    BY <1>3 DEF Serving, AttachOk, FirstServes
  <1>6. CASE AcquireBox
    <2>1. /\ session.pc = "acquire" /\ session' = [session EXCEPT !.pc = "open", !.created = box.pod = "absent"]
          /\ box' = (IF box.pod = "absent" THEN [NoBox EXCEPT !.pod = "empty"] ELSE box)
          /\ UNCHANGED <<start, call>>
      BY <1>6 DEF AcquireBox, handlers
    <2>2. box'.turns \in Nat
      BY <1>3, <2>1 DEF NoBox
    <2>3. CASE First /\ start.pc = "ensuring"
      <3>1. SetupOk'
        <4>1. session'.pc = "open" /\ session'.opening = session.opening
          BY <1>3, <2>1 DEF Session
        <4>2. box' \in {NoBox, [NoBox EXCEPT !.pod = "empty"]}
          BY <1>3, <2>1, <2>3 DEF Serving, SetupOk
        <4>. QED
          BY <1>1, <1>3, <2>1, <2>3, <4>1, <4>2 DEF Serving, SetupOk
      <3>. QED
        BY <1>2, <2>1, <2>2, <2>3, <3>1 DEF Serving, AttachOk, EventsInOrder, RunningIsBusy, FirstServes
    <2>4. ~(First /\ start.pc = "ok")
      BY <1>5, <2>1
    <2>. QED
      BY <1>2, <1>4, <2>1, <2>2, <2>3, <2>4, NotServing
  <1>7. CASE OpenSession
    <2>1. /\ session.pc = "open" /\ box.pod # "absent" /\ session' = [NoSession EXCEPT !.pc = "live"]
          /\ box' = IF box.pod = "empty"
                    THEN [box EXCEPT !.pod = "live", !.turns = IF session.opening THEN 1 ELSE 0] ELSE box
          /\ relay' = [pc |-> "connect", event |-> NoEvent, replays |-> FALSE]
          /\ start' = IF start.pc = "ensuring" THEN [start EXCEPT !.pc = "ok"] ELSE start
      BY <1>7 DEF OpenSession, SetupOver
    <2>2. box'.turns \in Nat
      BY <1>3, <2>1 DEF Box
    <2>3. CASE First /\ start.pc = "ensuring"
      <3>1. /\ box.pod = "empty" /\ box.queue = <<>> /\ box.pending = NoEvent
            /\ recs[1].relay = 0 /\ recs[1].persisted = 0 /\ writes = <<>>
            /\ recs[1].status = "running" => session.opening
        BY <1>3, <2>1, <2>3 DEF Serving, SetupOk, NoBox
      <3>2. /\ box'.queue = <<>> /\ box'.pending = NoEvent
            /\ session.opening => box'.turns = 1
        BY <1>3, <2>1, <3>1 DEF Box
      <3>3. session'.pc = "live" /\ start'.pc = "ok" /\ relay'.pc = "connect" /\ relay'.event = NoEvent
        BY <2>1, <2>3 DEF NoSession, RunInv, StartOk, Starting
      <3>4. NoEvent.id = 0 /\ NoEvent.kind \notin Terminal
        BY DEF NoEvent, Terminal
      <3>5. SetupOk' /\ AttachOk'
        BY <3>3 DEF SetupOk, AttachOk
      <3>6. EventsInOrder'
        BY <1>1, <3>1, <3>2, <3>3, <3>4
        DEF EventsInOrder, NumbersOk, InOrder, Behind, Follows, TakingPcs, AheadPcs
      <3>7. RunningIsBusy'
        BY <1>1, <3>1, <3>2 DEF RunningIsBusy
      <3>. QED
        BY <1>2, <2>2, <3>5, <3>6, <3>7 DEF Serving
    <2>4. ~(First /\ start.pc = "ok")
      BY <1>5, <2>1
    <2>. QED
      BY <1>2, <1>4, <2>1, <2>2, <2>3, <2>4, NotServing
  <1>8. CASE SetupFails
    <2>1. /\ session.pc \in {"acquire", "open"} /\ UNCHANGED box
          /\ start' = IF start.pc = "ensuring" THEN [start EXCEPT !.pc = "broken"] ELSE start
      BY <1>8 DEF SetupFails, SetupOver
    <2>2. start.pc = "ensuring" => start'.pc = "broken"
      BY <2>1 DEF RunInv, StartOk, Starting
    <2>3. ~(First /\ start.pc = "ok")
      BY <1>5, <2>1
    <2>. QED
      BY <1>2, <1>3, <1>4, <2>1, <2>2, <2>3, NotServing
  <1>9. CASE Reattach
    <2>1. /\ UNCHANGED <<box, relay, start, call>> /\ (UNCHANGED session \/ Ensure(FALSE))
      BY <1>9 DEF Reattach, boxSide, handlers
    <2>2. CASE First /\ start.pc \in {"ensuring", "ok"}
      <3>1. session.pc # "none"
        BY <1>3, <1>5, <2>2 DEF Serving, SetupOk
      <3>2. UNCHANGED session
        BY <2>1, <3>1 DEF Ensure
      <3>. QED
        BY <1>1, <1>2, <1>3, <2>1, <3>2, NothingMoves
    <2>. QED
      BY <1>2, <1>3, <1>4, <2>1, <2>2, NotServing
  <1>. QED
    BY <1>6, <1>7, <1>8, <1>9 DEF SessionStep

----------------------------------------------------------------------------
(* The relay.                                                               *)

\* Only a run that serves has a relay.
LEMMA RelayServesOne ==
  ASSUME RunInv, Serving, relay.pc # "off", First, start.pc \in {"ensuring", "ok"}
  PROVE  FirstServes
  BY DEF RunInv, SessionOk, Serving, SetupOk, FirstServes

\* A step of the relay's own.
LEMMA RelayMovesOn ==
  ASSUME RunInv, EndInv, Serving, relay.pc # "off", UNCHANGED <<recs, runs, writes, box, session, start, call, restored>>,
         relay'.event = relay.event, relay'.pc \notin {"ending", "closing"},
         relay'.pc \in TakingPcs => relay.pc \in TakingPcs,
         relay.pc \in AheadPcs => relay'.pc \in AheadPcs
  PROVE  Serving'
  <1>1. CASE FirstServes
    BY <1>1
    DEF Serving, SetupOk, AttachOk, EventsInOrder, RunningIsBusy, First, FirstServes, NumbersOk, InOrder,
        Behind, Follows, Coming, Posting
  <1>. QED
    BY <1>1, RelayServesOne, NotServing DEF First

\* The answer to an acknowledgement; the event was counted.
LEMMA AckRests ==
  ASSUME RunInv, EndInv, RestInv, Ack
  PROVE  Serving' /\ box'.turns \in Nat
  <1>1. /\ relay.pc = "ack" /\ UNCHANGED <<recs, runs, writes, session, start, call, restored>>
        /\ box' = box \/ (box.pending = relay.event /\ box' = [box EXCEPT !.pending = NoEvent])
        /\ \E pc \in {"lost", "stream", "closing"} :
             RelayTo(pc) /\ (pc = "closing" => relay.event.kind \in Terminal)
    BY DEF Ack, store, memory, handlers, marks
  <1>2. PICK pc \in {"lost", "stream", "closing"} :
          RelayTo(pc) /\ (pc = "closing" => relay.event.kind \in Terminal)
    BY <1>1
  <1>3. relay'.pc = pc /\ relay'.event = relay.event
    BY <1>2, BoxTypes DEF RelayTo, Relay
  <1>4. /\ box'.turns = box.turns /\ box'.pod = box.pod /\ box'.queue = box.queue
        /\ box'.pending = box.pending \/ (box'.pending = NoEvent /\ box.pending = relay.event)
    BY <1>1, BoxTypes DEF Box
  <1>5. CASE FirstServes
    <2>1. /\ relay.event.id = recs[1].relay /\ relay.event.kind \notin Terminal
          /\ Serving /\ recs[1].relay \in Nat /\ FirstServes'
      BY <1>1, <1>5, FirstTypes
      DEF RestInv, Serving, EventsInOrder, AheadPcs, Follows, FirstServes, First
    <2>2. pc # "closing"
      BY <1>2, <2>1
    <2>3. SetupOk' /\ AttachOk'
      BY <1>1, <1>2, <1>3, <1>5, <2>1, <2>2 DEF SetupOk, AttachOk, FirstServes, Serving
    <2>4. Behind(box.pending.id)'
      <3>1. \A i \in 1..Len(box.queue) : box.queue[i].id > recs[1].relay
        BY <1>5, <2>1, BoxTypes DEF Serving, EventsInOrder, Behind
      <3>. QED
        BY <1>4, <1>5, <2>1, <3>1, BoxTypes DEF Serving, EventsInOrder, Behind
    <2>5. EventsInOrder'
      BY <1>1, <1>2, <1>3, <1>4, <1>5, <2>1, <2>2, <2>4
      DEF Serving, EventsInOrder, NumbersOk, InOrder, Behind, Follows, TakingPcs, AheadPcs
    <2>6. RunningIsBusy'
      BY <1>1, <1>4, <1>5, <2>1 DEF Serving, RunningIsBusy, Coming, Posting
    <2>. QED
      BY <1>4, <2>3, <2>5, <2>6 DEF Serving, RestInv
  <1>6. CASE ~FirstServes
    <2>1. ~First' \/ start'.pc \notin {"ensuring", "ok"}
      BY <1>1, <1>6, RelayServesOne DEF RestInv, First
    <2>. QED
      BY <1>4, <2>1, NotServing DEF RestInv
  <1>. QED
    BY <1>5, <1>6

LEMMA TouchKeepsFirst ==
  ASSUME RunInv, EndInv, runs = 1, NEW silent \in BOOLEAN,
         recs' = recs \/ recs' = Touched(recs) \/ recs' = [recs EXCEPT ![runs].silent = silent]
  PROVE  SameFirst
  <1>0. Len(recs) = 1 /\ recs[1] \in Rec /\ recs \in Seq(Rec)
    BY FirstTypes
  <1>1. 1 \in 1..Len(recs)
    BY <1>0
  <1>2. CASE recs' = recs
    BY <1>2 DEF SameFirst
  <1>3. ASSUME NEW b, recs' = [recs EXCEPT ![1].silent = b] PROVE SameFirst
    <2>1. recs'[1] = [recs[1] EXCEPT !.silent = b]
      BY <1>0, <1>1, <1>3
    <2>. QED
      BY <1>0, <2>1 DEF Rec, SameFirst
  <1>. QED
    BY <1>2, <1>3 DEF Touched

\* The next frame: a new event, or the one that is not acknowledged yet.
LEMMA FrameRests ==
  ASSUME RunInv, EndInv, RestInv, Frame
  PROVE  Serving' /\ StatusMirrors' /\ box'.turns \in Nat
  <1>0. PICK e : e = IF box.pending = NoEvent THEN Head(box.queue) ELSE box.pending
    OBVIOUS
  <1>1. /\ UNCHANGED <<row, adrift, runs, writes, session, start, call, restored>>
        /\ relay.pc = "stream" /\ (box.pending # NoEvent \/ box.queue # <<>>)
        /\ box' = IF box.pending = NoEvent THEN [box EXCEPT !.pending = e, !.queue = Tail(@)] ELSE box
        /\ relay' = [relay EXCEPT !.pc = FrameStep(e), !.event = e]
        /\ UNCHANGED recs \/ recs' = Touched(recs)
    BY <1>0 DEF Frame, store, handlers, marks
  <1>2. runs = 1 => SameFirst
    BY <1>1, TouchKeepsFirst
  <1>3. StatusMirrors'
    BY <1>1, <1>2, StatusKept DEF RestInv, SameFirst
  <1>4. /\ box'.turns = box.turns /\ box'.pod = box.pod /\ box'.pending = e
        /\ box'.queue = IF box.pending = NoEvent THEN Tail(box.queue) ELSE box.queue
    BY <1>0, <1>1, BoxTypes DEF Box
  <1>5. relay'.pc = FrameStep(e) /\ relay'.event = e
    BY <1>1, BoxTypes DEF Relay
  <1>6. CASE FirstServes
    <2>1. Serving /\ SameFirst /\ First' /\ FirstServes' /\ recs[1].relay \in Nat /\ recs[1].persisted \in Nat
      BY <1>1, <1>2, <1>6, FirstTypes DEF RestInv, FirstServes, First, SameFirst
    <2>2. /\ box.queue \in Seq(RunEvent) /\ Len(box.queue) \in Nat
          /\ relay.event.id = recs[1].relay /\ recs[1].persisted <= recs[1].relay
      BY <1>1, <1>6, <2>1, BoxTypes DEF Serving, EventsInOrder, AheadPcs, TakingPcs, NumbersOk
    <2>3. /\ e # NoEvent /\ Follows(e)' /\ Behind(e.id)' /\ InOrder' /\ Behind(recs[1].relay)' /\ e.id \in Nat
          /\ box.pending = NoEvent => recs[1].relay < e.id
      <3>1. CASE box.pending = NoEvent
        <4>1. box.queue # <<>>
          BY <1>1, <3>1
        <4>2. /\ Len(box'.queue) = Len(box.queue) - 1 /\ e = box.queue[1] /\ 1 \in 1..Len(box.queue)
              /\ \A i \in 1..Len(box'.queue) : i + 1 \in 2..Len(box.queue) /\ box'.queue[i] = box.queue[i + 1]
          BY <1>0, <1>4, <2>2, <3>1, <4>1, SeqPop
        <4>3. e.id \in Nat /\ recs[1].relay < e.id
          BY <1>6, <2>1, <4>2, BoxTypes DEF Serving, EventsInOrder, Behind
        <4>4. Follows(e)' /\ e # NoEvent
          BY <2>1, <4>3, BoxTypes DEF Follows, SameFirst
        <4>5. Behind(e.id)'
          <5>1. \A i \in 1..Len(box'.queue) : i + 1 \in 1..Len(box.queue) /\ 1 < i + 1
            BY <2>2, <4>2
          <5>. QED
            BY <1>6, <2>1, <4>2, <5>1 DEF Serving, EventsInOrder, InOrder, Behind
        <4>6. InOrder'
          <5>1. \A i, j \in 1..Len(box'.queue) : i < j => i + 1 < j + 1 /\ i + 1 \in 1..Len(box.queue)
                                                            /\ j + 1 \in 1..Len(box.queue)
            BY <2>2, <4>2
          <5>. QED
            BY <1>6, <2>1, <4>2, <5>1 DEF Serving, EventsInOrder, InOrder
        <4>7. Behind(recs[1].relay)'
          <5>1. \A i \in 1..Len(box'.queue) : i + 1 \in 1..Len(box.queue)
            BY <2>2, <4>2
          <5>. QED
            BY <1>6, <2>1, <4>2, <5>1 DEF Serving, EventsInOrder, Behind, SameFirst
        <4>. QED
          BY <4>3, <4>4, <4>5, <4>6, <4>7
      <3>2. CASE box.pending # NoEvent
        BY <1>0, <1>4, <1>6, <2>1, <3>2, BoxTypes
        DEF Serving, EventsInOrder, Follows, InOrder, Behind, SameFirst
      <3>. QED
        BY <3>1, <3>2
    <2>4. FrameStep(e) = "ack" => e.id = recs[1].relay
      <3>1. runs = 1
        BY <1>6 DEF FirstServes, First
      <3>2. CASE recs[runs].persisted = e.id
        BY <2>1, <2>2, <2>3, <3>1, <3>2 DEF Follows, SameFirst
      <3>. QED
        BY <2>2, <3>1, <3>2 DEF FrameStep
    <2>5. FrameStep(e) \in {"ack", "save", "commit"} /\ e \in {box.pending, box.queue[1]}
      <3>1. box.pending = NoEvent => e = box.queue[1]
        BY <1>0, <1>1, <2>2
      <3>. QED
        BY <1>0, <3>1 DEF FrameStep
    <2>6. SetupOk' /\ AttachOk'
      BY <1>1, <1>5, <1>6, <2>1, <2>5 DEF Serving, SetupOk, AttachOk, FirstServes
    <2>7. EventsInOrder'
      <3>1. NumbersOk'
        BY <1>1, <1>6, <2>1 DEF Serving, EventsInOrder, NumbersOk, SameFirst
      <3>. QED
        BY <1>4, <1>5, <2>1, <2>3, <2>4, <2>5, <3>1
        DEF EventsInOrder, InOrder, Behind, Follows, TakingPcs, AheadPcs, SameFirst
    <2>8. RunningIsBusy'
      <3>1. CASE box.pending = NoEvent
        BY <1>4, <2>1, <2>3, <3>1 DEF RunningIsBusy, Coming, SameFirst
      <3>2. CASE box.pending # NoEvent
        <4>1. e = box.pending
          BY <1>0, <3>2
        <4>. QED
          BY <1>1, <1>4, <1>6, <2>1, <3>2, <4>1 DEF Serving, RunningIsBusy, Coming, Posting, SameFirst
      <3>. QED
        BY <3>1, <3>2
    <2>. QED
      BY <1>3, <1>4, <2>6, <2>7, <2>8 DEF Serving, RestInv
  <1>7. CASE ~FirstServes
    <2>1. ~First' \/ start'.pc \notin {"ensuring", "ok"}
      BY <1>1, <1>2, <1>7, RelayServesOne DEF RestInv, First, SameFirst
    <2>. QED
      BY <1>3, <1>4, <2>1, NotServing DEF RestInv
  <1>. QED
    BY <1>6, <1>7

\* A record changes and its write joins the chain.
LEMMA RecordWritten ==
  ASSUME RunInv, EndInv, NEW g \in 1..Len(recs), runs' = g, NEW r \in Rec, recs' = [recs EXCEPT ![g] = r],
         NEW caller \in Writers, writes' = Persist(writes, g, recs'[g], caller)
  PROVE  /\ StatusMirrors' /\ recs'[g] = r
         /\ \A i \in 1..Len(writes') : writes'[i].relay = r.relay
                                      \/ \E j \in 1..Len(writes) : writes'[i].relay = writes[j].relay
  <1>1. recs \in Seq(Rec) /\ writes \in Seq(Write) /\ g \in Nat
    BY EndTypes
  <1>2. recs'[g] = r
    BY <1>1
  <1>3. PICK w : w = [rec |-> g, status |-> r.status, relay |-> r.relay, msgs |-> r.msgs, by |-> caller]
    OBVIOUS
  <1>4. w \in Write /\ w.relay = r.relay /\ w.status = r.status
    BY <1>1, <1>3 DEF Write, Rec
  <1>5. writes' = Append(writes, w)
    BY <1>2, <1>3 DEF Persist
  <1>6. StatusMirrors'
    <2>1. runs' = 1 => w.status = recs'[1].status
      BY <1>2, <1>4
    <2>. QED
      BY <1>4, <1>5, <2>1, StatusJoins
  <1>7. \A i \in 1..Len(writes') : (i \in 1..Len(writes) /\ writes'[i] = writes[i]) \/ writes'[i] = w
    BY <1>1, <1>4, <1>5, SeqPush
  <1>. QED
    BY <1>2, <1>4, <1>6, <1>7

\* The event is counted.
LEMMA CommitRests ==
  ASSUME RunInv, EndInv, RestInv, Commit
  PROVE  Serving' /\ StatusMirrors' /\ box'.turns \in Nat
  <1>1. /\ relay.pc = "commit" /\ UNCHANGED <<row, adrift, runs, box, session, start, call, restored>>
    BY DEF Commit, store, boxSide, handlers, marks
  <1>2. PICK e : e = relay.event /\ e \in RunEvent /\ e.kind # "none" /\ e.id \in Nat
    BY <1>1, BoxTypes DEF RunInv, RelayOk, Fits
  <1>3. CASE RelayTo("ack") /\ UNCHANGED <<recs, writes>> /\ (runs = 0 \/ recs[runs].persisted = e.id)
    <2>1. relay'.pc = "ack" /\ relay'.event = relay.event
      BY <1>3, BoxTypes DEF RelayTo, Relay
    <2>2. StatusMirrors'
      BY <1>1, <1>3, StatusKept DEF RestInv
    <2>3. CASE FirstServes
      <3>1. /\ Serving /\ recs[1].relay \in Nat /\ runs = 1 /\ recs[1].persisted \in Nat
        BY <2>3, FirstTypes DEF RestInv, FirstServes, First
      <3>2. relay.event.id = recs[1].relay
        BY <1>2, <1>3, <2>3, <3>1 DEF Serving, EventsInOrder, NumbersOk, Follows
      <3>3. SetupOk' /\ AttachOk' /\ RunningIsBusy'
        BY <1>1, <1>3, <2>1, <2>3, <3>1
        DEF Serving, SetupOk, AttachOk, RunningIsBusy, First, FirstServes, Coming, Posting
      <3>4. EventsInOrder'
        BY <1>1, <1>3, <2>1, <2>3, <3>1, <3>2
        DEF Serving, EventsInOrder, First, FirstServes, NumbersOk, InOrder, Behind, Follows, TakingPcs, AheadPcs
      <3>. QED
        BY <1>1, <2>2, <3>3, <3>4 DEF Serving, RestInv
    <2>4. CASE ~FirstServes
      BY <1>1, <1>3, <2>2, <2>4, RelayServesOne, NotServing DEF RestInv, First
    <2>. QED
      BY <2>3, <2>4
  <1>4. CASE /\ runs # 0 /\ RelayTo("committing")
             /\ recs' = [recs EXCEPT ![runs].relay = e.id,
                           ![runs].status = IF Live /\ recs[runs].relay # e.id THEN StatusAfter(e) ELSE @]
             /\ writes' = Persist(writes, runs, recs'[runs], "relay")
    <2>1. PICK r : r = [recs[runs] EXCEPT !.relay = e.id,
                          !.status = IF Live /\ recs[runs].relay # e.id THEN StatusAfter(e) ELSE @]
      OBVIOUS
    <2>2. runs \in 1..Len(recs) /\ recs[runs] \in Rec
      BY <1>4, EndTypes
    <2>3. /\ r \in Rec /\ r.relay = e.id /\ r.persisted = recs[runs].persisted
          /\ r.status = IF Live /\ recs[runs].relay # e.id THEN StatusAfter(e) ELSE recs[runs].status
      <3>1. e.id \in 0..MaxEvents /\ StatusAfter(e) \in Statuses
        BY <1>2 DEF RunEvent, EventKinds, StatusAfter, Statuses, Active, Terminal
      <3>. QED
        BY <2>1, <2>2, <3>1 DEF Rec
    <2>4. recs' = [recs EXCEPT ![runs] = r] /\ "relay" \in Writers
      BY <1>4, <2>1 DEF Writers
    <2>5. /\ StatusMirrors' /\ recs'[runs] = r
          /\ \A i \in 1..Len(writes') : writes'[i].relay = e.id
                                       \/ \E j \in 1..Len(writes) : writes'[i].relay = writes[j].relay
      <3>1. /\ StatusMirrors' /\ recs'[runs] = r
            /\ \A i \in 1..Len(writes') : writes'[i].relay = r.relay
                                         \/ \E j \in 1..Len(writes) : writes'[i].relay = writes[j].relay
        <4>1. r \in Rec /\ runs' = runs
          BY <1>1, <2>3
        <4>. QED
          BY <1>4, <2>2, <2>4, <4>1, RecordWritten
      <3>. QED
        BY <2>3, <3>1
    <2>6. relay'.pc = "committing" /\ relay'.event = e
      BY <1>2, <1>4, BoxTypes DEF RelayTo, Relay
    <2>7. CASE FirstServes /\ First'
      <3>1. /\ Serving /\ recs[1].relay \in Nat /\ runs = 1 /\ recs[1].persisted \in Nat /\ Live /\ recs'[1] = r
            /\ \A i \in 1..Len(writes) : writes[i].relay \in Nat
        BY <2>5, <2>7, FirstTypes DEF RestInv, FirstServes, First
      <3>2. /\ recs[1].relay <= e.id /\ recs[1].persisted <= recs[1].relay /\ box.pending \in {NoEvent, e}
            /\ \A i \in 1..Len(writes) : writes[i].relay <= recs[1].relay
        BY <1>1, <1>2, <2>7, <3>1 DEF Serving, EventsInOrder, Follows, NumbersOk, TakingPcs
      <3>3. NumbersOk'
        BY <1>2, <2>3, <2>5, <3>1, <3>2 DEF NumbersOk
      <3>4. e.kind \notin Terminal
        <4>1. CASE recs[1].relay = e.id
          BY <1>2, <2>7, <3>1, <4>1 DEF Serving, EventsInOrder, Follows
        <4>2. CASE recs[1].relay # e.id
          <5>1. StatusAfter(e) \in Active
            BY <2>3, <2>7, <3>1, <4>2 DEF First
          <5>. QED
            BY <5>1 DEF StatusAfter, Active, Terminal
        <4>. QED
          BY <4>1, <4>2
      <3>5. SetupOk' /\ AttachOk'
        BY <1>1, <2>6, <2>7, <3>1 DEF Serving, SetupOk, AttachOk, FirstServes
      <3>6. EventsInOrder'
        BY <1>1, <1>2, <2>3, <2>6, <2>7, <3>1, <3>2, <3>3, <3>4
        DEF Serving, EventsInOrder, InOrder, Behind, Follows, TakingPcs, AheadPcs
      <3>7. RunningIsBusy'
        <4>1. CASE recs[1].relay = e.id
          BY <1>1, <2>3, <2>7, <3>1, <4>1 DEF Serving, RunningIsBusy, Coming, Posting
        <4>2. CASE recs[1].relay # e.id
          <5>1. e.kind = "turn"
            BY <1>2, <3>4 DEF RunEvent, EventKinds
          <5>2. recs'[1].status = "idle"
            BY <2>3, <3>1, <4>2, <5>1 DEF StatusAfter
          <5>. QED
            BY <5>2 DEF RunningIsBusy
        <4>. QED
          BY <4>1, <4>2
      <3>. QED
        BY <1>1, <2>5, <3>5, <3>6, <3>7 DEF Serving, RestInv
    <2>8. CASE ~(FirstServes /\ First')
      <3>1. First' => First
        BY <1>1, <2>2, <2>3, <2>5 DEF First, Live, FirstServes, Active, Terminal
      <3>2. ~First' \/ start'.pc \notin {"ensuring", "ok"}
        BY <1>1, <2>8, <3>1, RelayServesOne DEF RestInv
      <3>. QED
        BY <1>1, <2>5, <3>2, NotServing DEF RestInv
    <2>. QED
      BY <2>7, <2>8
  <1>. QED
    BY <1>2, <1>3, <1>4 DEF Commit

LEMMA BecomesWritten ==
  ASSUME RunInv, EndInv, NEW status \in Statuses, NEW caller \in Writers, Becomes(status, caller)
  PROVE  /\ UNCHANGED runs /\ Live /\ StatusMirrors'
         /\ recs'[runs].status = status /\ recs'[runs].relay = recs[runs].relay
         /\ recs'[runs].persisted = recs[runs].persisted
         /\ \A i \in 1..Len(writes') : writes'[i].relay = recs[runs].relay
                                      \/ \E j \in 1..Len(writes) : writes'[i].relay = writes[j].relay
  <1>1. PICK r : r = [recs[runs] EXCEPT !.status = status, !.silent = FALSE]
    OBVIOUS
  <1>2. runs \in 1..Len(recs) /\ recs[runs] \in Rec /\ UNCHANGED runs /\ Live
    BY EndTypes DEF Becomes, Live
  <1>3. /\ r \in Rec /\ r.status = status /\ r.relay = recs[runs].relay
        /\ r.persisted = recs[runs].persisted
    BY <1>1, <1>2 DEF Rec
  <1>4. recs' = [recs EXCEPT ![runs] = r] /\ writes' = Persist(writes, runs, recs'[runs], caller)
    BY <1>1 DEF Becomes
  <1>5. /\ StatusMirrors' /\ recs'[runs] = r
        /\ \A i \in 1..Len(writes') : writes'[i].relay = r.relay
                                     \/ \E j \in 1..Len(writes) : writes'[i].relay = writes[j].relay
    BY <1>2, <1>3, <1>4, RecordWritten
  <1>. QED
    BY <1>2, <1>3, <1>5

\* The run ends.
LEMMA EndingRests ==
  ASSUME RunInv, EndInv, NEW status \in Terminal, NEW caller \in Writers, Becomes(status, caller)
  PROVE  Serving' /\ StatusMirrors'
  <1>1. status \in Statuses
    BY DEF Statuses
  <1>2. UNCHANGED runs /\ StatusMirrors' /\ recs'[runs].status = status
    BY <1>1, BecomesWritten
  <1>3. ~First'
    BY <1>2 DEF First, Active, Terminal
  <1>. QED
    BY <1>2, <1>3, NotServing

LEMMA RelayRests ==
  ASSUME RunInv, EndInv, RestInv, RelayStep
  PROVE  Serving' /\ StatusMirrors' /\ box'.turns \in Nat
  <1>1. box.turns \in Nat /\ Serving /\ StatusMirrors /\ relay \in Relay
    BY BoxTypes DEF RestInv
  <1>2. ASSUME UNCHANGED <<row, adrift, recs, runs, writes, box, session, start, call, restored>>, relay.pc # "off",
               relay'.event = relay.event, relay'.pc \notin {"ending", "closing"},
               relay'.pc \in TakingPcs => relay.pc \in TakingPcs,
               relay.pc \in AheadPcs => relay'.pc \in AheadPcs
        PROVE  Serving' /\ StatusMirrors' /\ box'.turns \in Nat
    BY <1>1, <1>2, RelayMovesOn, StatusKept
  <1>3. CASE Connect
    <2>1. /\ UNCHANGED <<row, adrift, recs, runs, writes, box, session, start, call, restored>> /\ relay.pc = "connect"
          /\ relay' = [relay EXCEPT !.pc = "stream", !.replays = TRUE] \/ relay' = [relay EXCEPT !.pc = "lost"]
      BY <1>3 DEF Connect, store, memory, boxSide, handlers, marks
    <2>2. relay'.pc \in {"stream", "lost"} /\ relay'.event = relay.event
      BY <1>1, <2>1 DEF Relay
    <2>. QED
      BY <1>2, <2>1, <2>2 DEF TakingPcs, AheadPcs
  <1>4. ASSUME NEW pc, RelayTo(pc) PROVE relay'.pc = pc /\ relay'.event = relay.event
    BY <1>1, <1>4 DEF RelayTo, Relay
  <1>5. CASE StreamBreaks
    <2>1. /\ UNCHANGED <<row, adrift, recs, runs, writes, box, session, start, call, restored>> /\ relay.pc = "stream"
          /\ RelayTo("lost")
      BY <1>5 DEF StreamBreaks, store, memory, boxSide, handlers, marks
    <2>. QED
      BY <1>2, <1>4, <2>1 DEF TakingPcs, AheadPcs
  <1>6. CASE StreamLost
    <2>1. /\ UNCHANGED <<row, adrift, recs, runs, writes, box, session, start, call, restored>> /\ relay.pc = "lost"
          /\ \/ ~Live /\ RelayTo("closing")
             \/ \E pc \in {"failing", "connect"} : RelayTo(pc)
      BY <1>6 DEF StreamLost, runSettled, store, memory, boxSide, handlers, marks
    <2>2. CASE ~Live /\ RelayTo("closing")
      <3>1. ~First'
        BY <2>1, <2>2 DEF First, Live
      <3>. QED
        BY <1>1, <2>1, <3>1, NotServing, StatusKept
    <2>3. CASE \E pc \in {"failing", "connect"} : RelayTo(pc)
      <3>1. relay'.pc \in {"failing", "connect"} /\ relay'.event = relay.event
        BY <1>4, <2>3
      <3>. QED
        BY <1>2, <2>1, <3>1 DEF TakingPcs, AheadPcs
    <2>. QED
      BY <2>1, <2>2, <2>3
  <1>7. CASE SaveTurn
    <2>1. /\ UNCHANGED <<row, adrift, recs, runs, writes, box, session, start, call, restored>> /\ relay.pc = "save"
          /\ \E pc \in {"commit", "failing", "resave"} : RelayTo(pc)
      BY <1>7 DEF SaveTurn, memory, boxSide, handlers, marks
    <2>2. relay'.pc \in {"commit", "failing", "resave"} /\ relay'.event = relay.event
      BY <1>4, <2>1
    <2>. QED
      BY <1>2, <2>1, <2>2 DEF TakingPcs, AheadPcs
  <1>8. CASE RetryStep
    <2>1. /\ UNCHANGED <<row, adrift, recs, runs, writes, box, session, start, call, restored>>
          /\ relay.pc \in {"resave", "recommit"} /\ \E pc \in {"save", "commit", "failing"} : RelayTo(pc)
      BY <1>8 DEF RetryStep, store, memory, boxSide, handlers, marks
    <2>2. relay'.pc \in {"save", "commit", "failing"} /\ relay'.event = relay.event
      BY <1>4, <2>1
    <2>. QED
      BY <1>2, <2>1, <2>2 DEF TakingPcs, AheadPcs
  <1>9. CASE Ack
    <2>1. UNCHANGED <<row, adrift, recs, runs, writes>>
      BY <1>9 DEF Ack, store, memory
    <2>. QED
      BY <1>1, <1>9, <2>1, AckRests, StatusKept
  <1>10. CASE RelayFails
    <2>1. /\ UNCHANGED <<row, adrift, box, start>>
          /\ Becomes("failed", "relay") \/ (~Live /\ UNCHANGED memory)
      BY <1>10 DEF RelayFails, store, boxSide, handlers
    <2>2. CASE Becomes("failed", "relay")
      BY <1>1, <2>1, <2>2, EndingRests DEF Terminal, Writers
    <2>3. CASE ~Live /\ UNCHANGED memory
      <3>1. ~First' /\ UNCHANGED <<recs, runs, writes>>
        BY <2>3 DEF First, Live, memory
      <3>. QED
        BY <1>1, <2>1, <3>1, NotServing, StatusKept
    <2>. QED
      BY <2>1, <2>2, <2>3
  <1>11. CASE RelayCloses
    <2>1. /\ UNCHANGED <<row, adrift, recs, runs, writes, box, start>> /\ relay.pc = "closing"
      BY <1>11 DEF RelayCloses, store, memory, handlers
    <2>2. ~First' \/ start'.pc \notin {"ensuring", "ok"}
      BY <1>1, <2>1, RelayServesOne DEF Serving, AttachOk, First
    <2>. QED
      BY <1>1, <2>1, <2>2, NotServing, StatusKept
  <1>. QED
    BY <1>3, <1>5, <1>6, <1>7, <1>8, <1>9, <1>10, <1>11, FrameRests, CommitRests DEF RelayStep

----------------------------------------------------------------------------
(* The handlers.                                                            *)

\* A record made of an answer is not the first.
LEMMA AdoptedRests ==
  ASSUME RunInv, RestInv, start.pc # "new", NEW answer, NEW status, Register(answer, status)
  PROVE  Serving' /\ StatusMirrors'
  <1>1. recs # <<>> /\ recs \in Seq(Rec)
    BY EndTypes DEF RestInv, BirthOk
  <1>2. runs' = Len(recs) + 1 /\ Len(recs) \in Nat /\ Len(recs) # 0
    BY <1>1 DEF Register
  <1>3. runs' # 1
    BY <1>2
  <1>. QED
    BY <1>3, NotServing DEF First, StatusMirrors

\* Memory as it was.
LEMMA MemoryRests ==
  ASSUME RestInv, UNCHANGED <<row, adrift, recs, runs, writes>>
  PROVE  StatusMirrors' /\ (First' <=> First)
  BY StatusKept DEF RestInv, First

\* Of one call only, which was not at its POST or is there still.
LEMMA OneCallMoves ==
  ASSUME RunInv, NEW m \in Messages, NEW c, call' = [call EXCEPT ![m] = c],
         Posting(m) => c.pc \in {"publishing", "posting"}
  PROVE  call'[m] = c /\ \A k \in Messages : Posting(k) => Posting(k)'
  <1>1. call'[m] = c /\ \A k \in Messages : k # m => call'[k] = call[k]
    BY DEF RunInv, CallsOk
  <1>. QED
    BY <1>1 DEF Posting

LEMMA CallTaken ==
  ASSUME RunInv, NEW m \in Messages, call[m].pc # "new"
  PROVE  start.pc \notin {"new", "writing"} /\ call[m] \in Call
  BY DEF RunInv, StartOk, Unborn, CallsOk

\* The live run is served by its first session.
LEMMA CallServes ==
  ASSUME RunInv, RestInv, NEW m \in Messages, call[m].pc # "new", First, start.pc \in {"ensuring", "ok"}
  PROVE  FirstServes /\ session.pc = "live" /\ start.pc = "ok"
  BY DEF RestInv, Serving, SetupOk, AttachOk, FirstServes

LEMMA AskRests ==
  ASSUME RunInv, EndInv, RestInv, NEW m \in Messages, Ask(m)
  PROVE  Serving' /\ StatusMirrors' /\ UNCHANGED box
  <1>1. /\ UNCHANGED <<row, adrift, runs, writes, box, relay, start, restored>> /\ start.pc = "ok"
        /\ call[m].pc \in {"new", "failed"}
        /\ recs' = recs \/ recs' = Touched(recs)
        /\ UNCHANGED session \/ Ensure(FALSE)
        /\ \E c : call' = [call EXCEPT ![m] = c]
    BY DEF Ask, store, boxSide
  <1>2. runs = 1 => SameFirst
    BY <1>1, TouchKeepsFirst
  <1>3. StatusMirrors'
    BY <1>1, <1>2, StatusKept DEF RestInv, SameFirst
  <1>4. CASE First
    <2>1. Serving /\ session.pc = "live" /\ runs = 1 /\ box.turns \in Nat /\ recs[1].relay \in Nat
      BY <1>1, <1>4, FirstTypes DEF RestInv, Serving, AttachOk, FirstServes, First
    <2>2. UNCHANGED session
      BY <1>1, <2>1 DEF Ensure
    <2>3. \A k \in Messages : Posting(k) => Posting(k)'
      BY <1>1, OneCallMoves DEF Posting
    <2>4. SameEvents(box') /\ box'.pod = box.pod /\ box'.turns = box.turns
      BY <1>1 DEF SameEvents
    <2>. QED
      BY <1>1, <1>2, <1>3, <1>4, <2>1, <2>2, <2>3, <2>4, StillServes DEF SameFirst
  <1>5. CASE ~First
    BY <1>1, <1>2, <1>3, <1>5, NotServing DEF First, SameFirst
  <1>. QED
    BY <1>4, <1>5

LEMMA AdoptRests ==
  ASSUME RunInv, EndInv, RestInv, NEW m \in Messages, Adopt(m)
  PROVE  Serving' /\ StatusMirrors' /\ UNCHANGED box
  <1>1. /\ UNCHANGED <<row, adrift, box, relay, start, restored>> /\ call[m].pc = "adopting"
        /\ \/ CallTo(m, "failed") /\ UNCHANGED memory /\ UNCHANGED session
           \/ Register(call[m].seen, call[m].seen.status)
    BY DEF Adopt, store, boxSide, marks
  <1>2. CASE Register(call[m].seen, call[m].seen.status)
    BY <1>1, <1>2, CallTaken, AdoptedRests
  <1>3. CASE CallTo(m, "failed") /\ UNCHANGED memory /\ UNCHANGED session
    <2>1. UNCHANGED <<recs, runs, writes>> /\ \A k \in Messages : Posting(k) => Posting(k)'
      BY <1>1, <1>3, OneCallMoves DEF memory, CallTo, Posting
    <2>2. StatusMirrors' /\ (First' <=> First)
      BY <1>1, <2>1, MemoryRests
    <2>3. CASE First /\ start.pc \in {"ensuring", "ok"}
      <3>1. Serving /\ start.pc = "ok" /\ box.turns \in Nat
        BY <1>1, <2>3, CallServes DEF RestInv
      <3>2. recs[1].relay \in Nat /\ SameEvents(box') /\ box'.pod = box.pod /\ box'.turns = box.turns
        BY <1>1, <2>3, FirstTypes DEF SameEvents, First
      <3>. QED
        BY <1>1, <1>3, <2>1, <2>2, <2>3, <3>1, <3>2, StillServes
    <2>. QED
      BY <1>1, <2>2, <2>3, NotServing
  <1>. QED
    BY <1>1, <1>2, <1>3

LEMMA PublishRests ==
  ASSUME RunInv, EndInv, RestInv, NEW m \in Messages, Publish(m)
  PROVE  Serving' /\ StatusMirrors' /\ UNCHANGED box
  <1>1. /\ UNCHANGED <<row, adrift, box, session, relay, start, restored>> /\ call[m].pc = "ready"
        /\ call' = [call EXCEPT ![m].prev = recs[call[m].rec].status,
                                ![m].pc = IF Live THEN "publishing" ELSE "posting"]
        /\ IF Live THEN Becomes("running", m) ELSE UNCHANGED memory
    BY DEF Publish, store, boxSide, sessionSide, marks
  <1>2. Posting(m)' /\ \A k \in Messages : Posting(k) => Posting(k)'
    <2> DEFINE c == [call[m] EXCEPT !.prev = recs[call[m].rec].status,
                                    !.pc = IF Live THEN "publishing" ELSE "posting"]
    <2>1. call' = [call EXCEPT ![m] = c]
      BY <1>1
    <2>2. c.pc \in {"publishing", "posting"}
      BY <1>1, CallTaken DEF Call
    <2> HIDE DEF c
    <2>. QED
      BY <2>1, <2>2, OneCallMoves DEF Posting
  <1>3. CASE Live
    <2>1. "running" \in Statuses /\ m \in Writers
      BY DEF Statuses, Active, Writers
    <2>2. /\ UNCHANGED runs /\ StatusMirrors' /\ recs'[runs].relay = recs[runs].relay
          /\ recs'[runs].persisted = recs[runs].persisted
          /\ \A i \in 1..Len(writes') : writes'[i].relay = recs[runs].relay
                                       \/ \E j \in 1..Len(writes) : writes'[i].relay = writes[j].relay
      BY <1>1, <1>3, <2>1, BecomesWritten
    <2>5. CASE First /\ start.pc \in {"ensuring", "ok"}
      <3>1. Serving /\ start.pc = "ok" /\ box.turns \in Nat /\ runs = 1
        BY <1>1, <2>5, CallServes DEF RestInv, First
      <3>2. recs[1].relay \in Nat /\ SameEvents(box') /\ box'.pod = box.pod /\ box'.turns = box.turns
        BY <1>1, <3>1, FirstTypes DEF SameEvents
      <3>. QED
        BY <1>1, <1>2, <2>2, <2>5, <3>1, <3>2, StillServes
    <2>6. CASE ~(First /\ start.pc \in {"ensuring", "ok"})
      <3>1. ~First' \/ start'.pc \notin {"ensuring", "ok"}
        BY <1>1, <1>3, <2>2, <2>6 DEF First, Live
      <3>. QED
        BY <1>1, <2>2, <3>1, NotServing
    <2>. QED
      BY <1>1, <2>5, <2>6
  <1>4. CASE ~Live
    <2>1. UNCHANGED <<recs, runs, writes>>
      BY <1>1, <1>4 DEF memory
    <2>2. StatusMirrors' /\ ~First'
      BY <1>1, <1>4, <2>1, MemoryRests DEF First, Live
    <2>. QED
      BY <1>1, <2>2, NotServing
  <1>. QED
    BY <1>3, <1>4

LEMMA PostRests ==
  ASSUME RunInv, EndInv, RestInv, NEW m \in Messages, Post(m)
  PROVE  Serving' /\ StatusMirrors' /\ box'.turns \in Nat
  <1>1. /\ UNCHANGED <<row, adrift, session, relay, start>> /\ call[m].pc = "posting"
        /\ box' = box \/ box' = [box EXCEPT !.accepted = @ \cup {m}, !.turns = @ + 1]
    BY DEF Post, Accept, store, sessionSide
  <1>2. box.turns \in Nat /\ box \in Box /\ Serving
    BY BoxTypes DEF RestInv
  <1>3. /\ SameEvents(box') /\ box'.pod = box.pod /\ box'.turns \in Nat /\ box.turns <= box'.turns
    <2>1. CASE box' = box
      BY <1>2, <2>1 DEF SameEvents
    <2>2. CASE box' = [box EXCEPT !.accepted = @ \cup {m}, !.turns = @ + 1]
      <3>1. box'.turns = box.turns + 1
        BY <1>2, <2>2 DEF Box
      <3>. QED
        BY <1>2, <2>2, <3>1 DEF Box, SameEvents
    <2>. QED
      BY <1>1, <2>1, <2>2
  <1>4. CASE box' = [box EXCEPT !.accepted = @ \cup {m}, !.turns = @ + 1] /\ UNCHANGED <<memory, restored>>
    <2>1. box'.turns > 0 /\ UNCHANGED <<recs, runs, writes, restored>>
      BY <1>2, <1>4 DEF Box, memory
    <2>2. StatusMirrors' /\ (First' <=> First)
      BY <1>1, <2>1, MemoryRests
    <2>3. CASE First /\ start.pc \in {"ensuring", "ok"}
      <3>1. start.pc = "ok" /\ recs[1].relay \in Nat
        BY <1>1, <2>3, CallServes, FirstTypes DEF First
      <3>. QED
        BY <1>1, <1>2, <1>3, <2>1, <2>2, <2>3, <3>1, StillServes
    <2>. QED
      BY <1>1, <1>3, <2>2, <2>3, NotServing
  <1>5. CASE restored' /\ Live /\ Becomes(call[m].prev, m)
    <2>1. call[m].prev \in Statuses /\ m \in Writers
      BY <1>1 DEF RunInv, CallsOk, CallOk, Writers
    <2>2. /\ UNCHANGED runs /\ StatusMirrors' /\ recs'[runs].relay = recs[runs].relay
          /\ recs'[runs].persisted = recs[runs].persisted
          /\ \A i \in 1..Len(writes') : writes'[i].relay = recs[runs].relay
                                       \/ \E j \in 1..Len(writes) : writes'[i].relay = writes[j].relay
      BY <1>5, <2>1, BecomesWritten
    <2>3. CASE First /\ start.pc \in {"ensuring", "ok"}
      <3>1. start.pc = "ok" /\ runs = 1
        BY <1>1, <2>3, CallServes DEF First
      <3>. QED
        BY <1>1, <1>2, <1>3, <1>5, <2>2, <2>3, <3>1, RestoredServes
    <2>4. CASE ~(First /\ start.pc \in {"ensuring", "ok"})
      <3>1. ~First' \/ start'.pc \notin {"ensuring", "ok"}
        BY <1>1, <1>5, <2>2, <2>4 DEF First, Live
      <3>. QED
        BY <1>3, <2>2, <3>1, NotServing
    <2>. QED
      BY <1>3, <2>3, <2>4
  <1>6. CASE ~Live /\ UNCHANGED memory
    <2>1. StatusMirrors' /\ ~First'
      BY <1>1, <1>6, MemoryRests DEF First, Live, memory
    <2>. QED
      BY <1>3, <2>1, NotServing
  <1>7. \/ box' = [box EXCEPT !.accepted = @ \cup {m}, !.turns = @ + 1] /\ UNCHANGED <<memory, restored>>
        \/ restored' /\ Live /\ Becomes(call[m].prev, m)
        \/ ~Live /\ UNCHANGED memory
    BY DEF Post, PutBack, Accept
  <1>. QED
    BY <1>4, <1>5, <1>6, <1>7

LEMMA RememberRests ==
  ASSUME RunInv, EndInv, RestInv, NEW m \in Messages, Remember(m)
  PROVE  Serving' /\ StatusMirrors' /\ UNCHANGED box
  <1>1. /\ UNCHANGED <<row, adrift, runs, box, session, relay, start, restored>> /\ call[m].pc = "accepted"
        /\ \E c : call' = [call EXCEPT ![m] = c]
    BY DEF Remember, CallTo, store, boxSide, sessionSide, marks
  <1>2. \A k \in Messages : Posting(k) => Posting(k)'
    BY <1>1, OneCallMoves DEF Posting
  <1>3. CASE UNCHANGED <<recs, writes>>
    <2>1. StatusMirrors' /\ (First' <=> First)
      BY <1>1, <1>3, MemoryRests
    <2>2. CASE First /\ start.pc \in {"ensuring", "ok"}
      <3>1. Serving /\ start.pc = "ok" /\ box.turns \in Nat
        BY <1>1, <2>2, CallServes DEF RestInv
      <3>2. recs[1].relay \in Nat /\ SameEvents(box') /\ box'.pod = box.pod /\ box'.turns = box.turns
        BY <1>1, <2>2, FirstTypes DEF SameEvents, First
      <3>. QED
        BY <1>1, <1>2, <1>3, <2>1, <2>2, <3>1, <3>2, StillServes
    <2>. QED
      BY <1>1, <2>1, <2>2, NotServing
  <1>4. CASE /\ runs # 0 /\ recs' = [recs EXCEPT ![runs].msgs = @ \cup {m}]
             /\ writes' = Persist(writes, runs, recs'[runs], m)
    <2>1. PICK r : r = [recs[runs] EXCEPT !.msgs = @ \cup {m}]
      OBVIOUS
    <2>2. /\ runs \in 1..Len(recs) /\ recs[runs] \in Rec /\ runs' = runs /\ recs' = [recs EXCEPT ![runs] = r]
          /\ writes' = Persist(writes, runs, recs'[runs], m) /\ m \in Writers
      BY <1>1, <1>4, <2>1, EndTypes DEF Writers
    <2>3. /\ r \in Rec /\ r.status = recs[runs].status /\ r.relay = recs[runs].relay
          /\ r.persisted = recs[runs].persisted
      BY <2>1, <2>2 DEF Rec
    <2>4. /\ StatusMirrors' /\ recs'[runs] = r
          /\ \A i \in 1..Len(writes') : writes'[i].relay = r.relay
                                       \/ \E j \in 1..Len(writes) : writes'[i].relay = writes[j].relay
      BY <2>2, <2>3, RecordWritten
    <2>5. CASE First /\ start.pc \in {"ensuring", "ok"}
      <3>1. Serving /\ start.pc = "ok" /\ box.turns \in Nat /\ runs = 1
        BY <1>1, <2>5, CallServes DEF RestInv, First
      <3>2. recs[1].relay \in Nat /\ SameEvents(box') /\ box'.pod = box.pod /\ box'.turns = box.turns
        BY <1>1, <3>1, FirstTypes DEF SameEvents
      <3>. QED
        BY <1>1, <1>2, <2>3, <2>4, <2>5, <3>1, <3>2, StillServes
    <2>6. CASE ~(First /\ start.pc \in {"ensuring", "ok"})
      <3>1. ~First' \/ start'.pc \notin {"ensuring", "ok"}
        BY <1>1, <2>2, <2>3, <2>4, <2>6 DEF First
      <3>. QED
        BY <1>1, <2>4, <3>1, NotServing
    <2>. QED
      BY <1>1, <2>5, <2>6
  <1>. QED
    BY <1>3, <1>4 DEF Remember

LEMMA StartRests ==
  ASSUME RunInv, EndInv, RestInv, Start \/ StartBroken
  PROVE  Serving' /\ StatusMirrors' /\ UNCHANGED box
  <1>1. CASE Start
    <2>1. runs' = 0 /\ UNCHANGED box
      BY <1>1 DEF Start, RunInv, StartOk, Unborn, boxSide
    <2>. QED
      BY <2>1, NotServing DEF First, StatusMirrors
  <1>2. CASE StartBroken
    <2>1. /\ UNCHANGED <<row, adrift, box>>
          /\ Becomes("failed", "start") \/ (~Live /\ UNCHANGED memory)
      BY <1>2 DEF StartBroken, store, boxSide
    <2>2. CASE Becomes("failed", "start")
      BY <2>1, <2>2, EndingRests DEF Terminal, Writers
    <2>3. CASE ~Live /\ UNCHANGED memory
      BY <2>1, <2>3, MemoryRests, NotServing DEF First, Live, memory
    <2>. QED
      BY <2>1, <2>2, <2>3
  <1>. QED
    BY <1>1, <1>2

\* A box that is stopped, or is not.
LEMMA StopRests ==
  ASSUME RunInv, EndInv, RestInv, box' = NoBox \/ box' = box,
         UNCHANGED <<row, adrift, recs, runs, writes, session, relay, start, call, restored>>
  PROVE  Serving' /\ StatusMirrors' /\ box'.turns \in Nat
  <1>1. Serving /\ StatusMirrors' /\ (First' <=> First)
    BY MemoryRests DEF RestInv
  <1>2. box'.turns \in Nat
    BY DEF RestInv, NoBox
  <1>3. Serving'
    BY <1>1, NothingMoves, BoxIsGone, NotServing
  <1>. QED
    BY <1>1, <1>2, <1>3

LEMMA CancelRests ==
  ASSUME RunInv, EndInv, RestInv, Cancel \/ CancelAdopts \/ CancelStops
  PROVE  Serving' /\ StatusMirrors' /\ box'.turns \in Nat
  <1>1. box.turns \in Nat /\ UNCHANGED <<row, adrift>>
    BY DEF RestInv, Cancel, CancelAdopts, CancelStops, store
  <1>2. CASE Cancel
    <2>1. /\ UNCHANGED box
          /\ Becomes("done", "cancel") \/ (~Live /\ UNCHANGED memory)
      BY <1>2 DEF Cancel, CancelEnds, Live, boxSide
    <2>2. CASE Becomes("done", "cancel")
      BY <1>1, <2>1, <2>2, EndingRests DEF Terminal, Writers
    <2>3. CASE ~Live /\ UNCHANGED memory
      BY <1>1, <2>1, <2>3, MemoryRests, NotServing DEF First, Live, memory
    <2>. QED
      BY <2>1, <2>2, <2>3
  <1>3. CASE CancelAdopts
    <2>1. /\ UNCHANGED <<box, session, relay, start, call, restored>> /\ start.pc # "new"
          /\ Register(cancel.seen, "done") \/ UNCHANGED <<recs, runs, writes>>
      BY <1>3 DEF CancelAdopts, boxSide, sessionSide, marks, memory, RunInv, StartOk, Unborn
    <2>2. CASE Register(cancel.seen, "done")
      BY <1>1, <2>1, <2>2, AdoptedRests
    <2>3. CASE UNCHANGED <<recs, runs, writes>>
      BY <1>1, <2>1, <2>3, StopRests
    <2>. QED
      BY <2>1, <2>2, <2>3
  <1>4. CASE CancelStops
    <2>1. /\ box' = NoBox \/ box' = box
          /\ UNCHANGED <<recs, runs, writes, session, relay, start, call, restored>>
      BY <1>4 DEF CancelStops, memory, sessionSide, marks
    <2>. QED
      BY <1>1, <2>1, StopRests
  <1>. QED
    BY <1>2, <1>3, <1>4

LEMMA HandlerRests ==
  ASSUME RunInv, EndInv, RestInv, HandlerStep
  PROVE  Serving' /\ StatusMirrors' /\ box'.turns \in Nat
  <1>1. box.turns \in Nat
    BY DEF RestInv
  <1>2. CASE Start \/ StartBroken
    BY <1>1, <1>2, StartRests
  <1>3. CASE Cancel \/ CancelAdopts \/ CancelStops
    BY <1>3, CancelRests
  <1>4. ASSUME NEW m \in Messages, Ask(m) \/ Adopt(m) \/ Publish(m) \/ Post(m) \/ Remember(m)
        PROVE  Serving' /\ StatusMirrors' /\ box'.turns \in Nat
    BY <1>1, <1>4, AskRests, AdoptRests, PublishRests, PostRests, RememberRests
  <1>. QED
    BY <1>2, <1>3, <1>4 DEF HandlerStep

----------------------------------------------------------------------------
(* The watchdog.                                                            *)

LEMMA WatchdogRests ==
  ASSUME RunInv, EndInv, RestInv, DogStep
  PROVE  Serving' /\ StatusMirrors' /\ box'.turns \in Nat
  <1>1. /\ box.turns \in Nat /\ Serving
        /\ UNCHANGED <<row, adrift, session, relay, start, call, restored>>
    BY DEF RestInv, DogStep, TimePasses, DogFlushes, DogLists, DogRecovers, DogChecks, DogStops, DogReaps,
           store, sessionSide, handlers, marks
  <1>2. CASE TimePasses
    <2>1. /\ UNCHANGED <<runs, writes, box>> /\ Live /\ recs' = [recs EXCEPT ![runs].silent = TRUE]
      BY <1>2 DEF TimePasses, boxSide
    <2>2. runs = 1 => SameFirst
      BY <2>1, TouchKeepsFirst
    <2>3. StatusMirrors' /\ (First' <=> First)
      BY <1>1, <2>1, <2>2, StatusKept DEF RestInv, SameFirst, First
    <2>4. CASE First
      <3>1. SameFirst /\ recs[1].relay \in Nat
        BY <2>2, <2>4, FirstTypes DEF First
      <3>2. SameEvents(box') /\ box'.pod = box.pod /\ box'.turns = box.turns
        BY <2>1 DEF SameEvents
      <3>3. \A m \in Messages : Posting(m) <=> Posting(m)'
        BY <1>1 DEF Posting
      <3>. QED
        BY <1>1, <2>1, <2>3, <2>4, <3>1, <3>2, <3>3, StillServes DEF SameFirst
    <2>. QED
      BY <1>1, <2>1, <2>3, <2>4, NotServing
  <1>3. CASE DogFlushes
    <2>1. /\ runs # 0 /\ ~Live /\ UNCHANGED <<recs, runs, box>>
          /\ writes' = Persist(writes, runs, recs[runs], "dog")
      BY <1>3 DEF DogFlushes, boxSide
    <2>2. PICK r : r = recs[runs]
      OBVIOUS
    <2>3. runs \in 1..Len(recs) /\ r \in Rec /\ recs' = [recs EXCEPT ![runs] = r] /\ "dog" \in Writers
      BY <2>1, <2>2, EndTypes DEF Writers
    <2>4. StatusMirrors'
      BY <2>1, <2>2, <2>3, RecordWritten
    <2>5. ~First'
      BY <2>1 DEF First, Live
    <2>. QED
      BY <1>1, <2>1, <2>4, <2>5, NotServing
  <1>4. CASE DogLists \/ DogStops
    <2>1. UNCHANGED <<recs, runs, writes>> /\ (box' = NoBox \/ box' = box)
      BY <1>4 DEF DogLists, DogStops, memory, boxSide
    <2>. QED
      BY <1>1, <2>1, StopRests
  <1>5. CASE DogRecovers
    <2>1. /\ UNCHANGED box
          /\ \/ dog.seen.status \in Active /\ Register(dog.seen, dog.seen.status)
             \/ UNCHANGED <<recs, runs, writes>>
      BY <1>5 DEF DogRecovers, memory, boxSide
    <2>2. CASE dog.seen.status \in Active /\ Register(dog.seen, dog.seen.status)
      <3>1. start.pc # "new"
        BY <2>2 DEF RunInv, StartOk, Unborn, Active
      <3>. QED
        BY <1>1, <2>1, <2>2, <3>1, AdoptedRests
    <2>3. CASE UNCHANGED <<recs, runs, writes>>
      BY <1>1, <2>1, <2>3, StopRests
    <2>. QED
      BY <2>1, <2>2, <2>3
  <1>6. CASE DogChecks
    <2>1. UNCHANGED <<recs, writes, box>> /\ runs' \in {0, runs}
      BY <1>6 DEF DogChecks, boxSide
    <2>2. CASE runs' = runs
      BY <1>1, <2>1, <2>2, StopRests
    <2>3. CASE runs' = 0
      BY <1>1, <2>1, <2>3, NotServing DEF First, StatusMirrors
    <2>. QED
      BY <2>1, <2>2, <2>3
  <1>7. CASE DogReaps
    <2>1. /\ UNCHANGED box /\ dog.outcome \in Terminal
          /\ Becomes(dog.outcome, "dog") \/ (~Live /\ UNCHANGED memory)
      BY <1>7 DEF DogReaps, boxSide, RunInv, DogOk
    <2>2. CASE Becomes(dog.outcome, "dog")
      BY <1>1, <2>1, <2>2, EndingRests DEF Writers
    <2>3. CASE ~Live /\ UNCHANGED memory
      BY <1>1, <2>1, <2>3, MemoryRests, NotServing DEF First, Live, memory
    <2>. QED
      BY <2>1, <2>2, <2>3
  <1>. QED
    BY <1>2, <1>3, <1>4, <1>5, <1>6, <1>7 DEF DogStep

----------------------------------------------------------------------------
(* The end of a write.                                                      *)

\* The oldest write ends, for its caller too.
LEMMA ChainServes ==
  ASSUME RunInv, StoreStep, NEW w, w = writes[1]
  PROVE  /\ writes # <<>>
         /\ \E written \in BOOLEAN : Written(w, written) /\ IF written THEN row' = RowOf(w) ELSE adrift'
  <1>1. writes # <<>>
    BY DEF StoreStep, WriteLands, WriteFails
  <1>2. w = Head(writes)
    BY <1>1, EndTypes
  <1>. QED
    BY <1>1, <1>2 DEF StoreStep, WriteLands, WriteFails, NextWrite

\* What the end of the oldest write makes of the row, the chain and its record.
LEMMA StoreTakes ==
  ASSUME RunInv, EndInv, StoreStep, NEW w, w = writes[1]
  PROVE  /\ writes # <<>> /\ (writes' = Tail(writes) \/ writes' = RemoveAt(writes, 1))
         /\ UNCHANGED <<box, restored, saved, acked, emitted, delivered, deferrals, outdated>>
         /\ \E written \in BOOLEAN : Written(w, written) /\ IF written THEN row' = RowOf(w) ELSE adrift'
         /\ \E r \in Rec :
              /\ recs' = recs \/ recs' = [recs EXCEPT ![w.rec] = r]
              /\ r.status = recs[w.rec].status /\ r.relay = recs[w.rec].relay
              /\ r.persisted \in {recs[w.rec].persisted, w.relay}
  <1>1. writes # <<>>
    BY DEF StoreStep, WriteLands, WriteFails
  <1>2. w \in Write /\ w.rec \in 1..Len(recs) /\ recs[w.rec] \in Rec /\ w = Head(writes)
    BY <1>1, OldestWrite, EndTypes
  <1>3. UNCHANGED <<box, restored, saved, acked, emitted, delivered, deferrals, outdated>>
    BY DEF StoreStep, WriteLands, WriteFails, boxSide, marks
  <1>4. CASE WriteLands
    <2>1. /\ row' = RowOf(w) /\ recs' = [recs EXCEPT ![w.rec].persisted = w.relay]
          /\ Written(w, TRUE) /\ writes' = RemoveAt(writes, 1)
      BY <1>4 DEF WriteLands, NextWrite
    <2>2. PICK r : r = [recs[w.rec] EXCEPT !.persisted = w.relay]
      OBVIOUS
    <2>3. /\ r \in Rec /\ r.status = recs[w.rec].status /\ r.relay = recs[w.rec].relay
          /\ r.persisted = w.relay /\ recs' = [recs EXCEPT ![w.rec] = r]
      BY <1>2, <2>1, <2>2 DEF Rec, Write
    <2>. QED
      BY <1>1, <1>3, <2>1, <2>3
  <1>5. CASE WriteFails
    <2>1. /\ adrift' = TRUE /\ Written(w, FALSE) /\ writes' = Tail(writes)
          /\ recs' = recs \/ (/\ w.by \in Messages
                              /\ recs' = [recs EXCEPT ![w.rec].msgs = call[w.by].before])
      BY <1>2, <1>5 DEF WriteFails
    <2>2. PICK r \in Rec : /\ recs' = recs \/ recs' = [recs EXCEPT ![w.rec] = r]
                           /\ r.status = recs[w.rec].status /\ r.relay = recs[w.rec].relay
                           /\ r.persisted = recs[w.rec].persisted
      <3>1. CASE recs' = recs
        BY <1>2, <3>1
      <3>2. CASE w.by \in Messages /\ recs' = [recs EXCEPT ![w.rec].msgs = call[w.by].before]
        <4>1. call[w.by].before \in SUBSET Messages
          BY <3>2 DEF RunInv, CallsOk, Call
        <4>2. PICK r : r = [recs[w.rec] EXCEPT !.msgs = call[w.by].before]
          OBVIOUS
        <4>3. /\ r \in Rec /\ r.status = recs[w.rec].status /\ r.relay = recs[w.rec].relay
              /\ r.persisted = recs[w.rec].persisted
          BY <1>2, <4>1, <4>2 DEF Rec
        <4>4. recs' = [recs EXCEPT ![w.rec] = r]
          BY <3>2, <4>2
        <4>. QED
          BY <4>3, <4>4
      <3>. QED
        BY <2>1, <3>1, <3>2
    <2>. QED
      BY <1>1, <1>3, <2>1, <2>2
  <1>. QED
    BY <1>4, <1>5 DEF StoreStep

LEMMA LastOne ==
  ASSUME NEW S, NEW s \in Seq(S), Len(s) = 1, NEW t, t = Tail(s) \/ t = RemoveAt(s, 1)
  PROVE  t = <<>>
  <1>1. s # <<>>
    OBVIOUS
  <1>2. t \in Seq(S) /\ Len(t) = 0
    BY <1>1, SeqPop
  <1>. QED
    BY <1>2

\* The row follows.
LEMMA StoreMirrors ==
  ASSUME RunInv, EndInv, RestInv, StoreStep, NEW w, w = writes[1]
  PROVE  /\ StatusMirrors' /\ (runs = 1 => recs'[1].status = recs[1].status /\ recs'[1].relay = recs[1].relay
                                           /\ recs'[1].persisted \in {recs[1].persisted, w.relay})
         /\ runs' \in {0, runs} \/ (w.by = "start" /\ start.pc = "writing")
  <1>1. /\ writes # <<>> /\ w.rec \in 1..Len(recs) /\ recs \in Seq(Rec) /\ recs[w.rec] \in Rec
        /\ writes \in Seq(Write) /\ Len(writes) \in Nat
    BY StoreTakes, OldestWrite, EndTypes
  <1>2. PICK written \in BOOLEAN : Written(w, written) /\ IF written THEN row' = RowOf(w) ELSE adrift'
    BY StoreTakes
  <1>3. PICK r \in Rec : /\ recs' = recs \/ recs' = [recs EXCEPT ![w.rec] = r]
                         /\ r.status = recs[w.rec].status /\ r.relay = recs[w.rec].relay
                         /\ r.persisted \in {recs[w.rec].persisted, w.relay}
    BY StoreTakes
  <1>4. \/ runs' \in {0, runs}
        \/ w.by = "start" /\ start.pc = "writing" /\ written /\ runs' = w.rec
    BY <1>1, <1>2, StoreTakes, WrittenSide
  <1>5. /\ recs'[w.rec].status = recs[w.rec].status /\ recs'[w.rec].relay = recs[w.rec].relay
        /\ recs'[w.rec].persisted \in {recs[w.rec].persisted, w.relay}
    BY <1>1, <1>3
  <1>6. /\ writes' # <<>> => Len(writes') = Len(writes) - 1 /\ writes'[Len(writes')] = writes[Len(writes)]
        /\ writes' = <<>> => writes[Len(writes)] = w
    BY <1>1, StoreTakes, SeqPop
  <1>7. RowOf(w).status = w.status
    BY DEF RowOf
  <1>8. ASSUME runs = 1 PROVE w.rec = 1
    BY <1>1, <1>8, FirstTypes
  <1>9. Len(writes) = 1 => writes' = <<>>
    BY <1>1, StoreTakes, LastOne
  <1>10. StatusMirrors'
    <2>1. CASE runs' = 1 /\ runs = 1
      BY <1>2, <1>5, <1>6, <1>7, <1>8, <2>1, <1>1 DEF RestInv, StatusMirrors
    <2>2. CASE runs' = 1 /\ runs # 1
      <3>1. start.pc = "writing" /\ w.rec = 1 /\ written
        BY <1>4, <2>2
      <3>2. Len(writes) = 1 /\ w.status = recs[1].status
        BY <3>1 DEF RunInv, StartOk, Mirrors
      <3>3. writes' = <<>>
        BY <1>1, <1>9, <3>2
      <3>. QED
        BY <1>2, <1>5, <1>7, <3>1, <3>2, <3>3 DEF StatusMirrors
    <2>. QED
      BY <2>1, <2>2 DEF StatusMirrors
  <1>. QED
    BY <1>4, <1>5, <1>8, <1>10

\* The run has been stored: its setup begins.
LEMMA StartWritten ==
  ASSUME RunInv, RestInv, StoreStep, NEW w, w = writes[1], writes # <<>>,
         WrittenForStart(w, TRUE), start.pc = "writing", UNCHANGED <<box, call>>, NEW r \in Rec,
         recs' = recs \/ recs' = [recs EXCEPT ![w.rec] = r],
         r.status = recs[w.rec].status, r.relay = recs[w.rec].relay,
         r.persisted \in {recs[w.rec].persisted, w.relay},
         writes' = Tail(writes) \/ writes' = RemoveAt(writes, 1)
  PROVE  Serving'
  <1>1. /\ box = NoBox /\ session = NoSession /\ Len(recs) = 1 /\ recs[1].relay = 0 /\ recs[1].persisted = 0
        /\ recs[1].status = "running" => start.opening
    BY DEF RestInv, BirthOk
  <1>2. w.rec \in 1..Len(recs) /\ recs \in Seq(Rec) /\ writes \in Seq(Write)
    BY OldestWrite, EndTypes
  <1>3. w.rec = 1
    BY <1>1, <1>2
  <1>4. Len(writes) = 1 /\ w.relay = 0 /\ \A m \in Messages : call[m].pc = "new"
    BY <1>1, <1>3 DEF RunInv, StartOk, Mirrors, Unborn
  <1>5. writes' = <<>>
    BY <1>2, <1>4, LastOne, ZenonT(60)
  <1>6. recs'[1].status = recs[1].status /\ recs'[1].relay = 0 /\ recs'[1].persisted = 0
    BY <1>1, <1>2, <1>3, <1>4
  <1>7. session' = [pc |-> "acquire", created |-> FALSE, opening |-> start.opening] /\ start'.pc = "ensuring"
    BY <1>1 DEF WrittenForStart, Ensure, NoSession
  <1>8. SetupOk'
    BY <1>1, <1>4, <1>5, <1>6, <1>7 DEF SetupOk
  <1>. QED
    BY <1>7, <1>8 DEF Serving, AttachOk, EventsInOrder, RunningIsBusy, FirstServes

\* The caller of the write goes on.
LEMMA WriteServes ==
  ASSUME RunInv, EndInv, Serving, FirstServes, writes # <<>>, UNCHANGED <<box, session, start, restored>>,
         recs'[1].status = recs[1].status, recs'[1].relay = recs[1].relay,
         recs'[1].persisted \in {recs[1].persisted} \cup {writes[i].relay : i \in 1..Len(writes)},
         \A i \in 1..Len(writes') : \E j \in 1..Len(writes) : writes'[i] = writes[j],
         \/ UNCHANGED relay
         \/ relay.pc = "committing" /\ relay'.pc \in {"ack", "failing", "recommit"} /\ relay'.event = relay.event,
         \A m \in Messages : Posting(m) => Posting(m)'
  PROVE  Serving'
  <1>1. recs[1].relay \in Nat /\ recs[1].persisted \in Nat /\ \A i \in 1..Len(writes) : writes[i].relay \in Nat
    BY FirstTypes DEF FirstServes, First
  <1>2. NumbersOk'
    BY <1>1 DEF Serving, EventsInOrder, NumbersOk
  <1>3. EventsInOrder'
    BY <1>2 DEF Serving, EventsInOrder, FirstServes, InOrder, Behind, Follows, TakingPcs, AheadPcs
  <1>4. SetupOk' /\ AttachOk'
    BY DEF Serving, SetupOk, AttachOk, FirstServes
  <1>5. RunningIsBusy'
    BY DEF Serving, RunningIsBusy, FirstServes, Coming
  <1>. QED
    BY <1>3, <1>4, <1>5 DEF Serving

LEMMA StoreRests ==
  ASSUME RunInv, EndInv, RestInv, StoreStep
  PROVE  Serving' /\ StatusMirrors' /\ box'.turns \in Nat
  <1>1. PICK w : w = writes[1]
    OBVIOUS
  <1>2. /\ writes # <<>> /\ (writes' = Tail(writes) \/ writes' = RemoveAt(writes, 1))
        /\ UNCHANGED <<box, restored>> /\ Serving /\ box.turns \in Nat
    BY <1>1, StoreTakes DEF RestInv
  <1>3. PICK written \in BOOLEAN : Written(w, written)
    BY <1>1, StoreTakes
  <1>4. /\ StatusMirrors' /\ (runs = 1 => recs'[1].status = recs[1].status /\ recs'[1].relay = recs[1].relay
                                          /\ recs'[1].persisted \in {recs[1].persisted, w.relay})
        /\ runs' \in {0, runs} \/ (w.by = "start" /\ start.pc = "writing")
    BY <1>1, StoreMirrors
  <1>5. PICK r \in Rec : /\ recs' = recs \/ recs' = [recs EXCEPT ![w.rec] = r]
                         /\ r.status = recs[w.rec].status /\ r.relay = recs[w.rec].relay
                         /\ r.persisted \in {recs[w.rec].persisted, w.relay}
    BY <1>1, StoreTakes
  <1>. SUFFICES Serving'
    BY <1>2, <1>4
  <1>6. CASE w.by = "start" /\ WrittenForStart(w, written)
    <2>1. CASE start.pc = "writing" /\ written
      <3>1. UNCHANGED <<box, call>>
        BY <1>2, <1>6 DEF WrittenForStart
      <3>2. written = TRUE
        BY <2>1
      <3>3. WrittenForStart(w, TRUE)
        BY <1>6, <3>2
      <3>. QED
        BY <1>1, <1>2, <1>5, <2>1, <3>1, <3>3, StartWritten
    <2>2. CASE ~(start.pc = "writing" /\ written)
      <3>1. start \in Starting
        BY DEF RunInv, StartOk
      <3>2. start' = [pc |-> "failed", opening |-> FALSE] \/ start' = [start EXCEPT !.pc = "failed"]
        BY <1>6, <2>2 DEF WrittenForStart
      <3>3. start'.pc = "failed"
        BY <3>1, <3>2 DEF Starting
      <3>. QED
        BY <3>3, NotServing
    <2>. QED
      BY <2>1, <2>2
  <1>7. ASSUME UNCHANGED <<start, session>>, w.by # "start",
               \/ UNCHANGED relay
               \/ relay.pc = "ending"
               \/ relay.pc = "committing" /\ relay'.pc \in {"ack", "failing", "recommit"} /\ relay'.event = relay.event,
               \A m \in Messages : Posting(m) => Posting(m)'
        PROVE  Serving'
    <2>1. First' => First
      BY <1>4, <1>7 DEF First
    <2>2. CASE First /\ start.pc \in {"ensuring", "ok"}
      <3>1. FirstServes /\ relay.pc # "ending" /\ w.rec = 1 /\ runs = 1
        <4>1. start.pc = "ok"
          BY <1>2, <2>2 DEF Serving, SetupOk
        <4>2. w.rec = 1
          BY <1>1, <1>2, <2>2, FirstTypes, OldestWrite DEF First
        <4>. QED
          BY <1>2, <2>2, <4>1, <4>2 DEF Serving, AttachOk, FirstServes, First
      <3>2. 1 \in 1..Len(writes) /\ \A i \in 1..Len(writes') : \E j \in 1..Len(writes) : writes'[i] = writes[j]
        <4>1. /\ \A i \in 1..Len(writes') : i + 1 \in 2..Len(writes) /\ writes'[i] = writes[i + 1]
              /\ Len(writes) \in Nat /\ 1 \in 1..Len(writes)
          BY <1>2, EndTypes, SeqPop
        <4>. QED
          BY <4>1
      <3>3. recs'[1].persisted \in {recs[1].persisted} \cup {writes[i].relay : i \in 1..Len(writes)}
        BY <1>1, <1>4, <3>1, <3>2
      <3>. QED
        BY <1>2, <1>4, <1>7, <3>1, <3>2, <3>3, WriteServes
    <2>. QED
      BY <1>7, <2>1, <2>2, NotServing
  <1>8. w.by \in Messages => w.by \notin {"start", "relay", "cancel", "dog"} /\ call[w.by].pc \in WaitPcs
    BY <1>1, <1>2, OldestWrite
  <1>9. CASE w.by = "relay" /\ WrittenForRelay(w, written)
    <2>1. /\ UNCHANGED <<start, session, call>> /\ relay.pc \in {"committing", "ending"} /\ relay \in Relay
          /\ \/ relay.pc = "ending"
             \/ relay.pc = "committing" /\ \E pc \in {"ack", "failing", "recommit"} : RelayTo(pc)
      BY <1>1, <1>2, <1>9, OldestWrite, BoxTypes DEF WrittenForRelay
    <2>2. \/ relay.pc = "ending"
          \/ relay.pc = "committing" /\ relay'.pc \in {"ack", "failing", "recommit"} /\ relay'.event = relay.event
      BY <2>1 DEF RelayTo, Relay
    <2>3. \A m \in Messages : Posting(m) => Posting(m)'
      BY <2>1 DEF Posting
    <2>. QED
      BY <1>7, <1>9, <2>1, <2>2, <2>3
  <1>10. CASE w.by \in Messages /\ WrittenForCall(w, written)
    <2>1. PICK m \in Messages : m = w.by
      BY <1>10
    <2>2. PICK pc \in {"posting", "failed", "accepted", "ok"} :
            CallTo(m, pc) /\ (call[m].pc = "publishing" => pc = "posting")
      BY <1>8, <1>10, <2>1 DEF WrittenForCall, WaitPcs
    <2>3. PICK c : c = At(call[m], pc)
      OBVIOUS
    <2>4. call' = [call EXCEPT ![m] = c] /\ call[m].pc \in WaitPcs /\ call[m] \in Call
      BY <1>8, <2>1, <2>2, <2>3 DEF CallTo, RunInv, CallsOk
    <2>5. Posting(m) => c.pc \in {"publishing", "posting"}
      BY <2>2, <2>3, <2>4 DEF Posting, WaitPcs, At, Call
    <2>6. \A k \in Messages : Posting(k) => Posting(k)'
      BY <2>4, <2>5, OneCallMoves
    <2>7. UNCHANGED <<start, session, relay>>
      BY <1>10 DEF WrittenForCall
    <2>. QED
      BY <1>7, <1>8, <1>10, <2>6, <2>7
  <1>11. CASE w.by \in {"cancel", "dog"} /\ UNCHANGED <<start, session, relay, call>>
    <2>1. \A m \in Messages : Posting(m) => Posting(m)'
      BY <1>11 DEF Posting
    <2>. QED
      BY <1>7, <1>11, <2>1
  <1>. QED
    BY <1>3, <1>6, <1>9, <1>10, <1>11 DEF Written, WrittenForCancel, WrittenForDog

\* A restart forgets the record.
LEMMA CrashRests ==
  ASSUME RestInv, RuntimeCrashes
  PROVE  Serving' /\ StatusMirrors' /\ box'.turns \in Nat
  <1>1. runs' = 0 /\ UNCHANGED box
    BY DEF RuntimeCrashes
  <1>. QED
    BY <1>1, NotServing DEF First, StatusMirrors, RestInv

LEMMA EndInvInit ==
  ASSUME CapabilityInit
  PROVE  EndInv
  BY DEF CapabilityInit, EndInv, NewestOk, ChainOk, EndsStick, DoneOk, NoRow

----------------------------------------------------------------------------
(* The run is born once.                                                    *)

\* Nobody begins a run that was begun.
LEMMA StartStays ==
  ASSUME RunInv, CapabilityNext, start.pc \notin {"new", "writing"}
  PROVE  start'.pc \notin {"new", "writing"}
  <1>1. start \in Starting
    BY DEF RunInv, StartOk
  <1>2. ASSUME NEW pc \in {"ok", "broken", "ending", "failed"}, start' = [start EXCEPT !.pc = pc]
        PROVE  start'.pc \notin {"new", "writing"}
    BY <1>1, <1>2 DEF Starting
  <1>3. CASE BoxStep \/ RelayStep \/ DogStep
    <2>1. UNCHANGED start
      BY <1>3, Zenon
      DEF BoxStep, TurnEnds, SessionEnds, StopLands, RelayStep, Connect, StreamBreaks, StreamLost, Frame,
          SaveTurn, RetryStep, Commit, Ack, RelayFails, RelayCloses, DogStep, TimePasses, DogFlushes,
          DogLists, DogRecovers, DogChecks, DogStops, DogReaps, handlers
    <2>. QED
      BY <2>1
  <1>4. CASE SessionStep
    <2>1. \/ UNCHANGED start
          \/ \E pc \in {"ok", "broken"} : start' = [start EXCEPT !.pc = pc]
      BY <1>4, Zenon DEF SessionStep, AcquireBox, OpenSession, SetupFails, Reattach, SetupOver, handlers
    <2>. QED
      BY <1>2, <2>1
  <1>5. CASE HandlerStep
    <2>1. \/ UNCHANGED start
          \/ \E pc \in {"ending", "failed"} : start' = [start EXCEPT !.pc = pc]
      BY <1>5, Zenon DEF HandlerStep, Start, StartBroken, Ask, Adopt, Publish, Post, Remember, Cancel, CancelAdopts,
                  CancelStops
    <2>. QED
      BY <1>2, <2>1, Zenon
  <1>6. CASE StoreStep
    <2>1. PICK w, written : writes # <<>> /\ w = writes[1] /\ Written(w, written)
      <3>1. PICK w : w = writes[1]
        OBVIOUS
      <3>2. writes # <<>> /\ \E written \in BOOLEAN : Written(w, written)
        BY <1>6, <3>1, ChainServes
      <3>. QED
        BY <3>1, <3>2
    <2>2. \/ UNCHANGED start
          \/ \E pc \in {"failed"} : start' = [start EXCEPT !.pc = pc]
      BY <2>1 DEF Written, WrittenForStart, WrittenForRelay, WrittenForCall, WrittenForCancel, WrittenForDog
    <2>. QED
      BY <1>2, <2>2
  <1>7. CASE RuntimeCrashes
    <2>1. UNCHANGED start \/ \E pc \in {"failed"} : start' = [start EXCEPT !.pc = pc]
      BY <1>7 DEF RuntimeCrashes
    <2>. QED
      BY <1>2, <2>1
  <1>. QED
    BY <1>3, <1>4, <1>5, <1>6, <1>7 DEF CapabilityNext

\* No record is ever taken out of the list.
LEMMA RecsStay ==
  ASSUME RunInv, CapabilityNext, recs # <<>>
  PROVE  recs' # <<>>
  <1>1. recs \in Seq(Rec)
    BY EndTypes
  <1>2. 1 \in DOMAIN recs
    BY <1>1
  <1>3. ASSUME DOMAIN recs' = DOMAIN recs PROVE recs' # <<>>
    BY <1>2, <1>3
  <1>4. ASSUME NEW r, recs' = Append(recs, r) PROVE recs' # <<>>
    BY <1>1, <1>4
  <1>5. CASE BoxStep \/ SessionStep \/ RuntimeCrashes
    <2>1. UNCHANGED recs
      BY <1>5, Zenon
      DEF BoxStep, TurnEnds, SessionEnds, StopLands, SessionStep, AcquireBox, OpenSession, SetupFails,
          Reattach, RuntimeCrashes, memory
    <2>. QED
      BY <2>1
  <1>6. CASE RelayStep
    <2>1. DOMAIN recs' = DOMAIN recs
      BY <1>6
      DEF RelayStep, Connect, StreamBreaks, StreamLost, Frame, SaveTurn, RetryStep, Commit, Ack, RelayFails,
          RelayCloses, memory, Touched, Becomes
    <2>. QED
      BY <1>3, <2>1
  <1>7. CASE HandlerStep
    <2>1. DOMAIN recs' = DOMAIN recs \/ \E r : recs' = Append(recs, r)
      <3>1. CASE Start \/ StartBroken
        BY <3>1 DEF Start, StartBroken, Becomes, memory
      <3>2. CASE Cancel \/ CancelAdopts \/ CancelStops
        BY <3>2 DEF Cancel, CancelEnds, CancelAdopts, CancelStops, Register, Becomes, memory
      <3>3. ASSUME NEW m \in Messages, Ask(m) \/ Adopt(m) \/ Publish(m)
            PROVE  DOMAIN recs' = DOMAIN recs \/ \E r : recs' = Append(recs, r)
        BY <3>3 DEF Ask, Adopt, Publish, Register, Becomes, Touched, memory
      <3>4. ASSUME NEW m \in Messages, Post(m) \/ Remember(m)
            PROVE  DOMAIN recs' = DOMAIN recs
        BY <3>4 DEF Post, PutBack, Remember, Becomes, memory
      <3>. QED
        BY <1>7, <3>1, <3>2, <3>3, <3>4 DEF HandlerStep
    <2>. QED
      BY <1>3, <1>4, <2>1
  <1>8. CASE DogStep
    <2>1. DOMAIN recs' = DOMAIN recs \/ \E r : recs' = Append(recs, r)
      BY <1>8
      DEF DogStep, TimePasses, DogFlushes, DogLists, DogRecovers, DogChecks, DogStops, DogReaps, Register,
          Becomes, memory
    <2>. QED
      BY <1>3, <1>4, <2>1
  <1>9. CASE StoreStep
    <2>1. DOMAIN recs' = DOMAIN recs
      BY <1>9 DEF StoreStep, WriteLands, WriteFails
    <2>. QED
      BY <1>3, <2>1
  <1>. QED
    BY <1>5, <1>6, <1>7, <1>8, <1>9 DEF CapabilityNext

\* Before the run is stored, it can only be begun, and the watchdog looks about in vain.
LEMMA NothingBefore ==
  ASSUME RunInv, BirthOk, start.pc \in {"new", "writing"}, CapabilityNext
  PROVE  \/ start.pc = "new" /\ Start
         \/ StoreStep \/ RuntimeCrashes
         \/ UNCHANGED <<start, recs, session, relay, reattach>> /\ box' \in {box, NoBox}
  <1>1. /\ box = NoBox /\ session = NoSession /\ relay = NoRelay /\ ~reattach
        /\ runs = 0 /\ dog.seen.status = "none" /\ cancel.pc = "new" /\ \A m \in Messages : call[m].pc = "new"
    BY DEF BirthOk, RunInv, StartOk, Unborn
  <1>2. /\ box.pod = "absent" /\ session.pc = "none" /\ relay.pc = "off" /\ ~Live
    BY <1>1 DEF NoBox, NoSession, NoRelay, Live
  <1>3. CASE BoxStep
    BY <1>2, <1>3 DEF BoxStep, TurnEnds, SessionEnds, StopLands, memory, sessionSide, handlers
  <1>4. ~SessionStep /\ ~RelayStep
    BY <1>1, <1>2
    DEF SessionStep, AcquireBox, OpenSession, SetupFails, Reattach, RelayStep, Connect, StreamBreaks, StreamLost,
        Frame, SaveTurn, RetryStep, Commit, Ack, RelayFails, RelayCloses
  <1>5. CASE HandlerStep
    <2>1. ~StartBroken /\ ~Cancel /\ ~CancelAdopts
      BY <1>1 DEF StartBroken, Cancel, CancelAdopts
    <2>2. ~CancelStops /\ \A m \in Messages : ~Ask(m) /\ ~Adopt(m) /\ ~Publish(m) /\ ~Post(m) /\ ~Remember(m)
      BY <1>1, Zenon DEF CancelStops, Ask, Adopt, Publish, Post, Remember
    <2>. QED
      BY <1>5, <2>1, <2>2, Zenon DEF HandlerStep, Start
  <1>6. CASE DogStep
    <2>1. UNCHANGED recs
      BY <1>1, <1>2, <1>6
      DEF DogStep, TimePasses, DogFlushes, DogLists, DogRecovers, DogChecks, DogStops, DogReaps, memory, Active
    <2>2. UNCHANGED <<session, relay, start>> /\ box' \in {box, NoBox}
      BY <1>6 DEF DogStep, TimePasses, DogFlushes, DogLists, DogRecovers, DogChecks, DogStops, DogReaps,
                  boxSide, sessionSide, handlers
    <2>3. UNCHANGED reattach
      BY <1>1, <1>2, <1>6 DEF DogStep, TimePasses, DogFlushes, DogLists, DogRecovers, DogChecks, DogStops,
                  DogReaps, sessionSide, Active
    <2>. QED
      BY <2>1, <2>2, <2>3
  <1>. QED
    BY <1>3, <1>4, <1>5, <1>6 DEF CapabilityNext

LEMMA BirthStep ==
  ASSUME RunInv, BirthOk, CapabilityNext
  PROVE  BirthOk'
  <1>1. CASE start.pc \notin {"new", "writing"}
    <2>1. start'.pc \notin {"new", "writing"} /\ recs' # <<>>
      BY <1>1, StartStays, RecsStay DEF BirthOk
    <2>. QED
      BY <2>1 DEF BirthOk
  <1>2. CASE start.pc = "new" /\ Start
    <2>1. /\ recs = <<>> /\ box = NoBox /\ session = NoSession /\ relay = NoRelay /\ ~reattach
      BY <1>2 DEF BirthOk
    <2>2. PICK status \in Active :
            /\ recs' = Append(recs, NewRecord([NoRow EXCEPT !.status = status]))
            /\ start' = [pc |-> "writing", opening |-> status = "running"]
      BY <1>2 DEF Start
    <2>3. PICK r : r = NewRecord([NoRow EXCEPT !.status = status])
      OBVIOUS
    <2>4. r.status = status /\ r.relay = 0 /\ r.persisted = 0
      BY <2>3 DEF NewRecord, NoRow
    <2>5. Len(recs') = 1 /\ recs'[1] = r /\ recs' # <<>>
      BY <2>1, <2>2, <2>3
    <2>6. start'.pc = "writing" /\ (status = "running" => start'.opening)
      BY <2>2
    <2>7. UNCHANGED <<box, session, relay, reattach>>
      BY <1>2 DEF Start, boxSide, sessionSide
    <2>. QED
      BY <2>1, <2>2, <2>4, <2>5, <2>6, <2>7 DEF BirthOk
  <1>3. CASE start.pc \in {"new", "writing"} /\ StoreStep
    <2>1. PICK w : w = writes[1]
      OBVIOUS
    <2>2. writes # <<>> /\ \E written \in BOOLEAN : Written(w, written)
      BY <1>3, <2>1, ChainServes
    <2>3. start.pc = "writing" /\ start'.pc # "writing"
      BY <1>3, <2>1, <2>2, OldestWrite, NobodyBegins
    <2>4. start'.pc # "new"
      BY <2>1, <2>2, <2>3, OldestWrite, CallersAssumption DEF Written, WrittenForStart
    <2>5. recs' # <<>>
      BY <2>3, RecsStay DEF BirthOk
    <2>. QED
      BY <2>3, <2>4, <2>5 DEF BirthOk
  <1>4. CASE start.pc \in {"new", "writing"} /\ RuntimeCrashes
    <2>1. CASE start.pc = "new"
      BY <1>4, <2>1 DEF RuntimeCrashes, BirthOk
    <2>2. CASE start.pc = "writing"
      <3>1. start'.pc = "failed" /\ recs' # <<>>
        BY <1>4, <2>2, RecsStay DEF RuntimeCrashes, BirthOk, RunInv, StartOk, Starting
      <3>. QED
        BY <3>1 DEF BirthOk
    <2>. QED
      BY <1>4, <2>1, <2>2
  <1>5. CASE /\ start.pc \in {"new", "writing"} /\ UNCHANGED <<start, recs, session, relay, reattach>>
             /\ box' \in {box, NoBox}
    BY <1>5 DEF BirthOk
  <1>. QED
    BY <1>1, <1>2, <1>3, <1>4, <1>5, NothingBefore

LEMMA SessionStays ==
  ASSUME RunInv, session \in Session, CapabilityNext
  PROVE  session' \in Session
  <1>1. NoSession \in Session /\ [NoSession EXCEPT !.pc = "live"] \in Session
    BY DEF NoSession, Session, SessionPcs
  <1>2. ASSUME NEW b \in BOOLEAN, Ensure(b) PROVE session' \in Session
    <2>1. [pc |-> "acquire", created |-> FALSE, opening |-> b] \in Session
      BY DEF Session, SessionPcs
    <2>. QED
      BY <1>2, <2>1 DEF Ensure
  <1>3. start.opening \in BOOLEAN
    BY DEF RunInv, StartOk, Starting
  <1>4. ASSUME NEW b, b = (box.pod = "absent"), session' = [session EXCEPT !.pc = "open", !.created = b]
        PROVE  session' \in Session
    <2>1. b \in BOOLEAN /\ "open" \in SessionPcs
      BY <1>4 DEF SessionPcs
    <2>. QED
      BY <1>4, <2>1 DEF Session
  <1>5. CASE BoxStep \/ DogStep
    BY <1>5, Zenon DEF BoxStep, TurnEnds, SessionEnds, StopLands, DogStep, TimePasses, DogFlushes, DogLists,
                DogRecovers, DogChecks, DogStops, DogReaps, sessionSide
  <1>6. CASE SessionStep
    <2>1. CASE AcquireBox
      BY <1>4, <2>1, Zenon DEF AcquireBox
    <2>2. CASE OpenSession \/ SetupFails
      BY <1>1, <2>2 DEF OpenSession, SetupFails
    <2>3. CASE Reattach
      BY <1>2, <2>3 DEF Reattach
    <2>. QED
      BY <1>6, <2>1, <2>2, <2>3 DEF SessionStep
  <1>7. CASE RelayStep
    <2>1. UNCHANGED session \/ session' = NoSession
      BY <1>7 DEF RelayStep, Connect, StreamBreaks, StreamLost, Frame, SaveTurn, RetryStep, Commit, Ack,
                  RelayFails, RelayCloses
    <2>. QED
      BY <1>1, <2>1
  <1>8. CASE HandlerStep
    <2>1. UNCHANGED session \/ Ensure(FALSE)
      BY <1>8, Zenon DEF HandlerStep, Start, StartBroken, Ask, Adopt, Publish, Post, Remember, Cancel, CancelAdopts,
                  CancelStops, sessionSide
    <2>. QED
      BY <1>2, <2>1, Zenon
  <1>9. CASE StoreStep
    <2>1. UNCHANGED session \/ Ensure(start.opening)
      <3>1. PICK w : w = writes[1]
        OBVIOUS
      <3>2. writes # <<>> /\ \E written \in BOOLEAN : Written(w, written)
        BY <1>9, <3>1, ChainServes
      <3>. QED
        BY <3>2 DEF Written, WrittenForStart, WrittenForRelay, WrittenForCall, WrittenForCancel, WrittenForDog
    <2>. QED
      BY <1>2, <1>3, <2>1
  <1>10. CASE RuntimeCrashes
    BY <1>1, <1>10 DEF RuntimeCrashes
  <1>. QED
    BY <1>5, <1>6, <1>7, <1>8, <1>9, <1>10 DEF CapabilityNext

----------------------------------------------------------------------------
(* What is always so of a run whose box rests.                              *)

LEMMA RestInvInit ==
  ASSUME CapabilityInit
  PROVE  RestInv
  <1>1. runs = 0 /\ recs = <<>> /\ start.pc = "new" /\ box = NoBox /\ session = NoSession /\ relay = NoRelay /\ ~reattach
    BY DEF CapabilityInit
  <1>2. NoSession \in Session /\ NoBox.turns \in Nat
    BY DEF NoSession, NoBox, Session, SessionPcs
  <1>3. BirthOk
    BY <1>1 DEF BirthOk
  <1>4. StatusMirrors /\ Serving
    BY <1>1 DEF StatusMirrors, Serving, SetupOk, AttachOk, EventsInOrder, RunningIsBusy, First, FirstServes
  <1>. QED
    BY <1>1, <1>2, <1>3, <1>4 DEF RestInv

LEMMA RestInvStep ==
  ASSUME RunInv, EndInv, RestInv, [CapabilityNext]_capabilityVars
  PROVE  RestInv'
  <1>1. CASE UNCHANGED capabilityVars
    <2>1. UNCHANGED <<row, adrift, recs, runs, writes, box, session, relay, reattach, start, call, restored>>
      BY <1>1 DEF capabilityVars
    <2>2. Serving' /\ StatusMirrors'
      BY <2>1, NothingMoves, MemoryRests DEF RestInv
    <2>3. BirthOk'
      BY <2>1 DEF RestInv, BirthOk
    <2>. QED
      BY <2>1, <2>2, <2>3 DEF RestInv
  <1>2. CASE CapabilityNext
    <2>1. Serving' /\ StatusMirrors' /\ box'.turns \in Nat
      BY <1>2, BoxRests, SessionRests, RelayRests, HandlerRests, WatchdogRests, StoreRests, CrashRests
      DEF CapabilityNext
    <2>2. BirthOk' /\ session' \in Session
      BY <1>2, BirthStep, SessionStays DEF RestInv
    <2>. QED
      BY <2>1, <2>2 DEF RestInv
  <1>. QED
    BY <1>1, <1>2

\* The first record runs, and nothing of it is on its way.
LEMMA RestingIsIdle ==
  ASSUME RunInv, EndInv, RestInv
  PROVE  RestingRunIsIdle
  <1>1. SUFFICES ASSUME /\ row.status = "running" /\ writes = <<>> /\ ~adrift /\ ~restored
                        /\ start.pc = "ok" /\ runs = 1
                        /\ \A m \in Messages : call[m].pc \in {"new", "ok"}
                        /\ relay.pc = "stream" /\ box.pod = "live" /\ box.pending = NoEvent /\ box.queue = <<>>
                 PROVE  box.turns > 0
    BY DEF RestingRunIsIdle
  <1>2. recs[1].status = "running"
    BY <1>1 DEF RestInv, StatusMirrors
  <1>3. FirstServes
    BY <1>1, <1>2 DEF FirstServes, First, Active
  <1>4. ~Coming /\ \A m \in Messages : ~Posting(m)
    BY <1>1 DEF Coming, Posting
  <1>. QED
    BY <1>1, <1>2, <1>3, <1>4 DEF RestInv, Serving, RunningIsBusy

----------------------------------------------------------------------------
(* The theorems.                                                            *)

\* Records, rows, writes and queues keep their types, and the caller of a write
\* waits for that write, whatever restarts and failures come between
\* (CapabilityRunRecord and persistTails, run-manager.ts).
THEOREM RecordsStayTyped == CapabilitySpec => []CapabilityTypeOK
  <1>1. RunInv => CapabilityTypeOK
    <2>1. ASSUME RunInv PROVE CapabilityTypeOK
      <3>1. recs \in Seq(Rec) /\ box \in Box /\ relay \in Relay
        BY <2>1 DEF RunInv, MemoryOk, RecsOk, BoxOk, RelayOk
      <3>2. \A i \in 1..Len(recs) : recs[i] \in Rec
        BY <3>1
      <3>. QED
        BY <2>1, <3>1, <3>2
        DEF RunInv, MemoryOk, RowOk, RecsOk, WritesOk, EventsOk, SessionOk, SessionPcs, Box, Rec,
            Statuses, CapabilityTypeOK
    <2>. QED
      BY <2>1
  <1>. QED
    BY <1>1, RunInvAlways, PTL

\* A turn whose frame the box has dropped, or that the row counts as relayed, is
\* in the consumer's history: the acknowledgement waits for both writes, in any
\* interleaving of retries, re-deliveries, lost answers and restarts
\* (session-driver.ts:161-184).
THEOREM AckedTurnsAreSaved == CapabilitySpec => []AckedTurnIsSaved
  <1>1. RunInv => AckedTurnIsSaved
    <2>1. ASSUME RunInv PROVE AckedTurnIsSaved
      <3>1. \A e \in acked : e.kind = "turn" => e.id \in saved
        BY <2>1 DEF RunInv, EventsOk
      <3>2. Past(row.relay) /\ relay.event \in KnownEvents
        BY <2>1 DEF RunInv, MemoryOk, RowOk, Snap, KnownEvents
      <3>. QED
        BY <3>1, <3>2 DEF AckedTurnIsSaved, Past
    <2>. QED
      BY <2>1
  <1>. QED
    BY <1>1, RunInvAlways, PTL

\* A turn is answered, or remembered in the row as taken, only if a box took it,
\* whatever was retried, adopted or taken back in between (rememberMessageId,
\* run-manager.ts:318).
THEOREM AnsweredTurnsWereTaken == CapabilitySpec => []AnsweredTurnWasTaken
  <1>1. RunInv => AnsweredTurnWasTaken
    BY DEF RunInv, CallsOk, CallOk, TakenPcs, MemoryOk, RowOk, Snap, AnsweredTurnWasTaken
  <1>. QED
    BY <1>1, RunInvAlways, PTL

\* When no write is under way and the last one did not fail, the row of a live
\* run says what its record says: the writes of the relay, the handlers and the
\* watchdog never overtake each other (persistTails, run-manager.ts:139).
THEOREM RowsMirrorRecords == CapabilitySpec => []RowMirrorsRecord
  <1>1. RunInv => RowMirrorsRecord
    BY DEF RunInv, MemoryOk, MirrorOk, Mirrors, RowMirrorsRecord
  <1>. QED
    BY <1>1, RunInvAlways, PTL

\* "A done never degrades": whatever writes fail, land late or meet a restart, the row
\* of a run that is done changes only by a record made from an answer the row had left
\* behind, and by the watchdog only if it was not told (reapStale, run-manager.ts:564-616).
THEOREM DoneNeverDegrades == CapabilitySpec => DoneStaysDone
  <1>1. CapabilityInit => EndInv /\ DogAsked
    BY DEF CapabilityInit, EndInv, NewestOk, ChainOk, EndsStick, DoneOk, DogAsked, NoRow, DogRests
  <1>2. RunInv /\ EndInv /\ DogAsked /\ [CapabilityNext]_capabilityVars => (RunInv /\ EndInv /\ DogAsked)'
    BY RunInvStep, EndInvStep, DogAskedStep
  <1>3. RunInv /\ EndInv /\ DogAsked /\ [CapabilityNext]_capabilityVars
          => [row.status = "done" /\ row'.status # "done"
                => \E i \in 1..Len(writes) :
                     /\ writes[i].status = row'.status
                     /\ writes[i].rec \in outdated
                     /\ writes[i].by = "dog" /\ dog.pc = "reaped"
                           => dog.blind \/ dog.seen.status # "done"]_capabilityVars
    BY DoneStep
  <1>. QED
    BY <1>1, <1>2, <1>3, RunInvInit, PTL DEF CapabilitySpec, DoneStaysDone

\* A run whose box is at rest does not stay "running": running is published before the
\* box can emit the turn_done that ends it, and that event is counted before it is
\* acknowledged (capability.message, server.ts:1565-1585).
THEOREM RestingRunsAreIdle == CapabilitySpec => []RestingRunIsIdle
  <1>1. CapabilityInit => RunInv /\ EndInv /\ RestInv
    BY RunInvInit, EndInvInit, RestInvInit
  <1>2. RunInv /\ EndInv /\ RestInv /\ [CapabilityNext]_capabilityVars => (RunInv /\ EndInv /\ RestInv)'
    BY RunInvStep, EndInvStep, RestInvStep
  <1>3. RunInv /\ EndInv /\ RestInv => RestingRunIsIdle
    BY RestingIsIdle
  <1>. QED
    BY <1>1, <1>2, <1>3, PTL DEF CapabilitySpec

=============================================================================
