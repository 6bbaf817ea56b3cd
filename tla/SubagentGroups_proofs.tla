----------------------- MODULE SubagentGroups_proofs -----------------------
(***************************************************************************)
(* Proofs about SubagentGroups, for any batches, items, single spawns and  *)
(* caps: the limiters count exactly the children that hold a slot, batches *)
(* leave a slot to single spawns, an aborted batch starts no further item, *)
(* and neither a reduce child nor a verdict is made up.                    *)
(***************************************************************************)
EXTENDS SubagentGroups, FiniteSetTheorems, TLAPS

----------------------------------------------------------------------------
(* The inductive invariant.                                                *)

\* The children that hold a slot of limiter l, when r says how far up its
\* ladder each one is.
Holders(r, l) == {c \in Clients : \E i \in 1..r[c] : Ladder(c)[i] = l}

\* Where a child is tells how many slots it has.
ClimbOk ==
    \A c \in Clients :
        /\ rung[c] \in 0..Len(Ladder(c))
        /\ at[c] \in {"idle", "over"} => rung[c] = 0
        /\ at[c] \in {"granted", "leaving"} => rung[c] > 0
        /\ at[c] = "queued" => rung[c] < Len(Ladder(c))
        /\ at[c] = "running" => AtTop(c)

\* Only children that wait for a slot of l are in its queue, each of them once.
QueueOk ==
    \A l \in Limiters :
        /\ \A i \in 1..Len(queue[l]) :
              at[queue[l][i]] = "queued" /\ Ladder(queue[l][i])[rung[queue[l][i]] + 1] = l
        /\ \A i, j \in 1..Len(queue[l]) : queue[l][i] = queue[l][j] => i = j

\* SlotsAreExact, in terms of Holders.
CountOk ==
    \A l \in Limiters :
        /\ active[l] = Cardinality(Holders(rung, l))
        /\ active[l] <= Limit(l)
        /\ queue[l] # <<>> => active[l] = Limit(l)

\* The phase of a batch tells where its children are, and which of them wait.
PhaseOk ==
    \A g \in Groups :
        /\ phase[g] = "new" => \A c \in Items(g) : at[c] = "idle"
        /\ phase[g] \in {"new", "map"} => at[g] = "idle"
        /\ phase[g] \in {"reduce", "over"} => \A c \in Items(g) : at[c] = "over"
        /\ phase[g] = "over" => at[g] \in {"idle", "over"}

Places == {"idle", "queued", "granted", "running", "leaving", "over"}

\* The types of what the limiters and the children's ways are made of.
SlotTypes ==
    /\ LimiterTypeOK
    /\ rung \in [Clients -> 0..4]
    /\ at \in [Clients -> Places]

SlotsInv == SlotTypes /\ ClimbOk /\ QueueOk /\ CountOk

\* A child on its way down has a result; an item that is down has recorded it,
\* and a success counts; what was reduced or reported rests on that.
ItemsOk ==
    /\ \A c \in Clients : at[c] \in {"leaving", "over"} => result[c] # "none"
    /\ \A c \in AllItems : at[c] = "over" => item[c] \notin {"queued", "running"}
    /\ \A g \in Groups : DoneItems(g) # {} => succeeded[g] > 0
    /\ \A g \in Groups : at[g] # "idle" => DoneItems(g) # {}

GroupsInv == TypeOK /\ SlotsInv /\ PhaseOk /\ ItemsOk /\ BatchIsHonest

----------------------------------------------------------------------------
(* Items, limits and ladders.                                              *)

\* Items are children, and children of one batch only.
LEMMA ItemFacts ==
  ASSUME NEW g \in Groups, NEW c \in Items(g)
  PROVE  /\ c \in Clients /\ c \in AllItems
         /\ c \notin Groups /\ c \notin Singles
         /\ GroupOf(c) = g
  <1>1. c \in Clients /\ c \in AllItems
    BY CapAssumption DEF Items, AllItems
  <1>2. \A h \in Groups : c \in Items(h) => h = g
    BY NamesAssumption
  <1> QED
    BY <1>1, <1>2, NamesAssumption DEF GroupOf

\* An item is an item of its batch, and a child is of one of three kinds.
LEMMA KindFacts ==
  ASSUME NEW c \in Clients
  PROVE  /\ c \in AllItems => GroupOf(c) \in Groups /\ c \in Items(GroupOf(c))
         /\ c \in Groups \/ c \in Singles \/ c \in AllItems
  <1>1. c \in AllItems => \E g \in Groups : c \in Items(g)
    BY DEF AllItems
  <1>2. c \in Groups \/ c \in Singles \/ c \in AllItems
    BY CapAssumption DEF AllItems, Items
  <1> QED
    BY <1>1, <1>2, ItemFacts

\* The position of an item in its batch.
LEMMA ItemPlaces ==
  ASSUME NEW g \in Groups
  PROVE  /\ ItemsOf[g] \in Seq(Clients) /\ Len(ItemsOf[g]) \in Nat \ {0}
         /\ \A i \in 1..Len(ItemsOf[g]) : ItemsOf[g][i] \in Items(g)
         /\ \A c \in Items(g) : \E i \in 1..Len(ItemsOf[g]) : ItemsOf[g][i] = c
  <1>1. ItemsOf[g] \in Seq(Clients) /\ ItemsOf[g] # <<>>
    BY CapAssumption
  <1>2. Len(ItemsOf[g]) \in Nat \ {0} /\ DOMAIN ItemsOf[g] = 1..Len(ItemsOf[g])
    BY <1>1
  <1> QED
    BY <1>1, <1>2 DEF Items, ToSet

\* Every limiter has room for somebody, and a batch's pool has no more places
\* than the batch has items.
LEMMA LimitFacts ==
  ASSUME NEW l \in Limiters
  PROVE  /\ Limit(l) \in Nat \ {0}
         /\ l \in Groups => Limit(l) <= Len(ItemsOf[l])
  <1>1. AtLeastOne(PodCap - 1) \in Nat \ {0} /\ AtLeastOne(SessionCap - 1) \in Nat \ {0}
    BY CapAssumption DEF AtLeastOne
  <1>2. l \in Groups => l # PodGate /\ l # GroupGate /\ Len(ItemsOf[l]) \in Nat \ {0}
    BY ItemPlaces, NamesAssumption
  <1> QED
    BY <1>1, <1>2, CapAssumption DEF Limit

\* A child's ladder has two to four rungs, which are different limiters.
LEMMA LadderFacts ==
  ASSUME NEW c \in Clients
  PROVE  /\ Len(Ladder(c)) \in 2..4
         /\ \A i \in 1..Len(Ladder(c)) : Ladder(c)[i] \in Limiters
         /\ \A i, j \in 1..Len(Ladder(c)) : Ladder(c)[i] = Ladder(c)[j] => i = j
  <1>1. CASE c \in Singles
    <2>1. OwnerOf[c] \in Owners /\ OwnerOf[c] # PodGate /\ OwnerOf[c] \in Limiters
             /\ PodGate \in Limiters
      BY <1>1, CapAssumption, NamesAssumption
    <2>2. Ladder(c) = <<OwnerOf[c], PodGate>>
      BY <1>1 DEF Ladder
    <2> QED
      BY <2>1, <2>2
  <1>2. CASE c \in Groups
    <2>1. OwnerOf[c] # PodGate /\ OwnerOf[c] # GroupGate /\ GroupGate # PodGate
             /\ OwnerOf[c] \in Limiters /\ GroupGate \in Limiters /\ PodGate \in Limiters
      BY <1>2, CapAssumption, NamesAssumption
    <2>2. Ladder(c) = <<GroupGate, OwnerOf[c], PodGate>>
      BY <1>2, NamesAssumption DEF Ladder
    <2> QED
      BY <2>1, <2>2
  <1>3. CASE c \in AllItems
    <2>1. PICK g \in Groups : c \in Items(g)
      BY <1>3 DEF AllItems
    <2>2. OwnerOf[g] \in Owners /\ g \in Limiters /\ OwnerOf[g] \in Limiters
             /\ GroupGate \in Limiters /\ PodGate \in Limiters
      BY CapAssumption
    <2>3. OwnerOf[g] # PodGate /\ OwnerOf[g] # GroupGate /\ GroupGate # PodGate
             /\ g # GroupGate /\ g # PodGate /\ g # OwnerOf[g]
      BY <2>2, NamesAssumption
    <2>4. Ladder(c) = <<g, GroupGate, OwnerOf[g], PodGate>>
      BY <2>1, ItemFacts DEF Ladder
    <2> QED
      BY <2>2, <2>3, <2>4
  <1> QED
    BY <1>1, <1>2, <1>3, KindFacts

\* Its length alone.
LEMMA LadderLength ==
  ASSUME NEW c \in Clients
  PROVE  Len(Ladder(c)) \in 2..4
  BY LadderFacts

\* The ladder of an item.
LEMMA ItemLadder ==
  ASSUME NEW g \in Groups, NEW c \in Items(g)
  PROVE  Ladder(c) = <<g, GroupGate, OwnerOf[g], PodGate>>
  BY ItemFacts DEF Ladder

\* The pool of a batch is the first rung of its items, and of nobody else.
LEMMA PoolIsPrivate ==
  ASSUME NEW g \in Groups, NEW c \in Clients, NEW i \in 1..Len(Ladder(c)),
         Ladder(c)[i] = g
  PROVE  c \in Items(g) /\ i = 1
  <1>1. g \notin Owners /\ g # GroupGate /\ g # PodGate
    BY NamesAssumption
  <1>2. c \notin Singles
    <2> SUFFICES ASSUME c \in Singles PROVE FALSE
      OBVIOUS
    <2>1. OwnerOf[c] \in Owners /\ Ladder(c) = <<OwnerOf[c], PodGate>>
      BY CapAssumption DEF Ladder
    <2> QED
      BY <1>1, <2>1
  <1>3. c \notin Groups
    <2> SUFFICES ASSUME c \in Groups PROVE FALSE
      OBVIOUS
    <2>1. OwnerOf[c] \in Owners /\ Ladder(c) = <<GroupGate, OwnerOf[c], PodGate>>
      BY <1>2, CapAssumption DEF Ladder
    <2> QED
      BY <1>1, <2>1
  <1>4. PICK h \in Groups : c \in Items(h)
    BY <1>2, <1>3, KindFacts
  <1>5. OwnerOf[h] \in Owners /\ Ladder(c) = <<h, GroupGate, OwnerOf[h], PodGate>>
    BY <1>4, ItemLadder, CapAssumption
  <1> QED
    BY <1>1, <1>4, <1>5

----------------------------------------------------------------------------
(* Who holds a slot.                                                       *)

\* The holders of a slot are finitely many.
LEMMA HoldersFinite ==
  ASSUME NEW r, NEW l
  PROVE  /\ IsFiniteSet(Holders(r, l))
         /\ Cardinality(Holders(r, l)) \in Nat
  <1>1. Holders(r, l) \in SUBSET Clients
    BY DEF Holders
  <1> QED
    BY <1>1, NamesAssumption, FS_Subset, FS_CardinalityType

\* Between r and r2 only c has moved: it has taken a slot of l, the next rung of
\* its ladder.
OneUp(r, r2, c, l) ==
    /\ r[c] \in Nat /\ r[c] < Len(Ladder(c))
    /\ l = Ladder(c)[r[c] + 1]
    /\ r2[c] = r[c] + 1
    /\ \A d \in Clients : d # c => r2[d] = r[d]

\* A child that takes the next rung of its ladder joins the holders of that
\* limiter, and of no other.
LEMMA OneMoreHolder ==
  ASSUME NEW r, NEW r2, NEW c \in Clients, NEW l, OneUp(r, r2, c, l)
  PROVE  /\ c \notin Holders(r, l) /\ c \in Holders(r2, l)
         /\ Cardinality(Holders(r2, l)) = Cardinality(Holders(r, l)) + 1
         /\ \A k \in Limiters : k # l => Holders(r2, k) = Holders(r, k)
  <1> USE DEF OneUp
  <1>1. Len(Ladder(c)) \in Nat /\ r[c] + 1 \in 1..Len(Ladder(c))
    BY LadderLength
  <1>2. \A i \in 1..Len(Ladder(c)) : Ladder(c)[i] = l => i = r[c] + 1
    BY <1>1, LadderFacts
  <1>3. c \notin Holders(r, l)
    BY <1>1, <1>2 DEF Holders
  <1>4. \A i : i \in 1..r2[c] <=> i \in 1..r[c] \/ i = r[c] + 1
    BY <1>1
  <1>5. Holders(r2, l) = Holders(r, l) \cup {c}
    BY <1>4 DEF Holders
  <1>6. \A k \in Limiters : k # l => Holders(r2, k) = Holders(r, k)
    BY <1>4 DEF Holders
  <1>7. Cardinality(Holders(r, l) \cup {c}) = Cardinality(Holders(r, l)) + 1
    BY <1>3, HoldersFinite, FS_AddElement
  <1> QED
    BY <1>3, <1>5, <1>6, <1>7

----------------------------------------------------------------------------
(* What a step does to the slots.                                          *)

\* Child c starts to run, or ends, or turns back: no limiter is involved.
Moves(c, s) ==
    /\ at[c] \in {"granted", "running"} /\ s \in {"running", "leaving"}
    /\ s = "running" => AtTop(c)
    /\ at' = [at EXCEPT ![c] = s]
    /\ UNCHANGED <<limiterVars, rung>>

\* A step that moves one child without a limiter keeps them sound.
LEMMA MoveKeeps ==
  ASSUME SlotsInv, NEW c \in Clients, NEW s, Moves(c, s)
  PROVE  SlotsInv'
  <1> USE DEF SlotsInv, Moves
  <1>1. at'[c] = s /\ \A d \in Clients : d # c => at'[d] = at[d]
    BY DEF SlotTypes, Places
  <1>2. SlotTypes'
    BY DEF SlotTypes, LimiterTypeOK, Places, limiterVars
  <1>3. ClimbOk'
    <2>1. rung[c] \in 0..Len(Ladder(c)) /\ (at[c] = "granted" => rung[c] > 0)
            /\ (at[c] = "running" => rung[c] = Len(Ladder(c)))
      BY DEF ClimbOk, AtTop
    <2>2. PICK n \in 2..4 : n = Len(Ladder(c))
      BY LadderLength
    <2>3. rung[c] > 0
      BY <2>1, <2>2
    <2> QED
      BY <1>1, <2>1, <2>3 DEF ClimbOk, AtTop
  <1>4. QueueOk'
    <2>1. \A l \in Limiters : \A i \in 1..Len(queue[l]) : queue[l][i] \in Clients /\ queue[l][i] # c
      BY DEF QueueOk, SlotTypes, LimiterTypeOK
    <2> QED
      BY <1>1, <2>1 DEF QueueOk, limiterVars
  <1>5. CountOk'
    BY DEF CountOk, limiterVars
  <1> QED
    BY <1>2, <1>3, <1>4, <1>5

\* A child that asks for the next slot of its ladder: it gets one that is free,
\* or queues for one that is not.
LEMMA AskKeeps ==
  ASSUME SlotsInv, NEW c \in Clients, at[c] \in {"idle", "granted"}, ~AtTop(c), AskNext(c)
  PROVE  /\ SlotsInv'
         /\ at'[c] \in {"granted", "queued"}
         /\ \A d \in Clients : d # c => at'[d] = at[d]
  <1> USE DEF SlotsInv
  <1>0. PICK l : l = Ladder(c)[rung[c] + 1]
    OBVIOUS
  <1>1. rung[c] \in Nat /\ Len(Ladder(c)) \in 2..4 /\ rung[c] < Len(Ladder(c))
    BY LadderLength DEF ClimbOk, AtTop
  <1>2. l \in Limiters
    <2>1. rung[c] + 1 \in 1..Len(Ladder(c))
      BY <1>1
    <2> QED
      BY <1>0, <2>1, LadderFacts
  <1>3. /\ active \in [Limiters -> Nat] /\ queue \in [Limiters -> Seq(Clients)]
        /\ rung \in [Clients -> 0..4] /\ at \in [Clients -> Places]
    BY DEF SlotTypes, LimiterTypeOK, Places
  <1>4. active[l] \in Nat /\ active[l] <= Limit(l) /\ Limit(l) \in Nat
    BY <1>2, <1>3, LimitFacts DEF CountOk
  <1>5. \A k \in Limiters : \A i \in 1..Len(queue[k]) : queue[k][i] \in Clients /\ queue[k][i] # c
    BY <1>3 DEF QueueOk
  <1>6. CASE /\ AcquireNow(l, Limit(l))
             /\ rung' = [rung EXCEPT ![c] = @ + 1]
             /\ at' = [at EXCEPT ![c] = "granted"]
    <2>1. /\ active[l] < Limit(l) /\ active' = [active EXCEPT ![l] = @ + 1]
          /\ queue' = queue
      BY <1>6 DEF AcquireNow
    <2>2. at'[c] = "granted" /\ rung'[c] = rung[c] + 1
            /\ \A d \in Clients : d # c => at'[d] = at[d] /\ rung'[d] = rung[d]
      BY <1>3, <1>6
    <2>3. SlotTypes'
      <3>n. PICK n \in 2..4 : n = Len(Ladder(c))
        BY <1>1
      <3>m. rung[c] \in Nat /\ rung[c] < n
        BY <1>1, <3>n
      <3>1. rung[c] + 1 \in 0..4 /\ active[l] + 1 \in Nat
        BY <1>4, <3>m
      <3>2. active' \in [Limiters -> Nat]
        BY <1>3, <2>1, <3>1
      <3>4. rung' \in [Clients -> 0..4]
        BY <1>3, <1>6, <3>1
      <3>3. at' \in [Clients -> Places]
        BY <1>3, <1>6 DEF Places
      <3> QED
        BY <1>3, <2>1, <3>2, <3>3, <3>4 DEF SlotTypes, LimiterTypeOK
    <2>4. ClimbOk'
      BY <1>1, <2>2 DEF ClimbOk, AtTop
    <2>5. QueueOk'
      BY <1>5, <2>1, <2>2 DEF QueueOk
    <2>6. /\ Cardinality(Holders(rung', l)) = Cardinality(Holders(rung, l)) + 1
          /\ \A k \in Limiters : k # l => Holders(rung', k) = Holders(rung, k)
      <3>1. OneUp(rung, rung', c, l)
        BY <1>0, <1>1, <2>2 DEF OneUp
      <3> QED
        BY <3>1, OneMoreHolder
    <2>7. queue[l] = <<>>
      BY <1>2, <1>4, <2>1 DEF CountOk
    <2>8. ASSUME NEW k \in Limiters
          PROVE  /\ active'[k] = Cardinality(Holders(rung', k))
                 /\ active'[k] <= Limit(k)
                 /\ queue'[k] # <<>> => active'[k] = Limit(k)
      <3>1. CASE k = l
        <4>1. active'[k] = active[l] + 1 /\ active[l] = Cardinality(Holders(rung, l))
          BY <1>2, <1>3, <2>1, <3>1 DEF CountOk
        <4> QED
          BY <1>4, <2>1, <2>6, <2>7, <3>1, <4>1
      <3>2. CASE k # l
        BY <1>3, <2>1, <2>6, <3>2 DEF CountOk
      <3> QED
        BY <3>1, <3>2
    <2>9. CountOk'
      BY <2>8 DEF CountOk
    <2> QED
      BY <2>2, <2>3, <2>4, <2>5, <2>9
  <1>7. CASE /\ AcquireLater(l, Limit(l), c)
             /\ at' = [at EXCEPT ![c] = "queued"]
             /\ UNCHANGED rung
    <2>1. /\ ~(active[l] < Limit(l)) /\ queue' = [queue EXCEPT ![l] = Append(@, c)]
          /\ active' = active
      BY <1>7 DEF AcquireLater
    <2>2. at'[c] = "queued" /\ \A d \in Clients : d # c => at'[d] = at[d]
      BY <1>3, <1>7
    <2>3. SlotTypes'
      BY <1>2, <1>7, <2>1 DEF SlotTypes, LimiterTypeOK, Places
    <2>4. ClimbOk'
      BY <1>1, <1>7, <2>2 DEF ClimbOk, AtTop
    <2>5. /\ queue[l] \in Seq(Clients) /\ queue'[l] = Append(queue[l], c)
          /\ \A k \in Limiters : k # l => queue'[k] = queue[k]
      BY <1>2, <1>3, <2>1
    <2>6. /\ Len(queue[l]) \in Nat /\ Len(queue'[l]) = Len(queue[l]) + 1
          /\ queue'[l][Len(queue[l]) + 1] = c
          /\ \A i \in 1..Len(queue[l]) : queue'[l][i] = queue[l][i]
          /\ \A i \in 1..Len(queue'[l]) : i \in 1..Len(queue[l]) \/ i = Len(queue[l]) + 1
      BY <2>5
    <2>7. ASSUME NEW k \in Limiters
          PROVE  /\ \A i \in 1..Len(queue'[k]) :
                      at'[queue'[k][i]] = "queued"
                      /\ Ladder(queue'[k][i])[rung[queue'[k][i]] + 1] = k
                 /\ \A i, j \in 1..Len(queue'[k]) : queue'[k][i] = queue'[k][j] => i = j
      <3>1. CASE k = l
        <4>1. \A i \in 1..Len(queue[l]) :
                 at'[queue[l][i]] = "queued" /\ Ladder(queue[l][i])[rung[queue[l][i]] + 1] = l
          BY <1>2, <1>5, <2>2 DEF QueueOk
        <4>2. \A i, j \in 1..Len(queue[l]) : queue[l][i] = queue[l][j] => i = j
          BY <1>2 DEF QueueOk
        <4>3. \A i \in 1..Len(queue[l]) : queue[l][i] \in Clients /\ queue[l][i] # c
          BY <1>2, <1>5
        <4>4. \A i \in 1..Len(queue'[l]) :
                 at'[queue'[l][i]] = "queued" /\ Ladder(queue'[l][i])[rung[queue'[l][i]] + 1] = l
          <5>1. Ladder(c)[rung[c] + 1] = l
            BY <1>0
          <5>2. ASSUME NEW i \in 1..Len(queue'[l])
                PROVE  at'[queue'[l][i]] = "queued" /\ Ladder(queue'[l][i])[rung[queue'[l][i]] + 1] = l
            <6>1. CASE i = Len(queue[l]) + 1
              BY <2>2, <2>6, <5>1, <6>1
            <6>2. CASE i \in 1..Len(queue[l])
              <7>1. queue'[l][i] = queue[l][i] /\ at'[queue[l][i]] = at[queue[l][i]]
                BY <2>2, <2>6, <4>3, <6>2
              <7> QED
                BY <2>2, <4>1, <4>3, <6>2, <7>1
            <6> QED
              BY <2>6, <6>1, <6>2
          <5> QED
            BY <5>2
        <4>5. \A i, j \in 1..Len(queue'[l]) : queue'[l][i] = queue'[l][j] => i = j
          BY <2>6, <4>2, <4>3
        <4> QED
          BY <3>1, <4>4, <4>5
      <3>2. CASE k # l
        <4>1. /\ \A i \in 1..Len(queue[k]) :
                   at[queue[k][i]] = "queued" /\ Ladder(queue[k][i])[rung[queue[k][i]] + 1] = k
              /\ \A i, j \in 1..Len(queue[k]) : queue[k][i] = queue[k][j] => i = j
          BY DEF QueueOk
        <4>2. queue'[k] = queue[k] /\ \A i \in 1..Len(queue[k]) : at'[queue[k][i]] = at[queue[k][i]]
          BY <1>5, <2>2, <2>5, <3>2
        <4> QED
          BY <4>1, <4>2
      <3> QED
        BY <3>1, <3>2
    <2>8. QueueOk'
      BY <1>7, <2>7 DEF QueueOk
    <2>9. active[l] = Limit(l)
      BY <1>4, <2>1
    <2>10. CountOk'
      BY <1>7, <2>1, <2>5, <2>9 DEF CountOk
    <2> QED
      BY <2>2, <2>3, <2>4, <2>8, <2>10
  <1> QED
    BY <1>0, <1>6, <1>7 DEF AskNext

\* A child that gives its topmost slot back: the child that waited longest has
\* it at once.
LEMMA LeaveKeeps ==
  ASSUME SlotsInv, NEW c \in Clients, LeaveSlot(c)
  PROVE  /\ SlotsInv'
         /\ at'[c] = IF rung[c] = 1 THEN "over" ELSE "leaving"
         /\ \A d \in Clients : d # c => \/ at'[d] = at[d]
                                        \/ at[d] = "queued" /\ at'[d] = "granted"
  <1> USE DEF SlotsInv
  <1>0. PICK l : l = Ladder(c)[rung[c]]
    OBVIOUS
  <1>n. PICK n \in 2..4 : n = Len(Ladder(c))
    BY LadderLength
  <1>1. /\ active \in [Limiters -> Nat] /\ queue \in [Limiters -> Seq(Clients)]
        /\ rung \in [Clients -> 0..4] /\ at \in [Clients -> Places]
    BY DEF SlotTypes, LimiterTypeOK
  <1>2. /\ at[c] = "leaving" /\ ReleaseSlot(l)
        /\ rung' = [d \in Clients |-> IF d = c THEN rung[c] - 1
                                      ELSE IF Resumed(l, d) THEN rung[d] + 1 ELSE rung[d]]
        /\ at' = [d \in Clients |-> IF d = c THEN (IF rung[c] = 1 THEN "over" ELSE "leaving")
                                    ELSE IF Resumed(l, d) THEN "granted" ELSE at[d]]
    BY <1>0 DEF LeaveSlot
  <1>3. rung[c] \in 1..n
    <2>1. rung[c] \in 0..n /\ rung[c] > 0
      BY <1>2, <1>n DEF ClimbOk
    <2> QED
      BY <2>1
  <1>4. l \in Limiters
    <2>1. rung[c] \in 1..Len(Ladder(c))
      BY <1>3, <1>n
    <2> QED
      BY <1>0, <2>1, LadderFacts
  <1>5. /\ active[l] = Cardinality(Holders(rung, l)) /\ active[l] <= Limit(l)
        /\ queue[l] # <<>> => active[l] = Limit(l)
        /\ active[l] \in Nat /\ Limit(l) \in Nat
    BY <1>1, <1>4, LimitFacts DEF CountOk
  <1>6. \A k \in Limiters : \A i \in 1..Len(queue[k]) :
           /\ queue[k][i] \in Clients /\ queue[k][i] # c
           /\ at[queue[k][i]] = "queued" /\ Ladder(queue[k][i])[rung[queue[k][i]] + 1] = k
    BY <1>1, <1>2 DEF QueueOk
  <1>r. PICK r2 : r2 = [rung EXCEPT ![c] = @ - 1]
    OBVIOUS
  <1>7. OneUp(r2, rung, c, l)
    <2>1. r2[c] = rung[c] - 1 /\ \A d \in Clients : d # c => rung[d] = r2[d]
      BY <1>1, <1>r
    <2>2. r2[c] \in Nat /\ r2[c] < n /\ rung[c] = r2[c] + 1
      BY <1>3, <2>1
    <2>3. l = Ladder(c)[r2[c] + 1]
      BY <1>0, <2>2
    <2> QED
      BY <1>n, <2>1, <2>2, <2>3 DEF OneUp
  <1>8. /\ Cardinality(Holders(rung, l)) = Cardinality(Holders(r2, l)) + 1
        /\ \A k \in Limiters : k # l => Holders(rung, k) = Holders(r2, k)
    BY <1>7, OneMoreHolder
  <1>9. Cardinality(Holders(r2, l)) \in Nat
    BY HoldersFinite
  <1>10. ASSUME NEW d \in Clients, d # c, ~Resumed(l, d)
         PROVE  at'[d] = at[d] /\ rung'[d] = rung[d]
    BY <1>2, <1>10
  <1>11. at'[c] = (IF rung[c] = 1 THEN "over" ELSE "leaving") /\ rung'[c] = rung[c] - 1
    BY <1>2
  <1>12. CASE queue[l] = <<>>
    <2>1. /\ active' = [active EXCEPT ![l] = @ - 1] /\ queue' = queue
          /\ \A d \in Clients : ~Resumed(l, d)
      BY <1>2, <1>12 DEF ReleaseSlot, Resumed
    <2>2. \A d \in Clients : d # c => at'[d] = at[d] /\ rung'[d] = rung[d]
      BY <1>10, <2>1
    <2>3. rung' = r2 /\ rung' \in [Clients -> 0..4]
      <3>1. rung' = [d \in Clients |-> IF d = c THEN rung[c] - 1 ELSE rung[d]]
        BY <1>2, <2>1
      <3>2. rung' = r2
        BY <1>1, <1>r, <3>1
      <3> QED
        BY <1>1, <1>3, <3>1, <3>2
    <2>4. active[l] - 1 \in Nat /\ active[l] - 1 = Cardinality(Holders(r2, l))
      BY <1>5, <1>8, <1>9
    <2>5. SlotTypes'
      <3>1. active' \in [Limiters -> Nat]
        BY <1>1, <2>1, <2>4
      <3>2. at' \in [Clients -> Places]
        BY <1>1, <1>2 DEF Places
      <3> QED
        BY <1>1, <2>1, <2>3, <3>1, <3>2 DEF SlotTypes, LimiterTypeOK
    <2>6. ClimbOk'
      <3>1. ASSUME NEW d \in Clients
            PROVE  /\ rung'[d] \in 0..Len(Ladder(d))
                   /\ at'[d] \in {"idle", "over"} => rung'[d] = 0
                   /\ at'[d] \in {"granted", "leaving"} => rung'[d] > 0
                   /\ at'[d] = "queued" => rung'[d] < Len(Ladder(d))
                   /\ at'[d] = "running" => rung'[d] = Len(Ladder(d))
        <4>1. CASE d # c
          BY <2>2, <4>1 DEF ClimbOk, AtTop
        <4>2. CASE d = c
          <5>1. rung[c] - 1 \in 0..n /\ (rung[c] = 1 \/ rung[c] - 1 > 0)
            BY <1>3
          <5> QED
            BY <1>11, <1>n, <4>2, <5>1
        <4> QED
          BY <4>1, <4>2
      <3> QED
        BY <3>1 DEF ClimbOk, AtTop
    <2>7. QueueOk'
      BY <1>6, <2>1, <2>2 DEF QueueOk
    <2>8. CountOk'
      <3>1. ASSUME NEW k \in Limiters
            PROVE  /\ active'[k] = Cardinality(Holders(rung', k))
                   /\ active'[k] <= Limit(k)
                   /\ queue'[k] # <<>> => active'[k] = Limit(k)
        <4>1. CASE k = l
          BY <1>1, <1>5, <1>12, <2>1, <2>3, <2>4, <4>1
        <4>2. CASE k # l
          BY <1>1, <1>8, <2>1, <2>3, <4>2 DEF CountOk
        <4> QED
          BY <4>1, <4>2
      <3> QED
        BY <3>1 DEF CountOk
    <2> QED
      BY <1>11, <2>2, <2>5, <2>6, <2>7, <2>8
  <1>13. CASE queue[l] # <<>>
    <2>1. PICK h : h = Head(queue[l])
      OBVIOUS
    <2>2. /\ queue[l] \in Seq(Clients) /\ Len(queue[l]) \in Nat \ {0} /\ h = queue[l][1]
          /\ Tail(queue[l]) \in Seq(Clients) /\ Len(Tail(queue[l])) = Len(queue[l]) - 1
          /\ \A i \in 1..Len(Tail(queue[l])) :
                i + 1 \in 1..Len(queue[l]) /\ Tail(queue[l])[i] = queue[l][i + 1]
      BY <1>1, <1>4, <1>13, <2>1
    <2>3. /\ h \in Clients /\ h # c /\ at[h] = "queued"
          /\ Ladder(h)[rung[h] + 1] = l
      BY <1>4, <1>6, <2>2
    <2>4. /\ queue' = [queue EXCEPT ![l] = Tail(@)] /\ active' = active
          /\ \A d \in Clients : Resumed(l, d) <=> d = h
      BY <1>2, <1>13, <2>1 DEF ReleaseSlot, Resumed
    <2>5. /\ at'[h] = "granted" /\ rung'[h] = rung[h] + 1
          /\ \A d \in Clients : d # c /\ d # h => at'[d] = at[d] /\ rung'[d] = rung[d]
      BY <1>2, <1>10, <2>3, <2>4
    <2>6. PICK m \in 2..4 : m = Len(Ladder(h))
      BY <2>3, LadderLength
    <2>7. rung[h] \in Nat /\ rung[h] < m
      <3>1. rung[h] \in 0..m /\ rung[h] < m
        BY <2>3, <2>6 DEF ClimbOk
      <3> QED
        BY <3>1
    <2>8. OneUp(r2, rung', h, l)
      <3>1. r2[h] = rung[h] /\ r2[c] = rung[c] - 1
              /\ \A d \in Clients : d # c => r2[d] = rung[d]
        BY <1>1, <1>r, <2>3
      <3>2. \A d \in Clients : d # h => rung'[d] = r2[d]
        BY <1>11, <2>5, <3>1
      <3> QED
        BY <2>3, <2>5, <2>6, <2>7, <3>1, <3>2 DEF OneUp
    <2>9. /\ Cardinality(Holders(rung', l)) = Cardinality(Holders(r2, l)) + 1
          /\ \A k \in Limiters : k # l => Holders(rung', k) = Holders(r2, k)
      BY <2>3, <2>8, OneMoreHolder
    <2>10. SlotTypes'
      <3>1. queue' \in [Limiters -> Seq(Clients)]
        BY <1>1, <2>2, <2>4
      <3>2. rung[h] + 1 \in 0..4 /\ rung[c] - 1 \in 0..4
        BY <1>3, <2>7
      <3>3. rung' \in [Clients -> 0..4]
        BY <1>1, <1>2, <2>4, <3>2
      <3>4. at' \in [Clients -> Places]
        BY <1>1, <1>2 DEF Places
      <3> QED
        BY <1>1, <2>4, <3>1, <3>3, <3>4 DEF SlotTypes, LimiterTypeOK
    <2>11. ClimbOk'
      <3>1. ASSUME NEW d \in Clients
            PROVE  /\ rung'[d] \in 0..Len(Ladder(d))
                   /\ at'[d] \in {"idle", "over"} => rung'[d] = 0
                   /\ at'[d] \in {"granted", "leaving"} => rung'[d] > 0
                   /\ at'[d] = "queued" => rung'[d] < Len(Ladder(d))
                   /\ at'[d] = "running" => rung'[d] = Len(Ladder(d))
        <4>1. CASE d # c /\ d # h
          BY <2>5, <4>1 DEF ClimbOk, AtTop
        <4>2. CASE d = c
          <5>1. rung[c] - 1 \in 0..n /\ (rung[c] = 1 \/ rung[c] - 1 > 0)
            BY <1>3
          <5> QED
            BY <1>11, <1>n, <4>2, <5>1
        <4>3. CASE d = h
          <5>1. rung[h] + 1 \in 0..m /\ rung[h] + 1 > 0
            BY <2>7
          <5> QED
            BY <2>5, <2>6, <4>3, <5>1
        <4> QED
          BY <4>1, <4>2, <4>3
      <3> QED
        BY <3>1 DEF ClimbOk, AtTop
    <2>12. QueueOk'
      <3>1. \A i, j \in 1..Len(queue[l]) : queue[l][i] = queue[l][j] => i = j
        BY <1>4 DEF QueueOk
      <3>2. queue'[l] = Tail(queue[l]) /\ \A k \in Limiters : k # l => queue'[k] = queue[k]
        BY <1>1, <1>4, <2>4
      <3>3. ASSUME NEW i \in 1..Len(Tail(queue[l]))
            PROVE  /\ Tail(queue[l])[i] # h
                   /\ at'[Tail(queue[l])[i]] = "queued"
                   /\ Ladder(Tail(queue[l])[i])[rung'[Tail(queue[l])[i]] + 1] = l
        <4>1. i + 1 \in 1..Len(queue[l]) /\ Tail(queue[l])[i] = queue[l][i + 1] /\ i + 1 # 1
          BY <2>2
        <4>2. queue[l][i + 1] # h
          BY <2>2, <3>1, <4>1
        <4>3. /\ queue[l][i + 1] \in Clients /\ queue[l][i + 1] # c
              /\ at[queue[l][i + 1]] = "queued"
              /\ Ladder(queue[l][i + 1])[rung[queue[l][i + 1]] + 1] = l
          BY <1>4, <1>6, <4>1
        <4>4. at'[queue[l][i + 1]] = at[queue[l][i + 1]] /\ rung'[queue[l][i + 1]] = rung[queue[l][i + 1]]
          BY <2>5, <4>2, <4>3
        <4> QED
          BY <4>1, <4>2, <4>3, <4>4
      <3>4. \A i, j \in 1..Len(Tail(queue[l])) : Tail(queue[l])[i] = Tail(queue[l])[j] => i = j
        <4> SUFFICES ASSUME NEW i \in 1..Len(Tail(queue[l])), NEW j \in 1..Len(Tail(queue[l])),
                            Tail(queue[l])[i] = Tail(queue[l])[j]
                     PROVE  i = j
          OBVIOUS
        <4>1. i + 1 \in 1..Len(queue[l]) /\ j + 1 \in 1..Len(queue[l])
                /\ queue[l][i + 1] = queue[l][j + 1]
          BY <2>2
        <4>2. i + 1 = j + 1
          BY <3>1, <4>1
        <4> QED
          BY <4>2
      <3>5. ASSUME NEW k \in Limiters, k # l, NEW i \in 1..Len(queue[k])
            PROVE  at'[queue[k][i]] = "queued" /\ Ladder(queue[k][i])[rung'[queue[k][i]] + 1] = k
        <4>1. /\ queue[k][i] \in Clients /\ queue[k][i] # c
              /\ at[queue[k][i]] = "queued"
              /\ Ladder(queue[k][i])[rung[queue[k][i]] + 1] = k
          BY <1>6
        <4>2. queue[k][i] # h
          BY <2>3, <3>5, <4>1
        <4> QED
          BY <2>5, <4>1, <4>2
      <3>6. ASSUME NEW k \in Limiters
            PROVE  /\ \A i \in 1..Len(queue'[k]) :
                        at'[queue'[k][i]] = "queued"
                        /\ Ladder(queue'[k][i])[rung'[queue'[k][i]] + 1] = k
                   /\ \A i, j \in 1..Len(queue'[k]) : queue'[k][i] = queue'[k][j] => i = j
        <4>1. CASE k = l
          BY <3>2, <3>3, <3>4, <4>1, ZenonT(40)
        <4>2. CASE k # l
          <5>1. \A i, j \in 1..Len(queue[k]) : queue[k][i] = queue[k][j] => i = j
            BY DEF QueueOk
          <5> QED
            BY <3>2, <3>5, <4>2, <5>1
        <4> QED
          BY <4>1, <4>2
      <3> QED
        BY <3>6 DEF QueueOk
    <2>13. CountOk'
      <3>1. ASSUME NEW k \in Limiters
            PROVE  /\ active'[k] = Cardinality(Holders(rung', k))
                   /\ active'[k] <= Limit(k)
                   /\ queue'[k] # <<>> => active'[k] = Limit(k)
        <4>1. CASE k = l
          BY <1>5, <1>8, <1>13, <2>4, <2>9, <4>1
        <4>2. CASE k # l
          <5>1. queue'[k] = queue[k] /\ Holders(rung', k) = Holders(rung, k)
            BY <1>1, <1>8, <2>4, <2>9, <4>2
          <5> QED
            BY <2>4, <5>1 DEF CountOk
        <4> QED
          BY <4>1, <4>2
      <3> QED
        BY <3>1 DEF CountOk
    <2> QED
      BY <1>11, <2>3, <2>5, <2>10, <2>11, <2>12, <2>13
  <1> QED
    BY <1>12, <1>13

\* The first items of a batch, as many as its pool admits, are that many.
LEMMA FirstItems ==
  ASSUME NEW g \in Groups, NEW n, n \in 1..Len(ItemsOf[g]),
         NEW first, first = ToSet(SubSeq(ItemsOf[g], 1, n))
  PROVE  /\ first \subseteq Items(g)
         /\ \A i \in 1..Len(ItemsOf[g]) : ItemsOf[g][i] \in first <=> i <= n
         /\ Cardinality(first) = n
  <1>1. PICK s : s = ItemsOf[g]
    OBVIOUS
  <1>2. /\ s \in Seq(Clients) /\ Len(s) \in Nat /\ n \in 1..Len(s)
        /\ \A i \in 1..Len(s) : s[i] \in Items(g)
        /\ \A i, j \in 1..Len(s) : s[i] = s[j] => i = j
    <2>1. \A i, j \in 1..Len(ItemsOf[g]) : ItemsOf[g][i] = ItemsOf[g][j] => i = j
      BY NamesAssumption
    <2> QED
      BY <1>1, <2>1, ItemPlaces
  <1>3. PICK t : t = SubSeq(s, 1, n)
    OBVIOUS
  <1>4. /\ DOMAIN t = 1..n /\ \A i \in 1..n : t[i] = s[i]
    BY <1>2, <1>3
  <1>5. first = {s[i] : i \in 1..n}
    BY <1>1, <1>3, <1>4 DEF ToSet
  <1>6. n \in Nat /\ \A i \in 1..n : i \in 1..Len(s)
    BY <1>2
  <1>7. first \subseteq Items(g)
    BY <1>2, <1>5, <1>6
  <1>8. \A i \in 1..Len(s) : s[i] \in first <=> i <= n
    BY <1>2, <1>5, <1>6
  <1>9. Cardinality(first) = n
    <2> DEFINE f == [i \in 1..n |-> s[i]]
    <2>1. f \in [1..n -> first]
      BY <1>5
    <2>2. \A i, j \in 1..n : f[i] = f[j] => i = j
      BY <1>2, <1>6
    <2>3. \A x \in first : \E i \in 1..n : f[i] = x
      BY <1>5
    <2>4. f \in Bijection(1..n, first)
      BY <2>1, <2>2, <2>3 DEF Bijection, Injection, Surjection, IsInjective
    <2>5. ExistsBijection(1..n, first)
      BY <2>4 DEF ExistsBijection
    <2>6. IsFiniteSet(1..n) /\ Cardinality(1..n) = n
      BY <1>6, FS_Interval
    <2> QED
      BY <2>5, <2>6, FS_Bijection
  <1> QED
    BY <1>1, <1>7, <1>8, <1>9

\* A batch that starts: its items take the places of the pool in order, and
\* those that find none wait for one in order.
LEMMA StartKeeps ==
  ASSUME SlotsInv, NEW g \in Groups, \A c \in Items(g) : at[c] = "idle", StartGroup(g)
  PROVE  /\ SlotsInv'
         /\ \A c \in Items(g) : at'[c] \in {"granted", "queued"}
         /\ \A c \in Clients : c \notin Items(g) => at'[c] = at[c]
  <1> USE DEF SlotsInv
  <1>0. PICK s, share : s = ItemsOf[g] /\ share = Limit(g)
    OBVIOUS
  <1>1. /\ active \in [Limiters -> Nat] /\ queue \in [Limiters -> Seq(Clients)]
        /\ rung \in [Clients -> 0..4] /\ at \in [Clients -> Places]
        /\ g \in Limiters
    BY CapAssumption DEF SlotTypes, LimiterTypeOK
  <1>2. /\ s \in Seq(Clients) /\ Len(s) \in Nat
        /\ \A i \in 1..Len(s) : s[i] \in Items(g)
        /\ \A c \in Items(g) : \E i \in 1..Len(s) : s[i] = c
        /\ \A i, j \in 1..Len(s) : s[i] = s[j] => i = j
    BY <1>0, ItemPlaces, NamesAssumption
  <1>3. share \in 1..Len(s)
    <2>1. Limit(g) \in Nat \ {0} /\ Limit(g) <= Len(ItemsOf[g])
      BY <1>1, LimitFacts
    <2> QED
      BY <1>0, <1>2, <2>1
  <1>4. PICK first : first = ToSet(SubSeq(s, 1, share))
    OBVIOUS
  <1>5. /\ first \subseteq Items(g) /\ Cardinality(first) = share
        /\ \A i \in 1..Len(s) : s[i] \in first <=> i <= share
    BY <1>0, <1>3, <1>4, FirstItems
  <1>6. /\ active' = [active EXCEPT ![g] = share]
        /\ queue' = [queue EXCEPT ![g] = SubSeq(s, share + 1, Len(s))]
        /\ rung' = [c \in Clients |-> IF c \in first THEN 1 ELSE rung[c]]
        /\ at' = [c \in Clients |-> IF c \in first THEN "granted"
                                    ELSE IF c \in Items(g) THEN "queued" ELSE at[c]]
    BY <1>0, <1>4 DEF StartGroup
  <1>7. PICK rest : rest = SubSeq(s, share + 1, Len(s))
    OBVIOUS
  <1>8. /\ rest \in Seq(Clients)
        /\ \A i \in 1..Len(rest) : share + i \in 1..Len(s) /\ rest[i] = s[share + i]
    BY <1>2, <1>3, <1>7
  <1>9. ASSUME NEW c \in Items(g)
        PROVE  /\ c \in Clients /\ rung[c] = 0 /\ at[c] = "idle"
               /\ Len(Ladder(c)) = 4 /\ Ladder(c)[1] = g
    <2>1. c \in Clients
      BY ItemFacts
    <2>2. rung[c] = 0 /\ at[c] = "idle"
      BY <2>1 DEF ClimbOk
    <2>3. Ladder(c) = <<g, GroupGate, OwnerOf[g], PodGate>>
      BY ItemLadder
    <2> QED
      BY <2>1, <2>2, <2>3
  <1>10. /\ \A c \in first : rung'[c] = 1 /\ at'[c] = "granted"
         /\ \A c \in Items(g) : c \notin first => rung'[c] = 0 /\ at'[c] = "queued"
         /\ \A c \in Clients : c \notin Items(g) => rung'[c] = rung[c] /\ at'[c] = at[c]
    BY <1>5, <1>6, <1>9
  <1>11. SlotTypes'
    <2>1. active' \in [Limiters -> Nat]
      BY <1>1, <1>3, <1>6
    <2>2. queue' \in [Limiters -> Seq(Clients)]
      BY <1>1, <1>6, <1>7, <1>8
    <2>3. rung' \in [Clients -> 0..4]
      BY <1>1, <1>6
    <2>4. at' \in [Clients -> Places]
      BY <1>1, <1>6 DEF Places
    <2> QED
      BY <2>1, <2>2, <2>3, <2>4 DEF SlotTypes, LimiterTypeOK
  <1>12. ClimbOk'
    <2>1. ASSUME NEW c \in Clients
          PROVE  /\ rung'[c] \in 0..Len(Ladder(c))
                 /\ at'[c] \in {"idle", "over"} => rung'[c] = 0
                 /\ at'[c] \in {"granted", "leaving"} => rung'[c] > 0
                 /\ at'[c] = "queued" => rung'[c] < Len(Ladder(c))
                 /\ at'[c] = "running" => rung'[c] = Len(Ladder(c))
      <3>1. CASE c \notin Items(g)
        BY <1>10, <3>1 DEF ClimbOk, AtTop
      <3>2. CASE c \in Items(g)
        BY <1>9, <1>10, <3>2
      <3> QED
        BY <3>1, <3>2
    <2> QED
      BY <2>1 DEF ClimbOk, AtTop
  <1>13. QueueOk'
    <2>1. ASSUME NEW k \in Limiters, k # g, NEW i \in 1..Len(queue[k])
          PROVE  at'[queue[k][i]] = "queued" /\ Ladder(queue[k][i])[rung'[queue[k][i]] + 1] = k
      <3>1. /\ queue[k][i] \in Clients /\ at[queue[k][i]] = "queued"
            /\ Ladder(queue[k][i])[rung[queue[k][i]] + 1] = k
        BY <1>1 DEF QueueOk
      <3>2. queue[k][i] \notin Items(g)
        BY <1>9, <3>1
      <3> QED
        BY <1>10, <3>1, <3>2
    <2>2. ASSUME NEW i \in 1..Len(rest)
          PROVE  at'[rest[i]] = "queued" /\ Ladder(rest[i])[rung'[rest[i]] + 1] = g
      <3>1. share + i \in 1..Len(s) /\ rest[i] = s[share + i] /\ ~(share + i <= share)
        BY <1>3, <1>8
      <3>2. rest[i] \in Items(g) /\ rest[i] \notin first
        BY <1>2, <1>5, <3>1
      <3>3. rung'[rest[i]] = 0 /\ at'[rest[i]] = "queued" /\ Ladder(rest[i])[1] = g
        BY <1>9, <1>10, <3>2
      <3> QED
        BY <3>3
    <2>3. \A i, j \in 1..Len(rest) : rest[i] = rest[j] => i = j
      <3> SUFFICES ASSUME NEW i \in 1..Len(rest), NEW j \in 1..Len(rest), rest[i] = rest[j]
                   PROVE  i = j
        OBVIOUS
      <3>1. share + i \in 1..Len(s) /\ share + j \in 1..Len(s) /\ s[share + i] = s[share + j]
        BY <1>8
      <3>2. share + i = share + j
        BY <1>2, <3>1
      <3> QED
        BY <1>3, <3>2
    <2>4. queue'[g] = rest /\ \A k \in Limiters : k # g => queue'[k] = queue[k]
      BY <1>1, <1>6, <1>7
    <2>5. ASSUME NEW k \in Limiters
          PROVE  /\ \A i \in 1..Len(queue'[k]) :
                      at'[queue'[k][i]] = "queued"
                      /\ Ladder(queue'[k][i])[rung'[queue'[k][i]] + 1] = k
                 /\ \A i, j \in 1..Len(queue'[k]) : queue'[k][i] = queue'[k][j] => i = j
      <3>1. CASE k = g
        BY <2>2, <2>3, <2>4, <3>1
      <3>2. CASE k # g
        <4>1. \A i, j \in 1..Len(queue[k]) : queue[k][i] = queue[k][j] => i = j
          BY DEF QueueOk
        <4> QED
          BY <2>1, <2>4, <3>2, <4>1
      <3> QED
        BY <3>1, <3>2
    <2> QED
      BY <2>5 DEF QueueOk
  <1>14. CountOk'
    <2>1. Holders(rung', g) = first
      <3>1. ASSUME NEW c \in first PROVE c \in Holders(rung', g)
        <4>1. c \in Clients /\ rung'[c] = 1 /\ Ladder(c)[1] = g
          BY <1>5, <1>9, <1>10
        <4>2. 1 \in 1..rung'[c]
          BY <4>1
        <4> QED
          BY <4>1, <4>2 DEF Holders
      <3>2. ASSUME NEW c \in Holders(rung', g) PROVE c \in first
        <4>1. PICK i \in 1..rung'[c] : c \in Clients /\ Ladder(c)[i] = g
          BY DEF Holders
        <4>2. i \in 1..Len(Ladder(c))
          <5>1. PICK m \in 2..4 : m = Len(Ladder(c))
            BY <4>1, LadderLength
          <5>2. rung'[c] \in 0..m
            BY <1>12, <4>1, <5>1 DEF ClimbOk
          <5> QED
            BY <4>1, <5>1, <5>2
        <4>3. c \in Items(g)
          BY <4>1, <4>2, PoolIsPrivate
        <4> QED
          BY <1>10, <4>1, <4>3
      <3> QED
        BY <3>1, <3>2
    <2>2. ASSUME NEW k \in Limiters, k # g PROVE Holders(rung', k) = Holders(rung, k)
      <3>1. ASSUME NEW c \in Clients
            PROVE  (\E i \in 1..rung'[c] : Ladder(c)[i] = k) <=> \E i \in 1..rung[c] : Ladder(c)[i] = k
        <4>1. CASE c \in Items(g)
          <5>1. rung[c] = 0 /\ rung'[c] \in {0, 1} /\ Ladder(c)[1] = g
            BY <1>9, <1>10, <4>1
          <5> QED
            BY <2>2, <5>1
        <4>2. CASE c \notin Items(g)
          BY <1>10, <4>2
        <4> QED
          BY <4>1, <4>2
      <3> QED
        BY <3>1 DEF Holders
    <2>3. ASSUME NEW k \in Limiters
          PROVE  /\ active'[k] = Cardinality(Holders(rung', k))
                 /\ active'[k] <= Limit(k)
                 /\ queue'[k] # <<>> => active'[k] = Limit(k)
      <3>1. CASE k = g
        <4>1. active'[k] = share /\ share \in Nat
          BY <1>1, <1>3, <1>6, <3>1
        <4> QED
          BY <1>0, <1>5, <2>1, <3>1, <4>1
      <3>2. CASE k # g
        <4>1. active'[k] = active[k] /\ queue'[k] = queue[k] /\ Holders(rung', k) = Holders(rung, k)
          BY <1>1, <1>6, <2>2, <3>2
        <4> QED
          BY <4>1 DEF CountOk
      <3> QED
        BY <3>1, <3>2
    <2> QED
      BY <2>3 DEF CountOk
  <1> QED
    BY <1>5, <1>10, <1>11, <1>12, <1>13, <1>14

----------------------------------------------------------------------------
(* Slots and phases are kept by every step.                                *)

\* Nobody holds or awaits a slot at first.
LEMMA SlotsInit == Init => SlotsInv /\ PhaseOk
  <1> SUFFICES ASSUME Init PROVE SlotsInv /\ PhaseOk
    OBVIOUS
  <1>1. /\ active = [l \in Limiters |-> 0] /\ queue = [l \in Limiters |-> <<>>]
        /\ rung = [c \in Clients |-> 0] /\ at = [c \in Clients |-> "idle"]
        /\ phase = [g \in Groups |-> "new"]
    BY DEF Init, LimiterInit
  <1>2. SlotTypes
    BY <1>1 DEF SlotTypes, LimiterTypeOK, Places
  <1>3. ClimbOk
    <2> SUFFICES ASSUME NEW c \in Clients PROVE 0 \in 0..Len(Ladder(c))
      BY <1>1 DEF ClimbOk
    <2>1. PICK n \in 2..4 : n = Len(Ladder(c))
      BY LadderLength
    <2> QED
      BY <2>1
  <1>4. QueueOk
    <2>1. \A l \in Limiters : queue[l] = <<>>
      BY <1>1
    <2>2. 1..Len(<<>>) = {}
      OBVIOUS
    <2> QED
      BY <2>1, <2>2 DEF QueueOk
  <1>5. CountOk
    <2>1. \A c \in Clients : rung[c] = 0
      BY <1>1
    <2>2. \A l \in Limiters : Holders(rung, l) = {}
      BY <2>1 DEF Holders
    <2>3. Cardinality({}) = 0
      BY FS_EmptySet
    <2>4. ASSUME NEW l \in Limiters PROVE 0 <= Limit(l)
      <3>1. PICK n \in Nat : n = Limit(l)
        BY LimitFacts
      <3> QED
        BY <3>1
    <2>5. \A l \in Limiters : active[l] = 0 /\ queue[l] = <<>>
      BY <1>1
    <2> QED
      BY <2>2, <2>3, <2>4, <2>5 DEF CountOk
  <1>6. PhaseOk
    <2>1. \A g \in Groups : g \in Clients /\ Items(g) \subseteq Clients
      BY CapAssumption, ItemFacts
    <2> QED
      BY <1>1, <2>1 DEF PhaseOk
  <1> QED
    BY <1>2, <1>3, <1>4, <1>5, <1>6 DEF SlotsInv

\* A child that has no slot yet is not at the top of its ladder.
LEMMA IdleIsBelow ==
  ASSUME SlotsInv, NEW c \in Clients, at[c] = "idle"
  PROVE  ~AtTop(c)
  <1>1. rung[c] = 0
    BY DEF SlotsInv, ClimbOk
  <1>2. PICK n \in 2..4 : n = Len(Ladder(c))
    BY LadderLength
  <1> QED
    BY <1>1, <1>2 DEF AtTop

\* Phases stay right in a step that moves no batch, no idle child and none that
\* is over.
LEMMA PhaseFrame ==
  ASSUME PhaseOk, phase' = phase,
         \A d \in Clients : at[d] \in {"idle", "over"} => at'[d] = at[d]
  PROVE  PhaseOk'
  <1>1. \A g \in Groups : g \in Clients /\ Items(g) \subseteq Clients
    BY CapAssumption, ItemFacts
  <1> QED
    BY <1>1 DEF PhaseOk

\* Slots stay sound in a step that moves nobody.
LEMMA SlotsFrame ==
  ASSUME SlotsInv, UNCHANGED <<limiterVars, climbVars>>
  PROVE  SlotsInv'
  <1>1. active' = active /\ queue' = queue /\ rung' = rung /\ at' = at
    BY DEF limiterVars, climbVars
  <1>2. SlotTypes' /\ ClimbOk'
    BY <1>1 DEF SlotsInv, SlotTypes, LimiterTypeOK, ClimbOk, AtTop
  <1>3. QueueOk'
    BY <1>1 DEF SlotsInv, QueueOk
  <1>4. CountOk'
    BY <1>1 DEF SlotsInv, CountOk
  <1> QED
    BY <1>2, <1>3, <1>4 DEF SlotsInv

\* Every step keeps the slots sound and the phases right, and whoever is over
\* remains so.
LEMMA SlotsStep ==
  ASSUME TypeOK, SlotsInv, PhaseOk, Next
  PROVE  /\ SlotsInv' /\ PhaseOk'
         /\ \A d \in Clients : at[d] = "over" => at'[d] = "over"
  <1> DEFINE Kept == /\ SlotsInv' /\ PhaseOk'
                     /\ \A d \in Clients : at[d] = "over" => at'[d] = "over"
  <1>0. /\ at \in [Clients -> Places]
        /\ phase \in [Groups -> {"new", "map", "reduce", "over"}]
        /\ \A g \in Groups : g \in Clients /\ Items(g) \subseteq Clients
    BY CapAssumption, ItemFacts DEF SlotsInv, SlotTypes, TypeOK
  <1>1. ASSUME NEW c \in Clients, StartSingle(c) PROVE Kept
    <2>1. at[c] = "idle" /\ c \in Singles /\ AskNext(c) /\ phase' = phase
      BY <1>1 DEF StartSingle, groupVars
    <2>2. SlotsInv' /\ \A d \in Clients : d # c => at'[d] = at[d]
      BY <2>1, IdleIsBelow, AskKeeps
    <2>3. \A g \in Groups : c # g /\ c \notin Items(g)
      BY <2>1, ItemFacts, NamesAssumption
    <2>4. PhaseOk'
      BY <1>0, <2>1, <2>2, <2>3 DEF PhaseOk
    <2> QED
      BY <2>1, <2>2, <2>4
  <1>2. ASSUME NEW c \in Clients, Climb(c) PROVE Kept
    <2>1. at[c] = "granted" /\ ~AtTop(c) /\ AskNext(c) /\ phase' = phase
      BY <1>2 DEF Climb, groupVars
    <2>2. SlotsInv' /\ \A d \in Clients : d # c => at'[d] = at[d]
      BY <2>1, AskKeeps
    <2> QED
      BY <2>1, <2>2, PhaseFrame
  <1>3. ASSUME NEW c \in Clients, SkipEarly(c) \/ EnterSlot(c) \/ ChildEnds(c) PROVE Kept
    <2>1. phase' = phase /\ \E s : Moves(c, s)
      BY <1>3 DEF SkipEarly, EnterSlot, ChildEnds, groupVars, Moves
    <2>2. PICK s : Moves(c, s)
      BY <2>1
    <2>3. SlotsInv'
      BY <2>2, MoveKeeps
    <2>4. at[c] \in {"granted", "running"} /\ \A d \in Clients : d # c => at'[d] = at[d]
      BY <1>0, <2>2 DEF Moves
    <2> QED
      BY <2>1, <2>3, <2>4, PhaseFrame
  <1>4. ASSUME NEW c \in Clients, LeaveSlot(c) PROVE Kept
    <2>1. at[c] = "leaving" /\ phase' = phase
      BY <1>4 DEF LeaveSlot, groupVars
    <2>2. /\ SlotsInv'
          /\ \A d \in Clients : d # c => \/ at'[d] = at[d]
                                         \/ at[d] = "queued" /\ at'[d] = "granted"
      BY <1>4, LeaveKeeps
    <2> QED
      BY <2>1, <2>2, PhaseFrame
  <1>5. ASSUME UNCHANGED <<limiterVars, climbVars>>
        PROVE  SlotsInv' /\ at' = at
    BY <1>5, SlotsFrame DEF climbVars
  <1>6. ASSUME NEW c \in Clients, Record(c) PROVE Kept
    BY <1>5, <1>6, PhaseFrame DEF Record
  <1>7. ASSUME NEW g \in Groups, StartGroup(g) PROVE Kept
    <2>1. phase[g] = "new" /\ phase' = [phase EXCEPT ![g] = "map"]
      BY <1>7 DEF StartGroup
    <2>2. at[g] = "idle" /\ \A c \in Items(g) : at[c] = "idle"
      BY <2>1 DEF PhaseOk
    <2>3. /\ SlotsInv' /\ \A c \in Items(g) : at'[c] \in {"granted", "queued"}
          /\ \A c \in Clients : c \notin Items(g) => at'[c] = at[c]
      BY <1>7, <2>2, StartKeeps
    <2>4. \A h \in Groups : /\ h \notin Items(g)
                            /\ h # g => \A c \in Items(h) : c \notin Items(g)
      BY ItemFacts, NamesAssumption
    <2>5. \A h \in Groups : /\ at'[h] = at[h]
                            /\ h # g => phase'[h] = phase[h] /\ \A c \in Items(h) : at'[c] = at[c]
      BY <1>0, <2>1, <2>3, <2>4
    <2>6. phase'[g] = "map"
      BY <1>0, <2>1
    <2>7. PhaseOk'
      <3>1. ASSUME NEW h \in Groups
            PROVE  /\ phase'[h] = "new" => \A c \in Items(h) : at'[c] = "idle"
                   /\ phase'[h] \in {"new", "map"} => at'[h] = "idle"
                   /\ phase'[h] \in {"reduce", "over"} => \A c \in Items(h) : at'[c] = "over"
                   /\ phase'[h] = "over" => at'[h] \in {"idle", "over"}
        <4>1. CASE h = g
          BY <2>2, <2>5, <2>6, <4>1
        <4>2. CASE h # g
          BY <2>5, <4>2 DEF PhaseOk
        <4> QED
          BY <4>1, <4>2
      <3> QED
        BY <3>1 DEF PhaseOk
    <2> QED
      BY <2>2, <2>3, <2>7
  <1>8. ASSUME NEW g \in Groups, StartReduce(g) PROVE Kept
    <2>1. /\ phase[g] = "map" /\ phase' = [phase EXCEPT ![g] = "reduce"]
          /\ AskNext(g) /\ \A c \in Items(g) : at[c] = "over"
      BY <1>8 DEF StartReduce, MapOver
    <2>2. at[g] = "idle"
      BY <2>1 DEF PhaseOk
    <2>3. SlotsInv' /\ \A d \in Clients : d # g => at'[d] = at[d]
      BY <1>0, <2>1, <2>2, IdleIsBelow, AskKeeps
    <2>4. \A h \in Groups : g \notin Items(h)
      BY ItemFacts
    <2>5. \A h \in Groups : /\ \A c \in Items(h) : at'[c] = at[c]
                            /\ h # g => phase'[h] = phase[h] /\ at'[h] = at[h]
      BY <1>0, <2>1, <2>3, <2>4
    <2>6. phase'[g] = "reduce"
      BY <1>0, <2>1
    <2>7. PhaseOk'
      BY <2>1, <2>5, <2>6 DEF PhaseOk
    <2> QED
      BY <2>2, <2>3, <2>7
  <1>9. ASSUME NEW g \in Groups, EndWithoutReduce(g) \/ EndAfterReduce(g) PROVE Kept
    <2>1. /\ phase' = [phase EXCEPT ![g] = "over"] /\ UNCHANGED <<limiterVars, climbVars>>
          /\ \/ phase[g] = "map" /\ \A c \in Items(g) : at[c] = "over"
             \/ phase[g] = "reduce" /\ at[g] = "over"
      BY <1>9 DEF EndWithoutReduce, EndAfterReduce, MapOver
    <2>2. /\ at[g] \in {"idle", "over"} /\ \A c \in Items(g) : at[c] = "over"
      BY <2>1 DEF PhaseOk
    <2>3. SlotsInv' /\ at' = at
      BY <1>5, <2>1
    <2>4. phase'[g] = "over" /\ \A h \in Groups : h # g => phase'[h] = phase[h]
      BY <1>0, <2>1
    <2>5. PhaseOk'
      BY <2>2, <2>3, <2>4 DEF PhaseOk
    <2> QED
      BY <2>3, <2>5
  <1>10. ASSUME NEW g \in Groups, CancelGroup(g) \/ GroupTimer(g) PROVE Kept
    BY <1>5, <1>10, PhaseFrame DEF CancelGroup, GroupTimer
  <1> QED
    BY <1>1, <1>2, <1>3, <1>4, <1>6, <1>7, <1>8, <1>9, <1>10 DEF Next, ChildStep, GroupStep

----------------------------------------------------------------------------
(* Types, results and counts are kept by every step.                       *)

\* The types of what the limiters do not touch.
BatchTypes ==
    /\ item \in [AllItems -> ItemStatus]
    /\ result \in [Clients -> {"none", "skipped"} \cup Outcomes]
    /\ phase \in [Groups -> {"new", "map", "reduce", "over"}]
    /\ userAbort \in [Groups -> BOOLEAN]
    /\ mapAbort \in [Groups -> BOOLEAN]
    /\ timedOut \in [Groups -> BOOLEAN]
    /\ completed \in [Groups -> Nat]
    /\ failed \in [Groups -> Nat]
    /\ succeeded \in [Groups -> Nat]
    /\ trippedAtWindow \in [Groups -> BOOLEAN]
    /\ verdict \in [Groups -> {"none", "done", "partial", "failed", "timed_out"}]

\* TypeOK, in two parts.
LEMMA TypeParts == TypeOK <=> SlotTypes /\ BatchTypes
  BY DEF TypeOK, SlotTypes, BatchTypes, Places

\* A verdict is one of five.
LEMMA VerdictType ==
  ASSUME NEW g, NEW r
  PROVE  Verdict(g, r) \in {"none", "done", "partial", "failed", "timed_out"}
  BY DEF Verdict

\* Every step keeps the types of items, breakers and batches.
LEMMA BatchTypesStep ==
  ASSUME SlotTypes, BatchTypes, ItemsOk, Next
  PROVE  BatchTypes'
  <1>1. ASSUME NEW c \in Clients, StartSingle(c) \/ Climb(c) \/ LeaveSlot(c) PROVE BatchTypes'
    BY <1>1 DEF StartSingle, Climb, LeaveSlot, BatchTypes, breakerVars, groupVars
  <1>2. ASSUME NEW c \in Clients, SkipEarly(c) PROVE BatchTypes'
    BY <1>2 DEF SkipEarly, BatchTypes, breakerVars, groupVars, ItemStatus
  <1>3. ASSUME NEW c \in Clients, EnterSlot(c) PROVE BatchTypes'
    <2>1. item' \in [AllItems -> ItemStatus] /\ result' \in [Clients -> {"none", "skipped"} \cup Outcomes]
      BY <1>3 DEF EnterSlot, BatchTypes, ItemStatus
    <2> QED
      BY <1>3, <2>1 DEF EnterSlot, BatchTypes, breakerVars, groupVars
  <1>4. ASSUME NEW c \in Clients, ChildEnds(c) PROVE BatchTypes'
    BY <1>4 DEF ChildEnds, BatchTypes, breakerVars, groupVars
  <1>5. ASSUME NEW c \in Clients, Record(c) PROVE BatchTypes'
    <2>1. at[c] = "leaving" /\ c \in AllItems
      BY <1>5 DEF Record, MustRecord
    <2>2. result[c] \in ItemStatus
      BY <2>1 DEF ItemsOk, BatchTypes, ItemStatus
    <2>3. item' \in [AllItems -> ItemStatus]
      BY <1>5, <2>2 DEF Record, BatchTypes
    <2>5. GroupOf(c) \in Groups
      BY <2>1, KindFacts
    <2>4. /\ completed' \in [Groups -> Nat] /\ failed' \in [Groups -> Nat]
          /\ succeeded' \in [Groups -> Nat]
      <3>1. PICK x, y, z : x \in {0, 1} /\ y \in {0, 1} /\ z \in {0, 1}
                /\ x = (IF result[c] # "skipped" THEN 1 ELSE 0)
                /\ y = (IF result[c] = "failed" THEN 1 ELSE 0)
                /\ z = (IF result[c] = "done" THEN 1 ELSE 0)
        OBVIOUS
      <3>2. completed' = [completed EXCEPT ![GroupOf(c)] = @ + x]
        BY <1>5, <3>1 DEF Record
      <3>3. failed' = [failed EXCEPT ![GroupOf(c)] = @ + y]
        BY <1>5, <3>1 DEF Record
      <3>4. succeeded' = [succeeded EXCEPT ![GroupOf(c)] = @ + z]
        BY <1>5, <3>1 DEF Record
      <3>5. completed' \in [Groups -> Nat]
        BY <2>5, <3>1, <3>2 DEF BatchTypes
      <3>6. failed' \in [Groups -> Nat]
        BY <2>5, <3>1, <3>3 DEF BatchTypes
      <3>7. succeeded' \in [Groups -> Nat]
        BY <2>5, <3>1, <3>4 DEF BatchTypes
      <3> QED
        BY <3>5, <3>6, <3>7
    <2>6. trippedAtWindow' \in [Groups -> BOOLEAN]
      BY <1>5, <2>5 DEF Record, BatchTypes
    <2>7. mapAbort' \in [Groups -> BOOLEAN]
      BY <1>5, <2>5, <2>6 DEF Record, BatchTypes
    <2> QED
      BY <1>5, <2>3, <2>4, <2>6, <2>7 DEF Record, BatchTypes
  <1>6. ASSUME NEW g \in Groups, StartGroup(g) \/ StartReduce(g) PROVE BatchTypes'
    BY <1>6 DEF StartGroup, StartReduce, BatchTypes, breakerVars
  <1>7. ASSUME NEW g \in Groups, EndWithoutReduce(g) \/ EndAfterReduce(g) PROVE BatchTypes'
    <2>1. /\ phase' = [phase EXCEPT ![g] = "over"]
          /\ \E r : verdict' = [verdict EXCEPT ![g] = Verdict(g, r)]
          /\ UNCHANGED <<item, result, breakerVars, userAbort, mapAbort, timedOut>>
      BY <1>7 DEF EndWithoutReduce, EndAfterReduce
    <2>2. PICK v : /\ v \in {"none", "done", "partial", "failed", "timed_out"}
                   /\ verdict' = [verdict EXCEPT ![g] = v]
      BY <2>1, VerdictType
    <2> QED
      BY <2>1, <2>2 DEF BatchTypes, breakerVars
  <1>8. ASSUME NEW g \in Groups, CancelGroup(g) \/ GroupTimer(g) PROVE BatchTypes'
    BY <1>8 DEF CancelGroup, GroupTimer, BatchTypes, breakerVars
  <1> QED
    BY <1>1, <1>2, <1>3, <1>4, <1>5, <1>6, <1>7, <1>8 DEF Next, ChildStep, GroupStep

\* Results and counts stay right in a step that records nothing: nobody goes
\* down without a result, no item is down without its status, and a reduce child
\* starts only over something done.
LEMMA ItemsFrame ==
  ASSUME ItemsOk, item' = item, result' = result, succeeded' = succeeded,
         \A d \in Clients : at'[d] \in {"leaving", "over"} => at[d] \in {"leaving", "over"},
         \A d \in AllItems : at'[d] = "over" => item[d] \notin {"queued", "running"},
         \A g \in Groups : at'[g] # "idle" => at[g] # "idle" \/ DoneItems(g) # {}
  PROVE  ItemsOk'
  <1>1. \A g \in Groups : DoneItems(g)' = DoneItems(g)
    BY DEF DoneItems
  <1> QED
    BY <1>1 DEF ItemsOk

\* The result of whoever is idle or over is left alone, and so is the status of
\* such an item.
Undisturbed ==
    \A d \in Clients : at[d] \in {"idle", "over"} =>
        result'[d] = result[d] /\ (d \in AllItems => item'[d] = item[d])

\* A step of one child that is on its way, which ends nothing and starts no
\* batch's reduce child.
LEMMA OneItemStep ==
  ASSUME TypeOK, PhaseOk, ItemsOk, NEW c \in Clients, at[c] \notin {"idle", "over"},
         \A d \in Clients : d # c => at'[d] = at[d] /\ result'[d] = result[d],
         \A d \in AllItems : d # c => item'[d] = item[d],
         at'[c] \notin {"idle", "over"},
         at'[c] = "leaving" => result'[c] # "none",
         c \in AllItems /\ item'[c] = "done" =>
             \/ item[c] = "done"
             \/ succeeded'[GroupOf(c)] > 0,
         \A g \in Groups : succeeded[g] > 0 => succeeded'[g] > 0
  PROVE  ItemsOk' /\ Undisturbed
  <1>0. \A g \in Groups : phase[g] \in {"new", "map", "reduce", "over"}
    BY DEF TypeOK
  <1>1. \A d \in Clients : at'[d] \in {"leaving", "over"} => result'[d] # "none"
    BY DEF ItemsOk
  <1>2. \A d \in AllItems : d \in Clients
    BY CapAssumption DEF AllItems, Items
  <1>3. \A d \in AllItems : at'[d] = "over" => item'[d] \notin {"queued", "running"}
    BY <1>2 DEF ItemsOk
  <1>4. ASSUME NEW g \in Groups, DoneItems(g)' # {}
        PROVE  succeeded'[g] > 0
    <2>1. PICK d \in Items(g) : item'[d] = "done"
      BY <1>4 DEF DoneItems
    <2>2. d \in AllItems /\ d \in Clients /\ GroupOf(d) = g
      BY ItemFacts
    <2>3. CASE item[d] = "done"
      BY <2>3 DEF DoneItems, ItemsOk
    <2>4. CASE item[d] # "done"
      BY <2>1, <2>2, <2>4
    <2> QED
      BY <2>3, <2>4
  <1>5. ASSUME NEW g \in Groups, at'[g] # "idle"
        PROVE  DoneItems(g)' # {}
    <2>1. at[g] # "idle"
      BY <1>5, CapAssumption
    <2>2. PICK d \in Items(g) : item[d] = "done"
      BY <2>1 DEF ItemsOk, DoneItems
    <2>3. d \in AllItems
      BY ItemFacts
    <2>4. at[d] = "over"
      BY <1>0, <2>1 DEF PhaseOk
    <2> QED
      BY <2>2, <2>3, <2>4 DEF DoneItems
  <1>6. Undisturbed
    BY DEF Undisturbed
  <1> QED
    BY <1>1, <1>3, <1>4, <1>5, <1>6 DEF ItemsOk

\* Every step keeps results and counts right.
LEMMA ItemsStep ==
  ASSUME TypeOK, SlotsInv, PhaseOk, ItemsOk, Next
  PROVE  ItemsOk' /\ Undisturbed
  <1> DEFINE Quiet == item' = item /\ result' = result /\ succeeded' = succeeded
  <1>0. /\ at \in [Clients -> Places]
        /\ \A g \in Groups : g \in Clients
        /\ \A d \in AllItems : d \in Clients /\ d \notin Groups
        /\ item \in [AllItems -> ItemStatus] /\ result \in [Clients -> {"none", "skipped"} \cup Outcomes]
        /\ succeeded \in [Groups -> Nat]
    BY CapAssumption, ItemFacts, TypeParts DEF SlotTypes, BatchTypes, AllItems
  <1>1. ASSUME NEW c \in Clients, StartSingle(c) \/ Climb(c) PROVE ItemsOk' /\ Undisturbed
    <2>1. Quiet /\ AskNext(c) /\ at[c] \in {"idle", "granted"} /\ ~AtTop(c)
            /\ (at[c] = "idle" => c \in Singles)
      BY <1>1, IdleIsBelow DEF StartSingle, Climb, breakerVars
    <2>2. at'[c] \in {"granted", "queued"} /\ \A d \in Clients : d # c => at'[d] = at[d]
      BY <2>1, AskKeeps
    <2>3. \A g \in Groups : at'[g] # "idle" => at[g] # "idle"
      BY <1>0, <2>1, <2>2, NamesAssumption
    <2>4. ItemsOk'
      BY <1>0, <2>1, <2>2, <2>3, ItemsFrame DEF ItemsOk
    <2> QED
      BY <2>1, <2>4 DEF Undisturbed
  <1>2. ASSUME NEW c \in Clients, SkipEarly(c) PROVE ItemsOk' /\ Undisturbed
    <2>1. /\ at[c] = "granted" /\ at' = [at EXCEPT ![c] = "leaving"]
          /\ item' = [item EXCEPT ![c] = "skipped"] /\ result' = [result EXCEPT ![c] = "skipped"]
          /\ succeeded' = succeeded /\ c \in AllItems
      BY <1>2 DEF SkipEarly, SkippedEarly, breakerVars
    <2>2. /\ \A d \in Clients : d # c => at'[d] = at[d] /\ result'[d] = result[d]
          /\ \A d \in AllItems : d # c => item'[d] = item[d]
          /\ at'[c] = "leaving" /\ item'[c] = "skipped" /\ result'[c] = "skipped"
      BY <1>0, <2>1
    <2> QED
      BY <2>1, <2>2, OneItemStep
  <1>3. ASSUME NEW c \in Clients, EnterSlot(c) PROVE ItemsOk' /\ Undisturbed
    <2>1. /\ at[c] = "granted" /\ succeeded' = succeeded
          /\ \/ /\ at' = [at EXCEPT ![c] = "leaving"]
                /\ result' = [result EXCEPT ![c] = "skipped"]
                /\ item' = item
             \/ /\ at' = [at EXCEPT ![c] = "running"]
                /\ item' = [d \in AllItems |-> IF d = c THEN "running" ELSE item[d]]
                /\ result' = result
      BY <1>3 DEF EnterSlot, breakerVars
    <2>2. /\ \A d \in Clients : d # c => at'[d] = at[d] /\ result'[d] = result[d]
          /\ \A d \in AllItems : d # c => item'[d] = item[d]
      BY <1>0, <2>1
    <2>3. /\ at'[c] \in {"leaving", "running"}
          /\ at'[c] = "leaving" => result'[c] # "none"
          /\ c \in AllItems => item'[c] \in {item[c], "running"}
      BY <1>0, <2>1
    <2> QED
      BY <2>1, <2>2, <2>3, OneItemStep
  <1>4. ASSUME NEW c \in Clients, ChildEnds(c) PROVE ItemsOk' /\ Undisturbed
    <2>1. /\ at[c] = "running" /\ at' = [at EXCEPT ![c] = "leaving"]
          /\ item' = item /\ succeeded' = succeeded
          /\ \E o \in Outcomes : result' = [result EXCEPT ![c] = o]
      BY <1>4 DEF ChildEnds, breakerVars
    <2>2. /\ \A d \in Clients : d # c => at'[d] = at[d] /\ result'[d] = result[d]
          /\ at'[c] = "leaving" /\ result'[c] # "none"
      BY <1>0, <2>1 DEF Outcomes
    <2> QED
      BY <2>1, <2>2, OneItemStep
  <1>5. ASSUME NEW c \in Clients, Record(c) PROVE ItemsOk' /\ Undisturbed
    <2>1. /\ at[c] = "leaving" /\ c \in AllItems
          /\ item' = [item EXCEPT ![c] = result[c]] /\ result' = result /\ at' = at
      BY <1>5 DEF Record, MustRecord, climbVars
    <2> DEFINE n == IF result[c] = "done" THEN 1 ELSE 0
    <2>2. succeeded' = [succeeded EXCEPT ![GroupOf(c)] = @ + n]
      BY <1>5 DEF Record
    <2>3. GroupOf(c) \in Groups
      BY <2>1, KindFacts
    <2>4. /\ \A g \in Groups : succeeded[g] > 0 => succeeded'[g] > 0
          /\ result[c] = "done" => succeeded'[GroupOf(c)] > 0
      BY <1>0, <2>2, <2>3
    <2>5. item'[c] = result[c] /\ \A d \in AllItems : d # c => item'[d] = item[d]
      BY <1>0, <2>1
    <2>6. result'[c] # "none"
      BY <2>1 DEF ItemsOk
    <2> QED
      BY <2>1, <2>4, <2>5, <2>6, OneItemStep
  <1>6. ASSUME NEW c \in Clients, LeaveSlot(c) PROVE ItemsOk' /\ Undisturbed
    <2>1. /\ Quiet /\ at[c] = "leaving" /\ ~MustRecord(c)
      BY <1>6 DEF LeaveSlot, breakerVars
    <2>2. /\ at'[c] = IF rung[c] = 1 THEN "over" ELSE "leaving"
          /\ \A d \in Clients : d # c => \/ at'[d] = at[d]
                                         \/ at[d] = "queued" /\ at'[d] = "granted"
      BY <1>6, LeaveKeeps
    <2>3. \A d \in AllItems : at'[d] = "over" => item[d] \notin {"queued", "running"}
      BY <1>0, <2>1, <2>2 DEF MustRecord, ItemsOk
    <2>4. ItemsOk'
      BY <1>0, <2>1, <2>2, <2>3, ItemsFrame
    <2> QED
      BY <2>1, <2>4 DEF Undisturbed
  <1>7. ASSUME NEW g \in Groups, StartGroup(g) PROVE ItemsOk' /\ Undisturbed
    <2>1. Quiet /\ \A c \in Items(g) : at[c] = "idle"
      BY <1>7 DEF StartGroup, breakerVars, PhaseOk
    <2>2. /\ \A c \in Items(g) : at'[c] \in {"granted", "queued"}
          /\ \A c \in Clients : c \notin Items(g) => at'[c] = at[c]
      BY <1>7, <2>1, StartKeeps
    <2>3. \A h \in Groups : at'[h] = at[h]
      BY <1>0, <2>2, ItemFacts
    <2>4. ItemsOk'
      BY <1>0, <2>1, <2>2, <2>3, ItemsFrame DEF ItemsOk
    <2> QED
      BY <2>1, <2>4 DEF Undisturbed
  <1>8. ASSUME NEW g \in Groups, StartReduce(g) PROVE ItemsOk' /\ Undisturbed
    <2>1. Quiet /\ phase[g] = "map" /\ AskNext(g) /\ DoneItems(g) # {}
      BY <1>8 DEF StartReduce, MapOver, Reduces, breakerVars
    <2>2. at[g] = "idle"
      BY <2>1 DEF PhaseOk
    <2>3. at'[g] \in {"granted", "queued"} /\ \A d \in Clients : d # g => at'[d] = at[d]
      BY <1>0, <2>1, <2>2, IdleIsBelow, AskKeeps
    <2>4. ItemsOk'
      BY <1>0, <2>1, <2>3, ItemsFrame DEF ItemsOk
    <2> QED
      BY <2>1, <2>4 DEF Undisturbed
  <1>9. ASSUME NEW g \in Groups,
               EndWithoutReduce(g) \/ EndAfterReduce(g) \/ CancelGroup(g) \/ GroupTimer(g)
        PROVE  ItemsOk' /\ Undisturbed
    <2>1. Quiet /\ at' = at
      BY <1>9 DEF EndWithoutReduce, EndAfterReduce, CancelGroup, GroupTimer, breakerVars, climbVars
    <2>2. ItemsOk'
      BY <2>1, ItemsFrame DEF ItemsOk
    <2> QED
      BY <2>1, <2>2 DEF Undisturbed
  <1> QED
    BY <1>1, <1>2, <1>3, <1>4, <1>5, <1>6, <1>7, <1>8, <1>9 DEF Next, ChildStep, GroupStep

----------------------------------------------------------------------------
(* Batches are honest.                                                     *)

\* A reduce child has something to reduce whenever slots, phases, results and
\* counts are right.
LEMMA InputFromItems == TypeOK /\ PhaseOk /\ ItemsOk => ReduceHasInput
  <1> SUFFICES ASSUME TypeOK, PhaseOk, ItemsOk, NEW g \in Groups, at[g] # "idle"
               PROVE  /\ \A c \in Items(g) : item[c] \notin {"queued", "running"}
                      /\ \E c \in Items(g) : item[c] = "done"
    BY DEF ReduceHasInput
  <1>1. phase[g] \in {"reduce", "over"}
    BY DEF TypeOK, PhaseOk
  <1>2. \A c \in Items(g) : at[c] = "over" /\ c \in AllItems
    BY <1>1, ItemFacts DEF PhaseOk
  <1>3. DoneItems(g) # {}
    BY DEF ItemsOk
  <1> QED
    BY <1>2, <1>3 DEF ItemsOk, DoneItems

\* What VerdictIsHonest says of one batch.
Honest(g) ==
    /\ \A c \in Items(g) : item[c] \notin {"queued", "running"}
    /\ verdict[g] = "failed" => DoneItems(g) = {}
    /\ verdict[g] = "done" => /\ DoneItems(g) = Items(g)
                              /\ g \in Reducing => result[g] = "done"
    /\ verdict[g] = "timed_out" => timedOut[g] /\ ~userAbort[g]

\* A verdict on a batch whose items are all down is honest, whatever became of
\* its reduce stage.
LEMMA VerdictFacts ==
  ASSUME ItemsOk, NEW g \in Groups, NEW r
  PROVE  /\ Verdict(g, r) = "failed" => DoneItems(g) = {}
         /\ Verdict(g, r) = "done" => DoneItems(g) = Items(g) /\ r \notin {"failed", "cancelled"}
         /\ Verdict(g, r) = "timed_out" => timedOut[g] /\ ~userAbort[g]
  <1>1. tripped(g) => DoneItems(g) = {}
    BY DEF tripped, ItemsOk
  <1>2. UsableItems(g) = {} => DoneItems(g) = {}
    BY DEF UsableItems, DoneItems
  <1>3. CASE tripped(g)
    BY <1>1, <1>3 DEF Verdict
  <1>4. CASE ~tripped(g)
    BY <1>2, <1>4 DEF Verdict
  <1> QED
    BY <1>3, <1>4

\* A batch that has reported is not touched again.
LEMMA ReportIsFinal ==
  ASSUME TypeOK, Next, NEW g \in Groups, phase[g] = "over"
  PROVE  /\ verdict'[g] = verdict[g] /\ timedOut'[g] = timedOut[g]
         /\ userAbort'[g] = userAbort[g]
  <1>0. /\ verdict \in [Groups -> {"none", "done", "partial", "failed", "timed_out"}]
        /\ timedOut \in [Groups -> BOOLEAN] /\ userAbort \in [Groups -> BOOLEAN]
    BY DEF TypeOK
  <1> DEFINE Kept == /\ verdict'[g] = verdict[g] /\ timedOut'[g] = timedOut[g]
                     /\ userAbort'[g] = userAbort[g]
  <1>1. ASSUME NEW c \in Clients, StartSingle(c) \/ ChildStep(c) PROVE Kept
    BY <1>1 DEF StartSingle, ChildStep, Climb, SkipEarly, EnterSlot, ChildEnds, Record, LeaveSlot,
                groupVars
  <1>2. ASSUME NEW h \in Groups, StartGroup(h) \/ StartReduce(h) PROVE Kept
    BY <1>2 DEF StartGroup, StartReduce
  <1>3. ASSUME NEW h \in Groups, EndWithoutReduce(h) \/ EndAfterReduce(h) PROVE Kept
    <2>1. h # g /\ timedOut' = timedOut /\ userAbort' = userAbort
      BY <1>3 DEF EndWithoutReduce, EndAfterReduce, MapOver
    <2>2. \E v : verdict' = [verdict EXCEPT ![h] = v]
      BY <1>3 DEF EndWithoutReduce, EndAfterReduce
    <2> QED
      BY <1>0, <2>1, <2>2
  <1>4. ASSUME NEW h \in Groups, CancelGroup(h) PROVE Kept
    BY <1>0, <1>4 DEF CancelGroup
  <1>5. ASSUME NEW h \in Groups, GroupTimer(h) PROVE Kept
    BY <1>0, <1>5 DEF GroupTimer
  <1> QED
    BY <1>1, <1>2, <1>3, <1>4, <1>5 DEF Next, GroupStep

\* Every step keeps the verdicts honest.
LEMMA VerdictStep ==
  ASSUME TypeOK, SlotsInv, PhaseOk, ItemsOk, VerdictIsHonest, Next
  PROVE  VerdictIsHonest'
  <1> SUFFICES ASSUME NEW g \in Groups, phase'[g] = "over" PROVE Honest(g)'
    BY DEF VerdictIsHonest, Honest
  <1>0. /\ g \in Clients /\ Items(g) # {} /\ \A c \in Items(g) : c \in Clients /\ c \in AllItems
        /\ phase \in [Groups -> {"new", "map", "reduce", "over"}]
        /\ verdict \in [Groups -> {"none", "done", "partial", "failed", "timed_out"}]
    <2>1. g \in Clients
      BY CapAssumption
    <2>2. Items(g) # {}
      <3>1. PICK n \in Nat \ {0} : n = Len(ItemsOf[g])
        BY ItemPlaces
      <3>2. 1 \in 1..Len(ItemsOf[g])
        BY <3>1
      <3> QED
        BY <3>2, ItemPlaces
    <2>3. \A c \in Items(g) : c \in Clients /\ c \in AllItems
      BY ItemFacts
    <2> QED
      BY <2>1, <2>2, <2>3 DEF TypeOK
  <1>1. CASE phase[g] = "over"
    <2>1. Honest(g) /\ at[g] \in {"idle", "over"} /\ \A c \in Items(g) : at[c] = "over"
      BY <1>1 DEF VerdictIsHonest, Honest, PhaseOk
    <2>2. result'[g] = result[g] /\ \A c \in Items(g) : item'[c] = item[c]
      BY <1>0, <2>1, ItemsStep DEF Undisturbed
    <2>3. DoneItems(g)' = DoneItems(g)
      BY <2>2 DEF DoneItems
    <2>4. /\ verdict'[g] = verdict[g] /\ timedOut'[g] = timedOut[g]
          /\ userAbort'[g] = userAbort[g]
      BY <1>1, ReportIsFinal
    <2> QED
      BY <2>1, <2>2, <2>3, <2>4 DEF Honest
  <1>2. CASE phase[g] # "over"
    <2>1. EndWithoutReduce(g) \/ EndAfterReduce(g)
      <3>1. ASSUME NEW c \in Clients, StartSingle(c) \/ ChildStep(c) PROVE FALSE
        BY <1>2, <3>1 DEF StartSingle, ChildStep, Climb, SkipEarly, EnterSlot, ChildEnds, Record,
                          LeaveSlot, groupVars
      <3>2. ASSUME NEW h \in Groups, CancelGroup(h) \/ GroupTimer(h) PROVE FALSE
        BY <1>2, <3>2 DEF CancelGroup, GroupTimer
      <3>3. ASSUME NEW h \in Groups, StartGroup(h) \/ StartReduce(h) PROVE FALSE
        BY <1>0, <1>2, <3>3 DEF StartGroup, StartReduce
      <3>4. ASSUME NEW h \in Groups, EndWithoutReduce(h) \/ EndAfterReduce(h) PROVE h = g
        BY <1>0, <1>2, <3>4 DEF EndWithoutReduce, EndAfterReduce
      <3> QED
        BY <3>1, <3>2, <3>3, <3>4 DEF Next, GroupStep
    <2>2. /\ \A c \in Items(g) : at[c] = "over"
          /\ item' = item /\ result' = result /\ timedOut' = timedOut /\ userAbort' = userAbort
      BY <2>1 DEF EndWithoutReduce, EndAfterReduce, MapOver, PhaseOk
    <2>3. \A c \in Items(g) : item[c] \notin {"queued", "running"}
      BY <1>0, <2>2 DEF ItemsOk
    <2>4. PICK r : /\ verdict'[g] = Verdict(g, r)
                   /\ r \notin {"failed", "cancelled"} /\ g \in Reducing /\ DoneItems(g) = Items(g) =>
                         result[g] = "done" \/ tripped(g)
      <3>1. CASE EndWithoutReduce(g)
        <4>1. verdict'[g] = Verdict(g, IF g \in Reducing /\ userAbort[g] THEN "cancelled" ELSE "none")
          BY <1>0, <3>1 DEF EndWithoutReduce
        <4>2. ~(g \in Reducing /\ ~userAbort[g] /\ DoneItems(g) # {} /\ ~tripped(g))
          BY <3>1 DEF EndWithoutReduce, Reduces
        <4> QED
          BY <1>0, <4>1, <4>2
      <3>2. CASE EndAfterReduce(g)
        <4>1. verdict'[g] = Verdict(g, IF result[g] = "done" THEN "done" ELSE "failed")
          BY <1>0, <3>2 DEF EndAfterReduce
        <4> QED
          BY <4>1
      <3> QED
        BY <2>1, <3>1, <3>2
    <2>5. tripped(g) => Verdict(g, r) = "failed"
      BY DEF Verdict
    <2>6. DoneItems(g)' = DoneItems(g)
      BY <2>2 DEF DoneItems
    <2> QED
      BY <2>2, <2>3, <2>4, <2>5, <2>6, VerdictFacts DEF Honest
  <1> QED
    BY <1>1, <1>2

----------------------------------------------------------------------------
(* The theorems.                                                           *)

\* The initial state satisfies the inductive invariant.
LEMMA GroupsInit == Init => GroupsInv
  <1> SUFFICES ASSUME Init PROVE GroupsInv
    OBVIOUS
  <1>1. SlotsInv /\ PhaseOk
    BY SlotsInit
  <1>2. BatchTypes
    BY DEF Init, BatchTypes, ItemStatus
  <1>3. TypeOK
    BY <1>1, <1>2, TypeParts DEF SlotsInv
  <1>4. ItemsOk
    <2>1. \A g \in Groups : g \in Clients /\ DoneItems(g) = {}
      BY CapAssumption, ItemFacts DEF Init, DoneItems
    <2>2. \A d \in AllItems : d \in Clients
      BY CapAssumption DEF AllItems, Items
    <2> QED
      BY <2>1, <2>2 DEF Init, ItemsOk
  <1>5. ReduceHasInput
    BY <1>1, <1>3, <1>4, InputFromItems
  <1>6. VerdictIsHonest
    BY DEF Init, VerdictIsHonest
  <1> QED
    BY <1>1, <1>3, <1>4, <1>5, <1>6 DEF GroupsInv, BatchIsHonest

\* Every step preserves it.
LEMMA GroupsStep == GroupsInv /\ [Next]_vars => GroupsInv'
  <1> SUFFICES ASSUME GroupsInv, [Next]_vars PROVE GroupsInv'
    OBVIOUS
  <1>0. /\ TypeOK /\ SlotsInv /\ PhaseOk /\ ItemsOk /\ VerdictIsHonest
        /\ SlotTypes /\ BatchTypes
    BY TypeParts DEF GroupsInv, BatchIsHonest
  <1>1. CASE Next
    <2>1. SlotsInv' /\ PhaseOk'
      BY <1>0, <1>1, SlotsStep
    <2>2. SlotTypes' /\ BatchTypes'
      BY <1>0, <1>1, <2>1, BatchTypesStep DEF SlotsInv
    <2>3. TypeOK'
      BY <2>2 DEF TypeOK, SlotTypes, BatchTypes, Places
    <2>4. ItemsOk'
      BY <1>0, <1>1, ItemsStep
    <2>5. VerdictIsHonest'
      BY <1>0, <1>1, VerdictStep
    <2>6. ReduceHasInput'
      BY <2>1, <2>3, <2>4, InputFromItems, PTL
    <2> QED
      BY <2>1, <2>3, <2>4, <2>5, <2>6 DEF GroupsInv, BatchIsHonest
  <1>2. CASE UNCHANGED vars
    <2>1. UNCHANGED <<limiterVars, climbVars>> /\ at' = at /\ phase' = phase
      BY <1>2 DEF vars, climbVars, groupVars
    <2>2. SlotsInv' /\ PhaseOk'
      BY <1>0, <2>1, SlotsFrame, PhaseFrame
    <2>3. BatchTypes'
      BY <1>0, <1>2 DEF BatchTypes, vars, breakerVars, groupVars
    <2>4. TypeOK'
      BY <2>2, <2>3 DEF SlotsInv, TypeOK, SlotTypes, BatchTypes, Places
    <2>5. item' = item /\ result' = result /\ succeeded' = succeeded
      BY <1>2 DEF vars, breakerVars
    <2>6. ItemsOk'
      BY <1>0, <2>1, <2>5, ItemsFrame DEF ItemsOk
    <2>7. VerdictIsHonest'
      BY <1>0, <1>2 DEF VerdictIsHonest, DoneItems, vars, groupVars
    <2>8. ReduceHasInput'
      BY <2>2, <2>4, <2>6, InputFromItems, PTL
    <2> QED
      BY <2>2, <2>4, <2>6, <2>7, <2>8 DEF GroupsInv, BatchIsHonest
  <1> QED
    BY <1>1, <1>2

\* A limiter holds as many slots as children hold of it, so a batch can never
\* take the last slot of the box, nor that of its session: its reduce child and
\* its items come through the gate of the batches, its items through its pool.
LEMMA SpawnKeeps == SlotsInv => SpawnKeepsASlot
  <1> SUFFICES ASSUME SlotsInv PROVE SpawnKeepsASlot
    OBVIOUS
  <1>1. ASSUME NEW l \in Limiters, NEW S \in SUBSET Holders(rung, l)
        PROVE  Cardinality(S) \in Nat /\ Cardinality(S) <= Limit(l)
    <2>1. IsFiniteSet(S) /\ Cardinality(S) <= Cardinality(Holders(rung, l))
      BY HoldersFinite, FS_Subset
    <2>2. Cardinality(S) \in Nat
      BY <2>1, FS_CardinalityType
    <2>3. Cardinality(Holders(rung, l)) <= Limit(l)
      BY DEF SlotsInv, CountOk
    <2>4. Cardinality(Holders(rung, l)) \in Nat /\ Limit(l) \in Nat
      BY HoldersFinite, LimitFacts
    <2> QED
      BY <2>1, <2>2, <2>3, <2>4
  <1>2. ASSUME NEW c \in Clients, NEW i \in 1..rung[c]
        PROVE  i \in 1..Len(Ladder(c)) /\ rung[c] \in Nat
    <2>1. PICK n \in 2..4 : n = Len(Ladder(c))
      BY LadderLength
    <2>2. rung[c] \in 0..n
      BY <2>1 DEF SlotsInv, ClimbOk
    <2> QED
      BY <2>1, <2>2
  <1>3. ASSUME PodCap > 1
        PROVE  Cardinality({c \in Clients \ Singles : Holds(c, PodGate)}) < PodCap
    <2> DEFINE S == {c \in Clients \ Singles : Holds(c, PodGate)}
    <2>1. ASSUME NEW c \in S PROVE c \in Holders(rung, GroupGate)
      <3>1. PICK i \in 1..rung[c] : c \in Clients /\ c \notin Singles /\ Ladder(c)[i] = PodGate
        BY DEF Holds
      <3>2. i \in 1..Len(Ladder(c)) /\ rung[c] \in Nat
        BY <1>2, <3>1
      <3>3. CASE c \in Groups
        <4>1. Ladder(c) = <<GroupGate, OwnerOf[c], PodGate>>
          BY <3>1, <3>3 DEF Ladder
        <4>2. 1 \in 1..rung[c] /\ Ladder(c)[1] = GroupGate
          BY <3>1, <3>2, <4>1
        <4> QED
          BY <3>1, <4>2 DEF Holders
      <3>4. CASE c \in AllItems
        <4>1. PICK g \in Groups : c \in Items(g)
          BY <3>4 DEF AllItems
        <4>2. Ladder(c) = <<g, GroupGate, OwnerOf[g], PodGate>>
          BY <4>1, ItemLadder
        <4>3. i # 1
          BY <3>1, <4>2, NamesAssumption
        <4>4. 2 \in 1..rung[c] /\ Ladder(c)[2] = GroupGate
          BY <3>1, <3>2, <4>2, <4>3
        <4> QED
          BY <3>1, <4>4 DEF Holders
      <3> QED
        BY <3>1, <3>3, <3>4, KindFacts
    <2>2. GroupGate \in Limiters /\ Limit(GroupGate) = PodCap - 1 /\ PodCap \in Nat
      BY <1>3, CapAssumption, NamesAssumption DEF Limit, AtLeastOne
    <2>3. S \in SUBSET Holders(rung, GroupGate)
      BY <2>1
    <2>4. Cardinality(S) \in Nat /\ Cardinality(S) <= PodCap - 1
      BY <1>1, <2>2, <2>3
    <2> QED
      BY <2>2, <2>4
  <1>4. ASSUME SessionCap > 1, NEW g \in Groups
        PROVE  Cardinality({c \in Items(g) : Holds(c, OwnerOf[g])}) < SessionCap
    <2> DEFINE S == {c \in Items(g) : Holds(c, OwnerOf[g])}
    <2>1. ASSUME NEW c \in S PROVE c \in Holders(rung, g)
      <3>1. PICK i \in 1..rung[c] : c \in Items(g) /\ Ladder(c)[i] = OwnerOf[g]
        BY DEF Holds
      <3>2. c \in Clients
        BY <3>1, ItemFacts
      <3>3. rung[c] \in Nat
        BY <1>2, <3>1, <3>2
      <3>4. Ladder(c) = <<g, GroupGate, OwnerOf[g], PodGate>>
        BY <3>1, ItemLadder
      <3>5. 1 \in 1..rung[c] /\ Ladder(c)[1] = g
        BY <3>1, <3>3, <3>4
      <3> QED
        BY <3>2, <3>5 DEF Holders
    <2>2. PICK n \in Nat \ {0} : n = Len(ItemsOf[g])
      BY ItemPlaces
    <2>3. g \in Limiters /\ Limit(g) <= SessionCap - 1 /\ SessionCap \in Nat /\ Limit(g) \in Nat
      BY <1>4, <2>2, CapAssumption, NamesAssumption DEF Limit, AtLeastOne
    <2>4. S \in SUBSET Holders(rung, g)
      BY <2>1
    <2>5. Cardinality(S) \in Nat /\ Cardinality(S) <= Limit(g)
      BY <1>1, <2>3, <2>4
    <2> QED
      BY <2>3, <2>5
  <1> QED
    BY <1>3, <1>4 DEF SpawnKeepsASlot

\* GroupsInv holds in every reachable state.
LEMMA GroupsAlways == Spec => []GroupsInv
  BY GroupsInit, GroupsStep, PTL DEF Spec

\* However children queue, get slots, are skipped, fail and leave, the
\* ConcurrencyLimiters of a box count exactly the children that hold a slot,
\* stay within their capacities, make nobody wait at a free slot, and batches
\* leave a slot of the box, and of their session, to single spawns.
THEOREM SlotsAlwaysSound == Spec => []SlotsAreSound
  <1>1. GroupsInv => SlotsAreSound
    <2>1. SlotsInv => SlotsAreExact
      BY DEF SlotsInv, CountOk, SlotsAreExact, Holders, Holds
    <2> QED
      BY <2>1, SpawnKeeps DEF GroupsInv, SlotsAreSound
  <1> QED
    BY <1>1, GroupsAlways, PTL

\* runSubagentGroup never starts a reduce child over nothing, nor reports a
\* status its items do not bear out, whatever the timer, a Stop and the breaker
\* do meanwhile.
THEOREM BatchAlwaysHonest == Spec => []BatchIsHonest
  <1>1. GroupsInv => BatchIsHonest
    BY DEF GroupsInv
  <1> QED
    BY <1>1, GroupsAlways, PTL

\* An item of an aborted batch does not start, however long it waited: runOne()
\* looks at the abort signal again when its last slot is there.
THEOREM AbortedBatchStartsNoItem == Spec => NoItemStartsAfterAbort
  <1> DEFINE A == \A g \in Groups : mapAbort[g] =>
                     \A c \in Items(g) : at[c] # "running" => at'[c] # "running"
  <1>1. ASSUME GroupsInv, [Next]_vars PROVE A
    <2> SUFFICES ASSUME NEW g \in Groups, mapAbort[g], NEW c \in Items(g), at[c] # "running"
                 PROVE  at'[c] # "running"
      OBVIOUS
    <2>0. /\ c \in Clients /\ c \in AllItems /\ c \notin Groups /\ GroupOf(c) = g
          /\ at \in [Clients -> Places] /\ SlotsInv /\ PhaseOk
      BY <1>1, ItemFacts DEF GroupsInv, SlotsInv, SlotTypes
    <2>1. ASSUME NEW d \in Clients, StartSingle(d) \/ Climb(d) PROVE at'[c] # "running"
      <3>1. AskNext(d) /\ at[d] \in {"idle", "granted"} /\ ~AtTop(d)
        BY <2>0, <2>1, IdleIsBelow DEF StartSingle, Climb
      <3>2. at'[d] \in {"granted", "queued"} /\ \A e \in Clients : e # d => at'[e] = at[e]
        BY <2>0, <3>1, AskKeeps
      <3> QED
        BY <2>0, <3>2
    <2>2. ASSUME NEW d \in Clients, SkipEarly(d) \/ ChildEnds(d) PROVE at'[c] # "running"
      BY <2>0, <2>2 DEF SkipEarly, ChildEnds
    <2>3. ASSUME NEW d \in Clients, EnterSlot(d) PROVE at'[c] # "running"
      BY <2>0, <2>3 DEF EnterSlot, SkippedInSlot
    <2>4. ASSUME NEW d \in Clients, LeaveSlot(d) PROVE at'[c] # "running"
      <3>1. /\ at'[d] = IF rung[d] = 1 THEN "over" ELSE "leaving"
            /\ \A e \in Clients : e # d => \/ at'[e] = at[e]
                                           \/ at[e] = "queued" /\ at'[e] = "granted"
        BY <2>0, <2>4, LeaveKeeps
      <3> QED
        BY <2>0, <3>1
    <2>5. ASSUME NEW h \in Groups, StartGroup(h) PROVE at'[c] # "running"
      BY <2>0, <2>5 DEF StartGroup
    <2>6. ASSUME NEW h \in Groups, StartReduce(h) PROVE at'[c] # "running"
      BY <2>0, <2>6 DEF StartReduce, AskNext
    <2>7. ASSUME UNCHANGED at PROVE at'[c] # "running"
      BY <2>7
    <2>8. ASSUME NEW d \in Clients, Record(d) PROVE UNCHANGED at
      BY <2>8 DEF Record, climbVars
    <2>9. ASSUME NEW h \in Groups,
                 EndWithoutReduce(h) \/ EndAfterReduce(h) \/ CancelGroup(h) \/ GroupTimer(h)
          PROVE  UNCHANGED at
      BY <2>9 DEF EndWithoutReduce, EndAfterReduce, CancelGroup, GroupTimer, climbVars
    <2>10. ASSUME UNCHANGED vars PROVE UNCHANGED at
      BY <2>10 DEF vars, climbVars
    <2> QED
      BY <1>1, <2>1, <2>2, <2>3, <2>4, <2>5, <2>6, <2>7, <2>8, <2>9, <2>10
         DEF Next, ChildStep, GroupStep
  <1>2. GroupsInv /\ [Next]_vars => [A]_vars
    BY <1>1
  <1> QED
    BY <1>2, GroupsAlways, PTL DEF Spec, NoItemStartsAfterAbort

=============================================================================
