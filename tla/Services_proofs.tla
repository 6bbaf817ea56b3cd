---------------------------- MODULE Services_proofs ----------------------------
(***************************************************************************)
(* Proofs about three parts that MCServices puts into one run: the script  *)
(* sandbox, the scheduled task and the usage outbox.  For any number of    *)
(* runs, instances, reconciliations, calls, observations and failures, an  *)
(* instance is executed on once and none survives the shutdown unless its  *)
(* provider refused to destroy it; the schedule is sound; and the usage of *)
(* a run is pending with a sender, with the consumer, or counted missing.  *)
(* At the end, that the run behaves as each of its six parts does, whose   *)
(* theorems therefore hold of it.                                          *)
(***************************************************************************)
EXTENDS MCServices, CapabilityRun_proofs, PlanWrites_proofs, SubagentMailbox_proofs, FiniteSetTheorems, TLAPS

-------------------------------------------------------------------------------
(* ScriptSandbox.                                                          *)

----------------------------------------------------------------------------
(* The warm entries.                                                       *)

Distinct(s) == \A i, j \in 1..Len(s) : s[i] = s[j] => i = j
Elements(s) == {s[i] : i \in 1..Len(s)}

LEMMA HeldContains ==
  ASSUME NEW S, NEW s \in Seq(S), NEW e
  PROVE  (Contains(s, e) <=> e \in Elements(s)) /\ Range(s) = Elements(s)
  BY DEF Contains, Elements, Range

LEMMA HeldAppend ==
  ASSUME NEW S, NEW s \in Seq(S), Distinct(s), NEW e \in S, e \notin Elements(s)
  PROVE  Append(s, e) \in Seq(S) /\ Distinct(Append(s, e)) /\ Elements(Append(s, e)) = Elements(s) \cup {e}
  <1>1. PICK t : t = Append(s, e)
    OBVIOUS
  <1>2. t \in Seq(S) /\ Len(t) = Len(s) + 1 /\ t[Len(s) + 1] = e /\ \A i \in 1..Len(s) : t[i] = s[i]
    BY <1>1
  <1>3. \A i \in 1..Len(t) : i \in 1..Len(s) \/ i = Len(s) + 1
    BY <1>2
  <1>4. Distinct(t)
    BY <1>2, <1>3 DEF Distinct, Elements
  <1>5. Elements(t) = Elements(s) \cup {e}
    <2>1. \A i \in 1..Len(s) : i \in 1..Len(t)
      BY <1>2
    <2>2. Len(s) + 1 \in 1..Len(t)
      BY <1>2
    <2> QED
      BY <1>2, <1>3, <2>1, <2>2 DEF Elements
  <1> QED
    BY <1>1, <1>2, <1>4, <1>5

\* The first n leave.
LEMMA HeldRest ==
  ASSUME NEW S, NEW s \in Seq(S), Distinct(s), NEW n \in 0..Len(s)
  PROVE  /\ SubSeq(s, n + 1, Len(s)) \in Seq(S) /\ Distinct(SubSeq(s, n + 1, Len(s)))
         /\ Elements(SubSeq(s, n + 1, Len(s))) = Elements(s) \ {s[i] : i \in 1..n}
  <1>1. PICK t : t = SubSeq(s, n + 1, Len(s))
    OBVIOUS
  <1>2. t \in Seq(S) /\ Len(t) = Len(s) - n /\ \A i \in 1..Len(t) : t[i] = s[i + n]
    BY <1>1
  <1>3. \A i \in 1..Len(t) : i + n \in 1..Len(s) /\ i + n \notin 1..n
    BY <1>2
  <1>4. \A i \in 1..Len(s) : i \in 1..n \/ i - n \in 1..Len(t)
    BY <1>2
  <1>5. Distinct(t)
    BY <1>2, <1>3 DEF Distinct
  <1>6. ASSUME NEW x \in Elements(t) PROVE x \in Elements(s) \ {s[i] : i \in 1..n}
    <2>1. PICK j \in 1..Len(t) : x = s[j + n]
      BY <1>2 DEF Elements
    <2>2. \A i \in 1..n : i \in 1..Len(s) /\ i # j + n
      BY <1>3
    <2> QED
      BY <1>3, <2>1, <2>2 DEF Elements, Distinct
  <1>7. ASSUME NEW x \in Elements(s), x \notin {s[i] : i \in 1..n} PROVE x \in Elements(t)
    <2>1. PICK j \in 1..Len(s) : x = s[j] /\ j \notin 1..n
      BY <1>7 DEF Elements
    <2>2. j - n \in 1..Len(t) /\ (j - n) + n = j
      BY <1>4, <2>1
    <2>3. t[j - n] = x
      BY <1>2, <2>1, <2>2
    <2> QED
      BY <2>2, <2>3 DEF Elements
  <1> QED
    BY <1>1, <1>2, <1>5, <1>6, <1>7

LEMMA HeldTail ==
  ASSUME NEW S, NEW s \in Seq(S), Distinct(s), s # <<>>
  PROVE  /\ Head(s) \in S /\ Head(s) \in Elements(s)
         /\ Tail(s) \in Seq(S) /\ Distinct(Tail(s)) /\ Elements(Tail(s)) = Elements(s) \ {Head(s)}
  <1>1. Tail(s) = SubSeq(s, 1 + 1, Len(s)) /\ 1 \in 0..Len(s) /\ 1 \in 1..Len(s)
    OBVIOUS
  <1>2. Head(s) = s[1] /\ Head(s) \in S
    OBVIOUS
  <1>3. {s[i] : i \in 1..1} = {Head(s)}
    BY <1>2
  <1>4. /\ SubSeq(s, 1 + 1, Len(s)) \in Seq(S) /\ Distinct(SubSeq(s, 1 + 1, Len(s)))
        /\ Elements(SubSeq(s, 1 + 1, Len(s))) = Elements(s) \ {s[i] : i \in 1..1}
    BY <1>1, HeldRest
  <1> QED
    BY <1>1, <1>2, <1>3, <1>4 DEF Elements

\* One is spliced out.
LEMMA HeldRemove ==
  ASSUME NEW S, NEW s \in Seq(S), Distinct(s), NEW k \in 1..Len(s)
  PROVE  RemoveAt(s, k) \in Seq(S) /\ Distinct(RemoveAt(s, k)) /\ Elements(RemoveAt(s, k)) = Elements(s) \ {s[k]}
  <1>1. PICK a, b : a = SubSeq(s, 1, k - 1) /\ b = SubSeq(s, k + 1, Len(s))
    OBVIOUS
  <1>2. /\ a \in Seq(S) /\ Len(a) = k - 1 /\ \A i \in 1..(k - 1) : a[i] = s[i]
        /\ b \in Seq(S) /\ Len(b) = Len(s) - k /\ \A i \in 1..(Len(s) - k) : b[i] = s[i + k]
    BY <1>1
  <1>3. PICK t : t = a \o b
    OBVIOUS
  <1>4. RemoveAt(s, k) = t
    BY <1>1, <1>3 DEF RemoveAt
  <1>5. t \in Seq(S) /\ Len(t) = Len(s) - 1
    BY <1>2, <1>3
  <1>6. \A i \in 1..Len(t) : t[i] = IF i < k THEN s[i] ELSE s[i + 1]
    <2> SUFFICES ASSUME NEW i \in 1..Len(t) PROVE t[i] = IF i < k THEN s[i] ELSE s[i + 1]
      OBVIOUS
    <2>1. CASE i < k
      BY <1>2, <1>3, <2>1
    <2>2. CASE ~(i < k)
      <3>1. t[i] = b[i - (k - 1)] /\ i - (k - 1) \in 1..(Len(s) - k)
        BY <1>2, <1>3, <1>5, <2>2
      <3>2. (i - (k - 1)) + k = i + 1
        OBVIOUS
      <3> QED
        BY <1>2, <2>2, <3>1, <3>2
    <2> QED
      BY <2>1, <2>2
  <1>7. Distinct(t)
    <2> SUFFICES ASSUME NEW i \in 1..Len(t), NEW j \in 1..Len(t), t[i] = t[j] PROVE i = j
      BY DEF Distinct
    <2>1. i \in 1..Len(s) /\ i + 1 \in 1..Len(s) /\ j \in 1..Len(s) /\ j + 1 \in 1..Len(s)
      BY <1>5
    <2> QED
      BY <1>6, <2>1 DEF Distinct
  <1>8. ASSUME NEW x \in Elements(t) PROVE x \in Elements(s) \ {s[k]}
    <2>1. PICK i \in 1..Len(t) : x = t[i]
      BY DEF Elements
    <2>2. i \in 1..Len(s) /\ i + 1 \in 1..Len(s)
      BY <1>5
    <2> QED
      BY <1>6, <2>1, <2>2 DEF Elements, Distinct
  <1>9. ASSUME NEW x \in Elements(s), x # s[k] PROVE x \in Elements(t)
    <2>1. PICK j \in 1..Len(s) : x = s[j] /\ j # k
      BY <1>9 DEF Elements
    <2>2. CASE j < k
      BY <1>5, <1>6, <2>1, <2>2 DEF Elements
    <2>3. CASE ~(j < k)
      <3>1. j - 1 \in 1..Len(t) /\ ~(j - 1 < k) /\ (j - 1) + 1 = j
        BY <1>5, <2>1, <2>3
      <3>2. t[j - 1] = x
        BY <1>6, <2>1, <3>1
      <3> QED
        BY <3>1, <3>2 DEF Elements
    <2> QED
      BY <2>2, <2>3
  <1> QED
    BY <1>4, <1>5, <1>7, <1>8, <1>9

----------------------------------------------------------------------------
(* What is always so.                                                      *)

States == {"none", "idle", "used", "retiring", "stuck", "gone"}
Stages == {"out", "authorizing", "joined", "shifting", "retiring", "starting", "executing", "over"}
Closed == {"idle", "again", "done"}

SandboxTyped ==
    /\ instance \in [Instances -> States]
    /\ idle \in Seq(Instances) /\ Distinct(idle)
    /\ expired \subseteq Instances /\ retiring \subseteq Instances
    /\ filling \in [at : {"no", "starting", "retiring"}, channel : Instances \cup {NoInstance}]
    /\ run \in [Runs -> [at : Stages, channel : Instances \cup {NoInstance}, aborted : BOOLEAN]]
    /\ closing \in {"no", "runs", "filling"} \cup Closed

\* What the steps of a shutdown have left behind them.
ShutdownFollows ==
    /\ shut <=> closing \in {"filling"} \cup Closed
    /\ closing # "no" => refusing
    /\ shut => \A r \in Runs : run[r].at \in {"out", "over"}
    /\ closing \in Closed => filling.at = "no"
    /\ closing = "done" => retiring = {} /\ Elements(idle) = {}

\* An instance that is idle or being retired is where it is looked for.
InstancesArePlaced ==
    /\ \A c \in Elements(idle) : instance[c] = "idle" \/ closing \in Closed
    /\ \A c \in Instances : instance[c] = "idle" => c \in Elements(idle) /\ closing \notin Closed
    /\ \A c \in Instances : instance[c] = "retiring" => c \in retiring
    /\ \A c \in retiring : instance[c] \in {"retiring", "stuck"}

\* A used instance has its run, and a run what it uses.
Owns(i, n) ==
    /\ \A r \in Runs : n[r].at = "executing" => n[r].channel \in Instances /\ i[n[r].channel] = "used"
    /\ \A r \in Runs : n[r].at = "retiring" => n[r].channel \in Instances /\ i[n[r].channel] = "retiring"
    /\ \A r \in Runs : n[r].at \notin {"executing", "retiring"} => n[r].channel = NoInstance
    /\ \A q, r \in Runs : n[q].at = "executing" /\ n[r].at = "executing" /\ q # r
                              => n[q].channel # n[r].channel
    /\ \A c \in Instances : i[c] = "used" => \E r \in Runs : n[r].at = "executing" /\ n[r].channel = c

RunsOwn == Owns(instance, run)

\* Instances are numbered as they are made.
MadeInOrder == \A c, d \in Instances : c < d /\ instance[d] # "none" => instance[c] # "none"

SandboxInv == ShutdownFollows /\ InstancesArePlaced /\ RunsOwn /\ MadeInOrder

LEMMA Numbers == MaxInstances \in Nat /\ NoInstance \notin Instances /\ \A c \in Instances : c \in Nat
  BY SandboxAssumption DEF NoInstance, Instances

\* A new instance is one that was not there.
LEMMA MakesFresh ==
  ASSUME SandboxTyped, MadeInOrder, NEW c \in Instances, NEW as \in States \ {"none"}, Makes(c, as)
  PROVE  /\ instance[c] = "none" /\ instance' = [instance EXCEPT ![c] = as]
         /\ MadeInOrder'
  <1>1. Made \subseteq 1..MaxInstances /\ IsFiniteSet(1..MaxInstances)
    BY Numbers, FS_Interval DEF Made, Instances
  <1>2. IsFiniteSet(Made) /\ Cardinality(Made) \in Nat
    BY <1>1, FS_Subset, FS_CardinalityType
  <1>3. c = Cardinality(Made) + 1 /\ instance' = [instance EXCEPT ![c] = as]
    BY DEF Makes
  <1>4. instance[c] = "none"
    <2> SUFFICES ASSUME c \in Made PROVE FALSE
      BY DEF Made
    <2>1. 1..c \subseteq Made
      BY Numbers DEF Made, MadeInOrder, Instances
    <2>2. Cardinality(1..c) = c
      BY Numbers, FS_Interval DEF Instances
    <2>3. Cardinality(1..c) <= Cardinality(Made)
      BY <1>2, <2>1, FS_Subset
    <2> QED
      BY <1>2, <1>3, <2>2, <2>3
  <1>5. \A d \in Instances : d < c => instance[d] # "none"
    <2> SUFFICES ASSUME NEW d \in Instances, d < c, d \notin Made PROVE FALSE
      BY DEF Made
    <2>1. Made \subseteq 1..(d - 1)
      BY Numbers DEF Made, MadeInOrder, Instances
    <2>2. IsFiniteSet(1..(d - 1)) /\ Cardinality(1..(d - 1)) = d - 1
      BY Numbers, FS_Interval DEF Instances
    <2>3. Cardinality(Made) <= d - 1
      BY <2>1, <2>2, FS_Subset
    <2> QED
      BY <1>2, <1>3, <2>3, Numbers
  <1>6. MadeInOrder'
    BY <1>3, <1>5 DEF MadeInOrder, SandboxTyped
  <1> QED
    BY <1>3, <1>4, <1>6

----------------------------------------------------------------------------
(* Who owns what, when an instance or a run changes.                       *)

RunState == [at : Stages, channel : Instances \cup {NoInstance}, aborted : BOOLEAN]

\* The one changed run, written out.
Gets(n, r, s, c, a) == [n EXCEPT ![r] = [at |-> s, channel |-> c, aborted |-> a]]

LEMMA RunAt ==
  ASSUME NEW n \in [Runs -> RunState], NEW r \in Runs, NEW s
  PROVE  [n EXCEPT ![r].at = s] = Gets(n, r, s, n[r].channel, n[r].aborted)
  <1>1. PICK x \in RunState : x = n[r]
    OBVIOUS
  <1>2. [x EXCEPT !.at = s] = [at |-> s, channel |-> x.channel, aborted |-> x.aborted]
    BY DEF RunState
  <1> QED
    BY <1>1, <1>2, Zenon DEF Gets

LEMMA RunAborted ==
  ASSUME NEW n \in [Runs -> RunState], NEW r \in Runs
  PROVE  [n EXCEPT ![r].aborted = TRUE] = Gets(n, r, n[r].at, n[r].channel, TRUE)
  <1>1. PICK x \in RunState : x = n[r]
    OBVIOUS
  <1>2. \A b : [x EXCEPT !.aborted = b] = [at |-> x.at, channel |-> x.channel, aborted |-> b]
    BY DEF RunState
  <1> QED
    BY <1>1, <1>2, Zenon DEF Gets

LEMMA RunTakes ==
  ASSUME NEW n \in [Runs -> RunState], NEW r \in Runs, NEW s, NEW c
  PROVE  [n EXCEPT ![r].at = s, ![r].channel = c] = Gets(n, r, s, c, n[r].aborted)
  <1>1. PICK x \in RunState : x = n[r]
    OBVIOUS
  <1>2. PICK m : m = Gets(n, r, s, x.channel, x.aborted) /\ m = [n EXCEPT ![r].at = s]
    BY <1>1, RunAt
  <1>3. [n EXCEPT ![r].at = s, ![r].channel = c] = [m EXCEPT ![r].channel = c]
    BY <1>2
  <1>4. \A y : y = [at |-> s, channel |-> x.channel, aborted |-> x.aborted]
                 => [y EXCEPT !.channel = c] = [at |-> s, channel |-> c, aborted |-> x.aborted]
    OBVIOUS
  <1>5. m[r] = [at |-> s, channel |-> x.channel, aborted |-> x.aborted]
    BY <1>2 DEF Gets
  <1>6. [m EXCEPT ![r].channel = c] = [m EXCEPT ![r] = [at |-> s, channel |-> c, aborted |-> x.aborted]]
    BY <1>4, <1>5, Zenon
  <1>7. [m EXCEPT ![r] = [at |-> s, channel |-> c, aborted |-> x.aborted]] = Gets(n, r, s, c, x.aborted)
    BY <1>2 DEF Gets
  <1> QED
    BY <1>1, <1>3, <1>6, <1>7

\* The runs stay with what they have, and it stays with them.
LEMMA OwnsSame ==
  ASSUME NEW i, NEW j, NEW n, NEW m, Owns(i, n),
         \A r \in Runs : /\ m[r].channel = n[r].channel
                         /\ (m[r].at = "executing") <=> (n[r].at = "executing")
                         /\ (m[r].at = "retiring") <=> (n[r].at = "retiring"),
         \A c \in Instances : (j[c] = "used") <=> (i[c] = "used"),
         \A r \in Runs : n[r].at = "retiring" => j[n[r].channel] = "retiring"
  PROVE  Owns(j, m)
  <1>1. ASSUME NEW r \in Runs, m[r].at = "executing" PROVE m[r].channel \in Instances /\ j[m[r].channel] = "used"
    <2>1. n[r].at = "executing" /\ m[r].channel = n[r].channel
      BY <1>1
    <2>2. n[r].channel \in Instances /\ i[n[r].channel] = "used"
      BY <2>1 DEF Owns
    <2> QED
      BY <2>1, <2>2
  <1>2. ASSUME NEW r \in Runs, m[r].at = "retiring" PROVE m[r].channel \in Instances /\ j[m[r].channel] = "retiring"
    <2>1. n[r].at = "retiring" /\ m[r].channel = n[r].channel
      BY <1>2
    <2> QED
      BY <2>1 DEF Owns
  <1>3. \A r \in Runs : m[r].at \notin {"executing", "retiring"} => m[r].channel = NoInstance
    BY SMT DEF Owns
  <1>4. ASSUME NEW q \in Runs, NEW r \in Runs, m[q].at = "executing", m[r].at = "executing", q # r
        PROVE  m[q].channel # m[r].channel
    <2>1. n[q].at = "executing" /\ n[r].at = "executing" /\ m[q].channel = n[q].channel /\ m[r].channel = n[r].channel
      BY <1>4
    <2> QED
      BY <1>4, <2>1 DEF Owns
  <1>5. ASSUME NEW c \in Instances, j[c] = "used" PROVE \E r \in Runs : m[r].at = "executing" /\ m[r].channel = c
    <2>1. PICK r \in Runs : n[r].at = "executing" /\ n[r].channel = c
      BY <1>5 DEF Owns
    <2>2. m[r].at = "executing" /\ m[r].channel = c
      BY <2>1
    <2> QED
      BY <2>2
  <1> QED
    BY <1>1, <1>2, <1>3, <1>4, <1>5, ZenonT(60) DEF Owns

\* A run gets an instance nobody has.
LEMMA OwnsTakes ==
  ASSUME NEW i \in [Instances -> States], NEW n \in [Runs -> RunState], Owns(i, n),
         NEW r \in Runs, n[r].at \notin {"executing", "retiring"},
         NEW c \in Instances, i[c] \notin {"used", "retiring"},
         NEW at \in {"executing", "retiring"}, NEW as,
         at = "executing" => as = "used", at = "retiring" => as = "retiring", NEW a \in BOOLEAN
  PROVE  Owns([i EXCEPT ![c] = as], [n EXCEPT ![r] = [at |-> at, channel |-> c, aborted |-> a]])
  <1>1. PICK j, m : j = [i EXCEPT ![c] = as] /\ m = [n EXCEPT ![r] = [at |-> at, channel |-> c, aborted |-> a]]
    OBVIOUS
  <1>2. /\ j[c] = as /\ \A d \in Instances : d # c => j[d] = i[d]
        /\ m[r].at = at /\ m[r].channel = c /\ \A q \in Runs : q # r => m[q] = n[q]
    BY <1>1
  <1>3. \A q \in Runs : n[q].at \in {"executing", "retiring"} => n[q].channel \in Instances /\ n[q].channel # c /\ q # r
    BY DEF Owns
  <1>4. ASSUME NEW q \in Runs, m[q].at = "executing" PROVE m[q].channel \in Instances /\ j[m[q].channel] = "used"
    <2>1. CASE q = r
      BY <1>2, <1>4, <2>1
    <2>2. CASE q # r
      <3>1. m[q] = n[q] /\ n[q].at = "executing"
        BY <1>2, <1>4, <2>2
      <3>2. n[q].channel \in Instances /\ n[q].channel # c /\ i[n[q].channel] = "used"
        BY <1>3, <3>1 DEF Owns
      <3> QED
        BY <1>2, <3>1, <3>2
    <2> QED
      BY <2>1, <2>2
  <1>5. ASSUME NEW q \in Runs, m[q].at = "retiring" PROVE m[q].channel \in Instances /\ j[m[q].channel] = "retiring"
    <2>1. CASE q = r
      BY <1>2, <1>5, <2>1
    <2>2. CASE q # r
      <3>1. m[q] = n[q] /\ n[q].at = "retiring"
        BY <1>2, <1>5, <2>2
      <3>2. n[q].channel \in Instances /\ n[q].channel # c /\ i[n[q].channel] = "retiring"
        BY <1>3, <3>1 DEF Owns
      <3> QED
        BY <1>2, <3>1, <3>2
    <2> QED
      BY <2>1, <2>2
  <1>6. \A q \in Runs : m[q].at \notin {"executing", "retiring"} => m[q].channel = NoInstance
    BY <1>2 DEF Owns
  <1>7. \A p, q \in Runs : m[p].at = "executing" /\ m[q].at = "executing" /\ p # q
                               => m[p].channel # m[q].channel
    BY <1>2, <1>3 DEF Owns
  <1>8. ASSUME NEW d \in Instances, j[d] = "used" PROVE \E q \in Runs : m[q].at = "executing" /\ m[q].channel = d
    <2>1. CASE d = c
      BY <1>2, <1>8, <2>1
    <2>2. CASE d # c
      <3>1. PICK q \in Runs : n[q].at = "executing" /\ n[q].channel = d
        BY <1>2, <1>8, <2>2 DEF Owns
      <3> QED
        BY <1>2, <1>3, <3>1
    <2> QED
      BY <2>1, <2>2
  <1>9. Owns(j, m)
    BY <1>4, <1>5, <1>6, <1>7, <1>8, Zenon DEF Owns
  <1> QED
    BY <1>1, <1>9

\* A run gives its instance back.
LEMMA OwnsGives ==
  ASSUME NEW i \in [Instances -> States], NEW n \in [Runs -> RunState], Owns(i, n),
         NEW r \in Runs, n[r].at = "executing", NEW as \in {"gone", "stuck"}, NEW a \in BOOLEAN
  PROVE  Owns([i EXCEPT ![n[r].channel] = as], [n EXCEPT ![r] = [at |-> "over", channel |-> NoInstance, aborted |-> a]])
  <1>0. PICK c \in Instances : c = n[r].channel
    BY DEF Owns
  <1>1. PICK j, m : /\ j = [i EXCEPT ![c] = as]
                    /\ m = [n EXCEPT ![r] = [at |-> "over", channel |-> NoInstance, aborted |-> a]]
    OBVIOUS
  <1>2. /\ j[c] = as /\ \A d \in Instances : d # c => j[d] = i[d]
        /\ m[r].at = "over" /\ m[r].channel = NoInstance /\ \A q \in Runs : q # r => m[q] = n[q]
    BY <1>1
  <1>3. \A q \in Runs : n[q].at \in {"executing", "retiring"} /\ q # r => n[q].channel # c
    BY <1>0 DEF Owns
  <1>4. \A q \in Runs : m[q].at = "executing" => m[q].channel \in Instances /\ j[m[q].channel] = "used"
    BY <1>2, <1>3 DEF Owns
  <1>5. \A q \in Runs : m[q].at = "retiring" => m[q].channel \in Instances /\ j[m[q].channel] = "retiring"
    BY <1>2, <1>3 DEF Owns
  <1>6. \A q \in Runs : m[q].at \notin {"executing", "retiring"} => m[q].channel = NoInstance
    BY <1>2 DEF Owns
  <1>7. \A p, q \in Runs : m[p].at = "executing" /\ m[q].at = "executing" /\ p # q
                               => m[p].channel # m[q].channel
    BY <1>2 DEF Owns
  <1>8. ASSUME NEW d \in Instances, j[d] = "used" PROVE \E q \in Runs : m[q].at = "executing" /\ m[q].channel = d
    <2>1. d # c /\ i[d] = "used"
      BY <1>2, <1>8
    <2>2. PICK q \in Runs : n[q].at = "executing" /\ n[q].channel = d
      BY <2>1 DEF Owns
    <2> QED
      BY <1>0, <1>2, <2>1, <2>2
  <1>9. Owns(j, m)
    BY <1>4, <1>5, <1>6, <1>7, <1>8, Zenon DEF Owns
  <1> QED
    BY <1>0, <1>1, <1>9

\* A retirement is over: the runs that waited for it go on without it.
Released(n, m, c, s) ==
    \A r \in Runs : \/ n[r].at = "retiring" /\ n[r].channel = c /\ m[r].at = s /\ m[r].channel = NoInstance
                    \/ ~(n[r].at = "retiring" /\ n[r].channel = c) /\ m[r] = n[r]

LEMMA OwnsRetired ==
  ASSUME NEW i \in [Instances -> States], NEW n \in [Runs -> RunState], Owns(i, n),
         NEW c \in Instances, i[c] = "retiring", NEW as \in {"gone", "stuck"},
         NEW at \in {"shifting", "over"}, NEW m, Released(n, m, c, at)
  PROVE  Owns([i EXCEPT ![c] = as], m)
  <1>1. PICK j : j = [i EXCEPT ![c] = as]
    OBVIOUS
  <1>2. j[c] = as /\ \A d \in Instances : d # c => j[d] = i[d]
    BY <1>1
  <1>3. \A q \in Runs : /\ m[q].at = "executing" => m[q] = n[q] /\ n[q].channel # c
                        /\ n[q].at = "executing" => m[q] = n[q]
    BY DEF Owns, Released
  <1>4. \A q \in Runs : m[q].at = "executing" => m[q].channel \in Instances /\ j[m[q].channel] = "used"
    BY <1>2, <1>3 DEF Owns
  <1>5. \A q \in Runs : m[q].at = "retiring" => m[q].channel \in Instances /\ j[m[q].channel] = "retiring"
    BY <1>2, <1>3 DEF Owns, Released
  <1>6. \A q \in Runs : m[q].at \notin {"executing", "retiring"} => m[q].channel = NoInstance
    BY <1>2 DEF Owns, Released
  <1>7. \A p, q \in Runs : m[p].at = "executing" /\ m[q].at = "executing" /\ p # q
                               => m[p].channel # m[q].channel
    BY <1>3 DEF Owns
  <1>8. ASSUME NEW d \in Instances, j[d] = "used" PROVE \E q \in Runs : m[q].at = "executing" /\ m[q].channel = d
    <2>1. i[d] = "used"
      BY <1>2, <1>8
    <2>2. PICK q \in Runs : n[q].at = "executing" /\ n[q].channel = d
      BY <2>1 DEF Owns
    <2> QED
      BY <1>3, <2>2
  <1>9. Owns(j, m)
    BY <1>4, <1>5, <1>6, <1>7, <1>8, Zenon DEF Owns
  <1> QED
    BY <1>1, <1>9

----------------------------------------------------------------------------
(* Steps                                                                   *)

LEMMA SandboxInitInv == SandboxInit => SandboxTyped /\ SandboxInv
  <1> SUFFICES ASSUME SandboxInit PROVE SandboxTyped /\ SandboxInv
    OBVIOUS
  <1>1. Elements(idle) = {} /\ Distinct(idle)
    BY DEF SandboxInit, Elements, Distinct
  <1>2. SandboxTyped
    BY <1>1 DEF SandboxInit, SandboxTyped, States, Stages, Closed, Out
  <1>3. ShutdownFollows /\ InstancesArePlaced /\ RunsOwn /\ MadeInOrder
    BY <1>1 DEF SandboxInit, ShutdownFollows, InstancesArePlaced, RunsOwn, Owns, MadeInOrder, Closed, Out
  <1> QED
    BY <1>2, <1>3 DEF SandboxInv

\* The steps of a run that takes no instance and gives none back.
LEMMA RunMovesInv ==
  ASSUME SandboxTyped, SandboxInv, NEW r \in Runs,
         Submit(r) \/ Refuse(r) \/ Enter(r) \/ JoinedAborts(r) \/ OwnFails(r) \/ Abort(r)
  PROVE  SandboxTyped' /\ SandboxInv'
  <1>1. UNCHANGED <<instance, idle, expired, filling, retiring, refusing, shut, closing>>
    BY DEF Submit, Refuse, Enter, JoinedAborts, OwnFails, Abort
  <1>2. run \in [Runs -> RunState] /\ run[r] \in RunState
    BY DEF SandboxTyped, RunState
  <1>3. PICK s \in Stages, a \in BOOLEAN :
            /\ run' = Gets(run, r, s, run[r].channel, a)
            /\ (run[r].at \notin {"executing", "retiring"} /\ s \notin {"executing", "retiring"}) \/ s = run[r].at
            /\ s \in {"out", "over"} \/ ~(refusing /\ run[r].at = "out")
            /\ run[r].at = "over" => s = "over"
    <2> DEFINE After(s) == Gets(run, r, s, run[r].channel, run[r].aborted)
    <2>0. \A s : [run EXCEPT ![r].at = s] = After(s)
      BY <1>2, RunAt, Zenon
    <2> HIDE DEF After
    <2>1. CASE Submit(r)
      <3>1. run' = After("authorizing") /\ run[r].at = "out" /\ ~refusing
        BY <2>0, <2>1 DEF Submit
      <3> QED
        BY <1>2, <3>1 DEF After, Stages, RunState
    <2>2. CASE Refuse(r) \/ JoinedAborts(r) \/ OwnFails(r)
      <3>1. run' = After("over") /\ run[r].at \in {"authorizing", "joined", "shifting", "starting"}
        BY <2>0, <2>2 DEF Refuse, JoinedAborts, OwnFails
      <3> QED
        BY <1>2, <3>1 DEF After, Stages, RunState
    <2>3. CASE Enter(r)
      <3>1. PICK s \in {"over", "starting", "joined", "shifting"} : run' = [run EXCEPT ![r].at = s]
        BY <2>3 DEF Enter
      <3>2. run' = After(s) /\ run[r].at = "authorizing"
        BY <2>0, <2>3, <3>1 DEF Enter
      <3> QED
        BY <1>2, <3>2 DEF After, Stages, RunState
    <2>4. CASE Abort(r)
      <3>1. run' = Gets(run, r, run[r].at, run[r].channel, TRUE)
        BY <1>2, <2>4, RunAborted, Zenon DEF Abort
      <3>2. run[r].at \notin {"out", "over"}
        BY <2>4 DEF Abort
      <3> QED
        BY <1>2, <3>1, <3>2 DEF RunState, Stages
    <2> QED
      BY <2>1, <2>2, <2>3, <2>4
  <1>4. /\ run'[r].at = s /\ run'[r].channel = run[r].channel
        /\ \A q \in Runs : q # r => run'[q] = run[q]
    BY <1>3 DEF SandboxTyped, Gets
  <1>5. SandboxTyped'
    BY <1>1, <1>2, <1>3 DEF SandboxTyped, RunState, Gets
  <1>6. RunsOwn'
    <2>1. \A q \in Runs : /\ run'[q].channel = run[q].channel
                          /\ (run'[q].at = "executing") <=> (run[q].at = "executing")
                          /\ (run'[q].at = "retiring") <=> (run[q].at = "retiring")
      BY <1>3, <1>4
    <2>2. \A c \in Instances : (instance'[c] = "used") <=> (instance[c] = "used")
      BY <1>1
    <2>3. \A q \in Runs : run[q].at = "retiring" => instance'[run[q].channel] = "retiring"
      BY <1>1 DEF SandboxInv, RunsOwn, Owns
    <2> QED
      BY <2>1, <2>2, <2>3, OwnsSame DEF SandboxInv, RunsOwn
  <1>7. ShutdownFollows'
    <2>1. shut => \A q \in Runs : run'[q].at \in {"out", "over"}
      BY <1>3, <1>4 DEF SandboxInv, ShutdownFollows, Closed
    <2> QED
      BY <1>1, <2>1 DEF SandboxInv, ShutdownFollows
  <1>8. InstancesArePlaced' /\ MadeInOrder'
    BY <1>1 DEF SandboxInv, InstancesArePlaced, MadeInOrder
  <1> QED
    BY <1>5, <1>6, <1>7, <1>8 DEF SandboxInv

\* Instances that were not made are not made by being changed.
LEMMA OrderStays ==
  ASSUME MadeInOrder, \A c \in Instances : (instance'[c] = "none") <=> (instance[c] = "none")
  PROVE  MadeInOrder'
  BY DEF MadeInOrder

\* The end of the fill task gives a run nothing.
LEMMA WokenRuns ==
  ASSUME SandboxTyped, SandboxInv
  PROVE  /\ Woken \in [Runs -> RunState]
         /\ Owns(instance, Woken)
         /\ shut => Woken = run
  <1>1. /\ Woken \in [Runs -> RunState]
        /\ \A r \in Runs : /\ Woken[r].channel = run[r].channel
                           /\ Woken[r].at = IF run[r].at = "joined" THEN "shifting" ELSE run[r].at
    BY DEF Woken, SandboxTyped, RunState, Stages
  <1>2. \A r \in Runs : /\ Woken[r].channel = run[r].channel
                        /\ (Woken[r].at = "executing") <=> (run[r].at = "executing")
                        /\ (Woken[r].at = "retiring") <=> (run[r].at = "retiring")
    BY <1>1
  <1>3. Owns(instance, Woken)
    <2>1. \A q \in Runs : run[q].at = "retiring" => instance[run[q].channel] = "retiring"
      BY DEF SandboxInv, RunsOwn, Owns
    <2> QED
      BY <1>2, <2>1, OwnsSame DEF SandboxInv, RunsOwn
  <1>4. shut => Woken = run
    BY DEF SandboxInv, ShutdownFollows, Woken, SandboxTyped
  <1> QED
    BY <1>1, <1>3, <1>4

\* A change of instances that no run has.
LEMMA OwnsStays ==
  ASSUME SandboxInv,
         \A c \in Instances : (instance'[c] = "used") <=> (instance[c] = "used"),
         \A c \in Instances : instance[c] = "retiring" => instance'[c] = "retiring",
         run' = run \/ Owns(instance, run')
  PROVE  RunsOwn'
  <1>1. Owns(instance, run')
    BY DEF SandboxInv, RunsOwn
  <1>2. \A q \in Runs : run'[q].at = "retiring" => instance'[run'[q].channel] = "retiring"
    BY <1>1 DEF Owns
  <1>3. Owns(instance', run')
    BY <1>1, <1>2, OwnsSame
  <1> QED
    BY <1>3 DEF RunsOwn

LEMMA FilledTyped ==
  ASSUME NEW w, NEW t, filling \in [at : {"no", "starting", "retiring"}, channel : Instances \cup {NoInstance}]
  PROVE  /\ Filled(w, t, filling) \in [at : {"no", "starting", "retiring"}, channel : Instances \cup {NoInstance}]
         /\ shut => Filled(w, t, filling) = filling
  BY DEF Filled

LEMMA FillGetsInv ==
  ASSUME SandboxTyped, SandboxInv, FillGets
  PROVE  SandboxTyped' /\ SandboxInv'
  <1>1. /\ filling.at = "starting" /\ closing \notin Closed
        /\ UNCHANGED <<expired, refusing, shut, closing, failures>>
    BY DEF FillGets, SandboxInv, ShutdownFollows
  <1>2. CASE \E c \in Instances : /\ shut /\ Makes(c, "retiring") /\ retiring' = retiring \cup {c}
                                  /\ filling' = [at |-> "retiring", channel |-> c] /\ UNCHANGED <<idle, run>>
    <2>1. PICK c \in Instances : /\ shut /\ Makes(c, "retiring") /\ retiring' = retiring \cup {c}
                                 /\ filling' = [at |-> "retiring", channel |-> c] /\ UNCHANGED <<idle, run>>
      BY <1>2
    <2>2. /\ instance[c] = "none" /\ instance' = [instance EXCEPT ![c] = "retiring"]
          /\ MadeInOrder'
      BY <2>1, MakesFresh DEF States, SandboxInv
    <2>3. instance'[c] = "retiring" /\ \A d \in Instances : d # c => instance'[d] = instance[d]
      BY <2>2 DEF SandboxTyped
    <2>4. SandboxTyped'
      BY <1>1, <2>1, <2>2 DEF SandboxTyped, States
    <2>5. RunsOwn'
      BY <2>1, <2>2, <2>3, OwnsStays
    <2>6. ShutdownFollows'
      BY <1>1, <2>1 DEF SandboxInv, ShutdownFollows, Closed
    <2>7. InstancesArePlaced'
      BY <1>1, <2>1, <2>2, <2>3 DEF SandboxInv, InstancesArePlaced, SandboxTyped, Elements
    <2> QED
      BY <2>2, <2>4, <2>5, <2>6, <2>7 DEF SandboxInv
  <1>3. CASE \E c \in Instances : /\ ~shut /\ Makes(c, "idle") /\ idle' = Append(idle, c) /\ UNCHANGED retiring
                                  /\ \/ UNCHANGED <<filling, run>>
                                     \/ filling' = [at |-> "no", channel |-> NoInstance] /\ run' = Woken
    <2>1. PICK c \in Instances : /\ ~shut /\ Makes(c, "idle") /\ idle' = Append(idle, c) /\ UNCHANGED retiring
                                 /\ \/ UNCHANGED <<filling, run>>
                                    \/ filling' = [at |-> "no", channel |-> NoInstance] /\ run' = Woken
      BY <1>3
    <2>2. /\ instance[c] = "none" /\ instance' = [instance EXCEPT ![c] = "idle"]
          /\ MadeInOrder'
      BY <2>1, MakesFresh DEF States, SandboxInv
    <2>3. instance'[c] = "idle" /\ \A d \in Instances : d # c => instance'[d] = instance[d]
      BY <2>2 DEF SandboxTyped
    <2>4. c \notin Elements(idle)
      BY <1>1, <2>2 DEF SandboxInv, InstancesArePlaced
    <2>5. idle' \in Seq(Instances) /\ Distinct(idle') /\ Elements(idle') = Elements(idle) \cup {c}
      BY <2>1, <2>4, HeldAppend DEF SandboxTyped
    <2>6. run' \in [Runs -> RunState] /\ (run' = run \/ Owns(instance, run'))
      BY <2>1, WokenRuns DEF SandboxTyped, RunState
    <2>7. SandboxTyped'
      <3>1. instance' \in [Instances -> States]
        BY <2>2 DEF SandboxTyped, States
      <3>2. filling' \in [at : {"no", "starting", "retiring"}, channel : Instances \cup {NoInstance}]
        BY <2>1 DEF SandboxTyped
      <3> QED
        BY <1>1, <2>1, <2>5, <2>6, <3>1, <3>2 DEF SandboxTyped, RunState
    <2>8. RunsOwn'
      BY <2>2, <2>3, <2>6, OwnsStays
    <2>9. ShutdownFollows'
      BY <1>1, <2>1 DEF SandboxInv, ShutdownFollows, Closed
    <2>10. InstancesArePlaced'
      BY <1>1, <2>1, <2>2, <2>3, <2>5 DEF SandboxInv, InstancesArePlaced, SandboxTyped
    <2> QED
      BY <2>2, <2>7, <2>8, <2>9, <2>10 DEF SandboxInv
  <1> QED
    BY <1>2, <1>3 DEF FillGets

LEMMA FillFailsInv ==
  ASSUME SandboxTyped, SandboxInv, FillFails
  PROVE  SandboxTyped' /\ SandboxInv'
  <1>1. /\ filling' = [at |-> "no", channel |-> NoInstance] /\ run' = Woken
        /\ UNCHANGED <<instance, idle, expired, retiring, refusing, shut, closing>>
    BY DEF FillFails
  <1>2. Woken \in [Runs -> RunState] /\ Owns(instance, Woken) /\ (shut => Woken = run)
    BY WokenRuns
  <1>3. SandboxTyped'
    BY <1>1, <1>2 DEF SandboxTyped, RunState
  <1>4. RunsOwn'
    BY <1>1, <1>2 DEF RunsOwn
  <1>5. ShutdownFollows'
    BY <1>1, <1>2 DEF SandboxInv, ShutdownFollows
  <1>6. InstancesArePlaced' /\ MadeInOrder'
    BY <1>1 DEF SandboxInv, InstancesArePlaced, MadeInOrder
  <1> QED
    BY <1>3, <1>4, <1>5, <1>6 DEF SandboxInv

LEMMA PrewarmTicksInv ==
  ASSUME SandboxTyped, SandboxInv, PrewarmTicks
  PROVE  SandboxTyped' /\ SandboxInv'
  <1>1. PICK n \in 0..Len(idle) :
            /\ idle' = SubSeq(idle, n + 1, Len(idle))
            /\ retiring' = retiring \cup {idle[i] : i \in 1..n}
            /\ instance' = [c \in Instances |-> IF c \in {idle[i] : i \in 1..n} THEN "retiring" ELSE instance[c]]
    BY DEF PrewarmTicks
  <1>2. PICK old : old = {idle[i] : i \in 1..n}
    OBVIOUS
  <1>3. /\ ~shut /\ closing \notin Closed /\ filling' = Filled(idle', retiring', filling)
        /\ UNCHANGED <<expired, run, refusing, shut, closing, failures>>
    BY DEF PrewarmTicks, SandboxInv, ShutdownFollows
  <1>4. idle' \in Seq(Instances) /\ Distinct(idle') /\ Elements(idle') = Elements(idle) \ old
    <2>1. idle \in Seq(Instances) /\ Distinct(idle)
      BY DEF SandboxTyped
    <2>2. /\ SubSeq(idle, n + 1, Len(idle)) \in Seq(Instances) /\ Distinct(SubSeq(idle, n + 1, Len(idle)))
          /\ Elements(SubSeq(idle, n + 1, Len(idle))) = Elements(idle) \ {idle[i] : i \in 1..n}
      BY <2>1, HeldRest
    <2> QED
      BY <1>1, <1>2, <2>2, Zenon
  <1>5. old \subseteq Elements(idle) /\ old \subseteq Instances
    BY <1>2 DEF Elements, SandboxTyped
  <1>6. \A c \in old : instance[c] = "idle"
    BY <1>3, <1>5 DEF SandboxInv, InstancesArePlaced
  <1>7. \A c \in Instances : instance'[c] = IF c \in old THEN "retiring" ELSE instance[c]
    BY <1>1, <1>2
  <1>8. SandboxTyped'
    <2>1. instance' \in [Instances -> States] /\ retiring' \subseteq Instances
      BY <1>1, <1>2, <1>5 DEF SandboxTyped, States
    <2>2. filling' \in [at : {"no", "starting", "retiring"}, channel : Instances \cup {NoInstance}]
      BY <1>3, FilledTyped DEF SandboxTyped
    <2> QED
      BY <1>3, <1>4, <2>1, <2>2 DEF SandboxTyped
  <1>9. RunsOwn'
    BY <1>3, <1>6, <1>7, OwnsStays
  <1>10. ShutdownFollows'
    BY <1>3 DEF SandboxInv, ShutdownFollows, Closed
  <1>11. InstancesArePlaced'
    <2>1. retiring' = retiring \cup old
      BY <1>1, <1>2
    <2>2. \A c \in Instances : c \in Elements(idle') <=> (c \in Elements(idle) /\ c \notin old)
      BY <1>4, <1>5
    <2>3. Elements(idle') \subseteq Instances /\ retiring' \subseteq Instances
      BY <1>8 DEF SandboxTyped, Elements
    <2> QED
      BY <1>3, <1>6, <1>7, <2>1, <2>2, <2>3 DEF SandboxInv, InstancesArePlaced
  <1>12. MadeInOrder'
    BY <1>6, <1>7, OrderStays DEF SandboxInv
  <1> QED
    BY <1>8, <1>9, <1>10, <1>11, <1>12 DEF SandboxInv

LEMMA EntryExpiresInv ==
  ASSUME SandboxTyped, SandboxInv, EntryExpires
  PROVE  SandboxTyped' /\ SandboxInv'
  <1>1. expired' \subseteq Instances
    BY DEF EntryExpires, SandboxTyped
  <1>2. UNCHANGED <<instance, idle, filling, retiring, run, refusing, shut, closing, failures>>
    BY DEF EntryExpires
  <1>3. SandboxTyped'
    BY <1>1, <1>2 DEF SandboxTyped
  <1>4. ShutdownFollows' /\ InstancesArePlaced' /\ RunsOwn' /\ MadeInOrder'
    BY <1>2 DEF SandboxInv, ShutdownFollows, InstancesArePlaced, RunsOwn, MadeInOrder
  <1> QED
    BY <1>3, <1>4 DEF SandboxInv

LEMMA IdleExitsInv ==
  ASSUME SandboxTyped, SandboxInv, IdleExits
  PROVE  SandboxTyped' /\ SandboxInv'
  <1>1. PICK k \in 1..Len(idle) :
            /\ instance[idle[k]] = "idle" /\ idle' = RemoveAt(idle, k)
            /\ instance' = [instance EXCEPT ![idle[k]] = "retiring"] /\ retiring' = retiring \cup {idle[k]}
    BY DEF IdleExits
  <1>2. PICK c \in Instances : c = idle[k]
    BY DEF SandboxTyped
  <1>3. c \in Elements(idle) /\ closing \notin Closed
    BY <1>1, <1>2 DEF Elements, SandboxInv, InstancesArePlaced
  <1>4. UNCHANGED <<expired, filling, run, refusing, shut, closing, failures>>
    BY DEF IdleExits
  <1>5. idle' \in Seq(Instances) /\ Distinct(idle') /\ Elements(idle') = Elements(idle) \ {c}
    BY <1>1, <1>2, HeldRemove DEF SandboxTyped
  <1>6. instance'[c] = "retiring" /\ \A d \in Instances : d # c => instance'[d] = instance[d]
    BY <1>1, <1>2 DEF SandboxTyped
  <1>7. SandboxTyped'
    BY <1>1, <1>2, <1>4, <1>5 DEF SandboxTyped, States
  <1>8. RunsOwn'
    BY <1>1, <1>2, <1>4, <1>6, OwnsStays
  <1>9. ShutdownFollows'
    BY <1>3, <1>4 DEF SandboxInv, ShutdownFollows, Closed
  <1>10. InstancesArePlaced'
    BY <1>1, <1>2, <1>3, <1>4, <1>5, <1>6 DEF SandboxInv, InstancesArePlaced, SandboxTyped
  <1>11. MadeInOrder'
    BY <1>1, <1>2, <1>6, OrderStays DEF SandboxInv
  <1> QED
    BY <1>7, <1>8, <1>9, <1>10, <1>11 DEF SandboxInv

LEMMA RetireEndsInv ==
  ASSUME SandboxTyped, SandboxInv, RetireEnds
  PROVE  SandboxTyped' /\ SandboxInv'
  <1>1. PICK c \in retiring, as \in {"gone", "stuck"}, at \in {"shifting", "over"} :
            /\ instance[c] = "retiring" /\ instance' = [instance EXCEPT ![c] = as]
            /\ retiring' = IF as = "gone" THEN retiring \ {c} ELSE retiring
            /\ run' = [r \in Runs |-> IF run[r].at = "retiring" /\ run[r].channel = c
                                      THEN [run[r] EXCEPT !.at = at, !.channel = NoInstance]
                                      ELSE run[r]]
            /\ filling' = IF filling.channel = c THEN [at |-> "no", channel |-> NoInstance] ELSE filling
    <2>1. PICK c \in retiring :
            /\ instance[c] = "retiring"
            /\ \/ /\ instance' = [instance EXCEPT ![c] = "gone"]
                  /\ retiring' = retiring \ {c}
                  /\ run' = [r \in Runs |-> IF run[r].at = "retiring" /\ run[r].channel = c
                                            THEN [run[r] EXCEPT !.at = "shifting", !.channel = NoInstance]
                                            ELSE run[r]]
               \/ /\ instance' = [instance EXCEPT ![c] = "stuck"]
                  /\ run' = [r \in Runs |-> IF run[r].at = "retiring" /\ run[r].channel = c
                                            THEN [run[r] EXCEPT !.at = "over", !.channel = NoInstance]
                                            ELSE run[r]]
                  /\ retiring' = retiring
            /\ filling' = IF filling.channel = c THEN [at |-> "no", channel |-> NoInstance] ELSE filling
      BY Zenon DEF RetireEnds
    <2> QED
      BY <2>1, Zenon
  <1>2. UNCHANGED <<idle, expired, refusing, shut, closing>>
    BY Zenon DEF RetireEnds
  <1>3. c \in Instances /\ run \in [Runs -> RunState] /\ instance \in [Instances -> States]
    BY DEF SandboxTyped, RunState
  <1>4. instance'[c] = as /\ \A d \in Instances : d # c => instance'[d] = instance[d]
    BY <1>1, <1>3, Zenon
  <1>5. ASSUME NEW r \in Runs
        PROVE  /\ run'[r] \in RunState
               /\ IF run[r].at = "retiring" /\ run[r].channel = c
                  THEN run'[r].at = at /\ run'[r].channel = NoInstance
                  ELSE run'[r] = run[r]
    <2>1. PICK x \in RunState : x = run[r]
      BY <1>3
    <2>2. PICK y : y = [x EXCEPT !.at = at]
      OBVIOUS
    <2>3. y \in RunState /\ y.at = at
      BY <2>2 DEF RunState, Stages
    <2>4. PICK z : z = [y EXCEPT !.channel = NoInstance]
      OBVIOUS
    <2>5. z \in RunState /\ z.at = at /\ z.channel = NoInstance
      BY <2>3, <2>4 DEF RunState, Stages
    <2>6. z = [run[r] EXCEPT !.at = at, !.channel = NoInstance]
      BY <2>1, <2>2, <2>4
    <2> QED
      BY <1>1, <1>3, <2>5, <2>6, Zenon
  <1>6. SandboxTyped'
    <2>1. run' \in [Runs -> RunState]
      BY <1>1, <1>5, Zenon
    <2>2. instance' \in [Instances -> States]
      BY <1>1, <1>3, Zenon DEF States
    <2>3. filling' \in [at : {"no", "starting", "retiring"}, channel : Instances \cup {NoInstance}]
      BY <1>1, Zenon DEF SandboxTyped
    <2> QED
      BY <1>1, <1>2, <2>1, <2>2, <2>3, Zenon DEF SandboxTyped, RunState
  <1>7. RunsOwn'
    <2>1. Released(run, run', c, at)
      BY <1>5 DEF Released
    <2>2. Owns(instance, run) /\ instance[c] = "retiring"
      BY <1>1, Zenon DEF SandboxInv, RunsOwn
    <2>3. Owns([instance EXCEPT ![c] = as], run')
      BY <1>3, <2>1, <2>2, OwnsRetired
    <2> QED
      BY <1>1, <2>3, Zenon DEF RunsOwn
  <1>8. ShutdownFollows'
    <2>1. shut => \A r \in Runs : run'[r].at \in {"out", "over"}
      BY <1>5 DEF SandboxInv, ShutdownFollows
    <2>2. closing \in Closed => filling'.at = "no"
      BY <1>1, Zenon DEF SandboxInv, ShutdownFollows
    <2> QED
      BY <1>1, <1>2, <2>1, <2>2, Zenon DEF SandboxInv, ShutdownFollows
  <1>9. InstancesArePlaced'
    <2>1. c \notin Elements(idle) \/ closing \in Closed
      BY <1>1, Zenon DEF SandboxInv, InstancesArePlaced
    <2>2. Elements(idle) \subseteq Instances /\ retiring \subseteq Instances
      BY DEF SandboxTyped, Elements
    <2> QED
      BY <1>1, <1>2, <1>3, <1>4, <2>1, <2>2, Zenon DEF SandboxInv, InstancesArePlaced
  <1>10. MadeInOrder'
    BY <1>1, <1>4, OrderStays, Zenon DEF SandboxInv
  <1> QED
    BY <1>6, <1>7, <1>8, <1>9, <1>10, Zenon DEF SandboxInv

LEMMA ShiftInv ==
  ASSUME SandboxTyped, SandboxInv, NEW r \in Runs, Shift(r)
  PROVE  SandboxTyped' /\ SandboxInv'
  <1>1. /\ run[r].at = "shifting" /\ UNCHANGED <<expired, refusing, shut, closing, failures>>
        /\ ~shut /\ closing \notin Closed
    BY DEF Shift, SandboxInv, ShutdownFollows
  <1>2. run \in [Runs -> RunState] /\ run[r] \in RunState /\ run[r].aborted \in BOOLEAN
    BY DEF SandboxTyped, RunState
  <1>3. CASE idle = <<>>
    <2>1. run' = [run EXCEPT ![r].at = "starting"] /\ UNCHANGED <<instance, idle, retiring, filling>>
      BY <1>3 DEF Shift
    <2>2. run' = Gets(run, r, "starting", run[r].channel, run[r].aborted)
      BY <1>2, <2>1, RunAt
    <2>3. /\ run' \in [Runs -> RunState]
          /\ run'[r].at = "starting" /\ run'[r].channel = run[r].channel
          /\ \A q \in Runs : q # r => run'[q] = run[q]
      BY <1>2, <2>2 DEF Gets, RunState, Stages
    <2>4. SandboxTyped'
      BY <1>1, <2>1, <2>3 DEF SandboxTyped, RunState
    <2>5. RunsOwn'
      <3>1. \A q \in Runs : /\ run'[q].channel = run[q].channel
                            /\ (run'[q].at = "executing") <=> (run[q].at = "executing")
                            /\ (run'[q].at = "retiring") <=> (run[q].at = "retiring")
        BY <1>1, <2>3
      <3>2. \A q \in Runs : run[q].at = "retiring" => instance[run[q].channel] = "retiring"
        BY DEF SandboxInv, RunsOwn, Owns
      <3>3. Owns(instance, run')
        BY <3>1, <3>2, OwnsSame DEF SandboxInv, RunsOwn
      <3> QED
        BY <2>1, <3>3 DEF RunsOwn
    <2>6. ShutdownFollows' /\ InstancesArePlaced' /\ MadeInOrder'
      BY <1>1, <2>1 DEF SandboxInv, ShutdownFollows, InstancesArePlaced, MadeInOrder, Closed
    <2> QED
      BY <2>4, <2>5, <2>6 DEF SandboxInv
  <1>4. CASE idle # <<>>
    <2>1. PICK c : c = Head(idle)
      OBVIOUS
    <2>2. /\ c \in Instances /\ c \in Elements(idle)
          /\ Tail(idle) \in Seq(Instances) /\ Distinct(Tail(idle)) /\ Elements(Tail(idle)) = Elements(idle) \ {c}
      BY <1>4, <2>1, HeldTail DEF SandboxTyped
    <2>3. PICK at \in {"executing", "retiring"}, as \in {"used", "retiring"} :
              /\ (at = "executing") <=> (as = "used")
              /\ run' = [run EXCEPT ![r].at = at, ![r].channel = c]
              /\ instance' = [instance EXCEPT ![c] = as]
              /\ retiring' = IF as = "retiring" THEN retiring \cup {c} ELSE retiring
              /\ filling' = filling \/ filling' = Filled(Tail(idle), retiring, filling)
              /\ idle' = Tail(idle)
      <3>1. CASE c \in expired
        <4>1. /\ idle' = Tail(idle) /\ run' = [run EXCEPT ![r].at = "retiring", ![r].channel = c]
              /\ instance' = [instance EXCEPT ![c] = "retiring"]
              /\ retiring' = retiring \cup {c} /\ filling' = filling
          BY <1>4, <2>1, <3>1 DEF Shift
        <4> QED
          BY <4>1
      <3>2. CASE c \notin expired
        <4>1. /\ idle' = Tail(idle) /\ run' = [run EXCEPT ![r].at = "executing", ![r].channel = c]
              /\ instance' = [instance EXCEPT ![c] = "used"]
              /\ filling' = Filled(Tail(idle), retiring, filling) /\ retiring' = retiring
          BY <1>4, <2>1, <3>2 DEF Shift
        <4> QED
          BY <4>1
      <3> QED
        BY <3>1, <3>2
    <2>4. run' = Gets(run, r, at, c, run[r].aborted)
      BY <1>2, <2>3, RunTakes, Zenon
    <2>5. instance[c] = "idle"
      BY <1>1, <2>2 DEF SandboxInv, InstancesArePlaced
    <2>6. instance'[c] = as /\ \A d \in Instances : d # c => instance'[d] = instance[d]
      BY <2>2, <2>3 DEF SandboxTyped
    <2>7. SandboxTyped'
      <3>1. run' \in [Runs -> RunState]
        BY <1>2, <2>2, <2>4 DEF Gets, RunState, Stages
      <3>2. instance' \in [Instances -> States] /\ retiring' \subseteq Instances
        BY <2>2, <2>3 DEF SandboxTyped, States
      <3>3. filling' \in [at : {"no", "starting", "retiring"}, channel : Instances \cup {NoInstance}]
        BY <2>3, FilledTyped DEF SandboxTyped
      <3> QED
        BY <1>1, <2>2, <2>3, <3>1, <3>2, <3>3 DEF SandboxTyped, RunState
    <2>8. RunsOwn'
      <3>1. Owns([instance EXCEPT ![c] = as], [run EXCEPT ![r] = [at |-> at, channel |-> c, aborted |-> run[r].aborted]])
        <4>1. at = "executing" => as = "used"
          BY <2>3
        <4>2. at = "retiring" => as = "retiring"
          BY <2>3
        <4> QED
          BY <1>1, <1>2, <2>2, <2>5, <4>1, <4>2, OwnsTakes DEF SandboxInv, RunsOwn, SandboxTyped
      <3> QED
        BY <2>3, <2>4, <3>1 DEF RunsOwn, Gets
    <2>9. ShutdownFollows'
      BY <1>1 DEF SandboxInv, ShutdownFollows, Closed
    <2>10. InstancesArePlaced'
      <3>1. Elements(idle') = Elements(idle) \ {c}
        BY <2>2, <2>3
      <3>2. Elements(idle) \subseteq Instances /\ retiring \subseteq Instances
        BY DEF SandboxTyped, Elements
      <3> QED
        BY <1>1, <2>2, <2>3, <2>5, <2>6, <3>1, <3>2 DEF SandboxInv, InstancesArePlaced
    <2>11. MadeInOrder'
      BY <2>5, <2>6, OrderStays DEF SandboxInv
    <2> QED
      BY <2>7, <2>8, <2>9, <2>10, <2>11 DEF SandboxInv
  <1> QED
    BY <1>3, <1>4

LEMMA OwnStartsInv ==
  ASSUME SandboxTyped, SandboxInv, NEW r \in Runs, OwnStarts(r)
  PROVE  SandboxTyped' /\ SandboxInv'
  <1>1. PICK c \in Instances : /\ Makes(c, "used") /\ run' = [run EXCEPT ![r].at = "executing", ![r].channel = c]
    BY DEF OwnStarts
  <1>2. /\ run[r].at = "starting" /\ UNCHANGED <<idle, expired, retiring, refusing, shut, closing, failures>>
        /\ ~shut /\ closing \notin Closed /\ filling' = Filled(idle, retiring, filling)
    BY DEF OwnStarts, SandboxInv, ShutdownFollows
  <1>3. run \in [Runs -> RunState] /\ run[r] \in RunState /\ run[r].aborted \in BOOLEAN
    BY DEF SandboxTyped, RunState
  <1>4. run' = Gets(run, r, "executing", c, run[r].aborted)
    BY <1>1, <1>3, RunTakes, Zenon
  <1>5. /\ instance[c] = "none" /\ instance' = [instance EXCEPT ![c] = "used"]
        /\ MadeInOrder'
    BY <1>1, MakesFresh DEF States, SandboxInv
  <1>6. instance'[c] = "used" /\ \A d \in Instances : d # c => instance'[d] = instance[d]
    BY <1>5 DEF SandboxTyped
  <1>7. SandboxTyped'
    <2>1. run' \in [Runs -> RunState]
      BY <1>3, <1>4 DEF Gets, RunState, Stages
    <2>2. instance' \in [Instances -> States]
      BY <1>5 DEF SandboxTyped, States
    <2>3. filling' \in [at : {"no", "starting", "retiring"}, channel : Instances \cup {NoInstance}]
      BY <1>2, FilledTyped DEF SandboxTyped
    <2> QED
      BY <1>2, <2>1, <2>2, <2>3 DEF SandboxTyped, RunState
  <1>8. RunsOwn'
    <2>1. Owns([instance EXCEPT ![c] = "used"],
               [run EXCEPT ![r] = [at |-> "executing", channel |-> c, aborted |-> run[r].aborted]])
      BY <1>2, <1>3, <1>5, OwnsTakes DEF SandboxInv, RunsOwn, SandboxTyped
    <2> QED
      BY <1>4, <1>5, <2>1 DEF RunsOwn, Gets
  <1>9. ShutdownFollows'
    BY <1>2 DEF SandboxInv, ShutdownFollows, Closed
  <1>10. InstancesArePlaced'
    <2>1. Elements(idle) \subseteq Instances /\ retiring \subseteq Instances
      BY DEF SandboxTyped, Elements
    <2> QED
      BY <1>2, <1>5, <1>6, <2>1 DEF SandboxInv, InstancesArePlaced
  <1> QED
    BY <1>5, <1>7, <1>8, <1>9, <1>10 DEF SandboxInv

LEMMA RunEndsInv ==
  ASSUME SandboxTyped, SandboxInv, NEW r \in Runs, RunEnds(r)
  PROVE  SandboxTyped' /\ SandboxInv'
  <1>1. PICK as \in {"gone", "stuck"} : instance' = [instance EXCEPT ![run[r].channel] = as]
    BY DEF RunEnds
  <1>2. /\ run[r].at = "executing" /\ run' = [run EXCEPT ![r] = [Out EXCEPT !.at = "over"]]
        /\ UNCHANGED <<idle, expired, filling, retiring, refusing, shut, closing>>
        /\ ~shut /\ closing \notin Closed
    BY DEF RunEnds, SandboxInv, ShutdownFollows
  <1>3. PICK c \in Instances : c = run[r].channel /\ instance[c] = "used"
    BY <1>2 DEF SandboxInv, RunsOwn, Owns
  <1>4. run \in [Runs -> RunState]
    BY DEF SandboxTyped, RunState
  <1>5. run' = Gets(run, r, "over", NoInstance, FALSE)
    <2>1. \A a, b : a = [at |-> "out", channel |-> NoInstance, aborted |-> b]
                        => [a EXCEPT !.at = "over"] = [at |-> "over", channel |-> NoInstance, aborted |-> b]
      OBVIOUS
    <2> QED
      BY <1>2, <2>1, Zenon DEF Gets, Out
  <1>6. instance'[c] = as /\ \A d \in Instances : d # c => instance'[d] = instance[d]
    BY <1>1, <1>3 DEF SandboxTyped
  <1>7. SandboxTyped'
    <2>1. run' \in [Runs -> RunState]
      BY <1>4, <1>5 DEF Gets, RunState, Stages
    <2>2. instance' \in [Instances -> States]
      BY <1>1, <1>3 DEF SandboxTyped, States
    <2> QED
      BY <1>2, <2>1, <2>2 DEF SandboxTyped, RunState
  <1>8. RunsOwn'
    <2>1. Owns([instance EXCEPT ![run[r].channel] = as],
               [run EXCEPT ![r] = [at |-> "over", channel |-> NoInstance, aborted |-> FALSE]])
      BY <1>2, <1>4, OwnsGives DEF SandboxInv, RunsOwn, SandboxTyped
    <2> QED
      BY <1>1, <1>5, <2>1 DEF RunsOwn, Gets
  <1>9. ShutdownFollows'
    BY <1>2 DEF SandboxInv, ShutdownFollows, Closed
  <1>10. InstancesArePlaced'
    <2>1. Elements(idle) \subseteq Instances /\ retiring \subseteq Instances
      BY DEF SandboxTyped, Elements
    <2> QED
      BY <1>2, <1>3, <1>6, <2>1 DEF SandboxInv, InstancesArePlaced
  <1>11. MadeInOrder'
    BY <1>3, <1>6, OrderStays DEF SandboxInv
  <1> QED
    BY <1>7, <1>8, <1>9, <1>10, <1>11 DEF SandboxInv

LEMMA ShutdownStartsInv ==
  ASSUME SandboxTyped, SandboxInv, ShutdownStarts
  PROVE  SandboxTyped' /\ SandboxInv'
  <1>1. /\ closing = "no" /\ closing' = "runs" /\ refusing' = TRUE
        /\ UNCHANGED <<instance, idle, expired, filling, retiring, shut, failures>>
        /\ run' = [r \in Runs |-> IF r \in ActiveRuns THEN [run[r] EXCEPT !.aborted = TRUE] ELSE run[r]]
    BY DEF ShutdownStarts
  <1>2. run \in [Runs -> RunState]
    BY DEF SandboxTyped, RunState
  <1>3. ASSUME NEW r \in Runs PROVE run'[r] \in RunState /\ run'[r].at = run[r].at /\ run'[r].channel = run[r].channel
    <2>1. PICK x \in RunState : x = run[r]
      BY <1>2
    <2>2. \A b \in BOOLEAN : /\ [x EXCEPT !.aborted = b] \in RunState
                             /\ [x EXCEPT !.aborted = b].at = x.at /\ [x EXCEPT !.aborted = b].channel = x.channel
      BY DEF RunState
    <2>3. run'[r] = IF r \in ActiveRuns THEN [x EXCEPT !.aborted = TRUE] ELSE x
      BY <1>1, <2>1
    <2>4. CASE r \in ActiveRuns
      BY <2>1, <2>2, <2>3, <2>4
    <2>5. CASE r \notin ActiveRuns
      BY <2>1, <2>3, <2>5
    <2> QED
      BY <2>4, <2>5
  <1>4. SandboxTyped'
    <2>1. run' \in [Runs -> RunState]
      BY <1>1, <1>3
    <2> QED
      BY <1>1, <2>1 DEF SandboxTyped, RunState
  <1>5. RunsOwn'
    <2>1. \A q \in Runs : /\ run'[q].channel = run[q].channel
                          /\ (run'[q].at = "executing") <=> (run[q].at = "executing")
                          /\ (run'[q].at = "retiring") <=> (run[q].at = "retiring")
      BY <1>3
    <2>2. \A q \in Runs : run[q].at = "retiring" => instance[run[q].channel] = "retiring"
      BY DEF SandboxInv, RunsOwn, Owns
    <2>3. Owns(instance, run')
      BY <2>1, <2>2, OwnsSame DEF SandboxInv, RunsOwn
    <2> QED
      BY <1>1, <2>3 DEF RunsOwn
  <1>6. ShutdownFollows' /\ InstancesArePlaced' /\ MadeInOrder'
    BY <1>1 DEF SandboxInv, ShutdownFollows, InstancesArePlaced, MadeInOrder, Closed
  <1> QED
    BY <1>4, <1>5, <1>6 DEF SandboxInv

LEMMA PoolShutdownInv ==
  ASSUME SandboxTyped, SandboxInv, PoolShutdown
  PROVE  SandboxTyped' /\ SandboxInv'
  <1>1. /\ closing = "runs" /\ ActiveRuns = {} /\ closing' = "filling" /\ shut' = TRUE
        /\ UNCHANGED <<instance, idle, expired, filling, retiring, run, refusing, failures>>
    BY DEF PoolShutdown
  <1>2. \A r \in Runs : run[r].at \in {"out", "over"}
    BY <1>1 DEF ActiveRuns
  <1>3. SandboxTyped'
    BY <1>1 DEF SandboxTyped
  <1>4. ShutdownFollows'
    BY <1>1, <1>2 DEF SandboxInv, ShutdownFollows, Closed
  <1>5. InstancesArePlaced' /\ RunsOwn' /\ MadeInOrder'
    BY <1>1 DEF SandboxInv, InstancesArePlaced, RunsOwn, MadeInOrder, Closed
  <1> QED
    BY <1>3, <1>4, <1>5 DEF SandboxInv

LEMMA RetireIdleInv ==
  ASSUME SandboxTyped, SandboxInv, RetireIdle
  PROVE  SandboxTyped' /\ SandboxInv'
  <1>1. idle \in Seq(Instances) /\ Elements(idle) \subseteq Instances /\ retiring \subseteq Instances
    BY DEF SandboxTyped, Elements
  <1>2. Range(idle) = Elements(idle) /\ \A c \in Instances : Contains(idle, c) <=> c \in Elements(idle)
    BY <1>1, HeldContains, Zenon
  <1>3. /\ closing = "filling" /\ filling.at = "no" /\ closing' = "idle"
        /\ retiring' = retiring \cup Elements(idle)
        /\ UNCHANGED <<idle, expired, filling, run, refusing, shut, failures>>
    BY <1>2 DEF RetireIdle
  <1>4. /\ instance' \in [Instances -> States]
        /\ \A c \in Instances : instance'[c] = IF c \in Elements(idle) THEN "retiring" ELSE instance[c]
    BY <1>2 DEF RetireIdle, SandboxTyped, States
  <1>5. \A c \in Elements(idle) : instance[c] = "idle"
    BY <1>3 DEF SandboxInv, InstancesArePlaced, Closed
  <1>6. SandboxTyped'
    BY <1>1, <1>3, <1>4 DEF SandboxTyped, Closed
  <1>7. RunsOwn'
    BY <1>3, <1>4, <1>5, OwnsStays
  <1>8. ShutdownFollows'
    BY <1>3 DEF SandboxInv, ShutdownFollows, Closed
  <1>9. InstancesArePlaced'
    BY <1>1, <1>3, <1>4, <1>5 DEF SandboxInv, InstancesArePlaced, Closed
  <1>10. MadeInOrder'
    BY <1>4, <1>5, OrderStays DEF SandboxInv
  <1> QED
    BY <1>6, <1>7, <1>8, <1>9, <1>10 DEF SandboxInv

LEMMA CloseAgainInv ==
  ASSUME SandboxTyped, SandboxInv, CloseAgain
  PROVE  SandboxTyped' /\ SandboxInv'
  <1>1. /\ closing = "idle" /\ closing' = "again"
        /\ UNCHANGED <<idle, expired, filling, retiring, run, refusing, shut, failures>>
    BY DEF CloseAgain
  <1>2. /\ instance' \in [Instances -> States]
        /\ \A c \in Instances : instance'[c] = IF c \in retiring THEN "retiring" ELSE instance[c]
    BY DEF CloseAgain, SandboxTyped, States
  <1>3. \A c \in retiring : c \in Instances /\ instance[c] \in {"retiring", "stuck"}
    BY DEF SandboxTyped, SandboxInv, InstancesArePlaced
  <1>4. SandboxTyped'
    BY <1>1, <1>2 DEF SandboxTyped, Closed
  <1>5. RunsOwn'
    BY <1>1, <1>2, <1>3, OwnsStays
  <1>6. ShutdownFollows'
    BY <1>1 DEF SandboxInv, ShutdownFollows, Closed
  <1>7. InstancesArePlaced'
    BY <1>1, <1>2, <1>3 DEF SandboxInv, InstancesArePlaced, Closed
  <1>8. MadeInOrder'
    BY <1>2, <1>3, OrderStays DEF SandboxInv
  <1> QED
    BY <1>4, <1>5, <1>6, <1>7, <1>8 DEF SandboxInv

LEMMA ShutdownEndsInv ==
  ASSUME SandboxTyped, SandboxInv, ShutdownEnds
  PROVE  SandboxTyped' /\ SandboxInv'
  <1>1. /\ closing = "again" /\ closing' = "done" /\ retiring' = {} /\ idle' = <<>>
        /\ UNCHANGED <<instance, expired, filling, run, refusing, shut, failures>>
        /\ \A c \in retiring : instance[c] # "retiring"
    BY DEF ShutdownEnds
  <1>2. idle' \in Seq(Instances) /\ Distinct(idle') /\ Elements(idle') = {}
    BY <1>1 DEF Distinct, Elements
  <1>3. SandboxTyped'
    BY <1>1, <1>2 DEF SandboxTyped, Closed
  <1>4. ShutdownFollows'
    BY <1>1, <1>2 DEF SandboxInv, ShutdownFollows, Closed
  <1>5. InstancesArePlaced'
    BY <1>1, <1>2 DEF SandboxInv, InstancesArePlaced, Closed
  <1>6. RunsOwn' /\ MadeInOrder'
    BY <1>1 DEF SandboxInv, RunsOwn, MadeInOrder
  <1> QED
    BY <1>3, <1>4, <1>5, <1>6 DEF SandboxInv

\* Every step of the service and its pool keeps the invariant.
LEMMA SandboxStepInv == SandboxTyped /\ SandboxInv /\ [SandboxNext]_sandboxVars => SandboxTyped' /\ SandboxInv'
  <1> SUFFICES ASSUME SandboxTyped, SandboxInv, [SandboxNext]_sandboxVars PROVE SandboxTyped' /\ SandboxInv'
    OBVIOUS
  <1>1. CASE FillGets
    BY <1>1, FillGetsInv
  <1>2. CASE FillFails
    BY <1>2, FillFailsInv
  <1>3. CASE PrewarmTicks
    BY <1>3, PrewarmTicksInv
  <1>4. CASE EntryExpires
    BY <1>4, EntryExpiresInv
  <1>5. CASE IdleExits
    BY <1>5, IdleExitsInv
  <1>6. CASE RetireEnds
    BY <1>6, RetireEndsInv
  <1>7. ASSUME NEW r \in Runs,
               Submit(r) \/ Refuse(r) \/ Enter(r) \/ JoinedAborts(r) \/ OwnFails(r) \/ Abort(r)
        PROVE  SandboxTyped' /\ SandboxInv'
    BY <1>7, RunMovesInv
  <1>8. ASSUME NEW r \in Runs, Shift(r) PROVE SandboxTyped' /\ SandboxInv'
    BY <1>8, ShiftInv
  <1>9. ASSUME NEW r \in Runs, OwnStarts(r) PROVE SandboxTyped' /\ SandboxInv'
    BY <1>9, OwnStartsInv
  <1>10. ASSUME NEW r \in Runs, RunEnds(r) PROVE SandboxTyped' /\ SandboxInv'
    BY <1>10, RunEndsInv
  <1>11. CASE ShutdownStarts
    BY <1>11, ShutdownStartsInv
  <1>12. CASE PoolShutdown
    BY <1>12, PoolShutdownInv
  <1>13. CASE RetireIdle
    BY <1>13, RetireIdleInv
  <1>14. CASE CloseAgain
    BY <1>14, CloseAgainInv
  <1>15. CASE ShutdownEnds
    BY <1>15, ShutdownEndsInv
  <1>16. CASE UNCHANGED sandboxVars
    BY <1>16 DEF sandboxVars, SandboxTyped, SandboxInv, ShutdownFollows, InstancesArePlaced, RunsOwn, MadeInOrder
  <1> QED
    BY <1>1, <1>2, <1>3, <1>4, <1>5, <1>6, <1>7, <1>8, <1>9, <1>10, <1>11, <1>12, <1>13, <1>14, <1>15, <1>16
       DEF SandboxNext

\* The invariant says what is promised of an instance.
LEMMA SpentOnceHolds == SandboxTyped /\ SandboxInv => InstanceIsSpentOnce
  <1> SUFFICES ASSUME SandboxTyped, SandboxInv PROVE InstanceIsSpentOnce
    OBVIOUS
  <1>1. ASSUME NEW r \in Runs, run[r].at = "executing"
        PROVE  /\ instance[run[r].channel] = "used"
               /\ ~Contains(idle, run[r].channel) /\ run[r].channel \notin retiring
               /\ \A q \in Runs : q # r => run[q].channel # run[r].channel
    <2>1. PICK c \in Instances : c = run[r].channel /\ instance[c] = "used"
      BY <1>1 DEF SandboxInv, RunsOwn, Owns
    <2>2. closing \notin Closed
      BY <1>1 DEF SandboxInv, ShutdownFollows
    <2>3. c \notin Elements(idle) /\ c \notin retiring
      BY <2>1, <2>2 DEF SandboxInv, InstancesArePlaced
    <2>4. ~Contains(idle, c)
      BY <2>3, HeldContains DEF SandboxTyped
    <2>5. ASSUME NEW q \in Runs, q # r PROVE run[q].channel # c
      <3>1. CASE run[q].at = "executing"
        BY <1>1, <2>1, <2>5, <3>1 DEF SandboxInv, RunsOwn, Owns
      <3>2. CASE run[q].at = "retiring"
        BY <2>1, <3>2 DEF SandboxInv, RunsOwn, Owns
      <3>3. CASE run[q].at \notin {"executing", "retiring"}
        BY <2>1, <3>3, Numbers DEF SandboxInv, RunsOwn, Owns
      <3> QED
        BY <3>1, <3>2, <3>3
    <2> QED
      BY <2>1, <2>3, <2>4, <2>5
  <1>2. ASSUME closing = "done", NEW c \in Instances PROVE instance[c] \in {"none", "gone", "stuck"}
    <2>1. closing \in Closed /\ shut /\ retiring = {}
      BY <1>2 DEF SandboxInv, ShutdownFollows, Closed
    <2>2. \A r \in Runs : run[r].at # "executing"
      BY <2>1 DEF SandboxInv, ShutdownFollows
    <2>3. instance[c] # "used"
      BY <2>2 DEF SandboxInv, RunsOwn, Owns
    <2>4. instance[c] # "idle" /\ instance[c] # "retiring"
      BY <2>1 DEF SandboxInv, InstancesArePlaced
    <2> QED
      BY <2>3, <2>4 DEF SandboxTyped, States
  <1> QED
    BY <1>1, <1>2 DEF InstanceIsSpentOnce

\* An instance is executed on once and by one run, and the shutdown leaves none that
\* the provider did not refuse to destroy (pool.ts, service.ts), for any number of runs,
\* instances and failures.
THEOREM InstanceAlwaysSpentOnce == SandboxSpec => []InstanceIsSpentOnce
  <1>1. SandboxInit => SandboxTyped /\ SandboxInv
    BY SandboxInitInv
  <1>2. SandboxTyped /\ SandboxInv /\ [SandboxNext]_sandboxVars => (SandboxTyped /\ SandboxInv)'
    BY SandboxStepInv
  <1>3. SandboxTyped /\ SandboxInv => InstanceIsSpentOnce
    BY SpentOnceHolds
  <1> QED
    BY <1>1, <1>2, <1>3, PTL DEF SandboxSpec

----------------------------------------------------------------------------
(* The limits of the service and of its pool.                              *)

\* At most so many runs at once, so many warm instances, and a fill task only while
\* there is room for its instance.
RunsAreLimited == IsFiniteSet(ActiveRuns) /\ Cardinality(ActiveRuns) <= Concurrent
RoomToFill == filling.at = "starting" /\ ~shut => Len(idle) < WarmPoolSize

SandboxLimits ==
    /\ refusing \in BOOLEAN /\ shut \in BOOLEAN /\ failures \in 0..MaxFailures
    /\ RunsAreLimited
    /\ Len(idle) <= WarmPoolSize /\ RoomToFill

\* A run that is not begun now keeps the limit.
LEMMA FewerRuns ==
  ASSUME RunsAreLimited, Concurrent \in Nat,
         \A r \in Runs : run[r].at \in {"out", "over"} => run'[r].at \in {"out", "over"}
  PROVE  RunsAreLimited'
  <1>1. ActiveRuns' \subseteq ActiveRuns
    BY DEF ActiveRuns
  <1>2. IsFiniteSet(ActiveRuns') /\ Cardinality(ActiveRuns') <= Cardinality(ActiveRuns)
    BY <1>1, FS_Subset DEF RunsAreLimited
  <1>3. Cardinality(ActiveRuns') \in Nat /\ Cardinality(ActiveRuns) \in Nat
    BY <1>2, FS_CardinalityType DEF RunsAreLimited
  <1> QED
    BY <1>2, <1>3 DEF RunsAreLimited

LEMMA SubmitIsLimited ==
  ASSUME SandboxTyped, RunsAreLimited, Concurrent \in Nat, NEW r \in Runs, Submit(r)
  PROVE  RunsAreLimited'
  <1>1. ActiveRuns' \subseteq ActiveRuns \cup {r}
    BY DEF Submit, ActiveRuns, SandboxTyped
  <1>2. IsFiniteSet(ActiveRuns \cup {r}) /\ Cardinality(ActiveRuns \cup {r}) <= Cardinality(ActiveRuns) + 1
    <2>1. r \notin ActiveRuns
      BY DEF Submit, ActiveRuns
    <2>2. /\ IsFiniteSet(ActiveRuns \cup {r})
          /\ Cardinality(ActiveRuns \cup {r}) = IF r \in ActiveRuns THEN Cardinality(ActiveRuns)
                                                ELSE Cardinality(ActiveRuns) + 1
      BY FS_AddElement DEF RunsAreLimited
    <2>3. Cardinality(ActiveRuns) \in Nat
      BY FS_CardinalityType DEF RunsAreLimited
    <2> QED
      BY <2>1, <2>2, <2>3
  <1>3. IsFiniteSet(ActiveRuns') /\ Cardinality(ActiveRuns') <= Cardinality(ActiveRuns \cup {r})
    BY <1>1, <1>2, FS_Subset
  <1>4. /\ Cardinality(ActiveRuns') \in Nat /\ Cardinality(ActiveRuns) \in Nat
        /\ Cardinality(ActiveRuns \cup {r}) \in Nat
    BY <1>2, <1>3, FS_CardinalityType DEF RunsAreLimited
  <1>5. Cardinality(ActiveRuns) < Concurrent
    BY DEF Submit
  <1> QED
    BY <1>2, <1>3, <1>4, <1>5 DEF RunsAreLimited

\* No step exceeds the number of runs.
LEMMA RunsStayLimited ==
  ASSUME SandboxTyped, RunsAreLimited, [SandboxNext]_sandboxVars
  PROVE  RunsAreLimited'
  <1> USE SandboxAssumption
  <1>1. CASE \E r \in Runs : Submit(r)
    BY <1>1, SubmitIsLimited
  <1>2. ASSUME UNCHANGED run PROVE RunsAreLimited'
    BY <1>2 DEF RunsAreLimited, ActiveRuns
  <1>3. CASE \/ FillGets \/ FillFails \/ RetireEnds \/ ShutdownStarts
             \/ \E r \in Runs : \/ Refuse(r) \/ Enter(r) \/ Shift(r) \/ JoinedAborts(r) \/ OwnStarts(r)
                                \/ OwnFails(r) \/ Abort(r) \/ RunEnds(r)
    <2>1. SUFFICES ASSUME NEW q \in Runs, run[q].at \in {"out", "over"} PROVE run'[q].at \in {"out", "over"}
      BY FewerRuns
    <2>2. CASE FillGets
      BY <2>1, <2>2 DEF FillGets, Woken
    <2>3. CASE FillFails
      BY <2>1, <2>3 DEF FillFails, Woken
    <2>4. CASE RetireEnds
      <3>1. PICK c \in retiring :
               \/ run' = [r \in Runs |-> IF run[r].at = "retiring" /\ run[r].channel = c
                                        THEN [run[r] EXCEPT !.at = "shifting", !.channel = NoInstance]
                                        ELSE run[r]]
               \/ run' = [r \in Runs |-> IF run[r].at = "retiring" /\ run[r].channel = c
                                        THEN [run[r] EXCEPT !.at = "over", !.channel = NoInstance]
                                        ELSE run[r]]
        BY <2>4, Zenon DEF RetireEnds
      <3> QED
        BY <2>1, <3>1
    <2>5. CASE ShutdownStarts
      BY <2>1, <2>5 DEF ShutdownStarts, ActiveRuns
    <2>6. ASSUME NEW r \in Runs,
                 \/ Refuse(r) \/ Enter(r) \/ Shift(r) \/ JoinedAborts(r) \/ OwnStarts(r)
                 \/ OwnFails(r) \/ Abort(r) \/ RunEnds(r)
          PROVE  run'[q].at \in {"out", "over"}
      <3>1. CASE q = r
        <4>1. ~Enter(r) /\ ~Shift(r) /\ ~OwnStarts(r) /\ ~JoinedAborts(r) /\ ~Abort(r)
          BY <2>1, <3>1 DEF Enter, Shift, OwnStarts, JoinedAborts, Abort
        <4>2. ~Refuse(r) /\ ~OwnFails(r) /\ ~RunEnds(r)
          BY <2>1, <3>1 DEF Refuse, OwnFails, RunEnds
        <4> QED
          BY <2>6, <4>1, <4>2
      <3>2. CASE q # r
        <4>1. run'[q] = run[q]
          <5>1. CASE Refuse(r) \/ Enter(r) \/ JoinedAborts(r)
            BY <3>2, <5>1 DEF Refuse, Enter, JoinedAborts, SandboxTyped
          <5>2. CASE Shift(r)
            BY <3>2, <5>2 DEF Shift, SandboxTyped
          <5>3. CASE OwnStarts(r) \/ OwnFails(r)
            BY <3>2, <5>3 DEF OwnStarts, OwnFails, SandboxTyped
          <5>4. CASE Abort(r) \/ RunEnds(r)
            BY <3>2, <5>4 DEF Abort, RunEnds, SandboxTyped
          <5> QED
            BY <2>6, <5>1, <5>2, <5>3, <5>4
        <4> QED
          BY <2>1, <4>1
      <3> QED
        BY <3>1, <3>2
    <2> QED
      BY <1>3, <2>2, <2>3, <2>4, <2>5, <2>6
  <1>4. CASE \/ PrewarmTicks \/ EntryExpires \/ IdleExits \/ PoolShutdown \/ RetireIdle \/ CloseAgain
             \/ ShutdownEnds \/ UNCHANGED sandboxVars
    BY <1>2, <1>4 DEF PrewarmTicks, EntryExpires, IdleExits, PoolShutdown, RetireIdle, CloseAgain,
                      ShutdownEnds, sandboxVars
  <1> QED
    BY <1>1, <1>3, <1>4 DEF SandboxNext

\* A fill task begins only where there is room.
LEMMA FilledHasRoom ==
  ASSUME NEW warm, NEW retire, NEW fills, Filled(warm, retire, fills) # fills
  PROVE  fills.at = "no" /\ ~shut /\ ~(Len(warm) >= WarmPoolSize)
  BY DEF Filled

\* No step exceeds the size of the pool.
LEMMA PoolStaysLimited ==
  ASSUME SandboxTyped, SandboxInv, Len(idle) <= WarmPoolSize, RoomToFill, [SandboxNext]_sandboxVars
  PROVE  Len(idle)' <= WarmPoolSize /\ RoomToFill'
  <1>t. WarmPoolSize \in Nat /\ idle \in Seq(Instances) /\ Len(idle) \in Nat
    BY SandboxAssumption DEF SandboxTyped
  <1>s. ASSUME idle' = idle, filling' = filling \/ filling'.at # "starting", shut => shut'
        PROVE  Len(idle)' <= WarmPoolSize /\ RoomToFill'
    BY <1>s DEF RoomToFill
  <1>f. ASSUME NEW w \in Seq(Instances), NEW retire, idle' = w, Len(w) <= Len(idle),
               filling' = filling \/ filling' = Filled(w, retire, filling), shut' = shut
        PROVE  Len(idle)' <= WarmPoolSize /\ RoomToFill'
    <2>1. Len(w) \in Nat /\ Len(w) <= WarmPoolSize
      BY <1>t, <1>f
    <2>2. CASE filling' = filling
      BY <1>t, <1>f, <2>1, <2>2 DEF RoomToFill
    <2>3. CASE filling' # filling
      BY <1>t, <1>f, <2>1, <2>3, FilledHasRoom DEF RoomToFill
    <2> QED
      BY <2>2, <2>3
  <1>1. CASE FillGets
    <2>1. CASE shut
      <3>1. idle' = idle /\ shut' = shut
        BY <1>1, <2>1 DEF FillGets
      <3> QED
        BY <2>1, <3>1 DEF RoomToFill
    <2>2. CASE ~shut
      <3>1. Len(idle) < WarmPoolSize
        BY <1>1, <2>2 DEF FillGets, RoomToFill
      <3>2. PICK c \in Instances :
               /\ idle' = Append(idle, c)
               /\ IF Len(idle) + 1 < WarmPoolSize THEN filling' = filling ELSE filling'.at = "no"
        BY <1>1, <2>2 DEF FillGets
      <3>3. Len(idle') = Len(idle) + 1
        BY <1>t, <3>2
      <3>4. Len(idle') <= WarmPoolSize
        BY <1>t, <3>1, <3>3
      <3>5. filling'.at = "starting" => Len(idle') < WarmPoolSize
        BY <3>2, <3>3
      <3> QED
        BY <3>4, <3>5 DEF RoomToFill
    <2> QED
      BY <2>1, <2>2
  <1>2. CASE FillFails \/ EntryExpires
    BY <1>s, <1>2 DEF FillFails, EntryExpires
  <1>3. CASE PrewarmTicks
    <2>1. PICK n \in 0..Len(idle) : idle' = SubSeq(idle, n + 1, Len(idle))
      BY <1>3 DEF PrewarmTicks
    <2>2. idle' \in Seq(Instances) /\ Len(idle') <= Len(idle)
      BY <1>t, <2>1
    <2> QED
      BY <1>f, <1>3, <2>2 DEF PrewarmTicks
  <1>4. CASE IdleExits
    <2>1. PICK i \in 1..Len(idle) : idle' = RemoveAt(idle, i)
      BY <1>4 DEF IdleExits
    <2>2. PICK a, b : a = SubSeq(idle, 1, i - 1) /\ b = SubSeq(idle, i + 1, Len(idle))
      OBVIOUS
    <2>3. a \in Seq(Instances) /\ b \in Seq(Instances) /\ Len(a) = i - 1 /\ Len(b) = Len(idle) - i
      BY <1>t, <2>2
    <2>4. idle' = a \o b
      BY <2>1, <2>2 DEF RemoveAt
    <2>5. idle' \in Seq(Instances) /\ Len(idle') <= Len(idle)
      BY <1>t, <2>3, <2>4
    <2> QED
      BY <1>f, <1>4, <2>5 DEF IdleExits
  <1>5. CASE RetireEnds
    <2>1. PICK c \in retiring :
             filling' = IF filling.channel = c THEN [at |-> "no", channel |-> NoInstance] ELSE filling
      BY <1>5, Zenon DEF RetireEnds
    <2>2. filling' = filling \/ filling'.at # "starting"
      BY <2>1
    <2>3. idle' = idle /\ shut' = shut
      BY <1>5 DEF RetireEnds
    <2> QED
      BY <1>s, <2>2, <2>3
  <1>6. ASSUME NEW r \in Runs, Shift(r) PROVE Len(idle)' <= WarmPoolSize /\ RoomToFill'
    <2>1. CASE idle = <<>>
      BY <1>s, <1>6, <2>1 DEF Shift
    <2>2. CASE idle # <<>>
      <3>t. Tail(idle) \in Seq(Instances) /\ Len(Tail(idle)) <= Len(idle)
        BY <1>t, <2>2
      <3>1. idle' = Tail(idle)
        BY <1>6, <2>2 DEF Shift
      <3>2. shut' = shut /\ (filling' = filling \/ filling' = Filled(Tail(idle), retiring, filling))
        BY <1>6, <2>2 DEF Shift
      <3> QED
        BY <1>f, <3>t, <3>1, <3>2
    <2> QED
      BY <2>1, <2>2
  <1>7. ASSUME NEW r \in Runs, OwnStarts(r) PROVE Len(idle)' <= WarmPoolSize /\ RoomToFill'
    BY <1>f, <1>t, <1>7 DEF OwnStarts
  <1>8. ASSUME NEW r \in Runs,
               \/ Submit(r) \/ Refuse(r) \/ Enter(r) \/ JoinedAborts(r) \/ OwnFails(r) \/ Abort(r) \/ RunEnds(r)
        PROVE  Len(idle)' <= WarmPoolSize /\ RoomToFill'
    BY <1>s, <1>8 DEF Submit, Refuse, Enter, JoinedAborts, OwnFails, Abort, RunEnds
  <1>9. CASE ShutdownStarts \/ PoolShutdown \/ RetireIdle \/ CloseAgain
    BY <1>s, <1>9 DEF ShutdownStarts, PoolShutdown, RetireIdle, CloseAgain
  <1>10. CASE ShutdownEnds
    <2>1. shut' /\ idle' = <<>>
      BY <1>10 DEF ShutdownEnds, SandboxInv, ShutdownFollows, Closed
    <2> QED
      BY <1>t, <2>1 DEF RoomToFill
  <1>11. CASE UNCHANGED sandboxVars
    BY <1>s, <1>11 DEF sandboxVars
  <1> QED
    BY <1>1, <1>2, <1>3, <1>4, <1>5, <1>6, <1>7, <1>8, <1>9, <1>10, <1>11 DEF SandboxNext

\* The flags, and the failures the provider is allowed.
LEMMA FlagsStayTyped ==
  ASSUME refusing \in BOOLEAN, shut \in BOOLEAN, failures \in 0..MaxFailures, [SandboxNext]_sandboxVars
  PROVE  refusing' \in BOOLEAN /\ shut' \in BOOLEAN /\ failures' \in 0..MaxFailures
  <1>1. MaxFailures \in Nat
    BY SandboxAssumption
  <1>2. ASSUME UNCHANGED failures \/ ProviderFails PROVE failures' \in 0..MaxFailures
    BY <1>1, <1>2 DEF ProviderFails
  <1>3. CASE ShutdownStarts
    BY <1>2, <1>3, Zenon DEF ShutdownStarts
  <1>4. CASE PoolShutdown
    BY <1>2, <1>4, Zenon DEF PoolShutdown
  <1>5. ASSUME UNCHANGED <<refusing, shut>>, UNCHANGED failures \/ ProviderFails
        PROVE  refusing' \in BOOLEAN /\ shut' \in BOOLEAN /\ failures' \in 0..MaxFailures
    BY <1>2, <1>5, Zenon
  <1>6. CASE FillGets \/ FillFails \/ PrewarmTicks \/ EntryExpires
    BY <1>5, <1>6, Zenon DEF FillGets, FillFails, PrewarmTicks, EntryExpires
  <1>7. CASE IdleExits \/ RetireEnds
    BY <1>5, <1>7, Zenon DEF IdleExits, RetireEnds
  <1>8. CASE RetireIdle \/ CloseAgain \/ ShutdownEnds \/ UNCHANGED sandboxVars
    BY <1>5, <1>8, Zenon DEF RetireIdle, CloseAgain, ShutdownEnds, sandboxVars
  <1>9. ASSUME NEW r \in Runs, Submit(r) \/ Refuse(r) \/ Enter(r) \/ Shift(r) \/ JoinedAborts(r)
        PROVE  UNCHANGED <<refusing, shut, failures>>
    BY <1>9, Zenon DEF Submit, Refuse, Enter, Shift, JoinedAborts
  <1>10. ASSUME NEW r \in Runs, OwnStarts(r) \/ OwnFails(r) \/ Abort(r) \/ RunEnds(r)
         PROVE  UNCHANGED <<refusing, shut>> /\ (UNCHANGED failures \/ ProviderFails)
    BY <1>10, Zenon DEF OwnStarts, OwnFails, Abort, RunEnds
  <1> QED
    BY <1>3, <1>4, <1>5, <1>6, <1>7, <1>8, <1>9, <1>10, Zenon DEF SandboxNext

LEMMA LimitsAtFirst == SandboxInit => SandboxLimits
  <1> SUFFICES ASSUME SandboxInit PROVE SandboxLimits
    OBVIOUS
  <1>1. ActiveRuns = {}
    BY DEF SandboxInit, ActiveRuns, Out
  <1>2. Concurrent \in Nat /\ WarmPoolSize \in Nat /\ MaxFailures \in Nat
    BY SandboxAssumption
  <1>3. RunsAreLimited
    BY <1>1, <1>2, FS_EmptySet DEF RunsAreLimited
  <1>4. refusing = FALSE /\ shut = FALSE /\ failures = 0 /\ filling.at = "no" /\ Len(idle) = 0
    BY DEF SandboxInit
  <1>5. RoomToFill
    BY <1>4 DEF RoomToFill
  <1>6. failures \in 0..MaxFailures /\ Len(idle) <= WarmPoolSize
    BY <1>2, <1>4
  <1>7. refusing \in BOOLEAN /\ shut \in BOOLEAN
    BY <1>4, Zenon
  <1> QED
    BY <1>3, <1>5, <1>6, <1>7, Zenon DEF SandboxLimits

\* The service runs no more scripts at once than it may, the pool keeps no more warm
\* instances than it should, and none of them twice (service.ts, pool.ts).
THEOREM SandboxStaysInLimits == SandboxSpec => []SandboxTypeOK
  <1>1. SandboxInit => SandboxTyped /\ SandboxInv /\ SandboxLimits
    BY SandboxInitInv, LimitsAtFirst
  <1>2. SandboxTyped /\ SandboxInv /\ SandboxLimits /\ [SandboxNext]_sandboxVars
           => (SandboxTyped /\ SandboxInv /\ SandboxLimits)'
    <2> SUFFICES ASSUME SandboxTyped, SandboxInv, SandboxLimits, [SandboxNext]_sandboxVars
                 PROVE  (SandboxTyped /\ SandboxInv /\ SandboxLimits)'
      OBVIOUS
    <2>1. RunsAreLimited'
      BY RunsStayLimited DEF SandboxLimits
    <2>2. Len(idle)' <= WarmPoolSize /\ RoomToFill'
      BY PoolStaysLimited DEF SandboxLimits
    <2>3. refusing' \in BOOLEAN /\ shut' \in BOOLEAN /\ failures' \in 0..MaxFailures
      BY FlagsStayTyped, Zenon DEF SandboxLimits
    <2> QED
      BY <2>1, <2>2, <2>3, SandboxStepInv, Zenon DEF SandboxLimits
  <1>3. SandboxTyped /\ SandboxLimits => SandboxTypeOK
    <2> SUFFICES ASSUME SandboxTyped, SandboxLimits PROVE SandboxTypeOK
      OBVIOUS
    <2>1. IsInjective(idle)
      BY DEF SandboxTyped, Distinct, IsInjective
    <2>2. {refusing, shut} \subseteq BOOLEAN
      BY Zenon DEF SandboxLimits
    <2>3. closing \in {"no", "runs", "filling", "idle", "again", "done"}
      BY DEF SandboxTyped, Closed
    <2>4. {idle} \subseteq Seq(Instances)
      BY Zenon DEF SandboxTyped
    <2> QED
      BY <2>1, <2>2, <2>3, <2>4, Zenon
         DEF SandboxTypeOK, SandboxTyped, SandboxLimits, RunsAreLimited, States, Stages
  <1> QED
    BY <1>1, <1>2, <1>3, PTL DEF SandboxSpec

-------------------------------------------------------------------------------
(* TaskSchedule.                                                           *)

FireStages == {"none", "asking", "told", "starting", "running", "recording", "over", "lost"}
TaskStates == {"active", "paused", "gone"}
Fire == [at : FireStages, byClock : BOOLEAN, said : TaskStates, reserved : BOOLEAN]

\* The types, without the count of mishaps.
ScheduleTyped ==
    /\ task \in TaskStates /\ rows \subseteq Fires
    /\ fits \in BOOLEAN /\ job \in {"none", "fits", "unfit"} /\ hasPrompt \in BOOLEAN /\ armed \in BOOLEAN
    /\ firing \in BOOLEAN /\ executing \in BOOLEAN /\ halted \in BOOLEAN /\ swept \in BOOLEAN
    /\ fire \in [Fires -> Fire]
    /\ sync \in [Syncs -> {"none", "asking", "fits", "unfit", "missing", "over"}]
    /\ manual \in [Calls -> {"none", "asking", "refused", "allowed", "ok"}]
    /\ mishaps \in 0..MaxMishaps

\* A run is alive while it is at one of these stages.
LEMMA AliveStages ==
  ASSUME ScheduleTyped
  PROVE  \A f \in Fires : f \in Alive <=> fire[f].at \in {"asking", "told", "starting", "running", "recording"}
  BY DEF ScheduleTyped, Fire, FireStages, Alive

\* One run at a time, told as the code knows it: by the marks of the scheduler and of
\* the coordinator.
RunsAreMarked ==
    /\ \A f, g \in Alive : f = g
    /\ executing <=> Alive # {}
    /\ firing <=> \E f \in Alive : fire[f].byClock
    /\ \A f \in Fires : fire[f].at = "none" => ~fire[f].byClock

\* Without mishaps, a row says running for a run that reserved it and has not been
\* recorded yet.
RowsAreReserved ==
    mishaps = 0 => \A f \in rows : fire[f].reserved /\ fire[f].at \in {"running", "recording"}

ScheduleInv == RunsAreMarked /\ KnownTaskIsArmed /\ DeletedTaskStaysForgotten /\ RowsAreReserved

LEMMA ScheduleInitTyped == ScheduleInit => ScheduleTyped
  <1> SUFFICES ASSUME ScheduleInit PROVE ScheduleTyped
    OBVIOUS
  <1>1. NoFire \in Fire /\ 0 \in 0..MaxMishaps
    BY ScheduleAssumption DEF NoFire, Fire, FireStages, TaskStates
  <1>2. fire \in [Fires -> Fire]
    BY <1>1 DEF ScheduleInit
  <1> QED
    BY <1>1, <1>2 DEF ScheduleInit, ScheduleTyped, TaskStates

\* A step changes one run, or none, or loses those that are alive.
LEMMA ScheduleNextTyped == ScheduleTyped /\ [ScheduleNext]_scheduleVars => ScheduleTyped'
  <1> SUFFICES ASSUME ScheduleTyped, [ScheduleNext]_scheduleVars PROVE ScheduleTyped'
    OBVIOUS
  <1>m. Mishap => mishaps' \in 0..MaxMishaps
    <2>1. MaxMishaps \in Nat
      BY ScheduleAssumption
    <2> QED
      BY <2>1 DEF Mishap, ScheduleTyped
  <1> USE <1>m DEF ScheduleTyped, Fire, FireStages, TaskStates, NoFire
  <1>1. CASE TaskChanges
    BY <1>1 DEF TaskChanges
  <1>2. CASE TimerFires
    <2>1. fire' \in [Fires -> Fire]
      <3>1. PICK f \in Fires : fire' = [fire EXCEPT ![f] = [NoFire EXCEPT !.at = "asking", !.byClock = TRUE]]
        BY <1>2, Zenon DEF TimerFires
      <3> QED
        BY <3>1
    <2>2. UNCHANGED <<task, fits, rows, job, hasPrompt, sync, manual, halted, mishaps, swept>>
      BY <1>2 DEF TimerFires
    <2>3. armed' = FALSE /\ firing' = TRUE /\ executing' = TRUE
      BY <1>2 DEF TimerFires
    <2> QED
      BY <2>1, <2>2, <2>3
  <1>3. CASE Halt
    BY <1>3 DEF Halt
  <1>4. CASE CoordinatorRestarts
    <2>1. fire' \in [Fires -> Fire]
      BY <1>4 DEF CoordinatorRestarts
    <2>2. sync' \in [Syncs -> {"none", "asking", "fits", "unfit", "missing", "over"}]
      BY <1>4 DEF CoordinatorRestarts
    <2>3. manual' \in [Calls -> {"none", "asking", "refused", "allowed", "ok"}]
      BY <1>4 DEF CoordinatorRestarts
    <2> QED
      BY <1>4, <2>1, <2>2, <2>3 DEF CoordinatorRestarts
  <1>5. ASSUME NEW s \in Syncs, SyncAsks(s) \/ SyncReads(s) \/ SyncAdds(s) \/ SyncFails(s)
        PROVE  ScheduleTyped'
    <2>1. CASE SyncAsks(s) \/ SyncReads(s)
      <3>1. sync' \in [Syncs -> {"none", "asking", "fits", "unfit", "missing", "over"}]
        BY <2>1 DEF SyncAsks, SyncReads
      <3>2. UNCHANGED <<task, fits, rows, job, hasPrompt, armed, firing, executing, fire, manual, halted, mishaps, swept>>
        BY <2>1 DEF SyncAsks, SyncReads
      <3> QED
        BY <3>1, <3>2
    <2>2. CASE SyncAdds(s)
      BY <2>2, Zenon DEF SyncAdds, Scheduled
    <2>3. CASE SyncFails(s)
      BY <2>3 DEF SyncFails
    <2> QED
      BY <1>5, <2>1, <2>2, <2>3
  <1>5a. ASSUME NEW s \in Syncs, SyncRemoves(s)
         PROVE  ScheduleTyped'
    <2>1. job' \in {"none", "fits", "unfit"} /\ armed' \in BOOLEAN /\ hasPrompt' \in BOOLEAN /\ swept' \in BOOLEAN
      BY <1>5a, Zenon DEF SyncRemoves
    <2>2. sync' \in [Syncs -> {"none", "asking", "fits", "unfit", "missing", "over"}]
      BY <1>5a DEF SyncRemoves
    <2> QED
      BY <1>5a, <2>1, <2>2 DEF SyncRemoves
  <1>6. ASSUME NEW f \in Fires, StatusReads(f) \/ StatusActive(f) \/ FireEnds(f) \/ Reserves(f) \/ ReserveFails(f)
        PROVE  ScheduleTyped'
    BY <1>6 DEF StatusReads, StatusActive, FireEnds, Reserves, ReserveFails
  <1>7. ASSUME NEW f \in Fires, StatusFails(f) \/ StatusInactive(f) \/ Finalizes(f) \/ FinalizeFails(f)
        PROVE  ScheduleTyped'
    <2>1. PICK copy \in {"none", "fits", "unfit"} : RunOver(f, copy)
      BY <1>7 DEF StatusFails, StatusInactive, Finalizes, FinalizeFails
    <2>2. armed' \in BOOLEAN /\ firing' \in BOOLEAN /\ executing' \in BOOLEAN
      BY <2>1, Zenon DEF RunOver, Scheduled
    <2>3. fire' \in [Fires -> Fire]
      BY <2>1 DEF RunOver
    <2> QED
      BY <1>7, <2>2, <2>3, ZenonT(40) DEF StatusFails, StatusInactive, Finalizes, FinalizeFails
  <1>8. ASSUME NEW c \in Calls, CallAsks(c) \/ CallReads(c) \/ CallRuns(c)
        PROVE  ScheduleTyped'
    <2>1. CASE CallAsks(c) \/ CallReads(c)
      BY <2>1 DEF CallAsks, CallReads
    <2>2. CASE CallRuns(c)
      <3>1. fire' \in [Fires -> Fire]
        BY <2>2 DEF CallRuns
      <3> QED
        BY <2>2, <3>1 DEF CallRuns
    <2> QED
      BY <1>8, <2>1, <2>2
  <1>9. CASE UNCHANGED scheduleVars
    BY <1>9 DEF scheduleVars
  <1> QED
    BY <1>1, <1>2, <1>3, <1>4, <1>5, <1>5a, <1>6, <1>7, <1>8, <1>9 DEF ScheduleNext

\* The task, its runs and its reconciliations keep their types, for any number of them
\* (task-coordinator.ts, cron-scheduler.ts).
THEOREM ScheduleAlwaysTyped == ScheduleSpec => []ScheduleTypeOK
  <1>1. ScheduleTyped => ScheduleTypeOK
    BY DEF ScheduleTyped, ScheduleTypeOK, Fire, FireStages, TaskStates
  <1> QED
    BY <1>1, ScheduleInitTyped, ScheduleNextTyped, PTL DEF ScheduleSpec

----------------------------------------------------------------------------
(* The steps of a run.                                                     *)

LEMMA ScheduleInvInit == ScheduleInit => ScheduleInv
  <1> SUFFICES ASSUME ScheduleInit PROVE ScheduleInv
    OBVIOUS
  <1>1. Alive = {}
    BY DEF ScheduleInit, Alive, NoFire
  <1>2. \A f \in Fires : ~fire[f].byClock
    BY DEF ScheduleInit, NoFire
  <1> QED
    BY <1>1, <1>2, Zenon DEF ScheduleInit, ScheduleInv, RunsAreMarked, KnownTaskIsArmed,
                       DeletedTaskStaysForgotten, RowsAreReserved

\* A run that is over: it was the only one, and what it leaves is armed again or unknown.
LEMMA RunOverKeeps ==
  ASSUME ScheduleTyped, ScheduleInv, NEW f \in Fires, f \in Alive, job' \in {"none", job}, RunOver(f, job'),
         job' # "none" => hasPrompt', swept' = swept
  PROVE  RunsAreMarked' /\ KnownTaskIsArmed' /\ DeletedTaskStaysForgotten'
  <1>1. fire' = [fire EXCEPT ![f] = [NoFire EXCEPT !.at = "over"]]
    BY DEF RunOver
  <1>2. Alive' = {}
    BY <1>1 DEF Alive, RunOver, NoFire, ScheduleTyped, ScheduleInv, RunsAreMarked
  <1>3. firing => fire[f].byClock
    BY DEF ScheduleInv, RunsAreMarked
  <1>4. executing' = FALSE /\ firing' = FALSE
    BY <1>3 DEF RunOver, ScheduleTyped
  <1>5. RunsAreMarked'
    BY <1>1, <1>2, <1>4 DEF RunsAreMarked, ScheduleInv, NoFire, ScheduleTyped
  <1>6. job' = "fits" => armed \/ fire[f].byClock
    BY <1>3 DEF ScheduleInv, KnownTaskIsArmed
  <1>7. KnownTaskIsArmed'
    BY <1>4, <1>6 DEF RunOver, Scheduled, KnownTaskIsArmed, ScheduleInv, ScheduleTyped
  <1> QED
    BY <1>5, <1>7 DEF DeletedTaskStaysForgotten, ScheduleInv

\* A run that goes on stays the one it was.
LEMMA RunGoesOn ==
  ASSUME ScheduleTyped, ScheduleInv, NEW f \in Fires, f \in Alive,
         fire' \in [Fires -> Fire],
         \A g \in Fires : g # f => fire'[g] = fire[g],
         fire'[f].at \in {"told", "starting", "running", "recording"}, fire'[f].byClock = fire[f].byClock,
         UNCHANGED <<job, hasPrompt, armed, firing, executing, swept>>
  PROVE  RunsAreMarked' /\ KnownTaskIsArmed' /\ DeletedTaskStaysForgotten'
  <1>1. Alive' = Alive
    BY DEF Alive
  <1> QED
    BY <1>1 DEF ScheduleInv, RunsAreMarked, KnownTaskIsArmed, DeletedTaskStaysForgotten, Alive

\* A new run, when there is none.
LEMMA RunBegins ==
  ASSUME ScheduleTyped, ScheduleInv, ~executing, NEW f \in Fires,
         fire' \in [Fires -> Fire],
         \A g \in Fires : g # f => fire'[g] = fire[g],
         fire'[f].at \in {"asking", "starting"}, executing' = TRUE,
         firing' = (firing \/ fire'[f].byClock), ~firing
  PROVE  RunsAreMarked'
  <1>1. Alive = {}
    BY DEF ScheduleInv, RunsAreMarked
  <1>2. Alive' = {f}
    BY <1>1 DEF Alive
  <1>3. firing' <=> \E g \in Alive' : fire'[g].byClock
    BY <1>2, Zenon
  <1>4. \A g \in Fires : fire'[g].at = "none" => ~fire'[g].byClock
    BY DEF ScheduleInv, RunsAreMarked
  <1> QED
    BY <1>2, <1>3, <1>4 DEF RunsAreMarked

LEMMA ScheduleInvNext ==
  ScheduleTyped /\ ScheduleTyped' /\ ScheduleInv /\ [ScheduleNext]_scheduleVars => ScheduleInv'
  <1> SUFFICES ASSUME ScheduleTyped, ScheduleTyped', ScheduleInv, [ScheduleNext]_scheduleVars
               PROVE  ScheduleInv'
    OBVIOUS
  <1>m. Mishap => mishaps' # 0
    BY DEF Mishap, ScheduleTyped
  <1>f. ASSUME UNCHANGED <<fire, executing, firing>> PROVE RunsAreMarked'
    BY <1>f DEF ScheduleInv, RunsAreMarked, Alive
  <1>r. ASSUME UNCHANGED <<rows, fire, mishaps>> PROVE RowsAreReserved'
    BY <1>r DEF ScheduleInv, RowsAreReserved
  <1>1. CASE TaskChanges
    BY <1>1, <1>f DEF TaskChanges, ScheduleInv, KnownTaskIsArmed, DeletedTaskStaysForgotten, RowsAreReserved
  <1>2. CASE TimerFires
    <2>1. PICK f \in Fires : NextFire(f) /\ fire' = [fire EXCEPT ![f] = [NoFire EXCEPT !.at = "asking", !.byClock = TRUE]]
      BY <1>2 DEF TimerFires
    <2>2. RunsAreMarked'
      <3>1. fire'[f].at = "asking" /\ fire'[f].byClock /\ \A g \in Fires : g # f => fire'[g] = fire[g]
        BY <2>1 DEF ScheduleTyped, NoFire
      <3> QED
        BY <1>2, <3>1, RunBegins DEF TimerFires, ScheduleTyped
    <2>3. KnownTaskIsArmed' /\ DeletedTaskStaysForgotten'
      BY <1>2 DEF TimerFires, ScheduleInv, KnownTaskIsArmed, DeletedTaskStaysForgotten
    <2>4. RowsAreReserved'
      BY <1>2, <2>1 DEF TimerFires, ScheduleInv, RowsAreReserved, NextFire, ScheduleTyped
    <2> QED
      BY <2>2, <2>3, <2>4 DEF ScheduleInv
  <1>3. CASE Halt
    BY <1>3, <1>f, <1>r DEF Halt, ScheduleInv, KnownTaskIsArmed, DeletedTaskStaysForgotten
  <1>4. CASE CoordinatorRestarts
    <2>1. Alive' = {}
      BY <1>4 DEF CoordinatorRestarts, Alive, NoFire
    <2> QED
      BY <1>4, <1>m, <2>1 DEF CoordinatorRestarts, ScheduleInv, RunsAreMarked, KnownTaskIsArmed,
                              DeletedTaskStaysForgotten, RowsAreReserved
  <1>5. ASSUME NEW s \in Syncs, SyncAsks(s) \/ SyncReads(s)
        PROVE  ScheduleInv'
    BY <1>5, <1>f, <1>r DEF SyncAsks, SyncReads, ScheduleInv, KnownTaskIsArmed, DeletedTaskStaysForgotten
  <1>5b. ASSUME NEW s \in Syncs, SyncAdds(s)
         PROVE  ScheduleInv'
    <2>1. RunsAreMarked' /\ RowsAreReserved'
      BY <1>5b, <1>f, <1>r DEF SyncAdds
    <2>2. job' \in {"fits", "unfit"} /\ hasPrompt' /\ armed' = (job' = "fits") /\ ~swept'
      BY <1>5b, Zenon DEF SyncAdds, Scheduled
    <2> QED
      BY <2>1, <2>2 DEF ScheduleInv, KnownTaskIsArmed, DeletedTaskStaysForgotten
  <1>5a. ASSUME NEW s \in Syncs, SyncRemoves(s)
         PROVE  ScheduleInv'
    <2>1. RunsAreMarked' /\ RowsAreReserved'
      BY <1>5a, <1>f, <1>r DEF SyncRemoves
    <2>2. job' = "none" /\ ~armed'
      BY <1>5a DEF SyncRemoves, Removable, ScheduleTyped, ScheduleInv, KnownTaskIsArmed
    <2> QED
      BY <2>1, <2>2, Zenon DEF ScheduleInv, KnownTaskIsArmed, DeletedTaskStaysForgotten
  <1>6. ASSUME NEW s \in Syncs, SyncFails(s) PROVE ScheduleInv'
    BY <1>6, <1>f, <1>m DEF SyncFails, ScheduleInv, KnownTaskIsArmed, DeletedTaskStaysForgotten, RowsAreReserved
  <1>7. ASSUME NEW f \in Fires, StatusReads(f) \/ StatusActive(f) \/ FireEnds(f) \/ Reserves(f) \/ ReserveFails(f)
        PROVE  ScheduleInv'
    <2>1. f \in Alive
      BY <1>7, AliveStages DEF StatusReads, StatusActive, FireEnds, Reserves, ReserveFails
    <2>2. /\ \A g \in Fires : g # f => fire'[g] = fire[g]
          /\ fire'[f].at \in {"told", "starting", "running", "recording"}
          /\ fire'[f].byClock = fire[f].byClock
          /\ UNCHANGED <<job, hasPrompt, armed, firing, executing, swept>>
      BY <1>7 DEF StatusReads, StatusActive, FireEnds, Reserves, ReserveFails, ScheduleTyped, Fire
    <2>3. RunsAreMarked' /\ KnownTaskIsArmed' /\ DeletedTaskStaysForgotten'
      BY <2>1, <2>2, RunGoesOn DEF ScheduleTyped
    <2>4. RowsAreReserved'
      BY <1>7, <1>m DEF StatusReads, StatusActive, FireEnds, Reserves, ReserveFails, ScheduleInv, RowsAreReserved,
                        ScheduleTyped, Fire
    <2> QED
      BY <2>3, <2>4 DEF ScheduleInv
  <1>8. ASSUME NEW f \in Fires, StatusFails(f) \/ StatusInactive(f) \/ Finalizes(f) \/ FinalizeFails(f)
        PROVE  ScheduleInv'
    <2>1. f \in Alive
      BY <1>8, AliveStages DEF StatusFails, StatusInactive, Finalizes, FinalizeFails
    <2>2. RunOver(f, job') /\ job' \in {"none", job} /\ (job' # "none" => hasPrompt') /\ swept' = swept
      <3>1. CASE StatusInactive(f)
        BY <3>1 DEF StatusInactive
      <3>2. CASE StatusFails(f) \/ Finalizes(f) \/ FinalizeFails(f)
        BY <3>2 DEF StatusFails, Finalizes, FinalizeFails, ScheduleInv, KnownTaskIsArmed
      <3> QED
        BY <1>8, <3>1, <3>2
    <2>3. RunsAreMarked' /\ KnownTaskIsArmed' /\ DeletedTaskStaysForgotten'
      BY <2>1, <2>2, RunOverKeeps DEF ScheduleTyped
    <2>4. RowsAreReserved'
      BY <1>8, <1>m DEF StatusFails, StatusInactive, Finalizes, FinalizeFails, RunOver, ScheduleInv,
                        RowsAreReserved, ScheduleTyped
    <2> QED
      BY <2>3, <2>4 DEF ScheduleInv
  <1>9. ASSUME NEW c \in Calls, CallAsks(c) \/ CallReads(c)
        PROVE  ScheduleInv'
    BY <1>9, <1>f, <1>r DEF CallAsks, CallReads, ScheduleInv, KnownTaskIsArmed, DeletedTaskStaysForgotten
  <1>10. ASSUME NEW c \in Calls, CallRuns(c)
         PROVE  ScheduleInv'
    <2>1. KnownTaskIsArmed' /\ DeletedTaskStaysForgotten'
      BY <1>10 DEF CallRuns, ScheduleInv, KnownTaskIsArmed, DeletedTaskStaysForgotten
    <2>2. CASE executing
      BY <1>10, <1>f, <1>r, <2>1, <2>2 DEF CallRuns, ScheduleInv
    <2>3. CASE ~executing
      <3>1. PICK f \in Fires : NextFire(f) /\ fire' = [fire EXCEPT ![f].at = "starting"]
        BY <1>10, <2>3 DEF CallRuns
      <3>2. /\ fire'[f].at = "starting" /\ fire'[f].byClock = fire[f].byClock
            /\ \A g \in Fires : g # f => fire'[g] = fire[g]
        BY <3>1 DEF ScheduleTyped, Fire
      <3>3. ~fire[f].byClock /\ ~firing
        BY <2>3, <3>1 DEF NextFire, ScheduleInv, RunsAreMarked
      <3>4. RunsAreMarked'
        BY <1>10, <2>3, <3>2, <3>3, RunBegins DEF CallRuns, ScheduleTyped
      <3>5. RowsAreReserved'
        BY <1>10, <3>1, <3>2 DEF CallRuns, NextFire, ScheduleInv, RowsAreReserved, ScheduleTyped
      <3> QED
        BY <2>1, <3>4, <3>5 DEF ScheduleInv
    <2> QED
      BY <2>2, <2>3
  <1>11. CASE UNCHANGED scheduleVars
    BY <1>11, <1>f, <1>r DEF scheduleVars, ScheduleInv, KnownTaskIsArmed, DeletedTaskStaysForgotten
  <1> QED
    BY <1>1, <1>2, <1>3, <1>4, <1>5, <1>5a, <1>5b, <1>6, <1>7, <1>8, <1>9, <1>10, <1>11 DEF ScheduleNext

\* The schedule of a task is sound, for any number of runs, reconciliations and calls:
\* one run at a time, a next occurrence for a known task whose schedule has one, no deleted task that comes
\* back, no row of a run that is over (task-coordinator.ts, cron-scheduler.ts).
THEOREM ScheduleAlwaysSound == ScheduleSpec => []ScheduleIsSound
  <1>1. ScheduleInit => ScheduleTyped /\ ScheduleInv
    BY ScheduleInitTyped, ScheduleInvInit
  <1>2. ScheduleTyped /\ ScheduleInv /\ [ScheduleNext]_scheduleVars => (ScheduleTyped /\ ScheduleInv)'
    BY ScheduleNextTyped, ScheduleInvNext
  <1>3. ScheduleTyped /\ ScheduleInv => ScheduleIsSound
    <2> SUFFICES ASSUME ScheduleTyped, ScheduleInv PROVE ScheduleIsSound
      OBVIOUS
    <2>1. Cardinality(Alive) <= 1
      <3>1. CASE Alive = {}
        BY <3>1, FS_EmptySet
      <3>2. CASE Alive # {}
        <4>1. PICK f \in Alive : Alive = {f}
          BY <3>2 DEF ScheduleInv, RunsAreMarked
        <4> QED
          BY <4>1, FS_Singleton
      <3> QED
        BY <3>1, <3>2
    <2>2. OneRunAtATime
      BY <2>1 DEF OneRunAtATime, ScheduleInv, RunsAreMarked
    <2>3. RowsFollowRuns
      BY AliveStages DEF RowsFollowRuns, ScheduleInv, RowsAreReserved, ScheduleTyped
    <2> QED
      BY <2>2, <2>3 DEF ScheduleIsSound, ScheduleInv
  <1> QED
    BY <1>1, <1>2, <1>3, PTL DEF ScheduleSpec

-------------------------------------------------------------------------------
(* UsageOutbox.                                                            *)

Verdicts == {"stored", "rejected", "retryable"}
Acks == UNION {[E -> Verdicts] : E \in SUBSET Observations}
Flush == [at : {"none", "sending", "answered"}, entries : SUBSET Observations,
          wasEmpty : BOOLEAN, acks : Acks]

OutboxTyped ==
    /\ made \in 0..MaxObservations
    /\ files \subseteq 1..made /\ received \subseteq 1..made
    /\ lost \in Nat /\ onDisk \in Nat /\ unseen \in 0..made
    /\ down \in BOOLEAN /\ live \in BOOLEAN /\ ticking \in BOOLEAN /\ blind \in BOOLEAN
    /\ flush \in Flush /\ flush.entries \subseteq 1..made /\ DOMAIN flush.acks \subseteq flush.entries
    /\ spoils \in 0..MaxSpoils

\* The observations that are neither pending nor with the consumer.
Missing == (1..made) \ (files \cup received)

\* What the consumer calls stored it has; no other answers exist.
AnswersAreTrue ==
    flush.at = "answered" =>
        \A o \in flush.entries : flush.acks[o] \in Verdicts /\ (flush.acks[o] = "stored" => o \in received)

\* An outbox is always about to report, and there is one wherever something is under way
\* or, while there is a Runtime, pending.
OutboxIsActive ==
    /\ live => ticking \/ flush.at # "none"
    /\ flush.at # "none" \/ ticking => live
    /\ files # {} => live \/ down

OutboxInv == AnswersAreTrue /\ OutboxIsActive /\ UsageIsAccountedFor

LEMMA Bounds == MaxObservations \in Nat /\ Capacity \in Nat /\ BatchSize \in Nat /\ MaxSpoils \in Nat
  BY OutboxAssumption

----------------------------------------------------------------------------
(* Counting                                                                *)

\* What joins a set counts at most once each.
LEMMA CountOfMore ==
  ASSUME NEW S, NEW U, NEW T \in SUBSET (S \cup U), IsFiniteSet(S), IsFiniteSet(U)
  PROVE  Cardinality(T) <= Cardinality(S) + Cardinality(U)
  <1>1. IsFiniteSet(S \cup U) /\ Cardinality(S \cup U) = Cardinality(S) + Cardinality(U) - Cardinality(S \cap U)
    BY FS_Union
  <1>2. IsFiniteSet(S \cap U)
    BY FS_Subset
  <1>3. Cardinality(S) \in Nat /\ Cardinality(U) \in Nat /\ Cardinality(S \cap U) \in Nat
    BY <1>2, FS_CardinalityType
  <1>4. Cardinality(S \cup U) <= Cardinality(S) + Cardinality(U)
    BY <1>1, <1>3
  <1>5. IsFiniteSet(T) /\ Cardinality(T) <= Cardinality(S \cup U)
    BY <1>1, FS_Subset
  <1>6. Cardinality(T) \in Nat /\ Cardinality(S \cup U) \in Nat
    BY <1>1, <1>5, FS_CardinalityType
  <1> QED
    BY <1>3, <1>4, <1>5, <1>6

LEMMA CountOfLess ==
  ASSUME NEW S, NEW T \in SUBSET S, IsFiniteSet(S)
  PROVE  Cardinality(T) <= Cardinality(S)
  BY FS_Subset

LEMMA MissingIsFinite ==
  ASSUME NEW m \in Nat, NEW S
  PROVE  IsFiniteSet((1..m) \ S) /\ Cardinality((1..m) \ S) \in Nat
  <1>1. IsFiniteSet(1..m)
    BY FS_Interval
  <1>2. IsFiniteSet((1..m) \ S)
    BY <1>1, FS_Subset
  <1> QED
    BY <1>2, FS_CardinalityType

LEMMA EntriesAreFinite ==
  ASSUME OutboxTyped, NEW E \in SUBSET flush.entries
  PROVE  IsFiniteSet(E) /\ Cardinality(E) \in Nat
  <1>1. PICK m \in Nat : m = MaxObservations
    BY Bounds
  <1>2. IsFiniteSet(Observations)
    <2>1. IsFiniteSet(1..m)
      BY FS_Interval
    <2> QED
      BY <1>1, <2>1 DEF Observations
  <1>3. E \in SUBSET Observations
    BY DEF OutboxTyped, Flush
  <1>4. IsFiniteSet(E)
    BY <1>2, <1>3, FS_Subset
  <1> QED
    BY <1>4, FS_CardinalityType

LEMMA RejectedIsNat ==
  ASSUME OutboxTyped, NEW E \in SUBSET flush.entries
  PROVE  Rejected(E) \in Nat
  <1>1. {o \in E : flush.acks[o] = "rejected"} \in SUBSET flush.entries
    OBVIOUS
  <1> QED
    BY <1>1, EntriesAreFinite DEF Rejected

----------------------------------------------------------------------------
(* Types                                                                   *)

LEMMA NoFlushTyped == NoFlush \in Flush /\ NoFlush.entries = {} /\ DOMAIN NoFlush.acks = {}
  <1>1. NoFlush.acks \in [{} -> Verdicts]
    BY DEF NoFlush
  <1>2. NoFlush.acks \in Acks
    BY <1>1 DEF Acks
  <1> QED
    BY <1>2 DEF NoFlush, Flush

LEMMA OutboxInitTyped == OutboxInit => OutboxTyped
  <1> SUFFICES ASSUME OutboxInit PROVE OutboxTyped
    OBVIOUS
  <1>1. 0 \in 0..MaxObservations /\ 0 \in 0..MaxSpoils
    BY Bounds
  <1>2. flush \in Flush /\ flush.entries = {} /\ DOMAIN flush.acks = {}
    BY NoFlushTyped DEF OutboxInit
  <1>3. unseen \in 0..made
    BY DEF OutboxInit
  <1>4. files \subseteq 1..made /\ received \subseteq 1..made
    BY DEF OutboxInit
  <1> QED
    BY <1>1, <1>2, <1>3, <1>4 DEF OutboxInit, OutboxTyped

LEMMA OutboxNextTyped == OutboxTyped /\ [OutboxNext]_outboxVars => OutboxTyped'
  <1> SUFFICES ASSUME OutboxTyped, [OutboxNext]_outboxVars PROVE OutboxTyped'
    OBVIOUS
  <1>s. Spoil => spoils' \in 0..MaxSpoils
    BY Bounds DEF Spoil, OutboxTyped
  <1>m. made \in Nat /\ made + 1 \in Nat /\ 1..made \subseteq 1..(made + 1)
    BY Bounds DEF OutboxTyped
  <1>n. made < MaxObservations => made + 1 \in 0..MaxObservations
    BY Bounds DEF OutboxTyped
  <1>k. Known \in Nat /\ Known + 1 \in Nat /\ Known + 2 \in Nat
    BY DEF Known, OutboxTyped
  <1>f. ASSUME flush' = flush, 1..made \subseteq 1..made'
        PROVE  flush' \in Flush /\ flush'.entries \subseteq 1..made' /\ DOMAIN flush'.acks \subseteq flush'.entries
    BY <1>f DEF OutboxTyped
  <1>g. ASSUME flush' = NoFlush
        PROVE  flush' \in Flush /\ flush'.entries \subseteq 1..made' /\ DOMAIN flush'.acks \subseteq flush'.entries
    BY <1>g, NoFlushTyped
  <1>1. CASE Records \/ RecordDrops \/ RecordFails \/ OpenFails
    <2>1. /\ made' \in 0..MaxObservations /\ made' = made + 1 /\ flush' = flush /\ spoils' \in 0..MaxSpoils
          /\ received' = received /\ blind' = blind /\ down' = down
      BY <1>1, <1>n, <1>s DEF Records, RecordDrops, RecordFails, OpenFails, Observed, OutboxTyped
    <2>2. files' \subseteq files \cup {made + 1}
      BY <1>1 DEF Records, RecordDrops, RecordFails, OpenFails
    <2>3. lost' \in Nat /\ onDisk' \in Nat
      BY <1>1, <1>k DEF Records, RecordDrops, RecordFails, OpenFails, OutboxTyped
    <2>4. live' \in BOOLEAN /\ ticking' \in BOOLEAN
      BY <1>1, Zenon DEF Records, RecordDrops, RecordFails, OpenFails, OutboxTyped
    <2>5. files' \subseteq 1..made' /\ received' \subseteq 1..made'
      BY <1>m, <2>1, <2>2 DEF OutboxTyped
    <2>6. unseen' \in {unseen, unseen + 1}
      BY <1>1 DEF Records, RecordDrops, RecordFails, OpenFails
    <2>7. unseen' \in 0..made'
      BY <1>m, <2>1, <2>6 DEF OutboxTyped
    <2> QED
      BY <1>m, <1>f, <2>1, <2>3, <2>4, <2>5, <2>7 DEF OutboxTyped
  <1>1a. CASE StateUnreadable
    <2>1. blind' \in BOOLEAN
      BY <1>1a, Zenon DEF StateUnreadable
    <2> QED
      BY <1>1a, <1>f, <1>s, <2>1 DEF StateUnreadable, OutboxTyped
  <1>2. CASE OutboxTimerFires
    <2>1. Oldest(BatchSize) \subseteq 1..made /\ 1..made \subseteq Observations
      <3>1. Oldest(BatchSize) \subseteq files
        BY DEF Oldest
      <3>2. \A o \in 1..made : o \in 1..MaxObservations
        BY Bounds DEF OutboxTyped
      <3> QED
        BY <3>1, <3>2 DEF OutboxTyped, Observations
    <2>2. (files = {}) \in BOOLEAN
      OBVIOUS
    <2>3. CASE flush.at # "none"
      BY <1>2, <2>3 DEF OutboxTimerFires, OutboxTyped
    <2>4. CASE flush.at = "none"
      <3>1. flush' = [NoFlush EXCEPT !.at = "sending", !.entries = Oldest(BatchSize), !.wasEmpty = (files = {})]
        BY <1>2, <2>4 DEF OutboxTimerFires
      <3>2. PICK w \in BOOLEAN : w = (files = {})
        BY <2>2
      <3>3. flush' \in Flush /\ flush'.entries = Oldest(BatchSize) /\ flush'.acks = NoFlush.acks
        BY <2>1, <3>1, <3>2, NoFlushTyped, Zenon DEF Flush
      <3> QED
        BY <1>2, <2>1, <3>3, NoFlushTyped DEF OutboxTimerFires, OutboxTyped
    <2> QED
      BY <2>3, <2>4
  <1>3. CASE ReportArrives
    <2>1. PICK acks \in [flush.entries -> Verdicts] :
             /\ flush' = [flush EXCEPT !.at = "answered", !.acks = acks]
             /\ received' = received \cup {o \in flush.entries : acks[o] = "stored"}
      BY <1>3, Zenon DEF ReportArrives, Verdicts
    <2>2. flush.entries \in SUBSET Observations
      BY DEF OutboxTyped, Flush
    <2>3. acks \in Acks
      BY <2>2 DEF Acks
    <2>4. flush' \in Flush /\ flush'.entries = flush.entries /\ flush'.acks = acks
      BY <2>1, <2>3 DEF OutboxTyped, Flush
    <2>5. DOMAIN acks = flush.entries
      OBVIOUS
    <2> QED
      BY <1>3, <2>1, <2>4, <2>5 DEF ReportArrives, OutboxTyped
  <1>4. CASE ReportEnds
    <2>1. lost' \in Nat
      BY <1>4, RejectedIsNat DEF ReportEnds, OutboxTyped
    <2>2. live' \in BOOLEAN /\ ticking' \in BOOLEAN
      BY <1>4, Zenon DEF ReportEnds
    <2> QED
      BY <1>4, <1>g, <2>1, <2>2 DEF ReportEnds, OutboxTyped
  <1>5. CASE ReportEndsEarly
    <2>1. PICK done \in SUBSET flush.entries, failed \in {0, 1} :
             /\ files' \subseteq files
             /\ lost' = lost + Rejected(done) + failed
             /\ onDisk' \in {onDisk, lost + Rejected(done), lost'}
      BY <1>5 DEF ReportEndsEarly
    <2>2. lost' \in Nat /\ onDisk' \in Nat
      BY <2>1, RejectedIsNat DEF OutboxTyped
    <2> QED
      BY <1>5, <1>g, <1>s, <2>1, <2>2 DEF ReportEndsEarly, OutboxTyped
  <1>6. CASE ReportFails
    BY <1>6, <1>g, <1>s DEF ReportFails, OutboxTyped
  <1>7. CASE CollectorRestarts
    <2>1. down' \in BOOLEAN /\ live' \in BOOLEAN /\ ticking' \in BOOLEAN /\ blind' \in BOOLEAN
      BY <1>7, Zenon DEF CollectorRestarts
    <2> QED
      BY <1>7, <1>g, <1>s, <2>1 DEF CollectorRestarts, OutboxTyped
  <1>8. CASE UNCHANGED outboxVars
    BY <1>8 DEF outboxVars, OutboxTyped
  <1> QED
    BY <1>1, <1>1a, <1>2, <1>3, <1>4, <1>5, <1>6, <1>7, <1>8 DEF OutboxNext

\* The outbox of a run and the report under way keep their types, for any number of
\* observations and failures (usage-outbox.ts).
THEOREM OutboxAlwaysTyped == OutboxSpec => []OutboxTypeOK
  <1>1. OutboxTyped => OutboxTypeOK
    BY DEF OutboxTyped, OutboxTypeOK, Flush
  <1> QED
    BY <1>1, OutboxInitTyped, OutboxNextTyped, PTL DEF OutboxSpec

----------------------------------------------------------------------------
(* The usage of a run                                                      *)

LEMMA OutboxInvInit == OutboxInit => OutboxInv
  <1> SUFFICES ASSUME OutboxInit PROVE OutboxInv
    OBVIOUS
  <1>1. Missing = {}
    BY DEF OutboxInit, Missing
  <1>2. Cardinality(Missing) <= Known + unseen
    BY <1>1, FS_EmptySet DEF OutboxInit, Known
  <1> QED
    BY <1>2 DEF OutboxInit, OutboxInv, AnswersAreTrue, OutboxIsActive, UsageIsAccountedFor, NoFlush, Missing

\* The answers, through every step.
LEMMA AnswersNext ==
  OutboxTyped /\ AnswersAreTrue /\ [OutboxNext]_outboxVars => AnswersAreTrue'
  <1> SUFFICES ASSUME OutboxTyped, AnswersAreTrue, [OutboxNext]_outboxVars PROVE AnswersAreTrue'
    OBVIOUS
  <1>1. CASE ReportArrives
    <2>1. PICK acks \in [flush.entries -> Verdicts] :
             /\ flush' = [flush EXCEPT !.at = "answered", !.acks = acks]
             /\ received' = received \cup {o \in flush.entries : acks[o] = "stored"}
      BY <1>1, Zenon DEF ReportArrives, Verdicts
    <2>2. flush'.entries = flush.entries /\ flush'.acks = acks
      BY <2>1 DEF OutboxTyped, Flush
    <2> QED
      BY <2>1, <2>2 DEF AnswersAreTrue
  <1>2. CASE OutboxTimerFires
    BY <1>2 DEF OutboxTimerFires, AnswersAreTrue, NoFlush
  <1>3. CASE ReportEnds \/ ReportEndsEarly \/ ReportFails \/ CollectorRestarts
    BY <1>3 DEF ReportEnds, ReportEndsEarly, ReportFails, CollectorRestarts, AnswersAreTrue, NoFlush
  <1>4. CASE Records \/ RecordDrops \/ RecordFails \/ OpenFails \/ StateUnreadable \/ UNCHANGED outboxVars
    BY <1>4 DEF Records, RecordDrops, RecordFails, OpenFails, StateUnreadable, outboxVars, AnswersAreTrue
  <1> QED
    BY <1>1, <1>2, <1>3, <1>4 DEF OutboxNext

\* The outbox, its timer and its reports, through every step.
LEMMA ActiveNext ==
  OutboxTyped /\ OutboxIsActive /\ [OutboxNext]_outboxVars => OutboxIsActive'
  <1> SUFFICES ASSUME OutboxTyped, OutboxIsActive, [OutboxNext]_outboxVars PROVE OutboxIsActive'
    OBVIOUS
  <1>1. CASE Records \/ RecordDrops \/ RecordFails
    <2>1. live' = TRUE /\ flush' = flush /\ (ticking' \/ (live /\ ticking' = ticking))
      BY <1>1, Zenon DEF Records, RecordDrops, RecordFails, OutboxTyped
    <2> QED
      BY <2>1 DEF OutboxIsActive
  <1>2. CASE OutboxTimerFires
    <2>1. flush'.at # "none"
      BY <1>2 DEF OutboxTimerFires, NoFlush
    <2> QED
      BY <1>2, <2>1 DEF OutboxTimerFires, OutboxIsActive
  <1>3. CASE ReportArrives
    <2>1. flush'.at # "none"
      BY <1>3 DEF ReportArrives, OutboxTyped, Flush
    <2> QED
      BY <1>3, <2>1 DEF ReportArrives, OutboxIsActive
  <1>4. CASE ReportEnds
    <2>1. live' = ~Retires(files') /\ ticking' = ~Retires(files') /\ (Retires(files') => files' = {})
      BY <1>4 DEF ReportEnds, Retires
    <2>2. flush'.at = "none"
      BY <1>4 DEF ReportEnds, NoFlush
    <2> QED
      BY <2>1, <2>2, Zenon DEF OutboxIsActive
  <1>5. CASE ReportEndsEarly \/ ReportFails
    <2>1. ticking' = TRUE /\ live' = live /\ flush.at # "none"
      BY <1>5 DEF ReportEndsEarly, ReportFails
    <2> QED
      BY <2>1 DEF OutboxIsActive
  <1>6. CASE CollectorRestarts
    <2>1. flush'.at = "none" /\ files' = files /\ live' = (~down' /\ files # {}) /\ ticking' = live'
      BY <1>6 DEF CollectorRestarts, NoFlush
    <2>2. files' # {} => live' \/ down'
      BY <1>6, <2>1, Zenon DEF CollectorRestarts
    <2> QED
      BY <2>1, <2>2, Zenon DEF OutboxIsActive
  <1>7. CASE OpenFails \/ StateUnreadable \/ UNCHANGED outboxVars
    BY <1>7 DEF OpenFails, StateUnreadable, outboxVars, OutboxIsActive
  <1> QED
    BY <1>1, <1>2, <1>3, <1>4, <1>5, <1>6, <1>7 DEF OutboxNext

\* The count, through every step: what becomes missing is counted.
LEMMA AccountNext ==
  OutboxTyped /\ OutboxTyped' /\ OutboxInv /\ [OutboxNext]_outboxVars => UsageIsAccountedFor'
  <1> SUFFICES ASSUME OutboxTyped, OutboxTyped', OutboxInv, [OutboxNext]_outboxVars, ~blind'
               PROVE  Cardinality(Missing') <= Known' + unseen'
    BY DEF UsageIsAccountedFor, Missing
  <1>b. ~blind
    <2>1. CASE CollectorRestarts \/ StateUnreadable
      BY <2>1, Zenon DEF CollectorRestarts, StateUnreadable
    <2>2. CASE ~(CollectorRestarts \/ StateUnreadable)
      <3>1. blind' = blind
        BY <2>2, Zenon DEF OutboxNext, outboxVars, Records, RecordDrops, RecordFails, OpenFails,
                    OutboxTimerFires, ReportArrives,
                    ReportEnds, ReportEndsEarly, ReportFails
      <3> QED
        BY <3>1
    <2> QED
      BY <2>1, <2>2
  <1>c. Cardinality(Missing) <= Known + unseen
    BY <1>b DEF OutboxInv, UsageIsAccountedFor, Missing
  <1>n. /\ IsFiniteSet(Missing) /\ Cardinality(Missing) \in Nat
        /\ IsFiniteSet(Missing') /\ Cardinality(Missing') \in Nat
        /\ Known \in Nat /\ Known' \in Nat /\ unseen \in Nat /\ unseen' \in Nat
    <2>1. made \in Nat /\ made' \in Nat
      BY Bounds DEF OutboxTyped
    <2>2. Known \in Nat /\ Known' \in Nat
      BY DEF Known, OutboxTyped
    <2>3. unseen \in Nat /\ unseen' \in Nat
      BY <2>1 DEF OutboxTyped
    <2> QED
      BY <2>1, <2>2, <2>3, MissingIsFinite DEF Missing
  <1>m. made \in Nat /\ 1..(made + 1) = (1..made) \cup {made + 1}
    BY Bounds DEF OutboxTyped
  <1>o. ASSUME made' = made, unseen' = unseen, Missing' \subseteq Missing, Known <= Known'
        PROVE  Cardinality(Missing') <= Known' + unseen'
    <2>1. Cardinality(Missing') <= Cardinality(Missing)
      BY <1>n, <1>o, CountOfLess
    <2> QED
      BY <1>c, <1>n, <1>o, <2>1
  <1>1. CASE Records
    <2>1. Missing' \subseteq Missing
      BY <1>1, <1>m DEF Records, Observed, Missing
    <2>2. Known' = Known /\ unseen' = unseen
      BY <1>1 DEF Records, Known
    <2>3. Cardinality(Missing') <= Cardinality(Missing)
      BY <1>n, <2>1, CountOfLess
    <2> QED
      BY <1>c, <1>n, <2>2, <2>3
  <1>2. CASE RecordDrops \/ RecordFails \/ OpenFails
    <2>1. Missing' \subseteq Missing \cup {made + 1}
      BY <1>2, <1>m DEF RecordDrops, RecordFails, OpenFails, Observed, Missing
    <2>2. Known' + unseen' >= Known + unseen + 1
      <3>1. CASE RecordDrops \/ RecordFails
        BY <1>n, <3>1 DEF RecordDrops, RecordFails, Known
      <3>2. CASE OpenFails
        BY <1>n, <3>2 DEF OpenFails, Known
      <3> QED
        BY <1>2, <3>1, <3>2
    <2>3. IsFiniteSet({made + 1}) /\ Cardinality({made + 1}) = 1
      BY FS_Singleton
    <2>4. Cardinality(Missing') <= Cardinality(Missing) + 1
      BY <1>n, <2>1, <2>3, CountOfMore
    <2>5. PICK c \in Nat, k \in Nat, l \in Nat, u \in Nat, v \in Nat :
             c = Cardinality(Missing) /\ k = Known /\ l = Known' /\ u = unseen /\ v = unseen'
      BY <1>n
    <2>6. c <= k + u /\ k + u + 1 <= l + v
      BY <1>c, <2>2, <2>5
    <2>7. PICK d \in Nat : d = Cardinality(Missing')
      BY <1>n
    <2>8. d <= c + 1
      BY <2>4, <2>5, <2>7
    <2>9. d <= l + v
      BY <2>6, <2>8
    <2> QED
      BY <2>5, <2>7, <2>9
  <1>3. CASE OutboxTimerFires \/ ReportFails \/ UNCHANGED outboxVars
    <2>1. /\ made' = made /\ files' = files /\ received' = received /\ unseen' = unseen
          /\ live' = live /\ lost' = lost /\ onDisk' = onDisk
      BY <1>3 DEF OutboxTimerFires, ReportFails, outboxVars
    <2> QED
      BY <1>c, <1>n, <1>o, <2>1 DEF Missing, Known
  <1>4. CASE ReportArrives
    <2>1. /\ made' = made /\ files' = files /\ received \subseteq received' /\ unseen' = unseen
          /\ live' = live /\ lost' = lost /\ onDisk' = onDisk
      BY <1>4 DEF ReportArrives
    <2> QED
      BY <1>n, <1>o, <2>1 DEF Missing, Known
  <1>w. ASSUME flush.at = "answered", NEW E \in SUBSET flush.entries, made' = made, received' = received, unseen' = unseen,
               files' = {o \in files : ~(o \in E /\ Answered(o))}, Known' >= lost + Rejected(E)
        PROVE  Cardinality(Missing') <= Known' + unseen'
    <2> DEFINE R == {o \in E : flush.acks[o] = "rejected"}
    <2>1. Missing' \subseteq Missing \cup R
      BY <1>w DEF Missing, Answered, OutboxInv, AnswersAreTrue, Verdicts
    <2>2. IsFiniteSet(R) /\ Cardinality(R) \in Nat
      <3>1. R \in SUBSET flush.entries
        OBVIOUS
      <3> QED
        BY <3>1, EntriesAreFinite
    <2>3. Rejected(E) = Cardinality(R)
      BY DEF Rejected
    <2> HIDE DEF R
    <2>4. Cardinality(Missing') <= Cardinality(Missing) + Cardinality(R)
      BY <1>n, <2>1, <2>2, CountOfMore
    <2>5. Known = lost
      BY <1>w DEF Known, OutboxInv, OutboxIsActive
    <2> QED
      BY <1>c, <1>n, <1>w, <2>2, <2>3, <2>4, <2>5
  <1>5. CASE ReportEnds
    <2>1. Known' = lost + Rejected(flush.entries)
      BY <1>5 DEF ReportEnds, Known
    <2>2. Rejected(flush.entries) \in Nat
      BY RejectedIsNat
    <2> QED
      BY <1>5, <1>n, <1>w, <2>1, <2>2 DEF ReportEnds, OutboxTyped
  <1>6. CASE ReportEndsEarly
    <2>1. PICK done \in SUBSET flush.entries, failed \in {0, 1} :
             /\ files' = {o \in files : ~(o \in done /\ Answered(o))}
             /\ lost' = lost + Rejected(done) + failed
      BY <1>6 DEF ReportEndsEarly
    <2>2. Rejected(done) \in Nat
      BY RejectedIsNat
    <2>3. live' = TRUE
      BY <1>6 DEF ReportEndsEarly, OutboxInv, OutboxIsActive, OutboxTyped
    <2>4. Known' >= lost + Rejected(done)
      BY <2>1, <2>2, <2>3 DEF Known, OutboxTyped
    <2> QED
      BY <1>6, <1>w, <2>1, <2>4 DEF ReportEndsEarly
  <1>7. CASE CollectorRestarts
    <2>1. made' = made /\ files' = files /\ received' = received /\ unseen' = unseen
      BY <1>7 DEF CollectorRestarts
    <2>2. Known' = onDisk
      BY <1>7 DEF CollectorRestarts, Known
    <2>3. ~(live /\ lost > onDisk)
      BY <1>7, Zenon DEF CollectorRestarts
    <2>4. Known <= onDisk
      BY <2>3 DEF Known, OutboxTyped
    <2> QED
      BY <1>o, <2>1, <2>2, <2>4 DEF Missing
  <1>8. CASE StateUnreadable
    <2>1. made' = made /\ files' = files /\ received' = received /\ unseen' = unseen
      BY <1>8 DEF StateUnreadable
    <2>2. live' = live /\ lost' = lost /\ onDisk' = 1 /\ (live \/ ~(onDisk > 1))
      BY <1>8, Zenon DEF StateUnreadable
    <2>3. Known <= Known'
      BY <2>2 DEF Known, OutboxTyped
    <2> QED
      BY <1>o, <2>1, <2>3 DEF Missing
  <1> QED
    BY <1>1, <1>2, <1>3, <1>4, <1>5, <1>6, <1>7, <1>8 DEF OutboxNext

\* What a run used is pending with an outbox that will send it (or with no Runtime to do
\* so), with the consumer, or counted as missing, unless no outbox could be opened for it
\* or the count itself was lost, for any capacity, batch size and number of failures
\* (usage-outbox.ts, capability/model-usage.ts).
THEOREM UsageAlwaysArrives == OutboxSpec => []UsageArrives
  <1>1. OutboxInit => OutboxTyped /\ OutboxInv
    BY OutboxInitTyped, OutboxInvInit
  <1>2. OutboxTyped /\ OutboxInv /\ [OutboxNext]_outboxVars => (OutboxTyped /\ OutboxInv)'
    BY OutboxNextTyped, AnswersNext, ActiveNext, AccountNext DEF OutboxInv
  <1>3. OutboxInv => UsageArrives
    BY DEF OutboxInv, OutboxIsActive, UsageArrives, PendingUsageHasASender
  <1> QED
    BY <1>1, <1>2, <1>3, PTL DEF OutboxSpec

----------------------------------------------------------------------------
(* The run of the parts together.  A step of it is a step of one part and  *)
(* leaves the variables of the others as they are, so that its behaviours  *)
(* are behaviours of every part, bounded further or not.                   *)

\* A step of the run is a step of each part, or leaves that part alone.
LEMMA ServicesStep ==
  ASSUME [ServicesNext]_servicesVars
  PROVE  /\ [CapabilityNext]_capabilityVars
         /\ [PlanNext]_planVars
         /\ [MailboxNext]_mailboxVars
         /\ [SandboxNext]_sandboxVars
         /\ [ScheduleNext]_scheduleVars
         /\ [OutboxNext]_outboxVars
  BY Zenon DEF ServicesNext, servicesVars

\* Every behaviour that the run of the six parts explores is one of each part, so that
\* what the theorems say of a part they say of the run.
THEOREM ServicesRunTheParts ==
  ServicesSpec => /\ CapabilitySpec /\ PlanSpec /\ MailboxSpec
                  /\ SandboxSpec /\ ScheduleSpec /\ OutboxSpec
  <1>1. ServicesInit => /\ CapabilityInit /\ PlanInit /\ MailboxInit
                        /\ SandboxInit /\ ScheduleInit /\ OutboxInit
    BY DEF ServicesInit
  <1>2. [ServicesNext]_servicesVars => [CapabilityNext]_capabilityVars
    BY ServicesStep
  <1>3. [ServicesNext]_servicesVars => [PlanNext]_planVars
    BY ServicesStep
  <1>4. [ServicesNext]_servicesVars => [MailboxNext]_mailboxVars
    BY ServicesStep
  <1>5. [ServicesNext]_servicesVars => [SandboxNext]_sandboxVars
    BY ServicesStep
  <1>6. [ServicesNext]_servicesVars => [ScheduleNext]_scheduleVars
    BY ServicesStep
  <1>7. [ServicesNext]_servicesVars => [OutboxNext]_outboxVars
    BY ServicesStep
  <1> QED
    BY <1>1, <1>2, <1>3, <1>4, <1>5, <1>6, <1>7, PTL
       DEF ServicesSpec, CapabilitySpec, PlanSpec, MailboxSpec, SandboxSpec, ScheduleSpec, OutboxSpec

\* The part at hand keeps its types, with whichever others it is put into one run.
THEOREM ServicesAlwaysTyped == ServicesSpec => []ServicesTypeOK
  <1>1. /\ CapabilityTypeOK /\ PlanTypeOK /\ MailboxTypeOK
        /\ SandboxTypeOK /\ ScheduleTypeOK /\ OutboxTypeOK
        => ServicesTypeOK
    BY DEF ServicesTypeOK
  <1> QED
    BY <1>1, ServicesRunTheParts, RecordsStayTyped, PlanAlwaysTyped, MailboxAlwaysTyped,
       SandboxStaysInLimits, ScheduleAlwaysTyped, OutboxAlwaysTyped, PTL

===============================================================================
