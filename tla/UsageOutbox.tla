------------------------------- MODULE UsageOutbox -------------------------------
(***************************************************************************)
(* The model usage of one capability run on its way to the consumer:       *)
(* agentbox/usage-outbox.ts keeps every observation in a file until the    *)
(* consumer has answered for it, and gateway/capability/model-usage.ts     *)
(* makes the outbox of a run, drops it when it has drained, and finds the  *)
(* directories that a dead process left behind.  Observations are numbered *)
(* in the order they are made, which is the order of their file names.     *)
(* The timer has no length.  A directory that cannot be opened, this       *)
(* run's or another's, ends a starting Runtime; under a running one it     *)
(* costs the observation, and the run is told only that its diagnostics    *)
(* are incomplete.  Files that no version of this code writes (damaged,    *)
(* too large) are left out, as is close(), which only the box's own        *)
(* outbox has.                                                             *)
(***************************************************************************)
EXTENDS Naturals, FiniteSets

CONSTANTS
    MaxObservations,
    Capacity,       \* files that fit (64 MB in the code)
    BatchSize,      \* observations of a report (128 in the code)
    MaxSpoils       \* restarts, failed writes and openings, failed requests

ASSUME OutboxAssumption == {MaxObservations, Capacity, BatchSize, MaxSpoils} \subseteq Nat

VARIABLES
    made,       \* observations recorded so far: 1..made
    files,      \* *.event.json in the directory
    lost,       \* state.dropped + state.rejected, in memory
    onDisk,     \* the same in state.json
    down,       \* there is no Runtime
    live,       \* the run's outbox exists
    ticking,    \* its timer
    flush,      \* flushBatch(): where it waits, its entries, the answers
    received,   \* the observations the consumer has stored
    spoils,
    unseen,     \* history: observations that came while no outbox could be opened
    blind       \* history: a count that could not be saved, or read again, is lost

outboxVars == <<made, files, lost, onDisk, down, live, ticking, flush, received, spoils, unseen, blind>>

Observations == 1..MaxObservations
NoFlush == [at |-> "none", entries |-> {}, wasEmpty |-> FALSE, acks |-> [o \in {} |-> "stored"]]

OutboxInit ==
    /\ made = 0 /\ files = {} /\ lost = 0 /\ onDisk = 0
    /\ down = FALSE /\ live = FALSE /\ ticking = FALSE /\ flush = NoFlush
    /\ received = {} /\ spoils = 0 /\ unseen = 0 /\ blind = FALSE

Spoil == spoils < MaxSpoils /\ spoils' = spoils + 1

-----------------------------------------------------------------------------
(* record()                                                                *)

\* The outbox, made for its first observation, or found.  A new one reads the
\* counts from state.json, saves them, and reads the names of the files.
Known == IF live THEN lost ELSE onDisk

Observed == ~down /\ made < MaxObservations /\ made' = made + 1

Records ==
    /\ Observed
    /\ Cardinality(files) < Capacity
    /\ files' = files \cup {made + 1}
    /\ lost' = Known /\ onDisk' = Known
    /\ live' = TRUE /\ ticking' = TRUE
    /\ UNCHANGED <<down, flush, received, spoils, unseen, blind>>

\* The outbox is full, or the observation too large for a file.
RecordDrops ==
    /\ Observed
    /\ lost' = Known + 1 /\ onDisk' = lost'
    /\ live' = TRUE /\ ticking' = (ticking \/ ~live)
    /\ UNCHANGED <<files, down, flush, received, spoils, unseen, blind>>

\* The disk refuses the observation, or takes it and refuses state.json: it is
\* counted as dropped (twice if it did not fit), in state.json too if a second
\* save succeeds, and the timer is left as it is.
RecordFails ==
    /\ Spoil /\ Observed
    /\ \/ /\ Cardinality(files) < Capacity
          /\ files' \in {files, files \cup {made + 1}}
          /\ lost' = Known + 1
       \/ files' = files /\ lost' = Known + 2
    /\ onDisk' \in {onDisk, lost'}
    /\ live' = TRUE /\ ticking' = (ticking \/ ~live)
    /\ UNCHANGED <<down, flush, received, unseen, blind>>

\* The disk refuses the directory or the first save of a new outbox: there is
\* none, and the observation is neither kept nor counted.
OpenFails ==
    /\ Spoil /\ Observed /\ ~live
    /\ unseen' = unseen + 1
    /\ UNCHANGED <<files, lost, onDisk, down, live, ticking, flush, received, blind>>

\* state.json cannot be read again: the next outbox of the directory starts from
\* one drop, which stands for what the file had.
StateUnreadable ==
    /\ Spoil /\ made > unseen
    /\ onDisk' = 1
    /\ blind' = (blind \/ (~live /\ onDisk > 1))
    /\ UNCHANGED <<made, files, lost, down, live, ticking, flush, received, unseen>>

-----------------------------------------------------------------------------
(* flush()                                                                 *)

Oldest(n) == {o \in files : Cardinality({p \in files : p < o}) < n}

\* A timer that fires under a report finds it under way and does nothing.
OutboxTimerFires ==
    /\ ticking /\ ticking' = FALSE
    /\ flush' = IF flush.at # "none" THEN flush
                ELSE [NoFlush EXCEPT !.at = "sending", !.entries = Oldest(BatchSize),
                                     !.wasEmpty = (files = {})]
    /\ UNCHANGED <<made, files, lost, onDisk, down, live, received, spoils, unseen, blind>>

\* The consumer answers for each entry: stored, now or before, refused, or later.
ReportArrives ==
    /\ flush.at = "sending"
    /\ \E acks \in [flush.entries -> {"stored", "rejected", "retryable"}] :
          /\ \A o \in flush.entries \cap received : acks[o] = "stored"
          /\ flush' = [flush EXCEPT !.at = "answered", !.acks = acks]
          /\ received' = received \cup {o \in flush.entries : acks[o] = "stored"}
    /\ UNCHANGED <<made, files, lost, onDisk, down, live, ticking, spoils, unseen, blind>>

Answered(o) == flush.acks[o] # "retryable"
Rejected(done) == Cardinality({o \in done : flush.acks[o] = "rejected"})

\* Mutant: an empty report retires the outbox although something was recorded
\* meanwhile.
RetiresWhenReportedEmpty(left) == flush.wasEmpty

\* The collector is dropped after an empty report, if nothing came meanwhile.
Retires(left) == flush.wasEmpty /\ left = {}

ReportEnds ==
    /\ flush.at = "answered"
    /\ files' = {o \in files : ~(o \in flush.entries /\ Answered(o))}
    /\ lost' = lost + Rejected(flush.entries) /\ onDisk' = lost'
    /\ live' = ~Retires(files') /\ ticking' = ~Retires(files')
    /\ flush' = NoFlush
    /\ UNCHANGED <<made, down, received, spoils, unseen, blind>>

\* The disk fails while the answers are worked off, in their order: those before
\* have left, the one at hand is answered again later, counted or not if it was
\* rejected, or only the final save of the counts failed.
ReportEndsEarly ==
    /\ flush.at = "answered" /\ Spoil
    /\ \E done \in {{p \in flush.entries : p < o} : o \in flush.entries} \cup {flush.entries},
         early \in {0, 1} :
          /\ files' = {o \in files : ~(o \in done /\ Answered(o))}
          /\ early = 1 => \E o \in flush.entries :
                             done = {p \in flush.entries : p < o} /\ flush.acks[o] = "rejected"
          /\ lost' = lost + Rejected(done) + early
          /\ \/ onDisk' = IF Rejected(done) > 0 THEN lost + Rejected(done) ELSE onDisk
             \/ early = 1 /\ onDisk' = lost'
    /\ ticking' = TRUE /\ flush' = NoFlush
    /\ UNCHANGED <<made, down, live, received, unseen, blind>>

\* The request is lost, or its answer.
ReportFails ==
    /\ flush.at \in {"sending", "answered"} /\ Spoil
    /\ ticking' = TRUE /\ flush' = NoFlush
    /\ UNCHANGED <<made, files, lost, onDisk, down, live, received, unseen, blind>>

-----------------------------------------------------------------------------
\* The process dies; the next one makes outboxes for directories with files.  If
\* one of them cannot be opened, it ends before it is up.
CollectorRestarts ==
    /\ Spoil
    /\ down' \in BOOLEAN
    /\ live' = (~down' /\ files # {}) /\ ticking' = live'
    /\ lost' = onDisk /\ flush' = NoFlush
    /\ blind' = (blind \/ (live /\ lost > onDisk))
    /\ UNCHANGED <<made, files, onDisk, received, unseen>>

OutboxNext ==
    \/ Records \/ RecordDrops \/ RecordFails \/ OpenFails \/ StateUnreadable
    \/ OutboxTimerFires \/ ReportArrives \/ ReportEnds \/ ReportEndsEarly \/ ReportFails
    \/ CollectorRestarts

OutboxSpec == OutboxInit /\ [][OutboxNext]_outboxVars

-----------------------------------------------------------------------------
(* Properties                                                              *)

OutboxTypeOK ==
    /\ made \in 0..MaxObservations
    /\ files \subseteq 1..made /\ received \subseteq 1..made
    /\ lost \in Nat /\ onDisk \in Nat /\ unseen \in 0..made
    /\ {down, live, ticking, blind} \subseteq BOOLEAN
    /\ flush.at \in {"none", "sending", "answered"} /\ flush.entries \subseteq 1..made
    /\ DOMAIN flush.acks \subseteq flush.entries
    /\ spoils \in 0..MaxSpoils

\* A pending observation has an outbox that will send it, while there is a
\* Runtime: one that was dropped as drained, or that meets an error, leaves
\* nothing behind.
PendingUsageHasASender == files # {} => down \/ (live /\ (ticking \/ flush.at # "none"))

\* An observation is pending, with the consumer, or counted as missing in what the
\* outbox reports, so that a report never claims a complete collection that it is
\* not.  Two kinds are left out: an observation that met no outbox because none
\* could be opened, which nothing counts, and a count that was lost with its
\* process or its file.
UsageIsAccountedFor ==
    ~blind => Cardinality((1..made) \ (files \cup received)) <= Known + unseen

\* Usage on its way to the consumer (usage-outbox.ts, capability/model-usage.ts).
UsageArrives == PendingUsageHasASender /\ UsageIsAccountedFor

==================================================================================
