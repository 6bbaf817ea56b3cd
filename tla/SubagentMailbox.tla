---------------------------- MODULE SubagentMailbox ----------------------------
(***************************************************************************)
(* Guidance for a running sub-agent.  A follow-up with the child's handle  *)
(* is sent to its mailbox (agentbox/subagent-lifecycle.ts), which steers   *)
(* it into the child's brain, one message after the other, or leaves it    *)
(* pending for the next prompt; meanwhile runSubagentToAcceptance()        *)
(* (subagent-completion.ts) prompts, collects, reviews and at last seals   *)
(* the mailbox.                                                            *)
(*                                                                         *)
(* Every await is a step boundary.  Continuations of one promise run in    *)
(* the order they were registered: a takePending() that waits for the      *)
(* delivery chain continues before a delivery chained after its call.      *)
(* Messages are distinct texts.                                            *)
(***************************************************************************)
EXTENDS Naturals, Sequences, SequencesExt

CONSTANTS
    MaxGuidance,    \* the guidance limit of a run (32 in the code)
    MaxPrompts,     \* turns of the acceptance loop (36 in the code)
    MaxRepairs      \* repair prompts (2 in the code)

ASSUME MailboxAssumption == {MaxGuidance, MaxPrompts, MaxRepairs} \subseteq Nat

VARIABLES
    attached,   \* this.brain is set
    reviewing,
    accepting,
    updates,    \* how many messages send() has accepted: 1 is the first
    pending,
    delivery,   \* the chain: accepted messages whose delivery has not ended
    steering,   \* the first of them is in brain.steer()
    queue,      \* the brain's own steering queue
    phase,      \* where the acceptance loop is
    ahead,      \* deliveries the waiting takePending() has ahead of it
    prompt,     \* the guidance in the prompt at hand
    verdict,    \* what the review said
    turn, repairs,
    stopped,    \* a stop was requested, or the deadline is past
    heard,      \* history: the messages the child's model was given, in order
    early       \* history: messages sent while the first prompt was being put together

mailboxVars == <<attached, reviewing, accepting, updates, pending, delivery, steering, queue, phase,
                 ahead, prompt, verdict, turn, repairs, stopped, heard, early>>

mailbox == <<attached, reviewing, accepting, updates, pending, delivery, steering, early>>

MailboxInit ==
    /\ attached = FALSE /\ reviewing = FALSE /\ accepting = TRUE
    /\ updates = 0 /\ pending = <<>> /\ delivery = <<>> /\ steering = FALSE /\ queue = <<>>
    /\ phase = "queued" /\ ahead = 0 /\ prompt = <<>> /\ verdict = "none"
    /\ turn = 0 /\ repairs = 0 /\ stopped = FALSE
    /\ heard = <<>> /\ early = {}

\* indexOf() and splice(): messages are distinct, so there is one index or none.
Without(s, m) ==
    IF \E i \in DOMAIN s : s[i] = m THEN RemoveAt(s, CHOOSE i \in DOMAIN s : s[i] = m) ELSE s

Gathering == phase \in {"gathering", "collecting", "rechecking"}

\* A follow-up arrives when the continuations at hand have run.  The one gap left open
\* to it is the last, the one seal() is there for.
Quiet ==
    /\ delivery = <<>> \/ steering
    /\ phase \notin {"gathered", "collected"}
    /\ ~(Gathering /\ ahead = 0)

\* send(): refused once sealed or at the limit; else pending, and chained for delivery.
Send ==
    /\ Quiet
    /\ accepting
    /\ updates < MaxGuidance
    /\ updates' = updates + 1
    /\ pending' = Append(pending, updates + 1)
    /\ delivery' = Append(delivery, updates + 1)
    /\ early' = IF turn = 0 /\ phase = "gathering" THEN early \cup {updates + 1} ELSE early
    /\ UNCHANGED <<attached, reviewing, accepting, steering, queue, phase, ahead, prompt, verdict, turn,
                   repairs, stopped, heard>>

\* The next link of the chain runs, not before a takePending() that was waiting for
\* the one it follows.
DeliveryRuns ==
    /\ delivery # <<>> /\ ~steering
    /\ Gathering => ahead > 0
    /\ IF attached /\ ~reviewing /\ accepting
       THEN /\ steering' = TRUE
            /\ queue' = Append(queue, Head(delivery))
            /\ UNCHANGED <<delivery, ahead>>
       ELSE /\ delivery' = Tail(delivery)
            /\ ahead' = IF ahead > 0 THEN ahead - 1 ELSE 0
            /\ UNCHANGED <<steering, queue>>
    /\ UNCHANGED <<attached, reviewing, accepting, updates, pending, phase, prompt, verdict, turn,
                   repairs, stopped, heard, early>>

\* Mutant: a refused message is taken off the pending list all the same.
DeliveryRefusedForGood ==
    /\ delivery # <<>> /\ ~steering
    /\ Gathering => ahead > 0
    /\ attached /\ ~reviewing /\ accepting
    /\ phase = "prompting"
    /\ delivery' = Tail(delivery)
    /\ pending' = Without(pending, Head(delivery))
    /\ UNCHANGED <<attached, reviewing, accepting, updates, steering, queue, phase, ahead, prompt,
                   verdict, turn, repairs, stopped, heard, early>>

\* A brain that repairs its answer or hands off refuses the steer: it stays pending.
DeliveryRefused ==
    /\ delivery # <<>> /\ ~steering
    /\ Gathering => ahead > 0
    /\ attached /\ ~reviewing /\ accepting
    /\ phase = "prompting"
    /\ delivery' = Tail(delivery)
    /\ UNCHANGED <<attached, reviewing, accepting, updates, pending, steering, queue, phase, ahead,
                   prompt, verdict, turn, repairs, stopped, heard, early>>

SteerReturns ==
    /\ steering
    /\ steering' = FALSE
    /\ pending' = Without(pending, Head(delivery))
    /\ delivery' = Tail(delivery)
    /\ ahead' = IF ahead > 0 THEN ahead - 1 ELSE 0
    /\ UNCHANGED <<attached, reviewing, accepting, updates, queue, phase, prompt, verdict, turn,
                   repairs, stopped, heard, early>>

\* The child is created and the mailbox given its brain; its model, trace and context
\* are still to be set up.
Attach ==
    /\ phase = "queued"
    /\ phase' = "setup"
    /\ attached' = TRUE
    /\ UNCHANGED <<reviewing, accepting, updates, pending, delivery, steering, queue, ahead, prompt,
                   verdict, turn, repairs, stopped, heard, early>>

\* Mutant: the take does not wait for the deliveries under way.
TakeAtOnce(from, to) ==
    /\ phase = from
    /\ phase' = to
    /\ ahead' = 0

\* takePending(), to its await; then from it on.
Take(from, to) ==
    /\ phase = from
    /\ phase' = to
    /\ ahead' = Len(delivery)

Taken(from, to) ==
    /\ phase = from
    /\ ahead = 0
    /\ phase' = to
    /\ prompt' = IF to = "gathered" THEN prompt \o queue \o pending ELSE queue \o pending
    /\ queue' = <<>>
    /\ pending' = <<>>

Gather ==
    /\ Take("setup", "gathering")
    /\ UNCHANGED <<mailbox, queue, prompt, verdict, turn, repairs, stopped, heard>>

Gathered ==
    /\ Taken("gathering", "gathered")
    /\ UNCHANGED <<attached, reviewing, accepting, updates, delivery, steering, ahead, verdict, turn,
                   repairs, stopped, heard, early>>

Ends ==
    /\ phase' = "ended"
    /\ accepting' = FALSE

\* The prompt is given to the brain, unless the run was stopped meanwhile.
Prompt ==
    /\ phase = "gathered"
    /\ reviewing' = FALSE
    /\ IF stopped
       THEN Ends /\ UNCHANGED <<heard, prompt>>
       ELSE /\ phase' = "prompting"
            /\ heard' = heard \o prompt
            /\ prompt' = <<>>
            /\ UNCHANGED accepting
    /\ UNCHANGED <<attached, updates, pending, delivery, steering, queue, ahead, verdict, turn, repairs,
                   stopped, early>>

\* The running brain takes a steered message between two of its model turns.
BrainReads ==
    /\ phase = "prompting"
    /\ queue # <<>>
    /\ heard' = Append(heard, Head(queue))
    /\ queue' = Tail(queue)
    /\ UNCHANGED <<mailbox, phase, ahead, prompt, verdict, turn, repairs, stopped>>

PromptEnds ==
    /\ phase = "prompting"
    /\ IF stopped
       THEN Ends /\ UNCHANGED <<reviewing, ahead>>
       ELSE /\ reviewing' = TRUE
            /\ Take("prompting", "collecting")
            /\ UNCHANGED accepting
    /\ UNCHANGED <<attached, updates, pending, delivery, steering, queue, prompt, verdict, turn, repairs,
                   stopped, heard, early>>

Collected ==
    /\ Taken("collecting", "collected")
    /\ UNCHANGED <<attached, reviewing, accepting, updates, delivery, steering, ahead, verdict, turn,
                   repairs, stopped, heard, early>>

\* The loop goes round, within its budget of turns.
NextTurn ==
    IF turn + 1 < MaxPrompts
    THEN /\ turn' = turn + 1
         /\ phase' = "gathering"
         /\ ahead' = Len(delivery)
         /\ UNCHANGED accepting
    ELSE Ends /\ UNCHANGED <<turn, ahead>>

\* Guidance that arrived during the prompt is the next prompt; else the execution is
\* reviewed, unless it ended in error.
Review ==
    /\ phase = "collected"
    /\ \/ /\ prompt # <<>>
          /\ NextTurn
       \/ /\ prompt = <<>>
          /\ Ends
          /\ UNCHANGED <<turn, ahead>>
       \/ /\ prompt = <<>>
          /\ phase' = "reviewing"
          /\ UNCHANGED <<accepting, turn, ahead>>
    /\ UNCHANGED <<attached, reviewing, updates, pending, delivery, steering, queue, prompt, verdict,
                   repairs, stopped, heard, early>>

\* The review cannot be had, or says what it says.
Reviewed ==
    /\ phase = "reviewing"
    /\ \/ Ends /\ UNCHANGED <<verdict, ahead>>
       \/ /\ ~stopped
          /\ verdict' \in {"complete", "blocked", "incomplete"}
          /\ Take("reviewing", "rechecking")
          /\ UNCHANGED accepting
    /\ UNCHANGED <<attached, reviewing, updates, pending, delivery, steering, queue, prompt, turn,
                   repairs, stopped, heard, early>>

Rechecked ==
    /\ Taken("rechecking", "rechecked")
    /\ UNCHANGED <<attached, reviewing, accepting, updates, delivery, steering, ahead, verdict, turn,
                   repairs, stopped, heard, early>>

\* seal(), when the run would end: refused while something is pending.
Final == verdict # "incomplete" \/ repairs = MaxRepairs
Seals == pending = <<>>

Settle ==
    /\ phase = "rechecked"
    /\ IF prompt # <<>> \/ (Final /\ ~Seals)
       THEN NextTurn /\ UNCHANGED repairs
       ELSE IF Final
       THEN /\ phase' = "sealed"
            /\ accepting' = FALSE
            /\ UNCHANGED <<turn, repairs, ahead>>
       ELSE /\ repairs' = repairs + 1
            /\ NextTurn
    /\ UNCHANGED <<attached, reviewing, updates, pending, delivery, steering, queue, prompt, verdict,
                   stopped, heard, early>>

\* A stop, a deadline or an error, wherever the run is: close() in its finally.
Stop ==
    /\ ~stopped
    /\ phase \notin {"ended", "sealed"}
    /\ stopped' = TRUE
    /\ UNCHANGED <<mailbox, queue, phase, ahead, prompt, verdict, turn, repairs, heard>>

Fails ==
    /\ phase \in {"setup", "gathering", "gathered", "prompting", "collecting", "collected", "reviewing",
                  "rechecking", "rechecked"}
    /\ Ends
    /\ UNCHANGED <<attached, reviewing, updates, pending, delivery, steering, queue, ahead, prompt,
                   verdict, turn, repairs, stopped, heard, early>>

MailboxNext ==
    \/ Send \/ DeliveryRuns \/ DeliveryRefused \/ SteerReturns
    \/ Attach \/ Gather \/ Gathered \/ Prompt \/ BrainReads \/ PromptEnds
    \/ Collected \/ Review \/ Reviewed \/ Rechecked \/ Settle
    \/ Stop \/ Fails

MailboxSpec == MailboxInit /\ [][MailboxNext]_mailboxVars

--------------------------------------------------------------------------------

\* The types of the mailbox and of the acceptance loop.
MailboxTypeOK ==
    /\ {attached, reviewing, accepting, steering, stopped} \subseteq BOOLEAN
    /\ updates \in 0..MaxGuidance
    /\ {pending, delivery, queue, prompt, heard} \subseteq Seq(1..MaxGuidance)
    /\ steering => delivery # <<>>
    /\ phase \in {"queued", "setup", "gathering", "gathered", "prompting", "collecting", "collected",
                  "reviewing", "rechecking", "rechecked", "sealed", "ended"}
    /\ ahead \in Nat /\ ahead <= Len(delivery)
    /\ verdict \in {"none", "complete", "blocked", "incomplete"}
    /\ turn \in 0..MaxPrompts /\ repairs \in 0..MaxRepairs
    /\ early \subseteq 1..MaxGuidance

\* No guidance is acknowledged and then lost past completion: a run that was judged
\* and sealed has given its model every message its mailbox accepted.  (A run that is
\* stopped, fails or exhausts its turns drops what it still had.)
SealedRunHeardEverything == phase = "sealed" => ToSet(heard) = 1..updates

\* The model is given no message twice, although it may be pending, in the brain's
\* queue and in a prompt within a few steps.  Not claimed for a message sent while the
\* first prompt is put together: it is taken into the prompt and steered too.
GuidanceIsHeardOnce ==
    \A i, j \in DOMAIN heard : i # j /\ heard[i] = heard[j] => heard[i] \in early

================================================================================
