------------------------------ MODULE MCServices ------------------------------
(***************************************************************************)
(* Six parts that share no state, checked in one run: a behaviour is one   *)
(* of a capability run, of a session's plan and its durable copies, of a   *)
(* child's mailbox, of the script sandbox, of a scheduled task, or of a    *)
(* usage outbox; the others stay in their initial states.                  *)
(***************************************************************************)
EXTENDS CapabilityRun, PlanWrites, SubagentMailbox, ScriptSandbox, TaskSchedule, UsageOutbox

VARIABLE part

\* Bound: at most two task events wait behind the one that is being sent.
MaxChain == 2

servicesVars ==
    <<part, capabilityVars, planVars, mailboxVars, sandboxVars, scheduleVars, outboxVars>>

ServicesInit ==
    /\ part \in {"capability", "plan", "mailbox", "sandbox", "schedule", "usage"}
    /\ CapabilityInit /\ PlanInit /\ MailboxInit /\ SandboxInit /\ ScheduleInit /\ OutboxInit

ServicesNext ==
    \/ /\ part = "capability" /\ CapabilityNext
       /\ UNCHANGED <<part, planVars, mailboxVars, sandboxVars, scheduleVars, outboxVars>>
    \/ /\ part = "plan" /\ PlanNext /\ Len(chain') <= MaxChain
       /\ UNCHANGED <<part, capabilityVars, mailboxVars, sandboxVars, scheduleVars, outboxVars>>
    \/ /\ part = "mailbox" /\ MailboxNext
       /\ UNCHANGED <<part, capabilityVars, planVars, sandboxVars, scheduleVars, outboxVars>>
    \/ /\ part = "sandbox" /\ SandboxNext
       /\ UNCHANGED <<part, capabilityVars, planVars, mailboxVars, scheduleVars, outboxVars>>
    \/ /\ part = "schedule" /\ ScheduleNext
       /\ UNCHANGED <<part, capabilityVars, planVars, mailboxVars, sandboxVars, outboxVars>>
    \/ /\ part = "usage" /\ OutboxNext
       /\ UNCHANGED <<part, capabilityVars, planVars, mailboxVars, sandboxVars, scheduleVars>>

ServicesSpec == ServicesInit /\ [][ServicesNext]_servicesVars

\* The types of the part at hand; the others are where they started.
ServicesTypeOK ==
    /\ part = "capability" => CapabilityTypeOK
    /\ part = "plan" => PlanTypeOK
    /\ part = "mailbox" => MailboxTypeOK
    /\ part = "sandbox" => SandboxTypeOK
    /\ part = "schedule" => ScheduleTypeOK
    /\ part = "usage" => OutboxTypeOK

===============================================================================
