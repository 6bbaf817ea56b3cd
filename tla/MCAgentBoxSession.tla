------------------------- MODULE MCAgentBoxSession -------------------------
(* Instances of AgentBoxSession: which prompt is which does not matter.     *)
EXTENDS AgentBoxSession, TLC

Prompts == Permutations(Turns)

=============================================================================
