-------------------------- MODULE MCSubagentGroups --------------------------
(* Instances of SubagentGroups.  Limiters and Clients follow from the rest. *)
EXTENDS SubagentGroups

\* Two batches in two sessions, three slots: every limiter can be contended.
FanoutItemsOf == "g1" :> <<"a", "b">> @@ "g2" :> <<"c">>
FanoutOwnerOf == "g1" :> "A" @@ "g2" :> "B"
FanoutLimiters == {"A", "B", "g1", "g2", "gate", "box"}
FanoutClients == {"a", "b", "c", "g1", "g2"}

\* A batch and two single spawns, where every limiter has one slot.
NestedItemsOf == "g1" :> <<"a", "b">>
NestedOwnerOf == "g1" :> "A" @@ "x" :> "B" @@ "y" :> "A"
NestedLimiters == {"A", "B", "g1", "gate", "box"}
NestedClients == {"a", "b", "g1", "x", "y"}

=============================================================================
