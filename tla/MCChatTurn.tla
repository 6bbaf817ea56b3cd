----------------------------- MODULE MCChatTurn -----------------------------
(* Instances of ChatTurn: two attempts of one dispatch, one of another.     *)
EXTENDS ChatTurn, TLC

CONSTANTS a1, a2, b1, d1, d2

Retries == Permutations({a1, a2})

TwoDispatchOf == [a \in Attempts |-> IF a = b1 THEN d2 ELSE d1]

=============================================================================
