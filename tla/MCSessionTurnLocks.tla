------------------------- MODULE MCSessionTurnLocks -------------------------
(***************************************************************************)
(* Instance of SessionTurnLocks for TLC: the constants are model values.   *)
(***************************************************************************)
EXTENDS SessionTurnLocks

=============================================================================
