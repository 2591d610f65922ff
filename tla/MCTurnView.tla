----------------------------- MODULE MCTurnView -----------------------------
(* Instances of TurnView for TLC: turns named, the rest in the .cfg files. *)
EXTENDS TurnView

CONSTANTS t1, t2
=============================================================================
