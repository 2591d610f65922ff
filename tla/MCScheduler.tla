---------------------------- MODULE MCScheduler ----------------------------
(***************************************************************************)
(* Small schedulers for TLC: two cards share the state file and the wheel, *)
(* with one node more than they hold at once for each stop under way.      *)
(***************************************************************************)
EXTENDS Scheduler, TLC

MCSymmetry == Permutations(Nodes) \cup Permutations(Keys)
=============================================================================
