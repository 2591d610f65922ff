---------------------------- MODULE MCAgentTurn ----------------------------
(***************************************************************************)
(* Small instances of AgentTurn. Messages differ in nothing but their      *)
(* identity, so the runs of the invariants permute them.                   *)
(***************************************************************************)
EXTENDS AgentTurn, TLC

MCSymmetry == Permutations(Msgs)
=============================================================================
