----------------------------- MODULE MCStepFeed -----------------------------
(* A small turn for TLC.                                                   *)
EXTENDS StepFeed, TLC

CONSTANTS s1, s2

MCSymmetry == Permutations({s1, s2})
=============================================================================
