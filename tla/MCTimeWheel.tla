---------------------------- MODULE MCTimeWheel ----------------------------
(***************************************************************************)
(* Small wheels for TLC: a near ring of four slots (two for one timer      *)
(* alone), coarser rings of two, so that every rotation, every cascade and *)
(* the clamp are reached within a few ticks.                               *)
(***************************************************************************)
EXTENDS TimeWheel, TLC

\* 4, 8, 16, 32, 64 ticks.
MCSpan == [k \in 0..4 |-> 4 * 2^k]

\* 2, 4, 8, 16, 32 ticks.
TinySpan == [k \in 0..4 |-> 2 * 2^k]

MCIntervals == {1, 4}

MCLoops == {0, 1}

\* For one timer alone: delays that land on each ring and pass the last.
AllRings == {3, 4, 8, 15, 33}

TimerSymmetry == Permutations(Timers)
=============================================================================
