--------------------------- MODULE TimerContract ---------------------------
(***************************************************************************)
(* What a timer of src/pkg/timer promises its caller, with no wheel in     *)
(* sight (src/pkg/timer/timer.go): a timer fires only between the push     *)
(* that arms it and its Stop, at most as often as the loops it was given,  *)
(* and once more at the very most after its stop flag went up.             *)
(***************************************************************************)
EXTENDS Integers

CONSTANTS Timers, Loops

VARIABLES
  state,   \* state[n]: "new", "armed", "over", "stopping", "stopped"
  loops,   \* loops[n]: the executions asked for, 0 meaning for ever
  count    \* count[n]: the executions so far

cvars == <<state, loops, count>>

CInit ==
  /\ state = [n \in Timers |-> "new"]
  /\ loops = [n \in Timers |-> 0]
  /\ count = [n \in Timers |-> 0]

Arm(n) ==
  /\ state[n] = "new"
  /\ state' = [state EXCEPT ![n] = "armed"]
  /\ \E l \in Loops : loops' = [loops EXCEPT ![n] = l]
  /\ UNCHANGED count

Fire(n) ==
  /\ state[n] = "armed"
  /\ count' = [count EXCEPT ![n] = @ + 1]
  /\ state' = [state EXCEPT ![n] =
                 IF loops[n] > 0 /\ count[n] + 1 >= loops[n] THEN "over" ELSE @]
  /\ UNCHANGED loops

StopTimer(n) ==
  /\ state[n] \in {"armed", "over"}
  /\ state' = [state EXCEPT ![n] = "stopping"]
  /\ UNCHANGED <<loops, count>>

\* The callback that was already on its way when the flag went up.
LateFire(n) ==
  /\ state[n] = "stopping"
  /\ state' = [state EXCEPT ![n] = "stopped"]
  /\ count' = [count EXCEPT ![n] = @ + 1]
  /\ UNCHANGED loops

CNext == \E n \in Timers : Arm(n) \/ Fire(n) \/ StopTimer(n) \/ LateFire(n)

CSpec == CInit /\ [][CNext]_cvars
=============================================================================
