----------------------------- MODULE Lifecycle -----------------------------
(***************************************************************************)
(* What AlgorithmExecutor promises its callers about a run, whatever the   *)
(* threads do: only start() begins a run, a run ends with exactly one      *)
(* verdict, no call changes a verdict once it is reached, and only reset() *)
(* leads from a verdict back to Idle (AlgorithmExecutor.h,                 *)
(* types/AlgorithmState.h).  Running, Pausing and Paused are one abstract  *)
(* phase, Active.                                                          *)
(***************************************************************************)
EXTENDS Naturals

VARIABLES
  phase,  \* Idle, Active or a verdict
  count   \* runs begun so far

Verdicts == {"Completed", "Failed", "Cancelled"}

Init == phase = "Idle" /\ count = 0

Start == phase = "Idle" /\ phase' = "Active" /\ count' = count + 1

Finish == phase = "Active" /\ phase' \in Verdicts /\ count' = count

Reset == phase \in Verdicts /\ phase' = "Idle" /\ count' = count

Next == Start \/ Finish \/ Reset

Spec == Init /\ [][Next]_<<phase, count>>
=============================================================================
