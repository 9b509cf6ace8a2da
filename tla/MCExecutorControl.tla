-------------------------- MODULE MCExecutorControl --------------------------
(* Executor in two scenes. "control": one client makes every call, with a   *)
(* timeout, failures and a second run. "quiet": two clients pause and       *)
(* checkpoint a run that nobody resumes, cancels or times out.              *)
EXTENDS Executor

CONSTANT c2

VARIABLE scene

\* Client c makes no new call but those of ops.
MakesOnly(c, ops) ==
  pc[c] = "idle" /\ pc'[c] # "idle" =>
    \/ "pause" \in ops /\ pc'[c] = "p_notify"
    \/ "serialize" \in ops /\ pc'[c] = "s_check"

Kept ==
  CASE scene = "control" -> MakesOnly(c2, {})
    [] scene = "quiet" -> /\ \A c \in Clients : MakesOnly(c, {"pause", "serialize"})
                          /\ pc'[Watcher] # "fire" /\ pc'[Owner] # "reset"

ControlInit == Init /\ scene \in {"control", "quiet"}
ControlNext == Next /\ Kept /\ UNCHANGED scene
ControlSpec == ControlInit /\ [][ControlNext]_<<vars, scene>> /\ Fairness

\* In a run nobody resumes or ends, a state that reads Paused and a checkpoint
\* being read both mean that the algorithm is at rest.
QuietMeansRest == scene = "quiet" => SnapshotIsQuiescent /\ PausedIsAtRest
=============================================================================
