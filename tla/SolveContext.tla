---------------------------- MODULE SolveContext ----------------------------
(***************************************************************************)
(* BesqContext as the web layer uses it: the handle of the one active      *)
(* executor, the executors themselves at the level of Lifecycle, and the   *)
(* solve history.  An executor belongs to the task whose worker created    *)
(* it; the handle may outlive or precede it.  Loading the handle and       *)
(* calling the executor is one action: the copied shared_ptr keeps the     *)
(* executor alive, and a call on an executor that ended changes nothing.   *)
(***************************************************************************)
EXTENDS Naturals, Sequences

CONSTANT Tasks

NoTask == 0

ASSUME TasksAssumption == Tasks \subseteq Nat \ {NoTask}

VARIABLES
  active, \* active_executor: the task of the published executor
  exec,   \* per task: state() of its executor
  poison, \* per task: its executor has been told to cancel
  history \* the solve history, per task

ctxtVars == <<active, exec, poison, history>>

ExecStates == {"none", "Idle", "Running", "Paused", "Completed", "Cancelled"}
EventTypes == {"Submitted", "Completed", "Failed", "Cancelled"}

ContextInit ==
  /\ active = NoTask /\ history = [t \in Tasks |-> <<>>]
  /\ exec = [t \in Tasks |-> "none"]
  /\ poison = [t \in Tasks |-> FALSE]

\* Mutant: a cancel does not wake a paused search.
Abort_ForgetsPaused ==
  /\ IF active # NoTask /\ exec[active] \in {"Idle", "Running"}
     THEN /\ poison' = [poison EXCEPT ![active] = TRUE]
          /\ exec' = [exec EXCEPT ![active] = IF @ = "Idle" THEN @ ELSE "Cancelled"]
     ELSE UNCHANGED <<poison, exec>>
  /\ UNCHANGED <<active, history>>

\* abort_solve(): an Idle executor records the cancel, a live one obeys it.
Abort ==
  /\ IF active # NoTask /\ exec[active] \in {"Idle", "Running", "Paused"}
     THEN /\ poison' = [poison EXCEPT ![active] = TRUE]
          /\ exec' = [exec EXCEPT ![active] = IF @ = "Idle" THEN @ ELSE "Cancelled"]
     ELSE UNCHANGED <<poison, exec>>
  /\ UNCHANGED <<active, history>>

\* pause_solve() and resume_solve(): no-ops in every other state.
Flip(from, to) ==
  /\ exec' = IF active # NoTask /\ exec[active] = from
             THEN [exec EXCEPT ![active] = to] ELSE exec
  /\ UNCHANGED <<active, poison, history>>

PauseSolve == Flip("Running", "Paused")
ResumeSolve == Flip("Paused", "Running")

SetHandle(t) == active' = t /\ UNCHANGED <<exec, poison, history>>

\* Nobody sees an executor before its handle is stored.
PublishExecutor(t) ==
  /\ exec' = [exec EXCEPT ![t] = "Idle"] /\ active' = t
  /\ UNCHANGED <<poison, history>>

\* start() of an executor with a pending cancel poisons its context.
StartExecutor(t) ==
  /\ exec' = [exec EXCEPT ![t] = "Running"]
  /\ UNCHANGED <<active, poison, history>>

\* Mutant: the verdict overwrites the cancel, as a failure to finish.
EndExecutor_Keeps(t) ==
  /\ exec[t] = "Running" \/ poison[t]
  /\ exec' = [exec EXCEPT ![t] = IF @ = "Cancelled" THEN "Failed" ELSE "Completed"]
  /\ UNCHANGED <<active, poison, history>>

\* wait() returns: the search ended by itself or bailed out of a cancel.  A
\* verdict (Completed stands for Failed too: neither makes solve() throw) is
\* recorded unless the state already reads Cancelled.
EndExecutor(t) ==
  /\ exec[t] = "Running" \/ poison[t]
  /\ exec' = [exec EXCEPT ![t] = IF @ = "Cancelled" THEN @ ELSE "Completed"]
  /\ UNCHANGED <<active, poison, history>>

\* record_solve_event(); the ring's capacity is beyond the tasks of a model.
Record(t, type) ==
  /\ history' = [history EXCEPT ![t] = Append(@, type)]
  /\ UNCHANGED <<active, exec, poison>>

ContextTypeOK ==
  /\ active \in Tasks \cup {NoTask}
  /\ exec \in [Tasks -> ExecStates]
  /\ poison \in [Tasks -> BOOLEAN]
  /\ history \in [Tasks -> Seq(EventTypes)]
=============================================================================
