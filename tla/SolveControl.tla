----------------------------- MODULE SolveControl -----------------------------
(* The command line while it solves on a terminal: cli/CtrlInterrupt, and   *)
(* run_solve_control_loop of CLIApp over BesqContext and SolvePipeline.     *)
(* Three threads of control: the loop of the main thread, the thread that   *)
(* solves, and the handler of ^C, which may run at any moment and only sets *)
(* flags. The executor is the one of module Executor, reduced to its state  *)
(* and to whether its search still runs. One solve per process.             *)
EXTENDS Naturals, Sequences

CONSTANT Inputs  \* bound: how often a key or ^C is pressed

Requests == {"abort", "pause", "resume", "save"}
NoRequest == "none"

VARIABLES
  at,       \* where the loop, the solver and the handler are
  calls,    \* how many keys have been pressed
  job,      \* "solve", or "resume" from a checkpoint file
  active,   \* g_solve_active
  sticky,   \* g_solve_interrupted
  slot,     \* g_solve_control, one request
  paused,   \* the loop's local
  handle,   \* active_executor is published
  exec,     \* state() of the executor
  busy,     \* its search runs
  poisoned, \* history: a cancel has reached it
  outcome,  \* what the solver leaves: "plans", "nothing" or "exception"
  record,   \* the solve history
  told      \* what the user is told in the end

result == <<outcome, record>>
controlVars == <<at, calls, job, active, sticky, slot, paused, handle, exec, busy, poisoned,
                 result, told>>
flags == <<active, sticky, slot>>
executor == <<exec, busy, poisoned>>

Goto(t, from, to) == at[t] = from /\ at' = [at EXCEPT ![t] = to]
Ended == {"Completed", "Cancelled"}

ControlInit ==
  /\ at = [t \in {"loop", "solver", "handler"} |-> "idle"] /\ calls = 0
  /\ job \in {"solve", "resume"}
  /\ active = FALSE /\ sticky = FALSE /\ slot = NoRequest /\ paused = FALSE
  /\ handle = FALSE /\ exec = "none" /\ busy = FALSE /\ poisoned = FALSE
  /\ outcome = "none" /\ record = <<>> /\ told = "none"

-----------------------------------------------------------------------------
(* BesqContext, called from the loop: the handle is loaded and, if there is *)
(* an executor, the call is made on it.                                     *)

\* abort_solve(): an Idle executor keeps the cancel for its start().
AbortSolve ==
  /\ exec' = IF handle /\ exec \in {"Running", "Pausing", "Paused"} THEN "Cancelled" ELSE exec
  /\ poisoned' = (poisoned \/ (handle /\ exec \notin Ended))
  /\ UNCHANGED busy

\* pause_solve() does nothing but to a running search.
Pausable == handle /\ exec = "Running"

\* resume_solve()
ResumeSolve ==
  /\ exec' = IF handle /\ exec = "Paused" THEN "Running" ELSE exec
  /\ UNCHANGED <<busy, poisoned>>

-----------------------------------------------------------------------------
(* The handler of ^C. Outside of a solve the process dies of the signal.    *)

Interrupt ==
  /\ calls < Inputs /\ calls' = calls + 1
  /\ at["handler"] = "idle" /\ at["loop"] \notin {"done", "killed"}
  /\ at' = IF active THEN [at EXCEPT !["handler"] = "flag"] ELSE [at EXCEPT !["loop"] = "killed"]
  /\ UNCHANGED <<job, flags, paused, handle, executor, result, told>>

RaiseFlag ==
  /\ Goto("handler", "flag", "ask") /\ sticky' = TRUE
  /\ UNCHANGED <<calls, job, active, slot, paused, handle, executor, result, told>>

AskAbort ==
  /\ Goto("handler", "ask", "idle") /\ slot' = "abort"
  /\ UNCHANGED <<calls, job, active, sticky, paused, handle, executor, result, told>>

-----------------------------------------------------------------------------
(* The loop.                                                                *)

Enter ==
  /\ Goto("loop", "idle", "look")
  /\ active' = TRUE
  /\ UNCHANGED <<calls, job, sticky, slot, paused, handle, executor, result, told>>

Look ==
  /\ Goto("loop", "look", IF sticky THEN "take.sticky" ELSE "take")
  /\ UNCHANGED <<calls, job, flags, paused, handle, executor, result, told>>

\* decide_solve_control()
Decide(request, seen) ==
  CASE seen \/ request = "abort" -> "abort"
    [] request = "pause" /\ ~paused -> "pause"
    [] request \in {"resume", "save"} /\ paused -> request
    [] OTHER -> "key"

Take ==
  /\ \E seen \in BOOLEAN :
       Goto("loop", IF seen THEN "take.sticky" ELSE "take", Decide(slot, seen))
  /\ slot' = NoRequest
  /\ UNCHANGED <<calls, job, active, sticky, paused, handle, executor, result, told>>

\* Mutant: the abort is not remembered.
ObeyAbort_Forgets ==
  /\ Goto("loop", "abort", "key") /\ AbortSolve
  /\ UNCHANGED <<calls, job, flags, paused, handle, result, told>>

ObeyAbort ==
  /\ Goto("loop", "abort", "key") /\ sticky' = TRUE /\ AbortSolve
  /\ UNCHANGED <<calls, job, active, slot, paused, handle, result, told>>

ObeyPause ==
  /\ Goto("loop", "pause", IF Pausable THEN "pausing" ELSE "key")
  /\ exec' = IF Pausable THEN "Pausing" ELSE exec
  /\ paused' = ~Pausable
  /\ UNCHANGED <<calls, job, flags, handle, busy, poisoned, result, told>>

\* pause() returns when the search has parked or is over.
PauseReturns ==
  /\ Goto("loop", "pausing", "key")
  /\ exec' = IF exec = "Pausing" THEN "Paused" ELSE exec
  /\ paused' = TRUE
  /\ UNCHANGED <<calls, job, flags, handle, busy, poisoned, result, told>>

ObeyResume ==
  /\ Goto("loop", "resume", "key") /\ ResumeSolve /\ paused' = FALSE
  /\ UNCHANGED <<calls, job, flags, handle, result, told>>

\* save_checkpoint() writes a file, or says that it cannot; nothing changes.
ObeySave ==
  /\ Goto("loop", "save", "key")
  /\ UNCHANGED <<calls, job, flags, paused, handle, executor, result, told>>

\* One character of stdin, if there is one; map_ctrl_char() may know it.
ReadKey ==
  /\ Goto("loop", "key", "check")
  /\ \/ UNCHANGED <<calls, slot>>
     \/ \E r \in Requests : calls < Inputs /\ calls' = calls + 1 /\ slot' = r
  /\ UNCHANGED <<job, active, sticky, paused, handle, executor, result, told>>

Check ==
  /\ Goto("loop", "check", IF sticky \/ at["solver"] = "done" THEN "join" ELSE "look")
  /\ IF sticky THEN AbortSolve ELSE UNCHANGED executor
  /\ UNCHANGED <<calls, job, flags, paused, handle, result, told>>

Join ==
  /\ at["solver"] = "done" /\ Goto("loop", "join", "clear")
  /\ UNCHANGED <<calls, job, flags, paused, handle, executor, result, told>>

ClearActive ==
  /\ Goto("loop", "clear", "report") /\ active' = FALSE
  /\ UNCHANGED <<calls, job, sticky, slot, paused, handle, executor, result, told>>

\* The flag is read, an exception of the solver is thrown on, and finish()
\* finds words for the rest; only solve() knows of unreachable targets, and
\* the plans may not go into their file.
Report ==
  /\ Goto("loop", "report", "finish")
  /\ \E shown \in {"plans", "error"} :
       told' = IF outcome = "exception" THEN "error"
               ELSE IF sticky THEN "interrupted"
               ELSE IF outcome = "nothing" /\ job = "solve" THEN "unreachable" ELSE shown
  /\ UNCHANGED <<calls, job, flags, paused, handle, executor, result>>

\* finish() resets the flags, unless an exception leaves it.
Finish ==
  /\ Goto("loop", "finish", "done")
  /\ IF told \in {"error", "unreachable"} THEN UNCHANGED <<sticky, slot>>
     ELSE sticky' = FALSE /\ slot' = NoRequest
  /\ UNCHANGED <<calls, job, active, paused, handle, executor, result, told>>

-----------------------------------------------------------------------------
(* The solver: solve(), or solve_from_checkpoint(), which keeps no history. *)

Solver(from, to) == at["loop"] # "killed" /\ Goto("solver", from, to)
RecordEvent(type) == record' = IF job = "solve" THEN Append(record, type) ELSE record

\* The thread is started once active is set.
Submit ==
  /\ active /\ Solver("idle", "prepare")
  /\ RecordEvent("Submitted")
  /\ UNCHANGED <<calls, job, flags, paused, handle, executor, outcome, told>>

\* The snapshot, the conversion of the request and create_executor() may
\* throw, and so may reading the checkpoint.
Prepare ==
  /\ \/ Solver("prepare", "publish") /\ UNCHANGED outcome
     \/ Solver("prepare", "record") /\ outcome' = "exception"
  /\ UNCHANGED <<calls, job, flags, paused, handle, executor, record, told>>

Publish ==
  /\ Solver("publish", IF job = "solve" THEN "simulate" ELSE "start")
  /\ handle' = TRUE /\ exec' = "Idle"
  /\ UNCHANGED <<calls, job, flags, paused, busy, poisoned, result, told>>

\* simulate() may find that the target cannot be reached.
Simulate ==
  /\ \/ Solver("simulate", "start") /\ UNCHANGED outcome
     \/ Solver("simulate", "retract") /\ outcome' = "nothing"
  /\ UNCHANGED <<calls, job, flags, paused, handle, executor, record, told>>

\* start(); that of a checkpoint may throw. A cancel that was kept poisons
\* the run: its search stops, and its state is Running until it has.
Start ==
  /\ \/ Solver("start", "wait") /\ exec' = "Running" /\ busy' = TRUE /\ UNCHANGED outcome
     \/ /\ job = "resume" /\ Solver("start", "retract") /\ outcome' = "exception"
        /\ UNCHANGED <<exec, busy>>
  /\ UNCHANGED <<calls, job, flags, paused, handle, poisoned, record, told>>

\* The search ends by itself or bails out; a parked one does neither.
SearchEnds ==
  /\ busy /\ exec # "Paused" /\ busy' = FALSE
  /\ exec' = IF exec = "Cancelled" THEN exec ELSE "Completed"
  /\ UNCHANGED <<at, calls, job, flags, paused, handle, poisoned, result, told>>

\* wait() returns; a search that bailed out may have found plans before.
WaitReturns ==
  /\ ~busy /\ Solver("wait", "retract")
  /\ outcome' \in {"plans", "nothing"}
  /\ UNCHANGED <<calls, job, flags, paused, handle, executor, record, told>>

Retract ==
  /\ Solver("retract", "record") /\ handle' = FALSE
  /\ UNCHANGED <<calls, job, flags, paused, executor, result, told>>

\* Whatever did not throw has Completed, an aborted search included.
RecordEnd ==
  /\ Solver("record", "done")
  /\ RecordEvent(IF outcome = "exception" THEN "Failed" ELSE "Completed")
  /\ UNCHANGED <<calls, job, flags, paused, handle, executor, outcome, told>>

-----------------------------------------------------------------------------
LoopNext ==
  \/ Enter \/ Look \/ Take \/ ObeyAbort \/ ObeyPause \/ PauseReturns \/ ObeyResume \/ ObeySave
  \/ ReadKey \/ Check \/ Join \/ ClearActive \/ Report \/ Finish
HandlerNext == Interrupt \/ RaiseFlag \/ AskAbort
SolverNext ==
  Submit \/ Prepare \/ Publish \/ Simulate \/ Start \/ WaitReturns \/ Retract \/ RecordEnd
ControlNext == LoopNext \/ HandlerNext \/ SolverNext \/ SearchEnds

-----------------------------------------------------------------------------
(* run_solve_control_loop: when an abort has reached the executor, the user *)
(* is told of an interrupt, or of the exception that ended the solve: never *)
(* of an unreachable target or of plans as if the search had gone its way.  *)
AbortIsReported == at["loop"] = "done" /\ poisoned => told \in {"interrupted", "error"}

(* The inductive invariant behind it: until the report nothing clears the   *)
(* flag that every abort leaves, and from then on the user has been told.   *)
Reported == {"finish", "done", "killed"}
AbortInv ==
  /\ at = [t \in {"loop", "solver", "handler"} |-> at[t]]
  /\ poisoned \in BOOLEAN /\ sticky \in BOOLEAN
  /\ poisoned /\ at["loop"] \notin Reported => sticky
  /\ poisoned /\ at["loop"] \in {"finish", "done"} => told \in {"interrupted", "error"}

(* The process is over, or the user has left the search paused.             *)
Settled ==
  \/ at["loop"] \in {"done", "killed"}
  \/ at["loop"] \notin {"join", "clear", "report", "finish"} /\ exec = "Paused" /\ ~sticky
=============================================================================
