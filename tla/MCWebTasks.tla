----------------------------- MODULE MCWebTasks -----------------------------
(* WebSolve in two scenes. "slots": two tasks after each other, without a   *)
(* hub, as the configuration says. "stream": one restored task with its     *)
(* sampler, its diagnostics and a stream, and every call that throws.       *)
EXTENDS WebSolve, TLC

CONSTANTS c1, c2, s1

VARIABLE scene

Stream == INSTANCE WebSolve WITH
  Tasks <- {1}, Keys <- {1}, Producers <- {1}, Observers <- {1},
  Publishers <- {Worker(1), Sampler(1), Dispatcher}, Callers <- {c1, c2}, Streams <- {s1},
  Kinds <- {"restore"}, HasHub <- TRUE, MayThrow <- TRUE

TasksInit ==
  \/ scene = "slots" /\ Init
  \/ scene = "stream" /\ Stream!Init

TasksNext ==
  \/ scene = "slots" /\ Next /\ UNCHANGED scene
  \/ scene = "stream" /\ Stream!Next /\ UNCHANGED scene

tasksVars == <<vars, scene>>
InStream == scene = "stream" /\ UNCHANGED scene
StreamFairness ==
  /\ WF_tasksVars(InStream /\ Stream!WorkerStep(1)) /\ WF_tasksVars(InStream /\ Stream!Publishing)
  /\ WF_tasksVars(InStream /\ Stream!DispatchStep)
  /\ WF_tasksVars(InStream /\ Stream!ShutAdvance) /\ WF_tasksVars(InStream /\ Stream!ShutAbort)

TasksSpec == TasksInit /\ [][TasksNext]_tasksVars /\ StreamFairness

-----------------------------------------------------------------------------
(* The properties of WebSolve, in the scene that challenges them.           *)
\* WebSolve::TypeOK, the type invariant.
TypesHold == IF scene = "slots" THEN TypeOK ELSE Stream!TypeOK

\* WebSolveService: one task at a time holds the slot of start() and restore(),
\* and a task is reaped when its worker touches nothing any more.
TasksOverlapSafely == scene = "slots" => SlotIsExclusive /\ ReapIsSafe

\* WebSolveService: the history of a task ends with the state its clients see,
\* and whoever sees a verdict finds the result or the error.
RecordsAgree ==
  IF scene = "slots" THEN HistoryMatchesState /\ PayloadIsVisible
  ELSE Stream!HistoryMatchesState /\ Stream!PayloadIsVisible

\* CalculatorController::events(): a stream on a completed task gets its end.
StreamIsTold == scene = "stream" => Stream!StreamSeesEnd

\* WebSolveService::flush(): the Exit event is not lost.
ExitArrives == scene = "stream" => Stream!ExitIsDelivered

\* WebSolveService: a verdict stands, whatever cancel() and the worker race to.
VerdictIsFinal == [][IF scene = "slots"
    THEN \A t \in Tasks : tstate[t] \in {"Completed", "Failed"} => tstate'[t] = tstate[t]
    ELSE /\ tstate[1] \in {"Completed", "Failed"} => tstate'[1] = tstate[1]
         /\ tstate[1] = "Cancelled" => tstate'[1] \in {"Cancelled", "Failed"}]_tasksVars

\* ~WebSolveService returns.
DestructorReturns == (scene = "stream" /\ mpc = "clear") ~> mpc = "gone"
=============================================================================
