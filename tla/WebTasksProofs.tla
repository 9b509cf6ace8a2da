--------------------------- MODULE WebTasksProofs ---------------------------
(* The properties of the run of MCWebTasks, from the invariants of           *)
(* WebSolveProofs: of the scene "slots" for any tasks and callers, of the    *)
(* scene "stream" for its one task. WebSolveProofs is instantiated as        *)
(* WebSolve is in MCWebTasks, so that a definition has two names there       *)
(* (Stream!Next and StreamP!Next): the bridge says that they are the same.   *)
EXTENDS MCWebTasks, WebSolveProofs

StreamP == INSTANCE WebSolveProofs WITH
  Tasks <- {1}, Keys <- {1}, Producers <- {1}, Observers <- {1},
  Publishers <- {Worker(1), Sampler(1), Dispatcher}, Callers <- {c1, c2}, Streams <- {s1},
  Kinds <- {"restore"}, HasHub <- TRUE, MayThrow <- TRUE

\* What a scene with one task is made of.
LEMMA StreamBridge ==
  /\ Stream!Init <=> StreamP!Init
  /\ Stream!Next <=> StreamP!Next
  /\ Stream!vars = StreamP!vars
  /\ Stream!TypeOK <=> StreamP!TypeOK
  /\ Stream!HistoryMatchesState <=> StreamP!HistoryMatchesState
  /\ Stream!PayloadIsVisible <=> StreamP!PayloadIsVisible
  /\ Stream!StreamSeesEnd <=> StreamP!StreamSeesEnd
  /\ Stream!ExitIsDelivered <=> StreamP!ExitIsDelivered
BY DEF
    Stream!NoTask, StreamP!NoTask, Stream!ctxtVars, StreamP!ctxtVars,
    Stream!ExecStates, StreamP!ExecStates, Stream!EventTypes, StreamP!EventTypes,
    Stream!ContextInit, StreamP!ContextInit, Stream!Abort, StreamP!Abort, Stream!Flip, StreamP!Flip,
    Stream!PauseSolve, StreamP!PauseSolve, Stream!ResumeSolve, StreamP!ResumeSolve,
    Stream!SetHandle, StreamP!SetHandle, Stream!PublishExecutor, StreamP!PublishExecutor,
    Stream!StartExecutor, StreamP!StartExecutor, Stream!EndExecutor, StreamP!EndExecutor,
    Stream!Record, StreamP!Record, Stream!ContextTypeOK, StreamP!ContextTypeOK,
    Stream!hubVars, StreamP!hubVars, Stream!Terminals, StreamP!Terminals, Stream!Frames, StreamP!Frames,
    Stream!NoFrame, StreamP!NoFrame, Stream!Seen, StreamP!Seen, Stream!Silent, StreamP!Silent,
    Stream!HubInit, StreamP!HubInit, Stream!After, StreamP!After, Stream!Deliver, StreamP!Deliver,
    Stream!Sending, StreamP!Sending, Stream!PublishCopy, StreamP!PublishCopy,
    Stream!PublishSend, StreamP!PublishSend, Stream!Subscribe, StreamP!Subscribe,
    Stream!Replay, StreamP!Replay, Stream!Unsubscribe, StreamP!Unsubscribe,
    Stream!UnsubscribeAll, StreamP!UnsubscribeAll, Stream!Clear, StreamP!Clear,
    Stream!HubTypeOK, StreamP!HubTypeOK, Stream!diagVars, StreamP!diagVars,
    Stream!DiagInit, StreamP!DiagInit, Stream!PushEvent, StreamP!PushEvent,
    Stream!CountEvent, StreamP!CountEvent, Stream!Attach, StreamP!Attach, Stream!Detach, StreamP!Detach,
    Stream!TakeEvent, StreamP!TakeEvent, Stream!Notified, StreamP!Notified,
    Stream!DoneEvent, StreamP!DoneEvent, Stream!Flushed, StreamP!Flushed,
    Stream!DiagTypeOK, StreamP!DiagTypeOK, Stream!webVars, StreamP!webVars, Stream!vars, StreamP!vars,
    Stream!Worker, StreamP!Worker, Stream!Sampler, StreamP!Sampler, Stream!Dispatcher, StreamP!Dispatcher,
    Stream!ThePublishers, StreamP!ThePublishers, Stream!TaskStates, StreamP!TaskStates,
    Stream!Busy, StreamP!Busy, Stream!Init, StreamP!Init, Stream!tableVars, StreamP!tableVars,
    Stream!taskVars, StreamP!taskVars, Stream!workVars, StreamP!workVars,
    Stream!callVars, StreamP!callVars, Stream!streamVars, StreamP!streamVars,
    Stream!others, StreamP!others, Stream!Serving, StreamP!Serving, Stream!Call, StreamP!Call,
    Stream!Step, StreamP!Step, Stream!SlotIsFree, StreamP!SlotIsFree, Stream!Reapable, StreamP!Reapable,
    Stream!Reserve, StreamP!Reserve, Stream!Spawn, StreamP!Spawn, Stream!Swap, StreamP!Swap,
    Stream!Cancel, StreamP!Cancel, Stream!Pause, StreamP!Pause, Stream!Resume, StreamP!Resume,
    Stream!ContextCall, StreamP!ContextCall, Stream!CallerCall, StreamP!CallerCall,
    Stream!CallerStep, StreamP!CallerStep, Stream!EventsStep, StreamP!EventsStep,
    Stream!EventsOpen, StreamP!EventsOpen, Stream!EventsReplay, StreamP!EventsReplay,
    Stream!EventsStatus, StreamP!EventsStatus, Stream!EventsClose, StreamP!EventsClose,
    Stream!DispatchTake, StreamP!DispatchTake, Stream!Tell, StreamP!Tell, Stream!Told, StreamP!Told,
    Stream!DispatchFrame, StreamP!DispatchFrame, Stream!DispatchDone, StreamP!DispatchDone,
    Stream!SamplerFrame, StreamP!SamplerFrame, Stream!Publishing, StreamP!Publishing,
    Stream!Goes, StreamP!Goes, Stream!Outside, StreamP!Outside, Stream!WorkGoto, StreamP!WorkGoto,
    Stream!CheckCancelled, StreamP!CheckCancelled, Stream!WorkContext, StreamP!WorkContext,
    Stream!WorkHub, StreamP!WorkHub, Stream!WorkDiag, StreamP!WorkDiag,
    Stream!RecordAnd, StreamP!RecordAnd, Stream!FlushLoad, StreamP!FlushLoad,
    Stream!FlushWait, StreamP!FlushWait, Stream!OnStart, StreamP!OnStart,
    Stream!SetSampler, StreamP!SetSampler, Stream!StopSampler, StreamP!StopSampler,
    Stream!BeforeSolve, StreamP!BeforeSolve, Stream!Solve, StreamP!Solve, Stream!Throw, StreamP!Throw,
    Stream!AfterSolve, StreamP!AfterSolve, Stream!Store, StreamP!Store, Stream!Conclude, StreamP!Conclude,
    Stream!Finish, StreamP!Finish, Stream!CommitCompleted, StreamP!CommitCompleted,
    Stream!CommitFailed, StreamP!CommitFailed, Stream!CommitCancelled, StreamP!CommitCancelled,
    Stream!WorkerStep, StreamP!WorkerStep, Stream!MainGoes, StreamP!MainGoes,
    Stream!AllFinished, StreamP!AllFinished, Stream!ShutDown, StreamP!ShutDown,
    Stream!ShutClear, StreamP!ShutClear, Stream!ShutMark, StreamP!ShutMark,
    Stream!ShutAbort, StreamP!ShutAbort, Stream!ShutStopPolling, StreamP!ShutStopPolling,
    Stream!ShutJoin, StreamP!ShutJoin, Stream!ShutAdvance, StreamP!ShutAdvance,
    Stream!MainStep, StreamP!MainStep, Stream!StreamStep, StreamP!StreamStep,
    Stream!DispatchStep, StreamP!DispatchStep, Stream!Next, StreamP!Next,
    Stream!WorkerPcs, StreamP!WorkerPcs, Stream!TypeOK, StreamP!TypeOK,
    Stream!IsTerminal, StreamP!IsTerminal, Stream!HistoryMatchesState, StreamP!HistoryMatchesState,
    Stream!PayloadIsVisible, StreamP!PayloadIsVisible, Stream!StreamSeesEnd, StreamP!StreamSeesEnd,
    Stream!ExitIsDelivered, StreamP!ExitIsDelivered

-----------------------------------------------------------------------------
(* The invariants of both scenes.                                           *)

SlotsInv == scene = "slots" => WebInv /\ TypeOK
StreamInv == scene = "stream" => StreamP!ServiceInv
TasksInv == scene \in {"slots", "stream"} /\ SlotsInv /\ StreamInv

LEMMA StreamAssumptions ==
  StreamP!TasksAssumption /\ StreamP!WebAssumption /\ StreamP!OneTask
<1>1. StreamP!TasksAssumption
  BY DEF StreamP!TasksAssumption, StreamP!NoTask
<1>2. StreamP!OneTask
  BY DEF StreamP!OneTask
<1>3. StreamP!WebAssumption
  BY DEF StreamP!WebAssumption, StreamP!ThePublishers, StreamP!Worker, StreamP!Sampler, StreamP!Dispatcher,
         StreamP!NoTask, Worker, Sampler, Dispatcher, NoTask
<1> QED BY <1>1, <1>2, <1>3

LEMMA TasksInvInit == ASSUME TasksInit PROVE TasksInv
<1>1. scene = "slots" => Init
  BY DEF TasksInit
<1>2. scene = "stream" => StreamP!Init
  BY StreamBridge DEF TasksInit
<1> QED BY <1>1, <1>2, InitHolds, TypeInit, StreamAssumptions, StreamP!ServiceInit
      DEF TasksInv, SlotsInv, StreamInv, TasksInit

LEMMA TasksInvStep == ASSUME TasksInv, [TasksNext]_tasksVars PROVE TasksInv'
<1>1. scene' = scene
  BY DEF TasksNext, tasksVars
<1>2. ASSUME scene = "slots" PROVE WebInv' /\ TypeOK'
  <2>1. [Next]_vars
    BY <1>2 DEF TasksNext, tasksVars
  <2> QED BY <1>2, <2>1, NextKeeps, TypeStep DEF TasksInv, SlotsInv
<1>3. ASSUME scene = "stream" PROVE StreamP!ServiceInv'
  <2>1. Stream!Next \/ UNCHANGED vars
    BY <1>3 DEF TasksNext, tasksVars
  <2>2. UNCHANGED vars => UNCHANGED StreamP!vars
    BY DEF vars, ctxtVars, hubVars, diagVars, webVars, StreamP!vars, StreamP!ctxtVars, StreamP!hubVars,
           StreamP!diagVars, StreamP!webVars
  <2>3. [StreamP!Next]_(StreamP!vars)
    BY <2>1, <2>2, StreamBridge
  <2> QED BY <1>3, <2>3, StreamAssumptions, StreamP!ServiceStep DEF TasksInv, StreamInv
<1> QED BY <1>1, <1>2, <1>3 DEF TasksInv, SlotsInv, StreamInv

LEMMA TasksFacts ==
  ASSUME TasksInv
  PROVE  TypesHold /\ TasksOverlapSafely /\ RecordsAgree /\ StreamIsTold /\ ExitArrives
<1>1. scene = "slots" => TypeOK /\ SlotIsExclusive /\ ReapIsSafe /\ HistoryMatchesState /\ PayloadIsVisible
  BY ClaimsSuffice DEF TasksInv, SlotsInv, WebInv
<1>2. scene = "stream" => /\ Stream!TypeOK /\ Stream!ExitIsDelivered /\ Stream!StreamSeesEnd
                          /\ Stream!HistoryMatchesState /\ Stream!PayloadIsVisible
  BY StreamBridge, StreamAssumptions, StreamP!ServiceFacts DEF TasksInv, StreamInv
<1> QED BY <1>1, <1>2 DEF TasksInv, TypesHold, TasksOverlapSafely, RecordsAgree, StreamIsTold, ExitArrives

\* A step keeps the verdicts of its scene.
Stands ==
  IF scene = "slots" THEN \A t \in Tasks : tstate[t] \in {"Completed", "Failed"} => tstate'[t] = tstate[t]
  ELSE /\ tstate[1] \in {"Completed", "Failed"} => tstate'[1] = tstate[1]
       /\ tstate[1] = "Cancelled" => tstate'[1] \in {"Cancelled", "Failed"}

LEMMA TasksStepStands ==
  ASSUME TasksInv, [TasksNext]_tasksVars
  PROVE  Stands
<1>1. CASE scene = "slots"
  <2>1. WebInv /\ [Next]_vars
    BY <1>1 DEF TasksInv, SlotsInv, TasksNext, tasksVars
  <2> QED BY <1>1, <2>1, StepKeepsVerdict DEF VerdictStays, Stands
<1>2. CASE scene = "stream"
  <2>1. Stream!Next \/ UNCHANGED vars
    BY <1>2 DEF TasksNext, tasksVars
  <2>2. UNCHANGED vars => UNCHANGED StreamP!vars
    BY DEF vars, ctxtVars, hubVars, diagVars, webVars, StreamP!vars, StreamP!ctxtVars, StreamP!hubVars,
           StreamP!diagVars, StreamP!webVars
  <2>3. [StreamP!Next]_(StreamP!vars) /\ StreamP!WebInv
    BY <1>2, <2>1, <2>2, StreamBridge DEF TasksInv, StreamInv, StreamP!ServiceInv
  <2>4. StreamP!VerdictStays
    BY <2>3, StreamAssumptions, StreamP!StepKeepsVerdict
  <2> QED BY <1>2, <2>4 DEF StreamP!VerdictStays, Stands
<1> QED BY <1>1, <1>2 DEF TasksInv

-----------------------------------------------------------------------------
(* The theorems.                                                            *)

\* WebSolveService: every variable of the service, its hub, its context and
\* its diagnostics has its type in both scenes.
THEOREM TypesStay == TasksSpec => []TypesHold
<1>1. TasksInv => TypesHold
  BY TasksFacts
<1> QED BY <1>1, TasksInvInit, TasksInvStep, PTL DEF TasksSpec

\* WebSolveService::reserve_task(): one task at a time has the slot, and none
\* is reaped under its worker.
THEOREM TasksOverlap == TasksSpec => []TasksOverlapSafely
<1>1. TasksInv => TasksOverlapSafely
  BY TasksFacts
<1> QED BY <1>1, TasksInvInit, TasksInvStep, PTL DEF TasksSpec

\* WebSolveService::commit_*(): history, state and payload of a task agree at
\* every moment a client may look.
THEOREM TaskRecords == TasksSpec => []RecordsAgree
<1>1. TasksInv => RecordsAgree
  BY TasksFacts
<1> QED BY <1>1, TasksInvInit, TasksInvStep, PTL DEF TasksSpec

\* DiagnosticsService::flush(): the Exit event of the one task is dispatched
\* before its observer is detached.
THEOREM ExitsArrive == TasksSpec => []ExitArrives
<1>1. TasksInv => ExitArrives
  BY TasksFacts
<1> QED BY <1>1, TasksInvInit, TasksInvStep, PTL DEF TasksSpec

\* CalculatorController::events(): the stream on a completed task has its end.
THEOREM StreamHearsEnd == TasksSpec => []StreamIsTold
<1>1. TasksInv => StreamIsTold
  BY TasksFacts
<1> QED BY <1>1, TasksInvInit, TasksInvStep, PTL DEF TasksSpec

\* WebSolveService::cancel() and commit_*(): Completed and Failed are never
\* taken back, and the one way out of Cancelled is Failed.
THEOREM TaskVerdicts == TasksSpec => VerdictIsFinal
<1>1. TasksInv /\ [TasksNext]_tasksVars => [Stands]_tasksVars
  BY TasksStepStands
<1> QED BY <1>1, TasksInvInit, TasksInvStep, PTL DEF TasksSpec, VerdictIsFinal, Stands
=============================================================================
