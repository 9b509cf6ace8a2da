------------------------------ MODULE WebSolve ------------------------------
(***************************************************************************)
(* WebSolveService: a table of solve tasks with one active slot.           *)
(*   - a Caller is a reactor thread inside a controller: submit, restore,  *)
(*     cancel, pause, resume;                                              *)
(*   - the events handler runs for every Stream, a connection;             *)
(*   - every task has a Worker thread that runs the solve, and a Sampler   *)
(*     thread that publishes its progress meanwhile;                       *)
(*   - the Dispatcher is the consumer of the DiagnosticsService, whose     *)
(*     observers publish diag frames;                                      *)
(*   - the Main thread destroys the WebModule once the server has stopped. *)
(* Task states are atomic words changed by compare-and-swap; the table has *)
(* a mutex.  A sleep is a step that takes any time.                        *)
(***************************************************************************)
EXTENDS SolveContext, SseHub, Diagnostics, FiniteSets

CONSTANTS
  Callers,  \* reactor threads that run controllers
  Kinds,    \* how a task is made: start() or restore()
  HasHub,   \* the service was given a hub
  MayThrow  \* a solve may throw where the code lets an exception out

VARIABLES
  table,    \* _tasks
  nextId,   \* _next_id
  tstate,   \* Task::state
  payload,  \* Task::result or Task::error is stored
  finished, \* Task::finished
  kind,     \* per task: the function that spawned its worker
  wpc,      \* per task: the next step of its worker
  target,   \* per task: the count its flush() waits for
  spc,      \* per task: its sampler
  cpc,      \* per caller: the next step of its call
  carg,     \* per caller: the task it is about
  rpc,      \* per stream: the next step of the events handler on its connection
  replay,   \* per stream: the frame subscribe() copied to replay
  joined,   \* per stream: the task it asked for
  mpc       \* the main thread

webVars == <<table, nextId, tstate, payload, finished, kind, wpc, target, spc,
             cpc, carg, rpc, replay, joined, mpc>>
vars == <<ctxtVars, hubVars, diagVars, webVars>>

Worker(t) == <<"worker", t>>
Sampler(t) == <<"sampler", t>>
Dispatcher == <<"dispatcher", NoTask>>
ThePublishers == {Worker(t) : t \in Tasks} \cup {Sampler(t) : t \in Tasks} \cup {Dispatcher}

ASSUME WebAssumption ==
  /\ Keys = Tasks /\ Producers = Tasks /\ Observers = Tasks
  /\ Publishers = ThePublishers
  /\ Kinds \subseteq {"start", "restore"} /\ HasHub \in BOOLEAN /\ MayThrow \in BOOLEAN

TaskStates == {"none", "Running", "Paused", "Completed", "Failed", "Cancelled"}
Busy == {"Running", "Paused"}

Init ==
  /\ ContextInit /\ HubInit /\ DiagInit
  /\ table = {} /\ nextId = 1
  /\ tstate = [t \in Tasks |-> "none"]
  /\ payload = [t \in Tasks |-> "none"]
  /\ finished = [t \in Tasks |-> FALSE]
  /\ kind \in [Tasks -> Kinds]
  /\ wpc = [t \in Tasks |-> "none"]
  /\ target = [t \in Tasks |-> 0]
  /\ spc = [t \in Tasks |-> "off"]
  /\ cpc = [c \in Callers |-> "idle"] /\ carg = [c \in Callers |-> NoTask]
  /\ rpc = [s \in Streams |-> "new"]
  /\ replay = [s \in Streams |-> NoFrame] /\ joined = [s \in Streams |-> NoTask]
  /\ mpc = "serving"

tableVars == <<table, nextId>>
taskVars == <<tstate, payload, finished>>
workVars == <<wpc, target, spc>>
callVars == <<cpc, carg>>
streamVars == <<rpc, replay, joined>>
others == <<kind, mpc>>

-----------------------------------------------------------------------------
(* The controllers.                                                        *)

Serving == mpc = "serving"
Call(c, to, t) == cpc[c] = "idle" /\ Serving /\ cpc' = [cpc EXCEPT ![c] = to] /\ carg' = [carg EXCEPT ![c] = t]
Step(c, from, to) ==
  /\ cpc[c] = from /\ cpc' = [cpc EXCEPT ![c] = to]
  /\ carg' = IF to = "idle" THEN [carg EXCEPT ![c] = NoTask] ELSE carg

\* Mutant: a paused task does not count as active.
SlotIsFree_PausedIsFree == \A t \in table : tstate[t] # "Running"

\* has_active(), and the check of reserve_task().
SlotIsFree == \A t \in table : tstate[t] \notin Busy

\* Mutant: a terminal task is reaped although its worker still runs.
Reapable_ByState == {t \in table : tstate[t] \notin Busy}

\* A worker that has set finished touches nothing any more, so the join that
\* follows returns at once.
Reapable == {t \in table : tstate[t] \notin Busy /\ finished[t]}

\* reserve_task() under _tasks_mutex; the 409 of a busy slot changes nothing.
Reserve(c) ==
  /\ nextId \in Tasks /\ SlotIsFree
  /\ Call(c, "spawn", nextId)
  /\ table' = (table \ Reapable) \cup {nextId}
  /\ nextId' = nextId + 1
  /\ tstate' = [tstate EXCEPT ![nextId] = "Running"]
  /\ UNCHANGED <<ctxtVars, hubVars, diagVars, payload, finished, workVars, streamVars, others>>

\* The worker of start(), or of restore().
Spawn(c) ==
  /\ Step(c, "spawn", "idle")
  /\ wpc' = [wpc EXCEPT ![carg[c]] = IF kind[carg[c]] = "start" THEN "gate" ELSE "peek"]
  /\ UNCHANGED <<ctxtVars, hubVars, diagVars, tableVars, taskVars, target, spc, streamVars, others>>

\* A compare-and-swap of a task that is in the table: cancel() takes Running
\* or Paused, pause() Running and resume() Paused.
Swap(c, t, from, new, to) ==
  /\ t \in table /\ tstate[t] \in from
  /\ Call(c, to, t)
  /\ tstate' = [tstate EXCEPT ![t] = new]
  /\ UNCHANGED <<ctxtVars, hubVars, diagVars, tableVars, payload, finished, workVars, streamVars, others>>

Cancel(c, t) == Swap(c, t, Busy, "Cancelled", "abort")
Pause(c, t) == Swap(c, t, {"Running"}, "Paused", "freeze")
Resume(c, t) == Swap(c, t, {"Paused"}, "Running", "thaw")

\* A call into the context, on whatever executor it holds by then.
ContextCall(c, from, to, call) ==
  /\ Step(c, from, to) /\ call
  /\ UNCHANGED <<hubVars, diagVars, tableVars, taskVars, workVars, streamVars, others>>

CallerCall(c) ==
  \/ Reserve(c)
  \/ \E t \in Tasks : Cancel(c, t) \/ Pause(c, t) \/ Resume(c, t)

\* cancel() and pause() wait 20 ms and call the context a second time.
CallerStep(c) ==
  \/ Spawn(c)
  \/ ContextCall(c, "abort", "again", Abort)
  \/ ContextCall(c, "again", "idle", Abort)
  \/ ContextCall(c, "freeze", "refreeze", PauseSolve)
  \/ ContextCall(c, "refreeze", "idle", PauseSolve)
  \/ ContextCall(c, "thaw", "idle", ResumeSolve)

-----------------------------------------------------------------------------
(* The events handler of one connection.                                   *)

EventsStep(s, from, to) ==
  /\ rpc[s] = from /\ Serving
  /\ rpc' = [rpc EXCEPT ![s] = to]
  /\ UNCHANGED <<ctxtVars, diagVars, tableVars, taskVars, workVars, callVars, others>>

\* 404 for an unknown task, then subscribe(id, fn, true).
EventsOpen(s) ==
  \E t \in table :
    /\ EventsStep(s, "new", "replay")
    /\ Subscribe(s, t)
    /\ replay' = [replay EXCEPT ![s] = lastFrame[t]] /\ joined' = [joined EXCEPT ![s] = t]

EventsReplay(s) ==
  /\ EventsStep(s, "replay", "status") /\ Replay(s, replay[s])
  /\ UNCHANGED <<replay, joined>>

\* The handler posts the progress that status() reports as one more frame; for
\* a task reaped meanwhile status() throws, and nobody will unsubscribe.
EventsStatus(s) ==
  /\ EventsStep(s, "status", IF joined[s] \in table THEN "open" ELSE "orphan")
  /\ Replay(s, IF joined[s] \in table THEN "progress" ELSE NoFrame)
  /\ UNCHANGED <<replay, joined>>

\* The client goes away: on_close unsubscribes.
EventsClose(s) ==
  /\ EventsStep(s, "open", "closed") /\ Unsubscribe(s, joined[s])
  /\ UNCHANGED <<replay, joined>>

-----------------------------------------------------------------------------
(* The dispatcher of diagnostics events, and the samplers.                 *)

DispatchTake ==
  /\ TakeEvent
  /\ UNCHANGED <<ctxtVars, hubVars, webVars>>

\* publish() by p, and its return.
Tell(p, k, frame) == IF HasHub THEN PublishCopy(p, k, frame) ELSE UNCHANGED hubVars
Told(t) == sending[Worker(t)] = Silent

\* The observer of task o publishes the event as a diag frame of its task,
\* whatever executor it came from: accept_task_id() accepts all.
DispatchFrame ==
  \E o \in current :
    /\ Notified(o) /\ Tell(Dispatcher, o, "diag")
    /\ UNCHANGED <<ctxtVars, webVars>>

DispatchDone ==
  /\ DoneEvent /\ sending[Dispatcher] = Silent
  /\ UNCHANGED <<ctxtVars, hubVars, webVars>>

\* One progress frame per solve stands for the frames of the sampler.
SamplerFrame(t) ==
  /\ spc[t] = "on" /\ spc' = [spc EXCEPT ![t] = "sent"]
  /\ PublishCopy(Sampler(t), t, "progress")
  /\ UNCHANGED <<ctxtVars, diagVars, tableVars, taskVars, wpc, target, callVars, streamVars, others>>

Publishing ==
  /\ \E p \in Publishers : PublishSend(p)
  /\ UNCHANGED <<ctxtVars, diagVars, webVars>>

-----------------------------------------------------------------------------
(* The worker of a task.                                                   *)

Goes(t, from, to) == wpc[t] = from /\ wpc' = [wpc EXCEPT ![t] = to]
Outside == <<tableVars, callVars, streamVars, others>>

\* A step that changes nothing but the worker's place.
WorkGoto(t, from, to) ==
  /\ Goes(t, from, to)
  /\ UNCHANGED <<ctxtVars, hubVars, diagVars, taskVars, target, spc, Outside>>

\* A worker that finds its task cancelled before the solve.
CheckCancelled(t, from, to) == WorkGoto(t, from, IF tstate[t] = "Cancelled" THEN "bail" ELSE to)

\* A step that only calls the context, the hub or the dispatcher's service.
WorkContext(t, from, to, call) ==
  /\ Goes(t, from, to) /\ call
  /\ UNCHANGED <<hubVars, diagVars, taskVars, target, spc, Outside>>
WorkHub(t, from, to, call) ==
  /\ Goes(t, from, to) /\ call
  /\ UNCHANGED <<ctxtVars, diagVars, taskVars, target, spc, Outside>>
WorkDiag(t, from, to, call) ==
  /\ Goes(t, from, to) /\ call
  /\ UNCHANGED <<ctxtVars, hubVars, taskVars, target, spc, Outside>>

\* An event of the history belongs to one task, whose worker alone records
\* it: recording is one step with the call of the hub that comes after it.
RecordAnd(t, from, to, type, call) ==
  /\ Goes(t, from, to) /\ Record(t, type) /\ call
  /\ UNCHANGED <<diagVars, taskVars, target, spc, Outside>>

\* flush(): read the count, then wait for it.
FlushLoad(t, from, to) ==
  /\ Goes(t, from, to)
  /\ target' = [target EXCEPT ![t] = enqueued]
  /\ UNCHANGED <<ctxtVars, hubVars, diagVars, taskVars, spc, Outside>>
FlushWait(t, from, to) == Flushed(target[t]) /\ WorkGoto(t, from, to)

\* solve() of the context clears the handle first and last, a restore does not.
OnStart(t, place, otherwise) == IF kind[t] = "start" THEN place ELSE otherwise

SetSampler(t, from, to, value) ==
  /\ Goes(t, from, to)
  /\ spc' = [spc EXCEPT ![t] = value]
  /\ UNCHANGED <<ctxtVars, hubVars, diagVars, taskVars, target, Outside>>

\* SamplerStop joins: no frame of the sampler is under way afterwards.
StopSampler(t, from, to) == sending[Sampler(t)] = Silent /\ SetSampler(t, from, to, "off")

\* From the gate to the solve; the checkpoint is read in the step that looks
\* for the cancel.  publish() returns when the last subscriber has
\* been called; without a hub there is no sampler.
BeforeSolve(t) ==
  \/ CheckCancelled(t, "gate", "snapshot")
  \/ CheckCancelled(t, "snapshot", "submit")
  \/ CheckCancelled(t, "peek", "submit")
  \/ RecordAnd(t, "submit", "sample", "Submitted", Tell(Worker(t), t, "progress"))
  \/ Told(t) /\ SetSampler(t, "sample", "flush", IF HasHub THEN "on" ELSE "off")
  \/ FlushLoad(t, "flush", "attach")
  \/ Flushed(target[t]) /\ WorkDiag(t, "attach", OnStart(t, "clear", "create"), Attach(t))

\* solve() of the context and the pipeline below it, or solve_from_checkpoint().
Solve(t) ==
  \/ WorkContext(t, "clear", "create", SetHandle(NoTask))
  \/ WorkContext(t, "create", "start", PublishExecutor(t))
  \/ kind[t] = "start" /\ WorkGoto(t, "start", "unguard")
  \/ WorkContext(t, "start", "run", StartExecutor(t))
  \/ WorkContext(t, "run", "exit", EndExecutor(t))
  \/ WorkDiag(t, "exit", "count", PushEvent(t))
  \/ WorkDiag(t, "count", "unguard", CountEvent)
  \/ WorkContext(t, "unguard", OnStart(t, "recall", "stop"), SetHandle(NoTask))
  \/ WorkContext(t, "recall", "stop", SetHandle(NoTask))

\* What throws: building the snapshot, reading the checkpoint, stage_apply() and
\* an unknown algorithm or mode, start() and format().  The guard clears the
\* handle of an executor that was published.
Throw(t) ==
  /\ MayThrow
  /\ \/ \E from \in {"snapshot", "peek", "create", "store"} : WorkGoto(t, from, "leave")
     \/ WorkGoto(t, "start", "unwind")

\* The observer is detached after a flush, and the result is formatted.
AfterSolve(t) ==
  \/ StopSampler(t, "stop", "drain")
  \/ FlushLoad(t, "drain", "draining")
  \/ FlushWait(t, "draining", "detach")
  \/ WorkDiag(t, "detach", "store", Detach(t))

\* Task::result or Task::error.
Store(t, from, to, what) ==
  /\ Goes(t, from, to)
  /\ payload' = [payload EXCEPT ![t] = what]
  /\ UNCHANGED <<ctxtVars, hubVars, diagVars, tstate, finished, target, spc, Outside>>

Conclude(t, from, to, verdict) ==
  /\ Goes(t, from, to)
  /\ tstate' = [tstate EXCEPT ![t] = verdict]
  /\ UNCHANGED <<ctxtVars, hubVars, diagVars, payload, finished, target, spc, Outside>>

\* DoneGuard: finished is the last thing a worker does.
Finish(t) ==
  /\ Goes(t, "finish", "done")
  /\ finished' = [finished EXCEPT ![t] = TRUE]
  /\ UNCHANGED <<ctxtVars, hubVars, diagVars, tstate, payload, target, spc, Outside>>

\* Mutant: the return after commit_cancelled() is missing.
CommitCompleted_FallsThrough(t) ==
  \/ Store(t, "store", "cas", "result")
  \/ tstate[t] = "Cancelled" /\ RecordAnd(t, "cas", "record", "Cancelled", UnsubscribeAll(t))
  \/ tstate[t] # "Cancelled" /\ Conclude(t, "cas", "record", "Completed")
  \/ RecordAnd(t, "record", "hush", "Completed", Tell(Worker(t), t, "completed"))

\* Mutant: the verdict is committed without looking for a cancel.
CommitCompleted_Blind(t) ==
  \/ Store(t, "store", "cas", "result")
  \/ Conclude(t, "cas", "record", "Completed")
  \/ RecordAnd(t, "record", "hush", "Completed", Tell(Worker(t), t, "completed"))

\* Mutant: the state is committed before the result is stored.
CommitCompleted_StateFirst(t) ==
  \/ tstate[t] = "Cancelled" /\ WorkGoto(t, "store", "bail")
  \/ tstate[t] # "Cancelled" /\ Conclude(t, "store", "cas", "Completed")
  \/ Store(t, "cas", "record", "result")
  \/ RecordAnd(t, "record", "hush", "Completed", Tell(Worker(t), t, "completed"))

\* Mutant: the streams are dropped before the terminal frame is published.
CommitCompleted_HushFirst(t) ==
  \/ Store(t, "store", "cas", "result")
  \/ tstate[t] = "Cancelled" /\ WorkGoto(t, "cas", "bail")
  \/ tstate[t] # "Cancelled" /\ Conclude(t, "cas", "record", "Completed")
  \/ WorkHub(t, "record", "tell", UnsubscribeAll(t))
  \/ RecordAnd(t, "tell", "hush", "Completed", Tell(Worker(t), t, "completed"))

\* commit_completed(): a cancel that came before the exchange wins, a pause
\* loses.
CommitCompleted(t) ==
  \/ Store(t, "store", "cas", "result")
  \/ tstate[t] = "Cancelled" /\ WorkGoto(t, "cas", "bail")
  \/ tstate[t] # "Cancelled" /\ Conclude(t, "cas", "record", "Completed")
  \/ RecordAnd(t, "record", "hush", "Completed", Tell(Worker(t), t, "completed"))

\* The catch block after the unwinding: the sampler is joined, the observer
\* stays attached, and Failed is stored whatever the state was.
CommitFailed(t) ==
  \/ WorkContext(t, "unwind", "leave", SetHandle(NoTask))
  \/ StopSampler(t, "leave", "blame")
  \/ Store(t, "blame", "fail", "error")
  \/ Conclude(t, "fail", "report", "Failed")
  \/ RecordAnd(t, "report", "hush", "Failed", Tell(Worker(t), t, "failed"))

\* commit_cancelled(): no frame is published.
CommitCancelled(t) == RecordAnd(t, "bail", "finish", "Cancelled", UnsubscribeAll(t))

WorkerStep(t) ==
  \/ BeforeSolve(t) \/ Solve(t) \/ Throw(t) \/ AfterSolve(t)
  \/ CommitCompleted(t) \/ CommitFailed(t) \/ CommitCancelled(t)
  \/ Told(t) /\ WorkHub(t, "hush", "finish", UnsubscribeAll(t))
  \/ Finish(t)

-----------------------------------------------------------------------------
(* The end of the module, once the server has stopped and no controller    *)
(* runs any more.                                                          *)

MainGoes(from, to) == mpc = from /\ mpc' = to
AllFinished == \A t \in table : finished[t]

ShutDown ==
  /\ MainGoes("serving", "clear")
  /\ \A c \in Callers : cpc[c] = "idle"
  /\ \A s \in Streams : rpc[s] \in {"new", "open", "orphan", "closed"}
  /\ UNCHANGED <<ctxtVars, hubVars, diagVars, tableVars, taskVars, workVars, kind, callVars, streamVars>>

\* ~WebModule() clears the hub before ~WebSolveService() starts.
ShutClear ==
  /\ MainGoes("clear", "mark") /\ Clear
  /\ UNCHANGED <<ctxtVars, diagVars, tableVars, taskVars, workVars, kind, callVars, streamVars>>

ShutMark ==
  /\ MainGoes("mark", "abort")
  /\ tstate' = [t \in Tasks |-> IF t \in table /\ tstate[t] \in Busy THEN "Cancelled" ELSE tstate[t]]
  /\ UNCHANGED <<ctxtVars, hubVars, diagVars, tableVars, payload, finished, workVars, kind, callVars, streamVars>>

\* The first abort, and the next ones until every worker has finished ...
ShutAbort ==
  /\ mpc = "abort" \/ (mpc = "poll" /\ ~AllFinished)
  /\ mpc' = "poll" /\ Abort
  /\ UNCHANGED <<hubVars, diagVars, tableVars, taskVars, workVars, kind, callVars, streamVars>>

\* ... or the deadline has passed.
ShutStopPolling ==
  /\ MainGoes("poll", "join")
  /\ UNCHANGED <<ctxtVars, hubVars, diagVars, tableVars, taskVars, workVars, kind, callVars, streamVars>>

ShutJoin ==
  /\ MainGoes("join", "gone") /\ AllFinished
  /\ UNCHANGED <<ctxtVars, hubVars, diagVars, tableVars, taskVars, workVars, kind, callVars, streamVars>>

\* What the destructor does by itself, one after the other.
ShutAdvance == ShutClear \/ ShutMark \/ ShutStopPolling \/ ShutJoin
MainStep == ShutDown \/ ShutAbort \/ ShutAdvance

-----------------------------------------------------------------------------

StreamStep(s) == EventsOpen(s) \/ EventsReplay(s) \/ EventsStatus(s) \/ EventsClose(s)
DispatchStep == DispatchTake \/ DispatchFrame \/ DispatchDone

Next ==
  \/ \E c \in Callers : CallerCall(c) \/ CallerStep(c)
  \/ \E s \in Streams : StreamStep(s)
  \/ \E t \in Tasks : WorkerStep(t) \/ SamplerFrame(t)
  \/ Publishing \/ DispatchStep \/ MainStep

Spec == Init /\ [][Next]_vars

\* Threads run; a solve that is not paused ends.  Nothing makes a client call.
\* The first abort comes before the deadline, but nothing else is promised of
\* the polling, which the deadline may end at any time.
Fairness ==
  /\ \A t \in Tasks : WF_vars(WorkerStep(t))
  /\ WF_vars(Publishing) /\ WF_vars(DispatchStep)
  /\ WF_vars(ShutAdvance) /\ WF_vars(ShutAbort)

FairSpec == Spec /\ Fairness

-----------------------------------------------------------------------------

WorkerPcs ==
  {"none", "gate", "snapshot", "peek", "submit", "sample", "flush",
   "attach", "clear", "create", "start", "run", "exit", "count", "unguard", "recall",
   "stop", "drain", "draining", "detach", "store", "cas", "record", "tell",
   "hush", "unwind", "leave", "blame", "fail", "report", "bail", "finish", "done"}

TypeOK ==
  /\ ContextTypeOK /\ HubTypeOK /\ DiagTypeOK
  /\ table \subseteq Tasks /\ nextId \in Nat \ {0}
  /\ tstate \in [Tasks -> TaskStates]
  /\ payload \in [Tasks -> {"none", "result", "error"}]
  /\ finished \in [Tasks -> BOOLEAN]
  /\ kind \in [Tasks -> Kinds]
  /\ wpc \in [Tasks -> WorkerPcs] /\ target \in [Tasks -> Nat]
  /\ spc \in [Tasks -> {"off", "on", "sent"}]
  /\ cpc \in [Callers -> {"idle", "spawn", "abort", "again", "freeze", "refreeze", "thaw"}]
  /\ carg \in [Callers -> Tasks \cup {NoTask}]
  /\ rpc \in [Streams -> {"new", "replay", "status", "open", "orphan", "closed"}]
  /\ replay \in [Streams -> Frames \cup {NoFrame}] /\ joined \in [Streams -> Tasks \cup {NoTask}]
  /\ mpc \in {"serving", "clear", "mark", "abort", "poll", "join", "gone"}

\* At most one task holds the slot (start() and restore() answer 409).
SlotIsExclusive == \A t, u \in Tasks : {tstate[t], tstate[u]} \subseteq Busy => t = u

\* A task leaves the table only when its worker touches nothing any more, so
\* that dropping the last reference never destroys a thread that runs.
ReapIsSafe == \A t \in Tasks : t < nextId /\ t \notin table => wpc[t] = "done"

\* The history of a task that is over: its terminal event, the last one and
\* the only one, is the state its clients see.
IsTerminal(type) == type # "Submitted"
HistoryMatchesState ==
  \A t \in Tasks : finished[t] =>
    /\ \A i \in DOMAIN history[t] : IsTerminal(history[t][i]) <=> i = Len(history[t])
    /\ history[t] # <<>> /\ history[t][Len(history[t])] = tstate[t]

\* Whoever sees Completed or Failed finds the result or the error.
PayloadIsVisible ==
  \A t \in Tasks :
    /\ tstate[t] = "Completed" => payload[t] = "result"
    /\ tstate[t] = "Failed" => payload[t] = "error"

\* A stream on a completed task has been given its terminal frame, live or by
\* replay, whenever it was opened.
StreamSeesEnd ==
  \A s \in Streams :
    rpc[s] = "open" /\ mpc = "serving" /\ tstate[joined[s]] = "Completed" /\ finished[joined[s]]
      => stream[s] \in {"ended", "overrun"}

\* flush() has emptied the queue of the events of the solve before its
\* observer is detached: the Exit event is never lost.
ExitIsDelivered ==
  \A t \in Tasks :
    wpc[t] = "detach" => t \notin current /\ \A i \in DOMAIN queue : queue[i] # t

\* The terminal frame of a task stays for the clients that come late.
TerminalFrameStays ==
  \A t \in Tasks :
    finished[t] /\ tstate[t] \in {"Completed", "Failed"} /\ mpc = "serving" => lastFrame[t] \in Terminals

\* Only the executor of a task that was cancelled, or that failed, is told to
\* cancel.
AbortHitsOwnTask == \A t \in Tasks : poison[t] => tstate[t] \in {"Cancelled", "Failed"}

\* When the destructor joins, no worker is frozen that nobody told to cancel.
JoinIsBounded == mpc = "join" => \A t \in Tasks : exec[t] = "Paused" => poison[t]
=============================================================================
