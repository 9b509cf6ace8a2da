------------------------------ MODULE Executor ------------------------------
(***************************************************************************)
(* AlgorithmExecutor and its ExecutionContext: one run engine driven by    *)
(*   - the Owner, the thread that start()s, wait()s, reset()s or destroys  *)
(*     the executor (SolvePipeline, or the serve loop of besq-worker);     *)
(*   - Clients, control threads that pause(), resume(), cancel() and       *)
(*     serialize_state() through a shared handle while the Owner waits;    *)
(*   - the Worker, the std::thread that runs IAlgorithm::execute();        *)
(*   - Helpers, the pool threads on which bb_dp and dp_merge run a layer   *)
(*     of their search, with the same pause points;                        *)
(*   - the Watcher, the thread that turns max_search_time into a cancel(). *)
(*                                                                         *)
(* One action is one access to shared memory (an atomic load, store,       *)
(* exchange or CAS, a critical section, a notify), so every interleaving   *)
(* of the four calls with the worker is a behaviour.  The load/CAS loop of *)
(* _set_state is one atomic read-modify-write: a failed CAS only retries.  *)
(* A condition variable is the set of the threads enrolled on it; a thread *)
(* tests its predicate and enrols in two steps, and holds the mutex of the *)
(* variable in between.  Notifications take no mutex unless the code does. *)
(***************************************************************************)
EXTENDS Naturals

CONSTANTS
  Clients,     \* control threads
  Helpers,     \* pool threads that execute() uses; {} when it searches alone
  Ops,         \* the control calls they make
  MaxWork,     \* pause points of one execute()
  MaxRuns,     \* runs of this executor; reset() separates them
  HasTimeout,  \* config.search.max_search_time > 0
  MayFail,     \* execute() may throw
  ResetAlone   \* reset() only while no control call is in flight

Owner == "owner"
Worker == "worker"
Watcher == "watcher"
Searchers == {Worker} \cup Helpers
Threads == Clients \cup Searchers \cup {Owner, Watcher}

ASSUME ExecutorAssumption ==
  /\ Clients \cap {Owner, Worker, Watcher} = {}
  /\ Helpers \cap (Clients \cup {Owner, Worker, Watcher}) = {}
  /\ Ops \subseteq {"pause", "resume", "cancel", "serialize"}
  /\ MaxWork \in Nat /\ MaxRuns \in Nat
  /\ HasTimeout \in BOOLEAN /\ MayFail \in BOOLEAN /\ ResetAlone \in BOOLEAN

VARIABLES
  state,         \* _state
  cancelPending, \* _cancel_pending
  ctx,           \* _ctx points to an ExecutionContext
  ctxCancelled,  \* _ctx->_cancelled
  ctxPaused,     \* _ctx->_paused
  pausedAck,     \* _ctx->_paused_ack
  sleeping,      \* the searchers enrolled on _pause_cv
  ackWaiters,    \* control threads enrolled on _pause_ack_cv
  alive,         \* *_timeout_alive
  exitStatus,    \* status of the Exit event; NoExit until _finalize() ran
  exitValid,     \* output().is_valid inside that event
  result,        \* what wait() or wait_for() returns
  saved,         \* per thread: the state its cancel() exchanged away
  work,          \* pause points the algorithm still has
  runs,          \* runs started
  pc             \* per thread: the next access of its current call

ctxVars == <<ctx, ctxCancelled, ctxPaused, pausedAck, sleeping>>
exitVars == <<exitStatus, exitValid, result>>
vars == <<state, cancelPending, ctxVars, ackWaiters, alive, exitVars, saved, work, runs, pc>>

States == {"Idle", "Running", "Pausing", "Paused", "Completed", "Failed", "Cancelled"}
Terminal == {"Completed", "Failed", "Cancelled"}
Active == {"Running", "Pausing", "Paused"}
NoExit == "none"

CancelPcs == {"fire", "c_restore", "c_pend", "c_poison", "c_unpause", "c_wake", "c_notify"}
PausePcs == {"p_notify", "p_flag", "p_check", "p_block", "p_load", "p_flip", "p_notify2"}
ResumePcs == {"r_notify", "r_unpause", "r_wake"}
SerializePcs == {"s_check", "s_block", "s_load", "s_snap"}
ClientPcs == {"idle"} \cup CancelPcs \cup PausePcs \cup ResumePcs \cup SerializePcs
StartPcs == {"ctx", "pending", "watch", "spawn"}
WaitPcs == {"join", "stop", "joinw", "exit", "payload", "ret"}
ResetPcs == {"reset", "rearm", "clear"}
DestroyPcs == {"d_join", "d_stop", "d_joinw", "gone"}
OwnerPcs == {"new", "threw", "waited"} \cup StartPcs \cup WaitPcs \cup ResetPcs
              \cup CancelPcs \cup DestroyPcs
SearchPcs == {"work", "poll", "ack", "test", "block", "asleep", "unack", "check"}
WorkerPcs == {"off", "fork", "finish", "fail", "notify", "done"} \cup SearchPcs
HelperPcs == {"off"} \cup SearchPcs
WatcherPcs == {"off", "armed"} \cup CancelPcs

Init ==
  /\ state = "Idle" /\ cancelPending = FALSE
  /\ ctx = FALSE /\ ctxCancelled = FALSE /\ ctxPaused = FALSE
  /\ pausedAck = FALSE /\ sleeping = {}
  /\ ackWaiters = {} /\ alive = FALSE
  /\ exitStatus = NoExit /\ exitValid = FALSE /\ result = NoExit
  /\ saved = [t \in Threads |-> "Idle"]
  /\ work = 0 /\ runs = 0
  /\ pc = [t \in Threads |-> IF t = Owner THEN "new" ELSE IF t \in Clients THEN "idle" ELSE "off"]

\* Thread t moves from one access of its call to the next.
Goto(t, from, to) == pc[t] = from /\ pc' = [pc EXCEPT ![t] = to]

\* Mutant: the guard against leaving a terminal state is gone.
CanSet_AnyState(new) == state # new

\* _set_state refuses a transition out of a terminal state and a no-op.
CanSet(new) == state \notin Terminal /\ state # new

\* A critical section of _pause_ack_mtx is open only between a client's test
\* of its predicate and its enrolment.
AckMtxFree == \A c \in Clients : pc[c] \notin {"p_block", "s_block"}

\* _pause_mtx is held from the acknowledgement to the wait, and after it
\* until the acknowledgement is withdrawn.
PauseMtxFree(s) == \A u \in Searchers \ {s} : pc[u] \notin {"test", "block", "unack"}

\* Where a thread continues when cancel() returns: a client is idle, the
\* watcher ends, the owner goes on with its destructor.
AfterCancel(t) == IF t = Owner THEN "d_join" ELSE IF t = Watcher THEN "off" ELSE "idle"

\* A client holds the handle until the destructor begins; the serve loop of
\* besq-worker may reset() with a control call in flight, SolvePipeline not.
MayCall(c, op) ==
  /\ op \in Ops /\ pc[c] = "idle"
  /\ pc[Owner] \notin CancelPcs \cup DestroyPcs
  /\ ResetAlone => pc[Owner] \notin ResetPcs

-----------------------------------------------------------------------------
(* cancel(), run by a client, by the watcher and by the destructor.        *)

\* Mutant: a state that already reads Cancelled is put back as well.
CancelExchange_PutsBackAll(t) ==
  /\ pc[t] = "fire" \/ (t \in Clients /\ MayCall(t, "cancel"))
  /\ state' = "Cancelled"
  /\ saved' = IF state \in Active THEN saved ELSE [saved EXCEPT ![t] = state]
  /\ pc' = [pc EXCEPT ![t] = IF state \notin Active THEN "c_restore"
                            ELSE IF ctx THEN "c_poison" ELSE "c_notify"]
  /\ UNCHANGED <<cancelPending, ctxVars, ackWaiters, alive, exitVars, work, runs>>

\* The unconditional exchange.  Every verdict and Idle is put back by the
\* next step; until then the state reads Cancelled.
CancelExchange(t) ==
  /\ pc[t] = "fire" \/ (t \in Clients /\ MayCall(t, "cancel"))
  /\ state' = "Cancelled"
  /\ \/ /\ state \in {"Completed", "Failed", "Idle"}
        /\ saved' = [saved EXCEPT ![t] = state]
        /\ pc' = [pc EXCEPT ![t] = "c_restore"]
     \/ /\ state \in Active \cup {"Cancelled"}
        /\ saved' = saved
        /\ pc' = [pc EXCEPT ![t] = IF state \in Active /\ ctx THEN "c_poison" ELSE "c_notify"]
  /\ UNCHANGED <<cancelPending, ctxVars, ackWaiters, alive, exitVars, work, runs>>

CancelRestore(t) ==
  /\ Goto(t, "c_restore", IF saved[t] = "Idle" THEN "c_pend" ELSE AfterCancel(t))
  /\ state' = saved[t]
  /\ saved' = [saved EXCEPT ![t] = "Idle"]
  /\ UNCHANGED <<cancelPending, ctxVars, ackWaiters, alive, exitVars, work, runs>>

CancelPend(t) ==
  /\ Goto(t, "c_pend", AfterCancel(t))
  /\ cancelPending' = TRUE
  /\ UNCHANGED <<state, ctxVars, ackWaiters, alive, exitVars, saved, work, runs>>

CancelPoison(t) ==
  /\ Goto(t, "c_poison", "c_unpause")
  /\ ctxCancelled' = TRUE
  /\ UNCHANGED <<state, cancelPending, ctx, ctxPaused, pausedAck, sleeping, ackWaiters,
                 alive, exitVars, saved, work, runs>>

\* ExecutionContext::resume(): the store, then the notify; no mutex.
Unpause(t, from, to) ==
  /\ Goto(t, from, to)
  /\ ctxPaused' = FALSE
  /\ UNCHANGED <<state, cancelPending, ctx, ctxCancelled, pausedAck, sleeping, ackWaiters,
                 alive, exitVars, saved, work, runs>>

WakeWorker(t, from, to) ==
  /\ Goto(t, from, to)
  /\ sleeping' = {}
  /\ UNCHANGED <<state, cancelPending, ctx, ctxCancelled, ctxPaused, pausedAck, ackWaiters,
                 alive, exitVars, saved, work, runs>>

\* notify_pause_ack(): wakes the enrolled control threads; no mutex.
NotifyAck(t, from, to) ==
  /\ Goto(t, from, to)
  /\ ackWaiters' = {}
  /\ UNCHANGED <<state, cancelPending, ctxVars, alive, exitVars, saved, work, runs>>

CancelStep(t) ==
  \/ CancelRestore(t)
  \/ CancelPend(t)
  \/ CancelPoison(t)
  \/ Unpause(t, "c_unpause", "c_wake")
  \/ WakeWorker(t, "c_wake", "c_notify")
  \/ NotifyAck(t, "c_notify", AfterCancel(t))

-----------------------------------------------------------------------------
(* pause(), resume() and serialize_state(), run by clients only.           *)

\* Only a Running executor can be paused: a strong CAS, not _set_state.
PauseCas(c) ==
  /\ MayCall(c, "pause") /\ ctx /\ state = "Running"
  /\ state' = "Pausing"
  /\ pc' = [pc EXCEPT ![c] = "p_notify"]
  /\ UNCHANGED <<cancelPending, ctxVars, ackWaiters, alive, exitVars, saved, work, runs>>

PauseFlag(c) ==
  /\ Goto(c, "p_flag", "p_check")
  /\ ctxPaused' = TRUE
  /\ UNCHANGED <<state, cancelPending, ctx, ctxCancelled, pausedAck, sleeping, ackWaiters,
                 alive, exitVars, saved, work, runs>>

\* Mutant: the wait is skipped, as pause() did before it became synchronous.
AckTest_NoWait(c, from, pred, block, go) ==
  /\ c \notin ackWaiters /\ AckMtxFree
  /\ Goto(c, from, go)
  /\ UNCHANGED <<state, cancelPending, ctxVars, ackWaiters, alive, exitVars, saved, work, runs>>

\* One evaluation of a wait predicate under _pause_ack_mtx, by a thread that
\* is not enrolled; when it fails the thread keeps the mutex until it enrols.
AckTest(c, from, pred, block, go) ==
  /\ c \notin ackWaiters /\ AckMtxFree
  /\ Goto(c, from, IF pred THEN go ELSE block)
  /\ UNCHANGED <<state, cancelPending, ctxVars, ackWaiters, alive, exitVars, saved, work, runs>>

AckEnrol(c, from, to) ==
  /\ Goto(c, from, to)
  /\ ackWaiters' = ackWaiters \cup {c}
  /\ UNCHANGED <<state, cancelPending, ctxVars, alive, exitVars, saved, work, runs>>

\* The load of `_state == Pausing` and the _set_state(Paused) it guards are
\* two accesses: a resume() between them leaves a Paused running algorithm.
PauseLoad(c) ==
  /\ Goto(c, "p_load", IF state = "Pausing" THEN "p_flip" ELSE "idle")
  /\ UNCHANGED <<state, cancelPending, ctxVars, ackWaiters, alive, exitVars, saved, work, runs>>

PauseFlip(c) ==
  /\ Goto(c, "p_flip", IF CanSet("Paused") THEN "p_notify2" ELSE "idle")
  /\ state' = IF CanSet("Paused") THEN "Paused" ELSE state
  /\ UNCHANGED <<cancelPending, ctxVars, ackWaiters, alive, exitVars, saved, work, runs>>

PauseStep(c) ==
  \/ NotifyAck(c, "p_notify", "p_flag")
  \/ PauseFlag(c)
  \/ AckTest(c, "p_check", pausedAck \/ ctxCancelled \/ state # "Pausing", "p_block", "p_load")
  \/ AckEnrol(c, "p_block", "p_check")
  \/ PauseLoad(c)
  \/ PauseFlip(c)
  \/ NotifyAck(c, "p_notify2", "idle")

ResumeSet(c) ==
  /\ MayCall(c, "resume") /\ ctx /\ CanSet("Running")
  /\ state' = "Running"
  /\ pc' = [pc EXCEPT ![c] = "r_notify"]
  /\ UNCHANGED <<cancelPending, ctxVars, ackWaiters, alive, exitVars, saved, work, runs>>

ResumeStep(c) ==
  \/ NotifyAck(c, "r_notify", "r_unpause")
  \/ Unpause(c, "r_unpause", "r_wake")
  \/ WakeWorker(c, "r_wake", "idle")

SerializeBegin(c) ==
  /\ MayCall(c, "serialize") /\ state = "Paused"
  /\ pc' = [pc EXCEPT ![c] = "s_check"]
  /\ UNCHANGED <<state, cancelPending, ctxVars, ackWaiters, alive, exitVars, saved, work, runs>>

SerializeLoad(c) ==
  /\ Goto(c, "s_load", IF state = "Paused" THEN "s_snap" ELSE "idle")
  /\ UNCHANGED <<state, cancelPending, ctxVars, ackWaiters, alive, exitVars, saved, work, runs>>

\* IAlgorithmSerializer::serialize() reads the algorithm's search state while
\* the thread stays at s_snap; no lock is held.
SerializeSnap(c) ==
  /\ Goto(c, "s_snap", "idle")
  /\ UNCHANGED <<state, cancelPending, ctxVars, ackWaiters, alive, exitVars, saved, work, runs>>

SerializeStep(c) ==
  \/ AckTest(c, "s_check", pausedAck \/ state # "Paused", "s_block", "s_load")
  \/ AckEnrol(c, "s_block", "s_check")
  \/ SerializeLoad(c)
  \/ SerializeSnap(c)

\* The standard lets a condition variable wake without a notification.
SpuriousWake ==
  /\ \/ \E s \in sleeping : sleeping' = sleeping \ {s} /\ UNCHANGED ackWaiters
     \/ \E c \in ackWaiters : ackWaiters' = ackWaiters \ {c} /\ UNCHANGED sleeping
  /\ UNCHANGED <<state, cancelPending, ctx, ctxCancelled, ctxPaused, pausedAck,
                 alive, exitVars, saved, work, runs, pc>>

-----------------------------------------------------------------------------
(* The searchers: execute() and ExecutionContext::wait_if_paused().        *)

SearchGoto(s, from, to) ==
  /\ Goto(s, from, to)
  /\ UNCHANGED <<state, cancelPending, ctxVars, ackWaiters, alive, exitVars, saved, work, runs>>

\* The end of a search: execute() returns, a helper runs out of its chunk.
SearchEnd(s) == IF s = Worker THEN "finish" ELSE "off"

\* One stretch of the search, up to the next pause point.  While a searcher
\* is at "work" it mutates the state a checkpoint holds.
SearchOn(s) ==
  /\ work > 0 /\ work' = work - 1
  /\ Goto(s, "work", "poll")
  /\ UNCHANGED <<state, cancelPending, ctxVars, ackWaiters, alive, exitVars, saved, runs>>

SearchPoll(s) == SearchGoto(s, "poll", IF ctxPaused THEN "ack" ELSE "check")

\* Mutant: the flag is set without the notify.
SearchAck_Silent(s, from, to, value) ==
  /\ AckMtxFree /\ PauseMtxFree(s)
  /\ Goto(s, from, to)
  /\ pausedAck' = value
  /\ UNCHANGED <<state, cancelPending, ctx, ctxCancelled, ctxPaused, sleeping, ackWaiters,
                 alive, exitVars, saved, work, runs>>

\* Set or clear _paused_ack and notify, all under _pause_ack_mtx.
SearchAck(s, from, to, value) ==
  /\ AckMtxFree /\ PauseMtxFree(s)
  /\ Goto(s, from, to)
  /\ pausedAck' = value
  /\ ackWaiters' = {}
  /\ UNCHANGED <<state, cancelPending, ctx, ctxCancelled, ctxPaused, sleeping,
                 alive, exitVars, saved, work, runs>>

\* The predicate of _pause_cv.
SearchTest(s) == SearchGoto(s, "test", IF ~ctxPaused \/ ctxCancelled THEN "unack" ELSE "block")

SearchBlock(s) ==
  /\ Goto(s, "block", "asleep")
  /\ sleeping' = sleeping \cup {s}
  /\ UNCHANGED <<state, cancelPending, ctx, ctxCancelled, ctxPaused, pausedAck, ackWaiters,
                 alive, exitVars, saved, work, runs>>

\* A woken searcher takes _pause_mtx again.
SearchWake(s) ==
  /\ s \notin sleeping /\ PauseMtxFree(s)
  /\ SearchGoto(s, "asleep", "test")

SearchCheck(s) == SearchGoto(s, "check", IF ctxCancelled THEN SearchEnd(s) ELSE "work")

SearchStep(s) ==
  \/ SearchOn(s)
  \/ SearchGoto(s, "work", SearchEnd(s))
  \/ SearchPoll(s)
  \/ SearchAck(s, "ack", "test", TRUE)
  \/ SearchTest(s)
  \/ SearchBlock(s)
  \/ SearchWake(s)
  \/ SearchAck(s, "unack", "check", FALSE)
  \/ SearchCheck(s)

\* parallel_for_stoppable(): the worker hands the stretch to the helpers and
\* joins them; an exception of a chunk is rethrown after the join.
Fork ==
  /\ Helpers # {} /\ work > 0 /\ work' = work - 1
  /\ pc[Worker] = "work"
  /\ pc' = [t \in Threads |-> IF t = Worker THEN "fork" ELSE IF t \in Helpers THEN "poll" ELSE pc[t]]
  /\ UNCHANGED <<state, cancelPending, ctxVars, ackWaiters, alive, exitVars, saved, runs>>

Join(to) ==
  /\ \A h \in Helpers : pc[h] = "off"
  /\ SearchGoto(Worker, "fork", to)

\* Mutant: a refused verdict is retried until it is accepted.
WorkerVerdict_Retries(from, verdict) ==
  /\ CanSet(verdict)
  /\ Goto(Worker, from, "notify")
  /\ state' = verdict
  /\ UNCHANGED <<cancelPending, ctxVars, ackWaiters, alive, exitVars, saved, work, runs>>

\* _set_state(Completed) after execute(), _set_state(Failed) in the handlers.
WorkerVerdict(from, verdict) ==
  /\ Goto(Worker, from, IF CanSet(verdict) THEN "notify" ELSE "done")
  /\ state' = IF CanSet(verdict) THEN verdict ELSE state
  /\ UNCHANGED <<cancelPending, ctxVars, ackWaiters, alive, exitVars, saved, work, runs>>

WorkerStep ==
  \/ SearchStep(Worker)
  \/ Fork
  \/ Join("check")
  \/ MayFail /\ (SearchGoto(Worker, "work", "fail") \/ Join("fail"))
  \/ WorkerVerdict("finish", "Completed")
  \/ WorkerVerdict("fail", "Failed")
  \/ NotifyAck(Worker, "notify", "done")

-----------------------------------------------------------------------------
(* The owner: start(), wait(), wait_for(), reset() and the destructor.     *)

OwnerGoto(from, to) ==
  /\ Goto(Owner, from, to)
  /\ UNCHANGED <<state, cancelPending, ctxVars, ackWaiters, alive, exitVars, saved, work, runs>>

\* start() takes the Running state first; it throws logic_error otherwise.
StartSet ==
  /\ runs < MaxRuns
  /\ Goto(Owner, "new", IF CanSet("Running") THEN "ctx" ELSE "threw")
  /\ state' = IF CanSet("Running") THEN "Running" ELSE state
  /\ runs' = IF CanSet("Running") THEN runs + 1 ELSE runs
  /\ UNCHANGED <<cancelPending, ctxVars, ackWaiters, alive, exitVars, saved, work>>

StartCtx ==
  /\ Goto(Owner, "ctx", "pending")
  /\ ctx' = TRUE /\ ctxCancelled' = FALSE /\ ctxPaused' = FALSE
  /\ pausedAck' = FALSE /\ sleeping' = {}
  /\ UNCHANGED <<state, cancelPending, ackWaiters, alive, exitVars, saved, work, runs>>

\* _cancel_pending.exchange(false) poisons the new context.
StartPending ==
  /\ Goto(Owner, "pending", "watch")
  /\ cancelPending' = FALSE
  /\ ctxCancelled' = (ctxCancelled \/ cancelPending)
  /\ UNCHANGED <<state, ctx, ctxPaused, pausedAck, sleeping, ackWaiters,
                 alive, exitVars, saved, work, runs>>

StartWatch ==
  /\ pc[Owner] = "watch"
  /\ pc' = [pc EXCEPT ![Owner] = "spawn",
                      ![Watcher] = IF HasTimeout THEN "armed" ELSE @]
  /\ alive' = HasTimeout
  /\ UNCHANGED <<state, cancelPending, ctxVars, ackWaiters, exitVars, saved, work, runs>>

StartSpawn ==
  /\ pc[Owner] = "spawn"
  /\ pc' = [pc EXCEPT ![Owner] = "join", ![Worker] = "work"]
  /\ work' = MaxWork
  /\ UNCHANGED <<state, cancelPending, ctxVars, ackWaiters, alive, exitVars, saved, runs>>

\* wait_for() returns the state it saw terminal, then joins and finalizes.
WaitForTerminal ==
  /\ pc[Owner] = "join" /\ result = NoExit /\ state \in Terminal
  /\ result' = state
  /\ UNCHANGED <<state, cancelPending, ctxVars, ackWaiters, alive, exitStatus, exitValid,
                 saved, work, runs, pc>>

\* _finalize() runs once per run.
WaitJoin ==
  /\ pc[Worker] = "done"
  /\ OwnerGoto("join", IF exitStatus = NoExit THEN "stop" ELSE "ret")

StopWatcher(from, to) ==
  /\ Goto(Owner, from, to)
  /\ alive' = FALSE
  /\ UNCHANGED <<state, cancelPending, ctxVars, ackWaiters, exitVars, saved, work, runs>>

\* Mutant: the watcher is told to stop but not joined.
JoinWatcher_Detached(from, to) == OwnerGoto(from, to)

JoinWatcher(from, to) == pc[Watcher] = "off" /\ OwnerGoto(from, to)

\* Mutant: the state is published instead of a status.
WaitExit_Raw ==
  /\ Goto(Owner, "exit", "payload")
  /\ exitStatus' = state
  /\ UNCHANGED <<state, cancelPending, ctxVars, ackWaiters, alive, exitValid, result,
                 saved, work, runs>>

\* The status of the Exit event is one load of the state ...
WaitExit ==
  /\ Goto(Owner, "exit", "payload")
  /\ exitStatus' = IF state \in {"Cancelled", "Failed"} THEN state ELSE "Complete"
  /\ UNCHANGED <<state, cancelPending, ctxVars, ackWaiters, alive, exitValid, result,
                 saved, work, runs>>

\* ... output() inside the same event is another ...
WaitPayload ==
  /\ Goto(Owner, "payload", "ret")
  /\ exitValid' = (state = "Completed")
  /\ UNCHANGED <<state, cancelPending, ctxVars, ackWaiters, alive, exitStatus, result,
                 saved, work, runs>>

\* ... and what wait() returns a third.
WaitReturn ==
  /\ Goto(Owner, "ret", "waited")
  /\ result' = IF result = NoExit THEN state ELSE result
  /\ UNCHANGED <<state, cancelPending, ctxVars, ackWaiters, alive, exitStatus, exitValid,
                 saved, work, runs>>

WaitAgain ==
  /\ Goto(Owner, "waited", "join")
  /\ result' = NoExit
  /\ UNCHANGED <<state, cancelPending, ctxVars, ackWaiters, alive, exitStatus, exitValid,
                 saved, work, runs>>

\* reset(): a load, a store, and the rest of the members.
ResetBegin ==
  /\ ResetAlone => \A c \in Clients : pc[c] = "idle"
  /\ \/ OwnerGoto("waited", "reset")
     \/ OwnerGoto("threw", "reset")

ResetLoad == OwnerGoto("reset", IF state \in Terminal THEN "rearm" ELSE "new")

ResetStore ==
  /\ Goto(Owner, "rearm", "clear")
  /\ state' = "Idle"
  /\ UNCHANGED <<cancelPending, ctxVars, ackWaiters, alive, exitVars, saved, work, runs>>

\* Mutant: _finalized survives the reset.
ResetClear_StaysFinal ==
  /\ Goto(Owner, "clear", "new")
  /\ cancelPending' = FALSE
  /\ ctx' = FALSE /\ ctxCancelled' = FALSE /\ ctxPaused' = FALSE
  /\ pausedAck' = FALSE /\ sleeping' = {}
  /\ exitStatus' = exitStatus /\ exitValid' = exitValid /\ result' = NoExit
  /\ UNCHANGED <<state, ackWaiters, alive, saved, work, runs>>

ResetClear ==
  /\ Goto(Owner, "clear", "new")
  /\ cancelPending' = FALSE
  /\ ctx' = FALSE /\ ctxCancelled' = FALSE /\ ctxPaused' = FALSE
  /\ pausedAck' = FALSE /\ sleeping' = {}
  /\ exitStatus' = NoExit /\ exitValid' = FALSE /\ result' = NoExit
  /\ UNCHANGED <<state, ackWaiters, alive, saved, work, runs>>

\* ~AlgorithmExecutor(), with or without a wait() before it: cancel(), join
\* the worker, stop and join the watcher.
Destroy ==
  /\ \A c \in Clients : pc[c] = "idle"
  /\ \E from \in {"new", "threw", "join", "waited"} : OwnerGoto(from, "fire")

DestroyJoin == pc[Worker] \in {"off", "done"} /\ OwnerGoto("d_join", "d_stop")

OwnerStep ==
  \/ StartSet \/ StartCtx \/ StartPending \/ StartWatch \/ StartSpawn
  \/ WaitJoin
  \/ StopWatcher("stop", "joinw")
  \/ JoinWatcher("joinw", "exit")
  \/ WaitExit \/ WaitPayload \/ WaitReturn
  \/ ResetLoad \/ ResetStore \/ ResetClear
  \/ CancelExchange(Owner) \/ CancelStep(Owner)
  \/ DestroyJoin
  \/ StopWatcher("d_stop", "d_joinw")
  \/ JoinWatcher("d_joinw", "gone")

\* The owner's choices: another wait, wait_for, a reset, the destructor.
OwnerChoice == WaitForTerminal \/ WaitAgain \/ ResetBegin \/ Destroy

-----------------------------------------------------------------------------
(* The watcher: cancels when the deadline passes while it is alive.        *)

WatcherStop ==
  /\ ~alive /\ Goto(Watcher, "armed", "off")
  /\ UNCHANGED <<state, cancelPending, ctxVars, ackWaiters, alive, exitVars, saved, work, runs>>

WatcherExpire ==
  /\ alive /\ Goto(Watcher, "armed", "fire")
  /\ UNCHANGED <<state, cancelPending, ctxVars, ackWaiters, alive, exitVars, saved, work, runs>>

WatcherStep == WatcherStop \/ WatcherExpire \/ CancelExchange(Watcher) \/ CancelStep(Watcher)

-----------------------------------------------------------------------------
\* A new call of a client, and the next step of the call it is in.
ClientCall(c) == CancelExchange(c) \/ PauseCas(c) \/ ResumeSet(c) \/ SerializeBegin(c)

ClientStep(c) == CancelStep(c) \/ PauseStep(c) \/ ResumeStep(c) \/ SerializeStep(c)

Next ==
  \/ \E c \in Clients : ClientCall(c) \/ ClientStep(c)
  \/ OwnerStep \/ OwnerChoice
  \/ WorkerStep \/ \E h \in Helpers : SearchStep(h)
  \/ WatcherStep
  \/ SpuriousWake

Spec == Init /\ [][Next]_vars

\* The scheduler runs every thread that can take a step.  Nobody has to make
\* a call, and the deadline may be too far away to pass.  A searching thread gets a
\* mutex that is free again and again (a client that wakes spuriously takes
\* and leaves _pause_ack_mtx each time).
Fairness ==
  /\ \A c \in Clients : WF_vars(ClientStep(c))
  /\ WF_vars(OwnerStep) /\ SF_vars(WorkerStep)
  /\ WF_vars(WatcherStop \/ CancelExchange(Watcher) \/ CancelStep(Watcher))
  /\ \A h \in Helpers : SF_vars(SearchStep(h))

FairSpec == Spec /\ Fairness

-----------------------------------------------------------------------------
(* Properties.                                                             *)

\* Every variable keeps its type.
ContextOK ==
  /\ ctx \in BOOLEAN /\ ctxCancelled \in BOOLEAN /\ ctxPaused \in BOOLEAN
  /\ pausedAck \in BOOLEAN /\ sleeping \subseteq Searchers
DataOK ==
  /\ state \in States /\ cancelPending \in BOOLEAN
  /\ ackWaiters \subseteq Clients /\ alive \in BOOLEAN
  /\ exitStatus \in {NoExit, "Cancelled", "Failed", "Complete"} /\ exitValid \in BOOLEAN
  /\ result \in {NoExit} \cup States
  /\ saved \in [Threads -> States]
  /\ work \in 0 .. MaxWork /\ runs \in 0 .. MaxRuns
PcOK ==
  /\ pc \in [Threads -> OwnerPcs \cup ClientPcs \cup WorkerPcs \cup WatcherPcs]
  /\ pc[Owner] \in OwnerPcs /\ pc[Worker] \in WorkerPcs /\ pc[Watcher] \in WatcherPcs
  /\ \A c \in Clients : pc[c] \in ClientPcs
  /\ \A h \in Helpers : pc[h] \in HelperPcs
TypeOK == ContextOK /\ DataOK /\ PcOK

\* The abstract phase: the exchange of a cancel() that is about to put the
\* old state back has not happened.
LogicalOf(st, old, at) ==
  IF \E t \in Threads : at[t] = "c_restore"
  THEN old[CHOOSE t \in Threads : at[t] = "c_restore"]
  ELSE st
Logical == LogicalOf(state, saved, pc)
PhaseOf(s) == IF s \in Active THEN "Active" ELSE s
Phase == PhaseOf(Logical)

Life == INSTANCE Lifecycle WITH phase <- Phase, count <- runs

\* The executor implements Lifecycle: the store that undoes an exchange in
\* cancel() never overwrites a transition some other thread made meanwhile,
\* so a verdict, once reached, stands until reset().
ImplementsLifecycle == Life!Spec

\* At most one cancel() is about to put a state back, and the state reads
\* Cancelled until it does.
RestoreIsExclusive ==
  \A t, u \in Threads :
    pc[t] = "c_restore" => state = "Cancelled" /\ (pc[u] = "c_restore" => t = u)

\* No thread of a run survives the call that ends it: a watcher that still
\* could cancel(), or a worker that still touches the context, is gone when
\* the Exit event is pushed, when the run is reset and when the executor is
\* destroyed.
RunIsClosed ==
  pc[Owner] \in {"new", "threw", "exit", "payload", "ret", "waited", "gone"} \cup ResetPcs =>
    pc[Watcher] = "off" /\ pc[Worker] \in {"off", "done"} /\ \A h \in Helpers : pc[h] = "off"

\* A checkpoint is read only while the algorithm does not move.
Snapshotting == \E c \in Clients : pc[c] = "s_snap"
SnapshotIsQuiescent == Snapshotting => \A s \in Searchers : pc[s] # "work"

\* wait() comes back, unless pause() puts the searchers to sleep again and
\* again (or for ever).
WaitReturns ==
  \/ pc[Owner] = "join" ~> pc[Owner] \in {"waited", "fire", "gone"}
  \/ []<>(sleeping # {})

\* A timeout or a cancel() that reached the context ends execute().
CancelEndsRun == ctxCancelled ~> pc[Worker] = "done"

\* Pausing is transient: it is left for Paused, Running or a verdict.
PausingSettles == state = "Pausing" ~> state # "Pausing"

\* Paused means at rest: the pause flag is up and the algorithm is inside
\* wait_if_paused() or has ended, as long as no control call is under way.
PausedIsAtRest ==
  /\ state = "Paused" /\ \A t \in Clients : pc[t] = "idle"
  => \A s \in Searchers : pc[s] # "work"

\* The threads of a run live only between start() and the join; no control
\* call is under way while the executor is reset or destroyed.
ThreadsInv ==
  /\ pc[Owner] \in {"new", "threw", "ctx", "pending", "watch", "exit", "payload", "ret",
                    "waited", "gone"} \cup ResetPcs => pc[Watcher] = "off"
  /\ pc[Worker] \notin {"off", "done"} => ctx /\ pc[Owner] \in {"join", "d_join"} \cup CancelPcs
  /\ pc[Worker] # "fork" => \A h \in Helpers : pc[h] = "off"
  /\ pc[Owner] \in ResetPcs \cup CancelPcs \cup DestroyPcs => \A c \in Clients : pc[c] = "idle"
  /\ \A c \in Clients : pc[c] \in PausePcs \cup ResumePcs => ctx

\* The logical state along the owner's program.
LogicalInv ==
  /\ \A t \in Threads : pc[t] = "c_restore" => saved[t] \in {"Idle", "Completed", "Failed"}
  /\ pc[Owner] \in {"new", "threw", "ctx"} => ~ctx
  /\ pc[Owner] \in {"new", "threw", "clear"} => Logical = "Idle"
  /\ ctx /\ pc[Owner] # "clear" => Logical # "Idle"
  /\ pc[Owner] \in StartPcs => Logical # "Idle"
  /\ pc[Owner] = "reset" => Logical \in Terminal \cup {"Idle"}
  /\ pc[Owner] = "rearm" => Logical \in Terminal
  /\ pc[Owner] \in {"pending", "watch", "spawn"} \cup WaitPcs \cup {"waited"} => ctx
  /\ pc[Owner] \in WaitPcs \cup {"waited"} /\ pc[Worker] \in {"notify", "done"} => Logical \in Terminal
  /\ pc[Owner] \in (WaitPcs \ {"join"}) \cup {"waited"} => pc[Worker] = "done"

\* The Exit event of a run is pushed after its watcher ended, and cleared
\* before the next run starts.
ExitInv ==
  /\ exitStatus # NoExit => ctx /\ pc[Watcher] = "off"
  /\ pc[Owner] \in StartPcs => exitStatus = NoExit

ControlInv == RestoreIsExclusive /\ ThreadsInv /\ LogicalInv

\* With TypeOK, the inductive invariant behind ImplementsLifecycle.
IndInv == ControlInv /\ ExitInv
=============================================================================
