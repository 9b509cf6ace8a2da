------------------------------ MODULE ThreadPool ------------------------------
(* common/utils/thread/ThreadPool: worker threads around a SegmentedMPMC    *)
(* queue and the counters _pending and _wake_counter; callers that submit   *)
(* tasks (parallel_for_stoppable submits its chunks and joins their         *)
(* futures), a thread in wait(), and the owner's stop(). The queue is the   *)
(* Fifo that SegmentedQueue is shown to implement, so a push and a pop are  *)
(* one step each; so are an increment of _wake_counter and the notify_all   *)
(* that follows it, since nobody can fall asleep in between. Of a snapshot  *)
(* of that counter only its being out of date matters: it is never equal    *)
(* again, being 64 bits wide.                                               *)
EXTENDS Integers, Sequences, FiniteSets, SequencesExt

CONSTANTS
  Workers,
  Callers,    \* threads in parallel_for_stoppable
  Chunks,     \* the chunks each of them submits
  HasWaiter,  \* does a thread call wait()?
  MayStop     \* does the owner call stop()?

(* The threads are finitely many, and no two of them are the same.          *)
PoolAssumption ==
  /\ IsFiniteSet(Workers) /\ IsFiniteSet(Callers) /\ Chunks \in Nat
  /\ Workers \cap Callers = {}
  /\ {"waiter", "owner"} \cap (Workers \cup Callers) = {} /\ "none" \notin Callers

Tasks == Callers \X (1 .. Chunks)
NoTask == <<"none", 0>>

VARIABLES
  tickets,     \* _queue: the tasks nobody has popped, oldest first
  pendingTasks,\* _pending
  fresh,       \* the threads whose snapshot of _wake_counter is still its value
  stopped,     \* _stopped
  stopAsked,   \* the workers' stop tokens
  at,          \* where each thread is; the waiter is "waiter", the owner "owner"
  first,       \* callers whose fetch_add on _pending returned 0
  held,        \* the task each worker runs
  next,        \* the chunk each caller submits or joins next
  future,      \* of each task: "none", "waiting", "done" or "broken"
  runs,        \* history: how often each task has run
  before       \* history: tasks submitted before wait() or stop() was called

poolVars == <<tickets, pendingTasks, fresh, stopped, stopAsked, at, first, held, next,
              future, runs, before>>

Goto(t, from, to) == at[t] = from /\ at' = [at EXCEPT ![t] = to]

Others == {"waiter", "owner"}

(* Threads that sleep on _wake_counter wake up and compare again. *)
WakeAll(f) ==
  [t \in DOMAIN f |->
     IF f[t] = "asleep" THEN IF t \in Workers THEN "sleep" ELSE "wait" ELSE f[t]]

PoolInit ==
  /\ tickets = <<>> /\ pendingTasks = 0 /\ fresh = {}
  /\ stopped = FALSE /\ stopAsked = FALSE
  /\ at = [t \in Workers \cup Callers \cup Others |-> IF t \in Workers THEN "pop" ELSE "idle"]
  /\ first = {}
  /\ held = [w \in Workers |-> NoTask]
  /\ next = [c \in Callers |-> 1]
  /\ future = [k \in Tasks |-> "none"]
  /\ runs = [k \in Tasks |-> 0]
  /\ before = {}

(***************************************************************************)
(* submit and _enqueue                                                     *)
(***************************************************************************)

Chunk(c) == <<c, next[c]>>

(* submit(): _stopped is checked first; then the task is destroyed and its  *)
(* future reports a broken promise.                                         *)
Submit(c) ==
  /\ at[c] = "idle" /\ next[c] <= Chunks
  /\ IF stopped
     THEN /\ future' = [future EXCEPT ![Chunk(c)] = "broken"]
          /\ next' = [next EXCEPT ![c] = @ + 1]
          /\ UNCHANGED at
     ELSE /\ future' = [future EXCEPT ![Chunk(c)] = "waiting"]
          /\ at' = [at EXCEPT ![c] = "count"]
          /\ UNCHANGED next
  /\ UNCHANGED <<tickets, pendingTasks, fresh, stopped, stopAsked, first, held, runs, before>>

(* Mutant: the task is counted only when the pool was idle. *)
CountPending_OnlyFirst(c) ==
  /\ Goto(c, "count", "push")
  /\ first' = IF pendingTasks = 0 THEN first \cup {c} ELSE first
  /\ pendingTasks' = 1
  /\ UNCHANGED <<tickets, fresh, stopped, stopAsked, held, next, future, runs, before>>

CountPending(c) ==
  /\ Goto(c, "count", "push")
  /\ first' = IF pendingTasks = 0 THEN first \cup {c} ELSE first
  /\ pendingTasks' = pendingTasks + 1
  /\ UNCHANGED <<tickets, fresh, stopped, stopAsked, held, next, future, runs, before>>

(* try_push. Only the first task of an idle pool goes on to wake the       *)
(* workers; for the others submit() returns.                               *)
Push(c) ==
  /\ Goto(c, "push", IF c \in first THEN "wake" ELSE "idle")
  /\ tickets' = Append(tickets, Chunk(c))
  /\ next' = [next EXCEPT ![c] = @ + (IF c \in first THEN 0 ELSE 1)]
  /\ first' = first \ {c}
  /\ UNCHANGED <<pendingTasks, fresh, stopped, stopAsked, held, future, runs, before>>

WakeWorkers(c) ==
  /\ at[c] = "wake"
  /\ at' = WakeAll([at EXCEPT ![c] = "idle"])
  /\ fresh' = {}
  /\ next' = [next EXCEPT ![c] = @ + 1]
  /\ UNCHANGED <<tickets, pendingTasks, stopped, stopAsked, first, held, future, runs, before>>

(* Mutant: the join ends with the first future that is ready. *)
JoinChunks_Any(c) ==
  /\ next[c] > Chunks
  /\ \E i \in 1 .. Chunks : future[<<c, i>>] \in {"done", "broken"}
  /\ Goto(c, "idle", "returned")
  /\ UNCHANGED <<tickets, pendingTasks, fresh, stopped, stopAsked, first, held, next, future, runs, before>>

(* parallel_for_stoppable waits for every future, whatever each one holds,  *)
(* before it returns (or throws the first error).                           *)
JoinChunks(c) ==
  /\ next[c] > Chunks
  /\ \A i \in 1 .. Chunks : future[<<c, i>>] \in {"done", "broken"}
  /\ Goto(c, "idle", "returned")
  /\ UNCHANGED <<tickets, pendingTasks, fresh, stopped, stopAsked, first, held, next, future, runs, before>>

(***************************************************************************)
(* _worker_main                                                            *)
(***************************************************************************)

(* The pop of phase 1, which phases 3 and 4 repeat while they spin. *)
PopTask(w) ==
  /\ tickets # <<>>
  /\ Goto(w, "pop", "run")
  /\ held' = [held EXCEPT ![w] = Head(tickets)]
  /\ tickets' = Tail(tickets)
  /\ UNCHANGED <<pendingTasks, fresh, stopped, stopAsked, first, next, future, runs, before>>

(* The task has run: the packaged task sets its future, with the value or   *)
(* the exception.                                                           *)
FinishTask(w) ==
  /\ Goto(w, "run", "done")
  /\ runs' = [runs EXCEPT ![held[w]] = @ + 1]
  /\ future' = [future EXCEPT ![held[w]] = "done"]
  /\ held' = [held EXCEPT ![w] = NoTask]
  /\ UNCHANGED <<tickets, pendingTasks, fresh, stopped, stopAsked, first, next, before>>

(* _on_task_done: the last pending task goes on to wake wait(). *)
TaskDone(w) ==
  /\ Goto(w, "done", IF pendingTasks = 1 THEN "bump" ELSE "pop")
  /\ pendingTasks' = pendingTasks - 1
  /\ UNCHANGED <<tickets, fresh, stopped, stopAsked, first, held, next, future, runs, before>>

BumpIdle(w) ==
  /\ at[w] = "bump"
  /\ at' = WakeAll([at EXCEPT ![w] = "pop"])
  /\ fresh' = {}
  /\ UNCHANGED <<tickets, pendingTasks, stopped, stopAsked, first, held, next, future, runs, before>>

(* Every pop found the queue empty. *)
FoundEmpty(w) ==
  /\ tickets = <<>>
  /\ Goto(w, "pop", "test")
  /\ UNCHANGED <<tickets, pendingTasks, fresh, stopped, stopAsked, first, held, next, future, runs, before>>

(* Phases 2 and 4: exit when asked to and nothing is pending. *)
TestStop(w) ==
  /\ Goto(w, "test", IF stopAsked /\ pendingTasks = 0 THEN "exited" ELSE "idle?")
  /\ UNCHANGED <<tickets, pendingTasks, fresh, stopped, stopAsked, first, held, next, future, runs, before>>

(* Phase 4: back to the queue while anything is pending (it is looked at up *)
(* to 17 times), else the counter is read.                                  *)
TestPending(w) ==
  /\ Goto(w, "idle?", IF pendingTasks > 0 THEN "pop" ELSE "snapshot")
  /\ UNCHANGED <<tickets, pendingTasks, fresh, stopped, stopAsked, first, held, next, future, runs, before>>

SnapshotWakes(w) ==
  /\ Goto(w, "snapshot", "recheck")
  /\ fresh' = fresh \cup {w}
  /\ UNCHANGED <<tickets, pendingTasks, stopped, stopAsked, first, held, next, future, runs, before>>

(* _pending and the stop token are looked at again after the counter. *)
RecheckPending(w) ==
  /\ Goto(w, "recheck", IF pendingTasks > 0 THEN "pop" ELSE "stop?")
  /\ fresh' = IF pendingTasks > 0 THEN fresh \ {w} ELSE fresh
  /\ UNCHANGED <<tickets, pendingTasks, stopped, stopAsked, first, held, next, future, runs, before>>

RecheckStop(w) ==
  /\ Goto(w, "stop?", IF stopAsked THEN "exited" ELSE "sleep")
  /\ UNCHANGED <<tickets, pendingTasks, fresh, stopped, stopAsked, first, held, next, future, runs, before>>

(* _wake_counter.wait(w) *)
Sleep(w) ==
  /\ Goto(w, "sleep", IF w \in fresh THEN "asleep" ELSE "pop")
  /\ UNCHANGED <<tickets, pendingTasks, fresh, stopped, stopAsked, first, held, next, future, runs, before>>

(***************************************************************************)
(* wait()                                                                  *)
(***************************************************************************)

Accepted == {k \in Tasks : next[k[1]] > k[2]}

WaitBegin ==
  /\ HasWaiter
  /\ Goto("waiter", "idle", "look")
  /\ before' = Accepted
  /\ UNCHANGED <<tickets, pendingTasks, fresh, stopped, stopAsked, first, held, next, future, runs>>

WaitLook ==
  /\ Goto("waiter", "look", IF pendingTasks = 0 THEN "returned" ELSE "read")
  /\ UNCHANGED <<tickets, pendingTasks, fresh, stopped, stopAsked, first, held, next, future, runs, before>>

WaitRead ==
  /\ Goto("waiter", "read", "relook")
  /\ fresh' = fresh \cup {"waiter"}
  /\ UNCHANGED <<tickets, pendingTasks, stopped, stopAsked, first, held, next, future, runs, before>>

(* Mutant: wait() goes to sleep on what it knew of _pending before it read   *)
(* the counter.                                                             *)
WaitRelook_Trusts ==
  /\ Goto("waiter", "relook", "wait")
  /\ UNCHANGED <<tickets, pendingTasks, fresh, stopped, stopAsked, first, held, next, future, runs, before>>

WaitRelook ==
  /\ Goto("waiter", "relook", IF pendingTasks = 0 THEN "returned" ELSE "wait")
  /\ UNCHANGED <<tickets, pendingTasks, fresh, stopped, stopAsked, first, held, next, future, runs, before>>

WaitSleep ==
  /\ Goto("waiter", "wait", IF "waiter" \in fresh THEN "asleep" ELSE "look")
  /\ UNCHANGED <<tickets, pendingTasks, fresh, stopped, stopAsked, first, held, next, future, runs, before>>

(***************************************************************************)
(* stop()                                                                  *)
(***************************************************************************)

StopBegin ==
  /\ MayStop
  /\ Goto("owner", "idle", "ask")
  /\ stopped' = TRUE
  /\ UNCHANGED <<tickets, pendingTasks, fresh, stopAsked, first, held, next, future, runs, before>>

StopAsk ==
  /\ Goto("owner", "ask", "wake")
  /\ stopAsked' = TRUE
  /\ UNCHANGED <<tickets, pendingTasks, fresh, stopped, first, held, next, future, runs, before>>

StopWake ==
  /\ at["owner"] = "wake"
  /\ at' = WakeAll([at EXCEPT !["owner"] = "join"])
  /\ fresh' = {}
  /\ UNCHANGED <<tickets, pendingTasks, stopped, stopAsked, first, held, next, future, runs, before>>

StopJoin ==
  /\ \A w \in Workers : at[w] = "exited"
  /\ Goto("owner", "join", "drain")
  /\ UNCHANGED <<tickets, pendingTasks, fresh, stopped, stopAsked, first, held, next, future, runs, before>>

(* What is left in the queue is destroyed, and _pending is set to 0. *)
StopDrain ==
  /\ at["owner"] = "drain" /\ tickets # <<>>
  /\ future' = [future EXCEPT ![Head(tickets)] = "broken"]
  /\ tickets' = Tail(tickets)
  /\ UNCHANGED <<pendingTasks, fresh, stopped, stopAsked, at, first, held, next, runs, before>>

StopEnd ==
  /\ tickets = <<>>
  /\ Goto("owner", "drain", "stopped")
  /\ pendingTasks' = 0
  /\ UNCHANGED <<tickets, fresh, stopped, stopAsked, first, held, next, future, runs, before>>

CallerNext(c) ==
  Submit(c) \/ CountPending(c) \/ Push(c) \/ WakeWorkers(c) \/ JoinChunks(c)

WorkerNext(w) ==
  \/ PopTask(w) \/ FinishTask(w) \/ TaskDone(w) \/ BumpIdle(w) \/ FoundEmpty(w)
  \/ TestStop(w) \/ TestPending(w) \/ SnapshotWakes(w)
  \/ RecheckPending(w) \/ RecheckStop(w) \/ Sleep(w)

WaiterNext == WaitLook \/ WaitRead \/ WaitRelook \/ WaitSleep

StopNext == StopAsk \/ StopWake \/ StopJoin \/ StopDrain \/ StopEnd

PoolNext ==
  \/ \E c \in Callers : CallerNext(c)
  \/ \E w \in Workers : WorkerNext(w)
  \/ WaitBegin \/ WaiterNext \/ StopBegin \/ StopNext

(* Every thread of the pool is scheduled, and a caller goes on. *)
PoolFairness ==
  /\ \A c \in Callers : WF_poolVars(CallerNext(c))
  /\ \A w \in Workers : WF_poolVars(WorkerNext(w))
  /\ WF_poolVars(WaiterNext)
  /\ WF_poolVars(StopNext)

(***************************************************************************)
(* Properties                                                              *)
(***************************************************************************)

Claimed == {held[w] : w \in Workers} \ {NoTask}

(* parallel_for_stoppable hands references to its own locals to the tasks:  *)
(* once it has returned none of them is queued, claimed or running.         *)
FrameOutlivesChunks ==
  \A c \in Callers : at[c] = "returned" =>
     \A k \in Range(tickets) \cup Claimed : k[1] # c

(* _pending covers every task that is queued or claimed while the workers   *)
(* live: it never reads 0 (and wait() never returns, no worker ever exits)  *)
(* while one is left, and the decrement never underflows.                   *)
PendingCoversTasks ==
  at["owner"] \notin {"drain", "stopped"} =>
     pendingTasks >= Len(tickets) + Cardinality({w \in Workers : at[w] \in {"run", "done"}})

(* wait() returns only when the tasks submitted before it was called have   *)
(* completed.                                                               *)
WaitMeansDone ==
  at["waiter"] = "returned" => \A k \in before : future[k] \in {"done", "broken"}

(* Every variable keeps its type, and every thread is in its own program.   *)
WorkerPcs == {"pop", "run", "done", "bump", "test", "idle?", "snapshot", "recheck", "stop?",
              "sleep", "asleep", "exited"}
CallerPcs == {"idle", "count", "push", "wake", "returned"}
WaiterPcs == {"idle", "look", "read", "relook", "wait", "asleep", "returned"}
OwnerPcs  == {"idle", "ask", "wake", "join", "drain", "stopped"}
PcsOK ==
  /\ at \in [Workers \cup Callers \cup Others -> WorkerPcs \cup CallerPcs \cup WaiterPcs \cup OwnerPcs]
  /\ \A w \in Workers : at[w] \in WorkerPcs
  /\ \A c \in Callers : at[c] \in CallerPcs
  /\ at["waiter"] \in WaiterPcs /\ at["owner"] \in OwnerPcs
PoolTypeOK ==
  /\ tickets \in Seq(Tasks) /\ pendingTasks \in Nat
  /\ fresh \subseteq Workers \cup {"waiter"} /\ stopped \in BOOLEAN /\ stopAsked \in BOOLEAN
  /\ first \subseteq Callers
  /\ held \in [Workers -> Tasks \cup {NoTask}]
  /\ next \in [Callers -> 1 .. Chunks + 1]
  /\ future \in [Tasks -> {"none", "waiting", "done", "broken"}]
  /\ runs \in [Tasks -> Nat] /\ before \subseteq Tasks
  /\ PcsOK

(* The tasks that try_push() has taken.                                     *)
Pushed(k) ==
  \/ next[k[1]] > k[2]
  \/ next[k[1]] = k[2] /\ at[k[1]] = "wake"
Settled(k) == future[k] \in {"done", "broken"}

(* A pushed task is in one place: in the queue, with a worker, or settled.  *)
PlacesInv ==
  /\ \A i \in DOMAIN tickets : Pushed(tickets[i]) /\ ~Settled(tickets[i])
  /\ \A i, j \in DOMAIN tickets : tickets[i] = tickets[j] => i = j
  /\ \A w \in Workers : held[w] # NoTask <=> at[w] = "run"
  /\ \A w \in Workers : at[w] = "run" =>
       /\ Pushed(held[w]) /\ ~Settled(held[w])
       /\ \A i \in DOMAIN tickets : tickets[i] # held[w]
  /\ \A v, w \in Workers : at[v] = "run" /\ held[v] = held[w] => v = w
  /\ \A k \in Tasks : Pushed(k) =>
       Settled(k) \/ k \in Range(tickets) \/ \E w \in Workers : held[w] = k
  /\ \A c \in Callers : at[c] \in {"count", "push", "wake"} => next[c] <= Chunks
  /\ \A c \in Callers : at[c] \in {"count", "push"} => ~Settled(Chunk(c))

(* _pending counts the tasks that are queued or with a worker, and those    *)
(* that are about to be pushed, until the queue is drained.                 *)
Busy == {w \in Workers : at[w] \in {"run", "done"}}
Pushing == {c \in Callers : at[c] = "push"}
CountInv ==
  /\ at["owner"] \notin {"drain", "stopped"} =>
       pendingTasks = Len(tickets) + Cardinality(Busy) + Cardinality(Pushing)
  /\ at["owner"] \in {"drain", "stopped"} => \A w \in Workers : at[w] = "exited"

(* Who has returned has seen the tasks settled that it waited for.          *)
ReturnInv ==
  /\ \A c \in Callers : at[c] = "returned" => \A i \in 1 .. Chunks : Settled(<<c, i>>)
  /\ \A k \in before : Pushed(k)
  /\ ~MayStop => at["owner"] = "idle"
  /\ ~MayStop /\ at["waiter"] = "returned" => \A k \in before : Settled(k)

(* The inductive invariant behind JoinMeansDone.                            *)
PoolInv == PoolTypeOK /\ PlacesInv /\ CountInv /\ ReturnInv

(* Without stop(), a caller gets out of parallel_for: no task is slept      *)
(* through and no wake-up is lost between _pending and the counter.         *)
Returned(c) == at[c] = "returned"
CallersReturn == \A c \in Callers : MayStop \/ <>Returned(c)

(* ... and so does a thread in wait(): it is not left asleep either.        *)
WaiterBack == at["waiter"] \in {"idle", "returned"}
=============================================================================
