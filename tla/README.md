# A TLA+ verification of BestEnchSeq-Core

BestEnchSeq-Core searches the cheapest order in which books are merged on an anvil. Around the search sit
a run engine that can be paused, cancelled, timed out and checkpointed, a process sandbox for plugins, a
diagnostics bus, profiles that are edited through requests and SQL, and an HTTP service with server-sent
events. This directory models them, checks the models with TLC on small instances and proves central
results with TLAPS for every instance. Paths below are relative to the repository (`domain/...` is
`src/src/domain/...` in `PROJECT.json`).

Contents: 1 inventory, 2 modules and their code, 3 runs and bounds, 4 fairness, 5 proofs, 6 what the
models say about the code, 7 not modelled, 8 plan, 9 running it.

## 1. Inventory of the system

| Component | State it keeps | Operations | What is hard |
|---|---|---|---|
| `AlgorithmExecutor`, `ExecutionContext` (`domain/algorithm/`) | `_state`, `_cancel_pending`, the context with `_cancelled`, `_paused`, `_paused_ack`, the worker, the timeout watcher | `start`, `wait`, `wait_for`, `reset`, `pause`, `resume`, `cancel`, `serialize_state`, destructor | five kinds of threads on one atomic word; a cancel that exchanges and puts back; notifications without the mutex; a watcher that fires while the run ends |
| Sandboxed executor, `besq-worker`, IPC (`sandbox/`, `worker/`) | a child process, a socket pair, a mirror of the run's state, requests in flight | the same interface | two processes, answers that cross, the child that dies between request and answer |
| `DiagnosticsService` (`diagnostics/`) | an event queue, two counters, the observers | `push`, `attach`, `detach`, `flush` | an event is queued and counted in two steps; observers are copied before they are called |
| `BesqContext`, `SolvePipeline` (`interface/`, `domain/orchestration/`) | the handle of the one active executor, the history | `solve`, `solve_from_checkpoint`, `abort_solve`, `pause_solve`, `resume_solve` | the handle is published late, overwritten and cleared by solves that overlap |
| `WebSolveService` (`interface/web/`) | a table of tasks with one active slot, the state, result, worker and sampler of each | `start`, `restore`, `cancel`, `pause`, `resume`, `status`, `save_checkpoint`, destructor | a slot that is free before its worker ends; commits against cancels; shutdown while paused |
| `SseHub`, `CalculatorController::events` | subscribers and the last frame of each key | `publish`, `subscribe` with replay, `unsubscribe`, `clear` | callbacks run outside the lock: late subscribers, terminal frames and replays cross |
| `HttpServer`, `Reactor`, `Connection` (`interface/components/http/`) | the poller's registry, event and close queues; per reactor a table and a task queue; per connection liveness, backlog, mode | accept, `poll_once`, the sweep, `process`, `push_sse_frame`, `stop`, `run` | `select()` without a lock, descriptors used again, logical close on one thread and `close()` on another, shutdown in several hand-overs |
| Parser, router, static files | the bytes of a connection, the files | parse, match, read, revalidate | messages in any pieces and several at a time; files that change between two looks |
| Rate limiter, middleware | a table of buckets and one for all | claim, replace, take | threads that claim slots and take tokens by compare-and-swap with an old clock |
| `ProfileManager`, its REST and command interfaces | profiles, a dependency graph, an undo log, a cache of views | create, fork, merge, rename, edit, undo, activate | caches against edits, refusals that must leave no trace, cycles |
| SQL sessions (`business/sql/`) | profiles, an undo stack, what is saved | statements, UNDO, SAVE, USE, FORK | references across tables, undo over several profiles, what is dirty |
| Data packs, registries (`business/loaders/`, `components/`) | none but the registries they fill | load, merge, publish, reload | partial rows, references between packs, layers, a round trip |
| Compact adapter, resolver (`orchestration/components/`, `algorithm/resolvers/`) | none | `apply`, `recall`, `resolve` | local numbers, limits of 64 and 8 bits, what may be left out |
| Anvil arithmetic, item model (`forge_engine/`, `types/`) | none | merge, cost, penalty | boundaries, penalty 2^n - 1, platforms |
| Strategies and plugins (`_strategies/`, `plugins/`) | a search state that can be serialized | `execute`, `serialize_state`, `restore_state` | pruning that keeps the optimum, checkpoints, reported plans that can be carried out |
| Plugin loading and audit | a registry, library handles | load, create, unload | code unloaded while an executor or a queued event still needs it |
| `ThreadPool`, queues, `EventLoop`, `Logger` (`common/`) | tickets, sequence numbers, counters | push, pop, post, stop, wait, flush | lock-free hand-overs, stop against post, the last task against the waiter |
| Hash map, memory pool, transposition table | slots, chunks, epochs | find, insert, clear, allocate, release | reuse after clear, growth, wrap-around |
| Command line (`interface/cli/`) | the flags of ^C, the state of one solve | the control loop | a signal handler, the loop and the solving thread |
| Formatting, JSON, i18n, C interface | none that outlives a call | format, parse | input and output only |

How they interact. A controller, on a reactor thread, submits a task to `WebSolveService`; the task's
worker thread calls `BesqContext::solve`, which runs `SolvePipeline`: the effective view of the profile
becomes a registry, `CompactAdapter` makes the compact input, one executor is created (in this process or
in the sandbox), its handle is published, and the strategy resolves the input and searches. `cancel`,
`pause` and `resume` reach that executor from other reactor threads, or from the control loop of the
command line, through the handle. The executor pushes events into `DiagnosticsService`, whose consumer
calls the task's observer, which publishes a `diag` frame in `SseHub`; a sampler thread publishes
`progress` frames and the worker publishes the terminal frame. The hub calls the connections' sinks, which
post tasks to the reactors that own the connections. Shutdown goes the other way: the poller, the
reactors, `run()`, the hub, the service and its workers.

What makes the components correct, and where it is stated:

- a run has one verdict, which stands until `reset()` (`ImplementsLifecycle`, `RestoreIsExclusive`), and
  none of its threads survives it (`RunIsClosed`); a paused or checkpointed algorithm is at rest
  (`QuietMeansRest`), `wait()` returns and `Pausing` is left (`WaitReturns`, `PausingSettles`);
- the sandboxed executor reports what the run it was asked for did (`SandboxTellsTheTruth`), and whoever
  waits for it, for the pool or for the command line comes back (`WaitersReturn`);
- one task holds the slot and none is reaped under its worker (`TasksOverlapSafely`); history, state and
  payload agree (`RecordsAgree`), a verdict stands (`VerdictIsFinal`), the destructor returns
  (`DestructorReturns`), a stream learns of the end and the flush loses nothing (`StreamIsTold`,
  `ExitArrives`);
- a snapshot of sockets stays valid while `select()` uses it (`SnapshotStaysOpen`), an unregistration
  never hits a later owner of the descriptor (`UnregisterHitsDead`), every admitted client is polled, read,
  and noticed when it leaves (`AdmittedIsPolled`, `ClientIsHeard`), and no socket survives `run()`
  (`ShutdownClosesAll`); answers follow requests, files are what they were, budgets are kept
  (`RequestsAreServedRight`);
- queues are first in, first out, exactly once (`RingsAreFifo`, `SegmentsAreFifo`), and maps, pools and
  tables keep what they were given (`ContainersAgree`); a join or flush waits for everything
  (`JoinMeansDone`, `QuietFlushSeesAll`, `GracefulStopDrains`), and what is published is handled
  (`WaitersReturn`);
- profiles refer to what exists (`ReferencesHold`), caches are what would be computed (`CachesAreFresh`),
  refusals and UNDO are exact (`RollbacksAreExact`), what is not dirty is on disk unless a fork has taken
  its file (`CleanIsSaved`);
- what a request asks for reaches the strategy and comes back (`InputsAreFaithful`); a reported plan can be
  carried out and is as cheap as promised (`ReportedPlansReplay`, `ReportedPlansAreCheapest`,
  `GreedyStrategiesFind`);
- a library stays open as long as anything of it is in use, but for what an unload request cannot see
  (`PluginsStayOpen`).

## 2. Modules and the code they model

`PROJECT.json` maps every definition to its lines. Names are those of the source where TLA+ allows it.
Definitions whose comment begins with "Mutant:" are not part of the model: each is a plausible bug that
the runs are known to catch.

### Executor, Lifecycle

`Lifecycle` is the abstract promise: Idle, Active, one of three verdicts, and back to Idle only by
`reset()`. `Executor` is `AlgorithmExecutor.cpp` and `ExecutionContext.cpp`, one action for each access to
shared memory: an atomic load, store or exchange, a critical section, a notification.

- `pc` says for each thread which access of which call comes next. The prefixes are `c_` for `cancel()`,
  `p_` for `pause()`, `r_` for `resume()`, `s_` for `serialize_state()`, `d_` for the destructor.
- `_set_state`'s compare-and-swap loop is one atomic action (a failed swap only retries). The unguarded
  exchange of `cancel()` and its undo are two actions, `CancelExchange` and the `c_restore` step.
- A condition variable is the set of the threads enrolled on it. Testing the predicate and enrolling are
  two steps with the mutex held between them; `ExecutionContext::cancel()` and `resume()` notify without
  the mutex, as the code does, so a wake-up can be lost. Spurious wake-ups are steps.
- `Helpers` are the pool threads on which `bb_dp` and `dp_merge` run one layer; `hamming` has none.
- The owner is `SolvePipeline::stage_execute` or the serve loop of `besq-worker`. `ResetAlone` says that
  `reset()` and the destructor run only while no control call is in flight, the discipline of
  `SolvePipeline`; without it (`besq-worker`) only the type theorem holds, see section 6.
- Left out: the payload of a run (config, progress, solutions).

`Executor` implements `Lifecycle` with `phase <- Phase, count <- runs`. `Phase` maps Running, Pausing
and Paused to Active, and reads through a `cancel()` that has exchanged and is about to put back: until
its second access the logical state is the one it exchanged away.

### Sandbox, SolveControl

`Sandbox` is both ends of `SandboxedExecutor`: the thread that owns the executor, a thread that controls
it and the reader thread in the parent; the serve loop, the control thread and the search in `besq-worker`;
between them two sequences of frames. The child's own executor is reduced to its state. A death of the
child is a step that may come at any time (`MayDie`); the reader then sees the end of the stream.
The handle is published before `start()`, so a control call may come before it, overlap it or come between
two runs; `slips` remembers that one overlapped a `start()` (`Undisturbed`) and that a handshake took the
error of a run.

`SolveControl` is a solve on a terminal: `CtrlInterrupt`, `run_solve_control_loop` and the solving thread.
The handler of ^C may run between any two steps of the others and only sets flags.

### Diagnostics, SseHub, SolveContext, WebSolve

Three modules keep the state of one component each, `WebSolve` composes them with `WebSolveService`.

- `Diagnostics`: the queue and the two counters of `flush()`; `push()` queues and counts in two steps.
- `SseHub`: subscribers and last frame per key. A critical section is one action; a publisher delivers to
  the list it copied one subscriber at a time, and a subscriber replays the frame it copied, while others
  publish. Of the frames a stream received only the order of the terminal frame and the others is kept.
- `SolveContext`: the active handle, the executors at the level of `Lifecycle`, the history. A handle is
  copied and the executor called in one action, as a copied `shared_ptr` keeps the executor alive and a
  call on an executor that has ended changes nothing.
- `WebSolve`: the table, the task states, and per task a worker (`wpc`), a sampler (`spc`) and an
  observer. Callers are reactor threads in a controller: the swap of the task state and the call into the
  context that follows it are separate steps, with the 20 ms repetition as a third. The exceptions that
  the code lets out (`MayThrow`) lead to the catch block. `Main` is `~WebModule`: hub, aborts, joins.
- Left out: `save_checkpoint`, the body of `status()`, persistence of diagnostics.

### HttpServer, RequestStream, StaticFiles, RateLimiter

The first part of `HttpServer` has no variables: each call of `Connection.cpp` is an operator from a
connection and what the kernel says (bytes waiting, client gone) to the set of states it may leave the connection in. `Replies`
lists what a request may come to: an answer that keeps the connection, one that ends it, a stream, or not
yet a whole request.

The second part is the rest: clients, kernel, poller, reactors and the thread in `run()`.

- `os` maps a descriptor to the client whose socket it is; the kernel hands out the lowest unused one.
  Clients are numbered as they connect and each is also the name of its connection.
- `Poller` follows `poll_once()`: drain the events and close, sweep, take the snapshot, `select()`,
  accept, add, register, deliver. Each is a step between which reactors and clients move.
- `Loop(r)` takes one task of a reactor: a drive, a timeout, or a frame. A connection that died is removed
  in the three steps of `remove_connection()`: logical close, unregistration, erase.
- `Run` follows `run()`: join the poller, `close_all()` per reactor, stop it, destroy the reactors, the
  last drain; then `ClearHub` is `~WebModule`.
- Of the queue of Interest events only the last one for a descriptor matters to the drain, so it is the
  function `told`; Unregister events are a sequence. Draining and closing, and posting a batch, touch
  nothing that another thread reads in between and are one step each.
- The sweep's deadlines may have passed at any sweep; a write takes all or nothing.

What `Replies` abstracts is `RequestStream`: a wire of messages, the part of it that has arrived, the
parser that looks for the end of a head and of a body, and the loop that answers as many as there are. A
head is its last unit, bodies may hold units that look like heads. `StaticFiles` finds, tags and reads a
file in separate steps, with writes in between; a version stands for size and time of change. In
`RateLimiter` a thread reads the clock, loads the bucket's word and swaps it, and claims a slot of the
table in steps of their own; a tick of the clock is worth a token.

### Queues, pools, loops

- `Fifo` is the abstract queue: a sequence, a push, a pop, what each consumer got.
- `RingQueue` is the bounded MPMC and MPSC queues and the SPSC queue, by `kind`; `SegmentedQueue` is the
  unbounded ones. One action per access to an index, a sequence number, a slot or a link. Both implement
  `Fifo`: an item is queued from the moment its ticket is taken (in the SPSC queue, from the store that
  publishes it), and popped when its ticket is claimed by a consumer. Until that consumer has its hands on
  the value, the abstract queue reads it from the slot.
- `ThreadPool` and `EventLoop` use the queue as the `Fifo` it implements, a push and a pop being one step.
  The logger's two counters, which `flush()` compares, are in `EventLoop`.
- `FlatMap`, `Transpositions` and `ChunkPool` are sequential: one operation is one step, and `meant` is
  what the container should hold.

### Profiles

- `TagResolver` has the tag values as written and the expansions cached so far.
- `ProfileManager` and `ProfileApi`: one call is one step, the REST handlers hold the gate meanwhile.
  Rows keep their value, what they exclude and what they apply to.
- `SqlSession`: one statement is one step. Of a row only its references are kept, as the three tables with
  the tag resolver are what the statements relate. `trail` records what UNDO should restore.
- `Registries`: rows as a file gives them, merged field by field into registries, written back and read
  again, and laid over one another. Levels of the enchanting table are computed in whole numbers.

### Strategies

- `Anvil`: forging two items with penalty, cost, cap and conflicts on both platforms, the bounds of
  `SearchUtils` and `Heuristic`, and `CheapestPlan`, the reference: the optimum over all merge orders.
- `CompactAdapter` makes the input of a strategy from a request.
- `Search` is what all strategies share: make the items to work on, resolve, leave early, search, report, poll for a cancel.
- `Greedy` (`diff_first`, `penalty_balance`, `hamming`), `MergeTable` (`dp_merge` and `bb_dp`), `BestFirst`
  (A*) and `DepthFirst` (DFS and IDA*) extend it, one expansion, layer or round per step, with
  checkpoint and resume where the code has them.
- `PluginCatalog` is the loader with its registry, the libraries that are mapped, and what may be in them:
  the executors of tasks, copies of a handle in control calls, diagnostics in the queue and the one that is
  being destroyed. `push()` queues and counts in two steps, the consumer counts an event before it destroys
  it, and `flush()` compares the two counters, as in the code; a client's push goes on beside a solver's. An
  unload request is two steps, the look for an active task and the rest. `late` and `crowded` are histories:
  tasks that were submitted between the two, and tasks whose `flush()` began in the middle of a push.

### Modules for TLC and for proofs

`MCExecutorControl`, `MCWebTasks`, `MCWorkers` and `MCLibrary` (which extends `MCSearch`) instantiate
several components or settings as scenes: `scene` is chosen in the initial state and never changes, and
the variables that a scene does not use stay 0. In `MCLibrary` the variables of a component are the
registers `r1`, `r2`, ... in the order in which the component declares them, so a counterexample is read
with the `INSTANCE` beside it. The numbers of threads, parts and inputs of `MCWorkers` are constants of its
own, so that what is proved of it is proved for all of them. The scenes of the queues have the names
of the kinds, so `kind` of `RingQueue` and `SegmentedQueue` is `scene` there.

Theorems are in eight modules. `ExecutorProofs`, `HttpProofs`, `PoolProofs`, `LoopProofs`, `SandboxProofs`
and `WebSolveProofs` each extend the module of one component, `PoolProofs` that of the pool and that of the
bounded queues, `LoopProofs` that of the loop and that of the segmented queues; `WorkersProofs` and `WebTasksProofs` carry
their results to the scenes that the runs `workers` and `web_tasks` check.

## 3. Runs

Deadlock checking is off everywhere: owners, tasks and servers end, and clients may stop calling.

| Run | Instance | Shows |
|---|---|---|
| `executor_control` | "control": two runs, one client with all calls, one helper, timeout, failure. "quiet": two clients that pause and checkpoint | types, `RestoreIsExclusive`, `RunIsClosed`, the inductive `IndInv`, `QuietMeansRest`, the refinement of `Lifecycle`, `WaitReturns`, `PausingSettles` |
| `executor_parallel_snapshot` | two helpers, two pause points | violates `SnapshotIsQuiescent` |
| `executor_lost_wakeup` | one client that pauses and cancels, fair | violates `CancelEndsRun` |
| `workers` | sixteen scenes: logger, loop, pool, pool that stops, sandbox with handshakes, with a second run, with crashes, command line, plugins, their diagnostics, their control calls, the three bounded and the two segmented queues | `GracefulStopDrains`, `QuietFlushSeesAll`, `JoinMeansDone`, `SandboxTellsTheTruth`, `AbortIsReported`, `PluginsStayOpen`, `RingsAreFifo`, `SegmentsAreFifo`, `WaitersReturn` |
| `web_tasks` | "slots": two tasks after each other, one controller. "stream": one restored task, two controllers, one stream, exceptions, fair | `TypesHold`, `TasksOverlapSafely`, `RecordsAgree`, `StreamIsTold`, `ExitArrives`, `VerdictIsFinal`, `DestructorReturns` |
| `web_terminal_frame` | two tasks, exceptions | violates `TerminalFrameStays` |
| `web_stray_abort` | two tasks, two controllers | violates `AbortHitsOwnTask` |
| `web_shutdown_hangs` | two tasks, one controller | violates `JoinIsBounded` |
| `sandbox_lost_error` | one run that fails to start, one pause, fair | violates `SandboxWaitReturns` |
| `http` | two clients, two descriptors, one reactor, capacity one, every reply, fair | types, `SnapshotStaysOpen`, `UnregisterHitsDead`, `ShutdownClosesAll`, `AdmittedIsPolled`, `ClientIsHeard` |
| `library` | 27 scenes: containers, profiles, SQL, packs, adapter, strategies, requests, files, rates | `ContainersAgree`, `CachesAreFresh`, `ReferencesHold`, `CleanIsSaved`, `RollbacksAreExact`, `InputsAreFaithful`, `ReportedPlansReplay`, `ReportedPlansAreCheapest`, `GreedyStrategiesFind`, `RequestsAreServedRight` |
| `search_stale_maxima` | one input on which a level is raised | violates `AStarIsOptimal` |

Bounds, and why they are enough for the question asked.

- Executor: `MaxWork` pause points per execution and `MaxRuns` runs; a second run is where a stale flag or
  a thread of the first would show. One client is enough under control because the owner's expiring
  `wait_for()` and the watcher also call `cancel()`; the proofs cover any number. Two clients are needed
  where two pauses overlap.
- Web: the defects of the slot need a cancelled task and its successor. One task is enough for the order
  of frames within a task, where two callers and the sampler compete. The scene without a hub is about the
  table only; the hub is in the other runs.
- HTTP: two descriptors and a capacity of one, so that the first descriptor is freed, and handed out
  again, while the reactor that had it has not erased it. `AdmitCap` is set apart from the descriptors so
  that a refusal has both causes. One reactor is enough for the order of its steps and the poller's; with
  several, the invariants of the run are theorems (section 5). `MaxTasks`, the
  tasks that wait in one reactor, blocks the poller and publishers when it is reached; the real queue is
  unbounded, and as a reactor empties its queue at any time no order between two threads is lost.
- Queues: a capacity of two with two producers and two consumers wraps every index. In the segmented MPMC
  queue a producer leads two consumers through two blocks of one slot, so that one consumer moves the head
  past the block of the other and that one starts over; in the MPSC queue two producers race to link blocks
  of two slots and to move the tail past one another, and `clear()` leaves tickets of a block behind.
- Pools and loops: two workers and two chunks, two posters; the pool that stops has two parallel loops.
- Sandbox: every call is made in every scene. "handshake" is one run and two calls, with a frame of chatter,
  where the run may fail and the child may die at any step; "rerun" is two runs and two calls; "crash" is two
  runs and one call, failing and dying again. Failing and dying with two runs and two calls is covered for
  safety by the theorem, for any number of either. A pause may lose the end of a run that fails
  (`sandbox_lost_error`), so `wait()` is not promised to return once a handshake has taken an error
  (`ErrorLost`), nor in a second run after a call overlapped a `start()`; the destructor is.
- Plugins: "plugins" has two tasks and five libraries: two of the name of a builtin, which take it from one
  another, one that only the sandbox may load, one that the audit refuses and one that does not answer the
  probe. "diagnostics" has one library, two tasks and two pushes: two is where one push, queued and not
  counted, misleads the flush of another task. "control" has one task and one control call, whose pushes
  cross those of the solver.
- SQL: three writes of a session with an undo stack of two, so that one entry falls off the stack. The
  session has four names for two files: two profiles that were loaded, and two forks whose names map to
  the file of the second one, so that forks collide with one another and with a profile that no SAVE has
  claimed the file for. `MergesEmpty` is FALSE: section 6 says why.
- Profiles: two editable profiles over the root, three calls, two kinds of rows.
- Packs: every one of 36 combinations of tags, items and enchantments, over a second such pack, and packs
  that are refused. Adapter: a `MaxEnchs` of 3 and bytes of 3 bits, so that each limit is crossed.
- Strategies: up to five items, both platforms, caps that hold and give way, conflicts, inventories; the
  checkpoint scenes stop at every step. Larger inputs only repeat the merge steps these contain.
- Streams of requests: two or three messages of every kind, in every split; heads of at most two bytes
  and bodies of three, with one message over each limit. Rates: two clients that share a slot, two
  threads, a clock of five ticks that wraps.

A passing scene leaves out what section 6 says does not hold. Each such condition is a named constant of
the module (`ResetAlone`, `MergesEmpty`) or a conjunct of the property that says so (`behind` of
`RateLimiter`, `late` and `crowded` of `PluginCatalog`, `slips` of `Sandbox`, `Overwritten` of `SqlSession`,
`CutShort` of `RequestStream`).

## 4. Fairness

Fair specifications ask only for what the scheduler gives.

- Executor: weak fairness for every thread's own steps. The worker has strong fairness, because its
  steps wait for mutexes that are granted again and again while clients keep calling. The deadline of
  the watcher may never pass (no fairness on expiry), and clients never have to begin a call.
- Web: workers, publishers, the dispatcher and the destructor's steps are weakly fair; a solve that is
  not paused ends. Callers and streams are never forced to act. The destructor's polling loop is fair
  only in its first abort and in its end, since its deadline may cut it short.
- HTTP: every reactor loop, the poller and `run()` are weakly fair; clients and `stop()` are not.
- `workers`: each thread of a scene is weakly fair in its own steps; the subscript of each condition is what
  the scene's component changes, as a step of it leaves everything else alone. The search of the sandbox and of the
  command line ends when it is not paused; the death of the child, ^C and keys are not forced.

`WaitReturns` and `WaitersReturn` admit that pausing for ever keeps a waiter waiting: that is what pause
means. The `library` run checks safety only and has no fairness.

## 5. Proofs

All theorems hold for any sets of threads and any bounds, unless they say otherwise.

- `ExecutorProofs.TypeInvariant`: `Spec => []TypeOK`, without further assumption. One lemma per group of
  actions; it is what the other proofs take their types from.
- `ExecutorProofs`, under `ResetAlone`:
  `RestoreExclusive`, `RunClosed`, `Inductive` (`Spec => []IndInv`) and `Implementation`
  (`Spec => ImplementsLifecycle`).
  The inductive invariant is `Inv == TypeOK /\ ControlInv /\ ExitInv` (`IndInv` is also checked by
  `executor_control`). `RestoreIsExclusive` alone is not inductive. That at most one cancel is about to
  put a state back needs that the state reads Cancelled meanwhile, hence that nobody else leaves Cancelled:
  `_set_state` refuses, and the `reset()` that could is kept out by `ThreadsInv`. `LogicalInv` says, for
  each step of the owner, whether the logical state is Idle, active or a verdict; it is what makes
  `start()` map to `Start`, the verdict to `Finish` and `reset()` to `Reset`. `ExitInv` ties the Exit
  event to the end of the watcher. The step proof has one lemma per action or group of like actions, each
  showing that the step keeps `Inv` and maps to a step of `Lifecycle` or a stutter.
- `ExecutorProofs.QuietPause`: `ControlSpec => []QuietMeansRest`, when at most one helper exists, for any
  number of clients. The invariant `CalmInv` follows the acknowledgement: while it stands exactly one
  searcher is inside `wait_if_paused()` and no other runs (`CalmAck`); that searcher leaves only when the
  context is cancelled, which only the destructor does, after every call has returned (`CalmSearch`,
  `CalmOwner`); and a client gets past its wait with the state still Pausing or Paused only when it has seen
  the acknowledgement (`CalmCalls`). With two helpers `CalmAck` breaks, which is the finding of
  `executor_parallel_snapshot`.
- `HttpProofs.SelectIsSafe`: `Spec => []SnapshotStaysOpen`. The invariant `PollerInv` adds that what is
  registered is open, that the descriptor just accepted is in neither table, and that there is no
  snapshot outside a round. Reactors cannot disturb any of it, whatever they queue, because only the
  poller closes sockets and it does so with the registration and before the next snapshot.
- `HttpProofs.TypeInvariant`, `UnregisterIsSafe` (`[]UnregisterHitsDead`), `AdmittedStaysPolled`
  (`[]AdmittedIsPolled`) and `NoSocketSurvives` (`[]ShutdownClosesAll`), for any number of clients,
  reactors and descriptors. They share the inductive invariant `SocketInv`. None of the three is
  inductive alone: that an Unregister still means the connection it was queued for needs to know that
  nobody else can have got its descriptor meanwhile, hence where every open socket is. `OwnersInv` says
  it while the server runs: what a table holds belongs to that reactor and is open until its Unregister
  is queued, and it stays one step longer until the table forgets it; a client that was not accepted has
  neither socket nor connection; only dead connections are queued, each once. `SocketsCovered` says it
  at all times: an open socket is about to be handed to a reactor, or queued, or in the table of a
  reactor `close_all()` has still to visit, so that the last drain leaves none.
- `WebSolveProofs`: `TypeInvariant`, `SlotStaysExclusive` (with `ReapIsSafe`), `RecordsHold` and
  `VerdictsStand`, of `Spec`, so for any tasks, callers and streams, with or without a hub, whatever
  throws. They share the invariant `WebInv`. That the slot is
  exclusive needs that a busy task is in the table, where `has_active()` sees it, hence that reaping takes
  only tasks whose worker is done, hence that a caller between `reserve_task()` and the start of the thread
  is the only one with its task (`SpawnsOwn`) and that ids are given out in order (`IdsInOrder`). `Claim`
  says of every place of a worker what its history, state, payload and `finished` are there; it is what
  shows that the compare-and-swap of `commit_completed()` and `commit_failed()` never meets a verdict that
  is already recorded. What other threads do to the state (cancel, pause, resume, shutdown) stays within
  what `Claim` admits at every place.
- `WebSolveProofs.ExitDelivered` (`[]ExitIsDelivered`) and `StreamsAreTold` (`[]StreamSeesEnd`), of a
  service with one task (`OneTask`), for any callers and streams. `ExitInv` counts events: those queued,
  dispatched and being dispatched are those `push()` has counted, and one more while a worker stands between
  its queueing and its counting; so a flush whose target was read by that worker waits for all of them.
  `HubInv` follows the last frame: once the sampler is joined and the flush is over nobody but the worker
  publishes under the key (`QuietInv`), so the terminal frame stays in the hub (`FrameInv`), and a stream has
  subscribed before it, and is sent it, or after it, and replays it (`EndInv`). `OneTask` is necessary. With
  two tasks `push()` of one may be between its queueing and its counting while an event of the other, counted
  and dispatched, lets `processed` reach the target: TLC finds it in a few steps, and section 6 has the
  behaviour. It concerns a cancelled task that overlaps its successor.
- `WebTasksProofs` states the same of the run `web_tasks`, both scenes in full: `TypesStay`, `TasksOverlap`,
  `TaskRecords`, `ExitsArrive`, `StreamHearsEnd`, `TaskVerdicts`. The scene "slots" has any tasks and
  callers, the scene "stream" is the instance of one task.
- `WorkersProofs.JoinsMeanDone` (`[]JoinMeansDone`), from `PoolProofs`, for any workers, callers and chunks.
  `PoolInv`: a task that was pushed is in the queue, with one worker, or settled (`PlacesInv`); `_pending`
  is the number of queued tasks, of workers that hold or have just finished one, and of callers about to
  push, until the last drain, which comes after every worker has left (`CountInv`); who has returned has
  seen its tasks settled (`ReturnInv`). The middle one is what makes reading one counter enough in `wait()`.
- `WorkersProofs.GracefulStopLosesNothing` (`[]GracefulStopDrains`) and `FlushWaitsForAll`
  (`[]QuietFlushSeesAll`), from `LoopProofs`, for any posters, queue bounds and batches. `LoopInv`: an
  entry is in the queue, with the worker, or handled (`EntriesInv`); the worker ends only when asked to, with
  empty hands and the queue drained of what was due (`StopInv`); the two counters of `flush()` are the sizes
  of the sets of entries they stand for (`CountersInv`); and as the queue is first in, first out, what a
  flush waits for is handled before anything posted later (`FlushInv`), so that equal counts mean equal sets.
- `SandboxProofs.SandboxIsSafe`: `WaitTellsTheTruth` and `CheckpointIsOfThisRun` of
  `SandboxSpec`, for any number of runs and calls, every mixture of calls, with runs that fail and a child
  that dies at any step, and with calls that overlap a `start()`. What the two say of a second or later run
  assumes that no call has overlapped a `start()` by then: the code does not order the two, and a `cancel()`
  may then put back the verdict of the run before. Of the first run nothing is assumed, and `SolvePipeline`, which
  publishes the handle before `start()`, starts an executor only once. `SandboxInv` is therefore under
  the condition `Undisturbed`, beyond its types. `WorkersProofs.SandboxIsTruthful` states them of the scenes of `workers`. Nothing
  in a frame says which run it belongs to, so the invariant `SandboxInv` is about what can be under way:
  at most one MsgRun, that of the current run, to an idle child (`RunsInv`); a result only when the child is
  through, once, and nothing but replies behind it (`ResultsInv`); hence, when the reader has a verdict, the
  socket is empty of the run and the next one starts clean (`FreshInv`, `PlacesInv`). A result without
  an output means a cancel that the mirror shows too, whichever of `cancel()` and `set_terminal()`
  exchanged first (`CancelInv`, `Doomed`, `StateInv`). For checkpoints: a MsgSerializeState that the
  child will look at is the last frame sent, its reader waits and with it the caller (`AsksInv`), so the
  answer is the only one and of this run; and as long as a checkpoint is under way or in the caller's hands
  the search is parked and nobody is about to wake it, or the child is dead (`BlobsInv`, `Parked`). Once the
  destructor has begun, only `DestructInv` is kept.
- `WorkersProofs.AbortsAreReported` (`[]AbortIsReported`), for any number of keys and ^C: `AbortInv` keeps
  the flag that every abort leaves until the report, and what the user was told after it.

- `WorkersProofs.PluginsStay` (`PluginsStayOpen`), for any libraries, builtins, tasks and bounds, from
  `CatalogInv`. Three facts carry it. A path is listed once and every algorithm it makes has its name
  (`ListedInv`), so what an unload takes out of the registry is all that could still make executors from the
  library it closes, and nothing else. Whoever is in a library by an executor is a task that runs or was
  cancelled, those that run while a request is past its check came late, and an event in the queue is of such a
  task, of one that failed, or of one whose flush was crowded (`UsersInv`). And events handled and queued are
  those counted and those in the middle of a push (`FlushInv`), so that a `flush()` that began between pushes
  returns after every event queued before it, and one in the middle of a push may not. The
  destructor closes a library when no event is queued: every worker has been joined, hence no push is in
  progress. What is not claimed is in section 6.

- `WorkersProofs.RingsAreQueues` (`Spec => RingsAreFifo`), from `PoolProofs`, for any capacity of at least
  two, any producers and consumers the kind allows and any number of calls: the bounded queues implement
  `Fifo`, initial state and every step, and between calls every slot is ready. A slot of a ring with sequence
  numbers is in one of three places: it waits for the ticket of a coming round, holds the item of a ticket
  that is taken, or is being emptied by one consumer (`SlotsInv`). A ticket between the indices belongs to
  exactly one producer or its item is in its slot (`TicketsInv`, `TakenInv`), and a consumer that claimed one
  is alone with its slot (`HoldersInv`). What a thread saw before its compare-and-swap still holds when that
  succeeds, because an index never comes back to a value it left (`SeenInv`). Two tickets of one slot are a
  multiple of the capacity apart, so within a round they are the same: the lemmas on remainders. The SPSC
  queue has its own invariant (`IndexedInv`): each side's copy of the other index is old, never too large.
  The step that pops is the claim of the ticket, a compare-and-swap or a store of `_read`; the other
  accesses of the call change nothing the abstract queue shows.
- `WorkersProofs.SegmentsAreQueues` (`Spec => SegmentsAreFifo`), from `LoopProofs`, for any block size, any
  producers, any consumers the kind allows, and any number of calls and clears. A ticket has one producer
  until its item is in its slot (`WritersInv`), one consumer once it is claimed (`ReadersInv`), and is neither
  free nor taken between the two (`PhasesInv`), whichever block its threads have walked to. For the walks,
  `BlocksInv` says that who starts over was past its ticket's block, which is linked therefore, and starts at
  or before it; in the MPSC queue, where the walk starts over at the consumer's block, that rests on
  `HeadInv`: `head_block_` never passes a ticket that is in use, `clear()` included. A push is a step of
  `Fifo` where it takes its ticket, a pop where it claims one, before the item is there: the abstract queue
  then shows the item its producer will store. The product of a block's number and its size is the one term
  outside linear arithmetic; `BaseFacts` says all that is needed of it.

A component's proof module is instantiated where its module is, `PoolP` beside `Pool`, and a definition
then has two names. The lemmas called `...Bridge` say that they are equivalent, by expanding both.

Assumptions: the named ASSUMEs of the modules (`ExecutorAssumption`, `HttpAssumption`, `LoopAssumption`,
`PoolAssumption`, `RingAssumption`, `SegmentAssumption`, ...), which say that the sets of threads are disjoint and where needed
finite, bounds are naturals, descriptors are numbers, and a single-sided queue has one thread on that side; and
`ResetAlone` and `OneTask` where stated. The first is the order in which `SolvePipeline` calls `reset()` and
the destructor; without it the code itself breaks the properties (section 6).

Only model-checked:

- all liveness (`WaitReturns`, `PausingSettles`, `WaitersReturn`, `ClientIsHeard`, `DestructorReturns`): fairness and ENABLED are beyond the prover;
- the properties of `library`. Its module instantiates strategies, containers and profiles whose results
  are recursive operators (the bound of DFS, `CheapestPlan`, the pairing of `hamming`, the climb of
  `MergeTable`, the walk over dependencies), and a module that reaches one loses the prover's SMT backend.
  What a strategy computes is an induction over its input besides.

## 6. What the models say about the code

Seven runs refute a sentence of the sources; `PROJECT.json` quotes it under `findings`.

1. `executor_parallel_snapshot`: one acknowledgement flag stands for all pool threads, so a checkpoint
   can be read while others search.
2. `executor_lost_wakeup`: `ExecutionContext` notifies without the mutex; a cancel can fall between the
   worker's test and its wait, and the run never ends.
3. `web_terminal_frame`: the catch block leaves the observer attached, and later events of other tasks
   replace the failed frame.
4. `web_stray_abort`: a cancel frees the slot before it aborts, and aborts the successor.
5. `web_shutdown_hangs`: overlapping solves overwrite the one handle; an executor paused before is out
   of reach and the join waits for ever.
6. `sandbox_lost_error`: a run that does not start is announced by one MsgError. The reader that meets it
   inside a handshake takes it for a refused pause or checkpoint and polls on; the child is idle, the
   mirror stays Pausing and `wait()` never returns. A `cancel()` does not
   help, as the child ignores it outside a run.
7. `search_stale_maxima`: the greatest levels that A* compares a new item with are accumulated over
   everything it has ever expanded, instead of being those of the state that is expanded. A level that
   another branch has reached earns no decrease of `h` then, `g + h` exceeds the bound, and the search ends
   without a plan although there is one.

Further behaviours met while modelling. The models contain them (a property that denied them would fail),
or they lie beside what is modelled; no run is spent on them.

Executor (`domain/algorithm/AlgorithmExecutor.cpp` unless said otherwise):

- `_finalize()` may read the transient Cancelled of a `cancel()` that is about to put Completed back, so
  the Exit event says Cancelled for a run whose verdict is Completed (317).
- The acknowledgement of one pause may still be set when a resume and a second pause follow at once
  (`ExecutionContext.cpp` 29-30): the second pause returns before the algorithm rests.
- `notify_pause_ack()` takes no mutex, so `pause()` can miss it and stay in its wait until another
  notification; the comment at 297-298 says it never hangs.
- A cancel before `start()` stores Idle before it sets `_cancel_pending` (319-321): a start in between
  misses it, and one that sees the transient Cancelled throws. A cancel between `_set_state(Running)` and
  the creation of the context poisons nothing. A run cancelled before its start may end Completed.
- `pause()` re-reads Pausing and flips to Paused in two steps; a resume in between leaves Paused over a
  running search.
- `besq-worker` calls `reset()` while its control thread may be inside `cancel()` of the previous run
  (`AlgorithmExecutor.h` 57-61, `worker/main.cpp` 189-252). With `ResetAlone` FALSE the model has it, and
  neither `RestoreIsExclusive` nor the refinement holds.

Sandbox and command line:

- A pause is acknowledged by the child even when its executor could not pause.
- An intent set after the reader ended leaves its caller waiting; a second cancel, or the plain store of
  `pause()`, can replace a terminal state.
- The handle is published before `simulate()` and `start()` (`SolvePipeline.cpp` 128-145,
  `BesqContext.cpp` 765-767), and the comment at 135-138 says that a cancel of an Idle executor "is recorded
  as pending and still aborts the run". That is so of `AlgorithmExecutor`; `SandboxedExecutor::cancel()` that
  finds its mirror Idle puts Idle back and sends nothing, so an abort before or during the start is lost and
  the run goes on. The model has both.
- Where a child is used for a second run, a `cancel()` that overlaps `start()` may put Completed back over
  Running, a pause that follows an abort is read by the next run, and `wait()` of the second run may hang
  (`Undisturbed`). The program uses no child twice.
- ^C before the handle is published makes the abort a no-op, the control loop ends, and the join waits for
  the whole solve (`CLIApp.cpp` 153-155 says it does not). A handler that passed its gate just before
  `active` is cleared sets a flag nobody reads. An aborted solve is recorded as Completed; a resumed one
  is not recorded.

Web layer:

- `events()` posts the progress of `status()` after it subscribed, so a progress frame may follow the
  terminal frame (`CalculatorController.cpp` 159-168); if the task is reaped in between, the 404 leaves
  the subscription behind.
- The second `pause_solve()` of `pause()` may follow a resume, and freeze a task that reads Running, or
  a cancel, and keep the worker of a cancelled task frozen until shutdown.
- A cancelled task has no terminal frame; a failed commit may replace Cancelled by Failed (the code says
  so), which is why `VerdictIsFinal` allows that one step.
- `flush()` can return early when two producers push at once (`DiagnosticsService.h` 52, `Logger.h` 92).
- A worker of a cancelled task clears the handle of its successor when it ends (`BesqContext.cpp` 581),
  which then cannot be aborted by its own cancel.
- `save_checkpoint()` checks its own task and then serializes the executor that is active by then (611).

HTTP layer:

- A connection that `push_sse_frame()` closes, for its backlog or a failed write, is not handed to
  `remove_connection()`: its descriptor and table entry remain until shutdown, and a new client that is
  given a descriptor still in the table is refused.
- `run()` destroys the reactors before `~WebModule` clears the hub; a worker that publishes in between
  reaches the sink of a reactor that is gone (`WebModule.cpp` 47-62 takes the window for closed).
- At shutdown `close_all()` and a `remove_connection()` under way may both unregister one descriptor, and
  the last drain then closes its number twice (the comment at `unregister_fd` says at most once). The
  poller has ended by then and accepts nothing, so `UnregisterHitsDead` is stated for its life only.
- A frame sink that leaves bytes in the backlog pushes no Interest event: the next frame or heartbeat
  has to flush them. After a reply that ends the connection, unread bytes keep `select()` ready.
- A head over the limit is refused when it arrives in pieces and accepted when it arrives whole
  (`CutShort`). An empty Content-Length means no body.
- `take()` of the rate limiter reads the clock before the word: when another thread stored a later time
  meanwhile, the difference wraps and the bucket is full again (`RateLimiter.cpp` 47 calls it safe;
  `behind`). Two claims of one address may take two slots; a full table resets another's slot.
- `validate_routes` compares the texts of patterns, so two that match the same paths pass and the first
  wins. Errors answer a HEAD with a body. `/publicfoo` goes to the static server. A file is tagged before
  it is read, so a write in between costs one more fetch.

Queues and pools:

- `BoundedMPMCQueue::clear` leaves sequence numbers behind (`BoundedMPSCQueue.hpp` 198-201 explains why
  they must be reset). `SPMCQueue` writes a value before its generation.
- `ThreadPool::enqueue` that passed its check can push after the last drain (90): the future never ends.
- `FlatHashMap`: a table of capacity four or less can fill up, and `find()` of an absent key then never
  ends. `clear()` keeps the values, and `operator[]` returns them (all callers assign). The transposition
  table drops an entry when both buckets are live. `ItemPool::release()` would leave vectors in recycled
  chunks; nothing calls it.

Profiles, SQL, data packs:

- A refused edit or an undo through `from_json` rewrites tags outside the minecraft namespace
  (`ProfileManager.h` 56-58 says untouched); undo can bring back a dependency cycle, and loses the parent
  of a profile; rename does not move the undo log; with no profile `active()` throws.
- REST: the root profile may be renamed away though `remove()` protects it; a refusal for validation
  answers 404; the comment on 409 (`ProfilesController.cpp` 133-135) knows only cycles; removing a
  member leaves it in the active group, whose enchantments then throw in a noexcept function.
- SQL: the table of claimed files starts empty and only SAVE fills it (`SqlSession.cpp` 213-228, `SqlSession.h`
  106). A profile that was loaded from `F_.json` has claimed nothing, so a fork named `F:` is saved over it
  without a word; the loaded profile is not marked dirty, its content is gone from the disk, and a later SAVE of
  it is refused as the collision (`Overwritten`). The guard holds among names the session has saved.
- SQL: a MERGE of an empty profile pushes an undo entry that the session does not count
  (`SqlExecutor.cpp` 1461, `SqlSession.cpp` 145, 163), which is why passing scenes set `MergesEmpty` to
  FALSE. A deleted tag leaves its values, and a new row of that id reads them (666-668 says otherwise).
  COPY of equipment without its category writes an empty one. After write, SAVE and UNDO the status is
  dirty with no difference. FORK, SAVE and UNDO leave the file.
- `add_tag` of the resolver forgets only its own cached expansion. `EnchantmentRegistry` loses the pairs
  that other entries declared when one is replaced (`EnchantmentRegistry.h` 31).
- `build_tag_resolver` lets the last source that knows a tag win, and every pack knows the built-in ones:
  a higher pack resets another's extension of a vanilla tag. Merged views replace whole rows, so of two
  packs that extend one enchantment the upper one's extension stays (`merge_ench` 55-62 promises no
  narrowing). `diff` never reports Modified: the operators compare ids only (`EnchInfo.h` 41).
- A partial row before the complete one of its id is dropped, and merged when the batch is loaded again.
  An item whose category is a registered tag does not survive the round trip. A level below a given
  `limited_level` may come from another pack. References of a merged file to the profile's own items are
  dropped. `LimitedLevelCalculator.cpp` 13 says floor(e/4), line 18 divides exactly.
- A pack that declares exclusives of one vanilla enchantment again loads, and `Profile::validate()` then
  refuses every edit of it.
- `CompactAdapter`: only conflicts with earlier numbers are kept in `exc_mask`; of the registry only the
  first 64 ids are considered; equipment with an enchantment of the other platform passes validation and
  loses it; levels and penalties are narrowed to 8 bits; a plain book comes back as an enchanted one.

Strategies and plugins:

- DFS and IDA* prune with `g + h >= best_cost`, where the bound comes from a greedy plan that is never
  recorded: where the greedy plan is the optimum DFS says Complete without a plan and IDA* finds none. A
  DFS that resumes does not report again what it found before; a cancelled one with a bound says Complete.
  A* reports a time-out as no solution.
- `bb_dp` with ignored penalties still uses them in its cap test and its bound. `hamming` swaps without
  `is_forgeable` (`HammingAlgorithm.cpp` 201-212), and `merge_wastes_target` takes a target for unreachable
  that is not when incompatibilities are ignored. `simulate()` calls an inventory of equipment
  unreachable. `penalty_balance` and DFS read the first of no items; it returns silently on a cancel.
- Sums of penalties above 30 steps overflow 32 bits; the models stay below.
- `AlgorithmController::unload` checks for a running solve before the gate and a solve makes its executor
  without it, so a solve in between, a cancelled task that unwinds, or an event a failed task left queued
  may use a library that is closed (the comment at 79-88 says the solve fails cleanly; `late`). Nor does it
  know of a control call that still has a copy of the handle, whose executor is destroyed by it after the
  library is gone. A plugin may replace a built-in strategy of its name, and unloading it removes both.
- The `flush()` after a solve compares two counters (`DiagnosticsService.cpp` 44-48), and `push()` queues
  before it counts (`DiagnosticsService.h` 30-35): while another push stands between the two, of a cancelled
  task that unwinds or of a control call, flush returns with the task's own diagnostics still queued, and an
  unload of the completed task's plugin closes the library of their class (`crowded`).
- An event is counted as processed (166) before it is destroyed, so even an exact flush may return while the
  destructor of the last event runs in a library that is then closed, by an unload or by
  `~AlgorithmLoader`, whose comment (`AlgorithmLoader.cpp` 84-87) takes the flush for enough. The model has
  the destructor (`dying`); no property is claimed of it.

## 7. Not modelled, and why

- Command line arguments, output, JSON, i18n, the C interface, codecs, the texts of logs and frames: no
  state outlives a call and no property is about the wording.
- `SqlParser` and the parsers of data files: a statement or a row is taken as parsed. `SqlSession` has the
  statements that write; queries change nothing.
- `save_checkpoint()` and the body of `status()`: section 6 says what was read. The checkpoint itself is in
  the strategies' scenes.
- The parallel layers of `bb_dp` and `dp_merge`: `MergeTable` computes a layer in one step; the threads
  that share it are `Executor`'s helpers and `ThreadPool`'s loops.
- Memory reclamation: objects whose lifetime the code guards by `shared_ptr` are taken to live as long
  as they are referred to; where that is a hazard (the sink of a destroyed reactor) it is in section 6.
- The operating system's part of the sandbox (seccomp, job objects, limits): a death at any time is what
  it may do to the protocol.

## 8. Plan

Order by importance; modules to be proved about use no recursive operators.

1. Done: `Lifecycle`, `Executor`, their refinement, model-checked and proved.
2. Done: `Diagnostics`, `SseHub`, `SolveContext`, composed in `WebSolve`.
3. Done: `Connection`, `HttpServer`, its safety proved; `RequestStream`, `StaticFiles`,
   `RateLimiter`.
4. Done: queues, `EventLoop`, `ThreadPool`, `Logger`; the queues implement `Fifo`.
5. Done: `Sandbox` and `SolveControl`, by invariants and liveness.
6. Done: profiles, SQL, packs, adapter, strategies, plugins.
7. Done: proofs for the executor, the server, the web service with its streams and flush, the pool, the
   loop and the logger, the sandbox, the command line, the plugins and the queues.
8. Left to prove: `CleanIsSaved`, in a run that reaches no recursive operator.
9. Left to model: the sandbox as a refinement of `Lifecycle`; the steps of `CompactAdapter::recall` in the
   scenes of the strategies; the parallel layers as steps; queries of SQL.

Components that do not interact share a configuration through a module whose initial state chooses
between them, so that the set of runs stays small.

## 9. Running it

    tlc -workers 2 -config executor_control.cfg MCExecutorControl
    tlc -workers 2 -config executor_lost_wakeup.cfg Executor
    tlc -workers 2 -config web_tasks.cfg MCWebTasks
    tlc -workers 2 -config web_stray_abort.cfg WebSolve
    tlc -workers 2 -config http.cfg HttpServer
    tlc -workers 2 -config sandbox_lost_error.cfg Sandbox
    tlc -workers 2 -config workers.cfg MCWorkers
    tlc -workers 2 -config library.cfg MCLibrary
    tlc -workers 2 -config search_stale_maxima.cfg MCSearch
    tlapm ExecutorProofs.tla
    tlapm HttpProofs.tla
    tlapm WebSolveProofs.tla
    tlapm WebTasksProofs.tla
    tlapm PoolProofs.tla
    tlapm LoopProofs.tla
    tlapm SandboxProofs.tla
    tlapm WorkersProofs.tla

Each run ends within five minutes; the longest are `workers` and `web_tasks`.
