------------------------------ MODULE MCWorkers ------------------------------
(* The components that move work between threads and processes, each on     *)
(* small instances: a behaviour is in one scene from its first state on.    *)
(*   "log"     the logger on an unbounded loop that is stopped              *)
(*   "loop"    a loop with a queue of one entry, posted to in batches       *)
(*   "pool"    a thread pool, a parallel loop and a thread in wait()        *)
(*   "stop"    two parallel loops while the pool is stopped                 *)
(*   "handshake" "rerun" "crash"   the sandboxed executor under every call: *)
(*             two calls in one run or in two, and one call in two runs     *)
(*             where runs fail and workers die, as in the first             *)
(*   "console" the command line while it solves, with three keys or ^C      *)
(*   "plugins" libraries loaded and unloaded while tasks run their code,    *)
(*   "diagnostics" "control" and one library whose diagnostics are queued,  *)
(*             by two tasks or by one and by the control calls              *)
(*   "MPMC" "MPSC" "SPSC"   the bounded queues                              *)
(*   "SegmentedMPMC" "SegmentedMPSC"   the unbounded ones                   *)
EXTENDS Naturals, Sequences, TLC

CONSTANTS
  Posting,         \* the threads that post to the loop or log
  Capacity, Sizes, \* of the queue of the loop "loop", and of the batches posted to it
  Posts,           \* bound: posting calls per thread
  Working,         \* the workers of the pool
  Joiners, Parts,  \* the callers of a parallel loop in "pool", and its chunks
  Racers, Shares,  \* those in "stop", and their chunks
  Inputs,          \* bound: keys and ^C pressed on the command line
  Solves,          \* the tasks that run algorithms of plugins
  Natives,         \* the names of the algorithms that are built in
  Libraries,       \* the plugins' libraries, as Binaries of PluginCatalog
  Situations,      \* their bounds, as Bounds of PluginCatalog
  RingSize,        \* the capacity of the bounded queues
  SegmentSize,     \* of the blocks of the unbounded ones, by kind
  QueueProducers, QueueConsumers,    \* the threads that use them, by kind
  PushCalls, PopCalls,   \* bounds, by kind: calls per thread, but pushes of all
                         \* the producers where the queue is unbounded
  Clearing         \* the kinds that somebody clears

VARIABLES
  scene, at, calls, fresh, held,
  entries, running, stopping, todo, pushed, named, handled, due, force, counted, processed,
  target, owed,
  tickets, pendingTasks, stopped, stopAsked, first, next, future, runs, before,
  state, output, pausing, saving, blob, wake, shut, run, prev, final, waited, cancels, saved,
  slips, alive, down, up, exec, poisoned, busy, job, ended,
  active, sticky, slot, paused, handle, outcome, record, told,
  sandbox, registry, sandboxed, plugins, mapped, task, instance, handles, awaited, late, crowded,
  events, dying, pushing, reported, dispatched, serving, asked,
  write, read, seq, cell, pc, pos, got,
  last, head, tail, block

loopOnly == <<entries, running, stopping, todo, pushed, named, handled, due, force, counted,
              processed, target, owed>>
poolOnly == <<tickets, pendingTasks, stopped, stopAsked, first, next, future, runs, before>>
mirrorOnly == <<state, output, pausing, saving, blob, wake, shut, run, prev, final, waited,
                cancels, saved, slips, alive, down, up, ended>>
searching == <<exec, poisoned, busy, job>>
sandboxOnly == <<mirrorOnly, searching>>
consoleOnly == <<active, sticky, slot, paused, handle, outcome, record, told>>
catalogOnly ==
  <<sandbox, registry, sandboxed, plugins, mapped, task, instance, handles, awaited, late, crowded,
    events, dying, pushing, reported, dispatched, serving, asked>>
ringOnly == <<write, read, seq, cell, pc, pos, got>>
blocksOnly == <<last, head, tail, block>>
queueOnly == <<ringOnly, blocksOnly>>
threadsOnly == <<at, calls, fresh, held, loopOnly, poolOnly, sandboxOnly, consoleOnly>>
vars == <<scene, threadsOnly, catalogOnly, queueOnly>>
loopVars == <<at, calls, fresh, held, loopOnly>>
poolVars == <<at, fresh, held, poolOnly>>
mirrorVars == <<at, calls, sandboxOnly>>
consoleVars == <<at, calls, searching, consoleOnly>>

Log   == INSTANCE EventLoop WITH Posters <- Posting, Bound <- 0, Batches <- {1},
                                 MayStop <- TRUE
Loop  == INSTANCE EventLoop WITH Posters <- Posting, Bound <- Capacity, Batches <- Sizes,
                                 MayStop <- FALSE
Pool  == INSTANCE ThreadPool WITH Workers <- Working, Callers <- Joiners, Chunks <- Parts,
                                  HasWaiter <- TRUE, MayStop <- FALSE
Stop  == INSTANCE ThreadPool WITH Workers <- Working, Callers <- Racers, Chunks <- Shares,
                                  HasWaiter <- FALSE, MayStop <- TRUE
AllOps == {"pause", "resume", "cancel", "serialize"}
Handshake == INSTANCE Sandbox WITH Runs <- 1, Calls <- 2, Ops <- AllOps, Chatter <- 1,
                                   MayFail <- TRUE, MayDie <- TRUE
Rerun == INSTANCE Sandbox WITH Runs <- 2, Calls <- 2, Ops <- AllOps, Chatter <- 0,
                               MayFail <- FALSE, MayDie <- FALSE
Crash == INSTANCE Sandbox WITH Runs <- 2, Calls <- 1, Ops <- AllOps, Chatter <- 0,
                               MayFail <- TRUE, MayDie <- TRUE
Console == INSTANCE SolveControl
Plugins == INSTANCE PluginCatalog WITH setting <- scene, pushed <- reported, handled <- dispatched,
                                       Tasks <- Solves, Builtin <- Natives, Binaries <- Libraries,
                                       Bounds <- Situations
Ring == INSTANCE RingQueue WITH kind <- scene, Capacity <- RingSize,
                                Producers <- QueueProducers, Consumers <- QueueConsumers,
                                Pushes <- PushCalls, Pops <- PopCalls, Cleared <- Clearing
Seg == INSTANCE SegmentedQueue WITH kind <- scene, enq <- write, deq <- read, phase <- seq,
                                    begun <- calls, BlockSize <- SegmentSize,
                                    Producers <- QueueProducers, Consumers <- QueueConsumers,
                                    Pushes <- PushCalls, Pops <- PopCalls, MayClear <- TRUE

(* Two plugins of the name of a builtin, one that only runs in the sandbox, *)
(* one that is refused and one that fails to load.                          *)
Binary(name, audit, probe) == [name |-> name, audit |-> audit, probe |-> probe]
SomeLibraries ==
  ("p" :> Binary("dp", "clean", TRUE)) @@ ("q" :> Binary("dp", "clean", TRUE))
    @@ ("x" :> Binary("x", "dangerous", TRUE)) @@ ("r" :> Binary("z", "refused", TRUE))
    @@ ("f" :> Binary("z", "clean", FALSE))

(* All of them for the loader; with diagnostics one library and two tasks,  *)
(* or one task that is controlled while it solves.                          *)
Situation(files, boxed, tasks, calling, pushes) ==
  [files |-> files, sandbox |-> boxed, tasks |-> tasks, calls |-> calling, pushes |-> pushes]
SomeSituations ==
  ("plugins" :> Situation(DOMAIN SomeLibraries, TRUE, 2, 0, 0))
    @@ ("diagnostics" :> Situation({"p"}, FALSE, 2, 0, 2))
    @@ ("control" :> Situation({"p"}, FALSE, 1, 1, 2))

(* Enough calls for every index to pass the end of the ring, and to leave   *)
(* blocks behind, and for tickets to be taken while all slots are; two      *)
(* threads on a side where the name of the queue allows it, but for the     *)
(* producers of the segmented MPMC queue.                                   *)
ByKind(mpmc, mpsc, spsc, smpmc, smpsc) ==
  ("MPMC" :> mpmc) @@ ("MPSC" :> mpsc) @@ ("SPSC" :> spsc)
    @@ ("SegmentedMPMC" :> smpmc) @@ ("SegmentedMPSC" :> smpsc)
SomeSizes == ("SegmentedMPMC" :> 1) @@ ("SegmentedMPSC" :> 2)
SomePushers == ByKind({"p", "q"}, {"p", "q"}, {"p"}, {"p"}, {"p", "q"})
SomePoppers == ByKind({"c", "d"}, {"c"}, {"c"}, {"c", "d"}, {"c"})
SomePushes == ByKind(2, 2, 4, 2, 3)
SomePops == ByKind(1, 3, 4, 2, 3)

ASSUME WorkersAssumption ==
  /\ Log!LoopAssumption /\ Loop!LoopAssumption
  /\ Pool!PoolAssumption /\ Stop!PoolAssumption
  /\ Plugins!CatalogAssumption
  /\ Ring!RingAssumption /\ Seg!SegmentAssumption

NoLoop ==
  /\ entries = 0 /\ running = 0 /\ stopping = 0 /\ todo = 0 /\ pushed = 0 /\ named = 0
  /\ handled = 0 /\ due = 0 /\ force = 0 /\ counted = 0 /\ processed = 0 /\ target = 0 /\ owed = 0
NoPool ==
  /\ tickets = 0 /\ pendingTasks = 0 /\ stopped = 0 /\ stopAsked = 0 /\ first = 0 /\ next = 0
  /\ future = 0 /\ runs = 0 /\ before = 0
NoMirror ==
  /\ state = 0 /\ output = 0 /\ pausing = 0 /\ saving = 0 /\ blob = 0 /\ wake = 0 /\ shut = 0
  /\ run = 0 /\ prev = 0 /\ final = 0 /\ waited = 0 /\ cancels = 0 /\ saved = 0 /\ slips = 0
  /\ alive = 0 /\ down = 0 /\ up = 0 /\ ended = 0
NoSandbox == NoMirror /\ exec = 0 /\ poisoned = 0 /\ busy = 0 /\ job = 0
NoConsole ==
  /\ active = 0 /\ sticky = 0 /\ slot = 0 /\ paused = 0 /\ handle = 0 /\ outcome = 0
  /\ record = 0 /\ told = 0
NoCatalog ==
  /\ sandbox = 0 /\ registry = 0 /\ sandboxed = 0 /\ plugins = 0 /\ mapped = 0 /\ task = 0
  /\ instance = 0 /\ handles = 0 /\ awaited = 0 /\ late = 0 /\ crowded = 0 /\ events = 0
  /\ dying = 0 /\ pushing = 0 /\ reported = 0 /\ dispatched = 0 /\ serving = 0 /\ asked = 0
NoRing ==
  /\ write = 0 /\ read = 0 /\ seq = 0 /\ cell = 0 /\ pc = 0 /\ pos = 0 /\ got = 0
NoBlocks == last = 0 /\ head = 0 /\ tail = 0 /\ block = 0
NoQueue == NoRing /\ NoBlocks

WorkersInit ==
  \/ scene = "log"  /\ Log!LoggerInit  /\ NoPool /\ NoSandbox
  \/ scene = "loop" /\ Loop!LoggerInit /\ NoPool /\ NoSandbox
  \/ scene = "pool" /\ Pool!PoolInit /\ calls = 0 /\ NoLoop /\ NoSandbox
  \/ scene = "stop" /\ Stop!PoolInit /\ calls = 0 /\ NoLoop /\ NoSandbox
  \/ scene \in {"handshake", "rerun", "crash"} /\ Handshake!SandboxInit /\ fresh = 0 /\ held = 0
       /\ NoLoop /\ NoPool

Init ==
  \/ WorkersInit /\ NoConsole /\ NoCatalog /\ NoQueue
  \/ scene = "console" /\ Console!ControlInit /\ fresh = 0 /\ held = 0
       /\ NoLoop /\ NoPool /\ NoMirror /\ NoCatalog /\ NoQueue
  \/ Plugins!CatalogInit /\ at = 0 /\ calls = 0 /\ fresh = 0 /\ held = 0
       /\ NoLoop /\ NoPool /\ NoSandbox /\ NoConsole /\ NoQueue
  \/ /\ (Ring!RingInit /\ NoBlocks) \/ Seg!SegmentInit
     /\ at = 0 /\ fresh = 0 /\ held = 0
     /\ NoLoop /\ NoPool /\ NoSandbox /\ NoConsole /\ NoCatalog

Elsewhere == scene' = scene /\ UNCHANGED queueOnly
InLoop == Elsewhere /\ UNCHANGED <<poolOnly, sandboxOnly, consoleOnly, catalogOnly>>
InPool == Elsewhere /\ UNCHANGED <<calls, loopOnly, sandboxOnly, consoleOnly, catalogOnly>>
InSandbox == Elsewhere /\ UNCHANGED <<fresh, held, loopOnly, poolOnly, consoleOnly, catalogOnly>>
InConsole == Elsewhere /\ UNCHANGED <<fresh, held, loopOnly, poolOnly, mirrorOnly, catalogOnly>>
InCatalog == Elsewhere /\ UNCHANGED threadsOnly
InQueue ==
  UNCHANGED <<at, fresh, held, loopOnly, poolOnly, sandboxOnly, consoleOnly, catalogOnly>>

Next ==
  \/ scene = "log"  /\ Log!LoggerNext /\ InLoop
  \/ scene = "loop" /\ Loop!LoggerNext /\ InLoop
  \/ scene = "pool" /\ Pool!PoolNext /\ InPool
  \/ scene = "stop" /\ Stop!PoolNext /\ InPool
  \/ scene = "handshake" /\ Handshake!SandboxNext /\ InSandbox
  \/ scene = "rerun" /\ Rerun!SandboxNext /\ InSandbox
  \/ scene = "crash" /\ Crash!SandboxNext /\ InSandbox
  \/ scene = "console" /\ Console!ControlNext /\ InConsole
  \/ scene \in Plugins!Settings /\ Plugins!CatalogNext /\ InCatalog
  \/ scene \in Ring!Kinds /\ Ring!RingNext /\ InQueue /\ UNCHANGED blocksOnly
  \/ scene \in Seg!Kinds /\ Seg!SegmentNext /\ InQueue

(* The fairness of each module, in its scenes. The bound of the queue is the *)
(* only constant the fair steps of the two loops depend on, MayFail that of  *)
(* the sandboxed executors; the pools' do not differ.                       *)
Logging == scene \in {"log", "loop"}
LoopFairness ==
  /\ WF_loopVars(Logging /\ (IF scene = "log" THEN Log!WorkerNext ELSE Loop!WorkerNext)
             /\ InLoop /\ UNCHANGED <<target, owed>>)
  /\ WF_loopVars(Logging /\ Log!OwnerNext /\ InLoop /\ UNCHANGED <<target, owed>>)
  /\ \A p \in Posting :
       WF_loopVars(Logging /\ (IF scene = "log" THEN Log!PosterNext(p) ELSE Loop!PosterNext(p))
               /\ InLoop /\ UNCHANGED <<target, owed>>)

Pooled == scene \in {"pool", "stop"}
PoolFairness ==
  /\ \A c \in Joiners : WF_poolVars(scene = "pool" /\ Pool!CallerNext(c) /\ InPool)
  /\ \A c \in Racers : WF_poolVars(scene = "stop" /\ Stop!CallerNext(c) /\ InPool)
  /\ \A w \in Working : WF_poolVars(Pooled /\ Pool!WorkerNext(w) /\ InPool)
  /\ WF_poolVars(Pooled /\ (Pool!WaiterNext \/ Pool!StopNext) /\ InPool)

Sandboxed == scene \in {"handshake", "rerun", "crash"}
SandboxFairness ==
  /\ WF_mirrorVars(Sandboxed /\ (Rerun!BeginRun \/ Rerun!WaitReturns) /\ InSandbox)
  /\ WF_mirrorVars(Sandboxed /\ Rerun!CallerNext /\ InSandbox)
  /\ WF_mirrorVars(Sandboxed /\ Rerun!ReaderNext /\ InSandbox)
  /\ WF_mirrorVars(Sandboxed /\ (IF scene = "rerun" THEN Rerun!ServeNext ELSE Crash!ServeNext) /\ InSandbox)
  /\ WF_mirrorVars(Sandboxed /\ Rerun!ControlNext /\ InSandbox)
  /\ WF_mirrorVars(Sandboxed /\ Rerun!SearchEnds /\ InSandbox)

ConsoleFairness ==
  /\ WF_consoleVars(scene = "console" /\ Console!LoopNext /\ InConsole)
  /\ WF_consoleVars(scene = "console" /\ Console!SolverNext /\ InConsole)
  /\ WF_consoleVars(scene = "console" /\ Console!SearchEnds /\ InConsole)

Spec ==
  /\ Init /\ [][Next]_vars
  /\ LoopFairness /\ PoolFairness /\ SandboxFairness /\ ConsoleFairness

-----------------------------------------------------------------------------
(* The properties of each module, in its scenes.                            *)
\* EventLoop::stop() without force loses no entry posted before it.
GracefulStopDrains == scene = "log" => Log!GracefulStopDrains

\* Logger::flush() with no log() in progress waits for every entry.
QuietFlushSeesAll == Logging => Log!QuietFlushSeesAll

\* ThreadPool: _pending never misses a task that is queued or claimed, and
\* parallel_for_stoppable and wait() return only when the chunks that use the
\* caller's locals, and the tasks submitted before, are over.
JoinMeansDone ==
  /\ Pooled => Pool!PendingCoversTasks
  /\ scene = "pool" => Pool!FrameOutlivesChunks /\ Pool!WaitMeansDone
  /\ scene = "stop" => Stop!FrameOutlivesChunks

\* SandboxedExecutor: output() after a Completed wait() and a checkpoint are
\* those of the run they were asked of.
SandboxTellsTheTruth == Sandboxed => Rerun!WaitTellsTheTruth /\ Rerun!CheckpointIsOfThisRun

\* run_solve_control_loop: an abort that reached the search is reported as one.
AbortIsReported == scene = "console" => Console!AbortIsReported

\* AlgorithmLoader: the library of a factory is open; and one is closed under
\* an executor or a queued diagnostic only by an unload request, of a task that
\* has_active() does not know of or whose flush() another push misled.
PluginsStayOpen ==
  /\ [](scene \in Plugins!Settings => Plugins!FactoriesAreOpen)
  /\ [][(scene \in Plugins!Settings => Plugins!ClosedWhenIdle)]_vars

\* The bounded queues implement Fifo: no interleaving of claims, stores and
\* sequence numbers, and no clear(), loses an item, hands it out twice or lets
\* one overtake another; and when nobody is inside, every slot is ready for its
\* next user, so that a queue that reports full or empty is.
RingsAreFifo ==
  /\ scene \in Ring!Kinds => Ring!QueueStarts
  /\ [][(scene \in Ring!Kinds => Ring!QueueSteps)]_vars
  /\ [](scene \in Ring!Kinds => Ring!QuietSlotsAgree)

\* The segmented queues implement Fifo: no interleaving of tickets, blocks and
\* stores, and no clear(), loses an item, hands it out twice or lets one
\* overtake another; and a walk that starts over never leaves the list.
SegmentsAreFifo ==
  /\ scene \in Seg!Kinds => Seg!SegmentsStart
  /\ [][(scene \in Seg!Kinds => Seg!SegmentsStep)]_vars
  /\ [](scene \in Seg!Kinds => Seg!WalksStayInside)

\* Who waits comes back. EventLoop: an entry that was published, to _run, which
\* never sleeps through it. ThreadPool: without stop(), the callers of
\* parallel_for_stoppable and wait(), which nobody leaves asleep.
\* SandboxedExecutor: the destructor, whatever is called, fails or dies; and
\* wait(), but for a run that is left paused, for the MsgError of a run that a
\* handshake has taken (the run sandbox_lost_error) and for a second run when a
\* call has overlapped a start(). The command line: run_solve_control_loop,
\* unless it leaves the run paused.
WaitersReturn ==
  /\ \A p \in Posting : []<>(Logging => Log!NothingWaits(p))
  /\ []<>(scene = "pool" => (\A c \in Joiners : Pool!Returned(c)) /\ Pool!WaiterBack)
  /\ []<>(Sandboxed => ~Rerun!Destroying
             /\ (Rerun!OutOfWait \/ Rerun!ErrorLost \/ ~Rerun!Undisturbed))
  /\ []<>(scene = "console" => Console!Settled)
=============================================================================
