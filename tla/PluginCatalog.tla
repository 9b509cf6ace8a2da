---------------------------- MODULE PluginCatalog ----------------------------
(* domain/algorithm/plugin/AlgorithmLoader with its registry: algorithms    *)
(* built in and from shared libraries, in this process or in a sandbox, and *)
(* the solves of the web service that hold instances of them, and queue      *)
(* diagnostics of their classes, while a client asks to unload a plugin.    *)
EXTENDS Naturals, Sequences, FiniteSets, SequencesExt, Functions

CONSTANTS
  Tasks,
  Builtin,   \* names that besq_register_builtin_strategies() registers
  Binaries,  \* path |-> [name, audit: clean, dangerous or refused, probe: succeeds]
  Bounds     \* by setting, [files: paths found, sandbox: may it be enabled; and how many
             \* tasks are submitted, control calls overlap, diagnostics are pushed]

VARIABLES
  setting,   \* which of these this is; it never changes
  sandbox,   \* _sandbox_enabled
  registry,  \* _registry: name |-> the path of the factory's library, or Kernel
  sandboxed, \* _sandboxed: name |-> path
  plugins,   \* _plugins, as [name, path]; it has a handle unless in the sandbox
  mapped,    \* libraries that are open in this process
  task,      \* Task::state; "none" before submission
  instance,  \* the library that each task's executor runs, Kernel or Remote; None
             \* before solve() has made it, Returned after, Gone at the end
  handles,   \* copies of the executor's handle in control calls, as <<library, task>>
  events,    \* queued diagnostics, as <<library of their code, task>>, oldest first
  dying,     \* the one that was handled and counted, while its destructor runs
  pushing,   \* pushes that have queued their event and not yet counted it
  pushed, handled,  \* _enqueued and _processed of the diagnostics service
  awaited,   \* the value of _enqueued each task's flush() waits for, if it has begun
  serving,   \* the loader and the service have not been destroyed
  asked,     \* an unload request is past has_active()
  late,      \* history: unfinished tasks that were submitted while one was
  crowded    \* history: tasks whose flush() began in the middle of a push

loaderVars == <<registry, sandboxed, plugins, mapped>>
diagnosticVars == <<events, dying, pushing, pushed, handled>>
taskVars == <<task, instance, handles, awaited, late, crowded>>
catalogVars == <<setting, sandbox, loaderVars, diagnosticVars, taskVars, serving, asked>>

Kernel == "kernel"
Remote == "remote"
None == "none"
Returned == "returned"
Gone == "gone"
Paths == DOMAIN Binaries

Settings == {"plugins", "diagnostics", "control"}
Bound == Bounds[setting]

\* No path is one of these marks.
CatalogAssumption == Paths \cap {Kernel, Remote, None, Returned, Gone} = {}
Extended(f, x, y) == [z \in DOMAIN f \cup {x} |-> IF z = x THEN y ELSE f[z]]
Dropped(f, names) == Restrict(f, DOMAIN f \ names)
Names == DOMAIN registry \cup DOMAIN sandboxed

PluginsOf(n) == {i \in DOMAIN plugins : plugins[i].name = n}
First(i, n) == i \in PluginsOf(n) /\ \A j \in PluginsOf(n) : i <= j

\* load_plugin() up to where it registers: a path is loaded once, the audit
\* has to pass, and nothing dangerous runs outside of the sandbox.
Admitted(p) ==
  /\ \A i \in DOMAIN plugins : plugins[i].path # p
  /\ Binaries[p].audit = "clean" \/ (sandbox /\ Binaries[p].audit = "dangerous")
  /\ Binaries[p].probe
  /\ sandbox => Binaries[p].name \notin Names

\* A library in this process takes the name over from whoever has it.
LoadPlugin(p) ==
  /\ serving /\ p \in Bound.files /\ Admitted(p)
  /\ plugins' = Append(plugins, [name |-> Binaries[p].name, path |-> p])
  /\ IF sandbox
     THEN sandboxed' = Extended(sandboxed, Binaries[p].name, p) /\ UNCHANGED <<registry, mapped>>
     ELSE /\ registry' = Extended(registry, Binaries[p].name, p)
          /\ mapped' = mapped \cup {p} /\ UNCHANGED sandboxed
  /\ UNCHANGED <<setting, sandbox, serving, diagnosticVars, taskVars, asked>>

\* AlgorithmController::unload() looks for an active task before it takes the gate.
Active == \E t \in Tasks : task[t] = "running"
AskUnload ==
  /\ serving /\ ~asked /\ ~Active /\ asked' = TRUE
  /\ UNCHANGED <<setting, sandbox, serving, loaderVars, diagnosticVars, taskVars>>

\* Mutant: the library goes, its factory stays.
Removed_KeepsFactory(i) ==
  /\ plugins' = RemoveAt(plugins, i) /\ mapped' = mapped \ {plugins[i].path}
  /\ UNCHANGED <<registry, sandboxed>>

\* unload() takes the first plugin of the name and unregisters the name.
Removed(i) ==
  /\ plugins' = RemoveAt(plugins, i) /\ mapped' = mapped \ {plugins[i].path}
  /\ registry' = Dropped(registry, {plugins[i].name})
  /\ sandboxed' = Dropped(sandboxed, {plugins[i].name})

\* The rest of the request; a name that is unknown or built in is refused.
Unload(n) ==
  /\ asked /\ asked' = FALSE
  /\ IF n \in Names /\ PluginsOf(n) # {}
     THEN \E i \in DOMAIN plugins : First(i, n) /\ Removed(i)
     ELSE UNCHANGED loaderVars
  /\ UNCHANGED <<setting, sandbox, serving, diagnosticVars, taskVars>>

Submit(t) ==
  /\ serving /\ task[t] = "none" /\ ~Active
  /\ Cardinality({s \in Tasks : task[s] # "none"}) < Bound.tasks
  /\ \A s \in Tasks : task[s] = "none" => t <= s
  /\ task' = [task EXCEPT ![t] = "running"]
  /\ late' = IF asked THEN late \cup {t} ELSE late
  /\ UNCHANGED <<setting, sandbox, serving, loaderVars, diagnosticVars, instance, handles, awaited, asked, crowded>>

Unfinished(t) == task[t] \in {"running", "cancelled"}
Solving(t) == instance[t] \notin {None, Returned, Gone}

\* create_executor(), which the worker calls without the gate; before it, the
\* worker's first flush() only waits.
Create(t, n) ==
  /\ Unfinished(t) /\ instance[t] = None /\ n \in Names
  /\ instance' = [instance EXCEPT ![t] = IF sandbox /\ n \in DOMAIN sandboxed THEN Remote ELSE registry[n]]
  /\ UNCHANGED <<setting, sandbox, serving, loaderVars, diagnosticVars, task, handles, awaited, asked, late, crowded>>

\* push() queues the event; only then it counts it. Of the solver's events, the
\* Exit event has the diagnostics of the algorithm, of a class of its library;
\* those of pause(), resume() and cancel() have none.
Push(who, t, code) ==
  /\ pushed + Cardinality(pushing) < Bound.pushes
  /\ <<who, t>> \notin pushing /\ pushing' = pushing \cup {<<who, t>>}
  /\ events' = Append(events, <<code, t>>)
  /\ UNCHANGED <<setting, sandbox, serving, loaderVars, taskVars, dying, pushed, handled, asked>>

Emit(t) ==
  \/ Solving(t) /\ instance[t] # Remote /\ Push("solver", t, instance[t])
  \/ (\E h \in handles : h[2] = t) /\ Push("client", t, Kernel)

Count(w) ==
  /\ w \in pushing /\ pushing' = pushing \ {w} /\ pushed' = pushed + 1
  /\ UNCHANGED <<setting, sandbox, serving, loaderVars, taskVars, events, dying, handled, asked>>

\* The handler owns the event: it counts it as processed and then destroys it.
Dispatch ==
  /\ events # <<>> /\ dying = {}
  /\ events' = Tail(events) /\ dying' = {Head(events)} /\ handled' = handled + 1
  /\ UNCHANGED <<setting, sandbox, serving, loaderVars, taskVars, pushing, pushed, asked>>

Destruct ==
  /\ dying # {} /\ dying' = {}
  /\ UNCHANGED <<setting, sandbox, serving, loaderVars, taskVars, events, pushing, pushed, handled, asked>>

Cancel(t) ==
  /\ task[t] = "running" /\ task' = [task EXCEPT ![t] = "cancelled"]
  /\ UNCHANGED <<setting, sandbox, serving, loaderVars, diagnosticVars, instance, handles, awaited, asked, late, crowded>>

\* abort_solve(), pause_solve(), ...: the executor lives while a call has its handle.
Borrow(t) ==
  /\ Solving(t) /\ instance[t] # Remote /\ Cardinality(handles) < Bound.calls
  /\ handles' = handles \cup {<<instance[t], t>>}
  /\ UNCHANGED <<setting, sandbox, serving, loaderVars, diagnosticVars, task, instance, awaited, asked, late, crowded>>

GiveBack(h) ==
  /\ h \in handles /\ <<"client", h[2]>> \notin pushing /\ handles' = handles \ {h}
  /\ UNCHANGED <<setting, sandbox, serving, loaderVars, diagnosticVars, task, instance, awaited, asked, late, crowded>>

\* solve() returns: the worker has let go of its executor.
Return(t) ==
  /\ Solving(t) /\ <<"solver", t>> \notin pushing
  /\ instance' = [instance EXCEPT ![t] = Returned]
  /\ UNCHANGED <<setting, sandbox, serving, loaderVars, diagnosticVars, task, handles, awaited, asked, late, crowded>>

\* A task that is cancelled before solve() skips it, and where anything throws
\* (an unknown name does) the task fails, even a cancelled one, with no flush().
Leave(t) ==
  /\ Unfinished(t) /\ instance[t] # Gone /\ <<"solver", t>> \notin pushing
  /\ instance' = [instance EXCEPT ![t] = Gone]
  /\ \/ task' = [task EXCEPT ![t] = "failed"]
     \/ task[t] = "cancelled" /\ instance[t] = None /\ UNCHANGED task
  /\ awaited' = [awaited EXCEPT ![t] = {}] /\ late' = late \ {t}
  /\ UNCHANGED <<setting, sandbox, serving, loaderVars, diagnosticVars, handles, asked, crowded>>

\* flush() compares the two counters.
FlushBegin(t) ==
  /\ instance[t] = Returned /\ awaited[t] = {}
  /\ awaited' = [awaited EXCEPT ![t] = {pushed}]
  /\ crowded' = IF pushing # {} THEN crowded \cup {t} ELSE crowded
  /\ UNCHANGED <<setting, sandbox, serving, loaderVars, diagnosticVars, task, instance, handles, asked, late>>

\* Mutant: flush() returns one event early.
Flushed_OffByOne(t) == \E n \in awaited[t] : handled + 1 >= n

Flushed(t) == \E n \in awaited[t] : handled >= n
Commit(t) ==
  /\ Unfinished(t) /\ instance[t] = Returned /\ Flushed(t)
  /\ instance' = [instance EXCEPT ![t] = Gone]
  /\ task' = [task EXCEPT ![t] = IF @ = "running" THEN "completed" ELSE @]
  /\ awaited' = [awaited EXCEPT ![t] = {}] /\ late' = late \ {t}
  /\ UNCHANGED <<setting, sandbox, serving, loaderVars, diagnosticVars, handles, asked, crowded>>

\* Mutant: the destructor does not wait for the diagnostics.
Drained_Skips == TRUE

\* ~AlgorithmLoader() after every worker was joined and the server stopped:
\* flush() and unload_all().
Drained == handled >= pushed
Destroy ==
  /\ serving /\ serving' = FALSE /\ ~asked /\ handles = {}
  /\ \A t \in Tasks : task[t] = "none" \/ instance[t] = Gone
  /\ Drained
  /\ registry' = Dropped(registry, {plugins[i].name : i \in DOMAIN plugins})
  /\ sandboxed' = <<>> /\ plugins' = <<>> /\ mapped' = {}
  /\ UNCHANGED <<setting, sandbox, diagnosticVars, taskVars, asked>>

CatalogInit ==
  /\ setting \in Settings /\ sandbox \in BOOLEAN /\ (sandbox => Bound.sandbox)
  /\ registry = [n \in Builtin |-> Kernel] /\ sandboxed = <<>> /\ plugins = <<>> /\ mapped = {}
  /\ task = [t \in Tasks |-> "none"] /\ instance = [t \in Tasks |-> None]
  /\ handles = {} /\ events = <<>> /\ dying = {} /\ pushing = {} /\ pushed = 0 /\ handled = 0
  /\ awaited = [t \in Tasks |-> {}] /\ serving = TRUE /\ asked = FALSE /\ late = {} /\ crowded = {}
CatalogNext ==
  \/ \E p \in Paths : LoadPlugin(p)
  \/ AskUnload \/ Destroy \/ Dispatch \/ Destruct
  \/ \E n \in Builtin \cup {Binaries[p].name : p \in Paths} :
       Unload(n) \/ \E t \in Tasks : Create(t, n)
  \/ \E t \in Tasks :
       \/ Submit(t) \/ Emit(t) \/ Cancel(t) \/ Borrow(t) \/ Return(t) \/ Leave(t)
       \/ FlushBegin(t) \/ Commit(t)
  \/ \E w \in pushing : Count(w)
  \/ \E h \in handles : GiveBack(h)

(* Every factory's library is open, a sandboxed plugin is never opened here *)
(* and shadows nothing, and what a name is loaded from is open while it is  *)
(* listed.                                                                  *)
FactoriesAreOpen ==
  /\ Names \subseteq Builtin \cup {plugins[i].name : i \in DOMAIN plugins}
  /\ \A n \in DOMAIN registry : registry[n] = Kernel \/ registry[n] \in mapped
  /\ DOMAIN registry \cap DOMAIN sandboxed = {}
  /\ mapped = IF sandbox THEN {} ELSE {plugins[i].path : i \in DOMAIN plugins}

(* A library is closed under a worker's executor or a queued diagnostic only *)
(* by an unload request, and only of a task that was cancelled, that failed  *)
(* or that was submitted while the request was between its check and the    *)
(* unloading: has_active() knows nothing of these. Besides, a queued event  *)
(* is lost if the flush() after its solve began in the middle of another    *)
(* push. The last event's destructor may run in a library that anybody       *)
(* closes, and a control call's copy of a handle in one that is unloaded.    *)
Unseen(t) == task[t] \in {"cancelled", "failed"} \/ t \in late
Queued(p, t) == \E i \in DOMAIN events : events[i] = <<p, t>>
ClosedWhenIdle == \A p \in mapped \ mapped', t \in Tasks :
  /\ instance[t] = p => asked /\ Unseen(t)
  /\ Queued(p, t) => asked /\ (Unseen(t) \/ t \in crowded)
  /\ <<p, t>> \in handles => asked

(***************************************************************************)
(* The inductive invariant behind both                                     *)
(***************************************************************************)

Instances == Paths \cup {Kernel, Remote, None, Returned, Gone}
Codes == (Paths \cup {Kernel}) \X Tasks
LoaderTypeOK ==
  /\ sandbox \in BOOLEAN
  /\ plugins \in Seq([name : {Binaries[p].name : p \in Paths}, path : Paths])
  /\ registry = [n \in DOMAIN registry |-> registry[n]]
  /\ sandboxed = [n \in DOMAIN sandboxed |-> sandboxed[n]]

UsersTypeOK ==
  /\ task \in [Tasks -> {"none", "running", "cancelled", "failed", "completed"}]
  /\ instance \in [Tasks -> Instances]
  /\ handles \subseteq Codes /\ events \in Seq(Codes) /\ dying \subseteq Codes
  /\ pushing \subseteq {"solver", "client"} \X Tasks /\ IsFiniteSet(pushing)
  /\ pushed \in Nat /\ handled \in Nat
  /\ awaited \in [Tasks -> SUBSET Nat]

CatalogTypeOK == LoaderTypeOK /\ UsersTypeOK

(* A path is listed once, under the name of its library, and makes only     *)
(* algorithms of that name: what an unload takes away is not another's.     *)
ListedInv ==
  /\ \A i \in DOMAIN plugins : plugins[i].name = Binaries[plugins[i].path].name
  /\ \A i, j \in DOMAIN plugins : plugins[i].path = plugins[j].path => i = j
  /\ \A n \in DOMAIN registry : registry[n] # Kernel => Binaries[registry[n]].name = n
  /\ IF sandbox THEN \A n \in DOMAIN registry : registry[n] = Kernel ELSE DOMAIN sandboxed = {}

(* Who may be in a library: the task that runs and a cancelled one. Its      *)
(* plugin's events outlive it when it failed or its flush() was crowded. A   *)
(* request past its check knows of no task that runs but the late ones.      *)
UsersInv ==
  /\ \A t \in Tasks : /\ task[t] = "none" => instance[t] = None
                      /\ task[t] \in {"completed", "failed"} => instance[t] = Gone
  /\ \A i \in DOMAIN events : events[i][1] # Kernel =>
       /\ task[events[i][2]] # "none"
       /\ task[events[i][2]] = "completed" => events[i][2] \in crowded
  /\ asked => \A t \in Tasks : task[t] = "running" => t \in late

(* The two counters differ by what is queued and by what is not counted yet, *)
(* so that a flush() that began between pushes waits for all that is queued. *)
FlushInv ==
  /\ handled + Len(events) = pushed + Cardinality(pushing)
  /\ \A w \in pushing : IF w[1] = "solver" THEN Solving(w[2]) ELSE \E h \in handles : h[2] = w[2]
  /\ \A t \in Tasks, n \in Nat : n \in awaited[t] =>
       /\ instance[t] = Returned
       /\ t \notin crowded => \A i \in DOMAIN events :
            events[i][1] # Kernel /\ events[i][2] = t => handled + i <= n

CatalogInv == CatalogTypeOK /\ FactoriesAreOpen /\ ListedInv /\ UsersInv /\ FlushInv
=============================================================================
