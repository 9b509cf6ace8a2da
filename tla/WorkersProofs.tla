---------------------------- MODULE WorkersProofs ----------------------------
(* The properties of the run of MCWorkers for any numbers of threads, tasks, *)
(* entries, keys, slots and libraries: here those of the command line and of *)
(* the plugins, then the invariants of PoolProofs, LoopProofs and            *)
(* SandboxProofs in their scenes. The proofs of a component are instantiated *)
(* as its module is in MCWorkers, so that a definition has two names there   *)
(* (Pool!PoolNext and PoolP!PoolNext): the bridges say that they are the     *)
(* same.                                                                     *)
EXTENDS MCWorkers, FiniteSetTheorems, TLAPS

\* A behaviour stays in its scene.
LEMMA SceneStays == [Next]_vars => scene' = scene
<1>1. Ring!RingNext => scene' = scene
  BY DEF Ring!RingNext, Ring!PushBegin, Ring!InspectSlot, Ring!CasWrite, Ring!CheckRoom,
    Ring!TakeTicket, Ring!AwaitTurn, Ring!Fill, Ring!Publish, Ring!PopBegin, Ring!LookHead,
    Ring!CasRead, Ring!Take, Ring!Free, Ring!Clear
<1>2. Seg!SegmentNext => scene' = scene
  BY DEF
    Seg!SegmentNext, Seg!PushTicket, Seg!LoadTail, Seg!NextOrLink, Seg!SwingTail, Seg!PushFallBack,
    Seg!Rewalk, Seg!Fill, Seg!Publish, Seg!PopBegin, Seg!Compare, Seg!ClaimPop, Seg!LoadHead,
    Seg!WalkHead, Seg!PopFallBack, Seg!Take, Seg!Retire, Seg!AdvanceHead, Seg!Clear
<1> QED BY <1>1, <1>2 DEF Next, vars, Elsewhere, InLoop, InPool, InSandbox, InConsole, InCatalog

-----------------------------------------------------------------------------
(* The command line while it solves.                                        *)

ConsoleInv == scene = "console" => Console!AbortInv

\* No step but finish() takes the flag back, and none poisons without it.
LEMMA AbortStep == Console!AbortInv /\ Console!ControlNext => Console!AbortInv'
<1> SUFFICES ASSUME Console!AbortInv, Console!ControlNext PROVE Console!AbortInv'
  OBVIOUS
<1> USE DEF Console!AbortInv, Console!Reported, Console!Goto
<1>1. CASE Console!Enter \/ Console!Look \/ Console!Take
  BY <1>1 DEF Console!Enter, Console!Look, Console!Take, Console!Decide, Console!flags, Console!executor, Console!result
<1>2. CASE Console!ObeyAbort
  BY <1>2 DEF Console!ObeyAbort, Console!AbortSolve
<1>3. CASE Console!Check
  BY <1>3 DEF Console!Check, Console!AbortSolve, Console!flags, Console!executor
<1>4. CASE Console!ObeyPause \/ Console!PauseReturns \/ Console!ObeyResume \/ Console!ObeySave \/ Console!ReadKey
  BY <1>4 DEF Console!ObeyPause, Console!PauseReturns, Console!ObeyResume, Console!ResumeSolve,
    Console!ObeySave, Console!ReadKey, Console!flags, Console!executor
<1>5. CASE Console!Join \/ Console!ClearActive
  BY <1>5 DEF Console!Join, Console!ClearActive, Console!flags, Console!executor
<1>6. CASE Console!Report
  <2>1. at["loop"] = "report" /\ at' = [at EXCEPT !["loop"] = "finish"]
    BY <1>6 DEF Console!Report
  <2>2. poisoned' = poisoned /\ sticky' = sticky
    BY <1>6 DEF Console!Report, Console!flags, Console!executor
  <2>3. sticky => told' \in {"interrupted", "error"}
    BY <1>6 DEF Console!Report
  <2> QED BY <2>1, <2>2, <2>3
<1>7. CASE Console!Finish
  BY <1>7 DEF Console!Finish, Console!executor
<1>8. CASE Console!HandlerNext
  <2>1. CASE Console!Interrupt
    <3>1. poisoned' = poisoned /\ sticky' = sticky /\ told' = told
      BY <2>1 DEF Console!Interrupt, Console!flags, Console!executor
    <3>2. at["loop"] \notin {"done", "killed"}
      BY <2>1 DEF Console!Interrupt
    <3>3. \/ at' = [at EXCEPT !["handler"] = "flag"]
          \/ at' = [at EXCEPT !["loop"] = "killed"]
      BY <2>1 DEF Console!Interrupt
    <3> QED BY <3>1, <3>2, <3>3
  <2>2. CASE Console!RaiseFlag \/ Console!AskAbort
    <3>1. PICK place : at' = [at EXCEPT !["handler"] = place]
      BY <2>2 DEF Console!RaiseFlag, Console!AskAbort
    <3>2. poisoned' = poisoned /\ sticky' \in {sticky, TRUE} /\ told' = told
      BY <2>2 DEF Console!RaiseFlag, Console!AskAbort, Console!executor
    <3> QED BY <3>1, <3>2
  <2> QED BY <1>8, <2>1, <2>2 DEF Console!HandlerNext
<1>9. CASE Console!SolverNext
  BY <1>9 DEF Console!SolverNext, Console!Submit, Console!Prepare, Console!Publish, Console!Simulate,
    Console!Start, Console!WaitReturns, Console!Retract, Console!RecordEnd, Console!Solver, Console!flags, Console!executor
<1>10. CASE Console!SearchEnds
  BY <1>10 DEF Console!SearchEnds, Console!flags
<1> QED BY <1>1, <1>2, <1>3, <1>4, <1>5, <1>6, <1>7, <1>8, <1>9, <1>10 DEF Console!ControlNext, Console!LoopNext

\* run_solve_control_loop: however often keys and ^C are pressed, and wherever
\* they meet the solve, an abort that reached the search is reported as one.
THEOREM AbortsAreReported == Spec => []AbortIsReported
<1>1. Init => ConsoleInv
  BY DEF Init, WorkersInit, ConsoleInv, Console!ControlInit, Console!AbortInv, Console!Reported,
     Ring!RingInit, Ring!Kinds, Seg!SegmentInit, Seg!Kinds, Plugins!CatalogInit, Plugins!Settings
<1>2. ConsoleInv /\ [Next]_vars => ConsoleInv'
  <2> SUFFICES ASSUME ConsoleInv, [Next]_vars, scene' = "console" PROVE Console!AbortInv'
    BY DEF ConsoleInv
  <2>1. scene = "console"
    BY SceneStays
  <2>2. CASE Console!ControlNext
    BY <2>1, <2>2, AbortStep DEF ConsoleInv
  <2>3. CASE UNCHANGED vars
    BY <2>1, <2>3 DEF ConsoleInv, Console!AbortInv, vars, threadsOnly, consoleOnly, sandboxOnly, searching
  <2> QED BY <2>1, <2>2, <2>3 DEF Next, Ring!Kinds, Seg!Kinds, Plugins!Settings
<1>3. ConsoleInv => AbortIsReported
  BY DEF ConsoleInv, AbortIsReported, Console!AbortIsReported, Console!AbortInv
<1> QED BY <1>1, <1>2, <1>3, PTL DEF Spec

-----------------------------------------------------------------------------
(* The plugins. Their libraries and who is in them: the catalog lists each  *)
(* path once, under the name that its algorithms have, the tasks in a       *)
(* library run, are cancelled, failed, or came late, and the counters that  *)
(* flush() compares differ by what is queued and by what is not counted.    *)

LEMMA CountOfCatalog ==
  /\ \A S : Plugins!IsFiniteSet(S) <=> IsFiniteSet(S)
  /\ \A S : Plugins!Cardinality(S) = Cardinality(S)
BY DEF Plugins!IsFiniteSet, IsFiniteSet, Plugins!Cardinality, Cardinality

\* No path is one of the marks of an executor.
LEMMA PathsAreNoMarks ==
  \A p \in Plugins!Paths :
    p \notin {Plugins!Kernel, Plugins!Remote, Plugins!None, Plugins!Returned, Plugins!Gone}
BY WorkersAssumption DEF Plugins!CatalogAssumption

\* Nothing in the loader's books is changed by what a task does.
LEMMA CatalogBooks ==
  ASSUME Plugins!CatalogInv, UNCHANGED <<sandbox, Plugins!loaderVars>>
  PROVE  Plugins!LoaderTypeOK' /\ Plugins!FactoriesAreOpen' /\ Plugins!ListedInv'
BY DEF Plugins!CatalogInv, Plugins!CatalogTypeOK, Plugins!LoaderTypeOK, Plugins!FactoriesAreOpen,
    Plugins!ListedInv, Plugins!loaderVars, Plugins!Names

\* Nothing the tasks and the diagnostics have is changed by the loader, and a
\* request passes its check only when no task runs.
LEMMA CatalogUsers ==
  ASSUME Plugins!CatalogInv, UNCHANGED <<Plugins!taskVars, Plugins!diagnosticVars>>,
         asked' => asked \/ ~Plugins!Active
  PROVE  Plugins!UsersTypeOK' /\ Plugins!UsersInv' /\ Plugins!FlushInv'
<1>1. /\ UNCHANGED <<task, instance, handles, awaited, late, crowded>>
      /\ UNCHANGED <<events, dying, pushing, reported, dispatched>>
  BY DEF Plugins!taskVars, Plugins!diagnosticVars
<1>2. Plugins!UsersTypeOK'
  BY <1>1 DEF Plugins!CatalogInv, Plugins!CatalogTypeOK, Plugins!UsersTypeOK
<1>3. Plugins!UsersInv'
  BY <1>1 DEF Plugins!CatalogInv, Plugins!UsersInv, Plugins!Active
<1>4. Plugins!FlushInv'
  BY <1>1 DEF Plugins!CatalogInv, Plugins!FlushInv, Plugins!Solving
<1> QED BY <1>2, <1>3, <1>4

LEMMA ListedPaths == Plugins!LoaderTypeOK => \A i \in DOMAIN plugins : plugins[i].path \in Plugins!Paths
<1> DEFINE Entry == [name : {Libraries[p].name : p \in Plugins!Paths}, path : Plugins!Paths]
<1> SUFFICES ASSUME Plugins!LoaderTypeOK, NEW i \in DOMAIN plugins PROVE plugins[i].path \in Plugins!Paths
  OBVIOUS
<1>1. plugins \in Seq(Entry)
  BY DEF Plugins!LoaderTypeOK
<1>2. \A e \in Entry : e.path \in Plugins!Paths
  OBVIOUS
<1> HIDE DEF Entry
<1>3. plugins[i] \in Entry
  BY <1>1
<1> QED BY <1>2, <1>3

\* What a factory makes: the library it names is one that is open.
LEMMA FactoryPaths ==
  ASSUME Plugins!CatalogInv
  PROVE  /\ mapped \subseteq Plugins!Paths
         /\ \A n \in DOMAIN registry : registry[n] \in Plugins!Paths \cup {Plugins!Kernel}
<1>1. \A i \in DOMAIN plugins : plugins[i].path \in Plugins!Paths
  BY ListedPaths DEF Plugins!CatalogInv, Plugins!CatalogTypeOK
<1>2. mapped \subseteq Plugins!Paths
  BY <1>1 DEF Plugins!CatalogInv, Plugins!FactoriesAreOpen
<1> QED BY <1>2 DEF Plugins!CatalogInv, Plugins!FactoriesAreOpen

LEMMA LoadStep ==
  ASSUME Plugins!CatalogInv, NEW p \in Plugins!Paths, Plugins!LoadPlugin(p)
  PROVE  Plugins!CatalogInv'
<1> DEFINE n == Libraries[p].name
           entry == [name |-> n, path |-> p]
<1>1. /\ plugins \in Seq([name : {Libraries[q].name : q \in Plugins!Paths}, path : Plugins!Paths])
      /\ entry \in [name : {Libraries[q].name : q \in Plugins!Paths}, path : Plugins!Paths]
  BY DEF Plugins!CatalogInv, Plugins!CatalogTypeOK, Plugins!LoaderTypeOK
<1>2. /\ DOMAIN plugins' = DOMAIN plugins \cup {Len(plugins) + 1}
      /\ Len(plugins) + 1 \notin DOMAIN plugins
      /\ \A i \in DOMAIN plugins : plugins'[i] = plugins[i]
      /\ plugins'[Len(plugins) + 1] = entry
      /\ plugins' \in Seq([name : {Libraries[q].name : q \in Plugins!Paths}, path : Plugins!Paths])
  BY <1>1 DEF Plugins!LoadPlugin
<1>3. \A i \in DOMAIN plugins : plugins[i].path # p
  BY DEF Plugins!LoadPlugin, Plugins!Admitted
<1>4. UNCHANGED <<sandbox, Plugins!taskVars, Plugins!diagnosticVars, asked>>
  BY DEF Plugins!LoadPlugin
<1>5. Plugins!UsersTypeOK' /\ Plugins!UsersInv' /\ Plugins!FlushInv'
  BY <1>4, CatalogUsers
<1>6. entry.name = n /\ entry.path = p
  OBVIOUS
<1>7. Plugins!Kernel \notin Plugins!Paths
  BY WorkersAssumption DEF Plugins!CatalogAssumption
<1>8. {plugins'[i].name : i \in DOMAIN plugins'} = {plugins[i].name : i \in DOMAIN plugins} \cup {n}
  BY <1>2, <1>6
<1>9. {plugins'[i].path : i \in DOMAIN plugins'} = {plugins[i].path : i \in DOMAIN plugins} \cup {p}
  BY <1>2, <1>6
<1>10. /\ \A i \in DOMAIN plugins' : plugins'[i].name = Libraries[plugins'[i].path].name
       /\ \A i, j \in DOMAIN plugins' : plugins'[i].path = plugins'[j].path => i = j
  BY <1>2, <1>3, <1>6 DEF Plugins!CatalogInv, Plugins!ListedInv
<1> HIDE DEF n, entry
<1>11. CASE sandbox
  <2>1. sandboxed' = Plugins!Extended(sandboxed, n, p) /\ UNCHANGED <<registry, mapped>> /\ n \notin Plugins!Names
    BY <1>11 DEF Plugins!LoadPlugin, Plugins!Admitted, n
  <2>2. DOMAIN sandboxed' = DOMAIN sandboxed \cup {n}
        /\ sandboxed' = [m \in DOMAIN sandboxed' |-> sandboxed'[m]]
    BY <2>1 DEF Plugins!Extended
  <2>3. Plugins!LoaderTypeOK'
    BY <1>2, <1>4, <2>1, <2>2 DEF Plugins!CatalogInv, Plugins!CatalogTypeOK, Plugins!LoaderTypeOK
  <2>4. Plugins!FactoriesAreOpen'
    BY <1>4, <1>8, <1>11, <2>1, <2>2 DEF Plugins!CatalogInv, Plugins!FactoriesAreOpen, Plugins!Names
  <2>5. Plugins!ListedInv'
    BY <1>4, <1>10, <1>11, <2>1 DEF Plugins!CatalogInv, Plugins!ListedInv
  <2> QED BY <1>5, <2>3, <2>4, <2>5 DEF Plugins!CatalogInv, Plugins!CatalogTypeOK
<1>12. CASE ~sandbox
  <2>1. registry' = Plugins!Extended(registry, n, p) /\ mapped' = mapped \cup {p} /\ UNCHANGED sandboxed
    BY <1>12 DEF Plugins!LoadPlugin, n
  <2>2. /\ DOMAIN registry' = DOMAIN registry \cup {n} /\ registry'[n] = p
        /\ \A m \in DOMAIN registry \ {n} : registry'[m] = registry[m]
        /\ registry' = [m \in DOMAIN registry' |-> registry'[m]]
    BY <2>1 DEF Plugins!Extended
  <2>3. Plugins!LoaderTypeOK'
    BY <1>2, <1>4, <2>1, <2>2 DEF Plugins!CatalogInv, Plugins!CatalogTypeOK, Plugins!LoaderTypeOK
  <2>4. Plugins!FactoriesAreOpen'
    BY <1>4, <1>8, <1>9, <1>12, <2>1, <2>2 DEF Plugins!CatalogInv, Plugins!FactoriesAreOpen,
        Plugins!ListedInv, Plugins!Names
  <2>5. \A m \in DOMAIN registry' : registry'[m] # Plugins!Kernel => Libraries[registry'[m]].name = m
    BY <2>2 DEF Plugins!CatalogInv, Plugins!ListedInv, n
  <2>6. Plugins!ListedInv'
    BY <1>4, <1>10, <1>12, <2>1, <2>5 DEF Plugins!CatalogInv, Plugins!ListedInv
  <2> QED BY <1>5, <2>3, <2>4, <2>6 DEF Plugins!CatalogInv, Plugins!CatalogTypeOK
<1> QED BY <1>11, <1>12

\* The entries that are left when one is removed, in their order.
LEMMA RemovedEntries ==
  ASSUME NEW S, NEW s \in Seq(S), NEW i \in DOMAIN s
  PROVE  /\ Plugins!RemoveAt(s, i) \in Seq(S)
         /\ DOMAIN Plugins!RemoveAt(s, i) = 1 .. (Len(s) - 1)
         /\ \A j \in DOMAIN Plugins!RemoveAt(s, i) : Plugins!RemoveAt(s, i)[j] = IF j < i THEN s[j] ELSE s[j + 1]
<1>1. i \in 1 .. Len(s) /\ Len(s) \in Nat
  OBVIOUS
<1>2. SubSeq(s, 1, i - 1) \in Seq(S) /\ SubSeq(s, i + 1, Len(s)) \in Seq(S)
  BY <1>1
<1>3. Len(SubSeq(s, 1, i - 1)) = i - 1 /\ Len(SubSeq(s, i + 1, Len(s))) = Len(s) - i
  BY <1>1
<1>4. \A j \in 1 .. (i - 1) : SubSeq(s, 1, i - 1)[j] = s[j]
  BY <1>1
<1>5. \A j \in 1 .. (Len(s) - i) : SubSeq(s, i + 1, Len(s))[j] = s[i + j]
  BY <1>1
<1>6. /\ Plugins!RemoveAt(s, i) \in Seq(S) /\ Len(Plugins!RemoveAt(s, i)) = Len(s) - 1
      /\ \A j \in 1 .. (Len(s) - 1) :
        Plugins!RemoveAt(s, i)[j] = IF j <= i - 1 THEN SubSeq(s, 1, i - 1)[j] ELSE SubSeq(s, i + 1, Len(s))[j - (i - 1)]
  <2> DEFINE a == SubSeq(s, 1, i - 1)
             b == SubSeq(s, i + 1, Len(s))
  <2>1. Plugins!RemoveAt(s, i) = a \o b
    BY DEF Plugins!RemoveAt
  <2> HIDE DEF a, b
  <2>2. a \in Seq(S) /\ b \in Seq(S) /\ Len(a) = i - 1 /\ Len(b) = Len(s) - i
    BY <1>2, <1>3 DEF a, b
  <2>3. a \o b \in Seq(S) /\ Len(a \o b) = Len(s) - 1
    BY <1>1, <2>2
  <2>4. \A j \in 1 .. (Len(s) - 1) : (a \o b)[j] = IF j <= i - 1 THEN a[j] ELSE b[j - (i - 1)]
    BY <1>1, <2>2
  <2> QED BY <2>1, <2>3, <2>4 DEF a, b
<1>7. DOMAIN Plugins!RemoveAt(s, i) = 1 .. (Len(s) - 1)
  BY <1>6
<1>8. \A j \in 1 .. (Len(s) - 1) :
        Plugins!RemoveAt(s, i)[j] = IF j <= i - 1 THEN SubSeq(s, 1, i - 1)[j] ELSE SubSeq(s, i + 1, Len(s))[j - (i - 1)]
  BY <1>6
<1>9. \A j \in 1 .. (Len(s) - 1) : Plugins!RemoveAt(s, i)[j] = IF j < i THEN s[j] ELSE s[j + 1]
  <2> SUFFICES ASSUME NEW j \in 1 .. (Len(s) - 1)
               PROVE  Plugins!RemoveAt(s, i)[j] = IF j < i THEN s[j] ELSE s[j + 1]
    OBVIOUS
  <2>1. CASE j < i
    BY <1>1, <1>4, <1>8, <2>1
  <2>2. CASE ~(j < i)
    <3>1. j - (i - 1) \in 1 .. (Len(s) - i) /\ i + (j - (i - 1)) = j + 1
      BY <1>1, <2>2
    <3>2. Plugins!RemoveAt(s, i)[j] = SubSeq(s, i + 1, Len(s))[j - (i - 1)]
      <4>1. ~(j <= i - 1)
        BY <1>1, <2>2
      <4> QED BY <1>8, <4>1
    <3>3. SubSeq(s, i + 1, Len(s))[j - (i - 1)] = s[i + (j - (i - 1))]
      BY <1>5, <3>1
    <3> QED BY <2>2, <3>1, <3>2, <3>3
  <2> QED BY <2>1, <2>2
<1> QED BY <1>6, <1>7, <1>9

LEMMA UnloadStep ==
  ASSUME Plugins!CatalogInv, NEW n, Plugins!Unload(n)
  PROVE  Plugins!CatalogInv'
<1> DEFINE Entry == [name : {Libraries[p].name : p \in Plugins!Paths}, path : Plugins!Paths]
<1>1. UNCHANGED <<sandbox, Plugins!taskVars, Plugins!diagnosticVars>> /\ ~asked'
  BY DEF Plugins!Unload
<1>2. CASE UNCHANGED Plugins!loaderVars
  BY <1>1, <1>2, CatalogBooks, CatalogUsers DEF Plugins!CatalogInv, Plugins!CatalogTypeOK
<1>3. ASSUME NEW i \in DOMAIN plugins, Plugins!First(i, n), Plugins!Removed(i)
      PROVE  Plugins!CatalogInv'
  <2> DEFINE path == plugins[i].path
  <2>1. plugins \in Seq(Entry) /\ plugins[i].name = n /\ Libraries[path].name = n
    BY <1>3 DEF Plugins!CatalogInv, Plugins!CatalogTypeOK, Plugins!LoaderTypeOK, Plugins!ListedInv, Plugins!First,
        Plugins!PluginsOf
  <2>2. /\ plugins' \in Seq(Entry) /\ DOMAIN plugins' = 1 .. (Len(plugins) - 1)
        /\ \A j \in DOMAIN plugins' : plugins'[j] = IF j < i THEN plugins[j] ELSE plugins[j + 1]
    BY <1>3, <2>1, RemovedEntries DEF Plugins!Removed
  <2>3. DOMAIN plugins = 1 .. Len(plugins) /\ Len(plugins) \in Nat
    BY <2>1
  <2>4. \A j \in DOMAIN plugins' : \E k \in DOMAIN plugins \ {i} :
          plugins'[j] = plugins[k] /\ k = IF j < i THEN j ELSE j + 1
    BY <2>2, <2>3
  <2>5. \A k \in DOMAIN plugins \ {i} : \E j \in DOMAIN plugins' : plugins'[j] = plugins[k]
    <3> SUFFICES ASSUME NEW k \in DOMAIN plugins \ {i}
                 PROVE  \E j \in DOMAIN plugins' : plugins'[j] = plugins[k]
      OBVIOUS
    <3>1. CASE k < i
      BY <2>2, <2>3, <3>1
    <3>2. CASE ~(k < i)
      <4>1. k - 1 \in DOMAIN plugins' /\ ~(k - 1 < i) /\ (k - 1) + 1 = k
        BY <2>2, <2>3, <3>2
      <4> QED BY <2>2, <4>1
    <3> QED BY <3>1, <3>2
  <2>6. {plugins'[j].name : j \in DOMAIN plugins'} = {plugins[k].name : k \in DOMAIN plugins \ {i}}
    BY <2>4, <2>5
  <2>7. {plugins'[j].path : j \in DOMAIN plugins'} = {plugins[k].path : k \in DOMAIN plugins} \ {path}
    <3>1. {plugins'[j].path : j \in DOMAIN plugins'} = {plugins[k].path : k \in DOMAIN plugins \ {i}}
      BY <2>4, <2>5
    <3>2. \A k \in DOMAIN plugins : plugins[k].path = path <=> k = i
      BY DEF Plugins!CatalogInv, Plugins!ListedInv
    <3> QED BY <3>1, <3>2
  <2>8. /\ mapped' = mapped \ {path}
        /\ registry' = Plugins!Dropped(registry, {n}) /\ sandboxed' = Plugins!Dropped(sandboxed, {n})
    BY <1>3, <2>1 DEF Plugins!Removed
  <2>9. /\ DOMAIN registry' = DOMAIN registry \ {n} /\ DOMAIN sandboxed' = DOMAIN sandboxed \ {n}
        /\ \A m \in DOMAIN registry' : registry'[m] = registry[m]
        /\ registry' = [m \in DOMAIN registry' |-> registry'[m]]
        /\ sandboxed' = [m \in DOMAIN sandboxed' |-> sandboxed'[m]]
    BY <2>8 DEF Plugins!Dropped, Plugins!Restrict
  <2>10. Plugins!LoaderTypeOK'
    BY <1>1, <2>2, <2>9 DEF Plugins!CatalogInv, Plugins!CatalogTypeOK, Plugins!LoaderTypeOK
  <2>11. Plugins!FactoriesAreOpen'
    <3>1. Plugins!Names' \subseteq Natives \cup {plugins'[j].name : j \in DOMAIN plugins'}
      <4>1. Plugins!Names' = Plugins!Names \ {n}
        BY <2>9 DEF Plugins!Names
      <4>2. Plugins!Names \subseteq Natives \cup {plugins[k].name : k \in DOMAIN plugins}
        BY DEF Plugins!CatalogInv, Plugins!FactoriesAreOpen
      <4> QED BY <2>1, <2>6, <4>1, <4>2
    <3>2. \A m \in DOMAIN registry' : registry'[m] = Plugins!Kernel \/ registry'[m] \in mapped'
      <4> SUFFICES ASSUME NEW m \in DOMAIN registry', registry'[m] # Plugins!Kernel PROVE registry'[m] \in mapped'
        OBVIOUS
      <4>1. m \in DOMAIN registry /\ m # n /\ registry'[m] = registry[m]
        BY <2>9
      <4>2. registry[m] \in mapped /\ Libraries[registry[m]].name = m
        BY <4>1 DEF Plugins!CatalogInv, Plugins!FactoriesAreOpen, Plugins!ListedInv
      <4>3. registry[m] # path
        BY <2>1, <4>1, <4>2
      <4> QED BY <2>8, <4>1, <4>2, <4>3
    <3>3. DOMAIN registry' \cap DOMAIN sandboxed' = {}
      BY <2>9 DEF Plugins!CatalogInv, Plugins!FactoriesAreOpen
    <3>4. mapped' = IF sandbox' THEN {} ELSE {plugins'[j].path : j \in DOMAIN plugins'}
      BY <1>1, <2>7, <2>8 DEF Plugins!CatalogInv, Plugins!FactoriesAreOpen
    <3> QED BY <3>1, <3>2, <3>3, <3>4 DEF Plugins!FactoriesAreOpen
  <2>12. Plugins!ListedInv'
    <3>1. \A j \in DOMAIN plugins' : plugins'[j].name = Libraries[plugins'[j].path].name
      BY <2>4 DEF Plugins!CatalogInv, Plugins!ListedInv
    <3>2. \A j, k \in DOMAIN plugins' : plugins'[j].path = plugins'[k].path => j = k
      <4> SUFFICES ASSUME NEW j \in DOMAIN plugins', NEW k \in DOMAIN plugins',
                          plugins'[j].path = plugins'[k].path
                   PROVE  j = k
        OBVIOUS
      <4>1. PICK a \in DOMAIN plugins : plugins'[j] = plugins[a] /\ a = IF j < i THEN j ELSE j + 1
        BY <2>4
      <4>2. PICK b \in DOMAIN plugins : plugins'[k] = plugins[b] /\ b = IF k < i THEN k ELSE k + 1
        BY <2>4
      <4>3. a = b
        BY <4>1, <4>2 DEF Plugins!CatalogInv, Plugins!ListedInv
      <4> QED BY <2>2, <2>3, <4>1, <4>2, <4>3
    <3>3. \A m \in DOMAIN registry' : registry'[m] # Plugins!Kernel => Libraries[registry'[m]].name = m
      BY <2>9 DEF Plugins!CatalogInv, Plugins!ListedInv
    <3>4. IF sandbox' THEN \A m \in DOMAIN registry' : registry'[m] = Plugins!Kernel
          ELSE DOMAIN sandboxed' = {}
      BY <1>1, <2>9 DEF Plugins!CatalogInv, Plugins!ListedInv
    <3> QED BY <3>1, <3>2, <3>3, <3>4 DEF Plugins!ListedInv
  <2> QED BY <1>1, <2>10, <2>11, <2>12, CatalogUsers DEF Plugins!CatalogInv, Plugins!CatalogTypeOK
<1> QED BY <1>2, <1>3 DEF Plugins!Unload

LEMMA DestroyStep == Plugins!CatalogInv /\ Plugins!Destroy => Plugins!CatalogInv'
<1> SUFFICES ASSUME Plugins!CatalogInv, Plugins!Destroy PROVE Plugins!CatalogInv'
  OBVIOUS
<1>1. /\ UNCHANGED <<sandbox, Plugins!taskVars, Plugins!diagnosticVars, asked>>
      /\ sandboxed' = <<>> /\ plugins' = <<>> /\ mapped' = {}
  BY DEF Plugins!Destroy
<1> DEFINE listed == {plugins[i].name : i \in DOMAIN plugins}
<1>2. registry' = Plugins!Dropped(registry, listed)
  BY DEF Plugins!Destroy
<1>3. /\ DOMAIN registry' = DOMAIN registry \ listed
      /\ registry' = [m \in DOMAIN registry' |-> registry'[m]]
      /\ \A m \in DOMAIN registry' : registry'[m] = registry[m]
  BY <1>2 DEF Plugins!Dropped, Plugins!Restrict
<1>4. \A m \in DOMAIN registry' : registry'[m] = Plugins!Kernel
  <2> SUFFICES ASSUME NEW m \in DOMAIN registry \ listed, registry[m] # Plugins!Kernel PROVE FALSE
    BY <1>3
  <2>1. registry[m] \in mapped
    BY DEF Plugins!CatalogInv, Plugins!FactoriesAreOpen
  <2>2. PICK i \in DOMAIN plugins : plugins[i].path = registry[m]
    BY <2>1 DEF Plugins!CatalogInv, Plugins!FactoriesAreOpen
  <2> QED BY <2>2 DEF Plugins!CatalogInv, Plugins!ListedInv
<1>5. DOMAIN plugins' = {} /\ DOMAIN sandboxed' = {}
      /\ sandboxed' = [m \in DOMAIN sandboxed' |-> sandboxed'[m]]
  BY <1>1
<1>6. Plugins!LoaderTypeOK'
  BY <1>1, <1>3, <1>5 DEF Plugins!CatalogInv, Plugins!CatalogTypeOK, Plugins!LoaderTypeOK
<1>7. Plugins!FactoriesAreOpen'
  <2>1. DOMAIN registry' \subseteq Natives
    BY <1>3 DEF Plugins!CatalogInv, Plugins!FactoriesAreOpen, Plugins!Names
  <2> QED BY <1>1, <1>4, <1>5, <2>1 DEF Plugins!FactoriesAreOpen, Plugins!Names
<1>8. Plugins!ListedInv'
  BY <1>4, <1>5 DEF Plugins!ListedInv
<1> QED BY <1>1, <1>6, <1>7, <1>8, CatalogUsers DEF Plugins!CatalogInv, Plugins!CatalogTypeOK

\* What a task and the calls on it do: their marks, but no diagnostics.
LEMMA TaskStep ==
  ASSUME Plugins!CatalogInv, NEW t \in Solves,
         \/ Plugins!Submit(t) \/ Plugins!Cancel(t) \/ Plugins!Borrow(t) \/ Plugins!Return(t)
         \/ Plugins!Leave(t) \/ \E n : Plugins!Create(t, n)
  PROVE  Plugins!UsersTypeOK' /\ Plugins!UsersInv' /\ Plugins!FlushInv'
<1>1. UNCHANGED <<asked, crowded, events, dying, pushing, reported, dispatched>>
  BY DEF Plugins!Submit, Plugins!Cancel, Plugins!Borrow, Plugins!Return, Plugins!Leave, Plugins!Create,
      Plugins!diagnosticVars
<1>2. Plugins!UsersTypeOK /\ Plugins!UsersInv /\ Plugins!FlushInv
  BY DEF Plugins!CatalogInv, Plugins!CatalogTypeOK
<1> USE DEF Plugins!UsersTypeOK, Plugins!UsersInv, Plugins!FlushInv, Plugins!Solving, Plugins!Unfinished,
            Plugins!None, Plugins!Returned, Plugins!Gone
<1>3. CASE Plugins!Submit(t)
  BY <1>1, <1>2, <1>3 DEF Plugins!Submit
<1>4. CASE Plugins!Cancel(t)
  BY <1>1, <1>2, <1>4 DEF Plugins!Cancel
<1>5. CASE Plugins!Borrow(t)
  <2>1. /\ UNCHANGED <<task, instance, awaited, late>> /\ handles' = handles \cup {<<instance[t], t>>}
        /\ instance[t] \in Plugins!Paths \cup {Plugins!Kernel}
    BY <1>2, <1>5 DEF Plugins!Borrow, Plugins!Instances
  <2> QED BY <1>1, <1>2, <2>1 DEF Plugins!Codes
<1>6. CASE Plugins!Return(t)
  <2>1. /\ UNCHANGED <<task, handles, awaited, late>> /\ instance' = [instance EXCEPT ![t] = "returned"]
        /\ Plugins!Solving(t) /\ <<"solver", t>> \notin pushing
    BY <1>6 DEF Plugins!Return
  <2>2. instance' \in [Solves -> Plugins!Instances]
    BY <1>2, <2>1 DEF Plugins!Instances
  <2>3. \A w \in pushing : w[1] = "solver" => w[2] # t
    BY <1>2, <2>1
  <2>4. Plugins!UsersTypeOK' /\ Plugins!UsersInv'
    BY <1>1, <1>2, <2>1, <2>2
  <2>5. Plugins!FlushInv'
    BY <1>1, <1>2, <2>1, <2>3
  <2> QED BY <2>4, <2>5
<1>7. CASE Plugins!Leave(t)
  <2>1. /\ handles' = handles /\ awaited' = [awaited EXCEPT ![t] = {}] /\ late' = late \ {t}
        /\ instance' = [instance EXCEPT ![t] = "gone"]
        /\ task' = [task EXCEPT ![t] = "failed"] \/ (task[t] = "cancelled" /\ task' = task)
        /\ <<"solver", t>> \notin pushing
    BY <1>7 DEF Plugins!Leave
  <2>2. instance' \in [Solves -> Plugins!Instances] /\ awaited' \in [Solves -> SUBSET Nat]
    BY <1>2, <2>1 DEF Plugins!Instances
  <2>3. \A w \in pushing : w[1] = "solver" => w[2] # t
    BY <1>2, <2>1
  <2>4. task' \in [Solves -> {"none", "running", "cancelled", "failed", "completed"}]
        /\ task'[t] \in {"cancelled", "failed"} /\ \A s \in Solves \ {t} : task'[s] = task[s]
    BY <1>2, <2>1
  <2>5. Plugins!UsersTypeOK'
    BY <1>1, <1>2, <2>1, <2>2, <2>4
  <2>6. Plugins!UsersInv'
    <3>1. \A i \in DOMAIN events : events[i][2] \in Solves
      <4>1. \A e \in Plugins!Codes : e[2] \in Solves
        BY DEF Plugins!Codes
      <4>2. \A i \in DOMAIN events : events[i] \in Plugins!Codes
        BY <1>2
      <4> QED BY <4>1, <4>2
    <3>2. \A i \in DOMAIN events : events[i][1] # Plugins!Kernel =>
            task'[events[i][2]] # "none" /\ (task'[events[i][2]] = "completed" => events[i][2] \in crowded)
      BY <1>2, <2>4, <3>1
    <3>3. \A s \in Solves : /\ task'[s] = "none" => instance'[s] = "none"
                            /\ task'[s] \in {"completed", "failed"} => instance'[s] = "gone"
      BY <1>2, <2>1, <2>4
    <3>4. asked => \A s \in Solves : task'[s] = "running" => s \in late'
      BY <1>2, <2>1, <2>4
    <3> QED BY <1>1, <3>2, <3>3, <3>4
  <2>7. Plugins!FlushInv'
    BY <1>1, <1>2, <2>1, <2>3
  <2> QED BY <2>5, <2>6, <2>7
<1>8. ASSUME NEW n, Plugins!Create(t, n)
      PROVE  Plugins!UsersTypeOK' /\ Plugins!UsersInv' /\ Plugins!FlushInv'
  <2>1. /\ UNCHANGED <<task, handles, awaited, late>> /\ instance[t] = "none"
        /\ task[t] \in {"running", "cancelled"} /\ n \in Plugins!Names
    BY <1>8 DEF Plugins!Create
  <2>2. ~(sandbox /\ n \in DOMAIN sandboxed) => n \in DOMAIN registry
    BY <2>1 DEF Plugins!CatalogInv, Plugins!ListedInv, Plugins!Names
  <2>3. PICK l \in Plugins!Paths \cup {Plugins!Kernel, Plugins!Remote} :
          instance' = [instance EXCEPT ![t] = l]
    BY <1>8, <2>2, FactoryPaths DEF Plugins!Create
  <2>4. l \notin {"none", "returned", "gone"}
    BY <2>3, PathsAreNoMarks DEF Plugins!Kernel, Plugins!Remote
  <2>5. instance' \in [Solves -> Plugins!Instances]
    BY <1>2, <2>3 DEF Plugins!Instances
  <2> QED BY <1>1, <1>2, <2>1, <2>3, <2>4, <2>5
<1> QED BY <1>3, <1>4, <1>5, <1>6, <1>7, <1>8

\* A copy of a handle is given back when its call has pushed what it pushes.
LEMMA GiveBackStep ==
  ASSUME Plugins!CatalogInv, NEW h \in handles, Plugins!GiveBack(h)
  PROVE  Plugins!UsersTypeOK' /\ Plugins!UsersInv' /\ Plugins!FlushInv'
<1>1. /\ UNCHANGED <<task, instance, awaited, asked, late, crowded, events, dying, pushing, reported, dispatched>>
      /\ handles' = handles \ {h} /\ <<"client", h[2]>> \notin pushing
  BY DEF Plugins!GiveBack, Plugins!diagnosticVars
<1>2. Plugins!UsersTypeOK /\ Plugins!UsersInv /\ Plugins!FlushInv
  BY DEF Plugins!CatalogInv, Plugins!CatalogTypeOK
<1>3. Plugins!UsersTypeOK' /\ Plugins!UsersInv'
  BY <1>1, <1>2 DEF Plugins!UsersTypeOK, Plugins!UsersInv
<1>4. \A w \in pushing : w[1] # "solver" => \E g \in handles' : g[2] = w[2]
  <2> SUFFICES ASSUME NEW w \in pushing, w[1] # "solver" PROVE \E g \in handles' : g[2] = w[2]
    OBVIOUS
  <2>1. PICK g \in handles : g[2] = w[2]
    BY <1>2 DEF Plugins!FlushInv
  <2>2. w = <<"client", w[2]>>
    BY <1>2 DEF Plugins!UsersTypeOK
  <2> QED BY <1>1, <2>1, <2>2
<1>5. Plugins!FlushInv'
  BY <1>1, <1>2, <1>4 DEF Plugins!FlushInv, Plugins!Solving
<1> QED BY <1>3, <1>5

\* A flush() that no push is in the middle of waits for all that is queued: when
\* it returns, none of its task's diagnostics is.
LEMMA FlushStep ==
  ASSUME Plugins!CatalogInv, NEW t \in Solves, Plugins!FlushBegin(t) \/ Plugins!Commit(t)
  PROVE  Plugins!UsersTypeOK' /\ Plugins!UsersInv' /\ Plugins!FlushInv'
<1>1. UNCHANGED <<handles, asked, events, dying, pushing, reported, dispatched>>
  BY DEF Plugins!FlushBegin, Plugins!Commit, Plugins!diagnosticVars
<1>2. Plugins!UsersTypeOK /\ Plugins!UsersInv /\ Plugins!FlushInv
  BY DEF Plugins!CatalogInv, Plugins!CatalogTypeOK
<1>3. /\ events \in Seq(Plugins!Codes) /\ reported \in Nat /\ dispatched \in Nat
      /\ awaited \in [Solves -> SUBSET Nat] /\ instance \in [Solves -> Plugins!Instances]
      /\ task \in [Solves -> {"none", "running", "cancelled", "failed", "completed"}]
  BY <1>2 DEF Plugins!UsersTypeOK
<1>4. DOMAIN events = 1 .. Len(events) /\ Len(events) \in Nat
  BY <1>3
<1> USE DEF Plugins!Returned, Plugins!Gone, Plugins!None
<1>5. CASE Plugins!FlushBegin(t)
  <2>1. /\ UNCHANGED <<task, instance, late>> /\ awaited' = [awaited EXCEPT ![t] = {reported}]
        /\ instance[t] = "returned" /\ crowded \subseteq crowded' /\ (pushing # {} => t \in crowded')
    BY <1>5 DEF Plugins!FlushBegin
  <2>2. awaited' \in [Solves -> SUBSET Nat]
    BY <1>3, <2>1
  <2>3. Plugins!UsersTypeOK' /\ Plugins!UsersInv'
    BY <1>1, <1>2, <2>1, <2>2 DEF Plugins!UsersTypeOK, Plugins!UsersInv
  <2>4. t \notin crowded' => \A i \in DOMAIN events : dispatched + i <= reported
    <3> SUFFICES ASSUME pushing = {}, NEW i \in DOMAIN events PROVE dispatched + i <= reported
      BY <2>1
    <3>1. Plugins!Cardinality(pushing) = 0
      BY CountOfCatalog, FS_EmptySet
    <3>2. dispatched + Len(events) = reported
      BY <1>2, <1>3, <3>1 DEF Plugins!FlushInv
    <3> QED BY <1>3, <1>4, <3>2
  <2>5. ASSUME NEW s \in Solves, NEW n \in Nat, n \in awaited'[s]
        PROVE  /\ instance'[s] = "returned"
               /\ s \notin crowded' => \A i \in DOMAIN events :
                    events[i][1] # Plugins!Kernel /\ events[i][2] = s => dispatched + i <= n
    <3>1. CASE s = t
      BY <1>3, <2>1, <2>4, <2>5, <3>1
    <3>2. CASE s # t
      <4>1. n \in awaited[s]
        BY <1>3, <2>1, <2>5, <3>2
      <4> QED BY <1>2, <2>1, <4>1 DEF Plugins!FlushInv
    <3> QED BY <3>1, <3>2
  <2>6. Plugins!FlushInv'
    BY <1>1, <1>2, <2>1, <2>5 DEF Plugins!FlushInv, Plugins!Solving
  <2> QED BY <2>3, <2>6
<1>6. CASE Plugins!Commit(t)
  <2>1. /\ instance[t] = "returned" /\ instance' = [instance EXCEPT ![t] = "gone"]
        /\ task[t] \in {"running", "cancelled"}
        /\ task' = [task EXCEPT ![t] = IF @ = "running" THEN "completed" ELSE @]
        /\ awaited' = [awaited EXCEPT ![t] = {}] /\ late' = late \ {t} /\ crowded' = crowded
    BY <1>6 DEF Plugins!Commit, Plugins!Unfinished
  <2>2. PICK n \in awaited[t] : dispatched >= n
    BY <1>6 DEF Plugins!Commit, Plugins!Flushed
  <2>3. n \in Nat
    BY <1>3, <2>2
  <2>4. t \notin crowded => \A i \in DOMAIN events : events[i][2] = t => events[i][1] = Plugins!Kernel
    <3> SUFFICES ASSUME t \notin crowded, NEW i \in DOMAIN events, events[i][2] = t,
                        events[i][1] # Plugins!Kernel
                 PROVE  FALSE
      OBVIOUS
    <3>1. dispatched + i <= n
      BY <1>2, <2>2, <2>3 DEF Plugins!FlushInv
    <3> QED BY <1>3, <1>4, <2>2, <2>3, <3>1
  <2>5. /\ instance' \in [Solves -> Plugins!Instances] /\ awaited' \in [Solves -> SUBSET Nat]
        /\ task' \in [Solves -> {"none", "running", "cancelled", "failed", "completed"}]
    BY <1>3, <2>1 DEF Plugins!Instances
  <2>6. Plugins!UsersTypeOK'
    BY <1>1, <1>2, <2>5 DEF Plugins!UsersTypeOK
  <2>7. Plugins!UsersInv'
    BY <1>1, <1>2, <1>3, <2>1, <2>4 DEF Plugins!UsersInv
  <2>8. Plugins!FlushInv'
    BY <1>1, <1>2, <1>3, <2>1 DEF Plugins!FlushInv, Plugins!Solving
  <2> QED BY <2>6, <2>7, <2>8
<1> QED BY <1>5, <1>6

\* A push queues before it counts: until then it is one of those in pushing.
LEMMA PushStep ==
  ASSUME Plugins!CatalogInv, NEW t \in Solves, Plugins!Emit(t)
  PROVE  Plugins!UsersTypeOK' /\ Plugins!UsersInv' /\ Plugins!FlushInv'
<1>1. Plugins!UsersTypeOK /\ Plugins!UsersInv /\ Plugins!FlushInv
  BY DEF Plugins!CatalogInv, Plugins!CatalogTypeOK
<1>2. PICK who \in {"solver", "client"}, code \in Plugins!Paths \cup {Plugins!Kernel} :
        /\ Plugins!Push(who, t, code)
        /\ who = "solver" => Plugins!Solving(t)
        /\ who = "client" => code = Plugins!Kernel /\ \E h \in handles : h[2] = t
  <2>1. CASE Plugins!Solving(t) /\ instance[t] # Plugins!Remote /\ Plugins!Push("solver", t, instance[t])
    <3>1. instance[t] \in Plugins!Paths \cup {Plugins!Kernel}
      BY <1>1, <2>1 DEF Plugins!UsersTypeOK, Plugins!Instances, Plugins!Solving
    <3> QED BY <2>1, <3>1
  <2>2. CASE (\E h \in handles : h[2] = t) /\ Plugins!Push("client", t, Plugins!Kernel)
    BY <2>2
  <2> QED BY <2>1, <2>2 DEF Plugins!Emit
<1>3. /\ UNCHANGED <<task, instance, handles, awaited, asked, late, crowded, dying, reported, dispatched>>
      /\ events' = Append(events, <<code, t>>)
      /\ pushing' = pushing \cup {<<who, t>>} /\ <<who, t>> \notin pushing
  BY <1>2 DEF Plugins!Push, Plugins!taskVars
<1>4. /\ events \in Seq(Plugins!Codes) /\ reported \in Nat /\ dispatched \in Nat
      /\ <<code, t>> \in Plugins!Codes /\ IsFiniteSet(pushing)
  BY <1>1, CountOfCatalog DEF Plugins!UsersTypeOK, Plugins!Codes
<1>5. /\ events' \in Seq(Plugins!Codes) /\ Len(events') = Len(events) + 1
      /\ DOMAIN events' = DOMAIN events \cup {Len(events) + 1} /\ Len(events) \in Nat
      /\ \A i \in DOMAIN events : events'[i] = events[i]
      /\ events'[Len(events) + 1] = <<code, t>>
  BY <1>3, <1>4
<1>6. IsFiniteSet(pushing') /\ Cardinality(pushing') = Cardinality(pushing) + 1
  BY <1>3, <1>4, FS_AddElement
<1>7. Plugins!UsersTypeOK'
  BY <1>1, <1>3, <1>5, <1>6, CountOfCatalog DEF Plugins!UsersTypeOK
<1>8. code # Plugins!Kernel => Plugins!Solving(t) /\ task[t] \notin {"none", "completed"}
  BY <1>1, <1>2 DEF Plugins!UsersInv, Plugins!Solving
<1>9. Plugins!UsersInv'
  BY <1>1, <1>3, <1>5, <1>8 DEF Plugins!UsersInv
<1>10. dispatched' + Len(events') = reported' + Plugins!Cardinality(pushing')
  <2>1. dispatched + Len(events) = reported + Cardinality(pushing) /\ dispatched' = dispatched /\ reported' = reported
    BY <1>1, <1>3, CountOfCatalog DEF Plugins!FlushInv
  <2>2. Len(events) \in Nat /\ Len(events') = Len(events) + 1 /\ Cardinality(pushing) \in Nat
    BY <1>4, <1>5, FS_CardinalityType
  <2>3. Plugins!Cardinality(pushing') = Cardinality(pushing) + 1
    BY <1>6, CountOfCatalog
  <2>4. dispatched \in Nat /\ reported \in Nat
    BY <1>4
  <2> QED BY <2>1, <2>2, <2>3, <2>4
<1>11. \A w \in pushing' : IF w[1] = "solver" THEN Plugins!Solving(w[2])' ELSE \E h \in handles' : h[2] = w[2]
  BY <1>1, <1>2, <1>3 DEF Plugins!FlushInv, Plugins!Solving
<1>12. ASSUME NEW s \in Solves, NEW n \in Nat, n \in awaited'[s]
       PROVE  /\ instance'[s] = Plugins!Returned
              /\ s \notin crowded' => \A i \in DOMAIN events' :
                   events'[i][1] # Plugins!Kernel /\ events'[i][2] = s => dispatched' + i <= n
  <2>1. n \in awaited[s] /\ instance[s] = Plugins!Returned
    BY <1>1, <1>3, <1>12 DEF Plugins!FlushInv
  <2>2. code # Plugins!Kernel => s # t
    BY <1>8, <2>1 DEF Plugins!Solving
  <2> QED BY <1>1, <1>3, <1>5, <2>1, <2>2 DEF Plugins!FlushInv
<1>13. Plugins!FlushInv'
  BY <1>10, <1>11, <1>12 DEF Plugins!FlushInv
<1> QED BY <1>7, <1>9, <1>13

LEMMA CountStep ==
  ASSUME Plugins!CatalogInv, NEW w \in pushing, Plugins!Count(w)
  PROVE  Plugins!UsersTypeOK' /\ Plugins!UsersInv' /\ Plugins!FlushInv'
<1>1. Plugins!UsersTypeOK /\ Plugins!UsersInv /\ Plugins!FlushInv
  BY DEF Plugins!CatalogInv, Plugins!CatalogTypeOK
<1>2. /\ UNCHANGED <<task, instance, handles, awaited, asked, late, crowded, events, dying, dispatched>>
      /\ pushing' = pushing \ {w} /\ reported' = reported + 1
  BY DEF Plugins!Count, Plugins!taskVars
<1>3. IsFiniteSet(pushing) /\ events \in Seq(Plugins!Codes) /\ reported \in Nat /\ dispatched \in Nat
  BY <1>1, CountOfCatalog DEF Plugins!UsersTypeOK
<1>4. IsFiniteSet(pushing') /\ Cardinality(pushing') = Cardinality(pushing) - 1
  BY <1>2, <1>3, FS_RemoveElement
<1>5. Cardinality(pushing) \in Nat
  BY <1>3, FS_CardinalityType
<1>6. Plugins!UsersTypeOK' /\ Plugins!UsersInv'
  BY <1>1, <1>2, <1>3, <1>4, CountOfCatalog DEF Plugins!UsersTypeOK, Plugins!UsersInv
<1>7. dispatched' + Len(events') = reported' + Plugins!Cardinality(pushing')
  <2>1. dispatched + Len(events) = reported + Cardinality(pushing)
    BY <1>1, CountOfCatalog DEF Plugins!FlushInv
  <2>2. Len(events) \in Nat /\ events' = events /\ dispatched' = dispatched /\ reported' = reported + 1
    BY <1>2, <1>3
  <2>3. Plugins!Cardinality(pushing') = Cardinality(pushing) - 1
    BY <1>4, CountOfCatalog
  <2>4. dispatched \in Nat /\ reported \in Nat
    BY <1>3
  <2> QED BY <1>5, <2>1, <2>2, <2>3, <2>4
<1>8. Plugins!FlushInv'
  BY <1>1, <1>2, <1>7 DEF Plugins!FlushInv, Plugins!Solving
<1> QED BY <1>6, <1>8

LEMMA DispatchStep ==
  ASSUME Plugins!CatalogInv, Plugins!Dispatch \/ Plugins!Destruct
  PROVE  Plugins!UsersTypeOK' /\ Plugins!UsersInv' /\ Plugins!FlushInv'
<1>1. Plugins!UsersTypeOK /\ Plugins!UsersInv /\ Plugins!FlushInv
  BY DEF Plugins!CatalogInv, Plugins!CatalogTypeOK
<1>2. UNCHANGED <<task, instance, handles, awaited, asked, late, crowded, pushing, reported>>
  BY DEF Plugins!Dispatch, Plugins!Destruct, Plugins!taskVars
<1>3. CASE Plugins!Destruct
  <2>1. UNCHANGED <<events, dispatched>> /\ dying' = {}
    BY <1>3 DEF Plugins!Destruct
  <2> QED BY <1>1, <1>2, <2>1 DEF Plugins!UsersTypeOK, Plugins!UsersInv, Plugins!FlushInv, Plugins!Solving
<1>4. CASE Plugins!Dispatch
  <2>1. events # <<>> /\ events' = Tail(events) /\ dying' = {Head(events)} /\ dispatched' = dispatched + 1
    BY <1>4 DEF Plugins!Dispatch
  <2>2. events \in Seq(Plugins!Codes) /\ reported \in Nat /\ dispatched \in Nat
    BY <1>1 DEF Plugins!UsersTypeOK
  <2>3. /\ events' \in Seq(Plugins!Codes) /\ Len(events') = Len(events) - 1 /\ Head(events) \in Plugins!Codes
        /\ DOMAIN events' = 1 .. (Len(events) - 1) /\ DOMAIN events = 1 .. Len(events) /\ Len(events) \in Nat
        /\ \A i \in DOMAIN events' : events'[i] = events[i + 1]
    BY <2>1, <2>2
  <2>4. \A i \in DOMAIN events' : i \in Nat /\ i + 1 \in DOMAIN events /\ events'[i] = events[i + 1]
    BY <2>3
  <2>5. Plugins!UsersTypeOK' /\ Plugins!UsersInv'
    BY <1>1, <1>2, <2>1, <2>2, <2>3, <2>4 DEF Plugins!UsersTypeOK, Plugins!UsersInv
  <2>6. IsFiniteSet(pushing) /\ Plugins!Cardinality(pushing) \in Nat
    BY <1>1, CountOfCatalog, FS_CardinalityType DEF Plugins!UsersTypeOK
  <2>7. dispatched' + Len(events') = reported' + Plugins!Cardinality(pushing')
    BY <1>1, <1>2, <2>1, <2>2, <2>3, <2>6 DEF Plugins!FlushInv
  <2>8. ASSUME NEW s \in Solves, NEW n \in Nat, n \in awaited'[s], s \notin crowded',
               NEW i \in DOMAIN events', events'[i][1] # Plugins!Kernel, events'[i][2] = s
        PROVE  dispatched' + i <= n
    <3>1. dispatched + (i + 1) <= n
      BY <1>1, <1>2, <2>4, <2>8 DEF Plugins!FlushInv
    <3> QED BY <2>1, <2>2, <2>4, <3>1
  <2>9. Plugins!FlushInv'
    BY <1>1, <1>2, <2>7, <2>8 DEF Plugins!FlushInv, Plugins!Solving
  <2> QED BY <2>5, <2>9
<1> QED BY <1>3, <1>4

LEMMA CatalogStep == Plugins!CatalogInv /\ Plugins!CatalogNext => Plugins!CatalogInv'
<1> SUFFICES ASSUME Plugins!CatalogInv, Plugins!CatalogNext PROVE Plugins!CatalogInv'
  OBVIOUS
<1>1. CASE Plugins!AskUnload
  <2>1. UNCHANGED <<sandbox, Plugins!loaderVars, Plugins!taskVars, Plugins!diagnosticVars>> /\ ~Plugins!Active
    BY <1>1 DEF Plugins!AskUnload
  <2> QED BY <2>1, CatalogBooks, CatalogUsers DEF Plugins!CatalogInv, Plugins!CatalogTypeOK
<1>2. ASSUME UNCHANGED <<sandbox, Plugins!loaderVars>>,
             Plugins!UsersTypeOK' /\ Plugins!UsersInv' /\ Plugins!FlushInv'
      PROVE  Plugins!CatalogInv'
  BY <1>2, CatalogBooks DEF Plugins!CatalogInv, Plugins!CatalogTypeOK
<1>3. ASSUME NEW t \in Solves,
             \/ Plugins!Submit(t) \/ Plugins!Emit(t) \/ Plugins!Cancel(t) \/ Plugins!Borrow(t)
             \/ Plugins!Return(t) \/ Plugins!Leave(t) \/ Plugins!FlushBegin(t) \/ Plugins!Commit(t)
             \/ \E n : Plugins!Create(t, n)
      PROVE  Plugins!CatalogInv'
  <2>1. UNCHANGED <<sandbox, Plugins!loaderVars>>
    BY <1>3 DEF Plugins!Submit, Plugins!Emit, Plugins!Push, Plugins!Cancel, Plugins!Borrow,
        Plugins!Return, Plugins!Leave, Plugins!FlushBegin, Plugins!Commit, Plugins!Create
  <2>2. Plugins!UsersTypeOK' /\ Plugins!UsersInv' /\ Plugins!FlushInv'
    BY <1>3, TaskStep, FlushStep, PushStep
  <2> QED BY <1>2, <2>1, <2>2
<1>4. CASE Plugins!Dispatch \/ Plugins!Destruct
  BY <1>2, <1>4, DispatchStep DEF Plugins!Dispatch, Plugins!Destruct
<1>5. CASE \E w \in pushing : Plugins!Count(w)
  BY <1>2, <1>5, CountStep DEF Plugins!Count
<1>6. CASE \E h \in handles : Plugins!GiveBack(h)
  BY <1>2, <1>6, GiveBackStep DEF Plugins!GiveBack
<1> QED BY <1>1, <1>3, <1>4, <1>5, <1>6, LoadStep, UnloadStep, DestroyStep DEF Plugins!CatalogNext

LEMMA CatalogInitInv == Plugins!CatalogInit => Plugins!CatalogInv
<1> SUFFICES ASSUME Plugins!CatalogInit PROVE Plugins!CatalogInv
  OBVIOUS
<1>1. /\ plugins = <<>> /\ sandboxed = <<>> /\ mapped = {} /\ ~asked
      /\ DOMAIN registry = Natives /\ \A n \in Natives : registry[n] = Plugins!Kernel
      /\ registry = [n \in DOMAIN registry |-> registry[n]] /\ sandbox \in BOOLEAN
  BY DEF Plugins!CatalogInit
<1>2. DOMAIN plugins = {} /\ DOMAIN sandboxed = {} /\ sandboxed = [n \in DOMAIN sandboxed |-> sandboxed[n]]
  BY <1>1
<1>3. Plugins!LoaderTypeOK
  BY <1>1, <1>2 DEF Plugins!LoaderTypeOK
<1>4. Plugins!FactoriesAreOpen /\ Plugins!ListedInv
  BY <1>1, <1>2 DEF Plugins!FactoriesAreOpen, Plugins!ListedInv, Plugins!Names
<1>5. /\ task = [t \in Solves |-> "none"] /\ instance = [t \in Solves |-> Plugins!None]
      /\ handles = {} /\ events = <<>> /\ dying = {} /\ pushing = {} /\ reported = 0 /\ dispatched = 0
      /\ awaited = [t \in Solves |-> {}]
  BY DEF Plugins!CatalogInit
<1>6. Plugins!IsFiniteSet(pushing) /\ Plugins!Cardinality(pushing) = 0
  BY <1>5, CountOfCatalog, FS_EmptySet
<1>7. DOMAIN events = {} /\ Len(events) = 0 /\ events \in Seq(Plugins!Codes)
  BY <1>5
<1>8. Plugins!UsersTypeOK
  BY <1>5, <1>6, <1>7 DEF Plugins!UsersTypeOK, Plugins!Instances
<1>9. Plugins!UsersInv /\ Plugins!FlushInv
  BY <1>1, <1>5, <1>6, <1>7 DEF Plugins!UsersInv, Plugins!FlushInv
<1> QED BY <1>3, <1>4, <1>8, <1>9 DEF Plugins!CatalogInv, Plugins!CatalogTypeOK

\* Who is in a library when it is closed, and that this is the loader's doing.
LEMMA IdleStep == Plugins!CatalogInv /\ [Plugins!CatalogNext]_mapped => Plugins!ClosedWhenIdle
<1> SUFFICES ASSUME Plugins!CatalogInv, [Plugins!CatalogNext]_mapped,
                    NEW p \in mapped \ mapped', NEW t \in Solves
             PROVE  /\ instance[t] = p => asked /\ Plugins!Unseen(t)
                    /\ Plugins!Queued(p, t) => asked /\ (Plugins!Unseen(t) \/ t \in crowded)
                    /\ <<p, t>> \in handles => asked
  BY DEF Plugins!ClosedWhenIdle
<1>1. p \in Plugins!Paths
      /\ p \notin {Plugins!Kernel, Plugins!Remote, Plugins!None, Plugins!Returned, Plugins!Gone}
  BY FactoryPaths, PathsAreNoMarks
<1>2. task[t] \in {"none", "running", "cancelled", "failed", "completed"}
  BY DEF Plugins!CatalogInv, Plugins!CatalogTypeOK, Plugins!UsersTypeOK
<1>3. CASE asked
  <2>1. task[t] = "running" => t \in late
    BY <1>3 DEF Plugins!CatalogInv, Plugins!UsersInv
  <2>2. instance[t] = p => Plugins!Unseen(t)
    BY <1>1, <1>2, <2>1 DEF Plugins!CatalogInv, Plugins!UsersInv, Plugins!Unseen
  <2>3. ASSUME Plugins!Queued(p, t) PROVE Plugins!Unseen(t) \/ t \in crowded
    <3>1. PICK i \in DOMAIN events : events[i] = <<p, t>>
      BY <2>3 DEF Plugins!Queued
    <3>2. task[t] # "none" /\ (task[t] = "completed" => t \in crowded)
      BY <1>1, <3>1 DEF Plugins!CatalogInv, Plugins!UsersInv
    <3> QED BY <1>2, <2>1, <3>2 DEF Plugins!Unseen
  <2> QED BY <1>3, <2>2, <2>3
<1>4. CASE Plugins!Destroy
  <2>1. /\ handles = {} /\ dispatched >= reported
        /\ \A s \in Solves : task[s] = "none" \/ instance[s] = Plugins!Gone
    BY <1>4 DEF Plugins!Destroy, Plugins!Drained
  <2>2. \A s \in Solves : instance[s] \in {Plugins!None, Plugins!Gone}
    BY <2>1 DEF Plugins!CatalogInv, Plugins!UsersInv
  <2>3. pushing = {}
    <3> SUFFICES ASSUME NEW w \in pushing PROVE FALSE
      OBVIOUS
    <3>1. w[2] \in Solves
      BY DEF Plugins!CatalogInv, Plugins!CatalogTypeOK, Plugins!UsersTypeOK
    <3>2. ~Plugins!Solving(w[2]) /\ ~(\E h \in handles : h[2] = w[2])
      BY <2>1, <2>2, <3>1 DEF Plugins!Solving
    <3> QED BY <3>2 DEF Plugins!CatalogInv, Plugins!FlushInv
  <2>4. Plugins!Cardinality(pushing) = 0
    BY <2>3, CountOfCatalog, FS_EmptySet
  <2>5. events \in Seq(Plugins!Codes) /\ reported \in Nat /\ dispatched \in Nat
        /\ dispatched + Len(events) = reported + Plugins!Cardinality(pushing)
    BY DEF Plugins!CatalogInv, Plugins!CatalogTypeOK, Plugins!UsersTypeOK, Plugins!FlushInv
  <2>6. Len(events) = 0
    BY <2>1, <2>4, <2>5
  <2>7. ~Plugins!Queued(p, t)
    BY <2>5, <2>6 DEF Plugins!Queued
  <2> QED BY <1>1, <2>1, <2>2, <2>7
<1>5. CASE UNCHANGED mapped
  BY <1>5
<1>6. CASE \E q \in Plugins!Paths : Plugins!LoadPlugin(q)
  <2>1. mapped \subseteq mapped'
    BY <1>6 DEF Plugins!LoadPlugin
  <2> QED BY <2>1
<1>7. CASE \E n : Plugins!Unload(n)
  BY <1>3, <1>7 DEF Plugins!Unload
<1>8. CASE \/ Plugins!AskUnload \/ Plugins!Dispatch \/ Plugins!Destruct
           \/ \E s \in Solves :
                \/ Plugins!Submit(s) \/ Plugins!Emit(s) \/ Plugins!Cancel(s) \/ Plugins!Borrow(s)
                \/ Plugins!Return(s) \/ Plugins!Leave(s) \/ Plugins!FlushBegin(s) \/ Plugins!Commit(s)
                \/ \E n : Plugins!Create(s, n)
           \/ \E w \in pushing : Plugins!Count(w)
           \/ \E h \in handles : Plugins!GiveBack(h)
  <2>1. UNCHANGED Plugins!loaderVars
    BY <1>8 DEF Plugins!AskUnload, Plugins!Dispatch, Plugins!Destruct, Plugins!Submit, Plugins!Emit,
        Plugins!Push, Plugins!Cancel, Plugins!Borrow, Plugins!Return, Plugins!Leave,
        Plugins!FlushBegin, Plugins!Commit, Plugins!Create, Plugins!Count, Plugins!GiveBack
  <2> QED BY <1>5, <2>1 DEF Plugins!loaderVars
<1> QED BY <1>4, <1>5, <1>6, <1>7, <1>8 DEF Plugins!CatalogNext

CatalogsInv == scene \in Plugins!Settings => Plugins!CatalogInv

\* AlgorithmLoader: for any libraries, builtins, tasks and diagnostics, every
\* factory's library is open, and a library is closed under a worker's executor
\* or a queued diagnostic only by an unload request, and only of a task that was
\* cancelled, that failed, or that was submitted between the request's check and
\* the unloading; or, for the diagnostic, of one whose flush() began in the
\* middle of another push; and under a control call only by such a request.
THEOREM PluginsStay == Spec => PluginsStayOpen
<1>1. Init => CatalogsInv
  BY CatalogInitInv DEF Init, WorkersInit, CatalogsInv, Ring!RingInit, Ring!Kinds, Seg!SegmentInit,
    Seg!Kinds, Plugins!Settings
<1>2. CatalogsInv /\ [Next]_vars => CatalogsInv'
  <2> SUFFICES ASSUME CatalogsInv, [Next]_vars, scene' \in Plugins!Settings PROVE Plugins!CatalogInv'
    BY DEF CatalogsInv, Plugins!Settings
  <2>1. scene \in Plugins!Settings /\ Plugins!CatalogInv
    BY SceneStays DEF CatalogsInv
  <2>2. CASE Plugins!CatalogNext
    BY <2>1, <2>2, CatalogStep
  <2>3. CASE UNCHANGED catalogOnly
    <3>1. UNCHANGED <<sandbox, Plugins!loaderVars, Plugins!taskVars, Plugins!diagnosticVars, asked>>
      BY <2>3 DEF catalogOnly, Plugins!loaderVars, Plugins!taskVars, Plugins!diagnosticVars
    <3> QED BY <2>1, <3>1, CatalogBooks, CatalogUsers DEF Plugins!CatalogInv, Plugins!CatalogTypeOK
  <2> QED BY <2>1, <2>2, <2>3 DEF Next, vars, Ring!Kinds, Seg!Kinds, Plugins!Settings
<1>3. CatalogsInv => (scene \in Plugins!Settings => Plugins!FactoriesAreOpen)
  BY DEF CatalogsInv, Plugins!CatalogInv
<1>4. CatalogsInv /\ [Next]_vars => [(scene \in Plugins!Settings => Plugins!ClosedWhenIdle)]_vars
  <2> SUFFICES ASSUME CatalogsInv, [Next]_vars, scene \in Plugins!Settings PROVE Plugins!ClosedWhenIdle
    OBVIOUS
  <2>1. [Plugins!CatalogNext]_mapped
    BY DEF Next, vars, catalogOnly, Ring!Kinds, Seg!Kinds, Plugins!Settings
  <2> QED BY <2>1, IdleStep DEF CatalogsInv
<1> QED BY <1>1, <1>2, <1>3, <1>4, PTL DEF Spec, PluginsStayOpen

-----------------------------------------------------------------------------
(* The thread pool.                                                         *)

PoolP == INSTANCE PoolProofs WITH Workers <- Working, Callers <- Joiners, Chunks <- Parts,
                                  HasWaiter <- TRUE, MayStop <- FALSE,
                                  kind <- scene, Capacity <- RingSize, Producers <- QueueProducers,
                                  Consumers <- QueueConsumers, Pushes <- PushCalls,
                                  Pops <- PopCalls, Cleared <- Clearing
StopP == INSTANCE PoolProofs WITH Workers <- Working, Callers <- Racers, Chunks <- Shares,
                                  HasWaiter <- FALSE, MayStop <- TRUE,
                                  kind <- scene, Capacity <- RingSize, Producers <- QueueProducers,
                                  Consumers <- QueueConsumers, Pushes <- PushCalls,
                                  Pops <- PopCalls, Cleared <- Clearing

LEMMA PoolBridge ==
  /\ Pool!PoolAssumption <=> PoolP!PoolAssumption
  /\ Pool!PoolInit <=> PoolP!PoolInit
  /\ Pool!PoolNext <=> PoolP!PoolNext
  /\ Pool!PendingCoversTasks <=> PoolP!PendingCoversTasks
  /\ Pool!FrameOutlivesChunks <=> PoolP!FrameOutlivesChunks
  /\ Pool!WaitMeansDone <=> PoolP!WaitMeansDone
BY DEF
    Pool!Tasks, PoolP!Tasks, Pool!NoTask, PoolP!NoTask, Pool!Others, PoolP!Others,
    Pool!Goto, PoolP!Goto, Pool!WakeAll, PoolP!WakeAll,
    Pool!PoolInit, PoolP!PoolInit, Pool!Chunk, PoolP!Chunk, Pool!Submit, PoolP!Submit,
    Pool!CountPending, PoolP!CountPending, Pool!Push, PoolP!Push,
    Pool!WakeWorkers, PoolP!WakeWorkers, Pool!JoinChunks, PoolP!JoinChunks,
    Pool!PopTask, PoolP!PopTask, Pool!FinishTask, PoolP!FinishTask,
    Pool!TaskDone, PoolP!TaskDone, Pool!BumpIdle, PoolP!BumpIdle,
    Pool!FoundEmpty, PoolP!FoundEmpty, Pool!TestStop, PoolP!TestStop,
    Pool!TestPending, PoolP!TestPending, Pool!SnapshotWakes, PoolP!SnapshotWakes,
    Pool!RecheckPending, PoolP!RecheckPending, Pool!RecheckStop, PoolP!RecheckStop,
    Pool!Sleep, PoolP!Sleep, Pool!Accepted, PoolP!Accepted, Pool!WaitBegin, PoolP!WaitBegin,
    Pool!WaitLook, PoolP!WaitLook, Pool!WaitRead, PoolP!WaitRead,
    Pool!WaitRelook, PoolP!WaitRelook, Pool!WaitSleep, PoolP!WaitSleep,
    Pool!StopBegin, PoolP!StopBegin, Pool!StopAsk, PoolP!StopAsk, Pool!StopWake, PoolP!StopWake,
    Pool!StopJoin, PoolP!StopJoin, Pool!StopDrain, PoolP!StopDrain, Pool!StopEnd, PoolP!StopEnd,
    Pool!CallerNext, PoolP!CallerNext, Pool!WorkerNext, PoolP!WorkerNext,
    Pool!WaiterNext, PoolP!WaiterNext, Pool!StopNext, PoolP!StopNext,
    Pool!PoolNext, PoolP!PoolNext, Pool!PoolAssumption, PoolP!PoolAssumption,
    Pool!IsFiniteSet, PoolP!IsFiniteSet, Pool!Cardinality, PoolP!Cardinality,
    Pool!Range, PoolP!Range, Pool!Claimed, PoolP!Claimed,
    Pool!FrameOutlivesChunks, PoolP!FrameOutlivesChunks,
    Pool!PendingCoversTasks, PoolP!PendingCoversTasks, Pool!WaitMeansDone, PoolP!WaitMeansDone

LEMMA StopBridge ==
  /\ Stop!PoolAssumption <=> StopP!PoolAssumption
  /\ Stop!PoolInit <=> StopP!PoolInit
  /\ Stop!PoolNext <=> StopP!PoolNext
  /\ Stop!PendingCoversTasks <=> StopP!PendingCoversTasks
  /\ Stop!FrameOutlivesChunks <=> StopP!FrameOutlivesChunks
  /\ Stop!WaitMeansDone <=> StopP!WaitMeansDone
BY DEF
    Stop!Tasks, StopP!Tasks, Stop!NoTask, StopP!NoTask, Stop!Others, StopP!Others,
    Stop!Goto, StopP!Goto, Stop!WakeAll, StopP!WakeAll,
    Stop!PoolInit, StopP!PoolInit, Stop!Chunk, StopP!Chunk, Stop!Submit, StopP!Submit,
    Stop!CountPending, StopP!CountPending, Stop!Push, StopP!Push,
    Stop!WakeWorkers, StopP!WakeWorkers, Stop!JoinChunks, StopP!JoinChunks,
    Stop!PopTask, StopP!PopTask, Stop!FinishTask, StopP!FinishTask,
    Stop!TaskDone, StopP!TaskDone, Stop!BumpIdle, StopP!BumpIdle,
    Stop!FoundEmpty, StopP!FoundEmpty, Stop!TestStop, StopP!TestStop,
    Stop!TestPending, StopP!TestPending, Stop!SnapshotWakes, StopP!SnapshotWakes,
    Stop!RecheckPending, StopP!RecheckPending, Stop!RecheckStop, StopP!RecheckStop,
    Stop!Sleep, StopP!Sleep, Stop!Accepted, StopP!Accepted, Stop!WaitBegin, StopP!WaitBegin,
    Stop!WaitLook, StopP!WaitLook, Stop!WaitRead, StopP!WaitRead,
    Stop!WaitRelook, StopP!WaitRelook, Stop!WaitSleep, StopP!WaitSleep,
    Stop!StopBegin, StopP!StopBegin, Stop!StopAsk, StopP!StopAsk, Stop!StopWake, StopP!StopWake,
    Stop!StopJoin, StopP!StopJoin, Stop!StopDrain, StopP!StopDrain, Stop!StopEnd, StopP!StopEnd,
    Stop!CallerNext, StopP!CallerNext, Stop!WorkerNext, StopP!WorkerNext,
    Stop!WaiterNext, StopP!WaiterNext, Stop!StopNext, StopP!StopNext,
    Stop!PoolNext, StopP!PoolNext, Stop!PoolAssumption, StopP!PoolAssumption,
    Stop!IsFiniteSet, StopP!IsFiniteSet, Stop!Cardinality, StopP!Cardinality,
    Stop!Range, StopP!Range, Stop!Claimed, StopP!Claimed,
    Stop!FrameOutlivesChunks, StopP!FrameOutlivesChunks,
    Stop!PendingCoversTasks, StopP!PendingCoversTasks, Stop!WaitMeansDone, StopP!WaitMeansDone

PoolsInv ==
  /\ scene = "pool" => PoolP!PoolInv
  /\ scene = "stop" => StopP!PoolInv

LEMMA PoolsInit == Init => PoolsInv
<1> SUFFICES ASSUME Init PROVE PoolsInv
  OBVIOUS
<1>1. /\ scene = "pool" => Pool!PoolInit
      /\ scene = "stop" => Stop!PoolInit
  BY DEF Init, WorkersInit, Ring!RingInit, Ring!Kinds, Seg!SegmentInit, Seg!Kinds,
    Plugins!CatalogInit, Plugins!Settings
<1>2. PoolP!PoolAssumption /\ StopP!PoolAssumption
  BY WorkersAssumption, PoolBridge, StopBridge
<1> QED BY <1>1, <1>2, PoolBridge, StopBridge, PoolP!PoolInitInv, StopP!PoolInitInv DEF PoolsInv

LEMMA PoolsStep == PoolsInv /\ [Next]_vars => PoolsInv'
<1> SUFFICES ASSUME PoolsInv, [Next]_vars PROVE PoolsInv'
  OBVIOUS
<1>1. PoolP!PoolAssumption /\ StopP!PoolAssumption
  BY WorkersAssumption, PoolBridge, StopBridge
<1>2. scene' = scene
  BY SceneStays
<1>3. /\ scene = "pool" => Pool!PoolNext \/ UNCHANGED PoolP!poolVars
      /\ scene = "stop" => Stop!PoolNext \/ UNCHANGED StopP!poolVars
  BY DEF Next, vars, threadsOnly, poolOnly, PoolP!poolVars, StopP!poolVars, Ring!Kinds, Seg!Kinds,
     Plugins!Settings
<1>4. ASSUME scene = "pool" PROVE PoolP!PoolInv'
  <2>1. [PoolP!PoolNext]_(PoolP!poolVars)
    BY <1>3, <1>4, PoolBridge
  <2> QED BY <1>1, <1>4, <2>1, PoolP!PoolStep DEF PoolsInv
<1>5. ASSUME scene = "stop" PROVE StopP!PoolInv'
  <2>1. [StopP!PoolNext]_(StopP!poolVars)
    BY <1>3, <1>5, StopBridge
  <2> QED BY <1>1, <1>5, <2>1, StopP!PoolStep DEF PoolsInv
<1> QED BY <1>2, <1>4, <1>5 DEF PoolsInv

LEMMA PoolsFacts == PoolsInv => JoinMeansDone
<1> SUFFICES ASSUME PoolsInv PROVE JoinMeansDone
  OBVIOUS
<1>1. PoolP!PoolAssumption /\ StopP!PoolAssumption
  BY WorkersAssumption, PoolBridge, StopBridge
<1>2. scene = "pool" => Pool!PendingCoversTasks /\ Pool!FrameOutlivesChunks /\ Pool!WaitMeansDone
  BY <1>1, PoolBridge, PoolP!PoolFacts DEF PoolsInv
<1>3. scene = "stop" => Stop!PendingCoversTasks /\ Stop!FrameOutlivesChunks
  BY <1>1, StopBridge, StopP!PoolFacts DEF PoolsInv
<1>4. Stop!PendingCoversTasks <=> Pool!PendingCoversTasks
  BY DEF Stop!PendingCoversTasks, Pool!PendingCoversTasks, Stop!Cardinality, Pool!Cardinality
<1> QED BY <1>2, <1>3, <1>4 DEF JoinMeansDone, Pooled

\* ThreadPool: for any workers, callers and chunks, _pending never misses a
\* task, nobody returns from parallel_for_stoppable while a chunk of his is
\* queued or runs, and wait() returns when what was submitted before is over.
THEOREM JoinsMeanDone == Spec => []JoinMeansDone
<1>1. Init => PoolsInv
  BY PoolsInit
<1>2. PoolsInv /\ [Next]_vars => PoolsInv'
  BY PoolsStep
<1>3. PoolsInv => JoinMeansDone
  BY PoolsFacts
<1> QED BY <1>1, <1>2, <1>3, PTL DEF Spec

-----------------------------------------------------------------------------
(* The event loop and the logger.                                           *)

LogP == INSTANCE LoopProofs WITH Posters <- Posting, Bound <- 0, Batches <- {1}, MayStop <- TRUE,
                                  MayClear <- TRUE, kind <- scene, enq <- write, deq <- read,
                                  phase <- seq, begun <- calls, BlockSize <- SegmentSize,
                                  Producers <- QueueProducers, Consumers <- QueueConsumers,
                                  Pushes <- PushCalls, Pops <- PopCalls
LoopP == INSTANCE LoopProofs WITH Posters <- Posting, Bound <- Capacity, Batches <- Sizes,
                                  MayStop <- FALSE, MayClear <- TRUE,
                                  kind <- scene, enq <- write, deq <- read, phase <- seq, begun <- calls,
                                  BlockSize <- SegmentSize,
                                  Producers <- QueueProducers, Consumers <- QueueConsumers,
                                  Pushes <- PushCalls, Pops <- PopCalls

LEMMA LogBridge ==
  /\ Log!LoopAssumption <=> LogP!LoopAssumption
  /\ Log!LoggerInit <=> LogP!LoggerInit
  /\ Log!LoggerNext <=> LogP!LoggerNext
  /\ Log!GracefulStopDrains <=> LogP!GracefulStopDrains
  /\ Log!QuietFlushSeesAll <=> LogP!QuietFlushSeesAll
BY DEF
    Log!Name, LogP!Name, Log!NoEntry, LogP!NoEntry, Log!Goto, LogP!Goto,
    Log!LoopInit, LogP!LoopInit, Log!PostBegin, LogP!PostBegin,
    Log!Full, LogP!Full, Log!Claim, LogP!Claim,
    Log!PublishEntry, LogP!PublishEntry, Log!GiveUp, LogP!GiveUp,
    Log!Signal, LogP!Signal, Log!Notify, LogP!Notify, Log!Count, LogP!Count,
    Log!Poppable, LogP!Poppable, Log!NothingToPop, LogP!NothingToPop,
    Log!Dispatch, LogP!Dispatch, Log!DrainOne, LogP!DrainOne,
    Log!HandlerReturns, LogP!HandlerReturns, Log!DrainEnds, LogP!DrainEnds,
    Log!CheckStop, LogP!CheckStop, Log!WorkerExit, LogP!WorkerExit,
    Log!Snapshot, LogP!Snapshot, Log!SecondLookFails, LogP!SecondLookFails,
    Log!WaitWake, LogP!WaitWake, Log!Start, LogP!Start,
    Log!Returned, LogP!Returned, Log!StopBegin, LogP!StopBegin,
    Log!StopBump, LogP!StopBump, Log!StopNotify, LogP!StopNotify,
    Log!StopJoin, LogP!StopJoin, Log!WorkerNext, LogP!WorkerNext,
    Log!PosterNext, LogP!PosterNext, Log!OwnerNext, LogP!OwnerNext,
    Log!LoopNext, LogP!LoopNext,
    Log!GracefulStopDrains, LogP!GracefulStopDrains,
    Log!LoggerInit, LogP!LoggerInit, Log!FlushBegin, LogP!FlushBegin,
    Log!FlushDone, LogP!FlushDone, Log!LoggerNext, LogP!LoggerNext,
    Log!QuietFlushSeesAll, LogP!QuietFlushSeesAll,
    Log!LoopAssumption, LogP!LoopAssumption, Log!loopVars, LogP!loopVars,
    Log!loggerVars, LogP!loggerVars

LEMMA LoopBridge ==
  /\ Loop!LoopAssumption <=> LoopP!LoopAssumption
  /\ Loop!LoggerInit <=> LoopP!LoggerInit
  /\ Loop!LoggerNext <=> LoopP!LoggerNext
  /\ Loop!GracefulStopDrains <=> LoopP!GracefulStopDrains
  /\ Loop!QuietFlushSeesAll <=> LoopP!QuietFlushSeesAll
BY DEF
    Loop!Name, LoopP!Name, Loop!NoEntry, LoopP!NoEntry, Loop!Goto, LoopP!Goto,
    Loop!LoopInit, LoopP!LoopInit, Loop!PostBegin, LoopP!PostBegin,
    Loop!Full, LoopP!Full, Loop!Claim, LoopP!Claim,
    Loop!PublishEntry, LoopP!PublishEntry, Loop!GiveUp, LoopP!GiveUp,
    Loop!Signal, LoopP!Signal, Loop!Notify, LoopP!Notify,
    Loop!Count, LoopP!Count, Loop!Poppable, LoopP!Poppable,
    Loop!NothingToPop, LoopP!NothingToPop, Loop!Dispatch, LoopP!Dispatch,
    Loop!DrainOne, LoopP!DrainOne, Loop!HandlerReturns, LoopP!HandlerReturns,
    Loop!DrainEnds, LoopP!DrainEnds, Loop!CheckStop, LoopP!CheckStop,
    Loop!WorkerExit, LoopP!WorkerExit, Loop!Snapshot, LoopP!Snapshot,
    Loop!SecondLookFails, LoopP!SecondLookFails, Loop!WaitWake, LoopP!WaitWake,
    Loop!Start, LoopP!Start, Loop!Returned, LoopP!Returned,
    Loop!StopBegin, LoopP!StopBegin, Loop!StopBump, LoopP!StopBump,
    Loop!StopNotify, LoopP!StopNotify, Loop!StopJoin, LoopP!StopJoin,
    Loop!WorkerNext, LoopP!WorkerNext, Loop!PosterNext, LoopP!PosterNext,
    Loop!OwnerNext, LoopP!OwnerNext, Loop!LoopNext, LoopP!LoopNext,
    Loop!GracefulStopDrains, LoopP!GracefulStopDrains,
    Loop!LoggerInit, LoopP!LoggerInit, Loop!FlushBegin, LoopP!FlushBegin,
    Loop!FlushDone, LoopP!FlushDone, Loop!LoggerNext, LoopP!LoggerNext,
    Loop!QuietFlushSeesAll, LoopP!QuietFlushSeesAll,
    Loop!LoopAssumption, LoopP!LoopAssumption, Loop!loopVars, LoopP!loopVars,
    Loop!loggerVars, LoopP!loggerVars

LoopsInv ==
  /\ scene = "log" => LogP!LoopInv
  /\ scene = "loop" => LoopP!LoopInv

LEMMA LoopsInit == Init => LoopsInv
<1> SUFFICES ASSUME Init PROVE LoopsInv
  OBVIOUS
<1>1. /\ scene = "log" => Log!LoggerInit
      /\ scene = "loop" => Loop!LoggerInit
  BY DEF Init, WorkersInit, Ring!RingInit, Ring!Kinds, Seg!SegmentInit, Seg!Kinds,
    Plugins!CatalogInit, Plugins!Settings
<1>2. LogP!LoopAssumption /\ LoopP!LoopAssumption
  BY WorkersAssumption, LogBridge, LoopBridge
<1> QED BY <1>1, <1>2, LogBridge, LoopBridge, LogP!LoopInitInv, LoopP!LoopInitInv DEF LoopsInv

LEMMA LoopsStep == LoopsInv /\ [Next]_vars => LoopsInv'
<1> SUFFICES ASSUME LoopsInv, [Next]_vars PROVE LoopsInv'
  OBVIOUS
<1>1. LogP!LoopAssumption /\ LoopP!LoopAssumption
  BY WorkersAssumption, LogBridge, LoopBridge
<1>2. scene' = scene
  BY SceneStays
<1>3. /\ scene = "log" => Log!LoggerNext \/ UNCHANGED <<LogP!loopVars, LogP!loggerVars>>
      /\ scene = "loop" => Loop!LoggerNext \/ UNCHANGED <<LoopP!loopVars, LoopP!loggerVars>>
  BY DEF Next, vars, threadsOnly, loopOnly, LogP!loopVars, LoopP!loopVars,
     LogP!loggerVars, LoopP!loggerVars, Ring!Kinds, Seg!Kinds, Plugins!Settings
<1>4. ASSUME scene = "log" PROVE LogP!LoopInv'
  <2>1. [LogP!LoggerNext]_<<LogP!loopVars, LogP!loggerVars>>
    BY <1>3, <1>4, LogBridge
  <2> QED BY <1>1, <1>4, <2>1, LogP!LoopStep DEF LoopsInv
<1>5. ASSUME scene = "loop" PROVE LoopP!LoopInv'
  <2>1. [LoopP!LoggerNext]_<<LoopP!loopVars, LoopP!loggerVars>>
    BY <1>3, <1>5, LoopBridge
  <2> QED BY <1>1, <1>5, <2>1, LoopP!LoopStep DEF LoopsInv
<1> QED BY <1>2, <1>4, <1>5 DEF LoopsInv

\* EventLoop::stop() without force: for any posters, every entry whose posting
\* call had returned before stop() was called has been handled when it returns.
THEOREM GracefulStopLosesNothing == Spec => []GracefulStopDrains
<1>1. Init => LoopsInv
  BY LoopsInit
<1>2. LoopsInv /\ [Next]_vars => LoopsInv'
  BY LoopsStep
<1>3. LoopsInv => GracefulStopDrains
  BY LogP!LoopFacts, LogBridge DEF LoopsInv, GracefulStopDrains
<1> QED BY <1>1, <1>2, <1>3, PTL DEF Spec

\* Logger::flush() with no log() in progress: for any posters, capacities and
\* batches, the two counters are enough to wait for every entry logged before.
THEOREM FlushWaitsForAll == Spec => []QuietFlushSeesAll
<1>1. Init => LoopsInv
  BY LoopsInit
<1>2. LoopsInv /\ [Next]_vars => LoopsInv'
  BY LoopsStep
<1>3. LoopsInv => QuietFlushSeesAll
  <2>1. scene = "log" /\ LoopsInv => Log!QuietFlushSeesAll
    BY LogP!LoopFacts, LogBridge DEF LoopsInv
  <2>2. scene = "loop" /\ LoopsInv => Loop!QuietFlushSeesAll
    BY LoopP!LoopFacts, LoopBridge DEF LoopsInv
  <2>3. Loop!QuietFlushSeesAll <=> Log!QuietFlushSeesAll
    BY DEF Loop!QuietFlushSeesAll, Log!QuietFlushSeesAll
  <2> QED BY <2>1, <2>2, <2>3 DEF QuietFlushSeesAll, Logging
<1> QED BY <1>1, <1>2, <1>3, PTL DEF Spec

-----------------------------------------------------------------------------
(* The sandboxed executor.                                                  *)

HandshakeP == INSTANCE SandboxProofs WITH Runs <- 1, Calls <- 2, Ops <- AllOps, Chatter <- 1,
                                          MayFail <- TRUE, MayDie <- TRUE
RerunP == INSTANCE SandboxProofs WITH Runs <- 2, Calls <- 2, Ops <- AllOps, Chatter <- 0,
                                      MayFail <- FALSE, MayDie <- FALSE
CrashP == INSTANCE SandboxProofs WITH Runs <- 2, Calls <- 1, Ops <- AllOps, Chatter <- 0,
                                      MayFail <- TRUE, MayDie <- TRUE

LEMMA HandshakeBridge ==
  /\ Handshake!SandboxInit <=> HandshakeP!SandboxInit
  /\ Handshake!SandboxNext <=> HandshakeP!SandboxNext
  /\ Handshake!WaitTellsTheTruth <=> HandshakeP!WaitTellsTheTruth
  /\ Handshake!CheckpointIsOfThisRun <=> HandshakeP!CheckpointIsOfThisRun
<1> USE DEF
    Handshake!sandboxVars, HandshakeP!sandboxVars, Handshake!mirror, HandshakeP!mirror,
    Handshake!parent, HandshakeP!parent, Handshake!worker, HandshakeP!worker,
    Handshake!Threads, HandshakeP!Threads, Handshake!Goto, HandshakeP!Goto,
    Handshake!Frame, HandshakeP!Frame, Handshake!Terminal, HandshakeP!Terminal,
    Handshake!Readable, HandshakeP!Readable, Handshake!AtEof, HandshakeP!AtEof,
    Handshake!Send, HandshakeP!Send
<1>1. Handshake!SandboxInit <=> HandshakeP!SandboxInit
  BY DEF Handshake!SandboxInit, HandshakeP!SandboxInit
<1>2. /\ Handshake!RunnerNext <=> HandshakeP!RunnerNext
      /\ Handshake!StartSend <=> HandshakeP!StartSend
      /\ Handshake!Wait <=> HandshakeP!Wait
      /\ Handshake!DestroyBegin <=> HandshakeP!DestroyBegin
  BY DEF
    Handshake!RunnerNext, HandshakeP!RunnerNext, Handshake!AskWorker, HandshakeP!AskWorker,
    Handshake!ReadReply, HandshakeP!ReadReply, Handshake!ReplyFails, HandshakeP!ReplyFails,
    Handshake!BeginRun, HandshakeP!BeginRun, Handshake!Wait, HandshakeP!Wait,
    Handshake!WaitReturns, HandshakeP!WaitReturns, Handshake!StartSend, HandshakeP!StartSend,
    Handshake!DestroyBegin, HandshakeP!DestroyBegin
<1>3. /\ Handshake!PauseCheck <=> HandshakeP!PauseCheck
      /\ Handshake!ResumeSend <=> HandshakeP!ResumeSend
      /\ Handshake!CancelExchange <=> HandshakeP!CancelExchange
      /\ Handshake!SaveCheck <=> HandshakeP!SaveCheck
  BY DEF
    Handshake!Call, HandshakeP!Call, Handshake!PauseCheck, HandshakeP!PauseCheck,
    Handshake!ResumeSend, HandshakeP!ResumeSend, Handshake!CancelExchange, HandshakeP!CancelExchange,
    Handshake!SaveCheck, HandshakeP!SaveCheck
<1>4. Handshake!CallerNext <=> HandshakeP!CallerNext
  BY DEF
    Handshake!CallerNext, HandshakeP!CallerNext, Handshake!PauseSend, HandshakeP!PauseSend,
    Handshake!PauseMark, HandshakeP!PauseMark, Handshake!PauseAwait, HandshakeP!PauseAwait,
    Handshake!PauseFlip, HandshakeP!PauseFlip, Handshake!ResumeStore, HandshakeP!ResumeStore,
    Handshake!CancelRestore, HandshakeP!CancelRestore, Handshake!CancelSend, HandshakeP!CancelSend,
    Handshake!SaveAwait, HandshakeP!SaveAwait, Handshake!ShutDown, HandshakeP!ShutDown,
    Handshake!Teardown, HandshakeP!Teardown
<1>5. Handshake!ReaderNext <=> HandshakeP!ReaderNext
  BY DEF
    Handshake!ReaderNext, HandshakeP!ReaderNext, Handshake!Abort, HandshakeP!Abort,
    Handshake!ReaderTop, HandshakeP!ReaderTop, Handshake!PollWake, HandshakeP!PollWake,
    Handshake!PollFrame, HandshakeP!PollFrame, Handshake!PollEof, HandshakeP!PollEof,
    Handshake!Woken, HandshakeP!Woken, Handshake!Reply, HandshakeP!Reply,
    Handshake!Answer, HandshakeP!Answer, Handshake!HandshakeFrame, HandshakeP!HandshakeFrame,
    Handshake!HandshakeEof, HandshakeP!HandshakeEof,
    Handshake!TerminalExchange, HandshakeP!TerminalExchange,
    Handshake!TerminalRestore, HandshakeP!TerminalRestore,
    Handshake!AbortIntents, HandshakeP!AbortIntents
<1>6. Handshake!ServeNext <=> HandshakeP!ServeNext
  BY DEF
    Handshake!ServeNext, HandshakeP!ServeNext, Handshake!Reads, HandshakeP!Reads,
    Handshake!Serve, HandshakeP!Serve, Handshake!ResetExec, HandshakeP!ResetExec,
    Handshake!StartExec, HandshakeP!StartExec, Handshake!StartThrows, HandshakeP!StartThrows,
    Handshake!ExecDone, HandshakeP!ExecDone, Handshake!SignalExit, HandshakeP!SignalExit,
    Handshake!SendResult, HandshakeP!SendResult
<1>7. /\ Handshake!ControlNext <=> HandshakeP!ControlNext
      /\ Handshake!SearchEnds <=> HandshakeP!SearchEnds
      /\ Handshake!Report <=> HandshakeP!Report
      /\ Handshake!WorkerDies <=> HandshakeP!WorkerDies
  BY DEF
    Handshake!ControlNext, HandshakeP!ControlNext, Handshake!Reads, HandshakeP!Reads,
    Handshake!ControlExit, HandshakeP!ControlExit, Handshake!ControlFrame, HandshakeP!ControlFrame,
    Handshake!PauseReturns, HandshakeP!PauseReturns, Handshake!SendAck, HandshakeP!SendAck,
    Handshake!SearchEnds, HandshakeP!SearchEnds, Handshake!Report, HandshakeP!Report,
    Handshake!WorkerDies, HandshakeP!WorkerDies
<1>8. Handshake!SandboxNext <=> HandshakeP!SandboxNext
  BY <1>2, <1>3, <1>4, <1>5, <1>6, <1>7 DEF Handshake!SandboxNext, HandshakeP!SandboxNext
<1>9. /\ Handshake!WaitTellsTheTruth <=> HandshakeP!WaitTellsTheTruth
      /\ Handshake!CheckpointIsOfThisRun <=> HandshakeP!CheckpointIsOfThisRun
  BY DEF Handshake!Undisturbed, HandshakeP!Undisturbed, Handshake!WaitTellsTheTruth, HandshakeP!WaitTellsTheTruth,
    Handshake!CheckpointIsOfThisRun, HandshakeP!CheckpointIsOfThisRun
<1> QED BY <1>1, <1>8, <1>9

LEMMA RerunBridge ==
  /\ Rerun!SandboxInit <=> RerunP!SandboxInit
  /\ Rerun!SandboxNext <=> RerunP!SandboxNext
  /\ Rerun!WaitTellsTheTruth <=> RerunP!WaitTellsTheTruth
  /\ Rerun!CheckpointIsOfThisRun <=> RerunP!CheckpointIsOfThisRun
<1> USE DEF
    Rerun!sandboxVars, RerunP!sandboxVars, Rerun!mirror, RerunP!mirror, Rerun!parent, RerunP!parent,
    Rerun!worker, RerunP!worker, Rerun!Threads, RerunP!Threads, Rerun!Goto, RerunP!Goto,
    Rerun!Frame, RerunP!Frame, Rerun!Terminal, RerunP!Terminal, Rerun!Readable, RerunP!Readable,
    Rerun!AtEof, RerunP!AtEof, Rerun!Send, RerunP!Send
<1>1. Rerun!SandboxInit <=> RerunP!SandboxInit
  BY DEF Rerun!SandboxInit, RerunP!SandboxInit
<1>2. /\ Rerun!RunnerNext <=> RerunP!RunnerNext
      /\ Rerun!StartSend <=> RerunP!StartSend
      /\ Rerun!Wait <=> RerunP!Wait
      /\ Rerun!DestroyBegin <=> RerunP!DestroyBegin
  BY DEF
    Rerun!RunnerNext, RerunP!RunnerNext, Rerun!AskWorker, RerunP!AskWorker,
    Rerun!ReadReply, RerunP!ReadReply, Rerun!ReplyFails, RerunP!ReplyFails,
    Rerun!BeginRun, RerunP!BeginRun, Rerun!Wait, RerunP!Wait, Rerun!WaitReturns, RerunP!WaitReturns,
    Rerun!StartSend, RerunP!StartSend, Rerun!DestroyBegin, RerunP!DestroyBegin
<1>3. /\ Rerun!PauseCheck <=> RerunP!PauseCheck
      /\ Rerun!ResumeSend <=> RerunP!ResumeSend
      /\ Rerun!CancelExchange <=> RerunP!CancelExchange
      /\ Rerun!SaveCheck <=> RerunP!SaveCheck
  BY DEF
    Rerun!Call, RerunP!Call, Rerun!PauseCheck, RerunP!PauseCheck, Rerun!ResumeSend, RerunP!ResumeSend,
    Rerun!CancelExchange, RerunP!CancelExchange, Rerun!SaveCheck, RerunP!SaveCheck
<1>4. Rerun!CallerNext <=> RerunP!CallerNext
  BY DEF
    Rerun!CallerNext, RerunP!CallerNext, Rerun!PauseSend, RerunP!PauseSend,
    Rerun!PauseMark, RerunP!PauseMark, Rerun!PauseAwait, RerunP!PauseAwait,
    Rerun!PauseFlip, RerunP!PauseFlip, Rerun!ResumeStore, RerunP!ResumeStore,
    Rerun!CancelRestore, RerunP!CancelRestore, Rerun!CancelSend, RerunP!CancelSend,
    Rerun!SaveAwait, RerunP!SaveAwait, Rerun!ShutDown, RerunP!ShutDown, Rerun!Teardown, RerunP!Teardown
<1>5. Rerun!ReaderNext <=> RerunP!ReaderNext
  BY DEF
    Rerun!ReaderNext, RerunP!ReaderNext, Rerun!Abort, RerunP!Abort, Rerun!ReaderTop, RerunP!ReaderTop,
    Rerun!PollWake, RerunP!PollWake, Rerun!PollFrame, RerunP!PollFrame, Rerun!PollEof, RerunP!PollEof,
    Rerun!Woken, RerunP!Woken, Rerun!Reply, RerunP!Reply, Rerun!Answer, RerunP!Answer,
    Rerun!HandshakeFrame, RerunP!HandshakeFrame, Rerun!HandshakeEof, RerunP!HandshakeEof,
    Rerun!TerminalExchange, RerunP!TerminalExchange, Rerun!TerminalRestore, RerunP!TerminalRestore,
    Rerun!AbortIntents, RerunP!AbortIntents
<1>6. Rerun!ServeNext <=> RerunP!ServeNext
  BY DEF
    Rerun!ServeNext, RerunP!ServeNext, Rerun!Reads, RerunP!Reads, Rerun!Serve, RerunP!Serve,
    Rerun!ResetExec, RerunP!ResetExec, Rerun!StartExec, RerunP!StartExec,
    Rerun!StartThrows, RerunP!StartThrows, Rerun!ExecDone, RerunP!ExecDone,
    Rerun!SignalExit, RerunP!SignalExit, Rerun!SendResult, RerunP!SendResult
<1>7. /\ Rerun!ControlNext <=> RerunP!ControlNext
      /\ Rerun!SearchEnds <=> RerunP!SearchEnds
      /\ Rerun!Report <=> RerunP!Report
      /\ Rerun!WorkerDies <=> RerunP!WorkerDies
  BY DEF
    Rerun!ControlNext, RerunP!ControlNext, Rerun!Reads, RerunP!Reads,
    Rerun!ControlExit, RerunP!ControlExit, Rerun!ControlFrame, RerunP!ControlFrame,
    Rerun!PauseReturns, RerunP!PauseReturns, Rerun!SendAck, RerunP!SendAck,
    Rerun!SearchEnds, RerunP!SearchEnds, Rerun!Report, RerunP!Report,
    Rerun!WorkerDies, RerunP!WorkerDies
<1>8. Rerun!SandboxNext <=> RerunP!SandboxNext
  BY <1>2, <1>3, <1>4, <1>5, <1>6, <1>7 DEF Rerun!SandboxNext, RerunP!SandboxNext
<1>9. /\ Rerun!WaitTellsTheTruth <=> RerunP!WaitTellsTheTruth
      /\ Rerun!CheckpointIsOfThisRun <=> RerunP!CheckpointIsOfThisRun
  BY DEF Rerun!Undisturbed, RerunP!Undisturbed, Rerun!WaitTellsTheTruth, RerunP!WaitTellsTheTruth,
    Rerun!CheckpointIsOfThisRun, RerunP!CheckpointIsOfThisRun
<1> QED BY <1>1, <1>8, <1>9

LEMMA CrashBridge ==
  /\ Crash!SandboxInit <=> CrashP!SandboxInit
  /\ Crash!SandboxNext <=> CrashP!SandboxNext
  /\ Crash!WaitTellsTheTruth <=> CrashP!WaitTellsTheTruth
  /\ Crash!CheckpointIsOfThisRun <=> CrashP!CheckpointIsOfThisRun
<1> USE DEF
    Crash!sandboxVars, CrashP!sandboxVars, Crash!mirror, CrashP!mirror, Crash!parent, CrashP!parent,
    Crash!worker, CrashP!worker, Crash!Threads, CrashP!Threads, Crash!Goto, CrashP!Goto,
    Crash!Frame, CrashP!Frame, Crash!Terminal, CrashP!Terminal, Crash!Readable, CrashP!Readable,
    Crash!AtEof, CrashP!AtEof, Crash!Send, CrashP!Send
<1>1. Crash!SandboxInit <=> CrashP!SandboxInit
  BY DEF Crash!SandboxInit, CrashP!SandboxInit
<1>2. /\ Crash!RunnerNext <=> CrashP!RunnerNext
      /\ Crash!StartSend <=> CrashP!StartSend
      /\ Crash!Wait <=> CrashP!Wait
      /\ Crash!DestroyBegin <=> CrashP!DestroyBegin
  BY DEF
    Crash!RunnerNext, CrashP!RunnerNext, Crash!AskWorker, CrashP!AskWorker,
    Crash!ReadReply, CrashP!ReadReply, Crash!ReplyFails, CrashP!ReplyFails,
    Crash!BeginRun, CrashP!BeginRun, Crash!Wait, CrashP!Wait, Crash!WaitReturns, CrashP!WaitReturns,
    Crash!StartSend, CrashP!StartSend, Crash!DestroyBegin, CrashP!DestroyBegin
<1>3. /\ Crash!PauseCheck <=> CrashP!PauseCheck
      /\ Crash!ResumeSend <=> CrashP!ResumeSend
      /\ Crash!CancelExchange <=> CrashP!CancelExchange
      /\ Crash!SaveCheck <=> CrashP!SaveCheck
  BY DEF
    Crash!Call, CrashP!Call, Crash!PauseCheck, CrashP!PauseCheck, Crash!ResumeSend, CrashP!ResumeSend,
    Crash!CancelExchange, CrashP!CancelExchange, Crash!SaveCheck, CrashP!SaveCheck
<1>4. Crash!CallerNext <=> CrashP!CallerNext
  BY DEF
    Crash!CallerNext, CrashP!CallerNext, Crash!PauseSend, CrashP!PauseSend,
    Crash!PauseMark, CrashP!PauseMark, Crash!PauseAwait, CrashP!PauseAwait,
    Crash!PauseFlip, CrashP!PauseFlip, Crash!ResumeStore, CrashP!ResumeStore,
    Crash!CancelRestore, CrashP!CancelRestore, Crash!CancelSend, CrashP!CancelSend,
    Crash!SaveAwait, CrashP!SaveAwait, Crash!ShutDown, CrashP!ShutDown, Crash!Teardown, CrashP!Teardown
<1>5. Crash!ReaderNext <=> CrashP!ReaderNext
  BY DEF
    Crash!ReaderNext, CrashP!ReaderNext, Crash!Abort, CrashP!Abort, Crash!ReaderTop, CrashP!ReaderTop,
    Crash!PollWake, CrashP!PollWake, Crash!PollFrame, CrashP!PollFrame, Crash!PollEof, CrashP!PollEof,
    Crash!Woken, CrashP!Woken, Crash!Reply, CrashP!Reply, Crash!Answer, CrashP!Answer,
    Crash!HandshakeFrame, CrashP!HandshakeFrame, Crash!HandshakeEof, CrashP!HandshakeEof,
    Crash!TerminalExchange, CrashP!TerminalExchange, Crash!TerminalRestore, CrashP!TerminalRestore,
    Crash!AbortIntents, CrashP!AbortIntents
<1>6. Crash!ServeNext <=> CrashP!ServeNext
  BY DEF
    Crash!ServeNext, CrashP!ServeNext, Crash!Reads, CrashP!Reads, Crash!Serve, CrashP!Serve,
    Crash!ResetExec, CrashP!ResetExec, Crash!StartExec, CrashP!StartExec,
    Crash!StartThrows, CrashP!StartThrows, Crash!ExecDone, CrashP!ExecDone,
    Crash!SignalExit, CrashP!SignalExit, Crash!SendResult, CrashP!SendResult
<1>7. /\ Crash!ControlNext <=> CrashP!ControlNext
      /\ Crash!SearchEnds <=> CrashP!SearchEnds
      /\ Crash!Report <=> CrashP!Report
      /\ Crash!WorkerDies <=> CrashP!WorkerDies
  BY DEF
    Crash!ControlNext, CrashP!ControlNext, Crash!Reads, CrashP!Reads,
    Crash!ControlExit, CrashP!ControlExit, Crash!ControlFrame, CrashP!ControlFrame,
    Crash!PauseReturns, CrashP!PauseReturns, Crash!SendAck, CrashP!SendAck,
    Crash!SearchEnds, CrashP!SearchEnds, Crash!Report, CrashP!Report,
    Crash!WorkerDies, CrashP!WorkerDies
<1>8. Crash!SandboxNext <=> CrashP!SandboxNext
  BY <1>2, <1>3, <1>4, <1>5, <1>6, <1>7 DEF Crash!SandboxNext, CrashP!SandboxNext
<1>9. /\ Crash!WaitTellsTheTruth <=> CrashP!WaitTellsTheTruth
      /\ Crash!CheckpointIsOfThisRun <=> CrashP!CheckpointIsOfThisRun
  BY DEF Crash!Undisturbed, CrashP!Undisturbed, Crash!WaitTellsTheTruth, CrashP!WaitTellsTheTruth,
    Crash!CheckpointIsOfThisRun, CrashP!CheckpointIsOfThisRun
<1> QED BY <1>1, <1>8, <1>9

SandboxesInv ==
  /\ scene = "handshake" => HandshakeP!SandboxInv
  /\ scene = "rerun" => RerunP!SandboxInv
  /\ scene = "crash" => CrashP!SandboxInv

LEMMA SandboxesInit == Init => SandboxesInv
<1> SUFFICES ASSUME Init PROVE SandboxesInv
  OBVIOUS
<1>1. scene \in {"handshake", "rerun", "crash"} => Handshake!SandboxInit
  BY DEF Init, WorkersInit, Ring!RingInit, Ring!Kinds, Seg!SegmentInit, Seg!Kinds,
    Plugins!CatalogInit, Plugins!Settings
<1>2. /\ Handshake!SandboxInit <=> Rerun!SandboxInit
      /\ Handshake!SandboxInit <=> Crash!SandboxInit
  BY DEF Handshake!SandboxInit, Rerun!SandboxInit, Crash!SandboxInit, Handshake!Threads, Rerun!Threads, Crash!Threads
<1> QED BY <1>1, <1>2, HandshakeBridge, RerunBridge, CrashBridge, HandshakeP!SandboxInit_SandboxInv,
           RerunP!SandboxInit_SandboxInv, CrashP!SandboxInit_SandboxInv DEF SandboxesInv

LEMMA SandboxesStep == SandboxesInv /\ [Next]_vars => SandboxesInv'
<1> SUFFICES ASSUME SandboxesInv, [Next]_vars PROVE SandboxesInv'
  OBVIOUS
<1>1. scene' = scene
  BY SceneStays
<1>2. UNCHANGED vars => /\ UNCHANGED HandshakeP!sandboxVars /\ UNCHANGED RerunP!sandboxVars
                        /\ UNCHANGED CrashP!sandboxVars
  BY DEF vars, threadsOnly, sandboxOnly, mirrorOnly, searching, HandshakeP!sandboxVars, RerunP!sandboxVars, CrashP!sandboxVars
<1>3. /\ scene = "handshake" => Handshake!SandboxNext \/ UNCHANGED vars
      /\ scene = "rerun" => Rerun!SandboxNext \/ UNCHANGED vars
      /\ scene = "crash" => Crash!SandboxNext \/ UNCHANGED vars
  BY DEF Next, Ring!Kinds, Seg!Kinds, Plugins!Settings
<1>4. ASSUME scene = "handshake" PROVE HandshakeP!SandboxInv'
  <2>1. [HandshakeP!SandboxNext]_(HandshakeP!sandboxVars)
    BY <1>2, <1>3, <1>4, HandshakeBridge
  <2> QED BY <1>4, <2>1, HandshakeP!SandboxStep DEF SandboxesInv
<1>5. ASSUME scene = "rerun" PROVE RerunP!SandboxInv'
  <2>1. [RerunP!SandboxNext]_(RerunP!sandboxVars)
    BY <1>2, <1>3, <1>5, RerunBridge
  <2> QED BY <1>5, <2>1, RerunP!SandboxStep DEF SandboxesInv
<1>6. ASSUME scene = "crash" PROVE CrashP!SandboxInv'
  <2>1. [CrashP!SandboxNext]_(CrashP!sandboxVars)
    BY <1>2, <1>3, <1>6, CrashBridge
  <2> QED BY <1>6, <2>1, CrashP!SandboxStep DEF SandboxesInv
<1> QED BY <1>1, <1>4, <1>5, <1>6 DEF SandboxesInv

LEMMA SandboxesFacts == SandboxesInv => SandboxTellsTheTruth
<1> SUFFICES ASSUME SandboxesInv, Sandboxed PROVE Rerun!WaitTellsTheTruth /\ Rerun!CheckpointIsOfThisRun
  BY DEF SandboxTellsTheTruth
<1>1. /\ scene = "handshake" => Handshake!WaitTellsTheTruth /\ Handshake!CheckpointIsOfThisRun
      /\ scene = "rerun" => Rerun!WaitTellsTheTruth /\ Rerun!CheckpointIsOfThisRun
      /\ scene = "crash" => Crash!WaitTellsTheTruth /\ Crash!CheckpointIsOfThisRun
  BY HandshakeBridge, RerunBridge, CrashBridge, HandshakeP!SandboxFacts, RerunP!SandboxFacts, CrashP!SandboxFacts
     DEF SandboxesInv
<1>2. /\ Handshake!WaitTellsTheTruth <=> Rerun!WaitTellsTheTruth
      /\ Crash!WaitTellsTheTruth <=> Rerun!WaitTellsTheTruth
  BY DEF Handshake!WaitTellsTheTruth, Rerun!WaitTellsTheTruth, Crash!WaitTellsTheTruth,
    Handshake!Undisturbed, Rerun!Undisturbed, Crash!Undisturbed
<1>3. /\ Handshake!CheckpointIsOfThisRun <=> Rerun!CheckpointIsOfThisRun
      /\ Crash!CheckpointIsOfThisRun <=> Rerun!CheckpointIsOfThisRun
  BY DEF Handshake!CheckpointIsOfThisRun, Rerun!CheckpointIsOfThisRun, Crash!CheckpointIsOfThisRun,
    Handshake!Undisturbed, Rerun!Undisturbed, Crash!Undisturbed
<1> QED BY <1>1, <1>2, <1>3 DEF Sandboxed

\* SandboxedExecutor: a wait() that says Completed leaves the result of its own
\* run in output(), unless cancel() was called twice, and serialize_state() hands
\* out a checkpoint of the current run or none, unless the run is a second one
\* and some call has overlapped a start(): through handshakes, runs that fail,
\* second runs and a worker that dies.
THEOREM SandboxIsTruthful == Spec => []SandboxTellsTheTruth
<1>1. Init => SandboxesInv
  BY SandboxesInit
<1>2. SandboxesInv /\ [Next]_vars => SandboxesInv'
  BY SandboxesStep
<1>3. SandboxesInv => SandboxTellsTheTruth
  BY SandboxesFacts
<1> QED BY <1>1, <1>2, <1>3, PTL DEF Spec

-----------------------------------------------------------------------------
(* The bounded queues.                                                      *)

LEMMA RingBridge ==
  /\ Ring!RingAssumption <=> PoolP!RingAssumption
  /\ Ring!RingInit <=> PoolP!RingInit
  /\ Ring!RingNext <=> PoolP!RingNext
  /\ Ring!QueueStarts <=> PoolP!QueueStarts
  /\ Ring!QueueSteps <=> PoolP!QueueSteps
  /\ Ring!QuietSlotsAgree <=> PoolP!QuietSlotsAgree
BY DEF
    Ring!Kinds, PoolP!Kinds, Ring!Pushers, PoolP!Pushers, Ring!Poppers, PoolP!Poppers, Ring!Threads,
    PoolP!Threads, Ring!RingAssumption, PoolP!RingAssumption, Ring!Empty, PoolP!Empty, Ring!Slot,
    PoolP!Slot, Ring!Item, PoolP!Item, Ring!Moves, PoolP!Moves, Ring!RingInit, PoolP!RingInit,
    Ring!PushBegin, PoolP!PushBegin, Ring!InspectSlot, PoolP!InspectSlot, Ring!CasWrite,
    PoolP!CasWrite, Ring!CheckRoom, PoolP!CheckRoom, Ring!TakeTicket, PoolP!TakeTicket,
    Ring!AwaitTurn, PoolP!AwaitTurn, Ring!Fill, PoolP!Fill, Ring!Publish, PoolP!Publish,
    Ring!PopBegin, PoolP!PopBegin, Ring!LookHead, PoolP!LookHead, Ring!CasRead, PoolP!CasRead,
    Ring!Take, PoolP!Take, Ring!Free, PoolP!Free, Ring!Clear, PoolP!Clear, Ring!RingNext,
    PoolP!RingNext, Ring!HasTicket, PoolP!HasTicket, Ring!Holding, PoolP!Holding, Ring!TicketItem,
    PoolP!TicketItem, Ring!Taking, PoolP!Taking, Ring!Entry, PoolP!Entry, Ring!Queued, PoolP!Queued,
    Ring!Popped, PoolP!Popped, Ring!AllItems, PoolP!AllItems, Ring!AllPoppers, PoolP!AllPoppers,
    Ring!AllPopped, PoolP!AllPopped, Ring!Last, PoolP!Last, Ring!Front, PoolP!Front,
    Ring!Queue!Init, PoolP!Queue!Init, Ring!Queue!Push, PoolP!Queue!Push, Ring!Queue!Pop,
    PoolP!Queue!Pop, Ring!Queue!Clear, PoolP!Queue!Clear, Ring!Queue!Next, PoolP!Queue!Next,
    Ring!Queue!vars, PoolP!Queue!vars, Ring!QueueStarts, PoolP!QueueStarts, Ring!QueueSteps,
    PoolP!QueueSteps, Ring!QuietSlotsAgree, PoolP!QuietSlotsAgree, Ring!ringVars, PoolP!ringVars

\* In the scene of a queue only its ring moves.
LEMMA RingSceneStep == scene \in Ring!Kinds /\ [Next]_vars => [Ring!RingNext]_(Ring!ringVars)
BY DEF Next, vars, threadsOnly, queueOnly, ringOnly, Ring!Kinds, Seg!Kinds, Ring!ringVars, Plugins!Settings

LEMMA RingSceneOnly == Init /\ scene \in Ring!Kinds => Ring!RingInit
BY DEF Init, WorkersInit, Ring!Kinds, Seg!SegmentInit, Seg!Kinds, Plugins!CatalogInit, Plugins!Settings

RingsInv == scene \in Ring!Kinds => PoolP!RingInv

\* common/utils/queue: for any capacity, any threads on the sides that may have
\* several, and any number of calls, BoundedMPMCQueue, BoundedMPSCQueue and
\* SPSCQueue implement Fifo step by step, and a queue that nobody is inside of
\* has every slot ready for its next user.
THEOREM RingsAreQueues == Spec => RingsAreFifo
<1>0. PoolP!RingAssumption
  BY WorkersAssumption, RingBridge
<1>1. Init => RingsInv
  BY <1>0, RingSceneOnly, RingBridge, PoolP!RingInitInv DEF RingsInv
<1>2. RingsInv /\ [Next]_vars => RingsInv'
  <2> SUFFICES ASSUME RingsInv, [Next]_vars, scene' \in Ring!Kinds PROVE PoolP!RingInv'
    BY DEF RingsInv, Ring!Kinds
  <2>1. scene \in Ring!Kinds /\ PoolP!RingInv
    BY SceneStays DEF RingsInv
  <2>2. [PoolP!RingNext]_(PoolP!ringVars)
    BY <2>1, RingSceneStep, RingBridge DEF Ring!ringVars, PoolP!ringVars
  <2> QED BY <1>0, <2>1, <2>2, PoolP!RingInductive
<1>3. Init => (scene \in Ring!Kinds => Ring!QueueStarts)
  BY <1>0, RingSceneOnly, RingBridge, PoolP!RingStarts DEF PoolP!QueueStarts
<1>4. RingsInv /\ RingsInv' /\ [Next]_vars => [(scene \in Ring!Kinds => Ring!QueueSteps)]_vars
  <2> SUFFICES ASSUME RingsInv, RingsInv', [Next]_vars, scene \in Ring!Kinds
               PROVE  Ring!QueueSteps
    OBVIOUS
  <2>1. PoolP!RingInv /\ PoolP!RingInv'
    BY SceneStays DEF RingsInv, Ring!Kinds
  <2>2. [PoolP!RingNext]_(PoolP!ringVars)
    BY RingSceneStep, RingBridge DEF Ring!ringVars, PoolP!ringVars
  <2> QED BY <1>0, <2>1, <2>2, RingBridge, PoolP!RingSteps DEF PoolP!QueueSteps
<1>5. RingsInv => (scene \in Ring!Kinds => Ring!QuietSlotsAgree)
  <2> SUFFICES ASSUME RingsInv, scene \in Ring!Kinds PROVE PoolP!QuietSlotsAgree
    BY RingBridge
  <2> QED BY <1>0, PoolP!QuietSlots DEF RingsInv, PoolP!QuietSlotsAgree
<1> QED BY <1>1, <1>2, <1>3, <1>4, <1>5, PTL DEF Spec, RingsAreFifo

-----------------------------------------------------------------------------
(* The segmented queues.                                                    *)

LEMMA SegmentBridge ==
  /\ Seg!SegmentAssumption <=> LogP!SegmentAssumption
  /\ Seg!SegmentInit <=> LogP!SegmentInit
  /\ Seg!SegmentNext <=> LogP!SegmentNext
  /\ Seg!SegmentsStart <=> LogP!SegmentsStart
  /\ Seg!SegmentsStep <=> LogP!SegmentsStep
  /\ Seg!WalksStayInside <=> LogP!WalksStayInside
BY DEF
    Seg!segmentVars, LogP!segmentVars, Seg!Kinds, LogP!Kinds, Seg!ManyPop, LogP!ManyPop,
    Seg!Pushers, LogP!Pushers, Seg!Poppers, LogP!Poppers, Seg!Users, LogP!Users,
    Seg!SegmentAssumption, LogP!SegmentAssumption, Seg!Empty, LogP!Empty, Seg!Base, LogP!Base,
    Seg!Item, LogP!Item, Seg!Beyond, LogP!Beyond, Seg!Before, LogP!Before, Seg!Moves, LogP!Moves,
    Seg!Tickets, LogP!Tickets, Seg!SegmentInit, LogP!SegmentInit, Seg!PushTicket, LogP!PushTicket,
    Seg!LoadTail, LogP!LoadTail, Seg!NextOrLink, LogP!NextOrLink, Seg!SwingTail, LogP!SwingTail,
    Seg!PushFallBack, LogP!PushFallBack, Seg!Rewalk, LogP!Rewalk, Seg!Found, LogP!Found, Seg!Fill,
    LogP!Fill, Seg!Publish, LogP!Publish, Seg!PopBegin, LogP!PopBegin, Seg!Compare, LogP!Compare,
    Seg!ClaimPop, LogP!ClaimPop, Seg!LoadHead, LogP!LoadHead, Seg!WalkHead, LogP!WalkHead,
    Seg!PopFallBack, LogP!PopFallBack, Seg!Take, LogP!Take, Seg!Retire, LogP!Retire,
    Seg!AdvanceHead, LogP!AdvanceHead, Seg!Clear, LogP!Clear, Seg!SegmentNext, LogP!SegmentNext,
    Seg!Writing, LogP!Writing, Seg!TicketItem, LogP!TicketItem, Seg!Line, LogP!Line, Seg!Popped,
    LogP!Popped, Seg!AllItems, LogP!AllItems, Seg!AllPoppers, LogP!AllPoppers, Seg!AllPopped,
    LogP!AllPopped, Seg!Segments!Init, LogP!Segments!Init, Seg!Segments!Push, LogP!Segments!Push,
    Seg!Segments!Pop, LogP!Segments!Pop, Seg!Segments!Clear, LogP!Segments!Clear,
    Seg!Segments!Next, LogP!Segments!Next, Seg!Segments!vars, LogP!Segments!vars,
    Seg!SegmentsStart, LogP!SegmentsStart, Seg!SegmentsStep, LogP!SegmentsStep,
    Seg!WalksStayInside, LogP!WalksStayInside

\* In the scene of a segmented queue only its counters and blocks move.
LEMMA SegmentSceneStep == scene \in Seg!Kinds /\ [Next]_vars => [Seg!SegmentNext]_(Seg!segmentVars)
BY DEF Next, vars, threadsOnly, queueOnly, ringOnly, blocksOnly, Ring!Kinds, Seg!Kinds, Seg!segmentVars,
  Plugins!Settings

LEMMA SegmentSceneOnly == Init /\ scene \in Seg!Kinds => Seg!SegmentInit
BY DEF Init, WorkersInit, Ring!RingInit, Ring!Kinds, Seg!Kinds, Plugins!CatalogInit, Plugins!Settings

SegmentsInv == scene \in Seg!Kinds => LogP!SegmentInv

\* common/utils/queue: for any block size, any threads on the sides that may
\* have several, and any number of calls and clears, SegmentedMPMCQueue and
\* SegmentedMPSCQueue implement Fifo step by step, and a walk that starts over
\* finds every next pointer it follows set.
THEOREM SegmentsAreQueues == Spec => SegmentsAreFifo
<1>0. LogP!SegmentAssumption
  BY WorkersAssumption, SegmentBridge
<1>1. Init => SegmentsInv
  BY <1>0, SegmentSceneOnly, SegmentBridge, LogP!SegmentInitInv DEF SegmentsInv
<1>2. SegmentsInv /\ [Next]_vars => SegmentsInv'
  <2> SUFFICES ASSUME SegmentsInv, [Next]_vars, scene' \in Seg!Kinds PROVE LogP!SegmentInv'
    BY DEF SegmentsInv, Seg!Kinds
  <2>1. scene \in Seg!Kinds /\ LogP!SegmentInv
    BY SceneStays DEF SegmentsInv
  <2>2. [LogP!SegmentNext]_(LogP!segmentVars)
    BY <2>1, SegmentSceneStep, SegmentBridge DEF Seg!segmentVars, LogP!segmentVars
  <2> QED BY <1>0, <2>1, <2>2, LogP!SegmentInductive
<1>3. Init => (scene \in Seg!Kinds => Seg!SegmentsStart)
  BY <1>0, SegmentSceneOnly, SegmentBridge, LogP!SegmentStarts
<1>4. SegmentsInv /\ [Next]_vars => [(scene \in Seg!Kinds => Seg!SegmentsStep)]_vars
  <2> SUFFICES ASSUME SegmentsInv, [Next]_vars, scene \in Seg!Kinds
               PROVE  Seg!SegmentsStep
    OBVIOUS
  <2>1. [LogP!SegmentNext]_(LogP!segmentVars)
    BY SegmentSceneStep, SegmentBridge DEF Seg!segmentVars, LogP!segmentVars
  <2> QED BY <1>0, <2>1, SegmentBridge, LogP!SegmentSteps DEF SegmentsInv
<1>5. SegmentsInv => (scene \in Seg!Kinds => Seg!WalksStayInside)
  <2> SUFFICES ASSUME SegmentsInv, scene \in Seg!Kinds PROVE LogP!WalksStayInside
    BY SegmentBridge
  <2> QED BY <1>0, LogP!InsideFromInv DEF SegmentsInv
<1> QED BY <1>1, <1>2, <1>3, <1>4, <1>5, PTL DEF Spec, SegmentsAreFifo
=============================================================================
