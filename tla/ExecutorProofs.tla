--------------------------- MODULE ExecutorProofs ---------------------------
(***************************************************************************)
(* Theorems about Executor, for every set of clients, every mix of calls   *)
(* and every bound.                                                        *)
(***************************************************************************)
EXTENDS MCExecutorControl, TLAPS

\* The three fixed threads are distinct, and none of them is a client or a
\* helper.
LEMMA ThreadFacts ==
  /\ Owner \in Threads /\ Worker \in Threads /\ Watcher \in Threads
  /\ Owner # Worker /\ Owner # Watcher /\ Worker # Watcher
  /\ \A c \in Clients : c \in Threads /\ c # Owner /\ c # Worker /\ c # Watcher
  /\ \A h \in Helpers : h \in Threads /\ h # Owner /\ h # Worker /\ h # Watcher /\ h \notin Clients
  /\ \A t \in Threads : t \in Clients \/ t \in Helpers \/ t = Owner \/ t = Worker \/ t = Watcher
  /\ \A s \in Searchers : s \in Threads /\ (s = Worker \/ s \in Helpers)
  /\ \A h \in Helpers : h \in Searchers
  /\ Worker \in Searchers /\ Owner \notin Searchers /\ Watcher \notin Searchers
  /\ \A c \in Clients : c \notin Searchers
BY ExecutorAssumption DEF Threads, Searchers, Owner, Worker, Watcher

\* The program counters a thread may reach.
PcsOf(t) == IF t = Owner THEN OwnerPcs ELSE IF t = Worker THEN WorkerPcs
            ELSE IF t = Watcher THEN WatcherPcs
            ELSE IF t \in Helpers THEN HelperPcs ELSE ClientPcs

\* A step of one thread to one of its own program counters keeps PcOK.
LEMMA MoveType ==
  ASSUME PcOK, NEW t \in Threads, NEW v \in PcsOf(t), pc' = [pc EXCEPT ![t] = v]
  PROVE  PcOK'
BY ThreadFacts DEF PcOK, PcsOf, WorkerPcs, HelperPcs

LEMMA MovePcs ==
  /\ \A c \in Clients : PcsOf(c) = ClientPcs
  /\ \A h \in Helpers : PcsOf(h) = HelperPcs
  /\ PcsOf(Owner) = OwnerPcs /\ PcsOf(Worker) = WorkerPcs /\ PcsOf(Watcher) = WatcherPcs
BY ThreadFacts DEF PcsOf

-----------------------------------------------------------------------------
(* Type correctness.                                                       *)

LEMMA InitType == Init => TypeOK
<1> SUFFICES ASSUME Init PROVE TypeOK
  OBVIOUS
<1>1. PcOK
  <2>1. pc[Owner] = "new" /\ pc[Worker] = "off" /\ pc[Watcher] = "off"
    BY ThreadFacts DEF Init
  <2>2. (\A c \in Clients : pc[c] = "idle") /\ \A h \in Helpers : pc[h] = "off"
    BY ThreadFacts DEF Init
  <2>3. pc \in [Threads -> OwnerPcs \cup ClientPcs \cup WorkerPcs \cup WatcherPcs]
    BY DEF Init, OwnerPcs, ClientPcs, WorkerPcs
  <2>4. QED BY <2>1, <2>2, <2>3 DEF PcOK, OwnerPcs, ClientPcs, WorkerPcs, HelperPcs, WatcherPcs
<1>2. ContextOK
  BY DEF Init, ContextOK
<1>3. DataOK
  <2>1. saved \in [Threads -> States] /\ state \in States
    BY DEF Init, States
  <2>2. work \in 0 .. MaxWork /\ runs \in 0 .. MaxRuns
    BY ExecutorAssumption DEF Init
  <2>3. QED BY <2>1, <2>2 DEF Init, DataOK, NoExit
<1>4. QED BY <1>1, <1>2, <1>3 DEF TypeOK

\* The steps of cancel(), whichever of the client, the watcher and the
\* destructor runs it.
LEMMA CancelType ==
  ASSUME TypeOK, NEW t \in Threads, t \notin Searchers, CancelExchange(t) \/ CancelStep(t)
  PROVE  TypeOK'
<1>1. CancelPcs \subseteq PcsOf(t) /\ AfterCancel(t) \in PcsOf(t)
  BY ThreadFacts DEF PcsOf, OwnerPcs, WatcherPcs, ClientPcs, DestroyPcs, AfterCancel
<1>2. \E v \in PcsOf(t) : pc' = [pc EXCEPT ![t] = v]
  <2>1. CASE CancelExchange(t)
    BY <1>1, <2>1 DEF CancelExchange, CancelPcs
  <2>2. CASE CancelStep(t)
    BY <1>1, <2>2 DEF CancelStep, CancelRestore, CancelPend, CancelPoison, Unpause,
       WakeWorker, NotifyAck, Goto, CancelPcs
  <2>3. QED BY <2>1, <2>2
<1>3. PcOK'
  BY <1>2, MoveType DEF TypeOK
<1>4. ContextOK'
  BY DEF TypeOK, ContextOK, CancelExchange, CancelStep, CancelRestore, CancelPend, CancelPoison,
     Unpause, WakeWorker, NotifyAck, ctxVars
<1>5. DataOK'
  <2>1. CASE CancelExchange(t)
    BY <2>1 DEF TypeOK, DataOK, CancelExchange, exitVars, States
  <2>2. CASE CancelRestore(t)
    BY <2>2 DEF TypeOK, DataOK, CancelRestore, exitVars, States
  <2>3. CASE CancelStep(t) /\ ~CancelRestore(t)
    BY <2>3 DEF TypeOK, DataOK, CancelStep, CancelPend, CancelPoison, Unpause, WakeWorker, NotifyAck,
       exitVars
  <2>4. QED BY <2>1, <2>2, <2>3
<1>6. QED BY <1>3, <1>4, <1>5 DEF TypeOK

\* pause(), resume() and serialize_state().
LEMMA ControlType ==
  ASSUME TypeOK, NEW c \in Clients,
         PauseCas(c) \/ ResumeSet(c) \/ SerializeBegin(c)
           \/ PauseStep(c) \/ ResumeStep(c) \/ SerializeStep(c)
  PROVE  TypeOK'
<1>1. PcsOf(c) = ClientPcs /\ c \in Threads
  BY ThreadFacts, MovePcs
<1>2. \E v \in PcsOf(c) : pc' = [pc EXCEPT ![c] = v]
  <2>1. CASE PauseCas(c) \/ ResumeSet(c) \/ SerializeBegin(c)
    BY <1>1, <2>1 DEF PauseCas, ResumeSet, SerializeBegin, ClientPcs, PausePcs, ResumePcs, SerializePcs
  <2>2. CASE PauseStep(c)
    BY <1>1, <2>2 DEF PauseStep, NotifyAck, PauseFlag, AckTest, AckEnrol, PauseLoad, PauseFlip,
       Goto, ClientPcs, PausePcs
  <2>3. CASE ResumeStep(c)
    BY <1>1, <2>3 DEF ResumeStep, NotifyAck, Unpause, WakeWorker, Goto, ClientPcs, ResumePcs
  <2>4. CASE SerializeStep(c)
    BY <1>1, <2>4 DEF SerializeStep, AckTest, AckEnrol, SerializeLoad, SerializeSnap, Goto,
       ClientPcs, SerializePcs
  <2>5. QED BY <2>1, <2>2, <2>3, <2>4
<1>3. PcOK'
  BY <1>1, <1>2, MoveType DEF TypeOK
<1>4. ContextOK'
  BY DEF TypeOK, ContextOK, PauseCas, ResumeSet, SerializeBegin, PauseStep, ResumeStep, SerializeStep,
     NotifyAck, PauseFlag, AckTest, AckEnrol, PauseLoad, PauseFlip, Unpause, WakeWorker,
     SerializeLoad, SerializeSnap, ctxVars
<1>5. DataOK'
  <2>1. CASE PauseCas(c) \/ ResumeSet(c) \/ SerializeBegin(c)
    BY <2>1 DEF TypeOK, DataOK, PauseCas, ResumeSet, SerializeBegin, States, exitVars
  <2>2. CASE PauseStep(c)
    BY <2>2 DEF TypeOK, DataOK, PauseStep, NotifyAck, PauseFlag, AckTest, AckEnrol, PauseLoad,
       PauseFlip, States, exitVars
  <2>3. CASE ResumeStep(c)
    BY <2>3 DEF TypeOK, DataOK, ResumeStep, NotifyAck, Unpause, WakeWorker, exitVars
  <2>4. CASE SerializeStep(c)
    BY <2>4 DEF TypeOK, DataOK, SerializeStep, AckTest, AckEnrol, SerializeLoad, SerializeSnap, exitVars
  <2>5. QED BY <2>1, <2>2, <2>3, <2>4
<1>6. QED BY <1>3, <1>4, <1>5 DEF TypeOK

\* A searcher, be it the worker or a helper.
LEMMA SearchType ==
  ASSUME TypeOK, NEW s \in Searchers, SearchStep(s)
  PROVE  TypeOK'
<1>1. SearchPcs \subseteq PcsOf(s) /\ SearchEnd(s) \in PcsOf(s)
  BY ThreadFacts, MovePcs DEF WorkerPcs, HelperPcs, SearchEnd
<1>2. \E v \in PcsOf(s) : pc' = [pc EXCEPT ![s] = v]
  BY <1>1 DEF SearchStep, SearchOn, SearchPoll, SearchAck, SearchTest, SearchBlock, SearchWake, SearchCheck,
     SearchGoto, Goto, SearchPcs
<1>3. PcOK'
  BY <1>2, ThreadFacts, MoveType DEF TypeOK
<1>4. ContextOK'
  BY DEF TypeOK, ContextOK, SearchStep, SearchOn, SearchPoll, SearchAck, SearchTest, SearchBlock, SearchWake,
     SearchCheck, SearchGoto, ctxVars
<1>5. DataOK'
  <2>1. CASE SearchOn(s)
    BY <2>1, ExecutorAssumption DEF TypeOK, DataOK, SearchOn, exitVars
  <2>2. CASE SearchStep(s) /\ ~SearchOn(s)
    BY <2>2 DEF TypeOK, DataOK, SearchStep, SearchPoll, SearchAck, SearchTest, SearchBlock, SearchWake,
       SearchCheck, SearchGoto, exitVars
  <2>3. QED BY <2>1, <2>2
<1>6. QED BY <1>3, <1>4, <1>5 DEF TypeOK

\* What the worker does beside searching: the fork and join of the helpers
\* and the verdict.
LEMMA WorkerType == ASSUME TypeOK, WorkerStep, ~SearchStep(Worker) PROVE TypeOK'
<1>1. CASE Fork
  <2>1. PcOK'
    BY <1>1, ThreadFacts DEF Fork, TypeOK, PcOK, WorkerPcs, HelperPcs, SearchPcs
  <2>2. ContextOK' /\ DataOK'
    BY <1>1, ExecutorAssumption DEF TypeOK, ContextOK, DataOK, Fork, ctxVars, exitVars
  <2>3. QED BY <2>1, <2>2 DEF TypeOK
<1>2. CASE WorkerStep /\ ~SearchStep(Worker) /\ ~Fork
  <2>1. \E v \in PcsOf(Worker) : pc' = [pc EXCEPT ![Worker] = v]
    BY <1>2, MovePcs DEF WorkerStep, Join, SearchGoto, WorkerVerdict, NotifyAck, Goto, WorkerPcs, SearchPcs
  <2>2. PcOK'
    BY <2>1, ThreadFacts, MoveType DEF TypeOK
  <2>3. ContextOK' /\ DataOK'
    BY <1>2 DEF TypeOK, ContextOK, DataOK, WorkerStep, Join, SearchGoto, WorkerVerdict, NotifyAck, States,
       ctxVars, exitVars
  <2>4. QED BY <2>2, <2>3 DEF TypeOK
<1>3. QED BY <1>1, <1>2

\* The watcher and a spurious wake-up.
LEMMA WatcherType == ASSUME TypeOK, WatcherStop \/ WatcherExpire \/ SpuriousWake PROVE TypeOK'
<1>1. CASE WatcherStop \/ WatcherExpire
  <2>1. \E v \in PcsOf(Watcher) : pc' = [pc EXCEPT ![Watcher] = v]
    BY <1>1, MovePcs DEF WatcherStop, WatcherExpire, Goto, WatcherPcs, CancelPcs
  <2>2. PcOK'
    BY <2>1, ThreadFacts, MoveType DEF TypeOK
  <2>3. ContextOK' /\ DataOK'
    BY <1>1 DEF TypeOK, ContextOK, DataOK, WatcherStop, WatcherExpire, ctxVars, exitVars
  <2>4. QED BY <2>2, <2>3 DEF TypeOK
<1>2. CASE SpuriousWake
  BY <1>2 DEF TypeOK, ContextOK, DataOK, PcOK, SpuriousWake, exitVars
<1>3. QED BY <1>1, <1>2

\* The owner: start(), wait(), reset() and the destructor.
StartAny == StartSet \/ StartCtx \/ StartPending \/ StartWatch \/ StartSpawn
WaitAny == WaitForTerminal \/ WaitJoin \/ WaitExit \/ WaitPayload \/ WaitReturn \/ WaitAgain
ResetAny == ResetBegin \/ ResetLoad \/ ResetStore \/ ResetClear
StopAny == \/ StopWatcher("stop", "joinw") \/ JoinWatcher("joinw", "exit")
           \/ Destroy \/ DestroyJoin
           \/ StopWatcher("d_stop", "d_joinw") \/ JoinWatcher("d_joinw", "gone")

LEMMA OwnerActions ==
  OwnerStep \/ OwnerChoice =>
    StartAny \/ WaitAny \/ ResetAny \/ StopAny \/ CancelExchange(Owner) \/ CancelStep(Owner)
BY DEF OwnerStep, OwnerChoice, StartAny, WaitAny, ResetAny, StopAny

LEMMA StartType == ASSUME TypeOK, StartAny PROVE TypeOK'
<1>1. PcOK'
  <2>1. CASE StartSet \/ StartCtx \/ StartPending
    <3>1. \E v \in PcsOf(Owner) : pc' = [pc EXCEPT ![Owner] = v]
      BY <2>1, MovePcs DEF StartSet, StartCtx, StartPending, Goto, OwnerPcs, StartPcs
    <3>2. QED BY <3>1, ThreadFacts, MoveType DEF TypeOK
  <2>2. CASE StartWatch
    BY <2>2, ThreadFacts DEF StartWatch, TypeOK, PcOK, OwnerPcs, StartPcs, WatcherPcs
  <2>3. CASE StartSpawn
    BY <2>3, ThreadFacts DEF StartSpawn, TypeOK, PcOK, OwnerPcs, WaitPcs, WorkerPcs, SearchPcs
  <2>4. QED BY <2>1, <2>2, <2>3 DEF StartAny
<1>2. ContextOK'
  BY DEF TypeOK, ContextOK, DataOK, StartAny, StartSet, StartCtx, StartPending, StartWatch, StartSpawn,
     ctxVars
<1>3. DataOK'
  <2>1. CASE StartSet
    BY <2>1, ExecutorAssumption DEF TypeOK, DataOK, StartSet, States, exitVars
  <2>2. CASE StartCtx \/ StartPending \/ StartWatch
    BY <2>2, ExecutorAssumption DEF TypeOK, DataOK, StartCtx, StartPending, StartWatch, exitVars
  <2>3. CASE StartSpawn
    BY <2>3, ExecutorAssumption DEF TypeOK, DataOK, StartSpawn, exitVars
  <2>4. QED BY <2>1, <2>2, <2>3 DEF StartAny
<1>4. QED BY <1>1, <1>2, <1>3 DEF TypeOK

LEMMA FinishType == ASSUME TypeOK, WaitAny \/ ResetAny \/ StopAny PROVE TypeOK'
<1>1. PcOK'
  <2>1. CASE WaitForTerminal
    BY <2>1 DEF WaitForTerminal, TypeOK, PcOK
  <2>2. CASE WaitAny /\ ~WaitForTerminal
    <3>1. \E v \in PcsOf(Owner) : pc' = [pc EXCEPT ![Owner] = v]
      BY <2>2, MovePcs DEF WaitAny, WaitJoin, WaitExit, WaitPayload, WaitReturn, WaitAgain,
         OwnerGoto, Goto, OwnerPcs, WaitPcs
    <3>2. QED BY <3>1, ThreadFacts, MoveType DEF TypeOK
  <2>3. CASE ResetAny
    <3>1. \E v \in PcsOf(Owner) : pc' = [pc EXCEPT ![Owner] = v]
      BY <2>3, MovePcs DEF ResetAny, ResetBegin, ResetLoad, ResetStore, ResetClear,
         OwnerGoto, Goto, OwnerPcs, ResetPcs
    <3>2. QED BY <3>1, ThreadFacts, MoveType DEF TypeOK
  <2>4. CASE StopAny
    <3>1. \E v \in PcsOf(Owner) : pc' = [pc EXCEPT ![Owner] = v]
      BY <2>4, MovePcs DEF StopAny, StopWatcher, JoinWatcher, Destroy, DestroyJoin,
         OwnerGoto, Goto, OwnerPcs, WaitPcs, DestroyPcs, CancelPcs
    <3>2. QED BY <3>1, ThreadFacts, MoveType DEF TypeOK
  <2>5. QED BY <2>1, <2>2, <2>3, <2>4
<1>2. ContextOK'
  BY DEF TypeOK, ContextOK, WaitAny, WaitForTerminal, WaitJoin, WaitExit, WaitPayload, WaitReturn,
     WaitAgain, ResetAny, ResetBegin, ResetLoad, ResetStore, ResetClear, StopAny, StopWatcher,
     JoinWatcher, Destroy, DestroyJoin, OwnerGoto, ctxVars
<1>3. DataOK'
  <2>1. CASE WaitExit \/ WaitPayload
    BY <2>1 DEF TypeOK, DataOK, WaitExit, WaitPayload
  <2>4. CASE WaitForTerminal \/ WaitReturn \/ WaitAgain
    BY <2>4 DEF TypeOK, DataOK, WaitForTerminal, WaitReturn, WaitAgain
  <2>2. CASE ResetAny
    BY <2>2 DEF TypeOK, DataOK, ResetAny, ResetBegin, ResetLoad, ResetStore, ResetClear, OwnerGoto,
       States, exitVars
  <2>3. CASE WaitJoin \/ StopAny
    BY <2>3 DEF TypeOK, DataOK, WaitJoin, StopAny, StopWatcher, JoinWatcher, Destroy, DestroyJoin,
       OwnerGoto, exitVars
  <2>5. QED BY <2>1, <2>2, <2>3, <2>4 DEF WaitAny
<1>4. QED BY <1>1, <1>2, <1>3 DEF TypeOK

LEMMA StutterType == ASSUME TypeOK, UNCHANGED vars PROVE TypeOK'
BY DEF TypeOK, ContextOK, DataOK, PcOK, vars, ctxVars, exitVars

\* Every step keeps the types.
LEMMA NextType == TypeOK /\ [Next]_vars => TypeOK'
<1> SUFFICES ASSUME TypeOK, [Next]_vars PROVE TypeOK'
  OBVIOUS
<1>1. CASE \E c \in Clients : ClientCall(c) \/ ClientStep(c)
  <2>1. PICK c \in Clients : ClientCall(c) \/ ClientStep(c)
    BY <1>1
  <2>2. c \in Threads /\ c \notin Searchers
    BY ThreadFacts
  <2>3. QED BY <2>1, <2>2, CancelType, ControlType DEF ClientCall, ClientStep
<1>2. CASE OwnerStep \/ OwnerChoice
  BY <1>2, OwnerActions, StartType, FinishType, CancelType, ThreadFacts
<1>3. CASE WorkerStep \/ \E h \in Helpers : SearchStep(h)
  BY <1>3, WorkerType, SearchType, ThreadFacts
<1>4. CASE WatcherStep \/ SpuriousWake
  BY <1>4, WatcherType, CancelType, ThreadFacts DEF WatcherStep
<1>5. CASE UNCHANGED vars
  BY <1>5, StutterType
<1>6. QED BY <1>1, <1>2, <1>3, <1>4, <1>5 DEF Next

\* Every variable of the executor keeps its type in every behaviour.
THEOREM TypeInvariant == Spec => []TypeOK
BY InitType, NextType, PTL DEF Spec

-----------------------------------------------------------------------------
(* Executor implements Lifecycle, whatever the clients call and whenever   *)
(* the watcher fires, provided reset() runs alone (ResetAlone).  The proof *)
(* rests on the inductive invariant ControlInv of Executor: a cancel()     *)
(* that is about to put a state back is the only one and hides nothing but *)
(* the state it saved, so the logical state moves only in StartSet, in a   *)
(* verdict, and in ResetStore.                                             *)

-----------------------------------------------------------------------------
(* The logical state.                                                      *)

Exclusive(at) == \A t, u \in Threads : at[t] = "c_restore" /\ at[u] = "c_restore" => t = u

\* Under the one cancel() that is about to restore, it is what it saved.
LEMMA LogicalRestored ==
  ASSUME NEW st, NEW old, NEW at, NEW t \in Threads, Exclusive(at), at[t] = "c_restore"
  PROVE  LogicalOf(st, old, at) = old[t]
BY DEF LogicalOf, Exclusive

\* Otherwise it is the state.
LEMMA LogicalPlain ==
  ASSUME NEW st, NEW old, NEW at, \A t \in Threads : at[t] # "c_restore"
  PROVE  LogicalOf(st, old, at) = st
BY DEF LogicalOf

\* It depends on the program counters through the restoring thread alone.
LEMMA LogicalFrame ==
  ASSUME NEW st, NEW old, NEW at, NEW next, Exclusive(at),
         \A t \in Threads : at[t] = "c_restore" <=> next[t] = "c_restore"
  PROVE  Exclusive(next) /\ LogicalOf(st, old, next) = LogicalOf(st, old, at)
<1>1. Exclusive(next)
  BY DEF Exclusive
<1>2. CASE \E t \in Threads : at[t] = "c_restore"
  BY <1>1, <1>2, LogicalRestored
<1>3. CASE \A t \in Threads : at[t] # "c_restore"
  BY <1>1, <1>3, LogicalPlain
<1>4. QED BY <1>1, <1>2, <1>3

\* No cancel() is about to restore while the state does not read Cancelled.
LEMMA LogicalIsState ==
  ASSUME RestoreIsExclusive, state # "Cancelled"
  PROVE  /\ \A t \in Threads : pc[t] # "c_restore"
         /\ Logical = state
<1>1. \A t \in Threads : pc[t] # "c_restore"
  BY DEF RestoreIsExclusive
<1>2. QED BY <1>1, LogicalPlain DEF Logical

-----------------------------------------------------------------------------
(* Steps that leave the logical state alone.                               *)

Inv == TypeOK /\ ControlInv /\ ExitInv

\* Thread t moves, the state and what cancel() calls saved stay.
Quiet(t, v) ==
  /\ pc' = [pc EXCEPT ![t] = v]
  /\ pc[t] # "c_restore" /\ v # "c_restore"
  /\ UNCHANGED <<state, saved>>

LEMMA QuietLogical ==
  ASSUME Inv, NEW t \in Threads, NEW v, Quiet(t, v)
  PROVE  RestoreIsExclusive' /\ Logical' = Logical
<1>1. \A u \in Threads : pc[u] = "c_restore" <=> pc'[u] = "c_restore"
  BY DEF Inv, TypeOK, PcOK, Quiet
<1>2. Exclusive(pc)
  BY DEF Inv, ControlInv, RestoreIsExclusive, Exclusive
<1>3. Logical' = Logical
  <2>1. LogicalOf(state, saved, pc') = LogicalOf(state, saved, pc)
    BY <1>1, <1>2, LogicalFrame
  <2>2. state' = state /\ saved' = saved
    BY DEF Quiet
  <2>3. QED BY <2>1, <2>2 DEF Logical
<1>4. RestoreIsExclusive'
  BY <1>1 DEF Inv, ControlInv, RestoreIsExclusive, Quiet
<1>5. QED BY <1>3, <1>4

\* A client moves inside a call, or begins one while the owner allows it.
LEMMA QuietClient ==
  ASSUME Inv, NEW c \in Clients, NEW v, Quiet(c, v), UNCHANGED ctx,
         v \in PausePcs \cup ResumePcs => ctx,
         v = "idle" \/ pc[Owner] \notin ResetPcs \cup CancelPcs \cup DestroyPcs
  PROVE  ControlInv' /\ Logical' = Logical
<1>1. RestoreIsExclusive' /\ Logical' = Logical
  BY ThreadFacts, QuietLogical
<1>2. /\ pc'[Owner] = pc[Owner] /\ pc'[Worker] = pc[Worker] /\ pc'[Watcher] = pc[Watcher]
      /\ pc'[c] = v /\ \A d \in Clients : d # c => pc'[d] = pc[d]
      /\ \A h \in Helpers : pc'[h] = pc[h]
      /\ \A t \in Threads : pc'[t] = "c_restore" => pc[t] = "c_restore"
  BY ThreadFacts DEF Inv, TypeOK, PcOK, Quiet
<1>3. ThreadsInv'
  BY <1>2 DEF Inv, ControlInv, ThreadsInv
<1>4. LogicalInv'
  BY <1>1, <1>2 DEF Inv, ControlInv, LogicalInv, Quiet
<1>5. QED BY <1>1, <1>3, <1>4 DEF ControlInv

\* The worker moves between two accesses of a run.
LEMMA QuietWorker ==
  ASSUME Inv, NEW v, Quiet(Worker, v), UNCHANGED ctx, pc[Worker] \notin {"off", "done"},
         v # "fork", pc[Worker] = "fork" => \A h \in Helpers : pc[h] = "off",
         v \in {"notify", "done"} /\ pc[Owner] \in WaitPcs \cup {"waited"} => Logical \in Terminal
  PROVE  ControlInv' /\ Logical' = Logical
<1>1. RestoreIsExclusive' /\ Logical' = Logical
  BY ThreadFacts, QuietLogical
<1>2. /\ pc'[Owner] = pc[Owner] /\ pc'[Worker] = v /\ pc'[Watcher] = pc[Watcher]
      /\ \A d \in Clients \cup Helpers : pc'[d] = pc[d]
      /\ \A t \in Threads : pc'[t] = "c_restore" => pc[t] = "c_restore"
  BY ThreadFacts DEF Inv, TypeOK, PcOK, Quiet
<1>3. ThreadsInv'
  BY <1>2 DEF Inv, ControlInv, ThreadsInv
<1>4. pc[Owner] \in {"join", "d_join"} \cup CancelPcs
  BY DEF Inv, ControlInv, ThreadsInv
<1>5. pc[Owner] \notin (WaitPcs \ {"join"}) \cup {"waited"}
  BY <1>4 DEF WaitPcs, CancelPcs
<1>6. LogicalInv'
  BY <1>1, <1>2, <1>5 DEF Inv, ControlInv, LogicalInv, Quiet
<1>7. QED BY <1>1, <1>3, <1>6 DEF ControlInv

\* A helper moves between two accesses of a layer.
LEMMA QuietHelper ==
  ASSUME Inv, NEW h \in Helpers, NEW v, Quiet(h, v), UNCHANGED ctx, pc[h] # "off"
  PROVE  ControlInv' /\ Logical' = Logical
<1>1. RestoreIsExclusive' /\ Logical' = Logical
  BY ThreadFacts, QuietLogical
<1>2. /\ pc'[Owner] = pc[Owner] /\ pc'[Worker] = pc[Worker] /\ pc'[Watcher] = pc[Watcher]
      /\ \A d \in Clients : pc'[d] = pc[d]
      /\ \A t \in Threads : pc'[t] = "c_restore" => pc[t] = "c_restore"
  BY ThreadFacts DEF Inv, TypeOK, PcOK, Quiet
<1>3. pc[Worker] = "fork"
  BY DEF Inv, ControlInv, ThreadsInv
<1>4. ThreadsInv'
  BY <1>2, <1>3 DEF Inv, ControlInv, ThreadsInv
<1>5. LogicalInv'
  BY <1>1, <1>2 DEF Inv, ControlInv, LogicalInv, Quiet
<1>6. QED BY <1>1, <1>4, <1>5 DEF ControlInv

\* The watcher moves while it lives.
LEMMA QuietWatcher ==
  ASSUME Inv, NEW v, Quiet(Watcher, v), UNCHANGED ctx, pc[Watcher] # "off"
  PROVE  ControlInv' /\ Logical' = Logical
<1>1. RestoreIsExclusive' /\ Logical' = Logical
  BY ThreadFacts, QuietLogical
<1>2. /\ pc'[Owner] = pc[Owner] /\ pc'[Worker] = pc[Worker]
      /\ \A d \in Clients \cup Helpers : pc'[d] = pc[d]
      /\ \A t \in Threads : pc'[t] = "c_restore" => pc[t] = "c_restore"
  BY ThreadFacts DEF Inv, TypeOK, PcOK, Quiet
<1>3. ThreadsInv'
  BY <1>2 DEF Inv, ControlInv, ThreadsInv
<1>4. LogicalInv'
  BY <1>1, <1>2 DEF Inv, ControlInv, LogicalInv, Quiet
<1>5. QED BY <1>1, <1>3, <1>4 DEF ControlInv

\* The owner moves between two accesses; the conditions are what the target
\* of the move promises.
LEMMA QuietOwner ==
  ASSUME Inv, NEW v \in OwnerPcs, Quiet(Owner, v), UNCHANGED ctx,
         v \in {"new", "threw", "ctx", "pending", "watch", "exit", "payload", "ret", "waited",
               "gone"} \cup ResetPcs => pc[Watcher] = "off",
         pc[Worker] \in {"off", "done"} \/ v \in {"join", "d_join"} \cup CancelPcs,
         v \in ResetPcs \cup CancelPcs \cup DestroyPcs => \A c \in Clients : pc[c] = "idle",
         v \in {"new", "threw", "ctx"} => ~ctx,
         v \in {"new", "threw", "clear"} => Logical = "Idle",
         ctx /\ v # "clear" => Logical # "Idle",
         v \in StartPcs => Logical # "Idle",
         v = "reset" => Logical \in Terminal \cup {"Idle"},
         v = "rearm" => Logical \in Terminal,
         v \in {"pending", "watch", "spawn"} \cup WaitPcs \cup {"waited"} => ctx,
         v \in WaitPcs \cup {"waited"} /\ pc[Worker] \in {"notify", "done"} => Logical \in Terminal,
         v \in (WaitPcs \ {"join"}) \cup {"waited"} => pc[Worker] = "done"
  PROVE  ControlInv' /\ Logical' = Logical
<1>1. RestoreIsExclusive' /\ Logical' = Logical
  BY ThreadFacts, QuietLogical
<1>2. /\ pc'[Owner] = v /\ pc'[Worker] = pc[Worker] /\ pc'[Watcher] = pc[Watcher]
      /\ \A d \in Clients \cup Helpers : pc'[d] = pc[d]
      /\ \A t \in Threads : pc'[t] = "c_restore" => pc[t] = "c_restore"
  BY ThreadFacts DEF Inv, TypeOK, PcOK, Quiet
<1>3. ThreadsInv'
  BY <1>2 DEF Inv, ControlInv, ThreadsInv
<1>4. LogicalInv'
  BY <1>1, <1>2 DEF Inv, ControlInv, LogicalInv, Quiet
<1>5. QED BY <1>1, <1>3, <1>4 DEF ControlInv

-----------------------------------------------------------------------------
(* What a step means for Lifecycle.                                        *)

Refines == [Life!Next]_<<Phase, runs>>

LEMMA QuietRefines ==
  ASSUME Logical' = Logical, runs' = runs
  PROVE  Refines
BY DEF Refines, Phase

\* An Active logical state becomes another one, or a verdict.
LEMMA ActiveRefines ==
  ASSUME Logical \in Active, Logical' \in Active \cup Terminal, runs' = runs
  PROVE  Refines
<1>1. Phase = "Active"
  BY DEF Phase, PhaseOf
<1>2. CASE Logical' \in Active
  BY <1>1, <1>2 DEF Refines, Phase, PhaseOf
<1>3. CASE Logical' \in Terminal
  BY <1>1, <1>3 DEF Refines, Phase, PhaseOf, Active, Terminal, Life!Next, Life!Finish, Life!Verdicts
<1>4. QED BY <1>2, <1>3

-----------------------------------------------------------------------------
(* cancel().                                                               *)

\* A thread that may run cancel() moves between two of its steps.
LEMMA QuietCancel ==
  ASSUME Inv, NEW t \in Threads, t \notin Searchers, NEW v \in CancelPcs \cup {AfterCancel(t)},
         pc[t] \in CancelPcs, Quiet(t, v), UNCHANGED ctx
  PROVE  ControlInv' /\ Logical' = Logical
<1>1. CASE t \in Clients
  BY <1>1, ThreadFacts, QuietClient DEF Inv, ControlInv, ThreadsInv, CancelPcs, PausePcs, ResumePcs,
     AfterCancel
<1>2. CASE t = Owner
  BY <1>2, QuietOwner DEF Inv, ControlInv, ThreadsInv, LogicalInv, CancelPcs, OwnerPcs, DestroyPcs,
     StartPcs, WaitPcs, ResetPcs, AfterCancel
<1>3. CASE t = Watcher
  BY <1>3, QuietWatcher DEF CancelPcs
<1>4. QED BY <1>1, <1>2, <1>3, ThreadFacts

\* Who may begin a cancel(): its program counter and the owner's.
LEMMA CancelCaller ==
  ASSUME Inv, ResetAlone, NEW t \in Threads, t \notin Searchers, CancelExchange(t)
  PROVE  /\ pc[t] # "c_restore"
         /\ t \in Clients => pc[t] \in {"idle", "fire"} /\
                            (pc[t] = "idle" => pc[Owner] \notin ResetPcs \cup CancelPcs \cup DestroyPcs)
         /\ t = Owner \/ t = Watcher => pc[t] = "fire"
BY ThreadFacts DEF CancelExchange, MayCall

\* The exchange hides a restorable state, ends an active run, or meets a
\* state that reads Cancelled already.
LEMMA ExchangeLogical ==
  ASSUME Inv, ResetAlone, NEW t \in Threads, t \notin Searchers, CancelExchange(t)
  PROVE  /\ RestoreIsExclusive'
         /\ Logical' = IF state \in Active THEN "Cancelled" ELSE Logical
         /\ state \in Active => Logical = state
<1>0. pc[t] # "c_restore" /\ state' = "Cancelled"
  BY CancelCaller DEF CancelExchange
<1>1. CASE state \in {"Completed", "Failed", "Idle"}
  <2>1. (\A u \in Threads : pc[u] # "c_restore") /\ Logical = state
    BY <1>1, LogicalIsState DEF Inv, ControlInv
  <2>2. pc' = [pc EXCEPT ![t] = "c_restore"] /\ saved' = [saved EXCEPT ![t] = state]
    BY <1>1 DEF CancelExchange, Active
  <2>3. pc'[t] = "c_restore" /\ saved'[t] = state /\ \A u \in Threads : u # t => pc'[u] # "c_restore"
    BY <2>1, <2>2 DEF Inv, TypeOK, PcOK, DataOK
  <2>4. Exclusive(pc') /\ RestoreIsExclusive'
    BY <1>0, <2>3 DEF Exclusive, RestoreIsExclusive
  <2>5. LogicalOf(state', saved', pc') = saved'[t]
    BY <2>3, <2>4, LogicalRestored
  <2>6. QED BY <1>1, <2>1, <2>3, <2>4, <2>5 DEF Logical, Active
<1>2. CASE state \in Active
  <2>1. (\A u \in Threads : pc[u] # "c_restore") /\ Logical = state
    BY <1>2, LogicalIsState DEF Inv, ControlInv, Active
  <2>2. \A u \in Threads : pc'[u] # "c_restore"
    BY <1>2, <2>1 DEF CancelExchange, Active, Inv, TypeOK, PcOK
  <2>3. Logical' = "Cancelled"
    BY <1>0, <2>2, LogicalPlain DEF Logical
  <2>4. QED BY <1>2, <2>1, <2>2, <2>3 DEF RestoreIsExclusive
<1>3. CASE state = "Cancelled"
  <2>1. Quiet(t, "c_notify")
    BY <1>0, <1>3 DEF CancelExchange, Quiet, Active
  <2>2. QED BY <1>3, <2>1, QuietLogical DEF Active
<1>4. state \in States
  BY DEF Inv, TypeOK, DataOK
<1>5. QED BY <1>1, <1>2, <1>3, <1>4 DEF States, Active

LEMMA ExchangeStep ==
  ASSUME Inv, ResetAlone, NEW t \in Threads, t \notin Searchers, CancelExchange(t)
  PROVE  ControlInv' /\ Refines
<1>1. /\ RestoreIsExclusive'
      /\ Logical' = IF state \in Active THEN "Cancelled" ELSE Logical
      /\ state \in Active => Logical = state
  BY ExchangeLogical
<1>2. PICK v \in {"c_restore", "c_poison", "c_notify"} : pc' = [pc EXCEPT ![t] = v]
  BY DEF CancelExchange
<1>3. /\ pc'[t] = v /\ \A u \in Threads : u # t => pc'[u] = pc[u]
      /\ UNCHANGED <<ctx, runs>>
      /\ v = "c_restore" => saved'[t] \in {"Completed", "Failed", "Idle"}
      /\ \A u \in Threads : u # t => saved'[u] = saved[u]
  BY <1>2 DEF CancelExchange, Inv, TypeOK, PcOK, DataOK, ctxVars, Active
<1>4. /\ t \in Clients => pc[t] \in {"idle", "fire"} /\
                         (pc[t] = "idle" => pc[Owner] \notin ResetPcs \cup CancelPcs \cup DestroyPcs)
      /\ t = Owner \/ t = Watcher => pc[t] = "fire"
  BY CancelCaller
<1>5. ThreadsInv'
  BY <1>2, <1>3, <1>4, ThreadFacts DEF Inv, ControlInv, ThreadsInv, CancelPcs, ResetPcs, DestroyPcs,
     PausePcs, ResumePcs
<1>6. LogicalInv'
  BY <1>1, <1>2, <1>3, <1>4, ThreadFacts DEF Inv, ControlInv, LogicalInv, CancelPcs, StartPcs, WaitPcs,
     Active, Terminal
<1>7. Refines
  <2>1. CASE state \in Active
    BY <1>1, <1>3, <2>1, ActiveRefines DEF Terminal
  <2>2. CASE state \notin Active
    BY <1>1, <1>3, <2>2, QuietRefines
  <2>3. QED BY <2>1, <2>2
<1>8. QED BY <1>1, <1>5, <1>6, <1>7 DEF ControlInv

\* The restore uncovers the state that was logical all along.
LEMMA RestoreStep ==
  ASSUME Inv, NEW t \in Threads, t \notin Searchers, CancelRestore(t)
  PROVE  ControlInv' /\ Refines
<1>1. pc[t] = "c_restore" /\ Exclusive(pc)
  BY DEF CancelRestore, Goto, Inv, ControlInv, RestoreIsExclusive, Exclusive
<1>2. Logical = saved[t]
  BY <1>1, LogicalRestored DEF Logical
<1>3. PICK v \in {"c_pend", AfterCancel(t)} : pc' = [pc EXCEPT ![t] = v]
  BY DEF CancelRestore, Goto
<1>4. v \notin {"c_restore"} /\ v \in {"c_pend", "idle", "off", "d_join"}
  BY <1>3 DEF AfterCancel
<1>5. /\ pc'[t] = v /\ \A u \in Threads : u # t => pc'[u] = pc[u]
      /\ UNCHANGED <<ctx, runs>>
  BY <1>3 DEF CancelRestore, Inv, TypeOK, PcOK, ctxVars
<1>6. \A u \in Threads : pc'[u] # "c_restore"
  BY <1>1, <1>4, <1>5 DEF Exclusive
<1>7. Logical' = state' /\ state' = saved[t]
  BY <1>6, LogicalPlain DEF Logical, CancelRestore
<1>8. RestoreIsExclusive' /\ Logical' = Logical
  BY <1>2, <1>6, <1>7 DEF RestoreIsExclusive
<1>9. /\ t \in Clients => v \in {"c_pend", "idle"}
      /\ t = Owner => v \in {"c_pend", "d_join"}
  BY <1>3, ThreadFacts DEF AfterCancel
<1>10. ThreadsInv'
  BY <1>1, <1>4, <1>5, <1>9, ThreadFacts DEF Inv, ControlInv, ThreadsInv, CancelPcs, ResetPcs, DestroyPcs,
     PausePcs, ResumePcs
<1>11. LogicalInv'
  BY <1>1, <1>4, <1>5, <1>6, <1>8, <1>9, ThreadFacts DEF Inv, ControlInv, LogicalInv, CancelPcs, StartPcs,
     WaitPcs
<1>12. QED BY <1>5, <1>8, <1>10, <1>11, QuietRefines DEF ControlInv

LEMMA CancelStepInv ==
  ASSUME Inv, NEW t \in Threads, t \notin Searchers, CancelStep(t)
  PROVE  ControlInv' /\ Refines
<1>1. CASE CancelRestore(t)
  BY <1>1, RestoreStep
<1>2. CASE CancelStep(t) /\ ~CancelRestore(t)
  <2>1. /\ pc[t] \in CancelPcs /\ UNCHANGED <<ctx, runs>>
        /\ \E v \in CancelPcs \cup {AfterCancel(t)} : Quiet(t, v)
    BY <1>2 DEF CancelStep, CancelPend, CancelPoison, Unpause, WakeWorker, NotifyAck, Goto, Quiet,
       CancelPcs, AfterCancel, ctxVars
  <2>2. QED BY <2>1, QuietCancel, QuietRefines
<1>3. QED BY <1>1, <1>2

-----------------------------------------------------------------------------
(* Between start() and reset() the logical state is Active or a verdict.   *)

LEMMA RunIsActive ==
  ASSUME Inv, ctx, pc[Owner] # "clear", state \notin Terminal
  PROVE  state \in Active /\ Logical = state /\ \A t \in Threads : pc[t] # "c_restore"
<1>1. Logical = state /\ \A t \in Threads : pc[t] # "c_restore"
  BY LogicalIsState DEF Inv, ControlInv, Terminal
<1>2. Logical # "Idle"
  BY DEF Inv, ControlInv, LogicalInv
<1>3. QED BY <1>1, <1>2 DEF Inv, TypeOK, DataOK, States, Active, Terminal

LEMMA RunIsDecided ==
  ASSUME Inv, ctx, pc[Owner] # "clear", state \in Terminal
  PROVE  Logical \in Terminal
<1>1. CASE \A t \in Threads : pc[t] # "c_restore"
  BY <1>1, LogicalPlain DEF Logical
<1>2. CASE \E t \in Threads : pc[t] = "c_restore"
  <2>1. PICK t \in Threads : pc[t] = "c_restore"
    BY <1>2
  <2>2. Logical = saved[t]
    BY <2>1, LogicalRestored DEF Logical, Exclusive, Inv, ControlInv, RestoreIsExclusive
  <2>3. QED BY <2>1, <2>2 DEF Inv, ControlInv, LogicalInv, Terminal
<1>3. QED BY <1>1, <1>2

\* The variables the invariant reads stay.
LEMMA StillStep ==
  ASSUME Inv, UNCHANGED <<state, saved, pc, ctx, runs>>
  PROVE  ControlInv' /\ Refines
<1>1. Logical' = Logical
  BY DEF Logical
<1>2. ControlInv'
  BY <1>1 DEF Inv, ControlInv, RestoreIsExclusive, ThreadsInv, LogicalInv
<1>3. QED BY <1>1, <1>2, QuietRefines

-----------------------------------------------------------------------------
(* pause(), resume() and serialize_state().                                *)

\* A control call changes one Active state into another.
LEMMA ActiveStep ==
  ASSUME Inv, NEW c \in Clients, NEW v \in PausePcs \cup ResumePcs,
         ctx, pc[Owner] \notin ResetPcs \cup CancelPcs \cup DestroyPcs,
         state \notin Terminal, state' \in Active,
         pc[c] \notin CancelPcs, pc' = [pc EXCEPT ![c] = v], UNCHANGED <<saved, ctx, runs>>
  PROVE  ControlInv' /\ Refines
<1>1. state \in Active /\ Logical = state /\ \A t \in Threads : pc[t] # "c_restore"
  BY RunIsActive DEF ResetPcs
<1>2. /\ pc'[c] = v /\ \A t \in Threads : t # c => pc'[t] = pc[t]
      /\ \A t \in Threads : pc'[t] # "c_restore"
  BY <1>1, ThreadFacts DEF Inv, TypeOK, PcOK, PausePcs, ResumePcs
<1>3. Logical' = state'
  BY <1>2, LogicalPlain DEF Logical
<1>4. RestoreIsExclusive'
  BY <1>2 DEF RestoreIsExclusive
<1>5. /\ pc'[Owner] = pc[Owner] /\ pc'[Worker] = pc[Worker] /\ pc'[Watcher] = pc[Watcher]
      /\ pc'[c] = v /\ \A d \in Clients : d # c => pc'[d] = pc[d]
      /\ \A h \in Helpers : pc'[h] = pc[h]
  BY <1>2, ThreadFacts
<1>6. ThreadsInv'
  BY <1>5 DEF Inv, ControlInv, ThreadsInv
<1>7. Logical \notin Terminal /\ Logical' # "Idle"
  BY <1>1, <1>3 DEF Active, Terminal
<1>8. LogicalInv'
  BY <1>2, <1>5, <1>7 DEF Inv, ControlInv, LogicalInv, ResetPcs
<1>9. Refines
  BY <1>1, <1>3, ActiveRefines
<1>10. QED BY <1>4, <1>6, <1>8, <1>9 DEF ControlInv

LEMMA ClientCallInv ==
  ASSUME Inv, ResetAlone, NEW c \in Clients, ClientCall(c)
  PROVE  ControlInv' /\ Refines
<1>1. CASE CancelExchange(c)
  BY <1>1, ExchangeStep, ThreadFacts
<1>2. CASE PauseCas(c)
  <2>1. pc[Owner] \notin ResetPcs \cup CancelPcs \cup DestroyPcs /\ pc[c] \notin CancelPcs
    BY <1>2 DEF PauseCas, MayCall, CancelPcs
  <2>2. QED BY <1>2, <2>1, ActiveStep DEF PauseCas, ctxVars, PausePcs, Active, Terminal
<1>3. CASE ResumeSet(c)
  <2>1. pc[Owner] \notin ResetPcs \cup CancelPcs \cup DestroyPcs /\ pc[c] \notin CancelPcs
    BY <1>3 DEF ResumeSet, MayCall, CancelPcs
  <2>2. QED BY <1>3, <2>1, ActiveStep DEF ResumeSet, CanSet, ctxVars, ResumePcs, Active
<1>4. CASE SerializeBegin(c)
  <2>1. /\ pc[Owner] \notin ResetPcs \cup CancelPcs \cup DestroyPcs /\ Quiet(c, "s_check")
        /\ UNCHANGED <<ctx, runs>>
    BY <1>4 DEF SerializeBegin, MayCall, Quiet, ctxVars
  <2>2. QED BY <2>1, QuietClient, QuietRefines DEF PausePcs, ResumePcs
<1>5. QED BY <1>1, <1>2, <1>3, <1>4 DEF ClientCall

\* A step inside a call that leaves the state alone.
LEMMA ClientQuiet ==
  ASSUME Inv, NEW c \in Clients,
         NEW v \in {"idle"} \cup PausePcs \cup ResumePcs \cup SerializePcs,
         pc[c] \in PausePcs \cup ResumePcs \cup SerializePcs,
         v \in PausePcs \cup ResumePcs => pc[c] \in PausePcs \cup ResumePcs,
         pc' = [pc EXCEPT ![c] = v], UNCHANGED <<state, saved, ctx, runs>>
  PROVE  ControlInv' /\ Refines
<1>1. pc[c] # "c_restore" /\ v # "c_restore" /\ pc[c] # "idle"
  BY DEF PausePcs, ResumePcs, SerializePcs
<1>2. Quiet(c, v)
  BY <1>1 DEF Quiet
<1>3. v \in PausePcs \cup ResumePcs => ctx
  BY DEF Inv, ControlInv, ThreadsInv
<1>4. pc[Owner] \notin ResetPcs \cup CancelPcs \cup DestroyPcs
  BY <1>1 DEF Inv, ControlInv, ThreadsInv
<1>5. QED BY <1>2, <1>3, <1>4, QuietClient, QuietRefines

LEMMA ClientStepInv ==
  ASSUME Inv, NEW c \in Clients, ClientStep(c)
  PROVE  ControlInv' /\ Refines
<1>1. CASE CancelStep(c)
  BY <1>1, CancelStepInv, ThreadFacts
<1>2. CASE PauseStep(c) /\ ~PauseFlip(c)
  BY <1>2, ClientQuiet DEF PauseStep, NotifyAck, PauseFlag, AckTest, AckEnrol, PauseLoad, Goto, ctxVars,
     PausePcs, SerializePcs
<1>3. CASE PauseFlip(c)
  <2>1. /\ pc[c] = "p_flip" /\ pc' = [pc EXCEPT ![c] = IF CanSet("Paused") THEN "p_notify2" ELSE "idle"]
        /\ UNCHANGED <<saved, ctx, runs>>
    BY <1>3 DEF PauseFlip, Goto, ctxVars
  <2>2. CASE CanSet("Paused")
    <3>1. ctx /\ pc[Owner] \notin ResetPcs \cup CancelPcs \cup DestroyPcs
      BY <2>1 DEF Inv, ControlInv, ThreadsInv, PausePcs
    <3>2. state \notin Terminal /\ state' \in Active
      BY <1>3, <2>2 DEF PauseFlip, CanSet, Active
    <3>3. pc[c] \notin CancelPcs /\ pc' = [pc EXCEPT ![c] = "p_notify2"]
      BY <2>1, <2>2 DEF CancelPcs
    <3>4. QED BY <2>1, <3>1, <3>2, <3>3, ActiveStep DEF PausePcs
  <2>3. CASE ~CanSet("Paused")
    BY <1>3, <2>1, <2>3, ClientQuiet DEF PauseFlip, PausePcs, ResumePcs
  <2>4. QED BY <2>2, <2>3
<1>4. CASE ResumeStep(c)
  BY <1>4, ClientQuiet DEF ResumeStep, NotifyAck, Unpause, WakeWorker, Goto, ctxVars, ResumePcs,
     SerializePcs
<1>5. CASE SerializeStep(c)
  BY <1>5, ClientQuiet DEF SerializeStep, AckTest, AckEnrol, SerializeLoad, SerializeSnap, Goto, ctxVars,
     SerializePcs, PausePcs, ResumePcs
<1>6. QED BY <1>1, <1>2, <1>3, <1>4, <1>5 DEF ClientStep

-----------------------------------------------------------------------------
(* The worker and the watcher.                                             *)

\* A verdict is accepted while the run is Active and refused only when the
\* run has one already.
LEMMA VerdictStep ==
  ASSUME Inv, NEW from \in {"finish", "fail"}, NEW verdict \in {"Completed", "Failed"},
         WorkerVerdict(from, verdict)
  PROVE  ControlInv' /\ Refines
<1>1. pc[Worker] = from /\ ctx /\ pc[Owner] \in {"join", "d_join"} \cup CancelPcs
  BY DEF WorkerVerdict, Goto, Inv, ControlInv, ThreadsInv
<1>2. pc[Owner] # "clear"
  BY <1>1 DEF CancelPcs
<1>3. CASE state \in Terminal
  <2>1. Logical \in Terminal
    BY <1>1, <1>2, <1>3, RunIsDecided
  <2>2. Quiet(Worker, "done") /\ UNCHANGED <<ctx, runs>>
    BY <1>1, <1>3 DEF WorkerVerdict, CanSet, Goto, Quiet, ctxVars
  <2>3. QED BY <1>1, <2>1, <2>2, QuietWorker, QuietRefines
<1>4. CASE state \notin Terminal
  <2>1. state \in Active /\ Logical = state /\ \A t \in Threads : pc[t] # "c_restore"
    BY <1>1, <1>2, <1>4, RunIsActive
  <2>2. /\ state' = verdict /\ pc' = [pc EXCEPT ![Worker] = "notify"] /\ UNCHANGED <<saved, ctx, runs>>
    BY <1>4, <2>1 DEF WorkerVerdict, CanSet, Goto, Active, ctxVars
  <2>3. /\ pc'[Worker] = "notify" /\ \A t \in Threads : t # Worker => pc'[t] = pc[t]
        /\ \A t \in Threads : pc'[t] # "c_restore"
    BY <2>1, <2>2, ThreadFacts DEF Inv, TypeOK, PcOK
  <2>4. Logical' = verdict /\ RestoreIsExclusive'
    <3>1. Logical' = state'
      BY <2>3, LogicalPlain DEF Logical
    <3>2. RestoreIsExclusive'
      BY <2>3 DEF RestoreIsExclusive
    <3>3. QED BY <2>2, <3>1, <3>2
  <2>5. /\ pc'[Owner] = pc[Owner] /\ pc'[Watcher] = pc[Watcher]
        /\ \A c \in Clients \cup Helpers : pc'[c] = pc[c]
    BY <2>3, ThreadFacts
  <2>6. ThreadsInv'
    BY <1>1, <2>2, <2>3, <2>5 DEF Inv, ControlInv, ThreadsInv
  <2>7. pc[Owner] \notin {"new", "threw", "clear", "rearm"} \cup (WaitPcs \ {"join"}) \cup {"waited"}
    BY <1>1 DEF WaitPcs, CancelPcs
  <2>8. LogicalInv'
    BY <2>2, <2>3, <2>4, <2>5, <2>7 DEF Inv, ControlInv, LogicalInv, Terminal
  <2>9. Refines
    BY <2>1, <2>2, <2>4, ActiveRefines DEF Terminal
  <2>10. QED BY <2>4, <2>6, <2>8, <2>9 DEF ControlInv
<1>5. QED BY <1>3, <1>4

\* One access of a searcher.
LEMMA SearchInv ==
  ASSUME Inv, NEW s \in Searchers, SearchStep(s)
  PROVE  ControlInv' /\ Refines
<1>1. /\ \E v \in SearchPcs \cup {SearchEnd(s)} : Quiet(s, v)
      /\ UNCHANGED <<ctx, runs>> /\ pc[s] \in SearchPcs
  BY DEF SearchStep, SearchOn, SearchPoll, SearchAck, SearchTest, SearchBlock, SearchWake, SearchCheck,
     SearchGoto, Goto, Quiet, SearchPcs, SearchEnd, ctxVars
<1>2. CASE s = Worker
  BY <1>1, <1>2, QuietWorker, QuietRefines DEF SearchPcs, SearchEnd
<1>3. CASE s \in Helpers
  BY <1>1, <1>3, QuietHelper, QuietRefines DEF SearchPcs
<1>4. QED BY <1>2, <1>3, ThreadFacts

\* The helpers start together, under a worker that waits for them.
LEMMA ForkInv ==
  ASSUME Inv, Fork
  PROVE  ControlInv' /\ Refines
<1>1. /\ pc[Worker] = "work" /\ pc'[Worker] = "fork" /\ \A h \in Helpers : pc'[h] = "poll"
      /\ \A c \in Clients : pc'[c] = pc[c]
      /\ pc'[Owner] = pc[Owner] /\ pc'[Watcher] = pc[Watcher]
      /\ UNCHANGED <<state, saved, ctx, runs>>
  BY ThreadFacts DEF Fork, ctxVars
<1>2. \A h \in Helpers : pc[h] = "off"
  BY <1>1 DEF Inv, ControlInv, ThreadsInv
<1>3. \A t \in Threads : pc[t] = "c_restore" <=> pc'[t] = "c_restore"
  BY <1>1, <1>2, ThreadFacts
<1>4. Exclusive(pc)
  BY DEF Inv, ControlInv, RestoreIsExclusive, Exclusive
<1>5. Logical' = Logical
  <2>1. LogicalOf(state, saved, pc') = LogicalOf(state, saved, pc)
    BY <1>3, <1>4, LogicalFrame
  <2>2. QED BY <1>1, <2>1 DEF Logical
<1>6. RestoreIsExclusive'
  BY <1>1, <1>3 DEF Inv, ControlInv, RestoreIsExclusive
<1>7. ThreadsInv'
  BY <1>1 DEF Inv, ControlInv, ThreadsInv
<1>8. LogicalInv'
  BY <1>1, <1>3, <1>5 DEF Inv, ControlInv, LogicalInv
<1>9. QED BY <1>1, <1>5, <1>6, <1>7, <1>8, QuietRefines DEF ControlInv

LEMMA WorkerInv ==
  ASSUME Inv, WorkerStep
  PROVE  ControlInv' /\ Refines
<1>1. CASE NotifyAck(Worker, "notify", "done")
  <2>1. Quiet(Worker, "done") /\ UNCHANGED <<ctx, runs>> /\ pc[Worker] = "notify"
    BY <1>1 DEF NotifyAck, Goto, Quiet, ctxVars
  <2>2. pc[Owner] \in WaitPcs \cup {"waited"} => Logical \in Terminal
    BY <2>1 DEF Inv, ControlInv, LogicalInv
  <2>3. QED BY <2>1, <2>2, QuietWorker, QuietRefines
<1>2. CASE WorkerVerdict("finish", "Completed") \/ WorkerVerdict("fail", "Failed")
  BY <1>2, VerdictStep
<1>3. CASE Join("check") \/ (MayFail /\ (SearchGoto(Worker, "work", "fail") \/ Join("fail")))
  <2>1. /\ \E v \in {"check", "fail"} : Quiet(Worker, v)
        /\ UNCHANGED <<ctx, runs>> /\ pc[Worker] \in {"fork", "work"}
        /\ pc[Worker] = "fork" => \A h \in Helpers : pc[h] = "off"
    BY <1>3 DEF Join, SearchGoto, Goto, Quiet, ctxVars
  <2>2. QED BY <2>1, QuietWorker, QuietRefines
<1>4. QED BY <1>1, <1>2, <1>3, SearchInv, ForkInv, ThreadFacts DEF WorkerStep

LEMMA WatcherInv ==
  ASSUME Inv, ResetAlone, WatcherStep
  PROVE  ControlInv' /\ Refines
<1>1. CASE CancelExchange(Watcher)
  BY <1>1, ExchangeStep, ThreadFacts
<1>2. CASE CancelStep(Watcher)
  BY <1>2, CancelStepInv, ThreadFacts
<1>3. CASE WatcherStop \/ WatcherExpire
  <2>1. /\ Quiet(Watcher, "off") \/ Quiet(Watcher, "fire")
        /\ UNCHANGED <<ctx, runs>> /\ pc[Watcher] # "off"
    BY <1>3 DEF WatcherStop, WatcherExpire, Goto, Quiet, ctxVars
  <2>2. QED BY <2>1, QuietWatcher, QuietRefines
<1>4. QED BY <1>1, <1>2, <1>3 DEF WatcherStep

-----------------------------------------------------------------------------
(* The owner.                                                              *)

\* No thread of an earlier run is left where start() and reset() run, and
\* the clients are idle in reset() and the destructor.
LEMMA OwnerAlone ==
  ASSUME Inv
  PROVE  /\ pc[Owner] \in {"new", "threw", "ctx", "pending", "watch", "exit", "payload", "ret",
                           "waited", "gone"} \cup ResetPcs => pc[Watcher] = "off"
         /\ pc[Owner] \notin {"join", "d_join"} \cup CancelPcs => pc[Worker] \in {"off", "done"}
         /\ pc[Worker] \in {"off", "done"} => \A h \in Helpers : pc[h] = "off"
         /\ pc[Owner] \in ResetPcs \cup CancelPcs \cup DestroyPcs => \A c \in Clients : pc[c] = "idle"
BY DEF Inv, ControlInv, ThreadsInv

\* start() finds a logically Idle executor: it begins a run or throws.
LEMMA StartSetStep ==
  ASSUME Inv, StartSet
  PROVE  ControlInv' /\ Refines
<1>1. pc[Owner] = "new" /\ Logical = "Idle" /\ ~ctx /\ pc[Watcher] = "off" /\ pc[Worker] \in {"off", "done"}
  BY OwnerAlone DEF StartSet, Goto, Inv, ControlInv, LogicalInv, CancelPcs
<1>2. CASE CanSet("Running")
  <2>1. (\A t \in Threads : pc[t] # "c_restore") /\ Logical = state
    BY <1>2, LogicalIsState DEF CanSet, Terminal, Inv, ControlInv
  <2>2. /\ pc' = [pc EXCEPT ![Owner] = "ctx"] /\ state' = "Running" /\ runs' = runs + 1
        /\ UNCHANGED <<saved, ctx>>
    BY <1>2 DEF StartSet, Goto, ctxVars
  <2>3. /\ pc'[Owner] = "ctx" /\ \A t \in Threads : t # Owner => pc'[t] = pc[t]
        /\ \A t \in Threads : pc'[t] # "c_restore"
    BY <2>1, <2>2, ThreadFacts DEF Inv, TypeOK, PcOK
  <2>4. /\ pc'[Worker] = pc[Worker] /\ pc'[Watcher] = pc[Watcher]
        /\ \A c \in Clients \cup Helpers : pc'[c] = pc[c]
    BY <2>3, ThreadFacts
  <2>5. Logical' = "Running"
    <3>1. Logical' = state'
      BY <2>3, LogicalPlain DEF Logical
    <3>2. QED BY <2>2, <3>1
  <2>6. RestoreIsExclusive'
    BY <2>3 DEF RestoreIsExclusive
  <2>7. ThreadsInv'
    BY <1>1, <2>2, <2>3, <2>4 DEF Inv, ControlInv, ThreadsInv, ResetPcs, CancelPcs, DestroyPcs
  <2>8. LogicalInv'
    BY <1>1, <2>2, <2>3, <2>5 DEF LogicalInv, WaitPcs
  <2>9. Refines
    BY <1>1, <2>2, <2>5 DEF Refines, Phase, PhaseOf, Active, Life!Next, Life!Start
  <2>10. QED BY <2>6, <2>7, <2>8, <2>9 DEF ControlInv
<1>3. CASE ~CanSet("Running")
  <2>1. Quiet(Owner, "threw") /\ UNCHANGED <<ctx, runs>>
    BY <1>1, <1>3 DEF StartSet, Goto, Quiet, ctxVars
  <2>2. QED BY <1>1, <2>1, QuietOwner, QuietRefines DEF OwnerPcs, ResetPcs, CancelPcs, DestroyPcs, StartPcs,
     WaitPcs
<1>4. QED BY <1>2, <1>3

\* The rest of start() runs under a logical state that is not Idle.
LEMMA StartRestStep ==
  ASSUME Inv, StartCtx \/ StartPending \/ StartWatch \/ StartSpawn
  PROVE  ControlInv' /\ Refines
<1>0. pc[Owner] \in StartPcs /\ Logical # "Idle" /\ pc[Worker] \in {"off", "done"}
  BY OwnerAlone DEF StartCtx, StartPending, StartWatch, StartSpawn, Goto, StartPcs, CancelPcs, Inv,
     ControlInv, LogicalInv
<1>1. CASE StartCtx
  <2>1. Quiet(Owner, "pending") /\ ctx' = TRUE /\ runs' = runs /\ pc[Owner] = "ctx"
    BY <1>1 DEF StartCtx, Goto, Quiet
  <2>2. RestoreIsExclusive' /\ Logical' = Logical
    BY <2>1, ThreadFacts, QuietLogical
  <2>3. /\ pc'[Owner] = "pending" /\ pc'[Worker] = pc[Worker] /\ pc'[Watcher] = pc[Watcher]
        /\ \A c \in Clients \cup Helpers : pc'[c] = pc[c]
        /\ \A t \in Threads : pc'[t] = "c_restore" => pc[t] = "c_restore"
    BY <2>1, ThreadFacts DEF Inv, TypeOK, PcOK, Quiet
  <2>4. ThreadsInv'
    BY <1>0, <2>1, <2>3 DEF Inv, ControlInv, ThreadsInv, ResetPcs, CancelPcs, DestroyPcs
  <2>5. LogicalInv'
    BY <1>0, <2>1, <2>2, <2>3 DEF Inv, ControlInv, LogicalInv, Quiet, WaitPcs
  <2>6. QED BY <2>1, <2>2, <2>4, <2>5, QuietRefines DEF ControlInv
<1>2. CASE StartPending
  <2>1. Quiet(Owner, "watch") /\ UNCHANGED <<ctx, runs>> /\ pc[Owner] = "pending"
    BY <1>2 DEF StartPending, Goto, Quiet
  <2>2. ctx /\ pc[Watcher] = "off"
    BY <2>1, OwnerAlone DEF Inv, ControlInv, LogicalInv
  <2>3. QED BY <1>0, <2>1, <2>2, QuietOwner, QuietRefines DEF OwnerPcs, StartPcs, ResetPcs, CancelPcs,
     DestroyPcs, WaitPcs
<1>3. CASE StartWatch \/ StartSpawn
  <2>1. /\ pc[Owner] \in {"watch", "spawn"} /\ ctx /\ UNCHANGED <<ctx, runs, state, saved>>
        /\ pc[Watcher] # "c_restore" \/ StartSpawn
    BY <1>3, OwnerAlone DEF StartWatch, StartSpawn, ctxVars, Inv, ControlInv, LogicalInv
  <2>2. /\ pc'[Owner] \in {"spawn", "join"} /\ \A c \in Clients \cup Helpers : pc'[c] = pc[c]
        /\ pc'[Worker] \in {pc[Worker], "work"}
        /\ pc'[Worker] = "work" => pc'[Owner] = "join"
        /\ pc'[Owner] = "join" => pc'[Worker] = "work"
        /\ \A t \in Threads : pc'[t] = "c_restore" <=> pc[t] = "c_restore"
    BY <1>0, <1>3, <2>1, ThreadFacts DEF StartWatch, StartSpawn, Inv, TypeOK, PcOK
  <2>3. Exclusive(pc)
    BY DEF Inv, ControlInv, RestoreIsExclusive, Exclusive
  <2>4. Logical' = Logical
    <3>1. LogicalOf(state, saved, pc') = LogicalOf(state, saved, pc)
      BY <2>2, <2>3, LogicalFrame
    <3>2. QED BY <2>1, <3>1 DEF Logical
  <2>5. RestoreIsExclusive'
    BY <2>1, <2>2 DEF Inv, ControlInv, RestoreIsExclusive
  <2>6. ThreadsInv'
    BY <1>0, <2>1, <2>2 DEF Inv, ControlInv, ThreadsInv, ResetPcs, CancelPcs, DestroyPcs
  <2>7. LogicalInv'
    BY <1>0, <2>1, <2>2, <2>4 DEF Inv, ControlInv, LogicalInv, WaitPcs
  <2>8. QED BY <2>1, <2>4, <2>5, <2>6, <2>7, QuietRefines DEF ControlInv
<1>4. QED BY <1>1, <1>2, <1>3

\* wait(): the join hands a decided run to the rest of the call.
LEMMA WaitStep ==
  ASSUME Inv, WaitAny
  PROVE  ControlInv' /\ Refines
<1>1. CASE WaitForTerminal
  BY <1>1, StillStep DEF WaitForTerminal, ctxVars
<1>2. CASE WaitJoin
  <2>1. PICK v \in {"stop", "ret"} : Quiet(Owner, v) /\ (v = "ret" => exitStatus # NoExit)
    BY <1>2 DEF WaitJoin, OwnerGoto, Goto, Quiet
  <2>2. pc[Owner] = "join" /\ pc[Worker] = "done" /\ UNCHANGED <<ctx, runs>>
    BY <1>2 DEF WaitJoin, OwnerGoto, Goto, ctxVars
  <2>3. ctx /\ Logical \in Terminal /\ (v = "ret" => pc[Watcher] = "off")
    BY <2>1, <2>2 DEF Inv, ControlInv, LogicalInv, ExitInv, WaitPcs
  <2>4. QED BY <2>1, <2>2, <2>3, QuietOwner, QuietRefines DEF OwnerPcs, StartPcs, ResetPcs, CancelPcs,
     DestroyPcs, WaitPcs, Terminal
<1>3. CASE WaitExit \/ WaitPayload \/ WaitReturn \/ WaitAgain
  <2>1. PICK v \in {"payload", "ret", "waited", "join"} : Quiet(Owner, v)
    BY <1>3 DEF WaitExit, WaitPayload, WaitReturn, WaitAgain, Goto, Quiet
  <2>2. pc[Owner] \in {"exit", "payload", "ret", "waited"} /\ UNCHANGED <<ctx, runs>>
    BY <1>3 DEF WaitExit, WaitPayload, WaitReturn, WaitAgain, Goto, ctxVars
  <2>3. ctx /\ pc[Worker] = "done" /\ Logical \in Terminal /\ pc[Watcher] = "off"
    BY <2>2, OwnerAlone DEF Inv, ControlInv, LogicalInv, WaitPcs
  <2>4. QED BY <2>1, <2>2, <2>3, QuietOwner, QuietRefines DEF OwnerPcs, StartPcs, ResetPcs, CancelPcs,
     DestroyPcs, WaitPcs, Terminal
<1>4. QED BY <1>1, <1>2, <1>3 DEF WaitAny

\* reset(): alone, so that the state is the logical state.
LEMMA ResetStep ==
  ASSUME Inv, ResetAlone, ResetAny
  PROVE  ControlInv' /\ Refines
<1>1. CASE ResetBegin
  <2>1. /\ Quiet(Owner, "reset") /\ UNCHANGED <<ctx, runs>> /\ \A c \in Clients : pc[c] = "idle"
        /\ pc[Owner] \in {"waited", "threw"}
    BY <1>1 DEF ResetBegin, OwnerGoto, Goto, Quiet, ctxVars
  <2>2. /\ pc[Watcher] = "off" /\ pc[Worker] \in {"off", "done"}
        /\ Logical \in Terminal \cup {"Idle"} /\ (ctx => Logical # "Idle")
    BY <2>1, OwnerAlone DEF Inv, ControlInv, LogicalInv, CancelPcs
  <2>3. QED BY <2>1, <2>2, QuietOwner, QuietRefines DEF OwnerPcs, StartPcs, ResetPcs, CancelPcs,
     DestroyPcs, WaitPcs
<1>2. CASE ResetLoad \/ ResetStore \/ ResetClear
  <2>1. pc[Owner] \in ResetPcs
    BY <1>2 DEF ResetLoad, ResetStore, ResetClear, OwnerGoto, Goto, ResetPcs
  <2>2. /\ pc[Watcher] = "off" /\ pc[Worker] \in {"off", "done"}
        /\ (\A c \in Clients : pc[c] = "idle") /\ \A h \in Helpers : pc[h] = "off"
    BY <2>1, OwnerAlone DEF ResetPcs, CancelPcs
  <2>3. \A t \in Threads : pc[t] # "c_restore"
    BY <2>1, <2>2, ThreadFacts DEF ResetPcs
  <2>4. Logical = state
    BY <2>3, LogicalPlain DEF Logical
  <2>5. CASE ResetLoad
    <3>1. PICK v \in {"rearm", "new"} : Quiet(Owner, v) /\ (v = "rearm" <=> state \in Terminal)
      BY <2>5 DEF ResetLoad, OwnerGoto, Goto, Quiet
    <3>2. UNCHANGED <<ctx, runs>> /\ pc[Owner] = "reset"
      BY <2>5 DEF ResetLoad, OwnerGoto, Goto, ctxVars
    <3>3. (v = "new" => Logical = "Idle" /\ ~ctx) /\ (v = "rearm" => Logical \in Terminal)
      BY <2>4, <3>1, <3>2 DEF Inv, ControlInv, LogicalInv
    <3>4. QED BY <2>2, <3>1, <3>2, <3>3, QuietOwner, QuietRefines DEF OwnerPcs, StartPcs, ResetPcs,
       CancelPcs, DestroyPcs, WaitPcs, Terminal
  <2>6. CASE ResetStore
    <3>1. /\ pc' = [pc EXCEPT ![Owner] = "clear"] /\ state' = "Idle" /\ pc[Owner] = "rearm"
          /\ UNCHANGED <<saved, ctx, runs>>
      BY <2>6 DEF ResetStore, Goto, ctxVars
    <3>2. /\ pc'[Owner] = "clear" /\ pc'[Worker] = pc[Worker] /\ pc'[Watcher] = "off"
          /\ (\A c \in Clients : pc'[c] = "idle") /\ \A h \in Helpers : pc'[h] = pc[h]
      BY <2>2, <3>1, ThreadFacts DEF Inv, TypeOK, PcOK
    <3>3. \A t \in Threads : pc'[t] # "c_restore"
      BY <2>2, <3>2, ThreadFacts
    <3>4. Logical' = "Idle"
      <4>1. Logical' = state'
        BY <3>3, LogicalPlain DEF Logical
      <4>2. QED BY <3>1, <4>1
    <3>5. RestoreIsExclusive'
      BY <3>3 DEF RestoreIsExclusive
    <3>6. ThreadsInv'
      BY <2>2, <3>1, <3>2 DEF ThreadsInv, PausePcs, ResumePcs
    <3>7. LogicalInv'
      BY <3>2, <3>3, <3>4 DEF LogicalInv, StartPcs, WaitPcs
    <3>8. Refines
      <4>1. Logical \in Terminal
        BY <3>1 DEF Inv, ControlInv, LogicalInv
      <4>2. QED BY <3>1, <3>4, <4>1 DEF Refines, Phase, PhaseOf, Active, Terminal, Life!Next, Life!Reset,
         Life!Verdicts
    <3>9. QED BY <3>5, <3>6, <3>7, <3>8 DEF ControlInv
  <2>7. CASE ResetClear
    <3>1. Quiet(Owner, "new") /\ ctx' = FALSE /\ runs' = runs /\ pc[Owner] = "clear"
      BY <2>7 DEF ResetClear, Goto, Quiet
    <3>2. RestoreIsExclusive' /\ Logical' = Logical
      BY <3>1, ThreadFacts, QuietLogical
    <3>3. Logical = "Idle"
      BY <3>1 DEF Inv, ControlInv, LogicalInv
    <3>4. /\ pc'[Owner] = "new" /\ pc'[Worker] = pc[Worker] /\ pc'[Watcher] = "off"
          /\ (\A c \in Clients : pc'[c] = "idle") /\ \A h \in Helpers : pc'[h] = pc[h]
      BY <2>2, <3>1, ThreadFacts DEF Inv, TypeOK, PcOK, Quiet
    <3>5. ThreadsInv'
      BY <2>2, <3>1, <3>4 DEF ThreadsInv, PausePcs, ResumePcs
    <3>6. \A t \in Threads : pc'[t] # "c_restore"
      BY <2>2, <3>4, ThreadFacts
    <3>7. LogicalInv'
      BY <3>1, <3>2, <3>3, <3>4, <3>6 DEF LogicalInv, StartPcs, WaitPcs
    <3>8. QED BY <3>1, <3>2, <3>5, <3>7, QuietRefines DEF ControlInv
  <2>8. QED BY <1>2, <2>5, <2>6, <2>7
<1>3. QED BY <1>1, <1>2 DEF ResetAny

\* Ending the watcher, and the destructor.
LEMMA StopStep ==
  ASSUME Inv, StopAny
  PROVE  ControlInv' /\ Refines
<1>0. UNCHANGED <<ctx, runs>>
  BY DEF StopAny, StopWatcher, JoinWatcher, Destroy, DestroyJoin, OwnerGoto, ctxVars
<1>1. CASE StopWatcher("stop", "joinw") \/ JoinWatcher("joinw", "exit")
  <2>1. PICK v \in {"joinw", "exit"} : Quiet(Owner, v) /\ (v = "exit" => pc[Watcher] = "off")
    BY <1>1 DEF StopWatcher, JoinWatcher, OwnerGoto, Goto, Quiet
  <2>2. pc[Owner] \in {"stop", "joinw"}
    BY <1>1 DEF StopWatcher, JoinWatcher, OwnerGoto, Goto
  <2>3. ctx /\ pc[Worker] = "done" /\ Logical \in Terminal
    BY <2>2 DEF Inv, ControlInv, LogicalInv, WaitPcs
  <2>4. QED BY <1>0, <2>1, <2>2, <2>3, QuietOwner, QuietRefines DEF OwnerPcs, StartPcs, ResetPcs,
     CancelPcs, DestroyPcs, WaitPcs, Terminal
<1>2. CASE Destroy
  <2>1. Quiet(Owner, "fire") /\ (\A c \in Clients : pc[c] = "idle") /\ pc[Owner] # "clear"
    BY <1>2 DEF Destroy, OwnerGoto, Goto, Quiet
  <2>2. ctx => Logical # "Idle"
    BY <2>1 DEF Inv, ControlInv, LogicalInv
  <2>3. QED BY <1>0, <2>1, <2>2, QuietOwner, QuietRefines DEF OwnerPcs, StartPcs, ResetPcs, CancelPcs,
     DestroyPcs, WaitPcs
<1>3. CASE DestroyJoin \/ StopWatcher("d_stop", "d_joinw") \/ JoinWatcher("d_joinw", "gone")
  <2>1. PICK v \in {"d_stop", "d_joinw", "gone"} : Quiet(Owner, v) /\ (v = "gone" => pc[Watcher] = "off")
    BY <1>3 DEF DestroyJoin, StopWatcher, JoinWatcher, OwnerGoto, Goto, Quiet
  <2>2. pc[Owner] \in {"d_join", "d_stop", "d_joinw"} /\ (pc[Owner] = "d_join" => pc[Worker] \in {"off", "done"})
    BY <1>3 DEF DestroyJoin, StopWatcher, JoinWatcher, OwnerGoto, Goto
  <2>3. /\ pc[Worker] \in {"off", "done"} /\ (ctx => Logical # "Idle")
        /\ \A c \in Clients : pc[c] = "idle"
    BY <2>2, OwnerAlone DEF Inv, ControlInv, LogicalInv, DestroyPcs, CancelPcs
  <2>4. QED BY <1>0, <2>1, <2>3, QuietOwner, QuietRefines DEF OwnerPcs, StartPcs, ResetPcs, CancelPcs,
     DestroyPcs, WaitPcs
<1>4. QED BY <1>1, <1>2, <1>3 DEF StopAny

-----------------------------------------------------------------------------
(* The Exit event.                                                         *)

\* A step that publishes nothing, starts no watcher and begins no start().
LEMMA ExitFrame ==
  ASSUME Inv, UNCHANGED exitStatus, ctx => ctx', pc[Watcher] = "off" => pc'[Watcher] = "off",
         pc'[Owner] \in StartPcs => pc[Owner] \in StartPcs
  PROVE  ExitInv'
BY DEF Inv, ExitInv

LEMMA ExitStep == ASSUME Inv, [Next]_vars PROVE ExitInv'
<1>1. ASSUME NEW t \in Threads, t \notin Searchers, CancelExchange(t) \/ CancelStep(t) PROVE ExitInv'
  <2>1. UNCHANGED <<exitStatus, ctx>> /\ \E v \in CancelPcs \cup {AfterCancel(t)} : pc' = [pc EXCEPT ![t] = v]
    BY <1>1 DEF CancelExchange, CancelStep, CancelRestore, CancelPend, CancelPoison, Unpause, WakeWorker,
       NotifyAck, Goto, CancelPcs, exitVars, ctxVars
  <2>2. t = Watcher => pc[t] # "off"
    BY <1>1, ThreadFacts DEF CancelExchange, CancelStep, CancelRestore, CancelPend, CancelPoison, Unpause,
       WakeWorker, NotifyAck, Goto
  <2>3. QED BY <1>1, <2>1, <2>2, ThreadFacts, ExitFrame DEF StartPcs, CancelPcs, AfterCancel, Inv, TypeOK, PcOK
<1>2. ASSUME NEW c \in Clients, ClientCall(c) \/ ClientStep(c) PROVE ExitInv'
  <2>1. CASE CancelExchange(c) \/ CancelStep(c)
    BY <1>1, <2>1, ThreadFacts
  <2>2. CASE PauseCas(c) \/ ResumeSet(c) \/ SerializeBegin(c) \/ PauseStep(c) \/ ResumeStep(c) \/ SerializeStep(c)
    <3>1. UNCHANGED <<exitStatus, ctx>> /\ \E v : pc' = [pc EXCEPT ![c] = v]
      BY <2>2 DEF PauseCas, ResumeSet, SerializeBegin, PauseStep, ResumeStep, SerializeStep, NotifyAck,
         PauseFlag, AckTest, AckEnrol, PauseLoad, PauseFlip, Unpause, WakeWorker, SerializeLoad,
         SerializeSnap, Goto, exitVars, ctxVars
    <3>2. QED BY <3>1, ThreadFacts, ExitFrame DEF Inv, TypeOK, PcOK
  <2>3. QED BY <1>2, <2>1, <2>2 DEF ClientCall, ClientStep
<1>3. ASSUME NEW s \in Searchers, SearchStep(s) PROVE ExitInv'
  <2>1. UNCHANGED <<exitStatus, ctx>> /\ \E v : pc' = [pc EXCEPT ![s] = v]
    BY <1>3 DEF SearchStep, SearchOn, SearchPoll, SearchTest, SearchBlock, SearchWake, SearchCheck, SearchAck,
       SearchGoto, Goto, exitVars, ctxVars
  <2>2. pc'[Owner] = pc[Owner] /\ pc'[Watcher] = pc[Watcher]
    BY <2>1, ThreadFacts DEF Inv, TypeOK, PcOK
  <2>3. QED BY <2>1, <2>2, ExitFrame
<1>11. CASE WorkerStep
  <2>1. CASE SearchStep(Worker)
    BY <1>3, <2>1, ThreadFacts
  <2>2. CASE Fork
    <3>1. UNCHANGED <<exitStatus, ctx>> /\ pc'[Owner] = pc[Owner] /\ pc'[Watcher] = pc[Watcher]
      BY <2>2, ThreadFacts DEF Fork, exitVars, ctxVars
    <3>2. QED BY <3>1, ExitFrame
  <2>3. CASE WorkerStep /\ ~SearchStep(Worker) /\ ~Fork
    <3>1. UNCHANGED <<exitStatus, ctx>> /\ \E v : pc' = [pc EXCEPT ![Worker] = v]
      BY <2>3 DEF WorkerStep, Join, SearchGoto, WorkerVerdict, NotifyAck, Goto, exitVars, ctxVars
    <3>2. QED BY <3>1, ThreadFacts, ExitFrame DEF Inv, TypeOK, PcOK
  <2>4. QED BY <1>11, <2>1, <2>2, <2>3
<1>4. CASE WatcherStep
  <2>1. CASE CancelExchange(Watcher) \/ CancelStep(Watcher)
    BY <1>1, <2>1, ThreadFacts
  <2>2. CASE WatcherStop \/ WatcherExpire
    BY <2>2, ThreadFacts, ExitFrame DEF WatcherStop, WatcherExpire, Goto, exitVars, ctxVars, Inv, TypeOK, PcOK
  <2>3. QED BY <1>4, <2>1, <2>2 DEF WatcherStep
<1>5. CASE StartAny
  <2>1. CASE StartSet
    <3>1. ~ctx /\ exitStatus = NoExit /\ UNCHANGED exitStatus
      BY <2>1 DEF StartSet, Goto, Inv, ControlInv, LogicalInv, ExitInv, exitVars
    <3>2. QED BY <3>1 DEF ExitInv
  <2>2. CASE StartCtx \/ StartPending \/ StartWatch \/ StartSpawn
    <3>1. exitStatus = NoExit /\ UNCHANGED exitStatus
      BY <2>2 DEF StartCtx, StartPending, StartWatch, StartSpawn, Goto, StartPcs, Inv, ExitInv, exitVars
    <3>2. QED BY <3>1 DEF ExitInv
  <2>3. QED BY <1>5, <2>1, <2>2 DEF StartAny
<1>6. CASE WaitAny
  <2>1. CASE WaitForTerminal \/ WaitJoin \/ WaitPayload \/ WaitReturn \/ WaitAgain
    BY <2>1, ThreadFacts, ExitFrame DEF WaitForTerminal, WaitJoin, WaitPayload, WaitReturn, WaitAgain,
       OwnerGoto, Goto, StartPcs, exitVars, ctxVars, Inv, TypeOK, PcOK
  <2>2. CASE WaitExit
    <3>1. pc[Owner] = "exit" /\ pc[Watcher] = "off" /\ ctx
      BY <2>2, OwnerAlone DEF WaitExit, Goto, Inv, ControlInv, LogicalInv, WaitPcs
    <3>2. UNCHANGED ctx /\ pc' = [pc EXCEPT ![Owner] = "payload"]
      BY <2>2 DEF WaitExit, Goto, ctxVars
    <3>3. QED BY <3>1, <3>2, ThreadFacts DEF ExitInv, StartPcs, Inv, TypeOK, PcOK
  <2>3. QED BY <1>6, <2>1, <2>2 DEF WaitAny
<1>7. CASE ResetAny
  <2>1. CASE ResetBegin \/ ResetLoad \/ ResetStore
    BY <2>1, ThreadFacts, ExitFrame DEF ResetBegin, ResetLoad, ResetStore, OwnerGoto, Goto, StartPcs,
       exitVars, ctxVars, Inv, TypeOK, PcOK
  <2>2. CASE ResetClear
    BY <2>2 DEF ResetClear, ExitInv
  <2>3. QED BY <1>7, <2>1, <2>2 DEF ResetAny
<1>8. CASE StopAny
  BY <1>8, ThreadFacts, ExitFrame DEF StopAny, StopWatcher, JoinWatcher, Destroy, DestroyJoin, OwnerGoto,
     Goto, StartPcs, exitVars, ctxVars, Inv, TypeOK, PcOK
<1>9. CASE SpuriousWake \/ UNCHANGED vars
  BY <1>9, ExitFrame DEF SpuriousWake, vars, exitVars, ctxVars
<1>10. QED BY <1>1, <1>2, <1>3, <1>4, <1>5, <1>6, <1>7, <1>8, <1>9, <1>11, OwnerActions, ThreadFacts DEF Next

-----------------------------------------------------------------------------
(* The theorems.                                                           *)

LEMMA InitInv == Init => Inv /\ Life!Init
<1> SUFFICES ASSUME Init PROVE Inv /\ Life!Init
  OBVIOUS
<1>1. TypeOK
  BY InitType
<1>2. /\ pc[Owner] = "new" /\ pc[Worker] = "off" /\ pc[Watcher] = "off"
      /\ (\A c \in Clients : pc[c] = "idle") /\ \A h \in Helpers : pc[h] = "off"
      /\ state = "Idle" /\ ~ctx /\ exitStatus = NoExit /\ runs = 0
  BY ThreadFacts DEF Init
<1>3. \A t \in Threads : pc[t] # "c_restore"
  BY <1>2, ThreadFacts
<1>4. Logical = "Idle"
  BY <1>2, <1>3, LogicalPlain DEF Logical
<1>5. ControlInv
  BY <1>2, <1>3, <1>4 DEF ControlInv, RestoreIsExclusive, ThreadsInv, LogicalInv, PausePcs, ResumePcs,
     ResetPcs, CancelPcs, DestroyPcs, StartPcs, WaitPcs
<1>6. ExitInv
  BY <1>2 DEF ExitInv, StartPcs
<1>7. Life!Init
  BY <1>2, <1>4 DEF Life!Init, Phase, PhaseOf, Active
<1>8. QED BY <1>1, <1>5, <1>6, <1>7 DEF Inv

LEMMA StepInv == ASSUME Inv, ResetAlone, [Next]_vars PROVE Inv' /\ Refines
<1>1. TypeOK' /\ ExitInv'
  BY NextType, ExitStep DEF Inv
<1>2. CASE \E c \in Clients : ClientCall(c) \/ ClientStep(c)
  BY <1>1, <1>2, ClientCallInv, ClientStepInv DEF Inv
<1>3. CASE OwnerStep \/ OwnerChoice
  <2>1. CASE StartAny
    BY <1>1, <2>1, StartSetStep, StartRestStep DEF StartAny, Inv
  <2>2. CASE WaitAny \/ ResetAny \/ StopAny
    BY <1>1, <2>2, WaitStep, ResetStep, StopStep DEF Inv
  <2>3. CASE CancelExchange(Owner) \/ CancelStep(Owner)
    BY <1>1, <2>3, ExchangeStep, CancelStepInv, ThreadFacts DEF Inv
  <2>4. QED BY <1>3, <2>1, <2>2, <2>3, OwnerActions
<1>4. CASE WorkerStep \/ \E h \in Helpers : SearchStep(h)
  BY <1>1, <1>4, WorkerInv, SearchInv, ThreadFacts DEF Inv
<1>5. CASE WatcherStep
  BY <1>1, <1>5, WatcherInv DEF Inv
<1>6. CASE SpuriousWake \/ UNCHANGED vars
  BY <1>1, <1>6, StillStep DEF Inv, SpuriousWake, vars, ctxVars
<1>7. QED BY <1>2, <1>3, <1>4, <1>5, <1>6 DEF Next

LEMMA InvAlways == ASSUME ResetAlone PROVE Spec => []Inv
BY InitInv, StepInv, PTL DEF Spec

\* At most one cancel() ever has a state to put back, and the state reads
\* Cancelled until it does: the store that undoes the exchange overwrites
\* no transition of another thread.
THEOREM RestoreExclusive == ASSUME ResetAlone PROVE Spec => []RestoreIsExclusive
<1>1. Inv => RestoreIsExclusive
  BY DEF Inv, ControlInv
<1>2. QED BY <1>1, InvAlways, PTL

\* No worker and no watcher of a run outlives the wait() that reports it,
\* the reset() that clears it or the destructor.
THEOREM RunClosed == ASSUME ResetAlone PROVE Spec => []RunIsClosed
<1>1. Inv => RunIsClosed
  BY DEF Inv, TypeOK, PcOK, ControlInv, ThreadsInv, RunIsClosed, ResetPcs, CancelPcs
<1>2. QED BY <1>1, InvAlways, PTL

\* What the state, the exit status and the threads of a run say of one another,
\* between any two steps: the strengthening the theorems around this one use.
THEOREM Inductive == ASSUME ResetAlone PROVE Spec => []IndInv
<1>1. Inv => IndInv
  BY DEF Inv, IndInv
<1>2. QED BY <1>1, InvAlways, PTL

\* Whatever the clients call and whenever the deadline passes, a run of
\* AlgorithmExecutor starts once, gets one verdict and keeps it until
\* reset().
THEOREM Implementation == ASSUME ResetAlone PROVE Spec => ImplementsLifecycle
<1>1. Init => Life!Init
  BY InitInv
<1>2. Inv /\ [Next]_vars => [Life!Next]_<<Phase, runs>>
  BY StepInv DEF Refines
<1>3. QED BY <1>1, <1>2, InvAlways, PTL DEF Spec, ImplementsLifecycle, Life!Spec

-----------------------------------------------------------------------------
(* A pause that nobody takes back: in the quiet scene, with one searching  *)
(* thread at a time, whoever reads Paused or takes a checkpoint finds the  *)
(* algorithm inside wait_if_paused().                                      *)

\* A searcher between the acknowledgement of a pause and its withdrawal.
HeldPcs == {"test", "block", "asleep", "unack"}

\* Where the owner is after cancel() of the destructor took the state.
EndPcs == (CancelPcs \ {"fire"}) \cup DestroyPcs

\* Clients pause and serialize only, nothing times out, nothing is reset.
CalmPcs ==
  /\ \A c \in Clients : pc[c] \in {"idle"} \cup PausePcs \cup SerializePcs
  /\ pc[Watcher] \in {"off", "armed"} /\ pc[Owner] \notin ResetPcs
  /\ saved[Owner] \in {"Idle", "Completed", "Failed"}

\* Before the context there is no call; while the owner cancels and destroys
\* there is none any more, and the state reads neither Pausing nor Paused.
CalmOwner ==
  /\ pc[Owner] = "new" => state = "Idle"
  /\ pc[Owner] \in {"new", "ctx"} => ~ctx
  /\ ~ctx => state \notin {"Pausing", "Paused"} /\ \A c \in Clients : pc[c] = "idle"
  /\ pc[Owner] \in {"new"} \cup StartPcs => pc[Worker] = "off" /\ ~ctxCancelled /\ ~cancelPending
  /\ pc[Owner] \in CancelPcs \cup DestroyPcs => \A c \in Clients : pc[c] = "idle"
  /\ pc[Owner] \in EndPcs => state \notin {"Pausing", "Paused"}
  /\ ctxCancelled => pc[Owner] \in EndPcs
  /\ pc[Owner] = "c_unpause" => ctxCancelled

\* A searcher that saw the flag up still has it up, or is told to leave.
CalmSearch ==
  /\ pc[Worker] # "fork" => \A h \in Helpers : pc[h] = "off"
  /\ \A s \in Searchers : pc[s] \in {"ack", "test", "block", "asleep"} => ctxPaused \/ ctxCancelled
  /\ \A s \in Searchers : pc[s] = "unack" => ctxCancelled

\* The acknowledgement stands for one searcher that is held; the others are
\* not running.
CalmAck ==
  pausedAck => \E s \in Searchers :
    /\ pc[s] \in HeldPcs
    /\ \A u \in Searchers : u # s => pc[u] \in {"fork", "off"}

\* A client that is past its wait while the state reads Pausing or Paused has
\* been acknowledged.
CalmCalls ==
  /\ \A c \in Clients : pc[c] \in PausePcs => state \notin {"Idle", "Running"}
  /\ \A c \in Clients : pc[c] \in {"p_load", "p_flip"} => state # "Pausing" \/ pausedAck
  /\ state = "Paused" => pausedAck
  /\ \A c \in Clients : pc[c] = "s_snap" => pausedAck

CalmInv == TypeOK /\ CalmPcs /\ CalmOwner /\ CalmSearch /\ CalmAck /\ CalmCalls

CalmParts == CalmPcs /\ CalmOwner /\ CalmSearch /\ CalmAck /\ CalmCalls

LEMMA CalmSuffices ==
  ASSUME CalmInv
  PROVE  SnapshotIsQuiescent /\ PausedIsAtRest
<1>1. ASSUME pausedAck, NEW s \in Searchers
      PROVE  pc[s] # "work"
  BY <1>1 DEF CalmInv, CalmAck, HeldPcs
<1>2. SnapshotIsQuiescent
  BY <1>1 DEF CalmInv, CalmCalls, SnapshotIsQuiescent, Snapshotting
<1>3. PausedIsAtRest
  BY <1>1 DEF CalmInv, CalmCalls, PausedIsAtRest
<1>4. QED BY <1>2, <1>3

LEMMA CalmInit ==
  ASSUME Init
  PROVE  CalmInv
<1>1. TypeOK
  BY InitType
<1>2. /\ pc[Owner] = "new" /\ pc[Worker] = "off" /\ pc[Watcher] = "off"
      /\ \A c \in Clients : pc[c] = "idle"
      /\ \A s \in Searchers : pc[s] = "off"
      /\ \A h \in Helpers : pc[h] = "off"
      /\ saved[Owner] = "Idle"
  BY ThreadFacts DEF Init
<1>3. CalmPcs /\ CalmOwner /\ CalmSearch /\ CalmAck /\ CalmCalls
  BY <1>2 DEF Init, CalmPcs, CalmOwner, CalmSearch, CalmAck, CalmCalls, StartPcs,
     CancelPcs, DestroyPcs, EndPcs, ResetPcs, PausePcs
<1>4. QED BY <1>1, <1>3 DEF CalmInv

\* One thread moves, the others stay.
LEMMA OneMoves ==
  ASSUME PcOK, NEW t \in Threads, NEW to, pc' = [pc EXCEPT ![t] = to]
  PROVE  pc'[t] = to /\ \A u \in Threads : u # t => pc'[u] = pc[u]
BY DEF PcOK

\* What a client that is inside a call knows.
LEMMA CalmClient ==
  ASSUME CalmInv, NEW c \in Clients, pc[c] # "idle" \/ (ctx /\ pc[Owner] \notin CancelPcs \cup DestroyPcs)
  PROVE  ctx /\ pc[Owner] \notin CancelPcs \cup DestroyPcs /\ pc[Owner] \notin {"new", "ctx"} /\ ~ctxCancelled
BY DEF CalmInv, CalmOwner, EndPcs

\* A client moves within pause() or serialize_state().
LEMMA CalmMove ==
  ASSUME CalmInv, NEW c \in Clients, NEW to \in {"idle"} \cup PausePcs \cup SerializePcs,
         pc' = [pc EXCEPT ![c] = to],
         ctx /\ pc[Owner] \notin CancelPcs \cup DestroyPcs,
         UNCHANGED <<cancelPending, ctx, ctxCancelled, pausedAck, saved>>,
         ctxPaused => ctxPaused',
         to \in PausePcs => state' \notin {"Idle", "Running"},
         to \in {"p_load", "p_flip"} => state' # "Pausing" \/ pausedAck,
         to = "s_snap" => pausedAck,
         state' = state \/ (state' = "Paused" /\ pausedAck) \/ (state' = "Pausing" /\ state = "Running")
  PROVE  CalmParts'
<1>1. pc'[c] = to /\ \A u \in Threads : u # c => pc'[u] = pc[u]
  BY OneMoves, ThreadFacts DEF CalmInv, TypeOK
<1>2. /\ pc'[Owner] = pc[Owner] /\ pc'[Worker] = pc[Worker] /\ pc'[Watcher] = pc[Watcher]
      /\ \A s \in Searchers : pc'[s] = pc[s]
      /\ \A h \in Helpers : pc'[h] = pc[h]
      /\ \A d \in Clients : d # c => pc'[d] = pc[d]
  BY <1>1, ThreadFacts
<1>3. CalmPcs'
  BY <1>1, <1>2 DEF CalmInv, CalmPcs
<1>4. CalmOwner'
  <2>1. pc[Owner] \notin EndPcs /\ pc[Owner] \notin {"new", "ctx"}
    BY DEF EndPcs, CalmInv, CalmOwner
  <2>2. QED BY <1>2, <2>1 DEF CalmInv, CalmOwner
<1>5. CalmSearch'
  BY <1>2 DEF CalmInv, CalmSearch
<1>6. CalmAck'
  BY <1>2 DEF CalmInv, CalmAck
<1>7. CalmCalls'
  <2>1. state = "Running" => \A d \in Clients : pc[d] \notin PausePcs
    BY DEF CalmInv, CalmCalls
  <2>2. \A d \in Clients : pc'[d] \in PausePcs => state' \notin {"Idle", "Running"}
    BY <1>1, <1>2 DEF CalmInv, CalmCalls
  <2>3. \A d \in Clients : pc'[d] \in {"p_load", "p_flip"} => state' # "Pausing" \/ pausedAck
    BY <1>1, <1>2, <2>1 DEF CalmInv, CalmCalls, PausePcs
  <2>4. state' = "Paused" => pausedAck
    BY DEF CalmInv, CalmCalls
  <2>5. \A d \in Clients : pc'[d] = "s_snap" => pausedAck
    BY <1>1, <1>2 DEF CalmInv, CalmCalls
  <2>6. QED BY <2>2, <2>3, <2>4, <2>5 DEF CalmCalls
<1>8. QED BY <1>3, <1>4, <1>5, <1>6, <1>7 DEF CalmParts

LEMMA CalmPause ==
  ASSUME CalmInv, NEW c \in Clients, PauseCas(c) \/ PauseStep(c)
  PROVE  CalmParts'
<1> USE DEF PausePcs, SerializePcs
<1>1. CASE PauseCas(c)
  BY <1>1, CalmMove DEF PauseCas, MayCall, ctxVars
<1>2. CASE PauseStep(c)
  <2>1. ctx /\ pc[Owner] \notin CancelPcs \cup DestroyPcs /\ ~ctxCancelled
    BY <1>2, CalmClient DEF PauseStep, NotifyAck, PauseFlag, AckTest, AckEnrol, PauseLoad, PauseFlip, Goto
  <2>2. state \notin {"Idle", "Running"} /\ (state = "Paused" => pausedAck)
    BY <1>2 DEF CalmInv, CalmCalls, PauseStep, NotifyAck, PauseFlag, AckTest, AckEnrol, PauseLoad,
       PauseFlip, Goto
  <2>3. CASE \/ NotifyAck(c, "p_notify", "p_flag") \/ AckEnrol(c, "p_block", "p_check")
             \/ NotifyAck(c, "p_notify2", "idle")
    <3>1. PICK to \in {"p_flag", "p_check", "idle"} : pc' = [pc EXCEPT ![c] = to]
      BY <2>3 DEF NotifyAck, AckEnrol, Goto
    <3>2. UNCHANGED <<state, cancelPending, ctxVars, saved>>
      BY <2>3 DEF NotifyAck, AckEnrol
    <3>3. QED BY <2>1, <2>2, <3>1, <3>2, CalmMove DEF ctxVars
  <2>4. CASE PauseFlag(c)
    BY <2>1, <2>2, <2>4, CalmMove DEF PauseFlag, Goto
  <2>5. CASE AckTest(c, "p_check", pausedAck \/ ctxCancelled \/ state # "Pausing", "p_block", "p_load")
    <3>1. UNCHANGED <<state, cancelPending, ctxVars, saved>>
      BY <2>5 DEF AckTest
    <3>2. CASE pausedAck \/ ctxCancelled \/ state # "Pausing"
      <4>1. pc' = [pc EXCEPT ![c] = "p_load"]
        BY <2>5, <3>2 DEF AckTest, Goto
      <4>2. QED BY <2>1, <2>2, <3>1, <3>2, <4>1, CalmMove DEF ctxVars
    <3>3. CASE ~(pausedAck \/ ctxCancelled \/ state # "Pausing")
      <4>1. pc' = [pc EXCEPT ![c] = "p_block"]
        BY <2>5, <3>3 DEF AckTest, Goto
      <4>2. QED BY <2>1, <2>2, <3>1, <4>1, CalmMove DEF ctxVars
    <3>4. QED BY <3>2, <3>3
  <2>6. CASE PauseLoad(c)
    <3>1. state # "Pausing" \/ pausedAck
      BY <2>6 DEF PauseLoad, Goto, CalmInv, CalmCalls
    <3>2. QED BY <2>1, <2>2, <2>6, <3>1, CalmMove DEF PauseLoad, Goto, ctxVars
  <2>7. CASE PauseFlip(c)
    <3>1. state # "Pausing" \/ pausedAck
      BY <2>7 DEF PauseFlip, Goto, CalmInv, CalmCalls
    <3>2. CanSet("Paused") => pausedAck
      BY <2>2, <3>1 DEF CanSet, Terminal, CalmInv, TypeOK, DataOK, States
    <3>3. QED BY <2>1, <2>2, <2>7, <3>1, <3>2, CalmMove DEF PauseFlip, Goto, ctxVars
  <2>8. QED BY <1>2, <2>3, <2>4, <2>5, <2>6, <2>7 DEF PauseStep
<1>3. QED BY <1>1, <1>2

LEMMA CalmSerialize ==
  ASSUME CalmInv, NEW c \in Clients, SerializeBegin(c) \/ SerializeStep(c)
  PROVE  CalmParts'
<1> USE DEF PausePcs, SerializePcs
<1>1. state = "Paused" => pausedAck
  BY DEF CalmInv, CalmCalls
<1>2. CASE SerializeBegin(c)
  <2>1. ctx
    BY <1>2 DEF SerializeBegin, CalmInv, CalmOwner
  <2>2. QED BY <1>2, <2>1, CalmMove DEF SerializeBegin, MayCall, ctxVars
<1>3. CASE SerializeStep(c)
  <2>1. ctx /\ pc[Owner] \notin CancelPcs \cup DestroyPcs
    BY <1>3, CalmClient DEF SerializeStep, AckTest, AckEnrol, SerializeLoad, SerializeSnap, Goto
  <2>2. PICK to \in {"idle"} \cup SerializePcs :
          pc' = [pc EXCEPT ![c] = to] /\ (to = "s_snap" => state = "Paused")
    BY <1>3 DEF SerializeStep, AckTest, AckEnrol, SerializeLoad, SerializeSnap, Goto
  <2>3. UNCHANGED <<state, cancelPending, ctxVars, saved>>
    BY <1>3 DEF SerializeStep, AckTest, AckEnrol, SerializeLoad, SerializeSnap
  <2>4. QED BY <1>1, <2>1, <2>2, <2>3, CalmMove DEF ctxVars
<1>4. QED BY <1>2, <1>3

\* A searcher moves while it searches; what the clients read stays.
LEMMA CalmSearchMove ==
  ASSUME CalmInv, NEW s \in Searchers, NEW to, pc' = [pc EXCEPT ![s] = to],
         pc[s] # "off", s = Worker => pc[s] # "fork" /\ to # "fork",
         UNCHANGED <<state, cancelPending, ctx, ctxCancelled, ctxPaused, saved>>,
         to \in {"ack", "test", "block", "asleep"} => ctxPaused \/ ctxCancelled,
         to = "unack" => ctxCancelled,
         pausedAck' => to \in HeldPcs /\ (pausedAck \/ \A u \in Searchers : u # s => pc[u] \in {"fork", "off"}),
         pausedAck /\ ~pausedAck' => ctxCancelled
  PROVE  CalmParts'
<1>1. pc'[s] = to /\ \A u \in Threads : u # s => pc'[u] = pc[u]
  BY OneMoves, ThreadFacts DEF CalmInv, TypeOK
<1>2. /\ pc'[Owner] = pc[Owner] /\ pc'[Watcher] = pc[Watcher]
      /\ \A d \in Clients : pc'[d] = pc[d]
      /\ \A u \in Searchers : u # s => pc'[u] = pc[u]
      /\ \A h \in Helpers : h # s => pc'[h] = pc[h]
      /\ s # Worker => pc'[Worker] = pc[Worker]
  BY <1>1, ThreadFacts
<1>3. CalmPcs'
  BY <1>2 DEF CalmInv, CalmPcs
<1>4. CalmOwner'
  <2>1. pc[Owner] \notin {"new"} \cup StartPcs
    BY ThreadFacts DEF CalmInv, CalmOwner, CalmSearch
  <2>2. QED BY <1>2, <2>1 DEF CalmInv, CalmOwner
<1>5. CalmSearch'
  <2>1. pc'[Worker] # "fork" => \A h \in Helpers : pc'[h] = "off"
    BY <1>1, <1>2, ThreadFacts DEF CalmInv, CalmSearch
  <2>2. \A u \in Searchers : pc'[u] \in {"ack", "test", "block", "asleep"} => ctxPaused \/ ctxCancelled
    BY <1>1, <1>2 DEF CalmInv, CalmSearch
  <2>3. \A u \in Searchers : pc'[u] = "unack" => ctxCancelled
    BY <1>1, <1>2 DEF CalmInv, CalmSearch
  <2>4. QED BY <2>1, <2>2, <2>3 DEF CalmSearch
<1>6. CalmAck'
  <2> SUFFICES ASSUME pausedAck'
               PROVE  /\ pc'[s] \in HeldPcs
                      /\ \A u \in Searchers : u # s => pc'[u] \in {"fork", "off"}
    BY DEF CalmAck
  <2>1. \A u \in Searchers : u # s => pc[u] \in {"fork", "off"}
    <3>1. CASE pausedAck
      <4>1. PICK r \in Searchers : pc[r] \in HeldPcs /\ \A u \in Searchers : u # r => pc[u] \in {"fork", "off"}
        BY <3>1 DEF CalmInv, CalmAck
      <4>2. r = s
        BY <4>1, ThreadFacts DEF CalmInv, TypeOK, PcOK, HelperPcs, SearchPcs
      <4>3. QED BY <4>1, <4>2
    <3>2. QED BY <3>1
  <2>2. QED BY <1>1, <1>2, <2>1
<1>7. CalmCalls'
  <2>1. pausedAck /\ ~pausedAck' =>
          state \notin {"Pausing", "Paused"} /\ \A c \in Clients : pc[c] = "idle"
    BY DEF CalmInv, CalmOwner, EndPcs
  <2>2. QED BY <1>2, <2>1 DEF CalmInv, CalmCalls
<1>8. QED BY <1>3, <1>4, <1>5, <1>6, <1>7 DEF CalmParts

\* A searcher that runs has not been acknowledged, and no other has.
LEMMA CalmRuns ==
  ASSUME CalmInv, NEW s \in Searchers, pc[s] \notin HeldPcs \cup {"fork", "off"}
  PROVE  ~pausedAck
BY DEF CalmInv, CalmAck

LEMMA CalmSearchStep ==
  ASSUME CalmInv, NEW s \in Searchers, \A h, k \in Helpers : h = k, SearchStep(s)
  PROVE  CalmParts'
<1> USE DEF HeldPcs
<1>1. pc[s] \in SearchPcs
  BY DEF SearchStep, SearchOn, SearchPoll, SearchAck, SearchTest, SearchBlock, SearchWake, SearchCheck,
     SearchGoto, Goto, SearchPcs
<1>2. pc[s] # "off" /\ pc[s] # "fork"
  BY <1>1 DEF SearchPcs
<1>3. /\ pc[s] \in {"ack", "test", "block", "asleep"} => ctxPaused \/ ctxCancelled
      /\ pc[s] = "unack" => ctxCancelled
  BY DEF CalmInv, CalmSearch
<1>4. SearchEnd(s) \in {"finish", "off"}
  BY DEF SearchEnd
<1>5. CASE SearchOn(s) \/ SearchGoto(s, "work", SearchEnd(s)) \/ SearchPoll(s) \/ SearchCheck(s)
  <2>1. ~pausedAck
    BY <1>5, CalmRuns DEF SearchOn, SearchPoll, SearchCheck, SearchGoto, Goto
  <2>2. QED BY <1>2, <1>4, <1>5, <2>1, CalmSearchMove DEF SearchOn, SearchPoll, SearchCheck, SearchGoto,
              Goto, ctxVars
<1>6. CASE SearchAck(s, "ack", "test", TRUE)
  <2>1. \A u \in Searchers : u # s => pc[u] \in {"fork", "off"}
    <3>1. CASE s = Worker
      BY <1>2, <3>1, ThreadFacts DEF CalmInv, CalmSearch
    <3>2. CASE s \in Helpers
      BY <1>2, <3>2, ThreadFacts DEF CalmInv, CalmSearch
    <3>3. QED BY <3>1, <3>2, ThreadFacts
  <2>2. QED BY <1>2, <1>3, <1>6, <2>1, CalmSearchMove DEF SearchAck, Goto
<1>7. CASE SearchAck(s, "unack", "check", FALSE)
  BY <1>2, <1>3, <1>7, CalmSearchMove DEF SearchAck, Goto
<1>8. CASE SearchTest(s) \/ SearchBlock(s) \/ SearchWake(s)
  BY <1>2, <1>3, <1>8, CalmSearchMove DEF SearchTest, SearchBlock, SearchWake, SearchGoto, Goto, ctxVars
<1>9. QED BY <1>5, <1>6, <1>7, <1>8 DEF SearchStep

\* The worker hands out a stretch, joins its helpers, or reports: it runs, so
\* nothing is acknowledged.
LEMMA CalmWorker ==
  ASSUME CalmInv, WorkerStep, ~SearchStep(Worker)
  PROVE  CalmParts'
<1>1. CASE Fork
  <2>1. /\ pc'[Worker] = "fork" /\ pc'[Owner] = pc[Owner] /\ pc'[Watcher] = pc[Watcher]
        /\ \A h \in Helpers : pc'[h] = "poll"
        /\ \A c \in Clients : pc'[c] = pc[c]
    BY <1>1, ThreadFacts DEF Fork
  <2>2. /\ UNCHANGED <<state, cancelPending, ctx, ctxCancelled, ctxPaused, pausedAck, saved>>
        /\ pc[Worker] = "work"
    BY <1>1 DEF Fork, ctxVars
  <2>3. ~pausedAck
    BY <2>2, CalmRuns, ThreadFacts DEF HeldPcs
  <2>4. CalmPcs' /\ CalmOwner'
    BY <2>1, <2>2 DEF CalmInv, CalmPcs, CalmOwner
  <2>5. CalmSearch' /\ CalmAck' /\ CalmCalls'
    BY <2>1, <2>2, <2>3, ThreadFacts DEF CalmInv, CalmSearch, CalmAck, CalmCalls
  <2>6. QED BY <2>4, <2>5 DEF CalmParts
<1>2. CASE ~Fork
  <2>1. PICK to \in {"check", "fail", "notify", "done"} :
          /\ pc' = [pc EXCEPT ![Worker] = to]
          /\ pc[Worker] \in {"fork", "work", "finish", "fail", "notify"}
          /\ pc[Worker] = "fork" => \A h \in Helpers : pc[h] = "off"
          /\ state' \in {state, "Completed", "Failed"}
          /\ UNCHANGED <<cancelPending, ctx, ctxCancelled, ctxPaused, pausedAck, saved>>
    BY <1>2 DEF WorkerStep, Join, SearchGoto, WorkerVerdict, NotifyAck, Goto, ctxVars
  <2>2. /\ pc'[Worker] = to /\ pc'[Owner] = pc[Owner] /\ pc'[Watcher] = pc[Watcher]
        /\ \A h \in Helpers : pc'[h] = pc[h]
        /\ \A c \in Clients : pc'[c] = pc[c]
    BY <2>1, OneMoves, ThreadFacts DEF CalmInv, TypeOK
  <2>3. \A h \in Helpers : pc[h] = "off"
    BY <2>1 DEF CalmInv, CalmSearch
  <2>4. ~pausedAck
    BY <2>1, <2>3, ThreadFacts DEF CalmInv, CalmAck, HeldPcs
  <2>5. CalmPcs'
    BY <2>1, <2>2 DEF CalmInv, CalmPcs
  <2>6. CalmOwner'
    <3>1. pc[Owner] \notin {"new"} \cup StartPcs
      BY <2>1 DEF CalmInv, CalmOwner
    <3>2. QED BY <2>1, <2>2, <3>1 DEF CalmInv, CalmOwner
  <2>7. CalmSearch' /\ CalmAck'
    BY <2>1, <2>2, <2>3, <2>4, ThreadFacts DEF CalmSearch, CalmAck
  <2>8. CalmCalls'
    BY <2>1, <2>2, <2>4 DEF CalmInv, CalmCalls
  <2>9. QED BY <2>5, <2>6, <2>7, <2>8 DEF CalmParts
<1>3. QED BY <1>1, <1>2

\* The owner moves and neither the searchers nor the clients do.
LEMMA CalmOwnerMove ==
  ASSUME CalmInv, NEW to, pc' = [pc EXCEPT ![Owner] = to], to \notin ResetPcs,
         pausedAck' = pausedAck, ctxPaused => ctxPaused' \/ ctxCancelled',
         ctxCancelled => ctxCancelled',
         state' = "Paused" => pausedAck, saved'[Owner] \in {"Idle", "Completed", "Failed"},
         \A c \in Clients : pc[c] \in PausePcs => state' = state,
         CalmOwner'
  PROVE  CalmParts'
<1>1. /\ pc'[Owner] = to /\ pc'[Worker] = pc[Worker] /\ pc'[Watcher] = pc[Watcher]
      /\ \A s \in Searchers : pc'[s] = pc[s]
      /\ \A h \in Helpers : pc'[h] = pc[h]
      /\ \A c \in Clients : pc'[c] = pc[c]
  BY OneMoves, ThreadFacts DEF CalmInv, TypeOK
<1>2. CalmPcs'
  BY <1>1 DEF CalmInv, CalmPcs
<1>3. CalmSearch' /\ CalmAck'
  BY <1>1 DEF CalmInv, CalmSearch, CalmAck
<1>4. CalmCalls'
  BY <1>1 DEF CalmInv, CalmCalls, PausePcs
<1>5. QED BY <1>2, <1>3, <1>4 DEF CalmParts

LEMMA CalmStart ==
  ASSUME CalmInv, StartAny
  PROVE  CalmParts'
<1> USE DEF StartPcs, WaitPcs, CancelPcs, DestroyPcs, EndPcs, ResetPcs
<1>1. /\ pc[Owner] \in {"new"} \cup StartPcs
      /\ \A s \in Searchers : pc[s] = "off"
      /\ pc[Worker] = "off" /\ ~ctxCancelled /\ ~cancelPending /\ ~pausedAck
  <2>1. pc[Owner] \in {"new"} \cup StartPcs
    BY DEF StartAny, StartSet, StartCtx, StartPending, StartWatch, StartSpawn, Goto
  <2>2. pc[Worker] = "off" /\ ~ctxCancelled /\ ~cancelPending
    BY <2>1 DEF CalmInv, CalmOwner
  <2>3. \A s \in Searchers : pc[s] = "off"
    BY <2>2, ThreadFacts DEF CalmInv, CalmSearch
  <2>4. QED BY <2>1, <2>2, <2>3 DEF CalmInv, CalmAck, HeldPcs
<1>2. CASE StartSet \/ StartPending
  <2>1. PICK to \in {"ctx", "watch"} :
          /\ pc' = [pc EXCEPT ![Owner] = to] /\ (to = "ctx" => pc[Owner] = "new" /\ state' = "Running")
          /\ to = "watch" => state' = state /\ pc[Owner] = "pending"
          /\ UNCHANGED <<ctx, ctxPaused, pausedAck, saved>> /\ ~cancelPending' /\ ~ctxCancelled'
    <3>1. CASE StartSet
      <4>1. pc[Owner] = "new" /\ state = "Idle"
        BY <3>1 DEF StartSet, Goto, CalmInv, CalmOwner
      <4>2. QED BY <1>1, <3>1, <4>1 DEF StartSet, Goto, CanSet, Terminal, ctxVars
    <3>2. CASE StartPending
      BY <1>1, <3>2 DEF StartPending, Goto
    <3>3. QED BY <1>2, <3>1, <3>2
  <2>2. /\ pc'[Owner] = to /\ pc'[Worker] = pc[Worker] /\ \A c \in Clients : pc'[c] = pc[c]
    BY <2>1, OneMoves, ThreadFacts DEF CalmInv, TypeOK
  <2>3. CalmOwner'
    BY <1>1, <2>1, <2>2 DEF CalmInv, CalmOwner
  <2>4. to = "ctx" => \A c \in Clients : pc[c] = "idle"
    BY <2>1 DEF CalmInv, CalmOwner
  <2>5. QED BY <1>1, <2>1, <2>3, <2>4, CalmOwnerMove DEF CalmInv, CalmPcs, CalmCalls, PausePcs
<1>3. CASE StartCtx \/ StartWatch \/ StartSpawn
  <2>1. PICK to \in {"pending", "spawn", "join"}, at \in {"off", "work"} :
          /\ pc'[Owner] = to /\ pc'[Worker] = at /\ (at = "work" => to = "join")
          /\ pc'[Watcher] \in {pc[Watcher], "armed"}
          /\ \A h \in Helpers : pc'[h] = pc[h]
          /\ \A c \in Clients : pc'[c] = pc[c]
    BY <1>1, <1>3, ThreadFacts DEF StartCtx, StartWatch, StartSpawn, Goto, CalmInv, TypeOK, PcOK
  <2>2. /\ UNCHANGED <<state, cancelPending, saved>> /\ ~ctxCancelled' /\ ~pausedAck'
        /\ ctx => ctx'
    BY <1>1, <1>3 DEF StartCtx, StartWatch, StartSpawn, ctxVars
  <2>3. CalmPcs'
    BY <2>1, <2>2 DEF CalmInv, CalmPcs
  <2>4. CalmOwner'
    BY <1>1, <2>1, <2>2 DEF CalmInv, CalmOwner
  <2>5. CalmSearch' /\ CalmAck'
    BY <1>1, <2>1, <2>2, ThreadFacts DEF CalmInv, CalmSearch, CalmAck
  <2>6. CalmCalls'
    BY <1>1, <2>1, <2>2 DEF CalmInv, CalmCalls
  <2>7. QED BY <2>3, <2>4, <2>5, <2>6 DEF CalmParts
<1>4. QED BY <1>2, <1>3 DEF StartAny

LEMMA CalmFinish ==
  ASSUME CalmInv, WaitAny \/ StopAny
  PROVE  CalmParts'
<1> USE DEF StartPcs, WaitPcs, CancelPcs, DestroyPcs, EndPcs, ResetPcs
<1>1. CASE WaitForTerminal
  BY <1>1 DEF WaitForTerminal, CalmInv, CalmParts, CalmPcs, CalmOwner, CalmSearch, CalmAck, CalmCalls, ctxVars
<1>2. CASE ~WaitForTerminal
  <2>1. PICK to \in WaitPcs \cup DestroyPcs \cup {"waited", "fire"} :
          /\ pc' = [pc EXCEPT ![Owner] = to]
          /\ to \in DestroyPcs => pc[Owner] \in DestroyPcs
          /\ to \notin DestroyPcs => pc[Owner] \notin EndPcs
          /\ to = "fire" => \A c \in Clients : pc[c] = "idle"
    BY <1>2 DEF WaitAny, WaitJoin, WaitExit, WaitPayload, WaitReturn, WaitAgain, StopAny, StopWatcher,
       JoinWatcher, Destroy, DestroyJoin, OwnerGoto, Goto
  <2>2. UNCHANGED <<state, cancelPending, ctx, ctxCancelled, ctxPaused, pausedAck, saved>>
    BY <1>2 DEF WaitAny, WaitJoin, WaitExit, WaitPayload, WaitReturn, WaitAgain, StopAny, StopWatcher,
       JoinWatcher, Destroy, DestroyJoin, OwnerGoto, ctxVars
  <2>3. /\ pc'[Owner] = to /\ pc'[Worker] = pc[Worker] /\ \A c \in Clients : pc'[c] = pc[c]
    BY <2>1, OneMoves, ThreadFacts DEF CalmInv, TypeOK
  <2>4. CalmOwner'
    BY <2>1, <2>2, <2>3 DEF CalmInv, CalmOwner
  <2>5. QED BY <2>1, <2>2, <2>4, CalmOwnerMove DEF CalmInv, CalmPcs, CalmCalls
<1>3. QED BY <1>1, <1>2

\* The destructor's cancel(): no call is under way, and the verdict or
\* Cancelled takes the place of Pausing and Paused.
LEMMA CalmCancel ==
  ASSUME CalmInv, CancelExchange(Owner) \/ CancelStep(Owner)
  PROVE  CalmParts'
<1> USE DEF StartPcs, WaitPcs, CancelPcs, DestroyPcs, EndPcs, ResetPcs
<1>1. Owner \notin Clients /\ pc[Owner] \in CancelPcs
  BY ThreadFacts DEF CancelExchange, CancelStep, CancelRestore, CancelPend, CancelPoison, Unpause,
     WakeWorker, NotifyAck, Goto
<1>2. (\A c \in Clients : pc[c] = "idle") /\ saved[Owner] \in {"Idle", "Completed", "Failed"}
  BY <1>1 DEF CalmInv, CalmOwner, CalmPcs
<1>3. PICK to \in EndPcs :
        /\ pc' = [pc EXCEPT ![Owner] = to]
        /\ state' \notin {"Pausing", "Paused"}
        /\ to = "c_unpause" => ctxCancelled'
  <2>1. CASE CancelExchange(Owner)
    BY <2>1 DEF CancelExchange
  <2>2. CASE CancelStep(Owner)
    <3>1. pc[Owner] # "fire"
      BY <2>2 DEF CancelStep, CancelRestore, CancelPend, CancelPoison, Unpause, WakeWorker, NotifyAck, Goto
    <3>2. state \notin {"Pausing", "Paused"}
      BY <1>1, <3>1 DEF CalmInv, CalmOwner
    <3>3. AfterCancel(Owner) = "d_join"
      BY DEF AfterCancel
    <3>4. QED BY <1>2, <2>2, <3>2, <3>3 DEF CancelStep, CancelRestore, CancelPend, CancelPoison, Unpause,
                WakeWorker, NotifyAck, Goto
  <2>3. QED BY <2>1, <2>2
<1>4. /\ pausedAck' = pausedAck /\ ctx' = ctx /\ (ctxCancelled => ctxCancelled')
      /\ ctxPaused => ctxPaused' \/ ctxCancelled'
  BY DEF CancelExchange, CancelStep, CancelRestore, CancelPend, CancelPoison, Unpause,
     WakeWorker, NotifyAck, Goto, ctxVars, CalmInv, CalmOwner
<1>5. saved'[Owner] \in {"Idle", "Completed", "Failed"}
  BY <1>2, ThreadFacts DEF CancelExchange, CancelStep, CancelRestore, CancelPend, CancelPoison, Unpause,
     WakeWorker, NotifyAck, CalmInv, TypeOK, DataOK
<1>6. /\ pc'[Owner] = to /\ \A c \in Clients : pc'[c] = pc[c]
  BY <1>3, OneMoves, ThreadFacts DEF CalmInv, TypeOK
<1>7. CalmOwner'
  BY <1>2, <1>3, <1>4, <1>6 DEF CalmInv, CalmOwner
<1>8. QED BY <1>2, <1>3, <1>4, <1>5, <1>7, CalmOwnerMove DEF PausePcs

\* Every step that the quiet scene allows.
LEMMA CalmKeeps ==
  ASSUME \A h, k \in Helpers : h = k, CalmInv, [Next]_vars,
         \A c \in Clients : MakesOnly(c, {"pause", "serialize"}),
         pc'[Watcher] # "fire", pc'[Owner] # "reset"
  PROVE  CalmInv'
<1>1. TypeOK'
  BY NextType DEF CalmInv
<1>2. CASE \E c \in Clients : ClientCall(c) \/ ClientStep(c)
  <2>1. PICK c \in Clients : ClientCall(c) \/ ClientStep(c)
    BY <1>2
  <2>2. pc[c] \in {"idle"} \cup PausePcs \cup SerializePcs
    BY DEF CalmInv, CalmPcs
  <2>3. ~CancelExchange(c) /\ ~ResumeSet(c)
    <3>1. pc[c] # "fire"
      BY <2>2 DEF PausePcs, SerializePcs
    <3>2. ASSUME CancelExchange(c) \/ ResumeSet(c)
          PROVE  pc[c] = "idle" /\ pc'[c] \in {"c_restore", "c_poison", "c_notify", "r_notify"}
      BY <3>1, <3>2, ThreadFacts DEF CancelExchange, ResumeSet, MayCall, CalmInv, TypeOK, PcOK
    <3>3. QED BY <3>2 DEF MakesOnly
  <2>4. ~CancelStep(c) /\ ~ResumeStep(c)
    BY <2>2 DEF PausePcs, SerializePcs, CancelStep, CancelRestore, CancelPend, CancelPoison, Unpause,
       WakeWorker, NotifyAck, ResumeStep, Goto
  <2>5. QED BY <1>1, <2>1, <2>3, <2>4, CalmPause, CalmSerialize DEF ClientCall, ClientStep, CalmInv, CalmParts
<1>3. CASE OwnerStep \/ OwnerChoice
  <2>1. ~ResetAny
    <3>1. ASSUME ResetAny
          PROVE  pc'[Owner] = "reset" \/ pc[Owner] \in ResetPcs
      BY <3>1, ThreadFacts DEF ResetAny, ResetBegin, ResetLoad, ResetStore, ResetClear, OwnerGoto, Goto,
         ResetPcs, CalmInv, TypeOK, PcOK
    <3>2. QED BY <3>1 DEF CalmInv, CalmPcs
  <2>2. QED BY <1>1, <1>3, <2>1, OwnerActions, CalmStart, CalmFinish, CalmCancel DEF CalmInv, CalmParts
<1>4. CASE WorkerStep \/ \E h \in Helpers : SearchStep(h)
  <2>1. WorkerStep \/ \E s \in Searchers : SearchStep(s)
    BY <1>4, ThreadFacts
  <2>2. QED BY <1>1, <2>1, CalmWorker, CalmSearchStep, ThreadFacts DEF CalmInv, CalmParts
<1>5. CASE WatcherStep
  <2>1. pc[Watcher] \in {"off", "armed"}
    BY DEF CalmInv, CalmPcs
  <2>2. ~WatcherExpire
    <3>1. WatcherExpire => pc'[Watcher] = "fire"
      BY ThreadFacts DEF WatcherExpire, Goto, CalmInv, TypeOK, PcOK
    <3>2. QED BY <3>1
  <2>3. WatcherStop
    BY <1>5, <2>1, <2>2, ThreadFacts DEF WatcherStep, CancelExchange, CancelStep, CancelRestore, CancelPend,
       CancelPoison, Unpause, WakeWorker, NotifyAck, Goto
  <2>4. /\ pc'[Watcher] = "off" /\ pc'[Owner] = pc[Owner] /\ pc'[Worker] = pc[Worker]
        /\ \A s \in Searchers : pc'[s] = pc[s]
        /\ \A h \in Helpers : pc'[h] = pc[h]
        /\ \A c \in Clients : pc'[c] = pc[c]
    BY <2>3, OneMoves, ThreadFacts DEF WatcherStop, Goto, CalmInv, TypeOK
  <2>5. CalmPcs' /\ CalmOwner'
    BY <2>3, <2>4 DEF WatcherStop, CalmInv, CalmPcs, CalmOwner, ctxVars
  <2>6. CalmSearch' /\ CalmAck' /\ CalmCalls'
    BY <2>3, <2>4 DEF WatcherStop, CalmInv, CalmSearch, CalmAck, CalmCalls, ctxVars
  <2>7. QED BY <1>1, <2>5, <2>6 DEF CalmInv
<1>6. CASE SpuriousWake \/ UNCHANGED vars
  BY <1>1, <1>6 DEF SpuriousWake, vars, ctxVars, CalmInv, CalmPcs, CalmOwner, CalmSearch, CalmAck, CalmCalls
<1>7. QED BY <1>2, <1>3, <1>4, <1>5, <1>6 DEF Next

\* ExecutionContext::wait_if_paused() and pause(): a search on one thread at a
\* time that nobody resumes, cancels or times out is at rest whenever its state
\* reads Paused and no call is under way, and whenever a checkpoint is read.
THEOREM QuietPause ==
  ASSUME \A h, k \in Helpers : h = k
  PROVE  ControlSpec => []QuietMeansRest
<1> DEFINE Calm == scene = "quiet" => CalmInv
<1>1. ControlInit => Calm
  BY CalmInit DEF ControlInit
<1>2. Calm /\ [ControlNext]_<<vars, scene>> => Calm'
  <2> SUFFICES ASSUME Calm, [ControlNext]_<<vars, scene>>, scene' = "quiet"
               PROVE  CalmInv'
    OBVIOUS
  <2>1. CASE ControlNext
    <3>1. CalmInv /\ Next /\ scene = "quiet" /\ Kept
      BY <2>1 DEF ControlNext
    <3>2. /\ \A c \in Clients : MakesOnly(c, {"pause", "serialize"})
          /\ pc'[Watcher] # "fire" /\ pc'[Owner] # "reset"
      BY <3>1 DEF Kept
    <3>3. QED BY <3>1, <3>2, CalmKeeps
  <2>2. CASE UNCHANGED <<vars, scene>>
    BY <2>2, NextType DEF vars, ctxVars, CalmInv, CalmPcs, CalmOwner, CalmSearch, CalmAck, CalmCalls
  <2>3. QED BY <2>1, <2>2
<1>3. Calm => QuietMeansRest
  BY CalmSuffices DEF QuietMeansRest
<1>4. QED BY <1>1, <1>2, <1>3, PTL DEF ControlSpec
=============================================================================
