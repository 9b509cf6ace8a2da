--------------------------- MODULE WebSolveProofs ---------------------------
(***************************************************************************)
(* Theorems about WebSolve, for any sets of tasks, callers and streams,    *)
(* with or without a hub, and whatever throws: the slot is exclusive, a    *)
(* task is reaped only when its worker is done, the history of a task ends *)
(* with the state its clients see, a verdict stands, and every variable    *)
(* has its type. For a service with one task: its Exit event is dispatched *)
(* before its observer leaves, and its streams are told that it completed. *)
(***************************************************************************)
EXTENDS WebSolve, SequenceTheorems, TLAPS

-----------------------------------------------------------------------------
(* The invariant.                                                          *)

\* What the theorems are about; nothing else enters the proofs.
core == <<history, table, nextId, tstate, payload, finished, wpc, cpc, carg>>

\* The places of a worker before its Submitted event, up to its verdict, on
\* the ways out that may have no Submitted event, and after its last event.
Early == {"none", "gate", "snapshot", "peek", "submit"}
Working == {"sample", "flush", "attach", "clear", "create", "start", "run", "exit", "count",
            "unguard", "recall", "stop", "drain", "draining", "detach", "store", "cas", "record",
            "unwind"}
Failing == {"leave", "blame", "fail", "report", "bail"}
Ending == {"hush", "finish", "done"}
Places == Early \cup Working \cup Failing \cup Ending

Verdicts == {"Completed", "Failed", "Cancelled"}
Payloads == {"none", "result", "error"}

\* What holds of a task whose worker is at a place.
Claim(at, past, state, data, over) ==
  /\ at \in Early => Len(past) = 0
  /\ at \in Working => Len(past) = 1 /\ past[1] = "Submitted"
  /\ at \in Failing => Len(past) = 0 \/ (Len(past) = 1 /\ past[1] = "Submitted")
  /\ at \in Ending => /\ Len(past) \in 1..2 /\ (Len(past) = 2 => past[1] = "Submitted")
                      /\ state \in Verdicts /\ past[Len(past)] = state
  /\ at = "bail" => state = "Cancelled"
  /\ at = "cas" => data = "result"
  /\ at = "record" => state = "Completed"
  /\ at = "fail" => data = "error"
  /\ at = "report" => state = "Failed"
  /\ state = "Completed" => data = "result" /\ at \in {"record"} \cup Ending
  /\ state = "Failed" => data = "error" /\ at \in {"report"} \cup Ending
  /\ over <=> at = "done"

CoreTypes ==
  /\ table \subseteq Tasks /\ nextId \in Nat \ {0}
  /\ tstate \in [Tasks -> TaskStates]
  /\ payload \in [Tasks -> Payloads]
  /\ finished \in [Tasks -> BOOLEAN]
  /\ wpc \in [Tasks -> Places]
  /\ history \in [Tasks -> Seq(EventTypes)]
  /\ cpc \in [Callers -> {"idle", "spawn", "abort", "again", "freeze", "refreeze", "thaw"}]
  /\ carg \in [Callers -> Tasks \cup {NoTask}]

ClaimOf(t) == Claim(wpc[t], history[t], tstate[t], payload[t], finished[t])
Claims == \A t \in Tasks : ClaimOf(t)

\* A busy task is one that has_active() can see.
BusyInTable == \A t \in Tasks : tstate[t] \in Busy => t \in table

\* Ids are given out in order, to tasks nothing has happened to.
IdsInOrder ==
  /\ \A t \in table : t < nextId
  /\ \A t \in Tasks : t >= nextId => wpc[t] = "none" /\ tstate[t] = "none"

\* A caller between reserve_task() and the worker's thread is the only one,
\* and its task stays in the table.
SpawnsOwn ==
  \A c \in Callers : cpc[c] = "spawn" =>
    /\ carg[c] \in table /\ wpc[carg[c]] = "none"
    /\ \A d \in Callers : cpc[d] = "spawn" /\ carg[d] = carg[c] => d = c

WebInv ==
  /\ CoreTypes /\ Claims /\ BusyInTable /\ SlotIsExclusive /\ IdsInOrder /\ ReapIsSafe /\ SpawnsOwn

\* What the theorems state follows from it.
LEMMA ClaimsSuffice ==
  ASSUME WebInv
  PROVE  HistoryMatchesState /\ PayloadIsVisible
<1>1. PayloadIsVisible
  BY DEF WebInv, Claims, ClaimOf, Claim, PayloadIsVisible
<1>2. ASSUME NEW t \in Tasks, finished[t]
      PROVE  /\ history[t] # <<>> /\ history[t][Len(history[t])] = tstate[t]
             /\ \A i \in DOMAIN history[t] : IsTerminal(history[t][i]) <=> i = Len(history[t])
  <2>1. /\ Len(history[t]) \in 1..2 /\ (Len(history[t]) = 2 => history[t][1] = "Submitted")
        /\ tstate[t] \in Verdicts /\ history[t][Len(history[t])] = tstate[t]
    BY <1>2 DEF WebInv, Claims, ClaimOf, Claim, Ending
  <2>2. history[t] \in Seq(EventTypes) /\ DOMAIN history[t] = 1..Len(history[t])
    BY DEF WebInv, CoreTypes
  <2>3. history[t] # <<>>
    BY <2>1, <2>2
  <2>4. \A i \in DOMAIN history[t] : IsTerminal(history[t][i]) <=> i = Len(history[t])
    BY <2>1, <2>2 DEF IsTerminal, Verdicts
  <2>5. QED BY <2>1, <2>3, <2>4
<1>3. QED BY <1>1, <1>2 DEF HistoryMatchesState

LEMMA InitHolds ==
  ASSUME Init
  PROVE  WebInv
<1>1. CoreTypes
  BY DEF Init, ContextInit, CoreTypes, TaskStates, Payloads, Places, Early, EventTypes
<1>2. Claims
  BY DEF Init, ContextInit, Claims, ClaimOf, Claim, Early, Working, Failing, Ending
<1>3. BusyInTable /\ SlotIsExclusive
  BY DEF Init, BusyInTable, SlotIsExclusive, Busy
<1>4. IdsInOrder /\ ReapIsSafe
  BY TasksAssumption DEF Init, IdsInOrder, ReapIsSafe, NoTask
<1>5. SpawnsOwn
  BY DEF Init, SpawnsOwn
<1>6. QED BY <1>1, <1>2, <1>3, <1>4, <1>5 DEF WebInv

-----------------------------------------------------------------------------
(* Steps that leave the core alone.                                        *)

LEMMA QuietKeeps ==
  ASSUME WebInv, UNCHANGED core
  PROVE  WebInv'
BY DEF WebInv, core, CoreTypes, Claims, ClaimOf, BusyInTable, SlotIsExclusive, IdsInOrder,
       ReapIsSafe, SpawnsOwn

\* Streams, the sampler, publishers, the dispatcher, and the destructor except
\* for its marks.
LEMMA OthersAreQuiet ==
  ASSUME \/ \E s \in Streams : StreamStep(s)
         \/ \E t \in Tasks : SamplerFrame(t)
         \/ Publishing \/ DispatchStep
         \/ ShutDown \/ ShutClear \/ ShutAbort \/ ShutStopPolling \/ ShutJoin
  PROVE  UNCHANGED core
<1> USE DEF core, ctxtVars, webVars, tableVars, taskVars, workVars, callVars
<1>1. CASE \E s \in Streams : StreamStep(s)
  BY <1>1 DEF StreamStep, EventsOpen, EventsReplay, EventsStatus, EventsClose, EventsStep
<1>2. CASE \E t \in Tasks : SamplerFrame(t)
  BY <1>2 DEF SamplerFrame
<1>3. CASE Publishing
  BY <1>3 DEF Publishing
<1>4. CASE DispatchStep
  BY <1>4 DEF DispatchStep, DispatchTake, DispatchFrame, DispatchDone
<1>5. CASE ShutDown \/ ShutClear \/ ShutStopPolling \/ ShutJoin
  BY <1>5 DEF ShutDown, ShutClear, ShutStopPolling, ShutJoin
<1>6. CASE ShutAbort
  BY <1>6 DEF ShutAbort, Abort
<1>7. QED BY <1>1, <1>2, <1>3, <1>4, <1>5, <1>6

-----------------------------------------------------------------------------
(* Callers, and the marks of the destructor.                               *)

\* Only the states of busy tasks change, and to none that claims a payload.
LEMMA StatesKeep ==
  ASSUME WebInv, UNCHANGED <<history, table, nextId, payload, finished, wpc>>,
         tstate' \in [Tasks -> TaskStates],
         \A t \in Tasks : tstate'[t] = tstate[t]
           \/ (tstate[t] \in Busy /\ tstate'[t] \in Busy \cup {"Cancelled"})
  PROVE  Claims' /\ BusyInTable' /\ SlotIsExclusive' /\ IdsInOrder' /\ ReapIsSafe'
<1>1. Claims'
  <2> SUFFICES ASSUME NEW t \in Tasks
               PROVE  Claim(wpc[t], history[t], tstate'[t], payload[t], finished[t])
    BY DEF Claims, ClaimOf
  <2>1. Claim(wpc[t], history[t], tstate[t], payload[t], finished[t])
    BY DEF WebInv, Claims, ClaimOf
  <2>2. CASE tstate'[t] = tstate[t]
    BY <2>1, <2>2
  <2>3. CASE tstate[t] \in Busy /\ tstate'[t] \in Busy \cup {"Cancelled"}
    BY <2>1, <2>3 DEF Claim, Busy, Verdicts, Ending
  <2>4. QED BY <2>2, <2>3
<1>2. \A t \in Tasks : tstate'[t] \in Busy => tstate[t] \in Busy
  BY DEF Busy
<1>3. BusyInTable' /\ SlotIsExclusive'
  BY <1>2 DEF WebInv, BusyInTable, SlotIsExclusive
<1>4. IdsInOrder'
  BY DEF WebInv, IdsInOrder, Busy
<1>5. ReapIsSafe'
  BY DEF WebInv, ReapIsSafe
<1>6. QED BY <1>1, <1>3, <1>4, <1>5

LEMMA SpawnsKeep ==
  ASSUME SpawnsOwn, UNCHANGED <<table, wpc>>,
         \A d \in Callers : cpc'[d] = "spawn" => cpc[d] = "spawn" /\ carg'[d] = carg[d]
  PROVE  SpawnsOwn'
BY DEF SpawnsOwn

LEMMA SwapKeeps ==
  ASSUME WebInv, NEW c \in Callers, NEW t \in Tasks, Cancel(c, t) \/ Pause(c, t) \/ Resume(c, t)
  PROVE  WebInv'
<1>1. PICK new \in Busy \cup {"Cancelled"}, to \in {"abort", "freeze", "thaw"} :
        /\ tstate[t] \in Busy /\ Call(c, to, t)
        /\ tstate' = [tstate EXCEPT ![t] = new]
        /\ UNCHANGED <<ctxtVars, hubVars, diagVars, tableVars, payload, finished, workVars, streamVars, others>>
  BY DEF Cancel, Pause, Resume, Swap, Busy
<1>2. UNCHANGED <<history, table, nextId, payload, finished, wpc>>
  BY <1>1 DEF ctxtVars, tableVars, workVars
<1>3. /\ cpc' = [cpc EXCEPT ![c] = to] /\ carg' = [carg EXCEPT ![c] = t]
  BY <1>1 DEF Call
<1>4. CoreTypes'
  BY <1>1, <1>2, <1>3 DEF WebInv, CoreTypes, TaskStates, Busy
<1>5. \A u \in Tasks : tstate'[u] = tstate[u]
        \/ (tstate[u] \in Busy /\ tstate'[u] \in Busy \cup {"Cancelled"})
  BY <1>1 DEF WebInv, CoreTypes
<1>6. \A d \in Callers : cpc'[d] = "spawn" => cpc[d] = "spawn" /\ carg'[d] = carg[d]
  BY <1>3 DEF WebInv, CoreTypes
<1>7. SpawnsOwn'
  BY <1>2, <1>6, SpawnsKeep DEF WebInv
<1>8. QED BY <1>2, <1>4, <1>5, <1>7, StatesKeep DEF WebInv, CoreTypes

\* Calls of the context, on whatever executor it holds.
LEMMA ContextCallKeeps ==
  ASSUME WebInv, NEW c \in Callers,
         \/ ContextCall(c, "abort", "again", Abort) \/ ContextCall(c, "again", "idle", Abort)
         \/ ContextCall(c, "freeze", "refreeze", PauseSolve)
         \/ ContextCall(c, "refreeze", "idle", PauseSolve)
         \/ ContextCall(c, "thaw", "idle", ResumeSolve)
  PROVE  WebInv'
<1>1. PICK from \in {"abort", "again", "freeze", "refreeze", "thaw"}, to \in {"again", "refreeze", "idle"} :
        Step(c, from, to)
  BY DEF ContextCall
<1>2. UNCHANGED <<history, table, nextId, tstate, payload, finished, wpc>>
  BY DEF ContextCall, Abort, PauseSolve, ResumeSolve, Flip, tableVars, taskVars, workVars
<1>3. CoreTypes'
  BY <1>1, <1>2 DEF Step, WebInv, CoreTypes
<1>4. \A d \in Callers : cpc'[d] = "spawn" => cpc[d] = "spawn" /\ carg'[d] = carg[d]
  BY <1>1 DEF Step, WebInv, CoreTypes
<1>5. SpawnsOwn'
  BY <1>2, <1>4, SpawnsKeep DEF WebInv
<1>6. tstate' \in [Tasks -> TaskStates] /\ \A t \in Tasks : tstate'[t] = tstate[t]
  BY <1>2 DEF WebInv, CoreTypes
<1>7. QED BY <1>2, <1>3, <1>5, <1>6, StatesKeep DEF WebInv

LEMMA ReserveKeeps ==
  ASSUME WebInv, NEW c \in Callers, Reserve(c)
  PROVE  WebInv'
<1>1. /\ nextId \in Tasks /\ SlotIsFree
      /\ cpc[c] = "idle" /\ cpc' = [cpc EXCEPT ![c] = "spawn"] /\ carg' = [carg EXCEPT ![c] = nextId]
      /\ table' = (table \ Reapable) \cup {nextId} /\ nextId' = nextId + 1
      /\ tstate' = [tstate EXCEPT ![nextId] = "Running"]
      /\ UNCHANGED <<history, payload, finished, wpc>>
  BY DEF Reserve, Call, ctxtVars, workVars
<1>2. CoreTypes'
  <2>1. table' \subseteq Tasks
    BY <1>1 DEF WebInv, CoreTypes
  <2>2. nextId' \in Nat \ {0}
    BY <1>1 DEF WebInv, CoreTypes
  <2>3. tstate' \in [Tasks -> TaskStates]
    BY <1>1 DEF WebInv, CoreTypes, TaskStates
  <2>4. QED BY <1>1, <2>1, <2>2, <2>3 DEF WebInv, CoreTypes
<1>3. wpc[nextId] = "none" /\ nextId \in Nat
  BY <1>1, TasksAssumption DEF WebInv, IdsInOrder, NoTask, CoreTypes
<1>4. Claims'
  <2> SUFFICES ASSUME NEW t \in Tasks
               PROVE  Claim(wpc[t], history[t], tstate'[t], payload[t], finished[t])
    BY <1>1 DEF Claims, ClaimOf
  <2>1. Claim(wpc[t], history[t], tstate[t], payload[t], finished[t])
    BY DEF WebInv, Claims, ClaimOf
  <2>2. CASE t # nextId
    BY <1>1, <2>1, <2>2 DEF WebInv, CoreTypes
  <2>3. CASE t = nextId
    <3>1. tstate'[t] = "Running"
      BY <1>1, <2>3 DEF WebInv, CoreTypes
    <3>2. QED BY <1>3, <2>1, <2>3, <3>1 DEF Claim, Working, Failing, Ending
  <2>4. QED BY <2>2, <2>3
<1>5. \A t \in Tasks : tstate[t] \notin Busy
  BY <1>1 DEF WebInv, BusyInTable, SlotIsFree
<1>6. \A t \in Tasks : tstate'[t] \in Busy => t = nextId
  BY <1>1, <1>5 DEF WebInv, CoreTypes
<1>7. BusyInTable' /\ SlotIsExclusive'
  BY <1>1, <1>6 DEF BusyInTable, SlotIsExclusive
<1>8. \A t \in Reapable : t \in Tasks /\ wpc[t] = "done"
  BY DEF Reapable, WebInv, CoreTypes, Claims, ClaimOf, Claim
<1>9. \A t \in table : t < nextId /\ t \in Nat
  BY TasksAssumption DEF WebInv, IdsInOrder, CoreTypes
<1>10. IdsInOrder'
  <2>1. \A t \in table' : t < nextId'
    BY <1>1, <1>3, <1>9
  <2>2. \A t \in Tasks : t >= nextId' => wpc'[t] = "none" /\ tstate'[t] = "none"
    BY <1>1, <1>3, TasksAssumption DEF WebInv, IdsInOrder, CoreTypes
  <2>3. QED BY <2>1, <2>2 DEF IdsInOrder
<1>11. ReapIsSafe'
  <2> SUFFICES ASSUME NEW t \in Tasks, t < nextId', t \notin table'
               PROVE  wpc'[t] = "done"
    BY DEF ReapIsSafe
  <2>1. t # nextId /\ t < nextId
    BY <1>1, <1>3, TasksAssumption
  <2>2. CASE t \in table
    BY <1>1, <1>8, <2>2
  <2>3. CASE t \notin table
    BY <1>1, <2>1, <2>3 DEF WebInv, ReapIsSafe
  <2>4. QED BY <2>2, <2>3
<1>12. SpawnsOwn'
  <2>1. \A d \in Callers : d # c => cpc'[d] = cpc[d] /\ carg'[d] = carg[d]
    BY <1>1 DEF WebInv, CoreTypes
  <2>2. carg'[c] = nextId
    BY <1>1 DEF WebInv, CoreTypes
  <2>3. \A d \in Callers : d # c /\ cpc[d] = "spawn" =>
          carg[d] \in table' /\ carg[d] # nextId /\ wpc[carg[d]] = "none"
    BY <1>1, <1>3, <1>8, <1>9 DEF WebInv, SpawnsOwn
  <2>4. QED BY <1>1, <1>3, <2>1, <2>2, <2>3 DEF WebInv, SpawnsOwn
<1>13. QED BY <1>2, <1>4, <1>7, <1>10, <1>11, <1>12 DEF WebInv

LEMMA SpawnKeeps ==
  ASSUME WebInv, NEW c \in Callers, Spawn(c)
  PROVE  WebInv'
<1>1. /\ cpc[c] = "spawn" /\ cpc' = [cpc EXCEPT ![c] = "idle"]
      /\ carg' = [carg EXCEPT ![c] = NoTask]
      /\ UNCHANGED <<history, table, nextId, tstate, payload, finished>>
  BY DEF Spawn, Step, ctxtVars, tableVars, taskVars
<1>2. PICK t \in table, to \in {"gate", "peek"} :
        t = carg[c] /\ wpc[t] = "none" /\ wpc' = [wpc EXCEPT ![t] = to]
  BY <1>1 DEF Spawn, WebInv, SpawnsOwn
<1>3. t \in Tasks /\ t < nextId /\ nextId \in Nat /\ t \in Nat
  BY <1>2, TasksAssumption DEF WebInv, CoreTypes, IdsInOrder
<1>4. CoreTypes'
  BY <1>1, <1>2, <1>3 DEF WebInv, CoreTypes, Places, Early
<1>5. Claims'
  <2> SUFFICES ASSUME NEW u \in Tasks
               PROVE  Claim(wpc'[u], history[u], tstate[u], payload[u], finished[u])
    BY <1>1 DEF Claims, ClaimOf
  <2>1. Claim(wpc[u], history[u], tstate[u], payload[u], finished[u])
    BY DEF WebInv, Claims, ClaimOf
  <2>2. CASE u # t
    BY <1>2, <1>3, <2>1, <2>2 DEF WebInv, CoreTypes
  <2>3. CASE u = t
    <3>1. wpc'[u] \in {"gate", "peek"}
      BY <1>2, <1>3, <2>3 DEF WebInv, CoreTypes
    <3>2. QED BY <1>2, <2>1, <2>3, <3>1 DEF Claim, Early, Working, Failing, Ending
  <2>4. QED BY <2>2, <2>3
<1>6. BusyInTable' /\ SlotIsExclusive'
  BY <1>1 DEF WebInv, BusyInTable, SlotIsExclusive
<1>7. \A u \in Tasks : u # t => wpc'[u] = wpc[u]
  BY <1>2, <1>3 DEF WebInv, CoreTypes
<1>8. IdsInOrder' /\ ReapIsSafe'
  <2>1. \A u \in Tasks : u >= nextId => u # t
    BY <1>3
  <2>2. IdsInOrder'
    BY <1>1, <1>7, <2>1 DEF WebInv, IdsInOrder
  <2>3. ReapIsSafe'
    BY <1>1, <1>2, <1>7 DEF WebInv, ReapIsSafe
  <2>4. QED BY <2>2, <2>3
<1>9. SpawnsOwn'
  <2>1. \A d \in Callers : cpc'[d] = "spawn" => d # c /\ cpc[d] = "spawn" /\ carg'[d] = carg[d]
    BY <1>1 DEF WebInv, CoreTypes
  <2>2. \A d \in Callers : cpc[d] = "spawn" /\ d # c => carg[d] # t /\ carg[d] \in Tasks
    BY <1>1, <1>2 DEF WebInv, SpawnsOwn, CoreTypes
  <2>3. QED BY <1>1, <1>7, <2>1, <2>2 DEF WebInv, SpawnsOwn
<1>10. QED BY <1>4, <1>5, <1>6, <1>8, <1>9 DEF WebInv

LEMMA MarkKeeps ==
  ASSUME WebInv, ShutMark
  PROVE  WebInv'
<1>1. /\ tstate' = [t \in Tasks |-> IF t \in table /\ tstate[t] \in Busy THEN "Cancelled" ELSE tstate[t]]
      /\ UNCHANGED <<history, table, nextId, payload, finished, wpc, cpc, carg>>
  BY DEF ShutMark, ctxtVars, tableVars, workVars, callVars
<1>2. tstate' \in [Tasks -> TaskStates]
  BY <1>1 DEF WebInv, CoreTypes, TaskStates
<1>3. \A t \in Tasks : tstate'[t] = tstate[t]
        \/ (tstate[t] \in Busy /\ tstate'[t] \in Busy \cup {"Cancelled"})
  BY <1>1
<1>4. SpawnsOwn'
  BY <1>1, SpawnsKeep DEF WebInv
<1>5. CoreTypes'
  BY <1>1, <1>2 DEF WebInv, CoreTypes
<1>6. QED BY <1>1, <1>2, <1>3, <1>4, <1>5, StatesKeep DEF WebInv

-----------------------------------------------------------------------------
(* The workers.                                                            *)

\* The tasks of the other workers stay as they are.
OnlyTask(t) ==
  \A u \in Tasks : u # t =>
    /\ wpc'[u] = wpc[u] /\ history'[u] = history[u] /\ tstate'[u] = tstate[u]
    /\ payload'[u] = payload[u] /\ finished'[u] = finished[u]

\* A worker changes its own task and does not make it busy.
LEMMA WorkerKeeps ==
  ASSUME WebInv, NEW t \in Tasks, CoreTypes', OnlyTask(t), ClaimOf(t)',
         wpc[t] # "none", wpc[t] # "done", wpc'[t] # "none",
         tstate'[t] \in Busy => tstate'[t] = tstate[t],
         UNCHANGED <<table, nextId, cpc, carg>>
  PROVE  WebInv'
<1>1. Claims'
  BY DEF WebInv, Claims, ClaimOf, OnlyTask
<1>2. \A u \in Tasks : tstate'[u] \in Busy => tstate[u] \in Busy
  BY DEF OnlyTask
<1>3. BusyInTable' /\ SlotIsExclusive'
  BY <1>2 DEF WebInv, BusyInTable, SlotIsExclusive
<1>4. t < nextId /\ t \in table
  BY TasksAssumption DEF WebInv, CoreTypes, IdsInOrder, ReapIsSafe
<1>5. IdsInOrder'
  BY <1>4, TasksAssumption DEF WebInv, CoreTypes, IdsInOrder, OnlyTask
<1>6. ReapIsSafe'
  BY <1>4 DEF WebInv, ReapIsSafe, OnlyTask
<1>7. SpawnsOwn'
  <2>1. \A c \in Callers : cpc[c] = "spawn" => carg[c] # t /\ carg[c] \in Tasks
    BY DEF WebInv, SpawnsOwn, CoreTypes
  <2>2. QED BY <2>1 DEF WebInv, SpawnsOwn, OnlyTask
<1>8. QED BY <1>1, <1>3, <1>5, <1>6, <1>7 DEF WebInv

\* A worker goes on without touching its task.
Moves(t, from, to) ==
  Goes(t, from, to) /\ UNCHANGED <<history, table, nextId, tstate, payload, finished, cpc, carg>>

\* The places it may go to like that, in a state of its task.
Edge(from, to, state) ==
  \/ from \in Early \ {"none"} /\ to \in Early \ {"none"}
  \/ from \in Working \ {"cas", "record"} /\ to \in Working \ {"cas", "record"}
  \/ from \in (Early \cup Working) \ {"none", "cas", "record"} /\ to = "leave"
  \/ from \in {"gate", "snapshot", "peek", "cas"} /\ to = "bail" /\ state = "Cancelled"
  \/ from = "leave" /\ to = "blame"
  \/ from = "hush" /\ to = "finish"

LEMMA EdgeKeepsClaim ==
  ASSUME NEW from, NEW to, NEW past, NEW state, NEW data, NEW over,
         Claim(from, past, state, data, over), Edge(from, to, state)
  PROVE  Claim(to, past, state, data, over) /\ from \notin {"none", "done"} /\ to \in Places /\ to # "none"
<1> USE DEF Claim, Early, Working, Failing, Ending, Places
<1>1. CASE from \in Early \ {"none"} /\ to \in Early \ {"none"}
  BY <1>1
<1>2. CASE from \in Working \ {"cas", "record"} /\ to \in Working \ {"cas", "record"}
  BY <1>2
<1>3. CASE from \in (Early \cup Working) \ {"none", "cas", "record"} /\ to = "leave"
  <2>1. CASE from \in Early
    BY <1>3, <2>1
  <2>2. CASE from \in Working
    BY <1>3, <2>2
  <2>3. QED BY <1>3, <2>1, <2>2
<1>4. CASE from \in {"gate", "snapshot", "peek", "cas"} /\ to = "bail" /\ state = "Cancelled"
  <2>1. CASE from \in {"gate", "snapshot", "peek"}
    BY <1>4, <2>1
  <2>2. CASE from = "cas"
    BY <1>4, <2>2
  <2>3. QED BY <1>4, <2>1, <2>2
<1>5. CASE (from = "leave" /\ to = "blame") \/ (from = "hush" /\ to = "finish")
  BY <1>5
<1>6. QED BY <1>1, <1>2, <1>3, <1>4, <1>5 DEF Edge

LEMMA MovesKeep ==
  ASSUME WebInv, NEW t \in Tasks, NEW from, NEW to, Moves(t, from, to), Edge(from, to, tstate[t])
  PROVE  WebInv'
<1>1. wpc[t] = from /\ wpc' = [wpc EXCEPT ![t] = to]
      /\ UNCHANGED <<history, table, nextId, tstate, payload, finished, cpc, carg>>
  BY DEF Moves, Goes
<1>2. Claim(from, history[t], tstate[t], payload[t], finished[t])
  BY <1>1 DEF WebInv, Claims, ClaimOf
<1>3. /\ Claim(to, history[t], tstate[t], payload[t], finished[t])
      /\ from \notin {"none", "done"} /\ to \in Places /\ to # "none"
  BY <1>2, EdgeKeepsClaim
<1>4. CoreTypes' /\ OnlyTask(t) /\ wpc'[t] = to
  BY <1>1, <1>3 DEF WebInv, CoreTypes, OnlyTask
<1>5. ClaimOf(t)'
  BY <1>1, <1>3, <1>4 DEF ClaimOf
<1>6. QED BY <1>1, <1>3, <1>4, <1>5, WorkerKeeps

\* A worker records an event of its task.
LEMMA RecordKeeps ==
  ASSUME WebInv, NEW t \in Tasks, NEW from, NEW to, NEW type \in EventTypes,
         Goes(t, from, to), Record(t, type), UNCHANGED <<table, nextId, tstate, payload, finished, cpc, carg>>,
         \/ from = "submit" /\ to = "sample" /\ type = "Submitted"
         \/ from = "record" /\ to = "hush" /\ type = "Completed"
         \/ from = "report" /\ to = "hush" /\ type = "Failed"
         \/ from = "bail" /\ to = "finish" /\ type = "Cancelled"
  PROVE  WebInv'
<1>1. /\ wpc[t] = from /\ wpc' = [wpc EXCEPT ![t] = to]
      /\ history' = [history EXCEPT ![t] = Append(history[t], type)]
  BY DEF Goes, Record
<1>2. Claim(from, history[t], tstate[t], payload[t], finished[t]) /\ history[t] \in Seq(EventTypes)
  BY <1>1 DEF WebInv, Claims, ClaimOf, CoreTypes
<1> DEFINE past == Append(history[t], type)
<1>3. /\ past \in Seq(EventTypes) /\ Len(past) = Len(history[t]) + 1
      /\ past[Len(history[t]) + 1] = type
      /\ \A i \in 1..Len(history[t]) : past[i] = history[t][i]
  <2>1. history[t] \in Seq(EventTypes) /\ type \in EventTypes
    BY <1>2
  <2>2. QED BY ONLY <2>1, AppendProperties
<1> HIDE DEF past
<1>4. Claim(to, past, tstate[t], payload[t], finished[t])
  <2>1. CASE from = "submit" /\ to = "sample" /\ type = "Submitted"
    BY <1>2, <1>3, <2>1 DEF Claim, Early, Working, Failing, Ending
  <2>2. CASE from = "record" /\ to = "hush" /\ type = "Completed"
    BY <1>2, <1>3, <2>2 DEF Claim, Early, Working, Failing, Ending, Verdicts
  <2>3. CASE from = "report" /\ to = "hush" /\ type = "Failed"
    BY <1>2, <1>3, <2>3 DEF Claim, Early, Working, Failing, Ending, Verdicts
  <2>4. CASE from = "bail" /\ to = "finish" /\ type = "Cancelled"
    BY <1>2, <1>3, <2>4 DEF Claim, Early, Working, Failing, Ending, Verdicts
  <2>5. QED BY <2>1, <2>2, <2>3, <2>4
<1>5. to \in Places /\ to # "none" /\ wpc[t] # "none" /\ wpc[t] # "done"
  BY <1>1 DEF Places, Working, Ending
<1>6. CoreTypes' /\ OnlyTask(t) /\ wpc'[t] = to /\ history'[t] = past
  BY <1>1, <1>3, <1>5 DEF WebInv, CoreTypes, OnlyTask, past
<1>7. ClaimOf(t)'
  BY <1>4, <1>6 DEF ClaimOf
<1>8. QED BY <1>5, <1>6, <1>7, WorkerKeeps

\* A worker stores the result or the error.
LEMMA StoreKeeps ==
  ASSUME WebInv, NEW t \in Tasks, NEW from, NEW to, NEW what, Store(t, from, to, what),
         \/ from = "store" /\ to = "cas" /\ what = "result"
         \/ from = "blame" /\ to = "fail" /\ what = "error"
  PROVE  WebInv'
<1>1. /\ wpc[t] = from /\ wpc' = [wpc EXCEPT ![t] = to]
      /\ payload' = [payload EXCEPT ![t] = what]
      /\ UNCHANGED <<history, table, nextId, tstate, finished, cpc, carg>>
  BY DEF Store, Goes, ctxtVars, Outside, tableVars, callVars
<1>2. Claim(from, history[t], tstate[t], payload[t], finished[t])
  BY <1>1 DEF WebInv, Claims, ClaimOf
<1>3. Claim(to, history[t], tstate[t], what, finished[t])
  BY <1>2 DEF Claim, Early, Working, Failing, Ending
<1>4. to \in Places /\ to # "none" /\ wpc[t] # "none" /\ wpc[t] # "done" /\ what \in Payloads
  BY <1>1 DEF Places, Working, Failing, Payloads
<1>5. CoreTypes' /\ OnlyTask(t) /\ wpc'[t] = to /\ payload'[t] = what
  BY <1>1, <1>4 DEF WebInv, CoreTypes, OnlyTask
<1>6. ClaimOf(t)'
  BY <1>1, <1>3, <1>5 DEF ClaimOf
<1>7. QED BY <1>1, <1>4, <1>5, <1>6, WorkerKeeps

\* A worker commits a verdict.
LEMMA ConcludeKeeps ==
  ASSUME WebInv, NEW t \in Tasks, NEW from, NEW to, NEW verdict, Conclude(t, from, to, verdict),
         \/ from = "cas" /\ to = "record" /\ verdict = "Completed"
         \/ from = "fail" /\ to = "report" /\ verdict = "Failed"
  PROVE  WebInv'
<1>1. /\ wpc[t] = from /\ wpc' = [wpc EXCEPT ![t] = to]
      /\ tstate' = [tstate EXCEPT ![t] = verdict]
      /\ UNCHANGED <<history, table, nextId, payload, finished, cpc, carg>>
  BY DEF Conclude, Goes, ctxtVars, Outside, tableVars, callVars
<1>2. Claim(from, history[t], tstate[t], payload[t], finished[t])
  BY <1>1 DEF WebInv, Claims, ClaimOf
<1>3. Claim(to, history[t], verdict, payload[t], finished[t])
  BY <1>2 DEF Claim, Early, Working, Failing, Ending
<1>4. /\ to \in Places /\ to # "none" /\ wpc[t] # "none" /\ wpc[t] # "done"
      /\ verdict \in TaskStates /\ verdict \notin Busy
  BY <1>1 DEF Places, Working, Failing, TaskStates, Busy
<1>5. CoreTypes' /\ OnlyTask(t) /\ wpc'[t] = to /\ tstate'[t] = verdict
  BY <1>1, <1>4 DEF WebInv, CoreTypes, OnlyTask
<1>6. ClaimOf(t)'
  BY <1>1, <1>3, <1>5 DEF ClaimOf
<1>7. QED BY <1>1, <1>4, <1>5, <1>6, WorkerKeeps

LEMMA FinishKeeps ==
  ASSUME WebInv, NEW t \in Tasks, Finish(t)
  PROVE  WebInv'
<1>1. /\ wpc[t] = "finish" /\ wpc' = [wpc EXCEPT ![t] = "done"]
      /\ finished' = [finished EXCEPT ![t] = TRUE]
      /\ UNCHANGED <<history, table, nextId, tstate, payload, cpc, carg>>
  BY DEF Finish, Goes, ctxtVars, Outside, tableVars, callVars
<1>2. Claim("finish", history[t], tstate[t], payload[t], finished[t])
  BY <1>1 DEF WebInv, Claims, ClaimOf
<1>3. CoreTypes' /\ OnlyTask(t) /\ wpc'[t] = "done" /\ finished'[t] = TRUE
  BY <1>1 DEF WebInv, CoreTypes, OnlyTask, Places, Ending
<1>4. ClaimOf(t)'
  BY <1>1, <1>2, <1>3 DEF ClaimOf, Claim, Early, Working, Failing, Ending
<1>5. QED BY <1>1, <1>3, <1>4, WorkerKeeps

\* The steps of a worker that touch nothing of its task.
LEMMA FormsMove ==
  ASSUME NEW t \in Tasks, NEW from, NEW to, NEW value
  PROVE  /\ WorkGoto(t, from, to) => Moves(t, from, to)
         /\ CheckCancelled(t, from, to) =>
              Moves(t, from, to) \/ (tstate[t] = "Cancelled" /\ Moves(t, from, "bail"))
         /\ FlushLoad(t, from, to) \/ FlushWait(t, from, to) => Moves(t, from, to)
         /\ SetSampler(t, from, to, value) \/ StopSampler(t, from, to) => Moves(t, from, to)
         /\ WorkContext(t, from, to, SetHandle(NoTask)) \/ WorkContext(t, from, to, PublishExecutor(t))
            \/ WorkContext(t, from, to, StartExecutor(t)) \/ WorkContext(t, from, to, EndExecutor(t))
              => Moves(t, from, to)
         /\ WorkDiag(t, from, to, Attach(t)) \/ WorkDiag(t, from, to, Detach(t))
            \/ WorkDiag(t, from, to, PushEvent(t)) \/ WorkDiag(t, from, to, CountEvent)
              => Moves(t, from, to)
         /\ WorkHub(t, from, to, UnsubscribeAll(t)) => Moves(t, from, to)
<1> USE DEF Moves, Goes, Outside, ctxtVars, tableVars, taskVars, callVars
<1>1. WorkGoto(t, from, to) => Moves(t, from, to)
  BY DEF WorkGoto
<1>2. CheckCancelled(t, from, to) =>
        Moves(t, from, to) \/ (tstate[t] = "Cancelled" /\ Moves(t, from, "bail"))
  BY DEF CheckCancelled, WorkGoto
<1>3. FlushLoad(t, from, to) \/ FlushWait(t, from, to) => Moves(t, from, to)
  BY DEF FlushLoad, FlushWait, WorkGoto
<1>4. SetSampler(t, from, to, value) \/ StopSampler(t, from, to) => Moves(t, from, to)
  BY DEF SetSampler, StopSampler
<1>5. WorkContext(t, from, to, SetHandle(NoTask)) \/ WorkContext(t, from, to, PublishExecutor(t))
      \/ WorkContext(t, from, to, StartExecutor(t)) \/ WorkContext(t, from, to, EndExecutor(t))
        => Moves(t, from, to)
  BY DEF WorkContext, SetHandle, PublishExecutor, StartExecutor, EndExecutor
<1>6. WorkDiag(t, from, to, Attach(t)) \/ WorkDiag(t, from, to, Detach(t))
      \/ WorkDiag(t, from, to, PushEvent(t)) \/ WorkDiag(t, from, to, CountEvent)
        => Moves(t, from, to)
  BY DEF WorkDiag
<1>7. WorkHub(t, from, to, UnsubscribeAll(t)) => Moves(t, from, to)
  BY DEF WorkHub
<1>8. QED BY <1>1, <1>2, <1>3, <1>4, <1>5, <1>6, <1>7

LEMMA CheckKeeps ==
  ASSUME WebInv, NEW t \in Tasks, NEW from \in {"gate", "snapshot", "peek"},
         NEW to \in {"snapshot", "submit"}, CheckCancelled(t, from, to)
  PROVE  WebInv'
<1>1. Edge(from, to, tstate[t]) /\ (tstate[t] = "Cancelled" => Edge(from, "bail", tstate[t]))
  BY DEF Edge, Early
<1>2. CASE Moves(t, from, to)
  BY <1>1, <1>2, MovesKeep
<1>3. CASE tstate[t] = "Cancelled" /\ Moves(t, from, "bail")
  BY <1>1, <1>3, MovesKeep
<1>4. QED BY <1>2, <1>3, FormsMove

\* Between Submitted and the commit a worker moves freely.
LEMMA WorkingKeeps ==
  ASSUME WebInv, NEW t \in Tasks, NEW from \in Working \ {"cas", "record"},
         NEW to \in Working \ {"cas", "record"}, Moves(t, from, to)
  PROVE  WebInv'
<1>1. Edge(from, to, tstate[t])
  BY DEF Edge
<1>2. QED BY <1>1, MovesKeep

LEMMA BeforeSolveKeeps ==
  ASSUME WebInv, NEW t \in Tasks, BeforeSolve(t)
  PROVE  WebInv'
<1>1. CASE CheckCancelled(t, "gate", "snapshot")
  BY <1>1, CheckKeeps
<1>2. CASE CheckCancelled(t, "snapshot", "submit") \/ CheckCancelled(t, "peek", "submit")
  BY <1>2, CheckKeeps
<1>3. CASE RecordAnd(t, "submit", "sample", "Submitted", Tell(Worker(t), t, "progress"))
  <2>1. Goes(t, "submit", "sample") /\ Record(t, "Submitted")
        /\ UNCHANGED <<table, nextId, tstate, payload, finished, cpc, carg>>
    BY <1>3 DEF RecordAnd, taskVars, Outside, tableVars, callVars
  <2>2. QED BY <2>1, RecordKeeps DEF EventTypes
<1>4. CASE SetSampler(t, "sample", "flush", IF HasHub THEN "on" ELSE "off")
  <2>1. Moves(t, "sample", "flush")
    BY <1>4, FormsMove
  <2>2. QED BY <2>1, WorkingKeeps DEF Working
<1>5. CASE FlushLoad(t, "flush", "attach")
  <2>1. Moves(t, "flush", "attach")
    BY <1>5, FormsMove
  <2>2. QED BY <2>1, WorkingKeeps DEF Working
<1>6. CASE WorkDiag(t, "attach", OnStart(t, "clear", "create"), Attach(t))
  <2>1. Moves(t, "attach", OnStart(t, "clear", "create"))
    BY <1>6, FormsMove
  <2>2. OnStart(t, "clear", "create") \in {"clear", "create"}
    BY DEF OnStart
  <2>3. QED BY <2>1, <2>2, WorkingKeeps DEF Working
<1>7. QED BY <1>1, <1>2, <1>3, <1>4, <1>5, <1>6 DEF BeforeSolve

LEMMA SolveKeeps ==
  ASSUME WebInv, NEW t \in Tasks, Solve(t)
  PROVE  WebInv'
<1>1. PICK from \in {"clear", "create", "start", "run", "exit", "count", "unguard", "recall"},
           to \in {"create", "start", "unguard", "run", "exit", "count", "recall", "stop"} :
        Moves(t, from, to)
  <2>1. CASE WorkContext(t, "clear", "create", SetHandle(NoTask))
             \/ WorkContext(t, "create", "start", PublishExecutor(t))
             \/ WorkGoto(t, "start", "unguard") \/ WorkContext(t, "start", "run", StartExecutor(t))
    BY <2>1, FormsMove
  <2>2. CASE WorkContext(t, "run", "exit", EndExecutor(t)) \/ WorkDiag(t, "exit", "count", PushEvent(t))
             \/ WorkDiag(t, "count", "unguard", CountEvent)
    BY <2>2, FormsMove
  <2>3. CASE WorkContext(t, "unguard", OnStart(t, "recall", "stop"), SetHandle(NoTask))
    BY <2>3, FormsMove DEF OnStart
  <2>4. CASE WorkContext(t, "recall", "stop", SetHandle(NoTask))
    BY <2>4, FormsMove
  <2>5. QED BY <2>1, <2>2, <2>3, <2>4 DEF Solve
<1>2. QED BY <1>1, WorkingKeeps DEF Working

LEMMA ThrowKeeps ==
  ASSUME WebInv, NEW t \in Tasks, Throw(t)
  PROVE  WebInv'
<1>1. CASE WorkGoto(t, "start", "unwind")
  <2>1. Moves(t, "start", "unwind")
    BY <1>1, FormsMove
  <2>2. QED BY <2>1, WorkingKeeps DEF Working
<1>2. ASSUME NEW from \in {"snapshot", "peek", "create", "store"}, WorkGoto(t, from, "leave")
      PROVE  WebInv'
  <2>1. Moves(t, from, "leave")
    BY <1>2, FormsMove
  <2>2. Edge(from, "leave", tstate[t])
    BY DEF Edge, Early, Working
  <2>3. QED BY <2>1, <2>2, MovesKeep
<1>3. QED BY <1>1, <1>2 DEF Throw

LEMMA AfterSolveKeeps ==
  ASSUME WebInv, NEW t \in Tasks, AfterSolve(t)
  PROVE  WebInv'
<1>1. PICK from \in {"stop", "drain", "draining", "detach"}, to \in {"drain", "draining", "detach", "store"} :
        Moves(t, from, to)
  BY FormsMove DEF AfterSolve
<1>2. QED BY <1>1, WorkingKeeps DEF Working

LEMMA CommitCompletedKeeps ==
  ASSUME WebInv, NEW t \in Tasks, CommitCompleted(t)
  PROVE  WebInv'
<1>1. CASE Store(t, "store", "cas", "result")
  BY <1>1, StoreKeeps
<1>2. CASE tstate[t] = "Cancelled" /\ WorkGoto(t, "cas", "bail")
  <2>1. Moves(t, "cas", "bail") /\ Edge("cas", "bail", tstate[t])
    BY <1>2, FormsMove DEF Edge
  <2>2. QED BY <2>1, MovesKeep
<1>3. CASE tstate[t] # "Cancelled" /\ Conclude(t, "cas", "record", "Completed")
  BY <1>3, ConcludeKeeps
<1>4. CASE RecordAnd(t, "record", "hush", "Completed", Tell(Worker(t), t, "completed"))
  <2>1. Goes(t, "record", "hush") /\ Record(t, "Completed")
        /\ UNCHANGED <<table, nextId, tstate, payload, finished, cpc, carg>>
    BY <1>4 DEF RecordAnd, taskVars, Outside, tableVars, callVars
  <2>2. QED BY <2>1, RecordKeeps DEF EventTypes
<1>5. QED BY <1>1, <1>2, <1>3, <1>4 DEF CommitCompleted

LEMMA CommitFailedKeeps ==
  ASSUME WebInv, NEW t \in Tasks, CommitFailed(t)
  PROVE  WebInv'
<1>1. CASE WorkContext(t, "unwind", "leave", SetHandle(NoTask))
  <2>1. Moves(t, "unwind", "leave") /\ Edge("unwind", "leave", tstate[t])
    BY <1>1, FormsMove DEF Edge, Working
  <2>2. QED BY <2>1, MovesKeep
<1>2. CASE StopSampler(t, "leave", "blame")
  <2>1. Moves(t, "leave", "blame") /\ Edge("leave", "blame", tstate[t])
    BY <1>2, FormsMove DEF Edge
  <2>2. QED BY <2>1, MovesKeep
<1>3. CASE Store(t, "blame", "fail", "error")
  BY <1>3, StoreKeeps
<1>4. CASE Conclude(t, "fail", "report", "Failed")
  BY <1>4, ConcludeKeeps
<1>5. CASE RecordAnd(t, "report", "hush", "Failed", Tell(Worker(t), t, "failed"))
  <2>1. Goes(t, "report", "hush") /\ Record(t, "Failed")
        /\ UNCHANGED <<table, nextId, tstate, payload, finished, cpc, carg>>
    BY <1>5 DEF RecordAnd, taskVars, Outside, tableVars, callVars
  <2>2. QED BY <2>1, RecordKeeps DEF EventTypes
<1>6. QED BY <1>1, <1>2, <1>3, <1>4, <1>5 DEF CommitFailed

LEMMA WorkerStepKeeps ==
  ASSUME WebInv, NEW t \in Tasks, WorkerStep(t)
  PROVE  WebInv'
<1>1. CASE BeforeSolve(t) \/ Solve(t) \/ Throw(t) \/ AfterSolve(t)
  BY <1>1, BeforeSolveKeeps, SolveKeeps, ThrowKeeps, AfterSolveKeeps
<1>2. CASE CommitCompleted(t) \/ CommitFailed(t) \/ Finish(t)
  BY <1>2, CommitCompletedKeeps, CommitFailedKeeps, FinishKeeps
<1>3. CASE CommitCancelled(t)
  <2>1. Goes(t, "bail", "finish") /\ Record(t, "Cancelled")
        /\ UNCHANGED <<table, nextId, tstate, payload, finished, cpc, carg>>
    BY <1>3 DEF CommitCancelled, RecordAnd, taskVars, Outside, tableVars, callVars
  <2>2. QED BY <2>1, RecordKeeps DEF EventTypes
<1>4. CASE WorkHub(t, "hush", "finish", UnsubscribeAll(t))
  <2>1. Moves(t, "hush", "finish") /\ Edge("hush", "finish", tstate[t])
    BY <1>4, FormsMove DEF Edge
  <2>2. QED BY <2>1, MovesKeep
<1>5. QED BY <1>1, <1>2, <1>3, <1>4 DEF WorkerStep

-----------------------------------------------------------------------------
(* The theorems.                                                           *)

LEMMA NextKeeps ==
  ASSUME WebInv, [Next]_vars
  PROVE  WebInv'
<1>1. CASE \E c \in Callers : CallerCall(c) \/ CallerStep(c)
  <2>1. ASSUME NEW c \in Callers, CallerCall(c)
        PROVE  WebInv'
    BY <2>1, ReserveKeeps, SwapKeeps DEF CallerCall
  <2>2. ASSUME NEW c \in Callers, CallerStep(c)
        PROVE  WebInv'
    BY <2>2, SpawnKeeps, ContextCallKeeps DEF CallerStep
  <2>3. QED BY <1>1, <2>1, <2>2
<1>2. CASE \E t \in Tasks : WorkerStep(t)
  BY <1>2, WorkerStepKeeps
<1>3. CASE \/ \E s \in Streams : StreamStep(s)
           \/ \E t \in Tasks : SamplerFrame(t)
           \/ Publishing \/ DispatchStep
           \/ ShutDown \/ ShutClear \/ ShutAbort \/ ShutStopPolling \/ ShutJoin
  BY <1>3, OthersAreQuiet, QuietKeeps
<1>4. CASE ShutMark
  BY <1>4, MarkKeeps
<1>5. CASE UNCHANGED vars
  <2>1. UNCHANGED core
    BY <1>5 DEF vars, core, ctxtVars, webVars
  <2>2. QED BY <2>1, QuietKeeps
<1>6. QED BY <1>1, <1>2, <1>3, <1>4, <1>5 DEF Next, MainStep, ShutAdvance

\* WebSolveService: at any time one task at most is running or paused, and a
\* task leaves the table only when its worker is done (reserve_task()).
THEOREM SlotStaysExclusive == Spec => [](SlotIsExclusive /\ ReapIsSafe)
<1>1. Init => WebInv
  BY InitHolds
<1>2. WebInv /\ [Next]_vars => WebInv'
  BY NextKeeps
<1>3. WebInv => SlotIsExclusive /\ ReapIsSafe
  BY DEF WebInv
<1>4. QED BY <1>1, <1>2, <1>3, PTL DEF Spec

\* WebSolveService::commit_*(): the history of a finished task ends with the
\* state its clients see, and whoever sees a verdict finds its payload.
THEOREM RecordsHold == Spec => [](HistoryMatchesState /\ PayloadIsVisible)
<1>1. Init => WebInv
  BY InitHolds
<1>2. WebInv /\ [Next]_vars => WebInv'
  BY NextKeeps
<1>3. WebInv => HistoryMatchesState /\ PayloadIsVisible
  BY ClaimsSuffice
<1>4. QED BY <1>1, <1>2, <1>3, PTL DEF Spec

\* A verdict stands: what the client was told once stays, except that a solve
\* that fails after its cancel reads Failed (commit_failed()).
VerdictStays ==
  \A t \in Tasks :
    /\ tstate[t] \in {"Completed", "Failed"} => tstate'[t] = tstate[t]
    /\ tstate[t] = "Cancelled" => tstate'[t] \in {"Cancelled", "Failed"}

\* The steps of a worker that change the state of its task.
LEMMA WorkerVerdict ==
  ASSUME NEW t \in Tasks, WorkerStep(t)
  PROVE  \/ UNCHANGED tstate
         \/ tstate[t] # "Cancelled" /\ Conclude(t, "cas", "record", "Completed")
         \/ Conclude(t, "fail", "report", "Failed")
<1> USE DEF taskVars
<1>1. CASE BeforeSolve(t)
  BY <1>1 DEF BeforeSolve, CheckCancelled, WorkGoto, RecordAnd, SetSampler, FlushLoad, WorkDiag
<1>2. CASE Solve(t)
  BY <1>2 DEF Solve, WorkGoto, WorkContext, WorkDiag
<1>3. CASE Throw(t) \/ AfterSolve(t)
  BY <1>3 DEF Throw, AfterSolve, WorkGoto, StopSampler, SetSampler, FlushLoad, FlushWait, WorkDiag
<1>4. CASE CommitCompleted(t) \/ CommitFailed(t)
  BY <1>4 DEF CommitCompleted, CommitFailed, Store, WorkGoto, WorkContext, RecordAnd, StopSampler, SetSampler
<1>5. CASE CommitCancelled(t) \/ Finish(t) \/ WorkHub(t, "hush", "finish", UnsubscribeAll(t))
  BY <1>5 DEF CommitCancelled, Finish, RecordAnd, WorkHub
<1>6. QED BY <1>1, <1>2, <1>3, <1>4, <1>5 DEF WorkerStep

LEMMA StepKeepsVerdict ==
  ASSUME WebInv, [Next]_vars
  PROVE  VerdictStays
<1>1. CASE UNCHANGED tstate
  BY <1>1 DEF VerdictStays
<1>2. ASSUME NEW c \in Callers, Reserve(c)
      PROVE  VerdictStays
  <2>1. tstate' = [tstate EXCEPT ![nextId] = "Running"] /\ nextId \in Tasks
    BY <1>2 DEF Reserve
  <2>2. tstate[nextId] = "none"
    BY <2>1, TasksAssumption DEF WebInv, IdsInOrder, CoreTypes
  <2>3. QED BY <2>1, <2>2 DEF VerdictStays, WebInv, CoreTypes
<1>3. ASSUME NEW c \in Callers, NEW t \in Tasks, Cancel(c, t) \/ Pause(c, t) \/ Resume(c, t)
      PROVE  VerdictStays
  <2>1. PICK new \in Busy \cup {"Cancelled"} : tstate[t] \in Busy /\ tstate' = [tstate EXCEPT ![t] = new]
    BY <1>3 DEF Cancel, Pause, Resume, Swap, Busy
  <2>2. QED BY <2>1 DEF VerdictStays, WebInv, CoreTypes, Busy
<1>4. CASE ShutMark
  BY <1>4 DEF ShutMark, VerdictStays, Busy
<1>5. ASSUME NEW t \in Tasks, WorkerStep(t)
      PROVE  VerdictStays
  <2>1. Claim(wpc[t], history[t], tstate[t], payload[t], finished[t])
    BY DEF WebInv, Claims, ClaimOf
  <2>2. CASE tstate[t] # "Cancelled" /\ Conclude(t, "cas", "record", "Completed")
    <3>1. tstate[t] \notin Verdicts /\ tstate' = [tstate EXCEPT ![t] = "Completed"]
      BY <2>1, <2>2 DEF Conclude, Goes, Claim, Verdicts, Ending
    <3>2. QED BY <3>1 DEF VerdictStays, WebInv, CoreTypes, Verdicts
  <2>3. CASE Conclude(t, "fail", "report", "Failed")
    <3>1. tstate[t] \notin {"Completed", "Failed"} /\ tstate' = [tstate EXCEPT ![t] = "Failed"]
      BY <2>1, <2>3 DEF Conclude, Goes, Claim, Ending
    <3>2. QED BY <3>1 DEF VerdictStays, WebInv, CoreTypes
  <2>4. QED BY <1>1, <1>5, <2>2, <2>3, WorkerVerdict
<1>6. CASE \E c \in Callers : CallerCall(c) \/ CallerStep(c)
  <2>1. ASSUME NEW c \in Callers, CallerStep(c)
        PROVE  UNCHANGED tstate
    BY <2>1 DEF CallerStep, Spawn, ContextCall, taskVars
  <2>2. QED BY <1>1, <1>2, <1>3, <1>6, <2>1 DEF CallerCall
<1>7. CASE \/ \E s \in Streams : StreamStep(s)
           \/ \E t \in Tasks : SamplerFrame(t)
           \/ Publishing \/ DispatchStep
           \/ ShutDown \/ ShutClear \/ ShutAbort \/ ShutStopPolling \/ ShutJoin
  BY <1>1, <1>7, OthersAreQuiet DEF core
<1>8. CASE UNCHANGED vars
  BY <1>1, <1>8 DEF vars, webVars
<1>9. QED BY <1>4, <1>5, <1>6, <1>7, <1>8 DEF Next, MainStep, ShutAdvance

\* WebSolveService::cancel() and commit_*(): a verdict the client was told is
\* not taken back, whatever the callers and the worker race to.
THEOREM VerdictsStand == Spec => [][VerdictStays]_vars
<1>1. Init => WebInv
  BY InitHolds
<1>2. WebInv /\ [Next]_vars => WebInv'
  BY NextKeeps
<1>3. WebInv /\ [Next]_vars => [VerdictStays]_vars
  BY StepKeepsVerdict
<1>4. QED BY <1>1, <1>2, <1>3, PTL DEF Spec

-----------------------------------------------------------------------------
(* Type correctness, component by component.                                *)

WebTypeOK ==
  /\ table \subseteq Tasks /\ nextId \in Nat \ {0}
  /\ tstate \in [Tasks -> TaskStates]
  /\ payload \in [Tasks -> {"none", "result", "error"}]
  /\ finished \in [Tasks -> BOOLEAN]
  /\ kind \in [Tasks -> Kinds]
  /\ wpc \in [Tasks -> WorkerPcs] /\ target \in [Tasks -> Nat]
  /\ spc \in [Tasks -> {"off", "on", "sent"}]
  /\ cpc \in [Callers -> {"idle", "spawn", "abort", "again", "freeze", "refreeze", "thaw"}]
  /\ carg \in [Callers -> Tasks \cup {NoTask}]
  /\ rpc \in [Streams -> {"new", "replay", "status", "open", "orphan", "closed"}]
  /\ replay \in [Streams -> Frames \cup {NoFrame}] /\ joined \in [Streams -> Tasks \cup {NoTask}]
  /\ mpc \in {"serving", "clear", "mark", "abort", "poll", "join", "gone"}

LEMMA TypeParts == TypeOK <=> ContextTypeOK /\ HubTypeOK /\ DiagTypeOK /\ WebTypeOK
BY DEF TypeOK, WebTypeOK

LEMMA TypePartsNext == TypeOK' <=> ContextTypeOK' /\ HubTypeOK' /\ DiagTypeOK' /\ WebTypeOK'
BY DEF TypeOK, WebTypeOK

-----------------------------------------------------------------------------
(* The three components.                                                    *)

LEMMA ContextType ==
  ASSUME ContextTypeOK, NEW t \in Tasks, NEW u \in Tasks \cup {NoTask}, NEW type \in EventTypes,
         \/ Abort \/ PauseSolve \/ ResumeSolve \/ SetHandle(u) \/ PublishExecutor(t)
         \/ StartExecutor(t) \/ EndExecutor(t) \/ Record(t, type) \/ UNCHANGED ctxtVars
  PROVE  ContextTypeOK'
<1> USE DEF ContextTypeOK, ExecStates
<1>1. CASE Abort
  BY <1>1 DEF Abort
<1>2. CASE PauseSolve \/ ResumeSolve
  BY <1>2 DEF PauseSolve, ResumeSolve, Flip
<1>3. CASE SetHandle(u) \/ PublishExecutor(t) \/ StartExecutor(t) \/ EndExecutor(t)
  BY <1>3 DEF SetHandle, PublishExecutor, StartExecutor, EndExecutor
<1>4. CASE Record(t, type)
  BY <1>4 DEF Record
<1>5. CASE UNCHANGED ctxtVars
  BY <1>5 DEF ctxtVars
<1> QED BY <1>1, <1>2, <1>3, <1>4, <1>5

\* A publisher and what it is doing.
LEMMA SendingType ==
  ASSUME HubTypeOK, NEW p \in Publishers, NEW frame \in Frames \cup {NoFrame}, NEW to \in SUBSET Streams,
         Sending(p, frame, to)
  PROVE  sending' \in [Publishers -> [frame : Frames \cup {NoFrame}, to : SUBSET Streams]]
BY DEF HubTypeOK, Sending, Silent

LEMMA SeenType ==
  ASSUME HubTypeOK, NEW s \in Streams, NEW frame \in Frames \cup {NoFrame}, Deliver(s, frame)
  PROVE  stream' \in [Streams -> Seen]
BY DEF HubTypeOK, Deliver, After, Seen

LEMMA HubType ==
  ASSUME HubTypeOK, NEW k \in Keys, NEW p \in Publishers, NEW frame \in Frames,
         \/ PublishCopy(p, k, frame) \/ PublishSend(p) \/ UnsubscribeAll(k) \/ Clear \/ UNCHANGED hubVars
  PROVE  HubTypeOK'
<1>1. CASE PublishCopy(p, k, frame)
  <2>1. sending' \in [Publishers -> [frame : Frames \cup {NoFrame}, to : SUBSET Streams]]
    BY <1>1, SendingType DEF PublishCopy, HubTypeOK
  <2> QED BY <1>1, <2>1 DEF PublishCopy, HubTypeOK
<1>2. CASE PublishSend(p)
  <2>1. PICK s \in sending[p].to : /\ Sending(p, sending[p].frame, sending[p].to \ {s})
                                   /\ Deliver(s, sending[p].frame) /\ UNCHANGED <<subs, lastFrame>>
    BY <1>2 DEF PublishSend
  <2>2. sending[p].frame \in Frames \cup {NoFrame} /\ sending[p].to \subseteq Streams
    BY DEF HubTypeOK
  <2>3. sending' \in [Publishers -> [frame : Frames \cup {NoFrame}, to : SUBSET Streams]]
    BY <2>1, <2>2, SendingType
  <2>4. stream' \in [Streams -> Seen]
    BY <2>1, <2>2, SeenType
  <2> QED BY <2>1, <2>3, <2>4 DEF HubTypeOK
<1>3. CASE UnsubscribeAll(k) \/ Clear
  BY <1>3 DEF UnsubscribeAll, Clear, HubTypeOK
<1>4. CASE UNCHANGED hubVars
  BY <1>4 DEF hubVars, HubTypeOK
<1> QED BY <1>1, <1>2, <1>3, <1>4

LEMMA HubStreamType ==
  ASSUME HubTypeOK, NEW k \in Keys, NEW s \in Streams, NEW frame \in Frames \cup {NoFrame},
         Subscribe(s, k) \/ Unsubscribe(s, k) \/ Replay(s, frame)
  PROVE  HubTypeOK'
<1>1. CASE Subscribe(s, k) \/ Unsubscribe(s, k)
  BY <1>1 DEF Subscribe, Unsubscribe, HubTypeOK
<1>2. CASE Replay(s, frame)
  BY <1>2, SeenType DEF Replay, HubTypeOK
<1> QED BY <1>1, <1>2

LEMMA DiagType ==
  ASSUME DiagTypeOK, NEW o \in Observers, NEW p \in Producers,
         \/ PushEvent(p) \/ CountEvent \/ Attach(o) \/ Detach(o) \/ TakeEvent \/ Notified(o)
         \/ DoneEvent \/ UNCHANGED diagVars
  PROVE  DiagTypeOK'
<1> USE DEF DiagTypeOK
<1>1. CASE PushEvent(p)
  BY <1>1 DEF PushEvent
<1>2. CASE TakeEvent
  BY <1>2, HeadTailProperties DEF TakeEvent
<1>3. CASE CountEvent
  BY <1>3 DEF CountEvent
<1>5. CASE Attach(o) \/ Detach(o)
  BY <1>5 DEF Attach, Detach
<1>6. CASE Notified(o)
  BY <1>6 DEF Notified
<1>7. CASE DoneEvent
  <2>1. busy' \in BOOLEAN
    BY <1>7 DEF DoneEvent
  <2>2. processed' \in Nat /\ UNCHANGED <<queue, enqueued, observers, current>>
    BY <1>7 DEF DoneEvent
  <2> QED BY <2>1, <2>2
<1>4. CASE UNCHANGED diagVars
  BY <1>4 DEF diagVars
<1> QED BY <1>1, <1>2, <1>3, <1>4, <1>5, <1>6, <1>7

-----------------------------------------------------------------------------
(* The whole service.                                                       *)

LEMMA TypeInit == ASSUME Init PROVE TypeOK
<1>1. ContextTypeOK
  BY DEF Init, ContextInit, ContextTypeOK, ExecStates
<1>2. HubTypeOK
  BY DEF Init, HubInit, HubTypeOK, Seen, Silent
<1>3. DiagTypeOK
  <2>1. queue = <<>> /\ enqueued = 0 /\ processed = 0 /\ observers = {} /\ current = {} /\ busy = FALSE
    BY DEF Init, DiagInit
  <2>2. queue \in Seq(Producers)
    BY <2>1
  <2>3. observers \subseteq Observers /\ current \subseteq Observers
    BY <2>1
  <2>4. enqueued \in Nat /\ processed \in Nat
    BY <2>1
  <2> QED BY <2>1, <2>2, <2>3, <2>4 DEF DiagTypeOK
<1>4. WebTypeOK
  BY DEF Init, WebTypeOK, TaskStates, WorkerPcs
<1> QED BY <1>1, <1>2, <1>3, <1>4, TypeParts

\* What the steps of the worker of task t are made of.
LEMMA WorkerParts ==
  ASSUME TypeOK, NEW t \in Tasks, WorkerStep(t)
  PROVE  /\ \/ Abort \/ PauseSolve \/ ResumeSolve \/ SetHandle(NoTask) \/ PublishExecutor(t)
            \/ StartExecutor(t) \/ EndExecutor(t) \/ (\E type \in EventTypes : Record(t, type)) \/ UNCHANGED ctxtVars
         /\ \/ (\E frame \in Frames : PublishCopy(Worker(t), t, frame)) \/ UnsubscribeAll(t) \/ UNCHANGED hubVars
         /\ \/ PushEvent(t) \/ CountEvent \/ Attach(t) \/ Detach(t) \/ UNCHANGED diagVars
         /\ \E to \in WorkerPcs : wpc' = [wpc EXCEPT ![t] = to]
         /\ tstate' = tstate \/ (\E v \in TaskStates : tstate' = [tstate EXCEPT ![t] = v])
         /\ payload' = payload \/ (\E w \in {"result", "error"} : payload' = [payload EXCEPT ![t] = w])
         /\ finished' = finished \/ finished' = [finished EXCEPT ![t] = TRUE]
         /\ target' = target \/ target' = [target EXCEPT ![t] = enqueued]
         /\ spc' = spc \/ (\E v \in {"off", "on"} : spc' = [spc EXCEPT ![t] = v])
         /\ UNCHANGED <<table, nextId, cpc, carg, rpc, replay, joined, kind, mpc>>
<1> USE DEF Goes, WorkGoto, WorkContext, WorkHub, WorkDiag, RecordAnd, SetSampler, Outside, taskVars, tableVars,
            callVars, streamVars, others, WorkerPcs, Tell, EventTypes, Frames, Terminals, TaskStates
<1>1. CASE BeforeSolve(t)
  BY <1>1 DEF BeforeSolve, CheckCancelled, FlushLoad, OnStart
<1>2. CASE Solve(t)
  BY <1>2 DEF Solve, OnStart
<1>3. CASE Throw(t)
  BY <1>3 DEF Throw
<1>4. CASE AfterSolve(t)
  BY <1>4 DEF AfterSolve, FlushLoad, FlushWait, StopSampler
<1>5. CASE CommitCompleted(t)
  BY <1>5 DEF CommitCompleted, Store, Conclude
<1>6. CASE CommitFailed(t)
  BY <1>6 DEF CommitFailed, Store, Conclude, StopSampler
<1>7. CASE CommitCancelled(t) \/ Finish(t) \/ (Told(t) /\ WorkHub(t, "hush", "finish", UnsubscribeAll(t)))
  BY <1>7 DEF CommitCancelled, Finish
<1> QED BY <1>1, <1>2, <1>3, <1>4, <1>5, <1>6, <1>7 DEF WorkerStep

LEMMA WorkerType ==
  ASSUME TypeOK, NEW t \in Tasks, WorkerStep(t)
  PROVE  TypeOK'
<1>1. t \in Keys /\ t \in Producers /\ t \in Observers /\ Worker(t) \in Publishers
  BY WebAssumption DEF ThePublishers
<1>2. ContextTypeOK'
  <2>1. PICK type \in EventTypes :
           \/ Abort \/ PauseSolve \/ ResumeSolve \/ SetHandle(NoTask) \/ PublishExecutor(t)
           \/ StartExecutor(t) \/ EndExecutor(t) \/ Record(t, type) \/ UNCHANGED ctxtVars
    BY WorkerParts DEF EventTypes
  <2> QED BY <2>1, ContextType, TypeParts
<1>3. HubTypeOK'
  <2>1. PICK frame \in Frames : PublishCopy(Worker(t), t, frame) \/ UnsubscribeAll(t) \/ UNCHANGED hubVars
    BY WorkerParts DEF Frames
  <2> QED BY <1>1, <2>1, HubType, TypeParts
<1>4. DiagTypeOK'
  BY <1>1, WorkerParts, DiagType, TypeParts
<1>5. WebTypeOK'
  <2>1. UNCHANGED <<table, nextId, cpc, carg, rpc, replay, joined, kind, mpc>>
    BY WorkerParts
  <2>2. wpc' \in [Tasks -> WorkerPcs] /\ tstate' \in [Tasks -> TaskStates]
        /\ payload' \in [Tasks -> {"none", "result", "error"}]
    BY WorkerParts DEF TypeOK
  <2>3. finished' \in [Tasks -> BOOLEAN]
    BY WorkerParts DEF TypeOK
  <2>4. target' \in [Tasks -> Nat]
    <3>1. enqueued \in Nat /\ target \in [Tasks -> Nat]
      BY DEF TypeOK, DiagTypeOK
    <3>2. target' = target \/ target' = [target EXCEPT ![t] = enqueued]
      BY WorkerParts
    <3> QED BY <3>1, <3>2
  <2>5. spc' \in [Tasks -> {"off", "on", "sent"}]
    BY WorkerParts DEF TypeOK
  <2> QED BY <2>1, <2>2, <2>3, <2>4, <2>5, TypeParts DEF WebTypeOK
<1> QED BY <1>2, <1>3, <1>4, <1>5, TypePartsNext

LEMMA CallerType ==
  ASSUME TypeOK, NEW c \in Callers, CallerCall(c) \/ CallerStep(c)
  PROVE  TypeOK'
<1> USE DEF WebTypeOK, Call, Step, taskVars, workVars, streamVars, callVars, tableVars, others
<1>1. CASE Reserve(c)
  <2>1. UNCHANGED ctxtVars /\ UNCHANGED hubVars /\ UNCHANGED diagVars
    BY <1>1 DEF Reserve
  <2>2. ContextTypeOK' /\ HubTypeOK' /\ DiagTypeOK'
    BY <2>1, TypeParts DEF ContextTypeOK, HubTypeOK, DiagTypeOK, ctxtVars, hubVars, diagVars
  <2>3. nextId \in Tasks /\ nextId' = nextId + 1 /\ table' = (table \ Reapable) \cup {nextId}
        /\ tstate' = [tstate EXCEPT ![nextId] = "Running"]
        /\ UNCHANGED <<payload, finished, wpc, target, spc, rpc, replay, joined, kind, mpc>>
        /\ cpc' = [cpc EXCEPT ![c] = "spawn"] /\ carg' = [carg EXCEPT ![c] = nextId]
    BY <1>1 DEF Reserve
  <2>4. WebTypeOK'
    BY <2>3, TypeParts DEF TaskStates
  <2> QED BY <2>2, <2>4, TypePartsNext
<1>2. ASSUME NEW t \in Tasks, Cancel(c, t) \/ Pause(c, t) \/ Resume(c, t)
      PROVE  TypeOK'
  <2>1. UNCHANGED ctxtVars /\ UNCHANGED hubVars /\ UNCHANGED diagVars
    BY <1>2 DEF Cancel, Pause, Resume, Swap
  <2>2. ContextTypeOK' /\ HubTypeOK' /\ DiagTypeOK'
    BY <2>1, TypeParts DEF ContextTypeOK, HubTypeOK, DiagTypeOK, ctxtVars, hubVars, diagVars
  <2>3. WebTypeOK'
    BY <1>2, TypeParts DEF Cancel, Pause, Resume, Swap, TaskStates
  <2> QED BY <2>2, <2>3, TypePartsNext
<1>3. CASE Spawn(c)
  <2>1. UNCHANGED ctxtVars /\ UNCHANGED hubVars /\ UNCHANGED diagVars
    BY <1>3 DEF Spawn
  <2>2. ContextTypeOK' /\ HubTypeOK' /\ DiagTypeOK'
    BY <2>1, TypeParts DEF ContextTypeOK, HubTypeOK, DiagTypeOK, ctxtVars, hubVars, diagVars
  <2>3. WebTypeOK'
    BY <1>3, TypeParts DEF Spawn, WorkerPcs
  <2> QED BY <2>2, <2>3, TypePartsNext
<1>4. ASSUME NEW from, NEW to \in {"idle", "again", "refreeze"},
             ContextCall(c, from, to, Abort) \/ ContextCall(c, from, to, PauseSolve) \/ ContextCall(c, from, to, ResumeSolve)
      PROVE  TypeOK'
  <2>1. (Abort \/ PauseSolve \/ ResumeSolve) /\ UNCHANGED hubVars /\ UNCHANGED diagVars
    BY <1>4 DEF ContextCall
  <2>2. ContextTypeOK'
    BY <2>1, TypeParts DEF Abort, PauseSolve, ResumeSolve, Flip, ContextTypeOK, ExecStates
  <2>3. HubTypeOK' /\ DiagTypeOK'
    BY <2>1, TypeParts DEF HubTypeOK, DiagTypeOK, hubVars, diagVars
  <2>4. WebTypeOK'
    BY <1>4, TypeParts DEF ContextCall
  <2> QED BY <2>2, <2>3, <2>4, TypePartsNext
<1> QED BY <1>1, <1>2, <1>3, <1>4 DEF CallerCall, CallerStep

LEMMA StreamType ==
  ASSUME TypeOK, NEW s \in Streams, StreamStep(s)
  PROVE  TypeOK'
<1>1. /\ UNCHANGED <<ctxtVars, diagVars, tableVars, taskVars, workVars, callVars, others>>
      /\ \E to \in {"replay", "status", "open", "orphan", "closed"} : rpc' = [rpc EXCEPT ![s] = to]
  BY DEF StreamStep, EventsOpen, EventsReplay, EventsStatus, EventsClose, EventsStep
<1>2. ContextTypeOK' /\ DiagTypeOK'
  BY <1>1, TypeParts DEF ContextTypeOK, DiagTypeOK, ctxtVars, diagVars
<1>3. /\ HubTypeOK'
      /\ replay' \in [Streams -> Frames \cup {NoFrame}] /\ joined' \in [Streams -> Tasks \cup {NoTask}]
  <2>1. CASE EventsOpen(s)
    <3>1. PICK t \in table : /\ Subscribe(s, t)
                             /\ replay' = [replay EXCEPT ![s] = lastFrame[t]] /\ joined' = [joined EXCEPT ![s] = t]
      BY <2>1 DEF EventsOpen
    <3>2. t \in Tasks /\ t \in Keys
      BY WebAssumption DEF TypeOK
    <3>3. lastFrame[t] \in Frames \cup {NoFrame}
      BY <3>2 DEF TypeOK, HubTypeOK
    <3>4. HubTypeOK'
      <4>1. NoFrame \in Frames \cup {NoFrame}
        OBVIOUS
      <4> QED BY <3>1, <3>2, <4>1, HubStreamType, TypeParts
    <3> QED BY <3>1, <3>2, <3>3, <3>4 DEF TypeOK
  <2>2. CASE EventsReplay(s)
    <3>1. Replay(s, replay[s]) /\ UNCHANGED <<replay, joined>> /\ replay[s] \in Frames \cup {NoFrame}
      BY <2>2 DEF EventsReplay, TypeOK
    <3>2. HubTypeOK'
      BY <3>1, SeenType, TypeParts DEF Replay, HubTypeOK
    <3> QED BY <3>1, <3>2 DEF TypeOK
  <2>3. CASE EventsStatus(s)
    <3>1. PICK frame \in Frames \cup {NoFrame} : Replay(s, frame) /\ UNCHANGED <<replay, joined>>
      BY <2>3 DEF EventsStatus, Frames
    <3>2. HubTypeOK'
      BY <3>1, SeenType, TypeParts DEF Replay, HubTypeOK
    <3> QED BY <3>1, <3>2 DEF TypeOK
  <2>4. CASE EventsClose(s)
    <3>1. Unsubscribe(s, joined[s]) /\ UNCHANGED <<replay, joined>>
      BY <2>4 DEF EventsClose
    <3>2. HubTypeOK'
      BY <3>1, TypeParts DEF Unsubscribe, HubTypeOK
    <3> QED BY <3>1, <3>2 DEF TypeOK
  <2> QED BY <2>1, <2>2, <2>3, <2>4 DEF StreamStep
<1>4. WebTypeOK'
  BY <1>1, <1>3, TypeParts DEF WebTypeOK, tableVars, taskVars, workVars, callVars, others
<1> QED BY <1>2, <1>3, <1>4, TypePartsNext

LEMMA RestType ==
  ASSUME TypeOK,
         \/ \E t \in Tasks : SamplerFrame(t)
         \/ Publishing \/ DispatchStep \/ MainStep \/ UNCHANGED vars
  PROVE  TypeOK'
<1> USE DEF WebTypeOK, tableVars, taskVars, workVars, callVars, streamVars, others
<1>1. ASSUME NEW t \in Tasks, SamplerFrame(t) PROVE TypeOK'
  <2>1. Sampler(t) \in Publishers /\ t \in Keys /\ "progress" \in Frames
    BY WebAssumption DEF ThePublishers, Frames
  <2>2. HubTypeOK'
    BY <1>1, <2>1, HubType, TypeParts DEF SamplerFrame
  <2>3. UNCHANGED ctxtVars /\ UNCHANGED diagVars
    BY <1>1 DEF SamplerFrame
  <2>4. ContextTypeOK' /\ DiagTypeOK'
    BY <2>3, TypeParts DEF ContextTypeOK, DiagTypeOK, ctxtVars, diagVars
  <2>5. WebTypeOK'
    BY <1>1, TypeParts DEF SamplerFrame
  <2> QED BY <2>2, <2>4, <2>5, TypePartsNext
<1>2. CASE Publishing
  <2>1. PICK p \in Publishers : PublishSend(p) /\ UNCHANGED <<ctxtVars, diagVars, webVars>>
    BY <1>2 DEF Publishing
  <2>2. HubTypeOK'
    <3>1. PICK s \in sending[p].to : /\ Sending(p, sending[p].frame, sending[p].to \ {s})
                                     /\ Deliver(s, sending[p].frame) /\ UNCHANGED <<subs, lastFrame>>
      BY <2>1 DEF PublishSend
    <3>2. HubTypeOK /\ sending[p].frame \in Frames \cup {NoFrame} /\ sending[p].to \subseteq Streams /\ s \in Streams
      BY TypeParts DEF HubTypeOK
    <3>3. sending' \in [Publishers -> [frame : Frames \cup {NoFrame}, to : SUBSET Streams]]
      BY <3>1, <3>2, SendingType
    <3>4. stream' \in [Streams -> Seen]
      BY <3>1, <3>2, SeenType
    <3> QED BY <3>1, <3>2, <3>3, <3>4 DEF HubTypeOK
  <2>3. ContextTypeOK' /\ DiagTypeOK'
    BY <2>1, TypeParts DEF ContextTypeOK, DiagTypeOK, ctxtVars, diagVars
  <2>4. WebTypeOK'
    BY <2>1, TypeParts DEF webVars
  <2> QED BY <2>2, <2>3, <2>4, TypePartsNext
<1>3. CASE DispatchStep
  <2>1. UNCHANGED ctxtVars /\ UNCHANGED webVars
    BY <1>3 DEF DispatchStep, DispatchTake, DispatchFrame, DispatchDone
  <2>2. ContextTypeOK' /\ WebTypeOK'
    BY <2>1, TypeParts DEF ContextTypeOK, ctxtVars, webVars
  <2>3. HubTypeOK'
    <3>1. CASE DispatchFrame
      <4>1. PICK o \in current : Tell(Dispatcher, o, "diag")
        BY <3>1 DEF DispatchFrame
      <4>2. o \in Keys /\ Dispatcher \in Publishers /\ "diag" \in Frames
        BY WebAssumption DEF TypeOK, DiagTypeOK, ThePublishers, Frames
      <4> QED BY <4>1, <4>2, HubType, TypeParts DEF Tell
    <3>2. CASE DispatchTake \/ DispatchDone
      BY <3>2, TypeParts DEF DispatchTake, DispatchDone, hubVars, HubTypeOK
    <3> QED BY <1>3, <3>1, <3>2 DEF DispatchStep
  <2>4. DiagTypeOK'
    <3>1. DiagTypeOK
      BY TypeParts
    <3>2. CASE DispatchTake
      BY <3>1, <3>2, HeadTailProperties DEF DispatchTake, TakeEvent, DiagTypeOK
    <3>3. CASE DispatchFrame
      BY <3>1, <3>3 DEF DispatchFrame, Notified, DiagTypeOK
    <3>4. CASE DispatchDone
      <4>1. busy' \in BOOLEAN
        BY <3>4 DEF DispatchDone, DoneEvent
      <4>2. processed' \in Nat /\ UNCHANGED <<queue, enqueued, observers, current>>
        BY <3>1, <3>4 DEF DispatchDone, DoneEvent, DiagTypeOK
      <4> QED BY <3>1, <4>1, <4>2 DEF DiagTypeOK
    <3> QED BY <1>3, <3>2, <3>3, <3>4 DEF DispatchStep
  <2> QED BY <2>2, <2>3, <2>4, TypePartsNext
<1>4. CASE MainStep
  <2>1. ContextTypeOK'
    <3>1. Abort \/ UNCHANGED ctxtVars
      BY <1>4 DEF MainStep, ShutAdvance, ShutDown, ShutClear, ShutMark, ShutAbort, ShutStopPolling, ShutJoin
    <3> QED BY <3>1, TypeParts DEF Abort, ContextTypeOK, ExecStates, ctxtVars
  <2>2. HubTypeOK'
    <3>1. Clear \/ UNCHANGED hubVars
      BY <1>4 DEF MainStep, ShutAdvance, ShutDown, ShutClear, ShutMark, ShutAbort, ShutStopPolling, ShutJoin
    <3> QED BY <3>1, TypeParts DEF Clear, HubTypeOK, hubVars
  <2>3. DiagTypeOK'
    <3>1. UNCHANGED diagVars
      BY <1>4 DEF MainStep, ShutAdvance, ShutDown, ShutClear, ShutMark, ShutAbort, ShutStopPolling, ShutJoin
    <3> QED BY <3>1, TypeParts DEF DiagTypeOK, diagVars
  <2>4. WebTypeOK'
    BY <1>4, TypeParts DEF MainStep, ShutAdvance, ShutDown, ShutClear, ShutMark, ShutAbort, ShutStopPolling,
      ShutJoin, MainGoes, TaskStates
  <2> QED BY <2>1, <2>2, <2>3, <2>4, TypePartsNext
<1>5. CASE UNCHANGED vars
  BY <1>5 DEF vars, ctxtVars, hubVars, diagVars, webVars, TypeOK, ContextTypeOK, HubTypeOK, DiagTypeOK
<1> QED BY <1>1, <1>2, <1>3, <1>4, <1>5

LEMMA TypeStep == ASSUME TypeOK, [Next]_vars PROVE TypeOK'
<1>1. CASE \E c \in Callers : CallerCall(c) \/ CallerStep(c)
  BY <1>1, CallerType
<1>2. CASE \E s \in Streams : StreamStep(s)
  BY <1>2, StreamType
<1>3. CASE \E t \in Tasks : WorkerStep(t)
  BY <1>3, WorkerType
<1>4. CASE \/ \E t \in Tasks : SamplerFrame(t)
           \/ Publishing \/ DispatchStep \/ MainStep \/ UNCHANGED vars
  BY <1>4, RestType
<1> QED BY <1>1, <1>2, <1>3, <1>4 DEF Next
-----------------------------------------------------------------------------
(* A service with one task: the counters of flush() then count its events   *)
(* alone, and its worker is the last to publish.                            *)

OneTask == \A t, u \in Tasks : t = u

\* The places of a worker whose sampler has been joined, and of one that has
\* waited for its events; the verdict Completed keeps what they brought.
Unsampled == {"drain", "draining", "detach", "store", "cas", "record"}
Flushing == {"detach", "store", "cas", "record"}

\* The events in the queue and the one being dispatched are counted, but for
\* one that a worker is about to count.
EventsCounted ==
  \A t \in Tasks : Len(queue) + processed + (IF busy THEN 1 ELSE 0)
                     = enqueued + (IF wpc[t] = "count" THEN 1 ELSE 0)

ExitInv ==
  /\ EventsCounted
  /\ current # {} => busy
  /\ \A t \in Tasks : wpc[t] = "draining" => target[t] = enqueued
  /\ \A t \in Tasks : wpc[t] \in Flushing \/ tstate[t] = "Completed" => processed = enqueued

\* Who is silent when, up to the terminal frame of a completed task.
QuietInv ==
  /\ ~busy => sending[Dispatcher] = Silent
  /\ \A t \in Tasks : wpc[t] \notin {"sample", "hush"} => sending[Worker(t)] = Silent
  /\ \A t \in Tasks : wpc[t] \in Unsampled \/ tstate[t] = "Completed" =>
       spc[t] = "off" /\ sending[Sampler(t)] = Silent

\* A task that has published Completed.
Announced(t) == tstate[t] = "Completed" /\ wpc[t] # "record"
FrameInv ==
  \A t \in Tasks : Announced(t) =>
    /\ mpc = "serving" => lastFrame[t] = "completed"
    /\ sending[Worker(t)].to # {} => sending[Worker(t)].frame = "completed"

\* A stream that is, or will be, given the frames of its task.
Listening(s) == rpc[s] \in {"replay", "status", "open"}
GetsEnd(s) ==
  \/ s \in sending[Worker(joined[s])].to
  \/ rpc[s] = "replay" /\ replay[s] = "completed"
  \/ stream[s] \in {"ended", "overrun"}

EndInv ==
  mpc = "serving" => \A s \in Streams : Listening(s) =>
    /\ joined[s] \in Tasks
    /\ wpc[joined[s]] \notin {"finish", "done"} => s \in subs[joined[s]]
    /\ Announced(joined[s]) => GetsEnd(s)

-----------------------------------------------------------------------------
(* Every event is counted, and flush() waits for all of them.               *)

LEMMA ExitInit ==
  ASSUME Init
  PROVE  ExitInv /\ QuietInv /\ FrameInv /\ EndInv
<1>1. ExitInv
  <2>1. queue = <<>> /\ enqueued = 0 /\ processed = 0 /\ current = {} /\ busy = FALSE
    BY DEF Init, DiagInit
  <2>2. \A t \in Tasks : wpc[t] = "none" /\ tstate[t] = "none"
    BY DEF Init
  <2>3. Len(queue) = 0
    BY <2>1
  <2>4. EventsCounted
    <3>1. (IF busy THEN 1 ELSE 0) = 0
      BY <2>1
    <3>2. \A t \in Tasks : (IF wpc[t] = "count" THEN 1 ELSE 0) = 0
      BY <2>2
    <3>3. Len(queue) + processed + 0 = enqueued + 0
      BY <2>1, <2>3
    <3> QED BY <3>1, <3>2, <3>3 DEF EventsCounted
  <2> QED BY <2>1, <2>2, <2>4 DEF ExitInv, Flushing
<1>2. QuietInv
  BY WebAssumption DEF Init, DiagInit, HubInit, QuietInv, ThePublishers, Unsampled
<1>3. FrameInv /\ EndInv
  BY DEF Init, FrameInv, EndInv, Announced, Listening
<1> QED BY <1>1, <1>2, <1>3

\* A verdict is committed by the worker alone, and its thread starts once.
LEMMA OthersDoNotConclude ==
  ASSUME TypeOK, WebInv, [Next]_vars, \A t \in Tasks : ~WorkerStep(t)
  PROVE  \A t \in Tasks :
           /\ wpc'[t] = wpc[t] \/ (wpc[t] = "none" /\ wpc'[t] \in {"gate", "peek"})
           /\ tstate'[t] = "Completed" => tstate[t] = "Completed"
<1> SUFFICES ASSUME NEW t \in Tasks
             PROVE  /\ wpc'[t] = wpc[t] \/ (wpc[t] = "none" /\ wpc'[t] \in {"gate", "peek"})
                    /\ tstate'[t] = "Completed" => tstate[t] = "Completed"
  OBVIOUS
<1>1. CASE UNCHANGED core
  BY <1>1 DEF core
<1>2. ASSUME NEW c \in Callers, CallerCall(c) \/ CallerStep(c)
      PROVE  /\ wpc'[t] = wpc[t] \/ (wpc[t] = "none" /\ wpc'[t] \in {"gate", "peek"})
             /\ tstate'[t] = "Completed" => tstate[t] = "Completed"
  <2>1. CASE Spawn(c)
    <3>1. carg[c] \in Tasks /\ wpc[carg[c]] = "none" /\ UNCHANGED tstate
      BY <2>1 DEF Spawn, Step, WebInv, SpawnsOwn, CoreTypes, taskVars
    <3>2. \E to \in {"gate", "peek"} : wpc' = [wpc EXCEPT ![carg[c]] = to]
      BY <2>1 DEF Spawn
    <3> QED BY <3>1, <3>2 DEF TypeOK
  <2>2. CASE Reserve(c)
    BY <2>2 DEF Reserve, workVars, TypeOK
  <2>3. CASE \E u \in Tasks : Cancel(c, u) \/ Pause(c, u) \/ Resume(c, u)
    BY <2>3 DEF Cancel, Pause, Resume, Swap, workVars, TypeOK
  <2>4. CASE CallerStep(c) /\ ~Spawn(c)
    BY <2>4 DEF CallerStep, ContextCall, workVars, taskVars
  <2> QED BY <1>2, <2>1, <2>2, <2>3, <2>4 DEF CallerCall
<1>3. CASE ShutMark
  BY <1>3 DEF ShutMark, workVars, TypeOK
<1>4. CASE UNCHANGED vars
  BY <1>4 DEF vars, webVars
<1> QED BY <1>1, <1>2, <1>3, <1>4, OthersAreQuiet DEF Next, MainStep, ShutAdvance

\* What a worker does to the queue of events, at which places.
DiagMove(t) ==
  \/ Goes(t, "exit", "count") /\ PushEvent(t) /\ UNCHANGED <<tstate, target>>
  \/ Goes(t, "count", "unguard") /\ CountEvent /\ UNCHANGED <<tstate, target>>
  \/ /\ Goes(t, "drain", "draining") /\ target' = [target EXCEPT ![t] = enqueued]
     /\ UNCHANGED <<diagVars, tstate>>
  \/ Goes(t, "draining", "detach") /\ processed >= target[t] /\ UNCHANGED <<diagVars, tstate, target>>
  \/ Goes(t, "detach", "store") /\ Detach(t) /\ UNCHANGED <<tstate, target>>
  \/ Goes(t, "store", "cas") /\ UNCHANGED <<diagVars, tstate, target>>
  \/ /\ Goes(t, "cas", "record") /\ tstate' = [tstate EXCEPT ![t] = "Completed"]
     /\ UNCHANGED <<diagVars, target>>
  \/ /\ wpc[t] # "count"
     /\ \E to \in WorkerPcs \ ({"count", "draining"} \cup Flushing) : Goes(t, wpc[t], to)
     /\ Attach(t) \/ UNCHANGED diagVars
     /\ tstate'[t] = "Completed" => tstate[t] = "Completed"

LEMMA WorkerDiag == ASSUME TypeOK, NEW t \in Tasks, WorkerStep(t) PROVE DiagMove(t)
<1> USE DEF Goes, WorkGoto, WorkContext, WorkHub, WorkDiag, RecordAnd, SetSampler, Outside, taskVars,
            WorkerPcs, DiagMove, Flushing
<1>1. CASE BeforeSolve(t)
  BY <1>1 DEF BeforeSolve, CheckCancelled, FlushLoad, OnStart
<1>2. CASE Solve(t)
  BY <1>2 DEF Solve, OnStart
<1>3. CASE Throw(t)
  BY <1>3 DEF Throw
<1>4. CASE AfterSolve(t)
  BY <1>4 DEF AfterSolve, FlushLoad, FlushWait, StopSampler, Flushed
<1>5. CASE CommitCompleted(t)
  BY <1>5 DEF CommitCompleted, Store, Conclude
<1>6. CASE CommitFailed(t)
  BY <1>6 DEF CommitFailed, Store, Conclude, StopSampler, TypeOK
<1>7. CASE CommitCancelled(t) \/ Finish(t) \/ (Told(t) /\ WorkHub(t, "hush", "finish", UnsubscribeAll(t)))
  BY <1>7 DEF CommitCancelled, Finish
<1> QED BY <1>1, <1>2, <1>3, <1>4, <1>5, <1>6, <1>7 DEF WorkerStep

LEMMA ExitCalm ==
  ASSUME ExitInv, UNCHANGED <<queue, enqueued, processed, busy, current, target>>,
         \A t \in Tasks : /\ wpc'[t] = wpc[t] \/ (wpc[t] \notin {"count"} \cup Flushing
                                                   /\ wpc'[t] \notin {"count", "draining"} \cup Flushing)
                          /\ tstate'[t] = "Completed" => tstate[t] = "Completed"
  PROVE  ExitInv'
<1>1. EventsCounted'
  <2>1. \A t \in Tasks : (IF wpc'[t] = "count" THEN 1 ELSE 0) = (IF wpc[t] = "count" THEN 1 ELSE 0)
    OBVIOUS
  <2> QED BY <2>1 DEF ExitInv, EventsCounted
<1>2. (\A t \in Tasks : wpc[t] = "draining" => target[t] = enqueued)'
  BY DEF ExitInv
<1>3. (\A t \in Tasks : wpc[t] \in Flushing \/ tstate[t] = "Completed" => processed = enqueued)'
  BY DEF ExitInv, Flushing
<1> QED BY <1>1, <1>2, <1>3 DEF ExitInv

LEMMA ExitWorker ==
  ASSUME OneTask, TypeOK, WebInv, ExitInv, NEW t \in Tasks, WorkerStep(t)
  PROVE  ExitInv'
<1>1. DiagMove(t)
  BY WorkerDiag
<1>2. /\ queue \in Seq(Producers) /\ enqueued \in Nat /\ processed \in Nat /\ Len(queue) \in Nat
      /\ wpc \in [Tasks -> WorkerPcs] /\ tstate \in [Tasks -> TaskStates] /\ target \in [Tasks -> Nat]
  BY DEF TypeOK, DiagTypeOK
<1>3. \A u \in Tasks : u = t
  BY DEF OneTask
<1>4. \A from, to : Goes(t, from, to) => wpc[t] = from /\ wpc'[t] = to
  BY <1>2 DEF Goes
<1>5. EventsCounted <=> Len(queue) + processed + (IF busy THEN 1 ELSE 0)
                          = enqueued + (IF wpc[t] = "count" THEN 1 ELSE 0)
  BY <1>3 DEF EventsCounted
<1>6. EventsCounted' <=> Len(queue') + processed' + (IF busy' THEN 1 ELSE 0)
                           = enqueued' + (IF wpc'[t] = "count" THEN 1 ELSE 0)
  BY <1>3 DEF EventsCounted
<1>7. EventsCounted /\ (current # {} => busy) /\ (wpc[t] = "draining" => target[t] = enqueued)
      /\ (wpc[t] \in Flushing \/ tstate[t] = "Completed" => processed = enqueued)
  BY DEF ExitInv
<1>8. ExitInv' <=> /\ EventsCounted' /\ (current' # {} => busy') /\ (wpc'[t] = "draining" => target'[t] = enqueued')
                   /\ (wpc'[t] \in Flushing \/ tstate'[t] = "Completed" => processed' = enqueued')
  BY <1>3 DEF ExitInv
<1>9. CASE Goes(t, "exit", "count") /\ PushEvent(t) /\ UNCHANGED <<tstate, target>>
  <2>1. Len(queue') = Len(queue) + 1
    BY <1>2, <1>9, AppendProperties, WebAssumption DEF PushEvent
  <2>2. UNCHANGED <<enqueued, processed, busy, current, tstate>>
    BY <1>9 DEF PushEvent
  <2>3. wpc[t] = "exit" /\ wpc'[t] = "count"
    BY <1>4, <1>9
  <2>4. (IF wpc'[t] = "count" THEN 1 ELSE 0) = 1 /\ (IF wpc[t] = "count" THEN 1 ELSE 0) = 0
    BY <2>3
  <2>5. EventsCounted'
    BY <1>2, <1>5, <1>6, <1>7, <2>1, <2>2, <2>4
  <2> QED BY <1>7, <1>8, <2>2, <2>3, <2>5 DEF Flushing
<1>10. CASE Goes(t, "count", "unguard") /\ CountEvent /\ UNCHANGED <<tstate, target>>
  <2>1. UNCHANGED <<queue, processed, busy, current, tstate>> /\ enqueued' = enqueued + 1
    BY <1>10 DEF CountEvent
  <2>2. wpc[t] = "count" /\ wpc'[t] = "unguard"
    BY <1>4, <1>10
  <2>3. (IF wpc[t] = "count" THEN 1 ELSE 0) = 1 /\ (IF wpc'[t] = "count" THEN 1 ELSE 0) = 0
    BY <2>2
  <2>4. EventsCounted'
    BY <1>2, <1>5, <1>6, <1>7, <2>1, <2>3
  <2>5. tstate[t] # "Completed"
    BY <2>2 DEF WebInv, Claims, ClaimOf, Claim, Ending
  <2> QED BY <1>7, <1>8, <2>1, <2>2, <2>4, <2>5 DEF Flushing
<1>11. CASE /\ Goes(t, "drain", "draining") /\ target' = [target EXCEPT ![t] = enqueued]
            /\ UNCHANGED <<diagVars, tstate>>
  <2>1. UNCHANGED <<queue, enqueued, processed, busy, current, tstate>> /\ target'[t] = enqueued
    BY <1>2, <1>11 DEF diagVars
  <2>2. wpc[t] = "drain" /\ wpc'[t] = "draining"
    BY <1>4, <1>11
  <2>3. EventsCounted'
    BY <1>5, <1>6, <1>7, <2>1, <2>2
  <2> QED BY <1>7, <1>8, <2>1, <2>2, <2>3 DEF Flushing
<1>12. CASE /\ Goes(t, "draining", "detach") /\ processed >= target[t]
            /\ UNCHANGED <<diagVars, tstate, target>>
  <2>1. UNCHANGED <<queue, enqueued, processed, busy, current, tstate>>
    BY <1>12 DEF diagVars
  <2>2. wpc[t] = "draining" /\ wpc'[t] = "detach"
    BY <1>4, <1>12
  <2>3. processed >= enqueued
    BY <1>7, <1>12, <2>2
  <2>4. (IF wpc[t] = "count" THEN 1 ELSE 0) = 0 /\ (IF busy THEN 1 ELSE 0) \in {0, 1}
    BY <2>2
  <2>5. processed = enqueued
    BY <1>2, <1>5, <1>7, <2>3, <2>4
  <2>6. EventsCounted'
    BY <1>5, <1>6, <1>7, <2>1, <2>2
  <2> QED BY <1>7, <1>8, <2>1, <2>2, <2>5, <2>6 DEF Flushing
<1>13. CASE Goes(t, "detach", "store") /\ Detach(t) /\ UNCHANGED <<tstate, target>>
  <2>1. UNCHANGED <<queue, enqueued, processed, busy, current, tstate>>
    BY <1>13 DEF Detach
  <2>2. wpc[t] = "detach" /\ wpc'[t] = "store"
    BY <1>4, <1>13
  <2>3. EventsCounted'
    BY <1>5, <1>6, <1>7, <2>1, <2>2
  <2> QED BY <1>7, <1>8, <2>1, <2>2, <2>3 DEF Flushing
<1>14. CASE \/ Goes(t, "store", "cas") /\ UNCHANGED <<diagVars, tstate, target>>
            \/ /\ Goes(t, "cas", "record") /\ tstate' = [tstate EXCEPT ![t] = "Completed"]
               /\ UNCHANGED <<diagVars, target>>
  <2>1. UNCHANGED <<queue, enqueued, processed, busy, current>>
    BY <1>14 DEF diagVars
  <2>2. wpc[t] \in {"store", "cas"} /\ wpc'[t] \in {"cas", "record"}
    BY <1>4, <1>14
  <2>3. EventsCounted'
    BY <1>5, <1>6, <1>7, <2>1, <2>2
  <2> QED BY <1>7, <1>8, <2>1, <2>2, <2>3 DEF Flushing
<1>15. CASE /\ wpc[t] # "count"
            /\ \E to \in WorkerPcs \ ({"count", "draining"} \cup Flushing) : Goes(t, wpc[t], to)
            /\ Attach(t) \/ UNCHANGED diagVars
            /\ tstate'[t] = "Completed" => tstate[t] = "Completed"
  <2>1. UNCHANGED <<queue, enqueued, processed, busy, current>>
    BY <1>15 DEF diagVars, Attach
  <2>2. wpc'[t] \notin {"count", "draining"} \cup Flushing
    BY <1>4, <1>15
  <2>3. (IF wpc'[t] = "count" THEN 1 ELSE 0) = (IF wpc[t] = "count" THEN 1 ELSE 0)
    BY <1>15, <2>2
  <2>4. EventsCounted'
    BY <1>5, <1>6, <1>7, <2>1, <2>3
  <2> QED BY <1>7, <1>8, <1>15, <2>1, <2>2, <2>4
<1> QED BY <1>1, <1>9, <1>10, <1>11, <1>12, <1>13, <1>14, <1>15 DEF DiagMove

\* The dispatcher takes an event and counts it when its observers are done.
LEMMA ExitDispatch ==
  ASSUME TypeOK, WebInv, ExitInv, DispatchStep
  PROVE  ExitInv'
<1>1. queue \in Seq(Producers) /\ processed \in Nat /\ enqueued \in Nat /\ Len(queue) \in Nat
  BY DEF TypeOK, DiagTypeOK
<1>2. UNCHANGED <<wpc, tstate, target, enqueued>>
  BY DEF DispatchStep, DispatchTake, DispatchFrame, DispatchDone, TakeEvent, Notified, DoneEvent, webVars
<1>3. CASE DispatchTake
  <2>1. /\ ~busy /\ queue # <<>> /\ queue' = Tail(queue) /\ busy' = TRUE /\ UNCHANGED processed
    BY <1>3 DEF DispatchTake, TakeEvent
  <2>2. Len(queue') = Len(queue) - 1
    BY <1>1, <2>1, HeadTailProperties
  <2>3. (IF busy THEN 1 ELSE 0) = 0 /\ (IF busy' THEN 1 ELSE 0) = 1
    BY <2>1
  <2>4. EventsCounted'
    BY <1>1, <1>2, <2>1, <2>2, <2>3 DEF ExitInv, EventsCounted
  <2> QED BY <1>2, <2>1, <2>4 DEF ExitInv
<1>4. CASE DispatchFrame
  <2>1. UNCHANGED <<queue, processed, busy>> /\ current' \subseteq current
    BY <1>4 DEF DispatchFrame, Notified
  <2> QED BY <1>2, <2>1 DEF ExitInv, EventsCounted
<1>5. CASE DispatchDone
  <2>1. busy /\ ~busy' /\ processed' = processed + 1 /\ current = {} /\ UNCHANGED <<queue, current>>
    BY <1>5 DEF DispatchDone, DoneEvent
  <2>2. (IF busy THEN 1 ELSE 0) = 1 /\ (IF busy' THEN 1 ELSE 0) = 0
    BY <2>1
  <2>3. EventsCounted'
    BY <1>1, <1>2, <2>1, <2>2 DEF ExitInv, EventsCounted
  <2>4. ASSUME NEW t \in Tasks, wpc[t] \in Flushing \/ tstate[t] = "Completed"
        PROVE  FALSE
    <3>1. processed = enqueued
      BY <2>4 DEF ExitInv
    <3>2. Len(queue) + processed + 1 = enqueued + (IF wpc[t] = "count" THEN 1 ELSE 0)
      BY <2>2 DEF ExitInv, EventsCounted
    <3>3. (IF wpc[t] = "count" THEN 1 ELSE 0) = 0
      BY <2>4 DEF Flushing, WebInv, Claims, ClaimOf, Claim, Ending
    <3> QED BY <1>1, <3>1, <3>2, <3>3
  <2> QED BY <1>2, <2>1, <2>3, <2>4 DEF ExitInv
<1> QED BY <1>3, <1>4, <1>5 DEF DispatchStep

\* Nobody but a worker and the dispatcher touches the queue or a target.
LEMMA OthersDoNotDispatch ==
  ASSUME [Next]_vars, \A t \in Tasks : ~WorkerStep(t), ~DispatchStep
  PROVE  UNCHANGED <<diagVars, target>>
<1> USE DEF workVars
<1>1. ASSUME NEW c \in Callers, CallerCall(c) \/ CallerStep(c)
      PROVE  UNCHANGED <<diagVars, target>>
  BY <1>1 DEF CallerCall, CallerStep, Reserve, Cancel, Pause, Resume, Swap, Spawn, ContextCall
<1>2. ASSUME NEW s \in Streams, StreamStep(s)
      PROVE  UNCHANGED <<diagVars, target>>
  BY <1>2 DEF StreamStep, EventsOpen, EventsReplay, EventsStatus, EventsClose, EventsStep
<1>3. ASSUME NEW t \in Tasks, SamplerFrame(t)
      PROVE  UNCHANGED <<diagVars, target>>
  BY <1>3 DEF SamplerFrame
<1>4. CASE Publishing
  BY <1>4 DEF Publishing, webVars
<1>5. CASE MainStep
  BY <1>5 DEF MainStep, ShutAdvance, ShutDown, ShutClear, ShutMark, ShutAbort, ShutStopPolling, ShutJoin
<1>6. CASE UNCHANGED vars
  BY <1>6 DEF vars, webVars
<1> QED BY <1>1, <1>2, <1>3, <1>4, <1>5, <1>6 DEF Next

LEMMA ExitStep ==
  ASSUME OneTask, TypeOK, WebInv, ExitInv, [Next]_vars
  PROVE  ExitInv'
<1>1. CASE \E t \in Tasks : WorkerStep(t)
  BY <1>1, ExitWorker
<1>2. CASE DispatchStep
  BY <1>2, ExitDispatch
<1>3. CASE (\A t \in Tasks : ~WorkerStep(t)) /\ ~DispatchStep
  <2>1. UNCHANGED <<queue, enqueued, processed, busy, current, target>>
    BY <1>3, OthersDoNotDispatch DEF diagVars
  <2>2. \A t \in Tasks : /\ wpc'[t] = wpc[t] \/ (wpc[t] = "none" /\ wpc'[t] \in {"gate", "peek"})
                         /\ tstate'[t] = "Completed" => tstate[t] = "Completed"
    BY <1>3, OthersDoNotConclude
  <2>3. \A t \in Tasks : /\ wpc'[t] = wpc[t] \/ (wpc[t] \notin {"count"} \cup Flushing
                                                   /\ wpc'[t] \notin {"count", "draining"} \cup Flushing)
                         /\ tstate'[t] = "Completed" => tstate[t] = "Completed"
    BY <2>2 DEF Flushing
  <2> QED BY <2>1, <2>3, ExitCalm
<1> QED BY <1>1, <1>2, <1>3

\* What has been counted and dispatched is neither queued nor on its way.
LEMMA NothingLeft ==
  ASSUME TypeOK, WebInv, ExitInv, NEW t \in Tasks, wpc[t] \in Flushing \/ tstate[t] = "Completed"
  PROVE  queue = <<>> /\ ~busy /\ current = {}
<1>1. queue \in Seq(Producers) /\ processed \in Nat /\ enqueued \in Nat /\ Len(queue) \in Nat
  BY DEF TypeOK, DiagTypeOK
<1>2. processed = enqueued /\ (current # {} => busy)
  BY DEF ExitInv
<1>3. (IF wpc[t] = "count" THEN 1 ELSE 0) = 0
  BY DEF Flushing, WebInv, Claims, ClaimOf, Claim, Ending
<1>4. Len(queue) + processed + (IF busy THEN 1 ELSE 0) = enqueued
  BY <1>1, <1>3 DEF ExitInv, EventsCounted
<1>5. ~busy
  <2> SUFFICES ASSUME busy PROVE FALSE
    OBVIOUS
  <2>1. (IF busy THEN 1 ELSE 0) = 1
    OBVIOUS
  <2> QED BY <1>1, <1>2, <1>4, <2>1
<1>6. Len(queue) = 0
  BY <1>1, <1>2, <1>4, <1>5
<1> QED BY <1>1, <1>2, <1>5, <1>6, EmptySeq

LEMMA ExitsAreDelivered ==
  ASSUME TypeOK, WebInv, ExitInv
  PROVE  ExitIsDelivered
<1> SUFFICES ASSUME NEW t \in Tasks, wpc[t] = "detach"
             PROVE  t \notin current /\ \A i \in DOMAIN queue : queue[i] # t
  BY DEF ExitIsDelivered
<1>1. queue = <<>> /\ current = {}
  BY NothingLeft DEF Flushing
<1> QED BY <1>1

-----------------------------------------------------------------------------
(* After its verdict a completed task is silent but for its terminal frame. *)

HubInv == QuietInv /\ FrameInv /\ EndInv

LEMMA Names ==
  ASSUME NEW t \in Tasks
  PROVE  /\ Worker(t) \in Publishers /\ Sampler(t) \in Publishers /\ Dispatcher \in Publishers
         /\ \A u \in Tasks : /\ Worker(t) # Sampler(u) /\ Worker(t) # Dispatcher /\ Sampler(t) # Dispatcher
                             /\ (Worker(t) = Worker(u) => t = u) /\ (Sampler(t) = Sampler(u) => t = u)
BY WebAssumption DEF ThePublishers, Worker, Sampler, Dispatcher

LEMMA SendingAt ==
  ASSUME HubTypeOK, NEW p \in Publishers, NEW frame \in Frames \cup {NoFrame}, NEW to \in SUBSET Streams,
         Sending(p, frame, to)
  PROVE  /\ sending'[p].to = to /\ (to # {} => sending'[p].frame = frame)
         /\ (to = {} => sending'[p] = Silent)
         /\ \A q \in Publishers : q # p => sending'[q] = sending[q]
<1>1. sending'[p] = IF to = {} THEN Silent ELSE [frame |-> frame, to |-> to]
  BY DEF HubTypeOK, Sending
<1>2. \A q \in Publishers : q # p => sending'[q] = sending[q]
  BY DEF HubTypeOK, Sending
<1>3. Silent.to = {}
  BY DEF Silent
<1> QED BY <1>1, <1>2, <1>3

LEMMA CompletedIsLate ==
  ASSUME WebInv, NEW t \in Tasks
  PROVE  /\ tstate[t] = "Completed" => wpc[t] \in {"record", "hush", "finish", "done"}
         /\ wpc[t] = "report" => tstate[t] # "Completed"
         /\ wpc[t] = "bail" => tstate[t] # "Completed"
         /\ finished[t] => wpc[t] = "done"
BY DEF WebInv, Claims, ClaimOf, Claim, Ending

LEMMA HubCalm ==
  ASSUME WebInv, HubInv, UNCHANGED <<hubVars, spc, streamVars>>, mpc' = mpc \/ mpc' # "serving",
         ~busy' => ~busy \/ sending[Dispatcher] = Silent,
         \A t \in Tasks : /\ wpc'[t] = wpc[t] \/ (wpc[t] = "none" /\ wpc'[t] \in {"gate", "peek"})
                          /\ tstate'[t] = "Completed" => tstate[t] = "Completed"
  PROVE  HubInv'
<1> USE DEF hubVars, streamVars
<1>1. \A t \in Tasks : Announced(t)' => Announced(t)
  BY DEF Announced
<1>2. QuietInv'
  BY DEF HubInv, QuietInv, Unsampled
<1>3. FrameInv'
  BY <1>1 DEF HubInv, FrameInv
<1>4. EndInv'
  <2> SUFFICES ASSUME mpc' = "serving", NEW s \in Streams, Listening(s)'
               PROVE  /\ joined'[s] \in Tasks
                      /\ wpc'[joined'[s]] \notin {"finish", "done"} => s \in subs'[joined'[s]]
                      /\ Announced(joined[s])' => GetsEnd(s)'
    BY DEF EndInv
  <2>1. /\ joined[s] \in Tasks
        /\ wpc[joined[s]] \notin {"finish", "done"} => s \in subs[joined[s]]
        /\ Announced(joined[s]) => GetsEnd(s)
    BY DEF HubInv, EndInv, Listening
  <2>2. wpc'[joined[s]] \notin {"finish", "done"} => wpc[joined[s]] \notin {"finish", "done"}
    BY <2>1
  <2>3. Announced(joined[s])' => Announced(joined[s])
    BY <2>1 DEF Announced
  <2>4. GetsEnd(s) => GetsEnd(s)'
    BY DEF GetsEnd
  <2> QED BY <2>1, <2>2, <2>3, <2>4
<1> QED BY <1>2, <1>3, <1>4 DEF HubInv

\* What a worker does to the hub, at which places.
HubMove(t) ==
  \/ Goes(t, "submit", "sample") /\ Tell(Worker(t), t, "progress") /\ UNCHANGED <<tstate, spc>>
  \/ Goes(t, "record", "hush") /\ Tell(Worker(t), t, "completed") /\ UNCHANGED <<tstate, spc>>
  \/ Goes(t, "report", "hush") /\ Tell(Worker(t), t, "failed") /\ UNCHANGED <<tstate, spc>>
  \/ Told(t) /\ Goes(t, "hush", "finish") /\ UnsubscribeAll(t) /\ UNCHANGED <<tstate, spc>>
  \/ Goes(t, "bail", "finish") /\ UnsubscribeAll(t) /\ UNCHANGED <<tstate, spc>>
  \/ UNCHANGED hubVars /\ Told(t) /\ Goes(t, "sample", "flush") /\ UNCHANGED tstate
  \/ /\ UNCHANGED hubVars /\ sending[Sampler(t)] = Silent
     /\ Goes(t, "stop", "drain") /\ spc' = [spc EXCEPT ![t] = "off"] /\ UNCHANGED tstate
  \/ /\ UNCHANGED <<hubVars, spc>>
     /\ Goes(t, "cas", "record") /\ tstate' = [tstate EXCEPT ![t] = "Completed"]
  \/ UNCHANGED <<hubVars, spc, tstate>> /\ Goes(t, "finish", "done")
  \/ /\ UNCHANGED <<hubVars, spc, tstate>>
     /\ wpc[t] \in Unsampled \ {"record"} /\ \E to \in Unsampled \ {"record"} : Goes(t, wpc[t], to)
  \/ /\ UNCHANGED hubVars
     /\ wpc[t] \notin {"sample", "hush", "record", "finish", "done"}
     /\ \E to \in WorkerPcs \ (Unsampled \cup {"sample", "hush", "finish", "done"}) : Goes(t, wpc[t], to)
     /\ tstate'[t] = "Completed" => tstate[t] = "Completed"

LEMMA WorkerHub == ASSUME TypeOK, NEW t \in Tasks, WorkerStep(t) PROVE HubMove(t) /\ UNCHANGED <<streamVars, mpc, busy>>
<1> USE DEF Goes, WorkGoto, WorkContext, WorkHub, WorkDiag, RecordAnd, SetSampler, Outside, taskVars, streamVars,
            others, diagVars, WorkerPcs, HubMove, Unsampled
<1>1. CASE BeforeSolve(t)
  BY <1>1 DEF BeforeSolve, CheckCancelled, FlushLoad, OnStart, Attach
<1>2. CASE Solve(t)
  BY <1>2 DEF Solve, OnStart, PushEvent, CountEvent
<1>3. CASE Throw(t)
  BY <1>3 DEF Throw
<1>4. CASE AfterSolve(t)
  BY <1>4 DEF AfterSolve, FlushLoad, FlushWait, StopSampler, Detach
<1>5. CASE CommitCompleted(t)
  BY <1>5 DEF CommitCompleted, Store, Conclude
<1>6. CASE CommitFailed(t)
  BY <1>6 DEF CommitFailed, Store, Conclude, StopSampler, TypeOK
<1>7. CASE CommitCancelled(t) \/ Finish(t) \/ (Told(t) /\ WorkHub(t, "hush", "finish", UnsubscribeAll(t)))
  BY <1>7 DEF CommitCancelled, Finish
<1> QED BY <1>1, <1>2, <1>3, <1>4, <1>5, <1>6, <1>7 DEF WorkerStep

\* With one task, what the hub promises is about its worker and its sampler.
LEMMA OneHub ==
  ASSUME OneTask, NEW t \in Tasks
  PROVE  /\ QuietInv <=>
              /\ ~busy => sending[Dispatcher] = Silent
              /\ wpc[t] \notin {"sample", "hush"} => sending[Worker(t)] = Silent
              /\ wpc[t] \in Unsampled \/ tstate[t] = "Completed" => spc[t] = "off" /\ sending[Sampler(t)] = Silent
         /\ FrameInv <=>
              (Announced(t) => /\ mpc = "serving" => lastFrame[t] = "completed"
                               /\ sending[Worker(t)].to # {} => sending[Worker(t)].frame = "completed")
         /\ EndInv <=>
              (mpc = "serving" => \A s \in Streams : Listening(s) =>
                 /\ joined[s] = t
                 /\ wpc[t] \notin {"finish", "done"} => s \in subs[t]
                 /\ Announced(t) => GetsEnd(s))
<1>1. \A u \in Tasks : u = t
  BY DEF OneTask
<1> QED BY <1>1 DEF QuietInv, FrameInv, EndInv

LEMMA OneHubNext ==
  ASSUME OneTask, NEW t \in Tasks
  PROVE  /\ QuietInv' <=>
              /\ ~busy' => sending'[Dispatcher] = Silent
              /\ wpc'[t] \notin {"sample", "hush"} => sending'[Worker(t)] = Silent
              /\ wpc'[t] \in Unsampled \/ tstate'[t] = "Completed" => spc'[t] = "off" /\ sending'[Sampler(t)] = Silent
         /\ FrameInv' <=>
              (Announced(t)' => /\ mpc' = "serving" => lastFrame'[t] = "completed"
                                /\ sending'[Worker(t)].to # {} => sending'[Worker(t)].frame = "completed")
         /\ EndInv' <=>
              (mpc' = "serving" => \A s \in Streams : Listening(s)' =>
                 /\ joined'[s] = t
                 /\ wpc'[t] \notin {"finish", "done"} => s \in subs'[t]
                 /\ Announced(t)' => GetsEnd(s)')
<1>1. \A u \in Tasks : u = t
  BY DEF OneTask
<1> QED BY <1>1 DEF QuietInv, FrameInv, EndInv

LEMMA HubWorker ==
  ASSUME OneTask, HasHub, TypeOK, WebInv, HubInv, NEW t \in Tasks, WorkerStep(t)
  PROVE  HubInv'
<1>1. HubMove(t) /\ UNCHANGED <<rpc, replay, joined, mpc, busy>>
  BY WorkerHub DEF streamVars
<1>2. \A from, to : Goes(t, from, to) => wpc[t] = from /\ wpc'[t] = to
  BY DEF Goes, TypeOK
<1>3. HubTypeOK /\ tstate \in [Tasks -> TaskStates] /\ spc \in [Tasks -> {"off", "on", "sent"}]
  BY DEF TypeOK
<1>4. tstate[t] = "Completed" => wpc[t] \in {"record", "hush", "finish", "done"}
  BY CompletedIsLate
<1>5. /\ ~busy => sending[Dispatcher] = Silent
      /\ wpc[t] \notin {"sample", "hush"} => sending[Worker(t)] = Silent
      /\ wpc[t] \in Unsampled \/ tstate[t] = "Completed" => spc[t] = "off" /\ sending[Sampler(t)] = Silent
  BY OneHub DEF HubInv
<1>6. Announced(t) => /\ mpc = "serving" => lastFrame[t] = "completed"
                      /\ sending[Worker(t)].to # {} => sending[Worker(t)].frame = "completed"
  BY OneHub DEF HubInv
<1>7. ASSUME mpc = "serving", NEW s \in Streams, Listening(s)
      PROVE  /\ joined[s] = t
             /\ wpc[t] \notin {"finish", "done"} => s \in subs[t]
             /\ Announced(t) => GetsEnd(s)
  BY <1>7, OneHub DEF HubInv
<1>8. \A s \in Streams : Listening(s)' <=> Listening(s)
  BY <1>1 DEF Listening
<1>9. Worker(t) \in Publishers /\ Sampler(t) \in Publishers /\ Dispatcher \in Publishers
      /\ Worker(t) # Sampler(t) /\ Worker(t) # Dispatcher /\ Sampler(t) # Dispatcher /\ t \in Keys
  BY Names, WebAssumption
<1>10. ASSUME NEW frame \in Frames, PublishCopy(Worker(t), t, frame), wpc'[t] \in {"sample", "hush"},
              UNCHANGED <<tstate, spc>>, tstate[t] = "Completed" => frame = "completed" /\ wpc[t] = "record"
       PROVE  HubInv'
  <2>1. /\ sending'[Worker(t)].to = subs[t] /\ (subs[t] # {} => sending'[Worker(t)].frame = frame)
        /\ sending'[Sampler(t)] = sending[Sampler(t)] /\ sending'[Dispatcher] = sending[Dispatcher]
    BY <1>3, <1>9, <1>10, SendingAt DEF PublishCopy, HubTypeOK
  <2>2. lastFrame'[t] = frame /\ subs' = subs /\ stream' = stream
    BY <1>3, <1>9, <1>10 DEF PublishCopy, HubTypeOK
  <2>3. QuietInv'
    <3>1. tstate'[t] = "Completed" => spc[t] = "off" /\ sending[Sampler(t)] = Silent
      BY <1>5, <1>10
    <3> QED BY <1>1, <1>5, <1>10, <2>1, <3>1, OneHubNext DEF Unsampled
  <2>4. Announced(t)' => frame = "completed" /\ wpc[t] = "record"
    BY <1>10 DEF Announced
  <2>5. FrameInv'
    BY <2>1, <2>2, <2>4, OneHubNext
  <2>6. ASSUME mpc' = "serving", NEW s \in Streams, Listening(s)'
        PROVE  /\ joined'[s] = t
               /\ wpc'[t] \notin {"finish", "done"} => s \in subs'[t]
               /\ Announced(t)' => GetsEnd(s)'
    <3>1. mpc = "serving" /\ Listening(s) /\ joined[s] = t
      BY <1>1, <1>7, <1>8, <2>6
    <3>2. wpc[t] \in {"submit", "record", "report"} => s \in subs[t]
      BY <1>7, <3>1
    <3>3. wpc[t] \in {"submit", "record", "report"}
      BY <1>1, <1>2, <1>10 DEF HubMove, Unsampled
    <3> QED BY <1>1, <2>1, <2>2, <3>1, <3>2, <3>3 DEF GetsEnd
  <2>7. EndInv'
    BY <2>6, OneHubNext
  <2> QED BY <2>3, <2>5, <2>7 DEF HubInv
<1>11. ASSUME UnsubscribeAll(t), sending[Worker(t)] = Silent, wpc'[t] = "finish",
              UNCHANGED <<tstate, spc>>, tstate[t] = "Completed" => wpc[t] = "hush"
       PROVE  HubInv'
  <2>1. UNCHANGED <<lastFrame, sending, stream>>
    BY <1>11 DEF UnsubscribeAll
  <2>2. Announced(t)' => Announced(t)
    BY <1>11 DEF Announced
  <2>3. QuietInv' /\ FrameInv'
    BY <1>1, <1>5, <1>6, <1>11, <2>1, <2>2, OneHubNext DEF Unsampled
  <2>4. ASSUME mpc' = "serving", NEW s \in Streams, Listening(s)'
        PROVE  joined'[s] = t /\ (Announced(t)' => GetsEnd(s)')
    <3>1. mpc = "serving" /\ Listening(s)
      BY <1>1, <1>8, <2>4
    <3> QED BY <1>1, <1>7, <2>1, <2>2, <3>1 DEF GetsEnd
  <2>5. EndInv'
    BY <1>11, <2>4, OneHubNext
  <2> QED BY <2>3, <2>5 DEF HubInv
<1>12. ASSUME UNCHANGED hubVars,
              ~Announced(t)' \/ Announced(t),
              wpc[t] \in {"finish", "done"} => wpc'[t] \in {"finish", "done"},
              wpc'[t] \notin {"sample", "hush"}, sending[Worker(t)] = Silent,
              wpc'[t] \in Unsampled \/ tstate'[t] = "Completed" => spc'[t] = "off" /\ sending[Sampler(t)] = Silent
       PROVE  HubInv'
  <2>1. UNCHANGED <<subs, lastFrame, sending, stream>>
    BY <1>12 DEF hubVars
  <2>2. QuietInv' /\ FrameInv'
    BY <1>1, <1>5, <1>6, <1>12, <2>1, OneHubNext
  <2>3. ASSUME mpc' = "serving", NEW s \in Streams, Listening(s)'
        PROVE  /\ joined'[s] = t
               /\ wpc'[t] \notin {"finish", "done"} => s \in subs'[t]
               /\ Announced(t)' => GetsEnd(s)'
    <3>1. mpc = "serving" /\ Listening(s)
      BY <1>1, <1>8, <2>3
    <3> QED BY <1>1, <1>7, <1>12, <2>1, <3>1 DEF GetsEnd
  <2>4. EndInv'
    BY <2>3, OneHubNext
  <2> QED BY <2>2, <2>4 DEF HubInv
<1>13. CASE Goes(t, "submit", "sample") /\ Tell(Worker(t), t, "progress") /\ UNCHANGED <<tstate, spc>>
  <2>1. PublishCopy(Worker(t), t, "progress") /\ wpc[t] = "submit" /\ wpc'[t] = "sample"
    BY <1>2, <1>13 DEF Tell
  <2> QED BY <1>4, <1>10, <1>13, <2>1 DEF Frames
<1>14. CASE Goes(t, "record", "hush") /\ Tell(Worker(t), t, "completed") /\ UNCHANGED <<tstate, spc>>
  <2>1. PublishCopy(Worker(t), t, "completed") /\ wpc[t] = "record" /\ wpc'[t] = "hush"
    BY <1>2, <1>14 DEF Tell
  <2> QED BY <1>10, <1>14, <2>1 DEF Frames, Terminals
<1>15. CASE Goes(t, "report", "hush") /\ Tell(Worker(t), t, "failed") /\ UNCHANGED <<tstate, spc>>
  <2>1. PublishCopy(Worker(t), t, "failed") /\ wpc[t] = "report" /\ wpc'[t] = "hush"
    BY <1>2, <1>15 DEF Tell
  <2> QED BY <1>4, <1>10, <1>15, <2>1 DEF Frames, Terminals
<1>16. CASE \/ Told(t) /\ Goes(t, "hush", "finish") /\ UnsubscribeAll(t) /\ UNCHANGED <<tstate, spc>>
            \/ Goes(t, "bail", "finish") /\ UnsubscribeAll(t) /\ UNCHANGED <<tstate, spc>>
  <2>1. wpc[t] \in {"hush", "bail"} /\ wpc'[t] = "finish" /\ (wpc[t] = "hush" => sending[Worker(t)] = Silent)
    BY <1>2, <1>16 DEF Told
  <2> QED BY <1>4, <1>5, <1>11, <1>16, <2>1
<1>17. CASE UNCHANGED hubVars /\ Told(t) /\ Goes(t, "sample", "flush") /\ UNCHANGED tstate
  <2>1. wpc[t] = "sample" /\ wpc'[t] = "flush" /\ sending[Worker(t)] = Silent
    BY <1>2, <1>17 DEF Told
  <2> QED BY <1>4, <1>12, <1>17, <2>1 DEF Announced, Unsampled
<1>18. CASE /\ UNCHANGED hubVars /\ sending[Sampler(t)] = Silent
            /\ Goes(t, "stop", "drain") /\ spc' = [spc EXCEPT ![t] = "off"] /\ UNCHANGED tstate
  <2>1. wpc[t] = "stop" /\ wpc'[t] = "drain" /\ spc'[t] = "off"
    BY <1>2, <1>3, <1>18
  <2> QED BY <1>4, <1>5, <1>12, <1>18, <2>1 DEF Announced
<1>19. CASE UNCHANGED <<hubVars, spc>> /\ Goes(t, "cas", "record") /\ tstate' = [tstate EXCEPT ![t] = "Completed"]
  <2>1. wpc[t] = "cas" /\ wpc'[t] = "record"
    BY <1>2, <1>19
  <2> QED BY <1>5, <1>12, <1>19, <2>1 DEF Announced, Unsampled
<1>20. CASE UNCHANGED <<hubVars, spc, tstate>> /\ Goes(t, "finish", "done")
  <2>1. wpc[t] = "finish" /\ wpc'[t] = "done"
    BY <1>2, <1>20
  <2> QED BY <1>5, <1>12, <1>20, <2>1 DEF Announced, Unsampled
<1>21. CASE /\ UNCHANGED <<hubVars, spc, tstate>>
            /\ wpc[t] \in Unsampled \ {"record"} /\ \E to \in Unsampled \ {"record"} : Goes(t, wpc[t], to)
  <2>1. wpc'[t] \in Unsampled \ {"record"}
    BY <1>2, <1>21
  <2>2. ~Announced(t)'
    <3>1. tstate[t] = "Completed" => wpc[t] = "record"
      BY <1>4, <1>21 DEF Unsampled
    <3>2. wpc[t] # "record"
      BY <1>21
    <3> QED BY <1>21, <3>1, <3>2 DEF Announced
  <2> QED BY <1>5, <1>12, <1>21, <2>1, <2>2 DEF Unsampled
<1>22. CASE /\ UNCHANGED hubVars
            /\ wpc[t] \notin {"sample", "hush", "record", "finish", "done"}
            /\ \E to \in WorkerPcs \ (Unsampled \cup {"sample", "hush", "finish", "done"}) : Goes(t, wpc[t], to)
            /\ tstate'[t] = "Completed" => tstate[t] = "Completed"
  <2>1. wpc'[t] \notin Unsampled \cup {"sample", "hush", "finish", "done"} /\ tstate'[t] # "Completed"
    BY <1>2, <1>4, <1>22
  <2> QED BY <1>5, <1>12, <1>22, <2>1 DEF Announced
<1> QED BY <1>1, <1>13, <1>14, <1>15, <1>16, <1>17, <1>18, <1>19, <1>20, <1>21, <1>22 DEF HubMove

\* A publisher calls one more subscriber.
LEMMA HubPublish ==
  ASSUME TypeOK, WebInv, HubInv, Publishing
  PROVE  HubInv'
<1>1. PICK p \in Publishers : PublishSend(p) /\ UNCHANGED <<ctxtVars, diagVars, webVars>>
  BY DEF Publishing
<1>2. PICK s \in sending[p].to : /\ Sending(p, sending[p].frame, sending[p].to \ {s})
                                 /\ Deliver(s, sending[p].frame) /\ UNCHANGED <<subs, lastFrame>>
  BY <1>1 DEF PublishSend
<1>3. HubTypeOK /\ sending[p].frame \in Frames \cup {NoFrame} /\ sending[p].to \subseteq Streams /\ s \in Streams
  BY <1>2 DEF TypeOK, HubTypeOK
<1>4. UNCHANGED <<tstate, wpc, spc, rpc, replay, joined, mpc, busy>>
  BY <1>1 DEF webVars, diagVars
<1>5. /\ sending'[p].to = sending[p].to \ {s}
      /\ (sending'[p].to # {} => sending'[p].frame = sending[p].frame)
      /\ \A q \in Publishers : q # p => sending'[q] = sending[q]
  BY <1>2, <1>3, SendingAt
<1>6. sending[p] # Silent
  BY <1>2 DEF Silent
<1>7. QuietInv'
  <2>1. \A q \in Publishers : sending[q] = Silent => sending'[q] = Silent
    BY <1>5, <1>6
  <2>2. Dispatcher \in Publishers
    BY WebAssumption DEF ThePublishers
  <2> QED BY <1>4, <2>1, <2>2, Names DEF HubInv, QuietInv
<1>8. FrameInv'
  <2>1. \A q \in Publishers : sending'[q].to # {} => sending[q].to # {} /\ sending'[q].frame = sending[q].frame
    BY <1>5
  <2> QED BY <1>2, <1>4, <2>1, Names DEF HubInv, FrameInv, Announced
<1>9. EndInv'
  <2> SUFFICES ASSUME mpc' = "serving", NEW r \in Streams, Listening(r)'
               PROVE  /\ joined'[r] \in Tasks
                      /\ wpc'[joined'[r]] \notin {"finish", "done"} => r \in subs'[joined'[r]]
                      /\ Announced(joined[r])' => GetsEnd(r)'
    BY DEF EndInv
  <2>1. /\ joined[r] \in Tasks
        /\ wpc[joined[r]] \notin {"finish", "done"} => r \in subs[joined[r]]
        /\ Announced(joined[r]) => GetsEnd(r)
    BY <1>4 DEF HubInv, EndInv, Listening
  <2>2. ASSUME Announced(joined[r])
        PROVE  GetsEnd(r)'
    <3>1. GetsEnd(r) /\ Worker(joined[r]) \in Publishers
      BY <2>1, <2>2, Names
    <3>2. CASE r \in sending[Worker(joined[r])].to /\ ~(p = Worker(joined[r]) /\ r = s)
      BY <1>4, <1>5, <3>1, <3>2 DEF GetsEnd
    <3>3. CASE p = Worker(joined[r]) /\ r = s
      <4>1. sending[p].frame = "completed"
        BY <1>2, <2>1, <2>2, <3>3 DEF HubInv, FrameInv
      <4>2. stream' = [stream EXCEPT ![r] = After(@, "completed")]
        BY <1>2, <3>3, <4>1 DEF Deliver, NoFrame
      <4>3. stream'[r] \in {"ended", "overrun"}
        BY <1>3, <4>2 DEF After, Terminals, HubTypeOK
      <4> QED BY <4>3 DEF GetsEnd
    <3>4. CASE rpc[r] = "replay" /\ replay[r] = "completed"
      BY <1>4, <3>4 DEF GetsEnd
    <3>5. CASE stream[r] \in {"ended", "overrun"}
      <4>1. stream' = stream \/ stream' = [stream EXCEPT ![s] = After(@, sending[p].frame)]
        BY <1>2 DEF Deliver
      <4>2. stream'[r] \in {"ended", "overrun"}
        BY <1>3, <3>5, <4>1 DEF After, HubTypeOK
      <4> QED BY <4>2 DEF GetsEnd
    <3> QED BY <3>1, <3>2, <3>3, <3>4, <3>5 DEF GetsEnd
  <2> QED BY <1>2, <1>4, <2>1, <2>2 DEF Announced
<1> QED BY <1>7, <1>8, <1>9 DEF HubInv

\* The sampler is on, so that the worker is not past it.
LEMMA HubSampler ==
  ASSUME TypeOK, WebInv, HubInv, NEW t \in Tasks, SamplerFrame(t)
  PROVE  HubInv'
<1>1. /\ spc[t] = "on" /\ spc' = [spc EXCEPT ![t] = "sent"] /\ PublishCopy(Sampler(t), t, "progress")
      /\ UNCHANGED <<tstate, wpc, rpc, replay, joined, mpc, busy>>
  BY DEF SamplerFrame, taskVars, streamVars, others, diagVars
<1>2. /\ Sending(Sampler(t), "progress", subs[t]) /\ lastFrame' = [lastFrame EXCEPT ![t] = "progress"]
      /\ UNCHANGED <<subs, stream>>
  BY <1>1 DEF PublishCopy
<1>3. HubTypeOK /\ t \in Keys /\ subs[t] \subseteq Streams /\ Sampler(t) \in Publishers
      /\ spc \in [Tasks -> {"off", "on", "sent"}]
  BY WebAssumption, Names DEF TypeOK, HubTypeOK
<1>4. \A q \in Publishers : q # Sampler(t) => sending'[q] = sending[q]
  BY <1>2, <1>3, SendingAt DEF Frames
<1>5. wpc[t] \notin Unsampled /\ tstate[t] # "Completed"
  BY <1>1 DEF HubInv, QuietInv
<1>6. \A u \in Tasks : u # t => spc'[u] = spc[u] /\ sending'[Sampler(u)] = sending[Sampler(u)]
  BY <1>1, <1>3, <1>4, Names
<1>7. \A u \in Tasks : sending'[Worker(u)] = sending[Worker(u)]
  BY <1>4, Names
<1>8. sending'[Dispatcher] = sending[Dispatcher]
  BY <1>4, Names
<1>9. QuietInv'
  BY <1>1, <1>5, <1>6, <1>7, <1>8 DEF HubInv, QuietInv
<1>10. \A u \in Tasks : u # t => lastFrame'[u] = lastFrame[u]
  BY <1>2, <1>3, WebAssumption DEF HubTypeOK
<1>11. FrameInv'
  BY <1>1, <1>5, <1>7, <1>10 DEF HubInv, FrameInv, Announced
<1>12. EndInv'
  BY <1>1, <1>2, <1>7 DEF HubInv, EndInv, Listening, Announced, GetsEnd
<1> QED BY <1>9, <1>11, <1>12 DEF HubInv

\* An event is dispatched, so that no task has completed.
LEMMA HubDispatch ==
  ASSUME TypeOK, WebInv, ExitInv, HubInv, DispatchFrame
  PROVE  HubInv'
<1>1. PICK o \in current : Notified(o) /\ Tell(Dispatcher, o, "diag") /\ UNCHANGED <<ctxtVars, webVars>>
  BY DEF DispatchFrame
<1>2. busy /\ \A t \in Tasks : tstate[t] # "Completed"
  BY <1>1, NothingLeft DEF ExitInv
<1>3. UNCHANGED <<tstate, wpc, spc, rpc, replay, joined, mpc, busy>>
  BY <1>1 DEF webVars, Notified
<1>4. UNCHANGED subs /\ \A q \in Publishers : q # Dispatcher => sending'[q] = sending[q]
  <2>1. CASE PublishCopy(Dispatcher, o, "diag")
    <3>1. HubTypeOK /\ o \in Keys /\ subs[o] \subseteq Streams /\ Dispatcher \in Publishers
      BY WebAssumption DEF TypeOK, HubTypeOK, DiagTypeOK, ThePublishers
    <3>2. Sending(Dispatcher, "diag", subs[o]) /\ UNCHANGED subs
      BY <2>1 DEF PublishCopy
    <3> QED BY <3>1, <3>2, SendingAt DEF Frames
  <2>2. CASE UNCHANGED hubVars
    BY <2>2 DEF hubVars
  <2> QED BY <1>1, <2>1, <2>2 DEF Tell
<1>5. \A t \in Tasks : sending'[Worker(t)] = sending[Worker(t)] /\ sending'[Sampler(t)] = sending[Sampler(t)]
  BY <1>4, Names
<1>6. QuietInv'
  BY <1>2, <1>3, <1>5 DEF HubInv, QuietInv
<1>7. FrameInv' /\ EndInv'
  BY <1>2, <1>3, <1>4 DEF HubInv, FrameInv, EndInv, Announced, Listening
<1> QED BY <1>6, <1>7 DEF HubInv

\* A stream that opens finds the last frame of its task.
LEMMA HubStream ==
  ASSUME TypeOK, WebInv, HubInv, NEW s \in Streams, StreamStep(s)
  PROVE  HubInv'
<1>1. /\ UNCHANGED <<tstate, wpc, spc, mpc, busy, lastFrame, sending>>
      /\ \E to \in {"replay", "status", "open", "orphan", "closed"} : rpc' = [rpc EXCEPT ![s] = to]
  BY DEF StreamStep, EventsOpen, EventsReplay, EventsStatus, EventsClose, EventsStep,
         Subscribe, Unsubscribe, Replay, taskVars, workVars, others, diagVars
<1>2. QuietInv' /\ FrameInv'
  BY <1>1 DEF HubInv, QuietInv, FrameInv, Announced
<1>3. /\ subs \in [Keys -> SUBSET Streams] /\ stream \in [Streams -> Seen]
      /\ rpc \in [Streams -> {"new", "replay", "status", "open", "orphan", "closed"}]
      /\ replay \in [Streams -> Frames \cup {NoFrame}] /\ joined \in [Streams -> Tasks \cup {NoTask}]
      /\ Keys = Tasks /\ table \subseteq Tasks
  BY WebAssumption DEF TypeOK, HubTypeOK
<1>4. EndInv'
  <2> SUFFICES ASSUME mpc' = "serving", NEW r \in Streams, Listening(r)'
               PROVE  /\ joined'[r] \in Tasks
                      /\ wpc'[joined'[r]] \notin {"finish", "done"} => r \in subs'[joined'[r]]
                      /\ Announced(joined[r])' => GetsEnd(r)'
    BY DEF EndInv
  <2>1. Listening(r) => /\ joined[r] \in Tasks
                        /\ wpc[joined[r]] \notin {"finish", "done"} => r \in subs[joined[r]]
                        /\ Announced(joined[r]) => GetsEnd(r)
    BY <1>1 DEF HubInv, EndInv
  <2>2. r # s => rpc'[r] = rpc[r]
    BY <1>1, <1>3
  <2>3. CASE EventsOpen(s)
    <3>1. PICK t \in table : /\ rpc[s] = "new" /\ rpc' = [rpc EXCEPT ![s] = "replay"]
                             /\ subs' = [subs EXCEPT ![t] = @ \cup {s}] /\ UNCHANGED stream
                             /\ replay' = [replay EXCEPT ![s] = lastFrame[t]] /\ joined' = [joined EXCEPT ![s] = t]
      BY <2>3 DEF EventsOpen, EventsStep, Subscribe
    <3>2. CASE r = s
      <4>1. joined'[r] = t /\ r \in subs'[t] /\ replay'[r] = lastFrame[t] /\ rpc'[r] = "replay" /\ t \in Tasks
        BY <1>3, <3>1, <3>2
      <4>2. Announced(t)' => lastFrame[t] = "completed"
        BY <1>1, <4>1 DEF HubInv, FrameInv, Announced
      <4> QED BY <4>1, <4>2 DEF GetsEnd, Announced
    <3>3. CASE r # s
      <4>1. Listening(r) /\ joined'[r] = joined[r] /\ replay'[r] = replay[r] /\ rpc'[r] = rpc[r]
        BY <1>3, <2>2, <3>1, <3>3 DEF Listening
      <4>2. subs[joined[r]] \subseteq subs'[joined[r]]
        BY <1>3, <2>1, <3>1, <4>1
      <4> QED BY <1>1, <2>1, <3>1, <4>1, <4>2 DEF GetsEnd, Announced
    <3> QED BY <3>2, <3>3
  <2>4. CASE EventsReplay(s)
    <3>1. /\ rpc[s] = "replay" /\ rpc' = [rpc EXCEPT ![s] = "status"] /\ UNCHANGED <<subs, replay, joined>>
          /\ stream' = IF replay[s] = NoFrame THEN stream ELSE [stream EXCEPT ![s] = After(@, replay[s])]
      BY <2>4 DEF EventsReplay, EventsStep, Replay, Deliver
    <3>2. Listening(r)
      BY <2>2, <3>1 DEF Listening
    <3>3. ASSUME Announced(joined[r])
          PROVE  GetsEnd(r)'
      <4>1. stream[r] \in {"ended", "overrun"} => stream'[r] \in {"ended", "overrun"}
        BY <1>3, <3>1 DEF After
      <4>2. r = s /\ replay[r] = "completed" => stream'[r] \in {"ended", "overrun"}
        BY <1>3, <3>1 DEF After, Terminals, NoFrame
      <4> QED BY <1>1, <2>1, <2>2, <3>1, <3>2, <3>3, <4>1, <4>2 DEF GetsEnd
    <3> QED BY <1>1, <2>1, <3>1, <3>2, <3>3 DEF Announced
  <2>5. CASE EventsStatus(s)
    <3>1. PICK frame \in {"progress", NoFrame}, to \in {"open", "orphan"} :
            /\ rpc[s] = "status" /\ rpc' = [rpc EXCEPT ![s] = to] /\ UNCHANGED <<subs, replay, joined>>
            /\ stream' = IF frame = NoFrame THEN stream ELSE [stream EXCEPT ![s] = After(@, frame)]
      BY <2>5 DEF EventsStatus, EventsStep, Replay, Deliver
    <3>2. Listening(r)
      BY <2>2, <3>1 DEF Listening
    <3>3. ASSUME Announced(joined[r])
          PROVE  GetsEnd(r)'
      <4>1. stream[r] \in {"ended", "overrun"} => stream'[r] \in {"ended", "overrun"}
        BY <1>3, <3>1 DEF After
      <4>2. rpc[r] = "replay" => rpc'[r] = "replay"
        BY <2>2, <3>1
      <4> QED BY <1>1, <2>1, <3>1, <3>2, <3>3, <4>1, <4>2 DEF GetsEnd
    <3> QED BY <1>1, <2>1, <3>1, <3>2, <3>3 DEF Announced
  <2>6. CASE EventsClose(s)
    <3>1. /\ rpc' = [rpc EXCEPT ![s] = "closed"] /\ UNCHANGED <<stream, replay, joined>>
          /\ subs' = [subs EXCEPT ![joined[s]] = @ \ {s}]
      BY <2>6 DEF EventsClose, EventsStep, Unsubscribe
    <3>2. r # s
      BY <1>3, <3>1 DEF Listening
    <3>3. Listening(r) /\ rpc'[r] = rpc[r]
      BY <2>2, <3>2 DEF Listening
    <3>4. r \in subs[joined[r]] => r \in subs'[joined[r]]
      BY <1>3, <2>1, <3>1, <3>2, <3>3
    <3> QED BY <1>1, <2>1, <3>1, <3>3, <3>4 DEF GetsEnd, Announced
  <2> QED BY <2>3, <2>4, <2>5, <2>6 DEF StreamStep
<1> QED BY <1>2, <1>4 DEF HubInv

\* The end of the module takes the subscribers away.
LEMMA HubClear ==
  ASSUME WebInv, HubInv, ShutClear
  PROVE  HubInv'
<1>1. mpc' = "mark" /\ UNCHANGED <<tstate, wpc, spc, busy, sending>>
  BY DEF ShutClear, MainGoes, Clear, taskVars, workVars, diagVars
<1> QED BY <1>1 DEF HubInv, QuietInv, FrameInv, EndInv, Announced

LEMMA HubStep ==
  ASSUME OneTask, HasHub, TypeOK, WebInv, ExitInv, HubInv, [Next]_vars
  PROVE  HubInv'
<1>1. CASE \E t \in Tasks : WorkerStep(t)
  BY <1>1, HubWorker
<1>2. CASE \E t \in Tasks : SamplerFrame(t)
  BY <1>2, HubSampler
<1>3. CASE \E s \in Streams : StreamStep(s)
  BY <1>3, HubStream
<1>4. CASE Publishing
  BY <1>4, HubPublish
<1>5. CASE DispatchFrame
  BY <1>5, HubDispatch
<1>6. CASE ShutClear
  BY <1>6, HubClear
<1>7. CASE /\ \A t \in Tasks : ~WorkerStep(t)
           /\ \/ \E c \in Callers : CallerCall(c) \/ CallerStep(c)
              \/ DispatchTake \/ DispatchDone \/ (MainStep /\ ~ShutClear) \/ UNCHANGED vars
  <2>1. UNCHANGED <<hubVars, spc, streamVars>> /\ (mpc' = mpc \/ mpc' # "serving")
        /\ (~busy' => ~busy \/ sending[Dispatcher] = Silent)
    <3>1. ASSUME NEW c \in Callers, CallerCall(c) \/ CallerStep(c)
          PROVE  UNCHANGED <<hubVars, spc, streamVars, mpc, busy>>
      BY <3>1 DEF CallerCall, CallerStep, Reserve, Cancel, Pause, Resume, Swap, Spawn, ContextCall,
                  workVars, others, diagVars
    <3>2. CASE DispatchTake \/ DispatchDone
      BY <3>2 DEF DispatchTake, DispatchDone, TakeEvent, webVars, streamVars
    <3>3. CASE MainStep /\ ~ShutClear
      BY <3>3 DEF MainStep, ShutAdvance, ShutDown, ShutMark, ShutAbort, ShutStopPolling, ShutJoin, MainGoes,
                  workVars, diagVars
    <3>4. CASE UNCHANGED vars
      BY <3>4 DEF vars, webVars, diagVars, streamVars
    <3> QED BY <1>7, <3>1, <3>2, <3>3, <3>4
  <2>2. \A t \in Tasks : /\ wpc'[t] = wpc[t] \/ (wpc[t] = "none" /\ wpc'[t] \in {"gate", "peek"})
                         /\ tstate'[t] = "Completed" => tstate[t] = "Completed"
    BY <1>7, OthersDoNotConclude
  <2> QED BY <2>1, <2>2, HubCalm
<1> QED BY <1>1, <1>2, <1>3, <1>4, <1>5, <1>6, <1>7 DEF Next, DispatchStep

-----------------------------------------------------------------------------
(* What a service with one task and a hub promises.                         *)

ServiceInv == TypeOK /\ WebInv /\ ExitInv /\ HubInv

LEMMA ServiceInit == ASSUME Init PROVE ServiceInv
BY InitHolds, TypeInit, ExitInit DEF ServiceInv, HubInv

LEMMA ServiceStep ==
  ASSUME OneTask, HasHub, ServiceInv, [Next]_vars
  PROVE  ServiceInv'
BY NextKeeps, TypeStep, ExitStep, HubStep DEF ServiceInv

LEMMA StreamsSeeEnd ==
  ASSUME WebInv, HubInv
  PROVE  StreamSeesEnd
<1> SUFFICES ASSUME NEW s \in Streams, rpc[s] = "open", mpc = "serving",
                    tstate[joined[s]] = "Completed", finished[joined[s]]
             PROVE  stream[s] \in {"ended", "overrun"}
  BY DEF StreamSeesEnd
<1>1. Listening(s)
  BY DEF Listening
<1>2. joined[s] \in Tasks /\ (Announced(joined[s]) => GetsEnd(s))
  BY <1>1 DEF HubInv, EndInv
<1>3. wpc[joined[s]] = "done"
  BY <1>2, CompletedIsLate
<1>4. sending[Worker(joined[s])] = Silent
  BY <1>2, <1>3 DEF HubInv, QuietInv
<1> QED BY <1>2, <1>3, <1>4 DEF Announced, GetsEnd, Silent

LEMMA ServiceFacts ==
  ASSUME ServiceInv
  PROVE  /\ TypeOK /\ ExitIsDelivered /\ StreamSeesEnd
         /\ HistoryMatchesState /\ PayloadIsVisible
BY ClaimsSuffice, ExitsAreDelivered, StreamsSeeEnd DEF ServiceInv

\* WebSolve::TypeOK, for any tasks, callers and streams.
THEOREM TypeInvariant == Spec => []TypeOK
<1>1. Init => TypeOK
  BY TypeInit
<1>2. TypeOK /\ [Next]_vars => TypeOK'
  BY TypeStep
<1> QED BY <1>1, <1>2, PTL DEF Spec

\* WebSolveService::flush(): with one task, its Exit event is dispatched before
\* its observer is detached.
THEOREM ExitDelivered == ASSUME OneTask PROVE Spec => []ExitIsDelivered
<1> DEFINE Inv == TypeOK /\ WebInv /\ ExitInv
<1>1. Init => Inv
  BY InitHolds, TypeInit, ExitInit
<1>2. Inv /\ [Next]_vars => Inv'
  BY NextKeeps, TypeStep, ExitStep
<1>3. Inv => ExitIsDelivered
  BY ExitsAreDelivered
<1> QED BY <1>1, <1>2, <1>3, PTL DEF Spec

\* CalculatorController::events(): with one task, every stream that is open on
\* a completed task has been given its end.
THEOREM StreamsAreTold == ASSUME OneTask, HasHub PROVE Spec => []StreamSeesEnd
<1>1. Init => ServiceInv
  BY ServiceInit
<1>2. ServiceInv /\ [Next]_vars => ServiceInv'
  BY ServiceStep
<1>3. ServiceInv => StreamSeesEnd
  BY ServiceFacts
<1> QED BY <1>1, <1>2, <1>3, PTL DEF Spec
=============================================================================
