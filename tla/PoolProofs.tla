----------------------------- MODULE PoolProofs -----------------------------
(***************************************************************************)
(* ThreadPool for any number of workers, callers and chunks: the invariant *)
(* PoolInv is inductive, and the properties of the pool follow from it.    *)
(* Three facts carry it: a task is in one place (PlacesInv), _pending      *)
(* counts the places (CountInv), and whoever returns has read _pending or  *)
(* the futures (ReturnInv).                                                *)
(* Then RingQueue for any capacity, threads and calls: RingInv is          *)
(* inductive, and under it every step is one of Fifo or changes nothing    *)
(* that Fifo shows.                                                        *)
(***************************************************************************)
EXTENDS ThreadPool, RingQueue, FiniteSetTheorems, SequenceTheorems, TLAPS

\* Users of different kinds are different.
LEMMA ThreadKinds ==
  ASSUME PoolAssumption
  PROVE  /\ \A w \in Workers : w \notin Callers /\ w # "waiter" /\ w # "owner"
         /\ \A c \in Callers : c \notin Workers /\ c # "waiter" /\ c # "owner"
         /\ \A k \in Tasks : k # NoTask /\ k[1] \in Callers /\ k[2] \in 1 .. Chunks /\ k = <<k[1], k[2]>>
         /\ \A c \in Callers, i \in 1 .. Chunks : <<c, i>> \in Tasks
BY DEF PoolAssumption, Tasks, NoTask

\* A wake-up moves sleepers only, back to where they look again.
LEMMA WakeFacts ==
  ASSUME NEW f, NEW t \in DOMAIN f
  PROVE  /\ DOMAIN WakeAll(f) = DOMAIN f
         /\ f[t] # "asleep" => WakeAll(f)[t] = f[t]
         /\ f[t] = "asleep" => WakeAll(f)[t] \in {"sleep", "wait"}
         /\ f[t] = "asleep" /\ t \in Workers => WakeAll(f)[t] = "sleep"
         /\ f[t] = "asleep" /\ t \notin Workers => WakeAll(f)[t] = "wait"
BY DEF WakeAll

\* A step of one thread within its own program keeps PcsOK ...
LEMMA MovePcs ==
  ASSUME PoolAssumption, PcsOK, NEW t \in Workers \cup Callers \cup Others, NEW place,
         t \in Workers => place \in WorkerPcs, t \in Callers => place \in CallerPcs,
         t = "waiter" => place \in WaiterPcs, t = "owner" => place \in OwnerPcs,
         at' = [at EXCEPT ![t] = place]
  PROVE  PcsOK'
<1>1. place \in WorkerPcs \cup CallerPcs \cup WaiterPcs \cup OwnerPcs
  BY DEF Others
<1>2. at' \in [Workers \cup Callers \cup Others -> WorkerPcs \cup CallerPcs \cup WaiterPcs \cup OwnerPcs]
  BY <1>1 DEF PcsOK
<1>3. \A u \in Workers \cup Callers \cup Others : at'[u] = IF u = t THEN place ELSE at[u]
  BY DEF PcsOK
<1>4. QED
  BY <1>2, <1>3, ThreadKinds DEF PcsOK, Others

\* ... and so does one that wakes the sleepers.
LEMMA WakePcs ==
  ASSUME PoolAssumption, PcsOK, NEW t \in Workers \cup Callers \cup Others, NEW place,
         t \in Workers => place \in WorkerPcs, t \in Callers => place \in CallerPcs,
         t = "waiter" => place \in WaiterPcs, t = "owner" => place \in OwnerPcs,
         at' = WakeAll([at EXCEPT ![t] = place])
  PROVE  PcsOK'
<1> DEFINE Users == Workers \cup Callers \cup Others
           All == WorkerPcs \cup CallerPcs \cup WaiterPcs \cup OwnerPcs
           f == [at EXCEPT ![t] = place]
<1>1. /\ f \in [Users -> All]
      /\ \A u \in Users : f[u] = IF u = t THEN place ELSE at[u]
  BY DEF PcsOK, Others
<1>2. "sleep" \in All /\ "wait" \in All
  BY DEF WorkerPcs, WaiterPcs
<1>3. \A u \in Users :
        at'[u] = IF f[u] = "asleep" THEN IF u \in Workers THEN "sleep" ELSE "wait" ELSE f[u]
  BY <1>1 DEF WakeAll
<1>4. at' \in [Users -> All]
  BY <1>1, <1>2 DEF WakeAll
<1>5. \A w \in Workers : at'[w] \in WorkerPcs
  BY <1>1, <1>3, ThreadKinds DEF PcsOK, WorkerPcs
<1>6. \A c \in Callers : at'[c] \in CallerPcs
  BY <1>1, <1>3, ThreadKinds DEF PcsOK, CallerPcs
<1>7. at'["waiter"] \in WaiterPcs /\ at'["owner"] \in OwnerPcs
  BY <1>1, <1>3, ThreadKinds, PoolAssumption DEF PcsOK, WaiterPcs, OwnerPcs, Others, PoolAssumption
<1> QED BY <1>4, <1>5, <1>6, <1>7 DEF PcsOK

\* The sets that _pending counts are finite.
LEMMA FiniteCounts ==
  ASSUME PoolAssumption
  PROVE  /\ IsFiniteSet(Busy) /\ Cardinality(Busy) \in Nat
         /\ IsFiniteSet(Pushing) /\ Cardinality(Pushing) \in Nat
         /\ Cardinality(Busy) = 0 <=> Busy = {}
BY FS_Subset, FS_CardinalityType, FS_EmptySet DEF PoolAssumption, Busy, Pushing

\* What a push and a pop do to the queue.
LEMMA AppendFacts ==
  ASSUME NEW S, NEW s \in Seq(S), NEW x \in S
  PROVE  /\ Append(s, x) \in Seq(S) /\ Len(s) \in Nat /\ Len(Append(s, x)) = Len(s) + 1
         /\ \A i \in DOMAIN Append(s, x) :
              \/ i = Len(s) + 1 /\ Append(s, x)[i] = x
              \/ i \in DOMAIN s /\ Append(s, x)[i] = s[i] /\ s[i] \in S
         /\ \A i \in DOMAIN s : i \in DOMAIN Append(s, x) /\ Append(s, x)[i] = s[i]
         /\ Range(Append(s, x)) = Range(s) \cup {x}
<1>1. /\ Append(s, x) \in Seq(S) /\ Len(s) \in Nat /\ Len(Append(s, x)) = Len(s) + 1
      /\ DOMAIN s = 1 .. Len(s) /\ DOMAIN Append(s, x) = 1 .. Len(s) + 1
      /\ Append(s, x)[Len(s) + 1] = x
      /\ \A i \in DOMAIN s : Append(s, x)[i] = s[i] /\ s[i] \in S
  BY LenProperties
<1>2. \A i \in DOMAIN Append(s, x) : i = Len(s) + 1 \/ i \in DOMAIN s
  BY <1>1
<1>3. Len(s) + 1 \in DOMAIN Append(s, x) /\ \A i \in DOMAIN s : i \in DOMAIN Append(s, x)
  BY <1>1
<1>4. Range(Append(s, x)) = Range(s) \cup {x}
  BY <1>1, <1>2, <1>3 DEF Range
<1> QED BY <1>1, <1>2, <1>3, <1>4

LEMMA TailFacts ==
  ASSUME NEW S, NEW s \in Seq(S), s # <<>>
  PROVE  /\ Head(s) \in S /\ Tail(s) \in Seq(S) /\ Len(s) \in Nat /\ Len(Tail(s)) = Len(s) - 1
         /\ Head(s) = s[1] /\ 1 \in DOMAIN s
         /\ \A i \in DOMAIN Tail(s) :
              i + 1 \in DOMAIN s /\ i + 1 # 1 /\ Tail(s)[i] = s[i + 1] /\ s[i + 1] \in S /\ i \in Nat
         /\ Range(s) = Range(Tail(s)) \cup {Head(s)}
<1>1. /\ Head(s) \in S /\ Tail(s) \in Seq(S) /\ Len(s) \in Nat /\ Len(Tail(s)) = Len(s) - 1
      /\ Head(s) = s[1] /\ Len(s) > 0
      /\ DOMAIN s = 1 .. Len(s) /\ DOMAIN Tail(s) = 1 .. Len(s) - 1
      /\ \A i \in DOMAIN s : s[i] \in S
      /\ \A i \in DOMAIN Tail(s) : Tail(s)[i] = s[i + 1]
  BY HeadTailProperties, LenProperties, EmptySeq
<1>2. \A i \in DOMAIN Tail(s) : i + 1 \in DOMAIN s /\ i + 1 # 1 /\ i \in Nat
  BY <1>1
<1>3. \A i \in DOMAIN s : i = 1 \/ (i - 1 \in DOMAIN Tail(s) /\ i = (i - 1) + 1)
  BY <1>1
<1>4. Range(s) \subseteq Range(Tail(s)) \cup {Head(s)}
  BY <1>1, <1>3 DEF Range
<1>5. Range(Tail(s)) \cup {Head(s)} \subseteq Range(s)
  BY <1>1, <1>2 DEF Range
<1> QED BY <1>1, <1>2, <1>4, <1>5

-----------------------------------------------------------------------------
LEMMA PoolInitInv == ASSUME PoolAssumption, PoolInit PROVE PoolInv
<1>1. PcsOK
  BY ThreadKinds DEF PoolInit, PcsOK, WorkerPcs, CallerPcs, WaiterPcs, OwnerPcs, Others, PoolAssumption
<1>2. PoolTypeOK
  <2>1. tickets \in Seq(Tasks) /\ pendingTasks \in Nat /\ next \in [Callers -> 1 .. Chunks + 1]
    BY DEF PoolInit, PoolAssumption
  <2>2. held \in [Workers -> Tasks \cup {NoTask}]
    BY DEF PoolInit
  <2>3. future \in [Tasks -> {"none", "waiting", "done", "broken"}] /\ runs \in [Tasks -> Nat]
    BY DEF PoolInit
  <2> QED BY <1>1, <2>1, <2>2, <2>3 DEF PoolInit, PoolTypeOK
<1>3. \A t \in Workers : at[t] = "pop"
  BY DEF PoolInit
<1>4. (\A t \in Callers : at[t] = "idle") /\ at["waiter"] = "idle" /\ at["owner"] = "idle"
  BY ThreadKinds, PoolAssumption DEF PoolInit, Others, PoolAssumption
<1>5. \A k \in Tasks : ~Pushed(k)
  BY <1>4, ThreadKinds DEF PoolInit, Pushed
<1>6. PlacesInv
  BY <1>3, <1>4, <1>5 DEF PoolInit, PlacesInv
<1>7. Busy = {} /\ Pushing = {}
  BY <1>3, <1>4 DEF Busy, Pushing
<1>8. CountInv
  BY <1>4, <1>7, FS_EmptySet DEF PoolInit, CountInv
<1>9. ReturnInv
  BY <1>4 DEF PoolInit, ReturnInv
<1> QED BY <1>2, <1>6, <1>8, <1>9 DEF PoolInv

-----------------------------------------------------------------------------
(* Type correctness.                                                       *)

\* The task a caller is about to submit or to push.
LEMMA ChunkFacts ==
  ASSUME PoolAssumption, PoolTypeOK, NEW c \in Callers, next[c] <= Chunks
  PROVE  Chunk(c) \in Tasks /\ Chunk(c)[1] = c /\ Chunk(c)[2] = next[c] /\ next[c] + 1 \in 1 .. Chunks + 1
BY ThreadKinds DEF PoolTypeOK, Chunk, Tasks, PoolAssumption

LEMMA CallerType ==
  ASSUME PoolAssumption, PoolTypeOK, PlacesInv, NEW c \in Callers, CallerNext(c)
  PROVE  PoolTypeOK'
<1> USE DEF PoolTypeOK
<1>1. CASE Submit(c)
  <2>1. at' = [at EXCEPT ![c] = "count"] \/ at' = at
    BY <1>1 DEF Submit
  <2>2. PcsOK'
    BY <2>1, MovePcs, ThreadKinds DEF CallerPcs, PcsOK
  <2>3. CASE stopped
    <3>1. next[c] <= Chunks /\ next' = [next EXCEPT ![c] = @ + 1] /\ future' = [future EXCEPT ![Chunk(c)] = "broken"]
      BY <1>1, <2>3 DEF Submit
    <3> QED BY <1>1, <2>2, <3>1, ChunkFacts DEF Submit
  <2>4. CASE ~stopped
    BY <1>1, <2>2, <2>4, ChunkFacts DEF Submit
  <2> QED BY <2>3, <2>4
<1>2. CASE CountPending(c)
  <2>1. PcsOK'
    BY <1>2, MovePcs, ThreadKinds DEF CountPending, Goto, CallerPcs
  <2> QED BY <1>2, <2>1 DEF CountPending
<1>3. CASE Push(c)
  <2>1. PcsOK'
    BY <1>3, MovePcs, ThreadKinds DEF Push, Goto, CallerPcs
  <2>2. next[c] <= Chunks
    BY <1>3 DEF Push, Goto, PlacesInv
  <2>3. tickets' \in Seq(Tasks) /\ next' \in [Callers -> 1 .. Chunks + 1]
    BY <1>3, <2>2, ChunkFacts DEF Push
  <2> QED BY <1>3, <2>1, <2>3 DEF Push
<1>4. CASE WakeWorkers(c)
  <2>1. PcsOK'
    BY <1>4, WakePcs, ThreadKinds DEF WakeWorkers, CallerPcs
  <2>2. next[c] <= Chunks
    BY <1>4 DEF WakeWorkers, PlacesInv
  <2> QED BY <1>4, <2>1, <2>2, ChunkFacts DEF WakeWorkers
<1>5. CASE JoinChunks(c)
  <2>1. PcsOK'
    BY <1>5, MovePcs, ThreadKinds DEF JoinChunks, Goto, CallerPcs
  <2> QED BY <1>5, <2>1 DEF JoinChunks
<1> QED BY <1>1, <1>2, <1>3, <1>4, <1>5 DEF CallerNext

LEMMA WorkerType ==
  ASSUME PoolAssumption, PoolTypeOK, PlacesInv, CountInv, NEW w \in Workers, WorkerNext(w)
  PROVE  PoolTypeOK'
<1> USE DEF PoolTypeOK
<1>1. PcsOK'
  <2>1. CASE BumpIdle(w)
    BY <2>1, WakePcs, ThreadKinds DEF BumpIdle, WorkerPcs
  <2>2. CASE ~BumpIdle(w)
    <3>1. \E place \in WorkerPcs : at' = [at EXCEPT ![w] = place]
      BY <2>2 DEF WorkerNext, PopTask, FinishTask, TaskDone, FoundEmpty, TestStop, TestPending,
           SnapshotWakes, RecheckPending, RecheckStop, Sleep, Goto, WorkerPcs
    <3> QED BY <3>1, MovePcs, ThreadKinds
  <2> QED BY <2>1, <2>2
<1>2. CASE PopTask(w)
  <2>1. Head(tickets) \in Tasks /\ Tail(tickets) \in Seq(Tasks)
    BY <1>2, HeadTailProperties DEF PopTask
  <2> QED BY <1>1, <1>2, <2>1 DEF PopTask
<1>3. CASE FinishTask(w)
  <2>1. held[w] \in Tasks
    BY <1>3 DEF FinishTask, Goto, PlacesInv
  <2> QED BY <1>1, <1>3, <2>1 DEF FinishTask
<1>4. CASE TaskDone(w)
  <2>1. w \in Busy /\ at["owner"] \notin {"drain", "stopped"}
    BY <1>4 DEF TaskDone, Goto, Busy, CountInv
  <2>2. pendingTasks > 0
    <3>1. Cardinality(Busy) > 0
      BY <2>1, FiniteCounts
    <3> QED BY <2>1, <3>1, FiniteCounts, LenProperties DEF CountInv
  <2> QED BY <1>1, <1>4, <2>2 DEF TaskDone
<1>5. ASSUME UNCHANGED <<tickets, pendingTasks, stopped, stopAsked, first, held, next, future, runs, before>>,
             fresh' \subseteq fresh \cup {w}
      PROVE  PoolTypeOK'
  BY <1>1, <1>5
<1>6. ~(PopTask(w) \/ FinishTask(w) \/ TaskDone(w)) =>
        /\ UNCHANGED <<tickets, pendingTasks, stopped, stopAsked, first, held, next, future, runs, before>>
        /\ fresh' \subseteq fresh \cup {w}
  BY DEF WorkerNext, BumpIdle, FoundEmpty, TestStop, TestPending, SnapshotWakes, RecheckPending,
         RecheckStop, Sleep
<1> QED BY <1>2, <1>3, <1>4, <1>5, <1>6

LEMMA WaiterType ==
  ASSUME PoolAssumption, PoolTypeOK, WaitBegin \/ WaiterNext
  PROVE  PoolTypeOK'
<1> USE DEF PoolTypeOK
<1>1. \E place \in WaiterPcs : at' = [at EXCEPT !["waiter"] = place]
  BY DEF WaitBegin, WaiterNext, WaitLook, WaitRead, WaitRelook, WaitSleep, Goto, WaiterPcs
<1>2. PcsOK'
  BY <1>1, MovePcs, PoolAssumption DEF Others, PoolAssumption
<1> QED BY <1>2 DEF WaitBegin, WaiterNext, WaitLook, WaitRead, WaitRelook, WaitSleep, Accepted

LEMMA OwnerType ==
  ASSUME PoolAssumption, PoolTypeOK, PlacesInv, StopBegin \/ StopNext
  PROVE  PoolTypeOK'
<1> USE DEF PoolTypeOK
<1>1. CASE StopBegin \/ StopAsk \/ StopJoin \/ StopEnd
  <2>1. \E place \in OwnerPcs : at' = [at EXCEPT !["owner"] = place]
    BY <1>1 DEF StopBegin, StopAsk, StopJoin, StopEnd, Goto, OwnerPcs
  <2>2. PcsOK'
    BY <2>1, MovePcs, PoolAssumption DEF Others, PoolAssumption
  <2>3. /\ UNCHANGED <<tickets, fresh, first, held, next, future, runs, before>>
        /\ pendingTasks' \in {pendingTasks, 0}
    BY <1>1 DEF StopBegin, StopAsk, StopJoin, StopEnd
  <2>4. stopped' \in BOOLEAN /\ stopAsked' \in BOOLEAN
    BY <1>1 DEF StopBegin, StopAsk, StopJoin, StopEnd
  <2> QED BY <2>2, <2>3, <2>4
<1>2. CASE StopWake
  <2>1. PcsOK'
    BY <1>2, WakePcs, PoolAssumption DEF StopWake, Others, OwnerPcs, PoolAssumption
  <2> QED BY <1>2, <2>1 DEF StopWake
<1>3. CASE StopDrain
  <2>1. Head(tickets) \in Tasks /\ Tail(tickets) \in Seq(Tasks)
    BY <1>3, HeadTailProperties DEF StopDrain
  <2> QED BY <1>3, <2>1 DEF StopDrain, PcsOK
<1> QED BY <1>1, <1>2, <1>3 DEF StopNext

LEMMA TypeStep ==
  ASSUME PoolAssumption, PoolInv, PoolNext
  PROVE  PoolTypeOK'
BY CallerType, WorkerType, WaiterType, OwnerType DEF PoolInv, PoolNext

-----------------------------------------------------------------------------
(* A task is in one place, and _pending counts the places.                 *)

\* The steps that move no task: no caller moves, no worker takes or ends one.
Still ==
  /\ UNCHANGED <<tickets, pendingTasks, held, next, future, before>>
  /\ \A c \in Callers : at'[c] = at[c]
  /\ \A w \in Workers : /\ at'[w] = "run" <=> at[w] = "run"
                        /\ at'[w] = "done" <=> at[w] = "done"
                        /\ at[w] = "exited" => at'[w] = "exited"
  /\ at["owner"] \in {"drain", "stopped"} => at'["owner"] \in {"drain", "stopped"}
  /\ at'["owner"] \in {"drain", "stopped"} =>
       at["owner"] \in {"drain", "stopped"} \/ \A w \in Workers : at'[w] = "exited"
  /\ ~MayStop => at'["owner"] = at["owner"]
  /\ at'["waiter"] = "returned" =>
       at["waiter"] = "returned" \/ pendingTasks = 0

\* When nothing is pending, every task that was pushed is settled.
LEMMA NothingPending ==
  ASSUME PoolAssumption, PoolInv, pendingTasks = 0, at["owner"] \notin {"drain", "stopped"},
         NEW k \in Tasks, Pushed(k)
  PROVE  Settled(k)
<1>1. Len(tickets) = 0 /\ Busy = {}
  BY FiniteCounts, LenProperties DEF PoolInv, CountInv, PoolTypeOK
<1>2. tickets = <<>>
  BY <1>1, EmptySeq DEF PoolInv, PoolTypeOK
<1>3. k \notin Range(tickets)
  BY <1>2 DEF Range
<1>4. \A w \in Workers : held[w] # k
  BY <1>1, ThreadKinds DEF Busy, PoolInv, PlacesInv
<1> QED BY <1>3, <1>4 DEF PoolInv, PlacesInv

LEMMA StillStep ==
  ASSUME PoolAssumption, PoolInv, Still
  PROVE  PlacesInv' /\ CountInv' /\ ReturnInv'
<1>1. (\A k \in Tasks : Pushed(k)' <=> Pushed(k)) /\ \A k \in Tasks : Settled(k)' <=> Settled(k)
  BY ThreadKinds DEF Still, Pushed, Settled
<1>2. (\A i \in DOMAIN tickets : tickets[i] \in Tasks) /\ \A w \in Workers : held[w] \in Tasks \cup {NoTask}
  BY ElementOfSeq, LenProperties DEF PoolInv, PoolTypeOK
<1>3. PlacesInv'
  <2>1. \A c \in Callers : Settled(Chunk(c))' <=> Settled(Chunk(c))
    BY DEF Still, Settled, Chunk
  <2> QED BY <1>1, <1>2, <2>1, ThreadKinds DEF Still, PoolInv, PlacesInv, Range
<1>4. Busy' = Busy /\ Pushing' = Pushing
  BY DEF Still, Busy, Pushing
<1>5. CountInv'
  BY <1>4 DEF Still, PoolInv, CountInv
<1>6. ReturnInv'
  <2>1. ~MayStop /\ at'["waiter"] = "returned" => \A k \in before : Settled(k)
    BY NothingPending DEF Still, PoolInv, ReturnInv, PoolTypeOK
  <2> QED BY <1>1, <2>1, ThreadKinds DEF Still, PoolInv, ReturnInv, PoolTypeOK
<1> QED BY <1>3, <1>5, <1>6

\* Where the threads are after a step of one of them.
LEMMA Moved ==
  ASSUME PcsOK, NEW t \in Workers \cup Callers \cup Others, NEW place, at' = [at EXCEPT ![t] = place]
  PROVE  \A u \in Workers \cup Callers \cup Others : at'[u] = IF u = t THEN place ELSE at[u]
BY DEF PcsOK

LEMMA Woken ==
  ASSUME PcsOK, NEW t \in Workers \cup Callers \cup Others, NEW place, place # "asleep",
         at' = WakeAll([at EXCEPT ![t] = place])
  PROVE  \A u \in Workers \cup Callers \cup Others :
           at'[u] = IF u = t THEN place
                    ELSE IF at[u] # "asleep" THEN at[u]
                    ELSE IF u \in Workers THEN "sleep" ELSE "wait"
BY DEF PcsOK, WakeAll

LEMMA WorkerStill ==
  ASSUME PoolAssumption, PoolInv, NEW w \in Workers, WorkerNext(w),
         ~PopTask(w), ~FinishTask(w), ~TaskDone(w)
  PROVE  Still
<1>0. UNCHANGED <<tickets, pendingTasks, held, next, future, before>>
  BY DEF WorkerNext, BumpIdle, FoundEmpty, TestStop, TestPending, SnapshotWakes,
         RecheckPending, RecheckStop, Sleep
<1>1. /\ \A u \in Workers \cup Callers \cup Others :
           u # w /\ at[u] # "asleep" => at'[u] = at[u]
      /\ \A u \in Workers : u # w /\ at[u] = "asleep" => at'[u] \in {"sleep", "asleep"}
      /\ at'["waiter"] = "returned" => at["waiter"] = "returned"
      /\ at[w] \notin {"run", "done", "exited"} /\ at'[w] \notin {"run", "done"}
  <2>1. CASE BumpIdle(w)
    <3>1. \A u \in Workers \cup Callers \cup Others :
            at'[u] = IF u = w THEN "pop"
                     ELSE IF at[u] # "asleep" THEN at[u]
                     ELSE IF u \in Workers THEN "sleep" ELSE "wait"
      BY <2>1, Woken DEF BumpIdle, PoolInv, PoolTypeOK
    <3> QED BY <2>1, <3>1, ThreadKinds DEF BumpIdle, Others
  <2>2. CASE ~BumpIdle(w)
    <3>1. \E place \in WorkerPcs \ {"run", "done"} :
            at' = [at EXCEPT ![w] = place] /\ at[w] \notin {"run", "done", "exited"}
      BY <2>2 DEF WorkerNext, FoundEmpty, TestStop, TestPending,
           SnapshotWakes, RecheckPending, RecheckStop, Sleep, Goto, WorkerPcs
    <3>2. PICK place \in WorkerPcs \ {"run", "done"} : at' = [at EXCEPT ![w] = place]
      BY <3>1
    <3>3. \A u \in Workers \cup Callers \cup Others : at'[u] = IF u = w THEN place ELSE at[u]
      BY <3>2, Moved DEF PoolInv, PoolTypeOK
    <3> QED BY <3>1, <3>3, ThreadKinds DEF Others
  <2> QED BY <2>1, <2>2
<1>2. \A c \in Callers : at'[c] = at[c]
  <2>1. \A c \in Callers : c # w /\ at[c] # "asleep"
    BY ThreadKinds DEF PoolInv, PoolTypeOK, PcsOK, CallerPcs
  <2> QED BY <1>1, <2>1
<1>3. at'["owner"] = at["owner"]
  BY <1>1, ThreadKinds DEF PoolInv, PoolTypeOK, PcsOK, OwnerPcs, Others
<1> QED BY <1>0, <1>1, <1>2, <1>3 DEF Still

LEMMA WaiterStill ==
  ASSUME PoolAssumption, PoolInv, WaiterNext
  PROVE  Still
<1>0. UNCHANGED <<tickets, pendingTasks, held, next, future, before>>
  BY DEF WaiterNext, WaitLook, WaitRead, WaitRelook, WaitSleep
<1>1. PICK place : /\ at' = [at EXCEPT !["waiter"] = place]
                   /\ place = "returned" => pendingTasks = 0
  BY DEF WaiterNext, WaitLook, WaitRead, WaitRelook, WaitSleep, Goto
<1>2. \A u \in Workers \cup Callers \cup Others : at'[u] = IF u = "waiter" THEN place ELSE at[u]
  BY <1>1, Moved DEF Others, PoolInv, PoolTypeOK
<1> QED BY <1>0, <1>1, <1>2, ThreadKinds DEF Still, Others

LEMMA OwnerStill ==
  ASSUME PoolAssumption, PoolInv, StopBegin \/ StopAsk \/ StopWake \/ StopJoin
  PROVE  Still
<1>0. UNCHANGED <<tickets, pendingTasks, held, next, future, before>>
  BY DEF StopBegin, StopAsk, StopWake, StopJoin
<1>1. MayStop
  BY DEF StopBegin, StopAsk, StopWake, StopJoin, Goto, PoolInv, ReturnInv
<1>a. StopWake =>
        \A u \in Workers \cup Callers \cup Others :
            at'[u] = IF u = "owner" THEN "join"
                     ELSE IF at[u] # "asleep" THEN at[u]
                     ELSE IF u \in Workers THEN "sleep" ELSE "wait"
  <2>1. "owner" \in Workers \cup Callers \cup Others /\ PcsOK
    BY DEF Others, PoolInv, PoolTypeOK
  <2>2. StopWake => at' = WakeAll([at EXCEPT !["owner"] = "join"])
    BY DEF StopWake
  <2> QED BY <2>1, <2>2, Woken
<1>2. \A u \in Workers \cup Callers \cup {"waiter"} :
         (at[u] # "asleep" => at'[u] = at[u]) /\ (at[u] = "asleep" => at'[u] \in {"sleep", "asleep", "wait"})
  <2>1. CASE StopWake
    BY <2>1, <1>a, ThreadKinds DEF Others
  <2>2. CASE ~StopWake
    <3>1. PICK place : at' = [at EXCEPT !["owner"] = place]
      BY <2>2 DEF StopBegin, StopAsk, StopJoin, Goto
    <3> QED BY <3>1, ThreadKinds DEF PoolInv, PoolTypeOK, PcsOK, Others
  <2> QED BY <2>1, <2>2
<1>3. at'["owner"] \in {"ask", "wake", "join", "drain"} /\ at["owner"] \notin {"drain", "stopped"}
  <2>1. CASE StopWake
    BY <2>1, <1>a DEF StopWake, Others
  <2>2. CASE ~StopWake
    BY <2>2 DEF StopBegin, StopAsk, StopJoin, Goto, PoolInv, PoolTypeOK, PcsOK, Others
  <2> QED BY <2>1, <2>2
<1>4. at'["owner"] = "drain" => \A w \in Workers : at[w] = "exited"
  <2>1. CASE StopWake
    BY <2>1, <1>a DEF Others
  <2>2. CASE ~StopWake
    BY <2>2 DEF StopBegin, StopAsk, StopJoin, Goto, PoolInv, PoolTypeOK, PcsOK, Others
  <2> QED BY <2>1, <2>2
<1>5. at'["waiter"] = "returned" => at["waiter"] = "returned"
  BY <1>2
<1>6. \A c \in Callers : at'[c] = at[c]
  BY <1>2, ThreadKinds DEF PoolInv, PoolTypeOK, PcsOK, CallerPcs
<1> QED BY <1>0, <1>1, <1>2, <1>3, <1>4, <1>5, <1>6 DEF Still

\* The steps that leave the queue and the workers' tasks alone, and after
\* which a task that was pushed meanwhile is settled.
LEMMA PlacesFrame ==
  ASSUME PoolAssumption, PoolInv, UNCHANGED <<tickets, held>>,
         \A w \in Workers : at'[w] = "run" <=> at[w] = "run",
         \A k \in Tasks : Pushed(k) => Pushed(k)' /\ (Settled(k)' <=> Settled(k)),
         \A k \in Tasks : Pushed(k)' /\ ~Pushed(k) => Settled(k)',
         \A c \in Callers : at'[c] \in {"count", "push", "wake"} => next'[c] <= Chunks,
         \A c \in Callers : at'[c] \in {"count", "push"} => ~Settled(Chunk(c))'
  PROVE  PlacesInv'
<1>1. (\A i \in DOMAIN tickets : tickets[i] \in Tasks) /\ \A w \in Workers : held[w] \in Tasks \cup {NoTask}
  BY ElementOfSeq, LenProperties DEF PoolInv, PoolTypeOK
<1>2. \A w \in Workers : at[w] = "run" => held[w] \in Tasks
  BY <1>1 DEF PoolInv, PlacesInv
<1>3. \A k \in Tasks : Pushed(k)' => Settled(k)' \/ k \in Range(tickets) \/ \E w \in Workers : held[w] = k
  BY DEF PoolInv, PlacesInv
<1> QED BY <1>1, <1>2, <1>3 DEF PoolInv, PlacesInv, Range

LEMMA SubmitStep ==
  ASSUME PoolAssumption, PoolInv, NEW c \in Callers, Submit(c)
  PROVE  PlacesInv' /\ CountInv' /\ ReturnInv'
<1> USE DEF PoolInv, PoolTypeOK
<1>0. PICK m \in Tasks : m = Chunk(c)
  BY ChunkFacts DEF Submit
<1>1. m[1] = c /\ m[2] = next[c] /\ ~Pushed(m)
  BY <1>0, ChunkFacts DEF Submit, Pushed
<1>2. \A u \in Workers \cup Callers \cup Others : u # c => at'[u] = at[u]
  BY DEF Submit, PcsOK
<1>3. at[c] = "idle" /\ at'[c] \in {"idle", "count"} /\ next[c] <= Chunks
  BY DEF Submit, PcsOK
<1>4. \A k \in Tasks : k # m => (Settled(k)' <=> Settled(k))
  BY <1>0 DEF Submit, Settled
<1>5. \A k \in Tasks : k # m => (Pushed(k)' <=> Pushed(k))
  <2> SUFFICES ASSUME NEW k \in Tasks, k # m PROVE Pushed(k)' <=> Pushed(k)
    OBVIOUS
  <2>1. k[1] = c => k[2] # next[c]
    BY <1>1, ThreadKinds
  <2>2. next' = next \/ next' = [next EXCEPT ![c] = @ + 1]
    BY DEF Submit
  <2> QED BY <1>2, <1>3, <2>1, <2>2, ThreadKinds DEF Pushed
<1>6. Pushed(m)' => Settled(m)'
  BY <1>0, <1>1, <1>3, ThreadKinds DEF Submit, Settled, Pushed
<1>7. PlacesInv'
  <2>1. \A w \in Workers : at'[w] = "run" <=> at[w] = "run"
    BY <1>2, ThreadKinds
  <2>2. \A d \in Callers : at'[d] \in {"count", "push", "wake"} => next'[d] <= Chunks
    BY <1>2, <1>3 DEF Submit, PlacesInv
  <2>3. UNCHANGED <<tickets, held>>
    BY DEF Submit
  <2>4. \A k \in Tasks : Pushed(k) => Pushed(k)' /\ (Settled(k)' <=> Settled(k))
    BY <1>1, <1>4, <1>5
  <2>5. \A k \in Tasks : Pushed(k)' /\ ~Pushed(k) => Settled(k)'
    BY <1>5, <1>6
  <2>6. \A d \in Callers : at'[d] \in {"count", "push"} => ~Settled(Chunk(d))'
    <3> SUFFICES ASSUME NEW d \in Callers, at'[d] \in {"count", "push"}
                 PROVE  ~Settled(Chunk(d))'
      OBVIOUS
    <3>1. CASE d = c
      <4>1. at' = [at EXCEPT ![c] = "count"] /\ future' = [future EXCEPT ![m] = "waiting"] /\ next' = next
        BY <1>0, <1>3, <3>1 DEF Submit, PcsOK
      <4> QED BY <1>0, <3>1, <4>1 DEF Settled, Chunk
    <3>2. CASE d # c
      <4>1. Chunk(d)' = Chunk(d) /\ at'[d] = at[d]
        BY <1>2, <3>2 DEF Submit, Chunk
      <4>2. Chunk(d) \in Tasks /\ Chunk(d) # m
        BY <1>1, <3>2, <4>1, ChunkFacts DEF PlacesInv
      <4> QED BY <1>4, <4>1, <4>2 DEF PlacesInv, Settled
    <3> QED BY <3>1, <3>2
  <2> QED BY <2>1, <2>2, <2>3, <2>4, <2>5, <2>6, PlacesFrame
<1>8. Busy' = Busy /\ Pushing' = Pushing
  <2>1. \A w \in Workers : at'[w] = at[w]
    BY <1>2, ThreadKinds
  <2>2. \A d \in Callers : at'[d] = "push" <=> at[d] = "push"
    BY <1>2, <1>3
  <2> QED BY <2>1, <2>2 DEF Busy, Pushing
<1>9. CountInv'
  BY <1>2, <1>8, ThreadKinds DEF Submit, CountInv, Others
<1>10. ReturnInv'
  <2>1. \A k \in before : k # m
    BY <1>1 DEF ReturnInv
  <2>2. \A d \in Callers : at'[d] = "returned" => \A i \in 1 .. Chunks : Settled(<<d, i>>)'
    BY <1>1, <1>2, <1>3, <1>4, ThreadKinds DEF ReturnInv
  <2>3. \A k \in before : Pushed(k)' /\ (Settled(k)' <=> Settled(k))
    BY <1>4, <1>5, <2>1 DEF ReturnInv
  <2> QED BY <1>2, <2>2, <2>3, ThreadKinds DEF Submit, ReturnInv, Others
<1> QED BY <1>7, <1>9, <1>10

\* The rest of submit(): the task is counted, pushed, and the workers woken.
LEMMA CountStep ==
  ASSUME PoolAssumption, PoolInv, NEW c \in Callers, CountPending(c)
  PROVE  PlacesInv' /\ CountInv' /\ ReturnInv'
<1> USE DEF PoolInv, PoolTypeOK
<1>1. \A u \in Workers \cup Callers \cup Others : at'[u] = IF u = c THEN "push" ELSE at[u]
  BY DEF CountPending, Goto, PcsOK
<1>2. (\A k \in Tasks : Pushed(k)' <=> Pushed(k)) /\ \A k \in Tasks : Settled(k)' <=> Settled(k)
  BY <1>1, ThreadKinds DEF CountPending, Goto, Pushed, Settled
<1>3. at[c] = "count"
  BY DEF CountPending, Goto
<1>4. PlacesInv'
  <2>1. \A w \in Workers : at'[w] = "run" <=> at[w] = "run"
    BY <1>1, ThreadKinds
  <2>2. \A d \in Callers : at'[d] \in {"count", "push", "wake"} => next'[d] <= Chunks
    BY <1>1, <1>3 DEF CountPending, PlacesInv
  <2>3. \A d \in Callers : at'[d] \in {"count", "push"} => ~Settled(Chunk(d))'
    <3>1. \A d \in Callers : Settled(Chunk(d))' <=> Settled(Chunk(d))
      BY DEF CountPending, Settled, Chunk
    <3> QED BY <1>1, <1>3, <3>1 DEF PlacesInv
  <2> QED BY <1>2, <2>1, <2>2, <2>3, PlacesFrame DEF CountPending
<1>5. Busy' = Busy /\ Pushing' = Pushing \cup {c} /\ c \notin Pushing
  <2>1. \A w \in Workers : at'[w] = at[w]
    BY <1>1, ThreadKinds
  <2> QED BY <1>1, <1>3, <2>1 DEF Busy, Pushing
<1>6. Cardinality(Pushing') = Cardinality(Pushing) + 1
  BY <1>5, FiniteCounts, FS_AddElement
<1>7. at'["owner"] = at["owner"] /\ at'["waiter"] = at["waiter"]
  BY <1>1, ThreadKinds DEF Others
<1>8. CountInv'
  <2>1. \A w \in Workers : at'[w] = at[w]
    BY <1>1, ThreadKinds
  <2>2. Cardinality(Pushing) \in Nat /\ Cardinality(Busy) \in Nat /\ Len(tickets) \in Nat
    BY FiniteCounts, LenProperties
  <2>3. pendingTasks' = pendingTasks + 1 /\ tickets' = tickets
    BY DEF CountPending
  <2>4. CASE at["owner"] \in {"drain", "stopped"}
    BY <1>7, <2>1, <2>4 DEF CountInv
  <2>5. CASE at["owner"] \notin {"drain", "stopped"}
    <3>1. pendingTasks = Len(tickets) + Cardinality(Busy) + Cardinality(Pushing)
      BY <2>5 DEF CountInv
    <3>2. pendingTasks' = Len(tickets') + Cardinality(Busy') + Cardinality(Pushing')
      BY <1>5, <1>6, <2>2, <2>3, <3>1
    <3> QED BY <1>7, <2>5, <3>2 DEF CountInv
  <2> QED BY <2>4, <2>5
<1>9. ReturnInv'
  <2>1. \A d \in Callers : at'[d] = "returned" => at[d] = "returned"
    BY <1>1
  <2> QED BY <1>2, <1>7, <2>1, ThreadKinds DEF CountPending, ReturnInv
<1> QED BY <1>4, <1>8, <1>9

LEMMA PushStep ==
  ASSUME PoolAssumption, PoolInv, NEW c \in Callers, Push(c)
  PROVE  PlacesInv' /\ CountInv' /\ ReturnInv'
<1> USE DEF PoolInv, PoolTypeOK
<1>1. at[c] = "push" /\ next[c] <= Chunks
  BY DEF Push, Goto, PlacesInv
<1>2. PICK m \in Tasks : m = Chunk(c)
  BY <1>1, ChunkFacts
<1>3. m[1] = c /\ m[2] = next[c] /\ ~Pushed(m)
  BY <1>1, <1>2, ChunkFacts DEF Pushed
<1>4. /\ \A u \in Workers \cup Callers \cup Others : u # c => at'[u] = at[u]
      /\ at'[c] = IF c \in first THEN "wake" ELSE "idle"
      /\ \A d \in Callers : d # c => next'[d] = next[d]
      /\ next'[c] = IF c \in first THEN next[c] ELSE next[c] + 1
  BY DEF Push, Goto, PcsOK
<1>5. \A k \in Tasks : Settled(k)' <=> Settled(k)
  BY DEF Push, Settled
<1>6. \A k \in Tasks : Pushed(k)' <=> Pushed(k) \/ k = m
  <2> SUFFICES ASSUME NEW k \in Tasks PROVE Pushed(k)' <=> Pushed(k) \/ k = m
    OBVIOUS
  <2>1. CASE k[1] # c
    BY <1>3, <1>4, <2>1, ThreadKinds DEF Pushed
  <2>2. CASE k[1] = c
    <3>1. k = m <=> k[2] = next[c]
      BY <1>3, <2>2, ThreadKinds
    <3>2. next[c] \in Nat /\ k[2] \in Nat
      BY PoolAssumption, ThreadKinds DEF PoolAssumption
    <3> QED BY <1>1, <1>4, <2>2, <3>1, <3>2 DEF Pushed
  <2> QED BY <2>1, <2>2
<1>7. /\ Len(tickets) \in Nat /\ Len(tickets') = Len(tickets) + 1
      /\ \A i \in DOMAIN tickets' :
           \/ i = Len(tickets) + 1 /\ tickets'[i] = m
           \/ i \in DOMAIN tickets /\ tickets'[i] = tickets[i] /\ tickets[i] \in Tasks
      /\ Range(tickets') = Range(tickets) \cup {m}
  <2>1. tickets' = Append(tickets, m) /\ tickets \in Seq(Tasks)
    BY <1>2 DEF Push
  <2> QED BY <2>1, AppendFacts
<1>8. \A w \in Workers : at'[w] = at[w] /\ held'[w] = held[w]
  BY <1>4, ThreadKinds DEF Push
<1>9. ~Settled(m)
  BY <1>1, <1>2 DEF PlacesInv
<1>10. PlacesInv'
  <2>1. \A i \in DOMAIN tickets' : Pushed(tickets[i])' /\ ~Settled(tickets[i])'
    <3> SUFFICES ASSUME NEW i \in DOMAIN tickets'
                 PROVE  Pushed(tickets[i])' /\ ~Settled(tickets[i])'
      OBVIOUS
    <3>0. tickets'[i] = m \/ (i \in DOMAIN tickets /\ tickets'[i] = tickets[i] /\ tickets[i] \in Tasks)
      BY <1>7
    <3>1. PICK k \in Tasks : k = tickets'[i] /\ (k = m \/ (Pushed(k) /\ ~Settled(k)))
      BY <3>0 DEF PlacesInv
    <3>2. Pushed(k)' /\ ~Settled(k)'
      BY <1>5, <1>6, <1>9, <3>1
    <3> QED BY <3>1, <3>2 DEF Pushed, Settled
  <2>2. \A i, j \in DOMAIN tickets' : tickets'[i] = tickets'[j] => i = j
    <3>1. \A i \in DOMAIN tickets : tickets[i] # m
      BY <1>3 DEF PlacesInv
    <3> QED BY <1>7, <3>1 DEF PlacesInv
  <2>3. \A w \in Workers : held'[w] # NoTask <=> at'[w] = "run"
    BY <1>8 DEF PlacesInv
  <2>4. \A w \in Workers : at'[w] = "run" =>
          /\ Pushed(held[w])' /\ ~Settled(held[w])'
          /\ \A i \in DOMAIN tickets' : tickets'[i] # held'[w]
    <3> SUFFICES ASSUME NEW w \in Workers, at'[w] = "run"
                 PROVE  /\ Pushed(held[w])' /\ ~Settled(held[w])'
                        /\ \A i \in DOMAIN tickets' : tickets'[i] # held'[w]
      OBVIOUS
    <3>1. PICK k \in Tasks : k = held'[w] /\ k = held[w] /\ Pushed(k) /\ ~Settled(k)
      BY <1>8 DEF PlacesInv
    <3>2. Pushed(k)' /\ ~Settled(k)' /\ k # m
      BY <1>3, <1>5, <1>6, <3>1
    <3>3. Pushed(held[w])' /\ ~Settled(held[w])'
      BY <3>1, <3>2 DEF Pushed, Settled
    <3>4. ASSUME NEW i \in DOMAIN tickets' PROVE tickets'[i] # held'[w]
      <4>1. tickets'[i] = m \/ (i \in DOMAIN tickets /\ tickets'[i] = tickets[i])
        BY <1>7
      <4>2. i \in DOMAIN tickets => tickets[i] # held[w]
        BY <1>8 DEF PlacesInv
      <4> QED BY <3>1, <3>2, <4>1, <4>2
    <3> QED BY <3>3, <3>4
  <2>5. \A v, w \in Workers : at'[v] = "run" /\ held'[v] = held'[w] => v = w
    BY <1>8 DEF PlacesInv
  <2>6. \A k \in Tasks : Pushed(k)' =>
          Settled(k)' \/ k \in Range(tickets') \/ \E w \in Workers : held'[w] = k
    <3> SUFFICES ASSUME NEW k \in Tasks, Pushed(k)', ~Settled(k)', ~\E w \in Workers : held'[w] = k
                 PROVE  k \in Range(tickets')
      OBVIOUS
    <3>1. CASE k = m
      BY <1>7, <3>1
    <3>2. CASE k # m
      <4>1. k \in Range(tickets)
        BY <1>5, <1>6, <1>8, <3>2 DEF PlacesInv
      <4> QED BY <1>7, <4>1
    <3> QED BY <3>1, <3>2
  <2>7. \A d \in Callers : /\ at'[d] \in {"count", "push", "wake"} => next'[d] <= Chunks
                           /\ at'[d] \in {"count", "push"} => ~Settled(Chunk(d))'
    <3>1. \A d \in Callers : d # c => (Settled(Chunk(d))' <=> Settled(Chunk(d)))
      BY <1>4 DEF Push, Settled, Chunk
    <3> QED BY <1>1, <1>4, <3>1 DEF PlacesInv
  <2> QED BY <2>1, <2>2, <2>3, <2>4, <2>5, <2>6, <2>7 DEF PlacesInv
<1>11. CountInv'
  <2>1. Busy' = Busy /\ Pushing' = Pushing \ {c} /\ c \in Pushing
    BY <1>1, <1>4, <1>8 DEF Busy, Pushing
  <2>2. Cardinality(Pushing') = Cardinality(Pushing) - 1
    BY <2>1, FiniteCounts, FS_RemoveElement
  <2>3. Cardinality(Pushing) \in Nat /\ Cardinality(Busy) \in Nat /\ Len(tickets) \in Nat
    BY FiniteCounts, LenProperties
  <2>4. at'["owner"] = at["owner"] /\ pendingTasks' = pendingTasks
    BY <1>4, ThreadKinds DEF Push, Others
  <2>5. CASE at["owner"] \in {"drain", "stopped"}
    BY <1>8, <2>4, <2>5 DEF CountInv
  <2>6. CASE at["owner"] \notin {"drain", "stopped"}
    <3>1. pendingTasks = Len(tickets) + Cardinality(Busy) + Cardinality(Pushing)
      BY <2>6 DEF CountInv
    <3>2. pendingTasks' = Len(tickets') + Cardinality(Busy') + Cardinality(Pushing')
      BY <1>7, <2>1, <2>2, <2>3, <2>4, <3>1
    <3> QED BY <2>4, <2>6, <3>2 DEF CountInv
  <2> QED BY <2>5, <2>6
<1>12. ReturnInv'
  <2>1. at'["owner"] = at["owner"] /\ at'["waiter"] = at["waiter"] /\ before' = before
    BY <1>4, ThreadKinds DEF Push, Others
  <2>2. \A d \in Callers : at'[d] = "returned" => at[d] = "returned"
    BY <1>4
  <2> QED BY <1>5, <1>6, <2>1, <2>2, ThreadKinds DEF ReturnInv
<1> QED BY <1>10, <1>11, <1>12

LEMMA WakeStep ==
  ASSUME PoolAssumption, PoolInv, NEW c \in Callers, WakeWorkers(c)
  PROVE  PlacesInv' /\ CountInv' /\ ReturnInv'
<1> USE DEF PoolInv, PoolTypeOK
<1>1. at[c] = "wake" /\ next[c] <= Chunks
  BY DEF WakeWorkers, PlacesInv
<1>2. \A u \in Workers \cup Callers \cup Others :
        at'[u] = IF u = c THEN "idle"
                 ELSE IF at[u] # "asleep" THEN at[u]
                 ELSE IF u \in Workers THEN "sleep" ELSE "wait"
  <2>1. at' = WakeAll([at EXCEPT ![c] = "idle"]) /\ c \in Workers \cup Callers \cup Others /\ PcsOK
    BY DEF WakeWorkers
  <2> QED BY <2>1, Woken
<1>3. /\ \A w \in Workers : /\ at'[w] = "run" <=> at[w] = "run"
                            /\ at'[w] = "done" <=> at[w] = "done"
                            /\ at[w] = "exited" => at'[w] = "exited"
      /\ \A d \in Callers : at'[d] = IF d = c THEN "idle" ELSE at[d]
  BY <1>2, ThreadKinds DEF PcsOK, CallerPcs
<1>4. at'["owner"] = at["owner"] /\ (at'["waiter"] = "returned" => at["waiter"] = "returned")
  BY <1>2, ThreadKinds DEF PcsOK, OwnerPcs, Others
<1>5. \A k \in Tasks : Settled(k)' <=> Settled(k)
  BY DEF WakeWorkers, Settled
<1>6. \A k \in Tasks : Pushed(k)' <=> Pushed(k)
  <2> SUFFICES ASSUME NEW k \in Tasks PROVE Pushed(k)' <=> Pushed(k)
    OBVIOUS
  <2>1. next' = [next EXCEPT ![c] = @ + 1]
    BY DEF WakeWorkers
  <2>2. next[k[1]] \in Nat /\ k[2] \in Nat
    BY PoolAssumption, ThreadKinds DEF PoolAssumption
  <2> QED BY <1>1, <1>3, <2>1, <2>2, ThreadKinds DEF Pushed
<1>7. PlacesInv'
  <2>1. \A d \in Callers : d # c => (Settled(Chunk(d))' <=> Settled(Chunk(d)))
    BY DEF WakeWorkers, Settled, Chunk
  <2>2. \A d \in Callers : /\ at'[d] \in {"count", "push", "wake"} => next'[d] <= Chunks
                           /\ at'[d] \in {"count", "push"} => ~Settled(Chunk(d))'
    BY <1>3, <2>1 DEF WakeWorkers, PlacesInv
  <2> QED BY <1>3, <1>5, <1>6, <2>2, PlacesFrame DEF WakeWorkers
<1>8. Busy' = Busy /\ Pushing' = Pushing
  BY <1>1, <1>3 DEF Busy, Pushing
<1>9. CountInv'
  BY <1>3, <1>4, <1>8 DEF WakeWorkers, CountInv
<1>10. ReturnInv'
  BY <1>3, <1>4, <1>5, <1>6, ThreadKinds DEF WakeWorkers, ReturnInv
<1> QED BY <1>7, <1>9, <1>10

LEMMA JoinStep ==
  ASSUME PoolAssumption, PoolInv, NEW c \in Callers, JoinChunks(c)
  PROVE  PlacesInv' /\ CountInv' /\ ReturnInv'
<1> USE DEF PoolInv, PoolTypeOK
<1>1. at[c] = "idle" /\ \A i \in 1 .. Chunks : Settled(<<c, i>>)
  BY DEF JoinChunks, Goto, Settled
<1>2. \A u \in Workers \cup Callers \cup Others : at'[u] = IF u = c THEN "returned" ELSE at[u]
  BY DEF JoinChunks, Goto, PcsOK
<1>3. /\ \A w \in Workers : at'[w] = at[w]
      /\ \A d \in Callers : at'[d] = IF d = c THEN "returned" ELSE at[d]
      /\ at'["owner"] = at["owner"] /\ at'["waiter"] = at["waiter"]
  BY <1>2, ThreadKinds DEF Others
<1>4. \A k \in Tasks : (Settled(k)' <=> Settled(k)) /\ (Pushed(k)' <=> Pushed(k))
  BY <1>1, <1>3, ThreadKinds DEF JoinChunks, Settled, Pushed
<1>5. PlacesInv'
  <2>1. \A d \in Callers : Settled(Chunk(d))' <=> Settled(Chunk(d))
    BY DEF JoinChunks, Settled, Chunk
  <2>2. \A d \in Callers : /\ at'[d] \in {"count", "push", "wake"} => next'[d] <= Chunks
                           /\ at'[d] \in {"count", "push"} => ~Settled(Chunk(d))'
    BY <1>3, <2>1 DEF JoinChunks, PlacesInv
  <2> QED BY <1>3, <1>4, <2>2, PlacesFrame DEF JoinChunks
<1>6. Busy' = Busy /\ Pushing' = Pushing
  BY <1>1, <1>3 DEF Busy, Pushing
<1>7. CountInv'
  BY <1>3, <1>6 DEF JoinChunks, CountInv
<1>8. ReturnInv'
  BY <1>1, <1>3, <1>4, ThreadKinds DEF JoinChunks, ReturnInv
<1> QED BY <1>5, <1>7, <1>8

LEMMA DoneStep ==
  ASSUME PoolAssumption, PoolInv, NEW w \in Workers, TaskDone(w)
  PROVE  PlacesInv' /\ CountInv' /\ ReturnInv'
<1> USE DEF PoolInv, PoolTypeOK
<1>1. PICK place \in {"bump", "pop"} : at[w] = "done" /\ at' = [at EXCEPT ![w] = place]
  BY DEF TaskDone, Goto
<1>2. \A u \in Workers \cup Callers \cup Others : at'[u] = IF u = w THEN place ELSE at[u]
  BY <1>1 DEF PcsOK
<1>3. /\ \A v \in Workers : at'[v] = IF v = w THEN place ELSE at[v]
      /\ \A d \in Callers : at'[d] = at[d]
      /\ at'["owner"] = at["owner"] /\ at'["waiter"] = at["waiter"]
  BY <1>2, ThreadKinds DEF Others
<1>4. \A k \in Tasks : (Settled(k)' <=> Settled(k)) /\ (Pushed(k)' <=> Pushed(k))
  BY <1>3, ThreadKinds DEF TaskDone, Settled, Pushed
<1>5. PlacesInv'
  <2>1. \A d \in Callers : Settled(Chunk(d))' <=> Settled(Chunk(d))
    BY DEF TaskDone, Settled, Chunk
  <2>2. \A d \in Callers : /\ at'[d] \in {"count", "push", "wake"} => next'[d] <= Chunks
                           /\ at'[d] \in {"count", "push"} => ~Settled(Chunk(d))'
    BY <1>3, <2>1 DEF TaskDone, PlacesInv
  <2>3. \A v \in Workers : at'[v] = "run" <=> at[v] = "run"
    BY <1>1, <1>3
  <2> QED BY <1>4, <2>2, <2>3, PlacesFrame DEF TaskDone
<1>6. CountInv'
  <2>1. Busy' = Busy \ {w} /\ Pushing' = Pushing /\ w \in Busy
    BY <1>1, <1>3 DEF Busy, Pushing
  <2>2. Cardinality(Busy') = Cardinality(Busy) - 1
    BY <2>1, FiniteCounts, FS_RemoveElement
  <2>3. Cardinality(Pushing) \in Nat /\ Cardinality(Busy) \in Nat /\ Len(tickets) \in Nat
    BY FiniteCounts, LenProperties
  <2>4. at["owner"] \notin {"drain", "stopped"}
    BY <1>1 DEF CountInv
  <2>5. pendingTasks = Len(tickets) + Cardinality(Busy) + Cardinality(Pushing)
    BY <2>4 DEF CountInv
  <2>6. tickets' = tickets /\ pendingTasks' = pendingTasks - 1
    BY DEF TaskDone
  <2>7. pendingTasks' = Len(tickets') + Cardinality(Busy') + Cardinality(Pushing')
    BY <2>1, <2>2, <2>3, <2>5, <2>6
  <2> QED BY <1>3, <2>4, <2>7 DEF CountInv
<1>7. ReturnInv'
  BY <1>3, <1>4, ThreadKinds DEF TaskDone, ReturnInv
<1> QED BY <1>5, <1>6, <1>7

LEMMA PopStep ==
  ASSUME PoolAssumption, PoolInv, NEW w \in Workers, PopTask(w)
  PROVE  PlacesInv' /\ CountInv' /\ ReturnInv'
<1> USE DEF PoolInv, PoolTypeOK
<1>1. at[w] = "pop" /\ at' = [at EXCEPT ![w] = "run"] /\ tickets # <<>>
  BY DEF PopTask, Goto
<1>2. /\ \A v \in Workers : at'[v] = IF v = w THEN "run" ELSE at[v]
      /\ \A d \in Callers : at'[d] = at[d]
      /\ at'["owner"] = at["owner"] /\ at'["waiter"] = at["waiter"]
  <2>1. \A u \in Workers \cup Callers \cup Others : at'[u] = IF u = w THEN "run" ELSE at[u]
    BY <1>1 DEF PcsOK
  <2> QED BY <2>1, ThreadKinds DEF Others
<1>3. \A k \in Tasks : (Settled(k)' <=> Settled(k)) /\ (Pushed(k)' <=> Pushed(k))
  BY <1>2, ThreadKinds DEF PopTask, Settled, Pushed
<1>4. PICK m \in Tasks : m = Head(tickets)
  BY <1>1, TailFacts
<1>5. /\ Len(tickets) \in Nat /\ Len(tickets') = Len(tickets) - 1
      /\ m = tickets[1] /\ 1 \in DOMAIN tickets
      /\ \A i \in DOMAIN tickets' : /\ i + 1 \in DOMAIN tickets /\ i + 1 # 1 /\ i \in Nat
                                    /\ tickets'[i] = tickets[i + 1] /\ tickets[i + 1] \in Tasks
      /\ Range(tickets) = Range(tickets') \cup {m}
  <2>1. tickets' = Tail(tickets) /\ tickets \in Seq(Tasks)
    BY DEF PopTask
  <2> QED BY <1>1, <1>4, <2>1, TailFacts
<1>6. \A v \in Workers : held'[v] = IF v = w THEN m ELSE held[v]
  BY <1>4 DEF PopTask
<1>7. m # NoTask /\ Pushed(m) /\ ~Settled(m) /\ \A i \in DOMAIN tickets' : tickets'[i] # m
  <2>1. m # NoTask
    BY ThreadKinds DEF Tasks, NoTask
  <2>2. Pushed(m) /\ ~Settled(m)
    BY <1>5 DEF PlacesInv
  <2>3. \A i \in DOMAIN tickets' : tickets'[i] # m
    <3> SUFFICES ASSUME NEW i \in DOMAIN tickets', tickets'[i] = m PROVE FALSE
      OBVIOUS
    <3>1. i + 1 \in DOMAIN tickets /\ i + 1 # 1 /\ tickets[i + 1] = tickets[1]
      BY <1>5
    <3> QED BY <1>5, <3>1 DEF PlacesInv
  <2> QED BY <2>1, <2>2, <2>3
<1>8. PlacesInv'
  <2>1. \A i \in DOMAIN tickets' : Pushed(tickets[i])' /\ ~Settled(tickets[i])'
    <3> SUFFICES ASSUME NEW i \in DOMAIN tickets'
                 PROVE  Pushed(tickets[i])' /\ ~Settled(tickets[i])'
      OBVIOUS
    <3>1. PICK k \in Tasks : k = tickets'[i] /\ Pushed(k) /\ ~Settled(k)
      BY <1>5 DEF PlacesInv
    <3>2. Pushed(k)' /\ ~Settled(k)'
      BY <1>3, <3>1
    <3> QED BY <3>1, <3>2 DEF Pushed, Settled
  <2>2. \A i, j \in DOMAIN tickets' : tickets'[i] = tickets'[j] => i = j
    <3> SUFFICES ASSUME NEW i \in DOMAIN tickets', NEW j \in DOMAIN tickets', tickets'[i] = tickets'[j]
                 PROVE  i = j
      OBVIOUS
    <3>1. i + 1 = j + 1
      BY <1>5 DEF PlacesInv
    <3> QED BY <1>5, <3>1
  <2>3. \A v \in Workers : held'[v] # NoTask <=> at'[v] = "run"
    BY <1>2, <1>6, <1>7 DEF PlacesInv
  <2>4. \A v \in Workers : at'[v] = "run" =>
          /\ Pushed(held[v])' /\ ~Settled(held[v])'
          /\ \A i \in DOMAIN tickets' : tickets'[i] # held'[v]
    <3> SUFFICES ASSUME NEW v \in Workers, at'[v] = "run"
                 PROVE  /\ Pushed(held[v])' /\ ~Settled(held[v])'
                        /\ \A i \in DOMAIN tickets' : tickets'[i] # held'[v]
      OBVIOUS
    <3>1. PICK k \in Tasks : k = held'[v] /\ Pushed(k) /\ ~Settled(k)
      BY <1>2, <1>6, <1>7 DEF PlacesInv
    <3>2. Pushed(k)' /\ ~Settled(k)'
      BY <1>3, <3>1
    <3>3. \A i \in DOMAIN tickets' : tickets'[i] # held'[v]
      BY <1>2, <1>5, <1>6, <1>7 DEF PlacesInv
    <3> QED BY <3>1, <3>2, <3>3 DEF Pushed, Settled
  <2>5. \A u, v \in Workers : at'[u] = "run" /\ held'[u] = held'[v] => u = v
    <3>1. \A u \in Workers : at[u] = "run" => held[u] # m
      BY <1>5 DEF PlacesInv
    <3>2. \A u \in Workers : at[u] # "run" => held[u] # m
      BY <1>7 DEF PlacesInv
    <3> SUFFICES ASSUME NEW u \in Workers, NEW v \in Workers, at'[u] = "run", held'[u] = held'[v]
                 PROVE  u = v
      OBVIOUS
    <3>3. CASE u = w
      BY <1>6, <3>1, <3>2, <3>3
    <3>4. CASE u # w /\ v = w
      BY <1>6, <3>1, <3>2, <3>4
    <3>5. CASE u # w /\ v # w
      BY <1>2, <1>6, <3>5 DEF PlacesInv
    <3> QED BY <3>3, <3>4, <3>5
  <2>6. \A k \in Tasks : Pushed(k)' =>
          Settled(k)' \/ k \in Range(tickets') \/ \E v \in Workers : held'[v] = k
    <3> SUFFICES ASSUME NEW k \in Tasks, Pushed(k)', ~Settled(k)', k \notin Range(tickets')
                 PROVE  \E v \in Workers : held'[v] = k
      OBVIOUS
    <3>1. CASE k = m
      BY <1>6, <3>1
    <3>2. CASE k # m
      <4>1. PICK v \in Workers : held[v] = k
        BY <1>3, <1>5, <3>2 DEF PlacesInv
      <4>2. held[w] = NoTask
        BY <1>1 DEF PlacesInv
      <4> QED BY <1>6, <4>1, <4>2, ThreadKinds
    <3> QED BY <3>1, <3>2
  <2>7. \A d \in Callers : /\ at'[d] \in {"count", "push", "wake"} => next'[d] <= Chunks
                           /\ at'[d] \in {"count", "push"} => ~Settled(Chunk(d))'
    <3>1. \A d \in Callers : Settled(Chunk(d))' <=> Settled(Chunk(d))
      BY DEF PopTask, Settled, Chunk
    <3> QED BY <1>2, <3>1 DEF PopTask, PlacesInv
  <2> QED BY <2>1, <2>2, <2>3, <2>4, <2>5, <2>6, <2>7 DEF PlacesInv
<1>9. CountInv'
  <2>1. Busy' = Busy \cup {w} /\ Pushing' = Pushing /\ w \notin Busy
    BY <1>1, <1>2 DEF Busy, Pushing
  <2>2. Cardinality(Busy') = Cardinality(Busy) + 1
    BY <2>1, FiniteCounts, FS_AddElement
  <2>3. Cardinality(Pushing) \in Nat /\ Cardinality(Busy) \in Nat
    BY FiniteCounts
  <2>4. at["owner"] \notin {"drain", "stopped"}
    BY <1>1 DEF CountInv
  <2>5. pendingTasks = Len(tickets) + Cardinality(Busy) + Cardinality(Pushing)
    BY <2>4 DEF CountInv
  <2>6. pendingTasks' = Len(tickets') + Cardinality(Busy') + Cardinality(Pushing')
    BY <1>5, <2>1, <2>2, <2>3, <2>5 DEF PopTask
  <2> QED BY <1>2, <2>4, <2>6 DEF CountInv
<1>10. ReturnInv'
  BY <1>2, <1>3, ThreadKinds DEF PopTask, ReturnInv
<1> QED BY <1>8, <1>9, <1>10

LEMMA FinishStep ==
  ASSUME PoolAssumption, PoolInv, NEW w \in Workers, FinishTask(w)
  PROVE  PlacesInv' /\ CountInv' /\ ReturnInv'
<1> USE DEF PoolInv, PoolTypeOK
<1>1. at[w] = "run" /\ at' = [at EXCEPT ![w] = "done"]
  BY DEF FinishTask, Goto
<1>2. /\ \A v \in Workers : at'[v] = IF v = w THEN "done" ELSE at[v]
      /\ \A d \in Callers : at'[d] = at[d]
      /\ at'["owner"] = at["owner"] /\ at'["waiter"] = at["waiter"]
  <2>1. \A u \in Workers \cup Callers \cup Others : at'[u] = IF u = w THEN "done" ELSE at[u]
    BY <1>1 DEF PcsOK
  <2> QED BY <2>1, ThreadKinds DEF Others
<1>3. PICK m \in Tasks : m = held[w]
  BY <1>1, ThreadKinds DEF PlacesInv
<1>4. \A v \in Workers : held'[v] = IF v = w THEN NoTask ELSE held[v]
  BY DEF FinishTask
<1>5. \A k \in Tasks : (Pushed(k)' <=> Pushed(k)) /\ (Settled(k)' <=> Settled(k) \/ k = m)
  BY <1>2, <1>3, ThreadKinds DEF FinishTask, Settled, Pushed
<1>6. /\ \A i \in DOMAIN tickets : tickets[i] \in Tasks /\ tickets[i] # m
      /\ tickets' = tickets
  <2>1. \A i \in DOMAIN tickets : tickets[i] \in Tasks
    BY ElementOfSeq, LenProperties
  <2> QED BY <1>1, <1>3, <2>1 DEF PlacesInv, FinishTask
<1>7. \A v \in Workers : v # w /\ at[v] = "run" => held[v] \in Tasks /\ held[v] # m
  BY <1>1, <1>3, ThreadKinds DEF PlacesInv
<1>8. PlacesInv'
  <2>1. \A i \in DOMAIN tickets' : Pushed(tickets[i])' /\ ~Settled(tickets[i])'
    BY <1>5, <1>6 DEF PlacesInv
  <2>2. \A i, j \in DOMAIN tickets' : tickets'[i] = tickets'[j] => i = j
    BY <1>6 DEF PlacesInv
  <2>3. \A v \in Workers : held'[v] # NoTask <=> at'[v] = "run"
    BY <1>2, <1>4 DEF PlacesInv
  <2>4. \A v \in Workers : at'[v] = "run" =>
          /\ Pushed(held[v])' /\ ~Settled(held[v])'
          /\ \A i \in DOMAIN tickets' : tickets'[i] # held'[v]
    <3> SUFFICES ASSUME NEW v \in Workers, at'[v] = "run"
                 PROVE  /\ Pushed(held[v])' /\ ~Settled(held[v])'
                        /\ \A i \in DOMAIN tickets' : tickets'[i] # held'[v]
      OBVIOUS
    <3>1. v # w /\ at[v] = "run" /\ held'[v] = held[v]
      BY <1>2, <1>4
    <3>2. PICK k \in Tasks : k = held'[v] /\ Pushed(k) /\ ~Settled(k) /\ k # m
      BY <1>7, <3>1 DEF PlacesInv
    <3>3. Pushed(k)' /\ ~Settled(k)'
      BY <1>5, <3>2
    <3>4. \A i \in DOMAIN tickets' : tickets'[i] # held'[v]
      BY <1>6, <3>1 DEF PlacesInv
    <3> QED BY <3>2, <3>3, <3>4 DEF Pushed, Settled
  <2>5. \A u, v \in Workers : at'[u] = "run" /\ held'[u] = held'[v] => u = v
    <3> SUFFICES ASSUME NEW u \in Workers, NEW v \in Workers, at'[u] = "run", held'[u] = held'[v]
                 PROVE  u = v
      OBVIOUS
    <3>1. u # w /\ at[u] = "run" /\ held'[u] = held[u] /\ held[u] # NoTask
      BY <1>2, <1>4 DEF PlacesInv
    <3>2. v # w
      BY <1>4, <3>1
    <3>3. held[u] = held[v]
      BY <1>4, <3>1, <3>2
    <3> QED BY <3>1, <3>3 DEF PlacesInv
  <2>6. \A k \in Tasks : Pushed(k)' =>
          Settled(k)' \/ k \in Range(tickets') \/ \E v \in Workers : held'[v] = k
    BY <1>3, <1>4, <1>5, <1>6 DEF PlacesInv
  <2>7. \A d \in Callers : /\ at'[d] \in {"count", "push", "wake"} => next'[d] <= Chunks
                           /\ at'[d] \in {"count", "push"} => ~Settled(Chunk(d))'
    <3> SUFFICES ASSUME NEW d \in Callers, at'[d] \in {"count", "push", "wake"}
                 PROVE  next'[d] <= Chunks /\ (at'[d] \in {"count", "push"} => ~Settled(Chunk(d))')
      OBVIOUS
    <3>1. next'[d] = next[d] /\ at'[d] = at[d] /\ next[d] <= Chunks
      BY <1>2 DEF FinishTask, PlacesInv
    <3>2. PICK k \in Tasks : k = Chunk(d) /\ k[1] = d /\ k[2] = next[d]
      BY <3>1, ChunkFacts
    <3>3. ASSUME at[d] \in {"count", "push"} PROVE ~Settled(Chunk(d))'
      <4>1. ~Settled(k) /\ ~Pushed(k)
        BY <3>2, <3>3 DEF PlacesInv, Pushed
      <4>2. k # m
        BY <1>1, <1>3, <4>1 DEF PlacesInv
      <4>3. ~Settled(k)'
        BY <1>5, <4>1, <4>2
      <4>4. Chunk(d)' = k
        BY <3>1, <3>2 DEF Chunk
      <4> QED BY <4>3, <4>4 DEF Settled
    <3> QED BY <3>1, <3>3
  <2> QED BY <2>1, <2>2, <2>3, <2>4, <2>5, <2>6, <2>7 DEF PlacesInv
<1>9. CountInv'
  <2>1. Busy' = Busy /\ Pushing' = Pushing
    BY <1>1, <1>2 DEF Busy, Pushing
  <2>2. at["owner"] \notin {"drain", "stopped"}
    BY <1>1 DEF CountInv
  <2> QED BY <1>2, <2>1, <2>2 DEF CountInv, FinishTask
<1>10. ReturnInv'
  <2>1. before' = before /\ before \subseteq Tasks
    BY DEF FinishTask
  <2> QED BY <1>2, <1>5, <2>1, ThreadKinds DEF ReturnInv
<1> QED BY <1>8, <1>9, <1>10

LEMMA WaitBeginStep ==
  ASSUME PoolAssumption, PoolInv, WaitBegin
  PROVE  PlacesInv' /\ CountInv' /\ ReturnInv'
<1> USE DEF PoolInv, PoolTypeOK
<1>1. /\ \A u \in Workers \cup Callers : at'[u] = at[u]
      /\ at'["owner"] = at["owner"] /\ at'["waiter"] = "look"
  <2>1. \A u \in Workers \cup Callers \cup Others : at'[u] = IF u = "waiter" THEN "look" ELSE at[u]
    BY DEF WaitBegin, Goto, PcsOK, Others
  <2> QED BY <2>1, ThreadKinds DEF Others
<1>2. \A k \in Tasks : (Settled(k)' <=> Settled(k)) /\ (Pushed(k)' <=> Pushed(k))
  BY <1>1, ThreadKinds DEF WaitBegin, Settled, Pushed
<1>3. PlacesInv'
  <2>1. \A d \in Callers : Settled(Chunk(d))' <=> Settled(Chunk(d))
    BY DEF WaitBegin, Settled, Chunk
  <2>2. \A d \in Callers : /\ at'[d] \in {"count", "push", "wake"} => next'[d] <= Chunks
                           /\ at'[d] \in {"count", "push"} => ~Settled(Chunk(d))'
    BY <1>1, <2>1 DEF WaitBegin, PlacesInv
  <2> QED BY <1>1, <1>2, <2>2, PlacesFrame DEF WaitBegin
<1>4. Busy' = Busy /\ Pushing' = Pushing
  BY <1>1 DEF Busy, Pushing
<1>5. CountInv'
  BY <1>1, <1>4 DEF WaitBegin, CountInv
<1>6. \A k \in before' : Pushed(k)'
  <2>1. before' \subseteq Tasks /\ \A k \in before' : Pushed(k)
    BY DEF WaitBegin, Accepted, Pushed
  <2> QED BY <1>2, <2>1
<1>7. ReturnInv'
  BY <1>1, <1>2, <1>6, ThreadKinds DEF ReturnInv
<1> QED BY <1>3, <1>5, <1>7

LEMMA StopDrainStep ==
  ASSUME PoolAssumption, PoolInv, StopDrain
  PROVE  PlacesInv' /\ CountInv' /\ ReturnInv'
<1> USE DEF PoolInv, PoolTypeOK
<1>1. /\ at' = at /\ held' = held /\ next' = next /\ before' = before
      /\ tickets # <<>> /\ at["owner"] = "drain"
  BY DEF StopDrain
<1>2. PICK m \in Tasks : m = Head(tickets)
  BY <1>1, TailFacts
<1>3. /\ m = tickets[1] /\ 1 \in DOMAIN tickets
      /\ \A i \in DOMAIN tickets' : /\ i + 1 \in DOMAIN tickets /\ i + 1 # 1 /\ i \in Nat
                                    /\ tickets'[i] = tickets[i + 1] /\ tickets[i + 1] \in Tasks
      /\ Range(tickets) = Range(tickets') \cup {m}
  <2>1. tickets' = Tail(tickets) /\ tickets \in Seq(Tasks)
    BY DEF StopDrain
  <2> QED BY <1>1, <1>2, <2>1, TailFacts
<1>4. \A k \in Tasks : (Pushed(k)' <=> Pushed(k)) /\ (Settled(k)' <=> Settled(k) \/ k = m)
  BY <1>1, <1>2 DEF StopDrain, Settled, Pushed
<1>5. \A w \in Workers : at[w] = "exited" /\ held[w] = NoTask
  BY <1>1 DEF CountInv, PlacesInv
<1>6. Pushed(m) /\ \A i \in DOMAIN tickets' : tickets'[i] # m
  <2>1. Pushed(m)
    BY <1>3 DEF PlacesInv
  <2>2. \A i \in DOMAIN tickets' : tickets'[i] # m
    <3> SUFFICES ASSUME NEW i \in DOMAIN tickets', tickets'[i] = m PROVE FALSE
      OBVIOUS
    <3>1. i + 1 \in DOMAIN tickets /\ i + 1 # 1 /\ tickets[i + 1] = tickets[1]
      BY <1>3
    <3> QED BY <1>3, <3>1 DEF PlacesInv
  <2> QED BY <2>1, <2>2
<1>7. PlacesInv'
  <2>1. \A i \in DOMAIN tickets' : Pushed(tickets[i])' /\ ~Settled(tickets[i])'
    <3> SUFFICES ASSUME NEW i \in DOMAIN tickets'
                 PROVE  Pushed(tickets[i])' /\ ~Settled(tickets[i])'
      OBVIOUS
    <3>1. PICK k \in Tasks : k = tickets'[i] /\ Pushed(k) /\ ~Settled(k) /\ k # m
      BY <1>3, <1>6 DEF PlacesInv
    <3>2. Pushed(k)' /\ ~Settled(k)'
      BY <1>4, <3>1
    <3> QED BY <3>1, <3>2 DEF Pushed, Settled
  <2>2. \A i, j \in DOMAIN tickets' : tickets'[i] = tickets'[j] => i = j
    <3> SUFFICES ASSUME NEW i \in DOMAIN tickets', NEW j \in DOMAIN tickets', tickets'[i] = tickets'[j]
                 PROVE  i = j
      OBVIOUS
    <3>1. i + 1 = j + 1
      BY <1>3 DEF PlacesInv
    <3> QED BY <1>3, <3>1
  <2>3. \A k \in Tasks : Pushed(k)' =>
          Settled(k)' \/ k \in Range(tickets') \/ \E v \in Workers : held'[v] = k
    BY <1>1, <1>3, <1>4 DEF PlacesInv
  <2>4. \A d \in Callers : /\ at'[d] \in {"count", "push", "wake"} => next'[d] <= Chunks
                           /\ at'[d] \in {"count", "push"} => ~Settled(Chunk(d))'
    <3> SUFFICES ASSUME NEW d \in Callers, at'[d] \in {"count", "push", "wake"}
                 PROVE  next'[d] <= Chunks /\ (at'[d] \in {"count", "push"} => ~Settled(Chunk(d))')
      OBVIOUS
    <3>1. at[d] = at'[d] /\ next[d] <= Chunks /\ next'[d] = next[d]
      BY <1>1 DEF PlacesInv
    <3>2. PICK k \in Tasks : k = Chunk(d) /\ k[1] = d /\ k[2] = next[d]
      BY <3>1, ChunkFacts
    <3>3. ASSUME at[d] \in {"count", "push"} PROVE ~Settled(Chunk(d))'
      <4>1. ~Settled(k) /\ ~Pushed(k)
        BY <3>2, <3>3 DEF PlacesInv, Pushed
      <4>2. k # m
        BY <1>6, <4>1
      <4>3. ~Settled(k)'
        BY <1>4, <4>1, <4>2
      <4>4. Chunk(d)' = k
        BY <3>1, <3>2 DEF Chunk
      <4> QED BY <4>3, <4>4 DEF Settled
    <3> QED BY <3>1, <3>3
  <2>5. \A v \in Workers : at'[v] = "exited" /\ held'[v] = NoTask
    BY <1>1, <1>5
  <2>6. /\ \A v \in Workers : held'[v] # NoTask <=> at'[v] = "run"
        /\ \A v \in Workers : at'[v] # "run"
    BY <2>5
  <2> QED BY <2>1, <2>2, <2>3, <2>4, <2>6 DEF PlacesInv
<1>8. CountInv'
  BY <1>1, <1>5 DEF CountInv
<1>9. ReturnInv'
  <2>1. before \subseteq Tasks
    OBVIOUS
  <2> QED BY <1>1, <1>4, <2>1, ThreadKinds DEF ReturnInv
<1> QED BY <1>7, <1>8, <1>9

LEMMA StopEndStep ==
  ASSUME PoolAssumption, PoolInv, StopEnd
  PROVE  PlacesInv' /\ CountInv' /\ ReturnInv'
<1> USE DEF PoolInv, PoolTypeOK
<1>1. /\ \A u \in Workers \cup Callers : at'[u] = at[u]
      /\ at["owner"] = "drain" /\ at'["owner"] = "stopped" /\ at'["waiter"] = at["waiter"]
  <2>1. \A u \in Workers \cup Callers \cup Others : at'[u] = IF u = "owner" THEN "stopped" ELSE at[u]
    BY DEF StopEnd, Goto, PcsOK, Others
  <2> QED BY <2>1, ThreadKinds DEF StopEnd, Goto, Others
<1>2. \A k \in Tasks : (Settled(k)' <=> Settled(k)) /\ (Pushed(k)' <=> Pushed(k))
  BY <1>1, ThreadKinds DEF StopEnd, Settled, Pushed
<1>3. PlacesInv'
  <2>1. \A d \in Callers : Settled(Chunk(d))' <=> Settled(Chunk(d))
    BY DEF StopEnd, Settled, Chunk
  <2>2. \A d \in Callers : /\ at'[d] \in {"count", "push", "wake"} => next'[d] <= Chunks
                           /\ at'[d] \in {"count", "push"} => ~Settled(Chunk(d))'
    BY <1>1, <2>1 DEF StopEnd, PlacesInv
  <2> QED BY <1>1, <1>2, <2>2, PlacesFrame DEF StopEnd
<1>4. CountInv'
  BY <1>1 DEF StopEnd, CountInv
<1>5. ReturnInv'
  BY <1>1, <1>2, ThreadKinds DEF StopEnd, ReturnInv
<1> QED BY <1>3, <1>4, <1>5

-----------------------------------------------------------------------------
\* PoolInv is inductive.
LEMMA PoolStep ==
  ASSUME PoolAssumption, PoolInv, [PoolNext]_poolVars
  PROVE  PoolInv'
<1>1. CASE PoolNext
  <2>1. PoolTypeOK'
    BY <1>1, TypeStep
  <2>2. ASSUME NEW c \in Callers, CallerNext(c) PROVE PlacesInv' /\ CountInv' /\ ReturnInv'
    BY <2>2, SubmitStep, CountStep, PushStep, WakeStep, JoinStep DEF CallerNext
  <2>3. ASSUME NEW w \in Workers, WorkerNext(w) PROVE PlacesInv' /\ CountInv' /\ ReturnInv'
    BY <2>3, PopStep, FinishStep, DoneStep, WorkerStill, StillStep
  <2>4. ASSUME WaitBegin \/ WaiterNext PROVE PlacesInv' /\ CountInv' /\ ReturnInv'
    BY <2>4, WaitBeginStep, WaiterStill, StillStep
  <2>5. ASSUME StopBegin \/ StopNext PROVE PlacesInv' /\ CountInv' /\ ReturnInv'
    BY <2>5, OwnerStill, StillStep, StopDrainStep, StopEndStep DEF StopNext
  <2> QED BY <1>1, <2>1, <2>2, <2>3, <2>4, <2>5 DEF PoolNext, PoolInv
<1>2. CASE UNCHANGED poolVars
  <2>1. PoolTypeOK'
    BY <1>2 DEF poolVars, PoolInv, PoolTypeOK, PcsOK
  <2>2. Still
    BY <1>2 DEF poolVars, Still
  <2> QED BY <2>1, <2>2, StillStep DEF PoolInv
<1> QED BY <1>1, <1>2

\* What PoolInv says to the callers: nobody returns from parallel_for before
\* its chunks are out of the pool, _pending misses no task, and wait() waits.
LEMMA PoolFacts ==
  ASSUME PoolAssumption, PoolInv
  PROVE  /\ FrameOutlivesChunks /\ PendingCoversTasks
         /\ ~MayStop => WaitMeansDone
<1> USE DEF PoolInv, PoolTypeOK
<1>1. FrameOutlivesChunks
  <2> SUFFICES ASSUME NEW c \in Callers, at[c] = "returned", NEW k \in Range(tickets) \cup Claimed
               PROVE  k[1] # c
    BY DEF FrameOutlivesChunks
  <2>1. k \in Tasks /\ ~Settled(k)
    <3>1. CASE k \in Range(tickets)
      <4>1. \A i \in DOMAIN tickets : tickets[i] \in Tasks
        BY ElementOfSeq, LenProperties
      <4> QED BY <3>1, <4>1 DEF Range, PlacesInv
    <3>2. CASE k \in Claimed
      BY <3>2 DEF Claimed, PlacesInv
    <3> QED BY <3>1, <3>2
  <2>2. \A i \in 1 .. Chunks : Settled(<<c, i>>)
    BY DEF ReturnInv
  <2> QED BY <2>1, <2>2, ThreadKinds
<1>2. PendingCoversTasks
  BY FiniteCounts, LenProperties DEF PendingCoversTasks, CountInv, Busy
<1>3. ~MayStop => WaitMeansDone
  BY DEF WaitMeansDone, ReturnInv, Settled
<1> QED BY <1>1, <1>2, <1>3

-----------------------------------------------------------------------------
(* The bounded queues. First what their slots need of remainders.           *)

LEMMA DivMod ==
  ASSUME NEW C \in Nat, C >= 2, NEW t \in Int
  PROVE  /\ t = C * (t \div C) + (t % C) /\ t \div C \in Int
         /\ t % C \in Int /\ 0 <= t % C /\ t % C < C
OBVIOUS

LEMMA MultipleOf ==
  ASSUME NEW C \in Nat, C >= 2, NEW k \in Int
  PROVE  (k >= 1 => C * k >= C) /\ (k <= 0 => C * k <= 0)
OBVIOUS

LEMMA Distribute ==
  ASSUME NEW C \in Nat, NEW k \in Int, NEW j \in Int
  PROVE  C * (k - j) = C * k - C * j
OBVIOUS

LEMMA OneQuotient ==
  ASSUME NEW C \in Nat, C >= 2, NEW q \in Int, NEW p \in Int,
         NEW r \in 0 .. C - 1, NEW s \in 0 .. C - 1, C * q + r = C * p + s
  PROVE  q = p /\ r = s
<1>1. C * (q - p) = s - r
  BY Distribute
<1>2. ~(q - p >= 1)
  BY <1>1, MultipleOf
<1>3. C * (p - q) = r - s
  BY Distribute
<1>4. ~(p - q >= 1)
  BY <1>3, MultipleOf
<1> QED BY <1>2, <1>4

LEMMA NextRound ==
  ASSUME NEW C \in Nat, C >= 2, NEW t \in Int
  PROVE  (t + C) % C = t % C
<1> DEFINE q == t \div C
           k == q + 1
           p == (t + C) \div C
           r == t % C
           s == (t + C) % C
<1>1. t = C * q + r /\ q \in Int /\ r \in 0 .. C - 1
  BY DivMod
<1>2. t + C = C * p + s /\ p \in Int /\ s \in 0 .. C - 1
  BY DivMod
<1>3. C * (q + 1) = C * q + C
  BY <1>1
<1> HIDE DEF p, q, r, s
<1>4. C * k + r = C * p + s /\ k \in Int
  BY <1>1, <1>2, <1>3
<1> HIDE DEF k
<1>5. r = s
  BY <1>1, <1>2, <1>4, OneQuotient
<1> QED BY <1>5 DEF r, s

LEMMA RemaindersApart ==
  ASSUME NEW C \in Nat, C >= 2, NEW t \in Int, NEW u \in Int, t < u, u < t + C
  PROVE  t % C # u % C
<1> SUFFICES ASSUME t % C = u % C PROVE FALSE
  OBVIOUS
<1> DEFINE q == t \div C
           p == u \div C
<1>1. t = C * q + (t % C) /\ q \in Int
  BY DivMod
<1>2. u = C * p + (t % C) /\ p \in Int
  BY DivMod
<1> HIDE DEF p, q
<1>3. C * (p - q) = u - t
  BY <1>1, <1>2, Distribute
<1>4. C * (p - q) > 0 /\ C * (p - q) < C
  BY <1>3
<1> QED BY <1>4, <1>1, <1>2, MultipleOf

LEMMA SlotIn == ASSUME RingAssumption, NEW t \in Int PROVE Slot(t) \in 0 .. Capacity - 1
BY DEF Slot, RingAssumption
LEMMA SlotRound ==
  ASSUME RingAssumption, NEW t \in Int
  PROVE  Slot(t + Capacity) = Slot(t)
BY NextRound DEF Slot, RingAssumption
LEMMA SlotApart ==
  ASSUME RingAssumption, NEW t \in Int, NEW u \in Int, t < u, u < t + Capacity
  PROVE  Slot(t) # Slot(u)
BY RemaindersApart DEF Slot, RingAssumption
LEMMA SlotSucc == ASSUME RingAssumption, NEW t \in Int PROVE Slot(t) # Slot(t + 1)
BY SlotApart DEF RingAssumption

LEMMA RingSides ==
  ASSUME RingAssumption, RingTypeOK
  PROVE  /\ Capacity \in Nat /\ Capacity >= 2
         /\ Pushers \cap Poppers = {} /\ Threads = Pushers \cup Poppers
         /\ Pushes[kind] \in Nat /\ Pops[kind] \in Nat
         /\ kind \in Kinds
         /\ kind # "MPMC" => \A c, d \in Poppers : c = d
         /\ kind = "SPSC" => \A p, q \in Pushers : p = q
BY DEF RingAssumption, RingTypeOK, Pushers, Poppers, Threads, Kinds

LEMMA ItemType ==
  ASSUME RingTypeOK, NEW p \in Pushers, calls[p] \in 1 .. Pushes[kind]
  PROVE  Item(p) \in AllItems
BY DEF Item, AllItems, Pushers, RingTypeOK

LEMMA RingTyped ==
  ASSUME RingTypeOK
  PROVE  /\ write \in Nat /\ read \in Nat /\ read <= write
         /\ \A i \in 0 .. Capacity - 1 : seq[i] \in Nat
         /\ \A t \in Threads : pos[t] \in Nat /\ calls[t] \in Nat
BY DEF RingTypeOK

\* In a step of one thread the others stay where they are.
MovesAlone(x) ==
  \A t \in Threads \ {x} : pc'[t] = pc[t] /\ pos'[t] = pos[t] /\ calls'[t] = calls[t]
SameRing == write' = write /\ read' = read /\ seq' = seq /\ cell' = cell
SameSides == kind' = kind /\ Pushers' = Pushers /\ Poppers' = Poppers /\ Threads' = Threads
NoTicket(x) == pc[x] \notin {"turn", "fill", "publish", "take", "free"}

LEMMA Updated ==
  ASSUME NEW S, NEW T, NEW f \in [S -> T], NEW x, NEW v \in T
  PROVE  [f EXCEPT ![x] = v] \in [S -> T]
OBVIOUS

LEMMA SameKind == ASSUME kind' = kind PROVE SameSides
BY DEF SameSides, Pushers, Poppers, Threads

\* A step of a thread that has no ticket and gets none, and that touches
\* nothing shared, leaves what is said of tickets.
LEMMA LocalStep ==
  ASSUME RingAssumption, RingTypeOK, SequencedInv, SameSides, SameRing, SeenInv',
         NEW x \in Threads, MovesAlone(x), NoTicket(x), NoTicket(x)'
  PROVE  SequencedInv'
<1>2. \A t \in Threads : (HasTicket(t)' <=> HasTicket(t)) /\ (HasItem(t)' <=> HasItem(t))
  BY DEF MovesAlone, NoTicket, HasTicket, HasItem
<1>3. \A t \in Threads : HasTicket(t) \/ HasItem(t) => t # x
  BY DEF NoTicket, HasTicket, HasItem
<1>1. Threads = Pushers \cup Poppers
  BY DEF Threads
<1>4. SlotsInv'
  BY <1>1, <1>2, <1>3 DEF SequencedInv, SlotsInv, SlotFits, MovesAlone, SameRing, HasItem, SameSides
<1>5. TicketsInv'
  <2> SUFFICES ASSUME NEW p \in Pushers, HasTicket(p)
      PROVE  TicketFits(p)'
    BY <1>1, <1>2 DEF TicketsInv, SameSides
  <2>1. pc'[p] = pc[p] /\ pos'[p] = pos[p] /\ Item(p)' = Item(p)
    BY <1>1, <1>3 DEF MovesAlone, Item
  <2> QED BY <1>1, <1>2, <1>3, <2>1 DEF SequencedInv, TicketsInv, TicketFits, MovesAlone, SameRing,
      SameSides
<1>6. HoldersInv'
  BY <1>1, <1>2, <1>3 DEF SequencedInv, HoldersInv, MovesAlone, SameRing, SameSides
<1>7. TakenInv'
  BY <1>1, <1>2, <1>3 DEF SequencedInv, TakenInv, MovesAlone, SameRing, SameSides
<1> QED BY <1>4, <1>5, <1>6, <1>7 DEF SequencedInv

LEMMA RingParts ==
  ASSUME RingInv
  PROVE  /\ RingTypeOK /\ CallsInv
         /\ kind # "SPSC" => SequencedInv
         /\ kind = "SPSC" => IndexedInv
BY DEF RingInv

LEMMA RingWhole ==
  ASSUME RingAssumption, RingTypeOK', CallsInv', SameSides,
         kind # "SPSC" => SequencedInv', kind = "SPSC" => IndexedInv'
  PROVE  RingInv'
BY DEF RingInv, SameSides

LEMMA PushBeginInv ==
  ASSUME RingAssumption, RingInv, NEW p \in Pushers, PushBegin(p)
  PROVE  RingInv'
<1>s. SameSides /\ SameRing /\ p \in Threads /\ p \notin Poppers /\ got' = got
  BY RingParts, RingSides, SameKind DEF PushBegin, SameRing
<1>a. /\ MovesAlone(p) /\ pc[p] = "idle" /\ calls[p] < Pushes[kind]
      /\ pc'[p] = IF kind = "MPMC" THEN "inspect" ELSE "room"
      /\ pos'[p] = IF kind = "MPMC" THEN write ELSE read
      /\ calls'[p] = calls[p] + 1
  BY RingParts, <1>s DEF PushBegin, Moves, MovesAlone, RingTypeOK
<1>1. RingTypeOK'
  <2>1. /\ (IF kind = "MPMC" THEN "inspect" ELSE "room") \in Stages
        /\ (IF kind = "MPMC" THEN write ELSE read) \in Nat
        /\ calls[p] + 1 \in Nat
    BY RingParts, RingTyped, <1>s DEF Stages
  <2>2. pc' \in [Threads -> Stages] /\ pos' \in [Threads -> Nat] /\ calls' \in [Threads -> Nat]
    BY RingParts, <2>1, Updated DEF PushBegin, Moves, RingTypeOK
  <2> QED BY RingParts, <1>s, <2>2 DEF RingTypeOK, SameRing, SameSides
<1>2. CallsInv'
  BY RingParts, <1>s, <1>a, RingSides, RingTyped DEF MovesAlone, CallsInv, PushPc, PopPc, Kinds,
      SameSides
<1>3. ASSUME kind # "SPSC" PROVE SequencedInv'
  <2>1. SeenInv'
    BY RingParts, <1>s, <1>a, <1>3, RingSides, RingTyped DEF SequencedInv, SeenInv, MovesAlone,
        SameRing, SameSides
  <2> QED BY <2>1, RingParts, <1>3, <1>s, <1>a, LocalStep DEF NoTicket
<1>4. ASSUME kind = "SPSC" PROVE IndexedInv'
  <2>1. \A q \in Pushers : q = p
    BY <1>4, RingParts, RingSides
  <2>2. \A c \in Poppers : pc'[c] = pc[c] /\ pos'[c] = pos[c]
    BY <1>s, <1>a, RingParts, RingSides DEF MovesAlone
  <2>3. write \in Nat /\ read \in Nat /\ IndexedInv /\ write' = write /\ read' = read
    BY <1>4, <1>s, RingParts, RingTyped DEF SameRing
  <2>4. pc'[p] = "room" /\ pos'[p] = read
    BY <1>4, <1>a
  <2>5. write' <= read' + Capacity'
    BY <2>3 DEF IndexedInv
  <2>6. \A q \in Pushers : /\ pc'[q] = "room" => pos'[q] <= read'
                           /\ pc'[q] \notin {"fill", "publish"}
    BY <2>1, <2>3, <2>4
  <2>7. \A c \in Poppers : /\ pc'[c] # "idle" => pos'[c] = read'
                           /\ pc'[c] \in {"take", "free"} => read' < write'
                           /\ pc'[c] = "free" => got'[c] # <<>>
    BY <2>2, <2>3, <1>s DEF IndexedInv, HasItem
  <2> QED BY <2>5, <2>6, <2>7, <1>s DEF IndexedInv, HasItem, SameSides
<1> QED BY <1>s, <1>1, <1>2, <1>3, <1>4, RingWhole

LEMMA InspectSlotInv ==
  ASSUME RingAssumption, RingInv, NEW p \in Pushers, InspectSlot(p)
  PROVE  RingInv'
<1>s. SameSides /\ SameRing /\ p \in Threads /\ p \notin Poppers /\ got' = got /\ kind = "MPMC"
  BY RingParts, RingSides, SameKind DEF InspectSlot, SameRing, CallsInv, PushPc
<1>a. /\ MovesAlone(p) /\ pc[p] = "inspect" /\ calls'[p] = calls[p]
      /\ \/ pc'[p] = "claim" /\ pos'[p] = pos[p] /\ seq[Slot(pos[p])] = pos[p]
         \/ pc'[p] = "idle" /\ pos'[p] = pos[p]
         \/ pc'[p] = "inspect" /\ pos'[p] = write
  <2>1. pos[p] \in Nat /\ seq[Slot(pos[p])] \in Nat
    BY RingParts, RingTyped, <1>s, SlotIn
  <2> QED BY <2>1, RingParts, <1>s DEF InspectSlot, MovesAlone, RingTypeOK
<1>1. RingTypeOK'
  <2>1. pc'[p] \in Stages /\ pos'[p] \in Nat
    BY <1>a, RingParts, RingTyped, <1>s DEF Stages
  <2>2. pc' = [pc EXCEPT ![p] = pc'[p]] /\ pos' = [pos EXCEPT ![p] = pos'[p]] /\ calls' = calls
    BY RingParts, <1>s DEF InspectSlot, RingTypeOK
  <2>3. pc' \in [Threads -> Stages] /\ pos' \in [Threads -> Nat]
    BY RingParts, <2>1, <2>2, Updated DEF RingTypeOK
  <2> QED BY RingParts, <1>s, <2>2, <2>3 DEF RingTypeOK, SameRing, SameSides
<1>2. CallsInv'
  BY RingParts, <1>s, <1>a, RingSides, RingTyped DEF MovesAlone, CallsInv, PushPc, PopPc, SameSides
<1>3. SeenInv'
  BY RingParts, <1>s, <1>a, RingSides, RingTyped DEF SequencedInv, SeenInv, MovesAlone, SameRing,
      SameSides
<1>4. SequencedInv'
  BY <1>3, RingParts, <1>s, <1>a, LocalStep DEF NoTicket
<1> QED BY <1>s, <1>1, <1>2, <1>4, RingWhole

LEMMA CheckRoomInv ==
  ASSUME RingAssumption, RingInv, NEW p \in Pushers, CheckRoom(p)
  PROVE  RingInv'
<1>s. SameSides /\ SameRing /\ p \in Threads /\ p \notin Poppers /\ got' = got /\ kind # "MPMC"
  BY RingParts, RingSides, SameKind DEF CheckRoom, SameRing, CallsInv, PushPc
<1>a. /\ MovesAlone(p) /\ pc[p] = "room" /\ calls'[p] = calls[p]
      /\ \/ pc'[p] = "idle" /\ pos'[p] = pos[p]
         \/ /\ pc'[p] = IF kind = "MPSC" THEN "ticket" ELSE "fill"
            /\ pos'[p] = write /\ write < pos[p] + Capacity
  <2>1. pos[p] \in Nat /\ write \in Nat
    BY RingParts, RingTyped, <1>s
  <2> QED BY <2>1, RingParts, RingSides, <1>s DEF CheckRoom, MovesAlone, RingTypeOK
<1>1. RingTypeOK'
  <2>1. pc'[p] \in Stages /\ pos'[p] \in Nat
    BY <1>a, RingParts, RingTyped, <1>s DEF Stages
  <2>2. pc' = [pc EXCEPT ![p] = pc'[p]] /\ pos' = [pos EXCEPT ![p] = pos'[p]] /\ calls' = calls
    BY RingParts, <1>s DEF CheckRoom, RingTypeOK
  <2>3. pc' \in [Threads -> Stages] /\ pos' \in [Threads -> Nat]
    BY RingParts, <2>1, <2>2, Updated DEF RingTypeOK
  <2> QED BY RingParts, <1>s, <2>2, <2>3 DEF RingTypeOK, SameRing, SameSides
<1>2. CallsInv'
  BY RingParts, <1>s, <1>a, RingSides, RingTyped DEF MovesAlone, CallsInv, PushPc, PopPc, SameSides,
      Kinds
<1>3. ASSUME kind # "SPSC" PROVE SequencedInv'
  <2>0. kind = "MPSC"
    BY <1>3, <1>s, RingParts, RingSides DEF Kinds
  <2>1. SeenInv'
    BY <2>0, RingParts, <1>s, <1>a, <1>3, RingSides, RingTyped DEF SequencedInv, SeenInv, MovesAlone,
        SameRing, SameSides
  <2> QED BY <2>0, <2>1, RingParts, <1>3, <1>s, <1>a, LocalStep DEF NoTicket
<1>4. ASSUME kind = "SPSC" PROVE IndexedInv'
  BY RingParts, <1>s, <1>a, <1>4, RingSides, RingTyped
  DEF IndexedInv, MovesAlone, SameRing, HasItem, Item, SameSides
<1> QED BY <1>s, <1>1, <1>2, <1>3, <1>4, RingWhole

LEMMA PopBeginInv ==
  ASSUME RingAssumption, RingInv, NEW c \in Poppers, PopBegin(c)
  PROVE  RingInv'
<1>s. SameSides /\ SameRing /\ c \in Threads /\ c \notin Pushers /\ got' = got
  BY RingParts, RingSides, SameKind DEF PopBegin, SameRing
<1>a. /\ MovesAlone(c) /\ pc[c] = "idle" /\ pc'[c] = "look" /\ pos'[c] = read
  BY RingParts, <1>s DEF PopBegin, Moves, MovesAlone, RingTypeOK
<1>1. RingTypeOK'
  <2>1. "look" \in Stages /\ read \in Nat /\ calls[c] + 1 \in Nat
    BY RingParts, RingTyped, <1>s DEF Stages
  <2>2. pc' \in [Threads -> Stages] /\ pos' \in [Threads -> Nat] /\ calls' \in [Threads -> Nat]
    BY RingParts, <2>1, Updated DEF PopBegin, Moves, RingTypeOK
  <2> QED BY RingParts, <1>s, <2>2 DEF RingTypeOK, SameRing, SameSides
<1>2. CallsInv'
  BY RingParts, <1>s, <1>a, RingSides, RingTyped DEF MovesAlone, CallsInv, PushPc, PopPc, SameSides
<1>3. ASSUME kind # "SPSC" PROVE SequencedInv'
  <2>1. SeenInv'
    BY RingParts, <1>s, <1>a, <1>3, RingSides, RingTyped DEF SequencedInv, SeenInv, MovesAlone,
        SameRing, SameSides
  <2> QED BY <2>1, RingParts, <1>3, <1>s, <1>a, LocalStep DEF NoTicket
<1>4. ASSUME kind = "SPSC" PROVE IndexedInv'
  BY RingParts, <1>s, <1>a, <1>4, RingSides, RingTyped
  DEF IndexedInv, MovesAlone, SameRing, HasItem, Item, SameSides
<1> QED BY <1>s, <1>1, <1>2, <1>3, <1>4, RingWhole

\* A slot one round after or before is the same; between them, another.
LEMMA SlotFacts ==
  ASSUME RingAssumption, RingTypeOK
  PROVE  /\ \A t \in Int : Slot(t) \in 0 .. Capacity - 1
         /\ \A t \in Int : Slot(t + 1) # Slot(t)
         /\ \A t \in Int : Slot(t + Capacity) = Slot(t)
         /\ \A t, u \in Int : Slot(t) = Slot(u) /\ t < u => u >= t + Capacity
<1> Capacity \in Nat /\ Capacity >= 2
  BY RingSides
<1>1. ASSUME NEW t \in Int PROVE Slot(t) \in 0 .. Capacity - 1 /\ Slot(t + 1) # Slot(t) /\ Slot(t + Capacity) = Slot(t)
  BY SlotIn, SlotSucc, SlotRound
<1>2. ASSUME NEW t \in Int, NEW u \in Int, Slot(t) = Slot(u), t < u PROVE u >= t + Capacity
  BY <1>2, SlotApart
<1> QED BY <1>1, <1>2

LEMMA PosSlot ==
  ASSUME RingAssumption, RingTypeOK, NEW t \in Threads
  PROVE  pos[t] \in Int /\ Slot(pos[t]) \in 0 .. Capacity - 1 /\ Slot(pos[t] + 1) # Slot(pos[t])
<1> pos[t] \in Int
  BY RingTyped
<1> QED BY SlotFacts

\* A producer takes the next ticket.
LEMMA TicketStep ==
  ASSUME RingAssumption, RingTypeOK, SequencedInv, SameSides, NEW p \in Pushers, MovesAlone(p),
         calls'[p] = calls[p],
         NoTicket(p), pc'[p] \in {"turn", "fill"}, pos'[p] = write,
         pc'[p] = "fill" => seq[Slot(write)] = write,
         write' = write + 1, read' = read, seq' = seq, cell' = cell
  PROVE  SequencedInv'
<1>0. p \in Threads /\ p \notin Poppers /\ Threads = Pushers \cup Poppers
  BY RingSides
<1>1. SlotsInv'
  <2> SUFFICES ASSUME NEW i \in 0 .. Capacity - 1
      PROVE  SlotFits(i)'
    BY DEF SlotsInv, SlotFits
  <2> QED BY <1>0, RingTyped DEF SequencedInv, SlotsInv, SlotFits, HasItem, MovesAlone, SameSides
<1>2. seq[Slot(write)] # write + 1
  <2> SUFFICES ASSUME seq[Slot(write)] = write + 1
      PROVE  FALSE
    OBVIOUS
  <2>1. write \in Int /\ write + 1 \in Int /\ read \in Int /\ read <= write /\ Slot(write) \in 0 .. Capacity - 1
    BY RingTyped, SlotFacts
  <2>2. Slot(write + 1) # Slot(write)
    BY <2>1, SlotFacts
  <2>3. \A c \in Poppers : HasItem(c) => pos[c] < read
    BY DEF SequencedInv, HoldersInv
  <2>4. \/ Slot(write + 1) = Slot(write) \/ write + 1 <= write
        \/ \E c \in Poppers : HasItem(c) /\ pos[c] = write + 1 - 1
    BY <2>1 DEF SequencedInv, SlotsInv, SlotFits, HasItem
  <2> QED BY <2>1, <2>2, <2>3, <2>4
<1>3. TicketsInv'
  <2> SUFFICES ASSUME NEW q \in Pushers, HasTicket(q)'
      PROVE  TicketFits(q)'
    BY DEF TicketsInv, SameSides
  <2>1. CASE q = p
    BY <2>1, <1>0, <1>2, RingTyped DEF SequencedInv, TicketsInv, TicketFits, MovesAlone, HasTicket,
        SameSides
  <2>2. CASE q # p
    <3>1. HasTicket(q) /\ pc'[q] = pc[q] /\ pos'[q] = pos[q] /\ Item(q)' = Item(q) /\ pos[q] < write
      BY <2>2, <1>0 DEF MovesAlone, HasTicket, Item, SequencedInv, TicketsInv, TicketFits
    <3> QED BY <2>2, <3>1, <1>0, RingTyped DEF SequencedInv, TicketsInv, TicketFits, MovesAlone,
        HasTicket, SameSides
  <2> QED BY <2>1, <2>2
<1>4. HoldersInv'
  BY <1>0 DEF SequencedInv, HoldersInv, MovesAlone, SameSides, HasItem
<1>5. TakenInv'
  <2> SUFFICES ASSUME NEW t \in (read .. write - 1)'
      PROVE  (seq[Slot(t)] = t + 1 \/ \E q \in Pushers : HasTicket(q) /\ pos[q] = t)'
    BY DEF TakenInv
  <2>1. CASE t = write
    BY <2>1, <1>0 DEF HasTicket, SameSides
  <2>2. CASE t # write
    <3>1. t \in read .. write - 1
      BY <2>2, RingTyped
    <3> QED BY <3>1, <1>0 DEF SequencedInv, TakenInv, HasTicket, MovesAlone, NoTicket, SameSides
  <2> QED BY <2>1, <2>2
<1>6. SeenInv'
  BY <1>0, RingTyped DEF SequencedInv, SeenInv, MovesAlone, SameSides
<1> QED BY <1>1, <1>3, <1>4, <1>5, <1>6 DEF SequencedInv

\* A consumer takes the ticket of the item at the head.
LEMMA ItemStep ==
  ASSUME RingAssumption, RingTypeOK, SequencedInv, SameSides, NEW c \in Poppers, MovesAlone(c),
         NoTicket(c),
         pc'[c] = "take", pos'[c] = read, seq[Slot(read)] = read + 1,
         write' = write, read' = read + 1, seq' = seq, cell' = cell
  PROVE  SequencedInv'
<1>0. c \in Threads /\ c \notin Pushers /\ Threads = Pushers \cup Poppers
  BY RingSides
<1>s. /\ read \in Int /\ read + 1 \in Int /\ Slot(read) \in 0 .. Capacity - 1 /\ Slot(read + 1) # Slot(read)
      /\ \A d \in Poppers : HasItem(d) => pos[d] < read
  <2>1. read \in Int /\ read + 1 \in Int
    BY RingTyped
  <2>2. Slot(read) \in 0 .. Capacity - 1 /\ Slot(read + 1) # Slot(read)
    BY <2>1, SlotFacts
  <2> QED BY <2>1, <2>2 DEF SequencedInv, HoldersInv
<1>1. SlotsInv'
  <2> SUFFICES ASSUME NEW i \in 0 .. Capacity - 1
      PROVE  SlotFits(i)'
    BY DEF SlotsInv, SlotFits
  <2>0. seq[i] \in Nat /\ Capacity \in Nat /\ Capacity >= 2
    BY RingTyped, RingSides
  <2>1. CASE Slot(seq[i]) = i /\ read <= seq[i] /\ seq[i] < read + Capacity
    BY <2>0, <2>1, <1>s DEF SlotFits
  <2>2. CASE Slot(seq[i] - 1) = i /\ read < seq[i] /\ seq[i] <= read + Capacity /\ seq[i] <= write
    <3>1. CASE seq[i] = read + 1
      BY <2>0, <2>2, <3>1, <1>0, <1>s DEF SameSides, SlotFits, HasItem
    <3>2. CASE seq[i] # read + 1
      BY <2>0, <2>2, <3>2, <1>s DEF SlotFits
    <3> QED BY <3>1, <3>2
  <2>3. CASE /\ Slot(seq[i] - 1) = i /\ read <= seq[i] - 1 + Capacity
             /\ \E d \in Poppers : HasItem(d) /\ pos[d] = seq[i] - 1
    <3>1. Slot(seq[i] - 1 + Capacity) = i
      <4> seq[i] - 1 \in Int
        BY <2>0
      <4> QED BY <2>3, SlotFacts
    <3>2. seq[i] - 1 < read
      BY <1>s, <2>3 DEF HasItem
    <3>3. seq[i] - 1 + Capacity # read
      BY <3>1, <3>2, <2>0, <1>s
    <3> QED BY <3>3, <2>0, <2>3, <1>0, <1>s DEF MovesAlone, SameSides, NoTicket, SlotFits, HasItem
  <2> QED BY <2>1, <2>2, <2>3 DEF SequencedInv, SlotsInv, SlotFits
<1>2. read < write
  BY <1>s, RingTyped DEF SequencedInv, SlotsInv, SlotFits, HasItem
<1>3. TicketsInv'
  <2> SUFFICES ASSUME NEW p \in Pushers, HasTicket(p)'
      PROVE  TicketFits(p)'
    BY DEF TicketsInv, SameSides
  <2>1. HasTicket(p) /\ pc'[p] = pc[p] /\ pos'[p] = pos[p] /\ Item(p)' = Item(p)
    BY <1>0 DEF MovesAlone, HasTicket, Item
  <2>2. pos[p] # read
    BY <2>1 DEF SequencedInv, TicketsInv, TicketFits
  <2> QED BY <2>1, <2>2, <1>0, RingTyped DEF SequencedInv, TicketsInv, TicketFits, MovesAlone,
      HasTicket, SameSides
<1>4. HoldersInv'
  BY <1>0, <1>s, RingTyped DEF SequencedInv, HoldersInv, MovesAlone, SameSides, HasItem
<1>5. TakenInv'
  BY <1>0, RingTyped DEF SequencedInv, TakenInv, HasTicket, MovesAlone, SameSides
<1>6. SeenInv'
  BY <1>0, <1>s, RingSides, RingTyped DEF SequencedInv, SeenInv, MovesAlone, SameSides
<1> QED BY <1>1, <1>3, <1>4, <1>5, <1>6 DEF SequencedInv

LEMMA CasWriteInv ==
  ASSUME RingAssumption, RingInv, NEW p \in Pushers, CasWrite(p)
  PROVE  RingInv'
<1>s. /\ SameSides /\ p \in Threads /\ p \notin Poppers /\ got' = got /\ kind = "MPMC"
      /\ read' = read /\ seq' = seq /\ cell' = cell /\ calls' = calls
  BY RingParts, RingSides, SameKind DEF CasWrite, Moves, CallsInv, PushPc
<1>1. CASE write = pos[p] /\ Moves(p, "claim", "fill") /\ write' = write + 1 /\ pos' = pos
  <2>a. /\ MovesAlone(p) /\ pc[p] = "claim" /\ pc'[p] = "fill" /\ pos'[p] = write /\ calls'[p] = calls[p]
    BY <1>1, <1>s, RingParts DEF Moves, MovesAlone, RingTypeOK
  <2>1. RingTypeOK'
    <3>1. "fill" \in Stages /\ write + 1 \in Nat /\ read <= write + 1
      BY RingParts, RingTyped DEF Stages
    <3>2. pc' \in [Threads -> Stages]
      BY <1>1, RingParts, <3>1, Updated DEF Moves, RingTypeOK
    <3> QED BY RingParts, <1>1, <1>s, <3>1, <3>2 DEF RingTypeOK, SameSides
  <2>2. CallsInv'
    BY RingParts, <1>s, <2>a, RingSides, RingTyped DEF MovesAlone, CallsInv, PushPc, PopPc, SameSides
  <2>3. seq[Slot(write)] = write
    BY RingParts, <1>1, <1>s, <2>a DEF SequencedInv, SeenInv
  <2>4. SequencedInv'
    BY <2>3, <2>a, <1>1, <1>s, RingParts, TicketStep DEF NoTicket
  <2> QED BY <1>s, <2>1, <2>2, <2>4, RingWhole
<1>2. CASE Moves(p, "claim", "inspect") /\ pos' = [pos EXCEPT ![p] = write] /\ write' = write
  <2>a. /\ MovesAlone(p) /\ pc[p] = "claim" /\ pc'[p] = "inspect" /\ pos'[p] = write /\ SameRing
    BY <1>2, <1>s, RingParts DEF Moves, MovesAlone, SameRing, RingTypeOK
  <2>1. RingTypeOK'
    <3>1. "inspect" \in Stages /\ write \in Nat
      BY RingParts, RingTyped DEF Stages
    <3>2. pc' \in [Threads -> Stages] /\ pos' \in [Threads -> Nat]
      BY <1>2, RingParts, <3>1, Updated DEF Moves, RingTypeOK
    <3> QED BY RingParts, <1>2, <1>s, <3>2 DEF RingTypeOK, SameSides
  <2>2. CallsInv'
    BY RingParts, <1>s, <2>a, RingSides, RingTyped DEF MovesAlone, CallsInv, PushPc, PopPc, SameSides
  <2>3. SeenInv'
    BY RingParts, <1>s, <2>a, RingSides, RingTyped DEF SequencedInv, SeenInv, MovesAlone, SameRing,
        SameSides
  <2>4. SequencedInv'
    BY <2>3, <2>a, <1>s, RingParts, LocalStep DEF NoTicket
  <2> QED BY <1>s, <2>1, <2>2, <2>4, RingWhole
<1> QED BY <1>1, <1>2 DEF CasWrite

LEMMA TakeTicketInv ==
  ASSUME RingAssumption, RingInv, NEW p \in Pushers, TakeTicket(p)
  PROVE  RingInv'
<1>s. /\ SameSides /\ p \in Threads /\ p \notin Poppers /\ got' = got /\ kind # "SPSC"
      /\ read' = read /\ seq' = seq /\ cell' = cell /\ calls' = calls
  BY RingParts, RingSides, SameKind DEF TakeTicket, Moves, CallsInv, PushPc
<1>a. /\ MovesAlone(p) /\ pc[p] = "ticket" /\ pc'[p] = "turn" /\ pos'[p] = write /\ calls'[p] = calls[p]
      /\ write' = write + 1
  BY <1>s, RingParts DEF TakeTicket, Moves, MovesAlone, RingTypeOK
<1>1. RingTypeOK'
  <2>1. "turn" \in Stages /\ write \in Nat /\ write + 1 \in Nat /\ read <= write + 1
    BY RingParts, RingTyped DEF Stages
  <2>2. pc' \in [Threads -> Stages] /\ pos' \in [Threads -> Nat]
    BY RingParts, <2>1, Updated DEF TakeTicket, Moves, RingTypeOK
  <2> QED BY RingParts, <1>s, <1>a, <2>1, <2>2 DEF RingTypeOK, SameSides
<1>2. CallsInv'
  BY RingParts, <1>s, <1>a, RingSides, RingTyped DEF MovesAlone, CallsInv, PushPc, PopPc, SameSides,
      Kinds
<1>3. SequencedInv'
  BY <1>a, <1>s, RingParts, TicketStep DEF NoTicket
<1> QED BY <1>s, <1>1, <1>2, <1>3, RingWhole

LEMMA LookHeadInv ==
  ASSUME RingAssumption, RingInv, NEW c \in Poppers, LookHead(c)
  PROVE  RingInv'
<1>s. /\ SameSides /\ c \in Threads /\ c \notin Pushers /\ got' = got /\ pc[c] = "look"
      /\ write' = write /\ seq' = seq /\ cell' = cell /\ calls' = calls
  BY RingParts, RingSides, SameKind DEF LookHead
<1>t. pos[c] \in Nat /\ seq[Slot(pos[c])] \in Nat /\ write \in Nat
  BY RingParts, RingTyped, <1>s, SlotIn
<1>1. CASE kind = "MPSC" /\ pc'[c] = "take"
  <2>1. /\ pc' = [pc EXCEPT ![c] = "take"] /\ read' = pos[c] + 1 /\ pos' = pos
        /\ seq[Slot(pos[c])] = pos[c] + 1 /\ pos[c] = read
    BY <1>1, <1>s, <1>t, RingParts DEF LookHead, SequencedInv, SeenInv, RingTypeOK
  <2>a. MovesAlone(c) /\ pos'[c] = read /\ read' = read + 1 /\ seq[Slot(read)] = read + 1
    BY <2>1, <1>s, RingParts DEF MovesAlone, RingTypeOK
  <2>2. SequencedInv'
    BY <2>a, <1>1, <1>s, RingParts, ItemStep DEF NoTicket
  <2>3. read < write
    <3>1. read \in Int /\ read + 1 \in Int /\ Slot(read) \in 0 .. Capacity - 1 /\ Slot(read + 1) # Slot(read)
      BY RingParts, RingTyped, SlotFacts
    <3> QED BY <3>1, <2>a, RingParts, <1>1, <1>t DEF SequencedInv, SlotsInv, SlotFits, HoldersInv,
        HasItem
  <2>4. RingTypeOK'
    <3>1. "take" \in Stages /\ read + 1 \in Nat /\ read + 1 <= write
      BY RingParts, RingTyped, <2>3 DEF Stages
    <3>2. pc' \in [Threads -> Stages]
      BY RingParts, <2>1, <3>1, Updated DEF RingTypeOK
    <3> QED BY RingParts, <1>s, <2>a, <2>1, <3>1, <3>2 DEF RingTypeOK, SameSides
  <2>5. CallsInv'
    BY RingParts, <1>1, <1>s, <2>a, RingSides, RingTyped DEF MovesAlone, CallsInv, PushPc, PopPc,
        SameSides
  <2> QED BY <1>s, <1>1, <2>2, <2>4, <2>5, RingWhole
<1>2. CASE kind # "MPSC" \/ pc'[c] # "take"
  <2>a. /\ MovesAlone(c) /\ read' = read
        /\ \/ pc'[c] = "grab" /\ kind = "MPMC" /\ pos'[c] = pos[c] /\ seq[Slot(pos[c])] = pos[c] + 1
           \/ pc'[c] = "take" /\ kind = "SPSC" /\ pos'[c] = pos[c] /\ write # pos[c]
           \/ pc'[c] = "look" /\ kind = "MPMC" /\ pos'[c] = read
           \/ pc'[c] = "idle" /\ pos'[c] = pos[c]
    BY <1>2, <1>s, <1>t, RingParts, RingSides DEF LookHead, MovesAlone, RingTypeOK, Kinds
  <2>1. RingTypeOK'
    <3>1. pc'[c] \in Stages /\ pos'[c] \in Nat
      BY <2>a, <1>t, RingParts, RingTyped DEF Stages
    <3>2. pc' = [pc EXCEPT ![c] = pc'[c]] /\ pos' = [pos EXCEPT ![c] = pos'[c]]
      BY RingParts, <1>s DEF LookHead, RingTypeOK
    <3>3. pc' \in [Threads -> Stages] /\ pos' \in [Threads -> Nat]
      BY RingParts, <3>1, <3>2, Updated DEF RingTypeOK
    <3> QED BY RingParts, <1>s, <2>a, <3>3 DEF RingTypeOK, SameSides
  <2>2. CallsInv'
    BY RingParts, <1>s, <2>a, RingSides, RingTyped DEF MovesAlone, CallsInv, PushPc, PopPc, SameSides
  <2>3. ASSUME kind # "SPSC" PROVE SequencedInv'
    <3>1. SeenInv'
      BY RingParts, <1>s, <1>t, <2>a, <2>3, RingSides, RingTyped DEF SequencedInv, SeenInv, MovesAlone,
          SameSides
    <3> QED BY <3>1, <2>a, <2>3, <1>s, RingParts, LocalStep DEF NoTicket, SameRing
  <2>4. ASSUME kind = "SPSC" PROVE IndexedInv'
    BY RingParts, <1>s, <2>a, <2>4, RingSides, RingTyped DEF IndexedInv, MovesAlone, HasItem, Item,
        SameSides
  <2> QED BY <1>s, <2>1, <2>2, <2>3, <2>4, RingWhole
<1> QED BY <1>1, <1>2

LEMMA CasReadInv ==
  ASSUME RingAssumption, RingInv, NEW c \in Poppers, CasRead(c)
  PROVE  RingInv'
<1>s. /\ SameSides /\ c \in Threads /\ c \notin Pushers /\ got' = got /\ kind = "MPMC"
      /\ write' = write /\ seq' = seq /\ cell' = cell /\ calls' = calls
  BY RingParts, RingSides, SameKind DEF CasRead, Moves, CallsInv, PopPc
<1>1. CASE read = pos[c] /\ Moves(c, "grab", "take") /\ read' = read + 1 /\ pos' = pos
  <2>a. /\ MovesAlone(c) /\ pc[c] = "grab" /\ pc'[c] = "take" /\ pos'[c] = read
    BY <1>1, <1>s, RingParts DEF Moves, MovesAlone, RingTypeOK
  <2>1. seq[Slot(read)] = read + 1
    BY RingParts, <1>1, <1>s, <2>a DEF SequencedInv, SeenInv
  <2>2. SequencedInv'
    BY <2>1, <2>a, <1>1, <1>s, RingParts, ItemStep DEF NoTicket
  <2>3. read < write
    <3>1. read \in Int /\ read + 1 \in Int /\ Slot(read) \in 0 .. Capacity - 1 /\ Slot(read + 1) # Slot(read)
      BY RingParts, RingTyped, SlotFacts
    <3> QED BY <3>1, <2>1, RingParts, RingTyped, <1>s DEF SequencedInv, SlotsInv, SlotFits, HoldersInv,
        HasItem
  <2>4. RingTypeOK'
    <3>1. "take" \in Stages /\ read + 1 \in Nat /\ read + 1 <= write
      BY RingParts, RingTyped, <2>3 DEF Stages
    <3>2. pc' \in [Threads -> Stages]
      BY RingParts, <1>1, <3>1, Updated DEF RingTypeOK, Moves
    <3> QED BY RingParts, <1>1, <1>s, <3>1, <3>2 DEF RingTypeOK, SameSides
  <2>5. CallsInv'
    BY RingParts, <1>s, <2>a, RingSides, RingTyped DEF MovesAlone, CallsInv, PushPc, PopPc, SameSides
  <2> QED BY <1>s, <2>2, <2>4, <2>5, RingWhole
<1>2. CASE Moves(c, "grab", "look") /\ pos' = [pos EXCEPT ![c] = read] /\ read' = read
  <2>a. MovesAlone(c) /\ pc[c] = "grab" /\ pc'[c] = "look" /\ pos'[c] = read /\ SameRing
    BY <1>2, <1>s, RingParts DEF Moves, MovesAlone, SameRing, RingTypeOK
  <2>1. RingTypeOK'
    <3>1. "look" \in Stages /\ read \in Nat
      BY RingParts, RingTyped DEF Stages
    <3>2. pc' \in [Threads -> Stages] /\ pos' \in [Threads -> Nat]
      BY <1>2, RingParts, <3>1, Updated DEF Moves, RingTypeOK
    <3> QED BY RingParts, <1>2, <1>s, <3>2 DEF RingTypeOK, SameSides
  <2>2. CallsInv'
    BY RingParts, <1>s, <2>a, RingSides, RingTyped DEF MovesAlone, CallsInv, PushPc, PopPc, SameSides
  <2>3. SeenInv'
    BY RingParts, <1>s, <2>a, RingSides, RingTyped DEF SequencedInv, SeenInv, MovesAlone, SameRing,
        SameSides
  <2>4. SequencedInv'
    BY <2>3, <2>a, <1>s, RingParts, LocalStep DEF NoTicket
  <2> QED BY <1>s, <2>1, <2>2, <2>4, RingWhole
<1> QED BY <1>1, <1>2 DEF CasRead

LEMMA AwaitTurnInv ==
  ASSUME RingAssumption, RingInv, NEW p \in Pushers, AwaitTurn(p)
  PROVE  RingInv'
<1>s. /\ SameSides /\ SameRing /\ p \in Threads /\ p \notin Poppers /\ got' = got /\ pos' = pos /\ calls' = calls
      /\ kind # "SPSC" /\ seq[Slot(pos[p])] = pos[p] /\ Threads = Pushers \cup Poppers
  BY RingParts, RingSides, SameKind DEF AwaitTurn, Moves, SameRing, CallsInv, PushPc
<1>a. MovesAlone(p) /\ pc[p] = "turn" /\ pc'[p] = "fill"
  BY <1>s, RingParts DEF AwaitTurn, Moves, MovesAlone, RingTypeOK
<1>1. RingTypeOK'
  <2>1. "fill" \in Stages
    BY DEF Stages
  <2>2. pc' \in [Threads -> Stages]
    BY RingParts, <2>1, Updated DEF AwaitTurn, Moves, RingTypeOK
  <2> QED BY RingParts, <1>s, <2>2 DEF RingTypeOK, SameSides, SameRing
<1>2. CallsInv'
  BY RingParts, <1>s, <1>a, RingSides DEF MovesAlone, CallsInv, PushPc, PopPc, SameSides, Kinds
<1>t. \A q \in Pushers : HasTicket(q)' <=> HasTicket(q)
  BY <1>s, <1>a DEF HasTicket, MovesAlone
<1>i. \A q \in Pushers : Item(q)' = Item(q)
  BY <1>s DEF Item
<1>3. SlotsInv'
  BY RingParts, <1>s, <1>a DEF SequencedInv, SlotsInv, SlotFits, HasItem, MovesAlone, SameSides,
      SameRing
<1>4. TicketsInv'
  <2> SUFFICES ASSUME NEW q \in Pushers, HasTicket(q)'
      PROVE  TicketFits(q)'
    BY <1>s DEF TicketsInv, SameSides
  <2>0. HasTicket(q)
    BY <1>t
  <2>1. CASE q = p
    BY <2>0, <2>1, RingParts, <1>s, <1>a, <1>t, <1>i DEF SequencedInv, TicketsInv, TicketFits,
        SameSides, SameRing
  <2>2. CASE q # p
    BY <2>0, <2>2, RingParts, <1>s, <1>a, <1>t, <1>i DEF SequencedInv, TicketsInv, TicketFits,
        SameSides, SameRing, MovesAlone
  <2> QED BY <2>1, <2>2
<1>5. HoldersInv'
  BY RingParts, <1>s, <1>a DEF SequencedInv, HoldersInv, MovesAlone, SameSides, SameRing, HasItem
<1>6. TakenInv'
  BY RingParts, <1>s, <1>t DEF SequencedInv, TakenInv, SameSides, SameRing
<1>7. SeenInv'
  BY RingParts, <1>s, <1>a DEF SequencedInv, SeenInv, MovesAlone, SameSides, SameRing
<1> QED BY <1>s, <1>1, <1>2, <1>3, <1>4, <1>5, <1>6, <1>7, RingWhole DEF SequencedInv

LEMMA FillInv ==
  ASSUME RingAssumption, RingInv, NEW p \in Pushers, Fill(p)
  PROVE  RingInv'
<1>s. /\ SameSides /\ p \in Threads /\ p \notin Poppers /\ Threads = Pushers \cup Poppers
      /\ write' = write /\ read' = read /\ seq' = seq /\ got' = got /\ pos' = pos /\ calls' = calls
  BY RingParts, RingSides, SameKind DEF Fill
<1>t. pos[p] \in Int /\ Slot(pos[p]) \in 0 .. Capacity - 1 /\ Slot(pos[p] + 1) # Slot(pos[p])
  BY RingParts, <1>s, PosSlot
<1>a. /\ MovesAlone(p) /\ pc[p] = "fill" /\ pc'[p] = "publish"
      /\ cell' = [cell EXCEPT ![Slot(pos[p])] = Item(p)]
  BY <1>s, RingParts DEF Fill, Moves, MovesAlone, RingTypeOK
<1>b. /\ cell'[Slot(pos[p])] = Item(p)
      /\ \A i \in (0 .. Capacity - 1) \ {Slot(pos[p])} : cell'[i] = cell[i]
  BY <1>a, <1>t, RingParts DEF RingTypeOK
<1>1. RingTypeOK'
  <2>1. "publish" \in Stages /\ Item(p) \in AllItems \cup {Empty}
    BY RingParts, <1>a, ItemType DEF Stages, CallsInv
  <2>2. pc' \in [Threads -> Stages] /\ cell' \in [0 .. Capacity - 1 -> AllItems \cup {Empty}]
    <3>1. pc' \in [Threads -> Stages]
      BY RingParts, <2>1, Updated DEF Fill, Moves, RingTypeOK
    <3>2. cell' \in [0 .. Capacity - 1 -> AllItems \cup {Empty}]
      BY RingParts, <1>a, <2>1, Updated DEF RingTypeOK
    <3> QED BY <3>1, <3>2
  <2> QED BY RingParts, <1>s, <2>2 DEF RingTypeOK, SameSides
<1>2. CallsInv'
  BY RingParts, <1>s, <1>a, RingSides DEF MovesAlone, CallsInv, PushPc, PopPc, SameSides, Kinds
<1>k. \A q \in Pushers : HasTicket(q)' <=> HasTicket(q)
  BY <1>s, <1>a DEF HasTicket, MovesAlone
<1>i. \A q \in Pushers : Item(q)' = Item(q)
  BY <1>s DEF Item
<1>3. ASSUME kind # "SPSC" PROVE SequencedInv'
  <2>1. SlotsInv'
    BY <1>3, RingParts, <1>s, <1>a DEF SequencedInv, SlotsInv, SlotFits, HasItem, MovesAlone, SameSides
  <2>2. TicketsInv'
    <3> SUFFICES ASSUME NEW q \in Pushers, HasTicket(q)'
        PROVE  TicketFits(q)'
      BY <1>s DEF TicketsInv, SameSides
    <3>0. HasTicket(q)
      BY <1>k
    <3>1. CASE q = p
      BY <3>0, <3>1, <1>3, RingParts, <1>s, <1>a, <1>b, <1>k, <1>i DEF SequencedInv, TicketsInv,
          TicketFits, SameSides
    <3>2. CASE q # p
      <4>1. pc'[q] = pc[q] /\ pos[q] \in Int /\ Slot(pos[q]) \in 0 .. Capacity - 1
        BY <3>2, <1>s, <1>a, RingParts, PosSlot DEF MovesAlone
      <4>2. pc[q] = "publish" => Slot(pos[q]) # Slot(pos[p])
        BY <3>0, <3>2, <1>3, <1>a, RingParts DEF SequencedInv, TicketsInv, TicketFits, HasTicket
      <4> QED BY <3>0, <4>1, <4>2, <1>3, RingParts, <1>s, <1>b, <1>k, <1>i DEF SequencedInv,
          TicketsInv, TicketFits, SameSides
    <3> QED BY <3>1, <3>2
  <2>3. HoldersInv'
    BY <1>3, RingParts, <1>s, <1>a DEF SequencedInv, HoldersInv, MovesAlone, SameSides, HasItem
  <2>4. TakenInv'
    BY <1>3, RingParts, <1>s, <1>k DEF SequencedInv, TakenInv, SameSides
  <2>5. SeenInv'
    BY <1>3, RingParts, <1>s, <1>a DEF SequencedInv, SeenInv, MovesAlone, SameSides
  <2> QED BY <2>1, <2>2, <2>3, <2>4, <2>5 DEF SequencedInv
<1>4. ASSUME kind = "SPSC" PROVE IndexedInv'
  BY <1>4, RingParts, <1>s, <1>a, <1>b, <1>i, RingSides DEF IndexedInv, MovesAlone, HasItem, SameSides
<1> QED BY <1>s, <1>1, <1>2, <1>3, <1>4, RingWhole

LEMMA TakeInv ==
  ASSUME RingAssumption, RingInv, NEW c \in Poppers, Take(c)
  PROVE  RingInv'
<1>s. /\ SameSides /\ c \in Threads /\ c \notin Pushers /\ Threads = Pushers \cup Poppers
      /\ write' = write /\ read' = read /\ seq' = seq /\ pos' = pos /\ calls' = calls
  BY RingParts, RingSides, SameKind DEF Take
<1>t. pos[c] \in Int /\ Slot(pos[c]) \in 0 .. Capacity - 1 /\ Slot(pos[c] + 1) # Slot(pos[c])
  BY RingParts, <1>s, PosSlot
<1>a. /\ MovesAlone(c) /\ pc[c] = "take" /\ pc'[c] = "free"
      /\ cell' = [cell EXCEPT ![Slot(pos[c])] = Empty]
      /\ got' = [got EXCEPT ![c] = Append(@, cell[Slot(pos[c])])]
  BY <1>s, RingParts DEF Take, Moves, MovesAlone, RingTypeOK
<1>b. \A i \in (0 .. Capacity - 1) \ {Slot(pos[c])} : cell'[i] = cell[i]
  BY <1>a, <1>t, RingParts DEF RingTypeOK
<1>g. /\ got[c] \in Seq(AllItems \cup {Empty}) /\ cell[Slot(pos[c])] \in AllItems \cup {Empty}
      /\ got'[c] = Append(got[c], cell[Slot(pos[c])])
      /\ \A d \in Poppers \ {c} : got'[d] = got[d]
  BY <1>a, <1>t, RingParts DEF RingTypeOK
<1>1. RingTypeOK'
  <2>1. "free" \in Stages /\ Empty \in AllItems \cup {Empty}
        /\ Append(got[c], cell[Slot(pos[c])]) \in Seq(AllItems \cup {Empty})
    BY <1>g DEF Stages
  <2>2. /\ pc' \in [Threads -> Stages] /\ cell' \in [0 .. Capacity - 1 -> AllItems \cup {Empty}]
        /\ got' \in [Poppers -> Seq(AllItems \cup {Empty})]
    <3>1. pc' \in [Threads -> Stages]
      BY RingParts, <2>1, Updated DEF Take, Moves, RingTypeOK
    <3>2. cell' \in [0 .. Capacity - 1 -> AllItems \cup {Empty}]
      BY RingParts, <1>a, <2>1, Updated DEF RingTypeOK
    <3>3. got' \in [Poppers -> Seq(AllItems \cup {Empty})]
      BY RingParts, <1>a, <2>1, Updated DEF RingTypeOK
    <3> QED BY <3>1, <3>2, <3>3
  <2> QED BY RingParts, <1>s, <2>2 DEF RingTypeOK, SameSides
<1>2. CallsInv'
  BY RingParts, <1>s, <1>a, RingSides DEF MovesAlone, CallsInv, PushPc, PopPc, SameSides, Kinds
<1>k. \A q \in Pushers : HasTicket(q)' <=> HasTicket(q)
  BY <1>s, <1>a DEF HasTicket, MovesAlone
<1>i. \A q \in Pushers : pc'[q] = pc[q] /\ Item(q)' = Item(q)
  BY <1>s, <1>a DEF Item, MovesAlone
<1>h. \A d \in Poppers : HasItem(d)' <=> HasItem(d)
  BY <1>s, <1>a DEF HasItem, MovesAlone
<1>3. ASSUME kind # "SPSC" PROVE SequencedInv'
  <2>1. SlotsInv'
    BY <1>3, RingParts, <1>s, <1>h DEF SequencedInv, SlotsInv, SlotFits, SameSides, HasItem
  <2>2. TicketsInv'
    <3> SUFFICES ASSUME NEW q \in Pushers, HasTicket(q)'
        PROVE  TicketFits(q)'
      BY <1>s DEF TicketsInv, SameSides
    <3>0. HasTicket(q)
      BY <1>k
    <3>1. pc'[q] = pc[q] /\ pos[q] \in Int /\ Slot(pos[q]) \in 0 .. Capacity - 1
      BY <1>s, <1>i, RingParts, PosSlot
    <3>2. pc[q] = "publish" => Slot(pos[q]) # Slot(pos[c])
      BY <1>3, <1>a, <1>t, <3>0, <3>1, RingParts DEF SequencedInv, TicketsInv, TicketFits, HoldersInv,
          HasTicket, HasItem
    <3> QED BY <3>0, <3>1, <3>2, <1>3, RingParts, <1>s, <1>b, <1>k, <1>i DEF SequencedInv, TicketsInv,
        TicketFits, SameSides
  <2>3. HoldersInv'
    BY <1>3, RingParts, <1>s, <1>h DEF SequencedInv, HoldersInv, SameSides
  <2>4. TakenInv'
    BY <1>3, RingParts, <1>s, <1>k DEF SequencedInv, TakenInv, SameSides
  <2>5. SeenInv'
    BY <1>3, RingParts, <1>s, <1>a DEF SequencedInv, SeenInv, MovesAlone, SameSides
  <2> QED BY <2>1, <2>2, <2>3, <2>4, <2>5 DEF SequencedInv
<1>4. ASSUME kind = "SPSC" PROVE IndexedInv'
  <2>1. pos[c] = read /\ read < write /\ write <= read + Capacity /\ got'[c] # <<>>
    BY <1>4, <1>a, <1>g, RingParts DEF IndexedInv, HasItem
  <2>2. \A q \in Pushers : pc[q] = "publish" => Slot(write) # Slot(read) /\ Slot(write) \in 0 .. Capacity - 1
    <3>1. read \in Int /\ write \in Int
      BY RingParts, RingTyped
    <3>2. Slot(write) \in 0 .. Capacity - 1
      BY <3>1, RingParts, SlotFacts
    <3>3. write < read + Capacity => Slot(write) # Slot(read)
      BY <3>1, <2>1, SlotApart
    <3> QED BY <3>2, <3>3, <1>4, RingParts DEF IndexedInv
  <2>3. \A q \in Pushers : pc'[q] = "publish" => cell'[Slot(write)] = Item(q)'
    BY <1>4, <2>1, <2>2, <1>b, <1>i, RingParts DEF IndexedInv
  <2> QED BY <1>4, <2>1, <2>3, RingParts, <1>s, <1>a, <1>i, <1>h, RingSides DEF IndexedInv, SameSides,
      HasItem
<1> QED BY <1>s, <1>1, <1>2, <1>3, <1>4, RingWhole

LEMMA PublishInv ==
  ASSUME RingAssumption, RingInv, NEW p \in Pushers, Publish(p)
  PROVE  RingInv'
<1>s. /\ SameSides /\ p \in Threads /\ p \notin Poppers /\ Threads = Pushers \cup Poppers
      /\ read' = read /\ cell' = cell /\ got' = got /\ pos' = pos /\ calls' = calls
  BY RingParts, RingSides, SameKind DEF Publish
<1>t. pos[p] \in Nat /\ Slot(pos[p]) \in 0 .. Capacity - 1 /\ Slot(pos[p] + 1) # Slot(pos[p])
  BY RingParts, <1>s, PosSlot, RingTyped
<1>a. MovesAlone(p) /\ pc[p] = "publish" /\ pc'[p] = "idle"
  BY <1>s, RingParts DEF Publish, Moves, MovesAlone, RingTypeOK
<1>b. /\ kind = "SPSC" => write' = pos[p] + 1 /\ seq' = seq
      /\ kind # "SPSC" => /\ write' = write
                          /\ seq' = [seq EXCEPT ![Slot(pos[p])] = pos[p] + 1]
                          /\ seq'[Slot(pos[p])] = pos[p] + 1
                          /\ \A i \in (0 .. Capacity - 1) \ {Slot(pos[p])} : seq'[i] = seq[i]
  BY <1>t, RingParts DEF Publish, RingTypeOK
<1>c. kind # "SPSC" => /\ seq[Slot(pos[p])] = pos[p] /\ read <= pos[p] /\ pos[p] < write
                       /\ cell[Slot(pos[p])] = Item(p)
                       /\ \A q \in Pushers : HasTicket(q) /\ pos[q] = pos[p] => q = p
  BY <1>a, RingParts DEF SequencedInv, TicketsInv, TicketFits, HasTicket
<1>d. kind = "SPSC" => pos[p] = write /\ write < read + Capacity
  BY <1>a, RingParts DEF IndexedInv
<1>1. RingTypeOK'
  <2>1. "idle" \in Stages /\ pos[p] + 1 \in Nat
    BY <1>t DEF Stages
  <2>2. pc' \in [Threads -> Stages]
    BY RingParts, <2>1, Updated DEF Publish, Moves, RingTypeOK
  <2>3. seq' \in [0 .. Capacity - 1 -> Nat]
    BY RingParts, <1>b, <2>1, Updated DEF RingTypeOK
  <2>4. write' \in Nat /\ read <= write'
    BY RingParts, RingTyped, <1>b, <1>d
  <2> QED BY RingParts, <1>s, <2>2, <2>3, <2>4 DEF RingTypeOK, SameSides
<1>2. CallsInv'
  BY RingParts, <1>s, <1>a, RingSides DEF MovesAlone, CallsInv, PushPc, PopPc, SameSides, Kinds
<1>k. \A q \in Pushers : HasTicket(q)' <=> HasTicket(q) /\ q # p
  BY <1>s, <1>a DEF HasTicket, MovesAlone
<1>h. \A c \in Poppers : HasItem(c)' <=> HasItem(c)
  BY <1>s, <1>a DEF HasItem, MovesAlone
<1>i. \A q \in Pushers : Item(q)' = Item(q)
  BY <1>s DEF Item
<1>3. ASSUME kind # "SPSC" PROVE SequencedInv'
  <2>0. Capacity \in Nat /\ Capacity >= 2 /\ write \in Nat /\ read \in Nat /\ pos[p] + 1 - 1 = pos[p]
    BY RingParts, RingSides, RingTyped, <1>t
  <2>1. SlotsInv'
    <3> SUFFICES ASSUME NEW i \in 0 .. Capacity - 1 PROVE SlotFits(i)'
      BY DEF SlotsInv
    <3>1. CASE i = Slot(pos[p])
      <4>1. pos[p] < read + Capacity
        <5>1. pos[p] - 1 \in Int /\ pos[p] - 1 + 1 = pos[p]
          BY <1>t
        <5>2. Slot(pos[p] - 1) # Slot(pos[p])
          BY <5>1, RingParts, SlotFacts
        <5> QED BY <5>2, <3>1, <1>3, <1>c, RingParts DEF SequencedInv, SlotsInv, SlotFits
      <4> QED BY <4>1, <3>1, <1>3, <1>s, <1>b, <1>c, <1>t, <2>0 DEF SlotFits
    <3>2. CASE i # Slot(pos[p])
      BY <3>2, <1>3, <1>s, <1>b, <1>h, RingParts DEF SequencedInv, SlotsInv, SlotFits, SameSides
    <3> QED BY <3>1, <3>2
  <2>2. TicketsInv'
    <3> SUFFICES ASSUME NEW q \in Pushers, HasTicket(q)'
        PROVE  TicketFits(q)'
      BY <1>s DEF TicketsInv, SameSides
    <3>0. /\ HasTicket(q) /\ q # p /\ pos[q] # pos[p] /\ pc'[q] = pc[q]
          /\ pos[q] \in Int /\ Slot(pos[q]) \in 0 .. Capacity - 1
      BY <1>k, <1>c, <1>3, <1>s, <1>a, RingParts, PosSlot DEF MovesAlone
    <3>1. CASE Slot(pos[q]) = Slot(pos[p])
      BY <3>0, <3>1, <1>3, <1>s, <1>t, <1>b, <1>c, <1>k, <1>i, RingParts
      DEF SequencedInv, TicketsInv, TicketFits, SameSides
    <3>2. CASE Slot(pos[q]) # Slot(pos[p])
      BY <3>0, <3>2, <1>3, <1>s, <1>b, <1>k, <1>i, RingParts
      DEF SequencedInv, TicketsInv, TicketFits, SameSides
    <3> QED BY <3>1, <3>2
  <2>3. HoldersInv'
    <3>1. \A c \in Poppers : pos[c] \in Int /\ Slot(pos[c]) \in 0 .. Capacity - 1 /\ Slot(pos[c] + 1) # Slot(pos[c])
      BY <1>s, RingParts, PosSlot
    <3>2. \A c \in Poppers : HasItem(c) => Slot(pos[c]) # Slot(pos[p])
      BY <3>1, <1>3, <1>c, RingParts DEF SequencedInv, HoldersInv
    <3> QED BY <3>1, <3>2, <1>3, <1>s, <1>b, <1>h, RingParts DEF SequencedInv, HoldersInv, SameSides
  <2>4. TakenInv'
    <3> SUFFICES ASSUME NEW t \in read .. write - 1
        PROVE  (seq[Slot(t)] = t + 1 \/ \E q \in Pushers : HasTicket(q) /\ pos[q] = t)'
      BY <1>3, <1>s, <1>b DEF TakenInv
    <3>1. t \in Int /\ Slot(t) \in 0 .. Capacity - 1 /\ Slot(t + 1) # Slot(t)
      <4>1. t \in Int
        BY <2>0
      <4> QED BY <4>1, RingParts, SlotFacts
    <3>2. CASE t = pos[p]
      BY <3>2, <1>3, <1>b
    <3>3. CASE t # pos[p] /\ seq[Slot(t)] = t + 1
      <4>1. Slot(t) # Slot(pos[p])
        BY <3>1, <3>3, <1>3, <1>c
      <4> QED BY <3>1, <3>3, <4>1, <1>3, <1>b
    <3>4. CASE t # pos[p] /\ \E q \in Pushers : HasTicket(q) /\ pos[q] = t
      BY <3>4, <1>s, <1>k DEF SameSides
    <3> QED BY <3>2, <3>3, <3>4, <1>3, RingParts DEF SequencedInv, TakenInv
  <2>5. SeenInv'
    <3>1. /\ write \in Int /\ Slot(write) \in 0 .. Capacity - 1 /\ Slot(read) \in 0 .. Capacity - 1
          /\ Slot(read + 1) # Slot(read)
      <4> write \in Int /\ read \in Int
        BY <2>0
      <4> QED BY RingParts, SlotFacts
    <3>2. seq[Slot(write)] = write => Slot(write) # Slot(pos[p])
      BY <3>1, <1>3, <1>c
    <3>3. seq[Slot(read)] = read + 1 => Slot(read) # Slot(pos[p])
      BY <3>1, <1>3, <1>c
    <3> QED BY <3>1, <3>2, <3>3, <1>3, <1>s, <1>a, <1>b, RingParts DEF SequencedInv, SeenInv,
        MovesAlone, SameSides
  <2> QED BY <2>1, <2>2, <2>3, <2>4, <2>5 DEF SequencedInv
<1>4. ASSUME kind = "SPSC" PROVE IndexedInv'
  BY <1>4, RingParts, RingTyped, <1>s, <1>a, <1>b, <1>d, <1>h, <1>i, RingSides DEF IndexedInv,
      MovesAlone, SameSides
<1> QED BY <1>s, <1>1, <1>2, <1>3, <1>4, RingWhole

LEMMA FreeInv ==
  ASSUME RingAssumption, RingInv, NEW c \in Poppers, Free(c)
  PROVE  RingInv'
<1>s. /\ SameSides /\ c \in Threads /\ c \notin Pushers /\ Threads = Pushers \cup Poppers
      /\ write' = write /\ cell' = cell /\ got' = got /\ pos' = pos /\ calls' = calls
  BY RingParts, RingSides, SameKind DEF Free
<1>0. Capacity \in Nat /\ Capacity >= 2 /\ write \in Nat /\ read \in Nat
  BY RingParts, RingSides, RingTyped
<1>t. /\ pos[c] \in Nat /\ Slot(pos[c]) \in 0 .. Capacity - 1 /\ Slot(pos[c] + 1) # Slot(pos[c])
      /\ Slot(pos[c] + Capacity) = Slot(pos[c]) /\ pos[c] + 1 - 1 = pos[c]
  <2>1. pos[c] \in Nat /\ pos[c] \in Int
    BY RingParts, <1>s, RingTyped
  <2>2. /\ Slot(pos[c]) \in 0 .. Capacity - 1 /\ Slot(pos[c] + 1) # Slot(pos[c])
        /\ Slot(pos[c] + Capacity) = Slot(pos[c])
    BY <2>1, RingParts, SlotFacts
  <2> QED BY <2>1, <2>2
<1>a. MovesAlone(c) /\ pc[c] = "free" /\ pc'[c] = "idle"
  BY <1>s, RingParts DEF Free, Moves, MovesAlone, RingTypeOK
<1>b. /\ kind = "SPSC" => read' = pos[c] + 1 /\ seq' = seq
      /\ kind # "SPSC" => /\ read' = read
                          /\ seq' = [seq EXCEPT ![Slot(pos[c])] = pos[c] + Capacity]
                          /\ seq'[Slot(pos[c])] = pos[c] + Capacity
                          /\ \A i \in (0 .. Capacity - 1) \ {Slot(pos[c])} : seq'[i] = seq[i]
  BY <1>t, RingParts DEF Free, RingTypeOK
<1>c. kind # "SPSC" => /\ seq[Slot(pos[c])] = pos[c] + 1 /\ pos[c] < read
                       /\ \A d \in Poppers : HasItem(d) /\ pos[d] = pos[c] => d = c
  BY <1>a, RingParts DEF SequencedInv, HoldersInv, HasItem
<1>d. kind = "SPSC" => pos[c] = read /\ read < write
  BY <1>a, RingParts DEF IndexedInv, HasItem
<1>1. RingTypeOK'
  <2>1. "idle" \in Stages /\ pos[c] + Capacity \in Nat
    BY <1>t, <1>0 DEF Stages
  <2>2. pc' \in [Threads -> Stages]
    BY RingParts, <2>1, Updated DEF Free, Moves, RingTypeOK
  <2>3. seq' \in [0 .. Capacity - 1 -> Nat]
    BY RingParts, <1>b, <2>1, Updated DEF RingTypeOK
  <2>4. read' \in Nat /\ read' <= write
    BY RingParts, RingTyped, <1>b, <1>d
  <2> QED BY RingParts, <1>s, <2>2, <2>3, <2>4 DEF RingTypeOK, SameSides
<1>2. CallsInv'
  BY RingParts, <1>s, <1>a, RingSides DEF MovesAlone, CallsInv, PushPc, PopPc, SameSides, Kinds
<1>h. \A d \in Poppers : HasItem(d)' <=> HasItem(d) /\ d # c
  BY <1>s, <1>a DEF HasItem, MovesAlone
<1>k. \A q \in Pushers : HasTicket(q)' <=> HasTicket(q)
  BY <1>s, <1>a DEF HasTicket, MovesAlone
<1>i. \A q \in Pushers : Item(q)' = Item(q)
  BY <1>s DEF Item
<1>3. ASSUME kind # "SPSC" PROVE SequencedInv'
  <2>1. SlotsInv'
    <3> SUFFICES ASSUME NEW i \in 0 .. Capacity - 1 PROVE SlotFits(i)'
      BY DEF SlotsInv
    <3>1. CASE i = Slot(pos[c])
      <4>1. read <= pos[c] + Capacity
        BY <1>3, <1>c, <1>t, <1>0, RingParts DEF SequencedInv, SlotsInv, SlotFits
      <4> QED BY <4>1, <3>1, <1>3, <1>s, <1>b, <1>c, <1>t, <1>0 DEF SlotFits
    <3>2. CASE i # Slot(pos[c])
      <4>1. ASSUME NEW d \in Poppers, HasItem(d), pos[d] = seq[i] - 1, Slot(seq[i] - 1) = i PROVE d # c
        BY <4>1, <3>2
      <4> QED BY <4>1, <3>2, <1>3, <1>s, <1>b, <1>h, RingParts DEF SequencedInv, SlotsInv, SlotFits,
          SameSides
    <3> QED BY <3>1, <3>2
  <2>2. TicketsInv'
    <3> SUFFICES ASSUME NEW q \in Pushers, HasTicket(q)'
        PROVE  TicketFits(q)'
      BY <1>s DEF TicketsInv, SameSides
    <3>0. /\ HasTicket(q) /\ pc'[q] = pc[q] /\ TicketFits(q)
          /\ pos[q] \in Int /\ Slot(pos[q]) \in 0 .. Capacity - 1 /\ Slot(pos[q] + 1) # Slot(pos[q])
      BY <1>k, <1>3, <1>s, <1>a, RingParts, PosSlot DEF MovesAlone, SequencedInv, TicketsInv
    <3>1. CASE Slot(pos[q]) = Slot(pos[c])
      <4>1. pc[q] = "turn"
        BY <3>0, <3>1, <1>3, <1>c, <1>t DEF TicketFits
      <4>2. pos[c] + Capacity # pos[q] + 1
        BY <3>0, <3>1, <1>t
      <4> QED BY <3>0, <3>1, <4>1, <4>2, <1>3, <1>s, <1>b, <1>k, <1>i DEF TicketFits, SameSides
    <3>2. CASE Slot(pos[q]) # Slot(pos[c])
      BY <3>0, <3>2, <1>3, <1>s, <1>b, <1>k, <1>i DEF TicketFits, SameSides
    <3> QED BY <3>1, <3>2
  <2>3. HoldersInv'
    <3>1. \A d \in Poppers : pos[d] \in Int /\ Slot(pos[d]) \in 0 .. Capacity - 1
      BY <1>s, RingParts, PosSlot
    <3>2. \A d \in Poppers : HasItem(d) /\ d # c => Slot(pos[d]) # Slot(pos[c])
      BY <3>1, <1>3, <1>c, <1>t, RingParts DEF SequencedInv, HoldersInv
    <3> QED BY <3>1, <3>2, <1>3, <1>s, <1>b, <1>h, RingParts DEF SequencedInv, HoldersInv, SameSides
  <2>4. TakenInv'
    <3> SUFFICES ASSUME NEW t \in read .. write - 1
        PROVE  (seq[Slot(t)] = t + 1 \/ \E q \in Pushers : HasTicket(q) /\ pos[q] = t)'
      BY <1>3, <1>s, <1>b DEF TakenInv
    <3>1. t \in Int /\ Slot(t) \in 0 .. Capacity - 1
      BY <1>0, RingParts, SlotFacts
    <3>2. CASE seq[Slot(t)] = t + 1
      <4>1. Slot(t) # Slot(pos[c])
        BY <3>1, <3>2, <1>3, <1>c, <1>0, <1>t
      <4> QED BY <3>1, <3>2, <4>1, <1>3, <1>b
    <3>3. CASE \E q \in Pushers : HasTicket(q) /\ pos[q] = t
      BY <3>3, <1>s, <1>k DEF SameSides
    <3> QED BY <3>2, <3>3, <1>3, RingParts DEF SequencedInv, TakenInv
  <2>5. SeenInv'
    <3>1. /\ write \in Int /\ read \in Int /\ Slot(write) \in 0 .. Capacity - 1 /\ Slot(read) \in 0 .. Capacity - 1
      <4> write \in Int /\ read \in Int
        BY <1>0
      <4> QED BY RingParts, SlotFacts
    <3>2. seq[Slot(write)] = write => Slot(write) # Slot(pos[c])
      BY <3>1, <1>3, <1>c, <1>t
    <3>3. seq[Slot(read)] = read + 1 => Slot(read) # Slot(pos[c])
      BY <3>1, <1>3, <1>c, <1>t
    <3> QED BY <3>1, <3>2, <3>3, <1>3, <1>s, <1>a, <1>b, RingParts DEF SequencedInv, SeenInv,
        MovesAlone, SameSides
  <2> QED BY <2>1, <2>2, <2>3, <2>4, <2>5 DEF SequencedInv
<1>4. ASSUME kind = "SPSC" PROVE IndexedInv'
  <2>1. read' = read + 1 /\ \A d \in Poppers : d = c
    BY <1>4, <1>b, <1>d, RingParts, RingSides
  <2> QED BY <1>4, <2>1, RingParts, RingTyped, <1>0, <1>s, <1>a, <1>b, <1>d, <1>h, <1>i DEF IndexedInv,
      MovesAlone, SameSides
<1> QED BY <1>s, <1>1, <1>2, <1>3, <1>4, RingWhole

LEMMA RingInitInv == ASSUME RingAssumption, RingInit PROVE RingInv
<1>0. Capacity \in Nat /\ Capacity >= 2
  BY DEF RingAssumption
<1>1. RingTypeOK
  BY <1>0 DEF RingInit, RingTypeOK, Stages, Empty, AllItems
<1>2. CallsInv
  BY DEF RingInit, CallsInv, PushPc, PopPc, Threads, Kinds
<1>3. SequencedInv
  <2>1. \A i \in 0 .. Capacity - 1 : Slot(i) = i
    <3> SUFFICES ASSUME NEW i \in 0 .. Capacity - 1 PROVE i % Capacity = i
      BY DEF Slot
    <3> QED BY <1>0
  <2>2. SlotsInv
    BY <1>0, <2>1 DEF RingInit, SlotsInv, SlotFits
  <2>3. TicketsInv /\ HoldersInv /\ TakenInv /\ SeenInv
    BY <1>0, <2>1 DEF RingInit, TicketsInv, HasTicket, HoldersInv, HasItem, TakenInv, SeenInv, Threads
  <2> QED BY <2>2, <2>3 DEF SequencedInv
<1>4. IndexedInv
  BY <1>0 DEF RingInit, IndexedInv, HasItem, Threads
<1> QED BY <1>1, <1>2, <1>3, <1>4 DEF RingInv

\* With no thread inside, the slots between the indices are filled and the
\* others wait for the producers of the coming tickets.
LEMMA QuietSlots ==
  ASSUME RingAssumption, RingInv, kind # "SPSC", \A t \in Threads : pc[t] = "idle"
  PROVE  /\ write - read \in 0 .. Capacity
         /\ \A t \in read .. write - 1 : seq[Slot(t)] = t + 1
         /\ \A t \in write .. read + Capacity - 1 : seq[Slot(t)] = t
         /\ \A i \in 0 .. Capacity - 1 :
              \/ Slot(seq[i]) = i /\ write <= seq[i] /\ seq[i] < read + Capacity
              \/ Slot(seq[i] - 1) = i /\ read <= seq[i] - 1 /\ seq[i] <= write
<1>0. /\ Capacity \in Nat /\ Capacity >= 2 /\ write \in Nat /\ read \in Nat /\ read <= write
      /\ Threads = Pushers \cup Poppers /\ \A i \in 0 .. Capacity - 1 : seq[i] \in Nat
  BY RingParts, RingSides, RingTyped
<1>1. (\A p \in Pushers : ~HasTicket(p)) /\ (\A c \in Poppers : ~HasItem(c))
  BY <1>0 DEF HasTicket, HasItem
<1>2. \A t \in read .. write - 1 : seq[Slot(t)] = t + 1
  BY <1>1, RingParts DEF SequencedInv, TakenInv
<1>3. ASSUME read + Capacity < write PROVE FALSE
  <2>1. read \in read .. write - 1 /\ read + Capacity \in read .. write - 1 /\ read \in Int
    BY <1>0, <1>3
  <2>2. Slot(read + Capacity) = Slot(read)
    BY <2>1, RingParts, SlotFacts
  <2>3. seq[Slot(read)] = read + 1 /\ seq[Slot(read)] = read + Capacity + 1
    BY <2>1, <2>2, <1>2
  <2> QED BY <2>3, <1>0
<1>4. ASSUME NEW i \in 0 .. Capacity - 1
      PROVE  \/ Slot(seq[i]) = i /\ write <= seq[i] /\ seq[i] < read + Capacity
             \/ Slot(seq[i] - 1) = i /\ read <= seq[i] - 1 /\ seq[i] <= write
  <2>1. CASE Slot(seq[i]) = i /\ read <= seq[i] /\ seq[i] < read + Capacity
    <3>1. ASSUME seq[i] < write PROVE FALSE
      <4>1. seq[i] \in read .. write - 1
        BY <1>0, <2>1, <3>1
      <4> QED BY <4>1, <1>0, <1>2, <2>1
    <3> QED BY <3>1, <1>0, <2>1
  <2>2. CASE Slot(seq[i] - 1) = i /\ read < seq[i] /\ seq[i] <= read + Capacity /\ seq[i] <= write
    BY <1>0, <2>2
  <2> QED BY <2>1, <2>2, <1>1, RingParts DEF SequencedInv, SlotsInv, SlotFits
<1>5. ASSUME NEW t \in write .. read + Capacity - 1 PROVE seq[Slot(t)] = t
  <2>1. t \in Int /\ Slot(t) \in 0 .. Capacity - 1
    BY <1>0, RingParts, SlotFacts
  <2> DEFINE s == seq[Slot(t)]
  <2>2. s \in Int /\ s - 1 \in Int
    BY <1>0, <2>1
  <2>3. CASE Slot(s) = Slot(t) /\ write <= s /\ s < read + Capacity
    <3>1. t < s + Capacity /\ s < t + Capacity
      BY <2>1, <2>2, <2>3, <1>0
    <3>2. ~(s < t) /\ ~(t < s)
      BY <2>1, <2>2, <2>3, <3>1, SlotApart
    <3> QED BY <3>2, <2>1, <2>2
  <2>4. CASE Slot(s - 1) = Slot(t) /\ read <= s - 1 /\ s <= write
    <3>1. s - 1 < t /\ t < s - 1 + Capacity
      BY <2>1, <2>2, <2>4, <1>0
    <3> QED BY <3>1, <2>1, <2>2, <2>4, SlotApart
  <2> QED BY <2>1, <2>3, <2>4, <1>4
<1> QED BY <1>0, <1>2, <1>3, <1>4, <1>5

LEMMA ClearInv == ASSUME RingAssumption, RingInv, Clear PROVE RingInv'
<1>s. /\ SameSides /\ Threads = Pushers \cup Poppers /\ kind \in {"MPSC", "SPSC"}
      /\ write' = write /\ read' = write /\ got' = got /\ pos' = pos /\ calls' = calls /\ pc' = pc
      /\ \A t \in Threads : pc[t] = "idle"
  BY RingParts, RingSides, SameKind DEF Clear, RingAssumption
<1>0. Capacity \in Nat /\ Capacity >= 2 /\ write \in Nat /\ read \in Nat /\ read <= write
  BY RingParts, RingSides, RingTyped
<1> DEFINE gone == {Slot(t) : t \in read .. write - 1}
<1>a. /\ cell' = [i \in DOMAIN cell |-> IF i \in gone THEN Empty ELSE cell[i]]
      /\ seq' = IF kind = "MPSC"
                THEN [i \in DOMAIN seq |-> IF i \in gone THEN seq[i] - 1 + Capacity ELSE seq[i]]
                ELSE seq
  BY DEF Clear
<1>d. DOMAIN cell = 0 .. Capacity - 1 /\ DOMAIN seq = 0 .. Capacity - 1
  BY RingParts DEF RingTypeOK
<1>g. ASSUME NEW i \in 0 .. Capacity - 1, kind = "MPSC"
      PROVE  /\ seq'[i] \in Nat
             /\ Slot(seq'[i]) = i /\ write <= seq'[i] /\ seq'[i] < write + Capacity
  <2>0. seq[i] \in Nat /\ seq[i] - 1 \in Int
    BY RingParts, RingTyped
  <2>q. /\ write - read \in 0 .. Capacity
        /\ \A t \in read .. write - 1 : seq[Slot(t)] = t + 1
        /\ \/ Slot(seq[i]) = i /\ write <= seq[i] /\ seq[i] < read + Capacity
           \/ Slot(seq[i] - 1) = i /\ read <= seq[i] - 1 /\ seq[i] <= write
    BY <1>g, <1>s, QuietSlots
  <2>1. CASE i \in gone
    <3>1. PICK t \in read .. write - 1 : i = Slot(t)
      BY <2>1
    <3>2. seq[i] = t + 1 /\ seq'[i] = t + Capacity /\ t \in Int /\ Slot(t + Capacity) = Slot(t)
      <4>1. seq'[i] = seq[i] - 1 + Capacity
        BY <1>g, <1>a, <1>d, <2>1
      <4>2. seq[i] = t + 1 /\ t \in Int
        BY <3>1, <2>q
      <4>3. Slot(t + Capacity) = Slot(t)
        BY <4>2, RingParts, SlotFacts
      <4> QED BY <4>1, <4>2, <4>3, <1>0
    <3> QED BY <3>1, <3>2, <2>q, <1>0
  <2>2. CASE i \notin gone
    <3>1. seq'[i] = seq[i]
      BY <1>g, <1>a, <1>d, <2>2
    <3>2. ASSUME Slot(seq[i] - 1) = i, read <= seq[i] - 1, seq[i] <= write PROVE FALSE
      <4>1. seq[i] - 1 \in read .. write - 1
        BY <3>2, <2>0, <1>0
      <4> QED BY <4>1, <3>2, <2>2
    <3> QED BY <3>1, <3>2, <2>q, <2>0, <1>0
  <2> QED BY <2>1, <2>2
<1> HIDE DEF gone
<1>1. RingTypeOK'
  <2>1. cell' \in [0 .. Capacity - 1 -> AllItems \cup {Empty}]
    BY <1>a, <1>d, RingParts DEF RingTypeOK
  <2>2. seq' \in [0 .. Capacity - 1 -> Nat]
    <3>1. CASE kind = "MPSC"
      <4>1. DOMAIN seq' = 0 .. Capacity - 1 /\ seq' = [i \in DOMAIN seq' |-> seq'[i]]
        BY <3>1, <1>a, <1>d
      <4> QED BY <4>1, <3>1, <1>g
    <3>2. CASE kind # "MPSC"
      BY <3>2, <1>a, RingParts DEF RingTypeOK
    <3> QED BY <3>1, <3>2
  <2> QED BY <2>1, <2>2, <1>0, <1>s, RingParts DEF RingTypeOK, SameSides
<1>2. CallsInv'
  BY RingParts, <1>s DEF CallsInv, PushPc, PopPc, SameSides
<1>3. ASSUME kind # "SPSC" PROVE SequencedInv'
  <2>1. SlotsInv'
    BY <1>3, <1>s, <1>g DEF SlotsInv, SlotFits
  <2>2. TicketsInv' /\ HoldersInv'
    BY <1>s DEF TicketsInv, HasTicket, HoldersInv, HasItem, SameSides
  <2>3. TakenInv' /\ SeenInv'
    BY <1>s, <1>0 DEF TakenInv, SeenInv, SameSides
  <2> QED BY <2>1, <2>2, <2>3 DEF SequencedInv
<1>4. ASSUME kind = "SPSC" PROVE IndexedInv'
  BY <1>s, <1>0 DEF IndexedInv, HasItem, SameSides
<1> QED BY <1>s, <1>1, <1>2, <1>3, <1>4, RingWhole

LEMMA RingInductive == RingAssumption /\ RingInv /\ [RingNext]_ringVars => RingInv'
<1> SUFFICES ASSUME RingAssumption, RingInv, [RingNext]_ringVars PROVE RingInv'
  OBVIOUS
<1>1. CASE UNCHANGED ringVars
  <2>1. /\ kind' = kind /\ write' = write /\ read' = read /\ seq' = seq /\ cell' = cell
        /\ pc' = pc /\ pos' = pos /\ calls' = calls /\ got' = got /\ SameSides
    BY <1>1, SameKind DEF ringVars
  <2>2. RingTypeOK' /\ CallsInv'
    BY <2>1, RingParts DEF RingTypeOK, CallsInv, PushPc, PopPc, SameSides
  <2>3. SlotsInv' = SlotsInv /\ HoldersInv' = HoldersInv
    BY <2>1 DEF SlotsInv, SlotFits, HoldersInv, HasItem, SameSides
  <2>4. TicketsInv' = TicketsInv /\ TakenInv' = TakenInv
    BY <2>1 DEF TicketsInv, TicketFits, TakenInv, HasTicket, Item, SameSides
  <2>5. SeenInv' = SeenInv /\ IndexedInv' = IndexedInv
    BY <2>1 DEF SeenInv, IndexedInv, HasItem, Item, SameSides
  <2> QED BY <2>1, <2>2, <2>3, <2>4, <2>5, RingParts, RingWhole DEF SequencedInv
<1>2. ASSUME NEW p \in Pushers,
             \/ PushBegin(p) \/ InspectSlot(p) \/ CasWrite(p) \/ CheckRoom(p)
             \/ TakeTicket(p) \/ AwaitTurn(p) \/ Fill(p) \/ Publish(p)
      PROVE  RingInv'
  BY <1>2, PushBeginInv, InspectSlotInv, CasWriteInv, CheckRoomInv, TakeTicketInv, AwaitTurnInv,
      FillInv,
     PublishInv
<1>3. ASSUME NEW c \in Poppers,
             \/ PopBegin(c) \/ LookHead(c) \/ CasRead(c) \/ Take(c) \/ Free(c)
      PROVE  RingInv'
  BY <1>3, PopBeginInv, LookHeadInv, CasReadInv, TakeInv, FreeInv
<1> QED BY <1>1, <1>2, <1>3, ClearInv DEF RingNext

\* One item more at the end, one item less at the front.
LEMMA LongerByOne ==
  ASSUME NEW n \in Nat, NEW f, NEW g, DOMAIN f = 1 .. n, g = [i \in 1 .. n + 1 |-> g[i]],
         f = [i \in 1 .. n |-> f[i]],
         \A i \in 1 .. n : g[i] = f[i]
  PROVE  g = Append(f, g[n + 1])
<1> DEFINE S == {f[i] : i \in 1 .. n} \cup {g[n + 1]}
<1>1. f \in Seq(S) /\ Len(f) = n
  BY SMT
<1>2. Append(f, g[n + 1]) = [i \in 1 .. n + 1 |-> IF i = n + 1 THEN g[n + 1] ELSE f[i]]
  BY <1>1
<1> QED BY <1>2

LEMMA ShorterByOne ==
  ASSUME NEW n \in Nat, NEW f, NEW g, f = [i \in 1 .. n + 1 |-> f[i]], g = [i \in 1 .. n |-> g[i]],
         \A i \in 1 .. n : g[i] = f[i + 1]
  PROVE  f # <<>> /\ Head(f) = f[1] /\ g = Tail(f)
<1> DEFINE S == {f[i] : i \in 1 .. n + 1}
<1>1. f \in Seq(S) /\ Len(f) = n + 1
  BY SMT
<1>2. Tail(f) = [i \in 1 .. n |-> f[i + 1]]
  BY <1>1
<1>3. f # <<>> /\ Head(f) = f[1]
  BY <1>1
<1>4. g = Tail(f)
  BY <1>2
<1> QED BY <1>3, <1>4

LEMMA LastOfAppend ==
  ASSUME NEW S, NEW s \in Seq(S), NEW e \in S
  PROVE  Last(Append(s, e)) = e /\ Front(Append(s, e)) = s
BY DEF Last, Front

LEMMA FrontAndLast ==
  ASSUME NEW S, NEW s \in Seq(S), s # <<>>
  PROVE  s = Append(Front(s), Last(s))
BY DEF Last, Front

\* What a step is for the queue behind the slots, told by its entries.
LEMMA Alike ==
  ASSUME SameSides, write' - read' = write - read,
         \A i \in 1 .. write - read : Entry(read + i - 1)' = Entry(read + i - 1),
         \A c \in Poppers : Popped(c)' = Popped(c)
  PROVE  UNCHANGED Queue!vars
<1>1. Queued' = Queued
  BY DEF Queued
<1>2. AllPopped' = AllPopped
  BY DEF AllPopped, AllPoppers, SameSides
<1> QED BY <1>1, <1>2 DEF Queue!vars

LEMMA PushedBy ==
  ASSUME RingAssumption, RingTypeOK, SameSides, write' = write + 1, read' = read,
         \A t \in read .. write - 1 : Entry(t)' = Entry(t),
         NEW new, new = write, Entry(new)' \in AllItems,
         \A c \in Poppers : Popped(c)' = Popped(c)
  PROVE  Queue!Next
<1>0. write \in Nat /\ read \in Nat /\ read <= write
  BY RingTyped
<1> DEFINE n == write - read
<1>1. n \in Nat /\ write' - read' = n + 1
  BY <1>0
<1>2. /\ Queued = [i \in 1 .. n |-> Entry(read + i - 1)]
      /\ Queued' = [i \in 1 .. n + 1 |-> Entry(read + i - 1)']
  BY <1>1 DEF Queued
<1>3. \A i \in 1 .. n : Queued'[i] = Queued[i]
  <2> SUFFICES ASSUME NEW i \in 1 .. n PROVE Queued'[i] = Queued[i]
    OBVIOUS
  <2>1. read + i - 1 \in read .. write - 1 /\ i \in 1 .. n + 1
    BY <1>0
  <2> QED BY <1>2, <2>1
<1>4. Queued'[n + 1] = Entry(new)'
  <2>1. n + 1 \in 1 .. n + 1 /\ read + (n + 1) - 1 = new
    BY <1>0
  <2> QED BY <1>2, <2>1
<1> HIDE DEF n
<1>5. Queued' = Append(Queued, Entry(new)')
  <2>1. /\ DOMAIN Queued = 1 .. n /\ Queued = [i \in 1 .. n |-> Queued[i]]
        /\ Queued' = [i \in 1 .. n + 1 |-> Queued'[i]]
    BY <1>2
  <2> QED BY <2>1, <1>1, <1>3, <1>4, LongerByOne
<1>6. AllPopped' = AllPopped
  BY DEF AllPopped, AllPoppers, SameSides
<1> QED BY <1>5, <1>6 DEF Queue!Next, Queue!Push

LEMMA PoppedBy ==
  ASSUME RingAssumption, RingTypeOK, SameSides, write' = write, read' = read + 1, read < write,
         \A t \in read + 1 .. write - 1 : Entry(t)' = Entry(t),
         NEW c \in Poppers, Popped(c)' = Append(Popped(c), Entry(read)),
         \A d \in Poppers \ {c} : Popped(d)' = Popped(d)
  PROVE  Queue!Next
<1>0. write \in Nat /\ read \in Nat
  BY RingTyped
<1> DEFINE n == write - read - 1
<1>1. n \in Nat /\ write - read = n + 1 /\ write' - read' = n
  BY <1>0
<1>2. /\ Queued = [i \in 1 .. n + 1 |-> Entry(read + i - 1)]
      /\ Queued' = [i \in 1 .. n |-> Entry(read + i - 1)']
  BY <1>1 DEF Queued
<1>3. \A i \in 1 .. n : Queued'[i] = Queued[i + 1]
  <2> SUFFICES ASSUME NEW i \in 1 .. n PROVE Queued'[i] = Queued[i + 1]
    OBVIOUS
  <2>1. PICK t \in read + 1 .. write - 1 : t = read + i
    BY <1>0
  <2>2. i + 1 \in 1 .. n + 1 /\ read + (i + 1) - 1 = t /\ read' + i - 1 = t
    BY <1>0, <2>1
  <2>3. Queued'[i] = Entry(t)'
    BY <1>2, <2>2
  <2>4. Queued[i + 1] = Entry(t)
    BY <1>2, <2>2
  <2> QED BY <2>1, <2>3, <2>4
<1>4. Queued[1] = Entry(read)
  <2>1. 1 \in 1 .. n + 1 /\ read + 1 - 1 = read
    BY <1>0, <1>1
  <2> QED BY <1>2, <2>1
<1> HIDE DEF n
<1>5. Queued # <<>> /\ Head(Queued) = Entry(read) /\ Queued' = Tail(Queued)
  <2>1. Queued = [i \in 1 .. n + 1 |-> Queued[i]] /\ Queued' = [i \in 1 .. n |-> Queued'[i]]
    BY <1>2
  <2>2. Queued # <<>> /\ Head(Queued) = Queued[1] /\ Queued' = Tail(Queued)
    BY <2>1, <1>1, <1>3, ShorterByOne
  <2> QED BY <2>2, <1>4
<1>6. c \in AllPoppers /\ Poppers \subseteq AllPoppers
  BY DEF AllPoppers, Poppers, RingTypeOK
<1>7. AllPopped' = [AllPopped EXCEPT ![c] = Append(@, Head(Queued))]
  <2>1. AllPopped' = [d \in AllPoppers |-> IF d \in Poppers THEN Popped(d)' ELSE <<>>]
    BY DEF AllPopped, AllPoppers, SameSides
  <2> QED BY <2>1, <1>5, <1>6 DEF AllPopped
<1> QED BY <1>5, <1>6, <1>7 DEF Queue!Next, Queue!Pop

LEMMA Emptied ==
  ASSUME SameSides, write' - read' = 0, \A c \in Poppers : Popped(c)' = Popped(c)
  PROVE  Queue!Next
<1>1. Queued' = <<>>
  <2>1. Queued' = [i \in 1 .. 0 |-> Entry(read + i - 1)']
    BY DEF Queued
  <2> QED BY <2>1
<1>2. AllPopped' = AllPopped
  BY DEF AllPopped, AllPoppers, SameSides
<1> QED BY <1>1, <1>2 DEF Queue!Next, Queue!Clear

\* The entries of a step that moves no index: their values are enough.
LEMMA AlikeHere ==
  ASSUME RingAssumption, RingTypeOK, SameSides, write' = write, read' = read,
         \A t \in read .. write - 1 : Entry(t)' = Entry(t),
         \A c \in Poppers : Popped(c)' = Popped(c)
  PROVE  UNCHANGED Queue!vars
<1>1. write \in Nat /\ read \in Nat
  BY RingTyped
<1>2. ASSUME NEW i \in 1 .. write - read PROVE Entry(read + i - 1)' = Entry(read + i - 1)
  <2>1. PICK t \in read .. write - 1 : t = read + i - 1
    BY <1>1
  <2>2. read' + i - 1 = t
    BY <2>1
  <2> QED BY <2>1, <2>2
<1> QED BY <1>2, Alike

\* A thread that holds no item moves, and no slot changes.
LEMMA QuietStep ==
  ASSUME RingAssumption, RingInv, SameSides, SameRing, got' = got, NEW x \in Threads, MovesAlone(x),
         HasTicket(x)' <=> HasTicket(x), HasTicket(x) => pos'[x] = pos[x] /\ calls'[x] = calls[x],
         ~HasItem(x), HasItem(x)' => kind = "SPSC" /\ pc'[x] = "take"
  PROVE  UNCHANGED Queue!vars
<1>1. Threads = Pushers \cup Poppers
  BY RingParts, RingSides
<1>2. ASSUME NEW t PROVE Holding(t)' = Holding(t)
  BY <1>1 DEF Holding, MovesAlone, HasTicket, SameSides
<1>3. ASSUME NEW q \in Pushers, HasTicket(q) PROVE Item(q)' = Item(q)
  BY <1>1, <1>3 DEF Item, MovesAlone
<1>4. ASSUME NEW t PROVE TicketItem(t)' = TicketItem(t)
  <2>1. CASE Holding(t) = {}
    BY <2>1, <1>2 DEF TicketItem, SameRing
  <2>2. CASE Holding(t) # {}
    <3>1. (CHOOSE p \in Holding(t) : TRUE) \in Pushers /\ HasTicket(CHOOSE p \in Holding(t) : TRUE)
      BY <2>2 DEF Holding
    <3> QED BY <2>2, <3>1, <1>2, <1>3 DEF TicketItem
  <2> QED BY <2>1, <2>2
<1>5. Taking' = Taking
  BY <1>1 DEF Taking, MovesAlone, SameSides, HasItem
<1>6. \A t \in read .. write - 1 : Entry(t)' = Entry(t)
  BY <1>4, <1>5 DEF Entry, SameRing
<1>7. ASSUME NEW c \in Poppers PROVE Popped(c)' = Popped(c)
  <2>1. CASE c = x
    BY <2>1, <1>5 DEF Popped, HasItem, Taking, SameSides
  <2>2. CASE c # x
    <3>1. pc'[c] = pc[c] /\ pos'[c] = pos[c]
      BY <2>2, <1>1 DEF MovesAlone
    <3> QED BY <3>1, <1>5 DEF Popped, SameSides, SameRing
  <2> QED BY <2>1, <2>2
<1> QED BY <1>6, <1>7, RingParts, AlikeHere DEF SameRing

\* Sequence numbers: an entry changes with its holder, the holder's item, or
\* its slot.
LEMMA EntryStays ==
  ASSUME kind # "SPSC", SameSides, NEW t, Holding(t)' = Holding(t),
         \A q \in Holding(t) : Item(q)' = Item(q),
         Holding(t) = {} => cell'[Slot(t)] = cell[Slot(t)]
  PROVE  Entry(t)' = Entry(t)
<1>1. Taking = {} /\ Taking' = {}
  BY DEF Taking, SameSides
<1>2. TicketItem(t)' = TicketItem(t)
  <2>1. CASE Holding(t) = {}
    BY <2>1 DEF TicketItem
  <2>2. CASE Holding(t) # {}
    <3>1. (CHOOSE p \in Holding(t) : TRUE) \in Holding(t)
      BY <2>2
    <3> QED BY <2>2, <3>1 DEF TicketItem
  <2> QED BY <2>1, <2>2
<1> QED BY <1>1, <1>2 DEF Entry

\* A slot whose ticket nobody holds is the consumers'.
LEMMA FilledSlots ==
  ASSUME RingAssumption, RingInv, kind # "SPSC", NEW t \in read .. write - 1
  PROVE  /\ t \in Int /\ Slot(t) \in 0 .. Capacity - 1
         /\ Holding(t) = {} => seq[Slot(t)] = t + 1
<1>1. t \in Int
  BY RingParts, RingTyped
<1>2. Holding(t) = {} => seq[Slot(t)] = t + 1
  BY RingParts DEF SequencedInv, TakenInv, Holding
<1> QED BY <1>1, <1>2, RingParts, SlotFacts

LEMMA TicketIsPush ==
  ASSUME RingAssumption, RingInv, kind # "SPSC", SameSides, NEW p \in Pushers, MovesAlone(p),
         pc[p] # "idle",
         ~HasTicket(p), ~HasItem(p), HasTicket(p)', pos'[p] = write,
         write' = write + 1, read' = read, cell' = cell, calls' = calls, got' = got
  PROVE  Queue!Next
<1>1. /\ Threads = Pushers \cup Poppers /\ p \notin Poppers /\ p \in Threads /\ write \in Nat
  BY RingParts, RingSides, RingTyped
<1>2. \A q \in Pushers : HasTicket(q) => pos[q] < write
  BY RingParts DEF SequencedInv, TicketsInv, TicketFits
<1>3. \A q \in Pushers \ {p} : (HasTicket(q)' <=> HasTicket(q)) /\ pos'[q] = pos[q]
  BY <1>1 DEF MovesAlone, HasTicket
<1>4. \A q \in Pushers : Item(q)' = Item(q)
  BY DEF Item
<1>5. ASSUME NEW t \in read .. write - 1 PROVE Entry(t)' = Entry(t)
  <2>1. t # write
    BY <1>1, RingParts, RingTyped
  <2>2. Holding(t)' = Holding(t)
    BY <2>1, <1>3 DEF Holding, SameSides
  <2> QED BY <2>2, <1>4, EntryStays DEF Holding
<1>6. PICK new \in Nat : new = write
  BY <1>1
<1>7. Entry(new)' \in AllItems
  <2>1. Holding(new)' = {p}
    BY <1>1, <1>2, <1>3, <1>6 DEF Holding, SameSides
  <2>2. Taking' = {}
    BY DEF Taking, SameSides
  <2>3. Entry(new)' = Item(p)'
    BY <2>1, <2>2 DEF Entry, TicketItem
  <2>4. Item(p) \in AllItems
    BY RingParts, ItemType DEF CallsInv
  <2> QED BY <2>3, <2>4, <1>4
<1>8. \A c \in Poppers : Popped(c)' = Popped(c)
  <2>1. Taking = {} /\ Taking' = {}
    BY DEF Taking, SameSides
  <2> QED BY <2>1, <1>1 DEF Popped, MovesAlone, SameSides
<1> QED BY <1>5, <1>6, <1>7, <1>8, RingParts, PushedBy

LEMMA ItemIsPop ==
  ASSUME RingAssumption, RingInv, kind # "SPSC", SameSides, NEW c \in Poppers, MovesAlone(c),
         ~HasTicket(c), ~HasItem(c), pc'[c] = "take", pos'[c] = read, seq[Slot(read)] = read + 1,
         write' = write, read' = read + 1, cell' = cell, calls' = calls, got' = got
  PROVE  Queue!Next
<1>1. Threads = Pushers \cup Poppers /\ c \notin Pushers /\ read \in Int /\ read + 1 \in Int
  BY RingParts, RingSides, RingTyped
<1>2. read < write
  <2>1. Slot(read) \in 0 .. Capacity - 1 /\ Slot(read + 1) # Slot(read)
    BY <1>1, RingParts, SlotFacts
  <2> QED BY <2>1, <1>1, RingParts, RingTyped DEF SequencedInv, SlotsInv, SlotFits, HoldersInv
<1>3. \A q \in Pushers : (HasTicket(q)' <=> HasTicket(q)) /\ pos'[q] = pos[q] /\ Item(q)' = Item(q)
  BY <1>1 DEF MovesAlone, HasTicket, Item
<1>4. ASSUME NEW t \in read + 1 .. write - 1 PROVE Entry(t)' = Entry(t)
  <2>1. Holding(t)' = Holding(t)
    BY <1>3 DEF Holding, SameSides
  <2> QED BY <2>1, <1>3, EntryStays DEF Holding
<1>5. Taking = {} /\ Taking' = {}
  BY DEF Taking, SameSides
<1>6. Entry(read) = cell[Slot(read)]
  <2>1. Holding(read) = {}
    BY RingParts DEF SequencedInv, TicketsInv, TicketFits, Holding
  <2> QED BY <2>1, <1>5 DEF Entry, TicketItem
<1>7. Popped(c)' = Append(Popped(c), Entry(read))
  BY <1>5, <1>6 DEF Popped, SameSides, HasItem
<1>8. \A d \in Poppers \ {c} : Popped(d)' = Popped(d)
  BY <1>1, <1>5 DEF Popped, SameSides, MovesAlone
<1> QED BY <1>2, <1>4, <1>7, <1>8, RingParts, PoppedBy

\* SPSC: between the indices there are only slots, and the item in the
\* consumer's hands.
LEMMA EntryOfSlot ==
  ASSUME kind = "SPSC", RingTypeOK, CallsInv, IndexedInv, NEW t \in read .. write - 1,
         t # read \/ Taking = {}
  PROVE  Entry(t) = cell[Slot(t)]
<1>1. write \in Nat /\ read \in Nat
  BY RingTyped
<1>2. Holding(t) = {}
  BY <1>1 DEF Holding, HasTicket, IndexedInv, CallsInv, PushPc
<1> QED BY <1>2 DEF Entry, TicketItem

LEMMA EntryOfSlotNext ==
  ASSUME (kind = "SPSC")', RingTypeOK', CallsInv', IndexedInv', NEW t \in (read .. write - 1)',
         (t # read \/ Taking = {})'
  PROVE  Entry(t)' = cell'[Slot(t)]
<1>1. write' \in Nat /\ read' \in Nat
  BY DEF RingTypeOK
<1>2. Holding(t)' = {}
  BY <1>1 DEF Holding, HasTicket, IndexedInv, CallsInv, PushPc
<1> QED BY <1>2 DEF Entry, TicketItem

LEMMA IndexedAlike ==
  ASSUME RingAssumption, RingInv, RingInv', kind = "SPSC", SameSides, write' = write, read' = read,
         Taking' = Taking, got' = got,
         \A t \in read .. write - 1 : t # read \/ Taking = {} => cell'[Slot(t)] = cell[Slot(t)]
  PROVE  UNCHANGED Queue!vars
<1>1. RingTypeOK' /\ CallsInv' /\ IndexedInv' /\ kind' = "SPSC"
  BY DEF RingInv, SameSides
<1>2. ASSUME NEW t \in read .. write - 1 PROVE Entry(t)' = Entry(t)
  <2>1. CASE t # read \/ Taking = {}
    BY <1>1, <2>1, RingParts, EntryOfSlot, EntryOfSlotNext
  <2>2. CASE t = read /\ Taking # {}
    BY <2>2 DEF Entry
  <2> QED BY <2>1, <2>2
<1>3. \A c \in Poppers : Popped(c)' = Popped(c)
  BY <1>1 DEF Popped
<1> QED BY <1>2, <1>3, RingParts, AlikeHere

\* The steps, one after the other.
LEMMA PushBeginStep ==
  ASSUME RingAssumption, RingInv, NEW p \in Pushers, PushBegin(p)
  PROVE  UNCHANGED Queue!vars
<1>1. SameSides /\ SameRing /\ p \in Threads /\ got' = got
  BY RingParts, RingSides, SameKind DEF PushBegin, SameRing
<1>2. MovesAlone(p) /\ pc[p] = "idle" /\ pc'[p] \in {"inspect", "room"}
  BY RingParts, <1>1 DEF PushBegin, Moves, MovesAlone, RingTypeOK
<1> QED BY <1>1, <1>2, QuietStep DEF HasTicket, HasItem

LEMMA InspectSlotStep ==
  ASSUME RingAssumption, RingInv, NEW p \in Pushers, InspectSlot(p)
  PROVE  UNCHANGED Queue!vars
<1>1. SameSides /\ SameRing /\ p \in Threads /\ got' = got
  BY RingParts, RingSides, SameKind DEF InspectSlot, SameRing
<1>2. MovesAlone(p) /\ pc[p] = "inspect" /\ pc'[p] \in {"claim", "idle", "inspect"}
  BY RingParts, <1>1 DEF InspectSlot, MovesAlone, RingTypeOK
<1> QED BY <1>1, <1>2, QuietStep DEF HasTicket, HasItem

LEMMA CasWriteStep ==
  ASSUME RingAssumption, RingInv, NEW p \in Pushers, CasWrite(p)
  PROVE  [Queue!Next]_(Queue!vars)
<1>1. /\ SameSides /\ p \in Threads /\ got' = got /\ kind = "MPMC"
      /\ read' = read /\ seq' = seq /\ cell' = cell /\ calls' = calls
  BY RingParts, RingSides, SameKind DEF CasWrite, Moves, CallsInv, PushPc
<1>2. CASE write = pos[p] /\ Moves(p, "claim", "fill") /\ write' = write + 1 /\ pos' = pos
  <2>1. MovesAlone(p) /\ pc[p] = "claim" /\ pc'[p] = "fill" /\ pos'[p] = write
    BY <1>1, <1>2, RingParts DEF Moves, MovesAlone, RingTypeOK
  <2> QED BY <1>1, <1>2, <2>1, TicketIsPush DEF HasTicket, HasItem
<1>3. CASE Moves(p, "claim", "inspect") /\ pos' = [pos EXCEPT ![p] = write] /\ write' = write
  <2>1. MovesAlone(p) /\ pc[p] = "claim" /\ pc'[p] = "inspect" /\ SameRing
    BY <1>1, <1>3, RingParts DEF Moves, MovesAlone, SameRing, RingTypeOK
  <2> QED BY <1>1, <2>1, QuietStep DEF HasTicket, HasItem
<1> QED BY <1>2, <1>3 DEF CasWrite

LEMMA CheckRoomStep ==
  ASSUME RingAssumption, RingInv, RingInv', NEW p \in Pushers, CheckRoom(p)
  PROVE  UNCHANGED Queue!vars
<1>1. SameSides /\ SameRing /\ p \in Threads /\ p \notin Poppers /\ got' = got /\ Threads = Pushers \cup Poppers
  BY RingParts, RingSides, SameKind DEF CheckRoom, SameRing
<1>2. MovesAlone(p) /\ pc[p] = "room" /\ pc'[p] \in {"idle", "ticket", "fill"} /\ (pc'[p] = "fill" => kind # "MPSC")
  BY RingParts, <1>1 DEF CheckRoom, MovesAlone, RingTypeOK
<1>3. CASE pc'[p] # "fill"
  BY <1>1, <1>2, <1>3, QuietStep DEF HasTicket, HasItem
<1>4. CASE pc'[p] = "fill"
  <2>1. kind = "SPSC"
    BY RingParts, <1>2, <1>4, RingSides DEF CallsInv, PushPc, Kinds
  <2>2. Taking' = Taking
    BY <1>1 , <1>2 DEF Taking, SameSides, MovesAlone
  <2> QED BY <2>1, <2>2, <1>1, <1>4, IndexedAlike DEF SameRing
<1> QED BY <1>3, <1>4

LEMMA TakeTicketStep ==
  ASSUME RingAssumption, RingInv, NEW p \in Pushers, TakeTicket(p)
  PROVE  Queue!Next
<1>1. /\ SameSides /\ p \in Threads /\ got' = got /\ kind # "SPSC" /\ write' = write + 1
      /\ read' = read /\ seq' = seq /\ cell' = cell /\ calls' = calls
  BY RingParts, RingSides, SameKind DEF TakeTicket, Moves, CallsInv, PushPc
<1>2. MovesAlone(p) /\ pc[p] = "ticket" /\ pc'[p] = "turn" /\ pos'[p] = write
  BY <1>1, RingParts DEF TakeTicket, Moves, MovesAlone, RingTypeOK
<1> QED BY <1>1, <1>2, TicketIsPush DEF HasTicket, HasItem

LEMMA AwaitTurnStep ==
  ASSUME RingAssumption, RingInv, NEW p \in Pushers, AwaitTurn(p)
  PROVE  UNCHANGED Queue!vars
<1>1. SameSides /\ SameRing /\ p \in Threads /\ got' = got /\ pos' = pos /\ calls' = calls
  BY RingParts, RingSides, SameKind DEF AwaitTurn, SameRing
<1>2. MovesAlone(p) /\ pc[p] = "turn" /\ pc'[p] = "fill"
  BY RingParts, <1>1 DEF AwaitTurn, Moves, MovesAlone, RingTypeOK
<1> QED BY <1>1, <1>2, QuietStep DEF HasTicket, HasItem

LEMMA FillStep ==
  ASSUME RingAssumption, RingInv, RingInv', NEW p \in Pushers, Fill(p)
  PROVE  UNCHANGED Queue!vars
<1>1. /\ SameSides /\ p \in Threads /\ p \notin Poppers /\ Threads = Pushers \cup Poppers
      /\ write' = write /\ read' = read /\ seq' = seq /\ got' = got /\ pos' = pos /\ calls' = calls
  BY RingParts, RingSides, SameKind DEF Fill
<1>2. pos[p] \in Int /\ Slot(pos[p]) \in 0 .. Capacity - 1 /\ Slot(pos[p] + 1) # Slot(pos[p])
  BY RingParts, <1>1, PosSlot
<1>3. /\ MovesAlone(p) /\ pc[p] = "fill" /\ pc'[p] = "publish"
      /\ \A i \in (0 .. Capacity - 1) \ {Slot(pos[p])} : cell'[i] = cell[i]
  BY <1>1, <1>2, RingParts DEF Fill, Moves, MovesAlone, RingTypeOK
<1>4. ASSUME NEW t PROVE Holding(t)' = Holding(t)
  BY <1>1, <1>3 DEF Holding, HasTicket, MovesAlone, SameSides
<1>5. Taking' = Taking
  BY <1>1, <1>3 DEF Taking, SameSides, MovesAlone
<1>6. CASE kind # "SPSC"
  <2>1. seq[Slot(pos[p])] = pos[p]
    BY <1>3, <1>6, RingParts DEF SequencedInv, TicketsInv, TicketFits, HasTicket
  <2>2. ASSUME NEW t \in read .. write - 1 PROVE Entry(t)' = Entry(t)
    <3>1. Holding(t) = {} => Slot(t) # Slot(pos[p]) /\ Slot(t) \in 0 .. Capacity - 1
      <4>1. t \in Int /\ Slot(t) \in 0 .. Capacity - 1 /\ (Holding(t) = {} => seq[Slot(t)] = t + 1)
        BY <1>6, FilledSlots
      <4>2. Slot(t + 1) # Slot(t)
        BY <4>1, RingParts, SlotFacts
      <4> QED BY <4>1, <4>2, <2>1
    <3>2. \A q \in Holding(t) : Item(q)' = Item(q)
      BY <1>1 DEF Item
    <3> QED BY <3>1, <3>2, <1>1, <1>3, <1>4, <1>6, EntryStays
  <2>3. ASSUME NEW c \in Poppers PROVE Popped(c)' = Popped(c)
    <3>1. pc'[c] = pc[c]
      BY <1>1, <1>3 DEF MovesAlone
    <3>2. CASE pc[c] = "take"
      <4>1. Slot(pos[c]) \in 0 .. Capacity - 1 /\ Slot(pos[c] + 1) # Slot(pos[c])
        BY <1>1, RingParts, PosSlot
      <4>2. Slot(pos[c]) # Slot(pos[p])
        BY <4>1, <2>1, <3>2, <1>6, RingParts DEF SequencedInv, HoldersInv, HasItem
      <4>3. cell'[Slot(pos[c])] = cell[Slot(pos[c])]
        BY <4>1, <4>2, <1>3
      <4> QED BY <3>1, <3>2, <4>3, <1>1, <1>6 DEF Popped, Taking, SameSides
    <3>3. CASE pc[c] # "take"
      BY <3>1, <3>3, <1>1, <1>5 DEF Popped, SameSides
    <3> QED BY <3>2, <3>3
  <2> QED BY <2>2, <2>3, <1>1, RingParts, AlikeHere
<1>7. CASE kind = "SPSC"
  <2>1. pos[p] = write /\ write < read + Capacity
    BY <1>3, <1>7, RingParts DEF IndexedInv
  <2>2. ASSUME NEW t \in read .. write - 1 PROVE cell'[Slot(t)] = cell[Slot(t)]
    <3>1. t \in Int /\ write \in Int /\ t < write /\ write < t + Capacity
      BY <2>1, RingParts, RingTyped, RingSides
    <3>2. Slot(t) \in 0 .. Capacity - 1 /\ Slot(t) # Slot(write)
      BY <3>1, SlotIn, SlotApart
    <3> QED BY <3>2, <2>1, <1>3
  <2> QED BY <2>2, <1>1, <1>5, <1>7, IndexedAlike
<1> QED BY <1>6, <1>7

LEMMA PublishStep ==
  ASSUME RingAssumption, RingInv, RingInv', NEW p \in Pushers, Publish(p)
  PROVE  [Queue!Next]_(Queue!vars)
<1>1. /\ SameSides /\ p \in Threads /\ p \notin Poppers /\ Threads = Pushers \cup Poppers
      /\ read' = read /\ cell' = cell /\ got' = got /\ pos' = pos /\ calls' = calls
  BY RingParts, RingSides, SameKind DEF Publish
<1>2. MovesAlone(p) /\ pc[p] = "publish" /\ pc'[p] = "idle"
  BY <1>1, RingParts DEF Publish, Moves, MovesAlone, RingTypeOK
<1>3. Taking' = Taking
  BY <1>1, <1>2 DEF Taking, SameSides, MovesAlone
<1>4. \A c \in Poppers : Popped(c)' = Popped(c)
  BY <1>1, <1>2, <1>3 DEF Popped, MovesAlone, SameSides
<1>5. CASE kind # "SPSC"
  <2>1. write' = write
    BY <1>5 DEF Publish
  <2>2. /\ cell[Slot(pos[p])] = Item(p)
        /\ \A q \in Pushers : HasTicket(q) /\ pos[q] = pos[p] => q = p
    BY <1>2, <1>5, RingParts DEF SequencedInv, TicketsInv, TicketFits, HasTicket
  <2>3. ASSUME NEW t \in read .. write - 1 PROVE Entry(t)' = Entry(t)
    <3>1. CASE t # pos[p]
      <4>1. Holding(t)' = Holding(t)
        BY <3>1, <1>1, <1>2 DEF Holding, HasTicket, MovesAlone, SameSides
      <4>2. \A q \in Holding(t) : Item(q)' = Item(q)
        BY <1>1 DEF Item
      <4> QED BY <4>1, <4>2, <1>1, <1>5, EntryStays
    <3>2. CASE t = pos[p]
      <4>1. Holding(t) = {p}
        BY <3>2, <1>2, <2>2 DEF Holding, HasTicket
      <4>2. Holding(t)' = {}
        BY <3>2, <1>1, <1>2, <2>2 DEF Holding, HasTicket, MovesAlone, SameSides
      <4>3. Taking = {} /\ Taking' = {}
        BY <1>3, <1>5 DEF Taking
      <4>4. Entry(t) = Item(p)
        BY <4>1, <4>3 DEF Entry, TicketItem
      <4>5. Entry(t)' = cell'[Slot(t)]
        BY <4>2, <4>3 DEF Entry, TicketItem
      <4> QED BY <4>4, <4>5, <3>2, <1>1, <2>2
    <3> QED BY <3>1, <3>2
  <2> QED BY <2>1, <2>3, <1>1, <1>4, RingParts, AlikeHere
<1>6. CASE kind = "SPSC"
  <2>1. /\ write' = write + 1 /\ pos[p] = write /\ cell[Slot(write)] = Item(p)
        /\ RingTypeOK' /\ CallsInv' /\ IndexedInv' /\ kind' = "SPSC"
    BY <1>1, <1>2, <1>6, RingParts DEF Publish, IndexedInv, RingInv, SameSides
  <2>2. write \in Nat /\ read \in Nat /\ read <= write
    BY RingParts, RingTyped
  <2>3. ASSUME NEW t \in read .. write - 1 PROVE Entry(t)' = Entry(t)
    <3>1. CASE t # read \/ Taking = {}
      <4>1. t \in (read .. write - 1)'
        BY <1>1, <2>1, <2>2
      <4>2. Entry(t)' = cell'[Slot(t)]
        BY <4>1, <3>1, <2>1, <1>1, <1>3, EntryOfSlotNext
      <4>3. Entry(t) = cell[Slot(t)]
        BY <3>1, <1>6, RingParts, EntryOfSlot
      <4> QED BY <4>2, <4>3, <1>1
    <3>2. CASE t = read /\ Taking # {}
      BY <3>2, <1>1, <1>3 DEF Entry
    <3> QED BY <3>1, <3>2
  <2>4. PICK new \in Nat : new = write
    BY <2>2
  <2>5. Entry(new)' \in AllItems
    <3>1. new # read \/ Taking = {}
      BY <2>4, <1>6, RingParts DEF Taking, IndexedInv, HasItem
    <3>2. new \in (read .. write - 1)'
      BY <1>1, <2>1, <2>2, <2>4
    <3>3. Entry(new)' = cell'[Slot(new)]
      BY <3>1, <3>2, <2>1, <1>1, <1>3, EntryOfSlotNext
    <3>4. Item(p) \in AllItems
      BY <1>2, RingParts, ItemType DEF CallsInv
    <3> QED BY <3>3, <3>4, <2>1, <2>4, <1>1
  <2> QED BY <2>1, <2>3, <2>4, <2>5, <1>1, <1>4, RingParts, PushedBy
<1> QED BY <1>5, <1>6

LEMMA PopBeginStep ==
  ASSUME RingAssumption, RingInv, NEW c \in Poppers, PopBegin(c)
  PROVE  UNCHANGED Queue!vars
<1>1. SameSides /\ SameRing /\ c \in Threads /\ got' = got
  BY RingParts, RingSides, SameKind DEF PopBegin, SameRing
<1>2. MovesAlone(c) /\ pc[c] = "idle" /\ pc'[c] = "look"
  BY RingParts, <1>1 DEF PopBegin, Moves, MovesAlone, RingTypeOK
<1> QED BY <1>1, <1>2, QuietStep DEF HasTicket, HasItem

LEMMA LookHeadStep ==
  ASSUME RingAssumption, RingInv, NEW c \in Poppers, LookHead(c)
  PROVE  [Queue!Next]_(Queue!vars)
<1>1. /\ SameSides /\ c \in Threads /\ got' = got /\ pc[c] = "look"
      /\ write' = write /\ seq' = seq /\ cell' = cell /\ calls' = calls
  BY RingParts, RingSides, SameKind DEF LookHead
<1>2. pos[c] \in Nat /\ seq[Slot(pos[c])] \in Nat /\ write \in Nat
  BY RingParts, RingTyped, <1>1, SlotIn
<1>3. CASE kind = "MPSC" /\ pc'[c] = "take"
  <2>1. /\ pc' = [pc EXCEPT ![c] = "take"] /\ read' = pos[c] + 1 /\ pos' = pos
        /\ seq[Slot(pos[c])] = pos[c] + 1 /\ pos[c] = read
    BY <1>1, <1>2, <1>3, RingParts DEF LookHead, SequencedInv, SeenInv, RingTypeOK
  <2>2. MovesAlone(c) /\ pos'[c] = read /\ read' = read + 1 /\ seq[Slot(read)] = read + 1
    BY <2>1, <1>1, RingParts DEF MovesAlone, RingTypeOK
  <2> QED BY <2>2, <1>1, <1>3, ItemIsPop DEF HasTicket, HasItem
<1>4. CASE kind # "MPSC" \/ pc'[c] # "take"
  <2>1. /\ MovesAlone(c) /\ read' = read /\ pc'[c] \in {"grab", "take", "look", "idle"}
        /\ pc'[c] = "take" => kind = "SPSC"
    BY <1>1, <1>2, <1>4, RingParts, RingSides DEF LookHead, MovesAlone, RingTypeOK, Kinds
  <2> QED BY <2>1, <1>1, QuietStep DEF HasTicket, HasItem, SameRing
<1> QED BY <1>3, <1>4

LEMMA CasReadStep ==
  ASSUME RingAssumption, RingInv, NEW c \in Poppers, CasRead(c)
  PROVE  [Queue!Next]_(Queue!vars)
<1>1. /\ SameSides /\ c \in Threads /\ got' = got /\ kind = "MPMC"
      /\ write' = write /\ seq' = seq /\ cell' = cell /\ calls' = calls
  BY RingParts, RingSides, SameKind DEF CasRead, Moves, CallsInv, PopPc
<1>2. CASE read = pos[c] /\ Moves(c, "grab", "take") /\ read' = read + 1 /\ pos' = pos
  <2>1. MovesAlone(c) /\ pc[c] = "grab" /\ pc'[c] = "take" /\ pos'[c] = read
    BY <1>1, <1>2, RingParts DEF Moves, MovesAlone, RingTypeOK
  <2>2. seq[Slot(read)] = read + 1
    BY RingParts, <1>1, <1>2, <2>1 DEF SequencedInv, SeenInv
  <2> QED BY <2>1, <2>2, <1>1, <1>2, ItemIsPop DEF HasTicket, HasItem
<1>3. CASE Moves(c, "grab", "look") /\ pos' = [pos EXCEPT ![c] = read] /\ read' = read
  <2>1. MovesAlone(c) /\ pc[c] = "grab" /\ pc'[c] = "look" /\ SameRing
    BY <1>1, <1>3, RingParts DEF Moves, MovesAlone, SameRing, RingTypeOK
  <2> QED BY <2>1, <1>1, QuietStep DEF HasTicket, HasItem
<1> QED BY <1>2, <1>3 DEF CasRead

LEMMA TakeStep ==
  ASSUME RingAssumption, RingInv, RingInv', NEW c \in Poppers, Take(c)
  PROVE  UNCHANGED Queue!vars
<1>1. /\ SameSides /\ c \in Threads /\ c \notin Pushers /\ Threads = Pushers \cup Poppers
      /\ write' = write /\ read' = read /\ seq' = seq /\ pos' = pos /\ calls' = calls
  BY RingParts, RingSides, SameKind DEF Take
<1>2. pos[c] \in Int /\ Slot(pos[c]) \in 0 .. Capacity - 1 /\ Slot(pos[c] + 1) # Slot(pos[c])
  BY RingParts, <1>1, PosSlot
<1>3. /\ MovesAlone(c) /\ pc[c] = "take" /\ pc'[c] = "free"
      /\ \A i \in (0 .. Capacity - 1) \ {Slot(pos[c])} : cell'[i] = cell[i]
      /\ got'[c] = Append(got[c], cell[Slot(pos[c])])
      /\ \A d \in Poppers \ {c} : got'[d] = got[d]
  BY <1>1, <1>2, RingParts DEF Take, Moves, MovesAlone, RingTypeOK
<1>4. ASSUME NEW t PROVE Holding(t)' = Holding(t)
  BY <1>1, <1>3 DEF Holding, HasTicket, MovesAlone, SameSides
<1>5. CASE kind # "SPSC"
  <2>1. /\ seq[Slot(pos[c])] = pos[c] + 1 /\ pos[c] < read
        /\ \A d \in Poppers : HasItem(d) /\ pos[d] = pos[c] => d = c
    BY <1>3, <1>5, RingParts DEF SequencedInv, HoldersInv, HasItem
  <2>2. ASSUME NEW t \in read .. write - 1 PROVE Entry(t)' = Entry(t)
    <3>1. Holding(t) = {} => Slot(t) # Slot(pos[c]) /\ Slot(t) \in 0 .. Capacity - 1
      <4>1. t \in Int /\ Slot(t) \in 0 .. Capacity - 1 /\ (Holding(t) = {} => seq[Slot(t)] = t + 1)
        BY <1>5, FilledSlots
      <4>2. read \in Nat
        BY RingParts, RingTyped
      <4> QED BY <4>1, <4>2, <2>1, <1>2
    <3>2. \A q \in Holding(t) : Item(q)' = Item(q)
      BY <1>1 DEF Item
    <3> QED BY <3>1, <3>2, <1>1, <1>3, <1>4, <1>5, EntryStays
  <2>3. ASSUME NEW d \in Poppers PROVE Popped(d)' = Popped(d)
    <3>1. CASE d = c
      BY <3>1, <1>1, <1>3, <1>5 DEF Popped, Taking, SameSides
    <3>2. CASE d # c /\ pc[d] = "take"
      <4>1. pos[d] \in Int /\ Slot(pos[d]) \in 0 .. Capacity - 1
        BY <1>1, RingParts, PosSlot
      <4>2. Slot(pos[d]) # Slot(pos[c])
        BY <4>1, <2>1, <3>2, <1>2, <1>5, RingParts DEF SequencedInv, HoldersInv, HasItem
      <4>3. cell'[Slot(pos[d])] = cell[Slot(pos[d])] /\ pc'[d] = pc[d]
        BY <4>1, <4>2, <3>2, <1>1, <1>3 DEF MovesAlone
      <4> QED BY <3>2, <4>3, <1>1, <1>3, <1>5 DEF Popped, Taking, SameSides
    <3>3. CASE d # c /\ pc[d] # "take"
      <4>1. pc'[d] = pc[d]
        BY <3>3, <1>1, <1>3 DEF MovesAlone
      <4> QED BY <3>3, <4>1, <1>1, <1>3, <1>5 DEF Popped, Taking, SameSides
    <3> QED BY <3>1, <3>2, <3>3
  <2> QED BY <2>2, <2>3, <1>1, RingParts, AlikeHere
<1>6. CASE kind = "SPSC"
  <2>1. /\ pos[c] = read /\ read < write /\ write <= read + Capacity /\ Poppers = {c}
        /\ RingTypeOK' /\ CallsInv' /\ IndexedInv' /\ kind' = "SPSC"
    BY <1>1, <1>3, <1>6, RingParts, RingSides DEF IndexedInv, HasItem, RingInv, SameSides
  <2>2. read \in Int /\ write \in Int
    BY RingParts, RingTyped
  <2>3. Taking = {} /\ Taking' = {c}
    BY <2>1, <1>1, <1>3, <1>6 DEF Taking, SameSides
  <2>4. got[c] \in Seq(AllItems \cup {Empty}) /\ cell[Slot(read)] \in AllItems \cup {Empty}
    BY <1>2, <2>1, RingParts DEF RingTypeOK
  <2>5. Last(got'[c]) = cell[Slot(read)] /\ Front(got'[c]) = got[c]
    BY <2>1, <2>4, <1>3, LastOfAppend
  <2>6. ASSUME NEW t \in read .. write - 1 PROVE Entry(t)' = Entry(t)
    <3>1. Entry(t) = cell[Slot(t)]
      BY <2>3, <1>6, RingParts, EntryOfSlot
    <3>2. CASE t = read
      <4>1. Entry(t)' = Last(got'[c])
        BY <3>2, <2>3, <1>1 DEF Entry
      <4> QED BY <4>1, <3>1, <3>2, <2>5
    <3>3. CASE t # read
      <4>1. t \in (read .. write - 1)'
        BY <1>1
      <4>2. Entry(t)' = cell'[Slot(t)]
        BY <4>1, <3>3, <2>1, <1>1, EntryOfSlotNext
      <4>3. t \in Int /\ read < t /\ t < read + Capacity
        BY <3>3, <2>1, <2>2, RingSides, RingParts
      <4>4. Slot(t) \in 0 .. Capacity - 1 /\ Slot(t) # Slot(read)
        BY <4>3, <2>2, SlotIn, SlotApart
      <4> QED BY <4>2, <4>4, <3>1, <2>1, <1>3
    <3> QED BY <3>2, <3>3
  <2>7. \A d \in Poppers : Popped(d)' = Popped(d)
    <3>1. Popped(c)' = got[c]
      BY <2>1, <2>3, <2>5, <1>3 DEF Popped
    <3>2. Popped(c) = got[c]
      BY <2>3, <1>6 DEF Popped
    <3> QED BY <3>1, <3>2, <2>1
  <2> QED BY <2>6, <2>7, <1>1, RingParts, AlikeHere
<1> QED BY <1>5, <1>6

LEMMA FreeStep ==
  ASSUME RingAssumption, RingInv, RingInv', NEW c \in Poppers, Free(c)
  PROVE  [Queue!Next]_(Queue!vars)
<1>1. /\ SameSides /\ c \in Threads /\ c \notin Pushers /\ Threads = Pushers \cup Poppers
      /\ write' = write /\ cell' = cell /\ got' = got /\ pos' = pos /\ calls' = calls
  BY RingParts, RingSides, SameKind DEF Free
<1>2. MovesAlone(c) /\ pc[c] = "free" /\ pc'[c] = "idle"
  BY <1>1, RingParts DEF Free, Moves, MovesAlone, RingTypeOK
<1>3. CASE kind # "SPSC"
  <2>1. read' = read
    BY <1>3 DEF Free
  <2>2. ASSUME NEW t \in read .. write - 1 PROVE Entry(t)' = Entry(t)
    <3>1. Holding(t)' = Holding(t)
      BY <1>1, <1>2 DEF Holding, HasTicket, MovesAlone, SameSides
    <3>2. \A q \in Holding(t) : Item(q)' = Item(q)
      BY <1>1 DEF Item
    <3> QED BY <3>1, <3>2, <1>1, <1>3, EntryStays
  <2>3. \A d \in Poppers : Popped(d)' = Popped(d)
    BY <1>1, <1>2, <1>3 DEF Popped, Taking, MovesAlone, SameSides
  <2> QED BY <2>1, <2>2, <2>3, <1>1, RingParts, AlikeHere
<1>4. CASE kind = "SPSC"
  <2>1. /\ read' = read + 1 /\ read < write /\ Poppers = {c} /\ got[c] # <<>>
        /\ RingTypeOK' /\ CallsInv' /\ IndexedInv' /\ kind' = "SPSC"
    BY <1>1, <1>2, <1>4, RingParts, RingSides DEF Free, IndexedInv, HasItem, RingInv, SameSides
  <2>2. read \in Int /\ write \in Int
    BY RingParts, RingTyped
  <2>3. Taking = {c} /\ Taking' = {}
    BY <2>1, <1>1, <1>2, <1>4 DEF Taking, SameSides
  <2>4. got[c] = Append(Front(got[c]), Last(got[c]))
    <3>1. got[c] \in Seq(AllItems \cup {Empty})
      BY RingParts DEF RingTypeOK
    <3> QED BY <3>1, <2>1, FrontAndLast
  <2>5. ASSUME NEW t \in read + 1 .. write - 1 PROVE Entry(t)' = Entry(t)
    <3>1. t \in read .. write - 1 /\ t # read /\ t \in (read .. write - 1)'
      BY <2>1, <2>2, <1>1
    <3>2. Entry(t) = cell[Slot(t)]
      BY <3>1, <1>4, RingParts, EntryOfSlot
    <3>3. Entry(t)' = cell'[Slot(t)]
      BY <3>1, <2>1, <2>3, EntryOfSlotNext
    <3> QED BY <3>2, <3>3, <1>1
  <2>6. Entry(read) = Last(got[c])
    BY <2>3 DEF Entry
  <2>7. Popped(c) = Front(got[c])
    BY <2>3, <1>4 DEF Popped
  <2>8. Popped(c)' = got[c]
    BY <2>1, <2>3, <1>1 DEF Popped
  <2> QED BY <2>1, <2>4, <2>5, <2>6, <2>7, <2>8, <1>1, RingParts, PoppedBy
<1> QED BY <1>3, <1>4

LEMMA ClearStep == ASSUME RingAssumption, RingInv, Clear PROVE Queue!Next
<1>1. /\ SameSides /\ Threads = Pushers \cup Poppers /\ write' = write /\ read' = write
      /\ got' = got /\ pc' = pc /\ \A t \in Threads : pc[t] = "idle"
  BY RingParts, RingSides, SameKind DEF Clear
<1>2. \A c \in Poppers : Popped(c)' = Popped(c)
  BY <1>1 DEF Popped, Taking, SameSides
<1>3. write' - read' = 0
  BY <1>1, RingParts, RingTyped
<1> QED BY <1>1, <1>2, <1>3, Emptied

LEMMA RingSteps == RingAssumption /\ RingInv /\ RingInv' /\ [RingNext]_ringVars => [Queue!Next]_(Queue!vars)
<1> SUFFICES ASSUME RingAssumption, RingInv, RingInv', [RingNext]_ringVars PROVE [Queue!Next]_(Queue!vars)
  OBVIOUS
<1>1. ASSUME UNCHANGED ringVars PROVE UNCHANGED Queue!vars
  <2>1. /\ kind' = kind /\ write' = write /\ read' = read /\ cell' = cell
        /\ pc' = pc /\ pos' = pos /\ calls' = calls /\ got' = got /\ SameSides
    BY <1>1, SameKind DEF ringVars
  <2>2. ASSUME NEW t PROVE Holding(t)' = Holding(t)
    BY <2>1 DEF Holding, HasTicket, SameSides
  <2>3. Taking' = Taking
    BY <2>1 DEF Taking, SameSides
  <2>4. ASSUME NEW t \in read .. write - 1 PROVE Entry(t)' = Entry(t)
    <3>1. Item(CHOOSE p \in Holding(t) : TRUE)' = Item(CHOOSE p \in Holding(t) : TRUE)
      BY <2>1, <2>2 DEF Item
    <3>2. TicketItem(t)' = TicketItem(t)
      BY <3>1, <2>1, <2>2 DEF TicketItem
    <3> QED BY <3>2, <2>1, <2>3 DEF Entry
  <2>5. \A c \in Poppers : Popped(c)' = Popped(c)
    BY <2>1, <2>3 DEF Popped
  <2> QED BY <2>1, <2>4, <2>5, RingParts, AlikeHere
<1>2. ASSUME NEW p \in Pushers,
             \/ PushBegin(p) \/ InspectSlot(p) \/ CasWrite(p) \/ CheckRoom(p)
             \/ TakeTicket(p) \/ AwaitTurn(p) \/ Fill(p) \/ Publish(p)
      PROVE  [Queue!Next]_(Queue!vars)
  BY <1>2, PushBeginStep, InspectSlotStep, CasWriteStep, CheckRoomStep, TakeTicketStep, AwaitTurnStep,
     FillStep, PublishStep
<1>3. ASSUME NEW c \in Poppers,
             \/ PopBegin(c) \/ LookHead(c) \/ CasRead(c) \/ Take(c) \/ Free(c)
      PROVE  [Queue!Next]_(Queue!vars)
  BY <1>3, PopBeginStep, LookHeadStep, CasReadStep, TakeStep, FreeStep
<1> QED BY <1>1, <1>2, <1>3, ClearStep DEF RingNext

LEMMA RingStarts == RingAssumption /\ RingInit => Queue!Init
<1> SUFFICES ASSUME RingAssumption, RingInit PROVE Queue!Init
  OBVIOUS
<1>1. Queued = <<>>
  <2>1. Queued = [i \in 1 .. 0 |-> Entry(read + i - 1)]
    BY DEF RingInit, Queued
  <2> QED BY <2>1
<1>2. ASSUME NEW c \in Poppers PROVE Popped(c) = <<>>
  BY DEF RingInit, Popped, Taking, Threads
<1>3. AllPopped = [c \in AllPoppers |-> <<>>]
  BY <1>2 DEF AllPopped
<1> QED BY <1>1, <1>3 DEF Queue!Init
=============================================================================
