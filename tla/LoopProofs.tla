------------------------------ MODULE LoopProofs ------------------------------
(* EventLoop for any posters, bounds and batches: LoopInv is inductive, so  *)
(* that a graceful stop() loses nothing that was posted before it, and a    *)
(* flush() with no log() in progress waits for all that was logged before.  *)
(* Then the queue under it, and under ThreadPool: the segmented queues for  *)
(* any block size, threads and number of calls. SegmentInv is inductive,    *)
(* and with it every step is a step of Fifo or leaves its queue alone.      *)
EXTENDS EventLoop, SegmentedQueue, FiniteSetTheorems, SequenceTheorems, TLAPS

Entry == [by : Posters, n : Nat \ {0}, ready : BOOLEAN]

\* A name is a poster and a positive number; no entry has the name NoEntry.
LEMMA NameFacts ==
  /\ \A e \in Entry : Name(e) \in Names /\ Name(e)[1] = e.by /\ Name(e)[2] = e.n
  /\ \A k \in Names : k # NoEntry /\ k[1] \in Posters /\ k[2] \in Nat \ {0} /\ k = <<k[1], k[2]>>
  /\ \A p \in Posters, n \in Nat \ {0} : <<p, n>> \in Names
BY DEF Entry, Name, Names, NoEntry

\* The names in the queue.
LEMMA QueueFacts ==
  ASSUME LoopTypeOK, at["owner"] # "stopped"
  PROVE  /\ \A i \in DOMAIN entries : entries[i] \in Entry /\ Name(entries[i]) \in Names
         /\ \A k : k \in Queued <=> \E i \in DOMAIN entries : k = Name(entries[i])
         /\ Queued \subseteq Names
<1>1. \A i \in DOMAIN entries : entries[i] \in Entry
  BY ElementOfSeq, LenProperties DEF LoopTypeOK, Entry
<1> QED BY <1>1, NameFacts DEF Queued

\* What a push does to the names in the queue ...
LEMMA PushFacts ==
  ASSUME NEW s \in Seq(Entry), NEW e \in Entry
  PROVE  /\ Append(s, e) \in Seq(Entry) /\ Len(s) \in Nat
         /\ DOMAIN s = 1 .. Len(s) /\ DOMAIN Append(s, e) = 1 .. Len(s) + 1
         /\ \A i \in DOMAIN s : i \in DOMAIN Append(s, e) /\ Append(s, e)[i] = s[i]
         /\ Append(s, e)[Len(s) + 1] = e
         /\ \A i \in DOMAIN Append(s, e) : i = Len(s) + 1 \/ (i \in DOMAIN s /\ i < Len(s) + 1)
BY LenProperties

\* ... and a pop.
LEMMA PopFacts ==
  ASSUME NEW s \in Seq(Entry), s # <<>>
  PROVE  /\ Head(s) \in Entry /\ Tail(s) \in Seq(Entry) /\ Head(s) = s[1] /\ 1 \in DOMAIN s
         /\ \A i \in DOMAIN Tail(s) : i \in Nat /\ i + 1 \in DOMAIN s /\ i + 1 > 1 /\ Tail(s)[i] = s[i + 1]
         /\ \A i \in DOMAIN s : i = 1 \/ (\E j \in DOMAIN Tail(s) : i = j + 1)
         /\ \A i \in DOMAIN s : i \in Nat /\ i >= 1
<1>1. /\ Head(s) \in Entry /\ Tail(s) \in Seq(Entry) /\ Len(s) \in Nat /\ Len(Tail(s)) = Len(s) - 1
      /\ Head(s) = s[1] /\ Len(s) > 0
      /\ DOMAIN s = 1 .. Len(s) /\ DOMAIN Tail(s) = 1 .. Len(s) - 1
      /\ \A i \in DOMAIN Tail(s) : Tail(s)[i] = s[i + 1]
  BY HeadTailProperties, LenProperties, EmptySeq
<1>2. \A i \in DOMAIN s : i = 1 \/ (i - 1 \in DOMAIN Tail(s) /\ i = (i - 1) + 1)
  BY <1>1
<1> QED BY <1>1, <1>2

\* Where the threads are after a step of one of them, and after one that may
\* wake the worker.
LEMMA Moved ==
  ASSUME LoopTypeOK, NEW t \in Threads, NEW to, at' = [at EXCEPT ![t] = to]
  PROVE  /\ at' = [u \in Threads |-> at'[u]]
         /\ \A u \in Threads : at'[u] = IF u = t THEN to ELSE at[u]
BY DEF LoopTypeOK

LEMMA MovedBoth ==
  ASSUME LoopTypeOK, NEW t \in Threads \ {"worker"}, NEW to, NEW wpc,
         at' = [at EXCEPT ![t] = to, !["worker"] = wpc]
  PROVE  /\ at' = [u \in Threads |-> at'[u]]
         /\ \A u \in Threads : at'[u] = IF u = t THEN to ELSE IF u = "worker" THEN wpc ELSE at[u]
<1> DEFINE f == [at EXCEPT ![t] = to]
<1>1. at = [u \in Threads |-> at[u]] /\ "worker" \in Threads /\ "worker" # t
  BY DEF LoopTypeOK, Threads
<1>2. f = [u \in Threads |-> f[u]] /\ \A u \in Threads : f[u] = IF u = t THEN to ELSE at[u]
  BY <1>1
<1>3. at' = [f EXCEPT !["worker"] = wpc]
  BY <1>1
<1> HIDE DEF f
<1>4. at' = [u \in Threads |-> at'[u]] /\ \A u \in Threads : at'[u] = IF u = "worker" THEN wpc ELSE f[u]
  BY <1>1, <1>2, <1>3
<1> QED BY <1>1, <1>2, <1>4

-----------------------------------------------------------------------------
LEMMA LoopInitInv == ASSUME LoopAssumption, LoggerInit PROVE LoopInv
<1> USE DEF LoggerInit, LoopInit
<1>1. at["owner"] = "idle" /\ at["worker"] = "none" /\ \A p \in Posters : at[p] = "idle"
  BY DEF LoopAssumption
<1>2. LoopTypeOK
  <2>1. entries \in Seq([by : Posters, n : Nat \ {0}, ready : BOOLEAN])
    OBVIOUS
  <2>2. IsFiniteSet(handled)
    BY FS_EmptySet
  <2>3. at = [t \in Threads |-> at[t]]
    BY DEF Threads
  <2>4. pushed \in [Posters -> Nat] /\ named \in [Posters -> Nat] /\ target = -1
    OBVIOUS
  <2> QED BY <2>1, <2>2, <2>3, <2>4 DEF LoopTypeOK
<1>3. Issued = {} /\ Counted = {} /\ Queued = {}
  <2>1. \A p \in Posters : Pending(p) = 0 /\ named[p] = 0
    BY <1>1 DEF Pending
  <2>2. \A k \in Names : k \notin Issued /\ k \notin Counted
    BY <2>1, NameFacts DEF Issued, Counted
  <2> QED BY <2>2 DEF Issued, Counted, Queued
<1>4. EntriesInv
  BY <1>3 DEF EntriesInv
<1>5. StopInv
  BY <1>1 DEF StopInv
<1>6. CountersInv
  BY <1>1, <1>3, FS_EmptySet DEF CountersInv, Pending
<1>7. FlushInv
  BY DEF FlushInv
<1> QED BY <1>2, <1>4, <1>5, <1>6, <1>7 DEF LoopInv

-----------------------------------------------------------------------------
(* The steps that give out no name, take no entry and count nothing.        *)

Quiet ==
  /\ UNCHANGED <<held, handled, named, counted, processed, target, owed>>
  /\ \A p \in Posters : Pending(p)' = Pending(p)
  /\ at'["owner"] # "stopped" =>
       /\ at["owner"] # "stopped" /\ DOMAIN entries' = DOMAIN entries
       /\ \A i \in DOMAIN entries : Name(entries[i])' = Name(entries[i])

LEMMA QuietStep ==
  ASSUME LoopInv, Quiet
  PROVE  EntriesInv' /\ CountersInv' /\ FlushInv'
<1> USE DEF Quiet
<1>1. Issued' = Issued
  BY DEF Issued
<1>2. Counted' = Counted
  <2>1. \A k \in Names : k \in Counted' <=> k \in Counted
    BY NameFacts DEF Counted
  <2> QED BY <2>1 DEF Counted
<1>3. at'["owner"] # "stopped" => Queued' = Queued
  BY DEF Queued
<1>4. EntriesInv'
  BY <1>1, <1>3 DEF LoopInv, EntriesInv
<1>5. CountersInv'
  BY <1>2 DEF LoopInv, CountersInv
<1>6. FlushInv'
  BY <1>1 DEF LoopInv, FlushInv, OwedFirst
<1> QED BY <1>4, <1>5, <1>6

\* Everything but the entries' order and the counters follows from where a
\* step leaves the threads.
LEMMA PosterQuiet ==
  ASSUME LoopAssumption, LoopInv, NEW p \in Posters,
         PostBegin(p) \/ PublishEntry(p) \/ GiveUp(p) \/ Signal(p) \/ Notify(p), UNCHANGED loggerVars
  PROVE  LoopTypeOK' /\ StopInv' /\ Quiet
<1> USE DEF LoopInv, LoopAssumption
<1>1. p \in Threads /\ p # "worker" /\ p # "owner" /\ "worker" \in Threads /\ "owner" \in Threads
  BY DEF Threads
<1>2. /\ at' = [u \in Threads |-> at'[u]]
      /\ \A u \in Threads : u \notin {p, "worker"} => at'[u] = at[u]
      /\ at'["worker"] = at["worker"] \/ (at'["worker"] = "wait" /\ at["worker"] = "asleep")
  <2>1. CASE Notify(p)
    <3>1. at' = [at EXCEPT ![p] = "count", !["worker"] = IF at["worker"] = "asleep" THEN "wait" ELSE at["worker"]]
      BY <1>1, <2>1 DEF Notify, LoopTypeOK
    <3>2. PICK wpc : /\ at' = [at EXCEPT ![p] = "count", !["worker"] = wpc]
                     /\ wpc = IF at["worker"] = "asleep" THEN "wait" ELSE at["worker"]
      BY <3>1
    <3>3. /\ at' = [u \in Threads |-> at'[u]]
          /\ \A u \in Threads : at'[u] = IF u = p THEN "count" ELSE IF u = "worker" THEN wpc ELSE at[u]
      BY <1>1, <3>2, MovedBoth
    <3> QED BY <1>1, <3>2, <3>3
  <2>2. CASE ~Notify(p)
    <3>1. PostBegin(p) \/ Signal(p) => \E to : at' = [at EXCEPT ![p] = to]
      BY DEF PostBegin, Signal, Goto
    <3>2. PublishEntry(p) => \E to : at' = [at EXCEPT ![p] = to]
      BY DEF PublishEntry, Goto
    <3>3. GiveUp(p) => \E to : at' = [at EXCEPT ![p] = to]
      BY DEF GiveUp, Goto
    <3>4. PICK to : at' = [at EXCEPT ![p] = to]
      BY <2>2, <3>1, <3>2, <3>3
    <3>5. /\ at' = [u \in Threads |-> at'[u]]
          /\ \A u \in Threads : at'[u] = IF u = p THEN to ELSE at[u]
      BY <1>1, <3>4, Moved
    <3> QED BY <1>1, <3>5
  <2> QED BY <2>1, <2>2
<1>3. UNCHANGED <<stopping, named, held, handled, due, force, counted, processed, target, owed>>
  BY DEF PostBegin, PublishEntry, GiveUp, Signal, Notify, loggerVars
<1>4. ASSUME at["owner"] # "stopped"
      PROVE  /\ DOMAIN entries' = DOMAIN entries /\ entries' \in Seq(Entry)
             /\ \A i \in DOMAIN entries : Name(entries[i])' = Name(entries[i])
  <2>1. CASE PublishEntry(p)
    <3>1. DOMAIN entries = 1 .. Len(entries) /\ Len(entries) \in Nat
          /\ \A i \in DOMAIN entries : entries[i] \in Entry
      BY <1>4, QueueFacts, LenProperties DEF LoopTypeOK
    <3>2. entries' = [i \in DOMAIN entries |->
                       IF entries[i].by = p THEN [entries[i] EXCEPT !.ready = TRUE] ELSE entries[i]]
      BY <2>1 DEF PublishEntry
    <3>3. \A i \in DOMAIN entries : entries'[i] \in Entry /\ entries'[i].by = entries[i].by /\ entries'[i].n = entries[i].n
      BY <3>1, <3>2 DEF Entry
    <3>4. entries' \in [1 .. Len(entries) -> Entry]
      BY <3>1, <3>2, <3>3
    <3>5. entries' \in Seq(Entry)
      BY <3>1, <3>4, SeqDef
    <3> QED BY <3>1, <3>2, <3>3, <3>5 DEF Name
  <2>2. CASE ~PublishEntry(p)
    BY <1>4, <2>2 DEF PostBegin, GiveUp, Signal, Notify, LoopTypeOK, Entry
  <2> QED BY <2>1, <2>2
<1>5. pushed' \in [Posters -> Nat] /\ \A q \in Posters : q # p => pushed'[q] = pushed[q]
  BY DEF PostBegin, PublishEntry, GiveUp, Signal, Notify, LoopTypeOK
<1>6. LoopTypeOK'
  BY <1>1, <1>2, <1>3, <1>4, <1>5 DEF LoopTypeOK, Entry
<1>7. Issued' = Issued
  BY <1>3 DEF Issued
<1>8. StopInv'
  BY <1>1, <1>2, <1>3, <1>7 DEF StopInv
<1>9. \A q \in Posters : Pending(q)' = Pending(q)
  <2>1. \A q \in Posters : q # p => at'[q] = at[q] /\ pushed'[q] = pushed[q]
    BY <1>2, <1>5 DEF Threads
  <2>2. Pending(p)' = Pending(p)
    <3>1. CASE PostBegin(p)
      BY <1>1, <3>1 DEF PostBegin, Goto, Pending, LoopTypeOK
    <3>2. CASE PublishEntry(p)
      BY <1>1, <3>2 DEF PublishEntry, Goto, Pending, LoopTypeOK
    <3>3. CASE GiveUp(p)
      BY <1>1, <3>3 DEF GiveUp, Goto, Pending, LoopTypeOK
    <3>4. CASE Signal(p)
      BY <1>1, <3>4 DEF Signal, Goto, Pending, LoopTypeOK
    <3>5. CASE Notify(p)
      <4>1. at[p] = "notify" /\ pushed' = pushed /\ at' = [at EXCEPT ![p] = "count", !["worker"] = at'["worker"]]
        BY <1>1, <3>5 DEF Notify, LoopTypeOK
      <4>2. at'[p] = "count"
        BY <1>1, <4>1, MovedBoth
      <4> QED BY <4>1, <4>2 DEF Pending
    <3> QED BY <3>1, <3>2, <3>3, <3>4, <3>5
  <2> QED BY <2>1, <2>2 DEF Pending
<1> QED BY <1>1, <1>2, <1>3, <1>4, <1>6, <1>8, <1>9 DEF Quiet

LEMMA WorkerQuiet ==
  ASSUME LoopAssumption, LoopInv, UNCHANGED loggerVars,
         DrainEnds \/ CheckStop \/ WorkerExit \/ Snapshot \/ SecondLookFails \/ WaitWake
  PROVE  LoopTypeOK' /\ StopInv' /\ Quiet
<1> USE DEF LoopInv, LoopAssumption
<1>1. /\ "worker" \in Threads /\ "owner" \in Threads /\ "worker" # "owner" /\ Posters \subseteq Threads
      /\ \A q \in Posters : q # "worker" /\ q # "owner"
  BY DEF Threads
<1>2. UNCHANGED <<entries, stopping, pushed, named, held, handled, due, force, counted, processed, target, owed>>
  BY DEF DrainEnds, CheckStop, WorkerExit, Snapshot, SecondLookFails, WaitWake, loggerVars
<1>3. PICK to : /\ at' = [at EXCEPT !["worker"] = to] /\ at["worker"] # "exited"
                /\ to = "final" => stopping
                /\ to = "exited" => at["worker"] = "final" /\ NothingToPop /\ held = NoEntry
  <2> DEFINE Move(to) == at' = [at EXCEPT !["worker"] = to] /\ at["worker"] # "exited"
  <2>1. DrainEnds => Move("stop?")
    BY DEF DrainEnds, Goto
  <2>2. CheckStop => Move(IF stopping THEN "final" ELSE "snapshot")
    BY DEF CheckStop, Goto
  <2>3. WorkerExit => Move("exited") /\ at["worker"] = "final" /\ NothingToPop /\ held = NoEntry
    BY DEF WorkerExit, Goto
  <2>4. Snapshot => Move("retry")
    BY DEF Snapshot, Goto
  <2>5. SecondLookFails => Move("wait")
    BY DEF SecondLookFails, Goto
  <2>6. WaitWake => Move(IF fresh THEN "asleep" ELSE "drain")
    BY DEF WaitWake, Goto
  <2> QED BY <2>1, <2>2, <2>3, <2>4, <2>5, <2>6
<1>4. at' = [u \in Threads |-> at'[u]] /\ \A u \in Threads : at'[u] = IF u = "worker" THEN to ELSE at[u]
  BY <1>1, <1>3, Moved
<1>5. at["owner"] # "stopped" /\ at'["owner"] = at["owner"] /\ \A q \in Posters : at'[q] = at[q]
  BY <1>1, <1>3, <1>4 DEF StopInv
<1>6. LoopTypeOK'
  BY <1>2, <1>4, <1>5 DEF LoopTypeOK
<1>7. Issued' = Issued
  BY <1>2 DEF Issued
<1>8. to = "exited" => (Bound = 0 => due \subseteq handled)
  <2> SUFFICES ASSUME to = "exited", Bound = 0 PROVE due \subseteq handled
    OBVIOUS
  <2>1. entries = <<>> /\ held = NoEntry
    BY <1>3 DEF NothingToPop
  <2>2. Queued = {}
    BY <2>1 DEF Queued
  <2>3. Issued \subseteq handled
    BY <1>5, <2>1, <2>2, NameFacts DEF EntriesInv, Issued
  <2> QED BY <2>3 DEF StopInv
<1>9. StopInv'
  <2>1. to \in {"final", "exited"} => stopping
    BY <1>3 DEF StopInv
  <2> QED BY <1>1, <1>2, <1>3, <1>4, <1>5, <1>7, <1>8, <2>1 DEF StopInv
<1> QED BY <1>2, <1>5, <1>6, <1>9 DEF Quiet, Pending

\* What has been posted when stop() begins is among the names given out.
LEMMA ReturnedFacts ==
  ASSUME LoopInv, NEW p \in Posters
  PROVE  \A n \in 1 .. Returned(p) : <<p, n>> \in Issued
<1>1. Returned(p) \in Int /\ Returned(p) <= named[p] /\ named[p] \in Nat
  BY DEF Returned, LoopInv, LoopTypeOK
<1> QED BY <1>1 DEF Issued, Names

LEMMA OwnerQuiet ==
  ASSUME LoopAssumption, LoopInv, UNCHANGED loggerVars,
         Start \/ StopBegin \/ StopBump \/ StopNotify \/ StopJoin
  PROVE  LoopTypeOK' /\ StopInv' /\ Quiet
<1> USE DEF LoopInv, LoopAssumption
<1>1. /\ "worker" \in Threads /\ "owner" \in Threads /\ "worker" # "owner" /\ Posters \subseteq Threads
      /\ \A q \in Posters : q # "worker" /\ q # "owner"
  BY DEF Threads
<1>2. UNCHANGED <<pushed, named, held, handled, counted, processed, target, owed>>
  BY DEF Start, StopBegin, StopBump, StopNotify, StopJoin, loggerVars
<1>3. /\ at' = [u \in Threads |-> at'[u]]
      /\ \A q \in Posters : at'[q] = at[q]
      /\ Start => at'["worker"] = "drain" /\ at'["owner"] = "started"
      /\ ~Start => at'["worker"] \in {at["worker"], "wait"} /\ (at'["worker"] # at["worker"] => at["worker"] = "asleep")
      /\ StopBegin => at'["owner"] = "bump"
      /\ StopBump => at'["owner"] = "notify"
      /\ StopNotify => at'["owner"] = "join"
      /\ StopJoin => at'["owner"] = "stopped" /\ at["worker"] = "exited"
  <2>1. CASE Start
    <3>1. /\ at' = [u \in Threads |-> at'[u]] /\ at["owner"] = "idle"
          /\ \A u \in Threads : at'[u] = IF u = "owner" THEN "started" ELSE IF u = "worker" THEN "drain" ELSE at[u]
      BY <1>1, <2>1, MovedBoth DEF Start
    <3>2. ~StopBegin /\ ~StopBump /\ ~StopNotify /\ ~StopJoin
      BY <3>1 DEF StopBegin, StopBump, StopNotify, StopJoin, Goto
    <3> QED BY <1>1, <2>1, <3>1, <3>2
  <2>2. CASE StopNotify
    <3>1. /\ at["owner"] = "notify"
          /\ at' = [at EXCEPT !["owner"] = "join", !["worker"] = IF at["worker"] = "asleep" THEN "wait" ELSE at["worker"]]
      BY <1>1, <2>2 DEF StopNotify, LoopTypeOK
    <3>2. PICK wpc : /\ at' = [at EXCEPT !["owner"] = "join", !["worker"] = wpc]
                     /\ wpc = IF at["worker"] = "asleep" THEN "wait" ELSE at["worker"]
      BY <3>1
    <3>3. /\ at' = [u \in Threads |-> at'[u]]
          /\ \A u \in Threads : at'[u] = IF u = "owner" THEN "join" ELSE IF u = "worker" THEN wpc ELSE at[u]
      BY <1>1, <3>2, MovedBoth
    <3>4. ~StopBegin /\ ~StopBump /\ ~Start /\ ~StopJoin
      BY <3>1 DEF StopBegin, StopBump, Start, StopJoin, Goto
    <3> QED BY <1>1, <3>2, <3>3, <3>4
  <2>3. ASSUME StopBegin \/ StopBump \/ StopJoin, NEW to, at' = [at EXCEPT !["owner"] = to]
        PROVE /\ at' = [u \in Threads |-> at'[u]] /\ at'["owner"] = to
              /\ \A u \in Threads : u # "owner" => at'[u] = at[u]
    BY <1>1, <2>3, Moved
  <2>4. CASE StopBegin
    <3>1. at' = [at EXCEPT !["owner"] = "bump"] /\ at["owner"] = "started"
      BY <2>4 DEF StopBegin, Goto
    <3>2. ~Start /\ ~StopBump /\ ~StopNotify /\ ~StopJoin
      BY <3>1 DEF Start, StopBump, StopNotify, StopJoin, Goto
    <3> QED BY <1>1, <2>3, <2>4, <3>1, <3>2
  <2>5. CASE StopBump
    <3>1. at' = [at EXCEPT !["owner"] = "notify"] /\ at["owner"] = "bump"
      BY <2>5 DEF StopBump, Goto
    <3>2. ~Start /\ ~StopBegin /\ ~StopNotify /\ ~StopJoin
      BY <3>1 DEF Start, StopBegin, StopNotify, StopJoin, Goto
    <3> QED BY <1>1, <2>3, <2>5, <3>1, <3>2
  <2>6. CASE StopJoin
    <3>1. at' = [at EXCEPT !["owner"] = "stopped"] /\ at["owner"] = "join" /\ at["worker"] = "exited"
      BY <2>6 DEF StopJoin, Goto
    <3>2. ~Start /\ ~StopBegin /\ ~StopNotify /\ ~StopBump
      BY <3>1 DEF Start, StopBegin, StopNotify, StopBump, Goto
    <3> QED BY <1>1, <2>3, <2>6, <3>1, <3>2
  <2> QED BY <2>1, <2>2, <2>4, <2>5, <2>6
<1>4. at'["owner"] # "stopped" => at["owner"] # "stopped" /\ entries' = entries
  <2>1. StopJoin \/ entries' = entries
    BY DEF Start, StopBegin, StopBump, StopNotify
  <2>2. at["owner"] # "stopped"
    BY DEF Start, StopBegin, StopBump, StopNotify, StopJoin, Goto
  <2> QED BY <1>3, <2>1, <2>2
<1>5. force' \in BOOLEAN /\ stopping' \in BOOLEAN
  BY DEF Start, StopBegin, StopBump, StopNotify, StopJoin, LoopTypeOK
<1>6. LoopTypeOK'
  BY <1>2, <1>3, <1>4, <1>5 DEF LoopTypeOK
<1>7. Issued' = Issued
  BY <1>2 DEF Issued
<1>8. /\ due' \subseteq Issued
      /\ (~StopBegin => due' = due)
      /\ StopBegin => stopping' /\ at["owner"] = "started"
      /\ ~StopBegin => stopping' = stopping
      /\ Start => at["owner"] = "idle"
  <2>1. CASE StopBegin
    <3>1. due' = UNION {{<<p, n>> : n \in 1 .. Returned(p)} : p \in Posters} /\ stopping' = TRUE /\ at["owner"] = "started"
      BY <2>1 DEF StopBegin, Goto
    <3>2. \A k \in due' : k \in Issued
      BY <3>1, ReturnedFacts
    <3>3. ~Start
      BY <3>1 DEF Start
    <3> QED BY <2>1, <3>1, <3>2, <3>3
  <2>2. CASE ~StopBegin
    BY <2>2 DEF Start, StopBump, StopNotify, StopJoin, StopInv
  <2> QED BY <2>1, <2>2
<1>9. StopInv'
  <2>1. CASE Start
    BY <1>1, <1>2, <1>3, <1>7, <1>8, <2>1 DEF StopInv, StopBegin, Goto
  <2>2. CASE StopBegin
    <3>1. at["worker"] \notin {"final", "exited"}
      BY <1>8, <2>2 DEF StopInv
    <3>2. ~Start
      BY <1>8, <2>2 DEF Start
    <3> QED BY <1>1, <1>2, <1>3, <1>7, <1>8, <2>2, <3>1, <3>2 DEF StopInv
  <2>3. CASE StopBump \/ StopNotify \/ StopJoin
    <3>1. ~Start /\ ~StopBegin
      BY <2>3 DEF StopBump, StopNotify, StopJoin, Start, StopBegin, Goto
    <3> QED BY <1>1, <1>2, <1>3, <1>7, <1>8, <2>3, <3>1 DEF StopInv
  <2> QED BY <2>1, <2>2, <2>3
<1> QED BY <1>2, <1>3, <1>4, <1>6, <1>9 DEF Quiet, Pending

-----------------------------------------------------------------------------
(* The steps that give out a name or move an entry.                         *)

LEMMA ClaimStep ==
  ASSUME LoopAssumption, LoopInv, NEW p \in Posters, Claim(p), UNCHANGED loggerVars
  PROVE  LoopInv'
<1> DEFINE e == [by |-> p, n |-> named[p] + 1, ready |-> FALSE]
           k == <<p, named[p] + 1>>
<1> USE DEF LoopInv, LoopAssumption
<1>1. /\ p \in Threads /\ p # "worker" /\ p # "owner" /\ "worker" \in Threads /\ "owner" \in Threads
      /\ Posters \subseteq Threads
  BY DEF Threads
<1>2. /\ UNCHANGED <<stopping, pushed, held, handled, due, force, counted, processed, target, owed>>
      /\ entries' = Append(entries, e) /\ named' = [named EXCEPT ![p] = @ + 1]
      /\ at[p] = "push" /\ at' = [at EXCEPT ![p] = "publish"]
  BY DEF Claim, Goto, loggerVars
<1>3. at' = [u \in Threads |-> at'[u]] /\ \A u \in Threads : at'[u] = IF u = p THEN "publish" ELSE at[u]
  BY <1>1, <1>2, Moved
<1>4. /\ named' \in [Posters -> Nat] /\ named'[p] = named[p] + 1 /\ named[p] \in Nat
      /\ \A q \in Posters : q # p => named'[q] = named[q]
  BY <1>2 DEF LoopTypeOK
<1>5. e \in Entry /\ k \in Names /\ Name(e) = k /\ k # NoEntry
  BY <1>4 DEF Entry, Names, Name, NoEntry
<1>6. Issued' = Issued \cup {k} /\ k \notin Issued
  <2>1. \A j \in Names : j \in Issued' <=> j \in Issued \/ j = k
    BY <1>4, NameFacts DEF Issued, LoopTypeOK
  <2> QED BY <1>4, <1>5, <2>1 DEF Issued
<1>7. /\ \A q \in Posters : named'[q] - Pending(q)' = named[q] - Pending(q)
      /\ \A q \in Posters : Pending(q)' <= named'[q]
  <2>1. \A q \in Posters : q # p => Pending(q)' = Pending(q)
    BY <1>1, <1>2, <1>3 DEF Pending
  <2>2. Pending(p)' = pushed[p] + 1 /\ Pending(p) = pushed[p] /\ pushed[p] \in Nat
    BY <1>1, <1>2, <1>3 DEF Pending, LoopTypeOK
  <2> QED BY <1>4, <2>1, <2>2 DEF CountersInv
<1>8. Counted' = Counted
  <2>1. \A j \in Names : j \in Counted' <=> j \in Counted
    BY <1>7, NameFacts DEF Counted
  <2> QED BY <2>1 DEF Counted
<1>9. at'["owner"] = at["owner"] /\ at'["worker"] = at["worker"]
  BY <1>1, <1>3
<1>10. ASSUME at["owner"] # "stopped"
       PROVE /\ entries' \in Seq(Entry) /\ Len(entries) \in Nat
             /\ \A i \in DOMAIN entries : i \in DOMAIN entries' /\ entries'[i] = entries[i]
             /\ entries'[Len(entries) + 1] = e /\ Len(entries) + 1 \in DOMAIN entries'
             /\ \A i \in DOMAIN entries' : i = Len(entries) + 1 \/ (i \in DOMAIN entries /\ i < Len(entries) + 1)
  <2>1. entries \in Seq(Entry)
    BY <1>10 DEF LoopTypeOK, Entry
  <2> HIDE DEF e
  <2> QED BY <1>2, <1>5, <2>1, PushFacts
<1> HIDE DEF e, k
<1>11. at["owner"] # "stopped" => Queued' = Queued \cup {k}
  <2> SUFFICES ASSUME at["owner"] # "stopped" PROVE Queued' = Queued \cup {k}
    OBVIOUS
  <2>1. \A i \in DOMAIN entries : Name(entries'[i]) = Name(entries[i])
    BY <1>10
  <2>2. Name(entries'[Len(entries) + 1]) = k
    BY <1>5, <1>10
  <2>3. \A j : j \in Queued' <=> j \in Queued \/ j = k
    BY <1>10, <2>1, <2>2 DEF Queued
  <2> QED BY <2>3
<1>12. LoopTypeOK'
  BY <1>2, <1>3, <1>4, <1>9, <1>10 DEF LoopTypeOK, Entry
<1>13. EntriesInv'
  <2> SUFFICES ASSUME at["owner"] # "stopped"
               PROVE  /\ Queued' \subseteq Issued' \ (handled' \cup {held'})
                      /\ \A i, j \in DOMAIN entries' : Name(entries'[i]) = Name(entries'[j]) => i = j
                      /\ Issued' \subseteq handled' \cup Queued' \cup {held'}
    BY <1>9 DEF EntriesInv
  <2>1. k \notin handled /\ k # held
    BY <1>5, <1>6 DEF StopInv
  <2>2. Queued' \subseteq Issued' \ (handled' \cup {held'})
    BY <1>2, <1>6, <1>11, <2>1 DEF EntriesInv
  <2>3. Issued' \subseteq handled' \cup Queued' \cup {held'}
    BY <1>2, <1>6, <1>11 DEF EntriesInv
  <2>4. \A i \in DOMAIN entries : Name(entries[i]) \in Issued /\ Name(entries[i]) # k
    BY <1>6 DEF EntriesInv, Queued
  <2>5. \A i, j \in DOMAIN entries' : Name(entries'[i]) = Name(entries'[j]) => i = j
    BY <1>5, <1>10, <2>4 DEF EntriesInv
  <2> QED BY <2>2, <2>3, <2>5
<1>14. StopInv'
  BY <1>2, <1>6, <1>9 DEF StopInv
<1>15. CountersInv'
  BY <1>2, <1>7, <1>8 DEF CountersInv
<1>16. FlushInv'
  <2> SUFFICES ASSUME owed # {}
               PROVE  /\ owed' \subseteq Issued' /\ IsFiniteSet(owed') /\ target' = Cardinality(owed')
                      /\ owed' \subseteq handled' \/ OwedFirst'
    BY <1>2 DEF FlushInv
  <2>1. owed \subseteq handled \/ OwedFirst
    BY DEF FlushInv
  <2>2. k \notin owed
    BY <1>6 DEF FlushInv
  <2>3. ASSUME OwedFirst PROVE OwedFirst'
    <3>1. ASSUME at["owner"] # "stopped", NEW i \in DOMAIN entries', NEW j \in DOMAIN entries',
                 i < j, Name(entries'[j]) \in owed
          PROVE  Name(entries'[i]) \in owed
      <4>1. j # Len(entries) + 1
        BY <1>5, <1>10, <2>2, <3>1
      <4>2. i \in DOMAIN entries /\ j \in DOMAIN entries
        BY <1>10, <3>1, <4>1
      <4> QED BY <1>10, <2>3, <3>1, <4>2 DEF OwedFirst
    <3> QED BY <1>2, <1>9, <2>3, <3>1 DEF OwedFirst
  <2> QED BY <1>2, <1>6, <2>1, <2>3 DEF FlushInv
<1> QED BY <1>12, <1>13, <1>14, <1>15, <1>16

LEMMA DrainStep ==
  ASSUME LoopAssumption, LoopInv, DrainOne, UNCHANGED loggerVars
  PROVE  LoopInv'
<1> USE DEF LoopInv, LoopAssumption
<1>1. /\ "worker" \in Threads /\ "owner" \in Threads /\ "worker" # "owner" /\ Posters \subseteq Threads
      /\ \A q \in Posters : q # "worker" /\ q # "owner"
  BY DEF Threads
<1>2. /\ UNCHANGED <<stopping, pushed, named, handled, due, force, counted, processed, target, owed>>
      /\ entries' = Tail(entries) /\ held' = Name(Head(entries)) /\ entries # <<>> /\ held = NoEntry
  BY DEF DrainOne, Dispatch, Poppable, loggerVars
<1>3. PICK to : /\ at' = [at EXCEPT !["worker"] = to] /\ at["worker"] # "exited" /\ to # "exited"
                /\ to = "final" => at["worker"] = "final"
  <2> DEFINE Move(to) == at' = [at EXCEPT !["worker"] = to] /\ at["worker"] # "exited"
  <2>1. Dispatch("drain", "drain") => Move("drain")
    BY DEF Dispatch, Goto
  <2>2. Dispatch("final", "final") => Move("final") /\ at["worker"] = "final"
    BY DEF Dispatch, Goto
  <2>3. Dispatch("retry", "drain") => Move("drain")
    BY DEF Dispatch, Goto
  <2> QED BY <2>1, <2>2, <2>3 DEF DrainOne
<1>4. at' = [u \in Threads |-> at'[u]] /\ \A u \in Threads : at'[u] = IF u = "worker" THEN to ELSE at[u]
  BY <1>1, <1>3, Moved
<1>5. at["owner"] # "stopped" /\ at'["owner"] = at["owner"] /\ \A q \in Posters : at'[q] = at[q]
  BY <1>1, <1>3, <1>4 DEF StopInv
<1>6. /\ entries' \in Seq(Entry) /\ 1 \in DOMAIN entries /\ held' = Name(entries[1]) /\ held' \in Names
      /\ \A i \in DOMAIN entries' : i \in Nat /\ i + 1 \in DOMAIN entries /\ i + 1 > 1 /\ entries'[i] = entries[i + 1]
      /\ \A i \in DOMAIN entries : i = 1 \/ (\E j \in DOMAIN entries' : i = j + 1)
      /\ \A i \in DOMAIN entries : i \in Nat /\ i >= 1
  <2>1. entries \in Seq(Entry)
    BY <1>5 DEF LoopTypeOK, Entry
  <2> QED BY <1>2, <2>1, PopFacts, NameFacts
<1>7. Issued' = Issued
  BY <1>2 DEF Issued
<1>8. /\ \A q \in Posters : Pending(q)' = Pending(q)
      /\ Counted' = Counted
  <2>1. \A q \in Posters : Pending(q)' = Pending(q)
    BY <1>2, <1>5 DEF Pending
  <2>2. \A j \in Names : j \in Counted' <=> j \in Counted
    BY <1>2, <2>1, NameFacts DEF Counted
  <2> QED BY <2>1, <2>2 DEF Counted
<1>9. /\ Queued = Queued' \cup {held'} /\ held' \notin Queued'
      /\ held' \in Issued \ handled
  <2>1. \A k : k \in Queued <=> k \in Queued' \/ k = held'
    BY <1>6 DEF Queued
  <2>2. held' \notin Queued'
    <3> SUFFICES ASSUME NEW i \in DOMAIN entries', Name(entries'[i]) = Name(entries[1]) PROVE FALSE
      BY <1>6 DEF Queued
    <3> QED BY <1>5, <1>6 DEF EntriesInv
  <2>3. held' \in Issued \ handled
    BY <1>5, <2>1 DEF EntriesInv
  <2> QED BY <2>1, <2>2, <2>3
<1>10. LoopTypeOK'
  BY <1>2, <1>4, <1>5, <1>6 DEF LoopTypeOK, Entry
<1>11. EntriesInv'
  <2>1. \A i, j \in DOMAIN entries' : Name(entries'[i]) = Name(entries'[j]) => i = j
    <3> SUFFICES ASSUME NEW i \in DOMAIN entries', NEW j \in DOMAIN entries',
                        Name(entries'[i]) = Name(entries'[j]) PROVE i = j
      OBVIOUS
    <3>1. i + 1 = j + 1
      BY <1>5, <1>6 DEF EntriesInv
    <3> QED BY <1>6, <3>1
  <2>2. /\ Queued' \subseteq Issued' \ (handled' \cup {held'})
        /\ Issued' \subseteq handled' \cup Queued' \cup {held'}
    BY <1>2, <1>5, <1>7, <1>9, NameFacts DEF EntriesInv, Issued
  <2> QED BY <2>1, <2>2 DEF EntriesInv
<1>12. StopInv'
  BY <1>1, <1>2, <1>3, <1>4, <1>5, <1>7, <1>9 DEF StopInv
<1>13. CountersInv'
  BY <1>2, <1>8 DEF CountersInv
<1>14. FlushInv'
  <2> SUFFICES ASSUME owed # {} PROVE owed \subseteq handled \/ OwedFirst'
    BY <1>2, <1>7 DEF FlushInv
  <2>1. CASE owed \subseteq handled
    BY <2>1
  <2>2. CASE ~(owed \subseteq handled)
    <3>1. OwedFirst /\ owed \subseteq Issued
      BY <2>2 DEF FlushInv
    <3>2. PICK k \in owed : k \notin handled
      BY <2>2
    <3>3. PICK j \in DOMAIN entries : Name(entries[j]) = k
      BY <1>2, <1>5, <3>1, <3>2, NameFacts DEF EntriesInv, Queued, Issued
    <3>4. held' \in owed
      BY <1>5, <1>6, <3>1, <3>3 DEF OwedFirst
    <3>5. \A i, l \in DOMAIN entries' : i < l /\ Name(entries'[l]) \in owed => Name(entries'[i]) \in owed
      <4> SUFFICES ASSUME NEW i \in DOMAIN entries', NEW l \in DOMAIN entries', i < l, Name(entries'[l]) \in owed
                   PROVE Name(entries'[i]) \in owed
        OBVIOUS
      <4>1. i + 1 < l + 1 /\ i + 1 \in DOMAIN entries /\ l + 1 \in DOMAIN entries
        BY <1>6
      <4> QED BY <1>5, <1>6, <3>1, <4>1 DEF OwedFirst
    <3> QED BY <1>2, <1>5, <3>1, <3>4, <3>5 DEF OwedFirst
  <2> QED BY <2>1, <2>2
<1> QED BY <1>10, <1>11, <1>12, <1>13, <1>14

LEMMA HandlerStep ==
  ASSUME LoopAssumption, LoopInv, HandlerReturns, UNCHANGED loggerVars
  PROVE  LoopInv'
<1> USE DEF LoopInv, LoopAssumption
<1>1. /\ UNCHANGED <<entries, stopping, at, pushed, named, due, force, counted, target, owed>>
      /\ held # NoEntry /\ handled' = handled \cup {held} /\ held' = NoEntry /\ processed' = processed + 1
  BY DEF HandlerReturns, loggerVars
<1>2. held \in Issued \ handled /\ held \in Names /\ at["worker"] # "exited" /\ at["owner"] # "stopped"
  BY <1>1 DEF StopInv, LoopTypeOK
<1>3. /\ IsFiniteSet(handled') /\ Cardinality(handled') = Cardinality(handled) + 1
  BY <1>1, <1>2, FS_AddElement DEF LoopTypeOK
<1>4. Issued' = Issued /\ Queued' = Queued /\ Counted' = Counted /\ \A q \in Posters : Pending(q)' = Pending(q)
  BY <1>1 DEF Issued, Queued, Counted, Pending
<1>5. LoopTypeOK'
  BY <1>1, <1>2, <1>3 DEF LoopTypeOK
<1>6. EntriesInv'
  <2>1. NoEntry \notin Queued
    <3>1. \A i \in DOMAIN entries : Name(entries[i]) # NoEntry
      BY <1>2, QueueFacts, NameFacts
    <3> QED BY <3>1 DEF Queued
  <2> QED BY <1>1, <1>2, <1>4, <2>1 DEF EntriesInv
<1>7. StopInv'
  BY <1>1, <1>2, <1>4 DEF StopInv
<1>8. CountersInv'
  BY <1>1, <1>3, <1>4 DEF CountersInv
<1>9. FlushInv'
  BY <1>1, <1>2, <1>4 DEF FlushInv, OwedFirst
<1> QED BY <1>5, <1>6, <1>7, <1>8, <1>9

-----------------------------------------------------------------------------
(* The counters of the Logger.                                              *)

\* The names of an interval are as many as its numbers.
LEMMA NamesBetween ==
  ASSUME NEW p, NEW a \in Int, NEW b \in Int, NEW T,
         \A k : k \in T <=> \E n \in a .. b : k = <<p, n>>
  PROVE  IsFiniteSet(T) /\ Cardinality(T) = IF a > b THEN 0 ELSE b - a + 1
<1> DEFINE S == a .. b
           f == [n \in S |-> <<p, n>>]
<1>1. f \in Bijection(S, T)
  <2>1. f \in [S -> T] /\ \A n \in S : f[n] = <<p, n>>
    OBVIOUS
  <2>2. \A m, n \in S : f[m] = f[n] => m = n
    BY <2>1
  <2>3. \A k \in T : \E n \in S : f[n] = k
    BY <2>1
  <2> HIDE DEF f, S
  <2> QED BY <2>1, <2>2, <2>3 DEF Bijection, Injection, Surjection, IsInjective
<1>2. IsFiniteSet(S) /\ Cardinality(S) = IF a > b THEN 0 ELSE b - a + 1
  BY FS_Interval
<1>3. ExistsBijection(S, T)
  BY <1>1 DEF ExistsBijection
<1> HIDE DEF f, S
<1>4. IsFiniteSet(T) /\ Cardinality(T) = Cardinality(S)
  BY <1>2, <1>3, FS_Bijection
<1> QED BY <1>2, <1>4 DEF S

\* The entries of a call are counted once, when it returns.
LEMMA CountStep ==
  ASSUME LoopAssumption, LoopInv, NEW p \in Posters, Count(p), UNCHANGED loggerVars
  PROVE  LoopInv'
<1> DEFINE Fresh == {<<p, n>> : n \in (named[p] - pushed[p] + 1) .. named[p]}
<1> USE DEF LoopInv, LoopAssumption
<1>1. /\ p \in Threads /\ p # "worker" /\ p # "owner" /\ "worker" \in Threads /\ "owner" \in Threads
      /\ Posters \subseteq Threads
  BY DEF Threads
<1>2. /\ UNCHANGED <<entries, stopping, pushed, named, held, handled, due, force, processed, target, owed>>
      /\ at[p] = "count" /\ at' = [at EXCEPT ![p] = "idle"] /\ counted' = counted + pushed[p]
  BY DEF Count, Goto, loggerVars
<1>3. at' = [u \in Threads |-> at'[u]] /\ \A u \in Threads : at'[u] = IF u = p THEN "idle" ELSE at[u]
  BY <1>1, <1>2, Moved
<1>4. at'["owner"] = at["owner"] /\ at'["worker"] = at["worker"]
  BY <1>1, <1>3
<1>5. Issued' = Issued /\ Queued' = Queued
  BY <1>2 DEF Issued, Queued
<1>6. /\ Pending(p) = pushed[p] /\ Pending(p)' = 0 /\ pushed[p] \in Nat /\ named[p] \in Nat /\ pushed[p] <= named[p]
      /\ \A q \in Posters : q # p => Pending(q)' = Pending(q)
  BY <1>1, <1>2, <1>3 DEF Pending, LoopTypeOK, CountersInv
<1>7. Counted' = Counted \cup Fresh /\ Counted \cap Fresh = {}
  <2>1. \A k : k \in Fresh <=> k \in Names /\ k[1] = p /\ k[2] <= named[p] /\ k[2] > named[p] - pushed[p]
    BY <1>6, NameFacts DEF Names
  <2>2. \A k \in Names : k \in Counted' <=> k \in Counted \/ k \in Fresh
    <3>1. \A k \in Names : k[1] # p => (k \in Counted' <=> k \in Counted) /\ k \notin Fresh
      BY <1>2, <1>6, <2>1, NameFacts DEF Counted
    <3>2. \A k \in Names : k[1] = p => (k \in Counted' <=> k[2] <= named[p]) /\ (k \in Counted <=> k[2] <= named[p] - pushed[p])
      BY <1>2, <1>6 DEF Counted
    <3>3. \A k \in Names : k[1] = p => (k \in Counted' <=> k \in Counted \/ k \in Fresh)
      BY <1>6, <2>1, <3>2, NameFacts
    <3> QED BY <3>1, <3>3
  <2>3. Counted \subseteq Names /\ Counted' \subseteq Names /\ Fresh \subseteq Names
    BY <2>1 DEF Counted
  <2>4. \A k \in Counted : k \notin Fresh
    BY <1>6, <2>1, NameFacts DEF Counted
  <2> QED BY <2>2, <2>3, <2>4
<1>8. IsFiniteSet(Counted') /\ counted' = Cardinality(Counted')
  <2>1. IsFiniteSet(Fresh) /\ Cardinality(Fresh) = pushed[p]
    <3>1. /\ IsFiniteSet(Fresh)
          /\ Cardinality(Fresh) = IF named[p] - pushed[p] + 1 > named[p] THEN 0 ELSE named[p] - (named[p] - pushed[p] + 1) + 1
      <4>1. PICK a \in Int, b \in Int : a = named[p] - pushed[p] + 1 /\ b = named[p]
        BY <1>6
      <4>2. \A k : k \in Fresh <=> \E n \in a .. b : k = <<p, n>>
        BY <4>1
      <4> HIDE DEF Fresh
      <4>3. IsFiniteSet(Fresh) /\ Cardinality(Fresh) = IF a > b THEN 0 ELSE b - a + 1
        BY <4>2, NamesBetween
      <4> QED BY <4>1, <4>3
    <3> HIDE DEF Fresh
    <3> QED BY <1>6, <3>1
  <2>2. IsFiniteSet(Counted) /\ counted = Cardinality(Counted) /\ Cardinality(Counted) \in Nat
    BY FS_CardinalityType DEF CountersInv
  <2> HIDE DEF Fresh
  <2>3. Cardinality(Counted \cap Fresh) = 0
    BY <1>7, FS_EmptySet
  <2>4. /\ IsFiniteSet(Counted \cup Fresh)
        /\ Cardinality(Counted \cup Fresh) = Cardinality(Counted) + Cardinality(Fresh) - Cardinality(Counted \cap Fresh)
    BY <2>1, <2>2, FS_Union
  <2>5. Cardinality(Counted \cup Fresh) = counted + pushed[p]
    BY <1>6, <2>1, <2>2, <2>3, <2>4
  <2> QED BY <1>2, <1>7, <2>4, <2>5
<1> HIDE DEF Fresh
<1>9. LoopTypeOK'
  BY <1>2, <1>3, <1>4 DEF LoopTypeOK
<1>10. EntriesInv'
  BY <1>2, <1>4, <1>5 DEF EntriesInv
<1>11. StopInv'
  BY <1>2, <1>4, <1>5 DEF StopInv
<1>12. CountersInv'
  BY <1>2, <1>6, <1>8 DEF CountersInv
<1>13. FlushInv'
  BY <1>2, <1>4, <1>5 DEF FlushInv, OwedFirst
<1> QED BY <1>9, <1>10, <1>11, <1>12, <1>13

\* Between two posts, the counter is the number of names given out.
LEMMA FlushBeginStep ==
  ASSUME LoopAssumption, LoopInv, FlushBegin
  PROVE  LoopInv'
<1> USE DEF LoopInv
<1>1. /\ UNCHANGED <<entries, stopping, at, pushed, named, held, handled, due, force, counted, processed>>
      /\ at["owner"] = "started" /\ target' = counted
      /\ owed' = IF \A p \in Posters : at[p] = "idle"
                 THEN UNION {{<<p, n>> : n \in 1 .. named[p]} : p \in Posters} ELSE {}
  BY DEF FlushBegin, loopVars
<1>2. IsFiniteSet(Counted) /\ counted = Cardinality(Counted) /\ counted \in Nat
  BY FS_CardinalityType DEF CountersInv
<1>3. Issued' = Issued /\ Queued' = Queued /\ Counted' = Counted /\ \A q \in Posters : Pending(q)' = Pending(q)
  BY <1>1 DEF Issued, Queued, Counted, Pending
<1>4. LoopTypeOK'
  BY <1>1, <1>2 DEF LoopTypeOK
<1>5. EntriesInv' /\ StopInv' /\ CountersInv'
  BY <1>1, <1>3 DEF EntriesInv, StopInv, CountersInv
<1>6. FlushInv'
  <2> SUFFICES ASSUME \A p \in Posters : at[p] = "idle",
                      owed' = UNION {{<<p, n>> : n \in 1 .. named[p]} : p \in Posters}
               PROVE  FlushInv'
    BY <1>1 DEF FlushInv
  <2>1. \A p \in Posters : Pending(p) = 0 /\ named[p] \in Nat
    BY DEF Pending, LoopTypeOK
  <2>2. \A k : k \in owed' <=> k \in Names /\ k[2] <= named[k[1]]
    BY <2>1, NameFacts DEF Names
  <2>3. owed' = Issued
    BY <2>2 DEF Issued
  <2>4. \A k \in Names : k \in Counted <=> k \in Issued
    BY <2>1, NameFacts DEF Counted, Issued
  <2>5. owed' = Counted
    BY <2>3, <2>4 DEF Counted, Issued
  <2>6. OwedFirst'
    <3>1. handled' \subseteq owed' /\ held' \in owed' \cup {NoEntry}
      BY <1>1, <2>3 DEF StopInv
    <3>2. \A i \in DOMAIN entries : Name(entries[i]) \in owed'
      BY <1>1, <2>3 DEF EntriesInv, Queued
    <3> QED BY <1>1, <3>1, <3>2 DEF OwedFirst
  <2> QED BY <1>1, <1>2, <1>3, <2>3, <2>5, <2>6 DEF FlushInv
<1> QED BY <1>4, <1>5, <1>6

LEMMA FlushDoneStep ==
  ASSUME LoopInv, FlushDone
  PROVE  LoopInv'
<1>1. /\ UNCHANGED <<entries, stopping, at, pushed, named, held, handled, due, force, counted, processed>>
      /\ target' = -1 /\ owed' = {}
  BY DEF FlushDone, loopVars
<1>2. Issued' = Issued /\ Queued' = Queued /\ Counted' = Counted /\ \A q \in Posters : Pending(q)' = Pending(q)
  BY <1>1 DEF Issued, Queued, Counted, Pending
<1> QED BY <1>1, <1>2 DEF LoopInv, LoopTypeOK, EntriesInv, StopInv, CountersInv, FlushInv

-----------------------------------------------------------------------------
\* Every step of the loop and its user keeps the invariant ...
LEMMA LoopStep ==
  ASSUME LoopAssumption, LoopInv, [LoggerNext]_<<loopVars, loggerVars>>
  PROVE  LoopInv'
<1>1. CASE LoopNext /\ UNCHANGED loggerVars
  <2>1. CASE \E p \in Posters : PostBegin(p) \/ PosterNext(p)
    <3>1. PICK p \in Posters : PostBegin(p) \/ PosterNext(p)
      BY <2>1
    <3>2. CASE PostBegin(p) \/ PublishEntry(p) \/ GiveUp(p) \/ Signal(p) \/ Notify(p)
      BY <1>1, <3>2, PosterQuiet, QuietStep DEF LoopInv
    <3>3. CASE Claim(p)
      BY <1>1, <3>3, ClaimStep
    <3>4. CASE Count(p)
      BY <1>1, <3>4, CountStep
    <3> QED BY <3>1, <3>2, <3>3, <3>4 DEF PosterNext
  <2>2. CASE WorkerNext
    <3>1. CASE DrainEnds \/ CheckStop \/ WorkerExit \/ Snapshot \/ SecondLookFails \/ WaitWake
      BY <1>1, <3>1, WorkerQuiet, QuietStep DEF LoopInv
    <3>2. CASE DrainOne
      BY <1>1, <3>2, DrainStep
    <3>3. CASE HandlerReturns
      BY <1>1, <3>3, HandlerStep
    <3> QED BY <2>2, <3>1, <3>2, <3>3 DEF WorkerNext
  <2>3. CASE Start \/ StopBegin \/ OwnerNext
    BY <1>1, <2>3, OwnerQuiet, QuietStep DEF LoopInv, OwnerNext
  <2> QED BY <1>1, <2>1, <2>2, <2>3 DEF LoopNext
<1>2. CASE FlushBegin
  BY <1>2, FlushBeginStep
<1>3. CASE FlushDone
  BY <1>3, FlushDoneStep
<1>4. CASE UNCHANGED <<loopVars, loggerVars>>
  <2>1. UNCHANGED <<entries, stopping, at, pushed, named, held, handled, due, force, counted, processed, target, owed>>
    BY <1>4 DEF loopVars, loggerVars
  <2>2. Issued' = Issued /\ Queued' = Queued /\ Counted' = Counted /\ \A q \in Posters : Pending(q)' = Pending(q)
    BY <2>1 DEF Issued, Queued, Counted, Pending
  <2> QED BY <2>1, <2>2 DEF LoopInv, LoopTypeOK, EntriesInv, StopInv, CountersInv, FlushInv, OwedFirst
<1> QED BY <1>1, <1>2, <1>3, <1>4 DEF LoggerNext

\* ... and the invariant says what stop() and flush() promise.
LEMMA LoopFacts == LoopInv => GracefulStopDrains /\ QuietFlushSeesAll
<1> SUFFICES ASSUME LoopInv PROVE GracefulStopDrains /\ QuietFlushSeesAll
  OBVIOUS
<1> USE DEF LoopInv
<1>1. GracefulStopDrains
  BY DEF GracefulStopDrains, StopInv
<1>2. QuietFlushSeesAll
  <2> SUFFICES ASSUME target >= 0, processed >= target, owed # {}, handled \subseteq owed
               PROVE  owed \subseteq handled
    BY DEF QuietFlushSeesAll, FlushInv, OwedFirst
  <2>1. IsFiniteSet(owed) /\ Cardinality(owed) \in Nat /\ Cardinality(handled) \in Nat
        /\ Cardinality(handled) >= Cardinality(owed)
    BY FS_CardinalityType DEF FlushInv, CountersInv, LoopTypeOK
  <2>2. Cardinality(handled) <= Cardinality(owed) /\ (Cardinality(owed) = Cardinality(handled) => owed = handled)
    BY <2>1, FS_Subset
  <2> QED BY <2>1, <2>2
<1> QED BY <1>1, <1>2

-----------------------------------------------------------------------------
(* The segmented queues.                                                    *)

LEMMA SegmentSides ==
  ASSUME SegmentAssumption, SegmentTypeOK
  PROVE  /\ Pushers \cap Poppers = {} /\ Users = Pushers \cup Poppers
         /\ Pushes[kind] \in Nat /\ Pops[kind] \in Nat
         /\ ~ManyPop => \A a, b \in Poppers : a = b
BY DEF SegmentAssumption, SegmentTypeOK, Kinds, ManyPop, Pushers, Poppers, Users

LEMMA SegmentTyped ==
  ASSUME SegmentTypeOK
  PROVE  /\ enq \in Nat /\ enq <= Pushes[kind] /\ deq \in Nat /\ deq <= enq
         /\ last \in Nat /\ head \in 0 .. last /\ tail \in 0 .. last
         /\ \A t \in Users : pos[t] \in Nat /\ block[t] \in 0 .. last
         /\ \A p \in Pushers : pc[p] \in PushPc
         /\ \A c \in Poppers : pc[c] \in PopPc
BY DEF SegmentTypeOK

\* A block begins where the one before it ends.
LEMMA BaseFacts ==
  ASSUME SegmentAssumption, kind \in Kinds
  PROVE  /\ \A b \in Nat : Base(b) \in Nat /\ Base(b) < Base(b + 1)
         /\ \A a, b \in Nat : Base(a) < Base(b) => a < b
         /\ \A a, b \in Nat : a <= b => Base(a) <= Base(b)
         /\ Base(0) = 0
<1>1. BlockSize[kind] \in Nat /\ BlockSize[kind] > 0
  BY DEF SegmentAssumption
<1>2. \A b \in Nat : Base(b) \in Nat /\ Base(b) < Base(b + 1)
  BY <1>1 DEF Base
<1>3. \A a, b \in Nat : a <= b => Base(a) <= Base(b)
  BY <1>1 DEF Base
<1>4. \A a, b \in Nat : Base(a) < Base(b) => a < b
  BY <1>2, <1>3
<1> QED BY <1>1, <1>2, <1>3, <1>4 DEF Base

SameQueue ==
  /\ kind' = kind /\ Pushers' = Pushers /\ Poppers' = Poppers /\ Users' = Users
  /\ Tickets' = Tickets /\ ManyPop' = ManyPop /\ \A b : Base(b)' = Base(b)

LEMMA SameQueueFacts == ASSUME kind' = kind PROVE SameQueue
BY DEF SameQueue, Pushers, Poppers, Users, Tickets, ManyPop, Base

\* In a step of one thread the others stay where they are.
OneMoves(x) ==
  \A t \in Users \ {x} :
    pc'[t] = pc[t] /\ pos'[t] = pos[t] /\ begun'[t] = begun[t] /\ block'[t] = block[t]

LEMMA PushItem ==
  ASSUME SegmentTypeOK, NEW p \in Pushers, begun[p] \in 1 .. Pushes[kind]
  PROVE  Item(p) \in AllItems
BY DEF Item, AllItems, Pushers, SegmentTypeOK

\* What is said of slots stays when a thread moves on in its call, or takes up
\* one of try_pop, and no slot changes.
LEMMA Walks ==
  ASSUME SegmentAssumption, SegmentTypeOK, WritersInv, ReadersInv, PhasesInv, SameQueue,
         enq' = enq, deq' = deq, phase' = phase, cell' = cell,
         NEW x \in Users, OneMoves(x),
         x \in Pushers => /\ pc[x] # "idle" /\ pc'[x] \notin {"idle", "publish"}
                          /\ pos'[x] = pos[x] /\ begun'[x] = begun[x],
         x \in Poppers => /\ pc[x] \in {"head", "walk", "rewalk"} <=> pc'[x] \in {"head", "walk", "rewalk"}
                          /\ pc[x] \in {"head", "walk", "rewalk"} => pos'[x] = pos[x]
                          /\ pc'[x] # "retire"
                          /\ pc'[x] = "claim" => pos'[x] < enq
  PROVE  WritersInv' /\ ReadersInv' /\ PhasesInv'
<1>1. Pushers \cap Poppers = {} /\ Users = Pushers \cup Poppers
  BY SegmentSides
<1>2. \A p \in Pushers : pc'[p] # "idle" <=> pc[p] # "idle"
  BY <1>1 DEF OneMoves
<1>3. \A p \in Pushers : pc[p] # "idle" => pos'[p] = pos[p] /\ Item(p)' = Item(p)
  BY <1>1 DEF OneMoves, Item
<1>4. ASSUME NEW t PROVE Writing(t)' = Writing(t)
  BY <1>2, <1>3 DEF Writing, SameQueue
<1>5. WritersInv'
  <2> SUFFICES ASSUME NEW p \in Pushers, pc'[p] # "idle"
               PROVE  /\ pos'[p] < enq /\ phase[pos'[p]] = "free"
                      /\ pc'[p] = "publish" => cell[pos'[p]] = Item(p)'
                      /\ \A q \in Writing(pos[p]) : q = p
    BY <1>3, <1>2, <1>4 DEF WritersInv, SameQueue
  <2>1. pc'[p] = "publish" => pc[p] = "publish"
    BY <1>1 DEF OneMoves
  <2> QED BY <1>2, <1>3, <2>1 DEF WritersInv
<1>6. \A c \in Poppers : /\ pc'[c] \in Claimed => pc[c] \in Claimed /\ pos'[c] = pos[c]
                         /\ pc'[c] = "retire" => pc[c] = "retire"
                         /\ pc'[c] = "claim" => pos'[c] < enq
                         /\ pc[c] \in {"head", "walk", "rewalk"} =>
                              pc'[c] \in {"head", "walk", "rewalk"} /\ pos'[c] = pos[c]
  BY <1>1 DEF OneMoves, Claimed, ReadersInv
<1>7. ReadersInv'
  <2> SUFFICES ASSUME NEW c \in Poppers
               PROVE  /\ pc'[c] \in Claimed =>
                           /\ pos'[c] < deq /\ phase[pos'[c]] # "taken"
                           /\ \A d \in Poppers : pc'[d] \in Claimed /\ pos'[d] = pos'[c] => d = c
                      /\ pc'[c] = "retire" => phase[pos'[c]] = "full"
                      /\ pc'[c] = "claim" => pos'[c] < enq
    BY DEF ReadersInv, SameQueue, Claimed
  <2> QED BY <1>6 DEF ReadersInv, Claimed
<1>8. PhasesInv'
  <2>1. \A t \in 0 .. enq - 1 : phase[t] = "free" => Writing(t)' # {}
    BY <1>4 DEF PhasesInv
  <2>2. ASSUME NEW p \in Pushers, pc'[p] # "idle", pos'[p] < deq
        PROVE  \E c \in Poppers : pc'[c] \in {"head", "walk", "rewalk"} /\ pos'[c] = pos'[p]
    <3>1. PICK c \in Poppers : pc[c] \in {"head", "walk", "rewalk"} /\ pos[c] = pos[p]
      BY <1>2, <1>3, <2>2 DEF PhasesInv
    <3> QED BY <3>1, <1>2, <1>3, <1>6, <2>2
  <2> QED BY <2>1, <2>2 DEF PhasesInv, SameQueue
<1> QED BY <1>5, <1>7, <1>8

LEMMA SegmentParts ==
  ASSUME SegmentInv
  PROVE  /\ SegmentTypeOK /\ WritersInv /\ ReadersInv /\ PhasesInv /\ BlocksInv /\ kind \in Kinds
         /\ ~ManyPop => HeadInv
BY DEF SegmentInv, SegmentTypeOK

LEMMA SegmentWhole ==
  ASSUME SegmentTypeOK', WritersInv' /\ ReadersInv' /\ PhasesInv', BlocksInv', SameQueue, ~ManyPop => HeadInv'
  PROVE  SegmentInv'
BY DEF SegmentInv, SameQueue

\* A list that grows, and one thread on it.
LEMMA HeadOfOthers ==
  ASSUME HeadInv, SameQueue, head' = head, deq' = deq, Users = Pushers \cup Poppers,
         NEW p \in Pushers, p \notin Poppers, OneMoves(p), pc'[p] # "idle" => Base(head) <= pos'[p]
  PROVE  HeadInv'
<1>1. \A c \in Poppers : pc'[c] = pc[c] /\ pos'[c] = pos[c] /\ block'[c] = block[c]
  BY DEF OneMoves
<1>2. \A q \in Pushers : pc'[q] # "idle" => Base(head) <= pos'[q]
  BY DEF OneMoves, HeadInv
<1>3. Base(head)' = Base(head) /\ Base(head + 1)' = Base(head + 1)
  BY DEF SameQueue
<1> QED BY <1>1, <1>2, <1>3 DEF HeadInv, SameQueue

LEMMA HeadOfReader ==
  ASSUME HeadInv, SameQueue, Users = Pushers \cup Poppers, NEW c \in Poppers, c \notin Pushers, OneMoves(c),
         \A d \in Poppers : d = c,
         Base(head') <= deq', \A p \in Pushers : pc[p] # "idle" => Base(head') <= pos[p],
         /\ pc'[c] # "rewalk"
         /\ pc'[c] \in {"compare", "claim"} => pos'[c] = deq'
         /\ pc'[c] \in {"head", "walk", "retire", "advance"} => deq' = pos'[c] + 1
         /\ pc'[c] \in {"head", "walk"} => Base(head') <= pos'[c]
         /\ pc'[c] \in {"walk", "retire", "advance"} => block'[c] = head'
         /\ pc'[c] = "advance" => deq' = Base(head' + 1)
  PROVE  HeadInv'
<1>1. \A q \in Pushers : pc'[q] # "idle" => Base(head') <= pos'[q]
  BY DEF OneMoves, HeadInv
<1>3. Base(head)' = Base(head') /\ Base(head + 1)' = Base(head' + 1)
  BY DEF SameQueue
<1> QED BY <1>1, <1>3 DEF HeadInv, SameQueue

LEMMA NextOrLinkInv == ASSUME SegmentAssumption, SegmentInv, NEW p \in Pushers, NextOrLink(p) PROVE SegmentInv'
<1>0. /\ Pushers \cap Poppers = {} /\ Users = Pushers \cup Poppers /\ p \in Users
      /\ ~ManyPop => \A a, b \in Poppers : a = b
  BY SegmentParts, SegmentSides
<1>1. SameQueue /\ OneMoves(p)
  BY <1>0, SegmentParts, SameQueueFacts DEF NextOrLink, Moves, OneMoves, SegmentTypeOK
<1>6. last' \in Nat /\ last <= last' /\ block[p] < last'
  BY <1>0, SegmentParts, SegmentTyped DEF NextOrLink
<1>7. block' \in [Users -> 0 .. last']
  BY <1>0, <1>1, <1>6, SegmentParts DEF NextOrLink, SameQueue, SegmentTypeOK
<1>2. SegmentTypeOK'
  BY <1>0, <1>1, <1>6, <1>7, SegmentParts DEF NextOrLink, Moves, SegmentTypeOK, SameQueue, PushPc
<1>3. WritersInv' /\ ReadersInv' /\ PhasesInv'
  BY <1>0, <1>1, SegmentParts, Walks DEF NextOrLink, Moves, SegmentTypeOK
<1>4. BlocksInv'
  <2>1. Base(last) <= Base(last') /\ Base(last) \in Nat /\ Base(last') \in Nat
    BY <1>6, SegmentParts, SegmentTyped, BaseFacts
  <2>2. \A t \in Users : pc'[t] = "rewalk" => pc[t] = "rewalk"
    BY <1>1 DEF NextOrLink, Moves, OneMoves, SegmentTypeOK
  <2>3. \A q \in Pushers : pc'[q] = "swing" => q = p \/ pc[q] = "swing"
    BY <1>0, <1>1 DEF OneMoves
  <2>4. \A b : Base(b)' = Base(b)
    BY <1>1 DEF SameQueue
  <2>5. \A t \in Users : pos[t] \in Nat /\ pos'[t] = pos[t] /\ block'[t] = block[t]
    BY SegmentParts, SegmentTyped DEF NextOrLink
  <2>6. \A t \in Users : pc[t] = "rewalk" => Base(block[t]) <= pos[t] /\ pos[t] < Base(last')
    BY <2>1, <2>5, SegmentParts DEF BlocksInv
  <2>7. \A q \in Pushers : pc'[q] = "swing" => block'[q] < last'
    BY <1>0, <1>6, <2>3, <2>5, SegmentParts, SegmentTyped DEF BlocksInv
  <2> QED BY <1>1, <2>2, <2>4, <2>5, <2>6, <2>7 DEF BlocksInv, SameQueue
<1>5. ~ManyPop => HeadInv'
  BY <1>0, <1>1, SegmentParts, HeadOfOthers DEF NextOrLink, HeadInv, Moves
<1> QED BY <1>1, <1>2, <1>3, <1>4, <1>5, SegmentWhole

LEMMA LoadTailInv == ASSUME SegmentAssumption, SegmentInv, NEW p \in Pushers, LoadTail(p) PROVE SegmentInv'
<1>0. /\ Pushers \cap Poppers = {} /\ Users = Pushers \cup Poppers /\ p \in Users
      /\ ~ManyPop => \A a, b \in Poppers : a = b
  BY SegmentParts, SegmentSides
<1>1. SameQueue /\ OneMoves(p)
  BY <1>0, SegmentParts, SameQueueFacts DEF LoadTail, Moves, OneMoves, SegmentTypeOK
<1>2. SegmentTypeOK'
  BY <1>0, <1>1, SegmentParts, SegmentTyped DEF LoadTail, Moves, SegmentTypeOK, SameQueue, PushPc
<1>3. WritersInv' /\ ReadersInv' /\ PhasesInv'
  BY <1>0, <1>1, SegmentParts, SegmentTyped, Walks DEF LoadTail, Moves, SegmentTypeOK
<1>4. BlocksInv'
  BY <1>0, <1>1, SegmentParts DEF LoadTail, Moves, BlocksInv, OneMoves, SameQueue, SegmentTypeOK
<1>5. ~ManyPop => HeadInv'
  BY <1>0, <1>1, SegmentParts, HeadOfOthers DEF LoadTail, HeadInv, Moves
<1> QED BY <1>1, <1>2, <1>3, <1>4, <1>5, SegmentWhole

LEMMA SwingTailInv == ASSUME SegmentAssumption, SegmentInv, NEW p \in Pushers, SwingTail(p) PROVE SegmentInv'
<1>0. /\ Pushers \cap Poppers = {} /\ Users = Pushers \cup Poppers /\ p \in Users
      /\ ~ManyPop => \A a, b \in Poppers : a = b
  BY SegmentParts, SegmentSides
<1>1. SameQueue /\ OneMoves(p)
  BY <1>0, SegmentParts, SameQueueFacts DEF SwingTail, Moves, OneMoves, SegmentTypeOK
<1>6. block[p] \in Nat /\ block[p] < last /\ tail' \in 0 .. last
  BY <1>0, SegmentParts, SegmentTyped DEF SwingTail, Moves, BlocksInv
<1>7. block' \in [Users -> 0 .. last']
  BY <1>0, <1>1, <1>6, SegmentParts DEF SwingTail, SameQueue, SegmentTypeOK
<1>2. SegmentTypeOK'
  BY <1>0, <1>1, <1>6, <1>7, SegmentParts DEF SwingTail, Moves, SegmentTypeOK, SameQueue, PushPc
<1>3. WritersInv' /\ ReadersInv' /\ PhasesInv'
  BY <1>0, <1>1, SegmentParts, SegmentTyped, Walks DEF SwingTail, Moves, SegmentTypeOK
<1>4. BlocksInv'
  BY <1>0, <1>1, SegmentParts DEF SwingTail, Moves, BlocksInv, OneMoves, SameQueue, SegmentTypeOK
<1>5. ~ManyPop => HeadInv'
  BY <1>0, <1>1, SegmentParts, HeadOfOthers DEF SwingTail, HeadInv, Moves
<1> QED BY <1>1, <1>2, <1>3, <1>4, <1>5, SegmentWhole

LEMMA PushFallBackInv == ASSUME SegmentAssumption, SegmentInv, NEW p \in Pushers, PushFallBack(p) PROVE SegmentInv'
<1>0. /\ Pushers \cap Poppers = {} /\ Users = Pushers \cup Poppers /\ p \in Users
      /\ ~ManyPop => \A a, b \in Poppers : a = b
  BY SegmentParts, SegmentSides
<1>1. SameQueue /\ OneMoves(p)
  BY <1>0, SegmentParts, SameQueueFacts DEF PushFallBack, Moves, OneMoves, SegmentTypeOK
<1>6. block'[p] \in 0 .. last /\ Base(block'[p]) <= pos[p] /\ pos[p] < Base(last)
  <2>1. pos[p] \in Nat /\ block[p] \in Nat /\ block[p] <= last /\ last \in Nat
    BY <1>0, SegmentParts, SegmentTyped
  <2>2. pos[p] < Base(last)
    <3>1. Base(block[p]) <= Base(last) /\ Base(block[p]) \in Nat /\ Base(last) \in Nat
      BY <2>1, SegmentParts, BaseFacts
    <3> QED BY <2>1, <3>1 DEF PushFallBack, Before
  <2>3. block'[p] = IF ManyPop THEN 0 ELSE head
    BY <1>0, SegmentParts DEF PushFallBack, SegmentTypeOK
  <2>4. ~ManyPop => Base(head) <= pos[p] /\ head \in 0 .. last
    BY SegmentParts, SegmentTyped DEF HeadInv, PushFallBack, Moves
  <2>5. Base(0) = 0
    BY SegmentParts, BaseFacts
  <2> QED BY <2>1, <2>2, <2>3, <2>4, <2>5
<1>7. block' \in [Users -> 0 .. last']
  BY <1>0, <1>1, <1>6, SegmentParts DEF PushFallBack, SameQueue, SegmentTypeOK
<1>2. SegmentTypeOK'
  BY <1>0, <1>1, <1>6, <1>7, SegmentParts DEF PushFallBack, Moves, SegmentTypeOK, SameQueue, PushPc
<1>3. WritersInv' /\ ReadersInv' /\ PhasesInv'
  BY <1>0, <1>1, SegmentParts, SegmentTyped, Walks DEF PushFallBack, Moves, SegmentTypeOK
<1>4. BlocksInv'
  <2>1. \A t \in Users : pos'[t] = pos[t] /\ (t # p => pc'[t] = pc[t] /\ block'[t] = block[t]) /\ pc'[p] = "rewalk"
    BY <1>0, <1>1, SegmentParts DEF PushFallBack, OneMoves, Moves, SegmentTypeOK
  <2>2. last' = last /\ \A b : Base(b)' = Base(b)
    BY <1>1 DEF SameQueue, PushFallBack
  <2> QED BY <1>0, <1>1, <1>6, <2>1, <2>2, SegmentParts DEF BlocksInv, SameQueue
<1>5. ~ManyPop => HeadInv'
  BY <1>0, <1>1, SegmentParts, HeadOfOthers DEF PushFallBack, HeadInv, Moves
<1> QED BY <1>1, <1>2, <1>3, <1>4, <1>5, SegmentWhole

LEMMA RewalkInv == ASSUME SegmentAssumption, SegmentInv, NEW t \in Users, Rewalk(t) PROVE SegmentInv'
<1>0. /\ Pushers \cap Poppers = {} /\ Users = Pushers \cup Poppers /\ t \in Users
      /\ ~ManyPop => \A a, b \in Poppers : a = b
  BY SegmentParts, SegmentSides
<1>1. SameQueue /\ OneMoves(t)
  BY <1>0, SegmentParts, SameQueueFacts DEF Rewalk, Moves, OneMoves, SegmentTypeOK
<1>6. /\ block'[t] = block[t] + 1 /\ block'[t] \in 0 .. last /\ Base(block'[t]) <= pos[t]
      /\ pc[t] = "rewalk" /\ pos[t] < Base(last)
  <2>1. pos[t] \in Nat /\ block[t] \in Nat /\ last \in Nat
    BY SegmentParts, SegmentTyped
  <2>2. Base(block[t] + 1) <= pos[t] /\ pos[t] < Base(last) /\ block'[t] = block[t] + 1
    BY <2>1, SegmentParts DEF Rewalk, Beyond, BlocksInv, SegmentTypeOK
  <2>3. Base(block[t] + 1) < Base(last)
    <3>1. Base(block[t] + 1) \in Nat /\ Base(last) \in Nat
      BY <2>1, SegmentParts, BaseFacts
    <3> QED BY <2>1, <2>2, <3>1
  <2>4. block[t] + 1 < last
    BY <2>1, <2>3, SegmentParts, BaseFacts
  <2> QED BY <2>1, <2>2, <2>4 DEF Rewalk
<1>7. block' \in [Users -> 0 .. last']
  BY <1>0, <1>1, <1>6, SegmentParts DEF Rewalk, SameQueue, SegmentTypeOK
<1>2. SegmentTypeOK'
  BY <1>0, <1>1, <1>7, SegmentParts DEF Rewalk, SegmentTypeOK, SameQueue
<1>3. WritersInv' /\ ReadersInv' /\ PhasesInv'
  BY <1>0, <1>1, <1>6, SegmentParts, Walks DEF Rewalk
<1>4. BlocksInv'
  <2>1. \A u \in Users : pos'[u] = pos[u] /\ pc'[u] = pc[u] /\ (u # t => block'[u] = block[u])
    BY <1>0, <1>1, SegmentParts DEF Rewalk, OneMoves
  <2>2. last' = last /\ \A b : Base(b)' = Base(b)
    BY <1>1 DEF SameQueue, Rewalk
  <2> QED BY <1>0, <1>1, <1>6, <2>1, <2>2, SegmentParts DEF BlocksInv, SameQueue
<1>5. ~ManyPop => HeadInv'
  <2> SUFFICES ASSUME ~ManyPop PROVE HeadInv'
    OBVIOUS
  <2>1. t \in Pushers
    BY <1>0, <1>6, SegmentParts DEF HeadInv
  <2> QED BY <1>0, <1>1, <1>6, <2>1, SegmentParts, HeadOfOthers DEF Rewalk, HeadInv
<1> QED BY <1>1, <1>2, <1>3, <1>4, <1>5, SegmentWhole

LEMMA PopBeginInv == ASSUME SegmentAssumption, SegmentInv, NEW c \in Poppers, PopBegin(c) PROVE SegmentInv'
<1>0. /\ Pushers \cap Poppers = {} /\ Users = Pushers \cup Poppers /\ c \in Users
      /\ ~ManyPop => \A a, b \in Poppers : a = b
  BY SegmentParts, SegmentSides
<1>1. SameQueue /\ OneMoves(c)
  BY <1>0, SegmentParts, SameQueueFacts DEF PopBegin, Moves, OneMoves, SegmentTypeOK
<1>2. SegmentTypeOK'
  BY <1>0, <1>1, SegmentParts, SegmentTyped DEF PopBegin, Moves, SegmentTypeOK, SameQueue, PopPc
<1>3. WritersInv' /\ ReadersInv' /\ PhasesInv'
  BY <1>0, <1>1, SegmentParts, SegmentTyped, Walks DEF PopBegin, Moves, SegmentTypeOK
<1>4. BlocksInv'
  BY <1>0, <1>1, SegmentParts DEF PopBegin, Moves, BlocksInv, OneMoves, SameQueue, SegmentTypeOK
<1>5. ~ManyPop => HeadInv'
  <2> SUFFICES ASSUME ~ManyPop PROVE HeadInv'
    OBVIOUS
  <2> QED BY <1>0, <1>1, SegmentParts, HeadOfReader DEF PopBegin, Moves, HeadInv, SegmentTypeOK
<1> QED BY <1>1, <1>2, <1>3, <1>4, <1>5, SegmentWhole

LEMMA CompareInv == ASSUME SegmentAssumption, SegmentInv, NEW c \in Poppers, Compare(c) PROVE SegmentInv'
<1>0. /\ Pushers \cap Poppers = {} /\ Users = Pushers \cup Poppers /\ c \in Users
      /\ ~ManyPop => \A a, b \in Poppers : a = b
  BY SegmentParts, SegmentSides
<1>1. SameQueue /\ OneMoves(c)
  BY <1>0, SegmentParts, SameQueueFacts DEF Compare, Moves, OneMoves, SegmentTypeOK
<1>2. SegmentTypeOK'
  BY <1>0, <1>1, SegmentParts, SegmentTyped DEF Compare, Moves, SegmentTypeOK, SameQueue, PopPc
<1>6. pc'[c] \in {"idle", "claim"} /\ (pc'[c] = "claim" => pos[c] < enq) /\ pc[c] = "compare"
  <2>1. pos[c] \in Nat /\ enq \in Nat
    BY <1>0, SegmentParts, SegmentTyped
  <2> QED BY <1>0, <2>1, SegmentParts DEF Compare, Moves, SegmentTypeOK
<1>3. WritersInv' /\ ReadersInv' /\ PhasesInv'
  BY <1>0, <1>1, <1>6, SegmentParts, Walks DEF Compare
<1>4. BlocksInv'
  BY <1>0, <1>1, SegmentParts DEF Compare, Moves, BlocksInv, OneMoves, SameQueue, SegmentTypeOK
<1>5. ~ManyPop => HeadInv'
  <2> SUFFICES ASSUME ~ManyPop PROVE HeadInv'
    OBVIOUS
  <2> QED BY <1>0, <1>1, SegmentParts, HeadOfReader, <1>6 DEF Compare, Moves, HeadInv, SegmentTypeOK
<1> QED BY <1>1, <1>2, <1>3, <1>4, <1>5, SegmentWhole

LEMMA LoadHeadInv == ASSUME SegmentAssumption, SegmentInv, NEW c \in Poppers, LoadHead(c) PROVE SegmentInv'
<1>0. /\ Pushers \cap Poppers = {} /\ Users = Pushers \cup Poppers /\ c \in Users
      /\ ~ManyPop => \A a, b \in Poppers : a = b
  BY SegmentParts, SegmentSides
<1>1. SameQueue /\ OneMoves(c)
  BY <1>0, SegmentParts, SameQueueFacts DEF LoadHead, Moves, OneMoves, SegmentTypeOK
<1>2. SegmentTypeOK'
  BY <1>0, <1>1, SegmentParts, SegmentTyped DEF LoadHead, Moves, SegmentTypeOK, SameQueue, PopPc
<1>3. WritersInv' /\ ReadersInv' /\ PhasesInv'
  BY <1>0, <1>1, SegmentParts, SegmentTyped, Walks DEF LoadHead, Moves, SegmentTypeOK
<1>4. BlocksInv'
  BY <1>0, <1>1, SegmentParts DEF LoadHead, Moves, BlocksInv, OneMoves, SameQueue, SegmentTypeOK
<1>5. ~ManyPop => HeadInv'
  <2> SUFFICES ASSUME ~ManyPop PROVE HeadInv'
    OBVIOUS
  <2> QED BY <1>0, <1>1, SegmentParts, HeadOfReader DEF LoadHead, Moves, HeadInv, SegmentTypeOK
<1> QED BY <1>1, <1>2, <1>3, <1>4, <1>5, SegmentWhole

LEMMA WalkHeadInv == ASSUME SegmentAssumption, SegmentInv, NEW c \in Poppers, WalkHead(c) PROVE SegmentInv'
<1>0. /\ Pushers \cap Poppers = {} /\ Users = Pushers \cup Poppers /\ c \in Users
      /\ ~ManyPop => \A a, b \in Poppers : a = b
  BY SegmentParts, SegmentSides
<1>1. SameQueue /\ OneMoves(c)
  BY <1>0, SegmentParts, SameQueueFacts DEF WalkHead, Moves, OneMoves, SegmentTypeOK
<1>6. block'[c] = block[c] + 1 /\ block'[c] \in 0 .. last /\ head' \in 0 .. last
  BY <1>0, SegmentParts, SegmentTyped DEF WalkHead, SegmentTypeOK
<1>7. block' \in [Users -> 0 .. last']
  BY <1>0, <1>1, <1>6, SegmentParts DEF WalkHead, SameQueue, SegmentTypeOK
<1>2. SegmentTypeOK'
  BY <1>0, <1>1, <1>6, <1>7, SegmentParts DEF WalkHead, SegmentTypeOK, SameQueue
<1>3. WritersInv' /\ ReadersInv' /\ PhasesInv'
  BY <1>0, <1>1, SegmentParts, Walks DEF WalkHead
<1>4. BlocksInv'
  <2>1. \A u \in Users : pos'[u] = pos[u] /\ pc'[u] = pc[u] /\ (u # c => block'[u] = block[u]) /\ pc[c] = "walk"
    BY <1>0, <1>1, SegmentParts DEF WalkHead, OneMoves
  <2>2. last' = last /\ \A b : Base(b)' = Base(b)
    BY <1>1 DEF SameQueue, WalkHead
  <2> QED BY <1>0, <1>1, <2>1, <2>2, SegmentParts DEF BlocksInv, SameQueue
<1>5. ~ManyPop => HeadInv'
  <2> SUFFICES ASSUME ~ManyPop PROVE HeadInv'
    OBVIOUS
  <2>1. pc[c] = "walk" /\ pc' = pc /\ head' = block[c] + 1 /\ head' = block'[c] /\ Base(head') <= pos[c]
    BY <1>6 DEF WalkHead, Beyond
  <2>2. deq = pos[c] + 1 /\ deq' = deq /\ pos' = pos
    BY <2>1, SegmentParts DEF HeadInv, WalkHead
  <2>3. pos[c] \in Nat /\ head' \in Nat /\ \A p \in Pushers : pos[p] \in Nat
    BY <1>0, <1>6, SegmentParts, SegmentTyped
  <2>4. Base(head') \in Nat
    BY <2>3, SegmentParts, BaseFacts
  <2>5. ASSUME NEW p \in Pushers, pc[p] # "idle" PROVE Base(head') <= pos[p]
    <3>1. pos[p] < deq => pos[p] = pos[c]
      BY <1>0, <2>5, SegmentParts DEF PhasesInv
    <3> QED BY <2>1, <2>2, <2>3, <2>4, <3>1
  <2>6. Base(head') <= deq'
    BY <2>1, <2>2, <2>3, <2>4
  <2> QED BY <1>0, <1>1, <2>1, <2>2, <2>5, <2>6, SegmentParts, HeadOfReader
<1> QED BY <1>1, <1>2, <1>3, <1>4, <1>5, SegmentWhole

LEMMA PopFallBackInv == ASSUME SegmentAssumption, SegmentInv, NEW c \in Poppers, PopFallBack(c) PROVE SegmentInv'
<1>0. /\ Pushers \cap Poppers = {} /\ Users = Pushers \cup Poppers /\ c \in Users
      /\ ~ManyPop => \A a, b \in Poppers : a = b
  BY SegmentParts, SegmentSides
<1>1. SameQueue /\ OneMoves(c)
  BY <1>0, SegmentParts, SameQueueFacts DEF PopFallBack, Moves, OneMoves, SegmentTypeOK
<1>8. ManyPop
  <2> SUFFICES ASSUME ~ManyPop PROVE FALSE
    OBVIOUS
  <2>1. pc[c] = "walk" /\ pos[c] < Base(block[c]) /\ pos[c] \in Nat /\ head \in Nat
    BY <1>0, SegmentParts, SegmentTyped DEF PopFallBack, Moves, Before
  <2>2. block[c] = head /\ Base(head) <= pos[c]
    BY <2>1, SegmentParts DEF HeadInv
  <2>3. Base(head) \in Nat
    BY <2>1, SegmentParts, BaseFacts
  <2> QED BY <2>1, <2>2, <2>3
<1>6. block'[c] = 0 /\ last \in Nat /\ Base(block'[c]) <= pos[c] /\ pos[c] < Base(last)
  <2>1. pos[c] \in Nat /\ block[c] \in Nat /\ block[c] <= last /\ last \in Nat
    BY <1>0, SegmentParts, SegmentTyped
  <2>2. pos[c] < Base(last)
    <3>1. Base(block[c]) <= Base(last) /\ Base(block[c]) \in Nat /\ Base(last) \in Nat
      BY <2>1, SegmentParts, BaseFacts
    <3> QED BY <2>1, <3>1 DEF PopFallBack, Before
  <2>3. block'[c] = 0
    BY <1>0, <1>8, SegmentParts DEF PopFallBack, SegmentTypeOK
  <2>4. Base(0) = 0
    BY SegmentParts, BaseFacts
  <2> QED BY <2>1, <2>2, <2>3, <2>4
<1>7. block' \in [Users -> 0 .. last']
  BY <1>0, <1>1, <1>6, SegmentParts DEF PopFallBack, SameQueue, SegmentTypeOK
<1>2. SegmentTypeOK'
  BY <1>0, <1>1, <1>7, SegmentParts DEF PopFallBack, Moves, SegmentTypeOK, SameQueue, PopPc
<1>3. WritersInv' /\ ReadersInv' /\ PhasesInv'
  BY <1>0, <1>1, SegmentParts, SegmentTyped, Walks DEF PopFallBack, Moves, SegmentTypeOK
<1>4. BlocksInv'
  <2>1. \A t \in Users : pos'[t] = pos[t] /\ (t # c => pc'[t] = pc[t] /\ block'[t] = block[t]) /\ pc'[c] = "rewalk"
    BY <1>0, <1>1, SegmentParts DEF PopFallBack, OneMoves, Moves, SegmentTypeOK
  <2>2. last' = last /\ \A b : Base(b)' = Base(b)
    BY <1>1 DEF SameQueue, PopFallBack
  <2> QED BY <1>0, <1>1, <1>6, <2>1, <2>2, SegmentParts DEF BlocksInv, SameQueue
<1>5. ~ManyPop => HeadInv'
  BY <1>8
<1> QED BY <1>1, <1>2, <1>3, <1>4, <1>5, SegmentWhole

LEMMA AdvanceHeadInv == ASSUME SegmentAssumption, SegmentInv, NEW c \in Poppers, AdvanceHead(c) PROVE SegmentInv'
<1>0. /\ Pushers \cap Poppers = {} /\ Users = Pushers \cup Poppers /\ c \in Users
      /\ ~ManyPop => \A a, b \in Poppers : a = b
  BY SegmentParts, SegmentSides
<1>1. SameQueue /\ OneMoves(c)
  BY <1>0, SegmentParts, SameQueueFacts DEF AdvanceHead, Moves, OneMoves, SegmentTypeOK
<1>6. head' \in 0 .. last /\ pc'[c] = "idle" /\ pc[c] = "advance"
  BY <1>0, SegmentParts, SegmentTyped DEF AdvanceHead, Moves, SegmentTypeOK
<1>2. SegmentTypeOK'
  BY <1>0, <1>1, <1>6, SegmentParts DEF AdvanceHead, Moves, SegmentTypeOK, SameQueue, PopPc
<1>3. WritersInv' /\ ReadersInv' /\ PhasesInv'
  BY <1>0, <1>1, SegmentParts, SegmentTyped, Walks DEF AdvanceHead, Moves, SegmentTypeOK
<1>4. BlocksInv'
  BY <1>0, <1>1, SegmentParts DEF AdvanceHead, Moves, BlocksInv, OneMoves, SameQueue, SegmentTypeOK
<1>5. ~ManyPop => HeadInv'
  <2> SUFFICES ASSUME ~ManyPop PROVE HeadInv'
    OBVIOUS
  <2>1. block[c] = head /\ deq = Base(head + 1) /\ deq' = deq /\ head' \in {head, head + 1}
    BY <1>6, SegmentParts DEF HeadInv, AdvanceHead
  <2>2. \A p \in Pushers : pos[p] \in Nat /\ deq \in Nat /\ head' \in Nat
    BY <1>0, <1>6, SegmentParts, SegmentTyped
  <2>3. \A p \in Pushers : pc[p] # "idle" => deq <= pos[p]
    BY <1>0, <1>6, <2>2, SegmentParts DEF PhasesInv
  <2>4. ASSUME NEW p \in Pushers, pc[p] # "idle" PROVE Base(head') <= pos[p]
    BY <2>1, <2>3, <2>4, SegmentParts DEF HeadInv
  <2>5. Base(head') <= deq'
    BY <2>1, SegmentParts, SegmentTyped DEF HeadInv
  <2> QED BY <1>0, <1>1, <1>6, <2>4, <2>5, SegmentParts, HeadOfReader
<1> QED BY <1>1, <1>2, <1>3, <1>4, <1>5, SegmentWhole

LEMMA PushTicketInv == ASSUME SegmentAssumption, SegmentInv, NEW p \in Pushers, PushTicket(p) PROVE SegmentInv'
<1>0. /\ Pushers \cap Poppers = {} /\ Users = Pushers \cup Poppers /\ p \in Users
      /\ ~ManyPop => \A a, b \in Poppers : a = b
  BY SegmentParts, SegmentSides
<1>1. SameQueue /\ OneMoves(p)
  BY <1>0, SegmentParts, SameQueueFacts DEF PushTicket, Moves, OneMoves, SegmentTypeOK
<1>6. /\ pc[p] = "idle" /\ pc'[p] = "tail" /\ pos'[p] = enq /\ enq' = enq + 1
      /\ deq \in Nat /\ enq \in Nat /\ deq <= enq /\ enq < Pushes[kind] /\ Pushes[kind] \in Nat
  BY <1>0, SegmentParts, SegmentTyped, SegmentSides DEF PushTicket, Moves, SegmentTypeOK
<1>7. \A t \in Users : pos[t] \in Nat /\ pos'[t] \in Nat
  BY <1>0, <1>1, <1>6, SegmentParts, SegmentTyped DEF OneMoves
<1>8. \A q \in Pushers : /\ q # p => pc'[q] = pc[q] /\ pos'[q] = pos[q] /\ Item(q)' = Item(q)
                         /\ pc[q] # "idle" => pos[q] < enq
  BY <1>0, <1>1, SegmentParts DEF OneMoves, Item, WritersInv
<1>9. \A c \in Poppers : pc'[c] = pc[c] /\ pos'[c] = pos[c]
  BY <1>0, <1>1 DEF OneMoves
<1>10. \A t \in 0 .. enq - 1 : Writing(t)' = Writing(t)
  BY <1>1, <1>6, <1>8 DEF Writing, SameQueue
<1>11. ASSUME NEW t, t = enq PROVE p \in Writing(t)'
  BY <1>1, <1>11, <1>6 DEF Writing, SameQueue
<1>2. SegmentTypeOK'
  <2>1. begun' \in [Users -> Nat] /\ \A q \in Pushers : begun'[q] <= enq' /\ (pc'[q] # "idle" => begun'[q] > 0)
    BY <1>0, <1>1, <1>6, <1>8, SegmentParts DEF PushTicket, SegmentTypeOK, SameQueue
  <2>2. pc' \in [Users -> PushPc \cup PopPc] /\ (\A q \in Pushers : pc'[q] \in PushPc) /\ \A c \in Poppers : pc'[c] \in PopPc
    BY <1>0, <1>1, <1>6, <1>8, <1>9, SegmentParts DEF PushTicket, Moves, SegmentTypeOK, PushPc
  <2>3. pos' \in [Users -> Nat] /\ enq' \in Nat /\ enq' <= Pushes[kind] /\ deq <= enq'
    BY <1>0, <1>6, SegmentParts DEF PushTicket, SegmentTypeOK
  <2> QED BY <1>1, <2>1, <2>2, <2>3, SegmentParts DEF PushTicket, SegmentTypeOK, SameQueue
<1>3. WritersInv' /\ ReadersInv' /\ PhasesInv'
  <2>1. WritersInv'
    <3> SUFFICES ASSUME NEW q \in Pushers, pc'[q] # "idle"
                 PROVE  /\ pos'[q] < enq' /\ phase[pos'[q]] = "free"
                        /\ pc'[q] = "publish" => cell[pos'[q]] = Item(q)'
                        /\ \A u \in Pushers : pc'[u] # "idle" /\ pos'[u] = pos'[q] => u = q
      BY <1>1 DEF WritersInv, Writing, SameQueue, PushTicket
    <3>1. CASE q = p
      <4>1. phase[enq] = "free"
        BY <1>6, SegmentParts DEF PhasesInv
      <4>2. \A u \in Pushers : pc'[u] # "idle" /\ pos'[u] = enq => u = p
        BY <1>0, <1>6, <1>7, <1>8
      <4> QED BY <1>6, <3>1, <4>1, <4>2
    <3>2. CASE q # p
      <4>1. pos[q] \in Nat /\ pos[q] < enq /\ pos'[q] = pos[q] /\ pc'[q] = pc[q] /\ pc[q] # "idle" /\ Item(q)' = Item(q)
        BY <1>0, <1>6, <1>7, <1>8, <3>2
      <4>2. \A u \in Pushers : pc'[u] # "idle" /\ pos'[u] = pos[q] => pc[u] # "idle" /\ pos[u] = pos[q]
        BY <1>6, <1>8, <4>1
      <4> QED BY <1>6, <4>1, <4>2, SegmentParts DEF WritersInv, Writing
    <3> QED BY <3>1, <3>2
  <2>2. ReadersInv'
    <3>1. \A c \in Poppers : pc[c] = "claim" => pos[c] < enq' /\ pos[c] \in Nat
      BY <1>0, <1>6, <1>7, SegmentParts DEF ReadersInv
    <3> QED BY <1>1, <1>9, <3>1, SegmentParts DEF ReadersInv, SameQueue, PushTicket, Claimed
  <2>3. PhasesInv'
    <3>1. ASSUME NEW t \in 0 .. enq' - 1, phase[t] = "free" PROVE Writing(t)' # {}
      <4>1. CASE t = enq
        BY <1>11, <4>1
      <4>2. CASE t # enq
        <5>1. t \in 0 .. enq - 1
          BY <1>6, <3>1, <4>2
        <5> QED BY <1>10, <3>1, <5>1, SegmentParts DEF PhasesInv
      <4> QED BY <4>1, <4>2
    <3>2. /\ \A t \in enq' .. Pushes[kind] - 1 : phase[t] = "free"
          /\ \A t \in deq .. enq' - 1 : phase[t] # "taken"
      BY <1>6, SegmentParts DEF PhasesInv
    <3>3. \A q \in Pushers : pc'[q] # "idle" /\ pos'[q] < deq =>
            \E c \in Poppers : pc'[c] \in {"head", "walk", "rewalk"} /\ pos'[c] = pos'[q]
      BY <1>6, <1>8, <1>9, SegmentParts DEF PhasesInv
    <3> QED BY <1>1, <3>1, <3>2, <3>3 DEF PhasesInv, SameQueue, PushTicket
  <2> QED BY <2>1, <2>2, <2>3
<1>4. BlocksInv'
  BY <1>0, <1>1, <1>6, SegmentParts DEF PushTicket, BlocksInv, OneMoves, SameQueue
<1>5. ~ManyPop => HeadInv'
  <2> SUFFICES ASSUME ~ManyPop PROVE HeadInv'
    OBVIOUS
  <2>1. Base(head) \in Nat /\ Base(head) <= deq
    BY SegmentParts, SegmentTyped, BaseFacts DEF HeadInv
  <2>2. Base(head) <= pos'[p]
    BY <1>6, <2>1
  <2> QED BY <1>0, <1>1, <2>2, SegmentParts, HeadOfOthers DEF PushTicket
<1> QED BY <1>1, <1>2, <1>3, <1>4, <1>5, SegmentWhole

LEMMA FillInv == ASSUME SegmentAssumption, SegmentInv, NEW p \in Pushers, Fill(p) PROVE SegmentInv'
<1>0. /\ Pushers \cap Poppers = {} /\ Users = Pushers \cup Poppers /\ p \in Users
      /\ ~ManyPop => \A a, b \in Poppers : a = b
  BY SegmentParts, SegmentSides
<1>1. SameQueue /\ OneMoves(p)
  BY <1>0, SegmentParts, SameQueueFacts DEF Fill, Moves, OneMoves, SegmentTypeOK
<1>6. pc[p] \in {"walk", "rewalk"} /\ pc'[p] = "publish" /\ phase[pos[p]] = "free" /\ pos[p] < enq
  BY <1>0, SegmentParts DEF Fill, Found, SegmentTypeOK, WritersInv
<1>7. Item(p) \in AllItems
  <2>1. begun[p] \in Nat /\ begun[p] <= enq /\ begun[p] > 0
    BY <1>0, <1>6, SegmentParts DEF SegmentTypeOK
  <2>2. begun[p] \in 1 .. Pushes[kind]
    BY <2>1, SegmentParts, SegmentTyped, SegmentSides
  <2> QED BY <2>2, SegmentParts, PushItem
<1>8. pos[p] \in Tickets
  BY <1>0, <1>6, SegmentParts, SegmentTyped, SegmentSides DEF Tickets
<1>9. cell' = [cell EXCEPT ![pos[p]] = Item(p)] /\ cell \in [Tickets -> AllItems \cup {Empty}]
  BY SegmentParts DEF Fill, SegmentTypeOK
<1>10. \A q \in Pushers : /\ pc'[q] # "idle" <=> pc[q] # "idle"
                          /\ pos'[q] = pos[q] /\ Item(q)' = Item(q)
                          /\ q # p => pc'[q] = pc[q]
  BY <1>0, <1>1, <1>6 DEF OneMoves, Item, Fill
<1>11. ASSUME NEW t PROVE Writing(t)' = Writing(t)
  BY <1>1, <1>10 DEF Writing, SameQueue
<1>12. \A c \in Poppers : pc'[c] = pc[c] /\ pos'[c] = pos[c]
  BY <1>0, <1>1 DEF OneMoves
<1>13. AllItems' = AllItems
  BY DEF AllItems
<1>2. SegmentTypeOK'
  <2>1. cell' \in [Tickets -> AllItems \cup {Empty}]
    BY <1>7, <1>9
  <2>2. pc' \in [Users -> PushPc \cup PopPc] /\ (\A q \in Pushers : pc'[q] \in PushPc) /\ \A c \in Poppers : pc'[c] \in PopPc
    BY <1>0, <1>6, <1>10, <1>12, SegmentParts DEF Fill, SegmentTypeOK, PushPc
  <2> QED BY <1>1, <1>10, <1>13, <2>1, <2>2, SegmentParts DEF Fill, SegmentTypeOK, SameQueue, Empty
<1>3. WritersInv' /\ ReadersInv' /\ PhasesInv'
  <2>1. WritersInv'
    <3> SUFFICES ASSUME NEW q \in Pushers, pc[q] # "idle"
                 PROVE  /\ pos[q] < enq /\ phase[pos[q]] = "free"
                        /\ pc'[q] = "publish" => cell'[pos[q]] = Item(q)
                        /\ \A u \in Writing(pos[q]) : u = q
      BY <1>1, <1>10, <1>11 DEF WritersInv, SameQueue, Fill
    <3>1. q # p => pos[q] # pos[p]
      BY <1>6, SegmentParts DEF WritersInv, Writing
    <3>2. pos[q] \in Tickets
      BY <1>0, SegmentParts, SegmentTyped, SegmentSides DEF Tickets, WritersInv
    <3> QED BY <1>8, <1>9, <1>10, <3>1, <3>2, SegmentParts DEF WritersInv
  <2>2. ReadersInv'
    BY <1>1, <1>12, SegmentParts DEF ReadersInv, SameQueue, Fill, Claimed
  <2>3. PhasesInv'
    BY <1>1, <1>10, <1>11, <1>12, SegmentParts DEF PhasesInv, SameQueue, Fill
  <2> QED BY <2>1, <2>2, <2>3
<1>4. BlocksInv'
  BY <1>0, <1>1, <1>6, SegmentParts DEF Fill, BlocksInv, OneMoves, SameQueue
<1>5. ~ManyPop => HeadInv'
  BY <1>0, <1>1, <1>6, SegmentParts, HeadOfOthers DEF Fill, HeadInv
<1> QED BY <1>1, <1>2, <1>3, <1>4, <1>5, SegmentWhole

LEMMA PublishInv == ASSUME SegmentAssumption, SegmentInv, NEW p \in Pushers, Publish(p) PROVE SegmentInv'
<1>0. /\ Pushers \cap Poppers = {} /\ Users = Pushers \cup Poppers /\ p \in Users
      /\ ~ManyPop => \A a, b \in Poppers : a = b
  BY SegmentParts, SegmentSides
<1>1. SameQueue /\ OneMoves(p)
  BY <1>0, SegmentParts, SameQueueFacts DEF Publish, Moves, OneMoves, SegmentTypeOK
<1>6. pc[p] = "publish" /\ pc'[p] = "idle" /\ pos[p] < enq
  BY <1>0, SegmentParts DEF Publish, Moves, SegmentTypeOK, WritersInv
<1>7. pos[p] \in Tickets /\ phase \in [Tickets -> {"free", "full", "taken"}] /\ enq \in Nat /\ Pushes[kind] \in Nat /\ deq \in Nat
  BY <1>0, <1>6, SegmentParts, SegmentTyped, SegmentSides DEF Tickets, SegmentTypeOK
<1>8. \A t \in Tickets : phase'[t] = IF t = pos[p] THEN "full" ELSE phase[t]
  BY <1>7 DEF Publish
<1>9. \A q \in Pushers : /\ pos'[q] = pos[q] /\ Item(q)' = Item(q)
                         /\ q # p => pc'[q] = pc[q]
                         /\ q # p /\ pc[q] # "idle" => pos[q] # pos[p]
  BY <1>0, <1>1, <1>6, SegmentParts DEF OneMoves, Item, Publish, WritersInv, Writing
<1>10. \A t : t # pos[p] => Writing(t)' = Writing(t)
  BY <1>1, <1>6, <1>9 DEF Writing, SameQueue
<1>11. \A q \in Pushers : pc[q] # "idle" => pos[q] \in Tickets
  BY <1>0, SegmentParts, SegmentTyped, SegmentSides DEF Tickets, WritersInv
<1>12. \A c \in Poppers : pc'[c] = pc[c] /\ pos'[c] = pos[c]
  BY <1>0, <1>1 DEF OneMoves
<1>13. \A c \in Poppers : pc[c] \in Claimed => pos[c] \in Tickets
  BY <1>0, SegmentParts, SegmentTyped, SegmentSides DEF Tickets, ReadersInv
<1>2. SegmentTypeOK'
  <2>1. phase' \in [Tickets -> {"free", "full", "taken"}]
    BY <1>7 DEF Publish
  <2>2. pc' \in [Users -> PushPc \cup PopPc] /\ (\A q \in Pushers : pc'[q] \in PushPc) /\ \A c \in Poppers : pc'[c] \in PopPc
    BY <1>0, <1>6, <1>9, <1>12, SegmentParts DEF Publish, Moves, SegmentTypeOK, PushPc
  <2> QED BY <1>1, <1>6, <1>9, <2>1, <2>2, SegmentParts DEF Publish, SegmentTypeOK, SameQueue
<1>3. WritersInv' /\ ReadersInv' /\ PhasesInv'
  <2>1. WritersInv'
    <3> SUFFICES ASSUME NEW q \in Pushers, q # p, pc[q] # "idle"
                 PROVE  /\ pos[q] < enq /\ phase'[pos[q]] = "free"
                        /\ pc[q] = "publish" => cell[pos[q]] = Item(q)
                        /\ \A u \in Writing(pos[q]) : u = q
      BY <1>1, <1>6, <1>9, <1>10 DEF WritersInv, SameQueue, Publish
    <3> QED BY <1>8, <1>9, <1>11, SegmentParts DEF WritersInv
  <2>2. ReadersInv'
    <3> SUFFICES ASSUME NEW c \in Poppers
                 PROVE  /\ pc[c] \in Claimed =>
                             /\ pos[c] < deq /\ phase'[pos[c]] # "taken"
                             /\ \A d \in Poppers : pc[d] \in Claimed /\ pos[d] = pos[c] => d = c
                        /\ pc[c] = "retire" => phase'[pos[c]] = "full"
                        /\ pc[c] = "claim" => pos[c] < enq
      BY <1>1, <1>12 DEF ReadersInv, SameQueue, Publish, Claimed
    <3> QED BY <1>8, <1>13, SegmentParts DEF ReadersInv, Claimed
  <2>3. PhasesInv'
    <3>1. \A t \in 0 .. enq - 1 : t \in Tickets
      BY <1>7, SegmentParts, SegmentTyped DEF Tickets
    <3>2. \A t \in 0 .. enq - 1 : phase'[t] = "free" => Writing(t)' # {}
      BY <1>8, <1>10, <3>1, SegmentParts DEF PhasesInv
    <3>3. \A t \in enq .. Pushes[kind] - 1 : t \in Tickets /\ t # pos[p]
      BY <1>6, <1>7 DEF Tickets
    <3>4. \A t \in enq .. Pushes[kind] - 1 : phase'[t] = "free"
      BY <1>8, <3>3, SegmentParts DEF PhasesInv
    <3>5. \A t \in deq .. enq - 1 : t \in Tickets
      BY <1>7, <3>1
    <3>6. \A t \in deq .. enq - 1 : phase'[t] # "taken"
      BY <1>8, <3>5, SegmentParts DEF PhasesInv
    <3>7. \A q \in Pushers : pc'[q] # "idle" /\ pos'[q] < deq =>
            \E c \in Poppers : pc'[c] \in {"head", "walk", "rewalk"} /\ pos'[c] = pos'[q]
      BY <1>6, <1>9, <1>12, SegmentParts DEF PhasesInv
    <3> QED BY <1>1, <3>2, <3>4, <3>6, <3>7 DEF PhasesInv, SameQueue, Publish
  <2> QED BY <2>1, <2>2, <2>3
<1>4. BlocksInv'
  BY <1>0, <1>1, <1>6, SegmentParts DEF Publish, BlocksInv, OneMoves, SameQueue
<1>5. ~ManyPop => HeadInv'
  BY <1>0, <1>1, <1>6, SegmentParts, HeadOfOthers DEF Publish, HeadInv
<1> QED BY <1>1, <1>2, <1>3, <1>4, <1>5, SegmentWhole

LEMMA ClaimPopInv == ASSUME SegmentAssumption, SegmentInv, NEW c \in Poppers, ClaimPop(c) PROVE SegmentInv'
<1>0. /\ Pushers \cap Poppers = {} /\ Users = Pushers \cup Poppers /\ c \in Users
      /\ ~ManyPop => \A a, b \in Poppers : a = b
  BY SegmentParts, SegmentSides
<1>1. SameQueue /\ OneMoves(c)
  BY <1>0, SegmentParts, SameQueueFacts DEF ClaimPop, Moves, OneMoves, SegmentTypeOK
<1>6. /\ deq \in Nat /\ enq \in Nat /\ pc[c] = "claim" /\ pos[c] \in Nat /\ pos[c] < enq
      /\ \/ pos[c] = deq /\ pc'[c] = "head" /\ deq' = deq + 1 /\ pos' = pos
         \/ ManyPop /\ pc'[c] = "compare" /\ pos'[c] = deq /\ deq' = deq
  <2>1. ~ManyPop => pos[c] = deq
    BY SegmentParts DEF HeadInv, ClaimPop, Moves
  <2> QED BY <1>0, <2>1, SegmentParts, SegmentTyped DEF ClaimPop, Moves, ReadersInv, SegmentTypeOK
<1>7. \A t \in Users : pos[t] \in Nat /\ pos'[t] \in Nat
  BY <1>0, <1>1, <1>6, SegmentParts, SegmentTyped DEF OneMoves
<1>2. SegmentTypeOK'
  <2>1. pc' \in [Users -> PushPc \cup PopPc]
    BY <1>0, <1>6, SegmentParts DEF ClaimPop, Moves, SegmentTypeOK, PopPc
  <2>4. (\A q \in Pushers : pc'[q] \in PushPc) /\ \A d \in Poppers : pc'[d] \in PopPc
    <3>1. \A d \in Poppers : pc'[d] = pc[d] \/ pc'[d] \in {"head", "compare"}
      BY <1>0, <1>1, <1>6 DEF OneMoves
    <3>2. \A q \in Pushers : pc'[q] = pc[q]
      BY <1>0, <1>1 DEF OneMoves
    <3> QED BY <3>1, <3>2, SegmentParts DEF SegmentTypeOK, PopPc
  <2>2. pos' \in [Users -> Nat] /\ deq' \in Nat /\ deq' <= enq
    <3>1. pos \in [Users -> Nat] /\ pos' \in {pos, [pos EXCEPT ![c] = deq]}
      BY SegmentParts DEF ClaimPop, SegmentTypeOK
    <3>2. deq <= enq
      BY SegmentParts, SegmentTyped
    <3> QED BY <1>0, <1>6, <3>1, <3>2
  <2>3. \A q \in Pushers : pc'[q] = pc[q]
    BY <1>0, <1>1 DEF OneMoves
  <2> QED BY <1>1, <2>1, <2>2, <2>3, <2>4, SegmentParts DEF ClaimPop, SegmentTypeOK, SameQueue
<1>3. WritersInv' /\ ReadersInv' /\ PhasesInv'
  <2>1. CASE deq' = deq
    <3>1. pc'[c] = "compare"
      BY <1>6, <2>1
    <3> QED BY <1>0, <1>1, <1>6, <2>1, <3>1, SegmentParts, Walks DEF ClaimPop
  <2>2. CASE pos[c] = deq /\ pc'[c] = "head" /\ deq' = deq + 1 /\ pos' = pos
    <3>1. \A q \in Pushers : pc'[q] = pc[q] /\ Item(q)' = Item(q)
      BY <1>0, <1>1 DEF OneMoves, Item
    <3>2. \A d \in Poppers : d # c => pc'[d] = pc[d]
      BY <1>0, <1>1 DEF OneMoves
    <3>3. ASSUME NEW t PROVE Writing(t)' = Writing(t)
      BY <1>1, <2>2, <3>1 DEF Writing, SameQueue
    <3>4. WritersInv'
      BY <1>1, <2>2, <3>1, <3>3, SegmentParts DEF WritersInv, SameQueue, ClaimPop
    <3>5. ReadersInv'
      <4> SUFFICES ASSUME NEW d \in Poppers
                   PROVE  /\ pc'[d] \in Claimed =>
                               /\ pos[d] < deq' /\ phase[pos[d]] # "taken"
                               /\ \A e \in Poppers : pc'[e] \in Claimed /\ pos[e] = pos[d] => e = d
                          /\ pc'[d] = "retire" => phase[pos[d]] = "full"
                          /\ pc'[d] = "claim" => pos[d] < enq
        BY <1>1, <2>2 DEF ReadersInv, SameQueue, ClaimPop, Claimed
      <4>1. \A e \in Poppers : pc[e] \in Claimed => pos[e] < deq /\ pos[e] \in Nat
        BY <1>0, <1>7, SegmentParts DEF ReadersInv
      <4>2. phase[deq] # "taken"
        BY <1>6, <2>2, SegmentParts DEF PhasesInv
      <4>3. CASE d = c
        <5>1. \A e \in Poppers : pc'[e] \in Claimed /\ pos[e] = pos[c] => e = c
          BY <1>6, <2>2, <3>2, <4>1
        <5> QED BY <1>6, <2>2, <4>2, <4>3, <5>1 DEF Claimed
      <4>4. CASE d # c
        <5>1. pc'[d] = pc[d] /\ (pc[d] \in Claimed => pos[d] < deq /\ pos[d] < deq')
          BY <1>6, <2>2, <3>2, <4>1, <4>4
        <5>2. \A e \in Poppers : pc[d] \in Claimed /\ pc'[e] \in Claimed /\ pos[e] = pos[d] => e = d
          BY <1>6, <2>2, <3>2, <5>1, SegmentParts DEF ReadersInv
        <5> QED BY <5>1, <5>2, SegmentParts DEF ReadersInv
      <4> QED BY <4>3, <4>4
    <3>6. PhasesInv'
      <4>1. \A t \in 0 .. enq - 1 : phase[t] = "free" => Writing(t)' # {}
        BY <3>3, SegmentParts DEF PhasesInv
      <4>2. \A t \in deq' .. enq - 1 : phase[t] # "taken"
        BY <1>6, <2>2, SegmentParts DEF PhasesInv
      <4>3. ASSUME NEW p \in Pushers, pc[p] # "idle", pos[p] < deq'
            PROVE  \E d \in Poppers : pc'[d] \in {"head", "walk", "rewalk"} /\ pos[d] = pos[p]
        <5>1. CASE pos[p] = deq
          BY <2>2, <5>1
        <5>2. CASE pos[p] < deq
          <6>1. PICK d \in Poppers : pc[d] \in {"head", "walk", "rewalk"} /\ pos[d] = pos[p]
            BY <4>3, <5>2, SegmentParts DEF PhasesInv
          <6> QED BY <1>6, <3>2, <6>1
        <5> QED BY <1>0, <1>6, <1>7, <2>2, <4>3, <5>1, <5>2
      <4> QED BY <1>1, <2>2, <3>1, <4>1, <4>2, <4>3, SegmentParts DEF PhasesInv, SameQueue, ClaimPop
    <3> QED BY <3>4, <3>5, <3>6
  <2> QED BY <1>6, <2>1, <2>2
<1>4. BlocksInv'
  <2>1. \A t \in Users : pc'[t] \in {"swing", "rewalk"} => pc'[t] = pc[t] /\ pos'[t] = pos[t]
    BY <1>0, <1>1, <1>6 DEF OneMoves
  <2> QED BY <1>0, <1>1, <2>1, SegmentParts DEF ClaimPop, BlocksInv, SameQueue
<1>5. ~ManyPop => HeadInv'
  <2> SUFFICES ASSUME ~ManyPop PROVE HeadInv'
    OBVIOUS
  <2>1. pos[c] = deq /\ pc'[c] = "head" /\ deq' = deq + 1 /\ pos' = pos /\ head' = head
    BY <1>6 DEF ClaimPop
  <2>2. Base(head) \in Nat /\ Base(head) <= deq
    BY SegmentParts, SegmentTyped, BaseFacts DEF HeadInv
  <2>3. Base(head') <= deq' /\ Base(head') <= pos'[c] /\ deq' = pos'[c] + 1
    BY <1>6, <2>1, <2>2
  <2>4. \A p \in Pushers : pc[p] # "idle" => Base(head') <= pos[p]
    BY <2>1, SegmentParts DEF HeadInv
  <2>5. pc'[c] = "head"
    BY <2>1
  <2> QED BY <1>0, <1>1, <2>3, <2>4, <2>5, SegmentParts, HeadOfReader
<1> QED BY <1>1, <1>2, <1>3, <1>4, <1>5, SegmentWhole

LEMMA TakeInv == ASSUME SegmentAssumption, SegmentInv, NEW c \in Poppers, Take(c) PROVE SegmentInv'
<1>0. /\ Pushers \cap Poppers = {} /\ Users = Pushers \cup Poppers /\ c \in Users
      /\ ~ManyPop => \A a, b \in Poppers : a = b
  BY SegmentParts, SegmentSides
<1>1. SameQueue /\ OneMoves(c)
  BY <1>0, SegmentParts, SameQueueFacts DEF Take, Moves, OneMoves, SegmentTypeOK
<1>6. pc[c] \in {"walk", "rewalk"} /\ pc'[c] = "retire" /\ phase[pos[c]] = "full" /\ pos[c] < deq /\ pos[c] \in Nat
  BY <1>0, SegmentParts, SegmentTyped DEF Take, Found, SegmentTypeOK, ReadersInv, Claimed
<1>7. cell[pos[c]] \in AllItems \cup {Empty}
  <2>1. pos[c] \in Tickets
    BY <1>6, SegmentParts, SegmentTyped, SegmentSides DEF Tickets
  <2> QED BY <2>1, SegmentParts DEF SegmentTypeOK
<1>8. \A q \in Pushers : pc'[q] = pc[q] /\ Item(q)' = Item(q)
  BY <1>0, <1>1 DEF OneMoves, Item
<1>9. \A d \in Poppers : d # c => pc'[d] = pc[d]
  BY <1>0, <1>1 DEF OneMoves
<1>10. ASSUME NEW t PROVE Writing(t)' = Writing(t)
  BY <1>1, <1>8 DEF Writing, SameQueue, Take
<1>11. AllItems' = AllItems /\ Empty' = Empty
  BY DEF AllItems, Empty
<1>2. SegmentTypeOK'
  <2>1. got' \in [Poppers -> Seq(AllItems \cup {Empty})]
    <3>1. got \in [Poppers -> Seq(AllItems \cup {Empty})] /\ got[c] \in Seq(AllItems \cup {Empty})
      BY SegmentParts DEF SegmentTypeOK
    <3>2. Append(got[c], cell[pos[c]]) \in Seq(AllItems \cup {Empty})
      BY <1>7, <3>1
    <3> QED BY <3>1, <3>2 DEF Take
  <2>2. pc' \in [Users -> PushPc \cup PopPc] /\ (\A q \in Pushers : pc'[q] \in PushPc) /\ \A d \in Poppers : pc'[d] \in PopPc
    BY <1>0, <1>6, <1>8, <1>9, SegmentParts DEF Take, SegmentTypeOK, PopPc
  <2> QED BY <1>1, <1>8, <1>11, <2>1, <2>2, SegmentParts DEF Take, SegmentTypeOK, SameQueue
<1>3. WritersInv' /\ ReadersInv' /\ PhasesInv'
  <2>1. WritersInv'
    BY <1>1, <1>8, <1>10, SegmentParts DEF WritersInv, SameQueue, Take
  <2>2. ReadersInv'
    <3>1. \A d \in Poppers : pc'[d] \in Claimed <=> pc[d] \in Claimed
      BY <1>6, <1>9 DEF Claimed
    <3>2. \A d \in Poppers : (pc'[d] = "retire" => phase[pos[d]] = "full") /\ (pc'[d] = "claim" => pos[d] < enq)
      BY <1>6, <1>9, SegmentParts DEF ReadersInv
    <3> QED BY <1>1, <3>1, <3>2, SegmentParts DEF ReadersInv, SameQueue, Take, Claimed
  <2>3. PhasesInv'
    <3>1. ASSUME NEW p \in Pushers, pc[p] # "idle", pos[p] < deq
          PROVE  \E d \in Poppers : pc'[d] \in {"head", "walk", "rewalk"} /\ pos[d] = pos[p]
      <4>1. PICK d \in Poppers : pc[d] \in {"head", "walk", "rewalk"} /\ pos[d] = pos[p]
        BY <3>1, SegmentParts DEF PhasesInv
      <4>2. phase[pos[p]] = "free"
        BY <3>1, SegmentParts DEF WritersInv
      <4>3. d # c
        BY <1>6, <4>1, <4>2
      <4> QED BY <1>9, <4>1, <4>3
    <3> QED BY <1>1, <1>8, <1>10, <3>1, SegmentParts DEF PhasesInv, SameQueue, Take
  <2> QED BY <2>1, <2>2, <2>3
<1>4. BlocksInv'
  BY <1>0, <1>1, <1>6, SegmentParts DEF Take, BlocksInv, OneMoves, SameQueue
<1>5. ~ManyPop => HeadInv'
  <2> SUFFICES ASSUME ~ManyPop PROVE HeadInv'
    OBVIOUS
  <2>1. pc[c] = "walk" /\ pos' = pos /\ deq' = deq /\ head' = head /\ block' = block
    BY <1>6, SegmentParts DEF HeadInv, Take
  <2>2. deq = pos[c] + 1 /\ block[c] = head /\ Base(head) <= deq
    BY <2>1, SegmentParts DEF HeadInv
  <2>3. \A p \in Pushers : pc[p] # "idle" => Base(head') <= pos[p]
    BY <2>1, SegmentParts DEF HeadInv
  <2> QED BY <1>0, <1>1, <1>6, <2>1, <2>2, <2>3, SegmentParts, HeadOfReader
<1> QED BY <1>1, <1>2, <1>3, <1>4, <1>5, SegmentWhole

LEMMA RetireInv == ASSUME SegmentAssumption, SegmentInv, NEW c \in Poppers, Retire(c) PROVE SegmentInv'
<1>0. /\ Pushers \cap Poppers = {} /\ Users = Pushers \cup Poppers /\ c \in Users
      /\ ~ManyPop => \A a, b \in Poppers : a = b
  BY SegmentParts, SegmentSides
<1>1. SameQueue /\ OneMoves(c)
  BY <1>0, SegmentParts, SameQueueFacts DEF Retire, Moves, OneMoves, SegmentTypeOK
<1>6. /\ pc[c] = "retire" /\ phase[pos[c]] = "full" /\ pos[c] < deq /\ pos[c] \in Nat
      /\ pc'[c] = IF pos[c] + 1 = Base(block[c] + 1) THEN "advance" ELSE "idle"
  BY <1>0, SegmentParts, SegmentTyped DEF Retire, Moves, SegmentTypeOK, ReadersInv, Claimed
<1>7. pos[c] \in Tickets /\ phase \in [Tickets -> {"free", "full", "taken"}] /\ cell \in [Tickets -> AllItems \cup {Empty}]
      /\ enq \in Nat /\ Pushes[kind] \in Nat /\ deq \in Nat
  BY <1>6, SegmentParts, SegmentTyped, SegmentSides DEF Tickets, SegmentTypeOK
<1>8. \A t \in Tickets : /\ phase'[t] = IF t = pos[c] THEN "taken" ELSE phase[t]
                         /\ t # pos[c] => cell'[t] = cell[t]
  BY <1>7 DEF Retire
<1>9. \A q \in Pushers : pc'[q] = pc[q] /\ Item(q)' = Item(q)
  BY <1>0, <1>1 DEF OneMoves, Item
<1>10. \A d \in Poppers : d # c => pc'[d] = pc[d]
  BY <1>0, <1>1 DEF OneMoves
<1>11. ASSUME NEW t PROVE Writing(t)' = Writing(t)
  BY <1>1, <1>9 DEF Writing, SameQueue, Retire
<1>12. AllItems' = AllItems /\ Empty' = Empty
  BY DEF AllItems, Empty
<1>13. \A q \in Pushers : pc[q] # "idle" => pos[q] \in Tickets /\ pos[q] # pos[c]
  <2>1. \A q \in Pushers : pc[q] # "idle" => pos[q] \in Tickets
    BY <1>0, SegmentParts, SegmentTyped, SegmentSides DEF Tickets, WritersInv
  <2> QED BY <1>6, <2>1, SegmentParts DEF WritersInv
<1>14. \A d \in Poppers : d # c /\ pc[d] \in Claimed => pos[d] \in Tickets /\ pos[d] # pos[c]
  <2>1. \A d \in Poppers : pc[d] \in Claimed => pos[d] \in Tickets
    BY <1>0, SegmentParts, SegmentTyped, SegmentSides DEF Tickets, ReadersInv
  <2> QED BY <1>6, <2>1, SegmentParts DEF ReadersInv, Claimed
<1>2. SegmentTypeOK'
  <2>1. phase' \in [Tickets -> {"free", "full", "taken"}] /\ cell' \in [Tickets -> AllItems \cup {Empty}]
    BY <1>7 DEF Retire
  <2>2. pc' \in [Users -> PushPc \cup PopPc] /\ (\A q \in Pushers : pc'[q] \in PushPc) /\ \A d \in Poppers : pc'[d] \in PopPc
    BY <1>0, <1>6, <1>9, <1>10, SegmentParts DEF Retire, Moves, SegmentTypeOK, PopPc
  <2> QED BY <1>1, <1>9, <1>12, <2>1, <2>2, SegmentParts DEF Retire, SegmentTypeOK, SameQueue
<1>3. WritersInv' /\ ReadersInv' /\ PhasesInv'
  <2>1. WritersInv'
    <3> SUFFICES ASSUME NEW q \in Pushers, pc[q] # "idle"
                 PROVE  /\ pos[q] < enq /\ phase'[pos[q]] = "free"
                        /\ pc[q] = "publish" => cell'[pos[q]] = Item(q)
                        /\ \A u \in Writing(pos[q]) : u = q
      BY <1>1, <1>9, <1>11 DEF WritersInv, SameQueue, Retire
    <3> QED BY <1>8, <1>13, SegmentParts DEF WritersInv
  <2>2. ReadersInv'
    <3> SUFFICES ASSUME NEW d \in Poppers
                 PROVE  /\ pc'[d] \in Claimed =>
                             /\ pos[d] < deq /\ phase'[pos[d]] # "taken"
                             /\ \A e \in Poppers : pc'[e] \in Claimed /\ pos[e] = pos[d] => e = d
                        /\ pc'[d] = "retire" => phase'[pos[d]] = "full"
                        /\ pc'[d] = "claim" => pos[d] < enq
      BY <1>1 DEF ReadersInv, SameQueue, Retire, Claimed
    <3>1. pc'[c] \notin Claimed \cup {"claim"}
      BY <1>6 DEF Claimed
    <3>2. CASE d = c
      BY <3>1, <3>2 DEF Claimed
    <3>3. CASE d # c
      <4>1. pc'[d] = pc[d] /\ \A e \in Poppers : pc'[e] \in Claimed => pc[e] \in Claimed
        BY <1>10, <3>1, <3>3
      <4>2. pc[d] \in Claimed => phase'[pos[d]] = phase[pos[d]]
        BY <1>8, <1>14, <3>3
      <4> QED BY <4>1, <4>2, SegmentParts DEF ReadersInv, Claimed
    <3> QED BY <3>2, <3>3
  <2>3. PhasesInv'
    <3>1. \A t \in 0 .. Pushes[kind] - 1 : t \in Tickets
      BY DEF Tickets
    <3>2. \A t \in 0 .. enq - 1 : phase'[t] = "free" => Writing(t)' # {}
      <4>1. \A t \in 0 .. enq - 1 : t \in Tickets
        BY <1>7, SegmentParts, SegmentTyped DEF Tickets
      <4> QED BY <1>8, <1>11, <4>1, SegmentParts DEF PhasesInv
    <3>3. \A t \in enq .. Pushes[kind] - 1 : t \in Tickets /\ t # pos[c]
      BY <1>6, <1>7, SegmentParts, SegmentTyped DEF Tickets
    <3>4. \A t \in enq .. Pushes[kind] - 1 : phase'[t] = "free"
      BY <1>8, <3>3, SegmentParts DEF PhasesInv
    <3>5. \A t \in deq .. enq - 1 : t \in Tickets /\ t # pos[c]
      BY <1>6, <1>7, SegmentParts, SegmentTyped DEF Tickets
    <3>6. \A t \in deq .. enq - 1 : phase'[t] # "taken"
      BY <1>8, <3>5, SegmentParts DEF PhasesInv
    <3>7. ASSUME NEW p \in Pushers, pc[p] # "idle", pos[p] < deq
          PROVE  \E d \in Poppers : pc'[d] \in {"head", "walk", "rewalk"} /\ pos[d] = pos[p]
      <4>1. PICK d \in Poppers : pc[d] \in {"head", "walk", "rewalk"} /\ pos[d] = pos[p]
        BY <3>7, SegmentParts DEF PhasesInv
      <4>2. d # c
        BY <1>6, <4>1
      <4> QED BY <1>10, <4>1, <4>2
    <3> QED BY <1>1, <1>9, <3>2, <3>4, <3>6, <3>7 DEF PhasesInv, SameQueue, Retire
  <2> QED BY <2>1, <2>2, <2>3
<1>4. BlocksInv'
  <2>1. \A t \in Users : pc'[t] \in {"swing", "rewalk"} => pc'[t] = pc[t]
    BY <1>0, <1>1, <1>6 DEF OneMoves
  <2> QED BY <1>0, <1>1, <2>1, SegmentParts DEF Retire, BlocksInv, SameQueue
<1>5. ~ManyPop => HeadInv'
  <2> SUFFICES ASSUME ~ManyPop PROVE HeadInv'
    OBVIOUS
  <2>1. pos' = pos /\ deq' = deq /\ head' = head /\ block' = block
    BY DEF Retire
  <2>2. deq = pos[c] + 1 /\ block[c] = head /\ Base(head) <= deq
    BY <1>6, SegmentParts DEF HeadInv
  <2>3. \A p \in Pushers : pc[p] # "idle" => Base(head') <= pos[p]
    BY <2>1, SegmentParts DEF HeadInv
  <2>4. pc'[c] \in {"idle", "advance"} /\ (pc'[c] = "advance" => deq' = Base(head' + 1))
    BY <1>6, <2>1, <2>2
  <2> QED BY <1>0, <1>1, <2>1, <2>2, <2>3, <2>4, SegmentParts, HeadOfReader
<1> QED BY <1>1, <1>2, <1>3, <1>4, <1>5, SegmentWhole

LEMMA ClearInv == ASSUME SegmentAssumption, SegmentInv, Clear PROVE SegmentInv'
<1>0. SameQueue /\ Pushers \cap Poppers = {} /\ Users = Pushers \cup Poppers
  BY SegmentParts, SegmentSides, SameQueueFacts DEF Clear
<1>1. /\ deq \in Nat /\ enq \in Nat /\ deq < enq /\ deq' = enq /\ Pushes[kind] \in Nat /\ enq <= Pushes[kind]
      /\ \A t \in Users : pc[t] = "idle"
  BY SegmentParts, SegmentTyped, SegmentSides DEF Clear
<1>2. \A t \in Tickets : phase'[t] = IF t \in deq .. enq - 1 THEN "taken" ELSE phase[t]
  BY DEF Clear
<1>3. SegmentTypeOK'
  <2>1. phase' \in [Tickets -> {"free", "full", "taken"}] /\ cell' \in [Tickets -> AllItems \cup {Empty}]
    BY SegmentParts DEF Clear, SegmentTypeOK
  <2>2. AllItems' = AllItems /\ Empty' = Empty
    BY DEF AllItems, Empty
  <2> QED BY <1>0, <1>1, <2>1, <2>2, SegmentParts DEF Clear, SegmentTypeOK, SameQueue
<1>4. PhasesInv'
  <2>1. ASSUME NEW t PROVE Writing(t)' = Writing(t)
    BY <1>0 DEF Writing, SameQueue, Clear
  <2>2. \A t \in 0 .. Pushes[kind] - 1 : t \in Tickets
    BY DEF Tickets
  <2>3. ASSUME NEW t \in 0 .. enq - 1, phase'[t] = "free" PROVE Writing(t)' # {}
    <3>1. t \in Tickets /\ phase[t] = "free"
      BY <1>1, <1>2, <2>2, <2>3
    <3> QED BY <2>1, <3>1, SegmentParts DEF PhasesInv
  <2>4. \A t \in enq .. Pushes[kind] - 1 : t \in Tickets /\ t \notin deq .. enq - 1
    BY <1>1 DEF Tickets
  <2>5. \A t \in enq .. Pushes[kind] - 1 : phase'[t] = "free"
    BY <1>2, <2>4, SegmentParts DEF PhasesInv
  <2>6. \A t \in enq .. enq - 1 : FALSE
    BY <1>1
  <2> QED BY <1>0, <1>1, <2>3, <2>5, <2>6 DEF PhasesInv, SameQueue, Clear
<1>5. WritersInv' /\ ReadersInv' /\ BlocksInv'
  BY <1>0, <1>1 DEF WritersInv, ReadersInv, BlocksInv, Clear, SameQueue, Claimed
<1>6. ~ManyPop => HeadInv'
  <2> SUFFICES ASSUME ~ManyPop PROVE HeadInv'
    OBVIOUS
  <2>1. Base(head) <= enq
    BY <1>1, SegmentParts, SegmentTyped, BaseFacts DEF HeadInv
  <2> QED BY <1>0, <1>1, <2>1 DEF HeadInv, Clear, SameQueue
<1> QED BY <1>0, <1>3, <1>4, <1>5, <1>6, SegmentWhole

LEMMA SegmentInitInv == ASSUME SegmentAssumption, SegmentInit PROVE SegmentInv
<1>1. kind \in Kinds /\ Pushes[kind] \in Nat
  BY DEF SegmentInit, SegmentAssumption
<1>2. SegmentTypeOK
  BY <1>1 DEF SegmentInit, SegmentTypeOK, Users, PushPc, PopPc, Empty
<1>3. \A t \in Users : pc[t] = "idle"
  BY DEF SegmentInit
<1>4. WritersInv /\ ReadersInv /\ BlocksInv
  BY <1>3 DEF WritersInv, ReadersInv, BlocksInv, Claimed, Users
<1>5. PhasesInv
  BY <1>1, <1>3 DEF SegmentInit, PhasesInv, Tickets, Users
<1>6. HeadInv
  BY <1>1, <1>3, BaseFacts DEF SegmentInit, HeadInv, Users
<1> QED BY <1>2, <1>4, <1>5, <1>6 DEF SegmentInv

LEMMA SegmentInductive ==
  ASSUME SegmentAssumption, SegmentInv, [SegmentNext]_segmentVars
  PROVE  SegmentInv'
<1>1. CASE UNCHANGED segmentVars
  <2>1. SameQueue
    BY <1>1, SameQueueFacts DEF segmentVars
  <2>2. \A t : Item(t)' = Item(t)
    BY <1>1 DEF Item, segmentVars
  <2>3. ASSUME NEW t PROVE Writing(t)' = Writing(t)
    BY <1>1, <2>1 DEF Writing, segmentVars, SameQueue
  <2>4. AllItems' = AllItems /\ Empty' = Empty
    BY DEF AllItems, Empty
  <2>5. SegmentTypeOK'
    BY <1>1, <2>1, <2>4, SegmentParts DEF SegmentTypeOK, segmentVars, SameQueue
  <2>6. WritersInv'
    BY <1>1, <2>1, <2>2, <2>3, SegmentParts DEF WritersInv, segmentVars, SameQueue
  <2>7. ReadersInv'
    BY <1>1, <2>1, SegmentParts DEF ReadersInv, segmentVars, SameQueue, Claimed
  <2>8. PhasesInv'
    BY <1>1, <2>1, <2>3, SegmentParts DEF PhasesInv, segmentVars, SameQueue
  <2>9. BlocksInv' /\ (~ManyPop => HeadInv')
    BY <1>1, <2>1, SegmentParts DEF BlocksInv, HeadInv, segmentVars, SameQueue
  <2> QED BY <2>1, <2>5, <2>6, <2>7, <2>8, <2>9, SegmentWhole
<1>2. ASSUME NEW p \in Pushers,
             \/ PushTicket(p) \/ LoadTail(p) \/ NextOrLink(p) \/ SwingTail(p)
             \/ PushFallBack(p) \/ Rewalk(p) \/ Fill(p) \/ Publish(p)
      PROVE  SegmentInv'
  <2>1. p \in Users
    BY DEF Users
  <2> QED BY <1>2, <2>1, PushTicketInv, LoadTailInv, NextOrLinkInv, SwingTailInv, PushFallBackInv,
             RewalkInv, FillInv, PublishInv
<1>3. ASSUME NEW c \in Poppers,
             \/ PopBegin(c) \/ Compare(c) \/ ClaimPop(c) \/ LoadHead(c) \/ WalkHead(c)
             \/ PopFallBack(c) \/ Rewalk(c) \/ Take(c) \/ Retire(c) \/ AdvanceHead(c)
      PROVE  SegmentInv'
  <2>1. c \in Users
    BY DEF Users
  <2> QED BY <1>3, <2>1, PopBeginInv, CompareInv, ClaimPopInv, LoadHeadInv, WalkHeadInv, PopFallBackInv,
             RewalkInv, TakeInv, RetireInv, AdvanceHeadInv
<1> QED BY <1>1, <1>2, <1>3, ClearInv DEF SegmentNext

LEMMA InsideFromInv == ASSUME SegmentAssumption, SegmentInv PROVE WalksStayInside
<1> SUFFICES ASSUME NEW t \in Users, pc[t] = "rewalk"
             PROVE  ~Before(t) /\ (Beyond(t) => block[t] < last)
  BY DEF WalksStayInside
<1>1. pos[t] \in Nat /\ block[t] \in Nat /\ last \in Nat
  BY SegmentParts, SegmentTyped
<1>2. Base(block[t]) <= pos[t] /\ pos[t] < Base(last)
  BY SegmentParts DEF BlocksInv
<1>3. Base(block[t]) \in Nat /\ Base(last) \in Nat
  BY <1>1, SegmentParts, BaseFacts
<1>4. block[t] < last
  BY <1>1, <1>2, <1>3, SegmentParts, BaseFacts
<1> QED BY <1>1, <1>2, <1>3, <1>4 DEF Before

LEMMA LongerByOne ==
  ASSUME NEW n \in Nat, NEW f, NEW g, DOMAIN f = 1 .. n, g = [i \in 1 .. n + 1 |-> g[i]],
         f = [i \in 1 .. n |-> f[i]],
         \A i \in 1 .. n : g[i] = f[i]
  PROVE  g = Append(f, g[n + 1])
<1> DEFINE S == {f[i] : i \in 1 .. n} \cup {g[n + 1]}
<1>1. f \in Seq(S) /\ Len(f) = n
  BY SMT
<1>2. Append(f, g[n + 1]) = [i \in 1 .. n + 1 |-> IF i = n + 1 THEN g[n + 1] ELSE f[i]]
  BY <1>1
<1> QED BY <1>2

LEMMA ShorterByOne ==
  ASSUME NEW n \in Nat, NEW f, NEW g, f = [i \in 1 .. n + 1 |-> f[i]], g = [i \in 1 .. n |-> g[i]],
         \A i \in 1 .. n : g[i] = f[i + 1]
  PROVE  f # <<>> /\ Head(f) = f[1] /\ g = Tail(f)
<1> DEFINE S == {f[i] : i \in 1 .. n + 1}
<1>1. f \in Seq(S) /\ Len(f) = n + 1
  BY SMT
<1>2. Tail(f) = [i \in 1 .. n |-> f[i + 1]]
  BY <1>1
<1>3. f # <<>> /\ Head(f) = f[1]
  BY <1>1
<1>4. g = Tail(f)
  BY <1>2
<1> QED BY <1>3, <1>4

\* What a step is for the queue behind the blocks, told by its tickets.
LEMMA LineAlike ==
  ASSUME SegmentTypeOK, SameQueue, enq' = enq, deq' = deq,
         \A t \in deq .. enq - 1 : TicketItem(t)' = TicketItem(t),
         \A c \in Poppers : Popped(c)' = Popped(c)
  PROVE  UNCHANGED Segments!vars
<1>0. enq \in Nat /\ deq \in Nat
  BY SegmentTyped
<1>1. Line' = Line
  <2>1. ASSUME NEW i \in 1 .. enq - deq PROVE TicketItem(deq + i - 1)' = TicketItem(deq + i - 1)
    <3>1. PICK t \in deq .. enq - 1 : t = deq + i - 1
      BY <1>0
    <3>2. deq' + i - 1 = t
      BY <3>1
    <3> QED BY <3>1, <3>2
  <2> QED BY <2>1 DEF Line
<1>2. AllPopped' = AllPopped
  BY DEF AllPopped, AllPoppers, SameQueue
<1> QED BY <1>1, <1>2 DEF Segments!vars

LEMMA LinePushed ==
  ASSUME SegmentTypeOK, SameQueue, enq' = enq + 1, deq' = deq,
         \A t \in deq .. enq - 1 : TicketItem(t)' = TicketItem(t),
         NEW new, new = enq, TicketItem(new)' \in AllItems,
         \A c \in Poppers : Popped(c)' = Popped(c)
  PROVE  Segments!Next
<1>0. enq \in Nat /\ deq \in Nat /\ deq <= enq
  BY SegmentTyped
<1> DEFINE n == enq - deq
<1>1. n \in Nat /\ enq' - deq' = n + 1
  BY <1>0
<1>2. /\ Line = [i \in 1 .. n |-> TicketItem(deq + i - 1)]
      /\ Line' = [i \in 1 .. n + 1 |-> TicketItem(deq + i - 1)']
  BY <1>1 DEF Line
<1>3. \A i \in 1 .. n : Line'[i] = Line[i]
  <2> SUFFICES ASSUME NEW i \in 1 .. n PROVE Line'[i] = Line[i]
    OBVIOUS
  <2>1. deq + i - 1 \in deq .. enq - 1 /\ i \in 1 .. n + 1
    BY <1>0
  <2> QED BY <1>2, <2>1
<1>4. Line'[n + 1] = TicketItem(new)'
  <2>1. n + 1 \in 1 .. n + 1 /\ deq + (n + 1) - 1 = new
    BY <1>0
  <2> QED BY <1>2, <2>1
<1> HIDE DEF n
<1>5. Line' = Append(Line, TicketItem(new)')
  <2>1. /\ DOMAIN Line = 1 .. n /\ Line = [i \in 1 .. n |-> Line[i]]
        /\ Line' = [i \in 1 .. n + 1 |-> Line'[i]]
    BY <1>2
  <2> QED BY <2>1, <1>1, <1>3, <1>4, LongerByOne
<1>6. AllPopped' = AllPopped
  BY DEF AllPopped, AllPoppers, SameQueue
<1> QED BY <1>5, <1>6 DEF Segments!Next, Segments!Push

LEMMA LinePopped ==
  ASSUME SegmentTypeOK, SameQueue, enq' = enq, deq' = deq + 1, deq < enq,
         \A t \in deq + 1 .. enq - 1 : TicketItem(t)' = TicketItem(t),
         NEW c \in Poppers, Popped(c)' = Append(Popped(c), TicketItem(deq)),
         \A d \in Poppers \ {c} : Popped(d)' = Popped(d)
  PROVE  Segments!Next
<1>0. enq \in Nat /\ deq \in Nat
  BY SegmentTyped
<1> DEFINE n == enq - deq - 1
<1>1. n \in Nat /\ enq - deq = n + 1 /\ enq' - deq' = n
  BY <1>0
<1>2. /\ Line = [i \in 1 .. n + 1 |-> TicketItem(deq + i - 1)]
      /\ Line' = [i \in 1 .. n |-> TicketItem(deq + i - 1)']
  BY <1>1 DEF Line
<1>3. \A i \in 1 .. n : Line'[i] = Line[i + 1]
  <2> SUFFICES ASSUME NEW i \in 1 .. n PROVE Line'[i] = Line[i + 1]
    OBVIOUS
  <2>1. PICK t \in deq + 1 .. enq - 1 : t = deq + i
    BY <1>0
  <2>2. i + 1 \in 1 .. n + 1 /\ deq + (i + 1) - 1 = t /\ deq' + i - 1 = t
    BY <1>0, <2>1
  <2>3. Line'[i] = TicketItem(t)'
    BY <1>2, <2>2
  <2>4. Line[i + 1] = TicketItem(t)
    BY <1>2, <2>2
  <2> QED BY <2>1, <2>3, <2>4
<1>4. Line[1] = TicketItem(deq)
  <2>1. 1 \in 1 .. n + 1 /\ deq + 1 - 1 = deq
    BY <1>0, <1>1
  <2> QED BY <1>2, <2>1
<1> HIDE DEF n
<1>5. Line # <<>> /\ Head(Line) = TicketItem(deq) /\ Line' = Tail(Line)
  <2>1. Line = [i \in 1 .. n + 1 |-> Line[i]] /\ Line' = [i \in 1 .. n |-> Line'[i]]
    BY <1>2
  <2>2. Line # <<>> /\ Head(Line) = Line[1] /\ Line' = Tail(Line)
    BY <2>1, <1>1, <1>3, ShorterByOne
  <2> QED BY <2>2, <1>4
<1>6. c \in AllPoppers
  BY DEF AllPoppers, Poppers, SegmentTypeOK
<1>7. AllPopped' = [AllPopped EXCEPT ![c] = Append(@, Head(Line))]
  <2>1. AllPopped' = [d \in AllPoppers |-> IF d \in Poppers THEN Popped(d)' ELSE <<>>]
    BY DEF AllPopped, AllPoppers, SameQueue
  <2> QED BY <2>1, <1>5, <1>6 DEF AllPopped
<1> QED BY <1>5, <1>6, <1>7 DEF Segments!Next, Segments!Pop

\* A ticket's item changes with its writer, the writer's item, or its slot.
LEMMA TicketStays ==
  ASSUME NEW t, Writing(t)' = Writing(t), \A q \in Writing(t) : Item(q)' = Item(q),
         Writing(t) = {} => cell'[t] = cell[t]
  PROVE  TicketItem(t)' = TicketItem(t)
<1>1. CASE Writing(t) = {}
  BY <1>1 DEF TicketItem
<1>2. CASE Writing(t) # {}
  <2>1. (CHOOSE p \in Writing(t) : TRUE) \in Writing(t)
    BY <1>2
  <2> QED BY <1>2, <2>1 DEF TicketItem
<1> QED BY <1>1, <1>2

PopStarted(c) == pc[c] \in {"head", "walk", "rewalk"}

LEMMA PoppedStays ==
  ASSUME NEW c \in Poppers, PopStarted(c)' <=> PopStarted(c), got'[c] = got[c],
         NEW t, t = pos[c], PopStarted(c) => pos'[c] = t /\ TicketItem(t)' = TicketItem(t)
  PROVE  Popped(c)' = Popped(c)
BY DEF Popped, PopStarted

\* A thread goes on in its call: no ticket, item or slot changes hands.
LEMMA QuietWalk ==
  ASSUME SegmentTypeOK, SameQueue, enq' = enq, deq' = deq, cell' = cell, got' = got,
         Users = Pushers \cup Poppers, NEW x \in Users, OneMoves(x),
         x \in Pushers => (pc'[x] # "idle" <=> pc[x] # "idle") /\ pos'[x] = pos[x] /\ begun'[x] = begun[x],
         x \in Poppers => (PopStarted(x)' <=> PopStarted(x)) /\ (PopStarted(x) => pos'[x] = pos[x])
  PROVE  UNCHANGED Segments!vars
<1>1. \A p \in Pushers : (pc'[p] # "idle" <=> pc[p] # "idle") /\ pos'[p] = pos[p] /\ Item(p)' = Item(p)
  BY DEF OneMoves, Item
<1>2. ASSUME NEW t PROVE TicketItem(t)' = TicketItem(t)
  <2>1. Writing(t)' = Writing(t)
    BY <1>1 DEF Writing, SameQueue
  <2> QED BY <1>1, <2>1, TicketStays DEF Writing
<1>3. ASSUME NEW c \in Poppers PROVE Popped(c)' = Popped(c)
  <2>1. (PopStarted(c)' <=> PopStarted(c)) /\ (PopStarted(c) => pos'[c] = pos[c])
    BY DEF OneMoves, PopStarted
  <2> QED BY <1>2, <2>1, PoppedStays
<1> QED BY <1>2, <1>3, LineAlike

LEMMA LoadTailWalks == ASSUME SegmentAssumption, SegmentInv, NEW p \in Pushers, LoadTail(p) PROVE UNCHANGED Segments!vars
<1>1. /\ SameQueue /\ SegmentTypeOK /\ Users = Pushers \cup Poppers /\ Pushers \cap Poppers = {} /\ p \in Users
      /\ enq' = enq /\ deq' = deq /\ cell' = cell /\ got' = got
  BY SegmentParts, SegmentSides, SameQueueFacts DEF LoadTail
<1>2. OneMoves(p)
  BY <1>1 DEF LoadTail, Moves, OneMoves, SegmentTypeOK
<1>3. pc[p] # "idle" /\ pc'[p] # "idle" /\ pos' = pos /\ begun' = begun
  BY <1>1 DEF LoadTail, Moves, SegmentTypeOK
<1> QED BY <1>1, <1>2, <1>3, QuietWalk

LEMMA NextOrLinkWalks == ASSUME SegmentAssumption, SegmentInv, NEW p \in Pushers, NextOrLink(p) PROVE UNCHANGED Segments!vars
<1>1. /\ SameQueue /\ SegmentTypeOK /\ Users = Pushers \cup Poppers /\ Pushers \cap Poppers = {} /\ p \in Users
      /\ enq' = enq /\ deq' = deq /\ cell' = cell /\ got' = got
  BY SegmentParts, SegmentSides, SameQueueFacts DEF NextOrLink
<1>2. OneMoves(p)
  BY <1>1 DEF NextOrLink, Moves, OneMoves, SegmentTypeOK
<1>3. pc[p] # "idle" /\ pc'[p] # "idle" /\ pos' = pos /\ begun' = begun
  BY <1>1 DEF NextOrLink, Moves, SegmentTypeOK
<1> QED BY <1>1, <1>2, <1>3, QuietWalk

LEMMA SwingTailWalks == ASSUME SegmentAssumption, SegmentInv, NEW p \in Pushers, SwingTail(p) PROVE UNCHANGED Segments!vars
<1>1. /\ SameQueue /\ SegmentTypeOK /\ Users = Pushers \cup Poppers /\ Pushers \cap Poppers = {} /\ p \in Users
      /\ enq' = enq /\ deq' = deq /\ cell' = cell /\ got' = got
  BY SegmentParts, SegmentSides, SameQueueFacts DEF SwingTail
<1>2. OneMoves(p)
  BY <1>1 DEF SwingTail, Moves, OneMoves, SegmentTypeOK
<1>3. pc[p] # "idle" /\ pc'[p] # "idle" /\ pos' = pos /\ begun' = begun
  BY <1>1 DEF SwingTail, Moves, SegmentTypeOK
<1> QED BY <1>1, <1>2, <1>3, QuietWalk

LEMMA PushFallBackWalks == ASSUME SegmentAssumption, SegmentInv, NEW p \in Pushers, PushFallBack(p) PROVE UNCHANGED Segments!vars
<1>1. /\ SameQueue /\ SegmentTypeOK /\ Users = Pushers \cup Poppers /\ Pushers \cap Poppers = {} /\ p \in Users
      /\ enq' = enq /\ deq' = deq /\ cell' = cell /\ got' = got
  BY SegmentParts, SegmentSides, SameQueueFacts DEF PushFallBack
<1>2. OneMoves(p)
  BY <1>1 DEF PushFallBack, Moves, OneMoves, SegmentTypeOK
<1>3. pc[p] # "idle" /\ pc'[p] # "idle" /\ pos' = pos /\ begun' = begun
  BY <1>1 DEF PushFallBack, Moves, SegmentTypeOK
<1> QED BY <1>1, <1>2, <1>3, QuietWalk

LEMMA RewalkWalks == ASSUME SegmentAssumption, SegmentInv, NEW t \in Users, Rewalk(t) PROVE UNCHANGED Segments!vars
<1>1. /\ SameQueue /\ SegmentTypeOK /\ Users = Pushers \cup Poppers /\ Pushers \cap Poppers = {} /\ t \in Users
      /\ enq' = enq /\ deq' = deq /\ cell' = cell /\ got' = got
  BY SegmentParts, SegmentSides, SameQueueFacts DEF Rewalk
<1>2. OneMoves(t)
  BY <1>1 DEF Rewalk, Moves, OneMoves, SegmentTypeOK
<1>3. pc[t] # "idle" /\ pc'[t] # "idle" /\ pos' = pos /\ begun' = begun
  BY <1>1 DEF Rewalk, Moves, SegmentTypeOK
<1>4. PopStarted(t)' <=> PopStarted(t)
  BY DEF Rewalk, PopStarted
<1> QED BY <1>1, <1>2, <1>3, <1>4, QuietWalk

LEMMA PopBeginWalks == ASSUME SegmentAssumption, SegmentInv, NEW c \in Poppers, PopBegin(c) PROVE UNCHANGED Segments!vars
<1>1. /\ SameQueue /\ SegmentTypeOK /\ Users = Pushers \cup Poppers /\ Pushers \cap Poppers = {} /\ c \in Users
      /\ enq' = enq /\ deq' = deq /\ cell' = cell /\ got' = got
  BY SegmentParts, SegmentSides, SameQueueFacts DEF PopBegin
<1>2. OneMoves(c)
  BY <1>1 DEF PopBegin, Moves, OneMoves, SegmentTypeOK
<1>3. (PopStarted(c)' <=> PopStarted(c)) /\ (PopStarted(c) => pos' = pos)
  BY <1>1 DEF PopBegin, Moves, SegmentTypeOK, PopStarted
<1> QED BY <1>1, <1>2, <1>3, QuietWalk

LEMMA CompareWalks == ASSUME SegmentAssumption, SegmentInv, NEW c \in Poppers, Compare(c) PROVE UNCHANGED Segments!vars
<1>1. /\ SameQueue /\ SegmentTypeOK /\ Users = Pushers \cup Poppers /\ Pushers \cap Poppers = {} /\ c \in Users
      /\ enq' = enq /\ deq' = deq /\ cell' = cell /\ got' = got
  BY SegmentParts, SegmentSides, SameQueueFacts DEF Compare
<1>2. OneMoves(c)
  BY <1>1 DEF Compare, Moves, OneMoves, SegmentTypeOK
<1>3. (PopStarted(c)' <=> PopStarted(c)) /\ (PopStarted(c) => pos' = pos)
  BY <1>1 DEF Compare, Moves, SegmentTypeOK, PopStarted
<1> QED BY <1>1, <1>2, <1>3, QuietWalk

LEMMA LoadHeadWalks == ASSUME SegmentAssumption, SegmentInv, NEW c \in Poppers, LoadHead(c) PROVE UNCHANGED Segments!vars
<1>1. /\ SameQueue /\ SegmentTypeOK /\ Users = Pushers \cup Poppers /\ Pushers \cap Poppers = {} /\ c \in Users
      /\ enq' = enq /\ deq' = deq /\ cell' = cell /\ got' = got
  BY SegmentParts, SegmentSides, SameQueueFacts DEF LoadHead
<1>2. OneMoves(c)
  BY <1>1 DEF LoadHead, Moves, OneMoves, SegmentTypeOK
<1>3. (PopStarted(c)' <=> PopStarted(c)) /\ (PopStarted(c) => pos' = pos)
  BY <1>1 DEF LoadHead, Moves, SegmentTypeOK, PopStarted
<1> QED BY <1>1, <1>2, <1>3, QuietWalk

LEMMA WalkHeadWalks == ASSUME SegmentAssumption, SegmentInv, NEW c \in Poppers, WalkHead(c) PROVE UNCHANGED Segments!vars
<1>1. /\ SameQueue /\ SegmentTypeOK /\ Users = Pushers \cup Poppers /\ Pushers \cap Poppers = {} /\ c \in Users
      /\ enq' = enq /\ deq' = deq /\ cell' = cell /\ got' = got
  BY SegmentParts, SegmentSides, SameQueueFacts DEF WalkHead
<1>2. OneMoves(c)
  BY <1>1 DEF WalkHead, Moves, OneMoves, SegmentTypeOK
<1>3. (PopStarted(c)' <=> PopStarted(c)) /\ (PopStarted(c) => pos' = pos)
  BY <1>1 DEF WalkHead, Moves, SegmentTypeOK, PopStarted
<1> QED BY <1>1, <1>2, <1>3, QuietWalk

LEMMA PopFallBackWalks == ASSUME SegmentAssumption, SegmentInv, NEW c \in Poppers, PopFallBack(c) PROVE UNCHANGED Segments!vars
<1>1. /\ SameQueue /\ SegmentTypeOK /\ Users = Pushers \cup Poppers /\ Pushers \cap Poppers = {} /\ c \in Users
      /\ enq' = enq /\ deq' = deq /\ cell' = cell /\ got' = got
  BY SegmentParts, SegmentSides, SameQueueFacts DEF PopFallBack
<1>2. OneMoves(c)
  BY <1>1 DEF PopFallBack, Moves, OneMoves, SegmentTypeOK
<1>3. (PopStarted(c)' <=> PopStarted(c)) /\ (PopStarted(c) => pos' = pos)
  BY <1>1 DEF PopFallBack, Moves, SegmentTypeOK, PopStarted
<1> QED BY <1>1, <1>2, <1>3, QuietWalk

LEMMA AdvanceHeadWalks == ASSUME SegmentAssumption, SegmentInv, NEW c \in Poppers, AdvanceHead(c) PROVE UNCHANGED Segments!vars
<1>1. /\ SameQueue /\ SegmentTypeOK /\ Users = Pushers \cup Poppers /\ Pushers \cap Poppers = {} /\ c \in Users
      /\ enq' = enq /\ deq' = deq /\ cell' = cell /\ got' = got
  BY SegmentParts, SegmentSides, SameQueueFacts DEF AdvanceHead
<1>2. OneMoves(c)
  BY <1>1 DEF AdvanceHead, Moves, OneMoves, SegmentTypeOK
<1>3. (PopStarted(c)' <=> PopStarted(c)) /\ (PopStarted(c) => pos' = pos)
  BY <1>1 DEF AdvanceHead, Moves, SegmentTypeOK, PopStarted
<1> QED BY <1>1, <1>2, <1>3, QuietWalk

LEMMA PushTicketPushes == ASSUME SegmentAssumption, SegmentInv, NEW p \in Pushers, PushTicket(p) PROVE Segments!Next
<1>1. /\ SameQueue /\ SegmentTypeOK /\ Users = Pushers \cup Poppers /\ Pushers \cap Poppers = {} /\ p \in Users
      /\ enq' = enq + 1 /\ deq' = deq /\ cell' = cell /\ got' = got /\ enq \in Nat /\ deq \in Nat
      /\ enq < Pushes[kind] /\ Pushes[kind] \in Nat
  BY SegmentParts, SegmentSides, SegmentTyped, SameQueueFacts DEF PushTicket
<1>2. OneMoves(p) /\ pc[p] = "idle" /\ pc'[p] = "tail" /\ pos'[p] = enq /\ begun'[p] = begun[p] + 1
  BY <1>1 DEF PushTicket, Moves, OneMoves, SegmentTypeOK
<1>3. \A q \in Pushers \ {p} : pc'[q] = pc[q] /\ pos'[q] = pos[q] /\ Item(q)' = Item(q)
  BY <1>1, <1>2 DEF OneMoves, Item
<1>4. \A q \in Pushers : pc[q] # "idle" => pos[q] < enq /\ pos[q] \in Nat
  BY <1>1, SegmentParts, SegmentTyped DEF WritersInv
<1>5. ASSUME NEW t \in 0 .. enq - 1 PROVE TicketItem(t)' = TicketItem(t)
  <2>1. t # enq
    BY <1>1
  <2>2. Writing(t)' = Writing(t) /\ p \notin Writing(t)
    BY <1>1, <1>2, <1>3, <2>1 DEF Writing, SameQueue
  <2> QED BY <1>1, <1>3, <2>2, TicketStays DEF Writing
<1>6. PICK new \in Nat : new = enq
  BY <1>1
<1>7. TicketItem(new)' \in AllItems
  <2>1. \A q \in Pushers : pc'[q] # "idle" /\ pos'[q] = new => q = p
    BY <1>1, <1>2, <1>3, <1>4, <1>6
  <2>2. Writing(new)' = {p}
    BY <1>1, <1>2, <1>6, <2>1 DEF Writing, SameQueue
  <2>3. TicketItem(new)' = Item(p)'
    BY <2>2 DEF TicketItem
  <2>4. begun[p] + 1 \in 1 .. Pushes[kind]
    BY <1>1 DEF SegmentTypeOK
  <2>5. Item(p)' = <<p, begun[p] + 1>>
    BY <1>2 DEF Item
  <2> QED BY <2>3, <2>4, <2>5, <1>1 DEF AllItems, Pushers, SegmentTypeOK
<1>8. ASSUME NEW c \in Poppers PROVE Popped(c)' = Popped(c)
  <2>1. pc'[c] = pc[c] /\ pos'[c] = pos[c]
    BY <1>1, <1>2 DEF OneMoves
  <2>2. PopStarted(c) => pos[c] \in 0 .. enq - 1
    BY <1>1, SegmentParts, SegmentTyped DEF ReadersInv, PopStarted, Claimed
  <2>3. PopStarted(c)' <=> PopStarted(c)
    BY <2>1 DEF PopStarted
  <2>4. PICK t : t = pos[c]
    OBVIOUS
  <2>5. PopStarted(c) => TicketItem(t)' = TicketItem(t)
    BY <2>2, <2>4, <1>5
  <2> QED BY <1>1, <2>1, <2>3, <2>4, <2>5, PoppedStays
<1>9. \A t \in deq .. enq - 1 : TicketItem(t)' = TicketItem(t)
  BY <1>1, <1>5
<1> QED BY <1>1, <1>6, <1>7, <1>8, <1>9, LinePushed

LEMMA FillStays == ASSUME SegmentAssumption, SegmentInv, NEW p \in Pushers, Fill(p) PROVE UNCHANGED Segments!vars
<1>1. /\ SameQueue /\ SegmentTypeOK /\ Users = Pushers \cup Poppers /\ Pushers \cap Poppers = {} /\ p \in Users
      /\ enq' = enq /\ deq' = deq /\ got' = got /\ pos' = pos /\ begun' = begun
  BY SegmentParts, SegmentSides, SameQueueFacts DEF Fill
<1>2. OneMoves(p) /\ pc[p] # "idle" /\ pc'[p] # "idle"
  BY <1>1 DEF Fill, Found, OneMoves, SegmentTypeOK
<1>3. ASSUME NEW t PROVE TicketItem(t)' = TicketItem(t)
  <2>1. Writing(t)' = Writing(t)
    BY <1>1, <1>2 DEF Writing, SameQueue, OneMoves
  <2>2. t = pos[p] => Writing(t) # {}
    BY <1>2 DEF Writing
  <2>3. t # pos[p] => cell'[t] = cell[t]
    BY <1>1 DEF Fill, SegmentTypeOK
  <2>4. \A q \in Writing(t) : Item(q)' = Item(q)
    BY <1>1 DEF Item
  <2> QED BY <2>1, <2>2, <2>3, <2>4, TicketStays
<1>4. ASSUME NEW c \in Poppers PROVE Popped(c)' = Popped(c)
  <2>1. PopStarted(c)' <=> PopStarted(c)
    BY <1>1, <1>2 DEF PopStarted, OneMoves
  <2> QED BY <1>1, <1>3, <2>1, PoppedStays
<1> QED BY <1>1, <1>3, <1>4, LineAlike

LEMMA PublishStays == ASSUME SegmentAssumption, SegmentInv, NEW p \in Pushers, Publish(p) PROVE UNCHANGED Segments!vars
<1>1. /\ SameQueue /\ SegmentTypeOK /\ Users = Pushers \cup Poppers /\ Pushers \cap Poppers = {} /\ p \in Users
      /\ enq' = enq /\ deq' = deq /\ got' = got /\ pos' = pos /\ begun' = begun /\ cell' = cell
  BY SegmentParts, SegmentSides, SameQueueFacts DEF Publish
<1>2. OneMoves(p) /\ pc[p] = "publish" /\ pc'[p] = "idle"
  BY <1>1 DEF Publish, Moves, OneMoves, SegmentTypeOK
<1>3. \A q \in Pushers \ {p} : pc'[q] = pc[q] /\ (pc[q] # "idle" => pos[q] # pos[p])
  BY <1>1, <1>2, SegmentParts DEF OneMoves, WritersInv, Writing
<1>4. ASSUME NEW t PROVE TicketItem(t)' = TicketItem(t)
  <2>1. CASE t = pos[p]
    <3>1. Writing(t) = {p} /\ Writing(t)' = {}
      BY <1>1, <1>2, <1>3, <2>1 DEF Writing, SameQueue
    <3>2. cell[t] = Item(p)
      BY <1>2, <2>1, SegmentParts DEF WritersInv
    <3> QED BY <1>1, <3>1, <3>2 DEF TicketItem
  <2>2. CASE t # pos[p]
    <3>1. Writing(t)' = Writing(t)
      BY <1>1, <1>2, <1>3, <2>2 DEF Writing, SameQueue
    <3>2. \A q \in Writing(t) : Item(q)' = Item(q)
      BY <1>1 DEF Item
    <3> QED BY <1>1, <3>1, <3>2, TicketStays
  <2> QED BY <2>1, <2>2
<1>5. ASSUME NEW c \in Poppers PROVE Popped(c)' = Popped(c)
  <2>1. PopStarted(c)' <=> PopStarted(c)
    BY <1>1, <1>2 DEF PopStarted, OneMoves
  <2> QED BY <1>1, <1>4, <2>1, PoppedStays
<1> QED BY <1>1, <1>4, <1>5, LineAlike

LEMMA ClaimPopPops == ASSUME SegmentAssumption, SegmentInv, NEW c \in Poppers, ClaimPop(c) PROVE [Segments!Next]_(Segments!vars)
<1>1. /\ SameQueue /\ SegmentTypeOK /\ Users = Pushers \cup Poppers /\ Pushers \cap Poppers = {} /\ c \in Users
      /\ enq' = enq /\ got' = got /\ begun' = begun /\ cell' = cell /\ enq \in Nat /\ deq \in Nat /\ pos[c] \in Nat
  BY SegmentParts, SegmentSides, SegmentTyped, SameQueueFacts DEF ClaimPop
<1>2. OneMoves(c) /\ pc[c] = "claim"
  BY <1>1 DEF ClaimPop, Moves, OneMoves, SegmentTypeOK
<1>3. CASE ManyPop /\ Moves(c, "claim", "compare") /\ pos' = [pos EXCEPT ![c] = deq] /\ deq' = deq
  <2>1. (PopStarted(c)' <=> PopStarted(c)) /\ ~PopStarted(c)
    BY <1>1, <1>2, <1>3 DEF Moves, SegmentTypeOK, PopStarted
  <2> QED BY <1>1, <1>2, <1>3, <2>1, QuietWalk
<1>4. CASE (deq = pos[c] \/ ~ManyPop) /\ Moves(c, "claim", "head") /\ deq' = pos[c] + 1 /\ pos' = pos
  <2>1. pos[c] = deq /\ deq' = deq + 1 /\ deq < enq /\ pc'[c] = "head"
    BY <1>1, <1>2, <1>4, SegmentParts DEF HeadInv, ReadersInv, Moves, SegmentTypeOK
  <2>2. ASSUME NEW t PROVE TicketItem(t)' = TicketItem(t)
    <3>1. Writing(t)' = Writing(t)
      BY <1>1, <1>2, <1>4 DEF Writing, SameQueue, OneMoves
    <3>2. \A q \in Writing(t) : Item(q)' = Item(q)
      BY <1>1 DEF Item
    <3> QED BY <1>1, <3>1, <3>2, TicketStays
  <2>3. Popped(c)' = Append(Popped(c), TicketItem(deq))
    <3>1. PICK t : t = deq
      OBVIOUS
    <3>2. Popped(c)' = Append(got[c], TicketItem(t)')
      BY <1>1, <1>4, <2>1, <3>1 DEF Popped
    <3>3. Popped(c) = got[c]
      BY <1>2 DEF Popped
    <3> QED BY <2>2, <3>1, <3>2, <3>3
  <2>4. ASSUME NEW d \in Poppers \ {c} PROVE Popped(d)' = Popped(d)
    <3>1. PopStarted(d)' <=> PopStarted(d)
      BY <1>1, <1>2 DEF PopStarted, OneMoves
    <3> QED BY <1>1, <1>4, <2>2, <3>1, PoppedStays
  <2> QED BY <1>1, <2>1, <2>2, <2>3, <2>4, LinePopped
<1> QED BY <1>3, <1>4 DEF ClaimPop

LEMMA TakeStays == ASSUME SegmentAssumption, SegmentInv, NEW c \in Poppers, Take(c) PROVE UNCHANGED Segments!vars
<1>1. /\ SameQueue /\ SegmentTypeOK /\ Users = Pushers \cup Poppers /\ Pushers \cap Poppers = {} /\ c \in Users
      /\ enq' = enq /\ deq' = deq /\ pos' = pos /\ begun' = begun /\ cell' = cell
  BY SegmentParts, SegmentSides, SameQueueFacts DEF Take
<1>2. /\ OneMoves(c) /\ PopStarted(c) /\ pc'[c] = "retire" /\ phase[pos[c]] = "full"
      /\ got'[c] = Append(got[c], cell[pos[c]]) /\ \A d \in Poppers \ {c} : got'[d] = got[d]
  BY <1>1 DEF Take, Found, OneMoves, PopStarted, SegmentTypeOK
<1>3. ASSUME NEW t PROVE TicketItem(t)' = TicketItem(t)
  <2>1. Writing(t)' = Writing(t)
    BY <1>1, <1>2 DEF Writing, SameQueue, OneMoves
  <2>2. \A q \in Writing(t) : Item(q)' = Item(q)
    BY <1>1 DEF Item
  <2> QED BY <1>1, <2>1, <2>2, TicketStays
<1>4. Popped(c)' = Popped(c)
  <2>1. Writing(pos[c]) = {}
    BY <1>2, SegmentParts DEF WritersInv, Writing
  <2>2. TicketItem(pos[c]) = cell[pos[c]]
    BY <2>1 DEF TicketItem
  <2> QED BY <1>2, <2>2 DEF Popped, PopStarted
<1>5. ASSUME NEW d \in Poppers \ {c} PROVE Popped(d)' = Popped(d)
  <2>1. PopStarted(d)' <=> PopStarted(d)
    BY <1>1, <1>2 DEF PopStarted, OneMoves
  <2> QED BY <1>1, <1>2, <1>3, <2>1, PoppedStays
<1> QED BY <1>1, <1>3, <1>4, <1>5, LineAlike

LEMMA RetireStays == ASSUME SegmentAssumption, SegmentInv, NEW c \in Poppers, Retire(c) PROVE UNCHANGED Segments!vars
<1>1. /\ SameQueue /\ SegmentTypeOK /\ Users = Pushers \cup Poppers /\ Pushers \cap Poppers = {} /\ c \in Users
      /\ enq' = enq /\ deq' = deq /\ pos' = pos /\ begun' = begun /\ got' = got /\ deq \in Nat /\ enq \in Nat /\ pos[c] \in Nat
  BY SegmentParts, SegmentSides, SegmentTyped, SameQueueFacts DEF Retire
<1>2. OneMoves(c) /\ pc[c] = "retire" /\ pc'[c] \in {"idle", "advance"} /\ pos[c] < deq
  BY <1>1, SegmentParts DEF Retire, Moves, OneMoves, SegmentTypeOK, ReadersInv, Claimed
<1>3. ASSUME NEW t, t # pos[c] PROVE TicketItem(t)' = TicketItem(t)
  <2>1. Writing(t)' = Writing(t)
    BY <1>1, <1>2 DEF Writing, SameQueue, OneMoves
  <2>2. \A q \in Writing(t) : Item(q)' = Item(q)
    BY <1>1 DEF Item
  <2>3. cell'[t] = cell[t]
    BY <1>1, <1>3 DEF Retire, SegmentTypeOK
  <2> QED BY <2>1, <2>2, <2>3, TicketStays
<1>4. ASSUME NEW d \in Poppers PROVE Popped(d)' = Popped(d)
  <2>1. CASE d = c
    BY <1>1, <1>2, <2>1 DEF Popped
  <2>2. CASE d # c
    <3>1. PopStarted(d)' <=> PopStarted(d)
      BY <1>1, <1>2, <2>2 DEF PopStarted, OneMoves
    <3>2. PopStarted(d) => pos[d] # pos[c]
      BY <1>2, <2>2, SegmentParts DEF PopStarted, ReadersInv, Claimed
    <3> QED BY <1>1, <1>3, <3>1, <3>2, PoppedStays
  <2> QED BY <2>1, <2>2
<1>5. \A t \in deq .. enq - 1 : TicketItem(t)' = TicketItem(t)
  BY <1>1, <1>2, <1>3
<1> QED BY <1>1, <1>4, <1>5, LineAlike

LEMMA ClearClears == ASSUME SegmentAssumption, SegmentInv, Clear PROVE Segments!Next
<1>1. /\ SameQueue /\ Users = Pushers \cup Poppers /\ enq' - deq' = 0 /\ got' = got /\ pc' = pc
      /\ \A t \in Users : pc[t] = "idle"
  BY SegmentParts, SegmentSides, SegmentTyped, SameQueueFacts DEF Clear
<1>2. Line' = <<>>
  <2>1. Line' = [i \in 1 .. 0 |-> TicketItem(deq + i - 1)']
    BY <1>1 DEF Line
  <2> QED BY <2>1
<1>3. AllPopped' = AllPopped
  <2>1. \A c \in Poppers : Popped(c)' = Popped(c)
    BY <1>1 DEF Popped
  <2> QED BY <1>1, <2>1 DEF AllPopped, AllPoppers, SameQueue
<1> QED BY <1>2, <1>3 DEF Segments!Next, Segments!Clear

LEMMA SegmentSteps ==
  ASSUME SegmentAssumption, SegmentInv, [SegmentNext]_segmentVars
  PROVE  SegmentsStep
<1> SUFFICES [Segments!Next]_(Segments!vars)
  BY DEF SegmentsStep
<1>1. ASSUME UNCHANGED segmentVars PROVE UNCHANGED Segments!vars
  <2>1. SameQueue /\ SegmentTypeOK
    BY <1>1, SegmentParts, SameQueueFacts DEF segmentVars
  <2>2. ASSUME NEW t PROVE TicketItem(t)' = TicketItem(t)
    <3>1. Writing(t)' = Writing(t)
      BY <1>1, <2>1 DEF Writing, SameQueue, segmentVars
    <3>2. \A q \in Writing(t) : Item(q)' = Item(q)
      BY <1>1 DEF Item, segmentVars
    <3> QED BY <1>1, <3>1, <3>2, TicketStays DEF segmentVars
  <2>3. ASSUME NEW c \in Poppers PROVE Popped(c)' = Popped(c)
    <3>1. PopStarted(c)' <=> PopStarted(c)
      BY <1>1 DEF PopStarted, segmentVars
    <3> QED BY <1>1, <2>2, <3>1, PoppedStays DEF segmentVars
  <2> QED BY <1>1, <2>1, <2>2, <2>3, LineAlike DEF segmentVars
<1>2. ASSUME NEW p \in Pushers,
             \/ PushTicket(p) \/ LoadTail(p) \/ NextOrLink(p) \/ SwingTail(p)
             \/ PushFallBack(p) \/ Rewalk(p) \/ Fill(p) \/ Publish(p)
      PROVE  [Segments!Next]_(Segments!vars)
  <2>1. p \in Users
    BY DEF Users
  <2> QED BY <1>2, <2>1, PushTicketPushes, LoadTailWalks, NextOrLinkWalks, SwingTailWalks, PushFallBackWalks,
             RewalkWalks, FillStays, PublishStays
<1>3. ASSUME NEW c \in Poppers,
             \/ PopBegin(c) \/ Compare(c) \/ ClaimPop(c) \/ LoadHead(c) \/ WalkHead(c)
             \/ PopFallBack(c) \/ Rewalk(c) \/ Take(c) \/ Retire(c) \/ AdvanceHead(c)
      PROVE  [Segments!Next]_(Segments!vars)
  <2>1. c \in Users
    BY DEF Users
  <2> QED BY <1>3, <2>1, PopBeginWalks, CompareWalks, ClaimPopPops, LoadHeadWalks, WalkHeadWalks, PopFallBackWalks,
             RewalkWalks, TakeStays, RetireStays, AdvanceHeadWalks
<1> QED BY <1>1, <1>2, <1>3, ClearClears DEF SegmentNext

LEMMA SegmentStarts == SegmentInit => SegmentsStart
<1> SUFFICES ASSUME SegmentInit PROVE Segments!Init
  BY DEF SegmentsStart
<1>1. Line = <<>>
  <2>1. Line = [i \in 1 .. 0 |-> TicketItem(deq + i - 1)]
    BY DEF SegmentInit, Line
  <2> QED BY <2>1
<1>2. ASSUME NEW c \in Poppers PROVE Popped(c) = <<>>
  BY DEF SegmentInit, Popped, Users
<1>3. AllPopped = [c \in AllPoppers |-> <<>>]
  BY <1>2 DEF AllPopped
<1> QED BY <1>1, <1>3 DEF Segments!Init
=============================================================================
