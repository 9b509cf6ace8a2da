------------------------------ MODULE EventLoop ------------------------------
(* common/utils/EventLoop.hpp: a queue with one consumer thread that sleeps *)
(* on the counter _wake when the queue is empty, and the owner that starts  *)
(* and stops it. The Logger (common/log) is the loop's user: its flush()    *)
(* waits until as many entries have been processed as had been counted.     *)
(*                                                                          *)
(* An entry is in the queue from the moment its producer holds a ticket and *)
(* can be popped once it is published. With Bound = 0 the queue is a        *)
(* SegmentedMPSCQueue: it is never full, and a pop waits for the entry at   *)
(* the head. With Bound > 0 it is BoundedMPSCQueue: a push fails when it is *)
(* full, and a pop fails while the head is not published.                   *)
EXTENDS Integers, Sequences, FiniteSets

CONSTANTS
  Posters,    \* the threads that post
  Bound,
  Batches,    \* the sizes of the batches that are posted; 1 is post()
  Posts,      \* bound: posting calls per thread
  MayStop     \* does the owner stop the loop?

(* The worker and the owner do not post.                                    *)
LoopAssumption == {"worker", "owner"} \cap Posters = {}

VARIABLES
  entries,    \* _queue: records [by, n, ready]
  running,    \* _running
  stopping,   \* the jthread's stop token
  at,         \* where each thread is: the posters, "worker" and "owner"
  calls,      \* posting calls each poster has begun
  todo,       \* items its current call still has to push
  pushed,     \* items its current call has pushed
  named,      \* items it has pushed in all
  fresh,      \* the worker's snapshot of _wake still is its value: that is all a
              \* 64-bit counter that only grows tells it
  held,       \* the entry the handler runs on; NoEntry otherwise
  handled,    \* history: the entries handled
  due,        \* history: entries posted by calls that returned before stop()
  force,      \* stop()'s argument
  counted,    \* Logger::_enqueued
  processed   \* Logger::_processed

loopVars == <<entries, running, stopping, at, calls, todo, pushed, named, fresh,
              held, handled, due, force, counted, processed>>

NoEntry == <<"none", 0>>
Name(e) == <<e.by, e.n>>

Goto(t, from, to) == at[t] = from /\ at' = [at EXCEPT ![t] = to]

LoopInit ==
  /\ entries = <<>>
  /\ running = FALSE /\ stopping = FALSE
  /\ at = [t \in Posters \cup {"worker", "owner"} |-> IF t = "worker" THEN "none" ELSE "idle"]
  /\ calls = [p \in Posters |-> 0] /\ todo = [p \in Posters |-> 0]
  /\ pushed = [p \in Posters |-> 0] /\ named = [p \in Posters |-> 0]
  /\ fresh = FALSE /\ held = NoEntry /\ handled = {} /\ due = {} /\ force = FALSE
  /\ counted = 0 /\ processed = 0

(***************************************************************************)
(* Posting                                                                 *)
(***************************************************************************)

(* post, try_post, post_emplace, try_post_batch or Logger::log. Nobody may  *)
(* post once stop() has returned.                                           *)
PostBegin(p) ==
  /\ calls[p] < Posts /\ at["owner"] # "stopped"
  /\ Goto(p, "idle", "push")
  /\ calls' = [calls EXCEPT ![p] = @ + 1]
  /\ todo' \in {[todo EXCEPT ![p] = k] : k \in Batches}
  /\ pushed' = [pushed EXCEPT ![p] = 0]
  /\ UNCHANGED <<entries, running, stopping, named, fresh, held, handled, due, force,
                 counted, processed>>

Full == Bound > 0 /\ Len(entries) >= Bound

(* try_push takes a ticket ... *)
Claim(p) ==
  /\ ~Full
  /\ Goto(p, "push", "publish")
  /\ entries' = Append(entries, [by |-> p, n |-> named[p] + 1, ready |-> FALSE])
  /\ named' = [named EXCEPT ![p] = @ + 1]
  /\ UNCHANGED <<running, stopping, calls, todo, pushed, fresh, held, handled, due, force,
                 counted, processed>>

(* ... and publishes the entry; a batch goes on with its next item. *)
PublishEntry(p) ==
  /\ Goto(p, "publish", IF todo[p] > 1 THEN "push" ELSE "signal")
  /\ entries' = [i \in DOMAIN entries |->
                   IF entries[i].by = p THEN [entries[i] EXCEPT !.ready = TRUE] ELSE entries[i]]
  /\ todo' = [todo EXCEPT ![p] = @ - 1]
  /\ pushed' = [pushed EXCEPT ![p] = @ + 1]
  /\ UNCHANGED <<running, stopping, calls, named, fresh, held, handled, due, force,
                 counted, processed>>

(* The queue is full: try_post returns false and a batch stops short. What  *)
(* it did push is still signalled. (post() tries again: no step.)           *)
GiveUp(p) ==
  /\ Full
  /\ Goto(p, "push", IF pushed[p] > 0 THEN "signal" ELSE "idle")
  /\ UNCHANGED <<entries, running, stopping, calls, todo, pushed, named, fresh, held, handled,
                 due, force, counted, processed>>

(* _signal(): the counter first ... *)
Signal(p) ==
  /\ Goto(p, "signal", "notify")
  /\ fresh' = FALSE
  /\ UNCHANGED <<entries, running, stopping, calls, todo, pushed, named, held, handled, due,
                 force, counted, processed>>

(* ... then notify_one: a sleeping worker looks at the counter again. *)
Notify(p) ==
  /\ at[p] = "notify"
  /\ at' = [at EXCEPT ![p] = "count", !["worker"] = IF @ = "asleep" THEN "wait" ELSE @]
  /\ UNCHANGED <<entries, running, stopping, calls, todo, pushed, named, fresh, held, handled,
                 due, force, counted, processed>>

(* Logger::log counts the entry after it was posted. *)
Count(p) ==
  /\ Goto(p, "count", "idle")
  /\ counted' = counted + pushed[p]
  /\ UNCHANGED <<entries, running, stopping, calls, todo, pushed, named, fresh, held, handled,
                 due, force, processed>>

(***************************************************************************)
(* The consumer thread: _run                                               *)
(***************************************************************************)

Poppable == entries # <<>> /\ Head(entries).ready

(* try_pop finds nothing. On a SegmentedMPSCQueue that means no ticket is   *)
(* out; with one, the pop waits.                                            *)
NothingToPop == IF Bound = 0 THEN entries = <<>> ELSE ~Poppable

Dispatch(from, to) ==
  /\ Poppable /\ held = NoEntry
  /\ Goto("worker", from, to)
  /\ held' = Name(Head(entries))
  /\ entries' = Tail(entries)
  /\ UNCHANGED <<running, stopping, calls, todo, pushed, named, fresh, handled, due, force,
                 counted, processed>>

(* The drain at the top of the loop, the drain after a stop request, and the *)
(* second look before sleeping; each dispatches what it pops.                *)
(* Mutant: the entry is counted as processed when it is popped. *)
DrainOne_Counts ==
  /\ Poppable /\ held = NoEntry
  /\ at["worker"] \in {"drain", "final", "retry"}
  /\ at' = [at EXCEPT !["worker"] = IF @ = "final" THEN @ ELSE "drain"]
  /\ held' = Name(Head(entries)) /\ entries' = Tail(entries) /\ processed' = processed + 1
  /\ UNCHANGED <<running, stopping, calls, todo, pushed, named, fresh, handled, due, force, counted>>
DrainOne == Dispatch("drain", "drain") \/ Dispatch("final", "final") \/ Dispatch("retry", "drain")

(* The handler returns (it may throw: the exception is swallowed). Logger's  *)
(* handler counts the entry as processed.                                    *)
HandlerReturns ==
  /\ held # NoEntry
  /\ handled' = handled \cup {held}
  /\ held' = NoEntry
  /\ processed' = processed + 1
  /\ UNCHANGED <<entries, running, stopping, at, calls, todo, pushed, named, fresh, due, force,
                 counted>>

(* The pop failed: has a stop been requested? Entries may have come since,  *)
(* so that the exit is preceded by one more drain.                          *)
DrainEnds ==
  /\ NothingToPop /\ held = NoEntry
  /\ Goto("worker", "drain", "stop?")
  /\ UNCHANGED <<entries, running, stopping, calls, todo, pushed, named, fresh, held, handled,
                 due, force, counted, processed>>

(* Mutant: the worker stops without the drain after the stop request. *)
CheckStop_NoDrain ==
  /\ Goto("worker", "stop?", IF stopping THEN "exited" ELSE "snapshot")
  /\ UNCHANGED <<entries, running, stopping, calls, todo, pushed, named, fresh, held, handled,
                 due, force, counted, processed>>

CheckStop ==
  /\ Goto("worker", "stop?", IF stopping THEN "final" ELSE "snapshot")
  /\ UNCHANGED <<entries, running, stopping, calls, todo, pushed, named, fresh, held, handled,
                 due, force, counted, processed>>

WorkerExit ==
  /\ NothingToPop /\ held = NoEntry
  /\ Goto("worker", "final", "exited")
  /\ UNCHANGED <<entries, running, stopping, calls, todo, pushed, named, fresh, held, handled,
                 due, force, counted, processed>>

(* Mutant: the second look comes before the counter is read. *)
Snapshot_Late ==
  /\ NothingToPop
  /\ Goto("worker", "snapshot", "wait")
  /\ fresh' = TRUE
  /\ UNCHANGED <<entries, running, stopping, calls, todo, pushed, named, held, handled, due,
                 force, counted, processed>>

(* _wake is read before the second look: a post in between changes it. *)
Snapshot ==
  /\ Goto("worker", "snapshot", "retry")
  /\ fresh' = TRUE
  /\ UNCHANGED <<entries, running, stopping, calls, todo, pushed, named, held, handled, due,
                 force, counted, processed>>

SecondLookFails ==
  /\ NothingToPop /\ held = NoEntry
  /\ Goto("worker", "retry", "wait")
  /\ UNCHANGED <<entries, running, stopping, calls, todo, pushed, named, fresh, held, handled,
                 due, force, counted, processed>>

(* _wake.wait(prev): sleeps only while the value is still prev. *)
WaitWake ==
  /\ Goto("worker", "wait", IF fresh THEN "asleep" ELSE "drain")
  /\ UNCHANGED <<entries, running, stopping, calls, todo, pushed, named, fresh, held, handled,
                 due, force, counted, processed>>

(***************************************************************************)
(* The owner: start() and stop()                                           *)
(***************************************************************************)

Start ==
  /\ at["owner"] = "idle" /\ ~running
  /\ running' = TRUE
  /\ at' = [at EXCEPT !["owner"] = "started", !["worker"] = "drain"]
  /\ UNCHANGED <<entries, stopping, calls, todo, pushed, named, fresh, held, handled, due,
                 force, counted, processed>>

(* How many of p's entries were posted by calls that have returned. *)
Returned(p) ==
  IF at[p] \in {"idle", "count"} THEN named[p]
  ELSE IF at[p] = "publish" THEN named[p] - pushed[p] - 1
  ELSE named[p] - pushed[p]

(* stop(): the flag and the stop request ... *)
StopBegin ==
  /\ MayStop
  /\ Goto("owner", "started", "bump")
  /\ running' = FALSE /\ stopping' = TRUE
  /\ force' \in BOOLEAN
  /\ due' = UNION {{<<p, n>> : n \in 1 .. Returned(p)} : p \in Posters}
  /\ UNCHANGED <<entries, calls, todo, pushed, named, fresh, held, handled, counted, processed>>

(* ... the counter, so that the worker cannot go to sleep any more ... *)
StopBump ==
  /\ Goto("owner", "bump", "notify")
  /\ fresh' = FALSE
  /\ UNCHANGED <<entries, running, stopping, calls, todo, pushed, named, held, handled, due,
                 force, counted, processed>>

(* ... notify_all ... *)
StopNotify ==
  /\ at["owner"] = "notify"
  /\ at' = [at EXCEPT !["owner"] = "join", !["worker"] = IF @ = "asleep" THEN "wait" ELSE @]
  /\ UNCHANGED <<entries, running, stopping, calls, todo, pushed, named, fresh, held, handled,
                 due, force, counted, processed>>

(* ... the join, and with force the entries that are left are thrown away. *)
StopJoin ==
  /\ at["worker"] = "exited"
  /\ Goto("owner", "join", "stopped")
  /\ entries' = IF force THEN SelectSeq(entries, LAMBDA e : ~e.ready) ELSE entries
  /\ UNCHANGED <<running, stopping, calls, todo, pushed, named, fresh, held, handled, due,
                 force, counted, processed>>

WorkerNext ==
  \/ DrainOne \/ HandlerReturns \/ DrainEnds \/ CheckStop \/ WorkerExit \/ Snapshot
  \/ SecondLookFails \/ WaitWake

PosterNext(p) ==
  Claim(p) \/ PublishEntry(p) \/ GiveUp(p) \/ Signal(p) \/ Notify(p) \/ Count(p)

OwnerNext == StopBump \/ StopNotify \/ StopJoin

LoopNext ==
  \/ \E p \in Posters : PostBegin(p) \/ PosterNext(p)
  \/ WorkerNext \/ OwnerNext \/ Start \/ StopBegin

(* A thread that is inside a call or in the loop goes on; nobody has to     *)
(* post, to start or to stop.                                               *)
LoopFairness ==
  /\ WF_loopVars(WorkerNext)
  /\ WF_loopVars(OwnerNext)
  /\ \A p \in Posters : WF_loopVars(PosterNext(p))

(* stop() without force lets the worker dispatch every entry whose posting  *)
(* call had returned before stop() was called: the drain after the stop     *)
(* request, and the loop that comes back to it after every wake, lose none. *)
GracefulStopDrains ==
  (at["owner"] = "stopped" /\ ~force /\ Bound = 0) => due \subseteq handled

(* While the loop runs, a published entry is handled: the worker never      *)
(* sleeps through it, whatever the posters do between the push, the counter *)
(* and the notification.                                                    *)
NothingWaits(p) ==
  at["owner"] = "started" /\ ~stopping =>
    \A i \in DOMAIN entries : entries[i].by = p => ~entries[i].ready

PublishedIsHandled == \A p \in Posters : []<>NothingWaits(p)

(****************************************************************************
(* common/log/Logger: log() posts an entry to the loop and counts it, the    *)
(* worker counts what it has processed, and flush() compares the counters.   *)
****************************************************************************)


VARIABLES
  target,   \* what flush() read of _enqueued; -1 when no flush is running
  owed      \* history: the entries of every log() that had returned by then

loggerVars == <<target, owed>>

LoggerInit ==
  /\ LoopInit
  /\ target = -1 /\ owed = {}

(* flush() reads _enqueued. *)
FlushBegin ==
  /\ target = -1 /\ at["owner"] = "started"
  /\ target' = counted
  /\ owed' = IF \A p \in Posters : at[p] = "idle"
             THEN UNION {{<<p, n>> : n \in 1 .. named[p]} : p \in Posters}
             ELSE {}
  /\ UNCHANGED loopVars

(* It spins until as many entries have been processed. *)
FlushDone ==
  /\ target >= 0 /\ processed >= target
  /\ target' = -1 /\ owed' = {}
  /\ UNCHANGED loopVars

LoggerNext ==
  \/ LoopNext /\ UNCHANGED loggerVars
  \/ FlushBegin \/ FlushDone

(* flush() called while no log() call is in progress returns only when      *)
(* every entry logged before has been handled. With a log() in progress it  *)
(* may return early: an entry can be processed before it is counted, and    *)
(* its count then stands for another entry.                                 *)
QuietFlushSeesAll ==
  (target >= 0 /\ processed >= target) => owed \subseteq handled

(***************************************************************************)
(* The inductive invariant behind GracefulStopDrains and QuietFlushSeesAll *)
(***************************************************************************)

Names == Posters \X (Nat \ {0})
Threads == Posters \cup {"worker", "owner"}
LoopTypeOK ==
  /\ at["owner"] # "stopped" => entries \in Seq([by : Posters, n : Nat \ {0}, ready : BOOLEAN])
  /\ at = [t \in Threads |-> at[t]]
  /\ pushed \in [Posters -> Nat] /\ named \in [Posters -> Nat]
  /\ held \in Names \cup {NoEntry} /\ handled \subseteq Names /\ IsFiniteSet(handled)
  /\ force \in BOOLEAN /\ stopping \in BOOLEAN /\ target \in Nat \cup {-1}

(* The names given out, and those whose call has been counted.              *)
Issued == {k \in Names : k[2] <= named[k[1]]}
Pending(p) ==
  IF at[p] = "publish" THEN pushed[p] + 1
  ELSE IF at[p] \in {"push", "signal", "notify", "count"} THEN pushed[p] ELSE 0
Counted == {k \in Names : k[2] <= named[k[1]] - Pending(k[1])}
Queued == {Name(entries[i]) : i \in DOMAIN entries}

(* Until the owner is through with stop(), an entry is in one place.        *)
EntriesInv ==
  at["owner"] # "stopped" =>
    /\ Queued \subseteq Issued \ (handled \cup {held})
    /\ \A i, j \in DOMAIN entries : Name(entries[i]) = Name(entries[j]) => i = j
    /\ Issued \subseteq handled \cup Queued \cup {held}

(* The worker ends after a stop request only, with empty hands.             *)
StopInv ==
  /\ held # NoEntry => held \in Issued \ handled
  /\ at["owner"] \in {"idle", "started"} => ~stopping
  /\ at["worker"] \in {"final", "exited"} => stopping
  /\ at["worker"] = "exited" => held = NoEntry /\ (Bound = 0 => due \subseteq handled)
  /\ at["owner"] = "stopped" => at["worker"] = "exited"
  /\ due \subseteq Issued /\ handled \subseteq Issued

(* The counters are the sizes of two sets, and the queue is first in, first *)
(* out: what flush() waits for is handled before anything else is.          *)
CountersInv ==
  /\ processed = Cardinality(handled)
  /\ IsFiniteSet(Counted) /\ counted = Cardinality(Counted)
  /\ \A p \in Posters : Pending(p) <= named[p]
OwedFirst ==
  /\ handled \subseteq owed
  /\ at["owner"] # "stopped" =>
       /\ held \in owed \cup {NoEntry}
       /\ \A i, j \in DOMAIN entries : i < j /\ Name(entries[j]) \in owed => Name(entries[i]) \in owed
FlushInv ==
  owed # {} =>
    /\ owed \subseteq Issued /\ IsFiniteSet(owed) /\ target = Cardinality(owed)
    /\ owed \subseteq handled \/ OwedFirst

LoopInv == LoopTypeOK /\ EntriesInv /\ StopInv /\ CountersInv /\ FlushInv
=============================================================================
