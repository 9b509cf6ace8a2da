---------------------------- MODULE Diagnostics ----------------------------
(***************************************************************************)
(* DiagnosticsService: executors push() events into an unbounded queue, a  *)
(* single consumer dispatches them to the observers that were attached     *)
(* when it took the event, and flush() waits until as many events have     *)
(* been processed as had been counted when it was called.  An event is     *)
(* queued and counted by two steps of push().                              *)
(***************************************************************************)
EXTENDS Naturals, Sequences

CONSTANTS Producers, Observers

VARIABLES
  queue,     \* events in _loop, named by their producer
  enqueued,  \* _enqueued
  processed, \* _processed
  observers, \* _observers
  current,   \* the observers the dispatched event still has to be given to
  busy       \* an event is being dispatched

diagVars == <<queue, enqueued, processed, observers, current, busy>>

DiagInit ==
  /\ queue = <<>> /\ enqueued = 0 /\ processed = 0
  /\ observers = {} /\ current = {} /\ busy = FALSE

\* push(): the event is in the queue ...
PushEvent(p) ==
  /\ queue' = Append(queue, p)
  /\ UNCHANGED <<enqueued, processed, observers, current, busy>>

\* ... and is counted afterwards.
CountEvent ==
  /\ enqueued' = enqueued + 1
  /\ UNCHANGED <<queue, processed, observers, current, busy>>

Attach(o) ==
  /\ observers' = observers \cup {o}
  /\ UNCHANGED <<queue, enqueued, processed, current, busy>>

Detach(o) ==
  /\ observers' = observers \ {o}
  /\ UNCHANGED <<queue, enqueued, processed, current, busy>>

\* The handler copies the list of observers and calls them without the lock.
TakeEvent ==
  /\ ~busy /\ queue # <<>>
  /\ queue' = Tail(queue) /\ busy' = TRUE /\ current' = observers
  /\ UNCHANGED <<enqueued, processed, observers>>

\* Observer o has handled the event.
Notified(o) ==
  /\ o \in current
  /\ current' = current \ {o}
  /\ UNCHANGED <<queue, enqueued, processed, observers, busy>>

DoneEvent ==
  /\ busy /\ current = {}
  /\ busy' = FALSE /\ processed' = processed + 1
  /\ UNCHANGED <<queue, enqueued, observers, current>>

\* Mutant: the event that is being dispatched is not waited for.
Flushed_OneShort(target) == processed + 1 >= target

\* flush() returns for a caller that read _enqueued = target.
Flushed(target) == processed >= target

DiagTypeOK ==
  /\ queue \in Seq(Producers) /\ enqueued \in Nat /\ processed \in Nat
  /\ observers \subseteq Observers /\ current \subseteq Observers /\ busy \in BOOLEAN
=============================================================================
