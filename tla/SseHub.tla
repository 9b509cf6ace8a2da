------------------------------- MODULE SseHub -------------------------------
(***************************************************************************)
(* SseHub: per task key the subscribed streams and the last frame.  A      *)
(* critical section of the shard's mutex is one action; the callbacks run  *)
(* outside of it.  A publisher therefore delivers to the subscribers it    *)
(* copied, one at a time, and a new subscriber replays the frame it copied,*)
(* while others publish.  Of the frames a stream received only the order   *)
(* of the terminal frame and the others is kept.                           *)
(***************************************************************************)
EXTENDS Naturals

CONSTANTS Keys, Streams, Publishers

VARIABLES
  subs,      \* shard.subs: the streams subscribed to a key
  lastFrame, \* shard.last_frame: the frame replayed to a late subscriber
  sending,   \* per publisher: the frame it is delivering and to whom
  stream     \* per stream: what its client has seen

hubVars == <<subs, lastFrame, sending, stream>>

Terminals == {"completed", "failed"}
Frames == {"progress", "diag"} \cup Terminals
NoFrame == "none"
Seen == {"nothing", "live", "ended", "overrun"}
Silent == [frame |-> NoFrame, to |-> {}]

HubInit ==
  /\ subs = [k \in Keys |-> {}]
  /\ lastFrame = [k \in Keys |-> NoFrame]
  /\ sending = [p \in Publishers |-> Silent]
  /\ stream = [s \in Streams |-> "nothing"]

\* What a client has seen after one more frame: a frame that follows the
\* terminal one overruns the stream.
After(seen, frame) ==
  IF frame \in Terminals THEN IF seen = "overrun" THEN seen ELSE "ended"
  ELSE IF seen \in {"ended", "overrun"} THEN "overrun" ELSE "live"

Deliver(s, frame) ==
  stream' = IF frame = NoFrame THEN stream ELSE [stream EXCEPT ![s] = After(@, frame)]

\* A publisher that copied an empty list has nobody to call.
Sending(p, frame, to) ==
  sending' = [sending EXCEPT ![p] = IF to = {} THEN Silent ELSE [frame |-> frame, to |-> to]]

\* Mutant: the frame is not kept for late subscribers.
PublishCopy_KeepsNothing(p, k, frame) ==
  /\ sending[p] = Silent
  /\ Sending(p, frame, subs[k])
  /\ lastFrame' = lastFrame
  /\ UNCHANGED <<subs, stream>>

\* publish(): keep the frame and copy the list, under the mutex ...
PublishCopy(p, k, frame) ==
  /\ sending[p] = Silent
  /\ Sending(p, frame, subs[k])
  /\ lastFrame' = [lastFrame EXCEPT ![k] = frame]
  /\ UNCHANGED <<subs, stream>>

\* ... then call the subscribers one by one.
PublishSend(p) ==
  \E s \in sending[p].to :
    /\ Sending(p, sending[p].frame, sending[p].to \ {s})
    /\ Deliver(s, sending[p].frame)
    /\ UNCHANGED <<subs, lastFrame>>

Subscribe(s, k) ==
  /\ subs' = [subs EXCEPT ![k] = @ \cup {s}]
  /\ UNCHANGED <<lastFrame, sending, stream>>

\* The frame subscribe() replays, or one the controller writes itself.
Replay(s, frame) == Deliver(s, frame) /\ UNCHANGED <<subs, lastFrame, sending>>

\* Idempotent: the key may have been dropped by unsubscribe_all().
Unsubscribe(s, k) ==
  /\ subs' = [subs EXCEPT ![k] = @ \ {s}]
  /\ UNCHANGED <<lastFrame, sending, stream>>

UnsubscribeAll(k) ==
  /\ subs' = [subs EXCEPT ![k] = {}]
  /\ UNCHANGED <<lastFrame, sending, stream>>

\* The shards are swapped out one by one; one key has one shard.
Clear ==
  /\ subs' = [k \in Keys |-> {}]
  /\ lastFrame' = [k \in Keys |-> NoFrame]
  /\ UNCHANGED <<sending, stream>>

HubTypeOK ==
  /\ subs \in [Keys -> SUBSET Streams]
  /\ lastFrame \in [Keys -> Frames \cup {NoFrame}]
  /\ sending \in [Publishers -> [frame : Frames \cup {NoFrame}, to : SUBSET Streams]]
  /\ stream \in [Streams -> Seen]
=============================================================================
