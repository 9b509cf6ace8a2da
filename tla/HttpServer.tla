----------------------------- MODULE HttpServer -----------------------------
(***************************************************************************)
(* HttpServer: one poller thread, a Reactor thread per shard, the thread   *)
(* that called run(), clients, and the solve workers whose frames reach a  *)
(* stream through the SseHub.                                              *)
(*   - the poller alone owns the registry (homeOf, want) and alone closes  *)
(*     sockets; reactors tell it what to forget through a queue of events; *)
(*   - a reactor owns its connections and works off a queue of tasks;      *)
(*   - descriptors are numbers the kernel hands out again.                 *)
(* Posting a batch of tasks, draining the events and walking the registry  *)
(* touch nothing another thread writes in between, but for the _alive      *)
(* flags the walk reads: each is one step.                                 *)
(***************************************************************************)
EXTENDS Naturals, Sequences, FiniteSets, SequencesExt

(***************************************************************************)
(* What one step of an HTTP connection does to it: Connection.cpp without  *)
(* the bytes.  A call of the source is an operator whose value is the set  *)
(* of states it may leave the connection in; the kernel decides which.     *)
(*   gone  - the client has closed its end                                 *)
(*   input - unread bytes wait in the socket                               *)
(***************************************************************************)
CONSTANT Replies \* what a request may come to: "keep", "close", "stream", "part"

ASSUME RepliesAssumption == Replies \subseteq {"keep", "close", "stream", "part"}

Connection == [
  life : {"none", "live", "dead"}, \* not constructed; _alive
  stream : BOOLEAN,                \* _stream is set
  ending : BOOLEAN,                \* _pending_eof
  out : BOOLEAN,                   \* _out holds bytes not written
  detached : BOOLEAN]              \* _fd = -1

NoConnection ==
  [life |-> "none", stream |-> FALSE, ending |-> FALSE, out |-> FALSE, detached |-> FALSE]

Live(k) == k.life = "live"
\* close(): nothing else of a dead connection is read again.
Closed(k) == [NoConnection EXCEPT !.life = "dead"]

\* More bytes are queued.  A backlog may pass kMaxOutBytes, which closes.
Queue(k) == {[k EXCEPT !.out = TRUE]} \cup IF k.out THEN {Closed(k)} ELSE {}

\* Write what the socket takes: all, or nothing if the client does not read;
\* a client that is gone costs the connection.
DrainOut(k, gone) ==
  IF ~Live(k) \/ ~k.out THEN {k}
  ELSE IF k.detached THEN {Closed(k)}
  ELSE {[k EXCEPT !.out = FALSE], IF gone THEN Closed(k) ELSE k}

\* new: a frame, or the heartbeat of a stream silent for long enough
FlushStream(k, gone, new) ==
  IF Live(k) /\ k.stream
  THEN UNION {DrainOut(q, gone) : q \in IF new THEN Queue(k) ELSE {k}}
  ELSE {k}

Outcome(k, read) == [conn |-> k, read |-> read]

\* Mutant: a stream never reads.
ProcessStream_WriteOnly(k, gone, input) ==
  {Outcome(q, FALSE) : q \in FlushStream(k, gone, FALSE)}

\* A stream discards what its client sends and ends when the client left.
ProcessStream(k, gone, input) ==
  LET Input(q) == IF ~Live(q) \/ ~(gone \/ input) THEN {Outcome(q, FALSE)}
                  ELSE (IF input THEN {Outcome(q, TRUE)} ELSE {})
                       \cup (IF gone THEN {Outcome(Closed(q), FALSE)} ELSE {})
  IN UNION {Input(q) : q \in UNION {FlushStream(k, gone, ping) : ping \in BOOLEAN}}

\* The router's answer to one request.  "close": the answer is the last one
\* (Connection: close, 400, 413).  "part": the request is not complete yet.
Reply(k, how) ==
  CASE how = "keep" -> Queue(k)
    [] how = "close" -> Queue([k EXCEPT !.ending = TRUE])
    [] how = "stream" -> Queue([k EXCEPT !.stream = TRUE])
    [] how = "part" -> {k}

\* End of file on a connection that is still read: answer, then close.
MeetEof(k, gone) == IF gone /\ ~k.stream THEN [k EXCEPT !.ending = TRUE] ELSE k

Finish(k, gone) ==
  {IF Live(q) /\ q.ending /\ ~q.out THEN Closed(q) ELSE q : q \in DrainOut(k, gone)}

ProcessRequests(k, gone, input) ==
  IF input /\ ~k.ending
  THEN {Outcome(q, TRUE) :
          q \in UNION {Finish(MeetEof(a, gone), gone) : a \in UNION {Reply(k, how) : how \in Replies}}}
       \cup IF gone THEN {Outcome(Closed(k), TRUE)} ELSE {}
  ELSE {Outcome(q, FALSE) : q \in Finish(MeetEof(k, gone), gone)}

\* One call of process().
Process(k, gone, input) ==
  IF ~Live(k) THEN {Outcome(k, FALSE)}
  ELSE IF k.detached THEN {Outcome(Closed(k), FALSE)}
  ELSE IF k.stream THEN ProcessStream(k, gone, input)
  ELSE ProcessRequests(k, gone, input)

\* What the sweep may find; the deadlines pass at any time.
SweepCheck(k) ==
  IF ~Live(k) THEN {"None"} ELSE IF k.stream THEN {"None", "Heartbeat"} ELSE {"None", "Close"}

(***************************************************************************)
(* The server.                                                             *)
(***************************************************************************)
CONSTANTS
  Clients,   \* numbered as they connect, once each; also the name of its connection
  Fds,       \* descriptors, of which the kernel hands out the lowest unused
  Workers,   \* number of reactors
  AdmitCap,  \* kAdmitCap
  MaxTasks,  \* bound: tasks waiting in one reactor
  MaxFrames, \* bound: frames published
  Nobody     \* no connection, no descriptor

ASSUME HttpAssumption ==
  /\ Workers \in Nat \ {0} /\ AdmitCap \in Nat \ {0}
  /\ MaxTasks \in Nat \ {0} /\ MaxFrames \in Nat
  /\ Clients \subseteq Nat /\ Fds \subseteq Nat /\ IsFiniteSet(Fds) /\ Nobody \notin Clients \cup Fds

Reactors == 0 .. Workers - 1

VARIABLES
  \* the kernel and the clients
  os,       \* per descriptor: whose socket it is
  peer,     \* per client: "away", "open", "gone"
  backlog,  \* connected, not accepted yet
  input,    \* sockets with unread bytes
  \* the connections and their reactors
  conn,     \* per connection: its state
  conns,    \* per reactor: its connection table
  tasks,    \* per reactor: the queue of its loop
  lpc,      \* per reactor: the next step of its thread
  cur,      \* per reactor: the descriptor and connection it works on
  frames,   \* frames published so far
  \* the poller
  homeOf,   \* home_of: per descriptor, the connection registered
  home,     \* per connection: its reactor
  want,     \* want_write
  events,   \* poll_events: the Unregister ones, descriptors
  told,     \* per descriptor: what the last Interest event said
  entries,  \* the snapshot select() works on
  ready,    \* what select() reported of it
  next,     \* next_reactor
  ppc,      \* the next step of poll_once()
  fresh,    \* the descriptor accept() returned
  \* run()
  running,
  mpc,      \* the next step of the thread in run()
  closing   \* the reactor it is shutting down

kernelVars == <<os, peer, backlog, input>>
loopVars == <<conn, conns, tasks, lpc, cur, frames>>
pollVars == <<homeOf, home, want, events, told, entries, ready, next, ppc, fresh>>
runVars == <<running, mpc, closing>>
vars == <<kernelVars, loopVars, pollVars, runVars>>

None == [fd \in Fds |-> Nobody]
Idle == [fd |-> Nobody, of |-> Nobody]

Drive(fd) == [op |-> "drive", fd |-> fd]
Frame(c) == [op |-> "frame", of |-> c]
Tasks == [op : {"drive", "timeout"}, fd : Fds] \cup [op : {"frame"}, of : Clients]

Init ==
  /\ os = None /\ peer = [c \in Clients |-> "away"] /\ backlog = {} /\ input = {}
  /\ conn = [c \in Clients |-> NoConnection]
  /\ conns = [r \in Reactors |-> None]
  /\ tasks = [r \in Reactors |-> <<>>]
  /\ lpc = [r \in Reactors |-> "wait"]
  /\ cur = [r \in Reactors |-> Idle]
  /\ frames = 0
  /\ homeOf = None /\ home = [c \in Clients |-> 0] /\ want = [fd \in Fds |-> FALSE]
  /\ events = <<>> /\ told = want /\ entries = None /\ ready = {} /\ next = 0
  /\ ppc = "loop" /\ fresh = Nobody
  /\ running = TRUE /\ mpc = "join" /\ closing = 0

Gone(c) == peer[c] = "gone"

\* The SseHub has a callback of every stream: its handler subscribed before
\* it answered, and _on_close unsubscribes it when _alive turns FALSE.
Subscribed == {c \in Clients : Live(conn[c]) /\ conn[c].stream}

-----------------------------------------------------------------------------
(* Clients and publishers.                                                 *)

Connect(c) ==
  /\ peer[c] = "away" /\ \A d \in Clients : d < c => peer[d] # "away"
  /\ peer' = [peer EXCEPT ![c] = "open"]
  /\ backlog' = backlog \cup {c}
  /\ UNCHANGED <<os, input, loopVars, pollVars, runVars>>

Send(c) ==
  /\ peer[c] = "open" /\ c \notin input
  /\ c \in backlog \cup Range(os)
  /\ input' = input \cup {c}
  /\ UNCHANGED <<os, peer, backlog, loopVars, pollVars, runVars>>

Leave(c) ==
  /\ peer[c] = "open"
  /\ peer' = [peer EXCEPT ![c] = "gone"]
  /\ UNCHANGED <<os, backlog, input, loopVars, pollVars, runVars>>

\* A solve worker publishes a frame: the hub calls the connection, the
\* connection its frame sink, the sink posts to the reactor.
PostFrame(c) ==
  /\ c \in Subscribed
  /\ frames < MaxFrames /\ Len(tasks[home[c]]) < MaxTasks
  /\ frames' = frames + 1
  /\ tasks' = [tasks EXCEPT ![home[c]] = Append(@, Frame(c))]
  /\ UNCHANGED <<kernelVars, conn, conns, lpc, cur, pollVars, runVars>>

-----------------------------------------------------------------------------
(* A reactor thread.                                                       *)

Update(c, k) == conn' = [conn EXCEPT ![c] = k]

NextTask(r, op) == lpc[r] = "wait" /\ tasks[r] # <<>> /\ Head(tasks[r]).op = op
TakeTask(r) == tasks' = [tasks EXCEPT ![r] = Tail(@)]
StartRemoval(r, fd, c) ==
  /\ lpc' = [lpc EXCEPT ![r] = "remove"]
  /\ cur' = [cur EXCEPT ![r] = [fd |-> fd, of |-> c]]
\* Mutant: the thread forgets to let go of the connection.
EndTask_Keeps(r) == lpc' = [lpc EXCEPT ![r] = "wait"] /\ UNCHANGED cur

EndTask(r) ==
  /\ lpc' = [lpc EXCEPT ![r] = "wait"]
  /\ cur' = [cur EXCEPT ![r] = Idle]

\* drive(): the connection may have left the table since the task was posted.
LoopDrive(r) ==
  /\ NextTask(r, "drive") /\ TakeTask(r)
  /\ LET fd == Head(tasks[r]).fd
         c == conns[r][fd]
     IN IF c = Nobody
        THEN UNCHANGED <<input, conn, lpc, cur, told>>
        ELSE \E o \in Process(conn[c], Gone(c), c \in input) :
               /\ Update(c, o.conn)
               /\ input' = IF o.read THEN input \ {c} ELSE input
               /\ IF Live(o.conn)
                  THEN told' = [told EXCEPT ![fd] = o.conn.out] /\ UNCHANGED <<lpc, cur>>
                  ELSE StartRemoval(r, fd, c) /\ UNCHANGED told
  /\ UNCHANGED <<os, peer, backlog, conns, frames, homeOf, home, want, events, entries, ready, next, ppc, fresh, runVars>>

\* check_timeout(): a heartbeat that fails closes the connection and leaves
\* it in the table.
LoopTimeout(r) ==
  /\ NextTask(r, "timeout") /\ TakeTask(r)
  /\ LET fd == Head(tasks[r]).fd
         c == conns[r][fd]
     IN IF c = Nobody
        THEN UNCHANGED <<conn, lpc, cur>>
        ELSE \E act \in SweepCheck(conn[c]) :
               \/ /\ act = "None" /\ UNCHANGED <<conn, lpc, cur>>
               \/ /\ act = "Heartbeat" /\ UNCHANGED <<lpc, cur>>
                  /\ \E k \in FlushStream(conn[c], Gone(c), TRUE) : Update(c, k)
               \/ /\ act = "Close" /\ StartRemoval(r, fd, c)
                  /\ UNCHANGED conn
  /\ UNCHANGED <<kernelVars, conns, frames, pollVars, runVars>>

\* push_sse_frame(): as above, whatever closes the connection here leaves it.
LoopFrame(r) ==
  /\ NextTask(r, "frame") /\ TakeTask(r)
  /\ LET c == Head(tasks[r]).of
     IN \E k \in FlushStream(conn[c], Gone(c), TRUE) : Update(c, k)
  /\ UNCHANGED <<kernelVars, conns, lpc, cur, frames, pollVars, runVars>>

\* Mutant: remove_connection() without the logical close.
LoopRemove_StaysAlive(r) ==
  /\ lpc[r] = "remove"
  /\ lpc' = [lpc EXCEPT ![r] = "unregister"]
  /\ UNCHANGED <<kernelVars, conn, conns, tasks, cur, frames, pollVars, runVars>>

\* remove_connection(): the identity check, which fails when close_all() came
\* first (dropping the last reference then closes), and the logical close...
LoopRemove(r) ==
  /\ lpc[r] = "remove"
  /\ LET fd == cur[r].fd
         c == cur[r].of
     IN IF conns[r][fd] # c
        THEN EndTask(r) /\ IF c \in Subscribed THEN UNCHANGED conn ELSE Update(c, Closed(conn[c]))
        ELSE /\ Update(c, Closed(conn[c]))
             /\ lpc' = [lpc EXCEPT ![r] = "unregister"] /\ UNCHANGED cur
  /\ UNCHANGED <<kernelVars, conns, tasks, frames, pollVars, runVars>>

\* Mutant: the reactor closes the socket itself.
LoopUnregister_Closes(r) ==
  /\ lpc[r] = "unregister"
  /\ os' = [os EXCEPT ![cur[r].fd] = Nobody]
  /\ lpc' = [lpc EXCEPT ![r] = "erase"]
  /\ UNCHANGED <<peer, backlog, input, conn, conns, tasks, cur, frames, pollVars, runVars>>

\* ... on_closed() (and detach_fd(), which a dead connection does not feel) ...
LoopUnregister(r) ==
  /\ lpc[r] = "unregister"
  /\ events' = Append(events, cur[r].fd)
  /\ lpc' = [lpc EXCEPT ![r] = "erase"]
  /\ UNCHANGED <<kernelVars, conn, conns, tasks, cur, frames,
                 homeOf, home, want, told, entries, ready, next, ppc, fresh, runVars>>

\* ... and the erase, by descriptor.
LoopErase(r) ==
  /\ lpc[r] = "erase"
  /\ conns' = [conns EXCEPT ![r][cur[r].fd] = Nobody]
  /\ EndTask(r)
  /\ UNCHANGED <<kernelVars, conn, tasks, frames, pollVars, runVars>>

Loop(r) ==
  \/ LoopDrive(r) \/ LoopTimeout(r) \/ LoopFrame(r)
  \/ LoopRemove(r) \/ LoopUnregister(r) \/ LoopErase(r)

-----------------------------------------------------------------------------
(* The poller.                                                             *)

Registered == {fd \in Fds : homeOf[fd] # Nobody}
HasLiveOwner(fd) == Live(conn[homeOf[fd]])
Dead == {fd \in Registered : ~HasLiveOwner(fd)}
Forget(reg, fds) == [fd \in Fds |-> IF fd \in fds THEN Nobody ELSE reg[fd]]
NoWrite(fds) == [fd \in Fds |-> fd \notin fds /\ want[fd]]

\* Post a task about each of the descriptors to its reactor.
PostEach(fds, op) ==
  LET Of(r) == SetToSeq({[op |-> op, fd |-> fd] : fd \in {f \in fds : home[homeOf[f]] = r}})
  IN /\ tasks' = [r \in Reactors |-> tasks[r] \o Of(r)]
     /\ \A r \in Reactors : Len(tasks'[r]) <= MaxTasks

\* drain_poll_events() and drain_close_queue().
ToClose == ToSet(events)
DrainEvents ==
  /\ events' = <<>>
  /\ homeOf' = Forget(homeOf, ToClose)
  /\ want' = [fd \in Fds |-> homeOf'[fd] # Nobody /\ told[fd]]
  /\ os' = Forget(os, ToClose)
  /\ input' = input \ {os[fd] : fd \in ToClose}

\* The end of one round and the start of the next: running is read, the
\* events are drained, and a second may have passed since the last sweep.
PollerRound ==
  /\ ppc = "loop" /\ running
  /\ DrainEvents
  /\ ppc' = "snapshot"
  /\ UNCHANGED <<peer, backlog, loopVars, home, told, entries, ready, next, fresh, runVars>>

PollerDone ==
  /\ ppc = "loop" /\ ~running
  /\ ppc' = "done"
  /\ UNCHANGED <<kernelVars, loopVars, homeOf, home, want, events, told, entries, ready, next, fresh, runVars>>

PollerSweep ==
  /\ ppc = "snapshot"
  /\ \E fd \in Registered : TRUE
  /\ PostEach(Registered \ Dead, "timeout")
  /\ homeOf' = Forget(homeOf, Dead) /\ want' = NoWrite(Dead)
  /\ ppc' = "swept"
  /\ UNCHANGED <<kernelVars, conn, conns, lpc, cur, frames, home, events, told, entries, ready, next, fresh, runVars>>

PollerSnapshot ==
  /\ ppc \in {"snapshot", "swept"} /\ ppc' = "select"
  /\ homeOf' = Forget(homeOf, Dead) /\ want' = NoWrite(Dead)
  /\ entries' = homeOf'
  /\ UNCHANGED <<kernelVars, loopVars, home, events, told, ready, next, fresh, runVars>>

\* select(): a socket with bytes or an end of file is readable; one with a
\* backlog is writable when the client reads.
EndRound == ready' = {} /\ entries' = None /\ ppc' = "loop"
Readable(c) == c \in input \/ Gone(c)
PollerSelect ==
  /\ ppc = "select"
  /\ LET polled == {fd \in Fds : entries[fd] # Nobody}
         rd == {fd \in polled : Readable(os[fd])}
     IN \E wr \in SUBSET {fd \in polled : want[fd]} :
          IF (rd \cup wr = {} /\ backlog = {}) \/ ~running
          THEN EndRound
          ELSE ready' = rd \cup wr /\ ppc' = "accept" /\ UNCHANGED entries
  /\ UNCHANGED <<kernelVars, loopVars, homeOf, home, want, events, told, next, fresh, runVars>>

\* Back to the top when stop() came meanwhile; on to the ready descriptors
\* when nobody waits, or when accept() fails for want of descriptors.
PollerCutShort ==
  /\ ppc = "accept" /\ ~running /\ EndRound
  /\ UNCHANGED <<kernelVars, loopVars, homeOf, home, want, events, told, next, fresh, runVars>>

First(S) == {x \in S : \A y \in S : x <= y}
Unused == {fd \in Fds : os[fd] = Nobody}
PollerAccepted ==
  /\ ppc = "accept" /\ running
  /\ backlog = {} \/ Unused = {}
  /\ ppc' = "deliver"
  /\ UNCHANGED <<kernelVars, loopVars, homeOf, home, want, events, told, entries, ready, next, fresh, runVars>>

AtCapacity == Cardinality(Registered) >= AdmitCap
PollerRefuse ==
  /\ ppc = "accept" /\ running
  /\ Unused # {} /\ AtCapacity
  /\ \E c \in First(backlog) : backlog' = backlog \ {c}
  /\ UNCHANGED <<os, peer, input, loopVars, pollVars, runVars>>

PollerAccept ==
  /\ ppc = "accept" /\ running /\ ~AtCapacity
  /\ \E c \in First(backlog), fd \in First(Unused) :
       /\ backlog' = backlog \ {c}
       /\ os' = [os EXCEPT ![fd] = c] /\ fresh' = fd
       /\ home' = [home EXCEPT ![c] = next] /\ next' = (next + 1) % Workers
  /\ ppc' = "add"
  /\ UNCHANGED <<peer, input, loopVars, homeOf, want, events, told, entries, ready, runVars>>

\* Mutant: a descriptor that is still in the table is overwritten.
PollerAdd_Overwrites ==
  /\ ppc = "add" /\ Len(tasks[home[os[fresh]]]) < MaxTasks
  /\ conn' = [conn EXCEPT ![os[fresh]].life = "live"]
  /\ conns' = [conns EXCEPT ![home[os[fresh]]][fresh] = os[fresh]]
  /\ tasks' = [tasks EXCEPT ![home[os[fresh]]] = Append(@, [op |-> "drive", fd |-> fresh])]
  /\ told' = [told EXCEPT ![fresh] = FALSE]
  /\ ppc' = "register"
  /\ UNCHANGED <<kernelVars, lpc, cur, frames, homeOf, home, want, events, entries, ready, next, fresh, runVars>>

\* add_connection(): refused while the reactor still has that descriptor.
PollerAdd ==
  /\ ppc = "add" /\ Len(tasks[home[os[fresh]]]) < MaxTasks
  /\ LET c == os[fresh]
         r == home[c]
     IN IF conns[r][fresh] # Nobody
        THEN /\ os' = [os EXCEPT ![fresh] = Nobody] /\ fresh' = Nobody /\ ppc' = "accept"
             /\ UNCHANGED <<conn, conns, tasks, told>>
        ELSE /\ conn' = [conn EXCEPT ![c].life = "live"]
             /\ conns' = [conns EXCEPT ![r][fresh] = c]
             /\ tasks' = [tasks EXCEPT ![r] = Append(@, Drive(fresh))]
             /\ told' = [told EXCEPT ![fresh] = FALSE]
             /\ ppc' = "register" /\ UNCHANGED <<os, fresh>>
  /\ UNCHANGED <<peer, backlog, input, lpc, cur, frames, homeOf, home, want, events, entries, ready, next, runVars>>

\* emplace() keeps what is there.
PollerRegister ==
  /\ ppc = "register" /\ ppc' = "accept"
  /\ homeOf' = IF homeOf[fresh] = Nobody THEN [homeOf EXCEPT ![fresh] = os[fresh]] ELSE homeOf
  /\ fresh' = Nobody
  /\ UNCHANGED <<kernelVars, loopVars, home, want, events, told, entries, ready, next, runVars>>

\* Only to the owner select() was asked about.
Deliverable == {fd \in ready : homeOf[fd] # Nobody /\ homeOf[fd] = entries[fd]}
PollerDeliver ==
  /\ ppc = "deliver"
  /\ PostEach(Deliverable, "drive")
  /\ EndRound
  /\ UNCHANGED <<kernelVars, conn, conns, lpc, cur, frames, homeOf, home, want, events, told, next, fresh, runVars>>

Poller ==
  \/ PollerRound \/ PollerDone \/ PollerSweep \/ PollerSnapshot \/ PollerSelect
  \/ PollerCutShort \/ PollerAccepted \/ PollerAdd \/ PollerRegister \/ PollerDeliver \/ PollerRefuse \/ PollerAccept

-----------------------------------------------------------------------------
(* stop() and the rest of run().                                           *)

Stop ==
  /\ running /\ running' = FALSE
  /\ UNCHANGED <<kernelVars, loopVars, pollVars, mpc, closing>>

Goto(step) == mpc' = step /\ UNCHANGED <<running, closing>>

JoinPoller ==
  /\ mpc = "join" /\ ppc = "done" /\ Goto("close_all")
  /\ UNCHANGED <<kernelVars, loopVars, pollVars>>

\* close_all(): unregister and detach every connection...
InTable(r) == {fd \in Fds : conns[r][fd] # Nobody}
CloseAll ==
  /\ mpc = "close_all" /\ Goto("clear")
  /\ events' = events \o SetToSeq(InTable(closing))
  /\ conn' = [c \in Clients |-> IF \E fd \in Fds : conns[closing][fd] = c
                                THEN [conn[c] EXCEPT !.detached = TRUE] ELSE conn[c]]
  /\ UNCHANGED <<kernelVars, conns, tasks, lpc, cur, frames, homeOf, home, want, told, entries, ready, next, ppc, fresh>>

\* ... and drop them.  One nothing else refers to is destroyed, and closed.
Referred(c) == c \in Subscribed \/ \E r \in Reactors : cur[r].of = c
ClearTable ==
  /\ mpc = "clear" /\ Goto("stop")
  /\ conns' = [conns EXCEPT ![closing] = None]
  /\ conn' = [c \in Clients |-> IF (\E fd \in Fds : conns[closing][fd] = c) /\ ~Referred(c)
                                THEN Closed(conn[c]) ELSE conn[c]]
  /\ UNCHANGED <<kernelVars, tasks, lpc, cur, frames, pollVars>>

\* stop(): the loop ends when its queue is empty.
StopReactor ==
  /\ mpc = "stop" /\ tasks[closing] = <<>> /\ lpc[closing] = "wait"
  /\ IF closing + 1 < Workers
     THEN mpc' = "close_all" /\ closing' = closing + 1
     ELSE mpc' = "destroy" /\ UNCHANGED closing
  /\ UNCHANGED <<kernelVars, loopVars, pollVars, running>>

\* reactors.clear(), then the last drain.
DestroyReactors ==
  /\ mpc = "destroy" /\ Goto("drain")
  /\ UNCHANGED <<kernelVars, loopVars, pollVars>>
\* Mutant: run() returns without the last drain.
FinalDrain_Skipped ==
  /\ mpc = "drain" /\ Goto("returned")
  /\ UNCHANGED <<kernelVars, loopVars, pollVars>>

FinalDrain ==
  /\ mpc = "drain" /\ Goto("returned") /\ DrainEvents
  /\ UNCHANGED <<peer, backlog, loopVars, home, told, entries, ready, next, ppc, fresh>>

\* ~WebModule: SseHub::clear() drops the last references.
ClearHub ==
  /\ mpc = "returned" /\ Goto("over")
  /\ conn' = [c \in Clients |-> IF c \in Subscribed THEN Closed(conn[c]) ELSE conn[c]]
  /\ UNCHANGED <<kernelVars, conns, tasks, lpc, cur, frames, pollVars>>

Run == JoinPoller \/ CloseAll \/ ClearTable \/ StopReactor \/ DestroyReactors \/ FinalDrain \/ ClearHub

-----------------------------------------------------------------------------
Next ==
  \/ \E c \in Clients : Connect(c) \/ Send(c) \/ Leave(c) \/ PostFrame(c)
  \/ \E r \in Reactors : Loop(r)
  \/ Poller \/ Stop \/ Run

Spec == Init /\ [][Next]_vars

Fairness ==
  /\ \A r \in Reactors : WF_vars(Loop(r))
  /\ WF_vars(Poller) /\ WF_vars(Run)

FairSpec == Spec /\ Fairness
-----------------------------------------------------------------------------
\* Type invariant; a reactor at rest works on no connection.
TypeOK ==
  /\ os \in [Fds -> Clients \cup {Nobody}] /\ backlog \subseteq Clients /\ input \subseteq Clients
  /\ peer \in [Clients -> {"away", "open", "gone"}]
  /\ conn \in [Clients -> Connection] /\ conns \in [Reactors -> [Fds -> Clients \cup {Nobody}]]
  /\ \A r \in Reactors : ToSet(tasks[r]) \subseteq Tasks /\ Len(tasks[r]) <= MaxTasks
  /\ lpc \in [Reactors -> {"wait", "remove", "unregister", "erase"}]
  /\ \A r \in Reactors : (lpc[r] = "wait") = (cur[r] = Idle)
  /\ frames \in 0 .. MaxFrames
  /\ homeOf \in [Fds -> Clients \cup {Nobody}] /\ home \in [Clients -> Reactors] /\ want \in [Fds -> BOOLEAN]
  /\ ToSet(events) \subseteq Fds /\ told \in [Fds -> BOOLEAN]
  /\ entries \in [Fds -> Clients \cup {Nobody}] /\ ready \subseteq Fds /\ next \in Reactors
  /\ ppc \in {"loop", "snapshot", "swept", "select", "accept", "add", "register", "deliver", "done"}
  /\ fresh \in Fds \cup {Nobody} /\ running \in BOOLEAN /\ closing \in Reactors
  /\ mpc \in {"join", "close_all", "clear", "stop", "destroy", "drain", "returned", "over"}

\* The sockets select() was given stay open, each with the connection the
\* snapshot took it for, until the round is over: reactors unregister, only
\* the poller closes, and only before the next snapshot.
SnapshotStaysOpen == \A fd \in Fds : entries[fd] # Nobody => os[fd] = entries[fd]

\* While the poller runs, a descriptor it is told to unregister and close
\* still belongs to a dead connection and is in the queue once: nobody can
\* have been given its number before the close.
UnregisterHitsDead ==
  ppc # "done" =>
    /\ \A fd \in ToSet(events) : os[fd] # Nobody /\ conn[os[fd]].life = "dead"
    /\ Cardinality(ToSet(events)) = Len(events)

\* Until shutdown every live connection is in the table of its reactor under
\* the descriptor of its socket, and the poller has it registered or is about
\* to: no admitted client is left unpolled, however descriptors are reused.
AdmittedIsPolled ==
  mpc = "join" =>
    \A c \in Clients : Live(conn[c]) =>
      \E fd \in Fds : os[fd] = c /\ conns[home[c]][fd] = c /\ (homeOf[fd] = c \/ fresh = fd)

\* When run() returns every socket is closed: those of connections that died,
\* that were being removed, and that close_all() found.
ShutdownClosesAll == mpc \in {"returned", "over"} => \A fd \in Fds : os[fd] = Nobody

\* A live connection notices what its client does. That it left: a stream too,
\* which only writes unless it is told that the socket is readable. That it sent
\* bytes which still may be a request: they are read or cost the connection its
\* life, also when its descriptor was another connection's before.
Unread(c) == Live(conn[c]) /\ ~conn[c].ending /\ c \in input
ClientIsHeard ==
  \A c \in Clients : /\ Live(conn[c]) /\ Gone(c) ~> ~Live(conn[c])
                     /\ Unread(c) ~> ~Unread(c)
=============================================================================
