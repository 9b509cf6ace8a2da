----------------------------- MODULE HttpProofs -----------------------------
(***************************************************************************)
(* The sockets of HttpServer, for any number of clients, descriptors and   *)
(* reactors and any bounds.                                                *)
(*                                                                         *)
(* 1. The lock-free select() is sound.  The argument is the poller's       *)
(*    alone (PollerInv): it is the one thread that writes the registry,    *)
(*    the snapshot and the descriptor table, and whatever the reactors put *)
(*    into the queue of events, a descriptor is closed only together with  *)
(*    its registration and only while there is no snapshot.                *)
(* 2. Every variable keeps its type (SocketsType).                         *)
(* 3. Reactors and poller agree on who owns a descriptor (OwnersInv): what *)
(*    is queued to be closed is dead, what is live is polled.              *)
(* 4. No open socket is forgotten (SocketsCovered), so the last drain of   *)
(*    run() closes what is left.                                           *)
(***************************************************************************)
EXTENDS HttpServer, FiniteSetTheorems, SequenceTheorems, TLAPS

InRound == {"select", "accept", "add", "register", "deliver"}

\* What is registered is open.
RegistryIsOpen == \A fd \in Fds : homeOf[fd] # Nobody => os[fd] = homeOf[fd]

\* The descriptor accept() returned is neither registered nor in the snapshot.
FreshIsNew ==
  ppc \in {"add", "register"} =>
    /\ fresh \in Fds /\ os[fresh] \in Clients
    /\ homeOf[fresh] = Nobody /\ entries[fresh] = Nobody

TablesType ==
  /\ os \in [Fds -> Clients \cup {Nobody}]
  /\ homeOf \in [Fds -> Clients \cup {Nobody}]
  /\ entries \in [Fds -> Clients \cup {Nobody}]
  /\ backlog \subseteq Clients

PollerInv ==
  /\ TablesType
  /\ RegistryIsOpen
  /\ SnapshotStaysOpen
  /\ FreshIsNew
  /\ ppc \notin InRound => entries = None
  /\ mpc # "join" => ppc = "done"

-----------------------------------------------------------------------------
LEMMA ForgetType ==
  ASSUME NEW f \in [Fds -> Clients \cup {Nobody}], NEW S
  PROVE  /\ Forget(f, S) \in [Fds -> Clients \cup {Nobody}]
         /\ \A fd \in Fds : Forget(f, S)[fd] = IF fd \in S THEN Nobody ELSE f[fd]
  BY DEF Forget

LEMMA InitPoller == Init => PollerInv
  BY DEF Init, PollerInv, TablesType, RegistryIsOpen, SnapshotStaysOpen, FreshIsNew, None, InRound

\* A step of another thread leaves all of this alone.
LEMMA OthersPreserve ==
  ASSUME PollerInv, UNCHANGED <<os, homeOf, entries, fresh, ppc, mpc>>, backlog' \subseteq Clients
  PROVE  PollerInv'
  BY DEF PollerInv, TablesType, RegistryIsOpen, SnapshotStaysOpen, FreshIsNew, None

\* Closing with the registration, while nothing is in the snapshot.
LEMMA DrainPreserves ==
  ASSUME PollerInv, entries = None, DrainEvents, UNCHANGED <<backlog, entries, fresh>>,
         ppc' \notin {"add", "register"}, mpc' # "join" => ppc' = "done"
  PROVE  PollerInv'
<1>1. os' \in [Fds -> Clients \cup {Nobody}] /\ homeOf' \in [Fds -> Clients \cup {Nobody}]
  BY ForgetType DEF DrainEvents, PollerInv, TablesType
<1>2. RegistryIsOpen'
  BY ForgetType DEF DrainEvents, PollerInv, TablesType, RegistryIsOpen
<1>3. SnapshotStaysOpen'
  BY DEF SnapshotStaysOpen, None
<1>. QED
  BY <1>1, <1>2, <1>3 DEF PollerInv, TablesType, FreshIsNew, None

LEMMA StepPoller == PollerInv /\ [Next]_vars => PollerInv'
<1>. SUFFICES ASSUME PollerInv, [Next]_vars PROVE PollerInv'
  OBVIOUS
<1>0. backlog \subseteq Clients
  BY DEF PollerInv, TablesType
<1>1. ASSUME NEW c \in Clients, Connect(c) \/ Send(c) \/ Leave(c) \/ PostFrame(c) PROVE PollerInv'
  BY <1>0, <1>1, OthersPreserve DEF Connect, Send, Leave, PostFrame, kernelVars, loopVars, pollVars, runVars
<1>2. ASSUME NEW r \in Reactors, Loop(r) PROVE PollerInv'
  <2>1. UNCHANGED <<os, homeOf, entries, fresh, ppc, mpc, backlog>>
    BY <1>2 DEF Loop, LoopDrive, LoopTimeout, LoopFrame, LoopRemove, LoopUnregister, LoopErase,
                kernelVars, loopVars, pollVars, runVars
  <2>. QED
    BY <1>0, <2>1, OthersPreserve
<1>3. CASE PollerRound
  BY <1>3, DrainPreserves DEF PollerRound, PollerInv, InRound, loopVars, runVars
<1>4. CASE PollerDone
  BY <1>4 DEF PollerDone, PollerInv, TablesType, RegistryIsOpen, SnapshotStaysOpen, FreshIsNew, InRound, None,
              kernelVars, runVars
<1>5. CASE PollerSweep \/ PollerSnapshot
  <2>1. homeOf' \in [Fds -> Clients \cup {Nobody}] /\ RegistryIsOpen' /\ UNCHANGED <<os, backlog, mpc>>
    BY <1>5, ForgetType DEF PollerSweep, PollerSnapshot, PollerInv, TablesType, RegistryIsOpen, kernelVars, runVars
  <2>2. entries' \in [Fds -> Clients \cup {Nobody}] /\ SnapshotStaysOpen' /\ (ppc' \notin InRound => entries' = None)
    BY <1>5, <2>1 DEF PollerSweep, PollerSnapshot, PollerInv, TablesType, RegistryIsOpen, SnapshotStaysOpen, InRound, None
  <2>. QED
    BY <1>5, <2>1, <2>2 DEF PollerSweep, PollerSnapshot, PollerInv, TablesType, FreshIsNew
<1>6. CASE PollerSelect \/ PollerCutShort \/ PollerAccepted \/ PollerRefuse \/ PollerDeliver
  <2>1. UNCHANGED <<os, homeOf, mpc>> /\ backlog' \subseteq backlog
    BY <1>6 DEF PollerSelect, PollerCutShort, PollerAccepted, PollerRefuse, PollerDeliver,
                kernelVars, pollVars, runVars
  <2>2. \/ entries' = None
        \/ entries' = entries /\ ppc' \in InRound
    BY <1>6 DEF PollerSelect, PollerCutShort, PollerAccepted, PollerRefuse, PollerDeliver, EndRound, InRound, pollVars
  <2>3. ppc' \notin {"add", "register", "done"} /\ ppc # "done"
    BY <1>6 DEF PollerSelect, PollerCutShort, PollerAccepted, PollerRefuse, PollerDeliver, EndRound, pollVars
  <2>4. entries' \in [Fds -> Clients \cup {Nobody}] /\ SnapshotStaysOpen'
    BY <2>1, <2>2 DEF PollerInv, TablesType, SnapshotStaysOpen, None
  <2>. QED
    BY <2>1, <2>2, <2>3, <2>4 DEF PollerInv, TablesType, RegistryIsOpen, FreshIsNew, None
<1>7. CASE PollerAccept
  <2>. PICK c \in First(backlog), fd \in First(Unused) :
         backlog' = backlog \ {c} /\ os' = [os EXCEPT ![fd] = c] /\ fresh' = fd
    BY <1>7 DEF PollerAccept
  <2>1. c \in Clients /\ fd \in Fds /\ os[fd] = Nobody
    BY <1>0 DEF First, Unused
  <2>2. homeOf[fd] = Nobody /\ entries[fd] = Nobody
    BY <2>1, HttpAssumption DEF PollerInv, TablesType, RegistryIsOpen, SnapshotStaysOpen
  <2>3. UNCHANGED <<homeOf, entries, mpc>> /\ ppc = "accept" /\ ppc' = "add"
    BY <1>7 DEF PollerAccept, runVars
  <2>. QED
    BY <2>1, <2>2, <2>3 DEF PollerInv, TablesType, RegistryIsOpen, SnapshotStaysOpen, FreshIsNew, InRound
<1>8. CASE PollerAdd
  <2>1. UNCHANGED <<homeOf, entries, mpc, backlog>> /\ ppc = "add" /\ ppc' \in {"accept", "register"}
    BY <1>8 DEF PollerAdd, runVars
  <2>2. \/ os' = [os EXCEPT ![fresh] = Nobody] /\ ppc' = "accept"
        \/ UNCHANGED <<os, fresh>>
    BY <1>8 DEF PollerAdd
  <2>. QED
    BY <2>1, <2>2 DEF PollerInv, TablesType, RegistryIsOpen, SnapshotStaysOpen, FreshIsNew, InRound
<1>9. CASE PollerRegister
  <2>1. /\ UNCHANGED <<os, entries, mpc, backlog>> /\ ppc = "register" /\ ppc' = "accept"
        /\ homeOf' = [homeOf EXCEPT ![fresh] = os[fresh]]
    BY <1>9 DEF PollerRegister, PollerInv, FreshIsNew, kernelVars, runVars
  <2>. QED
    BY <2>1 DEF PollerInv, TablesType, RegistryIsOpen, SnapshotStaysOpen, FreshIsNew, InRound
<1>10. CASE Stop \/ JoinPoller \/ CloseAll \/ ClearTable \/ StopReactor \/ DestroyReactors \/ ClearHub
  <2>1. UNCHANGED <<os, homeOf, entries, fresh, ppc, backlog>> /\ (mpc' # "join" => ppc = "done")
    BY <1>10 DEF Stop, JoinPoller, CloseAll, ClearTable, StopReactor, DestroyReactors, ClearHub, Goto, PollerInv,
                 kernelVars, loopVars, pollVars, runVars
  <2>. QED
    BY <2>1 DEF PollerInv, TablesType, RegistryIsOpen, SnapshotStaysOpen, FreshIsNew, None
<1>11. CASE FinalDrain
  <2>1. ppc = "done" /\ entries = None
    BY <1>11 DEF FinalDrain, PollerInv, InRound
  <2>. QED
    BY <1>11, <2>1, DrainPreserves DEF FinalDrain, Goto, loopVars
<1>12. CASE UNCHANGED vars
  BY <1>0, <1>12, OthersPreserve DEF vars, kernelVars, pollVars, runVars
<1>. QED
  BY <1>1, <1>2, <1>3, <1>4, <1>5, <1>6, <1>7, <1>8, <1>9, <1>10, <1>11, <1>12 DEF Next, Poller, Run

\* The sockets of a snapshot stay open, and stay those of the connections the
\* snapshot names, until the poller is done with them (HttpServer::poll_once).
THEOREM SelectIsSafe == Spec => []SnapshotStaysOpen
<1>1. PollerInv => SnapshotStaysOpen
  BY DEF PollerInv
<1>. QED
  BY InitPoller, StepPoller, <1>1, PTL DEF Spec-----------------------------------------------------------------------------
(* What the reactors rely on: who owns a socket, and for how long.  A      *)
(* descriptor in a table is that connection's until its Unregister event   *)
(* is queued, and stays in the table one step longer, until the erase.     *)

KernelType ==
  /\ os \in [Fds -> Clients \cup {Nobody}] /\ backlog \subseteq Clients /\ input \subseteq Clients
  /\ peer \in [Clients -> {"away", "open", "gone"}]

WorkType ==
  /\ lpc \in [Reactors -> {"wait", "remove", "unregister", "erase"}]
  /\ cur \in [Reactors -> [fd : Fds \cup {Nobody}, of : Clients \cup {Nobody}]]
  /\ \A r \in Reactors : IF lpc[r] = "wait" THEN cur[r] = Idle ELSE cur[r].fd \in Fds /\ cur[r].of \in Clients

LoopType ==
  /\ conn \in [Clients -> Connection] /\ conns \in [Reactors -> [Fds -> Clients \cup {Nobody}]]
  /\ tasks \in [Reactors -> Seq(Tasks)] /\ \A r \in Reactors : Len(tasks[r]) <= MaxTasks
  /\ WorkType
  /\ frames \in 0 .. MaxFrames

PollType ==
  /\ homeOf \in [Fds -> Clients \cup {Nobody}] /\ home \in [Clients -> Reactors] /\ want \in [Fds -> BOOLEAN]
  /\ events \in Seq(Fds) /\ told \in [Fds -> BOOLEAN]
  /\ entries \in [Fds -> Clients \cup {Nobody}] /\ ready \subseteq Fds /\ next \in Reactors
  /\ ppc \in {"loop", "snapshot", "swept", "select", "accept", "add", "register", "deliver", "done"}
  /\ fresh \in Fds \cup {Nobody} /\ (fresh # Nobody) = (ppc \in {"add", "register"})

RunType ==
  /\ running \in BOOLEAN /\ closing \in Reactors
  /\ mpc \in {"join", "close_all", "clear", "stop", "destroy", "drain", "returned", "over"}

SocketsType == KernelType /\ LoopType /\ PollType /\ RunType

\* Between the event and the erase.
Erasing(r, fd) == lpc[r] = "erase" /\ cur[r].fd = fd

\* What is in a table belongs there, and is open unless it is being erased.
TablesOwn ==
  \A r \in Reactors, fd \in Fds : conns[r][fd] # Nobody =>
    /\ home[conns[r][fd]] = r /\ conn[conns[r][fd]].life # "none"
    /\ ~Erasing(r, fd) => os[fd] = conns[r][fd] /\ fd \notin ToSet(events)

\* A removal is of what the table has, and its connection is dead after the first step.
RemovalsOwn ==
  \A r \in Reactors : lpc[r] # "wait" =>
    /\ conns[r][cur[r].fd] = cur[r].of
    /\ lpc[r] # "remove" => conn[cur[r].of].life = "dead"

\* A client that was not accepted has neither a socket nor a connection.
Unseen(c) == peer[c] = "away" \/ c \in backlog
UnseenIsNew ==
  /\ \A c \in backlog : peer[c] # "away"
  /\ \A c \in Clients : Unseen(c) => conn[c].life = "none" /\ \A fd \in Fds : os[fd] # c
  /\ ppc = "add" => conn[os[fresh]].life = "none"

\* Only sockets of dead connections are in the queue, each once.
EventsDead ==
  /\ \A fd \in ToSet(events) : os[fd] # Nobody /\ conn[os[fd]].life = "dead"
  /\ \A i, j \in 1 .. Len(events) : events[i] = events[j] => i = j

LivePolled ==
  \A c \in Clients : Live(conn[c]) =>
    \E fd \in Fds : os[fd] = c /\ conns[home[c]][fd] = c /\ (homeOf[fd] = c \/ fresh = fd)

Serving == mpc = "join"
OwnersInv == TablesOwn /\ RemovalsOwn /\ UnseenIsNew /\ EventsDead /\ LivePolled

\* An open socket is about to be given to a reactor, or in the queue, or in the
\* table of a reactor that close_all() has still to visit.
ToVisit(r) == closing < r \/ (closing = r /\ mpc \in {"join", "close_all"})
Held(r, fd) == ToVisit(r) /\ conns[r][fd] # Nobody /\ ~Erasing(r, fd)
SocketsCovered ==
  \A fd \in Fds : os[fd] # Nobody =>
    (fd = fresh /\ ppc = "add") \/ fd \in ToSet(events) \/ \E r \in Reactors : Held(r, fd)

ClosingInv ==
  /\ mpc \in {"destroy", "drain", "returned", "over"} => closing = Workers - 1
  /\ mpc \in {"returned", "over"} => os = None
  /\ mpc = "join" => closing = 0

SocketInv ==
  /\ PollerInv /\ SocketsType /\ ClosingInv
  /\ SocketsCovered
  /\ Serving => OwnersInv
-----------------------------------------------------------------------------
(* Sequences and their elements.                                           *)

LEMMA ToSetAppend ==
  ASSUME NEW S, NEW s \in Seq(S), NEW x \in S
  PROVE  Append(s, x) \in Seq(S) /\ ToSet(Append(s, x)) = ToSet(s) \cup {x}
<1>1. /\ Append(s, x) \in Seq(S) /\ DOMAIN s = 1 .. Len(s) /\ Len(s) \in Nat
      /\ DOMAIN Append(s, x) = 1 .. Len(s) + 1
      /\ \A i \in 1 .. Len(s) : Append(s, x)[i] = s[i]
      /\ Append(s, x)[Len(s) + 1] = x
  BY AppendProperties, LenProperties
<1>. QED
  BY <1>1 DEF ToSet

LEMMA ToSetConcat ==
  ASSUME NEW S, NEW s \in Seq(S), NEW t \in Seq(S)
  PROVE  s \o t \in Seq(S) /\ ToSet(s \o t) = ToSet(s) \cup ToSet(t)
<1>1. /\ s \o t \in Seq(S) /\ Len(s) \in Nat /\ Len(t) \in Nat
      /\ DOMAIN s = 1 .. Len(s) /\ DOMAIN t = 1 .. Len(t) /\ DOMAIN (s \o t) = 1 .. Len(s) + Len(t)
      /\ \A i \in 1 .. Len(s) + Len(t) : (s \o t)[i] = IF i <= Len(s) THEN s[i] ELSE t[i - Len(s)]
  BY ConcatProperties, LenProperties
<1>2. ASSUME NEW i \in 1 .. Len(t) PROVE t[i] \in ToSet(s \o t)
  <2>1. Len(s) + i \in 1 .. Len(s) + Len(t) /\ ~(Len(s) + i <= Len(s)) /\ (Len(s) + i) - Len(s) = i
    BY <1>1
  <2>. QED
    BY <1>1, <2>1 DEF ToSet
<1>3. ToSet(s) \subseteq ToSet(s \o t)
  BY <1>1 DEF ToSet
<1>4. ToSet(s \o t) \subseteq ToSet(s) \cup ToSet(t)
  BY <1>1 DEF ToSet
<1>. QED
  BY <1>1, <1>2, <1>3, <1>4 DEF ToSet

LEMMA SetToSeqElements ==
  ASSUME NEW S, IsFiniteSet(S)
  PROVE  SetToSeq(S) \in Seq(S) /\ ToSet(SetToSeq(S)) = S
<1>. DEFINE n == Cardinality(S)
<1>1. n \in Nat /\ \E f \in Bijection(1 .. n, S) : TRUE
  BY FS_CardinalityType DEF ExistsBijection
<1>2. \E f \in [1 .. n -> S] : IsInjective(f)
  BY <1>1 DEF Bijection, Injection
<1>3. SetToSeq(S) \in [1 .. n -> S] /\ IsInjective(SetToSeq(S))
  BY <1>2 DEF SetToSeq
<1>4. SetToSeq(S) \in Injection(1 .. n, S)
  BY <1>3 DEF Injection
<1>5. IsFiniteSet(1 .. n) /\ Cardinality(1 .. n) = n
  BY <1>1, FS_Interval
<1>6. SetToSeq(S) \in Surjection(1 .. n, S)
  BY <1>4, <1>5, FS_Injection
<1>. QED
  BY <1>1, <1>3, <1>6 DEF Surjection, ToSet
-----------------------------------------------------------------------------
(* What Connection.cpp may do to a connection.                             *)

\* A live connection may die; nothing else happens to the life of one.
Follows(k, q) == q \in Connection /\ (q.life = k.life \/ (Live(k) /\ q.life = "dead"))

LEMMA ClosedFollows ==
  ASSUME NEW k \in Connection
  PROVE  Closed(k) \in Connection /\ Closed(k).life = "dead"
  BY DEF Closed, NoConnection, Connection

LEMMA QueueFollows ==
  ASSUME NEW k \in Connection, Live(k), NEW q \in Queue(k)
  PROVE  Follows(k, q)
<1>1. [k EXCEPT !.out = TRUE] \in Connection /\ [k EXCEPT !.out = TRUE].life = k.life
  BY DEF Connection
<1>. QED
  BY <1>1, ClosedFollows DEF Queue, Follows

LEMMA DrainOutFollows ==
  ASSUME NEW k \in Connection, NEW gone \in BOOLEAN, NEW q \in DrainOut(k, gone)
  PROVE  Follows(k, q)
<1>1. [k EXCEPT !.out = FALSE] \in Connection /\ [k EXCEPT !.out = FALSE].life = k.life
  BY DEF Connection
<1>. QED
  BY <1>1, ClosedFollows DEF DrainOut, Follows

LEMMA FlushFollows ==
  ASSUME NEW k \in Connection, NEW gone \in BOOLEAN, NEW new \in BOOLEAN, NEW q \in FlushStream(k, gone, new)
  PROVE  Follows(k, q)
<1>1. CASE ~(Live(k) /\ k.stream)
  BY <1>1 DEF FlushStream, Follows
<1>2. CASE Live(k) /\ k.stream
  <2>1. PICK a \in (IF new THEN Queue(k) ELSE {k}) : q \in DrainOut(a, gone)
    BY <1>2 DEF FlushStream
  <2>2. Follows(k, a)
    BY <1>2, <2>1, QueueFollows DEF Follows
  <2>3. Follows(a, q)
    BY <2>1, <2>2, DrainOutFollows DEF Follows
  <2>. QED
    BY <2>2, <2>3 DEF Follows, Live
<1>. QED
  BY <1>1, <1>2

LEMMA StreamFollows ==
  ASSUME NEW k \in Connection, NEW gone \in BOOLEAN, NEW unread \in BOOLEAN, Live(k), NEW o \in ProcessStream(k, gone, unread)
  PROVE  Follows(k, o.conn)
<1>1. PICK ping \in BOOLEAN : \E q \in FlushStream(k, gone, ping) :
        o.conn = q \/ (Live(q) /\ o.conn = Closed(q))
  BY DEF ProcessStream, Outcome
<1>2. PICK q \in FlushStream(k, gone, ping) : o.conn = q \/ (Live(q) /\ o.conn = Closed(q))
  BY <1>1
<1>3. Follows(k, q)
  BY FlushFollows
<1>. QED
  BY <1>2, <1>3, ClosedFollows DEF Follows, Live

LEMMA RequestsFollow ==
  ASSUME NEW k \in Connection, NEW gone \in BOOLEAN, NEW unread \in BOOLEAN, Live(k), NEW o \in ProcessRequests(k, gone, unread)
  PROVE  Follows(k, o.conn)
<1>1. ASSUME NEW a \in Connection, NEW q \in Finish(MeetEof(a, gone), gone)
      PROVE  Follows(a, q)
  <2>1. MeetEof(a, gone) \in Connection /\ MeetEof(a, gone).life = a.life
    BY DEF MeetEof, Connection
  <2>2. PICK b \in DrainOut(MeetEof(a, gone), gone) : q = b \/ (Live(b) /\ q = Closed(b))
    BY <1>1 DEF Finish
  <2>3. Follows(MeetEof(a, gone), b)
    BY <2>1, DrainOutFollows
  <2>. QED
    BY <2>1, <2>2, <2>3, ClosedFollows DEF Follows, Live
<1>2. ASSUME NEW how \in Replies, NEW a \in Reply(k, how)
      PROVE  Follows(k, a)
  <2>1. /\ [k EXCEPT !.ending = TRUE] \in Connection /\ Live([k EXCEPT !.ending = TRUE])
        /\ [k EXCEPT !.stream = TRUE] \in Connection /\ Live([k EXCEPT !.stream = TRUE])
    BY DEF Connection, Live
  <2>2. \/ a \in Queue(k) \/ a = k
        \/ a \in Queue([k EXCEPT !.ending = TRUE]) \/ a \in Queue([k EXCEPT !.stream = TRUE])
    BY <1>2, RepliesAssumption DEF Reply
  <2>3. CASE a \in Queue(k) \/ a = k
    BY <2>3, QueueFollows DEF Follows
  <2>4. CASE a \in Queue([k EXCEPT !.ending = TRUE])
    BY <2>1, <2>4, QueueFollows DEF Follows, Live
  <2>5. CASE a \in Queue([k EXCEPT !.stream = TRUE])
    BY <2>1, <2>5, QueueFollows DEF Follows, Live
  <2>. QED
    BY <2>2, <2>3, <2>4, <2>5
<1>3. CASE unread /\ ~k.ending
  <2>1. CASE o = Outcome(Closed(k), TRUE)
    BY <2>1, ClosedFollows DEF Outcome, Follows
  <2>2. CASE o # Outcome(Closed(k), TRUE)
    <3>1. PICK q \in UNION {Finish(MeetEof(a, gone), gone) : a \in UNION {Reply(k, how) : how \in Replies}} :
            o = Outcome(q, TRUE)
      BY <1>3, <2>2 DEF ProcessRequests
    <3>2. PICK how \in Replies : \E a \in Reply(k, how) : q \in Finish(MeetEof(a, gone), gone)
      BY <3>1
    <3>3. PICK a \in Reply(k, how) : q \in Finish(MeetEof(a, gone), gone)
      BY <3>2
    <3>4. Follows(k, a) /\ Follows(a, q)
      BY <1>1, <1>2, <3>3 DEF Follows
    <3>. QED
      BY <3>1, <3>4 DEF Follows, Live, Outcome
  <2>. QED
    BY <2>1, <2>2
<1>4. CASE ~(unread /\ ~k.ending)
  <2>1. PICK q \in Finish(MeetEof(k, gone), gone) : o = Outcome(q, FALSE)
    BY <1>4 DEF ProcessRequests
  <2>. QED
    BY <1>1, <2>1 DEF Outcome
<1>. QED
  BY <1>3, <1>4

LEMMA ProcessFollows ==
  ASSUME NEW k \in Connection, NEW gone \in BOOLEAN, NEW unread \in BOOLEAN, NEW o \in Process(k, gone, unread)
  PROVE  Follows(k, o.conn)
<1>1. CASE ~Live(k) \/ k.detached
  BY <1>1, ClosedFollows DEF Process, Outcome, Follows
<1>2. CASE Live(k) /\ ~k.detached
  BY <1>2, StreamFollows, RequestsFollow DEF Process
<1>. QED
  BY <1>1, <1>2
-----------------------------------------------------------------------------
(* Types.                                                                  *)

LEMMA InitTypes == Init => SocketsType
<1>. SUFFICES ASSUME Init PROVE SocketsType
  OBVIOUS
<1>1. NoConnection \in Connection /\ None \in [Fds -> Clients \cup {Nobody}] /\ 0 \in Reactors
  BY HttpAssumption DEF NoConnection, Connection, None, Reactors
<1>2. <<>> \in Seq(Tasks) /\ <<>> \in Seq(Fds) /\ Len(<<>>) = 0
  BY EmptySeq
<1>. QED
  BY <1>1, <1>2, HttpAssumption
  DEF Init, SocketsType, KernelType, LoopType, WorkType, PollType, RunType, Idle

LEMMA TypesGiveTypeOK == SocketsType => TypeOK
<1>. SUFFICES ASSUME SocketsType PROVE TypeOK
  OBVIOUS
<1>1. ASSUME NEW r \in Reactors PROVE ToSet(tasks[r]) \subseteq Tasks /\ Len(tasks[r]) <= MaxTasks
  <2>1. tasks[r] \in Seq(Tasks)
    BY DEF SocketsType, LoopType
  <2>. QED
    BY <2>1, ElementOfSeq, LenProperties DEF SocketsType, LoopType, ToSet
<1>2. ToSet(events) \subseteq Fds
  BY ElementOfSeq, LenProperties DEF SocketsType, PollType, ToSet
<1>3. ASSUME NEW r \in Reactors PROVE (lpc[r] = "wait") = (cur[r] = Idle)
  BY HttpAssumption DEF SocketsType, LoopType, WorkType, Idle
<1>. QED
  BY <1>1, <1>2, <1>3 DEF TypeOK, SocketsType, KernelType, LoopType, WorkType, PollType, RunType

\* A task taken is one of the reactor's own.
LEMMA TaskTaken ==
  ASSUME LoopType, NEW r \in Reactors, NEW op, NextTask(r, op), TakeTask(r)
  PROVE  /\ Head(tasks[r]) \in Tasks
         /\ tasks' \in [Reactors -> Seq(Tasks)] /\ \A q \in Reactors : Len(tasks'[q]) <= MaxTasks
<1>1. tasks[r] \in Seq(Tasks) /\ tasks[r] # <<>>
  BY DEF LoopType, NextTask
<1>2. Head(tasks[r]) \in Tasks /\ Tail(tasks[r]) \in Seq(Tasks) /\ Len(Tail(tasks[r])) = Len(tasks[r]) - 1
  BY <1>1, HeadTailProperties
<1>3. Len(tasks[r]) \in Nat /\ Len(tasks[r]) <= MaxTasks
  BY <1>1, LenProperties DEF LoopType
<1>. QED
  BY <1>2, <1>3, HttpAssumption DEF LoopType, TakeTask

LEMMA WorkStarted ==
  ASSUME LoopType, NEW r \in Reactors, NEW fd \in Fds, NEW c \in Clients, StartRemoval(r, fd, c)
  PROVE  WorkType'
<1>. DEFINE w == [fd |-> fd, of |-> c]
<1>1. w \in [fd : Fds \cup {Nobody}, of : Clients \cup {Nobody}] /\ w.fd = fd /\ w.of = c
  OBVIOUS
<1>. HIDE DEF w
<1>2. cur' = [cur EXCEPT ![r] = w] /\ lpc' = [lpc EXCEPT ![r] = "remove"]
  BY DEF StartRemoval, w
<1>. QED
  BY <1>1, <1>2 DEF LoopType, WorkType

LEMMA WorkEnded ==
  ASSUME LoopType, NEW r \in Reactors, EndTask(r)
  PROVE  WorkType'
<1>1. Idle \in [fd : Fds \cup {Nobody}, of : Clients \cup {Nobody}]
  BY DEF Idle
<1>2. cur' = [cur EXCEPT ![r] = Idle] /\ lpc' = [lpc EXCEPT ![r] = "wait"]
  BY DEF EndTask
<1>. QED
  BY <1>1, <1>2 DEF LoopType, WorkType

LEMMA TaskAdded ==
  ASSUME LoopType, NEW r \in Reactors, NEW t \in Tasks, Len(tasks[r]) < MaxTasks,
         tasks' = [tasks EXCEPT ![r] = Append(@, t)]
  PROVE  tasks' \in [Reactors -> Seq(Tasks)] /\ \A q \in Reactors : Len(tasks'[q]) <= MaxTasks
<1>1. tasks[r] \in Seq(Tasks)
  BY DEF LoopType
<1>2. Append(tasks[r], t) \in Seq(Tasks) /\ Len(Append(tasks[r], t)) = Len(tasks[r]) + 1 /\ Len(tasks[r]) \in Nat
  BY <1>1, AppendProperties, LenProperties
<1>. QED
  BY <1>2, HttpAssumption DEF LoopType

LEMMA TasksPosted ==
  ASSUME LoopType, NEW fds \in SUBSET Fds, NEW op \in {"drive", "timeout"}, PostEach(fds, op)
  PROVE  tasks' \in [Reactors -> Seq(Tasks)] /\ \A q \in Reactors : Len(tasks'[q]) <= MaxTasks
<1>. DEFINE Those(r) == {f \in fds : home[homeOf[f]] = r}
            Ones(r) == {[op |-> op, fd |-> fd] : fd \in Those(r)}
<1>1. ASSUME NEW r \in Reactors PROVE tasks[r] \o SetToSeq(Ones(r)) \in Seq(Tasks)
  <2>1. IsFiniteSet(Those(r))
    BY FS_Subset, HttpAssumption
  <2>2. [fd \in Those(r) |-> [op |-> op, fd |-> fd]] \in Surjection(Those(r), Ones(r))
    BY DEF Surjection
  <2>3. IsFiniteSet(Ones(r))
    BY <2>1, <2>2, FS_Surjection
  <2>4. Ones(r) \subseteq Tasks
    BY DEF Tasks
  <2>5. SetToSeq(Ones(r)) \in Seq(Tasks)
    BY <2>3, <2>4, SetToSeqElements, SeqMonotonic
  <2>. QED
    BY <2>5, ToSetConcat DEF LoopType
<1>. QED
  BY <1>1 DEF PostEach

LEMMA TypesLoop ==
  ASSUME SocketsType, NEW r \in Reactors, Loop(r)
  PROVE  SocketsType'
<1>1. KernelType /\ LoopType /\ PollType /\ RunType
  BY DEF SocketsType
<1>2. ASSUME NEW c \in Clients PROVE Gone(c) \in BOOLEAN /\ (c \in input) \in BOOLEAN
  BY DEF Gone
<1>3. CASE LoopDrive(r)
  <2>1. Head(tasks[r]) \in Tasks /\ Head(tasks[r]).op = "drive"
    BY <1>1, <1>3, TaskTaken DEF LoopDrive, NextTask
  <2>2. tasks' \in [Reactors -> Seq(Tasks)] /\ \A q \in Reactors : Len(tasks'[q]) <= MaxTasks
    BY <1>1, <1>3, TaskTaken DEF LoopDrive
  <2>. DEFINE fd == Head(tasks[r]).fd
              c == conns[r][fd]
  <2>3. fd \in Fds
    BY <2>1 DEF Tasks
  <2>4. c \in Clients \cup {Nobody}
    BY <1>1, <2>3 DEF LoopType
  <2>. HIDE DEF fd
  <2>5. CASE c = Nobody
    <3>1. UNCHANGED <<input, conn, lpc, cur, told>>
      BY <1>3, <2>5 DEF LoopDrive, fd
    <3>. QED
      BY <1>1, <1>3, <2>2, <3>1 DEF LoopDrive, SocketsType, KernelType, LoopType, WorkType, PollType, RunType, runVars
  <2>6. CASE c # Nobody
    <3>1. c \in Clients /\ lpc[r] = "wait"
      BY <1>3, <2>4, <2>6 DEF LoopDrive, NextTask
    <3>2. PICK o \in Process(conn[c], Gone(c), c \in input) :
            /\ Update(c, o.conn)
            /\ input' = IF o.read THEN input \ {c} ELSE input
            /\ IF Live(o.conn)
               THEN told' = [told EXCEPT ![fd] = o.conn.out] /\ UNCHANGED <<lpc, cur>>
               ELSE StartRemoval(r, fd, c) /\ UNCHANGED told
      BY <1>3, <2>6 DEF LoopDrive, fd
    <3>3. o.conn \in Connection
      BY <1>1, <1>2, <3>1, ProcessFollows DEF LoopType, Follows
    <3>4. conn' \in [Clients -> Connection] /\ input' \subseteq Clients
      BY <1>1, <3>2, <3>3 DEF LoopType, KernelType, Update
    <3>5. told' \in [Fds -> BOOLEAN]
      BY <1>1, <3>2, <3>3 DEF PollType, Connection
    <3>6. WorkType'
      BY <1>1, <2>3, <3>1, <3>2, WorkStarted DEF LoopType, WorkType, StartRemoval
    <3>. QED
      BY <1>1, <1>3, <2>2, <3>4, <3>5, <3>6 DEF LoopDrive, SocketsType, KernelType, LoopType, WorkType, PollType, RunType, runVars
  <2>. QED
    BY <2>5, <2>6
<1>4. CASE LoopTimeout(r)
  <2>1. Head(tasks[r]) \in Tasks /\ Head(tasks[r]).op = "timeout"
    BY <1>1, <1>4, TaskTaken DEF LoopTimeout, NextTask
  <2>2. tasks' \in [Reactors -> Seq(Tasks)] /\ \A q \in Reactors : Len(tasks'[q]) <= MaxTasks
    BY <1>1, <1>4, TaskTaken DEF LoopTimeout
  <2>. DEFINE fd == Head(tasks[r]).fd
              c == conns[r][fd]
  <2>3. fd \in Fds /\ lpc[r] = "wait"
    BY <1>4, <2>1 DEF Tasks, LoopTimeout, NextTask
  <2>. HIDE DEF fd
  <2>4. /\ conn' \in [Clients -> Connection]
        /\ UNCHANGED <<lpc, cur>> \/ (c \in Clients /\ StartRemoval(r, fd, c))
    <3>1. CASE c = Nobody
      BY <1>1, <1>4, <3>1 DEF LoopTimeout, LoopType, fd
    <3>2. CASE c # Nobody
      <4>1. c \in Clients
        BY <1>1, <2>3, <3>2 DEF LoopType
      <4>2. \/ UNCHANGED <<conn, lpc, cur>>
            \/ UNCHANGED <<lpc, cur>> /\ \E k \in FlushStream(conn[c], Gone(c), TRUE) : Update(c, k)
            \/ StartRemoval(r, fd, c) /\ UNCHANGED conn
        BY <1>4, <3>2 DEF LoopTimeout, fd
      <4>3. ASSUME NEW k \in FlushStream(conn[c], Gone(c), TRUE), Update(c, k) PROVE conn' \in [Clients -> Connection]
        BY <1>1, <1>2, <4>1, <4>3, FlushFollows DEF LoopType, Follows, Update
      <4>. QED
        BY <1>1, <4>1, <4>2, <4>3 DEF LoopType
    <3>. QED
      BY <3>1, <3>2
  <2>5. WorkType'
    BY <1>1, <2>3, <2>4, WorkStarted DEF LoopType, WorkType, StartRemoval
  <2>. QED
    BY <1>1, <1>4, <2>2, <2>4, <2>5
    DEF LoopTimeout, SocketsType, KernelType, LoopType, WorkType, PollType, RunType, kernelVars, pollVars, runVars
<1>5. CASE LoopFrame(r)
  <2>1. Head(tasks[r]) \in Tasks /\ Head(tasks[r]).op = "frame"
    BY <1>1, <1>5, TaskTaken DEF LoopFrame, NextTask
  <2>2. tasks' \in [Reactors -> Seq(Tasks)] /\ \A q \in Reactors : Len(tasks'[q]) <= MaxTasks
    BY <1>1, <1>5, TaskTaken DEF LoopFrame
  <2>. DEFINE c == Head(tasks[r]).of
  <2>3. c \in Clients
    BY <2>1 DEF Tasks
  <2>4. PICK k \in FlushStream(conn[c], Gone(c), TRUE) : Update(c, k)
    BY <1>5 DEF LoopFrame
  <2>5. k \in Connection
    BY <1>1, <1>2, <2>3, FlushFollows DEF LoopType, Follows
  <2>6. conn' \in [Clients -> Connection]
    BY <1>1, <2>3, <2>4, <2>5 DEF LoopType, Update
  <2>. QED
    BY <1>1, <1>5, <2>2, <2>6
    DEF LoopFrame, SocketsType, KernelType, LoopType, WorkType, PollType, RunType, kernelVars, pollVars, runVars
<1>6. CASE LoopRemove(r)
  <2>. DEFINE c == cur[r].of
  <2>1. c \in Clients /\ lpc[r] = "remove"
    BY <1>1, <1>6 DEF LoopType, WorkType, LoopRemove
  <2>2. \/ EndTask(r) /\ (UNCHANGED conn \/ Update(c, Closed(conn[c])))
        \/ lpc' = [lpc EXCEPT ![r] = "unregister"] /\ UNCHANGED cur /\ Update(c, Closed(conn[c]))
    BY <1>6 DEF LoopRemove
  <2>3. Closed(conn[c]) \in Connection
    BY <1>1, <2>1, ClosedFollows DEF LoopType
  <2>4. conn' \in [Clients -> Connection]
    BY <1>1, <2>2, <2>3 DEF LoopType, Update
  <2>5. WorkType'
    BY <1>1, <2>1, <2>2, WorkEnded DEF LoopType, WorkType
  <2>. QED
    BY <1>1, <1>6, <2>4, <2>5
    DEF LoopRemove, SocketsType, KernelType, LoopType, WorkType, PollType, RunType, kernelVars, pollVars, runVars
<1>7. CASE LoopUnregister(r)
  <2>1. cur[r].fd \in Fds
    BY <1>1, <1>7 DEF LoopType, WorkType, LoopUnregister
  <2>2. events' \in Seq(Fds)
    BY <1>1, <1>7, <2>1, ToSetAppend DEF PollType, LoopUnregister
  <2>3. WorkType'
    BY <1>1, <1>7 DEF LoopType, WorkType, LoopUnregister
  <2>. QED
    BY <1>1, <1>7, <2>2, <2>3
    DEF LoopUnregister, SocketsType, KernelType, LoopType, WorkType, PollType, RunType, kernelVars, runVars
<1>8. CASE LoopErase(r)
  <2>1. conns' \in [Reactors -> [Fds -> Clients \cup {Nobody}]]
    BY <1>1, <1>8 DEF LoopType, LoopErase
  <2>2. WorkType'
    BY <1>1, <1>8, WorkEnded DEF LoopType, LoopErase
  <2>. QED
    BY <1>1, <1>8, <2>1, <2>2
    DEF LoopErase, SocketsType, KernelType, LoopType, WorkType, PollType, RunType, kernelVars, pollVars, runVars
<1>. QED
  BY <1>3, <1>4, <1>5, <1>6, <1>7, <1>8 DEF Loop

\* A registry and the descriptors without some of their entries.
LEMMA DrainTypes ==
  ASSUME KernelType, PollType, DrainEvents
  PROVE  /\ os' \in [Fds -> Clients \cup {Nobody}] /\ homeOf' \in [Fds -> Clients \cup {Nobody}]
         /\ want' \in [Fds -> BOOLEAN] /\ events' = <<>> /\ input' \subseteq Clients
  BY ForgetType DEF KernelType, PollType, DrainEvents

LEMMA TypesPoller ==
  ASSUME SocketsType, Poller
  PROVE  SocketsType'
<1>1. KernelType /\ LoopType /\ PollType /\ RunType
  BY DEF SocketsType
<1>2. CASE PollerRound
  <2>1. /\ ppc = "loop" /\ ppc' = "snapshot"
        /\ UNCHANGED <<peer, backlog, loopVars, home, told, entries, ready, next, fresh, runVars>>
    BY <1>2 DEF PollerRound
  <2>2. /\ os' \in [Fds -> Clients \cup {Nobody}] /\ homeOf' \in [Fds -> Clients \cup {Nobody}]
        /\ want' \in [Fds -> BOOLEAN] /\ events' = <<>> /\ input' \subseteq Clients
    BY <1>1, <1>2, DrainTypes DEF PollerRound
  <2>3. KernelType'
    BY <1>1, <2>1, <2>2 DEF KernelType
  <2>4. LoopType' /\ RunType'
    BY <1>1, <2>1 DEF LoopType, WorkType, RunType, loopVars, runVars
  <2>5. PollType'
    BY <1>1, <2>1, <2>2, EmptySeq DEF PollType
  <2>. QED
    BY <2>3, <2>4, <2>5 DEF SocketsType
<1>3. CASE PollerDone \/ PollerAccepted
  BY <1>1, <1>3 DEF PollerDone, PollerAccepted, SocketsType, KernelType, LoopType, WorkType, PollType, RunType,
                    kernelVars, loopVars, runVars
<1>4. CASE PollerSweep
  <2>1. Registered \ Dead \in SUBSET Fds
    BY DEF Registered
  <2>2. tasks' \in [Reactors -> Seq(Tasks)] /\ \A q \in Reactors : Len(tasks'[q]) <= MaxTasks
    BY <1>1, <1>4, <2>1, TasksPosted DEF PollerSweep
  <2>3. homeOf' \in [Fds -> Clients \cup {Nobody}] /\ want' \in [Fds -> BOOLEAN]
    BY <1>1, <1>4, ForgetType DEF PollerSweep, PollType, NoWrite
  <2>. QED
    BY <1>1, <1>4, <2>2, <2>3
    DEF PollerSweep, SocketsType, KernelType, LoopType, WorkType, PollType, RunType, kernelVars, runVars
<1>5. CASE PollerSnapshot
  <2>1. homeOf' \in [Fds -> Clients \cup {Nobody}] /\ want' \in [Fds -> BOOLEAN]
    BY <1>1, <1>5, ForgetType DEF PollerSnapshot, PollType, NoWrite
  <2>. QED
    BY <1>1, <1>5, <2>1
    DEF PollerSnapshot, SocketsType, KernelType, LoopType, WorkType, PollType, RunType, kernelVars, loopVars, runVars
<1>6. CASE PollerSelect \/ PollerCutShort
  <2>1. None \in [Fds -> Clients \cup {Nobody}]
    BY DEF None
  <2>2. \/ EndRound
        \/ ready' \subseteq Fds /\ ppc' = "accept" /\ UNCHANGED entries
    BY <1>6 DEF PollerSelect, PollerCutShort
  <2>3. ppc \in {"select", "accept"}
    BY <1>6 DEF PollerSelect, PollerCutShort
  <2>. QED
    BY <1>1, <1>6, <2>1, <2>2, <2>3
    DEF PollerSelect, PollerCutShort, EndRound, SocketsType, KernelType, LoopType, WorkType, PollType, RunType,
        kernelVars, loopVars, runVars
<1>7. CASE PollerRefuse
  <2>1. backlog' \subseteq backlog
    BY <1>7 DEF PollerRefuse
  <2>. QED
    BY <1>1, <1>7, <2>1
    DEF PollerRefuse, SocketsType, KernelType, LoopType, WorkType, PollType, RunType, loopVars, pollVars, runVars
<1>8. CASE PollerAccept
  <2>1. PICK c \in First(backlog) : \E fd \in First(Unused) :
          /\ backlog' = backlog \ {c}
          /\ os' = [os EXCEPT ![fd] = c] /\ fresh' = fd
          /\ home' = [home EXCEPT ![c] = next] /\ next' = (next + 1) % Workers
    BY <1>8 DEF PollerAccept
  <2>2. PICK fd \in First(Unused) :
          /\ backlog' = backlog \ {c}
          /\ os' = [os EXCEPT ![fd] = c] /\ fresh' = fd
          /\ home' = [home EXCEPT ![c] = next] /\ next' = (next + 1) % Workers
    BY <2>1
  <2>3. c \in Clients /\ fd \in Fds
    BY <1>1 DEF First, Unused, KernelType
  <2>4. next' \in Reactors
    BY <1>1, <2>2, HttpAssumption DEF PollType, Reactors
  <2>5. KernelType'
    BY <1>1, <1>8, <2>2, <2>3 DEF PollerAccept, KernelType
  <2>6. LoopType' /\ RunType'
    BY <1>1, <1>8 DEF PollerAccept, LoopType, WorkType, RunType, loopVars, runVars
  <2>7. home' \in [Clients -> Reactors]
    BY <1>1, <2>2, <2>3 DEF PollType
  <2>8. PollType'
    BY <1>1, <1>8, <2>2, <2>3, <2>4, <2>7, HttpAssumption DEF PollerAccept, PollType
  <2>. QED
    BY <2>5, <2>6, <2>8 DEF SocketsType
<1>9. CASE PollerAdd
  <2>. DEFINE c == os[fresh]
              r == home[c]
  <2>0. c \in Clients \cup {Nobody} /\ fresh \in Fds
    BY <1>1, <1>9 DEF PollerAdd, KernelType, PollType
  <2>1. CASE conns[r][fresh] # Nobody
    <3>1. /\ os' = [os EXCEPT ![fresh] = Nobody] /\ fresh' = Nobody /\ ppc' = "accept"
          /\ UNCHANGED <<conn, conns, tasks, told>>
      BY <1>9, <2>1 DEF PollerAdd
    <3>. QED
      BY <1>1, <1>9, <3>1
      DEF PollerAdd, SocketsType, KernelType, LoopType, WorkType, PollType, RunType, runVars
  <2>2. CASE conns[r][fresh] = Nobody
    <3>1. /\ conn' = [conn EXCEPT ![c].life = "live"]
          /\ conns' = [conns EXCEPT ![r][fresh] = c]
          /\ tasks' = [tasks EXCEPT ![r] = Append(@, Drive(fresh))]
          /\ told' = [told EXCEPT ![fresh] = FALSE]
          /\ ppc' = "register" /\ UNCHANGED <<os, fresh>>
          /\ Len(tasks[r]) < MaxTasks
      BY <1>9, <2>2 DEF PollerAdd
    <3>2. ASSUME NEW k \in Connection PROVE [k EXCEPT !.life = "live"] \in Connection
      BY DEF Connection
    <3>3. conn' \in [Clients -> Connection]
      BY <1>1, <3>1, <3>2 DEF LoopType
    <3>4. conns' \in [Reactors -> [Fds -> Clients \cup {Nobody}]]
      BY <1>1, <2>0, <3>1 DEF LoopType
    <3>5. Drive(fresh) \in Tasks
      BY <2>0 DEF Drive, Tasks
    <3>6. tasks' \in [Reactors -> Seq(Tasks)] /\ \A q \in Reactors : Len(tasks'[q]) <= MaxTasks
      <4>1. CASE r \in Reactors
        BY <1>1, <3>1, <3>5, <4>1, TaskAdded
      <4>2. CASE r \notin Reactors
        BY <1>1, <3>1, <4>2 DEF LoopType
      <4>. QED
        BY <4>1, <4>2
    <3>. QED
      BY <1>1, <1>9, <3>1, <3>3, <3>4, <3>6
      DEF PollerAdd, SocketsType, KernelType, LoopType, WorkType, PollType, RunType, runVars
  <2>. QED
    BY <2>1, <2>2
<1>10. CASE PollerRegister
  <2>1. homeOf' \in [Fds -> Clients \cup {Nobody}]
    BY <1>1, <1>10 DEF PollerRegister, KernelType, PollType
  <2>. QED
    BY <1>1, <1>10, <2>1
    DEF PollerRegister, SocketsType, KernelType, LoopType, WorkType, PollType, RunType, kernelVars, loopVars, runVars
<1>11. CASE PollerDeliver
  <2>1. Deliverable \in SUBSET Fds /\ None \in [Fds -> Clients \cup {Nobody}]
    BY <1>1 DEF Deliverable, None, PollType
  <2>2. tasks' \in [Reactors -> Seq(Tasks)] /\ \A q \in Reactors : Len(tasks'[q]) <= MaxTasks
    BY <1>1, <1>11, <2>1, TasksPosted DEF PollerDeliver
  <2>. QED
    BY <1>1, <1>11, <2>1, <2>2
    DEF PollerDeliver, EndRound, SocketsType, KernelType, LoopType, WorkType, PollType, RunType, kernelVars, runVars
<1>. QED
  BY <1>2, <1>3, <1>4, <1>5, <1>6, <1>7, <1>8, <1>9, <1>10, <1>11 DEF Poller

LEMMA TypesOthers ==
  ASSUME SocketsType, \/ \E c \in Clients : Connect(c) \/ Send(c) \/ Leave(c) \/ PostFrame(c)
                      \/ Stop \/ Run \/ UNCHANGED vars
  PROVE  SocketsType'
<1>1. KernelType /\ LoopType /\ PollType /\ RunType
  BY DEF SocketsType
<1>2. ASSUME NEW c \in Clients, Connect(c) \/ Send(c) \/ Leave(c) PROVE SocketsType'
  <2>1. UNCHANGED <<os, loopVars, pollVars, runVars>>
    BY <1>2 DEF Connect, Send, Leave
  <2>2. backlog' \subseteq Clients /\ input' \subseteq Clients /\ peer' \in [Clients -> {"away", "open", "gone"}]
    BY <1>1, <1>2 DEF Connect, Send, Leave, KernelType
  <2>. QED
    BY <1>1, <2>1, <2>2
    DEF SocketsType, KernelType, LoopType, WorkType, PollType, RunType, loopVars, pollVars, runVars
<1>3. ASSUME NEW c \in Clients, PostFrame(c) PROVE SocketsType'
  <2>1. home[c] \in Reactors /\ Frame(c) \in Tasks
    BY <1>1 DEF PollType, Frame, Tasks
  <2>2. tasks' \in [Reactors -> Seq(Tasks)] /\ \A q \in Reactors : Len(tasks'[q]) <= MaxTasks
    BY <1>1, <1>3, <2>1, TaskAdded DEF PostFrame
  <2>3. frames' \in 0 .. MaxFrames
    BY <1>1, <1>3, HttpAssumption DEF PostFrame, LoopType
  <2>. QED
    BY <1>1, <1>3, <2>2, <2>3
    DEF PostFrame, SocketsType, KernelType, LoopType, WorkType, PollType, RunType, kernelVars, pollVars, runVars
<1>4. CASE Stop \/ JoinPoller \/ DestroyReactors \/ UNCHANGED vars
  BY <1>1, <1>4
  DEF Stop, JoinPoller, DestroyReactors, Goto, vars, SocketsType, KernelType, LoopType, WorkType, PollType, RunType,
      kernelVars, loopVars, pollVars, runVars
<1>5. CASE CloseAll
  <2>1. InTable(closing) \in SUBSET Fds
    BY DEF InTable
  <2>2. SetToSeq(InTable(closing)) \in Seq(Fds)
    BY <2>1, FS_Subset, HttpAssumption, SetToSeqElements, SeqMonotonic
  <2>3. events' \in Seq(Fds)
    BY <1>1, <1>5, <2>2, ToSetConcat DEF CloseAll, PollType
  <2>4. ASSUME NEW k \in Connection PROVE [k EXCEPT !.detached = TRUE] \in Connection
    BY DEF Connection
  <2>5. conn' \in [Clients -> Connection]
    BY <1>1, <1>5, <2>4 DEF CloseAll, LoopType
  <2>. QED
    BY <1>1, <1>5, <2>3, <2>5
    DEF CloseAll, Goto, SocketsType, KernelType, LoopType, WorkType, PollType, RunType, kernelVars
<1>6. CASE ClearTable \/ ClearHub
  <2>1. conn' \in [Clients -> Connection]
    <3>1. \A c \in Clients : conn[c] \in Connection /\ Closed(conn[c]) \in Connection
      BY <1>1, ClosedFollows DEF LoopType
    <3>2. CASE ClearTable
      BY <3>1, <3>2 DEF ClearTable
    <3>3. CASE ClearHub
      BY <3>1, <3>3 DEF ClearHub
    <3>. QED
      BY <1>6, <3>2, <3>3
  <2>2. conns' \in [Reactors -> [Fds -> Clients \cup {Nobody}]]
    <3>1. None \in [Fds -> Clients \cup {Nobody}]
      BY DEF None
    <3>. QED
      BY <1>1, <1>6, <3>1 DEF ClearTable, ClearHub, LoopType
  <2>. QED
    BY <1>1, <1>6, <2>1, <2>2
    DEF ClearTable, ClearHub, Goto, SocketsType, KernelType, LoopType, WorkType, PollType, RunType, kernelVars, pollVars
<1>7. CASE StopReactor
  <2>1. closing' \in Reactors
    BY <1>1, <1>7, HttpAssumption DEF StopReactor, RunType, Reactors
  <2>. QED
    BY <1>1, <1>7, <2>1
    DEF StopReactor, SocketsType, KernelType, LoopType, WorkType, PollType, RunType, kernelVars, loopVars, pollVars
<1>8. CASE FinalDrain
  BY <1>1, <1>8, DrainTypes, EmptySeq
  DEF FinalDrain, Goto, SocketsType, KernelType, LoopType, WorkType, PollType, RunType, loopVars
<1>. QED
  BY <1>2, <1>3, <1>4, <1>5, <1>6, <1>7, <1>8 DEF Run

LEMMA StepTypes == SocketsType /\ [Next]_vars => SocketsType'
  BY TypesLoop, TypesPoller, TypesOthers DEF Next

\* Every variable keeps its type, whatever the number of clients, descriptors
\* and reactors; a reactor at rest works on no connection.
THEOREM TypeInvariant == Spec => []TypeOK
  BY InitTypes, StepTypes, TypesGiveTypeOK, PTL DEF Spec
-----------------------------------------------------------------------------
(* Owners.                                                                 *)

\* What a task does to the connections and to the thread that runs it.
LEMMA TaskEffects ==
  ASSUME SocketsType, NEW r \in Reactors, LoopDrive(r) \/ LoopTimeout(r) \/ LoopFrame(r)
  PROVE  /\ UNCHANGED <<os, peer, backlog, conns, events, homeOf, home, fresh, ppc, mpc, closing>>
         /\ \A c \in Clients : Follows(conn[c], conn'[c])
         /\ \/ UNCHANGED <<lpc, cur>>
            \/ /\ lpc[r] = "wait"
               /\ \E fd \in Fds : conns[r][fd] \in Clients /\ StartRemoval(r, fd, conns[r][fd])
<1>1. KernelType /\ LoopType /\ PollType
  BY DEF SocketsType
<1>2. ASSUME NEW c \in Clients
      PROVE  /\ conn[c] \in Connection /\ Gone(c) \in BOOLEAN /\ (c \in input) \in BOOLEAN
             /\ Follows(conn[c], conn[c])
  BY <1>1 DEF Gone, Follows, LoopType
<1>3. ASSUME NEW c \in Clients, NEW k, Follows(conn[c], k), Update(c, k)
      PROVE  \A d \in Clients : Follows(conn[d], conn'[d])
  BY <1>1, <1>2, <1>3 DEF LoopType, Update
<1>. DEFINE fd == Head(tasks[r]).fd
            c == conns[r][fd]
<1>4. ASSUME LoopDrive(r) \/ LoopTimeout(r)
      PROVE  lpc[r] = "wait" /\ fd \in Fds /\ c \in Clients \cup {Nobody}
  <2>1. lpc[r] = "wait" /\ Head(tasks[r]) \in Tasks /\ Head(tasks[r]).op \in {"drive", "timeout"}
    BY <1>1, <1>4, TaskTaken DEF LoopDrive, LoopTimeout, NextTask
  <2>2. fd \in Fds
    BY <2>1 DEF Tasks
  <2>. QED
    BY <1>1, <2>1, <2>2 DEF LoopType
<1>5. CASE LoopDrive(r)
  <2>1. UNCHANGED <<os, peer, backlog, conns, events, homeOf, home, fresh, ppc, mpc, closing>>
    BY <1>5 DEF LoopDrive, runVars
  <2>2. CASE c = Nobody
    <3>1. UNCHANGED <<conn, lpc, cur>>
      BY <1>5, <2>2 DEF LoopDrive
    <3>. QED
      BY <1>2, <2>1, <3>1
  <2>3. CASE c # Nobody
    <3>1. PICK o \in Process(conn[c], Gone(c), c \in input) :
            /\ Update(c, o.conn)
            /\ UNCHANGED <<lpc, cur>> \/ StartRemoval(r, fd, c)
      BY <1>5, <2>3 DEF LoopDrive
    <3>2. Follows(conn[c], o.conn) /\ c \in Clients
      BY <1>2, <1>4, <1>5, <2>3, ProcessFollows
    <3>. QED
      BY <1>3, <1>4, <1>5, <2>1, <3>1, <3>2
  <2>. QED
    BY <2>2, <2>3
<1>6. CASE LoopTimeout(r)
  <2>1. UNCHANGED <<os, peer, backlog, conns, events, homeOf, home, fresh, ppc, mpc, closing>>
    BY <1>6 DEF LoopTimeout, kernelVars, pollVars, runVars
  <2>2. CASE UNCHANGED <<conn, lpc, cur>>
    BY <1>2, <2>1, <2>2
  <2>3. CASE ~UNCHANGED <<conn, lpc, cur>>
    <3>1. c # Nobody
      BY <1>6, <2>3 DEF LoopTimeout
    <3>2. \/ UNCHANGED <<lpc, cur>> /\ \E k \in FlushStream(conn[c], Gone(c), TRUE) : Update(c, k)
          \/ StartRemoval(r, fd, c) /\ UNCHANGED conn
      BY <1>6, <2>3, <3>1 DEF LoopTimeout
    <3>3. c \in Clients
      BY <1>4, <1>6, <3>1
    <3>4. ASSUME NEW k \in FlushStream(conn[c], Gone(c), TRUE), Update(c, k)
          PROVE  \A d \in Clients : Follows(conn[d], conn'[d])
      BY <1>2, <1>3, <3>3, <3>4, FlushFollows
    <3>. QED
      BY <1>2, <1>4, <1>6, <2>1, <3>2, <3>3, <3>4
  <2>. QED
    BY <2>2, <2>3
<1>7. CASE LoopFrame(r)
  <2>1. UNCHANGED <<os, peer, backlog, conns, lpc, cur, events, homeOf, home, fresh, ppc, mpc, closing>>
    BY <1>7 DEF LoopFrame, kernelVars, pollVars, runVars
  <2>2. Head(tasks[r]) \in Tasks /\ Head(tasks[r]).op = "frame"
    BY <1>1, <1>7, TaskTaken DEF LoopFrame, NextTask
  <2>. DEFINE d == Head(tasks[r]).of
  <2>3. d \in Clients
    BY <2>2 DEF Tasks
  <2>4. PICK k \in FlushStream(conn[d], Gone(d), TRUE) : Update(d, k)
    BY <1>7 DEF LoopFrame
  <2>5. Follows(conn[d], k)
    BY <1>2, <2>3, FlushFollows
  <2>. QED
    BY <1>3, <2>1, <2>3, <2>4, <2>5
<1>. QED
  BY <1>5, <1>6, <1>7

\* When only connections die and threads begin removals, owners keep what they have.
LEMMA FadingKeeps ==
  ASSUME SocketsType, PollerInv, OwnersInv,
         UNCHANGED <<os, peer, backlog, conns, events, homeOf, home, fresh, ppc>>,
         \A c \in Clients : Follows(conn[c], conn'[c]),
         \A q \in Reactors, f \in Fds : Erasing(q, f)' = Erasing(q, f)
  PROVE  TablesOwn' /\ UnseenIsNew' /\ EventsDead' /\ LivePolled'
<1>1. KernelType /\ LoopType /\ PollType
  BY DEF SocketsType
<1>2. TablesOwn'
  <2>1. ASSUME NEW r \in Reactors, NEW f \in Fds, conns[r][f] # Nobody
        PROVE  /\ home[conns[r][f]] = r /\ conn'[conns[r][f]].life # "none"
               /\ ~Erasing(r, f)' => os[f] = conns[r][f] /\ f \notin ToSet(events)
    <3>1. conns[r][f] \in Clients
      BY <1>1, <2>1 DEF LoopType
    <3>. QED
      BY <2>1, <3>1 DEF OwnersInv, TablesOwn, Follows
  <2>. QED
    BY <2>1 DEF TablesOwn
<1>3. UnseenIsNew'
  <2>1. ppc = "add" => conn'[os[fresh]].life = "none"
    BY DEF PollerInv, FreshIsNew, OwnersInv, UnseenIsNew, Follows, Live
  <2>. QED
    BY <2>1 DEF OwnersInv, UnseenIsNew, Unseen, Follows, Live
<1>4. EventsDead'
  <2>1. ASSUME NEW f \in ToSet(events) PROVE os[f] # Nobody /\ conn'[os[f]].life = "dead"
    <3>1. f \in Fds
      BY <1>1, ElementOfSeq, LenProperties DEF PollType, ToSet
    <3>2. os[f] \in Clients
      BY <1>1, <2>1, <3>1 DEF KernelType, OwnersInv, EventsDead
    <3>. QED
      BY <2>1, <3>2 DEF OwnersInv, EventsDead, Follows, Live
  <2>. QED
    BY <2>1 DEF OwnersInv, EventsDead
<1>5. LivePolled'
  BY DEF OwnersInv, LivePolled, Follows, Live
<1>. QED
  BY <1>2, <1>3, <1>4, <1>5

\* No two reactors have the same open descriptor.
LEMMA OneHolder ==
  ASSUME OwnersInv, NEW q \in Reactors, NEW r \in Reactors, NEW f \in Fds,
         conns[q][f] # Nobody, conns[r][f] # Nobody, ~Erasing(q, f), ~Erasing(r, f)
  PROVE  q = r
  BY DEF OwnersInv, TablesOwn

LEMMA OwnersLoop ==
  ASSUME SocketsType, PollerInv, OwnersInv, NEW r \in Reactors, Loop(r)
  PROVE  OwnersInv'
<1>1. KernelType /\ LoopType /\ PollType
  BY DEF SocketsType
<1>2. ASSUME NEW c \in Clients PROVE conn[c] \in Connection /\ Follows(conn[c], conn[c])
  BY <1>1 DEF LoopType, Follows
<1>. DEFINE fd == cur[r].fd
            c == cur[r].of
<1>3. ASSUME lpc[r] # "wait" PROVE fd \in Fds /\ c \in Clients /\ conns[r][fd] = c
  BY <1>1, <1>3 DEF LoopType, WorkType, OwnersInv, RemovalsOwn
<1>4. CASE LoopDrive(r) \/ LoopTimeout(r) \/ LoopFrame(r)
  <2>1. /\ UNCHANGED <<os, peer, backlog, conns, events, homeOf, home, fresh, ppc>>
        /\ \A d \in Clients : Follows(conn[d], conn'[d])
    BY <1>4, TaskEffects
  <2>2. \A q \in Reactors : lpc[q] # "wait" => cur[q].of \in Clients
    BY <1>1 DEF LoopType, WorkType
  <2>3. CASE UNCHANGED <<lpc, cur>>
    <3>1. \A q \in Reactors, f \in Fds : Erasing(q, f)' = Erasing(q, f)
      BY <2>3 DEF Erasing
    <3>2. RemovalsOwn'
      BY <2>1, <2>2, <2>3 DEF OwnersInv, RemovalsOwn, Follows, Live
    <3>. QED
      BY <2>1, <3>1, <3>2, FadingKeeps DEF OwnersInv
  <2>4. CASE ~UNCHANGED <<lpc, cur>>
    <3>1. PICK f \in Fds : lpc[r] = "wait" /\ conns[r][f] \in Clients /\ StartRemoval(r, f, conns[r][f])
      BY <1>4, <2>4, TaskEffects
    <3>2. /\ lpc'[r] = "remove" /\ cur'[r] = [fd |-> f, of |-> conns[r][f]]
          /\ \A q \in Reactors \ {r} : lpc'[q] = lpc[q] /\ cur'[q] = cur[q]
      BY <1>1, <3>1 DEF StartRemoval, LoopType, WorkType
    <3>3. \A q \in Reactors, g \in Fds : Erasing(q, g)' = Erasing(q, g)
      BY <3>1, <3>2 DEF Erasing
    <3>4. RemovalsOwn'
      BY <2>1, <2>2, <3>2 DEF OwnersInv, RemovalsOwn, Follows, Live
    <3>. QED
      BY <2>1, <3>3, <3>4, FadingKeeps DEF OwnersInv
  <2>. QED
    BY <2>3, <2>4
<1>5. CASE LoopRemove(r)
  <2>1. lpc[r] = "remove" /\ fd \in Fds /\ c \in Clients /\ conns[r][fd] = c
    BY <1>3, <1>5 DEF LoopRemove
  <2>2. /\ Update(c, Closed(conn[c])) /\ lpc' = [lpc EXCEPT ![r] = "unregister"]
        /\ UNCHANGED <<os, peer, backlog, conns, events, homeOf, home, fresh, ppc, cur>>
    BY <1>5, <2>1 DEF LoopRemove, kernelVars, pollVars
  <2>3. conn[c].life # "none"
    BY <1>1, <2>1, HttpAssumption DEF OwnersInv, TablesOwn
  <2>4. Follows(conn[c], Closed(conn[c])) /\ Closed(conn[c]).life = "dead"
    <3>1. conn[c].life \in {"none", "live", "dead"}
      BY <1>2, <2>1 DEF Connection
    <3>. QED
      BY <1>2, <2>1, <2>3, <3>1, ClosedFollows DEF Follows, Live
  <2>5. \A d \in Clients : Follows(conn[d], conn'[d])
    BY <1>1, <1>2, <2>2, <2>4 DEF Update, LoopType
  <2>6. /\ lpc'[r] = "unregister"
        /\ \A q \in Reactors \ {r} : lpc'[q] = lpc[q]
        /\ conn'[c].life = "dead"
    BY <1>1, <2>1, <2>2, <2>4 DEF Update, LoopType, WorkType
  <2>7. \A q \in Reactors, f \in Fds : Erasing(q, f)' = Erasing(q, f)
    BY <2>1, <2>2, <2>6 DEF Erasing
  <2>8. \A q \in Reactors : lpc[q] # "wait" => cur[q].of \in Clients
    BY <1>1 DEF LoopType, WorkType
  <2>9. RemovalsOwn'
    BY <2>1, <2>2, <2>5, <2>6, <2>8 DEF OwnersInv, RemovalsOwn, Follows, Live
  <2>. QED
    BY <2>2, <2>5, <2>7, <2>9, FadingKeeps DEF OwnersInv
<1>6. CASE LoopUnregister(r)
  <2>1. lpc[r] = "unregister" /\ fd \in Fds /\ c \in Clients /\ conns[r][fd] = c /\ conn[c].life = "dead"
    BY <1>3, <1>6 DEF LoopUnregister, OwnersInv, RemovalsOwn
  <2>2. /\ events' = Append(events, fd) /\ lpc' = [lpc EXCEPT ![r] = "erase"]
        /\ UNCHANGED <<os, peer, backlog, conn, conns, homeOf, home, fresh, ppc, cur>>
    BY <1>6 DEF LoopUnregister, kernelVars
  <2>3. os[fd] = c /\ fd \notin ToSet(events)
    <3>1. conns[r][fd] # Nobody /\ ~Erasing(r, fd)
      BY <2>1, HttpAssumption DEF Erasing
    <3>. QED
      BY <2>1, <3>1 DEF OwnersInv, TablesOwn
  <2>4. ToSet(events') = ToSet(events) \cup {fd}
    BY <1>1, <2>1, <2>2, ToSetAppend DEF PollType
  <2>5. lpc'[r] = "erase" /\ \A q \in Reactors \ {r} : lpc'[q] = lpc[q]
    BY <1>1, <2>2 DEF LoopType, WorkType
  <2>6. TablesOwn'
    <3>1. ASSUME NEW q \in Reactors, NEW f \in Fds, conns[q][f] # Nobody, ~Erasing(q, f)'
          PROVE  os[f] = conns[q][f] /\ f \notin ToSet(events')
      <4>1. ~Erasing(q, f) /\ ~Erasing(r, fd) /\ (f = fd => q # r)
        BY <2>1, <2>2, <2>5, <3>1 DEF Erasing
      <4>2. f # fd
        BY <2>1, <3>1, <4>1, OneHolder, HttpAssumption
      <4>. QED
        BY <2>4, <3>1, <4>1, <4>2 DEF OwnersInv, TablesOwn
    <3>. QED
      BY <2>2, <3>1 DEF OwnersInv, TablesOwn
  <2>7. RemovalsOwn'
    BY <2>1, <2>2, <2>5 DEF OwnersInv, RemovalsOwn
  <2>8. EventsDead'
    <3>1. events \in Seq(Fds) /\ Len(events) \in Nat
      BY <1>1, LenProperties DEF PollType
    <3>2. /\ Len(events') = Len(events) + 1
          /\ \A i \in 1 .. Len(events) : events'[i] = events[i]
          /\ events'[Len(events) + 1] = fd
      BY <2>1, <2>2, <3>1, AppendProperties
    <3>3. \A i \in 1 .. Len(events) : events[i] # fd
      BY <2>3, <3>1, LenProperties DEF ToSet
    <3>4. \A i, j \in 1 .. Len(events') : events'[i] = events'[j] => i = j
      BY <3>1, <3>2, <3>3 DEF OwnersInv, EventsDead
    <3>5. \A f \in ToSet(events') : os[f] # Nobody /\ conn[os[f]].life = "dead"
      BY <2>1, <2>3, <2>4, HttpAssumption DEF OwnersInv, EventsDead
    <3>. QED
      BY <2>2, <3>4, <3>5 DEF EventsDead
  <2>. QED
    BY <2>2, <2>6, <2>7, <2>8 DEF OwnersInv, UnseenIsNew, Unseen, LivePolled
<1>7. CASE LoopErase(r)
  <2>1. lpc[r] = "erase" /\ fd \in Fds /\ c \in Clients /\ conns[r][fd] = c /\ conn[c].life = "dead"
    BY <1>3, <1>7 DEF LoopErase, OwnersInv, RemovalsOwn
  <2>2. /\ conns' = [conns EXCEPT ![r][fd] = Nobody] /\ lpc' = [lpc EXCEPT ![r] = "wait"]
        /\ cur' = [cur EXCEPT ![r] = Idle]
        /\ UNCHANGED <<os, peer, backlog, conn, homeOf, home, events, fresh, ppc>>
    BY <1>7 DEF LoopErase, EndTask, kernelVars, pollVars
  <2>3. /\ conns'[r][fd] = Nobody /\ lpc'[r] = "wait"
        /\ \A f \in Fds \ {fd} : conns'[r][f] = conns[r][f]
        /\ \A q \in Reactors \ {r} : conns'[q] = conns[q] /\ lpc'[q] = lpc[q] /\ cur'[q] = cur[q]
    BY <1>1, <2>1, <2>2 DEF LoopType, WorkType
  <2>4. \A q \in Reactors, f \in Fds : conns'[q][f] # Nobody =>
           conns'[q][f] = conns[q][f] /\ Erasing(q, f)' = Erasing(q, f)
    BY <2>1, <2>3 DEF Erasing
  <2>5. TablesOwn'
    BY <2>2, <2>4 DEF OwnersInv, TablesOwn
  <2>6. RemovalsOwn'
    BY <2>2, <2>3 DEF OwnersInv, RemovalsOwn
  <2>7. LivePolled'
    <3>1. ASSUME NEW d \in Clients, Live(conn[d]), NEW f \in Fds, conns[home[d]][f] = d
          PROVE  conns'[home[d]][f] = d
      <4>1. home[d] \in Reactors
        BY <1>1 DEF PollType
      <4>2. d # c
        BY <2>1, <3>1 DEF Live
      <4>. QED
        BY <2>1, <2>3, <3>1, <4>1, <4>2
    <3>. QED
      BY <2>2, <3>1 DEF OwnersInv, LivePolled
  <2>. QED
    BY <2>2, <2>5, <2>6, <2>7 DEF OwnersInv, UnseenIsNew, Unseen, EventsDead
<1>. QED
  BY <1>4, <1>5, <1>6, <1>7 DEF Loop

\* The poller, and clients: nothing is taken from a reactor.
LEMMA OwnersPoller ==
  ASSUME SocketsType, PollerInv, OwnersInv, Serving, Poller
  PROVE  OwnersInv'
<1>1. KernelType /\ LoopType /\ PollType
  BY DEF SocketsType
<1>2. ASSUME NEW q \in Reactors, NEW f \in Fds, conns[q][f] # Nobody PROVE conns[q][f] \in Clients
  BY <1>1, <1>2 DEF LoopType
<1>3. ASSUME UNCHANGED <<os, peer, conn, conns, lpc, cur, events, home, fresh>>, backlog' \subseteq backlog,
             ppc' # "add",
             \A f \in Fds : homeOf[f] # Nobody /\ Live(conn[homeOf[f]]) => homeOf'[f] = homeOf[f]
      PROVE  OwnersInv'
  <2>1. LivePolled'
    BY <1>3, HttpAssumption DEF OwnersInv, LivePolled
  <2>2. UnseenIsNew'
    BY <1>3 DEF OwnersInv, UnseenIsNew, Unseen
  <2>3. TablesOwn' /\ RemovalsOwn' /\ EventsDead'
    BY <1>3 DEF OwnersInv, TablesOwn, RemovalsOwn, EventsDead, Erasing
  <2>. QED
    BY <2>1, <2>2, <2>3 DEF OwnersInv
<1>4. CASE PollerRound
  <2>1. /\ ppc' = "snapshot" /\ DrainEvents
        /\ UNCHANGED <<peer, backlog, conn, conns, lpc, cur, home, fresh>>
    BY <1>4 DEF PollerRound, loopVars
  <2>2. /\ \A f \in Fds : f \notin ToSet(events) => os'[f] = os[f] /\ homeOf'[f] = homeOf[f]
        /\ \A f \in Fds : f \in ToSet(events) => os'[f] = Nobody
        /\ events' = <<>> /\ ToSet(events') = {}
    <3>1. /\ events' = <<>> /\ homeOf' = Forget(homeOf, ToSet(events)) /\ os' = Forget(os, ToSet(events))
          /\ homeOf \in [Fds -> Clients \cup {Nobody}] /\ os \in [Fds -> Clients \cup {Nobody}]
      BY <1>1, <2>1 DEF DrainEvents, ToClose, KernelType, PollType
    <3>2. ToSet(events') = {}
      BY <3>1 DEF ToSet
    <3> QED BY <3>1, <3>2, ForgetType
  <2>3. TablesOwn'
    BY <2>1, <2>2 DEF OwnersInv, TablesOwn, Erasing
  <2>4. RemovalsOwn'
    BY <2>1 DEF OwnersInv, RemovalsOwn
  <2>5. UnseenIsNew'
    BY <2>1, <2>2, HttpAssumption DEF OwnersInv, UnseenIsNew, Unseen
  <2>6. EventsDead'
    BY <2>2 DEF EventsDead
  <2>7. LivePolled'
    <3>1. ASSUME NEW c \in Clients, Live(conn[c]), NEW f \in Fds, os[f] = c PROVE f \notin ToSet(events)
      BY <3>1 DEF OwnersInv, EventsDead, Live
    <3>. QED
      BY <2>1, <2>2, <3>1 DEF OwnersInv, LivePolled
  <2>. QED
    BY <2>3, <2>4, <2>5, <2>6, <2>7 DEF OwnersInv
<1>5. CASE PollerDone \/ PollerAccepted
  BY <1>3, <1>5 DEF PollerDone, PollerAccepted, kernelVars, loopVars
<1>6. CASE PollerSweep \/ PollerSnapshot
  <2>1. homeOf' = Forget(homeOf, Dead) /\ ppc' # "add"
    BY <1>6 DEF PollerSweep, PollerSnapshot
  <2>2. \A f \in Fds : homeOf[f] # Nobody /\ Live(conn[homeOf[f]]) => homeOf'[f] = homeOf[f]
    BY <1>1, <2>1, ForgetType DEF Dead, HasLiveOwner, PollType
  <2>. QED
    BY <1>3, <1>6, <2>1, <2>2 DEF PollerSweep, PollerSnapshot, kernelVars, loopVars
<1>7. CASE PollerSelect \/ PollerCutShort \/ PollerDeliver
  BY <1>3, <1>7 DEF PollerSelect, PollerCutShort, PollerDeliver, EndRound, kernelVars, loopVars
<1>8. CASE PollerRefuse
  BY <1>3, <1>8 DEF PollerRefuse, loopVars, pollVars
<1>9. CASE PollerAccept
  <2>1. PICK c \in First(backlog) : \E fd \in First(Unused) :
          /\ backlog' = backlog \ {c}
          /\ os' = [os EXCEPT ![fd] = c] /\ fresh' = fd
          /\ home' = [home EXCEPT ![c] = next]
    BY <1>9 DEF PollerAccept
  <2>2. PICK fd \in First(Unused) :
          /\ backlog' = backlog \ {c}
          /\ os' = [os EXCEPT ![fd] = c] /\ fresh' = fd
          /\ home' = [home EXCEPT ![c] = next]
    BY <2>1
  <2>3. c \in backlog /\ c \in Clients /\ fd \in Fds /\ os[fd] = Nobody
    BY <1>1 DEF First, Unused, KernelType
  <2>4. UNCHANGED <<peer, conn, conns, lpc, cur, homeOf, events>> /\ ppc' = "add" /\ fresh = Nobody
    BY <1>1, <1>9 DEF PollerAccept, loopVars, PollType
  <2>5. peer[c] # "away" /\ conn[c].life = "none" /\ fd \notin ToSet(events)
    BY <2>3 DEF OwnersInv, UnseenIsNew, EventsDead, Unseen
  <2>6. /\ os'[fd] = c /\ \A f \in Fds \ {fd} : os'[f] = os[f]
        /\ \A d \in Clients \ {c} : home'[d] = home[d]
    BY <1>1, <2>2, <2>3 DEF KernelType, PollType
  <2>7. TablesOwn'
    <3>1. ASSUME NEW q \in Reactors, NEW f \in Fds, conns[q][f] # Nobody
          PROVE  /\ home'[conns[q][f]] = q
                 /\ ~Erasing(q, f) => os'[f] = conns[q][f] /\ f \notin ToSet(events)
      <4>1. conns[q][f] \in Clients \ {c} /\ (~Erasing(q, f) => f # fd)
        BY <1>2, <2>3, <2>5, <3>1 DEF OwnersInv, TablesOwn
      <4>. QED
        BY <2>6, <3>1, <4>1 DEF OwnersInv, TablesOwn
    <3>. QED
      BY <2>4, <3>1 DEF OwnersInv, TablesOwn, Erasing
  <2>8. RemovalsOwn'
    BY <2>4 DEF OwnersInv, RemovalsOwn
  <2>9. UnseenIsNew'
    <3>1. backlog' = backlog \ {c} /\ ~Unseen(c)'
      BY <2>2, <2>4, <2>5 DEF Unseen
    <3>. QED
      BY <2>2, <2>3, <2>4, <2>5, <2>6, <3>1 DEF OwnersInv, UnseenIsNew, Unseen
  <2>10. EventsDead'
    <3>1. \A f \in ToSet(events) : f \in Fds \ {fd}
      BY <1>1, <2>5, ElementOfSeq, LenProperties DEF PollType, ToSet
    <3>. QED
      BY <2>4, <2>6, <3>1 DEF OwnersInv, EventsDead
  <2>11. LivePolled'
    <3>1. ASSUME NEW d \in Clients, Live(conn[d])
          PROVE  \E f \in Fds : os'[f] = d /\ conns[home'[d]][f] = d /\ homeOf[f] = d
      <4>1. PICK f \in Fds : os[f] = d /\ conns[home[d]][f] = d /\ (homeOf[f] = d \/ fresh = f)
        BY <3>1 DEF OwnersInv, LivePolled
      <4>2. d # c /\ f # fd /\ f # Nobody
        BY <2>3, <2>5, <3>1, <4>1, HttpAssumption DEF Live
      <4>. QED
        BY <2>4, <2>6, <4>1, <4>2
    <3>. QED
      BY <2>4, <3>1 DEF LivePolled
  <2>. QED
    BY <2>7, <2>8, <2>9, <2>10, <2>11 DEF OwnersInv
<1>10. CASE PollerAdd
  <2>. DEFINE c == os[fresh]
              r == home[c]
  <2>1. fresh \in Fds /\ c \in Clients /\ r \in Reactors /\ conn[c].life = "none" /\ ~Unseen(c) /\ ppc = "add"
    BY <1>1, <1>10 DEF PollerAdd, PollerInv, FreshIsNew, OwnersInv, UnseenIsNew, PollType
  <2>2. fresh \notin ToSet(events)
    BY <2>1 DEF OwnersInv, EventsDead
  <2>3. UNCHANGED <<peer, backlog, lpc, cur, homeOf, home, events>> /\ ppc' # "add"
    BY <1>10 DEF PollerAdd
  <2>. HIDE DEF r
  <2>4. CASE conns[r][fresh] # Nobody
    <3>1. os' = [os EXCEPT ![fresh] = Nobody] /\ fresh' = Nobody /\ UNCHANGED <<conn, conns>>
      BY <1>10, <2>4 DEF PollerAdd, r
    <3>2. os'[fresh] = Nobody /\ \A f \in Fds \ {fresh} : os'[f] = os[f]
      BY <1>1, <2>1, <3>1 DEF KernelType
    <3>3. TablesOwn'
      <4>1. ASSUME NEW q \in Reactors, NEW f \in Fds, conns[q][f] # Nobody, ~Erasing(q, f) PROVE f # fresh
        BY <2>1, <4>1 DEF OwnersInv, TablesOwn
      <4>. QED
        BY <2>3, <3>1, <3>2, <4>1 DEF OwnersInv, TablesOwn, Erasing
    <3>4. RemovalsOwn' /\ UnseenIsNew'
      BY <2>3, <3>1, <3>2, HttpAssumption DEF OwnersInv, RemovalsOwn, UnseenIsNew, Unseen
    <3>5. EventsDead'
      <4>1. \A f \in ToSet(events) : f \in Fds \ {fresh}
        BY <1>1, <2>2, ElementOfSeq, LenProperties DEF PollType, ToSet
      <4>. QED
        BY <2>3, <3>1, <3>2, <4>1 DEF OwnersInv, EventsDead
    <3>6. LivePolled'
      <4>1. ASSUME NEW d \in Clients, Live(conn[d])
            PROVE  \E f \in Fds : os'[f] = d /\ conns[home[d]][f] = d /\ homeOf[f] = d
        <5>1. PICK f \in Fds : os[f] = d /\ conns[home[d]][f] = d /\ (homeOf[f] = d \/ fresh = f)
          BY <4>1 DEF OwnersInv, LivePolled
        <5>2. f # fresh
          BY <2>1, <4>1, <5>1 DEF Live
        <5>. QED
          BY <3>2, <5>1, <5>2
      <4>. QED
        BY <2>3, <3>1, <4>1 DEF LivePolled
    <3>. QED
      BY <3>3, <3>4, <3>5, <3>6 DEF OwnersInv
  <2>5. CASE conns[r][fresh] = Nobody
    <3>1. /\ conn' = [conn EXCEPT ![c].life = "live"]
          /\ conns' = [conns EXCEPT ![r][fresh] = c]
          /\ UNCHANGED <<os, fresh>>
      BY <1>10, <2>5 DEF PollerAdd, r
    <3>2. /\ conn'[c].life = "live" /\ \A d \in Clients \ {c} : conn'[d] = conn[d]
          /\ conns'[r][fresh] = c
          /\ \A f \in Fds \ {fresh} : conns'[r][f] = conns[r][f]
          /\ \A q \in Reactors \ {r} : conns'[q] = conns[q]
      BY <1>1, <2>1, <3>1 DEF LoopType, Connection
    <3>3. \A d \in Clients : conn[d].life # "none" => conn'[d] = conn[d]
      BY <2>1, <3>2
    <3>4. r = home[c]
      BY DEF r
    <3>5. TablesOwn'
      <4>1. ASSUME NEW q \in Reactors, NEW f \in Fds, conns'[q][f] # Nobody
            PROVE  /\ home[conns'[q][f]] = q /\ conn'[conns'[q][f]].life # "none"
                   /\ ~Erasing(q, f) => os[f] = conns'[q][f] /\ f \notin ToSet(events)
        <5>1. CASE q = r /\ f = fresh
          BY <2>1, <2>2, <3>2, <3>4, <5>1
        <5>2. CASE ~(q = r /\ f = fresh)
          <6>1. conns'[q][f] = conns[q][f]
            BY <3>2, <5>2
          <6>2. conns[q][f] \in Clients
            BY <1>2, <4>1, <6>1
          <6>. QED
            BY <3>3, <4>1, <6>1, <6>2 DEF OwnersInv, TablesOwn
        <5>. QED
          BY <5>1, <5>2
      <4>. QED
        BY <2>3, <3>1, <4>1 DEF TablesOwn, Erasing
    <3>6. RemovalsOwn'
      <4>1. ASSUME NEW q \in Reactors, lpc[q] # "wait"
            PROVE  /\ conns'[q][cur[q].fd] = cur[q].of
                   /\ lpc[q] # "remove" => conn'[cur[q].of].life = "dead"
        <5>1. /\ cur[q].fd \in Fds /\ cur[q].of \in Clients /\ conns[q][cur[q].fd] = cur[q].of
              /\ lpc[q] # "remove" => conn[cur[q].of].life = "dead"
          BY <1>1, <4>1 DEF LoopType, WorkType, OwnersInv, RemovalsOwn
        <5>2. ~(q = r /\ cur[q].fd = fresh)
          BY <2>5, <5>1, HttpAssumption
        <5>. QED
          BY <3>2, <3>3, <5>1, <5>2
      <4>. QED
        BY <2>3, <4>1 DEF RemovalsOwn
    <3>7. UnseenIsNew'
      BY <2>1, <2>3, <3>1, <3>2 DEF OwnersInv, UnseenIsNew, Unseen
    <3>8. EventsDead'
      <4>1. ASSUME NEW f \in ToSet(events) PROVE os[f] \in Clients
        <5>1. f \in Fds
          BY <1>1, ElementOfSeq, LenProperties DEF PollType, ToSet
        <5>. QED
          BY <1>1, <5>1 DEF KernelType, OwnersInv, EventsDead
      <4>. QED
        BY <2>3, <3>1, <3>3, <4>1 DEF OwnersInv, EventsDead
    <3>9. LivePolled'
      <4>1. ASSUME NEW d \in Clients, Live(conn'[d])
            PROVE  \E f \in Fds : os[f] = d /\ conns'[home[d]][f] = d /\ (homeOf[f] = d \/ fresh = f)
        <5>1. CASE d = c
          BY <2>1, <3>2, <3>4, <5>1
        <5>2. CASE d # c
          <6>1. PICK f \in Fds : os[f] = d /\ conns[home[d]][f] = d /\ (homeOf[f] = d \/ fresh = f)
            BY <3>2, <4>1, <5>2 DEF OwnersInv, LivePolled
          <6>2. f # fresh /\ home[d] \in Reactors
            BY <1>1, <5>2, <6>1 DEF PollType
          <6>3. conns'[home[d]][f] = d
            BY <3>2, <6>1, <6>2
          <6>. QED
            BY <6>1, <6>3
        <5>. QED
          BY <5>1, <5>2
      <4>. QED
        BY <2>3, <3>1, <4>1 DEF LivePolled
    <3>. QED
      BY <3>5, <3>6, <3>7, <3>8, <3>9 DEF OwnersInv
  <2>. QED
    BY <2>4, <2>5
<1>11. CASE PollerRegister
  <2>1. /\ UNCHANGED <<os, peer, backlog, conn, conns, lpc, cur, home, events>>
        /\ homeOf' = [homeOf EXCEPT ![fresh] = os[fresh]] /\ fresh \in Fds /\ ppc' = "accept"
    BY <1>11 DEF PollerRegister, PollerInv, FreshIsNew, kernelVars, loopVars
  <2>2. homeOf'[fresh] = os[fresh] /\ \A f \in Fds \ {fresh} : homeOf'[f] = homeOf[f]
    BY <1>1, <2>1 DEF PollType
  <2>3. LivePolled'
    BY <2>1, <2>2 DEF OwnersInv, LivePolled
  <2>4. UnseenIsNew'
    BY <2>1 DEF OwnersInv, UnseenIsNew, Unseen
  <2>. QED
    BY <2>1, <2>3, <2>4 DEF OwnersInv, TablesOwn, RemovalsOwn, EventsDead, Erasing
<1>. QED
  BY <1>4, <1>5, <1>6, <1>7, <1>8, <1>9, <1>10, <1>11 DEF Poller

LEMMA OwnersOthers ==
  ASSUME SocketsType, OwnersInv,
         \/ \E c \in Clients : Connect(c) \/ Send(c) \/ Leave(c) \/ PostFrame(c)
         \/ Stop \/ UNCHANGED vars
  PROVE  OwnersInv'
<1>1. peer \in [Clients -> {"away", "open", "gone"}] /\ backlog \subseteq Clients
  BY DEF SocketsType, KernelType
<1>2. UNCHANGED <<os, conn, conns, lpc, cur, homeOf, home, events, fresh, ppc>>
  BY DEF Connect, Send, Leave, PostFrame, Stop, vars, kernelVars, loopVars, pollVars
<1>. DEFINE Still == (\A d \in backlog' : peer'[d] # "away") /\ \A d \in Clients : Unseen(d)' => Unseen(d)
<1>3. Still => UnseenIsNew'
  BY <1>2 DEF OwnersInv, UnseenIsNew
<1>. HIDE DEF Still
<1>4. UnseenIsNew'
  <2>1. ASSUME NEW c \in Clients, Connect(c) PROVE UnseenIsNew'
    <3>1. /\ peer[c] = "away" /\ peer'[c] = "open" /\ backlog' = backlog \cup {c}
          /\ \A d \in Clients \ {c} : peer'[d] = peer[d]
      BY <1>1, <2>1 DEF Connect
    <3>2. Still
      BY <1>1, <3>1 DEF Still, OwnersInv, UnseenIsNew, Unseen
    <3>. QED
      BY <1>3, <3>2
  <2>2. ASSUME NEW c \in Clients, Leave(c) PROVE UnseenIsNew'
    <3>1. /\ peer[c] = "open" /\ peer'[c] = "gone" /\ backlog' = backlog
          /\ \A d \in Clients \ {c} : peer'[d] = peer[d]
      BY <1>1, <2>2 DEF Leave
    <3>2. Still
      BY <1>1, <3>1 DEF Still, OwnersInv, UnseenIsNew, Unseen
    <3>. QED
      BY <1>3, <3>2
  <2>3. CASE (\E c \in Clients : Send(c) \/ PostFrame(c)) \/ Stop \/ UNCHANGED vars
    <3>1. UNCHANGED <<peer, backlog>>
      BY <2>3 DEF Send, PostFrame, Stop, vars, kernelVars
    <3>. QED
      BY <1>2, <3>1 DEF OwnersInv, UnseenIsNew, Unseen
  <2>. QED
    BY <2>1, <2>2, <2>3
<1>. QED
  BY <1>2, <1>4 DEF OwnersInv, TablesOwn, RemovalsOwn, EventsDead, LivePolled, Erasing

LEMMA StepOwners ==
  ASSUME SocketsType, PollerInv, Serving => OwnersInv, [Next]_vars
  PROVE  Serving' => OwnersInv'
<1>1. CASE Run
  BY <1>1 DEF Run, JoinPoller, CloseAll, ClearTable, StopReactor, DestroyReactors, FinalDrain, ClearHub, Goto, Serving
<1>2. CASE ~Run
  <2>1. UNCHANGED mpc
    <3>1. CASE \E r \in Reactors : Loop(r)
      BY <3>1 DEF Loop, LoopDrive, LoopTimeout, LoopFrame, LoopRemove, LoopUnregister, LoopErase, pollVars, runVars
    <3>2. CASE Poller
      BY <3>2 DEF Poller, PollerRound, PollerDone, PollerSweep, PollerSnapshot, PollerSelect, PollerCutShort,
                  PollerAccepted, PollerAdd, PollerRegister, PollerDeliver, PollerRefuse, PollerAccept, runVars
    <3>3. CASE (\E c \in Clients : Connect(c) \/ Send(c) \/ Leave(c) \/ PostFrame(c)) \/ Stop \/ UNCHANGED vars
      BY <3>3 DEF Connect, Send, Leave, PostFrame, Stop, vars, runVars
    <3>. QED
      BY <1>2, <3>1, <3>2, <3>3 DEF Next
  <2>2. ASSUME Serving PROVE OwnersInv'
    BY <1>2, <2>2, OwnersLoop, OwnersPoller, OwnersOthers DEF Next
  <2>. QED
    BY <2>1, <2>2 DEF Serving
<1>. QED
  BY <1>1, <1>2
-----------------------------------------------------------------------------
(* Every open socket is on its way to close().                             *)

LEMMA CoverKept ==
  ASSUME SocketsCovered,
         \A f \in Fds : os'[f] # Nobody => os[f] # Nobody /\ (f = fresh /\ ppc = "add" => f = fresh' /\ ppc' = "add"),
         ToSet(events) \subseteq ToSet(events'),
         \A q \in Reactors, f \in Fds : Held(q, f) => Held(q, f)' \/ f \in ToSet(events')
  PROVE  SocketsCovered'
  BY DEF SocketsCovered

LEMMA CoverLoop ==
  ASSUME SocketsType, SocketsCovered, NEW r \in Reactors, Loop(r)
  PROVE  SocketsCovered'
<1>1. LoopType /\ PollType
  BY DEF SocketsType
<1>2. UNCHANGED <<os, fresh, ppc, mpc, closing>>
  BY DEF Loop, LoopDrive, LoopTimeout, LoopFrame, LoopRemove, LoopUnregister, LoopErase, kernelVars, pollVars, runVars
<1>3. ASSUME UNCHANGED <<conns, events>>, lpc'[r] # "erase", \A q \in Reactors \ {r} : lpc'[q] = lpc[q] /\ cur'[q] = cur[q]
      PROVE  SocketsCovered'
  BY <1>2, <1>3, CoverKept DEF Held, ToVisit, Erasing
<1>4. CASE LoopDrive(r) \/ LoopTimeout(r) \/ LoopFrame(r)
  <2>1. UNCHANGED <<conns, events>> /\ (UNCHANGED <<lpc, cur>> \/ \E f \in Fds : StartRemoval(r, f, conns[r][f]))
    BY <1>4, TaskEffects
  <2>2. lpc[r] = "wait"
    BY <1>4 DEF LoopDrive, LoopTimeout, LoopFrame, NextTask
  <2>. QED
    BY <1>1, <1>3, <2>1, <2>2 DEF StartRemoval, LoopType, WorkType
<1>5. CASE LoopRemove(r)
  <2>1. UNCHANGED <<conns, events>> /\ (EndTask(r) \/ (lpc' = [lpc EXCEPT ![r] = "unregister"] /\ UNCHANGED cur))
    BY <1>5 DEF LoopRemove, pollVars
  <2>. QED
    BY <1>1, <1>3, <2>1 DEF EndTask, LoopType, WorkType
<1>6. CASE LoopUnregister(r)
  <2>1. /\ lpc[r] = "unregister" /\ lpc' = [lpc EXCEPT ![r] = "erase"]
        /\ UNCHANGED <<conns, cur>> /\ events' = Append(events, cur[r].fd)
    BY <1>6 DEF LoopUnregister
  <2>2. cur[r].fd \in Fds
    BY <1>1, <2>1 DEF LoopType, WorkType
  <2>3. ToSet(events') = ToSet(events) \cup {cur[r].fd}
    BY <1>1, <2>1, <2>2, ToSetAppend DEF PollType
  <2>4. \A q \in Reactors \ {r} : lpc'[q] = lpc[q]
    BY <1>1, <2>1 DEF LoopType, WorkType
  <2>5. \A q \in Reactors, f \in Fds : Held(q, f) => Held(q, f)' \/ f \in ToSet(events')
    BY <1>2, <2>1, <2>3, <2>4 DEF Held, ToVisit, Erasing
  <2>. QED
    BY <1>2, <2>3, <2>5, CoverKept
<1>7. CASE LoopErase(r)
  <2>1. /\ lpc[r] = "erase" /\ UNCHANGED events
        /\ conns' = [conns EXCEPT ![r][cur[r].fd] = Nobody] /\ EndTask(r)
    BY <1>7 DEF LoopErase, pollVars
  <2>2. cur[r].fd \in Fds
    BY <1>1, <2>1 DEF LoopType, WorkType
  <2>3. /\ \A f \in Fds \ {cur[r].fd} : conns'[r][f] = conns[r][f]
        /\ lpc'[r] = "wait"
        /\ \A q \in Reactors \ {r} : conns'[q] = conns[q] /\ lpc'[q] = lpc[q] /\ cur'[q] = cur[q]
    BY <1>1, <2>1, <2>2 DEF EndTask, LoopType, WorkType
  <2>4. \A q \in Reactors, f \in Fds : Held(q, f) => Held(q, f)'
    BY <1>2, <2>1, <2>3 DEF Held, ToVisit, Erasing
  <2>. QED
    BY <1>2, <2>1, <2>4, CoverKept
<1>. QED
  BY <1>4, <1>5, <1>6, <1>7 DEF Loop

LEMMA CoverPoller ==
  ASSUME SocketsType, PollerInv, ClosingInv, Serving => OwnersInv, SocketsCovered, Poller
  PROVE  SocketsCovered'
<1>1. KernelType /\ LoopType /\ PollType
  BY DEF SocketsType
<1>2. UNCHANGED <<lpc, cur, mpc, closing>>
  BY DEF Poller, PollerRound, PollerDone, PollerSweep, PollerSnapshot, PollerSelect, PollerCutShort, PollerAccepted,
         PollerAdd, PollerRegister, PollerDeliver, PollerRefuse, PollerAccept, loopVars, runVars
<1>3. mpc = "join" /\ closing = 0 /\ ppc # "done"
  <2>1. ppc # "done"
    BY DEF Poller, PollerRound, PollerDone, PollerSweep, PollerSnapshot, PollerSelect, PollerCutShort, PollerAccepted,
           PollerAdd, PollerRegister, PollerDeliver, PollerRefuse, PollerAccept
  <2>. QED
    BY <2>1 DEF PollerInv, ClosingInv
<1>4. CASE PollerRound
  <2>1. ppc = "loop" /\ UNCHANGED conns /\ DrainEvents
    BY <1>4 DEF PollerRound, loopVars
  <2>2. \A f \in Fds : os'[f] # Nobody => os[f] # Nobody /\ f \notin ToSet(events)
    BY <1>1, <2>1, ForgetType DEF DrainEvents, ToClose, KernelType
  <2>. QED
    BY <1>2, <2>1, <2>2 DEF SocketsCovered, Held, ToVisit, Erasing
<1>5. CASE PollerDone \/ PollerSweep \/ PollerSnapshot \/ PollerSelect \/ PollerCutShort \/ PollerAccepted
           \/ PollerRefuse \/ PollerDeliver
  <2>1. UNCHANGED <<os, conns, events, fresh>> /\ ppc # "add"
    BY <1>5 DEF PollerDone, PollerSweep, PollerSnapshot, PollerSelect, PollerCutShort, PollerAccepted, PollerRefuse,
                PollerDeliver, kernelVars, loopVars, pollVars
  <2>. QED
    BY <1>2, <2>1 DEF SocketsCovered, Held, ToVisit, Erasing
<1>6. CASE PollerRegister
  <2>1. UNCHANGED <<os, conns, events>> /\ ppc = "register"
    BY <1>6 DEF PollerRegister, kernelVars, loopVars
  <2>. QED
    BY <1>2, <2>1 DEF SocketsCovered, Held, ToVisit, Erasing
<1>7. CASE PollerAccept
  <2>1. ppc = "accept" /\ ppc' = "add" /\ UNCHANGED <<conns, events>> /\ fresh' \in Fds
        /\ \A f \in Fds \ {fresh'} : os'[f] = os[f]
    BY <1>1, <1>7 DEF PollerAccept, First, Unused, KernelType, loopVars
  <2>. QED
    BY <1>2, <2>1 DEF SocketsCovered, Held, ToVisit, Erasing
<1>8. CASE PollerAdd
  <2>1. /\ fresh \in Fds /\ os[fresh] \in Clients /\ home[os[fresh]] \in Reactors
        /\ ppc = "add" /\ UNCHANGED events
    BY <1>1, <1>8 DEF PollerAdd, PollerInv, FreshIsNew, PollType
  <2>2. PICK f \in Fds, c \in Clients, r \in Reactors : f = fresh /\ c = os[fresh] /\ r = home[c]
    BY <2>1
  <2>3. CASE conns[r][f] # Nobody
    <3>1. os' = [os EXCEPT ![f] = Nobody] /\ UNCHANGED conns
      BY <1>8, <2>2, <2>3 DEF PollerAdd
    <3>2. os'[f] = Nobody /\ \A g \in Fds \ {f} : os'[g] = os[g]
      BY <1>1, <3>1 DEF KernelType
    <3>. QED
      BY <1>2, <2>1, <2>2, <3>1, <3>2 DEF SocketsCovered, Held, ToVisit, Erasing
  <2>4. CASE conns[r][f] = Nobody
    <3>1. conns' = [conns EXCEPT ![r][f] = c] /\ UNCHANGED os
      BY <1>8, <2>2, <2>4 DEF PollerAdd
    <3>2. /\ conns'[r][f] = c /\ \A g \in Fds \ {f} : conns'[r][g] = conns[r][g]
          /\ \A q \in Reactors \ {r} : conns'[q] = conns[q]
      BY <1>1, <3>1 DEF LoopType
    <3>3. ~Erasing(r, f)
      <4>1. lpc[r] = "erase" => conns[r][cur[r].fd] = cur[r].of /\ cur[r].of \in Clients
        BY <1>1, <1>3 DEF Serving, OwnersInv, RemovalsOwn, LoopType, WorkType
      <4>. QED
        BY <2>4, <4>1, HttpAssumption DEF Erasing
    <3>4. ToVisit(r) /\ c # Nobody
      BY <1>3, HttpAssumption DEF ToVisit, Reactors
    <3>5. Held(r, f)'
      BY <1>2, <3>2, <3>3, <3>4 DEF Held, ToVisit, Erasing
    <3>6. \A q \in Reactors, g \in Fds : g # f /\ Held(q, g) => Held(q, g)'
      BY <1>2, <3>2 DEF Held, ToVisit, Erasing
    <3>. QED
      BY <2>1, <2>2, <3>1, <3>5, <3>6 DEF SocketsCovered
  <2>. QED
    BY <2>3, <2>4
<1>. QED
  BY <1>4, <1>5, <1>6, <1>7, <1>8 DEF Poller

LEMMA CoverOthers ==
  ASSUME SocketsType, PollerInv, ClosingInv, SocketsCovered,
         \/ \E c \in Clients : Connect(c) \/ Send(c) \/ Leave(c) \/ PostFrame(c)
         \/ Stop \/ Run \/ UNCHANGED vars
  PROVE  SocketsCovered' /\ ClosingInv'
<1>1. KernelType /\ LoopType /\ PollType /\ RunType
  BY DEF SocketsType
<1>2. CASE (\E c \in Clients : Connect(c) \/ Send(c) \/ Leave(c) \/ PostFrame(c)) \/ Stop \/ UNCHANGED vars
  <2>1. UNCHANGED <<os, conns, lpc, cur, events, fresh, ppc, mpc, closing>>
    BY <1>2 DEF Connect, Send, Leave, PostFrame, Stop, vars, kernelVars, loopVars, pollVars, runVars
  <2>. QED
    BY <2>1 DEF SocketsCovered, ClosingInv, Held, ToVisit, Erasing
<1>3. CASE JoinPoller \/ DestroyReactors \/ ClearHub
  <2>1. UNCHANGED <<os, conns, lpc, cur, events, fresh, ppc, closing>>
    BY <1>3 DEF JoinPoller, DestroyReactors, ClearHub, Goto, kernelVars, loopVars, pollVars
  <2>2. \/ mpc = "join" /\ mpc' = "close_all"
        \/ mpc = "destroy" /\ mpc' = "drain"
        \/ mpc = "returned" /\ mpc' = "over"
    BY <1>3 DEF JoinPoller, DestroyReactors, ClearHub, Goto
  <2>. QED
    BY <2>1, <2>2 DEF SocketsCovered, ClosingInv, Held, ToVisit, Erasing
<1>4. CASE CloseAll
  <2>1. /\ mpc = "close_all" /\ mpc' = "clear" /\ UNCHANGED <<os, conns, lpc, cur, fresh, ppc, closing>>
        /\ events' = events \o SetToSeq(InTable(closing))
    BY <1>4 DEF CloseAll, Goto, kernelVars
  <2>2. InTable(closing) \in SUBSET Fds
    BY DEF InTable
  <2>3. SetToSeq(InTable(closing)) \in Seq(Fds) /\ ToSet(SetToSeq(InTable(closing))) = InTable(closing)
    BY <2>2, FS_Subset, HttpAssumption, SetToSeqElements, SeqMonotonic
  <2>4. ToSet(events') = ToSet(events) \cup InTable(closing)
    BY <1>1, <2>1, <2>3, ToSetConcat DEF PollType
  <2>5. \A q \in Reactors, f \in Fds : Held(q, f) => Held(q, f)' \/ f \in ToSet(events')
    BY <2>1, <2>4 DEF Held, ToVisit, Erasing, InTable
  <2>. QED
    BY <2>1, <2>4, <2>5, CoverKept DEF ClosingInv
<1>5. CASE ClearTable
  <2>1. /\ mpc = "clear" /\ mpc' = "stop" /\ UNCHANGED <<os, lpc, cur, events, fresh, ppc, closing>>
        /\ conns' = [conns EXCEPT ![closing] = None]
    BY <1>5 DEF ClearTable, Goto, kernelVars, pollVars
  <2>2. \A q \in Reactors \ {closing} : conns'[q] = conns[q]
    BY <1>1, <2>1 DEF LoopType
  <2>3. \A q \in Reactors, f \in Fds : Held(q, f) => Held(q, f)'
    BY <1>1, <2>1, <2>2 DEF Held, ToVisit, Erasing, RunType, Reactors
  <2>. QED
    BY <2>1, <2>3, CoverKept DEF ClosingInv
<1>6. CASE StopReactor
  <2>1. /\ mpc = "stop" /\ UNCHANGED <<os, conns, lpc, cur, events, fresh, ppc>>
        /\ \/ mpc' = "close_all" /\ closing' = closing + 1
           \/ mpc' = "destroy" /\ closing' = closing /\ ~(closing + 1 < Workers)
    BY <1>6 DEF StopReactor, kernelVars, loopVars, pollVars
  <2>2. \A q \in Reactors : ToVisit(q) => ToVisit(q)'
    BY <1>1, <2>1, HttpAssumption DEF ToVisit, RunType, Reactors
  <2>3. \A q \in Reactors, f \in Fds : Held(q, f) => Held(q, f)'
    BY <2>1, <2>2 DEF Held, Erasing
  <2>4. ClosingInv'
    BY <1>1, <2>1, HttpAssumption DEF ClosingInv, RunType, Reactors
  <2>. QED
    BY <2>1, <2>3, <2>4, CoverKept
<1>7. CASE FinalDrain
  <2>1. mpc = "drain" /\ mpc' = "returned" /\ UNCHANGED <<conns, lpc, cur, fresh, ppc, closing>> /\ DrainEvents
    BY <1>7 DEF FinalDrain, Goto, loopVars
  <2>2. ppc = "done" /\ \A q \in Reactors : ~ToVisit(q)
    BY <1>1, <2>1, HttpAssumption DEF PollerInv, ClosingInv, ToVisit, Reactors
  <2>3. \A f \in Fds : os[f] # Nobody => f \in ToSet(events)
    BY <2>2 DEF SocketsCovered, Held
  <2>4. os' = [f \in Fds |-> IF f \in ToSet(events) THEN Nobody ELSE os[f]]
    BY <2>1 DEF DrainEvents, Forget, ToClose
  <2>5. os' = None
    BY <2>3, <2>4 DEF None
  <2>. QED
    BY <2>1, <2>5 DEF SocketsCovered, ClosingInv, None
<1>. QED
  BY <1>2, <1>3, <1>4, <1>5, <1>6, <1>7 DEF Run

LEMMA StepCovered ==
  ASSUME SocketInv, [Next]_vars
  PROVE  SocketsCovered' /\ ClosingInv'
<1>1. CASE (\E r \in Reactors : Loop(r)) \/ Poller
  <2>1. SocketsCovered'
    BY <1>1, CoverLoop, CoverPoller DEF SocketInv
  <2>2. ClosingInv'
    <3>1. CASE \E r \in Reactors : Loop(r)
      <4>1. UNCHANGED <<os, mpc, closing>>
        BY <3>1 DEF Loop, LoopDrive, LoopTimeout, LoopFrame, LoopRemove, LoopUnregister, LoopErase,
                    kernelVars, pollVars, runVars
      <4>. QED
        BY <4>1 DEF SocketInv, ClosingInv
    <3>2. CASE Poller
      <4>1. UNCHANGED <<mpc, closing>> /\ ppc # "done"
        BY <3>2 DEF Poller, PollerRound, PollerDone, PollerSweep, PollerSnapshot, PollerSelect, PollerCutShort,
                    PollerAccepted, PollerAdd, PollerRegister, PollerDeliver, PollerRefuse, PollerAccept, runVars
      <4>. QED
        BY <4>1 DEF SocketInv, PollerInv, ClosingInv
    <3>. QED
      BY <1>1, <3>1, <3>2
  <2>. QED
    BY <2>1, <2>2
<1>2. CASE ~((\E r \in Reactors : Loop(r)) \/ Poller)
  BY <1>2, CoverOthers DEF SocketInv, Next
<1>. QED
  BY <1>1, <1>2

LEMMA InitSockets == Init => SocketInv
<1>. SUFFICES ASSUME Init PROVE SocketInv
  OBVIOUS
<1>1. PollerInv /\ SocketsType
  BY InitPoller, InitTypes
<1>2. ToSet(<<>>) = {} /\ Len(<<>>) = 0
  BY EmptySeq DEF ToSet
<1>3. TablesOwn /\ RemovalsOwn
  BY DEF Init, TablesOwn, RemovalsOwn, None
<1>4. UnseenIsNew /\ LivePolled
  BY HttpAssumption DEF Init, UnseenIsNew, Unseen, LivePolled, None, NoConnection, Live
<1>5. EventsDead
  BY <1>2 DEF Init, EventsDead
<1>. QED
  BY <1>1, <1>3, <1>4, <1>5 DEF Init, SocketInv, OwnersInv, ClosingInv, SocketsCovered, None

LEMMA StepSockets == SocketInv /\ [Next]_vars => SocketInv'
<1>. SUFFICES ASSUME SocketInv, [Next]_vars PROVE SocketInv'
  OBVIOUS
<1>1. PollerInv' /\ SocketsType'
  BY StepPoller, StepTypes DEF SocketInv
<1>2. Serving' => OwnersInv'
  BY StepOwners DEF SocketInv
<1>. QED
  BY <1>1, <1>2, StepCovered DEF SocketInv

LEMMA SocketsGive == SocketInv => UnregisterHitsDead /\ AdmittedIsPolled /\ ShutdownClosesAll
<1>. SUFFICES ASSUME SocketInv PROVE UnregisterHitsDead /\ AdmittedIsPolled /\ ShutdownClosesAll
  OBVIOUS
<1>1. ASSUME Serving PROVE Cardinality(ToSet(events)) = Len(events)
  <2>. DEFINE n == Len(events)
  <2>1. events \in [1 .. n -> Fds] /\ n \in Nat
    BY LenProperties, ElementOfSeq DEF SocketInv, SocketsType, PollType
  <2>2. events \in Bijection(1 .. n, ToSet(events))
    <3>1. \A i, j \in 1 .. n : events[i] = events[j] => i = j
      BY <1>1 DEF SocketInv, OwnersInv, EventsDead
    <3>2. DOMAIN events = 1 .. n /\ events \in [1 .. n -> ToSet(events)]
      BY <2>1 DEF ToSet
    <3>3. events \in Injection(1 .. n, ToSet(events))
      BY <3>1, <3>2 DEF Injection, IsInjective
    <3>4. events \in Surjection(1 .. n, ToSet(events))
      BY <3>2 DEF Surjection, ToSet
    <3>. QED
      BY <3>3, <3>4 DEF Bijection
  <2>3. ASSUME NEW m \in Nat PROVE IsFiniteSet(1 .. m) /\ Cardinality(1 .. m) = m
    BY FS_Interval
  <2>. QED
    BY <2>1, <2>2, <2>3, FS_Bijection DEF ExistsBijection
<1>2. UnregisterHitsDead
  BY <1>1 DEF SocketInv, PollerInv, Serving, OwnersInv, EventsDead, UnregisterHitsDead
<1>3. AdmittedIsPolled
  BY DEF SocketInv, Serving, OwnersInv, LivePolled, AdmittedIsPolled
<1>4. ShutdownClosesAll
  BY DEF SocketInv, ClosingInv, ShutdownClosesAll, None
<1>. QED
  BY <1>2, <1>3, <1>4

\* While the poller runs, what it is told to close is the socket of a dead
\* connection, once: Reactor::remove_connection queues the descriptor before it
\* can be handed out again (HttpServer::drain_poll_events).
THEOREM UnregisterIsSafe == Spec => []UnregisterHitsDead
  BY InitSockets, StepSockets, SocketsGive, PTL DEF Spec

\* Until shutdown every live connection is polled under its own descriptor
\* (HttpServer::poll_once and Reactor::add_connection).
THEOREM AdmittedStaysPolled == Spec => []AdmittedIsPolled
  BY InitSockets, StepSockets, SocketsGive, PTL DEF Spec

\* run() returns with every socket closed (HttpServer::run).
THEOREM NoSocketSurvives == Spec => []ShutdownClosesAll
  BY InitSockets, StepSockets, SocketsGive, PTL DEF Spec
=============================================================================
