---------------------------- MODULE SandboxProofs ----------------------------
(* Proofs about module Sandbox, for any bounds and kinds of calls, whether  *)
(* runs fail and workers die or not, and whether control calls overlap the  *)
(* first start() or not: a Completed wait() leaves the result of its own    *)
(* run in output(), and a checkpoint is one of the current run. Of a later  *)
(* run that is shown as long as no control call has overlapped a start().   *)
EXTENDS Sandbox, TLAPS

RunnerAt == {"construct", "constructing", "asking", "threw", "idle", "begin", "started", "wait"}
CallerAt == {"idle", "pause.send", "pause.mark", "pause.await", "pause.flip", "resume.store",
             "cancel.restore", "cancel.send", "save.await"}
EndingAt == {"cancel.restore", "cancel.send", "shut", "join", "gone"}
ReaderAt == {"none", "top", "poll", "woken", "ack", "blob", "exchange", "restore", "abort", "gone"}
RunningAt == {"reset", "start", "running", "signal", "join"}
ServeAt == {"serve", "signal.failed", "join.failed"} \cup RunningAt
ControlAt == {"none", "poll", "pausing", "acking", "gone"}
Places ==
  {"construct", "constructing", "asking", "threw", "idle", "begin", "started", "wait", "destroy",
   "pause.send", "pause.mark", "pause.await", "pause.flip", "resume.store", "cancel.restore",
   "cancel.send", "save.await", "shut", "join", "gone", "none", "top", "poll", "woken", "ack", "blob",
   "exchange", "restore", "abort", "serve", "reset", "start", "running", "signal", "signal.failed",
   "join.failed", "pausing", "acking"}

DownFrames == [kind : {"ask", "run", "pause", "resume", "cancel", "serialize"}, run : Nat]
UpFrames == [kind : {"reply", "progress", "pause_ack", "checkpoint", "result", "error"}, run : Nat]

SandboxTypeOK ==
  /\ run \in Nat /\ cancels \in Nat /\ job \in Nat /\ output \in Nat /\ blob \in Nat /\ saved \in Nat
  /\ busy \in BOOLEAN /\ alive \in BOOLEAN /\ shut \in BOOLEAN
  /\ down \in Seq(DownFrames) /\ up \in Seq(UpFrames)
  /\ at \in [Threads -> Places]

-----------------------------------------------------------------------------
(* The invariant. Nothing is said once the destructor has begun, but that   *)
(* no call is left to be answered.                                          *)
Destructing == at["runner"] \in {"destroy", "gone"}
DestructInv ==
  /\ at["caller"] \in EndingAt /\ (at["runner"] = "gone" => at["caller"] = "gone")
  /\ CheckpointIsOfThisRun

\* MsgRun is on its way; the worker still owes this run its verdict.
RunQueued == \E i \in 1 .. Len(down) : down[i].kind = "run"
Working == alive /\ (RunQueued \/ at["serve"] \in RunningAt)

\* Nothing of a run is left in the socket or in the worker.
OnlyReplies == \A i \in 1 .. Len(up) : up[i].kind = "reply"
Quiet == OnlyReplies /\ (alive => at["serve"] = "serve" /\ ~RunQueued)

\* The reader has the verdict; the state then stays Cancelled if it is that.
Over == at["reader"] \in {"exchange", "restore", "abort", "gone"}
Doomed ==
  \/ cancels >= 2
  \/ /\ cancels = 1 /\ at["caller"] \in {"idle", "cancel.send"}
     /\ state = "Cancelled" \/ (at["reader"] = "restore" /\ state \in {"Completed", "Failed"})

\* Until the first run has begun a control call finds the state Idle: it is a
\* cancel() that will put Idle back, or nothing.
FirstInv ==
  run = 0 \/ (run = 1 /\ at["runner"] = "begin") =>
    /\ at["reader"] = "none"
    /\ \/ at["caller"] = "idle" /\ state = "Idle"
       \/ /\ at["caller"] = "cancel.restore" /\ prev = "Idle" /\ state = "Cancelled"
          /\ at["runner"] = "begin" => "crossed" \in slips

\* Where the threads may be at the same time.
PlacesInv ==
  /\ at["runner"] \in RunnerAt /\ at["caller"] \in CallerAt /\ at["reader"] \in ReaderAt
  /\ at["serve"] \in ServeAt /\ at["control"] \in ControlAt
  /\ at["serve"] = "serve" => at["control"] \in {"none", "gone"}
  /\ at["runner"] \in {"construct", "constructing", "asking", "threw"} => run = 0
  /\ at["runner"] \notin {"started", "wait"} => at["reader"] \in {"none", "gone"}
  /\ at["runner"] \in {"started", "wait"} => at["reader"] # "none"
  /\ at["runner"] \in {"begin", "started", "wait"} => run # 0
  /\ at["runner"] = "begin" => run = 1 \/ (at["caller"] = "idle" /\ state \in {"Idle", "Completed"})
  /\ FirstInv
  /\ saving = "pending" => at["caller"] = "save.await"
  /\ at["reader"] = "blob" => saving = "pending"
  /\ ~shut

\* Before the first run nothing has happened but preflight requests.
FreshInv == run = 0 => Quiet /\ waited = "Idle" /\ at["reader"] = "none"

\* What the reader is about to store.
FinalInv == at["reader"] = "exchange" => final[1] \in {"Completed", "Failed"}

\* The mirror: a state that lets start() pass is that of no run, or of one
\* whose result was read. cancel() may be about to put such a state back.
StateInv ==
  /\ state = "Idle" \/ (at["caller"] = "cancel.restore" /\ prev = "Idle") =>
       run = 0 \/ at["runner"] = "begin" \/ "crossed" \in slips
  /\ state = "Completed" \/ (at["caller"] = "cancel.restore" /\ prev = "Completed") =>
       at["reader"] \in {"restore", "abort", "gone"} /\ final[1] = "Completed"
  /\ state = "Cancelled" \/ at["reader"] = "restore" => cancels >= 1
  /\ at["caller"] = "cancel.restore" => prev \in {"Idle", "Completed", "Failed"}

\* The worker's executor and the place of the serve loop.
ExecInv ==
  /\ exec \in {"Running", "Pausing", "Paused"} => busy
  /\ busy => at["serve"] = "running" /\ exec \in {"Running", "Pausing", "Paused", "Cancelled"}
  /\ at["serve"] \in {"running", "signal", "join"} /\ ~busy => exec \in {"Completed", "Cancelled"}

\* At most one MsgRun is on its way, that of the current run, to an idle worker.
RunsInv ==
  /\ \A i \in 1 .. Len(down) : down[i].kind = "run" =>
       /\ down[i].run = run /\ at["serve"] = "serve"
       /\ \A j \in 1 .. Len(down) : down[j].kind = "run" => i = j
  /\ at["serve"] # "serve" => job = run

\* A cancel on its way, or heard of by the worker, is one the mirror shows.
CancelInv ==
  exec = "Cancelled" \/ at["caller"] = "cancel.send"
    \/ (\E i \in 1 .. Len(down) : down[i].kind = "cancel") => Doomed

\* A result comes when the worker is through, once, and is that of the current
\* run; without one only if the run was cancelled.
ResultsInv ==
  /\ Working => \A i \in 1 .. Len(up) : up[i].kind \notin {"result", "error"}
  /\ \A i \in 1 .. Len(up) : up[i].kind = "result" =>
       /\ up[i].run \in {0, run} /\ (up[i].run = 0 => Doomed)
       /\ alive => at["serve"] = "serve" /\ ~RunQueued
       /\ \A j \in 1 .. Len(up) : i < j => up[j].kind = "reply"
  /\ Over /\ at["runner"] # "begin" /\ final[1] = "Completed" =>
       Quiet /\ output \in {0, run} /\ (output = 0 => Doomed)

\* While the worker works, a MsgSerializeState that it will look at is the last
\* frame it is sent, and its answer the only one: the reader waits for it, and
\* with the reader the caller.
Asked == at["reader"] = "blob"
Heard(i) == down[i].kind = "serialize" /\ \A j \in 1 .. Len(down) : i < j => down[j].kind # "run"
AsksInv ==
  Working =>
    /\ \A i \in 1 .. Len(down) : Heard(i) =>
         /\ Asked /\ i = Len(down)
         /\ \A j \in 1 .. Len(up) : up[j].kind # "checkpoint"
    /\ \A i \in 1 .. Len(up) : up[i].kind = "checkpoint" =>
         /\ Asked
         /\ \A j \in 1 .. Len(up) : up[j].kind = "checkpoint" => i = j

\* The search is parked and nobody is about to wake it, or the worker is dead.
Parked ==
  /\ alive => exec = "Paused" /\ down = <<>>
  /\ \A i \in 1 .. Len(up) : up[i].kind # "result"
  /\ at["reader"] # "none" /\ at["runner"] # "begin"
  /\ Over => final[1] = "Failed"

\* A checkpoint that is not empty is of the current run, in the socket, in the
\* intent and with the caller, and the run it is of has not gone on.
BlobsInv ==
  /\ \A i \in 1 .. Len(up) : up[i].kind = "checkpoint" /\ up[i].run # 0 =>
       /\ up[i].run = run /\ Asked /\ Parked
       /\ \A j \in 1 .. Len(up) : up[j].kind # "error" /\ (up[j].kind = "checkpoint" => i = j)
  /\ saving = "ok" /\ at["caller"] = "save.await" /\ blob # 0 => blob = run /\ Parked
  /\ saved # 0 => saved = run /\ Parked /\ at["caller"] = "idle"

RunInv ==
  /\ PlacesInv /\ FreshInv /\ FinalInv /\ StateInv /\ ExecInv /\ RunsInv /\ CancelInv /\ ResultsInv
  /\ AsksInv /\ BlobsInv /\ WaitTellsTheTruth

SandboxInv ==
  /\ SandboxTypeOK
  /\ Destructing => DestructInv
  /\ ~Destructing /\ Undisturbed => RunInv

-----------------------------------------------------------------------------
(* Sequences of frames.                                                     *)

LEMMA TailOf ==
  ASSUME NEW S, NEW s \in Seq(S), s # <<>>
  PROVE  /\ Tail(s) \in Seq(S) /\ Len(s) \in Nat /\ Len(Tail(s)) \in Nat /\ Len(s) = Len(Tail(s)) + 1
         /\ Head(s) = s[1] /\ s[1] \in S
         /\ \A i \in 1 .. Len(Tail(s)) : i + 1 \in 1 .. Len(s) /\ Tail(s)[i] = s[i + 1]
OBVIOUS

LEMMA AppendOf ==
  ASSUME NEW S, NEW s \in Seq(S), NEW e \in S
  PROVE  /\ Append(s, e) \in Seq(S) /\ Len(s) \in Nat /\ Len(Append(s, e)) = Len(s) + 1
         /\ Append(s, e)[Len(s) + 1] = e
         /\ \A i \in 1 .. Len(s) : i \in 1 .. Len(Append(s, e)) /\ Append(s, e)[i] = s[i]
OBVIOUS

LEMMA FramesTyped ==
  /\ \A k \in {"ask", "run", "pause", "resume", "cancel", "serialize"} : \A n \in Nat :
       Frame(k, n) \in DownFrames /\ Frame(k, n).kind = k /\ Frame(k, n).run = n
  /\ \A k \in {"reply", "progress", "pause_ack", "checkpoint", "result", "error"} : \A n \in Nat :
       Frame(k, n) \in UpFrames /\ Frame(k, n).kind = k /\ Frame(k, n).run = n
BY DEF Frame, DownFrames, UpFrames
-----------------------------------------------------------------------------
(* Types.                                                                   *)

\* The actions by thread. DestroyBegin, ShutDown and Teardown are apart.
RunnerMove == AskWorker \/ ReadReply \/ ReplyFails \/ BeginRun \/ WaitReturns \/ StartSend \/ Wait
PauseMove == PauseCheck \/ PauseSend \/ PauseMark \/ PauseAwait \/ PauseFlip
CallMove ==
  ResumeSend \/ ResumeStore \/ CancelExchange \/ CancelRestore \/ CancelSend \/ SaveCheck \/ SaveAwait
ReplyMove == \E h \in {"ack", "blob"} : HandshakeFrame(h) \/ HandshakeEof(h)
ReaderMove ==
  ReaderTop \/ PollWake \/ PollFrame \/ PollEof \/ Woken \/ TerminalExchange \/ TerminalRestore \/ AbortIntents
WorkerMove == ServeNext \/ ControlNext \/ SearchEnds \/ Report \/ WorkerDies

LEMMA MoveCases ==
  SandboxNext => RunnerMove \/ PauseMove \/ CallMove \/ ReplyMove \/ ReaderMove \/ WorkerMove
                   \/ DestroyBegin \/ ShutDown \/ Teardown
BY DEF SandboxNext, RunnerNext, CallerNext, ReaderNext, RunnerMove, PauseMove, CallMove, ReplyMove,
       ReaderMove, WorkerMove
LEMMA RunnerType ==
  ASSUME SandboxTypeOK, RunnerMove \/ DestroyBegin \/ ShutDown \/ Teardown PROVE SandboxTypeOK'
<1> USE DEF SandboxTypeOK, Goto, Threads, Places
<1>1. CASE AskWorker
  <2>1. down' \in Seq(DownFrames)
    BY <1>1, AppendOf, FramesTyped DEF AskWorker
  <2> QED BY <1>1, <2>1 DEF AskWorker, parent, mirror, worker
<1>2. CASE ReadReply
  <2>1. up' \in Seq(UpFrames)
    BY <1>2, TailOf DEF ReadReply, Readable
  <2> QED BY <1>2, <2>1 DEF ReadReply, parent, mirror, worker
<1>3. CASE ReplyFails
  BY <1>3 DEF ReplyFails, parent, mirror, worker
<1>4. CASE BeginRun
  BY <1>4 DEF BeginRun, worker
<1>5. CASE WaitReturns
  BY <1>5 DEF WaitReturns, mirror, worker
<1>6. CASE Wait
  BY <1>6 DEF Wait, parent, mirror, worker
<1>7. CASE StartSend
  <2>1. run + 1 \in Nat /\ Frame("run", run + 1) \in DownFrames
    BY FramesTyped
  <2>2. down' \in Seq(DownFrames)
    BY <1>7, <2>1, AppendOf DEF StartSend, Send
  <2> QED BY <1>7, <2>1, <2>2 DEF StartSend, mirror, worker
<1>8. CASE DestroyBegin
  BY <1>8 DEF DestroyBegin, worker
<1>9. CASE ShutDown
  BY <1>9 DEF ShutDown, worker
<1>10. CASE Teardown
  <2>1. down' \in Seq(DownFrames) /\ up' \in Seq(UpFrames)
    BY <1>10 DEF Teardown
  <2> QED BY <1>10, <2>1 DEF Teardown, parent, mirror, worker
<1> QED BY <1>1, <1>2, <1>3, <1>4, <1>5, <1>6, <1>7, <1>8, <1>9, <1>10 DEF RunnerMove

LEMMA CallerType ==
  ASSUME SandboxTypeOK, PauseMove \/ CallMove PROVE SandboxTypeOK'
<1> USE DEF SandboxTypeOK, Goto, Threads, Places
<1>1. CASE PauseCheck
  BY <1>1 DEF PauseCheck, Call, worker
<1>2. CASE PauseSend \/ ResumeSend \/ CancelSend
  <2>1. \E k \in {"pause", "resume", "cancel"} : Send(Frame(k, 0))
    BY <1>2 DEF PauseSend, ResumeSend, CancelSend
  <2>2. down' \in Seq(DownFrames)
    BY <2>1, AppendOf, FramesTyped DEF Send
  <2>3. CASE PauseSend
    BY <2>2, <2>3 DEF PauseSend, parent, mirror, worker
  <2>4. CASE ResumeSend
    BY <2>2, <2>4 DEF ResumeSend, Call, mirror, worker
  <2>5. CASE CancelSend
    BY <2>2, <2>5 DEF CancelSend, parent, mirror, worker
  <2> QED BY <1>2, <2>3, <2>4, <2>5
<1>3. CASE PauseMark
  BY <1>3 DEF PauseMark, worker
<1>4. CASE PauseAwait
  BY <1>4 DEF PauseAwait, parent, mirror, worker
<1>5. CASE PauseFlip
  BY <1>5 DEF PauseFlip, worker
<1>6. CASE ResumeStore
  BY <1>6 DEF ResumeStore, worker
<1>7. CASE CancelExchange
  BY <1>7 DEF CancelExchange, Call, worker
<1>8. CASE CancelRestore
  BY <1>8 DEF CancelRestore, worker
<1>9. CASE SaveCheck
  BY <1>9 DEF SaveCheck, Call, worker
<1>10. CASE SaveAwait
  BY <1>10 DEF SaveAwait, mirror, worker
<1> QED BY <1>1, <1>2, <1>3, <1>4, <1>5, <1>6, <1>7, <1>8, <1>9, <1>10 DEF PauseMove, CallMove

LEMMA ReaderType ==
  ASSUME SandboxTypeOK, ReplyMove \/ ReaderMove PROVE SandboxTypeOK'
<1> USE DEF SandboxTypeOK, Goto, Threads, Places
<1>1. CASE ReaderTop
  BY <1>1 DEF ReaderTop, parent, mirror, worker
<1>2. CASE PollWake
  BY <1>2 DEF PollWake, worker
<1>3. CASE PollEof
  BY <1>3 DEF PollEof, mirror, worker
<1>4. ASSUME up # <<>> PROVE Tail(up) \in Seq(UpFrames) /\ Head(up).run \in Nat
  <2>1. Tail(up) \in Seq(UpFrames) /\ Head(up) \in UpFrames
    BY <1>4, TailOf
  <2> QED BY <2>1 DEF UpFrames
<1>5. CASE PollFrame
  <2>1. output' \in Nat /\ up' \in Seq(UpFrames)
    BY <1>5, <1>4 DEF PollFrame, Readable
  <2>2. \E p \in {"exchange", "top"} : at' = [at EXCEPT !["reader"] = p]
    BY <1>5 DEF PollFrame
  <2> QED BY <1>5, <2>1, <2>2 DEF PollFrame, worker
<1>6. CASE Woken
  <2>1. down' \in {down, Append(down, Frame("serialize", 0))}
    BY <1>6 DEF Woken, Send
  <2>3. Append(down, Frame("serialize", 0)) \in Seq(DownFrames)
    BY AppendOf, FramesTyped
  <2>2. at' \in [Threads -> Places]
    BY <1>6 DEF Woken
  <2> QED BY <1>6, <2>1, <2>2, <2>3 DEF Woken, worker
<1>7. CASE TerminalExchange
  BY <1>7 DEF TerminalExchange, worker
<1>8. CASE TerminalRestore
  BY <1>8 DEF TerminalRestore, worker
<1>9. CASE AbortIntents
  BY <1>9 DEF AbortIntents, worker
<1>10. CASE ReplyMove
  <2> PICK h \in {"ack", "blob"} : HandshakeFrame(h) \/ HandshakeEof(h)
    BY <1>10 DEF ReplyMove
  <2>1. CASE HandshakeFrame(h)
    <3>1. up' \in Seq(UpFrames) /\ Head(up).run \in Nat
      BY <1>4, <2>1 DEF HandshakeFrame, Readable
    <3>4. output' \in {output, Head(up).run} /\ blob' \in {blob, Head(up).run, 0}
      BY <2>1 DEF HandshakeFrame, Answer, mirror
    <3>2. at' = at \/ \E p \in {"exchange", "top"} : at' = [at EXCEPT !["reader"] = p]
      BY <2>1 DEF HandshakeFrame
    <3>3. UNCHANGED <<run, cancels, saved, alive, shut, down, worker>>
      BY <2>1 DEF HandshakeFrame, Answer, mirror
    <3> QED BY <3>1, <3>2, <3>3, <3>4 DEF worker
  <2>2. CASE HandshakeEof(h)
    BY <2>2 DEF HandshakeEof, Answer, worker
  <2> QED BY <2>1, <2>2
<1> QED BY <1>1, <1>2, <1>3, <1>5, <1>6, <1>7, <1>8, <1>9, <1>10 DEF ReaderMove

LEMMA WorkerType ==
  ASSUME SandboxTypeOK, WorkerMove PROVE SandboxTypeOK'
<1> USE DEF SandboxTypeOK, Goto, Threads, Places
<1>1. ASSUME down # <<>> PROVE Tail(down) \in Seq(DownFrames) /\ Head(down).run \in Nat
  <2>1. Tail(down) \in Seq(DownFrames) /\ Head(down) \in DownFrames
    BY <1>1, TailOf
  <2> QED BY <2>1 DEF DownFrames
<1>2. ASSUME NEW k \in {"reply", "progress", "pause_ack", "checkpoint", "result", "error"}, NEW n \in Nat
      PROVE  Append(up, Frame(k, n)) \in Seq(UpFrames)
  BY AppendOf, FramesTyped
<1>3. CASE Serve
  <2>1. down' \in Seq(DownFrames) /\ up' \in Seq(UpFrames)
    BY <1>3, <1>1, <1>2 DEF Serve, Reads
  <2>2. at' \in [Threads -> Places] /\ job' \in Nat
    BY <1>3, <1>1 DEF Serve, Reads
  <2> QED BY <1>3, <2>1, <2>2 DEF Serve, parent, mirror
<1>4. CASE ResetExec
  BY <1>4 DEF ResetExec, parent, mirror
<1>5. CASE StartExec
  BY <1>5 DEF StartExec, parent, mirror
<1>6. CASE ExecDone
  BY <1>6 DEF ExecDone, parent, mirror, worker
<1>7. CASE SignalExit
  BY <1>7 DEF SignalExit, parent, mirror
<1>8. CASE StartThrows
  BY <1>8, <1>2 DEF StartThrows, parent, mirror, worker
<1>9. CASE SendResult
  <2>1. (IF exec = "Completed" THEN job ELSE 0) \in Nat
    OBVIOUS
  <2>2. up' = up \/ \E n \in Nat : up' = Append(up, Frame("result", n))
    BY <1>9, <2>1 DEF SendResult
  <2>3. up' \in Seq(UpFrames)
    BY <1>2, <2>2
  <2> QED BY <1>9, <2>3 DEF SendResult, parent, mirror, worker
<1>10. CASE ControlExit
  BY <1>10 DEF ControlExit, parent, mirror, worker
<1>11. CASE PauseReturns
  BY <1>11 DEF PauseReturns, parent, mirror
<1>12. CASE ControlFrame
  <2>1. down' \in Seq(DownFrames) /\ up' \in Seq(UpFrames)
    BY <1>12, <1>1, <1>2 DEF ControlFrame, Reads
  <2>2. at' \in [Threads -> Places]
    BY <1>12 DEF ControlFrame
  <2> QED BY <1>12, <2>1, <2>2 DEF ControlFrame, parent, mirror
<1>13. CASE SendAck
  BY <1>13, <1>2 DEF SendAck, parent, mirror, worker
<1>14. CASE Report
  BY <1>14, <1>2 DEF Report, parent, mirror, worker
<1>15. CASE SearchEnds
  BY <1>15 DEF SearchEnds, parent, mirror
<1>16. CASE WorkerDies
  <2>1. down' \in Seq(DownFrames)
    BY <1>16 DEF WorkerDies
  <2>2. alive' \in BOOLEAN
    BY <1>16 DEF WorkerDies
  <2> QED BY <1>16, <2>1, <2>2 DEF WorkerDies, parent, mirror, worker
<1> QED BY <1>3, <1>4, <1>5, <1>6, <1>7, <1>8, <1>9, <1>10, <1>11, <1>12, <1>13, <1>14, <1>15, <1>16
        DEF WorkerMove, ServeNext, ControlNext

LEMMA TypeStep == SandboxTypeOK /\ [SandboxNext]_sandboxVars => SandboxTypeOK'
<1>1. SandboxTypeOK /\ UNCHANGED sandboxVars => SandboxTypeOK'
  BY DEF SandboxTypeOK, sandboxVars, mirror
<1> QED BY <1>1, MoveCases, RunnerType, CallerType, ReaderType, WorkerType
-----------------------------------------------------------------------------
(* What the moves of a thread leave alone.                                  *)

LEMMA ParentMoves ==
  ASSUME SandboxTypeOK, RunnerMove \/ PauseMove \/ CallMove \/ ReplyMove \/ ReaderMove
  PROVE  UNCHANGED <<exec, busy, job, ended, alive>> /\ at'["serve"] = at["serve"] /\ at'["control"] = at["control"]
<1> USE DEF SandboxTypeOK, Goto, Threads, worker
<1>1. CASE RunnerMove
  BY <1>1 DEF RunnerMove, AskWorker, ReadReply, ReplyFails, BeginRun, WaitReturns, StartSend, Wait
<1>2. CASE PauseMove
  BY <1>2 DEF PauseMove, PauseCheck, PauseSend, PauseMark, PauseAwait, PauseFlip
<1>3. CASE CallMove
  BY <1>3 DEF CallMove, ResumeSend, ResumeStore, CancelExchange, CancelRestore, CancelSend, SaveCheck, SaveAwait
<1>4. CASE ReplyMove
  <2> PICK h \in {"ack", "blob"} : HandshakeFrame(h) \/ HandshakeEof(h)
    BY <1>4 DEF ReplyMove
  <2>1. UNCHANGED <<alive, worker>>
    BY DEF HandshakeFrame, HandshakeEof, Answer
  <2>2. at' = at \/ \E p \in {"exchange", "top"} : at' = [at EXCEPT !["reader"] = p]
    BY DEF HandshakeFrame, HandshakeEof
  <2> QED BY <2>1, <2>2
<1>5. CASE ReaderMove
  <2>1. UNCHANGED <<alive, worker>>
    BY <1>5 DEF ReaderMove, ReaderTop, PollWake, PollFrame, PollEof, Woken, TerminalExchange, TerminalRestore, AbortIntents
  <2>2. \E p : at' = [at EXCEPT !["reader"] = p]
    BY <1>5 DEF ReaderMove, ReaderTop, PollWake, PollFrame, PollEof, Woken, TerminalExchange, TerminalRestore, AbortIntents
  <2> QED BY <2>1, <2>2
<1> QED BY <1>1, <1>2, <1>3, <1>4, <1>5

LEMMA WorkerMoves ==
  ASSUME SandboxTypeOK, WorkerMove
  PROVE  /\ UNCHANGED parent /\ (alive' => alive)
         /\ \A t \in {"runner", "caller", "reader"} : at'[t] = at[t]
<1> USE DEF SandboxTypeOK, Goto, Threads
<1>1. UNCHANGED parent /\ (alive' => alive)
  <2>1. CASE ServeNext
    <3>1. CASE Serve
      BY <3>1 DEF Serve
    <3>3. CASE ResetExec \/ StartExec \/ StartThrows
      BY <3>3 DEF ResetExec, StartExec, StartThrows
    <3>2. CASE ExecDone \/ SignalExit \/ SendResult
      BY <3>2 DEF ExecDone, SignalExit, SendResult
    <3> QED BY <2>1, <3>1, <3>2, <3>3 DEF ServeNext
  <2>2. CASE ControlNext
    BY <2>2 DEF ControlNext, ControlExit, ControlFrame, PauseReturns, SendAck
  <2>3. CASE SearchEnds \/ Report \/ WorkerDies
    BY <2>3 DEF SearchEnds, Report, WorkerDies
  <2> QED BY <2>1, <2>2, <2>3 DEF WorkerMove
<1>2. CASE SearchEnds \/ Report \/ WorkerDies
  BY <1>1, <1>2 DEF SearchEnds, Report, WorkerDies
<1>3. CASE ControlNext
  <2>1. \E p : at' = [at EXCEPT !["control"] = p]
    BY <1>3 DEF ControlNext, ControlExit, ControlFrame, PauseReturns, SendAck
  <2> QED BY <1>1, <2>1
<1>4. CASE ServeNext
  <2>1. \E p, q : at' = [at EXCEPT !["serve"] = p, !["control"] = q]
    <3>1. CASE Serve
      BY <3>1 DEF Serve
    <3>2. CASE ~Serve
      <4>1. \E p : at' = [at EXCEPT !["serve"] = p]
        BY <1>4, <3>2 DEF ServeNext, ResetExec, StartExec, StartThrows, ExecDone, SignalExit, SendResult
      <4>2. \A p : [at EXCEPT !["serve"] = p] = [at EXCEPT !["serve"] = p, !["control"] = at["control"]]
        OBVIOUS
      <4> QED BY <4>1, <4>2
    <3> QED BY <3>1, <3>2
  <2> QED BY <1>1, <2>1
<1> QED BY <1>2, <1>3, <1>4 DEF WorkerMove

LEMMA CallerMoves ==
  ASSUME SandboxTypeOK, PauseMove \/ CallMove
  PROVE  /\ UNCHANGED <<output, shut, run, final, waited, up>> /\ cancels' \in {cancels, cancels + 1}
         /\ at'["runner"] = at["runner"] /\ at'["reader"] = at["reader"]
<1> USE DEF SandboxTypeOK, Goto, Threads, mirror, parent, Call
<1>1. CASE PauseMove
  BY <1>1 DEF PauseMove, PauseCheck, PauseSend, PauseMark, PauseAwait, PauseFlip
<1>2. CASE CallMove
  BY <1>2 DEF CallMove, ResumeSend, ResumeStore, CancelExchange, CancelRestore, CancelSend, SaveCheck, SaveAwait
<1> QED BY <1>1, <1>2

LEMMA ReaderMoves ==
  ASSUME SandboxTypeOK, ReplyMove \/ ReaderMove
  PROVE  /\ UNCHANGED <<shut, run, prev, waited, cancels, saved>>
         /\ slips' \in {slips, slips \cup {"swallowed"}}
         /\ at'["runner"] = at["runner"] /\ at'["caller"] = at["caller"]
<1> USE DEF SandboxTypeOK, Goto, Threads, mirror, parent
<1>1. CASE ReaderMove
  <2>1. \E p : at' = [at EXCEPT !["reader"] = p]
    BY <1>1 DEF ReaderMove, ReaderTop, PollWake, PollFrame, PollEof, Woken, TerminalExchange, TerminalRestore, AbortIntents
  <2>2. UNCHANGED <<shut, run, prev, waited, cancels, saved, slips>>
    BY <1>1 DEF ReaderMove, ReaderTop, PollWake, PollFrame, PollEof, Woken, TerminalExchange, TerminalRestore, AbortIntents
  <2> QED BY <2>1, <2>2
<1>2. CASE ReplyMove
  <2> PICK h \in {"ack", "blob"} : HandshakeFrame(h) \/ HandshakeEof(h)
    BY <1>2 DEF ReplyMove
  <2>1. UNCHANGED <<shut, run, prev, waited, cancels, saved>> /\ slips' \in {slips, slips \cup {"swallowed"}}
    BY DEF HandshakeFrame, HandshakeEof, Answer
  <2>2. at' = at \/ \E p \in {"exchange", "top"} : at' = [at EXCEPT !["reader"] = p]
    BY DEF HandshakeFrame, HandshakeEof
  <2> QED BY <2>1, <2>2
<1> QED BY <1>1, <1>2

\* A run that a call disturbed stays one.
LEMMA StaysDisturbed ==
  ASSUME SandboxTypeOK, SandboxNext, Undisturbed' PROVE Undisturbed
<1> USE DEF Undisturbed
<1>1. run' \in {run, run + 1} /\ ("crossed" \in slips => "crossed" \in slips')
  <2>1. CASE WorkerMove
    BY <2>1, WorkerMoves DEF parent, SandboxTypeOK
  <2>2. CASE PauseMove
    BY <2>2 DEF PauseMove, PauseCheck, PauseSend, PauseMark, PauseAwait, PauseFlip, Call, parent, SandboxTypeOK
  <2>3. CASE CallMove
    BY <2>3 DEF CallMove, ResumeSend, ResumeStore, CancelExchange, CancelRestore, CancelSend, SaveCheck, SaveAwait, Call,
       parent, SandboxTypeOK
  <2>4. CASE ReplyMove \/ ReaderMove
    BY <2>4, ReaderMoves
  <2>6. CASE RunnerMove
    BY <2>6 DEF RunnerMove, AskWorker, ReadReply, ReplyFails, BeginRun, WaitReturns, StartSend, Wait, parent, SandboxTypeOK
  <2>7. CASE DestroyBegin \/ ShutDown \/ Teardown
    BY <2>7 DEF DestroyBegin, ShutDown, Teardown, parent, SandboxTypeOK
  <2> QED BY <2>1, <2>2, <2>3, <2>4, <2>6, <2>7, MoveCases
<1> QED BY <1>1 DEF SandboxTypeOK

-----------------------------------------------------------------------------
(* The worker's executor.                                                   *)

LEMMA ExecStep ==
  ASSUME SandboxTypeOK, PlacesInv, ExecInv,
         RunnerMove \/ PauseMove \/ CallMove \/ ReplyMove \/ ReaderMove \/ WorkerMove
  PROVE  ExecInv'
<1> USE DEF ExecInv
<1>1. CASE RunnerMove \/ PauseMove \/ CallMove \/ ReplyMove \/ ReaderMove
  BY <1>1, ParentMoves
<1>2. CASE WorkerMove
  <2> USE DEF SandboxTypeOK, Goto, Threads
  <2>1. CASE Serve
    BY <2>1 DEF Serve, Reads, PlacesInv
  <2>2. CASE ResetExec
    <3>1. at["serve"] = "reset" /\ at'["serve"] = "start" /\ busy' = busy /\ exec' \in {exec, "Idle"}
      BY <2>2 DEF ResetExec
    <3> QED BY <3>1
  <2>8. CASE StartExec
    <3>1. at'["serve"] = "running" /\ busy' /\ exec' = "Running"
      BY <2>8 DEF StartExec
    <3> QED BY <3>1
  <2>3. CASE StartThrows \/ ExecDone
    BY <2>3 DEF StartThrows, ExecDone, worker
  <2>4. CASE SignalExit \/ SendResult
    BY <2>4 DEF SignalExit, SendResult, worker
  <2>5. CASE ControlExit \/ PauseReturns \/ SendAck
    BY <2>5 DEF ControlExit, PauseReturns, SendAck, worker
  <2>6. CASE ControlFrame
    <3>1. at'["serve"] = at["serve"] /\ busy' = busy
      BY <2>6 DEF ControlFrame
    <3>2. \/ exec' = exec
          \/ exec \in {"Running", "Pausing", "Paused"} /\ exec' \in {"Running", "Pausing", "Cancelled"}
      BY <2>6 DEF ControlFrame
    <3> QED BY <3>1, <3>2
  <2>7. CASE SearchEnds \/ Report \/ WorkerDies
    BY <2>7 DEF SearchEnds, Report, WorkerDies, worker
  <2> QED BY <1>2, <2>1, <2>2, <2>3, <2>4, <2>5, <2>6, <2>7, <2>8 DEF WorkerMove, ServeNext, ControlNext
<1> QED BY <1>1, <1>2

-----------------------------------------------------------------------------
(* The mirror.                                                              *)

LEMMA StateStep ==
  ASSUME Undisturbed', SandboxTypeOK, PlacesInv, FreshInv, FinalInv, StateInv,
         RunnerMove \/ PauseMove \/ CallMove \/ ReplyMove \/ ReaderMove \/ WorkerMove
  PROVE  StateInv'
<1> USE DEF StateInv
<1>1. CASE WorkerMove
  BY <1>1, WorkerMoves DEF parent, mirror
<1> USE DEF SandboxTypeOK, Goto, Threads
<1>2. CASE RunnerMove
  <2>1. CASE BeginRun
    BY <2>1 DEF BeginRun, PlacesInv, FirstInv
  <2>2. CASE StartSend
    BY <2>2 DEF StartSend, mirror
  <2>3. CASE AskWorker \/ ReadReply \/ ReplyFails \/ WaitReturns \/ Wait
    <3>1. at["runner"] # "begin" /\ \E p : at' = [at EXCEPT !["runner"] = p]
      BY <2>3 DEF AskWorker, ReadReply, ReplyFails, WaitReturns, Wait
    <3>2. UNCHANGED <<mirror, run, prev, final, cancels, slips>>
      BY <2>3 DEF AskWorker, ReadReply, ReplyFails, WaitReturns, Wait, parent
    <3> QED BY <3>1, <3>2 DEF mirror
  <2> QED BY <1>2, <2>1, <2>2, <2>3 DEF RunnerMove
<1>3. CASE PauseMove
  BY <1>3 DEF PauseMove, PauseCheck, PauseSend, PauseMark, PauseAwait, PauseFlip, mirror, parent, Call
<1>4. CASE CallMove
  <2>1. CASE ResumeSend \/ ResumeStore \/ CancelSend \/ SaveCheck \/ SaveAwait
    BY <2>1 DEF ResumeSend, ResumeStore, CancelSend, SaveCheck, SaveAwait, mirror, parent, Call
  <2>2. CASE CancelExchange
    BY <2>2 DEF CancelExchange, Call
  <2>3. CASE CancelRestore
    BY <2>3 DEF CancelRestore, PlacesInv
  <2> QED BY <1>4, <2>1, <2>2, <2>3 DEF CallMove
<1>5. CASE ReaderMove
  <2>1. CASE ReaderTop \/ PollWake \/ Woken \/ AbortIntents
    BY <2>1 DEF ReaderTop, PollWake, Woken, AbortIntents, parent, mirror
  <2>2. CASE PollFrame \/ PollEof
    BY <2>2 DEF PollFrame, PollEof, mirror
  <2>3. CASE TerminalExchange
    <3>1. state' \in {"Completed", "Failed"} /\ state' = final[1] /\ final' = final
      BY <2>3 DEF TerminalExchange, FinalInv
    <3>2. at'["reader"] \in {"restore", "abort", "gone"} /\ (at'["reader"] = "restore" => state = "Cancelled")
      BY <2>3 DEF TerminalExchange
    <3> QED BY <1>5, <2>3, <3>1, <3>2, ReaderMoves DEF TerminalExchange
  <2>4. CASE TerminalRestore
    BY <2>4 DEF TerminalRestore
  <2> QED BY <1>5, <2>1, <2>2, <2>3, <2>4 DEF ReaderMove
<1>6. CASE ReplyMove
  <2> PICK h \in {"ack", "blob"} : HandshakeFrame(h) \/ HandshakeEof(h)
    BY <1>6 DEF ReplyMove
  <2>1. at["reader"] = h /\ state' = state
    BY DEF HandshakeFrame, HandshakeEof, Answer, mirror
  <2>2. at' = at \/ \E p \in {"exchange", "top"} : at' = [at EXCEPT !["reader"] = p]
    BY DEF HandshakeFrame, HandshakeEof
  <2>3. state # "Completed" /\ ~(at["caller"] = "cancel.restore" /\ prev = "Completed")
    BY <2>1
  <2> QED BY <1>6, <2>1, <2>2, <2>3, ReaderMoves
<1> QED BY <1>1, <1>2, <1>3, <1>4, <1>5, <1>6
-----------------------------------------------------------------------------
(* What the moves do to the two sequences of frames.                        *)

LEMMA DownSent ==
  ASSUME SandboxTypeOK, NEW f \in DownFrames, down' \in {down, Append(down, f)}
  PROVE  /\ Len(down) \in Nat /\ Len(down') \in Nat
         /\ \A i \in 1 .. Len(down) : i \in 1 .. Len(down') /\ down'[i] = down[i]
         /\ \A i \in 1 .. Len(down') :
              i \in 1 .. Len(down) \/ (i = Len(down) + 1 /\ i = Len(down') /\ down'[i] = f)
BY AppendOf DEF SandboxTypeOK

LEMMA DownRead ==
  ASSUME SandboxTypeOK, down # <<>>, down' = Tail(down)
  PROVE  /\ Len(down') \in Nat /\ Len(down) = Len(down') + 1
         /\ Head(down) = down[1] /\ down[1] \in DownFrames
         /\ \A i \in 1 .. Len(down') : i + 1 \in 1 .. Len(down) /\ down'[i] = down[i + 1]
         /\ \A i \in 1 .. Len(down) : i # 1 => i - 1 \in 1 .. Len(down') /\ down[i] = down'[i - 1]
<1>1. down \in Seq(DownFrames)
  BY DEF SandboxTypeOK
<1>2. /\ Tail(down) \in Seq(DownFrames) /\ Len(down) \in Nat /\ Len(Tail(down)) \in Nat
      /\ Len(down) = Len(Tail(down)) + 1 /\ Head(down) = down[1] /\ down[1] \in DownFrames
      /\ \A i \in 1 .. Len(Tail(down)) : i + 1 \in 1 .. Len(down) /\ Tail(down)[i] = down[i + 1]
  BY <1>1, TailOf
<1>3. ASSUME NEW i \in 1 .. Len(down), i # 1 PROVE i - 1 \in 1 .. Len(down') /\ down[i] = down'[i - 1]
  <2>1. i - 1 \in 1 .. Len(down') /\ (i - 1) + 1 = i
    BY <1>2, <1>3
  <2> QED BY <1>2, <2>1
<1> QED BY <1>2, <1>3

LEMMA UpSent ==
  ASSUME SandboxTypeOK, NEW f \in UpFrames, up' = Append(up, f)
  PROVE  /\ Len(up) \in Nat /\ Len(up') \in Nat /\ Len(up') = Len(up) + 1
         /\ \A i \in 1 .. Len(up) : i \in 1 .. Len(up') /\ up'[i] = up[i]
         /\ \A i \in 1 .. Len(up') : i \in 1 .. Len(up) \/ (i = Len(up) + 1 /\ up'[i] = f)
BY AppendOf DEF SandboxTypeOK

LEMMA UpRead ==
  ASSUME SandboxTypeOK, up # <<>>, up' = Tail(up)
  PROVE  /\ Len(up') \in Nat /\ Len(up) = Len(up') + 1
         /\ Head(up) = up[1] /\ up[1] \in UpFrames /\ 1 \in 1 .. Len(up)
         /\ \A i \in 1 .. Len(up') : i + 1 \in 1 .. Len(up) /\ up'[i] = up[i + 1]
<1>1. up \in Seq(UpFrames)
  BY DEF SandboxTypeOK
<1> QED BY <1>1, TailOf

\* Only start() sends MsgRun; what else is sent are requests.
LEMMA ParentSends ==
  ASSUME SandboxTypeOK
  PROVE  /\ PauseMove \/ CallMove => \E k \in {"pause", "resume", "cancel"} : down' \in {down, Append(down, Frame(k, 0))}
         /\ ReaderMove => down' \in {down, Append(down, Frame("serialize", 0))}
         /\ ReplyMove => down' = down
         /\ RunnerMove /\ ~StartSend => down' \in {down, Append(down, Frame("ask", 0))}
<1>1. ASSUME PauseMove \/ CallMove
      PROVE  \E k \in {"pause", "resume", "cancel"} : down' \in {down, Append(down, Frame(k, 0))}
  BY <1>1 DEF PauseMove, PauseCheck, PauseSend, PauseMark, PauseAwait, PauseFlip, CallMove, ResumeSend,
     ResumeStore, CancelExchange, CancelRestore, CancelSend, SaveCheck, SaveAwait, Send
<1>2. ASSUME ReaderMove PROVE down' \in {down, Append(down, Frame("serialize", 0))}
  BY <1>2 DEF ReaderMove, ReaderTop, PollWake, PollFrame, PollEof, Woken, TerminalExchange, TerminalRestore,
     AbortIntents, Send
<1>3. ASSUME ReplyMove PROVE down' = down
  BY <1>3 DEF ReplyMove, HandshakeFrame, HandshakeEof, Answer
<1>4. ASSUME RunnerMove, ~StartSend PROVE down' \in {down, Append(down, Frame("ask", 0))}
  BY <1>4 DEF RunnerMove, AskWorker, ReadReply, ReplyFails, BeginRun, WaitReturns, Wait
<1> QED BY <1>1, <1>2, <1>3, <1>4

LEMMA ParentReads ==
  ASSUME RunnerMove \/ PauseMove \/ CallMove \/ ReplyMove \/ ReaderMove
  PROVE  up' = up \/ (up # <<>> /\ up' = Tail(up))
<1>1. CASE RunnerMove
  BY <1>1 DEF RunnerMove, AskWorker, ReadReply, ReplyFails, BeginRun, WaitReturns, StartSend, Wait, Readable
<1>2. CASE PauseMove \/ CallMove
  BY <1>2 DEF PauseMove, PauseCheck, PauseSend, PauseMark, PauseAwait, PauseFlip, CallMove, ResumeSend,
     ResumeStore, CancelExchange, CancelRestore, CancelSend, SaveCheck, SaveAwait
<1>3. CASE ReplyMove
  BY <1>3 DEF ReplyMove, HandshakeFrame, HandshakeEof, Readable
<1>4. CASE ReaderMove
  BY <1>4 DEF ReaderMove, ReaderTop, PollWake, PollFrame, PollEof, Woken, TerminalExchange, TerminalRestore,
     AbortIntents, Readable
<1> QED BY <1>1, <1>2, <1>3, <1>4

\* MsgRun stays queued until the serve loop takes it.
LEMMA QueuedSend ==
  ASSUME SandboxTypeOK, NEW f \in DownFrames, down' \in {down, Append(down, f)}, f.kind # "run"
  PROVE  RunQueued' <=> RunQueued
BY DownSent DEF RunQueued

LEMMA QueuedRead ==
  ASSUME SandboxTypeOK, down # <<>>, down' = Tail(down), Head(down).kind # "run"
  PROVE  RunQueued' <=> RunQueued
BY DownRead DEF RunQueued

LEMMA ParentQueue ==
  ASSUME SandboxTypeOK, ~StartSend, RunnerMove \/ PauseMove \/ CallMove \/ ReplyMove \/ ReaderMove
  PROVE  RunQueued' <=> RunQueued
<1>1. down' = down \/ \E k \in {"ask", "pause", "resume", "cancel", "serialize"} : down' \in {down, Append(down, Frame(k, 0))}
  BY ParentSends
<1>2. CASE down' = down
  BY <1>2 DEF RunQueued
<1>3. ASSUME NEW k \in {"ask", "pause", "resume", "cancel", "serialize"}, down' \in {down, Append(down, Frame(k, 0))}
      PROVE  RunQueued' <=> RunQueued
  <2>1. Frame(k, 0) \in DownFrames /\ Frame(k, 0).kind # "run"
    BY FramesTyped
  <2> QED BY <1>3, <2>1, QueuedSend
<1> QED BY <1>1, <1>2, <1>3

-----------------------------------------------------------------------------
(* Where the threads are.                                                   *)

\* The first run: nothing but a cancel() that puts Idle back happens before it.
LEMMA FirstStep ==
  ASSUME SandboxTypeOK, PlacesInv, RunnerMove \/ PauseMove \/ CallMove \/ ReplyMove \/ ReaderMove \/ WorkerMove
  PROVE  FirstInv'
<1> DEFINE First == run = 0 \/ (run = 1 /\ at["runner"] = "begin")
<1>1. First => /\ at["reader"] = "none"
               /\ \/ at["caller"] = "idle" /\ state = "Idle"
                  \/ /\ at["caller"] = "cancel.restore" /\ prev = "Idle" /\ state = "Cancelled"
                     /\ at["runner"] = "begin" => "crossed" \in slips
  BY DEF PlacesInv, FirstInv
<1>2. CASE WorkerMove
  BY <1>1, <1>2, WorkerMoves DEF parent, mirror, FirstInv
<1>3. CASE ReplyMove \/ ReaderMove
  <2>1. at["reader"] # "none"
    BY <1>3 DEF ReplyMove, HandshakeFrame, HandshakeEof, ReaderMove, ReaderTop, PollWake, PollFrame, PollEof, Woken,
       TerminalExchange, TerminalRestore, AbortIntents, Goto
  <2>2. First' <=> First
    BY <1>3, ReaderMoves
  <2> QED BY <1>1, <2>1, <2>2 DEF FirstInv
<1>4. CASE PauseMove \/ CallMove
  <2>1. (First' <=> First) /\ at'["reader"] = at["reader"]
    BY <1>4, CallerMoves
  <2> SUFFICES ASSUME First
      PROVE \/ at'["caller"] = "idle" /\ state' = "Idle"
            \/ /\ at'["caller"] = "cancel.restore" /\ prev' = "Idle" /\ state' = "Cancelled"
               /\ at["runner"] = "begin" => "crossed" \in slips'
    BY <1>4, CallerMoves, <1>1, <2>1 DEF FirstInv
  <2>2. CASE CancelExchange
    BY <1>1, <2>2 DEF CancelExchange, Call, SandboxTypeOK, Threads
  <2>3. CASE CancelRestore
    <3>1. at["runner"] # "destroy"
      BY DEF PlacesInv, RunnerAt
    <3> QED BY <1>1, <2>3, <3>1 DEF CancelRestore, SandboxTypeOK, Threads
  <2>4. CASE ~CancelExchange /\ ~CancelRestore
    BY <1>1, <1>4, <2>4 DEF PauseMove, PauseCheck, PauseSend, PauseMark, PauseAwait, PauseFlip, CallMove, ResumeSend,
       ResumeStore, CancelSend, SaveCheck, SaveAwait, Goto, Call
  <2> QED BY <2>2, <2>3, <2>4
<1>5. CASE RunnerMove
  <2>1. CASE BeginRun
    BY <2>1 DEF BeginRun, PlacesInv, FirstInv, SandboxTypeOK, Threads
  <2>2. CASE StartSend
    <3>1. (First' => run = 0) /\ state # "Cancelled"
      BY <2>2 DEF StartSend, SandboxTypeOK
    <3>2. UNCHANGED <<state, prev>> /\ at'["reader"] = at["reader"] /\ at'["caller"] = at["caller"]
      BY <2>2 DEF StartSend, Goto, mirror, SandboxTypeOK, Threads
    <3> QED BY <1>1, <3>1, <3>2 DEF FirstInv
  <2>3. CASE AskWorker \/ ReadReply \/ ReplyFails \/ WaitReturns \/ Wait
    <3>1. UNCHANGED <<state, prev, run>>
      BY <2>3 DEF AskWorker, ReadReply, ReplyFails, WaitReturns, Wait, parent, mirror
    <3>2. /\ at'["reader"] = at["reader"] /\ at'["caller"] = at["caller"] /\ at'["runner"] # "begin"
      BY <2>3 DEF AskWorker, ReadReply, ReplyFails, WaitReturns, Wait, Goto, SandboxTypeOK, Threads
    <3> QED BY <1>1, <3>1, <3>2 DEF FirstInv
  <2> QED BY <1>5, <2>1, <2>2, <2>3 DEF RunnerMove
<1> QED BY <1>2, <1>3, <1>4, <1>5

\* start() is not overlapped, unless it is the first.
LEMMA StartsAlone ==
  ASSUME Undisturbed', SandboxTypeOK, PlacesInv
  PROVE  /\ StartSend => at["caller"] = "idle" /\ (run = 0 \/ "crossed" \notin slips)
         /\ at["runner"] = "begin" /\ (PauseMove \/ CallMove) => run = 1
<1>1. ASSUME StartSend PROVE at["caller"] = "idle" /\ (run = 0 \/ "crossed" \notin slips)
  <2>1. /\ run' = run + 1 /\ state \in {"Idle", "Completed"}
        /\ slips' = IF at["caller"] # "idle" THEN slips \cup {"crossed"} ELSE slips
    BY <1>1 DEF StartSend
  <2>2. CASE run = 0
    BY <2>1, <2>2 DEF PlacesInv, FirstInv
  <2>3. CASE run # 0
    <3>1. "crossed" \notin slips'
      BY <2>1, <2>3 DEF Undisturbed, SandboxTypeOK
    <3> QED BY <2>1, <3>1
  <2> QED BY <2>2, <2>3
<1>2. ASSUME at["runner"] = "begin", PauseMove \/ CallMove PROVE run = 1
  <2>1. CASE at["caller"] # "idle"
    BY <1>2, <2>1 DEF PlacesInv
  <2>2. CASE at["caller"] = "idle"
    <3>1. run' = run /\ "crossed" \in slips'
      BY <1>2, <2>2 DEF PauseMove, PauseCheck, PauseSend, PauseMark, PauseAwait, PauseFlip, CallMove, ResumeSend,
         ResumeStore, CancelExchange, CancelRestore, CancelSend, SaveCheck, SaveAwait, Goto, Call
    <3> QED BY <1>2, <3>1 DEF Undisturbed, PlacesInv, SandboxTypeOK
  <2> QED BY <2>1, <2>2
<1> QED BY <1>1, <1>2

LEMMA PlacesStep ==
  ASSUME Undisturbed', SandboxTypeOK, PlacesInv,
         RunnerMove \/ PauseMove \/ CallMove \/ ReplyMove \/ ReaderMove \/ WorkerMove
  PROVE  PlacesInv'
<1>0. FirstInv'
  BY FirstStep
<1> USE <1>0 DEF PlacesInv, RunnerAt, CallerAt, ReaderAt, ServeAt, RunningAt, ControlAt
<1>1. CASE WorkerMove
  <2>1. /\ at'["serve"] \in ServeAt /\ at'["control"] \in ControlAt
        /\ at'["serve"] = "serve" => at'["control"] \in {"none", "gone"}
    <3> USE DEF SandboxTypeOK, Goto, Threads
    <3>1. CASE Serve
      BY <3>1 DEF Serve
    <3>2. CASE ResetExec \/ StartExec \/ StartThrows \/ ExecDone \/ SignalExit
      BY <3>2 DEF ResetExec, StartExec, StartThrows, ExecDone, SignalExit
    <3>3. CASE SendResult
      BY <3>3 DEF SendResult
    <3>4. CASE ControlNext
      <4>1. at["control"] # "none" /\ at["control"] # "gone" /\ \E p \in ControlAt : at' = [at EXCEPT !["control"] = p]
        <5>1. CASE ControlFrame
          BY <5>1 DEF ControlFrame, Reads
        <5>2. CASE ControlExit \/ PauseReturns \/ SendAck
          BY <5>2 DEF ControlExit, PauseReturns, SendAck
        <5> QED BY <3>4, <5>1, <5>2 DEF ControlNext
      <4> QED BY <4>1
    <3>5. CASE SearchEnds \/ Report \/ WorkerDies
      BY <3>5 DEF SearchEnds, Report, WorkerDies
    <3> QED BY <1>1, <3>1, <3>2, <3>3, <3>4, <3>5 DEF WorkerMove, ServeNext
  <2> QED BY <1>1, <2>1, WorkerMoves DEF parent, mirror
<1>2. CASE RunnerMove
  <2> USE DEF SandboxTypeOK, Goto, Threads, parent, mirror
  <2>1. CASE AskWorker \/ ReadReply \/ ReplyFails
    BY <2>1 DEF AskWorker, ReadReply, ReplyFails
  <2>2. CASE BeginRun
    BY <2>2 DEF BeginRun
  <2>3. CASE StartSend
    BY <2>3, StartsAlone DEF StartSend
  <2>4. CASE WaitReturns \/ Wait
    BY <2>4 DEF WaitReturns, Wait
  <2> QED BY <1>2, <2>1, <2>2, <2>3, <2>4 DEF RunnerMove
<1>3. CASE PauseMove
  <2>1. (at["runner"] = "begin" => run = 1) /\ ~shut'
    BY <1>3, CallerMoves, StartsAlone
  <2>2. at'["caller"] \in CallerAt /\ (saving' = "pending" => at'["caller"] = "save.await")
        /\ saving' \in {saving, "pending"}
    BY <1>3 DEF PauseMove, PauseCheck, PauseSend, PauseMark, PauseAwait, PauseFlip, Call, Goto, SandboxTypeOK,
       Threads, parent, mirror
  <2>3. run' = run
    BY <1>3, CallerMoves
  <2> QED BY <1>3, <2>1, <2>2, <2>3, CallerMoves, ParentMoves
<1>4. CASE CallMove
  <2>1. (at["runner"] = "begin" => run = 1) /\ ~shut'
    BY <1>4, CallerMoves, StartsAlone
  <2>2. at'["caller"] \in CallerAt /\ (saving' = "pending" => at'["caller"] = "save.await")
        /\ saving' \in {saving, "pending"}
    <3> USE DEF SandboxTypeOK, Goto, Threads, parent, mirror, Call
    <3>1. CASE ResumeSend \/ ResumeStore \/ CancelSend
      BY <3>1 DEF ResumeSend, ResumeStore, CancelSend
    <3>2. CASE CancelExchange \/ CancelRestore
      BY <3>2 DEF CancelExchange, CancelRestore
    <3>3. CASE SaveCheck \/ SaveAwait
      BY <3>3 DEF SaveCheck, SaveAwait
    <3> QED BY <1>4, <3>1, <3>2, <3>3 DEF CallMove
  <2>3. run' = run
    BY <1>4, CallerMoves
  <2> QED BY <1>4, <2>1, <2>2, <2>3, CallerMoves, ParentMoves
<1>5. CASE ReplyMove
  <2> PICK h \in {"ack", "blob"} : HandshakeFrame(h) \/ HandshakeEof(h)
    BY <1>5 DEF ReplyMove
  <2>1. at["reader"] = h /\ (saving' = "pending" => saving = "pending") /\ state' = state
    BY DEF HandshakeFrame, HandshakeEof, Answer, mirror
  <2>2. at' = at \/ \E p \in {"exchange", "top"} : at' = [at EXCEPT !["reader"] = p]
    BY DEF HandshakeFrame, HandshakeEof
  <2>3. at'["reader"] \in ReaderAt \ {"none"}
    BY <2>1, <2>2 DEF SandboxTypeOK, Threads
  <2>4. at'["reader"] = "blob" => saving' = saving /\ at["reader"] = "blob"
    <3>1. (at' = at /\ saving' = saving) \/ \E p \in {"exchange", "top"} : at' = [at EXCEPT !["reader"] = p]
      BY DEF HandshakeFrame, HandshakeEof, mirror
    <3> QED BY <3>1 DEF SandboxTypeOK, Threads
  <2> QED BY <1>5, <2>1, <2>3, <2>4, ReaderMoves, ParentMoves
<1>6. CASE ReaderMove
  <2>1. at["reader"] \notin {"none", "gone"} /\ \E p \in ReaderAt \ {"none"} : at' = [at EXCEPT !["reader"] = p]
    BY <1>6 DEF ReaderMove, ReaderTop, PollWake, PollFrame, PollEof, Woken, TerminalExchange, TerminalRestore,
       AbortIntents, Goto
  <2>2. saving' = "pending" => saving = "pending"
    BY <1>6 DEF ReaderMove, ReaderTop, PollWake, PollFrame, PollEof, Woken, TerminalExchange, TerminalRestore,
       AbortIntents, Abort, parent, mirror
  <2>3. at'["reader"] \in ReaderAt \ {"none"}
    BY <2>1 DEF SandboxTypeOK, Threads
  <2>4. at'["reader"] = "blob" => saving' = "pending"
    <3>1. (\E p : p # "blob" /\ at' = [at EXCEPT !["reader"] = p]) \/ (saving = "pending" /\ saving' = saving)
      <4>1. CASE Woken
        BY <4>1 DEF Woken
      <4>2. CASE ~Woken
        BY <1>6, <4>2 DEF ReaderMove, ReaderTop, PollWake, PollFrame, PollEof, TerminalExchange, TerminalRestore,
           AbortIntents, Goto
      <4> QED BY <4>1, <4>2
    <3> QED BY <3>1 DEF SandboxTypeOK, Threads
  <2> QED BY <1>6, <2>1, <2>2, <2>3, <2>4, ReaderMoves, ParentMoves
<1> QED BY <1>1, <1>2, <1>3, <1>4, <1>5, <1>6

LEMMA VerdictOf ==
  ASSUME NEW b \in BOOLEAN, final' = <<"Completed", b>> \/ final' = <<"Failed", b>>
  PROVE  FinalInv'
BY DEF FinalInv

LEMMA FinalStep ==
  ASSUME SandboxTypeOK, FinalInv,
         RunnerMove \/ PauseMove \/ CallMove \/ ReplyMove \/ ReaderMove \/ WorkerMove
  PROVE  FinalInv'
<1>1. CASE WorkerMove \/ PauseMove \/ CallMove
  BY <1>1, WorkerMoves, CallerMoves DEF parent, FinalInv
<1>2. CASE RunnerMove
  BY <1>2 DEF RunnerMove, AskWorker, ReadReply, ReplyFails, BeginRun, WaitReturns, StartSend, Wait, FinalInv,
     SandboxTypeOK, Goto, Threads, parent, mirror
<1>3. ASSUME NEW p, p # "exchange", at' = [at EXCEPT !["reader"] = p] PROVE FinalInv'
  BY <1>3 DEF FinalInv, SandboxTypeOK, Threads
<1>4. CASE ReaderMove
  <2>1. CASE PollFrame
    <3>1. final' = <<"Completed", TRUE>> \/ final' = <<"Failed", TRUE>> \/ at' = [at EXCEPT !["reader"] = "top"]
      BY <2>1 DEF PollFrame
    <3> QED BY <3>1, <1>3, VerdictOf
  <2>2. CASE PollEof
    BY <2>2, VerdictOf DEF PollEof
  <2>3. CASE ~PollFrame /\ ~PollEof
    <3>1. \E p : p # "exchange" /\ at' = [at EXCEPT !["reader"] = p]
      BY <1>4, <2>3 DEF ReaderMove, ReaderTop, PollWake, Woken, TerminalExchange, TerminalRestore, AbortIntents,
         Goto
    <3> QED BY <3>1, <1>3
  <2> QED BY <2>1, <2>2, <2>3
<1>5. CASE ReplyMove
  <2> PICK h \in {"ack", "blob"} : HandshakeFrame(h) \/ HandshakeEof(h)
    BY <1>5 DEF ReplyMove
  <2>1. \/ final' = <<"Completed", FALSE>> \/ final' = <<"Failed", FALSE>>
        \/ at' = [at EXCEPT !["reader"] = "top"]
        \/ at["reader"] = h /\ at' = at
    BY DEF HandshakeFrame, HandshakeEof
  <2>2. CASE at["reader"] = h /\ at' = at
    BY <2>2 DEF FinalInv
  <2> QED BY <2>1, <2>2, <1>3, VerdictOf
<1> QED BY <1>1, <1>2, <1>4, <1>5

-----------------------------------------------------------------------------
(* A run that is over, and the next one.                                    *)

LEMMA QuietParent ==
  ASSUME SandboxTypeOK, Quiet, ~StartSend, RunnerMove \/ PauseMove \/ CallMove \/ ReplyMove \/ ReaderMove
  PROVE  Quiet'
<1>1. OnlyReplies'
  BY ParentReads, UpRead DEF Quiet, OnlyReplies
<1>2. alive' = alive /\ at'["serve"] = at["serve"] /\ (RunQueued' <=> RunQueued)
  BY ParentMoves, ParentQueue
<1> QED BY <1>1, <1>2 DEF Quiet

LEMMA QuietWorker ==
  ASSUME SandboxTypeOK, PlacesInv, ExecInv, Quiet, WorkerMove PROVE Quiet'
<1> USE DEF Quiet
<1>1. CASE Serve
  <2>1. down # <<>> /\ down' = Tail(down) /\ alive
    BY <1>1 DEF Serve, Reads
  <2>2. 1 \in 1 .. Len(down) /\ Head(down).kind # "run"
    BY <2>1, DownRead DEF RunQueued
  <2>3. ~RunQueued'
    BY <2>1, <2>2, QueuedRead
  <2>4. at'["serve"] = "serve" /\ up' \in {up, Append(up, Frame("reply", 0))}
    BY <1>1, <2>1, <2>2 DEF Serve, SandboxTypeOK, Threads
  <2>5. Frame("reply", 0) \in UpFrames /\ Frame("reply", 0).kind = "reply"
    BY FramesTyped
  <2>6. OnlyReplies'
    BY <2>4, <2>5, UpSent DEF OnlyReplies
  <2> QED BY <2>3, <2>4, <2>6
<1>2. CASE WorkerDies
  BY <1>2 DEF WorkerDies, OnlyReplies
<1>3. CASE ~Serve /\ ~WorkerDies
  <2>1. alive /\ (at["serve"] # "serve" \/ busy \/ at["control"] \in {"poll", "pausing", "acking"})
    <3>1. CASE ServeNext
      BY <1>3, <3>1 DEF ServeNext, ResetExec, StartExec, StartThrows, ExecDone, SignalExit, SendResult, Goto
    <3>2. CASE ControlNext
      BY <3>2 DEF ControlNext, ControlExit, ControlFrame, PauseReturns, SendAck, Goto, Reads
    <3> QED BY <1>3, <3>1, <3>2 DEF WorkerMove, SearchEnds, Report
  <2> QED BY <2>1 DEF PlacesInv, ExecInv
<1> QED BY <1>1, <1>2, <1>3

\* start() only passes when nothing is left of the last run.
LEMMA StartsQuiet ==
  ASSUME Undisturbed', SandboxTypeOK, PlacesInv, FreshInv, StateInv, ResultsInv, StartSend
  PROVE  /\ Quiet /\ alive /\ at["serve"] = "serve" /\ ~RunQueued /\ at["reader"] \in {"none", "gone"}
         /\ at["caller"] = "idle" /\ at["runner"] = "idle" /\ at'["runner"] = "begin"
         /\ \A t \in Threads \ {"runner"} : at'[t] = at[t]
         /\ UNCHANGED <<mirror, calls, prev, final, waited, cancels, saved, alive, up, worker>>
         /\ run' = run + 1 /\ down' = Append(down, Frame("run", run'))
<1>0. at["caller"] = "idle" /\ (run = 0 \/ "crossed" \notin slips)
  BY StartsAlone
<1>1. /\ alive /\ state \in {"Idle", "Completed"} /\ at["runner"] = "idle" /\ at["caller"] = "idle"
      /\ UNCHANGED <<mirror, calls, prev, final, waited, cancels, saved, alive, up, worker>>
      /\ run' = run + 1 /\ down' = Append(down, Frame("run", run'))
  BY <1>0 DEF StartSend, Goto, Send
<1>2. at'["runner"] = "begin" /\ \A t \in Threads \ {"runner"} : at'[t] = at[t]
  BY DEF StartSend, Goto, SandboxTypeOK, Threads
<1>3. at["reader"] \in {"none", "gone"}
  BY <1>1 DEF PlacesInv
<1>4. Quiet
  <2>1. CASE state = "Idle"
    BY <1>0, <1>1, <2>1 DEF StateInv, FreshInv
  <2>2. CASE state = "Completed"
    BY <1>1, <2>2 DEF StateInv, ResultsInv, Over
  <2> QED BY <1>1, <2>1, <2>2
<1> QED BY <1>1, <1>2, <1>3, <1>4 DEF Quiet

LEMMA FreshStep ==
  ASSUME SandboxTypeOK, PlacesInv, ExecInv, FreshInv,
         RunnerMove \/ PauseMove \/ CallMove \/ ReplyMove \/ ReaderMove \/ WorkerMove
  PROVE  FreshInv'
<1> SUFFICES ASSUME run' = 0 PROVE Quiet' /\ waited' = "Idle" /\ at'["reader"] = "none"
  BY DEF FreshInv
<1>1. CASE WorkerMove
  BY <1>1, WorkerMoves, QuietWorker DEF FreshInv, parent
<1>2. CASE PauseMove \/ CallMove
  <2>1. ~StartSend
    <3>1. at'["runner"] = at["runner"]
      BY <1>2, CallerMoves
    <3> QED BY <3>1 DEF StartSend, Goto, SandboxTypeOK, Threads
  <2> QED BY <1>2, <2>1, CallerMoves, QuietParent DEF FreshInv
<1>3. CASE ReplyMove \/ ReaderMove
  <2>1. run = 0
    BY <1>3, ReaderMoves
  <2>2. at["reader"] # "none"
    BY <1>3 DEF ReplyMove, HandshakeFrame, HandshakeEof, ReaderMove, ReaderTop, PollWake, PollFrame, PollEof, Woken,
       TerminalExchange, TerminalRestore, AbortIntents, Goto
  <2> QED BY <2>1, <2>2 DEF FreshInv
<1>4. CASE RunnerMove
  <2>1. ~StartSend /\ run' = run
    <3>1. ~StartSend
      BY DEF StartSend, SandboxTypeOK
    <3> QED BY <1>4, <3>1 DEF RunnerMove, AskWorker, ReadReply, ReplyFails, BeginRun, WaitReturns, Wait, parent
  <2>2. UNCHANGED waited /\ at'["reader"] = at["reader"]
    BY <1>4, <2>1 DEF RunnerMove, AskWorker, ReadReply, ReplyFails, BeginRun, WaitReturns, Wait, parent, Goto,
       SandboxTypeOK, Threads, PlacesInv
  <2> QED BY <1>4, <2>1, <2>2, QuietParent DEF FreshInv
<1> QED BY <1>1, <1>2, <1>3, <1>4

-----------------------------------------------------------------------------
(* Cancelled runs.                                                          *)

LEMMA DoomedStep ==
  ASSUME SandboxTypeOK, PlacesInv, FinalInv, Doomed,
         RunnerMove \/ PauseMove \/ CallMove \/ ReplyMove \/ ReaderMove \/ WorkerMove
  PROVE  Doomed'
<1> USE DEF Doomed
<1>1. CASE WorkerMove
  BY <1>1, WorkerMoves DEF parent, mirror
<1>2. CASE PauseMove \/ CallMove
  <2>1. CASE cancels >= 2
    BY <1>2, <2>1, CallerMoves DEF SandboxTypeOK
  <2>2. CASE CancelExchange
    <3>1. cancels' = cancels + 1
      BY <2>2 DEF CancelExchange
    <3> QED BY <3>1, <2>1 DEF SandboxTypeOK
  <2>3. CASE ~(cancels >= 2) /\ ~CancelExchange
    <3>1. at["caller"] \in {"idle", "cancel.send"} /\ state \in {"Cancelled", "Completed", "Failed"}
      BY <2>3
    <3>2. UNCHANGED <<state, cancels>> /\ at'["caller"] = "idle"
      BY <1>2, <2>3, <3>1 DEF PauseMove, PauseCheck, PauseSend, PauseMark, PauseAwait, PauseFlip, CallMove,
         ResumeSend, ResumeStore, CancelRestore, CancelSend, SaveCheck, SaveAwait, Goto, Call, parent, mirror,
         SandboxTypeOK, Threads, PlacesInv, RunnerAt
    <3> QED BY <1>2, <2>3, <3>2, CallerMoves
  <2> QED BY <2>1, <2>2, <2>3
<1>3. CASE RunnerMove
  <2>1. cancels' = cancels /\ at'["caller"] = at["caller"]
    BY <1>3 DEF RunnerMove, AskWorker, ReadReply, ReplyFails, BeginRun, WaitReturns, StartSend, Wait, parent, Goto,
       SandboxTypeOK, Threads
  <2>2. CASE BeginRun
    <3>1. at["reader"] # "restore" /\ (state = "Cancelled" => at["caller"] = "cancel.restore")
      BY <2>2 DEF BeginRun, PlacesInv, FirstInv
    <3> QED BY <2>1, <3>1
  <2>3. CASE ~BeginRun
    <3>1. state' = state /\ at'["reader"] = at["reader"]
      BY <1>3, <2>3 DEF RunnerMove, AskWorker, ReadReply, ReplyFails, WaitReturns, StartSend, Wait, parent, mirror,
         Goto, SandboxTypeOK, Threads
    <3> QED BY <2>1, <3>1
  <2> QED BY <2>2, <2>3
<1>4. CASE ReplyMove
  <2> PICK h \in {"ack", "blob"} : HandshakeFrame(h) \/ HandshakeEof(h)
    BY <1>4 DEF ReplyMove
  <2>1. at["reader"] = h /\ state' = state
    BY DEF HandshakeFrame, HandshakeEof, Answer, mirror
  <2> QED BY <1>4, <2>1, ReaderMoves
<1>5. CASE ReaderMove
  <2>1. CASE TerminalExchange
    <3>1. state' \in {"Completed", "Failed"} /\ (state = "Cancelled" => at'["reader"] = "restore")
          /\ at["reader"] = "exchange"
      BY <2>1 DEF TerminalExchange, FinalInv, SandboxTypeOK, Threads
    <3> QED BY <1>5, <3>1, ReaderMoves
  <2>2. CASE TerminalRestore
    BY <1>5, <2>2, ReaderMoves DEF TerminalRestore
  <2>3. CASE ~TerminalExchange /\ ~TerminalRestore
    <3>1. state' = state /\ at["reader"] # "restore"
      BY <1>5, <2>3 DEF ReaderMove, ReaderTop, PollWake, PollFrame, PollEof, Woken, AbortIntents, Goto, parent, mirror
    <3> QED BY <1>5, <3>1, ReaderMoves
  <2> QED BY <2>1, <2>2, <2>3
<1> QED BY <1>1, <1>2, <1>3, <1>4, <1>5

LEMMA CancelStep ==
  ASSUME SandboxTypeOK, PlacesInv, FinalInv, CancelInv,
         RunnerMove \/ PauseMove \/ CallMove \/ ReplyMove \/ ReaderMove \/ WorkerMove
  PROVE  CancelInv'
<1>1. Doomed => Doomed'
  BY DoomedStep
<1> DEFINE Queued == \E i \in 1 .. Len(down) : down[i].kind = "cancel"
<1>2. ASSUME NEW f \in DownFrames, f.kind # "cancel", down' \in {down, Append(down, f)} PROVE Queued' => Queued
  BY <1>2, DownSent
<1>3. CASE WorkerMove
  <2>1. at'["caller"] = at["caller"]
    BY <1>3, WorkerMoves
  <2>2. Queued' => Queued
    <3>1. down' = down \/ down' = <<>> \/ (down # <<>> /\ down' = Tail(down))
      BY <1>3 DEF WorkerMove, ServeNext, ControlNext, Serve, ResetExec, StartExec, StartThrows, ExecDone, SignalExit,
         SendResult, ControlExit, ControlFrame, PauseReturns, SendAck, SearchEnds, Report, WorkerDies, Reads
    <3>2. CASE down' = down
      BY <3>2
    <3>3. CASE down' = <<>>
      BY <3>3
    <3>4. CASE down # <<>> /\ down' = Tail(down)
      BY <3>4, DownRead
    <3> QED BY <3>1, <3>2, <3>3, <3>4
  <2>3. exec' = "Cancelled" => exec = "Cancelled" \/ Queued
    <3>1. CASE ControlFrame
      <4>1. down # <<>> /\ down' = Tail(down)
        BY <3>1 DEF ControlFrame, Reads
      <4>2. Head(down) = down[1] /\ 1 \in 1 .. Len(down)
        BY <4>1, DownRead
      <4>3. exec' = "Cancelled" => exec = "Cancelled" \/ Head(down).kind = "cancel"
        BY <3>1 DEF ControlFrame
      <4> QED BY <4>2, <4>3
    <3>2. CASE ~ControlFrame
      BY <1>3, <3>2 DEF WorkerMove, ServeNext, ControlNext, Serve, ResetExec, StartExec, StartThrows, ExecDone,
         SignalExit, SendResult, ControlExit, PauseReturns, SendAck, SearchEnds, Report, WorkerDies, worker
    <3> QED BY <3>1, <3>2
  <2> QED BY <1>1, <2>1, <2>2, <2>3 DEF CancelInv
<1>4. CASE PauseMove \/ CallMove
  <2>1. exec' = exec
    BY <1>4, ParentMoves
  <2>2. CASE CancelExchange
    <3>1. down' = down /\ cancels' = cancels + 1 /\ state' = "Cancelled"
      BY <2>2 DEF CancelExchange
    <3>2. cancels' = 1 \/ cancels' >= 2
      BY <3>1 DEF SandboxTypeOK
    <3>3. at'["caller"] = "cancel.send" => Doomed'
      BY <3>1, <3>2 DEF Doomed
    <3> QED BY <1>1, <2>1, <3>1, <3>3 DEF CancelInv
  <2>3. CASE CancelSend
    <3>1. Doomed
      BY <2>3 DEF CancelSend, CancelInv
    <3> QED BY <1>1, <3>1 DEF CancelInv
  <2>4. CASE ~CancelExchange /\ ~CancelSend
    <3>1. \E k \in {"pause", "resume"} : down' \in {down, Append(down, Frame(k, 0))}
      BY <1>4, <2>4 DEF PauseMove, PauseCheck, PauseSend, PauseMark, PauseAwait, PauseFlip, CallMove, ResumeSend,
         ResumeStore, CancelRestore, SaveCheck, SaveAwait, Send
    <3>2. Queued' => Queued
      BY <3>1, <1>2, FramesTyped
    <3>3. at'["caller"] # "cancel.send"
      BY <1>4, <2>4 DEF PauseMove, PauseCheck, PauseSend, PauseMark, PauseAwait, PauseFlip, CallMove, ResumeSend,
         ResumeStore, CancelRestore, SaveCheck, SaveAwait, Goto, SandboxTypeOK, Threads
    <3> QED BY <1>1, <2>1, <3>2, <3>3 DEF CancelInv
  <2> QED BY <2>2, <2>3, <2>4
<1>5. CASE RunnerMove \/ ReplyMove \/ ReaderMove
  <2>1. exec' = exec
    BY <1>5, ParentMoves
  <2>2. at'["caller"] = at["caller"]
    <3>1. CASE RunnerMove
      BY <3>1 DEF RunnerMove, AskWorker, ReadReply, ReplyFails, BeginRun, WaitReturns, StartSend, Wait, Goto,
         SandboxTypeOK, Threads
    <3> QED BY <1>5, <3>1, ReaderMoves
  <2>3. Queued' => Queued
    <3>1. CASE StartSend
      <4>1. run' \in Nat /\ down' \in {down, Append(down, Frame("run", run'))}
        BY <3>1 DEF StartSend, Send, SandboxTypeOK
      <4>2. Frame("run", run') \in DownFrames /\ Frame("run", run').kind # "cancel"
        BY <4>1, FramesTyped
      <4> QED BY <4>1, <4>2, <1>2
    <3>2. CASE ~StartSend
      <4>1. PICK k \in {"ask", "serialize"} : down' \in {down, Append(down, Frame(k, 0))}
        BY <1>5, <3>2, ParentSends
      <4>2. Frame(k, 0) \in DownFrames /\ Frame(k, 0).kind # "cancel"
        BY FramesTyped
      <4> QED BY <4>1, <4>2, <1>2
    <3> QED BY <3>1, <3>2
  <2> QED BY <1>1, <2>1, <2>2, <2>3 DEF CancelInv
<1> QED BY <1>3, <1>4, <1>5

-----------------------------------------------------------------------------
(* MsgRun and the verdict on it.                                            *)

LEMMA RunsStep ==
  ASSUME Undisturbed', SandboxTypeOK, PlacesInv, FreshInv, StateInv, ResultsInv, RunsInv,
         RunnerMove \/ PauseMove \/ CallMove \/ ReplyMove \/ ReaderMove \/ WorkerMove
  PROVE  RunsInv'
<1>1. CASE StartSend
  <2>1. /\ ~RunQueued /\ run' = run + 1 /\ down' = Append(down, Frame("run", run')) /\ job' = job
        /\ at["serve"] = "serve" /\ at'["serve"] = "serve"
    BY <1>1, StartsQuiet DEF worker, Threads
  <2>2. run' \in Nat /\ Frame("run", run') \in DownFrames /\ Frame("run", run').run = run'
    BY <2>1, FramesTyped DEF SandboxTypeOK
  <2>3. \A i \in 1 .. Len(down') : down'[i].kind = "run" => i = Len(down) + 1 /\ down'[i] = Frame("run", run')
    BY <2>1, <2>2, DownSent DEF RunQueued
  <2> QED BY <2>1, <2>2, <2>3 DEF RunsInv
<1>2. CASE ~StartSend /\ (RunnerMove \/ PauseMove \/ CallMove \/ ReplyMove \/ ReaderMove)
  <2>1. job' = job /\ at'["serve"] = at["serve"]
    BY <1>2, ParentMoves
  <2>2. run' = run
    <3>1. CASE RunnerMove
      BY <1>2, <3>1 DEF RunnerMove, AskWorker, ReadReply, ReplyFails, BeginRun, WaitReturns, Wait, parent
    <3> QED BY <1>2, <3>1, CallerMoves, ReaderMoves
  <2>3. down' = down \/ \E k \in {"ask", "pause", "resume", "cancel", "serialize"} : down' \in {down, Append(down, Frame(k, 0))}
    BY <1>2, ParentSends
  <2>4. ASSUME NEW i \in 1 .. Len(down'), down'[i].kind = "run" PROVE i \in 1 .. Len(down) /\ down'[i] = down[i]
    <3>1. CASE down' = down
      BY <2>4, <3>1
    <3>2. ASSUME NEW k \in {"ask", "pause", "resume", "cancel", "serialize"}, down' \in {down, Append(down, Frame(k, 0))}
          PROVE  i \in 1 .. Len(down) /\ down'[i] = down[i]
      <4>1. Frame(k, 0) \in DownFrames /\ Frame(k, 0).kind # "run"
        BY FramesTyped
      <4> QED BY <2>4, <3>2, <4>1, DownSent
    <3> QED BY <2>3, <3>1, <3>2
  <2> QED BY <2>1, <2>2, <2>4 DEF RunsInv
<1>3. CASE WorkerMove
  <2>1. run' = run
    BY <1>3, WorkerMoves DEF parent
  <2>2. CASE Serve
    <3>1. down # <<>> /\ down' = Tail(down) /\ at["serve"] = "serve"
      BY <2>2 DEF Serve, Reads
    <3>2. 1 \in 1 .. Len(down) /\ Head(down) = down[1]
      BY <3>1, DownRead
    <3>3. CASE Head(down).kind = "run"
      <4>1. \A i \in 1 .. Len(down') : down'[i].kind # "run"
        BY <3>1, <3>2, <3>3, DownRead DEF RunsInv
      <4>2. job' = run
        BY <2>2, <3>2, <3>3 DEF Serve, RunsInv
      <4> QED BY <2>1, <4>1, <4>2 DEF RunsInv
    <3>4. CASE Head(down).kind # "run"
      <4>1. job' = job /\ at'["serve"] = "serve"
        BY <2>2, <3>1, <3>4 DEF Serve, SandboxTypeOK, Threads
      <4> QED BY <2>1, <3>1, <4>1, DownRead DEF RunsInv
    <3> QED BY <3>3, <3>4
  <2>3. CASE WorkerDies
    BY <2>1, <2>3 DEF WorkerDies, RunsInv, worker
  <2>4. CASE ControlFrame
    <3>1. down # <<>> /\ down' = Tail(down) /\ at'["serve"] = at["serve"] /\ job' = job
      BY <2>4 DEF ControlFrame, Reads, SandboxTypeOK, Threads
    <3> QED BY <2>1, <3>1, DownRead DEF RunsInv
  <2>5. CASE ControlExit \/ PauseReturns \/ SendAck \/ SearchEnds \/ Report
    <3>1. down' = down /\ at'["serve"] = at["serve"] /\ job' = job
      BY <2>5 DEF ControlExit, PauseReturns, SendAck, SearchEnds, Report, Goto, SandboxTypeOK, Threads, worker
    <3> QED BY <2>1, <3>1 DEF RunsInv
  <2>6. CASE ResetExec \/ StartExec \/ StartThrows \/ ExecDone \/ SignalExit \/ SendResult
    <3>1. down' = down /\ at["serve"] # "serve" /\ job' = job
      BY <2>6 DEF ResetExec, StartExec, StartThrows, ExecDone, SignalExit, SendResult, Goto, worker
    <3> QED BY <2>1, <3>1 DEF RunsInv
  <2> QED BY <1>3, <2>2, <2>3, <2>4, <2>5, <2>6 DEF WorkerMove, ServeNext, ControlNext
<1> QED BY <1>1, <1>2, <1>3

\* Only start() makes the worker owe a verdict.
LEMMA WorkingStep ==
  ASSUME SandboxTypeOK, PlacesInv, RunsInv, ~StartSend,
         RunnerMove \/ PauseMove \/ CallMove \/ ReplyMove \/ ReaderMove \/ WorkerMove, Working'
  PROVE  Working
<1>1. CASE RunnerMove \/ PauseMove \/ CallMove \/ ReplyMove \/ ReaderMove
  BY <1>1, ParentMoves, ParentQueue DEF Working
<1>2. CASE WorkerMove
  <2>1. alive
    BY <1>2, WorkerMoves DEF Working
  <2>2. CASE Serve
    <3>1. down # <<>> /\ down' = Tail(down)
      BY <2>2 DEF Serve, Reads
    <3>2. 1 \in 1 .. Len(down) /\ Head(down) = down[1]
      BY <3>1, DownRead
    <3>3. CASE Head(down).kind = "run"
      BY <2>1, <3>2, <3>3 DEF Working, RunQueued
    <3>4. CASE Head(down).kind # "run"
      <4>1. RunQueued' <=> RunQueued
        BY <3>1, <3>4, QueuedRead
      <4>2. at'["serve"] = at["serve"]
        BY <2>2, <3>4 DEF Serve, SandboxTypeOK, Threads
      <4> QED BY <2>1, <4>1, <4>2 DEF Working
    <3> QED BY <3>3, <3>4
  <2>3. CASE WorkerDies
    BY <2>3 DEF WorkerDies, Working
  <2>4. CASE ControlFrame
    <3>1. down # <<>> /\ down' = Tail(down) /\ at'["serve"] = at["serve"]
      BY <2>4 DEF ControlFrame, Reads, SandboxTypeOK, Threads
    <3>2. RunQueued' => RunQueued
      BY <3>1, DownRead DEF RunQueued
    <3> QED BY <2>1, <3>1, <3>2 DEF Working
  <2>5. CASE ControlExit \/ PauseReturns \/ SendAck \/ SearchEnds \/ Report
    <3>1. down' = down /\ at'["serve"] = at["serve"]
      BY <2>5 DEF ControlExit, PauseReturns, SendAck, SearchEnds, Report, Goto, SandboxTypeOK, Threads
    <3> QED BY <2>1, <3>1 DEF Working, RunQueued
  <2>6. CASE ResetExec \/ StartExec \/ StartThrows \/ ExecDone \/ SignalExit \/ SendResult
    <3>1. down' = down /\ (at'["serve"] \in RunningAt => at["serve"] \in RunningAt)
      BY <2>6 DEF ResetExec, StartExec, StartThrows, ExecDone, SignalExit, SendResult, Goto, SandboxTypeOK, Threads,
         RunningAt
    <3> QED BY <2>1, <3>1 DEF Working, RunQueued
  <2> QED BY <1>2, <2>2, <2>3, <2>4, <2>5, <2>6 DEF WorkerMove, ServeNext, ControlNext
<1> QED BY <1>1, <1>2

\* What the worker may write, and when.
LEMMA WorkerWrites ==
  ASSUME SandboxTypeOK, PlacesInv, ExecInv, RunsInv, CancelInv, FreshInv, WorkerMove
  PROVE  \/ up' = up
         \/ alive /\ \E f \in UpFrames : up' = Append(up, f) /\
              \/ f.kind = "reply" /\ at["serve"] = "serve"
              \/ f.kind \in {"progress", "pause_ack"} /\ at["serve"] # "serve" /\ down' = down
                 /\ at'["serve"] = at["serve"]
              \/ ControlFrame /\ f.kind = "checkpoint" /\ at["serve"] # "serve"
              \/ f.kind = "error" /\ at["serve"] # "serve" /\ ~Working'
              \/ /\ f.kind = "result" /\ at["serve"] = "join" /\ ~Working'
                 /\ at'["serve"] = "serve" /\ ~RunQueued'
                 /\ f.run \in {0, run} /\ (f.run = 0 => Doomed)
<1> USE DEF UpFrames
<1>1. at["serve"] # "serve" => ~RunQueued /\ job = run
  BY DEF RunsInv, RunQueued
<1>2. CASE Serve
  <2>1. up' = up \/ up' = Append(up, Frame("reply", 0))
    BY <1>2 DEF Serve
  <2>2. alive /\ at["serve"] = "serve"
    BY <1>2 DEF Serve, Reads
  <2> QED BY <2>1, <2>2, FramesTyped
<1>3. CASE Report \/ SendAck
  <2>1. alive /\ down' = down /\ \E k \in {"progress", "pause_ack"} : up' = Append(up, Frame(k, job))
    BY <1>3 DEF Report, SendAck
  <2>2. at["serve"] # "serve" /\ at'["serve"] = at["serve"]
    BY <1>3 DEF Report, SendAck, PlacesInv, ExecInv, Goto, SandboxTypeOK, Threads
  <2>3. job \in Nat
    BY DEF SandboxTypeOK
  <2>4. ASSUME NEW k \in {"progress", "pause_ack"}, up' = Append(up, Frame(k, job))
        PROVE  Frame(k, job) \in UpFrames /\ Frame(k, job).kind = k
    BY <2>3, FramesTyped
  <2> QED BY <2>1, <2>2, <2>4
<1>4. CASE ControlFrame
  <2>1. alive /\ at["serve"] # "serve"
    BY <1>4 DEF ControlFrame, Reads, PlacesInv
  <2>2. (IF exec = "Paused" THEN job ELSE 0) \in Nat
    BY DEF SandboxTypeOK
  <2>3. up' = up \/ \E n \in Nat : up' = Append(up, Frame("checkpoint", n))
    BY <1>4, <2>2 DEF ControlFrame
  <2> QED BY <1>4, <2>1, <2>3, FramesTyped
<1>5. CASE StartThrows
  <2>1. alive /\ at["serve"] = "start" /\ at'["serve"] = "signal.failed" /\ down' = down
        /\ up' = Append(up, Frame("error", job))
    BY <1>5 DEF StartThrows, Goto, SandboxTypeOK, Threads
  <2>2. ~Working'
    BY <1>1, <2>1 DEF Working, RunningAt, RunQueued
  <2>3. Frame("error", job) \in UpFrames /\ Frame("error", job).kind = "error"
    BY FramesTyped DEF SandboxTypeOK
  <2> QED BY <2>1, <2>2, <2>3
<1>6. CASE SendResult
  <2>1. CASE at["serve"] = "join"
    <3>1. alive /\ at'["serve"] = "serve" /\ down' = down
          /\ up' = Append(up, Frame("result", IF exec = "Completed" THEN job ELSE 0))
      BY <1>6, <2>1 DEF SendResult, Goto, SandboxTypeOK, Threads
    <3>2. ~RunQueued' /\ ~Working'
      BY <1>1, <2>1, <3>1 DEF Working, RunningAt, RunQueued
    <3> DEFINE n == IF exec = "Completed" THEN job ELSE 0
    <3>3. n \in Nat /\ n \in {0, run}
      BY <1>1, <2>1 DEF SandboxTypeOK
    <3>4. n = 0 => Doomed
      <4>1. run # 0
        BY <2>1, <3>1 DEF FreshInv, Quiet
      <4>2. exec \in {"Completed", "Cancelled"}
        BY <2>1 DEF ExecInv
      <4> QED BY <1>1, <2>1, <4>1, <4>2 DEF CancelInv
    <3>5. Frame("result", n) \in UpFrames /\ Frame("result", n).kind = "result" /\ Frame("result", n).run = n
      BY <3>3, FramesTyped
    <3> QED BY <2>1, <3>1, <3>2, <3>3, <3>4, <3>5
  <2>2. CASE at["serve"] # "join"
    BY <1>6, <2>2 DEF SendResult, Goto
  <2> QED BY <2>1, <2>2
<1>7. CASE ResetExec \/ StartExec \/ ExecDone \/ SignalExit
  BY <1>7 DEF ResetExec, StartExec, ExecDone, SignalExit
<1>8. CASE ControlExit \/ PauseReturns \/ SearchEnds \/ WorkerDies
  BY <1>8 DEF ControlExit, PauseReturns, SearchEnds, WorkerDies
<1> QED BY <1>2, <1>3, <1>4, <1>5, <1>6, <1>7, <1>8 DEF WorkerMove, ServeNext, ControlNext

LEMMA ResultsStep ==
  ASSUME Undisturbed', SandboxTypeOK, PlacesInv, FreshInv, FinalInv, StateInv, ExecInv, RunsInv, CancelInv, ResultsInv,
         RunnerMove \/ PauseMove \/ CallMove \/ ReplyMove \/ ReaderMove \/ WorkerMove
  PROVE  ResultsInv'
<1>1. CASE StartSend
  <2>1. /\ Quiet /\ up' = up /\ at'["runner"] = "begin"
    BY <1>1, StartsQuiet
  <2>2. \A i \in 1 .. Len(up') : up'[i].kind = "reply"
    BY <2>1 DEF Quiet, OnlyReplies
  <2> QED BY <2>1, <2>2 DEF ResultsInv
<1> SUFFICES ASSUME ~StartSend PROVE ResultsInv'
  BY <1>1
<1>2. (Doomed => Doomed') /\ (Working' => Working)
  BY DoomedStep, WorkingStep
<1>3. CASE RunnerMove \/ PauseMove \/ CallMove \/ ReplyMove \/ ReaderMove
  <2>1. alive' = alive /\ at'["serve"] = at["serve"] /\ (RunQueued' <=> RunQueued)
    BY <1>3, ParentMoves, ParentQueue
  <2>2. run' = run
    <3>1. CASE RunnerMove
      BY <3>1 DEF RunnerMove, AskWorker, ReadReply, ReplyFails, BeginRun, WaitReturns, Wait, parent
    <3> QED BY <1>3, <3>1, CallerMoves, ReaderMoves
  <2>3. \/ up' = up
        \/ /\ up # <<>> /\ up' = Tail(up) /\ 1 \in 1 .. Len(up) /\ Head(up) = up[1] /\ Len(up') \in Nat
           /\ \A i \in 1 .. Len(up') : i + 1 \in 1 .. Len(up) /\ up'[i] = up[i + 1]
    BY <1>3, ParentReads, UpRead
  <2>4. /\ Working' => \A i \in 1 .. Len(up') : up'[i].kind \notin {"result", "error"}
        /\ \A i \in 1 .. Len(up') : up'[i].kind = "result" =>
             /\ up'[i].run \in {0, run'} /\ (up'[i].run = 0 => Doomed')
             /\ alive' => at'["serve"] = "serve" /\ ~RunQueued'
             /\ \A j \in 1 .. Len(up') : i < j => up'[j].kind = "reply"
    <3>1. CASE up' = up
      BY <3>1, <1>2, <2>1, <2>2 DEF ResultsInv
    <3>2. CASE up' # up
      <4>1. Working' => \A i \in 1 .. Len(up') : up'[i].kind \notin {"result", "error"}
        BY <3>2, <1>2, <2>3 DEF ResultsInv
      <4>2. ASSUME NEW i \in 1 .. Len(up'), up'[i].kind = "result"
            PROVE  /\ up'[i].run \in {0, run'} /\ (up'[i].run = 0 => Doomed')
                   /\ alive' => at'["serve"] = "serve" /\ ~RunQueued'
                   /\ \A j \in 1 .. Len(up') : i < j => up'[j].kind = "reply"
        <5>1. i + 1 \in 1 .. Len(up) /\ up[i + 1].kind = "result" /\ up'[i] = up[i + 1]
          BY <3>2, <4>2, <2>3
        <5>2. ASSUME NEW j \in 1 .. Len(up'), i < j PROVE up'[j].kind = "reply"
          <6>1. j + 1 \in 1 .. Len(up) /\ up'[j] = up[j + 1] /\ i + 1 < j + 1
            BY <3>2, <5>2, <2>3
          <6> QED BY <5>1, <6>1 DEF ResultsInv
        <5> QED BY <5>1, <5>2, <1>2, <2>1, <2>2 DEF ResultsInv
      <4> QED BY <4>1, <4>2
    <3> QED BY <3>1, <3>2
  <2>5. ASSUME Quiet' /\ Over /\ at["runner"] # "begin" /\ final' = final /\ output' = output PROVE ResultsInv'
    BY <2>4, <2>5, <2>2, <1>2 DEF ResultsInv
  <2>6. ASSUME Over' => final'[1] # "Completed" PROVE ResultsInv'
    BY <2>4, <2>6 DEF ResultsInv
  <2>7. Quiet => Quiet'
    BY <1>3, QuietParent
  <2>8. ASSUME up # <<>>, up' = Tail(up), Head(up).kind = "result", output' = Head(up).run PROVE ResultsInv'
    <3>1. /\ 1 \in 1 .. Len(up) /\ up[1].kind = "result" /\ Head(up) = up[1] /\ Len(up') \in Nat
          /\ \A i \in 1 .. Len(up') : i + 1 \in 1 .. Len(up) /\ up'[i] = up[i + 1]
      BY <2>8, UpRead
    <3>2. OnlyReplies'
      <4> SUFFICES ASSUME NEW i \in 1 .. Len(up') PROVE up'[i].kind = "reply"
        BY DEF OnlyReplies
      <4>1. i + 1 \in 1 .. Len(up) /\ up'[i] = up[i + 1] /\ 1 < i + 1
        BY <3>1
      <4> QED BY <3>1, <4>1 DEF ResultsInv
    <3>3. Quiet'
      BY <3>1, <3>2, <2>1 DEF ResultsInv, Quiet
    <3> QED BY <2>2, <2>4, <2>8, <3>1, <3>3, <1>2 DEF ResultsInv
  <2>9. CASE RunnerMove
    <3>1. CASE BeginRun
      <4>1. at'["reader"] = "top"
        BY <3>1 DEF BeginRun, SandboxTypeOK, Threads
      <4> QED BY <4>1, <2>6 DEF Over
    <3>2. CASE ~BeginRun
      <4>1. UNCHANGED <<final, output>> /\ at'["reader"] = at["reader"] /\ at["runner"] # "begin"
        BY <2>9, <3>2 DEF RunnerMove, AskWorker, ReadReply, ReplyFails, WaitReturns, Wait, parent, mirror, Goto,
           SandboxTypeOK, Threads
      <4> QED BY <4>1, <2>2, <2>5, <2>6, <2>7 DEF Over, ResultsInv
    <3> QED BY <3>1, <3>2
  <2>10. CASE PauseMove \/ CallMove
    <3>1. UNCHANGED <<final, output>> /\ at'["reader"] = at["reader"] /\ at'["runner"] = at["runner"]
      BY <2>10, CallerMoves
    <3> QED BY <3>1, <2>2, <2>4, <2>5, <2>6, <2>7 DEF Over, ResultsInv
  <2>11. CASE ReplyMove
    <3> PICK h \in {"ack", "blob"} : HandshakeFrame(h) \/ HandshakeEof(h)
      BY <2>11 DEF ReplyMove
    <3>1. CASE HandshakeEof(h)
      <4>1. final' = <<"Failed", FALSE>>
        BY <3>1 DEF HandshakeEof
      <4>2. final'[1] # "Completed"
        BY <4>1
      <4> QED BY <4>2, <2>6
    <3>2. CASE HandshakeFrame(h)
      <4>1. up # <<>> /\ up' = Tail(up) /\ at["reader"] = h
        BY <3>2 DEF HandshakeFrame, Readable
      <4>2. (Head(up).kind = "result" /\ output' = Head(up).run) \/ at' = at \/ at' = [at EXCEPT !["reader"] = "top"]
        BY <3>2 DEF HandshakeFrame
      <4>3. (Head(up).kind = "result" /\ output' = Head(up).run) \/ ~Over'
        BY <4>1, <4>2 DEF Over, SandboxTypeOK, Threads
      <4> QED BY <4>1, <4>3, <2>6, <2>8
    <3> QED BY <3>1, <3>2
  <2>12. CASE ReaderMove
    <3>1. CASE PollEof
      <4>1. final' = <<"Failed", TRUE>>
        BY <3>1 DEF PollEof
      <4>2. final'[1] # "Completed"
        BY <4>1
      <4> QED BY <4>2, <2>6
    <3>2. CASE PollFrame
      <4>1. up # <<>> /\ up' = Tail(up)
        BY <3>2 DEF PollFrame, Readable
      <4>2. (Head(up).kind = "result" /\ output' = Head(up).run) \/ final' = <<"Failed", TRUE>>
            \/ at' = [at EXCEPT !["reader"] = "top"]
        BY <3>2 DEF PollFrame
      <4>3. CASE Head(up).kind = "result" /\ output' = Head(up).run
        BY <4>1, <4>3, <2>8
      <4>4. CASE final' = <<"Failed", TRUE>>
        <5>1. final'[1] # "Completed"
          BY <4>4
        <5> QED BY <5>1, <2>6
      <4>5. CASE at' = [at EXCEPT !["reader"] = "top"]
        <5>1. ~Over'
          BY <4>5 DEF Over, SandboxTypeOK, Threads
        <5> QED BY <5>1, <2>6
      <4> QED BY <4>2, <4>3, <4>4, <4>5
    <3>3. CASE ReaderTop \/ PollWake \/ Woken
      <4>1. \E p \in {"top", "poll", "woken", "ack", "blob"} : at' = [at EXCEPT !["reader"] = p]
        BY <3>3 DEF ReaderTop, PollWake, Woken, Goto, PlacesInv
      <4>2. ~Over'
        BY <4>1 DEF Over, SandboxTypeOK, Threads
      <4> QED BY <4>2, <2>6
    <3>4. CASE TerminalExchange \/ TerminalRestore \/ AbortIntents
      <4>1. UNCHANGED <<final, output>> /\ Over
        BY <3>4 DEF TerminalExchange, TerminalRestore, AbortIntents, Goto, Over
      <4>2. at'["runner"] = at["runner"]
        BY <2>12, ReaderMoves
      <4>3. final[1] = "Completed" /\ at["runner"] # "begin" => Quiet
        BY <4>1 DEF ResultsInv
      <4> QED BY <4>1, <4>2, <4>3, <2>2, <2>4, <2>5, <2>6, <2>7 DEF ResultsInv
    <3> QED BY <2>12, <3>1, <3>2, <3>3, <3>4 DEF ReaderMove
  <2> QED BY <1>3, <2>9, <2>10, <2>11, <2>12
<1>4. CASE WorkerMove
  <2>1. /\ UNCHANGED <<run, output, final>> /\ at'["reader"] = at["reader"] /\ at'["runner"] = at["runner"]
        /\ (alive' => alive)
    BY <1>4, WorkerMoves DEF parent, mirror
  <2>2. Over' /\ at'["runner"] # "begin" /\ final'[1] = "Completed" =>
          Quiet' /\ output' \in {0, run'} /\ (output' = 0 => Doomed')
    <3>1. Quiet => Quiet'
      BY <1>4, QuietWorker
    <3> QED BY <2>1, <3>1, <1>2 DEF ResultsInv, Over
  <2>3. \A i \in 1 .. Len(up) : up[i].kind = "result" => (alive' => at'["serve"] = "serve" /\ ~RunQueued')
    <3> SUFFICES ASSUME NEW i \in 1 .. Len(up), up[i].kind = "result", alive'
                 PROVE  at'["serve"] = "serve" /\ ~RunQueued'
      OBVIOUS
    <3>1. alive /\ at["serve"] = "serve" /\ ~RunQueued
      BY <2>1 DEF ResultsInv
    <3>2. CASE Serve
      <4>1. down # <<>> /\ down' = Tail(down)
        BY <3>2 DEF Serve, Reads
      <4>2. Head(down).kind # "run"
        BY <3>1, <4>1, DownRead DEF RunQueued
      <4>3. at'["serve"] = "serve"
        BY <3>1, <3>2, <4>2 DEF Serve, SandboxTypeOK, Threads
      <4> QED BY <3>1, <4>1, <4>2, <4>3, QueuedRead
    <3>3. CASE ~Serve
      <4>1. WorkerDies
        BY <1>4, <3>1, <3>3 DEF WorkerMove, ServeNext, ControlNext, ResetExec, StartExec, StartThrows, ExecDone,
           SignalExit, SendResult, ControlExit, ControlFrame, PauseReturns, SendAck, SearchEnds, Report, Goto, Reads,
           PlacesInv, ExecInv
      <4> QED BY <4>1 DEF WorkerDies
    <3> QED BY <3>2, <3>3
  <2>4. CASE up' = up
    BY <2>1, <2>2, <2>3, <2>4, <1>2 DEF ResultsInv
  <2>5. CASE up' # up
    <3> PICK f \in UpFrames :
          /\ alive /\ up' = Append(up, f)
          /\ \/ f.kind = "reply" /\ at["serve"] = "serve"
             \/ f.kind \in {"progress", "pause_ack"} /\ at["serve"] # "serve"
             \/ f.kind = "checkpoint" /\ at["serve"] # "serve"
             \/ f.kind = "error" /\ at["serve"] # "serve" /\ ~Working'
             \/ /\ f.kind = "result" /\ at["serve"] = "join" /\ ~Working'
                /\ at'["serve"] = "serve" /\ ~RunQueued'
                /\ f.run \in {0, run} /\ (f.run = 0 => Doomed)
      BY <1>4, <2>5, WorkerWrites
    <3>1. /\ Len(up) \in Nat /\ Len(up') = Len(up) + 1
          /\ \A i \in 1 .. Len(up) : i \in 1 .. Len(up') /\ up'[i] = up[i]
          /\ \A i \in 1 .. Len(up') : i \in 1 .. Len(up) \/ (i = Len(up) + 1 /\ up'[i] = f)
      BY UpSent
    <3>2. Working' => \A i \in 1 .. Len(up') : up'[i].kind \notin {"result", "error"}
      BY <3>1, <1>2 DEF ResultsInv
    <3>3. f.kind # "reply" => \A i \in 1 .. Len(up) : up[i].kind # "result"
      BY DEF ResultsInv
    <3>4. ASSUME NEW i \in 1 .. Len(up'), up'[i].kind = "result"
          PROVE  /\ up'[i].run \in {0, run'} /\ (up'[i].run = 0 => Doomed')
                 /\ alive' => at'["serve"] = "serve" /\ ~RunQueued'
                 /\ \A j \in 1 .. Len(up') : i < j => up'[j].kind = "reply"
      <4>1. CASE i \in 1 .. Len(up)
        <5>1. up[i].kind = "result" /\ up'[i] = up[i] /\ f.kind = "reply"
          BY <3>1, <3>3, <3>4, <4>1
        <5>2. ASSUME NEW j \in 1 .. Len(up'), i < j PROVE up'[j].kind = "reply"
          BY <3>1, <4>1, <5>1, <5>2 DEF ResultsInv
        <5> QED BY <2>1, <2>3, <4>1, <5>1, <5>2, <1>2 DEF ResultsInv
      <4>2. CASE i \notin 1 .. Len(up)
        <5>1. i = Len(up) + 1 /\ up'[i] = f /\ f.kind = "result"
          BY <3>1, <3>4, <4>2
        <5>2. \A j \in 1 .. Len(up') : ~(i < j)
          BY <3>1, <5>1
        <5> QED BY <2>1, <5>1, <5>2, <1>2
      <4> QED BY <4>1, <4>2
    <3> QED BY <2>2, <3>2, <3>4 DEF ResultsInv
  <2> QED BY <2>4, <2>5
<1> QED BY <1>3, <1>4

-----------------------------------------------------------------------------
(* Checkpoints.                                                             *)

NoCheckpoint == \A i \in 1 .. Len(up) : up[i].kind # "checkpoint"
NothingHeard == \A i \in 1 .. Len(down) : ~Heard(i)

LEMMA AsksStep ==
  ASSUME Undisturbed', SandboxTypeOK, PlacesInv, FreshInv, FinalInv, StateInv, ExecInv, RunsInv, CancelInv, ResultsInv,
         AsksInv, RunnerMove \/ PauseMove \/ CallMove \/ ReplyMove \/ ReaderMove \/ WorkerMove
  PROVE  AsksInv'
<1> SUFFICES ASSUME Working' PROVE AsksInv'
  BY DEF AsksInv
<1>1. CASE StartSend
  <2>1. OnlyReplies /\ up' = up /\ run' = run + 1 /\ down' = Append(down, Frame("run", run'))
    BY <1>1, StartsQuiet DEF Quiet
  <2>2. Frame("run", run') \in DownFrames /\ Frame("run", run').kind = "run"
    BY <2>1, FramesTyped DEF SandboxTypeOK
  <2>3. /\ Len(down) \in Nat /\ Len(down') = Len(down) + 1 /\ down'[Len(down')].kind = "run"
        /\ \A i \in 1 .. Len(down') : i \in 1 .. Len(down) \/ i = Len(down')
    BY <2>1, <2>2, AppendOf DEF SandboxTypeOK
  <2>4. ASSUME NEW i \in 1 .. Len(down') PROVE ~Heard(i)'
    <3>1. Len(down') \in 1 .. Len(down')
      BY <2>3
    <3>2. i < Len(down') \/ i = Len(down')
      BY <2>3
    <3> QED BY <2>3, <3>1, <3>2 DEF Heard
  <2>5. NoCheckpoint'
    BY <2>1 DEF OnlyReplies, NoCheckpoint
  <2> QED BY <2>4, <2>5 DEF AsksInv, NoCheckpoint
<1> SUFFICES ASSUME ~StartSend PROVE AsksInv'
  BY <1>1
<1>2. Working /\ alive
  BY WorkingStep DEF Working
<1>3. ~Asked => NothingHeard /\ NoCheckpoint
  BY <1>2 DEF AsksInv, NothingHeard, NoCheckpoint
<1>4. ASSUME NothingHeard', NoCheckpoint' PROVE AsksInv'
  BY <1>4 DEF AsksInv, NothingHeard, NoCheckpoint
<1>5. ASSUME down' = down, up' = up, Asked => Asked' PROVE AsksInv'
  BY <1>2, <1>5 DEF AsksInv, Heard
<1>6. ASSUME up' = up \/ (up # <<>> /\ up' = Tail(up)), NoCheckpoint PROVE NoCheckpoint'
  BY <1>6, UpRead DEF NoCheckpoint
<1>7. ASSUME NEW f \in DownFrames, f.kind # "serialize", down' \in {down, Append(down, f)}, NothingHeard
      PROVE  NothingHeard'
  <2>1. /\ Len(down) \in Nat /\ Len(down') \in Nat
        /\ \A i \in 1 .. Len(down) : i \in 1 .. Len(down') /\ down'[i] = down[i]
        /\ \A i \in 1 .. Len(down') : i \in 1 .. Len(down) \/ (i = Len(down) + 1 /\ i = Len(down') /\ down'[i] = f)
    BY <1>7, DownSent
  <2>2. ASSUME NEW i \in 1 .. Len(down'), Heard(i)' PROVE FALSE
    <3>1. i \in 1 .. Len(down)
      BY <1>7, <2>1, <2>2 DEF Heard
    <3>2. Heard(i)
      BY <2>1, <2>2, <3>1 DEF Heard
    <3> QED BY <1>7, <3>1, <3>2 DEF NothingHeard
  <2> QED BY <2>2 DEF NothingHeard
<1>8. CASE RunnerMove
  <2>1. CASE Asked
    <3>1. run # 0 /\ at["reader"] = "blob"
      BY <2>1 DEF Asked, FreshInv
    <3>2. down' = down /\ up' = up /\ at'["reader"] = at["reader"]
      BY <1>8, <3>1 DEF RunnerMove, AskWorker, ReadReply, ReplyFails, BeginRun, WaitReturns, Wait, Goto, SandboxTypeOK,
         Threads, PlacesInv
    <3> QED BY <3>1, <3>2, <1>5 DEF Asked
  <2>2. CASE ~Asked
    <3>1. down' \in {down, Append(down, Frame("ask", 0))}
      BY <1>8, ParentSends
    <3>2. NothingHeard'
      BY <1>3, <1>7, <2>2, <3>1, FramesTyped
    <3> QED BY <1>3, <1>4, <1>6, <1>8, <2>2, <3>2, ParentReads
  <2> QED BY <2>1, <2>2
<1>9. CASE PauseMove \/ CallMove
  <2>1. up' = up /\ at'["reader"] = at["reader"]
    BY <1>9, CallerMoves
  <2>2. CASE Asked
    <3>1. at["caller"] = "save.await" /\ saving = "pending"
      BY <2>2 DEF Asked, PlacesInv
    <3> QED BY <1>9, <3>1 DEF PauseMove, PauseCheck, PauseSend, PauseMark, PauseAwait, PauseFlip, CallMove, ResumeSend,
               ResumeStore, CancelExchange, CancelRestore, CancelSend, SaveCheck, SaveAwait, Goto, Call
  <2>3. CASE ~Asked
    <3>1. \E k \in {"pause", "resume", "cancel"} : down' \in {down, Append(down, Frame(k, 0))}
      BY <1>9, ParentSends
    <3>2. NothingHeard'
      BY <1>3, <1>7, <2>3, <3>1, FramesTyped
    <3> QED BY <1>3, <1>4, <1>6, <2>1, <2>3, <3>2
  <2> QED BY <2>2, <2>3
<1>10. CASE ReplyMove
  <2> PICK h \in {"ack", "blob"} : HandshakeFrame(h) \/ HandshakeEof(h)
    BY <1>10 DEF ReplyMove
  <2>1. ~HandshakeEof(h)
    BY <1>2 DEF HandshakeEof, AtEof, PlacesInv
  <2>2. up # <<>> /\ up' = Tail(up) /\ down' = down /\ at["reader"] = h
    BY <2>1 DEF HandshakeFrame, Readable, Answer
  <2>3. /\ Head(up) = up[1] /\ 1 \in 1 .. Len(up) /\ Len(up') \in Nat
        /\ \A i \in 1 .. Len(up') : i + 1 \in 1 .. Len(up) /\ up'[i] = up[i + 1]
    BY <2>2, UpRead
  <2>4. NothingHeard => NothingHeard'
    BY <2>2 DEF NothingHeard, Heard
  <2>5. CASE ~Asked
    BY <1>3, <1>4, <1>6, <2>2, <2>4, <2>5
  <2>6. CASE Asked /\ Head(up).kind = "checkpoint"
    <3>1. NothingHeard
      BY <1>2, <2>3, <2>6 DEF AsksInv, NothingHeard
    <3>2. NoCheckpoint'
      <4> SUFFICES ASSUME NEW i \in 1 .. Len(up'), up'[i].kind = "checkpoint" PROVE FALSE
        BY DEF NoCheckpoint
      <4>1. i + 1 \in 1 .. Len(up) /\ up[i + 1].kind = "checkpoint" /\ 1 # i + 1
        BY <2>3
      <4> QED BY <1>2, <2>3, <2>6, <4>1 DEF AsksInv
    <3> QED BY <1>4, <2>4, <3>1, <3>2
  <2>7. CASE Asked /\ Head(up).kind # "checkpoint"
    <3>1. Head(up).kind \notin {"result", "error"}
      BY <1>2, <2>3 DEF ResultsInv
    <3>2. at' = at
      BY <2>1, <2>2, <2>7, <3>1 DEF HandshakeFrame, Reply, Asked
    <3>3. Asked' /\ \A i : Heard(i)' <=> Heard(i)
      BY <2>2, <2>7, <3>2 DEF Asked, Heard
    <3>4. ASSUME NEW i \in 1 .. Len(down'), Heard(i)'
          PROVE  Asked' /\ i = Len(down') /\ \A j \in 1 .. Len(up') : up'[j].kind # "checkpoint"
      BY <1>2, <2>2, <2>3, <3>3, <3>4 DEF AsksInv
    <3>5. ASSUME NEW i \in 1 .. Len(up'), up'[i].kind = "checkpoint", NEW j \in 1 .. Len(up'), up'[j].kind = "checkpoint"
          PROVE  i = j
      <4>1. i + 1 \in 1 .. Len(up) /\ j + 1 \in 1 .. Len(up) /\ up[i + 1].kind = "checkpoint" /\ up[j + 1].kind = "checkpoint"
        BY <2>3, <3>5
      <4>2. i + 1 = j + 1
        BY <1>2, <4>1 DEF AsksInv
      <4> QED BY <4>2
    <3> QED BY <3>3, <3>4, <3>5 DEF AsksInv
  <2> QED BY <2>5, <2>6, <2>7
<1>11. CASE ReaderMove
  <2>1. at["reader"] # "blob"
    BY <1>11 DEF ReaderMove, ReaderTop, PollWake, PollFrame, PollEof, Woken, TerminalExchange, TerminalRestore,
       AbortIntents, Goto
  <2>2. NothingHeard /\ NoCheckpoint
    BY <1>3, <2>1 DEF Asked
  <2>3. NoCheckpoint'
    BY <1>6, <1>11, <2>2, ParentReads
  <2>4. CASE down' = down
    <3>1. NothingHeard'
      BY <2>2, <2>4 DEF NothingHeard, Heard
    <3> QED BY <1>4, <2>3, <3>1
  <2>5. CASE down' # down
    <3>1. Woken
      BY <1>11, <2>5 DEF ReaderMove, ReaderTop, PollWake, PollFrame, PollEof, TerminalExchange, TerminalRestore,
         AbortIntents
    <3>2. down' = Append(down, Frame("serialize", 0)) /\ Asked'
      BY <1>2, <2>5, <3>1 DEF Woken, Send, Asked, SandboxTypeOK, Threads
    <3>3. /\ Len(down) \in Nat /\ Len(down') \in Nat
          /\ \A i \in 1 .. Len(down) : i \in 1 .. Len(down') /\ down'[i] = down[i]
          /\ \A i \in 1 .. Len(down') : i \in 1 .. Len(down) \/ i = Len(down')
      BY <3>2, DownSent, FramesTyped
    <3>4. ASSUME NEW i \in 1 .. Len(down'), Heard(i)' PROVE i = Len(down')
      <4>1. ASSUME i \in 1 .. Len(down) PROVE Heard(i)
        BY <3>3, <3>4, <4>1 DEF Heard
      <4> QED BY <2>2, <3>3, <4>1 DEF NothingHeard
    <3> QED BY <2>3, <3>2, <3>4 DEF AsksInv, NoCheckpoint
  <2> QED BY <2>4, <2>5
<1>12. CASE WorkerMove
  <2>1. Asked' <=> Asked
    BY <1>12, WorkerMoves DEF Asked
  <2>2. down' = down \/ (down # <<>> /\ down' = Tail(down))
    BY <1>12 DEF WorkerMove, ServeNext, ControlNext, Serve, ResetExec, StartExec, StartThrows, ExecDone, SignalExit,
       SendResult, ControlExit, ControlFrame, PauseReturns, SendAck, SearchEnds, Report, WorkerDies, Reads, Working
  <2>3. ASSUME NEW i \in 1 .. Len(down'), Heard(i)' PROVE Asked /\ i = Len(down') /\ NoCheckpoint
    <3>1. CASE down' = down
      BY <1>2, <2>3, <3>1 DEF Heard, AsksInv, NoCheckpoint
    <3>2. CASE down # <<>> /\ down' = Tail(down)
      <4>1. /\ Len(down') \in Nat /\ Len(down) = Len(down') + 1
            /\ i + 1 \in 1 .. Len(down) /\ down'[i] = down[i + 1]
            /\ \A j \in 1 .. Len(down) : j # 1 => j - 1 \in 1 .. Len(down') /\ down[j] = down'[j - 1]
        BY <2>3, <3>2, DownRead
      <4>2. ASSUME NEW j \in 1 .. Len(down), i + 1 < j PROVE down[j].kind # "run"
        <5>1. j # 1 /\ i < j - 1
          BY <4>2
        <5>2. j - 1 \in 1 .. Len(down') /\ down[j] = down'[j - 1]
          BY <4>1, <5>1
        <5> QED BY <2>3, <5>1, <5>2 DEF Heard
      <4>3. Heard(i + 1)
        BY <2>3, <4>1, <4>2 DEF Heard
      <4>4. Asked /\ i + 1 = Len(down) /\ NoCheckpoint
        BY <1>2, <4>1, <4>3 DEF AsksInv, NoCheckpoint
      <4> QED BY <4>1, <4>4
    <3> QED BY <2>2, <3>1, <3>2
  <2>4. CASE up' = up
    BY <1>2, <2>1, <2>3, <2>4 DEF AsksInv, NoCheckpoint
  <2>5. ASSUME NEW f \in UpFrames, up' = Append(up, f), f.kind # "checkpoint" PROVE AsksInv'
    <3>1. /\ Len(up) \in Nat /\ Len(up') = Len(up) + 1
          /\ \A i \in 1 .. Len(up) : i \in 1 .. Len(up') /\ up'[i] = up[i]
          /\ \A i \in 1 .. Len(up') : i \in 1 .. Len(up) \/ (i = Len(up) + 1 /\ up'[i] = f)
      BY <2>5, UpSent
    <3>2. \A i \in 1 .. Len(up') : up'[i].kind = "checkpoint" => i \in 1 .. Len(up) /\ up[i].kind = "checkpoint"
      BY <2>5, <3>1
    <3> QED BY <1>2, <2>1, <2>3, <3>2 DEF AsksInv, NoCheckpoint
  <2>6. ASSUME NEW f \in UpFrames, up' = Append(up, f), f.kind = "checkpoint", ControlFrame, at["serve"] # "serve"
        PROVE  AsksInv'
    <3>1. down # <<>> /\ down' = Tail(down) /\ Head(down).kind = "serialize"
      <4>1. up' # up
        BY <2>6, UpSent
      <4> QED BY <2>6, <4>1 DEF ControlFrame, Reads
    <3>2. 1 \in 1 .. Len(down) /\ Head(down) = down[1] /\ Len(down) \in Nat
      BY <3>1, DownRead
    <3>3. Heard(1)
      BY <2>6, <3>1, <3>2 DEF Heard, RunsInv
    <3>4. Asked /\ 1 = Len(down) /\ NoCheckpoint
      BY <1>2, <3>2, <3>3 DEF AsksInv, NoCheckpoint
    <3>5. Len(down') = 0
      BY <3>1, <3>4, DownRead
    <3>6. /\ Len(up) \in Nat /\ Len(up') = Len(up) + 1
          /\ \A i \in 1 .. Len(up) : i \in 1 .. Len(up') /\ up'[i] = up[i]
          /\ \A i \in 1 .. Len(up') : i \in 1 .. Len(up) \/ (i = Len(up) + 1 /\ up'[i] = f)
      BY <2>6, UpSent
    <3>7. \A i \in 1 .. Len(up') : up'[i].kind = "checkpoint" => i = Len(up) + 1
      BY <3>4, <3>6 DEF NoCheckpoint
    <3>8. \A i \in 1 .. Len(down') : ~Heard(i)'
      BY <3>5
    <3> QED BY <2>1, <3>4, <3>7, <3>8 DEF AsksInv
  <2> QED BY <1>12, <2>4, <2>5, <2>6, WorkerWrites
<1> QED BY <1>8, <1>9, <1>10, <1>11, <1>12

\* A parked search stays parked as long as its caller does not ask for more.
LEMMA ParkedWorker ==
  ASSUME SandboxTypeOK, ExecInv, Parked, WorkerMove
  PROVE  Parked' /\ up' \in {up, Append(up, Frame("pause_ack", job))}
<1>1. /\ UNCHANGED <<run, final>> /\ at'["reader"] = at["reader"] /\ at'["runner"] = at["runner"] /\ (alive' => alive)
  BY WorkerMoves DEF parent, mirror
<1>2. alive => exec = "Paused" /\ down = <<>> /\ busy /\ at["serve"] = "running"
  BY DEF Parked, ExecInv
<1>3. alive' => exec' = "Paused" /\ down' = <<>>
  <2> SUFFICES ASSUME alive' PROVE exec' = "Paused" /\ down' = <<>>
    OBVIOUS
  <2>1. CASE ControlNext
    BY <1>1, <1>2, <2>1 DEF ControlNext, ControlExit, ControlFrame, PauseReturns, SendAck, Reads, worker
  <2>2. CASE ~ControlNext
    BY <1>1, <1>2, <2>2 DEF WorkerMove, ServeNext, Serve, ResetExec, StartExec, StartThrows, ExecDone, SignalExit,
       SendResult, SearchEnds, Report, WorkerDies, Reads, Goto
  <2> QED BY <2>1, <2>2
<1>4. up' \in {up, Append(up, Frame("pause_ack", job))}
  <2>1. CASE ControlNext
    BY <1>2, <2>1 DEF ControlNext, ControlExit, ControlFrame, PauseReturns, SendAck, Reads
  <2>2. CASE ~ControlNext
    BY <1>2, <2>2 DEF WorkerMove, ServeNext, Serve, ResetExec, StartExec, StartThrows, ExecDone, SignalExit,
       SendResult, SearchEnds, Report, WorkerDies, Reads, Goto
  <2> QED BY <2>1, <2>2
<1>5. \A i \in 1 .. Len(up') : up'[i].kind # "result"
  <2>1. Frame("pause_ack", job) \in UpFrames /\ Frame("pause_ack", job).kind = "pause_ack"
    BY FramesTyped DEF SandboxTypeOK
  <2> QED BY <1>4, <2>1, UpSent DEF Parked
<1> QED BY <1>1, <1>3, <1>4, <1>5 DEF Parked, Over

LEMMA ParkedStep ==
  ASSUME Undisturbed', SandboxTypeOK, PlacesInv, FreshInv, StateInv, ExecInv, Parked, run # 0,
         saving # "pending" \/ at["reader"] = "blob",
         RunnerMove \/ SaveAwait \/ ReplyMove \/ ReaderMove \/ WorkerMove
  PROVE  Parked' /\ run' = run /\ ~StartSend
<1>1. ~StartSend
  <2> SUFFICES ASSUME StartSend PROVE FALSE
    OBVIOUS
  <2>1. state \in {"Idle", "Completed"} /\ at["runner"] = "idle" /\ "crossed" \notin slips
    BY StartsAlone DEF StartSend, Goto
  <2>2. state = "Completed" /\ Over /\ final[1] = "Completed"
    BY <2>1 DEF StateInv, Over
  <2> QED BY <2>2 DEF Parked
<1>2. CASE WorkerMove
  BY <1>1, <1>2, WorkerMoves, ParkedWorker DEF parent
<1>3. CASE RunnerMove \/ SaveAwait \/ ReplyMove \/ ReaderMove
  <2>1. exec' = exec /\ alive' = alive
    BY <1>3, ParentMoves DEF CallMove
  <2>2. \A i \in 1 .. Len(up') : up'[i].kind # "result"
    BY <1>3, ParentReads, UpRead DEF Parked, CallMove
  <2>3. CASE RunnerMove
    <3>1. /\ UNCHANGED <<run, final, down>> /\ at'["reader"] = at["reader"] /\ at'["runner"] # "begin"
      BY <1>1, <2>3 DEF RunnerMove, AskWorker, ReadReply, ReplyFails, BeginRun, WaitReturns, Wait, Goto, SandboxTypeOK,
         Threads, PlacesInv, Parked, parent
    <3> QED BY <1>1, <2>1, <2>2, <3>1 DEF Parked, Over
  <2>4. CASE SaveAwait
    <3>1. UNCHANGED <<run, final, down>> /\ at'["reader"] = at["reader"] /\ at'["runner"] = at["runner"]
      BY <2>4 DEF SaveAwait, Goto, SandboxTypeOK, Threads
    <3> QED BY <1>1, <2>1, <2>2, <3>1 DEF Parked, Over
  <2>5. CASE ReplyMove \/ ReaderMove
    <3>1. run' = run /\ at'["runner"] = at["runner"]
      BY <2>5, ReaderMoves
    <3>2. down' = down
      <4>1. CASE Woken
        BY <4>1 DEF Woken
      <4>2. CASE ~Woken
        BY <2>5, <4>2 DEF ReplyMove, HandshakeFrame, HandshakeEof, Answer, ReaderMove, ReaderTop, PollWake, PollFrame,
           PollEof, TerminalExchange, TerminalRestore, AbortIntents
      <4> QED BY <4>1, <4>2
    <3>3. ASSUME Readable PROVE Head(up).kind # "result"
      BY <3>3, UpRead, TailOf DEF Readable, Parked, SandboxTypeOK
    <3>4. at'["reader"] # "none" /\ (Over' => final'[1] = "Failed")
      <4>1. CASE PollEof \/ \E h \in {"ack", "blob"} : HandshakeEof(h)
        <5>1. (\E b \in BOOLEAN : final' = <<"Failed", b>>) /\ at' = [at EXCEPT !["reader"] = "exchange"]
          BY <4>1 DEF PollEof, HandshakeEof, Goto
        <5>2. final'[1] = "Failed"
          BY <5>1
        <5>3. at'["reader"] = "exchange"
          BY <5>1 DEF SandboxTypeOK, Threads
        <5> QED BY <5>2, <5>3
      <4>2. CASE PollFrame \/ \E h \in {"ack", "blob"} : HandshakeFrame(h)
        <5>1. \/ final' = <<"Failed", TRUE>> /\ at' = [at EXCEPT !["reader"] = "exchange"]
              \/ at' = [at EXCEPT !["reader"] = "top"] \/ (at' = at /\ at["reader"] \in {"ack", "blob"})
          BY <3>3, <4>2 DEF PollFrame, HandshakeFrame
        <5>2. CASE final' = <<"Failed", TRUE>> /\ at' = [at EXCEPT !["reader"] = "exchange"]
          <6>1. final'[1] = "Failed"
            BY <5>2
          <6>2. at'["reader"] = "exchange"
            BY <5>2 DEF SandboxTypeOK, Threads
          <6> QED BY <6>1, <6>2
        <5>3. CASE at' = [at EXCEPT !["reader"] = "top"]
          BY <5>3 DEF Over, SandboxTypeOK, Threads
        <5>4. CASE at' = at /\ at["reader"] \in {"ack", "blob"}
          BY <5>4 DEF Over
        <5> QED BY <5>1, <5>2, <5>3, <5>4
      <4>3. CASE ReaderTop \/ PollWake \/ Woken
        <5>1. \E p \in {"top", "poll", "woken", "ack", "blob"} : at' = [at EXCEPT !["reader"] = p]
          BY <4>3 DEF ReaderTop, PollWake, Woken, Goto, PlacesInv
        <5> QED BY <5>1 DEF Over, SandboxTypeOK, Threads
      <4>4. CASE TerminalExchange \/ TerminalRestore \/ AbortIntents
        <5>1. Over /\ final' = final /\ \E p \in {"restore", "abort", "gone"} : at' = [at EXCEPT !["reader"] = p]
          BY <4>4 DEF TerminalExchange, TerminalRestore, AbortIntents, Goto, Over
        <5>2. at'["reader"] # "none"
          BY <5>1 DEF SandboxTypeOK, Threads
        <5> QED BY <5>1, <5>2 DEF Parked
      <4> QED BY <2>5, <4>1, <4>2, <4>3, <4>4 DEF ReplyMove, ReaderMove
    <3> QED BY <1>1, <2>1, <2>2, <3>1, <3>2, <3>4 DEF Parked
  <2> QED BY <1>3, <2>3, <2>4, <2>5
<1> QED BY <1>2, <1>3

\* The three places a checkpoint may be in.
InSocket(i) == up[i].kind = "checkpoint" /\ up[i].run # 0
InIntent == saving = "ok" /\ at["caller"] = "save.await" /\ blob # 0
Alone(i) == \A j \in 1 .. Len(up) : up[j].kind # "error" /\ (up[j].kind = "checkpoint" => i = j)

LEMMA BlobsCases ==
  BlobsInv <=>
    /\ \A i \in 1 .. Len(up) : InSocket(i) => up[i].run = run /\ Asked /\ Parked /\ Alone(i)
    /\ InIntent => blob = run /\ Parked
    /\ saved # 0 => saved = run /\ Parked /\ at["caller"] = "idle"
BY DEF BlobsInv, InSocket, InIntent, Alone

LEMMA BlobsCasesNext ==
  BlobsInv' <=>
    /\ \A i \in 1 .. Len(up') : InSocket(i)' => up'[i].run = run' /\ Asked' /\ Parked' /\ Alone(i)'
    /\ InIntent' => blob' = run' /\ Parked'
    /\ saved' # 0 => saved' = run' /\ Parked' /\ at'["caller"] = "idle"
BY DEF BlobsInv, InSocket, InIntent, Alone

LEMMA SocketStep ==
  ASSUME Undisturbed', SandboxTypeOK, PlacesInv, FreshInv, StateInv, ExecInv, RunsInv, CancelInv, ResultsInv,
         AsksInv, AsksInv', BlobsInv,
         RunnerMove \/ PauseMove \/ CallMove \/ ReplyMove \/ ReaderMove \/ WorkerMove,
         NEW i \in 1 .. Len(up'), InSocket(i)'
  PROVE  up'[i].run = run' /\ Asked' /\ Parked' /\ Alone(i)'
<1>1. ASSUME NEW k \in 1 .. Len(up), InSocket(k)
      PROVE  /\ up[k].run = run /\ run # 0 /\ Asked /\ Parked /\ Alone(k)
             /\ ~(PauseMove \/ CallMove \/ ReaderMove)
  <2>1. up[k].run = run /\ run # 0 /\ Asked /\ Parked /\ Alone(k)
    BY <1>1, BlobsCases DEF InSocket
  <2>2. at["caller"] = "save.await" /\ saving = "pending" /\ at["reader"] = "blob"
    BY <2>1 DEF Asked, PlacesInv
  <2>3. ~(PauseMove \/ CallMove)
    BY <2>2 DEF PauseMove, PauseCheck, PauseSend, PauseMark, PauseAwait, PauseFlip, CallMove, ResumeSend,
       ResumeStore, CancelExchange, CancelRestore, CancelSend, SaveCheck, SaveAwait, Goto, Call
  <2>4. ~ReaderMove
    BY <2>2 DEF ReaderMove, ReaderTop, PollWake, PollFrame, PollEof, Woken, TerminalExchange, TerminalRestore,
       AbortIntents, Goto
  <2> QED BY <2>1, <2>3, <2>4
<1>2. CASE WorkerMove
  <2>1. run' = run /\ (Asked' <=> Asked)
    BY <1>2, WorkerMoves DEF parent, Asked
  <2>2. ASSUME NEW k \in 1 .. Len(up), InSocket(k) PROVE up'[i].run = run' /\ Asked' /\ Parked' /\ Alone(i)'
    <3>1. up[k].run = run /\ Asked /\ Parked /\ Alone(k)
      BY <1>1, <2>2
    <3>2. Parked' /\ up' \in {up, Append(up, Frame("pause_ack", job))}
      BY <1>2, <3>1, ParkedWorker
    <3>3. Frame("pause_ack", job) \in UpFrames /\ Frame("pause_ack", job).kind = "pause_ack"
      BY FramesTyped DEF SandboxTypeOK
    <3>4. /\ \A j \in 1 .. Len(up) : j \in 1 .. Len(up') /\ up'[j] = up[j]
          /\ \A j \in 1 .. Len(up') : j \in 1 .. Len(up) \/ up'[j].kind = "pause_ack"
      BY <3>2, <3>3, UpSent
    <3>5. i \in 1 .. Len(up) /\ up[i].kind = "checkpoint"
      BY <3>4 DEF InSocket
    <3>6. i = k
      BY <3>1, <3>5 DEF Alone
    <3>7. Alone(i)'
      BY <3>1, <3>4, <3>6 DEF Alone
    <3> QED BY <2>1, <3>1, <3>2, <3>4, <3>6, <3>7
  <2>3. CASE \A k \in 1 .. Len(up) : ~InSocket(k)
    <3>1. PICK f \in UpFrames : up' = Append(up, f) /\ (f.kind = "checkpoint" => ControlFrame /\ at["serve"] # "serve")
      BY <1>2, <2>3, WorkerWrites DEF InSocket
    <3>2. /\ Len(up) \in Nat /\ Len(up') = Len(up) + 1
          /\ \A j \in 1 .. Len(up) : j \in 1 .. Len(up') /\ up'[j] = up[j]
          /\ \A j \in 1 .. Len(up') : j \in 1 .. Len(up) \/ (j = Len(up) + 1 /\ up'[j] = f)
      BY <3>1, UpSent
    <3>3. i = Len(up) + 1 /\ up'[i] = f /\ f.kind = "checkpoint" /\ f.run # 0 /\ ControlFrame /\ at["serve"] # "serve"
      BY <2>3, <3>1, <3>2 DEF InSocket
    <3>4. /\ alive /\ alive' = alive /\ down # <<>> /\ down' = Tail(down) /\ Head(down).kind = "serialize" /\ exec' = exec
          /\ up' = Append(up, Frame("checkpoint", IF exec = "Paused" THEN job ELSE 0))
      <4>1. up' # up
        BY <3>1, UpSent
      <4> QED BY <3>3, <4>1 DEF ControlFrame, Reads
    <3>5. exec = "Paused" /\ f.run = job
      <4>1. ASSUME NEW n \in Nat, up' = Append(up, Frame("checkpoint", n)) PROVE f.run = n
        <5>1. Frame("checkpoint", n) \in UpFrames /\ Frame("checkpoint", n).run = n
          BY FramesTyped
        <5>2. up'[Len(up) + 1] = Frame("checkpoint", n)
          BY <4>1, <5>1, AppendOf DEF SandboxTypeOK
        <5> QED BY <3>3, <5>1, <5>2
      <4>2. job \in Nat
        BY DEF SandboxTypeOK
      <4> QED BY <3>3, <3>4, <4>1, <4>2
    <3>6. at["serve"] = "running" /\ Working /\ job = run
      BY <3>4, <3>5 DEF ExecInv, Working, RunningAt, RunsInv
    <3>7. 1 \in 1 .. Len(down) /\ Head(down) = down[1] /\ Len(down) \in Nat /\ Len(down) = Len(down') + 1
      BY <3>4, DownRead
    <3>8. Heard(1)
      BY <3>3, <3>4, <3>7 DEF Heard, RunsInv
    <3>9. Asked /\ 1 = Len(down) /\ NoCheckpoint
      BY <3>6, <3>7, <3>8 DEF AsksInv, NoCheckpoint
    <3>10. down' = <<>>
      BY <3>4, <3>7, <3>9, TailOf DEF SandboxTypeOK
    <3>11. \A j \in 1 .. Len(up') : up'[j].kind \notin {"result", "error"} /\ (up'[j].kind = "checkpoint" => j = i)
      BY <3>2, <3>3, <3>6, <3>9 DEF ResultsInv, NoCheckpoint
    <3>12. at'["reader"] = "blob" /\ at'["runner"] = at["runner"] /\ at["runner"] # "begin"
      BY <1>2, <3>9, WorkerMoves DEF Asked, PlacesInv
    <3>13. Parked'
      BY <3>4, <3>5, <3>10, <3>11, <3>12 DEF Parked, Over
    <3> QED BY <2>1, <3>3, <3>5, <3>6, <3>9, <3>11, <3>13 DEF Alone
  <2> QED BY <2>2, <2>3
<1>3. CASE RunnerMove \/ PauseMove \/ CallMove \/ ReplyMove \/ ReaderMove
  <2>1. \E k \in 1 .. Len(up) : InSocket(k) /\ up'[i] = up[k] /\ ((up' = up /\ k = i) \/ (up' = Tail(up) /\ up # <<>> /\ k = i + 1))
    <3>1. CASE up' = up
      BY <3>1 DEF InSocket
    <3>2. CASE up # <<>> /\ up' = Tail(up)
      <4>1. i + 1 \in 1 .. Len(up) /\ up'[i] = up[i + 1]
        BY <3>2, UpRead
      <4> QED BY <3>2, <4>1 DEF InSocket
    <3> QED BY <1>3, <3>1, <3>2, ParentReads
  <2> PICK k \in 1 .. Len(up) : InSocket(k) /\ up'[i] = up[k]
                                 /\ ((up' = up /\ k = i) \/ (up' = Tail(up) /\ up # <<>> /\ k = i + 1))
    BY <2>1
  <2>2. up[k].run = run /\ run # 0 /\ Asked /\ Parked /\ Alone(k) /\ (RunnerMove \/ ReplyMove)
    BY <1>1, <1>3
  <2>3. Parked' /\ run' = run /\ ~StartSend
    BY <2>2, ParkedStep DEF Asked
  <2>4. Alone(i)'
    <3>1. CASE up' = up /\ k = i
      BY <2>2, <3>1 DEF Alone
    <3>2. CASE up' = Tail(up) /\ up # <<>> /\ k = i + 1
      <4> SUFFICES ASSUME NEW j \in 1 .. Len(up') PROVE up'[j].kind # "error" /\ (up'[j].kind = "checkpoint" => i = j)
        BY DEF Alone
      <4>1. j + 1 \in 1 .. Len(up) /\ up'[j] = up[j + 1] /\ Len(up') \in Nat
        BY <3>2, UpRead
      <4>2. up[j + 1].kind # "error" /\ (up[j + 1].kind = "checkpoint" => i + 1 = j + 1)
        BY <2>2, <3>2, <4>1 DEF Alone
      <4> QED BY <4>1, <4>2
    <3> QED BY <3>1, <3>2
  <2>5. Asked'
    <3>1. CASE RunnerMove
      BY <2>2, <3>1 DEF RunnerMove, AskWorker, ReadReply, ReplyFails, BeginRun, WaitReturns, StartSend, Wait, Goto,
         Asked, SandboxTypeOK, Threads
    <3>2. CASE ReplyMove
      <4> PICK h \in {"ack", "blob"} : HandshakeFrame(h) \/ HandshakeEof(h)
        BY <3>2 DEF ReplyMove
      <4>1. at["reader"] = h /\ h = "blob"
        BY <2>2 DEF HandshakeFrame, HandshakeEof, Asked
      <4>2. up # <<>>
        BY <2>2, TailOf DEF SandboxTypeOK
      <4>3. HandshakeFrame("blob") /\ up' = Tail(up)
        BY <4>1, <4>2 DEF HandshakeEof, AtEof, HandshakeFrame
      <4>4. k = i + 1 /\ k # 1 /\ Head(up) = up[1] /\ 1 \in 1 .. Len(up)
        <5>1. Len(up') \in Nat /\ Len(up) = Len(up') + 1 /\ Head(up) = up[1] /\ 1 \in 1 .. Len(up)
          BY <4>2, <4>3, UpRead
        <5>2. up' # up
          BY <5>1
        <5>3. i \in 1 .. Len(up') /\ k = i + 1
          BY <5>2
        <5>4. k # 1
          BY <5>1, <5>3
        <5> QED BY <5>1, <5>3, <5>4
      <4>5. Head(up).kind \notin {"checkpoint", "error", "result"}
        BY <2>2, <4>4 DEF Alone, Parked
      <4>6. at' = at
        BY <4>3, <4>5 DEF HandshakeFrame, Reply
      <4> QED BY <2>2, <4>6 DEF Asked
    <3> QED BY <2>2, <3>1, <3>2
  <2> QED BY <2>2, <2>3, <2>4, <2>5
<1> QED BY <1>2, <1>3

LEMMA IntentStep ==
  ASSUME Undisturbed', SandboxTypeOK, PlacesInv, FreshInv, StateInv, ExecInv, BlobsInv,
         RunnerMove \/ PauseMove \/ CallMove \/ ReplyMove \/ ReaderMove \/ WorkerMove, InIntent'
  PROVE  blob' = run' /\ Parked'
<1>1. ASSUME InIntent PROVE blob = run /\ run # 0 /\ Parked /\ saving # "pending"
  BY <1>1, BlobsCases DEF InIntent
<1>2. CASE WorkerMove
  BY <1>1, <1>2, WorkerMoves, ParkedWorker DEF parent, mirror, InIntent
<1>3. CASE RunnerMove
  <2>1. UNCHANGED <<saving, blob>> /\ at'["caller"] = at["caller"]
    BY <1>3 DEF RunnerMove, AskWorker, ReadReply, ReplyFails, BeginRun, WaitReturns, StartSend, Wait, Goto, parent,
       mirror, InIntent, SandboxTypeOK, Threads
  <2> QED BY <1>1, <1>3, <2>1, ParkedStep DEF InIntent
<1>4. CASE PauseMove \/ CallMove
  <2>1. at'["caller"] # "save.await" \/ saving' = "pending"
    BY <1>4 DEF PauseMove, PauseCheck, PauseSend, PauseMark, PauseAwait, PauseFlip, CallMove, ResumeSend,
       ResumeStore, CancelExchange, CancelRestore, CancelSend, SaveCheck, SaveAwait, Goto, Call, SandboxTypeOK, Threads
  <2> QED BY <2>1 DEF InIntent
<1>5. CASE ReaderMove
  <2>1. blob' = blob /\ (saving' = "ok" => saving = "ok")
    BY <1>5 DEF ReaderMove, ReaderTop, PollWake, PollFrame, PollEof, Woken, TerminalExchange, TerminalRestore,
       AbortIntents, Abort, parent, mirror
  <2>2. InIntent
    BY <1>5, <2>1, ReaderMoves DEF InIntent
  <2> QED BY <1>1, <1>5, <2>1, <2>2, ParkedStep
<1>6. CASE ReplyMove
  <2> PICK h \in {"ack", "blob"} : HandshakeFrame(h) \/ HandshakeEof(h)
    BY <1>6 DEF ReplyMove
  <2>1. CASE saving' = saving /\ blob' = blob
    <3>1. InIntent
      BY <1>6, <2>1, ReaderMoves DEF InIntent
    <3> QED BY <1>1, <1>6, <2>1, <3>1, ParkedStep
  <2>2. CASE ~(saving' = saving /\ blob' = blob)
    <3>1. h = "blob" /\ at["reader"] = "blob"
      BY <2>2 DEF HandshakeFrame, HandshakeEof, Answer, mirror
    <3>2. HandshakeFrame("blob")
      BY <3>1 DEF HandshakeEof, Answer, InIntent
    <3>3. Head(up).kind = "checkpoint" /\ blob' = Head(up).run
      BY <2>2, <3>2 DEF HandshakeFrame, Answer, Reply, InIntent, mirror
    <3>4. up # <<>> /\ 1 \in 1 .. Len(up) /\ Head(up) = up[1]
      BY <3>2, UpRead DEF HandshakeFrame, Readable
    <3>5. blob' = run /\ run # 0 /\ Parked
      BY <3>3, <3>4, BlobsCases DEF InSocket, InIntent
    <3> QED BY <1>6, <3>1, <3>5, ParkedStep
  <2> QED BY <2>1, <2>2
<1> QED BY <1>2, <1>3, <1>4, <1>5, <1>6

LEMMA SavedStep ==
  ASSUME Undisturbed', SandboxTypeOK, PlacesInv, FreshInv, StateInv, ExecInv, BlobsInv,
         RunnerMove \/ PauseMove \/ CallMove \/ ReplyMove \/ ReaderMove \/ WorkerMove, saved' # 0
  PROVE  saved' = run' /\ Parked' /\ at'["caller"] = "idle"
<1>1. ASSUME saved # 0 PROVE saved = run /\ run # 0 /\ Parked /\ at["caller"] = "idle" /\ saving # "pending"
  BY <1>1, BlobsCases DEF PlacesInv
<1>2. CASE WorkerMove
  BY <1>1, <1>2, WorkerMoves, ParkedWorker DEF parent
<1>3. CASE RunnerMove
  <2>1. saved' = saved /\ at'["caller"] = at["caller"]
    BY <1>3 DEF RunnerMove, AskWorker, ReadReply, ReplyFails, BeginRun, WaitReturns, StartSend, Wait, Goto, parent,
       SandboxTypeOK, Threads
  <2> QED BY <1>1, <1>3, <2>1, ParkedStep
<1>4. CASE ReplyMove \/ ReaderMove
  BY <1>1, <1>4, ReaderMoves, ParkedStep
<1>5. CASE PauseMove \/ (CallMove /\ ~SaveAwait)
  <2>1. saved' = 0 \/ (saved' = saved /\ at["caller"] # "idle")
    BY <1>5 DEF PauseMove, PauseCheck, PauseSend, PauseMark, PauseAwait, PauseFlip, CallMove, ResumeSend,
       ResumeStore, CancelExchange, CancelRestore, CancelSend, SaveCheck, Goto, Call, parent
  <2> QED BY <1>1, <2>1
<1>6. CASE SaveAwait
  <2>1. saving = "ok" /\ saved' = blob /\ at["caller"] = "save.await"
    BY <1>6 DEF SaveAwait, Goto
  <2>2. blob = run /\ run # 0 /\ Parked
    BY <2>1, BlobsCases DEF InIntent
  <2>3. Parked' /\ run' = run
    BY <1>6, <2>1, <2>2, ParkedStep
  <2>4. at'["caller"] = "idle"
    BY <1>6 DEF SaveAwait, Goto, SandboxTypeOK, Threads
  <2> QED BY <2>1, <2>2, <2>3, <2>4
<1> QED BY <1>2, <1>3, <1>4, <1>5, <1>6

LEMMA BlobsStep ==
  ASSUME Undisturbed', SandboxTypeOK, PlacesInv, FreshInv, FinalInv, StateInv, ExecInv, RunsInv, CancelInv, ResultsInv,
         AsksInv, BlobsInv,
         RunnerMove \/ PauseMove \/ CallMove \/ ReplyMove \/ ReaderMove \/ WorkerMove
  PROVE  BlobsInv'
<1>1. \A i \in 1 .. Len(up') : InSocket(i)' => up'[i].run = run' /\ Asked' /\ Parked' /\ Alone(i)'
  <2> SUFFICES ASSUME NEW i \in 1 .. Len(up'), InSocket(i)' PROVE up'[i].run = run' /\ Asked' /\ Parked' /\ Alone(i)'
    OBVIOUS
  <2>1. AsksInv'
    BY AsksStep
  <2> QED BY <2>1, SocketStep
<1>2. InIntent' => blob' = run' /\ Parked'
  BY IntentStep
<1>3. saved' # 0 => saved' = run' /\ Parked' /\ at'["caller"] = "idle"
  BY SavedStep
<1> QED BY <1>1, <1>2, <1>3, BlobsCasesNext

-----------------------------------------------------------------------------
(* wait(), and the destructor.                                              *)

LEMMA WaitStep ==
  ASSUME Undisturbed, Undisturbed', SandboxTypeOK, PlacesInv, FreshInv, StateInv, ResultsInv, WaitTellsTheTruth,
         RunnerMove \/ PauseMove \/ CallMove \/ ReplyMove \/ ReaderMove \/ WorkerMove
  PROVE  WaitTellsTheTruth'
<1> USE DEF WaitTellsTheTruth
<1>1. CASE WorkerMove
  BY <1>1, WorkerMoves DEF parent, mirror
<1>2. CASE PauseMove \/ CallMove
  BY <1>2, CallerMoves DEF SandboxTypeOK
<1>3. CASE ReplyMove \/ ReaderMove
  <2>1. at["reader"] \notin {"none", "gone"}
    BY <1>3 DEF ReplyMove, HandshakeFrame, HandshakeEof, ReaderMove, ReaderTop, PollWake, PollFrame, PollEof, Woken,
       TerminalExchange, TerminalRestore, AbortIntents, Goto
  <2>2. at["runner"] # "idle"
    BY <2>1 DEF PlacesInv
  <2> QED BY <1>3, <2>2, ReaderMoves
<1>4. CASE RunnerMove
  <2>1. CASE WaitReturns
    <3>1. /\ waited' = state /\ UNCHANGED <<output, run, cancels>>
          /\ at["runner"] = "wait" /\ at["reader"] = "gone"
      BY <2>1 DEF WaitReturns, Goto, mirror
    <3>2. CASE state = "Completed"
      <4>1. final[1] = "Completed" /\ Over
        BY <3>1, <3>2 DEF StateInv, Over
      <4>2. output \in {0, run} /\ (output = 0 => Doomed)
        BY <3>1, <4>1 DEF ResultsInv
      <4>3. Doomed => cancels >= 2
        BY <3>1, <3>2 DEF Doomed
      <4> QED BY <3>1, <4>2, <4>3 DEF SandboxTypeOK
    <3> QED BY <3>1, <3>2
  <2>2. CASE AskWorker \/ ReadReply \/ ReplyFails
    <3>1. UNCHANGED <<waited, output, run, cancels>>
      BY <2>2 DEF AskWorker, ReadReply, ReplyFails, parent, mirror
    <3>2. at["runner"] = "idle" \/ run = 0 \/ at'["runner"] # "idle"
      BY <2>2 DEF AskWorker, ReadReply, ReplyFails, Goto, PlacesInv, SandboxTypeOK, Threads
    <3> QED BY <3>1, <3>2 DEF FreshInv
  <2>3. CASE StartSend \/ BeginRun \/ Wait
    <3>1. at'["runner"] # "idle"
      BY <2>3 DEF StartSend, BeginRun, Wait, Goto, SandboxTypeOK, Threads
    <3> QED BY <3>1
  <2> QED BY <1>4, <2>1, <2>2, <2>3 DEF RunnerMove
<1> QED BY <1>1, <1>2, <1>3, <1>4

LEMMA DestructStep ==
  ASSUME SandboxTypeOK, Destructing, DestructInv, SandboxNext PROVE Destructing' /\ DestructInv'
<1>0. Undisturbed' => Undisturbed
  BY StaysDisturbed
<1> USE <1>0 DEF Destructing, DestructInv, CheckpointIsOfThisRun
<1>1. CASE WorkerMove
  BY <1>1, WorkerMoves DEF parent
<1>2. CASE ReplyMove \/ ReaderMove
  BY <1>2, ReaderMoves
<1>3. ~(RunnerMove \/ DestroyBegin)
  BY DEF RunnerMove, AskWorker, ReadReply, ReplyFails, BeginRun, WaitReturns, StartSend, Wait, DestroyBegin, Goto
<1>4. CASE PauseMove \/ CallMove
  <2>1. CancelRestore \/ CancelSend
    BY <1>4 DEF PauseMove, PauseCheck, PauseSend, PauseMark, PauseAwait, PauseFlip, CallMove, ResumeSend,
       ResumeStore, CancelExchange, SaveCheck, SaveAwait, Goto, Call, EndingAt
  <2>2. at["runner"] = "destroy" /\ saved' = saved
    BY <2>1 DEF CancelRestore, CancelSend, parent
  <2>3. at'["caller"] = "shut"
    BY <2>1, <2>2 DEF CancelRestore, CancelSend, SandboxTypeOK, Threads
  <2> QED BY <1>4, <2>2, <2>3, CallerMoves DEF EndingAt
<1>5. CASE ShutDown
  BY <1>5 DEF ShutDown, Goto, SandboxTypeOK, Threads, EndingAt
<1>6. CASE Teardown
  BY <1>6 DEF Teardown, SandboxTypeOK, Threads, EndingAt, parent
<1> QED BY <1>1, <1>2, <1>3, <1>4, <1>5, <1>6, MoveCases

-----------------------------------------------------------------------------
(* The system.                                                              *)

LEMMA SandboxInit_SandboxInv == SandboxInit => SandboxInv
<1> SUFFICES ASSUME SandboxInit PROVE SandboxInv
  OBVIOUS
<1>1. /\ at["runner"] = "construct" /\ at["serve"] = "serve" /\ at["caller"] = "idle"
      /\ at["reader"] = "none" /\ at["control"] = "none"
  BY DEF SandboxInit, Threads
<1>2. SandboxTypeOK
  <2>1. down \in Seq(DownFrames) /\ up \in Seq(UpFrames)
    BY DEF SandboxInit
  <2>2. at \in [Threads -> Places]
    BY DEF SandboxInit, Threads, Places
  <2> QED BY <2>1, <2>2 DEF SandboxInit, SandboxTypeOK
<1>3. Len(down) = 0 /\ Len(up) = 0
  BY DEF SandboxInit
<1>4. PlacesInv
  BY <1>1 DEF SandboxInit, PlacesInv, FirstInv, RunnerAt, CallerAt, ReaderAt, ServeAt, ControlAt
<1>5. FreshInv /\ FinalInv /\ StateInv /\ WaitTellsTheTruth
  BY <1>1, <1>3 DEF SandboxInit, FreshInv, FinalInv, StateInv, WaitTellsTheTruth, Quiet, OnlyReplies, RunQueued
<1>6. ExecInv /\ RunsInv /\ CancelInv /\ ResultsInv
  BY <1>1, <1>3 DEF SandboxInit, ExecInv, RunsInv, CancelInv, ResultsInv, Over
<1>7. AsksInv /\ BlobsInv
  BY <1>1, <1>3 DEF SandboxInit, AsksInv, BlobsInv
<1> QED BY <1>1, <1>2, <1>4, <1>5, <1>6, <1>7 DEF SandboxInv, RunInv, Destructing

LEMMA SandboxStep ==
  ASSUME SandboxInv, [SandboxNext]_sandboxVars PROVE SandboxInv'
<1>1. SandboxTypeOK /\ SandboxTypeOK'
  BY TypeStep DEF SandboxInv
<1>2. CASE Destructing /\ SandboxNext
  BY <1>1, <1>2, DestructStep DEF SandboxInv
<1>3. CASE ~Destructing /\ SandboxNext
  <2>2. CASE DestroyBegin
    <3>1. /\ UNCHANGED <<run, saved, slips>>
          /\ \E p \in {"cancel.restore", "cancel.send"} : at' = [at EXCEPT !["runner"] = "destroy", !["caller"] = p]
      BY <2>2 DEF DestroyBegin
    <3>2. at'["runner"] = "destroy" /\ at'["caller"] \in EndingAt
      BY <1>1, <3>1 DEF SandboxTypeOK, Threads, EndingAt
    <3>3. CheckpointIsOfThisRun'
      BY <1>3, <3>1 DEF SandboxInv, RunInv, BlobsInv, CheckpointIsOfThisRun, Undisturbed
    <3> QED BY <1>1, <3>2, <3>3 DEF SandboxInv, Destructing, DestructInv
  <2>0. CASE ~Undisturbed' /\ ~DestroyBegin
    <3>1. Destructing' => DestructInv'
      <4>1. CASE Teardown
        BY <1>1, <2>0, <4>1 DEF Teardown, DestructInv, EndingAt, CheckpointIsOfThisRun, SandboxTypeOK, Threads
      <4>2. CASE ~Teardown
        <5>1. CASE ShutDown
          BY <1>1, <1>3, <5>1 DEF ShutDown, Goto, Destructing, SandboxTypeOK, Threads
        <5>2. CASE RunnerMove
          BY <1>1, <1>3, <5>2 DEF RunnerMove, AskWorker, ReadReply, ReplyFails, BeginRun, WaitReturns, StartSend, Wait, Goto,
             Destructing, SandboxTypeOK, Threads
        <5>3. CASE PauseMove \/ CallMove \/ ReplyMove \/ ReaderMove \/ WorkerMove
          BY <1>1, <1>3, <5>3, CallerMoves, ReaderMoves, WorkerMoves DEF Destructing
        <5> QED BY <1>3, <2>0, <4>2, <5>1, <5>2, <5>3, MoveCases
      <4> QED BY <4>1, <4>2
    <3> QED BY <1>1, <2>0, <3>1 DEF SandboxInv
  <2> SUFFICES ASSUME Undisturbed' PROVE SandboxInv'
    BY <2>0, <2>2
  <2>1. Undisturbed /\ RunInv
    BY <1>1, <1>3, StaysDisturbed DEF SandboxInv
  <2>3. ~(ShutDown \/ Teardown)
    BY <2>1 DEF RunInv, PlacesInv, CallerAt, ShutDown, Teardown, Goto
  <2>4. CASE RunnerMove \/ PauseMove \/ CallMove \/ ReplyMove \/ ReaderMove \/ WorkerMove
    <3>1. PlacesInv' /\ FreshInv' /\ FinalInv' /\ StateInv' /\ ExecInv'
      BY <1>1, <2>1, <2>4, PlacesStep, FreshStep, FinalStep, StateStep, ExecStep DEF RunInv
    <3>2. RunsInv' /\ CancelInv' /\ ResultsInv' /\ AsksInv'
      BY <1>1, <2>1, <2>4, RunsStep, CancelStep, ResultsStep, AsksStep DEF RunInv
    <3>3. BlobsInv' /\ WaitTellsTheTruth'
      BY <1>1, <2>1, <2>4, <3>2, BlobsStep, WaitStep DEF RunInv
    <3>4. RunInv'
      BY <3>1, <3>2, <3>3 DEF RunInv
    <3>5. ~Destructing'
      BY <3>1 DEF Destructing, PlacesInv, RunnerAt
    <3> QED BY <1>1, <3>4, <3>5 DEF SandboxInv
  <2> QED BY <1>3, <2>2, <2>3, <2>4, MoveCases
<1>4. CASE UNCHANGED sandboxVars
  <2>1. UNCHANGED <<state, output, saving, blob, shut, run, prev, final, waited, cancels, saved, slips, at, alive, down, up,
                    exec, busy, job>>
    BY <1>4 DEF sandboxVars
  <2>2. (Destructing <=> Destructing') /\ (DestructInv => DestructInv') /\ (Undisturbed' <=> Undisturbed)
    BY <2>1 DEF Destructing, DestructInv, CheckpointIsOfThisRun, Undisturbed
  <2>3. PlacesInv /\ FinalInv /\ StateInv /\ ExecInv /\ WaitTellsTheTruth
          => PlacesInv' /\ FinalInv' /\ StateInv' /\ ExecInv' /\ WaitTellsTheTruth'
    BY <2>1 DEF PlacesInv, FirstInv, FinalInv, StateInv, ExecInv, WaitTellsTheTruth, Undisturbed
  <2>4. FreshInv /\ RunsInv /\ CancelInv => FreshInv' /\ RunsInv' /\ CancelInv'
    BY <2>1 DEF FreshInv, RunsInv, CancelInv, Quiet, OnlyReplies, RunQueued, Doomed
  <2>5. ResultsInv => ResultsInv'
    BY <2>1 DEF ResultsInv, Quiet, OnlyReplies, RunQueued, Doomed, Working, Over
  <2>6. AsksInv => AsksInv'
    BY <2>1 DEF AsksInv, Working, RunQueued, Asked, Heard
  <2>7. BlobsInv => BlobsInv'
    BY <2>1 DEF BlobsInv, Asked, Parked, Over
  <2> QED BY <1>1, <2>2, <2>3, <2>4, <2>5, <2>6, <2>7 DEF SandboxInv, RunInv
<1> QED BY <1>2, <1>3, <1>4

LEMMA SandboxFacts == SandboxInv => WaitTellsTheTruth /\ CheckpointIsOfThisRun
<1> SUFFICES ASSUME SandboxInv PROVE WaitTellsTheTruth /\ CheckpointIsOfThisRun
  OBVIOUS
<1>1. CASE Destructing
  BY <1>1 DEF SandboxInv, Destructing, DestructInv, WaitTellsTheTruth
<1>2. CASE ~Destructing
  BY <1>2 DEF SandboxInv, RunInv, BlobsInv, CheckpointIsOfThisRun, WaitTellsTheTruth
<1> QED BY <1>1, <1>2

\* SandboxedExecutor, for any bounds, kinds of calls, failures and deaths of the
\* worker, with calls that overlap start() too: what wait() and serialize_state()
\* return is of the current run. (Of a second or later run both formulas speak
\* only while no call has overlapped a start().)
THEOREM SandboxIsSafe == SandboxSpec => [](WaitTellsTheTruth /\ CheckpointIsOfThisRun)
<1>1. SandboxInit => SandboxInv
  BY SandboxInit_SandboxInv
<1>2. SandboxInv /\ [SandboxNext]_sandboxVars => SandboxInv'
  BY SandboxStep
<1>3. SandboxInv => WaitTellsTheTruth /\ CheckpointIsOfThisRun
  BY SandboxFacts
<1> QED BY <1>1, <1>2, <1>3, PTL DEF SandboxSpec
=============================================================================
