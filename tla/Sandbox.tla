------------------------------- MODULE Sandbox -------------------------------
(* domain/algorithm/sandbox/SandboxedExecutor and src/worker/main.cpp: an   *)
(* executor that runs in a worker process, and its mirror in the parent.    *)
(* The two exchange frames over a socket pair. In the parent: the thread    *)
(* that constructs, starts, waits for and destroys the executor ("runner"), *)
(* one that controls the run ("caller"), and the reader thread of a run. In *)
(* the worker: the serve loop, the control thread of a run, and the search. *)
(* The worker's AlgorithmExecutor is the one of module Executor, reduced to *)
(* its state and to whether the search thread is still running.             *)
EXTENDS Integers, Sequences, SequencesExt

CONSTANTS
  Runs,      \* bound: calls of start()
  Calls,     \* bound: calls of the controlling thread
  Ops,       \* what it calls: "pause", "resume", "cancel", "serialize"
  Chatter,   \* bound: progress frames in flight
  MayFail,   \* may a run end with MsgError (a bad checkpoint, a bad mode)?
  MayDie     \* may the worker process die?

VARIABLES
  state,     \* _state, the mirror
  output,    \* the run whose result _output holds; 0 when it is empty
  pausing,   \* _pause_intent: "none", "pending", "ok" or "failed"
  saving,    \* _serialize_intent: the same
  blob,      \* its result: the run that was serialized, 0 when empty
  wake,      \* _wake is readable
  shut,      \* _shutdown, and the read side of the socket is shut down
  run,       \* how many runs have been started
  calls,     \* how many control calls have begun
  prev,      \* cancel()'s local
  final,     \* the terminal state the reader is about to set, and whether it
             \* then aborts the intents
  waited,    \* history: what the last wait() returned
  cancels,   \* history: calls of cancel()
  saved,     \* history: the run the last serialize_state() returned, 0 for none
  slips,     \* history: "crossed" once a control call has overlapped start(),
             \* "swallowed" once a handshake has taken the MsgError of a run
  at,        \* where each thread is
  alive,     \* the worker process lives
  down, up,  \* frames from the parent and from the worker
  exec,      \* the state of the worker's executor
  poisoned,  \* its _cancel_pending
  busy,      \* its search thread runs
  job,       \* the run it works on
  ended      \* exit_sig

sandboxVars == <<state, output, pausing, saving, blob, wake, shut, run, calls, prev, final,
                 waited, cancels, saved, slips, at, alive, down, up, exec, poisoned, busy, job, ended>>

mirror  == <<state, output, pausing, saving, blob, wake, shut>>
parent  == <<mirror, run, calls, prev, final, waited, cancels, saved, slips>>
worker  == <<exec, poisoned, busy, job, ended>>

Threads == {"runner", "caller", "reader", "serve", "control"}
Goto(t, from, to) == at[t] = from /\ at' = [at EXCEPT ![t] = to]

Frame(kind, n) == [kind |-> kind, run |-> n]
Terminal == {"Completed", "Failed", "Cancelled"}

(* recv finds a frame, or the end of the stream. *)
Readable == up # <<>>
AtEof == up = <<>> /\ (~alive \/ shut)

(* spawn_worker(): the process runs and nothing is known of its plugin. *)
SandboxInit ==
  /\ state = "Idle" /\ output = 0 /\ pausing = "none" /\ saving = "none" /\ blob = 0
  /\ wake = FALSE /\ shut = FALSE /\ run = 0 /\ calls = 0
  /\ prev = "Idle" /\ final = <<"Idle", FALSE>> /\ waited = "Idle" /\ cancels = 0 /\ saved = 0
  /\ slips = {}
  /\ at = [t \in Threads |-> IF t = "runner" THEN "construct" ELSE IF t = "serve" THEN "serve"
                             ELSE IF t = "caller" THEN "idle" ELSE "none"]
  /\ alive = TRUE /\ down = <<>> /\ up = <<>>
  /\ exec = "Idle" /\ poisoned = FALSE /\ busy = FALSE /\ job = 0 /\ ended = FALSE

(* A write to a dead worker fails and the call throws. *)
Send(frame) == down' = IF alive THEN Append(down, frame) ELSE down

(***************************************************************************)
(* The runner: metadata, start(), wait()                                   *)
(***************************************************************************)

(* query_metadata in the constructor, simulate() and evaluate() before a    *)
(* run: the calling thread itself sends a request and reads the reply.      *)
AskWorker ==
  /\ alive
  /\ \/ Goto("runner", "construct", "constructing")
     \/ state = "Idle" /\ run = 0 /\ Goto("runner", "idle", "asking")
  /\ down' = Append(down, Frame("ask", 0))
  /\ UNCHANGED <<parent, alive, up, worker>>

ReadReply ==
  /\ Readable
  /\ at["runner"] \in {"constructing", "asking"}
  /\ at' = [at EXCEPT !["runner"] = "idle"]
  /\ up' = Tail(up)
  /\ UNCHANGED <<parent, alive, down, worker>>

(* The worker is dead: the constructor tears it down and throws; a preflight *)
(* call returns its default.                                                 *)
ReplyFails ==
  /\ AtEof
  /\ \/ at["runner"] = "construct" /\ at' = [at EXCEPT !["runner"] = "threw"]
     \/ Goto("runner", "constructing", "threw")
     \/ Goto("runner", "asking", "idle")
  /\ UNCHANGED <<parent, alive, down, up, worker>>

(* start(): the gate and MsgRun ... *)
StartSend ==
  /\ run < Runs /\ alive
  /\ state \in {"Idle", "Completed"}
  /\ Goto("runner", "idle", "begin")
  /\ run' = run + 1
  /\ slips' = IF at["caller"] # "idle" THEN slips \cup {"crossed"} ELSE slips
  /\ Send(Frame("run", run + 1))
  /\ UNCHANGED <<mirror, calls, prev, final, waited, cancels, saved, alive, up, worker>>

(* ... then begin_run(): the old reader has returned or is about to, the    *)
(* output is cleared, a new serialize intent is made and the reader starts. *)
BeginRun ==
  /\ at["runner"] = "begin" /\ at["reader"] \in {"none", "gone"}
  /\ output' = 0 /\ saving' = "none" /\ blob' = 0 /\ state' = "Running"
  /\ at' = [at EXCEPT !["runner"] = "started", !["reader"] = "top"]
  /\ UNCHANGED <<pausing, wake, shut, run, calls, prev, final, waited, cancels, saved, slips,
                 alive, down, up, worker>>

(* wait() joins the reader and then reads the state. *)
Wait ==
  /\ Goto("runner", "started", "wait")
  /\ UNCHANGED <<parent, alive, down, up, worker>>

WaitReturns ==
  /\ at["reader"] = "gone"
  /\ Goto("runner", "wait", "idle")
  /\ waited' = state
  /\ UNCHANGED <<mirror, run, calls, prev, final, cancels, saved, slips, alive, down, up, worker>>

(***************************************************************************)
(* The caller: pause(), resume(), cancel(), serialize_state()              *)
(***************************************************************************)

(* The handle is published before simulate() and start(), and taken back     *)
(* after wait(): a call may come at any time.                               *)
Call(op) ==
  /\ op \in Ops /\ calls < Calls /\ calls' = calls + 1
  /\ at["caller"] = "idle"
  /\ at["runner"] \in {"idle", "asking", "begin", "started", "wait"}
  /\ slips' = IF at["runner"] = "begin" THEN slips \cup {"crossed"} ELSE slips
  /\ saved' = 0

(* pause(): a new intent is published before the frame is sent. *)
PauseCheck ==
  /\ Call("pause")
  /\ state = "Running"
  /\ pausing' = "pending"
  /\ at' = [at EXCEPT !["caller"] = "pause.send"]
  /\ UNCHANGED <<state, output, saving, blob, wake, shut, run, prev, final, waited, cancels,
                 alive, down, up, worker>>

PauseSend ==
  /\ Goto("caller", "pause.send", IF alive THEN "pause.mark" ELSE "idle")
  /\ Send(Frame("pause", 0))
  /\ UNCHANGED <<parent, alive, up, worker>>

(* A plain store: whatever the state became meanwhile is overwritten. *)
PauseMark ==
  /\ Goto("caller", "pause.mark", "pause.await")
  /\ state' = "Pausing" /\ wake' = TRUE
  /\ UNCHANGED <<output, pausing, saving, blob, shut, run, calls, prev, final, waited, cancels, saved, slips,
                 alive, down, up, worker>>

PauseAwait ==
  /\ pausing \in {"ok", "failed"}
  /\ Goto("caller", "pause.await",
          IF pausing = "ok" /\ state = "Pausing" THEN "pause.flip" ELSE "idle")
  /\ UNCHANGED <<parent, alive, down, up, worker>>

PauseFlip ==
  /\ Goto("caller", "pause.flip", "idle")
  /\ state' = "Paused"
  /\ UNCHANGED <<output, pausing, saving, blob, wake, shut, run, calls, prev, final, waited, cancels, slips,
                 saved, alive, down, up, worker>>

ResumeSend ==
  /\ Call("resume")
  /\ state \in {"Paused", "Pausing"}
  /\ at' = [at EXCEPT !["caller"] = IF alive THEN "resume.store" ELSE "idle"]
  /\ Send(Frame("resume", 0))
  /\ UNCHANGED <<mirror, run, prev, final, waited, cancels, alive, up, worker>>

ResumeStore ==
  /\ Goto("caller", "resume.store", "idle")
  /\ state' = "Running"
  /\ UNCHANGED <<output, pausing, saving, blob, wake, shut, run, calls, prev, final, waited, cancels, slips,
                 saved, alive, down, up, worker>>

(* cancel() exchanges the state, then puts a terminal or idle one back. *)
CancelExchange ==
  /\ Call("cancel")
  /\ prev' = state /\ state' = "Cancelled" /\ cancels' = cancels + 1
  /\ at' = [at EXCEPT !["caller"] = IF state \in {"Completed", "Failed", "Idle"}
                                    THEN "cancel.restore" ELSE "cancel.send"]
  /\ UNCHANGED <<output, pausing, saving, blob, wake, shut, run, final, waited,
                 alive, down, up, worker>>

CancelRestore ==
  /\ at["caller"] = "cancel.restore"
  /\ at' = [at EXCEPT !["caller"] = IF at["runner"] = "destroy" THEN "shut" ELSE "idle"]
  /\ state' = prev
  /\ UNCHANGED <<output, pausing, saving, blob, wake, shut, run, calls, prev, final, waited, cancels, slips,
                 saved, alive, down, up, worker>>

CancelSend ==
  /\ at["caller"] = "cancel.send"
  /\ at' = [at EXCEPT !["caller"] = IF at["runner"] = "destroy" THEN "shut" ELSE "idle"]
  /\ Send(Frame("cancel", 0))
  /\ UNCHANGED <<parent, alive, up, worker>>

SaveCheck ==
  /\ Call("serialize")
  /\ state = "Paused"
  /\ saving' = "pending" /\ blob' = 0 /\ wake' = TRUE
  /\ at' = [at EXCEPT !["caller"] = "save.await"]
  /\ UNCHANGED <<state, output, pausing, shut, run, prev, final, waited, cancels,
                 alive, down, up, worker>>

SaveAwait ==
  /\ saving \in {"ok", "failed"}
  /\ Goto("caller", "save.await", "idle")
  /\ saved' = IF saving = "ok" THEN blob ELSE 0
  /\ UNCHANGED <<mirror, run, calls, prev, final, waited, cancels, slips, alive, down, up, worker>>

(***************************************************************************)
(* The destructor, in the middle of a run or after it                      *)
(***************************************************************************)

DestroyBegin ==
  /\ at["caller"] = "idle"
  /\ at["runner"] \in {"idle", "started"}
  /\ prev' = state /\ state' = "Cancelled"
  /\ at' = [at EXCEPT !["runner"] = "destroy",
                      !["caller"] = IF state \in {"Completed", "Failed", "Idle"}
                                    THEN "cancel.restore" ELSE "cancel.send"]
  /\ UNCHANGED <<output, pausing, saving, blob, wake, shut, run, calls, final, waited, cancels, saved, slips,
                 alive, down, up, worker>>

ShutDown ==
  /\ Goto("caller", "shut", "join")
  /\ shut' = TRUE /\ wake' = TRUE
  /\ UNCHANGED <<state, output, pausing, saving, blob, run, calls, prev, final, waited, cancels, saved, slips,
                 alive, down, up, worker>>

(* The reader is joined, the descriptors are closed, the worker is killed. *)
Teardown ==
  /\ at["caller"] = "join" /\ at["reader"] \in {"none", "gone"}
  /\ at' = [at EXCEPT !["caller"] = "gone", !["runner"] = "gone"]
  /\ alive' = FALSE /\ down' = <<>> /\ up' = <<>>
  /\ UNCHANGED <<parent, worker>>

(***************************************************************************)
(* The reader thread                                                       *)
(***************************************************************************)

Abort(intent) == IF intent = "pending" THEN "failed" ELSE intent

ReaderTop ==
  /\ at["reader"] = "top"
  /\ at' = [at EXCEPT !["reader"] = IF shut THEN "abort" ELSE "poll"]
  /\ UNCHANGED <<parent, alive, down, up, worker>>

(* poll() returns; the wake event is looked at before the data. *)
PollWake ==
  /\ wake
  /\ Goto("reader", "poll", "woken")
  /\ wake' = FALSE
  /\ UNCHANGED <<state, output, pausing, saving, blob, shut, run, calls, prev, final, waited, cancels, slips,
                 saved, alive, down, up, worker>>

(* A frame outside a handshake: the result and an error end the run, a      *)
(* reply that nobody asked for is ignored.                                  *)
PollFrame ==
  /\ ~wake /\ Readable /\ at["reader"] = "poll"
  /\ up' = Tail(up)
  /\ LET f == Head(up) IN
       \/ /\ f.kind = "result"
          /\ output' = f.run
          /\ final' = <<"Completed", TRUE>>
          /\ at' = [at EXCEPT !["reader"] = "exchange"]
       \/ /\ f.kind = "error"
          /\ final' = <<"Failed", TRUE>>
          /\ at' = [at EXCEPT !["reader"] = "exchange"]
          /\ UNCHANGED output
       \/ /\ f.kind \notin {"result", "error"}
          /\ at' = [at EXCEPT !["reader"] = "top"]
          /\ UNCHANGED <<output, final>>
  /\ UNCHANGED <<state, pausing, saving, blob, wake, shut, run, calls, prev, waited, cancels, saved, slips,
                 alive, down, worker>>

PollEof ==
  /\ ~wake /\ AtEof
  /\ Goto("reader", "poll", "exchange")
  /\ final' = <<"Failed", TRUE>>
  /\ UNCHANGED <<mirror, run, calls, prev, waited, cancels, saved, slips, alive, down, up, worker>>

(* One wake-up serves one intent, and pause comes first. MsgSerializeState   *)
(* is sent here: the write fails when the worker is dead.                    *)
Woken ==
  /\ at["reader"] = "woken"
  /\ \/ /\ pausing = "pending"
        /\ at' = [at EXCEPT !["reader"] = "ack"]
        /\ UNCHANGED <<saving, down>>
     \/ /\ pausing # "pending" /\ saving = "pending"
        /\ at' = [at EXCEPT !["reader"] = IF alive THEN "blob" ELSE "top"]
        /\ saving' = IF alive THEN saving ELSE "failed"
        /\ Send(Frame("serialize", 0))
     \/ /\ pausing # "pending" /\ saving # "pending"
        /\ at' = [at EXCEPT !["reader"] = "top"]
        /\ UNCHANGED <<saving, down>>
  /\ UNCHANGED <<state, output, pausing, blob, wake, shut, run, calls, prev, final, waited, cancels, slips,
                 saved, alive, up, worker>>

(* The handshakes: frames are read until the reply, the end of the run, an  *)
(* error or the end of the stream. Only the intent of the handshake hears    *)
(* of it. After an error the reader goes on.                                 *)
Reply(h) == IF h = "ack" THEN "pause_ack" ELSE "checkpoint"

Answer(h, result, n) ==
  /\ IF h = "ack" THEN pausing' = result /\ UNCHANGED <<saving, blob>>
                  ELSE saving' = result /\ blob' = n /\ UNCHANGED pausing
  /\ UNCHANGED <<state, wake, shut, run, calls, prev, waited, cancels, saved, alive, down, worker>>

(* Mutant: the reader drops the result of a run that ends in a handshake.   *)
HandshakeFrame_DropsResult(h) ==
  /\ at["reader"] = h /\ Readable
  /\ up' = Tail(up)
  /\ LET f == Head(up) IN
       IF f.kind = Reply(h)
       THEN /\ Answer(h, "ok", f.run)
            /\ at' = [at EXCEPT !["reader"] = "top"]
            /\ UNCHANGED <<output, final, slips>>
       ELSE UNCHANGED <<mirror, run, calls, prev, final, waited, cancels, saved, slips, at, alive, down, worker>>

HandshakeFrame(h) ==
  /\ at["reader"] = h /\ Readable
  /\ up' = Tail(up)
  /\ LET f == Head(up) IN
       \/ /\ f.kind = Reply(h)
          /\ Answer(h, "ok", f.run)
          /\ at' = [at EXCEPT !["reader"] = "top"]
          /\ UNCHANGED <<output, final, slips>>
       \/ /\ f.kind = "result"
          /\ Answer(h, "failed", 0)
          /\ output' = f.run
          /\ final' = <<"Completed", FALSE>>
          /\ at' = [at EXCEPT !["reader"] = "exchange"]
          /\ UNCHANGED slips
       \/ /\ f.kind = "error"
          /\ Answer(h, "failed", 0)
          /\ slips' = slips \cup {"swallowed"}
          /\ at' = [at EXCEPT !["reader"] = "top"]
          /\ UNCHANGED <<output, final>>
       \/ /\ f.kind \notin {Reply(h), "result", "error"}
          /\ UNCHANGED <<mirror, run, calls, prev, final, waited, cancels, saved, slips, at, alive, down, worker>>

HandshakeEof(h) ==
  /\ at["reader"] = h /\ AtEof
  /\ Answer(h, "failed", 0)
  /\ final' = <<"Failed", FALSE>>
  /\ at' = [at EXCEPT !["reader"] = "exchange"]
  /\ UNCHANGED <<output, slips, up>>

(* Mutant: the exchange is not undone, the last verdict wins. *)
TerminalExchange_LastWins ==
  /\ at["reader"] = "exchange"
  /\ state' = final[1]
  /\ at' = [at EXCEPT !["reader"] = IF final[2] THEN "abort" ELSE "gone"]
  /\ UNCHANGED <<output, pausing, saving, blob, wake, shut, run, calls, prev, final, waited, cancels, slips,
                 saved, alive, down, up, worker>>

(* set_terminal(): exchange, then put Cancelled back if it was there. *)
TerminalExchange ==
  /\ at["reader"] = "exchange"
  /\ state' = final[1]
  /\ at' = [at EXCEPT !["reader"] = IF state = "Cancelled" THEN "restore"
                                    ELSE IF final[2] THEN "abort" ELSE "gone"]
  /\ UNCHANGED <<output, pausing, saving, blob, wake, shut, run, calls, prev, final, waited, cancels, slips,
                 saved, alive, down, up, worker>>

TerminalRestore ==
  /\ Goto("reader", "restore", IF final[2] THEN "abort" ELSE "gone")
  /\ state' = "Cancelled"
  /\ UNCHANGED <<output, pausing, saving, blob, wake, shut, run, calls, prev, final, waited, cancels, slips,
                 saved, alive, down, up, worker>>

(* abort_pending_serialize and abort_pending_pause. *)
AbortIntents ==
  /\ Goto("reader", "abort", "gone")
  /\ saving' = Abort(saving) /\ pausing' = Abort(pausing)
  /\ UNCHANGED <<state, output, blob, wake, shut, run, calls, prev, final, waited, cancels, saved, slips,
                 alive, down, up, worker>>

(***************************************************************************)
(* The worker: the serve loop and handle_run                               *)
(***************************************************************************)

Reads(t, here) == alive /\ at[t] = here /\ down # <<>> /\ down' = Tail(down)

(* Between runs: metadata and preflight are answered, MsgRun starts a run    *)
(* and its control thread, a control message out of a run is dropped.        *)
Serve ==
  /\ Reads("serve", "serve")
  /\ LET f == Head(down) IN
       /\ at' = [at EXCEPT !["serve"] = IF f.kind = "run" THEN "reset" ELSE @,
                           !["control"] = IF f.kind = "run" THEN "poll" ELSE @]
       /\ job' = IF f.kind = "run" THEN f.run ELSE job
       /\ ended' = IF f.kind = "run" THEN FALSE ELSE ended
       /\ up' = IF f.kind = "ask" THEN Append(up, Frame("reply", 0)) ELSE up
  /\ UNCHANGED <<parent, alive, exec, poisoned, busy>>

(* exec.reset(): only a terminal executor goes back to Idle. *)
ResetExec ==
  /\ alive
  /\ Goto("serve", "reset", "start")
  /\ exec' = IF exec \in Terminal THEN "Idle" ELSE exec
  /\ poisoned' = IF exec \in Terminal THEN FALSE ELSE poisoned
  /\ UNCHANGED <<parent, alive, down, up, busy, job, ended>>

(* exec.start(); a cancel that came before it aborts the search. *)
StartExec ==
  /\ alive
  /\ Goto("serve", "start", "running")
  /\ exec' = "Running" /\ busy' = TRUE /\ poisoned' = FALSE
  /\ UNCHANGED <<parent, alive, down, up, job, ended>>

(* ... or it throws, and the error goes to the parent in place of a result.  *)
StartThrows ==
  /\ MayFail /\ alive
  /\ Goto("serve", "start", "signal.failed")
  /\ up' = Append(up, Frame("error", job))
  /\ UNCHANGED <<parent, alive, down, worker>>

(* The search reports progress while it runs ... *)
Report ==
  /\ alive /\ busy /\ exec \in {"Running", "Pausing"}
  /\ Len(SelectSeq(up, LAMBDA f : f.kind = "progress")) < Chatter
  /\ up' = Append(up, Frame("progress", job))
  /\ UNCHANGED <<parent, at, alive, down, worker>>

(* ... and ends: by itself, on a cancel, or because its time is up. *)
SearchEnds ==
  /\ alive /\ busy /\ exec # "Paused"
  /\ busy' = FALSE
  /\ exec' = IF exec = "Cancelled" THEN exec ELSE "Completed"
  /\ UNCHANGED <<parent, at, alive, down, up, poisoned, job, ended>>

(* exec.wait() returns, the control thread is told and joined. *)
ExecDone ==
  /\ alive /\ ~busy
  /\ Goto("serve", "running", "signal")
  /\ UNCHANGED <<parent, alive, down, up, worker>>

SignalExit ==
  /\ alive
  /\ \/ Goto("serve", "signal", "join")
     \/ Goto("serve", "signal.failed", "join.failed")
  /\ ended' = TRUE
  /\ UNCHANGED <<parent, alive, down, up, exec, poisoned, busy, job>>

(* After the join, the result; a run that failed has sent its error.        *)
SendResult ==
  /\ alive /\ at["control"] = "gone"
  /\ \/ /\ Goto("serve", "join", "serve")
        /\ up' = Append(up, Frame("result", IF exec = "Completed" THEN job ELSE 0))
     \/ /\ Goto("serve", "join.failed", "serve")
        /\ UNCHANGED up
  /\ UNCHANGED <<parent, alive, down, worker>>

(***************************************************************************)
(* The worker's control thread                                             *)
(***************************************************************************)

(* The exit event is looked at before stdin. *)
ControlExit ==
  /\ alive /\ ended
  /\ Goto("control", "poll", "gone")
  /\ UNCHANGED <<parent, alive, down, up, worker>>

(* exec.pause() returns at once unless the executor is Running; resume only *)
(* applies to a started run; cancel before a run is remembered.              *)
ControlFrame ==
  /\ ~ended /\ Reads("control", "poll")
  /\ LET f == Head(down) IN
       /\ at' = [at EXCEPT !["control"] =
                    IF f.kind # "pause" THEN "poll" ELSE IF exec = "Running" THEN "pausing" ELSE "acking"]
       /\ exec' = IF f.kind = "pause" /\ exec = "Running" THEN "Pausing"
                  ELSE IF f.kind = "resume" /\ exec \in {"Paused", "Pausing"} THEN "Running"
                  ELSE IF f.kind = "cancel" /\ exec \in {"Running", "Pausing", "Paused"} THEN "Cancelled"
                  ELSE exec
       /\ poisoned' = (poisoned \/ (f.kind = "cancel" /\ exec = "Idle"))
       /\ up' = IF f.kind = "serialize"
                THEN Append(up, Frame("checkpoint", IF exec = "Paused" THEN job ELSE 0))
                ELSE up
  /\ UNCHANGED <<parent, alive, busy, job, ended>>

(* exec.pause() returns when the search has parked or the run is over. *)
PauseReturns ==
  /\ alive
  /\ Goto("control", "pausing", "acking")
  /\ exec' = IF exec = "Pausing" THEN "Paused" ELSE exec
  /\ UNCHANGED <<parent, alive, down, up, poisoned, busy, job, ended>>

SendAck ==
  /\ alive
  /\ Goto("control", "acking", "poll")
  /\ up' = Append(up, Frame("pause_ack", job))
  /\ UNCHANGED <<parent, alive, down, worker>>

(* The worker crashes or is killed: what it had written can still be read. *)
WorkerDies ==
  /\ MayDie /\ alive
  /\ alive' = FALSE /\ down' = <<>>
  /\ UNCHANGED <<parent, at, up, worker>>

(***************************************************************************)
(* The system                                                              *)
(***************************************************************************)

RunnerNext == AskWorker \/ ReadReply \/ ReplyFails \/ BeginRun \/ WaitReturns

CallerNext ==
  \/ PauseSend \/ PauseMark \/ PauseAwait \/ PauseFlip \/ ResumeStore
  \/ CancelRestore \/ CancelSend \/ SaveAwait \/ ShutDown \/ Teardown

ReaderNext ==
  \/ ReaderTop \/ PollWake \/ PollFrame \/ PollEof \/ Woken
  \/ \E h \in {"ack", "blob"} : HandshakeFrame(h) \/ HandshakeEof(h)
  \/ TerminalExchange \/ TerminalRestore \/ AbortIntents

ServeNext ==
  Serve \/ ResetExec \/ StartExec \/ StartThrows \/ ExecDone \/ SignalExit \/ SendResult

ControlNext == ControlExit \/ ControlFrame \/ PauseReturns \/ SendAck

SandboxNext ==
  \/ RunnerNext \/ StartSend \/ Wait \/ DestroyBegin
  \/ PauseCheck \/ ResumeSend \/ CancelExchange \/ SaveCheck \/ CallerNext
  \/ ReaderNext \/ ServeNext \/ ControlNext
  \/ SearchEnds \/ Report \/ WorkerDies

(* Every thread that is inside a call goes on, the worker's threads are     *)
(* scheduled, and a search ends. Nobody has to call anything.               *)
SandboxFairness ==
  /\ WF_sandboxVars(BeginRun \/ WaitReturns) /\ WF_sandboxVars(CallerNext)
  /\ WF_sandboxVars(ReaderNext)
  /\ WF_sandboxVars(ServeNext) /\ WF_sandboxVars(ControlNext) /\ WF_sandboxVars(SearchEnds)

SandboxSpec == SandboxInit /\ [][SandboxNext]_sandboxVars /\ SandboxFairness

(***************************************************************************)
(* Properties                                                              *)
(***************************************************************************)

(* A control call may overlap start(): the state that a cancel() then puts    *)
(* back, or the MsgCancel it then sends, is one of before. The first run of  *)
(* an executor stands it, and the program starts none twice.                *)
Undisturbed == run < 2 \/ "crossed" \notin slips

(* When wait() says Completed, output() is the result of the run that was   *)
(* waited for; it never stems from an earlier run or from a cancelled one.  *)
(* A second cancel() that meets set_terminal between its two stores turns a *)
(* cancelled run into a Completed one without a result, hence the bound.    *)
WaitTellsTheTruth ==
  (waited = "Completed" /\ at["runner"] = "idle" /\ cancels < 2 /\ Undisturbed) => output = run

(* A checkpoint that serialize_state() hands out was taken of the current   *)
(* run while the worker's search was parked.                                *)
CheckpointIsOfThisRun == Undisturbed => saved \in {0, run}

(* wait() returns unless the run stays paused. Of the code this holds only   *)
(* while no run fails in the middle of a handshake: the reader takes the     *)
(* MsgError of a run that did not start for the refusal of the call, and     *)
(* the frame that would have ended the run is gone.                          *)
InWait == at["runner"] = "wait"
OutOfWait == at["runner"] # "wait" \/ (exec = "Paused" /\ alive)
ErrorLost == "swallowed" \in slips
SandboxWaitReturns == InWait ~> OutOfWait

(* The destructor gets through in the middle of a run, of a handshake, and   *)
(* with a dead worker.                                                      *)
Destroying == at["runner"] = "destroy"
Destroyed == at["runner"] = "gone"
DestructorReturns == Destroying ~> Destroyed

(* The mirror says Paused only while the search is parked or over: what     *)
(* IpcProtocol.h says of MsgPauseAck.                                        *)
PauseAckIsTrue == state = "Paused" => ~busy \/ exec # "Running"
=============================================================================
