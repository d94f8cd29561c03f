--------------------------- MODULE DockerSession ---------------------------
(***************************************************************************)
(* One docker exec turned into a remote.Session                            *)
(* (pkg/remote/docker/session.go), with the caller that reads its output:  *)
(* execCapture, which reads to the end of the stream, or AgentRunner,      *)
(* which reads up to the exit frame, waits, and closes the session.        *)
(*                                                                         *)
(* Chunks of output are "data", the agent's "exit" frame and "log" frames. *)
(* The caller's StderrPipe is always drained and is left out.              *)
(***************************************************************************)
EXTENDS Integers, Sequences

CONSTANTS
    Codes,        \* exit codes of the exec
    MaxChunks,    \* chunks of output (bound)
    HijackCap     \* chunks buffered in the hijacked connection

ASSUME DockerSessionAssumption ==
    /\ Codes \subseteq 0..255
    /\ MaxChunks \in Nat /\ HijackCap \in Nat \ {0}

VARIABLES
    readsAll,  \* the caller is execCapture and not AgentRunner
    caller,    \* "new", "read", "wait", "close", "done"
    started, closed,   \* the flags of the session
    pipes,     \* the session's pipes are open
    hijack,    \* the connection: "none", "up", "cut"
    exec,      \* [run, code, said]: the process in the container
    wire,      \* its output in the hijacked connection
    sent,      \* chunks written so far
    copyOut,   \* the demultiplexer: [at, chunk]
    copyIn,    \* the stdin copier: "off", "copy", "done"
    inspect,   \* the daemon's view of the exec: "running", "exited"
    doneCh, waitErr, exitCode, \* the result of markDone
    got        \* what Wait returned: "none", "ok", "err"

sess == <<started, closed, pipes, hijack>>
remote == <<exec, wire, sent, inspect>>
result == <<doneCh, waitErr, exitCode>>
vars == <<readsAll, caller, started, closed, pipes, hijack, exec, wire, sent, copyOut, copyIn,
          inspect, doneCh, waitErr, exitCode, got>>

Chunks == {"data", "exit", "log"}

Init ==
    /\ readsAll \in BOOLEAN
    /\ caller = "new" /\ started = FALSE /\ closed = FALSE /\ pipes = TRUE /\ hijack = "none"
    /\ exec = [run |-> "none", code |-> 0, said |-> FALSE]
    /\ wire = <<>> /\ sent = 0 /\ inspect = "running"
    /\ copyOut = [at |-> "off", chunk |-> "data"] /\ copyIn = "off"
    /\ doneCh = FALSE /\ waitErr = FALSE /\ exitCode = 0 /\ got = "none"

-----------------------------------------------------------------------------
(* Start: ExecCreate and ExecAttach, and the two copying goroutines.  Only   *)
(* AgentRunner closes a session that did not start.                          *)

StartFails ==
    /\ caller = "new"
    /\ started' = TRUE /\ pipes' = FALSE /\ caller' = IF readsAll THEN "done" ELSE "close"
    /\ UNCHANGED <<readsAll, closed, hijack, remote, copyOut, copyIn, result, got>>

Start ==
    /\ caller = "new"
    /\ started' = TRUE /\ hijack' = "up" /\ caller' = "read"
    /\ exec' = [exec EXCEPT !.run = "up"]
    /\ copyOut' = [copyOut EXCEPT !.at = "read"] /\ copyIn' = "copy"
    /\ UNCHANGED <<readsAll, closed, pipes, wire, sent, inspect, result, got>>

(* io.Copy into the connection ends when its source is closed, which        *)
(* AgentRunner does before it waits and Close does in any case.             *)
CopyInEnds ==
    /\ copyIn = "copy" /\ (~pipes \/ (~readsAll /\ caller = "wait"))
    /\ copyIn' = "done"
    /\ UNCHANGED <<readsAll, caller, sess, remote, copyOut, result, got>>

(* stdcopy.StdCopy: a chunk from the connection into the stdout pipe, which *)
(* holds the goroutine until somebody reads it or closes the pipe.          *)
CopyRead ==
    /\ copyOut.at = "read" /\ wire # <<>> /\ hijack = "up"
    /\ copyOut' = [at |-> "write", chunk |-> Head(wire)] /\ wire' = Tail(wire)
    /\ UNCHANGED <<readsAll, caller, sess, exec, sent, inspect, copyIn, result, got>>

CopyEnds ==
    /\ \/ copyOut.at = "read" /\ (hijack = "cut" \/ (wire = <<>> /\ exec.run = "exited"))
       \/ copyOut.at = "write" /\ ~pipes
    /\ copyOut' = [copyOut EXCEPT !.at = "inspect"]
    /\ UNCHANGED <<readsAll, caller, sess, remote, copyIn, result, got>>

(* markDone without the poll: the stream has ended, so the exec has. *)
MarkDoneAtOnce ==
    /\ copyOut.at = "inspect" /\ ~closed
    /\ copyOut' = [copyOut EXCEPT !.at = "done"]
    /\ doneCh' = TRUE /\ waitErr' = FALSE
    /\ exitCode' = IF inspect = "exited" THEN exec.code ELSE 0
    /\ UNCHANGED <<readsAll, caller, sess, remote, copyIn, got>>

(* markDone: an inspect finds the exec finished. *)
MarkDone ==
    /\ copyOut.at = "inspect" /\ inspect = "exited" /\ ~closed
    /\ copyOut' = [copyOut EXCEPT !.at = "done"]
    /\ doneCh' = TRUE /\ waitErr' = FALSE /\ exitCode' = exec.code
    /\ UNCHANGED <<readsAll, caller, sess, remote, copyIn, got>>

(* The five seconds are over, or every inspect failed. *)
MarkDoneTimesOut ==
    /\ copyOut.at = "inspect"
    /\ copyOut' = [copyOut EXCEPT !.at = "done"]
    /\ doneCh' = TRUE /\ waitErr' = TRUE /\ exitCode' = 127
    /\ UNCHANGED <<readsAll, caller, sess, remote, copyIn, got>>

-----------------------------------------------------------------------------
(* The caller *)

(* Readers that stop with the first frame, or when they wait. *)
ReadOne ==
    /\ copyOut.at = "write" /\ pipes /\ caller = "read"
    /\ copyOut' = [copyOut EXCEPT !.at = "read"]
    /\ caller' = "wait"
    /\ UNCHANGED <<readsAll, sess, remote, copyIn, result, got>>

(* AgentRunner stops at the exit frame, execCapture reads everything; a      *)
(* ReadLoop also ends with the stream.                                      *)
Read ==
    /\ copyOut.at = "write" /\ pipes
    /\ \/ caller = "read"
       \/ readsAll /\ caller = "wait"
    /\ copyOut' = [copyOut EXCEPT !.at = "read"]
    /\ caller' = IF ~readsAll /\ copyOut.chunk = "exit" THEN "wait" ELSE caller
    /\ UNCHANGED <<readsAll, sess, remote, copyIn, result, got>>

(* execCapture waits while its goroutines read; AgentRunner's ReadLoop sees *)
(* the end of a stream without an exit frame.                               *)
ReadEnds ==
    /\ caller = "read" /\ (readsAll \/ copyOut.at \in {"inspect", "done"})
    /\ caller' = "wait"
    /\ UNCHANGED <<readsAll, sess, remote, copyOut, copyIn, result, got>>

Wait ==
    /\ caller = "wait" /\ doneCh
    /\ got' = IF waitErr \/ exitCode # 0 THEN "err" ELSE "ok"
    /\ caller' = "close"
    /\ UNCHANGED <<readsAll, sess, remote, copyOut, copyIn, result>>

(* A Close that leaves the pipes open. *)
CloseHijackOnly ==
    /\ caller = "close"
    /\ closed' = TRUE /\ caller' = "done"
    /\ hijack' = IF hijack = "up" THEN "cut" ELSE hijack
    /\ UNCHANGED <<readsAll, started, pipes, remote, copyOut, copyIn, result, got>>

Close ==
    /\ caller = "close"
    /\ closed' = TRUE /\ caller' = "done" /\ pipes' = FALSE
    /\ hijack' = IF hijack = "up" THEN "cut" ELSE hijack
    /\ UNCHANGED <<readsAll, started, remote, copyOut, copyIn, result, got>>

(* AgentRunner gives up after Start: a Send fails, the deferred Close runs. *)
GiveUp ==
    /\ caller = "read" /\ ~readsAll
    /\ caller' = "close"
    /\ UNCHANGED <<readsAll, sess, remote, copyOut, copyIn, result, got>>

-----------------------------------------------------------------------------
(* The container and the daemon: external *)

Output(chunk) ==
    /\ exec.run = "up" /\ sent < MaxChunks
    /\ hijack = "cut" \/ Len(wire) < HijackCap
    /\ exec.said => chunk = "log"     \* goroutines that still log
    /\ chunk = "exit" => ~readsAll
    /\ wire' = IF hijack = "up" THEN Append(wire, chunk) ELSE wire
    /\ sent' = sent + 1
    /\ exec' = [exec EXCEPT !.said = @ \/ chunk = "exit"]
    /\ UNCHANGED <<readsAll, caller, sess, copyOut, copyIn, inspect, result, got>>

ExecExits(code) ==
    /\ exec.run = "up"
    /\ exec' = [exec EXCEPT !.run = "exited", !.code = code]
    /\ UNCHANGED <<readsAll, caller, sess, wire, sent, copyOut, copyIn, inspect, result, got>>

(* The daemon reports it a little later. *)
InspectSees ==
    /\ exec.run = "exited" /\ inspect = "running"
    /\ inspect' = "exited"
    /\ UNCHANGED <<readsAll, caller, sess, exec, wire, sent, copyOut, copyIn, result, got>>

Cut ==
    /\ hijack = "up"
    /\ hijack' = "cut"
    /\ UNCHANGED <<readsAll, caller, started, closed, pipes, remote, copyOut, copyIn, result, got>>

-----------------------------------------------------------------------------
CopyOut == CopyRead \/ CopyEnds \/ MarkDone \/ MarkDoneTimesOut
Caller == Read \/ ReadEnds \/ Wait \/ Close

Next ==
    \/ Start \/ StartFails \/ CopyInEnds \/ CopyOut \/ Caller \/ GiveUp
    \/ \E c \in Chunks : Output(c)
    \/ \E c \in Codes : ExecExits(c)
    \/ InspectSees \/ Cut

(* The goroutines, the caller and the daemon go on; an exec may never end. *)
SessionFairness ==
    /\ WF_vars(CopyInEnds) /\ WF_vars(CopyOut) /\ WF_vars(Caller)
    /\ WF_vars(InspectSees)

-----------------------------------------------------------------------------
(* Wait reports success only for an exec that has ended with 0, although    *)
(* the output stream ends before the daemon knows the exit code, and also   *)
(* when the connection is cut while the exec runs on.                       *)
WaitTellsTruth == got = "ok" => exec.run = "exited" /\ exec.code = 0

(* Output behind the exit frame, which AgentRunner does not read any more,   *)
(* holds the demultiplexer in the unbuffered pipe.                           *)
Unread == ~readsAll /\ caller = "wait" /\ copyOut = [at |-> "write", chunk |-> "log"]

(* "Wait blocks until the exec exits", and no longer, unless the agent logs  *)
(* behind its exit frame.                                                    *)
WaitReturns == (caller = "wait" /\ exec.run = "exited") ~> (caller # "wait" \/ Unread)

(* A closed session leaves no goroutine behind. *)
CloseEndsGoroutines ==
    closed ~> (copyOut.at \in {"off", "done"} /\ copyIn \in {"off", "done"})
=============================================================================
