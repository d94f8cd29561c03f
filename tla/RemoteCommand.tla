--------------------------- MODULE RemoteCommand ---------------------------
(***************************************************************************)
(* One intercepted command from end to end: the mproxy-shim that replaced  *)
(* the program (cmd/mproxy-shim), the broker connection that serves it     *)
(* (pkg/broker serveConn, readFrames, streamPipe), the runner that opened  *)
(* the session (pkg/remoteexec RunWithControl) and, through module Agent,  *)
(* the agent and the remote process group.                                 *)
(*                                                                         *)
(* Every goroutine is a process of its own.  Sockets and the session are   *)
(* bounded queues; io.Pipe has no buffer, so a write and the read that     *)
(* takes it are one joint step.                                            *)
(***************************************************************************)
EXTENDS Agent

CONSTANTS
    Kinds,       \* what may happen: subset of EventKinds
    MaxEvents,   \* how often: input and output chunks, signals, forks (bound)
    ShimSigCap,  \* capacity of the shim's sigCh (4 in the code)
    SigCap,      \* capacity of serveConn's sigCh (8 in the code)
    SockCap,     \* frames in one direction of the broker socket
    Faults       \* the faults allowed: subset of {"start", "link", "shim", "broker"},
                 \*   at most one of them in a behaviour (bound)

(* Input on stdin or an extra fd, output on stdout, stderr or an extra fd,  *)
(* a signal to the shim, a fork of the remote program.                      *)
EventKinds == {"in", "fdin", "out", "fdout", "sig", "fork"}

ASSUME CommandAssumption ==
    /\ MaxEvents \in Nat /\ Kinds \subseteq EventKinds
    /\ {ShimSigCap, SigCap, SockCap} \subseteq Nat \ {0}
    /\ Faults \subseteq {"start", "link", "shim", "broker"}

VARIABLES
    next,      \* [InStreams -> number of the next chunk the shim will read]
    shimIn,    \* [InStreams -> "read" or "done": streamStdin / streamFD]
    shimSigs,  \* signals in the shim's sigCh
    sigs,      \* signals sent to the shim so far
    shim,      \* "run", "exited" or "killed"
    shimCode,  \* exit code of the shim, -1 before
    shimOut,   \* [OutStreams -> chunks written to the shim's own fds]
    c2b, c2bEnd,  \* socket shim -> broker; its write side is closed
    b2c,          \* socket broker -> shim
    rf,        \* readFrames: [at, s, v]
    sigq, sigqClosed,  \* serveConn's sigCh
    stdinW, stdinR,    \* the two ends of the stdin pipe are open
    fdOpen,    \* extra fds whose fdPipePair is open
    sp,        \* [OutStreams -> streamPipe: [at, v]]
    outW,      \* stdoutWriter and stderrWriter are open
    bmain,     \* serveConn: "run", "drain", "exit", "closed"
    rmain,     \* RunWithControl: "ensure", "config", "exec", "loop", "write",
               \*   "closing", "bridges", "wait", "returned"
    rw,        \* the chunk ReadLoop is writing: [s, v]
    rb,        \* [InStreams -> bridgeReaderToMux: [at, v]]
    rsig,      \* the signal goroutine: "idle", "recv", "send", "done"
    rcode,     \* exit code of RunWithControl (-1: the loop ended without one)
    linkUp,    \* the connection is up
    ctxDone    \* runtimeDeps.Close has ended the broker's context

shimVars == <<next, shimIn, shimSigs, sigs, shim, shimCode, shimOut>>
sockVars == <<c2b, c2bEnd, b2c>>
pipeVars == <<sigq, sigqClosed, stdinW, stdinR, fdOpen, outW>>
runVars == <<rmain, rw, rb, rsig, rcode, linkUp, ctxDone>>
localVars == <<shimVars, sockVars, rf, pipeVars, sp, bmain, runVars>>
vars == <<agentVars, localVars>>

Init ==
    /\ AgentInit
    /\ next = [s \in InStreams |-> 1]
    /\ shimIn = [s \in InStreams |-> "read"]
    /\ shimSigs = 0 /\ sigs = 0
    /\ shim = "run" /\ shimCode = -1
    /\ shimOut = [s \in OutStreams |-> <<>>]
    /\ c2b = <<>> /\ c2bEnd = FALSE /\ b2c = <<>>
    /\ rf = [at |-> "decode", s |-> 0, v |-> 0]
    /\ sigq = 0 /\ sigqClosed = FALSE
    /\ stdinW = TRUE /\ stdinR = TRUE /\ fdOpen = Extras /\ outW = TRUE
    /\ sp = [s \in OutStreams |-> [at |-> "read", v |-> 0]]
    /\ bmain = "run" /\ rmain = "ensure"
    /\ rw = [s |-> 0, v |-> 0]
    /\ rb = [s \in InStreams |-> [at |-> "idle", v |-> 0]]
    /\ rsig = "idle" /\ rcode = -1 /\ linkUp = TRUE /\ ctxDone = FALSE

(* What the user and the remote program have done so far: as often as       *)
(* MaxEvents allows, and only what Kinds does.                              *)
Events ==
    UNION {{<<IF s \in Extras THEN "fdin" ELSE "in", s, n>> : n \in 2..next[s]} :
           s \in InStreams}
    \cup UNION {{<<IF s \in Extras THEN "fdout" ELSE "out", s, n>> : n \in 1..wrote[s]} :
                s \in OutStreams}
    \cup {<<"sig", 0, n>> : n \in 1..sigs}
    \cup {<<"fork", p, 1>> : p \in {p \in Procs \ {Leader} : proc[p] # "none"}}
WithinBounds == Cardinality(Events) <= MaxEvents /\ \A e \in Events : e[1] \in Kinds

(* Nothing has gone wrong so far. *)
Unharmed == linkUp /\ shim # "killed" /\ ~ctxDone

-----------------------------------------------------------------------------
(* The local user of the shim. *)

(* os/signal drops a signal that finds the channel full. *)
UserSignals ==
    /\ shim = "run"
    /\ sigs' = sigs + 1
    /\ shimSigs' = IF shimSigs < ShimSigCap THEN shimSigs + 1 ELSE shimSigs
    /\ UNCHANGED <<agentVars, next, shimIn, shim, shimCode, shimOut,
                   sockVars, rf, pipeVars, sp, bmain, runVars>>

-----------------------------------------------------------------------------
(* mproxy-shim *)

(* safeSend ignores the error it gets once the write side is closed. *)
ShimSend(f) ==
    /\ shim = "run"
    /\ \/ ~c2bEnd /\ Len(c2b) < SockCap /\ c2b' = Append(c2b, f)
       \/ c2bEnd /\ UNCHANGED c2b

(* streamStdin and streamFD: a chunk the local user provides. *)
ShimStream(s) ==
    /\ shimIn[s] = "read"
    /\ ShimSend(Frame("data", s, next[s]))
    /\ next' = [next EXCEPT ![s] = @ + 1]
    /\ UNCHANGED <<agentVars, shimIn, shimSigs, sigs, shim, shimCode, shimOut,
                   c2bEnd, b2c, rf, pipeVars, sp, bmain, runVars>>

(* The user ends the input: the write side is closed after stdin, and nothing is said  *)
(* of the end of an extra fd.                                               *)
ShimStreamEnd(s) ==
    /\ shim = "run" /\ shimIn[s] = "read"
    /\ shimIn' = [shimIn EXCEPT ![s] = "done"]
    /\ c2bEnd' = (c2bEnd \/ s = 0)
    /\ UNCHANGED <<agentVars, next, shimSigs, sigs, shim, shimCode, shimOut,
                   c2b, b2c, rf, pipeVars, sp, bmain, runVars>>

ShimForwardSignal ==
    /\ shimSigs > 0
    /\ ShimSend(Frame("sig", 0, SIGINT))
    /\ shimSigs' = shimSigs - 1
    /\ UNCHANGED <<agentVars, next, shimIn, sigs, shim, shimCode, shimOut,
                   c2bEnd, b2c, rf, pipeVars, sp, bmain, runVars>>

(* The read loop of Run: output, the exit code, or a broken connection. *)
ShimReceive ==
    /\ shim = "run"
    /\ \/ /\ b2c # <<>> /\ b2c' = Tail(b2c)
          /\ \/ /\ Head(b2c).t = "data"
                /\ shimOut' = [shimOut EXCEPT ![Head(b2c).s] = Append(@, Head(b2c).v)]
                /\ UNCHANGED <<shim, shimCode, c2bEnd>>
             \/ /\ Head(b2c).t = "exit"
                /\ shim' = "exited" /\ shimCode' = Head(b2c).v /\ c2bEnd' = TRUE
                /\ UNCHANGED shimOut
       \/ /\ b2c = <<>> /\ bmain = "closed"
          /\ shim' = "exited" /\ shimCode' = 127 /\ c2bEnd' = TRUE
          /\ UNCHANGED <<b2c, shimOut>>
    /\ UNCHANGED <<agentVars, next, shimIn, shimSigs, sigs, c2b, rf, pipeVars,
                   sp, bmain, runVars>>

(* The shim is killed: the kernel closes its socket. *)
ShimKilled ==
    /\ "shim" \in Faults /\ Unharmed /\ shim = "run"
    /\ shim' = "killed" /\ c2bEnd' = TRUE
    /\ UNCHANGED <<agentVars, next, shimIn, shimSigs, sigs, shimCode, shimOut,
                   c2b, b2c, rf, pipeVars, sp, bmain, runVars>>

-----------------------------------------------------------------------------
(* broker: readFrames *)

rfTop == [at |-> "decode", s |-> 0, v |-> 0]

ReadFramesDecode ==
    /\ rf.at = "decode" /\ bmain # "closed" /\ c2b # <<>>
    /\ c2b' = Tail(c2b)
    /\ rf' = [at |-> IF Head(c2b).t = "sig" THEN "sig" ELSE "write",
              s |-> Head(c2b).s, v |-> Head(c2b).v]
    /\ UNCHANGED <<agentVars, shimVars, c2bEnd, b2c, pipeVars, sp, bmain, runVars>>

(* readFrames without the close of sigCh. *)
ReadFramesEndKeepsSigCh ==
    /\ \/ rf.at = "decode" /\ (bmain = "closed" \/ (c2b = <<>> /\ c2bEnd))
       \/ rf.at = "write" /\ rf.s = 0 /\ ~stdinR
    /\ rf' = [rfTop EXCEPT !.at = "done"]
    /\ stdinW' = FALSE
    /\ UNCHANGED <<agentVars, shimVars, sockVars, sigq, sigqClosed, stdinR, fdOpen, outW,
                   sp, bmain, runVars>>

(* The deferred calls of readFrames; it ends when the connection does, or   *)
(* when the runner no longer reads stdin.                                   *)
ReadFramesEnd ==
    /\ \/ rf.at = "decode" /\ (bmain = "closed" \/ (c2b = <<>> /\ c2bEnd))
       \/ rf.at = "write" /\ rf.s = 0 /\ ~stdinR
    /\ rf' = [rfTop EXCEPT !.at = "done"]
    /\ sigqClosed' = TRUE /\ stdinW' = FALSE
    /\ UNCHANGED <<agentVars, shimVars, sockVars, sigq, stdinR, fdOpen, outW, sp,
                   bmain, runVars>>

ReadFramesSignal ==
    /\ rf.at = "sig" /\ sigq < SigCap
    /\ sigq' = sigq + 1 /\ rf' = rfTop
    /\ UNCHANGED <<agentVars, shimVars, sockVars, sigqClosed, stdinW, stdinR, fdOpen,
                   outW, sp, bmain, runVars>>

(* A write to the pipe of a closed extra fd fails and is ignored. *)
ReadFramesFdGone ==
    /\ rf.at = "write" /\ rf.s \in Extras \ fdOpen
    /\ rf' = rfTop
    /\ UNCHANGED <<agentVars, shimVars, sockVars, pipeVars, sp, bmain, runVars>>

(* The stdin or extra-fd pipe: readFrames writes, bridgeReaderToMux reads. *)
PipeToRunner(s) ==
    /\ rf.at = "write" /\ rf.s = s /\ rb[s].at = "read"
    /\ IF s = 0 THEN stdinR ELSE s \in fdOpen
    /\ rf' = rfTop
    /\ rb' = [rb EXCEPT ![s] = [at |-> "send", v |-> rf.v]]
    /\ UNCHANGED <<agentVars, shimVars, sockVars, pipeVars, sp, bmain, rmain, rw, rsig,
                   rcode, linkUp, ctxDone>>

-----------------------------------------------------------------------------
(* broker: streamPipe and the end of serveConn *)

BrokerSend(f) ==
    \/ shim = "run" /\ Len(b2c) < SockCap /\ b2c' = Append(b2c, f)
    \/ shim # "run" /\ UNCHANGED b2c

StreamPipe(s) ==
    /\ \/ /\ sp[s].at = "read" /\ IF s \in Extras THEN s \notin fdOpen ELSE ~outW
          /\ sp' = [sp EXCEPT ![s].at = "done"]
          /\ UNCHANGED b2c
       \/ /\ sp[s].at = "send"
          /\ BrokerSend(Frame("data", s, sp[s].v))
          /\ sp' = [sp EXCEPT ![s] = [at |-> "read", v |-> 0]]
    /\ UNCHANGED <<agentVars, shimVars, c2b, c2bEnd, rf, pipeVars, bmain, runVars>>

(* RunWithControl returned: the writers and extra fds are closed. *)
BrokerClosePipes ==
    /\ bmain = "run" /\ rmain = "returned"
    /\ bmain' = "drain" /\ outW' = FALSE /\ fdOpen' = {}
    /\ UNCHANGED <<agentVars, shimVars, sockVars, rf, sigq, sigqClosed, stdinW, stdinR,
                   sp, runVars>>

(* The exit frame without the streamWG.Wait before it. *)
BrokerExitAtOnce ==
    /\ bmain = "drain"
    /\ bmain' = "exit"
    /\ UNCHANGED <<agentVars, shimVars, sockVars, rf, pipeVars, sp, runVars>>

(* streamWG.Wait *)
BrokerDrained ==
    /\ bmain = "drain" /\ \A s \in OutStreams : sp[s].at = "done"
    /\ bmain' = "exit"
    /\ UNCHANGED <<agentVars, shimVars, sockVars, rf, pipeVars, sp, runVars>>

(* A lost command reported as a success. *)
BrokerExitZero ==
    /\ bmain = "exit"
    /\ BrokerSend(Frame("exit", 0, IF rcode < 0 THEN 0 ELSE rcode))
    /\ bmain' = "closed" /\ stdinR' = FALSE
    /\ UNCHANGED <<agentVars, shimVars, c2b, c2bEnd, rf, sigq, sigqClosed, stdinW,
                   fdOpen, outW, sp, runVars>>

(* The exit frame, then the deferred stdinReader.Close and conn.Close.      *)
(* RunWithControl turns a loop that ended without an exit frame into 127.   *)
BrokerExit ==
    /\ bmain = "exit"
    /\ BrokerSend(Frame("exit", 0, IF rcode < 0 THEN 127 ELSE rcode))
    /\ bmain' = "closed" /\ stdinR' = FALSE
    /\ UNCHANGED <<agentVars, shimVars, c2b, c2bEnd, rf, sigq, sigqClosed, stdinW,
                   fdOpen, outW, sp, runVars>>

-----------------------------------------------------------------------------
(* RunWithControl *)

(* mux.Send on the session's stdin: it may block, and fails once the        *)
(* session's stdin is closed or the connection is gone.                     *)
RunnerSend(f) == ~downEnd /\ Len(down) < LinkCap /\ down' = Append(down, f)
RunnerSendFails ==
    downEnd /\ (~linkUp \/ agent # "up" \/ Len(down) < LinkCap) /\ UNCHANGED down

(* Ensure, NewSession, the pipes or Start fails, as they may with a context *)
(* that has ended.                                                          *)
RunnerFails ==
    /\ "start" \in Faults \/ ctxDone
    /\ rmain = "ensure"
    /\ rmain' = "returned" /\ rcode' = 127
    /\ downEnd' = TRUE
    /\ UNCHANGED <<down, up, reader, athreads, group, shimVars, sockVars, rf, pipeVars,
                   sp, bmain, rw, rb, rsig, linkUp, ctxDone>>

(* The session is open; the config frame and the exec frame follow. *)
RunnerRequest ==
    /\ rmain \in {"ensure", "config"}
    /\ \/ /\ RunnerSend(Frame(IF rmain = "ensure" THEN "config" ELSE "exec", 0, 0))
          /\ rmain' = IF rmain = "ensure" THEN "config" ELSE "loop"
          /\ rb' = IF rmain = "config" THEN [s \in InStreams |-> [at |-> "read", v |-> 0]] ELSE rb
          /\ rsig' = IF rmain = "config" THEN "recv" ELSE rsig
          /\ UNCHANGED rcode
       \/ /\ RunnerSendFails
          /\ rmain' = "returned" /\ rcode' = 127
          /\ UNCHANGED <<rb, rsig>>
    /\ UNCHANGED <<downEnd, up, reader, athreads, group, shimVars, sockVars, rf,
                   pipeVars, sp, bmain, rw, linkUp, ctxDone>>

(* bridgeReaderToMux *)
RunnerBridge(s) ==
    /\ \/ /\ rb[s].at = "read"
          /\ IF s = 0 THEN ~stdinW \/ ~stdinR ELSE s \notin fdOpen
          /\ rb' = [rb EXCEPT ![s].at = "eof"]
          /\ UNCHANGED down
       \/ /\ rb[s].at = "send"
          /\ \/ /\ RunnerSend(Frame("data", s, rb[s].v))
                /\ rb' = [rb EXCEPT ![s] = [at |-> "read", v |-> 0]]
             \/ /\ RunnerSendFails
                /\ rb' = [rb EXCEPT ![s] = [at |-> "done", v |-> 0]]
       \/ /\ rb[s].at = "eof"
          /\ RunnerSend(Frame("eof", s, 0)) \/ RunnerSendFails
          /\ rb' = [rb EXCEPT ![s].at = "done"]
    /\ UNCHANGED <<downEnd, up, reader, athreads, group, shimVars, sockVars, rf,
                   pipeVars, sp, bmain, rmain, rw, rsig, rcode, linkUp, ctxDone>>

(* The signal goroutine; it outlives RunWithControl until sigCh is closed. *)
RunnerSignal ==
    /\ \/ /\ rsig = "recv" /\ sigq > 0
          /\ rsig' = "send" /\ sigq' = sigq - 1 /\ UNCHANGED down
       \/ /\ rsig = "recv" /\ sigq = 0 /\ sigqClosed
          /\ rsig' = "done" /\ UNCHANGED <<sigq, down>>
       \/ /\ rsig = "send"
          /\ RunnerSend(Frame("sig", 0, SIGINT)) \/ RunnerSendFails
          /\ rsig' = "recv" /\ UNCHANGED sigq
    /\ UNCHANGED <<downEnd, up, reader, athreads, group, shimVars, sockVars, rf,
                   sigqClosed, stdinW, stdinR, fdOpen, outW, sp, bmain, rmain, rw, rb,
                   rcode, linkUp, ctxDone>>

(* mux.ReadLoop, which looks at the context before it waits for a frame. *)
RunnerLoop ==
    /\ rmain = "loop"
    /\ \/ /\ up # <<>> /\ up' = Tail(up)
          /\ LET f == Head(up) IN
             \/ /\ f.t = "data"
                /\ rmain' = "write" /\ rw' = [s |-> f.s, v |-> f.v]
                /\ UNCHANGED <<rcode, fdOpen>>
             \/ /\ f.t = "eof"
                /\ fdOpen' = fdOpen \ {f.s}
                /\ UNCHANGED <<rmain, rw, rcode>>
             \/ f.t = "log" /\ UNCHANGED <<rmain, rw, rcode, fdOpen>>
             \/ /\ f.t = "exit"
                /\ rmain' = "closing" /\ rcode' = f.v
                /\ UNCHANGED <<rw, fdOpen>>
       \/ /\ (up = <<>> /\ (agent # "up" \/ ~linkUp)) \/ ctxDone
          /\ rmain' = "closing"
          /\ UNCHANGED <<up, rw, rcode, fdOpen>>
    /\ UNCHANGED <<down, downEnd, reader, athreads, group, shimVars, sockVars, rf, sigq,
                   sigqClosed, stdinW, stdinR, outW, sp, bmain, rb, rsig, linkUp, ctxDone>>

(* The stdout, stderr or extra-fd pipe: ReadLoop writes, streamPipe reads. *)
RunnerWrite ==
    LET s == rw.s IN
    /\ rmain = "write"
    /\ \/ /\ sp[s].at = "read" /\ (s \in Extras => s \in fdOpen)
          /\ sp' = [sp EXCEPT ![s] = [at |-> "send", v |-> rw.v]]
       \/ s \in Extras \ fdOpen /\ UNCHANGED sp
    /\ rmain' = "loop"
    /\ UNCHANGED <<agentVars, shimVars, sockVars, rf, pipeVars, bmain, rw, rb, rsig, rcode,
                   linkUp, ctxDone>>

(* The close of ctrl.Stdin left out. *)
RunnerCloseKeepsStdin ==
    /\ rmain = "closing"
    /\ rmain' = "bridges"
    /\ downEnd' = TRUE /\ fdOpen' = {}
    /\ UNCHANGED <<down, up, reader, athreads, group, shimVars, sockVars, rf, sigq,
                   sigqClosed, stdinW, stdinR, outW, sp, bmain, rw, rb, rsig, rcode, linkUp, ctxDone>>

(* sessIn.Close, the close of ctrl.Stdin and of the extra fds. *)
RunnerClose ==
    /\ rmain = "closing"
    /\ rmain' = "bridges"
    /\ downEnd' = TRUE /\ stdinR' = FALSE /\ fdOpen' = {}
    /\ UNCHANGED <<down, up, reader, athreads, group, shimVars, sockVars, rf, sigq,
                   sigqClosed, stdinW, outW, sp, bmain, rw, rb, rsig, rcode, linkUp, ctxDone>>

(* bridgeWG.Wait, then session.Wait, which lasts until the agent exits. *)
RunnerJoin ==
    /\ \/ rmain = "bridges" /\ (\A s \in InStreams : rb[s].at = "done") /\ rmain' = "wait"
       \/ rmain = "wait" /\ (agent # "up" \/ ~linkUp) /\ rmain' = "returned"
    /\ UNCHANGED <<agentVars, shimVars, sockVars, rf, pipeVars, sp, bmain, rw, rb, rsig,
                   rcode, linkUp, ctxDone>>

(* The run is over while the command is not: Close ends the context, then   *)
(* the process ends, and the connection with it.                            *)
ContextEnds ==
    /\ "broker" \in Faults /\ Unharmed /\ bmain # "closed"
    /\ ctxDone' = TRUE
    /\ UNCHANGED <<agentVars, shimVars, sockVars, rf, pipeVars, sp, bmain, rmain, rw, rb, rsig,
                   rcode, linkUp>>

(* The machineproxy process ends: its goroutines and its descriptors go. A  *)
(* crash is an end with nothing between it and the end of the context.      *)
BrokerDies ==
    /\ ctxDone /\ bmain # "closed"
    /\ bmain' = "closed" /\ rmain' = "returned" /\ rsig' = "done"
    /\ rf' = [rf EXCEPT !.at = "done"]
    /\ rb' = [s \in InStreams |-> [at |-> "done", v |-> 0]]
    /\ sp' = [s \in OutStreams |-> [at |-> "done", v |-> 0]]
    /\ linkUp' = FALSE /\ downEnd' = TRUE /\ reader' \in {"nobody", "daemon"}
    /\ UNCHANGED <<down, up, athreads, group, shimVars, sockVars, pipeVars, rw, rcode,
                   ctxDone>>

(* The connection breaks: each side keeps what had already arrived. *)
LinkLost ==
    /\ "link" \in Faults /\ Unharmed /\ rmain # "ensure"
    /\ linkUp' = FALSE /\ downEnd' = TRUE /\ reader' \in {"nobody", "daemon"}
    /\ \E n \in 0..Len(down) : down' = SubSeq(down, 1, n)
    /\ \E n \in 0..Len(up) : up' = SubSeq(up, 1, n)
    /\ UNCHANGED <<athreads, group, shimVars, sockVars, rf, pipeVars, sp, bmain, rmain, rw,
                   rb, rsig, rcode, ctxDone>>

-----------------------------------------------------------------------------
Shim == ShimForwardSignal \/ ShimReceive
ReadFrames == ReadFramesDecode \/ ReadFramesEnd \/ ReadFramesSignal \/ ReadFramesFdGone
              \/ \E s \in InStreams : PipeToRunner(s)
Broker == BrokerClosePipes \/ BrokerDrained \/ BrokerExit
Runner == RunnerRequest \/ RunnerLoop \/ RunnerWrite \/ RunnerClose \/ RunnerJoin

Next ==
    \/ AgentNext /\ UNCHANGED localVars
    \/ Group /\ UNCHANGED localVars /\ WithinBounds'
    \/ UserSignals /\ WithinBounds'
    \/ ShimForwardSignal \/ ShimReceive \/ ShimKilled
    \/ \E s \in InStreams : (ShimStream(s) /\ WithinBounds') \/ ShimStreamEnd(s)
                            \/ PipeToRunner(s) \/ RunnerBridge(s)
    \/ ReadFramesDecode \/ ReadFramesEnd \/ ReadFramesSignal \/ ReadFramesFdGone
    \/ \E s \in OutStreams : StreamPipe(s)
    \/ BrokerClosePipes \/ BrokerDrained \/ BrokerExit
    \/ RunnerFails \/ RunnerRequest \/ RunnerSignal \/ RunnerLoop \/ RunnerWrite
    \/ RunnerClose \/ RunnerJoin \/ LinkLost \/ ContextEnds \/ BrokerDies

SafeSpec == Init /\ [][Next]_vars

(* Every goroutine on either machine is scheduled, and main returns after   *)
(* Close.  The user, the remote program and the faults are free.            *)
Spec ==
    /\ SafeSpec
    /\ AgentFairness
    /\ WF_vars(ShimForwardSignal) /\ WF_vars(ShimReceive) /\ WF_vars(ReadFrames)
    /\ WF_vars(Broker) /\ WF_vars(Runner) /\ WF_vars(RunnerSignal)
    /\ WF_vars(BrokerDies)
    /\ \A s \in InStreams : WF_vars(RunnerBridge(s))
    /\ \A s \in OutStreams : WF_vars(StreamPipe(s))

-----------------------------------------------------------------------------
(* What the user gave so far, and whether some process can still write. *)
Given == [s \in InStreams |-> next[s] - 1]
Running ==
    CASE proc[Leader] = "none" -> "no"
      [] proc[Leader] # "none" /\ \E s \in OutStreams : Holders(s) # {} -> "yes"
      [] OTHER -> "over"

(* The connection is gone, or the run is over. *)
Lost == ~linkUp \/ ctxDone

Command ==
    INSTANCE Command WITH
        Ins <- InStreams, Outs <- OutStreams, Reliable <- OutStreams \ Extras,
        given <- Given, taken <- got, shown <- shimOut, run <- Running, lost <- Lost,
        answer <- shimCode

(* Shim, broker, runner and agent implement the promise of module Command:  *)
(* input arrives and output is shown in order, once and without gaps,       *)
(* though they share every hop with signals and other streams; the shim's   *)
(* exit code is the remote child's and comes after everything the command   *)
(* wrote to stdout and stderr, or is 127 for a command that was never       *)
(* started, and is not started later, whose connection was lost, or that    *)
(* outlasted the run.                                                       *)
KeepsPromise == Command!Spec

(* The agent's read loop has input for a command that does not read.  What  *)
(* the next properties start from does not go away while it waits, so they  *)
(* except only a loop that waits for ever.                                  *)
Blocked == aloop.at = "write"

(* The command comes to an end: once the remote command has exited and no   *)
(* process holds its output, or the connection is lost, the shim returns,   *)
(* unless the agent's read loop stays blocked on input nobody reads.        *)
CommandReturns ==
    (proc[Leader] \in {"zombie", "gone"} /\ \A s \in OutStreams : Holders(s) = {}) \/ ~linkUp
    ~> shim # "run" \/ (linkUp /\ \E s \in OutStreams : Holders(s) # {}) \/ Blocked

(* serveConn leaves no goroutine behind: after it has closed the            *)
(* connection the frame reader, the bridges and the signal goroutine end,   *)
(* provided RunWithControl got as far as starting the latter.               *)
GoroutinesEnd ==
    (bmain = "closed" /\ rsig # "idle") ~>
        (rf.at = "done" /\ rsig = "done" /\ \A s \in InStreams : rb[s].at = "done")

(* "The child would otherwise keep running orphaned on the remote host, so  *)
(* tear down its whole process group and exit with it": once the connection *)
(* is gone the leader ends, even if it ignores SIGTERM, and when it had to  *)
(* be killed nobody of its group is left, unless SIGPIPE took the agent     *)
(* first (its next write to a session nobody reads), or its read loop stays *)
(* blocked on input the command never takes.  A leader that ends by itself  *)
(* within the grace period may leave members behind that ignore SIGTERM.    *)
LossEndsGroup ==
    downEnd /\ Leader \in Live
    ~> (Leader \notin Live /\ (status = 137 => Live = {})) \/ agent = "killed" \/ Blocked
=============================================================================
