------------------------------- MODULE Agent -------------------------------
(***************************************************************************)
(* cmd/mproxy-agent running one command: its main goroutine, the mux       *)
(* ReadLoop that feeds the child, the bridges that carry the child's       *)
(* output back, the process group of the child and the kernel pipes        *)
(* between them.  pkg/agentproto (Mux.ReadLoop, Send) and pkg/childproc    *)
(* (Build, SignalGroup) are modelled where the agent calls them; the       *)
(* reaper appears as the promise of module ChildWait.                      *)
(*                                                                         *)
(* The agent talks to the local machine through two bounded byte streams,  *)
(* `down' (its stdin) and `up' (its stdout).  This module has no opinion   *)
(* on who is at the other end: RemoteCommand puts the runner, the broker   *)
(* and the shim there.                                                     *)
(***************************************************************************)
EXTENDS Integers, Sequences, FiniteSets

CONSTANTS
    InStreams,   \* streams that carry local data to the child (0 and extra fds)
    OutStreams,  \* streams that carry the child's data back (1, 2 and extra fds)
    Procs,       \* processes that can be in the child's process group
    Leader,      \* the child the agent starts; Leader \in Procs
    Stubborn,    \* processes that ignore SIGINT and SIGTERM
    Codes,       \* exit codes the leader can choose
    PipeCap,     \* chunks a kernel pipe or socketpair holds
    LinkCap      \* frames in flight in one direction of the session

ASSUME AgentAssumption ==
    /\ 0 \in InStreams /\ 0 \notin OutStreams /\ 1 \in OutStreams
    /\ InStreams \ {0} = OutStreams \ {1, 2}
    /\ Leader \in Procs /\ Stubborn \subseteq Procs
    /\ Codes \subseteq 0..255
    /\ PipeCap \in Nat \ {0} /\ LinkCap \in Nat \ {0}

VARIABLES
    down, downEnd,   \* frames on the agent's stdin; no more will be written
    up,              \* frames on the agent's stdout
    reader,          \* who reads it: "runner", "daemon" (a Docker daemon that lost its
                     \*   client goes on reading) or "nobody" (sshd closes the pipe)
    agent,           \* "up", "killed" (SIGPIPE) or "done" (returned from run)
    amain,           \* where main is
    aloop,           \* where ReadLoop is: [at, s, v]
    abridge,         \* [OutStreams -> where the bridge goroutine is: [at, v]]
    acode,           \* main's variable code
    childDone,       \* content of the channel childDone, -1 when empty
    proc,            \* [Procs -> {"none","alive","dying","zombie","gone"}]
    status,          \* exit code the leader ended with, -1 before
    outPipe,         \* [OutStreams -> chunks in the pipe from the group]
    outHold,         \* [Procs -> output streams the process still holds open]
    wrote,           \* [OutStreams -> number of chunks the group has written]
    inPipe,          \* [InStreams -> chunks in the pipe to the group]
    inClosed,        \* [InStreams -> the agent closed its end]
    got              \* [InStreams -> chunks the group has read]

link == <<down, downEnd, up, reader>>
athreads == <<agent, amain, aloop, abridge, acode, childDone>>
group == <<proc, status, outPipe, outHold, wrote, inPipe, inClosed, got>>
agentVars == <<down, downEnd, up, reader, agent, amain, aloop, abridge, acode,
               childDone, proc, status, outPipe, outHold, wrote, inPipe,
               inClosed, got>>

SIGINT == 2
SIGKILL == 9
SIGTERM == 15

Extras == InStreams \cap OutStreams
Frame(t, s, v) == [t |-> t, s |-> s, v |-> v]
Live == {p \in Procs : proc[p] \in {"alive", "dying"}}
Holders(s) == {p \in Live : s \in outHold[p]}

AgentInit ==
    /\ down = <<>> /\ downEnd = FALSE /\ up = <<>> /\ reader = "runner"
    /\ agent = "up" /\ amain = "first"
    /\ aloop = [at |-> "idle", s |-> 0, v |-> 0]
    /\ abridge = [s \in OutStreams |-> [at |-> "idle", v |-> 0]]
    /\ acode = -1 /\ childDone = -1
    /\ proc = [p \in Procs |-> "none"] /\ status = -1
    /\ outPipe = [s \in OutStreams |-> <<>>]
    /\ outHold = [p \in Procs |-> {}]
    /\ wrote = [s \in OutStreams |-> 0]
    /\ inPipe = [s \in InStreams |-> <<>>]
    /\ inClosed = [s \in InStreams |-> FALSE]
    /\ got = [s \in InStreams |-> <<>>]

-----------------------------------------------------------------------------
(* Mux.Send on the agent's stdout.  A write to a broken fd 1 kills a Go     *)
(* program that does not handle SIGPIPE, and the agent does not; `go' says  *)
(* what happens when the frame could be written.                            *)
Send(f, go) ==
    /\ agent = "up"
    /\ \/ /\ \/ reader = "runner" /\ Len(up) < LinkCap /\ up' = Append(up, f)
             \/ reader = "daemon" /\ UNCHANGED up
          /\ go
          /\ UNCHANGED agent
       \/ /\ reader = "nobody"
          /\ agent' = "killed"
          /\ UNCHANGED <<up, amain, aloop, abridge, acode, childDone, group>>

LogFrame == Frame("log", 0, 0)

(* childproc.SignalGroup.  Once the leader has been reaped its pgid cannot  *)
(* be looked up any more, and the fallback to the lead process fails too.   *)
Struck(sig) == {p \in Live : sig = SIGKILL \/ p \notin Stubborn}
SignalGroup(sig) ==
    IF proc[Leader] \in {"alive", "dying", "zombie"}
      THEN /\ proc' = [p \in Procs |->
                 CASE p \notin Struck(sig) -> proc[p]
                   [] p \in Struck(sig) /\ sig # SIGKILL -> "dying"
                   [] p \in Struck(sig) /\ sig = SIGKILL ->
                        IF p = Leader THEN "zombie" ELSE "gone"]
           /\ status' = IF sig = SIGKILL /\ Leader \in Live THEN 137 ELSE status
      ELSE UNCHANGED <<proc, status>>

-----------------------------------------------------------------------------
(* main *)

(* The agent's logger forwards every record, whatever its level, as a frame *)
(* over the mux: each log call of main is a Send of its own.                *)
LogNext == [config |-> "second", bad |-> "return", building |-> "start",
            failing |-> "refuse", started |-> "bridge", lost |-> "term",
            expired |-> "kill", exited |-> "drain"]
Log ==
    /\ amain \in DOMAIN LogNext
    /\ Send(LogFrame, amain' = LogNext[amain])
    /\ UNCHANGED <<down, downEnd, reader, aloop, abridge, acode, childDone, group>>

(* DecodeOne, twice when the first frame is a config.  Anything but an exec *)
(* frame, or a closed stdin, makes run return 127 without an exit frame.    *)
ReadRequest ==
    /\ agent = "up" /\ amain \in {"first", "second"}
    /\ \/ /\ down # <<>>
          /\ down' = Tail(down)
          /\ amain' = CASE Head(down).t = "config" /\ amain = "first" -> "config"
                        [] Head(down).t = "exec" -> "building"
                        [] OTHER -> "bad"
       \/ /\ down = <<>> /\ downEnd
          /\ amain' = "bad" /\ UNCHANGED down
    /\ UNCHANGED <<downEnd, up, reader, agent, aloop, abridge, acode, childDone, group>>

(* Build or Start fails: the error travels in an exit frame. *)
StartFails ==
    /\ agent = "up" /\ amain = "start"
    /\ amain' = "failing"
    /\ UNCHANGED <<link, agent, aloop, abridge, acode, childDone, group>>

SendRefusal ==
    /\ amain = "refuse"
    /\ Send(Frame("exit", 0, 127), amain' = "return")
    /\ UNCHANGED <<down, downEnd, reader, aloop, abridge, acode, childDone, group>>

Return ==
    /\ agent = "up" /\ amain = "return"
    /\ agent' = "done"
    /\ UNCHANGED <<link, amain, aloop, abridge, acode, childDone, group>>

(* Build gives the child the far end of every channel, and CloseChildSide   *)
(* makes it the only holder.                                                *)
Build == [outHold EXCEPT ![Leader] = OutStreams]

StartChild ==
    /\ agent = "up" /\ amain = "start"
    /\ amain' = "started"
    /\ proc' = [proc EXCEPT ![Leader] = "alive"]
    /\ outHold' = Build
    /\ UNCHANGED <<link, agent, aloop, abridge, acode, childDone, status, outPipe, wrote,
                   inPipe, inClosed, got>>

(* RegisterStream, OnSignal, and the goroutines. *)
StartBridges ==
    /\ agent = "up" /\ amain = "bridge"
    /\ amain' = "select"
    /\ aloop' = [aloop EXCEPT !.at = "decode"]
    /\ abridge' = [s \in OutStreams |-> [at |-> "read", v |-> 0]]
    /\ UNCHANGED <<link, agent, acode, childDone, group>>

(* The select between childDone and muxDone: Go picks any ready case. *)
SelectChildDone ==
    /\ agent = "up" /\ amain = "select" /\ childDone # -1
    /\ acode' = childDone /\ childDone' = -1
    /\ amain' = "exited"
    /\ UNCHANGED <<link, agent, aloop, abridge, group>>

SelectMuxDone ==
    /\ agent = "up" /\ amain = "select" /\ aloop.at = "done"
    /\ amain' = "lost"
    /\ UNCHANGED <<link, agent, aloop, abridge, acode, childDone, group>>

(* terminateChildGroup *)
Terminate ==
    /\ agent = "up" /\ amain = "term"
    /\ SignalGroup(SIGTERM)
    /\ amain' = "grace"
    /\ UNCHANGED <<link, agent, aloop, abridge, acode, childDone, outPipe, outHold,
                   wrote, inPipe, inClosed, got>>

GraceDone ==
    /\ agent = "up" /\ amain \in {"grace", "killed"} /\ childDone # -1
    /\ acode' = childDone /\ childDone' = -1
    /\ amain' = "exited"
    /\ UNCHANGED <<link, agent, aloop, abridge, group>>

GraceExpired ==
    /\ agent = "up" /\ amain = "grace"
    /\ amain' = "expired"
    /\ UNCHANGED <<link, agent, aloop, abridge, acode, childDone, group>>

(* SIGTERM once more instead of SIGKILL. *)
KillPolitely ==
    /\ agent = "up" /\ amain = "kill"
    /\ SignalGroup(SIGTERM)
    /\ amain' = "killed"
    /\ UNCHANGED <<link, agent, aloop, abridge, acode, childDone, outPipe, outHold,
                   wrote, inPipe, inClosed, got>>

Kill ==
    /\ agent = "up" /\ amain = "kill"
    /\ SignalGroup(SIGKILL)
    /\ amain' = "killed"
    /\ UNCHANGED <<link, agent, aloop, abridge, acode, childDone, outPipe, outHold,
                   wrote, inPipe, inClosed, got>>

(* outWG.Wait, the exit frame, then cancel(). *)
SendExit ==
    /\ amain = "drain"
    /\ \A s \in OutStreams : abridge[s].at = "done"
    /\ Send(Frame("exit", 0, acode), amain' = "join")
    /\ UNCHANGED <<down, downEnd, reader, aloop, abridge, acode, childDone, group>>

JoinMux ==
    /\ agent = "up" /\ amain = "join" /\ aloop.at = "done"
    /\ agent' = "done"
    /\ UNCHANGED <<link, amain, aloop, abridge, acode, childDone, group>>

-----------------------------------------------------------------------------
(* Mux.ReadLoop.  The context is only looked at between two frames. *)
LoopTop == [at |-> IF amain = "join" THEN "done" ELSE "decode", s |-> 0, v |-> 0]

(* stdin ends between two frames, or inside one: then the loop's goroutine  *)
(* logs a warning first.                                                    *)
LoopEOF ==
    /\ agent = "up" /\ aloop.at = "decode" /\ down = <<>> /\ downEnd
    /\ \E at \in {"done", "warn"} : aloop' = [aloop EXCEPT !.at = at]
    /\ UNCHANGED <<link, agent, amain, abridge, acode, childDone, group>>

LoopWarn ==
    /\ aloop.at = "warn"
    /\ Send(LogFrame, aloop' = [aloop EXCEPT !.at = "done"])
    /\ UNCHANGED <<down, downEnd, reader, amain, abridge, acode, childDone, group>>

LoopData ==
    /\ agent = "up" /\ aloop.at = "decode" /\ down # <<>> /\ Head(down).t = "data"
    /\ down' = Tail(down)
    /\ aloop' = [at |-> "write", s |-> Head(down).s, v |-> Head(down).v]
    /\ UNCHANGED <<downEnd, up, reader, agent, amain, abridge, acode, childDone, group>>

(* h.Write blocks while the pipe is full and somebody could still read it.  *)
LoopWrite ==
    LET s == aloop.s IN
    /\ agent = "up" /\ aloop.at = "write"
    /\ \/ /\ ~inClosed[s] /\ Live # {} /\ Len(inPipe[s]) < PipeCap
          /\ inPipe' = [inPipe EXCEPT ![s] = Append(@, aloop.v)]
       \/ (inClosed[s] \/ Live = {}) /\ UNCHANGED inPipe
    /\ aloop' = LoopTop
    /\ UNCHANGED <<link, agent, amain, abridge, acode, childDone, proc, status,
                   outPipe, outHold, wrote, inClosed, got>>

LoopStreamEOF ==
    /\ agent = "up" /\ aloop.at = "decode" /\ down # <<>> /\ Head(down).t = "eof"
    /\ down' = Tail(down)
    /\ inClosed' = [inClosed EXCEPT ![Head(down).s] = TRUE]
    /\ aloop' = LoopTop
    /\ UNCHANGED <<downEnd, up, reader, agent, amain, abridge, acode, childDone,
                   proc, status, outPipe, outHold, wrote, inPipe, got>>

(* onSignal logs over the mux before it signals the group. *)
LoopSignal ==
    /\ aloop.at = "decode" /\ down # <<>> /\ Head(down).t = "sig"
    /\ Send(LogFrame, SignalGroup(Head(down).v) /\ aloop' = LoopTop
                      /\ UNCHANGED <<outPipe, outHold, wrote, inPipe, inClosed, got>>
                      /\ UNCHANGED <<amain, abridge, acode, childDone>>)
    /\ down' = Tail(down)
    /\ UNCHANGED <<downEnd, reader>>

-----------------------------------------------------------------------------
(* bridgeToMux, one per output stream.  An extra fd is one socket for both  *)
(* directions, so its bridge also ends when ReadLoop closes it.             *)
BridgeRead(s) ==
    /\ agent = "up" /\ abridge[s].at = "read"
    /\ \/ /\ outPipe[s] # <<>> /\ ~(s \in Extras /\ inClosed[s])
          /\ abridge' = [abridge EXCEPT ![s] = [at |-> "send", v |-> Head(outPipe[s])]]
          /\ outPipe' = [outPipe EXCEPT ![s] = Tail(@)]
       \/ /\ (outPipe[s] = <<>> /\ Holders(s) = {}) \/ (s \in Extras /\ inClosed[s])
          /\ abridge' = [abridge EXCEPT ![s].at = "eof"]
          /\ UNCHANGED outPipe
    /\ UNCHANGED <<link, agent, amain, aloop, acode, childDone, proc, status,
                   outHold, wrote, inPipe, inClosed, got>>

BridgeSend(s) ==
    /\ abridge[s].at \in {"send", "eof"}
    /\ LET data == abridge[s].at = "send" IN
       Send(Frame(IF data THEN "data" ELSE "eof", s, abridge[s].v),
            abridge' = [abridge EXCEPT ![s] =
                          [at |-> IF data THEN "read" ELSE "done", v |-> 0]])
    /\ UNCHANGED <<down, downEnd, reader, amain, aloop, acode, childDone, group>>

(* reaper.WaitFor: the leader's zombie is reaped and its code is delivered. *)
WaitFor ==
    /\ agent = "up" /\ aloop.at # "idle" /\ proc[Leader] = "zombie"
    /\ proc' = [proc EXCEPT ![Leader] = "gone"]
    /\ childDone' = status
    /\ UNCHANGED <<link, agent, amain, aloop, abridge, acode, status, outPipe,
                   outHold, wrote, inPipe, inClosed, got>>

-----------------------------------------------------------------------------
(* The processes of the group: any program at all. *)

ProcExit(p, c) ==
    /\ p \in Live /\ (proc[p] = "dying" \/ c # 143)
    /\ proc' = [proc EXCEPT ![p] = IF p = Leader THEN "zombie" ELSE "gone"]
    /\ status' = IF p = Leader THEN c ELSE status
    /\ UNCHANGED <<link, athreads, outPipe, outHold, wrote, inPipe, inClosed, got>>

ProcFork(p, q) ==
    /\ p \in Live /\ proc[q] = "none" /\ q # Leader
    /\ proc' = [proc EXCEPT ![q] = "alive"]
    /\ outHold' = [outHold EXCEPT ![q] = outHold[p]]
    /\ UNCHANGED <<link, athreads, status, outPipe, wrote, inPipe, inClosed, got>>

ProcDropOutput(p) ==
    /\ p \in Live /\ p # Leader /\ outHold[p] # {}
    /\ outHold' = [outHold EXCEPT ![p] = {}]
    /\ UNCHANGED <<link, athreads, proc, status, outPipe, wrote, inPipe, inClosed, got>>

ProcWrite(p, s) ==
    /\ p \in Live /\ s \in outHold[p] /\ agent = "up"
    /\ Len(outPipe[s]) < PipeCap
    /\ ~(s \in Extras /\ inClosed[s])
    /\ wrote' = [wrote EXCEPT ![s] = @ + 1]
    /\ outPipe' = [outPipe EXCEPT ![s] = Append(@, wrote[s] + 1)]
    /\ UNCHANGED <<link, athreads, proc, status, outHold, inPipe, inClosed, got>>

ProcRead(p, s) ==
    /\ p \in Live /\ inPipe[s] # <<>>
    /\ inPipe' = [inPipe EXCEPT ![s] = Tail(@)]
    /\ got' = [got EXCEPT ![s] = Append(@, Head(inPipe[s]))]
    /\ UNCHANGED <<link, athreads, proc, status, outPipe, outHold, wrote, inClosed>>

-----------------------------------------------------------------------------
AgentMain ==
    \/ Log \/ ReadRequest \/ StartFails \/ SendRefusal \/ Return \/ StartChild
    \/ StartBridges \/ SelectChildDone \/ SelectMuxDone \/ Terminate
    \/ GraceDone \/ GraceExpired \/ Kill \/ SendExit \/ JoinMux
AgentLoop ==
    LoopEOF \/ LoopWarn \/ LoopData \/ LoopWrite \/ LoopStreamEOF \/ LoopSignal
AgentBridge(s) == BridgeRead(s) \/ BridgeSend(s)
Group ==
    \E p \in Procs :
        \/ \E c \in Codes \cup {143} : ProcExit(p, c)
        \/ \E q \in Procs : ProcFork(p, q)
        \/ ProcDropOutput(p)
        \/ \E s \in OutStreams : ProcWrite(p, s)
        \/ \E s \in InStreams : ProcRead(p, s)

AgentNext ==
    \/ AgentMain \/ AgentLoop \/ WaitFor
    \/ \E s \in OutStreams : AgentBridge(s)

(* Goroutines run, timers fire, a process told to terminate that does not   *)
(* ignore it exits.  A program is never assumed to read, write or exit.     *)
AgentFairness ==
    /\ WF_agentVars(AgentMain) /\ WF_agentVars(AgentLoop) /\ WF_agentVars(WaitFor)
    /\ \A s \in OutStreams : WF_agentVars(AgentBridge(s))
    /\ \A p \in Procs : WF_agentVars(proc[p] = "dying" /\ ProcExit(p, 143))
=============================================================================
