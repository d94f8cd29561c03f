--------------------------- MODULE PromiseProofs ----------------------------
(***************************************************************************)
(* A whole run of a remote command keeps the promise that Command states:  *)
(* what a program reads is what the shim was given, in order, and no end   *)
(* of input comes before the end of it (InInv); with the facts on output   *)
(* and codes of RemoteCommandProofs, every step of RemoteCommand is then   *)
(* a step of Command, or changes nothing there (PromiseKept).              *)
(***************************************************************************)
EXTENDS RemoteCommandProofs

-----------------------------------------------------------------------------
(* Input *)

(* Chunks of s can still get into the pipe to the group; the agent still    *)
(* reads frames, or will; the broker still hands chunks to the runner.      *)
ToGroup(s) == ~inClosed[s] /\ (Live # {} \/ proc[Leader] = "none")
AgentReads ==
    aloop.at # "idle"
    \/ amain \in {"first", "config", "second", "building", "start", "started", "bridge"}
ToRunner(s) == rf.at # "done" /\ IF s = 0 THEN stdinR ELSE s \in fdOpen

(* The last chunk of s in the pipe to the group, and the last one the       *)
(* agent's loop has; d is the last one on the session and c the last one on *)
(* the socket: the last one the runner has, and the last one readFrames has. *)
Piped(s) == Len(got[s]) + Len(inPipe[s])
Looped(s) == Plus(Piped(s), aloop.at = "write" /\ aloop.s = s)
Sent(s, d) == Plus(d, rb[s].at = "send")
Decoded(s, d) == Plus(Sent(s, d), rf.at = "write" /\ rf.s = s)

(* From the shim to the broker. *)
Giving(s, d, c) ==
    ToRunner(s) =>
        /\ rf.at = "write" /\ rf.s = s => rf.v = Sent(s, d) + 1
        /\ Decoded(s, d) < next[s]
        /\ Runs(c2b, s, Decoded(s, d), c) /\ c < next[s]
        /\ ~c2bEnd => c = next[s] - 1

(* From the broker to the session. *)
Passing(s, d, c) ==
    ~downEnd =>
        /\ rb[s].at = "send" => rb[s].v = d + 1
        /\ Sent(s, d) < next[s]
        /\ Giving(s, d, c)

(* From the session to the agent's loop. *)
Feeding(s, d, c) ==
    AgentReads => Runs(down, s, Looped(s), d) /\ d < next[s] /\ Passing(s, d, c)

(* From the loop to the pipe, and from there to the group. *)
Filling(s, d, c) ==
    ToGroup(s) =>
        /\ aloop.at = "write" /\ aloop.s = s => aloop.v = Piped(s) + 1
        /\ Looped(s) < next[s]
        /\ Feeding(s, d, c)
Taking(s) == Numbered(inPipe[s], Len(got[s])) /\ Piped(s) < next[s]

InAt(s, d, c) == Taking(s) /\ Filling(s, d, c)

InInv ==
    /\ \A i \in 1..Len(c2b) : c2b[i].t \in {"data", "sig"}
    /\ ~HasExit(down)
    /\ rmain \in Asking => \A s \in InStreams : rb[s].at = "idle"
    /\ \A s \in InStreams : \E d, c \in Nat : InAt(s, d, c)

(* A step of the agent that moves nothing of stream s. *)
InQuiet(s) ==
    /\ inPipe'[s] = inPipe[s]
    /\ aloop' = aloop \/ (aloop.at # "write" /\ aloop'.at # "write")
    /\ \/ UNCHANGED down
       \/ /\ down # <<>> /\ down' = Tail(down)
          /\ Head(down).t # "data" \/ ~AgentReads'

(* What a step of the agent means for one input stream: a chunk is taken    *)
(* from the session, one is put into the pipe, or neither.                  *)
LEMMA AgentTakes ==
    ASSUME TypeInv, GroupInv, AgentNext, [Next]_vars, NEW s \in InStreams
    PROVE  /\ UNCHANGED <<downEnd, got>>
           /\ ToGroup(s)' => ToGroup(s)
           /\ AgentReads' => AgentReads
           /\ LoopData \/ LoopWrite \/ InQuiet(s)
<1>1. DOMAIN aloop = {"at", "s", "v"} /\ aloop \in [at : Places, s : Streams, v : Int]
  BY Zenon DEF TypeInv, GroupInv
<1>2. proc'[Leader] = "none" => proc[Leader] = "none"
  BY GroupMoves, Zenon
<1>3. ASSUME Live' # {}, proc[Leader] # "none" PROVE Live # {}
  <2>1. CASE Terminate \/ Kill \/ LoopSignal \/ WaitFor
    BY <1>3, <2>1, EndsGroup, Zenon DEF Shrinks
  <2>2. CASE StartChild
    BY <1>3, <2>2, Zenon DEF StartChild, GroupInv, PreStart
  <2>3. CASE UNCHANGED proc
    BY <1>3, <2>3, Zenon DEF Live
  <2>4. CASE \/ Log \/ ReadRequest \/ StartFails \/ SendRefusal \/ Return \/ StartBridges
             \/ SelectChildDone \/ SelectMuxDone \/ GraceDone \/ GraceExpired \/ SendExit \/ JoinMux
             \/ LoopEOF \/ LoopWarn \/ LoopData \/ LoopWrite \/ LoopStreamEOF
             \/ \E r \in OutStreams : AgentBridge(r)
    <3>1. UNCHANGED proc
      BY <2>4, Zenon DEF Log, ReadRequest, StartFails, SendRefusal, Return, StartBridges,
         SelectChildDone, SelectMuxDone, GraceDone, GraceExpired, SendExit, JoinMux, LoopEOF,
         LoopWarn, LoopData, LoopWrite, LoopStreamEOF, AgentBridge, BridgeRead, BridgeSend,
         Send, group
    <3> QED
      BY <2>3, <3>1, Zenon
  <2> QED
    BY <2>1, <2>2, <2>4, Zenon DEF AgentNext, AgentMain, AgentLoop
<1>4. inClosed[s] = inClosed'[s] => (ToGroup(s)' => ToGroup(s))
  BY <1>2, <1>3, Zenon DEF ToGroup
<1>5. CASE \/ Log \/ StartFails \/ SendRefusal \/ Return \/ StartChild \/ SelectChildDone \/ SelectMuxDone
           \/ Terminate \/ GraceDone \/ GraceExpired \/ Kill \/ SendExit \/ JoinMux \/ WaitFor
           \/ \E r \in OutStreams : AgentBridge(r)
  <2>1. UNCHANGED <<down, downEnd, aloop, inPipe, inClosed, got>>
    BY <1>5, Zenon DEF Log, StartFails, SendRefusal, Return, StartChild, SelectChildDone,
       SelectMuxDone, Terminate, GraceDone, GraceExpired, Kill, SendExit, JoinMux, WaitFor,
       AgentBridge, BridgeRead, BridgeSend, Send, link, group
  <2>2. AgentReads' => AgentReads
    <3>1. CASE Log
      <4>1. amain' = amain \/ (amain \in DOMAIN LogNext /\ amain' = LogNext[amain])
        BY <3>1, Zenon DEF Log, Send
      <4> QED
        BY <2>1, <4>1, LogLeads, Zenon DEF AgentReads
    <3>2. CASE \/ StartFails \/ SendRefusal \/ Return \/ StartChild \/ SelectChildDone \/ SelectMuxDone
               \/ Terminate \/ GraceDone \/ GraceExpired \/ Kill \/ SendExit \/ JoinMux \/ WaitFor
               \/ \E r \in OutStreams : AgentBridge(r)
      BY <2>1, <3>2, Zenon DEF StartFails, SendRefusal, Return, StartChild, SelectChildDone,
         SelectMuxDone, Terminate, GraceDone, GraceExpired, Kill, SendExit, JoinMux, WaitFor,
         AgentBridge, BridgeRead, BridgeSend, Send, AgentReads
    <3> QED
      BY <1>5, <3>1, <3>2, Zenon
  <2> QED
    BY <1>4, <2>1, <2>2, Zenon DEF InQuiet
<1>6. CASE ReadRequest
  <2>1. UNCHANGED <<downEnd, aloop, inPipe, inClosed, got>> /\ amain \in {"first", "second"}
    BY <1>6, Zenon DEF ReadRequest, group
  <2>2. \/ /\ down # <<>> /\ down' = Tail(down)
           /\ Head(down).t \in {"config", "exec"} \/ amain' = "bad"
        \/ UNCHANGED down
    BY <1>6, Zenon DEF ReadRequest
  <2>3. aloop.at = "idle"
    BY <2>1, Zenon DEF GroupInv, PreStart
  <2>4. amain' = "bad" => ~AgentReads'
    BY <2>1, <2>3, Zenon DEF AgentReads
  <2>5. InQuiet(s)
    BY <2>1, <2>2, <2>4, Zenon DEF InQuiet
  <2>6. AgentReads
    BY <2>1, Zenon DEF AgentReads
  <2> QED
    BY <1>4, <2>1, <2>5, <2>6, Zenon
<1>7. CASE StartBridges
  <2>1. /\ UNCHANGED <<down, downEnd, inPipe, inClosed, got>> /\ amain = "bridge"
        /\ aloop' = [aloop EXCEPT !.at = "decode"]
    BY <1>7, Zenon DEF StartBridges, link, group
  <2>2. aloop.at # "write" /\ aloop'.at # "write"
    BY <1>1, <2>1, Zenon DEF GroupInv, PreStart
  <2> QED
    BY <1>4, <2>1, <2>2, Zenon DEF InQuiet, AgentReads
<1>8. CASE LoopEOF \/ LoopWarn
  <2>1. /\ UNCHANGED <<down, downEnd, inPipe, inClosed, got, amain>> /\ aloop.at \in {"decode", "warn"}
        /\ aloop' = aloop \/ \E at \in {"done", "warn"} : aloop' = [aloop EXCEPT !.at = at]
    BY <1>8, Zenon DEF LoopEOF, LoopWarn, Send, link, group
  <2>2. aloop.at # "write" /\ aloop'.at # "write" /\ aloop.at # "idle"
    BY <1>1, <2>1, Zenon
  <2> QED
    BY <1>4, <2>1, <2>2, Zenon DEF InQuiet, AgentReads
<1>9. CASE LoopStreamEOF
  <2>1. /\ UNCHANGED <<downEnd, inPipe, got>> /\ aloop.at = "decode" /\ aloop' = LoopTop
        /\ down # <<>> /\ down' = Tail(down) /\ Head(down).t = "eof"
        /\ inClosed' = [inClosed EXCEPT ![Head(down).s] = TRUE]
    BY <1>9, Zenon DEF LoopStreamEOF
  <2>2. aloop'.at # "write" /\ AgentReads
    BY <2>1, Zenon DEF LoopTop, AgentReads
  <2>3. inClosed'[s] = inClosed[s] \/ inClosed'[s]
    BY <2>1, Zenon DEF TypeInv
  <2>4. inClosed'[s] => ~ToGroup(s)'
    BY Zenon DEF ToGroup
  <2> QED
    BY <1>4, <2>1, <2>2, <2>3, <2>4, Zenon DEF InQuiet
<1>10. CASE LoopSignal
  <2>1. /\ UNCHANGED <<downEnd, inPipe, inClosed, got>> /\ aloop.at = "decode"
        /\ aloop' = LoopTop \/ aloop' = aloop
        /\ down # <<>> /\ down' = Tail(down) /\ Head(down).t = "sig"
    BY <1>10, Zenon DEF LoopSignal, Send, group
  <2>2. aloop'.at # "write" /\ AgentReads
    BY <2>1 DEF LoopTop, AgentReads
  <2> QED
    BY <1>4, <2>1, <2>2, Zenon DEF InQuiet
<1>11. CASE LoopData \/ LoopWrite
  <2>1. UNCHANGED <<downEnd, inClosed, got>> /\ aloop.at # "idle"
    BY <1>11, Zenon DEF LoopData, LoopWrite, link, group
  <2> QED
    BY <1>4, <1>11, <2>1, Zenon DEF AgentReads
<1> QED
  BY <1>5, <1>6, <1>7, <1>8, <1>9, <1>10, <1>11, Zenon DEF AgentNext, AgentMain, AgentLoop

(* Chunks are counted in natural numbers. *)
LEMMA PipedNat ==
    ASSUME TypeInv, NEW s \in InStreams
    PROVE  Len(got[s]) \in Nat /\ Len(inPipe[s]) \in Nat /\ Piped(s) \in Nat
<1> DEFINE a == Len(got[s])
           b == Len(inPipe[s])
<1>1. got[s] \in Seq(Int) /\ inPipe[s] \in Seq(Int)
  BY Zenon DEF TypeInv
<1>2. a \in Nat /\ b \in Nat
  BY <1>1
<1>3. Piped(s) = a + b
  BY Zenon DEF Piped
<1>4. a + b \in Nat
  <2> HIDE DEF a, b
  <2> QED
    BY <1>2
<1> QED
  BY <1>2, <1>3, <1>4, Zenon

(* Steps that leave the local machine and the end of the session alone keep *)
(* what is known of the input up to the session.                            *)
LEMMA PassingKept ==
    ASSUME UNCHANGED localVars, UNCHANGED downEnd, NEW s, NEW d, NEW c
    PROVE  UNCHANGED next /\ (Passing(s, d, c)' <=> Passing(s, d, c))
<1>1. UNCHANGED <<next, rb, rf, stdinR, fdOpen, c2b, c2bEnd>>
  BY Zenon DEF localVars, shimVars, sockVars, pipeVars, runVars
<1>2. Sent(s, d)' = Sent(s, d) /\ Decoded(s, d)' = Decoded(s, d)
  BY <1>1, Zenon DEF Sent, Decoded
<1>3. ToRunner(s)' <=> ToRunner(s)
  BY <1>1, Zenon DEF ToRunner
<1>4. Giving(s, d, c)' <=> Giving(s, d, c)
  BY <1>1, <1>2, <1>3, Zenon DEF Giving
<1> QED
  BY <1>1, <1>2, <1>4, Zenon DEF Passing

(* The steps of the agent and the input. *)
LEMMA AgentIn ==
    ASSUME TypeInv, GroupInv, AgentNext, UNCHANGED localVars, [Next]_vars,
           NEW s \in InStreams, NEW d \in Nat, NEW c \in Nat, InAt(s, d, c)
    PROVE  InAt(s, d, c)'
<1>1. /\ UNCHANGED <<downEnd, got>>
      /\ ToGroup(s)' => ToGroup(s)
      /\ AgentReads' => AgentReads
      /\ LoopData \/ LoopWrite \/ InQuiet(s)
  BY AgentTakes, Zenon
<1>2. UNCHANGED next /\ (Passing(s, d, c)' <=> Passing(s, d, c))
  BY <1>1, PassingKept, Zenon
<1>3. /\ next[s] \in Nat /\ inPipe \in [InStreams -> Seq(Int)] /\ got[s] \in Seq(Int)
      /\ down \in Seq(Frames)
  BY Zenon DEF TypeInv
<1>4. Len(got[s]) \in Nat /\ Len(inPipe[s]) \in Nat /\ Piped(s) \in Nat
  BY PipedNat, Zenon
<1>5. ASSUME inPipe'[s] = inPipe[s] PROVE Taking(s)' /\ Piped(s)' = Piped(s)
  <2>1. Piped(s)' = Piped(s)
    BY <1>1, <1>5, Zenon DEF Piped
  <2> QED
    BY <1>1, <1>2, <1>5, <2>1, Zenon DEF InAt, Taking, Numbered
<1>6. CASE InQuiet(s)
  <2>1. inPipe'[s] = inPipe[s]
    BY <1>6, Zenon DEF InQuiet
  <2>2. Taking(s)' /\ Piped(s)' = Piped(s)
    BY <1>5, <2>1, Zenon
  <2>3. Looped(s)' = Looped(s)
    BY <1>6, <2>2, Zenon DEF InQuiet, Looped, Plus
  <2>4. ASSUME ToGroup(s)', AgentReads' PROVE Runs(down', s, Looped(s), d)
    <3>1. Runs(down, s, Looped(s), d)
      BY <1>1, <2>4, Zenon DEF InAt, Filling, Feeding
    <3>2. CASE UNCHANGED down
      BY <3>1, <3>2, Zenon
    <3>3. CASE down # <<>> /\ down' = Tail(down) /\ Head(down).t # "data"
      BY <1>3, <3>1, <3>3, RunsTail, Zenon
    <3> QED
      BY <1>6, <2>4, <3>2, <3>3, Zenon DEF InQuiet
  <2>5. aloop'.at = "write" => aloop' = aloop
    BY <1>6, Zenon DEF InQuiet
  <2>6. ToGroup(s)' => Feeding(s, d, c)'
    BY <1>1, <1>2, <2>3, <2>4, Zenon DEF InAt, Filling, Feeding
  <2>7. Filling(s, d, c)'
    BY <1>1, <1>2, <2>2, <2>3, <2>5, <2>6, Zenon DEF InAt, Filling
  <2> QED
    BY <2>2, <2>7, Zenon DEF InAt
<1>7. CASE LoopData
  <2>1. /\ UNCHANGED inPipe /\ aloop.at = "decode" /\ down # <<>> /\ Head(down).t = "data"
        /\ down' = Tail(down) /\ aloop' = [at |-> "write", s |-> Head(down).s, v |-> Head(down).v]
    BY <1>7, Zenon DEF LoopData, group
  <2>2. Taking(s)' /\ Piped(s)' = Piped(s)
    BY <1>5, <2>1, Zenon
  <2>3. /\ aloop'.at = "write" /\ aloop'.s = Head(down).s /\ aloop'.v = Head(down).v
        /\ AgentReads
    BY <2>1, Zenon DEF AgentReads
  <2>4. Looped(s) = Piped(s) /\ Looped(s)' = Plus(Piped(s), Head(down).s = s)
    BY <2>1, <2>2, <2>3, Zenon DEF Looped, Plus
  <2>5. SUFFICES ASSUME ToGroup(s)' PROVE Filling(s, d, c)'
    BY <2>2, Zenon DEF InAt, Filling
  <2>6. Runs(down, s, Piped(s), d) /\ d < next[s] /\ Passing(s, d, c)
    BY <1>1, <2>3, <2>4, <2>5, Zenon DEF InAt, Filling, Feeding
  <2>7. IF Head(down).s = s THEN Head(down).v = Piped(s) + 1 /\ Runs(Tail(down), s, Piped(s) + 1, d)
                            ELSE Runs(Tail(down), s, Piped(s), d)
    BY <1>3, <2>1, <2>6, RunsTail, Zenon
  <2>8. Runs(down', s, Looped(s)', d)
    BY <2>1, <2>4, <2>7, Zenon DEF Plus
  <2>9. Looped(s)' < next[s]
    <3>1. Tail(down) \in Seq(Frames)
      BY <1>3, <2>1, QueueParts, Zenon
    <3>2. Looped(s)' <= d /\ Looped(s)' \in Int
      BY <2>1, <2>8, <3>1, RunsBounds, Zenon
    <3> QED
      <4>1. d \in Int /\ next[s] \in Int
        BY <1>3, NatIsInt, Zenon
      <4> QED
        BY <2>6, <3>2, <4>1, Bounded, Zenon
  <2> QED
    BY <1>2, <2>2, <2>3, <2>6, <2>7, <2>8, <2>9, Zenon DEF Filling, Feeding
<1>8. CASE LoopWrite
  <2>1. /\ UNCHANGED <<down, proc, inClosed, amain>> /\ aloop.at = "write" /\ aloop'.at # "write"
        /\ \/ /\ ~inClosed[aloop.s] /\ Live # {}
              /\ inPipe' = [inPipe EXCEPT ![aloop.s] = Append(@, aloop.v)]
           \/ (inClosed[aloop.s] \/ Live = {}) /\ UNCHANGED inPipe
    BY <1>8, Zenon DEF LoopWrite, LoopTop, link
  <2>2. AgentReads /\ proc[Leader] # "none"
    BY <2>1, Zenon DEF AgentReads, GroupInv
  <2>3. CASE aloop.s # s
    <3>1. inPipe'[s] = inPipe[s]
      BY <1>3, <2>1, <2>3, Zenon
    <3>2. Taking(s)' /\ Piped(s)' = Piped(s)
      BY <1>5, <3>1, Zenon
    <3>3. Looped(s) = Piped(s) /\ Looped(s)' = Piped(s)
      BY <2>1, <2>3, <3>2, Zenon DEF Looped, Plus
    <3>4. Filling(s, d, c)'
      BY <1>1, <1>2, <2>1, <2>2, <3>2, <3>3, Zenon DEF InAt, Filling, Feeding
    <3> QED
      BY <3>2, <3>4, Zenon DEF InAt
  <2>4. CASE aloop.s = s /\ (inClosed[s] \/ Live = {}) /\ UNCHANGED inPipe
    <3>1. ~ToGroup(s)'
      BY <2>1, <2>2, <2>4, Zenon DEF ToGroup, Live
    <3>2. Taking(s)'
      BY <1>5, <2>4, Zenon
    <3> QED
      BY <3>1, <3>2, Zenon DEF InAt, Filling
  <2>5. CASE /\ aloop.s = s /\ ~inClosed[s] /\ Live # {}
             /\ inPipe' = [inPipe EXCEPT ![s] = Append(@, aloop.v)]
    <3>1. inPipe'[s] = Append(inPipe[s], aloop.v) /\ inPipe[s] \in Seq(Int)
      BY <1>3, <2>5, Zenon
    <3>2. ToGroup(s)
      BY <2>5, Zenon DEF ToGroup
    <3>3. Looped(s) = Piped(s) + 1 /\ aloop.v = Piped(s) + 1 /\ Looped(s) < next[s]
      BY <2>1, <2>5, <3>2, Zenon DEF InAt, Filling, Looped, Plus
    <3>4. Numbered(inPipe[s], Len(got[s]))
      BY Zenon DEF InAt, Taking
    <3>5. /\ aloop.v \in Int /\ aloop.v = Len(got[s]) + Len(inPipe[s]) + 1
          /\ Len(got[s]) \in Int /\ Len(inPipe[s]) \in Int
      BY <1>4, <3>3 DEF Piped
    <3>6. /\ Numbered(Append(inPipe[s], aloop.v), Len(got[s]))
          /\ Len(Append(inPipe[s], aloop.v)) = Len(inPipe[s]) + 1
      BY <3>1, <3>4, <3>5, PipeMoves, Zenon
    <3>7. Piped(s)' = Piped(s) + 1
      <4> DEFINE g == Len(got[s])
                 h == Len(inPipe[s])
                 k == Len(inPipe'[s])
      <4>1. k = h + 1 /\ g \in Int /\ h \in Int
        BY <3>1, <3>5, <3>6, Zenon
      <4>2. Piped(s) = g + h /\ Piped(s)' = g + k
        BY <1>1, Zenon DEF Piped
      <4> HIDE DEF g, h, k
      <4> QED
        BY <4>1, <4>2
    <3>8. Taking(s)'
      <4>1. Numbered(inPipe'[s], Len(got[s]))
        BY <3>1, <3>6, Zenon
      <4>2. Numbered(inPipe[s], Len(got[s]))'
        BY <1>1, <4>1, Zenon
      <4> QED
        BY <1>2, <3>3, <3>7, <4>2, Zenon DEF Taking
    <3>9. Looped(s)' = Looped(s)
      BY <2>1, <3>3, <3>7, Zenon DEF Looped, Plus
    <3>10. Filling(s, d, c)'
      BY <1>1, <1>2, <2>1, <2>2, <3>2, <3>9, Zenon DEF InAt, Filling, Feeding
    <3> QED
      BY <3>8, <3>10, Zenon DEF InAt
  <2> QED
    BY <2>1, <2>3, <2>4, <2>5, Zenon
<1> QED
  BY <1>1, <1>6, <1>7, <1>8, Zenon

(* The group reads the next chunk of a pipe. *)
LEMMA ReadNext ==
    ASSUME TypeInv, NEW p \in Procs, NEW s \in InStreams, ProcRead(p, s), Taking(s)
    PROVE  /\ Head(inPipe[s]) = Len(got[s]) + 1 /\ Len(got'[s]) = Len(got[s]) + 1
           /\ got' = [got EXCEPT ![s] = Append(@, Len(@) + 1)]
           /\ Numbered(inPipe'[s], Len(got'[s])) /\ Piped(s)' = Piped(s)
           /\ Len(got[s]) < Piped(s)
<1>1. /\ inPipe[s] # <<>> /\ inPipe' = [inPipe EXCEPT ![s] = Tail(@)]
      /\ got' = [got EXCEPT ![s] = Append(@, Head(inPipe[s]))]
  BY Zenon DEF ProcRead
<1>2. inPipe \in [InStreams -> Seq(Int)] /\ got \in [InStreams -> Seq(Int)]
  BY Zenon DEF TypeInv
<1>3. inPipe'[s] = Tail(inPipe[s]) /\ got'[s] = Append(got[s], Head(inPipe[s]))
  BY <1>1, <1>2, Zenon
<1> DEFINE q == inPipe[s]
           g == got[s]
<1>4. q \in Seq(Int) /\ g \in Seq(Int) /\ q # <<>> /\ Numbered(q, Len(g))
  BY <1>1, <1>2, Zenon DEF Taking
<1>5. Len(g) \in Int /\ Len(q) \in Int
  BY <1>4
<1>6. /\ Head(q) = Len(g) + 1 /\ Numbered(Tail(q), Len(g) + 1)
      /\ Len(Tail(q)) = Len(q) - 1 /\ Len(q) >= 1
  BY ONLY <1>4, <1>5, PipeMoves, Zenon
<1>7. Len(Append(g, Head(q))) = Len(g) + 1
  BY <1>4
<1>8. Len(got'[s]) = Len(g) + 1 /\ Numbered(inPipe'[s], Len(got'[s]))
  BY <1>3, <1>6, <1>7, Zenon
<1>9. Piped(s)' = Piped(s) /\ Len(g) < Piped(s)
  <2> DEFINE a == Len(g)
             b == Len(q)
             x == Len(Tail(q))
  <2>1. Piped(s) = a + b /\ Piped(s)' = (a + 1) + x /\ x = b - 1 /\ b >= 1 /\ a \in Int /\ b \in Int
    BY <1>3, <1>5, <1>6, <1>8, Zenon DEF Piped
  <2> HIDE DEF a, b, x
  <2>2. Piped(s)' = Piped(s) /\ a < Piped(s)
    BY <2>1
  <2> QED
    BY <2>2, Zenon DEF a
<1> QED
  BY <1>1, <1>2, <1>6, <1>8, <1>9, Zenon

(* The steps of the group and the input. *)
LEMMA GroupIn ==
    ASSUME TypeInv, GroupInv, Group, UNCHANGED localVars, [Next]_vars,
           NEW s \in InStreams, NEW d \in Nat, NEW c \in Nat, InAt(s, d, c)
    PROVE  InAt(s, d, c)'
<1>1. UNCHANGED <<down, downEnd, aloop, amain, inClosed>>
  BY Zenon DEF Group, ProcExit, ProcFork, ProcDropOutput, ProcWrite, ProcRead, link, athreads
<1>2. UNCHANGED next /\ (Passing(s, d, c)' <=> Passing(s, d, c))
  BY <1>1, PassingKept, Zenon
<1>3. Live # {}
  BY Zenon DEF Group, ProcExit, ProcFork, ProcDropOutput, ProcWrite, ProcRead
<1>4. ToGroup(s)' => ToGroup(s)
  BY <1>1, <1>3, Zenon DEF ToGroup
<1>5. AgentReads' <=> AgentReads
  BY <1>1, Zenon DEF AgentReads
<1>6. ASSUME Taking(s)', Piped(s)' = Piped(s) PROVE InAt(s, d, c)'
  <2>1. Looped(s)' = Looped(s)
    BY <1>1, <1>6, Zenon DEF Looped
  <2>2. Filling(s, d, c)'
    BY <1>1, <1>2, <1>4, <1>5, <1>6, <2>1, Zenon DEF InAt, Filling, Feeding
  <2> QED
    BY <1>6, <2>2, Zenon DEF InAt
<1>7. CASE inPipe'[s] = inPipe[s] /\ got'[s] = got[s]
  <2>1. Piped(s)' = Piped(s)
    BY <1>7, Zenon DEF Piped
  <2>2. Taking(s)'
    BY <1>2, <1>7, <2>1, Zenon DEF InAt, Taking, Numbered
  <2> QED
    BY <1>6, <2>1, <2>2, Zenon
<1>8. ASSUME NEW p \in Procs, ProcRead(p, s) PROVE InAt(s, d, c)'
  <2>1. Numbered(inPipe'[s], Len(got'[s])) /\ Piped(s)' = Piped(s)
    BY <1>8, ReadNext, Zenon DEF InAt
  <2>2. Taking(s)'
    BY <1>2, <2>1, Zenon DEF InAt, Taking, Numbered
  <2> QED
    BY <1>6, <2>1, <2>2, Zenon
<1>9. ASSUME NEW p \in Procs, NEW r \in InStreams, ProcRead(p, r), r # s
      PROVE  inPipe'[s] = inPipe[s] /\ got'[s] = got[s]
  BY <1>9, Zenon DEF ProcRead, TypeInv
<1> QED
  BY <1>7, <1>8, <1>9, Zenon DEF Group, ProcExit, ProcFork, ProcDropOutput, ProcWrite

(* Steps that move nothing of stream s between the shim and the session. *)
LEMMA PassingStays ==
    ASSUME NEW s \in InStreams, NEW d \in Nat, NEW c \in Nat, Passing(s, d, c),
           UNCHANGED <<next, c2b>>, downEnd => downEnd', c2bEnd => c2bEnd',
           rb'[s] = rb[s] \/ (rb[s].at # "send" /\ rb'[s].at # "send"),
           ToRunner(s)' => /\ ToRunner(s)
                           /\ rf' = rf \/ (rf'.at # "write" /\ ~(rf.at = "write" /\ rf.s = s))
    PROVE  Passing(s, d, c)'
<1>1. Sent(s, d)' = Sent(s, d)
  BY Zenon DEF Sent, Plus
<1>2. ASSUME ~downEnd', ToRunner(s)' PROVE Giving(s, d, c)'
  <2>1. Decoded(s, d)' = Decoded(s, d)
    BY <1>1, <1>2, Zenon DEF Decoded, Plus
  <2>2. rf'.at = "write" => rf' = rf
    BY <1>2, Zenon
  <2>3. /\ rf.at = "write" /\ rf.s = s => rf.v = Sent(s, d) + 1
        /\ Decoded(s, d) < next[s]
        /\ Runs(c2b, s, Decoded(s, d), c) /\ c < next[s]
        /\ ~c2bEnd => c = next[s] - 1
    BY <1>2, Zenon DEF Passing, Giving
  <2> QED
    BY <1>1, <2>1, <2>2, <2>3, Zenon DEF Giving
<1>3. ~downEnd' => Giving(s, d, c)'
  BY <1>2, Zenon DEF Giving
<1> QED
  BY <1>1, <1>3, Zenon DEF Passing

(* What a local step must show of an input stream. *)
LEMMA LocalKeepsIn ==
    ASSUME TypeInv, LocalStep, NEW s \in InStreams, NEW d \in Nat, NEW c \in Nat, InAt(s, d, c),
           next'[s] \in Nat, next[s] <= next'[s],
           NEW x \in Nat, NEW y \in Nat,
           Runs(down, s, Looped(s), d) /\ d < next[s] /\ Passing(s, d, c) =>
               Runs(down', s, Looped(s), x) /\ x < next'[s] /\ Passing(s, x, y)'
    PROVE  InAt(s, x, y)'
<1>1. UNCHANGED <<got, inPipe, inClosed, aloop, amain, proc>>
  BY LocalKeepsAgent, Zenon DEF athreads, group
<1>2. next[s] \in Nat
  BY Zenon DEF TypeInv
<1>3. Piped(s)' = Piped(s) /\ Looped(s)' = Looped(s)
  BY <1>1, Zenon DEF Piped, Looped
<1>4. Piped(s) \in Nat /\ Looped(s) \in Nat
  <2>1. Piped(s) \in Nat
    BY PipedNat, Zenon
  <2> QED
    BY <2>1, Successor, Zenon DEF Looped, Plus
<1>5. /\ ToGroup(s)' <=> ToGroup(s)
      /\ AgentReads' <=> AgentReads
  BY <1>1, Zenon DEF ToGroup, AgentReads, Live
<1>6. Taking(s)'
  <2>1. Piped(s) < next[s] /\ Numbered(inPipe[s], Len(got[s]))
    BY Zenon DEF InAt, Taking
  <2>2. Piped(s) < next'[s]
    BY <1>2, <1>4, <2>1, Below, Zenon
  <2> QED
    BY <1>1, <1>3, <2>1, <2>2, Zenon DEF Taking, Numbered
<1>7. ASSUME ToGroup(s), AgentReads PROVE Feeding(s, x, y)'
  <2>1. Runs(down, s, Looped(s), d) /\ d < next[s] /\ Passing(s, d, c)
    BY <1>7, Zenon DEF InAt, Filling, Feeding
  <2> QED
    BY <1>3, <2>1, Zenon DEF Feeding
<1>8. ToGroup(s) => Feeding(s, x, y)'
  BY <1>5, <1>7, Zenon DEF Feeding
<1>9. Filling(s, x, y)'
  <2>1. Looped(s) < next[s] => Looped(s) < next'[s]
    BY <1>2, <1>4, Below, Zenon
  <2> QED
    BY <1>1, <1>3, <1>5, <1>8, <2>1, Zenon DEF InAt, Filling
<1> QED
  BY <1>6, <1>9, Zenon DEF InAt

(* The shim reads input, or forwards a signal. *)
LEMMA ShimIn ==
    ASSUME TypeInv, \A i \in 1..Len(c2b) : c2b[i].t \in {"data", "sig"},
           ShimForwardSignal \/ \E r \in InStreams : ShimStream(r),
           NEW s \in InStreams, NEW d \in Nat, NEW c \in Nat, InAt(s, d, c)
    PROVE  \E y \in Nat : InAt(s, d, y)'
<1>1. UNCHANGED <<down, downEnd, c2bEnd, rb, rf, stdinR, fdOpen>> /\ LocalStep
  BY Zenon DEF ShimForwardSignal, ShimStream, agentVars, pipeVars, runVars, LocalStep
<1>2. c2b \in Seq(Frames) /\ next \in [InStreams -> Nat] /\ next[s] \in Nat /\ ~HasExit(c2b)
  BY Zenon DEF TypeInv, HasExit
<1>3. /\ Sent(s, d)' = Sent(s, d) /\ Decoded(s, d)' = Decoded(s, d)
      /\ Sent(s, d) \in Nat /\ Decoded(s, d) \in Nat
  BY <1>1, Successor, Zenon DEF Sent, Decoded, Plus
<1>4. ToRunner(s)' <=> ToRunner(s)
  BY <1>1, Zenon DEF ToRunner
<1>5. CASE next'[s] = next[s] /\ \/ UNCHANGED c2b
                                 \/ \E x \in Frames : ~(x.t = "data" /\ x.s = s) /\ c2b' = Append(c2b, x)
  <2>1. ASSUME Runs(c2b, s, Decoded(s, d), c) PROVE Runs(c2b', s, Decoded(s, d), c)
    BY <1>2, <1>5, <2>1, RunsAppend, Zenon
  <2>2. Giving(s, d, c) => Giving(s, d, c)'
    BY <1>1, <1>3, <1>4, <1>5, <2>1, Zenon DEF Giving
  <2>3. Passing(s, d, c) => Passing(s, d, c)'
    BY <1>1, <1>3, <1>5, <2>2, Zenon DEF Passing
  <2>4. next'[s] \in Nat /\ next[s] <= next'[s]
    BY <1>2, <1>5, Successor, Zenon
  <2> QED
    BY <1>1, <1>2, <1>5, <2>3, <2>4, LocalKeepsIn, Zenon
<1>6. CASE /\ next'[s] = next[s] + 1 /\ ~c2bEnd
           /\ \E x \in Frames : x.t = "data" /\ x.s = s /\ x.v = next[s] /\ c2b' = Append(c2b, x)
  <2>1. ASSUME Giving(s, d, c), ToRunner(s), c = next[s] - 1 PROVE Runs(c2b', s, Decoded(s, d), c + 1)
    <3>1. Runs(c2b, s, Decoded(s, d), c)
      BY <2>1, Zenon DEF Giving
    <3>2. next[s] = c + 1
      BY <1>2, <2>1, Later, Zenon
    <3> QED
      BY <1>2, <1>6, <3>1, <3>2, RunsAppend, Zenon
  <2>2. Giving(s, d, c) => Giving(s, d, c + 1)'
    <3>1. SUFFICES ASSUME Giving(s, d, c), ToRunner(s) PROVE Giving(s, d, c + 1)'
      BY <1>4, Zenon DEF Giving
    <3>2. /\ rf.at = "write" /\ rf.s = s => rf.v = Sent(s, d) + 1
          /\ Decoded(s, d) < next[s] /\ c = next[s] - 1
      BY <1>6, <3>1, Zenon DEF Giving
    <3>3. Runs(c2b', s, Decoded(s, d), c + 1)
      BY <2>1, <3>1, <3>2, Zenon
    <3>4. c + 1 < next'[s] /\ c + 1 = next'[s] - 1 /\ Decoded(s, d) < next'[s]
      <4>1. next[s] = c + 1 /\ next'[s] = (c + 1) + 1
        BY <1>2, <1>6, <3>2, Later, Zenon
      <4>2. c + 1 \in Nat /\ c + 1 < (c + 1) + 1 /\ c + 1 = ((c + 1) + 1) - 1
        BY Successor, Zenon
      <4>3. Decoded(s, d) < next[s] + 1
        BY <1>2, <1>3, <3>2, Later, Zenon
      <4> QED
        BY <1>6, <4>1, <4>2, <4>3, Zenon
    <3> QED
      BY <1>1, <1>3, <3>2, <3>3, <3>4, Zenon DEF Giving
  <2>3. next'[s] \in Nat /\ next[s] <= next'[s] /\ c + 1 \in Nat /\ (d < next[s] => d < next'[s])
    <3>1. next[s] + 1 \in Nat /\ next[s] <= next[s] + 1 /\ c + 1 \in Nat
      BY <1>2, Successor, Zenon
    <3>2. d < next[s] => d < next[s] + 1
      BY <1>2, Later, Zenon
    <3> QED
      BY <1>6, <3>1, <3>2, Zenon
  <2>4. Passing(s, d, c) => Passing(s, d, c + 1)'
    <3>1. Sent(s, d) < next[s] => Sent(s, d) < next'[s]
      BY <1>2, <1>3, <1>6, Later, Zenon
    <3> QED
      BY <1>1, <1>3, <2>2, <2>3, <3>1, Zenon DEF Passing
  <2> QED
    BY <1>1, <2>4, <2>3, LocalKeepsIn, Zenon
<1>7. CASE next'[s] = next[s] + 1 /\ c2bEnd /\ UNCHANGED c2b
  <2>1. /\ next'[s] \in Nat /\ next[s] <= next'[s] /\ (d < next[s] => d < next'[s])
        /\ c < next[s] => c < next'[s]
    <3>1. next[s] + 1 \in Nat /\ next[s] <= next[s] + 1
      BY <1>2, Successor, Zenon
    <3>2. (d < next[s] => d < next[s] + 1) /\ (c < next[s] => c < next[s] + 1)
      BY <1>2, Later, Zenon
    <3> QED
      BY <1>7, <3>1, <3>2, Zenon
  <2>2. /\ Sent(s, d) < next[s] => Sent(s, d) < next'[s]
        /\ Decoded(s, d) < next[s] => Decoded(s, d) < next'[s]
    <3>1. /\ Sent(s, d) < next[s] => Sent(s, d) < next[s] + 1
          /\ Decoded(s, d) < next[s] => Decoded(s, d) < next[s] + 1
      BY <1>2, <1>3, Later, Zenon
    <3> QED
      BY <1>7, <3>1, Zenon
  <2>3. Giving(s, d, c) => Giving(s, d, c)'
    BY <1>1, <1>3, <1>4, <1>7, <2>1, <2>2, Zenon DEF Giving
  <2>4. Passing(s, d, c) => Passing(s, d, c)'
    BY <1>1, <1>3, <2>3, <2>1, <2>2, Zenon DEF Passing
  <2> QED
    BY <1>1, <2>4, <2>1, LocalKeepsIn, Zenon
<1>8. CASE ShimForwardSignal
  <2>1. Frame("sig", 0, SIGINT) \in Frames /\ Frame("sig", 0, SIGINT).t = "sig"
    <3>1. 0 \in Streams /\ SIGINT \in Int /\ "sig" \in FrameTypes
      BY FrameParts, Zenon
    <3> QED
      BY <3>1, FrameType, Zenon DEF Frame
  <2>2. UNCHANGED next /\ (UNCHANGED c2b \/ c2b' = Append(c2b, Frame("sig", 0, SIGINT)))
    BY <1>8, Zenon DEF ShimForwardSignal, ShimSend
  <2> QED
    BY <1>5, <2>1, <2>2, Zenon
<1>9. ASSUME NEW r \in InStreams, ShimStream(r) PROVE \E y \in Nat : InAt(s, d, y)'
  <2> DEFINE x == Frame("data", r, next[r])
  <2>1. x \in Frames /\ x.t = "data" /\ x.s = r /\ x.v = next[r]
    <3>1. r \in Streams /\ next[r] \in Int /\ "data" \in FrameTypes
      BY <1>2, SMTT(30) DEF Streams, FrameTypes
    <3> QED
      BY <3>1, FrameType, Zenon DEF Frame
  <2>2. /\ next' = [next EXCEPT ![r] = @ + 1]
        /\ (~c2bEnd /\ c2b' = Append(c2b, x)) \/ (c2bEnd /\ UNCHANGED c2b)
    BY <1>9, Zenon DEF ShimStream, ShimSend
  <2> HIDE DEF x
  <2>3. CASE r = s
    <3>1. next'[s] = next[s] + 1
      BY <1>2, <2>2, <2>3, Zenon
    <3> QED
      BY <1>6, <1>7, <2>1, <2>2, <2>3, <3>1, Zenon
  <2>4. CASE r # s
    <3>1. next'[s] = next[s]
      BY <1>2, <2>2, <2>4, Zenon
    <3> QED
      BY <1>5, <2>1, <2>2, <2>4, <3>1, Zenon
  <2> QED
    BY <2>3, <2>4, Zenon
<1> QED
  BY <1>8, <1>9, Zenon

(* readFrames decodes a frame and passes it on. *)
LEMMA ReadFramesIn ==
    ASSUME TypeInv, \A i \in 1..Len(c2b) : c2b[i].t \in {"data", "sig"},
           \/ ReadFramesDecode \/ ReadFramesSignal \/ ReadFramesFdGone
           \/ \E r \in InStreams : PipeToRunner(r),
           NEW s \in InStreams, NEW d \in Nat, NEW c \in Nat, InAt(s, d, c)
    PROVE  InAt(s, d, c)'
<1>1. UNCHANGED <<next, down, downEnd, c2bEnd, stdinR, fdOpen>> /\ LocalStep
  BY Zenon DEF ReadFramesDecode, ReadFramesSignal, ReadFramesFdGone, PipeToRunner, agentVars,
     shimVars, sockVars, pipeVars, LocalStep
<1>2. /\ c2b \in Seq(Frames) /\ next[s] \in Nat /\ rb \in [InStreams -> Chunk]
      /\ next'[s] \in Nat /\ next[s] <= next'[s]
  <2>1. next[s] \in Nat /\ next'[s] = next[s]
    BY <1>1, Zenon DEF TypeInv
  <2>2. next[s] <= next[s]
    BY <2>1, Successor, Zenon
  <2> QED
    BY <1>1, <2>1, <2>2, Zenon DEF TypeInv
<1>3. SUFFICES ASSUME Passing(s, d, c) PROVE Passing(s, d, c)'
  BY <1>1, <1>2, LocalKeepsIn, Zenon
<1>4. Sent(s, d) \in Nat
  BY Successor, Zenon DEF Sent, Plus
<1>5. ASSUME UNCHANGED <<c2b, rb>>, rf'.at = "decode", ToRunner(s)' => ~(rf.at = "write" /\ rf.s = s),
             rf.at # "done"
      PROVE  Passing(s, d, c)'
  <2>1. ToRunner(s)' => ToRunner(s) /\ rf'.at # "write" /\ ~(rf.at = "write" /\ rf.s = s)
    BY <1>1, <1>5, Zenon DEF ToRunner
  <2> QED
    BY <1>1, <1>3, <1>5, <2>1, PassingStays, Zenon
<1>6. CASE ReadFramesSignal
  <2>1. rf.at = "sig" /\ rf' = rfTop /\ UNCHANGED <<c2b, rb>>
    BY <1>6, Zenon DEF ReadFramesSignal, sockVars, runVars
  <2> QED
    BY <1>5, <2>1, Zenon DEF rfTop
<1>7. CASE ReadFramesFdGone
  <2>1. rf.at = "write" /\ rf.s \in Extras \ fdOpen /\ rf' = rfTop /\ UNCHANGED <<c2b, rb>>
    BY <1>7, Zenon DEF ReadFramesFdGone, sockVars, runVars
  <2>2. rf.s # 0
    BY <2>1, AgentAssumption, Zenon DEF Extras
  <2>3. rf.s = s => ~ToRunner(s)'
    BY <1>1, <2>1, <2>2, Zenon DEF ToRunner
  <2> QED
    BY <1>5, <2>1, <2>3, Zenon DEF rfTop
<1>8. CASE ReadFramesDecode
  <2>1. /\ rf.at = "decode" /\ c2b # <<>> /\ c2b' = Tail(c2b) /\ UNCHANGED rb
        /\ rf' = [at |-> IF Head(c2b).t = "sig" THEN "sig" ELSE "write", s |-> Head(c2b).s, v |-> Head(c2b).v]
    BY <1>8, Zenon DEF ReadFramesDecode, runVars
  <2>2. Head(c2b).t \in {"data", "sig"}
    BY <1>2, <2>1, ExitFrames, Zenon
  <2>3. /\ rf'.at = "write" <=> Head(c2b).t = "data"
        /\ rf'.s = Head(c2b).s
        /\ rf'.v = Head(c2b).v
        /\ rf'.at # "done"
    BY <2>1, <2>2, Zenon
  <2>4. Sent(s, d)' = Sent(s, d) /\ Decoded(s, d) = Sent(s, d)
    BY <2>1, Zenon DEF Sent, Decoded, Plus
  <2>5. Decoded(s, d)' = Plus(Sent(s, d), Head(c2b).t = "data" /\ Head(c2b).s = s)
    BY <2>3, <2>4, Zenon DEF Decoded, Plus
  <2>6. ToRunner(s)' <=> ToRunner(s)
    BY <1>1, <2>1, <2>3, Zenon DEF ToRunner
  <2>7. ASSUME Giving(s, d, c), ToRunner(s) PROVE Giving(s, d, c)'
    <3>1. Runs(c2b, s, Sent(s, d), c) /\ c < next[s] /\ (~c2bEnd => c = next[s] - 1)
      BY <2>4, <2>7, Zenon DEF Giving
    <3>2. IF Head(c2b).t = "data" /\ Head(c2b).s = s
            THEN Head(c2b).v = Sent(s, d) + 1 /\ Runs(Tail(c2b), s, Sent(s, d) + 1, c)
            ELSE Runs(Tail(c2b), s, Sent(s, d), c)
      BY <1>2, <2>1, <3>1, RunsTail, Zenon
    <3>3. Runs(c2b', s, Decoded(s, d)', c)
      BY <2>1, <2>5, <3>2, Zenon DEF Plus
    <3>4. Decoded(s, d)' < next[s]
      <4>1. Tail(c2b) \in Seq(Frames)
        BY <1>2, <2>1, HeadAndTail, Zenon
      <4>2. Decoded(s, d)' <= c /\ Decoded(s, d)' \in Int
        BY <2>1, <3>3, <4>1, RunsBounds, Zenon
      <4>3. c \in Int /\ next[s] \in Int
        BY <1>2, NatIsInt, Zenon
      <4> QED
        BY <3>1, <4>2, <4>3, Bounded, Zenon
    <3>5. rf'.at = "write" /\ rf'.s = s => rf'.v = Sent(s, d)' + 1
      BY <2>3, <2>4, <3>2, Zenon
    <3> QED
      BY <1>1, <3>1, <3>3, <3>4, <3>5, Zenon DEF Giving
  <2>8. Giving(s, d, c) => Giving(s, d, c)'
    BY <2>6, <2>7, Zenon DEF Giving
  <2> QED
    BY <1>1, <1>3, <2>1, <2>4, <2>8, Zenon DEF Passing
<1>9. ASSUME NEW r \in InStreams, PipeToRunner(r) PROVE Passing(s, d, c)'
  <2>1. /\ rf.at = "write" /\ rf.s = r /\ rb[r].at = "read" /\ rf' = rfTop /\ UNCHANGED c2b
        /\ IF r = 0 THEN stdinR ELSE r \in fdOpen
        /\ rb' = [rb EXCEPT ![r] = [at |-> "send", v |-> rf.v]]
    BY <1>9, Zenon DEF PipeToRunner, sockVars
  <2>2. CASE r = s
    <3>1. rb'[s].at = "send" /\ rb'[s].v = rf.v
      BY <1>2, <2>1, <2>2, Zenon
    <3>2. ToRunner(s)
      BY <2>1, <2>2, Zenon DEF ToRunner
    <3>3. Sent(s, d) = d /\ Sent(s, d)' = d + 1 /\ Decoded(s, d) = d + 1 /\ Decoded(s, d)' = d + 1
      BY <2>1, <2>2, <3>1, Zenon DEF Sent, Decoded, Plus, rfTop
    <3>4. SUFFICES ASSUME ~downEnd PROVE Passing(s, d, c)'
      BY <1>1, Zenon DEF Passing
    <3>5. /\ rf.v = d + 1 /\ d + 1 < next[s] /\ Runs(c2b, s, d + 1, c) /\ c < next[s]
          /\ ~c2bEnd => c = next[s] - 1
      BY <1>3, <2>1, <2>2, <3>2, <3>3, <3>4, Zenon DEF Passing, Giving
    <3>6. Giving(s, d, c)'
      BY <1>1, <2>1, <3>3, <3>5, Zenon DEF Giving, rfTop
    <3> QED
      BY <1>1, <3>1, <3>3, <3>5, <3>6, Zenon DEF Passing
  <2>3. CASE r # s
    <3>1. rb'[s] = rb[s]
      BY <1>2, <2>1, <2>3, Zenon
    <3>2. rf'.at # "write" /\ ~(rf.at = "write" /\ rf.s = s) /\ (ToRunner(s)' => ToRunner(s))
      BY <1>1, <2>1, <2>3, Zenon DEF rfTop, ToRunner
    <3> QED
      BY <1>1, <1>3, <2>1, <3>1, <3>2, PassingStays, Zenon
  <2> QED
    BY <2>2, <2>3, Zenon
<1> QED
  BY <1>6, <1>7, <1>8, <1>9, Zenon

(* The runner writes to the session: the request, input or a signal. *)
LEMMA RunnerIn ==
    ASSUME TypeInv, ~HasExit(down), rmain \in Asking => \A r \in InStreams : rb[r].at = "idle",
           RunnerRequest \/ RunnerSignal \/ \E r \in InStreams : RunnerBridge(r),
           NEW s \in InStreams, NEW d \in Nat, NEW c \in Nat, InAt(s, d, c)
    PROVE  \E x \in Nat : InAt(s, x, c)'
<1>1. UNCHANGED <<next, downEnd, c2b, c2bEnd, rf, stdinR, fdOpen>> /\ LocalStep
  BY Zenon DEF RunnerRequest, RunnerSignal, RunnerBridge, shimVars, sockVars, pipeVars, LocalStep
<1>2. /\ down \in Seq(Frames) /\ next[s] \in Nat /\ rb \in [InStreams -> Chunk]
      /\ next'[s] \in Nat /\ next[s] <= next'[s]
  <2>1. next[s] \in Nat /\ next'[s] = next[s]
    BY <1>1, Zenon DEF TypeInv
  <2>2. next[s] <= next[s]
    BY <2>1, Successor, Zenon
  <2> QED
    BY <1>1, <2>1, <2>2, Zenon DEF TypeInv
<1>3. ToRunner(s)' <=> ToRunner(s)
  BY <1>1, Zenon DEF ToRunner
<1>4. ASSUME \/ UNCHANGED down
             \/ \E x \in Frames : ~(x.t = "data" /\ x.s = s) /\ down' = Append(down, x),
             downEnd \/ rb'[s] = rb[s] \/ (rb[s].at # "send" /\ rb'[s].at # "send")
      PROVE  InAt(s, d, c)'
  <2>1. Runs(down, s, Looped(s), d) => Runs(down', s, Looped(s), d)
    BY <1>2, <1>4, RunsAppend, Zenon
  <2>2. Passing(s, d, c) => Passing(s, d, c)'
    <3>1. CASE downEnd
      BY <1>1, <3>1, Zenon DEF Passing
    <3>2. CASE rb'[s] = rb[s] \/ (rb[s].at # "send" /\ rb'[s].at # "send")
      BY <1>1, <1>3, <3>2, PassingStays, Zenon
    <3> QED
      BY <1>4, <3>1, <3>2, Zenon
  <2>3. d < next[s] => d < next'[s]
    BY <1>1, Zenon
  <2> QED
    BY <1>1, <1>2, <2>1, <2>2, <2>3, LocalKeepsIn, Zenon
<1>5. \A t \in FrameTypes, r \in Streams, v \in Int :
          Frame(t, r, v) \in Frames /\ Frame(t, r, v).t = t /\ Frame(t, r, v).s = r /\ Frame(t, r, v).v = v
  BY FrameType, Zenon DEF Frame
<1>6. CASE RunnerRequest
  <2>1. /\ rmain \in {"ensure", "config"}
        /\ \/ /\ down' = Append(down, Frame(IF rmain = "ensure" THEN "config" ELSE "exec", 0, 0))
              /\ rb' = rb \/ rb' = [r \in InStreams |-> [at |-> "read", v |-> 0]]
           \/ downEnd /\ UNCHANGED down
    BY <1>6, Zenon DEF RunnerRequest, RunnerSend, RunnerSendFails
  <2>2. rb[s].at # "send"
    BY <2>1, Zenon DEF Asking
  <2>3. downEnd \/ rb'[s] = rb[s] \/ (rb[s].at # "send" /\ rb'[s].at # "send")
    <3>1. CASE rb' = [r \in InStreams |-> [at |-> "read", v |-> 0]]
      BY <2>2, <3>1, Zenon
    <3> QED
      BY <2>1, <3>1, Zenon
  <2>4. 0 \in Streams /\ "config" \in FrameTypes /\ "exec" \in FrameTypes /\ 0 \in Int
    BY FrameParts, Zenon
  <2>5. \/ UNCHANGED down
        \/ \E x \in Frames : ~(x.t = "data" /\ x.s = s) /\ down' = Append(down, x)
    BY <1>5, <2>1, <2>4, Zenon
  <2> QED
    BY <1>4, <2>3, <2>5, Zenon
<1>7. CASE RunnerSignal
  <2>1. UNCHANGED rb /\ (UNCHANGED down \/ down' = Append(down, Frame("sig", 0, SIGINT)))
    BY <1>7, Zenon DEF RunnerSignal, RunnerSend, RunnerSendFails
  <2>2. 0 \in Streams /\ "sig" \in FrameTypes /\ SIGINT \in Int
    BY FrameParts, Zenon
  <2>3. \/ UNCHANGED down
        \/ \E x \in Frames : ~(x.t = "data" /\ x.s = s) /\ down' = Append(down, x)
    BY <1>5, <2>1, <2>2, Zenon
  <2> QED
    BY <1>4, <2>1, <2>3, Zenon
<1>8. ASSUME NEW r \in InStreams, RunnerBridge(r) PROVE \E x \in Nat : InAt(s, x, c)'
  <2>1. \/ /\ rb[r].at = "read" /\ rb' = [rb EXCEPT ![r].at = "eof"] /\ UNCHANGED down
        \/ /\ rb[r].at = "send" /\ ~downEnd /\ down' = Append(down, Frame("data", r, rb[r].v))
           /\ rb' = [rb EXCEPT ![r] = [at |-> "read", v |-> 0]]
        \/ /\ rb[r].at = "send" /\ downEnd /\ UNCHANGED down
           /\ rb' = [rb EXCEPT ![r] = [at |-> "done", v |-> 0]]
        \/ /\ rb[r].at = "eof" /\ (UNCHANGED down \/ down' = Append(down, Frame("eof", r, 0)))
           /\ rb' = [rb EXCEPT ![r].at = "done"]
    BY <1>8, Zenon DEF RunnerBridge, RunnerSend, RunnerSendFails
  <2>2. r \in Streams /\ rb[r].v \in Int /\ "data" \in FrameTypes /\ "eof" \in FrameTypes
    BY <1>2, Zenon DEF Streams, Chunk, FrameTypes
  <2>3. CASE rb[r].at = "read" /\ rb' = [rb EXCEPT ![r].at = "eof"] /\ UNCHANGED down
    <3>1. rb'[s] = rb[s] \/ (rb[s].at # "send" /\ rb'[s].at # "send")
      BY <1>2, <2>3, Zenon DEF Chunk
    <3> QED
      BY <1>4, <2>3, <3>1, Zenon
  <2>4. CASE downEnd /\ UNCHANGED down
    BY <1>4, <2>4, Zenon
  <2>5. CASE /\ rb[r].at = "eof" /\ (UNCHANGED down \/ down' = Append(down, Frame("eof", r, 0)))
             /\ rb' = [rb EXCEPT ![r].at = "done"]
    <3>1. rb'[s] = rb[s] \/ (rb[s].at # "send" /\ rb'[s].at # "send")
      BY <1>2, <2>5, Zenon DEF Chunk
    <3>2. \/ UNCHANGED down
          \/ \E x \in Frames : ~(x.t = "data" /\ x.s = s) /\ down' = Append(down, x)
      <4>1. Frame("eof", r, 0) \in Frames /\ Frame("eof", r, 0).t = "eof"
        BY <2>2, FrameParts, FrameType, Zenon DEF Frame
      <4> QED
        BY <2>5, <4>1, Zenon
    <3> QED
      BY <1>4, <3>1, <3>2, Zenon
  <2>6. CASE /\ rb[r].at = "send" /\ ~downEnd /\ down' = Append(down, Frame("data", r, rb[r].v))
             /\ rb' = [rb EXCEPT ![r] = [at |-> "read", v |-> 0]]
    <3> DEFINE x == Frame("data", r, rb[r].v)
    <3>1. x \in Frames /\ x.t = "data" /\ x.s = r /\ x.v = rb[r].v
      BY <2>2, FrameParts, FrameType, Zenon DEF Frame
    <3>2. down' = Append(down, x)
      BY <2>6, Zenon
    <3> HIDE DEF x
    <3>3. CASE r # s
      <4>1. rb'[s] = rb[s]
        BY <1>2, <2>6, <3>3, Zenon
      <4> QED
        BY <1>4, <3>1, <3>2, <3>3, <4>1, Zenon
    <3>4. CASE r = s
      <4>1. rb'[s].at = "read" /\ rb[s].at = "send"
        BY <1>2, <2>6, <3>4, Zenon
      <4>2. Sent(s, d) = d + 1 /\ Sent(s, d + 1)' = d + 1
        BY <4>1, Zenon DEF Sent, Plus
      <4>3. Decoded(s, d + 1)' = Decoded(s, d)
        BY <1>1, <4>2, Zenon DEF Decoded
      <4>4. ASSUME Runs(down, s, Looped(s), d), Passing(s, d, c)
            PROVE  Runs(down', s, Looped(s), d + 1) /\ d + 1 < next'[s] /\ Passing(s, d + 1, c)'
        <5>1. rb[s].v = d + 1 /\ d + 1 < next[s] /\ Giving(s, d, c)
          BY <2>6, <4>1, <4>2, <4>4, Zenon DEF Passing
        <5>2. Runs(down', s, Looped(s), d + 1)
          BY <1>2, <3>1, <3>2, <3>4, <4>4, <5>1, RunsAppend, Zenon
        <5>3. Giving(s, d + 1, c)'
          BY <1>1, <1>3, <4>2, <4>3, <5>1, Zenon DEF Giving
        <5>4. Passing(s, d + 1, c)'
          BY <1>1, <4>1, <4>2, <5>1, <5>3, Zenon DEF Passing
        <5> QED
          BY <1>1, <5>1, <5>2, <5>4, Zenon
      <4>5. d + 1 \in Nat
        BY Successor, Zenon
      <4>6. InAt(s, d + 1, c)'
        BY <1>1, <1>2, <4>4, <4>5, LocalKeepsIn, Zenon
      <4> QED
        BY <4>5, <4>6, Zenon
    <3> QED
      BY <3>3, <3>4, Zenon
  <2> QED
    BY <2>1, <2>3, <2>4, <2>5, <2>6, Zenon
<1> QED
  BY <1>6, <1>7, <1>8, Zenon

(* The local steps and the input. *)
LEMMA LocalIn ==
    ASSUME TypeInv, InInv, LocalStep, NEW s \in InStreams, NEW d \in Nat, NEW c \in Nat, InAt(s, d, c)
    PROVE  \E x, y \in Nat : InAt(s, x, y)'
<1>1. down \in Seq(Frames) /\ next[s] \in Nat /\ rb \in [InStreams -> Chunk]
  BY Zenon DEF TypeInv
<1>2. CASE \/ UserSignals \/ ShimReceive \/ ShimKilled \/ \E r \in InStreams : ShimStreamEnd(r)
           \/ ReadFramesEnd \/ \E r \in OutStreams : StreamPipe(r)
           \/ BrokerClosePipes \/ BrokerDrained \/ BrokerExit
           \/ RunnerFails \/ RunnerLoop \/ RunnerWrite \/ RunnerClose \/ RunnerJoin \/ ContextEnds
  <2>1. /\ UNCHANGED <<next, c2b, down, rb>> /\ (downEnd => downEnd') /\ (c2bEnd => c2bEnd')
        /\ (stdinR' => stdinR) /\ fdOpen' \subseteq fdOpen /\ (rf' = rf \/ rf'.at = "done")
    <3>1. CASE UserSignals \/ ShimReceive \/ ShimKilled \/ \E r \in OutStreams : StreamPipe(r)
      <4>1. /\ UNCHANGED <<next, c2b, down, rb, downEnd, stdinR, fdOpen, rf>>
            /\ c2bEnd' = TRUE \/ UNCHANGED c2bEnd
        BY <3>1, Zenon DEF UserSignals, ShimReceive, ShimKilled, StreamPipe, agentVars,
           shimVars, sockVars, pipeVars, runVars
      <4> QED
        BY <4>1
    <3>2. ASSUME NEW r \in InStreams, ShimStreamEnd(r)
          PROVE  /\ UNCHANGED <<next, c2b, down, rb, downEnd, stdinR, fdOpen, rf>>
                 /\ c2bEnd' = (c2bEnd \/ r = 0)
      BY <3>2, Zenon DEF ShimStreamEnd, agentVars, pipeVars, runVars
    <3>3. CASE ReadFramesEnd
      BY <3>3, Zenon DEF ReadFramesEnd, rfTop, agentVars, shimVars, sockVars, runVars
    <3>4. CASE \/ BrokerClosePipes \/ BrokerDrained \/ BrokerExit
      <4>1. /\ UNCHANGED <<next, c2b, down, rb, downEnd, c2bEnd, rf>>
            /\ stdinR' = FALSE \/ UNCHANGED stdinR
            /\ fdOpen' = {} \/ UNCHANGED fdOpen
        BY <3>4, Zenon DEF BrokerClosePipes, BrokerDrained, BrokerExit, agentVars, shimVars,
           sockVars, pipeVars, runVars
      <4> QED
        BY <4>1
    <3>5. CASE RunnerFails \/ RunnerLoop \/ RunnerWrite \/ RunnerClose \/ RunnerJoin \/ ContextEnds
      <4>1. /\ UNCHANGED <<next, c2b, down, rb, c2bEnd, rf>>
            /\ downEnd' = TRUE \/ UNCHANGED downEnd
            /\ stdinR' = FALSE \/ UNCHANGED stdinR
            /\ fdOpen' \subseteq fdOpen
        BY <3>5, Zenon DEF RunnerFails, RunnerLoop, RunnerWrite, RunnerClose, RunnerJoin,
           ContextEnds, agentVars, shimVars, sockVars, pipeVars, runVars
      <4> QED
        BY <4>1
    <3> QED
      BY <1>2, <3>1, <3>4, <3>5, <3>3, <3>2, Zenon
  <2>2. ToRunner(s)' => ToRunner(s) /\ rf' = rf
    BY <2>1, Zenon DEF ToRunner
  <2>3. Passing(s, d, c) => Passing(s, d, c)'
    BY <2>1, <2>2, PassingStays, Zenon
  <2>4. next'[s] \in Nat /\ next[s] <= next'[s] /\ (d < next[s] => d < next'[s])
    BY <1>1, <2>1
  <2> QED
    BY <2>1, <2>3, <2>4, LocalKeepsIn, Zenon
<1>3. CASE BrokerDies
  <2>1. UNCHANGED <<next, down>> /\ downEnd'
    BY <1>3, Zenon DEF BrokerDies, shimVars
  <2>2. Passing(s, d, c)'
    BY <2>1, Zenon DEF Passing
  <2>3. next'[s] \in Nat /\ next[s] <= next'[s] /\ (d < next[s] => d < next'[s])
    BY <1>1, <2>1
  <2> QED
    BY <2>1, <2>2, <2>3, LocalKeepsIn, Zenon
<1>4. CASE LinkLost
  <2>1. UNCHANGED next /\ downEnd' /\ \E n \in 0..Len(down) : down' = SubSeq(down, 1, n)
    BY <1>4, Zenon DEF LinkLost, shimVars
  <2>2. PICK n \in 0..Len(down) : down' = SubSeq(down, 1, n)
    BY <2>1, Zenon
  <2>3. \A y : Passing(s, y, c)'
    BY <2>1, Zenon DEF Passing
  <2>4. next'[s] \in Nat /\ next[s] <= next'[s]
    BY <1>1, <2>1
  <2>5. CASE Runs(down, s, Looped(s), d) /\ d < next[s]
    <3>1. PICK x \in Int : Runs(SubSeq(down, 1, n), s, Looped(s), x) /\ x <= d
      BY <1>1, <2>5, RunsPrefix, Zenon
    <3>2. Looped(s) <= x
      <4>1. SubSeq(down, 1, n) \in Seq(Frames)
        BY <1>1, QueueParts, Zenon
      <4> QED
        BY <3>1, <4>1, RunsBounds, Zenon
    <3>3. Looped(s) \in Nat
      <4>1. Piped(s) \in Nat
        BY PipedNat, Zenon
      <4> QED
        BY <4>1, Successor, Zenon DEF Looped, Plus
    <3>4. x \in Nat /\ x < next'[s]
      <4>1. x \in Nat
        BY <3>2, <3>3, Above, Zenon
      <4>2. x \in Int /\ d \in Int /\ next[s] \in Int /\ x <= d /\ d < next[s]
        BY <1>1, <2>5, <3>1, NatIsInt, Zenon
      <4>3. x < next[s]
        BY <4>2, Bounded, Zenon
      <4> QED
        BY <2>1, <4>1, <4>3, Zenon
    <3>5. Runs(down', s, Looped(s), x)
      BY <2>2, <3>1, Zenon
    <3>6. Passing(s, x, c)'
      BY <2>3, Zenon
    <3>7. InAt(s, x, c)'
      BY <2>4, <3>4, <3>5, <3>6, LocalKeepsIn, Zenon
    <3> QED
      BY <3>4, <3>7, Zenon
  <2>6. CASE ~(Runs(down, s, Looped(s), d) /\ d < next[s])
    <3>1. InAt(s, d, c)'
      BY <2>4, <2>6, LocalKeepsIn, Zenon
    <3> QED
      BY <3>1, Zenon
  <2> QED
    BY <2>5, <2>6, Zenon
<1>5. CASE ShimForwardSignal \/ \E r \in InStreams : ShimStream(r)
  BY <1>5, ShimIn, Zenon DEF InInv
<1>6. CASE \/ ReadFramesDecode \/ ReadFramesSignal \/ ReadFramesFdGone
           \/ \E r \in InStreams : PipeToRunner(r)
  BY <1>6, ReadFramesIn, Zenon DEF InInv
<1>7. CASE RunnerRequest \/ RunnerSignal \/ \E r \in InStreams : RunnerBridge(r)
  BY <1>7, RunnerIn, Zenon DEF InInv
<1> QED
  BY <1>2, <1>3, <1>4, <1>5, <1>6, <1>7, Zenon DEF LocalStep

(* What is on the socket to the broker. *)
LEMMA SocketFrames ==
    ASSUME TypeInv, LocalStep, \A i \in 1..Len(c2b) : c2b[i].t \in {"data", "sig"}
    PROVE  \A i \in 1..Len(c2b') : c2b'[i].t \in {"data", "sig"}
<1>1. c2b \in Seq(Frames) /\ next \in [InStreams -> Nat]
  BY Zenon DEF TypeInv
<1>2. ASSUME NEW x \in Frames, x.t \in {"data", "sig"}, c2b' = Append(c2b, x)
      PROVE  \A i \in 1..Len(c2b') : c2b'[i].t \in {"data", "sig"}
  <2>1. \A i \in 1..Len(c2b') : c2b'[i] = x \/ (i \in 1..Len(c2b) /\ c2b'[i] = c2b[i])
    <3>1. \A i \in 1..Len(Append(c2b, x)) :
              Append(c2b, x)[i] = x \/ (i \in 1..Len(c2b) /\ Append(c2b, x)[i] = c2b[i])
      BY <1>1, <1>2, AppendedFrames, Zenon
    <3> QED
      BY <1>2, <3>1, Zenon
  <2> QED
    BY <1>2, <2>1, Zenon
<1>3. CASE UNCHANGED c2b
  BY <1>3, Zenon
<1>4. CASE ReadFramesDecode
  <2>1. c2b # <<>> /\ c2b' = Tail(c2b)
    BY <1>4, Zenon DEF ReadFramesDecode
  <2>2. \A i \in 1..Len(c2b') : i + 1 \in 1..Len(c2b) /\ c2b'[i] = c2b[i + 1]
    <3>1. \A i \in 1..Len(Tail(c2b)) : i + 1 \in 1..Len(c2b) /\ Tail(c2b)[i] = c2b[i + 1]
      BY <1>1, <2>1, ExitFrames, Zenon
    <3> QED
      BY <2>1, <3>1, Zenon
  <2> QED
    BY <2>2, Zenon
<1>5. CASE ShimForwardSignal
  <2>1. Frame("sig", 0, SIGINT) \in Frames /\ Frame("sig", 0, SIGINT).t = "sig"
    <3>1. 0 \in Streams /\ SIGINT \in Int /\ "sig" \in FrameTypes
      BY FrameParts, Zenon
    <3> QED
      BY <3>1, FrameType, Zenon DEF Frame
  <2>2. UNCHANGED c2b \/ c2b' = Append(c2b, Frame("sig", 0, SIGINT))
    BY <1>5, Zenon DEF ShimForwardSignal, ShimSend
  <2> QED
    BY <1>2, <1>3, <2>1, <2>2, Zenon
<1>6. ASSUME NEW r \in InStreams, ShimStream(r)
      PROVE  \A i \in 1..Len(c2b') : c2b'[i].t \in {"data", "sig"}
  <2>1. Frame("data", r, next[r]) \in Frames /\ Frame("data", r, next[r]).t = "data"
    <3>1. r \in Streams /\ next[r] \in Int /\ "data" \in FrameTypes
      BY <1>1 DEF Streams, FrameTypes
    <3> QED
      BY <3>1, FrameType, Zenon DEF Frame
  <2>2. UNCHANGED c2b \/ c2b' = Append(c2b, Frame("data", r, next[r]))
    BY <1>6, Zenon DEF ShimStream, ShimSend
  <2> QED
    BY <1>2, <1>3, <2>1, <2>2, Zenon
<1>7. CASE \/ UserSignals \/ ShimReceive \/ ShimKilled
           \/ \E s \in InStreams : ShimStreamEnd(s) \/ PipeToRunner(s) \/ RunnerBridge(s)
           \/ ReadFramesEnd \/ ReadFramesSignal \/ ReadFramesFdGone
           \/ \E s \in OutStreams : StreamPipe(s)
           \/ BrokerClosePipes \/ BrokerDrained \/ BrokerExit
  <2>1. UNCHANGED c2b
    BY <1>7, Zenon DEF UserSignals, ShimReceive, ShimKilled, ShimStreamEnd, PipeToRunner,
       RunnerBridge, ReadFramesEnd, ReadFramesSignal, ReadFramesFdGone, StreamPipe,
       BrokerClosePipes, BrokerDrained, BrokerExit, sockVars
  <2> QED
    BY <1>3, <2>1, Zenon
<1>8. CASE \/ RunnerFails \/ RunnerRequest \/ RunnerSignal \/ RunnerLoop \/ RunnerWrite
           \/ RunnerClose \/ RunnerJoin \/ LinkLost \/ ContextEnds \/ BrokerDies
  <2>1. UNCHANGED c2b
    BY <1>8, Zenon DEF RunnerFails, RunnerRequest, RunnerSignal, RunnerLoop, RunnerWrite,
       RunnerClose, RunnerJoin, LinkLost, ContextEnds, BrokerDies, sockVars
  <2> QED
    BY <1>3, <2>1, Zenon
<1> QED
  BY <1>4, <1>5, <1>6, <1>7, <1>8, Zenon DEF LocalStep

(* No exit frame travels to the agent. *)
LEMMA NoExitDown ==
    ASSUME TypeInv, GroupInv, [Next]_vars, ~HasExit(down)
    PROVE  ~HasExit(down)'
<1>1. down \in Seq(Frames) /\ rb \in [InStreams -> Chunk]
  BY Zenon DEF TypeInv
<1>2. CASE UNCHANGED down
  BY <1>2, Zenon DEF HasExit
<1>3. CASE down # <<>> /\ down' = Tail(down)
  <2>1. ~HasExit(Tail(down))
    BY <1>1, <1>3, ExitFrames, Zenon
  <2> QED
    BY <1>3, <2>1, Zenon DEF HasExit
<1>4. ASSUME NEW x \in Frames, x.t # "exit", down' = Append(down, x) PROVE ~HasExit(down)'
  <2>1. ~HasExit(Append(down, x))
    BY <1>1, <1>4, ExitFrames, Zenon
  <2> QED
    BY <1>4, <2>1, Zenon DEF HasExit
<1>5. CASE AgentNext
  <2>1. 0 \in InStreams
    BY AgentAssumption, Zenon
  <2>2. LoopData \/ LoopWrite \/ InQuiet(0)
    BY <1>5, <2>1, AgentTakes, Zenon
  <2>3. UNCHANGED down \/ (down # <<>> /\ down' = Tail(down))
    BY <2>2, Zenon DEF LoopData, LoopWrite, InQuiet, link
  <2> QED
    BY <1>2, <1>3, <2>3, Zenon
<1>6. CASE Group
  <2>1. UNCHANGED down
    BY <1>6, Zenon DEF Group, ProcExit, ProcFork, ProcDropOutput, ProcWrite, ProcRead, link
  <2> QED
    BY <1>2, <2>1, Zenon
<1>7. \A t \in FrameTypes, r \in Streams, v \in Int : Frame(t, r, v) \in Frames /\ Frame(t, r, v).t = t
  BY FrameType, Zenon DEF Frame
<1>8. CASE RunnerRequest \/ RunnerSignal \/ \E r \in InStreams : RunnerBridge(r)
  <2>1. 0 \in Streams /\ SIGINT \in Int /\ {"config", "exec", "sig", "data", "eof"} \subseteq FrameTypes
    BY FrameParts, Zenon
  <2>2. \A r \in InStreams : r \in Streams /\ rb[r].v \in Int
    BY <1>1, Zenon DEF Streams, Chunk
  <2>3. \/ UNCHANGED down
        \/ \E t \in {"config", "exec", "sig", "data", "eof"}, r \in Streams, v \in Int :
               down' = Append(down, Frame(t, r, v))
    BY <1>8, <2>1, <2>2, SMTT(30) DEF RunnerRequest, RunnerSignal, RunnerBridge, RunnerSend,
       RunnerSendFails
  <2> QED
    BY <1>2, <1>4, <1>7, <2>1, <2>3, Zenon
<1>9. CASE LinkLost
  <2>1. PICK n \in 0..Len(down) : down' = SubSeq(down, 1, n)
    BY <1>9, Zenon DEF LinkLost
  <2>2. ~HasExit(SubSeq(down, 1, n))
    BY <1>1, ExitFrames, Zenon
  <2> QED
    BY <2>1, <2>2, Zenon DEF HasExit
<1>10. CASE \/ UserSignals \/ ShimReceive \/ ShimKilled \/ ShimForwardSignal
            \/ \E s \in InStreams : ShimStream(s) \/ ShimStreamEnd(s) \/ PipeToRunner(s)
            \/ ReadFramesDecode \/ ReadFramesEnd \/ ReadFramesSignal \/ ReadFramesFdGone
            \/ \E s \in OutStreams : StreamPipe(s)
            \/ BrokerClosePipes \/ BrokerDrained \/ BrokerExit
            \/ RunnerFails \/ RunnerLoop \/ RunnerWrite \/ RunnerClose \/ RunnerJoin
            \/ ContextEnds \/ BrokerDies
  <2>1. UNCHANGED down
    BY <1>10, Zenon DEF UserSignals, ShimReceive, ShimKilled, ShimForwardSignal, ShimStream,
       ShimStreamEnd, PipeToRunner, ReadFramesDecode, ReadFramesEnd, ReadFramesSignal,
       ReadFramesFdGone, StreamPipe, BrokerClosePipes, BrokerDrained, BrokerExit, RunnerFails,
       RunnerLoop, RunnerWrite, RunnerClose, RunnerJoin, ContextEnds, BrokerDies, agentVars
  <2> QED
    BY <1>2, <2>1, Zenon
<1> QED
  BY <1>2, <1>5, <1>6, <1>8, <1>9, <1>10, StepKinds, Zenon DEF LocalStep, vars, agentVars

(* The bridges of the runner start with the command's request. *)
LEMMA BridgesIdle ==
    ASSUME TypeInv, LocalStep, rmain \in Asking => \A s \in InStreams : rb[s].at = "idle", rmain' \in Asking
    PROVE  \A s \in InStreams : rb'[s].at = "idle"
<1> USE DEF Asking
<1>1. CASE \/ UserSignals \/ ShimReceive \/ ShimKilled \/ ShimForwardSignal
           \/ \E s \in InStreams : ShimStream(s) \/ ShimStreamEnd(s)
           \/ ReadFramesDecode \/ ReadFramesEnd \/ ReadFramesSignal \/ ReadFramesFdGone
           \/ \E s \in OutStreams : StreamPipe(s)
           \/ BrokerClosePipes \/ BrokerDrained \/ BrokerExit \/ LinkLost \/ ContextEnds
           \/ RunnerSignal
  BY <1>1, Zenon DEF UserSignals, ShimReceive, ShimKilled, ShimForwardSignal, ShimStream,
     ShimStreamEnd, ReadFramesDecode, ReadFramesEnd, ReadFramesSignal, ReadFramesFdGone,
     StreamPipe, BrokerClosePipes, BrokerDrained, BrokerExit, LinkLost, ContextEnds,
     RunnerSignal, runVars
<1>2. CASE RunnerFails \/ RunnerLoop \/ RunnerWrite \/ RunnerClose \/ RunnerJoin \/ BrokerDies
  BY <1>2, Zenon DEF RunnerFails, RunnerLoop, RunnerWrite, RunnerClose, RunnerJoin, BrokerDies
<1>3. CASE RunnerRequest
  BY <1>3, Zenon DEF RunnerRequest
<1>4. ~\E s \in InStreams : PipeToRunner(s) \/ RunnerBridge(s)
  BY Zenon DEF PipeToRunner, RunnerBridge
<1> QED
  BY <1>1, <1>2, <1>3, <1>4, Zenon DEF LocalStep

(* InInv is an invariant. *)
LEMMA InInvariance == SafeSpec => []InInv
<1>1. Init => InInv
  <2> SUFFICES ASSUME Init PROVE InInv
    BY Zenon
  <2>1. /\ c2b = <<>> /\ down = <<>> /\ rmain = "ensure" /\ aloop.at = "idle" /\ rf.at = "decode"
    BY Zenon DEF Init, AgentInit
  <2>2. ASSUME NEW s \in InStreams PROVE InAt(s, 0, 0) /\ rb[s].at = "idle"
    <3>1. got[s] = <<>> /\ inPipe[s] = <<>> /\ next[s] = 1 /\ rb[s].at = "idle"
      BY <2>2, Zenon DEF Init, AgentInit
    <3>2. Len(got[s]) = 0 /\ Len(inPipe[s]) = 0 /\ Runs(<<>>, s, 0, 0)
      BY <3>1, RunsEmpty, EmptyQueue, NumbersOfInit, Zenon
    <3>3. Piped(s) = 0 /\ Looped(s) = 0 /\ Sent(s, 0) = 0 /\ Decoded(s, 0) = 0
      BY <2>1, <3>1, <3>2, NumbersOfInit, Zenon DEF Piped, Looped, Sent, Decoded, Plus
    <3>4. Taking(s)
      BY <3>1, <3>2, <3>3, EmptyQueue, NumbersOfInit, Zenon DEF Taking
    <3>5. Passing(s, 0, 0)
      BY <2>1, <3>1, <3>2, <3>3, NumbersOfInit, Zenon DEF Passing, Giving
    <3>6. Filling(s, 0, 0)
      BY <2>1, <3>1, <3>2, <3>3, <3>5, NumbersOfInit, Zenon DEF Filling, Feeding
    <3> QED
      BY <3>1, <3>4, <3>6, Zenon DEF InAt
  <2>3. Len(c2b) = 0 /\ ~HasExit(down) /\ 1..0 = {}
    BY <2>1, EmptyQueue, Zenon
  <2>4. \A s \in InStreams : \E d, c \in Nat : InAt(s, d, c)
    BY <2>2, Zenon
  <2> QED
    BY <2>2, <2>3, <2>4, Zenon DEF InInv
<1>2. TypeInv /\ GroupInv /\ InInv /\ [Next]_vars => InInv'
  <2> SUFFICES ASSUME TypeInv, GroupInv, InInv, [Next]_vars PROVE InInv'
    BY Zenon
  <2>1. ~HasExit(down)'
    BY NoExitDown, Zenon DEF InInv
  <2>2. CASE LocalStep
    <3>1. \A i \in 1..Len(c2b') : c2b'[i].t \in {"data", "sig"}
      BY <2>2, SocketFrames, Zenon DEF InInv
    <3>2. rmain' \in Asking => \A s \in InStreams : rb'[s].at = "idle"
      BY <2>2, BridgesIdle, Zenon DEF InInv
    <3>3. ASSUME NEW s \in InStreams PROVE \E x, y \in Nat : InAt(s, x, y)'
      <4>1. PICK d \in Nat, c \in Nat : InAt(s, d, c)
        BY Zenon DEF InInv
      <4> QED
        BY <2>2, <4>1, LocalIn, Zenon
    <3> QED
      BY <2>1, <3>1, <3>2, <3>3, Zenon DEF InInv
  <2>3. ASSUME UNCHANGED localVars,
               \A s \in InStreams : \A d, c \in Nat : InAt(s, d, c) => InAt(s, d, c)'
        PROVE  InInv'
    <3>1. UNCHANGED <<c2b, rmain, rb>>
      BY <2>3, Zenon DEF localVars, sockVars, runVars
    <3>2. \A s \in InStreams : \E d, c \in Nat : InAt(s, d, c)'
      BY <2>3, Zenon DEF InInv
    <3> QED
      BY <2>1, <3>1, <3>2, Zenon DEF InInv
  <2>4. CASE AgentNext /\ UNCHANGED localVars
    BY <2>3, <2>4, AgentIn, Zenon
  <2>5. CASE Group /\ UNCHANGED localVars
    BY <2>3, <2>5, GroupIn, Zenon
  <2>6. CASE UNCHANGED vars
    <3>1. UNCHANGED localVars /\ UNCHANGED <<down, downEnd, got, inPipe, inClosed, aloop, amain, proc>>
      BY <2>6, Zenon DEF vars, agentVars
    <3>2. ASSUME NEW s \in InStreams, NEW d \in Nat, NEW c \in Nat, InAt(s, d, c) PROVE InAt(s, d, c)'
      <4>1. UNCHANGED next /\ (Passing(s, d, c)' <=> Passing(s, d, c))
        BY <3>1, PassingKept, Zenon
      <4>2. Piped(s)' = Piped(s) /\ Looped(s)' = Looped(s)
        BY <3>1, Zenon DEF Piped, Looped
      <4>3. /\ ToGroup(s)' <=> ToGroup(s)
            /\ AgentReads' <=> AgentReads
        BY <3>1, Zenon DEF ToGroup, AgentReads, Live
      <4>4. Taking(s)'
        BY <3>1, <3>2, <4>1, <4>2, Zenon DEF InAt, Taking, Numbered
      <4>5. Filling(s, d, c)'
        BY <3>1, <3>2, <4>1, <4>2, <4>3, Zenon DEF InAt, Filling, Feeding
      <4> QED
        BY <4>4, <4>5, Zenon DEF InAt
    <3> QED
      BY <2>3, <3>1, <3>2, Zenon
  <2> QED
    BY <2>2, <2>4, <2>5, <2>6, StepKinds, Zenon
<1> QED
  BY <1>1, <1>2, TypeInvariance, GroupInvariance, PTL DEF SafeSpec

-----------------------------------------------------------------------------
(* The refinement *)

(* What Running says. *)
LEMMA RunningIs ==
    /\ proc[Leader] = "none" => Running = "no"
    /\ proc[Leader] # "none" /\ (\E s \in OutStreams : Holders(s) # {}) => Running = "yes"
    /\ Over => Running = "over"
    /\ Running = "no" => proc[Leader] = "none"
BY Zenon DEF Running, Over

(* The same after a step. *)
LEMMA RunningIsThen ==
    /\ proc'[Leader] = "none" => Running' = "no"
    /\ proc'[Leader] # "none" /\ (\E s \in OutStreams : Holders(s)' # {}) => Running' = "yes"
    /\ Over' => Running' = "over"
BY Zenon DEF Running, Over

(* Initially nothing was given, started, shown or answered. *)
LEMMA RefinesInit ==
    ASSUME Init
    PROVE  Command!Init
<1>1. proc[Leader] = "none"
  BY AgentAssumption, Zenon DEF Init, AgentInit
<1>2. Running = "no"
  BY <1>1, RunningIs, Zenon
<1>3. Given = [s \in InStreams |-> 0]
  BY DEF Init, Given
<1> QED
  BY <1>2, <1>3, Zenon DEF Init, AgentInit, Command!Init, Lost

(* Steps that change the group alone, and only by ending processes or       *)
(* letting go of output: the command exits, is over, or goes on.            *)
LEMMA RefinesEnds ==
    ASSUME GroupInv, GroupInv', Shrinks, UNCHANGED <<next, got, wrote, shimOut, Lost, shimCode>>
    PROVE  Command!Next \/ UNCHANGED Command!cvars
<1>1. UNCHANGED Given
  BY Zenon DEF Given
<1>2. CASE proc[Leader] = "none"
  <2>1. proc'[Leader] = "none" /\ status' = status
    BY <1>2, StdoutReliable, Zenon DEF Shrinks, Live
  <2>2. Running' = Running
    BY <1>2, <2>1, RunningIs, RunningIsThen, Zenon
  <2> QED
    BY <1>1, <2>1, <2>2, Zenon DEF Command!cvars
<1>3. CASE proc[Leader] # "none" /\ status' = status
  <2>1. proc'[Leader] # "none"
    BY <1>3, StdoutReliable, Zenon DEF Shrinks
  <2>2. CASE Over'
    <3>1. Running' = "over" /\ Running \in {"yes", "over"}
      BY <1>3, <2>2, RunningIs, RunningIsThen, Zenon DEF Over
    <3> QED
      BY <1>1, <1>3, <3>1, Zenon DEF Command!cvars, Command!Next, Command!Over
  <2>3. CASE ~Over'
    <3>1. \E s \in OutStreams : Holders(s)' # {}
      BY <2>1, <2>3, Zenon DEF Over
    <3>2. \E s \in OutStreams : Holders(s) # {}
      BY <3>1, Zenon DEF Shrinks
    <3>3. Running' = "yes" /\ Running = "yes"
      BY <1>3, <2>1, <3>1, <3>2, RunningIs, RunningIsThen, Zenon
    <3> QED
      BY <1>1, <1>3, <3>3, Zenon DEF Command!cvars
  <2> QED
    BY <2>2, <2>3, Zenon
<1>4. CASE status' # status
  <2>1. Leader \in Live /\ Leader \notin Live'
    BY <1>4, Zenon DEF Shrinks
  <2>2. status = -1
    BY <2>1, Zenon DEF Live, GroupInv
  <2>3. proc[Leader] # "none" /\ proc'[Leader] # "none"
    BY <2>1, StdoutReliable, Zenon DEF Live, Shrinks
  <2>4. status' >= 0
    <3>1. proc'[Leader] \in {"zombie", "gone"}
      BY <2>1, <2>3, StdoutReliable, Zenon DEF GroupInv, Live
    <3>2. status' \in Nat
      BY <3>1, Zenon DEF GroupInv
    <3> QED
      BY <3>2
  <2>5. Holders(1) # {} /\ 1 \in OutStreams
    <3>1. 1 \in OutStreams /\ outHold[Leader] = OutStreams
      BY <2>1, AgentAssumption, Zenon DEF GroupInv
    <3> QED
      BY <2>1, <3>1, Zenon DEF Holders
  <2>6. Running = "yes"
    BY <2>3, <2>5, RunningIs, Zenon
  <2>7. Running' \in {"yes", "over"}
    BY <2>3, RunningIsThen, Zenon DEF Over
  <2>8. Command!Exit
    BY <1>1, <2>2, <2>4, <2>6, <2>7, Zenon DEF Command!Exit
  <2> QED
    BY <2>8, Zenon DEF Command!Next
<1> QED
  BY <1>2, <1>3, <1>4, Zenon

(* A step that changes nothing the user or the group's parent can see is a  *)
(* stutter.                                                                 *)
LEMMA RefinesStutter ==
    ASSUME UNCHANGED <<next, got, wrote, shimOut, proc, outHold, status, Lost, shimCode>>
    PROVE  UNCHANGED Command!cvars
<1>1. UNCHANGED Given
  BY Zenon DEF Given
<1>2. UNCHANGED Running
  BY Zenon DEF Running, Holders, Live
<1> QED
  BY <1>1, <1>2, Zenon DEF Command!cvars

(* The child starts: nothing was answered yet, unless the connection was    *)
(* lost.                                                                    *)
LEMMA RefinesStart ==
    ASSUME GroupInv, GroupInv', CodeInv, StartChild, UNCHANGED localVars
    PROVE  Command!Begin
<1>1. /\ agent = "up" /\ amain = "start" /\ proc' = [proc EXCEPT ![Leader] = "alive"]
      /\ UNCHANGED <<next, shimOut, shimCode, Lost, got, wrote, status>>
  BY Zenon DEF StartChild, localVars, shimVars, runVars, link, Lost
<1>2. proc[Leader] = "none" /\ proc'[Leader] = "alive" /\ Leader \in Live'
  BY <1>1, StdoutReliable, Zenon DEF GroupInv, PreStart, Live
<1>3. Holders(1)' # {} /\ 1 \in OutStreams
  <2>1. 1 \in OutStreams
    BY AgentAssumption, Zenon
  <2>2. outHold'[Leader] = OutStreams
    BY <1>2, Zenon DEF GroupInv
  <2>3. 1 \in outHold'[Leader]
    BY <2>1, <2>2, Zenon
  <2> QED
    BY <1>2, <2>1, <2>3, Zenon DEF Holders, Live
<1>4. Running = "no" /\ Running' = "yes"
  BY <1>2, <1>3, RunningIs, RunningIsThen, Zenon
<1>5. shimCode = -1 \/ Lost
  <2>1. ~Refused
    BY <1>1, Zenon DEF Refused, NoExec
  <2>2. ~Finished(shimCode)
    BY <1>2, Zenon DEF Finished, Over
  <2> QED
    BY <2>1, <2>2, Zenon DEF CodeInv, BrokerInv, Truthful
<1>6. UNCHANGED Given
  BY <1>1, Zenon DEF Given
<1> QED
  BY <1>1, <1>4, <1>5, <1>6, Zenon DEF Command!Begin

(* The steps of the agent. *)
LEMMA RefinesAgent ==
    ASSUME GroupInv, GroupInv', CodeInv, AgentNext, UNCHANGED localVars
    PROVE  Command!Next \/ UNCHANGED Command!cvars
<1>1. UNCHANGED <<next, shimOut, shimCode, Lost>>
  BY Zenon DEF localVars, shimVars, runVars, Lost
<1>2. CASE StartChild
  BY <1>2, RefinesStart, Zenon DEF Command!Next
<1>3. CASE Terminate \/ Kill \/ LoopSignal \/ WaitFor
  <2>1. Shrinks
    BY <1>3, EndsGroup, Zenon
  <2>2. UNCHANGED <<got, wrote>>
    BY <1>3, Zenon DEF Terminate, Kill, LoopSignal, WaitFor, Send, athreads, group
  <2> QED
    BY <1>1, <2>1, <2>2, RefinesEnds, Zenon
<1>4. CASE \/ Log \/ ReadRequest \/ StartFails \/ SendRefusal \/ Return \/ SelectMuxDone
           \/ GraceExpired \/ JoinMux \/ SelectChildDone \/ GraceDone \/ SendExit \/ StartBridges
  <2>1. UNCHANGED <<got, wrote, proc, outHold, status>>
    BY <1>4, Zenon DEF Log, ReadRequest, StartFails, SendRefusal, Return, SelectMuxDone,
       GraceExpired, JoinMux, SelectChildDone, GraceDone, SendExit, StartBridges, group
  <2> QED
    BY <1>1, <2>1, RefinesStutter, Zenon
<1>5. CASE LoopEOF \/ LoopWarn \/ LoopData \/ LoopWrite \/ LoopStreamEOF
  <2>1. UNCHANGED <<got, wrote, proc, outHold, status>>
    BY <1>5, Zenon DEF LoopEOF, LoopWarn, LoopData, LoopWrite, LoopStreamEOF, group
  <2> QED
    BY <1>1, <2>1, RefinesStutter, Zenon
<1>6. CASE \E s \in OutStreams : AgentBridge(s)
  <2>1. UNCHANGED <<got, wrote, proc, outHold, status>>
    BY <1>6, Zenon DEF AgentBridge, BridgeRead, BridgeSend, group
  <2> QED
    BY <1>1, <2>1, RefinesStutter, Zenon
<1> QED
  BY <1>2, <1>3, <1>4, <1>5, <1>6, Zenon DEF AgentNext, AgentMain, AgentLoop

(* A read takes the next chunk of what was given. *)
LEMMA RefinesRead ==
    ASSUME TypeInv, GroupInv, InInv, NEW p \in Procs, NEW s \in InStreams, ProcRead(p, s),
           UNCHANGED localVars
    PROVE  Command!Take(s)
<1>1. UNCHANGED <<next, shimOut, shimCode, Lost, wrote, proc, outHold, status>> /\ p \in Live
  BY Zenon DEF localVars, shimVars, runVars, ProcRead, Lost
<1>2. UNCHANGED Given /\ UNCHANGED Running
  BY <1>1, Zenon DEF Given, Running, Holders, Live
<1>3. Running # "no"
  BY <1>1, RunningIs, Zenon DEF GroupInv, Live
<1>4. Taking(s)
  BY Zenon DEF InInv, InAt
<1>5. got' = [got EXCEPT ![s] = Append(@, Len(@) + 1)] /\ Len(got[s]) < Piped(s)
  BY <1>4, ReadNext, Zenon
<1>6. Len(got[s]) < Given[s]
  <2>1. Given[s] = next[s] - 1 /\ next[s] \in Nat /\ Piped(s) < next[s]
    BY <1>4, Zenon DEF Given, TypeInv, Taking
  <2>2. Len(got[s]) \in Nat /\ Piped(s) \in Nat
    BY PipedNat, Zenon
  <2> DEFINE a == Len(got[s])
             b == Piped(s)
             c == next[s]
             d == Given[s]
  <2>3. a < b /\ b < c /\ a \in Nat /\ b \in Nat /\ c \in Nat /\ d = c - 1
    BY <1>5, <2>1, <2>2, Zenon
  <2>4. a < d
    <3> HIDE DEF a, b, c, d
    <3> QED
      BY <2>3
  <2> QED
    BY <2>4, Zenon
<1> QED
  BY <1>1, <1>2, <1>3, <1>5, <1>6, Zenon DEF Command!Take

(* A write needs a holder of the stream. *)
LEMMA RefinesWrite ==
    ASSUME GroupInv, NEW p \in Procs, NEW s \in OutStreams, ProcWrite(p, s), UNCHANGED localVars
    PROVE  Command!Write(s)
<1>1. /\ UNCHANGED <<next, shimOut, shimCode, Lost, got, proc, outHold, status>>
      /\ p \in Live /\ s \in outHold[p] /\ wrote' = [wrote EXCEPT ![s] = @ + 1]
  BY Zenon DEF localVars, shimVars, runVars, ProcWrite, Lost
<1>2. UNCHANGED Given /\ UNCHANGED Running
  BY <1>1, Zenon DEF Given, Running, Holders, Live
<1>3. proc[Leader] # "none" /\ Holders(s) # {}
  BY <1>1, Zenon DEF GroupInv, Live, Holders
<1>4. Running = "yes"
  BY <1>3, RunningIs, Zenon
<1> QED
  BY <1>1, <1>2, <1>4, Zenon DEF Command!Write

(* The steps of the group. *)
LEMMA RefinesGroup ==
    ASSUME TypeInv, GroupInv, GroupInv', InInv, Group, UNCHANGED localVars
    PROVE  Command!Next \/ UNCHANGED Command!cvars
<1>1. UNCHANGED <<next, shimOut, shimCode, Lost>>
  BY Zenon DEF localVars, shimVars, runVars, Lost
<1>2. PICK p \in Procs :
        \/ \E c \in Codes \cup {143} : ProcExit(p, c)
        \/ \E q \in Procs : ProcFork(p, q)
        \/ ProcDropOutput(p)
        \/ \E s \in OutStreams : ProcWrite(p, s)
        \/ \E s \in InStreams : ProcRead(p, s)
  BY Zenon DEF Group
<1>3. CASE (\E c \in Codes \cup {143} : ProcExit(p, c)) \/ ProcDropOutput(p)
  <2>1. Shrinks
    BY <1>3, EndsGroup, Zenon
  <2>2. UNCHANGED <<got, wrote>>
    BY <1>3, Zenon DEF ProcExit, ProcDropOutput
  <2> QED
    BY <1>1, <2>1, <2>2, RefinesEnds, Zenon
<1>4. ASSUME NEW q \in Procs, ProcFork(p, q)
      PROVE  UNCHANGED Command!cvars
  <2>1. /\ proc'[Leader] = proc[Leader] /\ status' = status
        /\ \A s \in OutStreams : Holders(s)' = {} <=> Holders(s) = {}
    BY <1>4, ForkGroup, Zenon
  <2>2. UNCHANGED <<got, wrote>>
    BY <1>4, Zenon DEF ProcFork
  <2>3. UNCHANGED Running
    <3>1. CASE proc[Leader] = "none"
      BY <2>1, <3>1, RunningIs, RunningIsThen, Zenon
    <3>2. CASE proc[Leader] # "none" /\ \E s \in OutStreams : Holders(s) # {}
      BY <2>1, <3>2, Zenon DEF Running
    <3>3. CASE Over
      <4>1. Over'
        BY <2>1, <3>3, Zenon DEF Over
      <4> QED
        BY <2>1, <3>3, <4>1, Zenon DEF Running, Over
    <3> QED
      BY <3>1, <3>2, <3>3, Zenon DEF Over
  <2>4. UNCHANGED Given
    BY <1>1, Zenon DEF Given
  <2> QED
    BY <1>1, <2>1, <2>2, <2>3, <2>4, Zenon DEF Command!cvars
<1>5. ASSUME NEW s \in OutStreams, ProcWrite(p, s)
      PROVE  Command!Next
  BY <1>5, RefinesWrite, Zenon DEF Command!Next
<1>6. ASSUME NEW s \in InStreams, ProcRead(p, s)
      PROVE  Command!Next
  BY <1>6, RefinesRead, Zenon DEF Command!Next
<1> QED
  BY <1>2, <1>3, <1>4, <1>5, <1>6, Zenon

(* A data frame shows the next chunk of what was written. *)
LEMMA RefinesShow ==
    ASSUME TypeInv, CodeInv, OutInv, shim = "run", b2c # <<>>, Head(b2c).t = "data",
           shimOut' = [shimOut EXCEPT ![Head(b2c).s] = Append(@, Head(b2c).v)],
           UNCHANGED <<next, got, wrote, proc, outHold, status, Lost, shimCode>>
    PROVE  Command!Next \/ UNCHANGED Command!cvars
<1> DEFINE s == Head(b2c).s
<1>1. DOMAIN shimOut = OutStreams /\ b2c \in Seq(Frames)
  BY Zenon DEF TypeInv
<1>2. CASE s \notin OutStreams
  <2>1. UNCHANGED shimOut
    <3>1. shimOut \in [OutStreams -> Seq(Int)]
      BY Zenon DEF TypeInv
    <3>2. \A v : [shimOut EXCEPT ![s] = v] = shimOut
      BY <1>2, <3>1, NotThere, ZenonT(40)
    <3> QED
      BY <3>2, Zenon
  <2> QED
    BY <2>1, RefinesStutter, Zenon
<1>3. CASE s \in OutStreams
  <2> HIDE DEF s
  <2>1. PICK b \in Nat : Showing(s, b)
    BY <1>3, Zenon DEF OutInv, OutAt
  <2>2. Head(b2c).v = Len(shimOut[s]) + 1 /\ Runs(Tail(b2c), s, Len(shimOut[s]) + 1, b)
    BY <1>1, <2>1, RunsTail, Zenon DEF Showing, s
  <2>3. Tail(b2c) \in Seq(Frames)
    BY <1>1, HeadAndTail, Zenon
  <2>4. Len(shimOut[s]) + 1 <= b
    <3> DEFINE a == Len(shimOut[s]) + 1
               q == Tail(b2c)
    <3>1. q \in Seq(Frames) /\ Runs(q, s, a, b)
      BY <2>2, <2>3, Zenon
    <3>2. a <= b
      <4> HIDE DEF a, q
      <4> QED
        BY <3>1, RunsBounds, Zenon
    <3> QED
      BY <3>2, Zenon
  <2>5. /\ b <= Handed(s, b) /\ Handed(s, b) <= wrote[s]
        /\ Len(shimOut[s]) \in Nat /\ wrote[s] \in Nat /\ Handed(s, b) \in Nat
    <3>1. b <= Handed(s, b) /\ Handed(s, b) \in Nat
      BY Successor, Zenon DEF Handed, Plus
    <3>2. Handed(s, b) <= wrote[s]
      BY <2>1, Zenon DEF Showing
    <3>3. shimOut[s] \in Seq(Int) /\ wrote[s] \in Nat
      BY <1>3, Zenon DEF TypeInv
    <3> QED
      BY <3>1, <3>2, <3>3, ListIs, Zenon
  <2>6. Len(shimOut[s]) < wrote[s]
    <3> DEFINE a == Len(shimOut[s])
               h == Handed(s, b)
               w == wrote[s]
    <3>1. a + 1 <= b /\ b <= h /\ h <= w /\ a \in Nat /\ h \in Nat /\ w \in Nat
      BY <2>4, <2>5, Zenon
    <3>2. a < w
      <4> HIDE DEF a, h, w
      <4> QED
        BY <3>1, SMTT(30)
    <3> QED
      BY <3>2, Zenon
  <2>7. shimOut' = [shimOut EXCEPT ![s] = Append(@, Len(@) + 1)]
    BY <1>1, <1>3, <2>2, Zenon DEF s
  <2>8. shimCode = -1
    BY Zenon DEF CodeInv, BrokerInv
  <2>9. UNCHANGED Given /\ UNCHANGED Running
    BY Zenon DEF Given, Running, Holders, Live
  <2>10. Command!Show(s)
    BY <2>6, <2>7, <2>8, <2>9, Zenon DEF Command!Show
  <2> QED
    BY <1>3, <2>10, Zenon DEF Command!Next
<1> QED
  BY <1>2, <1>3, Zenon

(* The shim's answer: the command's own code with all its reliable output   *)
(* shown, or 127 for a command that did not start or was lost.              *)
LEMMA RefinesAnswer ==
    ASSUME TypeInv, GroupInv, CodeInv, OutInv, shim = "run",
           \/ b2c # <<>> /\ Head(b2c).t = "exit" /\ shimCode' = Head(b2c).v
           \/ b2c = <<>> /\ bmain = "closed" /\ shimCode' = 127,
           UNCHANGED <<next, got, wrote, shimOut, proc, outHold, status, Lost>>
    PROVE  Command!Answer
<1>1. shimCode = -1 /\ b2c \in Seq(Frames)
  BY Zenon DEF CodeInv, BrokerInv, TypeInv
<1>2. UNCHANGED Given /\ UNCHANGED Running
  BY DEF Given, Running, Holders, Live
<1>3. Refused => Running = "no"
  BY RunningIs, Zenon DEF Refused, GroupInv
<1>4. CASE b2c = <<>> /\ bmain = "closed" /\ shimCode' = 127
  <2>1. Lost
    BY <1>1, <1>4, ExitFrames, Zenon DEF CodeInv, BrokerInv, Lost
  <2> QED
    BY <1>1, <1>2, <1>4, <2>1, Zenon DEF Command!Answer
<1>5. CASE b2c # <<>> /\ Head(b2c).t = "exit" /\ shimCode' = Head(b2c).v
  <2>1. Head(b2c) = b2c[1] /\ 1 \in 1..Len(b2c) /\ HasExit(b2c)
    BY <1>1, <1>5, ExitFrames, Zenon
  <2>2. bmain = "closed" /\ shimCode' = Reported
    BY <1>5, <2>1, Zenon DEF CodeInv, BrokerInv
  <2>3. IF rcode = -1 THEN Refused \/ Lost ELSE Finished(rcode) \/ (rcode = 127 /\ Refused)
    BY <2>2, Zenon DEF CodeInv, BrokerInv, RunnerInv, Leaving
  <2>4. CASE rcode = -1 \/ (rcode = 127 /\ Refused)
    <3>1. shimCode' = 127
      BY <2>2, <2>4 DEF Reported
    <3>2. Running = "no" \/ Lost
      BY <1>3, <2>3, <2>4, Zenon
    <3> QED
      BY <1>1, <1>2, <3>1, <3>2, Zenon DEF Command!Answer
  <2>5. CASE rcode # -1 /\ Finished(rcode)
    <3>1. rcode \in Nat /\ status = rcode /\ Over
      BY <2>5, Zenon DEF Finished
    <3>2. shimCode' = status /\ status >= 0 /\ Running = "over"
      <4>1. rcode >= 0 /\ ~(rcode < 0)
        BY <3>1, NatIsInt, Zenon
      <4>2. shimCode' = status
        BY <2>2, <3>1, <4>1, Zenon DEF Reported
      <4> QED
        BY <3>1, <4>1, <4>2, RunningIs, Zenon
    <3>3. ASSUME NEW s \in OutStreams \ Extras
          PROVE  Len(shimOut[s]) = wrote[s]
      <4>1. PICK b \in Nat : Showing(s, b) /\ Complete(s, b)
        BY Zenon DEF OutInv, OutAt
      <4>2. b = wrote[s]
        <5>1. rcode >= 0 /\ proc[Leader] # "none" /\ s \in Reliable
          BY <3>1, NatIsInt, Zenon DEF Reliable, Over
        <5> QED
          BY <2>1, <4>1, <5>1, Zenon DEF Complete
      <4>3. Len(shimOut[s]) = b
        BY <1>1, <1>5, <4>1, RunsBounds, Zenon DEF Showing
      <4> QED
        BY <4>2, <4>3, Zenon
    <3> QED
      BY <1>1, <1>2, <3>2, <3>3, Zenon DEF Command!Answer
  <2> QED
    BY <2>3, <2>4, <2>5, Zenon
<1> QED
  BY <1>4, <1>5, Zenon

(* The steps on this side of the session. *)
LEMMA RefinesLocal ==
    ASSUME TypeInv, GroupInv, CodeInv, OutInv, LocalStep
    PROVE  Command!Next \/ UNCHANGED Command!cvars
<1> USE DEF agentVars
<1>1. UNCHANGED <<got, wrote, proc, outHold, status>>
  BY LocalKeepsAgent, Zenon DEF group
<1>2. ASSUME NEW s \in InStreams, ShimStream(s)
      PROVE  Command!Next
  <2>1. next' = [next EXCEPT ![s] = @ + 1] /\ UNCHANGED <<shimOut, shimCode, Lost>>
    BY <1>2, Zenon DEF ShimStream, runVars, Lost
  <2>2. Given' = [Given EXCEPT ![s] = @ + 1]
    <3>1. next \in [InStreams -> Nat]
      BY Zenon DEF TypeInv
    <3>2. Given' = [r \in InStreams |-> next'[r] - 1]
      BY Zenon DEF Given
    <3>3. \A r \in InStreams : next'[r] - 1 = IF r = s THEN (next[s] - 1) + 1 ELSE next[r] - 1
      BY <2>1, <3>1
    <3> QED
      BY <3>2, <3>3, Zenon DEF Given
  <2>3. UNCHANGED Running
    BY <1>1, Zenon DEF Running, Holders, Live
  <2>4. Command!Give(s)
    BY <1>1, <2>1, <2>2, <2>3, Zenon DEF Command!Give
  <2> QED
    BY <2>4, Zenon DEF Command!Next
<1>3. CASE ShimReceive
  <2>1. shim = "run" /\ UNCHANGED <<next, Lost>>
    BY <1>3, Zenon DEF ShimReceive, runVars, Lost
  <2>2. \/ /\ b2c # <<>> /\ Head(b2c).t = "data" /\ UNCHANGED shimCode
           /\ shimOut' = [shimOut EXCEPT ![Head(b2c).s] = Append(@, Head(b2c).v)]
        \/ /\ UNCHANGED shimOut
           /\ \/ b2c # <<>> /\ Head(b2c).t = "exit" /\ shimCode' = Head(b2c).v
              \/ b2c = <<>> /\ bmain = "closed" /\ shimCode' = 127
    BY <1>3, Zenon DEF ShimReceive
  <2>3. CASE /\ b2c # <<>> /\ Head(b2c).t = "data" /\ UNCHANGED shimCode
             /\ shimOut' = [shimOut EXCEPT ![Head(b2c).s] = Append(@, Head(b2c).v)]
    BY <1>1, <2>1, <2>3, RefinesShow, Zenon
  <2>4. CASE /\ UNCHANGED shimOut
             /\ \/ b2c # <<>> /\ Head(b2c).t = "exit" /\ shimCode' = Head(b2c).v
                \/ b2c = <<>> /\ bmain = "closed" /\ shimCode' = 127
    <3>1. Command!Answer
      BY <1>1, <2>1, <2>4, RefinesAnswer, Zenon
    <3> QED
      BY <3>1, Zenon DEF Command!Next
  <2> QED
    BY <2>2, <2>3, <2>4, Zenon
<1>4. CASE LinkLost \/ ContextEnds \/ BrokerDies
  <2>1. UNCHANGED <<next, shimOut, shimCode>> /\ Lost' = TRUE
    BY <1>4, Zenon DEF LinkLost, ContextEnds, BrokerDies, shimVars, Lost
  <2>2. UNCHANGED Given /\ UNCHANGED Running
    BY <1>1, <2>1, Zenon DEF Given, Running, Holders, Live
  <2>3. Command!Lose
    BY <1>1, <2>1, <2>2, Zenon DEF Command!Lose
  <2> QED
    BY <2>3, Zenon DEF Command!Next
<1>5. ASSUME UNCHANGED <<next, shimOut, shimCode, linkUp, ctxDone>>
      PROVE  UNCHANGED Command!cvars
  <2>1. UNCHANGED Lost
    BY <1>5, Zenon DEF Lost
  <2> QED
    BY <1>1, <1>5, <2>1, RefinesStutter, Zenon
<1>6. CASE UserSignals \/ ShimForwardSignal \/ ShimKilled
  <2>1. UNCHANGED <<next, shimOut, shimCode, linkUp, ctxDone>>
    BY <1>6, Zenon DEF UserSignals, ShimForwardSignal, ShimKilled, runVars
  <2> QED
    BY <1>5, <2>1, Zenon
<1>7. CASE \E s \in InStreams : ShimStreamEnd(s)
  <2>1. UNCHANGED <<next, shimOut, shimCode, linkUp, ctxDone>>
    BY <1>7, Zenon DEF ShimStreamEnd, runVars
  <2> QED
    BY <1>5, <2>1, Zenon
<1>8. CASE \/ \E s \in InStreams : PipeToRunner(s)
           \/ ReadFramesDecode \/ ReadFramesSignal \/ ReadFramesFdGone
  <2>1. UNCHANGED <<next, shimOut, shimCode, linkUp, ctxDone>>
    BY <1>8, Zenon DEF PipeToRunner, ReadFramesDecode, ReadFramesSignal, ReadFramesFdGone, shimVars,
       runVars
  <2> QED
    BY <1>5, <2>1, Zenon
<1>9. CASE ReadFramesEnd
  <2>1. UNCHANGED <<next, shimOut, shimCode, linkUp, ctxDone>>
    BY <1>9, Zenon DEF ReadFramesEnd, shimVars, runVars
  <2> QED
    BY <1>5, <2>1, Zenon
<1>10. CASE \/ \E s \in OutStreams : StreamPipe(s)
            \/ BrokerClosePipes \/ BrokerDrained \/ BrokerExit
  <2>1. UNCHANGED <<next, shimOut, shimCode, linkUp, ctxDone>>
    BY <1>10, Zenon DEF StreamPipe, BrokerClosePipes, BrokerDrained, BrokerExit, shimVars, runVars
  <2> QED
    BY <1>5, <2>1, Zenon
<1>11. CASE \/ \E s \in InStreams : RunnerBridge(s)
            \/ RunnerFails \/ RunnerRequest \/ RunnerSignal \/ RunnerLoop \/ RunnerWrite
            \/ RunnerClose \/ RunnerJoin
  <2>1. UNCHANGED <<next, shimOut, shimCode, linkUp, ctxDone>>
    BY <1>11, Zenon DEF RunnerBridge, RunnerFails, RunnerRequest, RunnerSignal, RunnerLoop,
       RunnerWrite, RunnerClose, RunnerJoin, shimVars, runVars
  <2> QED
    BY <1>5, <2>1, Zenon
<1> QED
  BY <1>2, <1>3, <1>4, <1>6, <1>7, <1>8, <1>9, <1>10, <1>11, Zenon DEF LocalStep

(* A whole run of a command keeps the promise that Command states: what a   *)
(* program reads is what was given, in order; what is shown is what was     *)
(* written, in order; and the answer is the command's own code, after all   *)
(* of its reliable output, unless the command did not start or was lost.    *)
THEOREM PromiseKept == SafeSpec => KeepsPromise
<1>1. Init => Command!Init
  BY RefinesInit, Zenon
<1>2. TypeInv /\ GroupInv /\ GroupInv' /\ CodeInv /\ OutInv /\ InInv /\ [Next]_vars
      => [Command!Next]_(Command!cvars)
  <2> SUFFICES ASSUME TypeInv, GroupInv, GroupInv', CodeInv, OutInv, InInv, [Next]_vars
               PROVE  Command!Next \/ UNCHANGED Command!cvars
    BY Zenon
  <2>1. CASE AgentNext /\ UNCHANGED localVars
    BY <2>1, RefinesAgent, Zenon
  <2>2. CASE Group /\ UNCHANGED localVars
    BY <2>2, RefinesGroup, Zenon
  <2>3. CASE LocalStep
    BY <2>3, RefinesLocal, Zenon
  <2>4. CASE UNCHANGED vars
    BY <2>4, RefinesStutter, Zenon DEF vars, agentVars, group, localVars, shimVars, runVars, Lost
  <2> QED
    BY <2>1, <2>2, <2>3, <2>4, StepKinds, Zenon
<1> QED
  BY <1>1, <1>2, TypeInvariance, GroupInvariance, CodeInvariance, OutInvariance, InInvariance, PTL
     DEF SafeSpec, KeepsPromise, Command!Spec

(* With the fairness of its scheduling too. *)
COROLLARY FairRunKeepsPromise == Spec => KeepsPromise
BY PromiseKept, PTL DEF Spec

=============================================================================
