------------------------------ MODULE FileRPC ------------------------------
(***************************************************************************)
(* The file operations of the Docker backend: goroutines that serve FUSE   *)
(* requests call remote.FileClient (pkg/remote/docker/fileclient.go), each *)
(* call is an RPC over the agent mux (Mux.FileOp, deliverFileResp,         *)
(* failPending), and the long-lived mproxy-agent in the container serves   *)
(* the requests one by one (FileOpServer.Handle).                          *)
(*                                                                         *)
(* The client has been used for some time when the model starts, so both   *)
(* counters, of request ids and of file handles, start anywhere and wrap.  *)
(* The name and the content of a file are one value of Files.              *)
(***************************************************************************)
EXTENDS Naturals, Sequences

CONSTANTS
    Callers,      \* goroutines that use the client
    Files,        \* paths of regular files in the container
    Opens,        \* the files each caller is asked to open (bound)
    NoFile,       \* not a file
    IdSpace,      \* number of values of a request id (2^32 in the code)
    HandleSpace,  \* number of values of a file handle (2^32 in the code)
    MaxCalls,     \* calls in one behaviour (bound)
    LinkCap,      \* frames in flight in one direction
    FirstId, FirstHandle   \* the counters when the model starts

ASSUME FileRPCAssumption ==
    /\ IdSpace \in Nat /\ HandleSpace \in Nat /\ MaxCalls \in Nat
    /\ LinkCap \in Nat \ {0}
    /\ MaxCalls < IdSpace - 1 /\ MaxCalls < HandleSpace - 1
    /\ 1 < IdSpace /\ 1 < HandleSpace
    /\ FirstId \in 0..(IdSpace - 1) /\ FirstHandle \in 0..(HandleSpace - 1)
    /\ NoFile \notin Files /\ Opens \in [Callers -> SUBSET Files]

VARIABLES
    caller,   \* [Callers -> [at, id, op, file, h]]: h is the handle held, 0 if none
    ch,       \* [Callers -> [full, closed, resp]]: the channel of the current call
    saw,      \* [Callers -> file whose content the last read returned]
    pending,  \* m.pending: set of <<id, caller>>
    nextReqID, calls,   \* m.nextReqID; the calls so far
    reqs, resps,        \* frames in flight
    conn,     \* the connection to the agent works
    sess,     \* the session's pipes are open
    rl,       \* the ReadLoop goroutine: "run", "fail", "close", "done"
    cl,       \* Close: "open", "cancelled", "joining", "closed"
    ctxDone,  \* c.ctx is cancelled
    handles,  \* server: set of <<handle, file>>
    next,     \* s.next
    srv       \* the agent: "run" or "done"

callers == <<caller, ch, saw, pending, nextReqID, calls>>
link == <<reqs, resps, conn>>
client == <<sess, rl, cl, ctxDone>>
server == <<handles, next, srv>>
vars == <<caller, ch, saw, pending, nextReqID, calls, reqs, resps, conn, sess,
          rl, cl, ctxDone, handles, next, srv>>

Ops == {"open", "read", "close", "stat"}
Idle == [at |-> "idle", id |-> 0, op |-> "stat", file |-> NoFile, h |-> 0]
Request(c, id, op, file, h) == [who |-> c, id |-> id, op |-> op, file |-> file, h |-> h]
Response(r, err, file, h) ==
    [who |-> r.who, id |-> r.id, op |-> r.op, err |-> err, file |-> file, h |-> h]
NoResp == [full |-> FALSE, closed |-> FALSE]

Init ==
    /\ caller = [c \in Callers |-> Idle]
    /\ ch = [c \in Callers |-> NoResp]
    /\ saw = [c \in Callers |-> NoFile]
    /\ pending = {} /\ calls = 0
    /\ nextReqID = FirstId
    /\ reqs = <<>> /\ resps = <<>> /\ conn = TRUE
    /\ sess = TRUE /\ rl = "run" /\ cl = "open" /\ ctxDone = FALSE
    /\ handles = {} /\ next = FirstHandle /\ srv = "run"

-----------------------------------------------------------------------------
(* Mux.FileOp *)

(* The counter without the increment. *)
FreshIdStuck(n) == IF n = 0 THEN 1 ELSE n

(* A uint32 that wraps and skips 0. *)
FreshId(n) == IF n + 1 = IdSpace THEN 1 ELSE n + 1

(* A goroutine starts an operation: the id, the channel, the entry. *)
Call(c, op, file) ==
    LET id == FreshId(nextReqID) IN
    /\ caller[c].at = "idle" /\ calls < MaxCalls
    /\ \/ op = "open" /\ caller[c].h = 0 /\ file \in Opens[c]
       \/ op \in {"read", "close"} /\ caller[c].h # 0 /\ file = caller[c].file
       \/ op = "stat" /\ file = NoFile
    /\ nextReqID' = id /\ calls' = calls + 1
    /\ pending' = {e \in pending : e[1] # id} \cup {<<id, c>>}
    /\ caller' = [caller EXCEPT ![c] =
                    [at |-> "send", id |-> id, op |-> op, h |-> @.h,
                     file |-> IF op = "stat" THEN @.file ELSE file]]
    /\ ch' = [ch EXCEPT ![c] = NoResp]
    /\ saw' = [saw EXCEPT ![c] = NoFile]
    /\ UNCHANGED <<link, client, server>>

(* The deferred delete left out, and as it is. *)
ForgetNothing(c) == pending
Forget(c) == {e \in pending : e[1] # caller[c].id}

(* A handle is dropped by the call that closes it, whatever its result. *)
Finish(c, h) ==
    /\ pending' = Forget(c)
    /\ caller' = [caller EXCEPT ![c] =
                    [Idle EXCEPT !.h = h, !.file = IF h = 0 THEN NoFile ELSE caller[c].file]]
    /\ ch' = [ch EXCEPT ![c] = NoResp]

KeptHandle(c) == IF caller[c].op = "close" THEN 0 ELSE caller[c].h

(* Send: into the session, into a session whose connection is gone (the     *)
(* copying goroutine takes the bytes), or into closed pipes, which fails.   *)
SendReq(c) ==
    LET k == caller[c] IN
    /\ k.at = "send"
    /\ \/ /\ sess /\ conn /\ Len(reqs) < LinkCap
          /\ reqs' = Append(reqs, Request(c, k.id, k.op, k.file, k.h))
          /\ caller' = [caller EXCEPT ![c].at = "wait"]
          /\ UNCHANGED <<pending, ch>>
       \/ /\ sess /\ ~conn
          /\ caller' = [caller EXCEPT ![c].at = "wait"]
          /\ UNCHANGED <<reqs, pending, ch>>
       \/ /\ ~sess
          /\ Finish(c, KeptHandle(c))
          /\ UNCHANGED reqs
    /\ UNCHANGED <<saw, nextReqID, calls, resps, conn, client, server>>

ReturnCtx(c) ==
    /\ caller[c].at = "wait" /\ ctxDone
    /\ Finish(c, KeptHandle(c))
    /\ UNCHANGED <<saw, nextReqID, calls, link, client, server>>

(* The answer, or a closed channel: io.ErrUnexpectedEOF. *)
ReturnResp(c) ==
    LET a == ch[c] IN
    /\ caller[c].at = "wait" /\ (a.full \/ a.closed)
    /\ Finish(c, IF a.full /\ caller[c].op = "open" THEN a.resp.h ELSE KeptHandle(c))
    /\ saw' = [saw EXCEPT ![c] = IF a.full /\ caller[c].op = "read" /\ ~a.resp.err
                                   THEN a.resp.file ELSE NoFile]
    /\ UNCHANGED <<nextReqID, calls, link, client, server>>

-----------------------------------------------------------------------------
(* The ReadLoop goroutine of the client *)

(* deliverFileResp: an answer nobody waits for is dropped. *)
Deliver ==
    LET r == Head(resps) IN
    /\ rl = "run" /\ sess /\ resps # <<>>
    /\ resps' = Tail(resps)
    /\ pending' = {e \in pending : e[1] # r.id}
    /\ ch' = [c \in Callers |-> IF <<r.id, c>> \in pending
                                  THEN [full |-> TRUE, closed |-> FALSE, resp |-> r] ELSE ch[c]]
    /\ rl' = IF ctxDone THEN "fail" ELSE "run"
    /\ UNCHANGED <<caller, saw, nextReqID, calls, reqs, conn, sess, cl, ctxDone, server>>

LoopEnds ==
    /\ rl = "run" /\ (~sess \/ (~conn /\ resps = <<>>))
    /\ rl' = "fail"
    /\ UNCHANGED <<callers, link, sess, cl, ctxDone, server>>

FailPending ==
    /\ rl = "fail"
    /\ pending' = {}
    /\ ch' = [c \in Callers |-> IF \E e \in pending : e[2] = c
                                  THEN [full |-> FALSE, closed |-> TRUE] ELSE ch[c]]
    /\ rl' = "close"
    /\ UNCHANGED <<caller, saw, nextReqID, calls, link, sess, cl, ctxDone, server>>

(* sess.Close, close(doneCh) *)
LoopCloses ==
    /\ rl = "close"
    /\ rl' = "done" /\ sess' = FALSE /\ conn' = FALSE
    /\ UNCHANGED <<callers, reqs, resps, cl, ctxDone, server>>

-----------------------------------------------------------------------------
(* agentFileClient.Close *)

CloseCancel ==
    /\ cl = "open"
    /\ cl' = "cancelled" /\ ctxDone' = TRUE
    /\ UNCHANGED <<callers, link, sess, rl, server>>

(* Close without sess.Close. *)
CloseSessionKept ==
    /\ cl = "cancelled"
    /\ cl' = "joining"
    /\ UNCHANGED <<callers, link, sess, rl, ctxDone, server>>

CloseSession ==
    /\ cl = "cancelled"
    /\ cl' = "joining" /\ sess' = FALSE /\ conn' = FALSE
    /\ UNCHANGED <<callers, reqs, resps, rl, ctxDone, server>>

CloseJoin ==
    /\ cl = "joining" /\ rl = "done"
    /\ cl' = "closed"
    /\ UNCHANGED <<callers, link, sess, rl, ctxDone, server>>

(* The context the client was made with is cancelled. *)
ParentCancels ==
    /\ ~ctxDone
    /\ ctxDone' = TRUE
    /\ UNCHANGED <<callers, link, sess, rl, cl, server>>

(* The daemon or the container goes away; what was written may get lost. *)
LinkLost ==
    /\ conn
    /\ conn' = FALSE
    /\ \E n \in 0..Len(reqs) : reqs' = SubSeq(reqs, 1, n)
    /\ \E n \in 0..Len(resps) : resps' = SubSeq(resps, 1, n)
    /\ UNCHANGED <<callers, client, server>>

-----------------------------------------------------------------------------
(* FileOpServer *)

(* A put that does not count. *)
PutStuck(n, file) ==
    LET h == IF n = 0 THEN 1 ELSE n
    IN  [h |-> h, handles |-> {e \in handles : e[1] # h} \cup {<<h, file>>}]

(* put: the next number, whether or not a file is open under it. *)
put(n, file) ==
    LET h == IF n + 1 = HandleSpace THEN 1 ELSE n + 1
    IN  [h |-> h, handles |-> {e \in handles : e[1] # h} \cup {<<h, file>>}]

get(h) == {e \in handles : e[1] = h}

(* take, and a take that leaves the file open. *)
TakeNothing(h) == handles
take(h) == handles \ get(h)

(* Handle: what is left and the answer.  The operation may also fail on    *)
(* the container's file system; a close takes the handle all the same.     *)
Handle(r, fails) ==
    LET found == get(r.h)
        opens == r.op = "open" /\ ~fails
        opened == put(next, r.file)
        err == fails \/ (r.op \in {"read", "close"} /\ found = {})
    IN  [handles |-> IF opens THEN opened.handles
                     ELSE IF r.op = "close" THEN take(r.h) ELSE handles,
         next |-> IF opens THEN opened.h ELSE next,
         resp |-> Response(r, err,
                           IF r.op = "read" /\ ~err THEN (CHOOSE e \in found : TRUE)[2]
                                                    ELSE NoFile,
                           IF opens THEN opened.h ELSE 0)]

(* The agent's ReadLoop: one request, its response. *)
Serve ==
    /\ srv = "run" /\ reqs # <<>> /\ (~conn \/ Len(resps) < LinkCap)
    /\ \E fails \in BOOLEAN :
        LET a == Handle(Head(reqs), fails) IN
        /\ handles' = a.handles /\ next' = a.next
        /\ resps' = IF conn THEN Append(resps, a.resp) ELSE resps
    /\ reqs' = Tail(reqs)
    /\ UNCHANGED <<callers, conn, client, srv>>

(* End of input: the deferred CloseAll. *)
ServeEnds ==
    /\ srv = "run" /\ reqs = <<>> /\ ~conn
    /\ srv' = "done" /\ handles' = {}
    /\ UNCHANGED <<callers, link, client, next>>

-----------------------------------------------------------------------------
Next ==
    \/ \E c \in Callers :
        \/ \E op \in Ops, file \in Files \cup {NoFile} : Call(c, op, file)
        \/ SendReq(c) \/ ReturnCtx(c) \/ ReturnResp(c)
    \/ Deliver \/ LoopEnds \/ FailPending \/ LoopCloses
    \/ CloseCancel \/ CloseSession \/ CloseJoin \/ ParentCancels \/ LinkLost
    \/ Serve \/ ServeEnds

SafeSpec == Init /\ [][Next]_vars

(* Goroutines run, the agent serves, a Close that was begun goes on.        *)
(* Nothing makes anyone call, close, cancel or lose the connection.         *)
Spec ==
    /\ SafeSpec
    /\ \A c \in Callers : WF_vars(SendReq(c) \/ ReturnCtx(c) \/ ReturnResp(c))
    /\ WF_vars(Deliver \/ LoopEnds \/ FailPending \/ LoopCloses)
    /\ WF_vars(CloseSession \/ CloseJoin)
    /\ WF_vars(Serve \/ ServeEnds)

-----------------------------------------------------------------------------
Ids == 1..(IdSpace - 1)
TypeOK ==
    /\ \A c \in Callers :
        /\ caller[c].at \in {"idle", "send", "wait"} /\ caller[c].op \in Ops
        /\ caller[c].at # "idle" => caller[c].id \in Ids
        /\ caller[c].h \in 0..(HandleSpace - 1)
    /\ pending \subseteq Ids \X Callers
    /\ nextReqID \in 0..(IdSpace - 1) /\ next \in 0..(HandleSpace - 1)
    /\ handles \subseteq (1..(HandleSpace - 1)) \X Files
    /\ Len(reqs) <= LinkCap /\ Len(resps) <= LinkCap

Busy == {c \in Callers : caller[c].at # "idle"}

(* "waits for the matching FileOpResp": whatever the number of concurrent   *)
(* callers, the answer a caller finds in its channel is the one to the      *)
(* request it is waiting for, also when the id counter has wrapped.         *)
OwnAnswer ==
    \A c \in Callers : ch[c].full =>
        c \in Busy /\ ch[c].resp.who = c
        /\ ch[c].resp.id = caller[c].id /\ ch[c].resp.op = caller[c].op

(* A read through an open file returns the content of the file that was     *)
(* opened, although handles are numbers shared by all callers.              *)
ReadsOwnFile == \A c \in Callers : saw[c] \in {NoFile, caller[c].file}

(* The table of calls in flight does not grow: each entry is that of a call *)
(* that has not returned.                                                   *)
PendingAccounted ==
    \A e \in pending : e[2] \in Busy /\ caller[e[2]].id = e[1]

(* The agent leaks no descriptor: a file is open in it only while a caller  *)
(* holds the handle or is closing it, while the answer to its open is under *)
(* way, or after the context of the calls was cancelled or the connection   *)
(* lost; then it is closed when the agent ends.                             *)
HandlesAccounted ==
    /\ srv = "done" => handles = {}
    /\ (conn /\ ~ctxDone) => \A e \in handles :
        \/ \E c \in Callers : caller[c].h = e[1]
        \/ \E c \in Busy : ch[c].full /\ ch[c].resp.h = e[1]
        \/ \E i \in 1..Len(resps) : resps[i].h = e[1]

(* "closing the client (which calls cancel) also cancels any in-flight ops" *)
(* and Close itself returns, whatever the agent does.                       *)
CloseReleasesAll ==
    (cl # "open") ~> (cl = "closed" /\ Busy = {})
=============================================================================
