--------------------------- MODULE FileRPCProofs ---------------------------
(***************************************************************************)
(* Proofs about the RPC of file operations: for any number of callers, any *)
(* size of the id space and any start of the counter, every caller gets    *)
(* the answer to its own request, provided fewer calls are made than there *)
(* are ids.  On top of that, with fewer calls than handle numbers, a read  *)
(* returns the file that was opened and the server leaks no open file.     *)
(***************************************************************************)
EXTENDS FileRPC, FiniteSetTheorems, TLAPS

-----------------------------------------------------------------------------
(* Lists *)

(* A list is a function on the numbers up to its length. *)
LEMMA ListIs ==
    ASSUME NEW C, NEW s \in Seq(C)
    PROVE  Len(s) \in Nat /\ DOMAIN s = 1..Len(s) /\ s \in [1..Len(s) -> C]
OBVIOUS

(* The empty one has no elements. *)
LEMMA EmptyList == 1..Len(<<>>) = {}
OBVIOUS

(* One that grows at its end. *)
LEMMA AppendedIs ==
    ASSUME NEW C, NEW s \in Seq(C), NEW c \in C
    PROVE  /\ Append(s, c) \in Seq(C) /\ Append(s, c) # <<>> /\ Len(Append(s, c)) = Len(s) + 1
           /\ Append(s, c)[Len(s) + 1] = c /\ \A k \in 1..Len(s) : Append(s, c)[k] = s[k]
OBVIOUS

(* A part of one. *)
LEMMA PartOfList ==
    ASSUME NEW C, NEW s, NEW m \in Int, NEW n \in Int, \A k \in m..n : s[k] \in C
    PROVE  /\ SubSeq(s, m, n) \in Seq(C) /\ Len(SubSeq(s, m, n)) = IF m <= n THEN n - m + 1 ELSE 0
           /\ \A k \in 1..n - m + 1 : SubSeq(s, m, n)[k] = s[m + k - 1]
OBVIOUS

-----------------------------------------------------------------------------
Requests == [who : Callers, id : Ids, op : Ops, file : Files \cup {NoFile}, h : Nat]
Responses == [who : Callers, id : Ids, op : Ops, err : BOOLEAN,
              file : Files \cup {NoFile}, h : Nat]

(* The ids given out since the start: the counter has moved over them. *)
Used(i) == \/ FirstId < i /\ i <= FirstId + calls
           \/ i <= FirstId + calls - IdSpace + 1

(* The frame f belongs to nobody but the caller that sent it. *)
Owned(f) == /\ Used(f.id)
            /\ \A c \in Callers : (caller[c].at # "idle" /\ caller[c].id = f.id)
                                    => (c = f.who /\ caller[c].op = f.op)

Types ==
    /\ calls \in 0..MaxCalls
    /\ caller \in [Callers -> [at : {"idle", "send", "wait"}, id : Nat, op : Ops,
                               file : Files \cup {NoFile}, h : Nat]]
    /\ pending \subseteq Ids \X Callers
    /\ reqs \in Seq(Requests) /\ resps \in Seq(Responses)
    /\ DOMAIN ch = Callers /\ \A c \in Callers : ch[c].full => ch[c].resp \in Responses
    /\ next \in Nat /\ handles \subseteq Nat \X (Files \cup {NoFile})

Counter ==
    nextReqID = IF FirstId + calls < IdSpace THEN FirstId + calls
                                             ELSE FirstId + calls - IdSpace + 1

CallersApart ==
    /\ \A c \in Callers : caller[c].at # "idle" => caller[c].id \in Ids /\ Used(caller[c].id)
    /\ \A c, d \in Callers : (caller[c].at # "idle" /\ caller[d].at # "idle"
                                /\ caller[c].id = caller[d].id) => c = d

FramesOwned ==
    /\ \A i \in 1..Len(reqs) : Owned(reqs[i])
    /\ \A i \in 1..Len(resps) : Owned(resps[i])

(* The inductive invariant: the ids of calls and frames are distinct because *)
(* they all lie in the window the counter has moved over.                    *)
IInv == Types /\ Counter /\ CallersApart /\ FramesOwned /\ PendingAccounted /\ OwnAnswer

(* The elements of a sequence to which one was appended. *)
LEMMA Appended ==
    ASSUME NEW S, NEW s \in Seq(S), NEW e \in S
    PROVE  /\ Append(s, e) \in Seq(S)
           /\ \A i \in 1..Len(Append(s, e)) :
                Append(s, e)[i] = e \/ (i \in 1..Len(s) /\ Append(s, e)[i] = s[i])
BY AppendedIs

(* What the counter of the ids rests on. *)
LEMMA IdBounds ==
    /\ IdSpace \in Nat /\ MaxCalls \in Nat /\ MaxCalls < IdSpace - 1 /\ 1 < IdSpace
    /\ FirstId \in 0..(IdSpace - 1)
BY FileRPCAssumption, Zenon

(* The next id was not given out before: the counter has not come round. *)
LEMMA Fresh ==
    ASSUME Types, Counter, calls < MaxCalls
    PROVE  /\ FreshId(nextReqID) \in Ids
           /\ ~Used(FreshId(nextReqID))
<1>1. calls \in 0..MaxCalls
  BY Zenon DEF Types
<1> QED
  BY <1>1, IdBounds DEF Counter, FreshId, Ids, Used

(* The server answers a request with the id, the sender and the kind of the *)
(* request.                                                                 *)
LEMMA HandleAnswers ==
    ASSUME NEW r \in Requests, NEW fails \in BOOLEAN
    PROVE  LET a == Handle(r, fails).resp IN a.who = r.who /\ a.id = r.id /\ a.op = r.op
BY Zenon DEF Handle, Response

(* Handle keeps the types of the table of open files and of the answer. *)
LEMMA HandleTypes ==
    ASSUME Types, NEW r \in Requests, NEW fails \in BOOLEAN
    PROVE  LET a == Handle(r, fails)
           IN  /\ a.next \in Nat /\ a.handles \subseteq Nat \X (Files \cup {NoFile})
               /\ a.resp \in Responses
<1>1. /\ put(next, r.file).h \in Nat
      /\ put(next, r.file).handles \subseteq Nat \X (Files \cup {NoFile})
  BY DEF put, Types, Requests
<1>2. take(r.h) \subseteq handles /\ get(r.h) \subseteq handles
  BY Zenon DEF take, get
<1>3. get(r.h) # {} => (CHOOSE e \in get(r.h) : TRUE)[2] \in Files \cup {NoFile}
  BY <1>2, Zenon DEF Types
<1>4. /\ Handle(r, fails).next \in Nat
      /\ Handle(r, fails).handles \subseteq Nat \X (Files \cup {NoFile})
  BY <1>1, <1>2, Zenon DEF Handle, Types
<1>5. Handle(r, fails).resp \in Responses
  BY <1>1, <1>3, Zenon DEF Handle, Response, Responses, Requests
<1> QED
  BY <1>4, <1>5, Zenon

(* The frames in flight are requests and responses with an id. *)
LEMMA FrameTypes ==
    ASSUME Types
    PROVE  /\ \A i \in 1..Len(reqs) : reqs[i] \in Requests /\ reqs[i].id \in Ids
           /\ \A i \in 1..Len(resps) : resps[i] \in Responses /\ resps[i].id \in Ids
<1>1. \A r \in Requests : r.id \in Ids
  BY Zenon DEF Requests
<1>2. \A r \in Responses : r.id \in Ids
  BY Zenon DEF Responses
<1>3. /\ \A i \in 1..Len(reqs) : reqs[i] \in Requests
      /\ \A i \in 1..Len(resps) : resps[i] \in Responses
  BY DEF Types
<1> QED
  BY <1>1, <1>2, <1>3, Zenon

(* An initial state has no call and no frame. *)
LEMMA InitIInv == Init => IInv
BY FileRPCAssumption DEF Init, Idle, NoResp, IInv, Types, Counter, CallersApart, FramesOwned,
   PendingAccounted, OwnAnswer, Ops

(* A new call gets an id that no call and no frame has. *)
LEMMA CallIInv ==
    ASSUME IInv, NEW c \in Callers, NEW op \in Ops, NEW file \in Files \cup {NoFile},
           Call(c, op, file)
    PROVE  IInv'
<1>a. Types /\ Counter /\ calls < MaxCalls
  BY Zenon DEF IInv, Call
<1>b. PICK id \in Ids : id = FreshId(nextReqID) /\ ~Used(id)
  BY <1>a, Fresh, Zenon
<1>c. calls' = calls + 1 /\ nextReqID' = id
  BY <1>b, Zenon DEF Call
<1>d. calls \in 0..MaxCalls
  BY <1>a, Zenon DEF Types
<1>1. Used(id)'
  BY <1>a, <1>b, <1>c, <1>d, IdBounds DEF Counter, FreshId, Used
<1>2. \A i \in Ids : Used(i) => Used(i)' /\ i # id
  BY <1>b, <1>c, <1>d, IdBounds DEF Used, Ids
<1>3. Types'
  <2>1. calls' \in 0..MaxCalls
    BY <1>a, <1>c, <1>d, IdBounds
  <2>2. id \in Nat
    BY <1>b, IdBounds DEF Ids
  <2>3. caller' \in [Callers -> [at : {"idle", "send", "wait"}, id : Nat, op : Ops,
                                 file : Files \cup {NoFile}, h : Nat]]
    BY <1>a, <1>b, <2>2, Zenon DEF Call, Types
  <2>4. pending' \subseteq Ids \X Callers
    BY <1>a, <1>b DEF Call, Types
  <2>5. UNCHANGED <<reqs, resps, handles, next>>
    BY Zenon DEF Call, link, server
  <2>6. DOMAIN ch' = Callers /\ \A d \in Callers : ch'[d].full => ch'[d].resp \in Responses
    BY <1>a, Zenon DEF Call, Types, NoResp
  <2> QED
    BY <1>a, <2>1, <2>3, <2>4, <2>5, <2>6, Zenon DEF Types
<1>4. Counter'
  BY <1>a, <1>b, <1>c, <1>d, IdBounds DEF Counter, FreshId
<1>5. /\ caller'[c].id = id /\ caller'[c].at = "send"
      /\ \A d \in Callers \ {c} : caller'[d] = caller[d]
  BY <1>b, Zenon DEF IInv, Types, Call
<1>6. CallersApart'
  BY <1>1, <1>2, <1>b, <1>5 DEF IInv, CallersApart
<1>7. FramesOwned'
  <2>1. ASSUME NEW f, f.id \in Ids, Owned(f) PROVE Owned(f)'
    BY <2>1, <1>2, <1>5, Zenon DEF Owned
  <2>2. reqs' = reqs /\ resps' = resps
    BY Zenon DEF Call, link
  <2>3. /\ \A i \in 1..Len(reqs) : reqs[i].id \in Ids
        /\ \A i \in 1..Len(resps) : resps[i].id \in Ids
    BY FrameTypes, Zenon DEF IInv
  <2> QED
    BY <2>1, <2>2, <2>3, Zenon DEF IInv, FramesOwned
<1>8. PendingAccounted'
  BY <1>5, <1>b DEF IInv, Types, PendingAccounted, Busy, Call
<1>9. OwnAnswer'
  BY <1>5, Zenon DEF IInv, Types, OwnAnswer, Busy, Call, NoResp
<1> QED
  BY <1>3, <1>4, <1>6, <1>7, <1>8, <1>9, Zenon DEF IInv

(* The end of a call disturbs nobody: its entry goes with it. *)
LEMMA FinishIInv ==
    ASSUME IInv, NEW c \in Callers, NEW h \in Nat, Finish(c, h), caller[c].at # "idle",
           UNCHANGED <<calls, nextReqID, reqs, resps, handles, next>>
    PROVE  IInv'
<1>1. /\ caller'[c].at = "idle"
      /\ \A d \in Callers \ {c} : caller'[d] = caller[d]
  BY Zenon DEF IInv, Types, Finish, Idle
<1>2. Types'
  <2>1. caller' \in [Callers -> [at : {"idle", "send", "wait"}, id : Nat, op : Ops,
                                 file : Files \cup {NoFile}, h : Nat]]
    BY Zenon DEF IInv, Types, Finish, Idle, Ops
  <2>2. pending' \subseteq Ids \X Callers
    BY Zenon DEF IInv, Types, Finish, Forget
  <2>3. DOMAIN ch' = Callers /\ \A d \in Callers : ch'[d].full => ch'[d].resp \in Responses
    BY Zenon DEF IInv, Types, Finish, NoResp
  <2> QED
    BY <2>1, <2>2, <2>3, Zenon DEF IInv, Types
<1>3. \A i : Used(i)' = Used(i)
  BY Zenon DEF Used
<1>4. Counter' /\ CallersApart'
  BY <1>1, <1>3, Zenon DEF IInv, Counter, CallersApart
<1>5. FramesOwned'
  <2>1. ASSUME NEW f, Owned(f) PROVE Owned(f)'
    BY <2>1, <1>1, <1>3, Zenon DEF Owned
  <2> QED
    BY <2>1, Zenon DEF IInv, FramesOwned
<1>6. PendingAccounted'
  <2>1. \A e \in pending' : e \in pending /\ e[2] # c
    BY Zenon DEF IInv, PendingAccounted, Finish, Forget
  <2> QED
    BY <1>1, <2>1 DEF IInv, PendingAccounted, Busy, Types
<1>7. OwnAnswer'
  BY <1>1, Zenon DEF IInv, Types, OwnAnswer, Busy, Finish, NoResp
<1> QED
  BY <1>2, <1>4, <1>5, <1>6, <1>7, Zenon DEF IInv

(* A handle a caller holds is a number. *)
LEMMA KeptHandleNat == ASSUME Types, NEW c \in Callers PROVE KeptHandle(c) \in Nat
BY Zenon DEF Types, KeptHandle

(* A step that leaves the calls alone, and takes frames away or adds frames *)
(* that are owned, keeps the invariant.                                     *)
LEMMA FramesIInv ==
    ASSUME IInv, UNCHANGED <<caller, ch, pending, nextReqID, calls>>,
           next' \in Nat, handles' \subseteq Nat \X (Files \cup {NoFile}),
           reqs' \in Seq(Requests), resps' \in Seq(Responses),
           \A i \in 1..Len(reqs') : Owned(reqs'[i]),
           \A i \in 1..Len(resps') : Owned(resps'[i])
    PROVE  IInv'
<1>1. Types'
  BY Zenon DEF IInv, Types
<1>2. \A i : Used(i)' = Used(i)
  BY Zenon DEF Used
<1>3. Counter' /\ CallersApart' /\ PendingAccounted' /\ OwnAnswer'
  BY <1>2, Zenon DEF IInv, Counter, CallersApart, PendingAccounted, OwnAnswer, Busy
<1>4. ASSUME NEW f, Owned(f) PROVE Owned(f)'
  BY <1>2, <1>4, Zenon DEF Owned
<1>5. FramesOwned'
  BY <1>4, Zenon DEF FramesOwned
<1> QED
  BY <1>1, <1>3, <1>5, Zenon DEF IInv

(* Sending moves the call on; its request is the only frame with its id. *)
LEMMA SendReqIInv == ASSUME IInv, NEW c \in Callers, SendReq(c) PROVE IInv'
<1>1. CASE ~sess
  <2>1. Finish(c, KeptHandle(c)) /\ UNCHANGED <<calls, nextReqID, reqs, resps, handles, next>>
    BY <1>1, Zenon DEF SendReq, server
  <2>2. caller[c].at # "idle"
    BY Zenon DEF SendReq
  <2> QED
    BY <2>1, <2>2, FinishIInv, KeptHandleNat, Zenon DEF IInv
<1>2. CASE sess
  <2> DEFINE f == Request(c, caller[c].id, caller[c].op, caller[c].file, caller[c].h)
  <2>1. /\ caller' = [caller EXCEPT ![c].at = "wait"] /\ caller[c].at = "send"
        /\ UNCHANGED <<calls, nextReqID, resps, pending, ch, handles, next>>
        /\ reqs' = reqs \/ reqs' = Append(reqs, f)
    BY <1>2, Zenon DEF SendReq, server
  <2>2. /\ caller'[c].at = "wait" /\ caller'[c].id = caller[c].id
        /\ caller'[c].op = caller[c].op
        /\ \A d \in Callers \ {c} : caller'[d] = caller[d]
    BY <2>1, Zenon DEF IInv, Types
  <2>3. f \in Requests
    BY <2>1, Zenon DEF IInv, Types, CallersApart, Request, Requests
  <2> HIDE DEF f
  <2>4. Types'
    <3>1. caller' \in [Callers -> [at : {"idle", "send", "wait"}, id : Nat, op : Ops,
                                   file : Files \cup {NoFile}, h : Nat]]
      BY <2>1, Zenon DEF IInv, Types
    <3>2. reqs' \in Seq(Requests)
      <4>1. reqs \in Seq(Requests)
        BY Zenon DEF IInv, Types
      <4> QED
        BY <4>1, <2>1, <2>3, Appended, Zenon
    <3> QED
      BY <2>1, <3>1, <3>2, Zenon DEF IInv, Types
  <2>5. \A i : Used(i)' = Used(i)
    BY <2>1, Zenon DEF Used
  <2>6. Counter' /\ CallersApart'
    BY <2>1, <2>2, <2>5 DEF IInv, Counter, CallersApart
  <2>7. ASSUME NEW g, Owned(g) PROVE Owned(g)'
    BY <2>7, <2>1, <2>2, <2>5, ZenonT(40) DEF Owned
  <2>8. Owned(f)
    BY <2>1, Zenon DEF IInv, CallersApart, Owned, Request, f
  <2>9. FramesOwned'
    <3>1. \A i \in 1..Len(reqs') : Owned(reqs'[i])
      <4>1. reqs \in Seq(Requests) /\ \A i \in 1..Len(reqs) : Owned(reqs[i])
        BY Zenon DEF IInv, Types, FramesOwned
      <4> QED
        BY <4>1, <2>1, <2>3, <2>8, Appended
    <3> QED
      BY <2>1, <2>7, <3>1, Zenon DEF IInv, FramesOwned
  <2>10. PendingAccounted' /\ OwnAnswer'
    BY <2>1, <2>2 DEF IInv, PendingAccounted, OwnAnswer, Busy
  <2> QED
    BY <2>4, <2>6, <2>9, <2>10, Zenon DEF IInv
<1> QED
  BY <1>1, <1>2, Zenon

(* A cancelled call ends and takes its entry along. *)
LEMMA ReturnCtxIInv == ASSUME IInv, NEW c \in Callers, ReturnCtx(c) PROVE IInv'
<1>1. Finish(c, KeptHandle(c)) /\ UNCHANGED <<calls, nextReqID, reqs, resps, handles, next>>
      /\ caller[c].at # "idle"
  BY Zenon DEF ReturnCtx, link, server
<1> QED
  BY <1>1, FinishIInv, KeptHandleNat, Zenon DEF IInv

(* A call that received its response ends with it. *)
LEMMA ReturnRespIInv == ASSUME IInv, NEW c \in Callers, ReturnResp(c) PROVE IInv'
<1>1. PICK h \in Nat : Finish(c, h)
  <2>1. ch[c].full => ch[c].resp.h \in Nat
    BY Zenon DEF IInv, Types, Responses
  <2> QED
    BY <2>1, KeptHandleNat, Zenon DEF IInv, ReturnResp
<1>2. UNCHANGED <<calls, nextReqID, reqs, resps, handles, next>> /\ caller[c].at # "idle"
  BY Zenon DEF ReturnResp, link, server
<1> QED
  BY <1>1, <1>2, FinishIInv, Zenon

(* deliverFileResp hands a response only to the caller whose id it has. *)
LEMMA DeliverIInv == ASSUME IInv, Deliver PROVE IInv'
<1> DEFINE r == Head(resps)
<1>1. /\ resps # <<>> /\ resps' = Tail(resps)
      /\ pending' = {e \in pending : e[1] # r.id}
      /\ ch' = [c \in Callers |-> IF <<r.id, c>> \in pending
                    THEN [full |-> TRUE, closed |-> FALSE, resp |-> r] ELSE ch[c]]
      /\ UNCHANGED <<caller, nextReqID, calls, reqs, handles, next>>
  BY Zenon DEF Deliver, server
<1>2. r \in Responses /\ Owned(r)
  <2>1. r = resps[1] /\ 1 \in 1..Len(resps)
    BY <1>1 DEF IInv, Types
  <2> QED
    BY <2>1, FrameTypes, Zenon DEF IInv, FramesOwned
<1> HIDE DEF r
<1>3. resps' \in Seq(Responses) /\ \A i \in 1..Len(resps') : Owned(resps'[i])
  BY <1>1 DEF IInv, Types, FramesOwned
<1>4. \A i : Used(i)' = Used(i)
  BY <1>1, Zenon DEF Used
<1>5. ASSUME NEW f, Owned(f) PROVE Owned(f)'
  BY <1>5, <1>1, <1>4, Zenon DEF Owned
<1>6. Types'
  <2>1. DOMAIN ch' = Callers /\ \A c \in Callers : ch'[c].full => ch'[c].resp \in Responses
    BY <1>1, <1>2, Zenon DEF IInv, Types
  <2> QED
    BY <1>1, <1>3, <2>1, Zenon DEF IInv, Types
<1>7. Counter' /\ CallersApart'
  BY <1>1, <1>4, Zenon DEF IInv, Counter, CallersApart
<1>8. FramesOwned'
  BY <1>1, <1>3, <1>5, Zenon DEF IInv, FramesOwned
<1>9. PendingAccounted'
  BY <1>1, Zenon DEF IInv, PendingAccounted, Busy
<1>10. OwnAnswer'
  <2> SUFFICES ASSUME NEW c \in Callers, ch'[c].full
               PROVE  /\ caller[c].at # "idle" /\ ch'[c].resp.who = c
                      /\ ch'[c].resp.id = caller[c].id /\ ch'[c].resp.op = caller[c].op
    BY <1>1, Zenon DEF OwnAnswer, Busy
  <2>1. CASE <<r.id, c>> \in pending
    <3>1. ch'[c].resp = r
      BY <1>1, <2>1, Zenon
    <3>2. caller[c].at # "idle" /\ caller[c].id = r.id
      BY <2>1, Zenon DEF IInv, PendingAccounted, Busy
    <3> QED
      BY <3>1, <3>2, <1>2, Zenon DEF Owned
  <2>2. CASE <<r.id, c>> \notin pending
    BY <1>1, <2>2, Zenon DEF IInv, OwnAnswer, Busy
  <2> QED
    BY <2>1, <2>2, Zenon
<1> QED
  BY <1>6, <1>7, <1>8, <1>9, <1>10, Zenon DEF IInv

(* failPending empties the table and wakes every registered call. *)
LEMMA FailPendingIInv == ASSUME IInv, FailPending PROVE IInv'
<1>1. /\ pending' = {} /\ UNCHANGED <<caller, nextReqID, calls, reqs, resps, handles, next>>
      /\ ch' = [c \in Callers |-> IF \E e \in pending : e[2] = c
                    THEN [full |-> FALSE, closed |-> TRUE] ELSE ch[c]]
  BY Zenon DEF FailPending, link, server
<1>2. \A i : Used(i)' = Used(i)
  BY <1>1, Zenon DEF Used
<1>3. Types' /\ Counter' /\ CallersApart' /\ PendingAccounted'
  BY <1>1, <1>2, Zenon DEF IInv, Types, Counter, CallersApart, PendingAccounted
<1>4. ASSUME NEW f, Owned(f) PROVE Owned(f)'
  BY <1>4, <1>1, <1>2, Zenon DEF Owned
<1>5. FramesOwned'
  BY <1>1, <1>4, Zenon DEF IInv, FramesOwned
<1>6. OwnAnswer'
  BY <1>1, Zenon DEF IInv, OwnAnswer, Busy
<1> QED
  BY <1>3, <1>5, <1>6, Zenon DEF IInv

(* What is cut off was not owned by more callers than before. *)
LEMMA LinkLostIInv == ASSUME IInv, LinkLost PROVE IInv'
<1>1. PICK n \in 0..Len(reqs), m \in 0..Len(resps) :
        reqs' = SubSeq(reqs, 1, n) /\ resps' = SubSeq(resps, 1, m)
  BY Zenon DEF LinkLost
<1>2. /\ UNCHANGED <<caller, ch, pending, nextReqID, calls>>
      /\ next' \in Nat /\ handles' \subseteq Nat \X (Files \cup {NoFile})
  BY Zenon DEF LinkLost, callers, server, IInv, Types
<1>3. /\ reqs' \in Seq(Requests) /\ Len(reqs') = n
      /\ \A i \in 1..n : reqs'[i] = reqs[i]
  BY <1>1, PartOfList DEF IInv, Types
<1>4. /\ resps' \in Seq(Responses) /\ Len(resps') = m
      /\ \A i \in 1..m : resps'[i] = resps[i]
  BY <1>1, PartOfList DEF IInv, Types
<1>5. /\ \A i \in 1..Len(reqs') : Owned(reqs'[i])
      /\ \A i \in 1..Len(resps') : Owned(resps'[i])
  <2>1. \A i \in 1..n : i \in 1..Len(reqs)
    BY DEF IInv, Types
  <2>2. \A i \in 1..m : i \in 1..Len(resps)
    BY DEF IInv, Types
  <2> QED
    BY <1>3, <1>4, <2>1, <2>2, Zenon DEF IInv, FramesOwned
<1> QED
  BY <1>2, <1>3, <1>4, <1>5, FramesIInv, Zenon

(* The response goes to the owner of the request. *)
LEMMA ServeIInv == ASSUME IInv, Serve PROVE IInv'
<1> DEFINE r == Head(reqs)
<1>1. PICK fails \in BOOLEAN :
        /\ handles' = Handle(r, fails).handles /\ next' = Handle(r, fails).next
        /\ resps' = IF conn THEN Append(resps, Handle(r, fails).resp) ELSE resps
  BY Zenon DEF Serve
<1>2. /\ reqs # <<>> /\ reqs' = Tail(reqs)
      /\ UNCHANGED <<caller, ch, pending, nextReqID, calls>>
  BY Zenon DEF Serve, callers
<1>3. r \in Requests /\ Owned(r)
  <2>1. r = reqs[1] /\ 1 \in 1..Len(reqs)
    BY <1>2 DEF IInv, Types
  <2> QED
    BY <2>1, FrameTypes, Zenon DEF IInv, FramesOwned
<1> HIDE DEF r
<1> DEFINE a == Handle(r, fails).resp
<1>4. /\ a \in Responses /\ Owned(a)
      /\ next' \in Nat /\ handles' \subseteq Nat \X (Files \cup {NoFile})
  BY <1>1, <1>3, HandleTypes, HandleAnswers DEF IInv, Owned
<1>5. resps' = resps \/ resps' = Append(resps, a)
  BY <1>1, Zenon
<1> HIDE DEF a
<1>6. resps' \in Seq(Responses) /\ \A i \in 1..Len(resps') : Owned(resps'[i])
  <2>1. resps \in Seq(Responses) /\ \A i \in 1..Len(resps) : Owned(resps[i])
    BY Zenon DEF IInv, Types, FramesOwned
  <2> QED
    BY <2>1, <1>4, <1>5, Appended
<1>7. reqs' \in Seq(Requests) /\ \A i \in 1..Len(reqs') : Owned(reqs'[i])
  BY <1>2 DEF IInv, Types, FramesOwned
<1> QED
  BY <1>2, <1>4, <1>6, <1>7, FramesIInv, Zenon

(* The other steps touch neither calls nor frames. *)
LEMMA RestIInv ==
    ASSUME IInv, \/ LoopEnds \/ LoopCloses \/ CloseCancel \/ CloseSession \/ CloseJoin
                 \/ ParentCancels \/ ServeEnds \/ UNCHANGED vars
    PROVE  IInv'
<1>1. /\ UNCHANGED <<caller, ch, pending, nextReqID, calls, reqs, resps, next>>
      /\ handles' \in {handles, {}}
  BY Zenon DEF LoopEnds, LoopCloses, CloseCancel, CloseSession, CloseJoin, ParentCancels, ServeEnds,
     vars, callers, link, client, server
<1> QED
  BY <1>1, FramesIInv, Zenon DEF IInv, Types, FramesOwned

(* Every step keeps the inductive invariant. *)
LEMMA NextIInv == IInv /\ [Next]_vars => IInv'
<1> SUFFICES ASSUME IInv, [Next]_vars PROVE IInv'
  BY Zenon
<1>1. CASE \E c \in Callers, op \in Ops, file \in Files \cup {NoFile} : Call(c, op, file)
  BY <1>1, CallIInv, Zenon
<1>2. CASE \E c \in Callers : SendReq(c) \/ ReturnCtx(c) \/ ReturnResp(c)
  BY <1>2, SendReqIInv, ReturnCtxIInv, ReturnRespIInv, Zenon
<1>3. CASE Deliver \/ FailPending \/ LinkLost \/ Serve
  BY <1>3, DeliverIInv, FailPendingIInv, LinkLostIInv, ServeIInv, Zenon
<1>4. CASE \/ LoopEnds \/ LoopCloses \/ CloseCancel \/ CloseSession \/ CloseJoin
           \/ ParentCancels \/ ServeEnds \/ UNCHANGED vars
  BY <1>4, RestIInv, Zenon
<1> QED
  BY <1>1, <1>2, <1>3, <1>4, Zenon DEF Next

(* Every reachable state satisfies the inductive invariant. *)
THEOREM IInvariance == SafeSpec => []IInv
BY InitIInv, NextIInv, PTL DEF SafeSpec

(* FileOp returns to each of any number of concurrent callers the answer to *)
(* its own request, also when the counter of ids wraps.                     *)
THEOREM AnswersMatch == SafeSpec => []OwnAnswer
<1>1. IInv => OwnAnswer
  BY Zenon DEF IInv
<1> QED
  BY <1>1, IInvariance, PTL

(* The table of calls in flight holds calls in flight only: the deferred    *)
(* delete, deliverFileResp and failPending together empty it.               *)
THEOREM NoStaleEntry == SafeSpec => []PendingAccounted
<1>1. IInv => PendingAccounted
  BY Zenon DEF IInv
<1> QED
  BY <1>1, IInvariance, PTL

-----------------------------------------------------------------------------
(* The handles of the server.  A number that put gives out is new, because  *)
(* the counter has moved over all those that anybody still knows; every     *)
(* frame is the only one of its call; and as long as the client lives, the  *)
(* answer to an open reaches the caller that asked for it.                  *)

Elems(s) == {s[k] : k \in 1..Len(s)}
Asked == Elems(reqs)
Coming == Elems(resps)
Answers == Coming \cup {ch[c].resp : c \in {d \in Callers : ch[d].full}}

(* The call of the frame f has not returned. *)
Current(f) == caller[f.who].at # "idle" /\ caller[f.who].id = f.id

Senders == {c \in Callers : caller[c].at = "send"}

(* How far the counter of handles has moved, and the numbers it gave out. *)
Opened == IF next >= FirstHandle THEN next - FirstHandle
          ELSE next + (HandleSpace - 1) - FirstHandle
Given(h) == /\ 1 <= h /\ h < HandleSpace
            /\ IF next >= FirstHandle THEN FirstHandle < h /\ h <= next
               ELSE FirstHandle < h \/ h <= next

(* There are no more opens than calls that have been served. *)
Counted ==
    /\ next \in 0..(HandleSpace - 1)
    /\ IsFiniteSet(Senders) /\ Opened + Cardinality(Senders) + Len(reqs) <= calls
    /\ \A e \in handles : Given(e[1])

(* What a caller holds is its own file. *)
Held ==
    /\ DOMAIN saw = Callers
    /\ \A c \in Callers :
          /\ caller[c].at # "idle" =>
                /\ saw[c] = NoFile
                /\ caller[c].op \in {"read", "close"} => caller[c].h # 0
                /\ caller[c].op = "open" => caller[c].h = 0
          /\ caller[c].h # 0 =>
                /\ Given(caller[c].h)
                /\ \A e \in handles : e[1] = caller[c].h => e[2] = caller[c].file

RightRequest(r) ==
    Current(r) => r.h = caller[r.who].h /\ r.file = caller[r.who].file

RightAnswer(a) ==
    /\ a.h # 0 => Given(a.h) /\ a.op = "open"
    /\ Current(a) =>
          /\ a.h # 0 => \A e \in handles : e[1] = a.h => e[2] = caller[a.who].file
          /\ a.file \in {NoFile, caller[a.who].file}
          /\ a.op = "close" => \A e \in handles : e[1] # caller[a.who].h

FramesRight ==
    /\ \A r \in Asked : RightRequest(r)
    /\ \A a \in Answers : RightAnswer(a)

OneFrame ==
    /\ \A k, l \in 1..Len(reqs) : reqs[k].id = reqs[l].id => k = l
    /\ \A k, l \in 1..Len(resps) : resps[k].id = resps[l].id => k = l
    /\ \A r \in Asked, a \in Coming : r.id # a.id
    /\ \A c \in Senders, f \in Asked \cup Coming : f.id # caller[c].id

(* While the client lives, whatever is on its way is waited for. *)
Awaited ==
    /\ conn => sess
    /\ rl # "run" => ~conn \/ ctxDone
    /\ \A c \in Callers : /\ ch[c].closed => rl # "run"
                          /\ ch[c].full => \A e \in pending : e[2] # c
    /\ conn /\ ~ctxDone =>
          /\ \A f \in Asked \cup Coming : <<f.id, f.who>> \in pending
          /\ \A c \in Senders : <<caller[c].id, c>> \in pending

(* The inductive invariant of the handles, relative to IInv. *)
HInv == /\ Counted /\ Held /\ FramesRight /\ OneFrame /\ Awaited
        /\ ReadsOwnFile /\ HandlesAccounted

(* What the counter of the handles rests on. *)
LEMMA HandleBounds ==
    /\ HandleSpace \in Nat /\ MaxCalls \in Nat /\ MaxCalls < HandleSpace - 1
    /\ 1 < HandleSpace /\ FirstHandle \in 0..(HandleSpace - 1)
BY FileRPCAssumption, Zenon

(* The elements of a queue, when one is added at its end or taken from its  *)
(* front.                                                                   *)
LEMMA ElemsAppend ==
    ASSUME NEW S, NEW s \in Seq(S), NEW e \in S
    PROVE  Elems(Append(s, e)) = Elems(s) \cup {e}
<1>1. /\ Len(Append(s, e)) = Len(s) + 1 /\ Append(s, e)[Len(s) + 1] = e
      /\ \A k \in 1..Len(s) : Append(s, e)[k] = s[k]
      /\ Len(s) \in Nat
  BY AppendedIs, ListIs
<1> DEFINE t == Append(s, e)
<1> HIDE DEF t
<1>2. 1..(Len(s) + 1) = (1..Len(s)) \cup {Len(s) + 1}
  BY <1>1
<1> QED
  BY <1>1, <1>2, Zenon DEF Elems, t

(* The elements that are left when the first is taken. *)
LEMMA ElemsTail ==
    ASSUME NEW S, NEW s \in Seq(S), s # <<>>
    PROVE  /\ Head(s) \in Elems(s) /\ Elems(Tail(s)) \subseteq Elems(s)
           /\ Elems(s) = Elems(Tail(s)) \cup {Head(s)}
           /\ Tail(s) \in Seq(S) /\ Len(Tail(s)) = Len(s) - 1
           /\ \A k \in 1..Len(Tail(s)) : Tail(s)[k] = s[k + 1]
           /\ Head(s) = s[1] /\ 1 <= Len(s)
<1>1. /\ Len(s) \in Nat \ {0} /\ Len(Tail(s)) = Len(s) - 1 /\ Head(s) = s[1]
      /\ \A k \in 1..(Len(s) - 1) : Tail(s)[k] = s[k + 1]
      /\ Tail(s) \in Seq(S)
  OBVIOUS
<1>2. \A k \in 1..Len(s) : k = 1 \/ (k - 1 \in 1..(Len(s) - 1) /\ s[k] = Tail(s)[k - 1])
  BY <1>1
<1>3. \A x \in Elems(Tail(s)) : x \in Elems(s)
  BY <1>1 DEF Elems
<1>4. \A x \in Elems(s) : x = Head(s) \/ x \in Elems(Tail(s))
  <2> TAKE x \in Elems(s)
  <2>1. PICK k \in 1..Len(s) : x = s[k]
    BY Zenon DEF Elems
  <2>2. CASE k = 1
    BY <1>1, <2>1, <2>2, Zenon
  <2>3. CASE k # 1
    <3>1. k - 1 \in 1..Len(Tail(s)) /\ x = Tail(s)[k - 1]
      BY <1>1, <1>2, <2>1, <2>3, Zenon
    <3> QED
      BY <3>1, Zenon DEF Elems
  <2> QED
    BY <2>2, <2>3, Zenon
<1>5. Head(s) \in Elems(s)
  BY <1>1 DEF Elems
<1> QED
  BY <1>1, <1>3, <1>4, <1>5

(* Requests and answers under way have the types of frames and one owner;   *)
(* the kind of operation is that of the call.                               *)
LEMMA FrameFacts ==
    ASSUME IInv
    PROVE  /\ \A f \in Asked : f \in Requests
           /\ \A f \in Answers : f \in Responses
           /\ \A f \in Asked \cup Answers :
                /\ f.who \in Callers /\ f.id \in Ids /\ Owned(f)
                /\ Current(f) => caller[f.who].op = f.op
<1>1. \A f \in Asked : f \in Requests /\ Owned(f)
  BY FrameTypes, Zenon DEF IInv, Asked, Elems, FramesOwned
<1>2. \A f \in Coming : f \in Responses /\ Owned(f)
  BY FrameTypes, Zenon DEF IInv, Coming, Elems, FramesOwned
<1>3. ASSUME NEW c \in Callers, ch[c].full PROVE ch[c].resp \in Responses /\ Owned(ch[c].resp)
  <2>1. ch[c].resp \in Responses
    BY <1>3, Zenon DEF IInv, Types
  <2>2. /\ caller[c].at # "idle" /\ ch[c].resp.who = c
        /\ ch[c].resp.id = caller[c].id /\ ch[c].resp.op = caller[c].op
    BY <1>3, Zenon DEF IInv, OwnAnswer, Busy
  <2> QED
    BY <2>1, <2>2, Zenon DEF IInv, CallersApart, Owned
<1>4. \A f \in Answers : f \in Responses /\ Owned(f)
  BY <1>2, <1>3, Zenon DEF Answers
<1>5. \A f \in Requests : f.who \in Callers /\ f.id \in Ids
  BY Zenon DEF Requests
<1>6. \A f \in Responses : f.who \in Callers /\ f.id \in Ids
  BY Zenon DEF Responses
<1>7. \A f : f.who \in Callers /\ Owned(f) => (Current(f) => caller[f.who].op = f.op)
  BY Zenon DEF Owned, Current
<1> QED
  BY <1>1, <1>4, <1>5, <1>6, <1>7, Zenon

(* A step of the callers that adds no frame, and makes no frame belong to a *)
(* call, leaves the frames right.                                           *)
LEMMA FramesStayRight ==
    ASSUME FramesRight, Asked' \subseteq Asked, Answers' \subseteq Answers,
           UNCHANGED <<handles, next>>,
           \A f \in Asked \cup Answers :
               Current(f)' => Current(f) /\ caller'[f.who] = caller[f.who]
    PROVE  FramesRight'
<1>1. \A h : Given(h)' = Given(h)
  BY Zenon DEF Given
<1>2. ASSUME NEW r \in Asked PROVE RightRequest(r)'
  BY <1>2, Zenon DEF FramesRight, RightRequest
<1>3. ASSUME NEW a \in Answers PROVE RightAnswer(a)'
  BY <1>1, <1>3, Zenon DEF FramesRight, RightAnswer
<1> QED
  BY <1>2, <1>3, Zenon DEF FramesRight

(* A new call: its id is on no frame, and it keeps the handle it has. *)
LEMMA CallHInv ==
    ASSUME IInv, HInv, NEW c \in Callers, NEW op \in Ops, NEW file \in Files \cup {NoFile},
           Call(c, op, file)
    PROVE  HInv'
<1>a. Types /\ Counter /\ calls < MaxCalls
  BY Zenon DEF IInv, Call
<1>b. PICK id \in Ids : id = FreshId(nextReqID) /\ ~Used(id)
  BY <1>a, Fresh, Zenon
<1>c. /\ caller[c].at = "idle" /\ calls' = calls + 1
      /\ pending' = {e \in pending : e[1] # id} \cup {<<id, c>>}
      /\ caller' = [caller EXCEPT ![c] =
                      [at |-> "send", id |-> id, op |-> op, h |-> @.h,
                       file |-> IF op = "stat" THEN @.file ELSE file]]
      /\ ch' = [ch EXCEPT ![c] = NoResp] /\ saw' = [saw EXCEPT ![c] = NoFile]
      /\ UNCHANGED <<reqs, resps, conn, sess, rl, ctxDone, handles, next, srv>>
  BY <1>b, Zenon DEF Call, link, client, server
<1>d. /\ op \in {"read", "close"} => caller[c].h # 0 /\ file = caller[c].file
      /\ op = "open" => caller[c].h = 0
  BY Zenon DEF Call
<1>e. /\ caller'[c].at = "send" /\ caller'[c].id = id /\ caller'[c].op = op
      /\ caller'[c].h = caller[c].h
      /\ caller'[c].file = IF op = "stat" THEN caller[c].file ELSE file
      /\ \A d \in Callers \ {c} : caller'[d] = caller[d]
  BY <1>a, <1>c, Zenon DEF Types
<1>f. /\ ~ch'[c].full /\ ~ch'[c].closed /\ \A d \in Callers \ {c} : ch'[d] = ch[d]
      /\ ~ch[c].full
  BY <1>a, <1>c, Zenon DEF Types, NoResp, IInv, OwnAnswer, Busy
<1>g. /\ Asked' = Asked /\ Coming' = Coming /\ Answers' \subseteq Answers
  BY <1>c, <1>f, Zenon DEF Asked, Coming, Answers, Elems
<1>h. \A f \in Asked \cup Answers : f.who \in Callers /\ f.id # id
  BY <1>b, FrameFacts, Zenon DEF Owned
<1>i. Senders' = Senders \cup {c} /\ c \notin Senders
  BY <1>c, <1>e, Zenon DEF Senders
<1>j. \A h : Given(h)' = Given(h)
  BY <1>c, Zenon DEF Given
<1>1. Counted'
  <2>1. IsFiniteSet(Senders') /\ Cardinality(Senders') = Cardinality(Senders) + 1
    BY <1>i, FS_AddElement, Zenon DEF HInv, Counted
  <2>2. Cardinality(Senders) \in Nat
    BY FS_CardinalityType, Zenon DEF HInv, Counted
  <2>3. Opened' = Opened /\ Len(reqs') = Len(reqs)
    BY <1>c, Zenon DEF Opened
  <2>4. Opened \in Int /\ Len(reqs) \in Nat /\ calls \in Nat
    BY <1>a, HandleBounds DEF HInv, Counted, Opened, Types
  <2> QED
    BY <1>c, <1>j, <2>1, <2>2, <2>3, <2>4 DEF HInv, Counted
<1>2. Held'
  <2>1. DOMAIN saw' = Callers /\ saw'[c] = NoFile /\ \A d \in Callers \ {c} : saw'[d] = saw[d]
    BY <1>c, Zenon DEF HInv, Held
  <2>2. op \in {"open", "read", "close", "stat"}
    BY Zenon DEF Ops
  <2>3. caller'[c].h # 0 => caller'[c].file = caller[c].file
    BY <1>d, <1>e, <2>2, Zenon
  <2> QED
    BY <1>c, <1>d, <1>e, <1>j, <2>1, <2>3 DEF HInv, Held
<1>3. FramesRight'
  <2>1. \A f \in Asked \cup Answers :
            Current(f)' => Current(f) /\ caller'[f.who] = caller[f.who]
    BY <1>e, <1>h, Zenon DEF Current
  <2> QED
    BY <1>c, <1>g, <2>1, FramesStayRight, Zenon DEF HInv
<1>4. OneFrame'
  <2>1. \A d \in Senders', f \in Asked \cup Coming : f.id # caller'[d].id
    BY <1>e, <1>h, <1>i DEF HInv, OneFrame, Answers, Senders
  <2> QED
    BY <1>c, <1>g, <2>1, Zenon DEF HInv, OneFrame
<1>5. Awaited'
  <2>1. \A d \in Callers : ch'[d].full => \A e \in pending' : e[2] # d
    BY <1>c, <1>f DEF HInv, Awaited
  <2>2. conn /\ ~ctxDone => \A f \in Asked \cup Coming : <<f.id, f.who>> \in pending'
    BY <1>c, <1>h, Zenon DEF HInv, Awaited, Answers
  <2>3. \A d \in Senders : caller[d].id # id
    BY <1>b, Zenon DEF IInv, CallersApart, Senders
  <2>4. conn /\ ~ctxDone => \A d \in Senders' : <<caller'[d].id, d>> \in pending'
    BY <1>c, <1>e, <1>i, <2>3 DEF HInv, Awaited, Senders
  <2> QED
    BY <1>c, <1>f, <1>g, <2>1, <2>2, <2>4, Zenon DEF HInv, Awaited
<1>6. ReadsOwnFile'
  BY <1>c, <1>e, Zenon DEF HInv, ReadsOwnFile, Held
<1>7. HandlesAccounted'
  <2>1. \A d \in Callers : caller'[d].h = caller[d].h
    BY <1>e, Zenon
  <2>2. \A d \in Busy : ch[d].full => d \in Busy' /\ ch'[d] = ch[d]
    BY <1>e, <1>f, Zenon DEF Busy
  <2> QED
    BY <1>c, <2>1, <2>2 DEF HInv, HandlesAccounted
<1> QED
  BY <1>1, <1>2, <1>3, <1>4, <1>5, <1>6, <1>7, Zenon DEF HInv

(* The end of a call, with the handle h to hold from now on: a file the     *)
(* caller held, or found in its answer, is the one it holds then.           *)
LEMMA FinishHInv ==
    ASSUME IInv, HInv, NEW c \in Callers, NEW h \in Nat, Finish(c, h), caller[c].at # "idle",
           UNCHANGED <<calls, reqs, resps, conn, sess, rl, ctxDone, handles, next, srv>>,
           DOMAIN saw' = Callers, \A d \in Callers \ {c} : saw'[d] = saw[d],
           saw'[c] \in {NoFile, caller'[c].file},
           h # 0 => Given(h) /\ \A e \in handles : e[1] = h => e[2] = caller[c].file,
           conn /\ ~ctxDone =>
               /\ ch[c].full
               /\ \A e \in handles : e[1] \in {caller[c].h, ch[c].resp.h} => e[1] = h
    PROVE  HInv'
<1>a. /\ caller'[c].at = "idle" /\ caller'[c].h = h
      /\ caller'[c].file = IF h = 0 THEN NoFile ELSE caller[c].file
      /\ \A d \in Callers \ {c} : caller'[d] = caller[d]
  BY Zenon DEF IInv, Types, Finish, Idle
<1>b. ~ch'[c].full /\ ~ch'[c].closed /\ \A d \in Callers \ {c} : ch'[d] = ch[d]
  BY Zenon DEF IInv, Types, Finish, NoResp
<1>c. pending' = {e \in pending : e[1] # caller[c].id}
  BY Zenon DEF Finish, Forget
<1>d. Asked' = Asked /\ Coming' = Coming /\ Answers' \subseteq Answers
  BY <1>b DEF Asked, Coming, Answers, Elems
<1>e. Senders' = Senders \ {c}
  BY <1>a DEF Senders
<1>f. \A n : Given(n)' = Given(n)
  BY Zenon DEF Given
<1>1. Counted'
  <2>1. /\ IsFiniteSet(Senders')
        /\ Cardinality(Senders') \in Nat /\ Cardinality(Senders) \in Nat
        /\ Cardinality(Senders') <= Cardinality(Senders)
    <3>1. IsFiniteSet(Senders)
      BY Zenon DEF HInv, Counted
    <3>2. /\ IsFiniteSet(Senders \ {c})
          /\ Cardinality(Senders \ {c}) = IF c \in Senders THEN Cardinality(Senders) - 1
                                          ELSE Cardinality(Senders)
      BY <3>1, FS_RemoveElement, Zenon
    <3>3. Cardinality(Senders) \in Nat /\ Cardinality(Senders \ {c}) \in Nat
      BY <3>1, <3>2, FS_CardinalityType, Zenon
    <3> QED
      BY <1>e, <3>2, <3>3
  <2>2. Opened' = Opened
    BY Zenon DEF Opened
  <2>3. Opened \in Int /\ Len(reqs) \in Nat /\ calls \in Nat
    BY HandleBounds DEF IInv, HInv, Counted, Opened, Types
  <2> QED
    BY <1>f, <2>1, <2>2, <2>3 DEF HInv, Counted
<1>2. Held'
  BY <1>a, <1>f DEF HInv, Held
<1>3. FramesRight'
  <2>1. \A f \in Asked \cup Answers :
            Current(f)' => Current(f) /\ caller'[f.who] = caller[f.who]
    BY <1>a, FrameFacts, Zenon DEF Current
  <2> QED
    BY <1>d, <2>1, FramesStayRight, Zenon DEF HInv
<1>4. OneFrame'
  BY <1>a, <1>d, <1>e DEF HInv, OneFrame, Senders
<1>5. Awaited'
  <2>1. ASSUME conn, ~ctxDone, NEW f \in Asked \cup Coming PROVE <<f.id, f.who>> \in pending'
    <3>1. <<f.id, f.who>> \in pending /\ ch[c].full
      BY <2>1, Zenon DEF HInv, Awaited
    <3>2. f.who # c
      BY <3>1, Zenon DEF HInv, Awaited
    <3>3. f.id # caller[c].id
      BY <3>2, FrameFacts, Zenon DEF Owned, Answers
    <3> QED
      BY <1>c, <3>1, <3>3, Zenon
  <2>2. ASSUME conn, ~ctxDone, NEW d \in Senders' PROVE <<caller'[d].id, d>> \in pending'
    <3>1. d \in Senders /\ d # c /\ caller'[d] = caller[d]
      BY <1>a, <1>e, Zenon DEF Senders
    <3>2. caller[d].id # caller[c].id
      BY <3>1, Zenon DEF IInv, CallersApart, Senders
    <3> QED
      BY <1>c, <2>2, <3>1, <3>2, Zenon DEF HInv, Awaited
  <2>3. \A d \in Callers : /\ ch'[d].closed => rl # "run"
                           /\ ch'[d].full => \A e \in pending' : e[2] # d
    BY <1>b, <1>c, Zenon DEF HInv, Awaited
  <2> QED
    BY <1>d, <2>1, <2>2, <2>3, Zenon DEF HInv, Awaited
<1>6. ReadsOwnFile'
  BY <1>a, Zenon DEF HInv, ReadsOwnFile
<1>7. HandlesAccounted'
  <2> SUFFICES ASSUME conn, ~ctxDone, NEW e \in handles
               PROVE  \/ \E d \in Callers : caller'[d].h = e[1]
                      \/ \E d \in Busy' : ch'[d].full /\ ch'[d].resp.h = e[1]
                      \/ \E k \in 1..Len(resps) : resps[k].h = e[1]
    BY Zenon DEF HInv, HandlesAccounted
  <2>1. \/ \E d \in Callers : caller[d].h = e[1]
        \/ \E d \in Busy : ch[d].full /\ ch[d].resp.h = e[1]
        \/ \E k \in 1..Len(resps) : resps[k].h = e[1]
    BY Zenon DEF HInv, HandlesAccounted
  <2>2. CASE e[1] \in {caller[c].h, ch[c].resp.h}
    BY <1>a, <2>2, Zenon
  <2>3. CASE e[1] \notin {caller[c].h, ch[c].resp.h}
    BY <1>a, <1>b, <2>1, <2>3 DEF Busy
  <2> QED
    BY <2>2, <2>3, Zenon
<1> QED
  BY <1>1, <1>2, <1>3, <1>4, <1>5, <1>6, <1>7, Zenon DEF HInv

(* The handle that is kept is the one held. *)
LEMMA KeptHandleHeld ==
    ASSUME IInv, HInv, NEW c \in Callers
    PROVE  LET h == KeptHandle(c)
           IN  h # 0 => Given(h) /\ \A e \in handles : e[1] = h => e[2] = caller[c].file
BY Zenon DEF HInv, Held, KeptHandle

(* A cancelled call gives its answer up, but so does the client. *)
LEMMA ReturnCtxHInv == ASSUME IInv, HInv, NEW c \in Callers, ReturnCtx(c) PROVE HInv'
<1>1. /\ Finish(c, KeptHandle(c)) /\ caller[c].at # "idle" /\ ctxDone /\ saw' = saw
      /\ UNCHANGED <<calls, reqs, resps, conn, sess, rl, ctxDone, handles, next, srv>>
  BY Zenon DEF ReturnCtx, link, client, server
<1>2. DOMAIN saw = Callers /\ saw[c] = NoFile
  BY <1>1, Zenon DEF HInv, Held
<1>3. KeptHandle(c) \in Nat
  BY KeptHandleNat, Zenon DEF IInv
<1> QED
  BY <1>1, <1>2, <1>3, KeptHandleHeld, FinishHInv, Zenon

(* A call that has its answer: an open takes the handle out of it, a close  *)
(* knows that the file is no longer open.                                   *)
LEMMA ReturnRespHInv == ASSUME IInv, HInv, NEW c \in Callers, ReturnResp(c) PROVE HInv'
<1> DEFINE a == ch[c].resp
           h == IF ch[c].full /\ caller[c].op = "open" THEN a.h ELSE KeptHandle(c)
<1>1. /\ Finish(c, h) /\ caller[c].at # "idle" /\ (ch[c].full \/ ch[c].closed)
      /\ saw' = [saw EXCEPT ![c] = IF ch[c].full /\ caller[c].op = "read" /\ ~a.err
                                     THEN a.file ELSE NoFile]
      /\ UNCHANGED <<calls, reqs, resps, conn, sess, rl, ctxDone, handles, next, srv>>
  BY Zenon DEF ReturnResp, link, client, server
<1>2. ch[c].full => a \in Answers /\ a.who = c /\ Current(a) /\ a.op = caller[c].op
  BY Zenon DEF Answers, IInv, OwnAnswer, Busy, Current
<1>3. ch[c].full => RightAnswer(a) /\ a \in Responses
  BY <1>2, FrameFacts, Zenon DEF HInv, FramesRight
<1>4. h \in Nat
  <2>1. KeptHandle(c) \in Nat
    BY KeptHandleNat, Zenon DEF IInv
  <2> QED
    BY <1>3, <2>1, Zenon DEF Responses
<1>5. h # 0 => Given(h) /\ \A e \in handles : e[1] = h => e[2] = caller[c].file
  BY <1>2, <1>3, KeptHandleHeld, Zenon DEF RightAnswer
<1>6. conn /\ ~ctxDone => ch[c].full
  BY <1>1, Zenon DEF HInv, Awaited
<1>7. ch[c].full => \A e \in handles : e[1] \in {caller[c].h, a.h} => e[1] = h
  <2> SUFFICES ASSUME ch[c].full, NEW e \in handles, e[1] \in {caller[c].h, a.h} PROVE e[1] = h
    BY Zenon
  <2>1. e[1] # 0
    BY HandleBounds DEF HInv, Counted, Given
  <2>2. CASE caller[c].op = "open"
    BY <1>1, <2>1, <2>2, Zenon DEF HInv, Held
  <2>3. CASE caller[c].op # "open"
    BY <1>2, <1>3, <2>1, <2>3, Zenon DEF RightAnswer, KeptHandle
  <2> QED
    BY <2>2, <2>3, Zenon
<1>8. /\ DOMAIN saw' = Callers /\ \A d \in Callers \ {c} : saw'[d] = saw[d]
      /\ saw'[c] = IF ch[c].full /\ caller[c].op = "read" /\ ~a.err THEN a.file ELSE NoFile
  BY <1>1, Zenon DEF HInv, Held
<1>9. saw'[c] \in {NoFile, caller'[c].file}
  <2>1. caller'[c].file = IF h = 0 THEN NoFile ELSE caller[c].file
    BY <1>1, Zenon DEF IInv, Types, Finish, Idle
  <2>2. caller[c].op = "read" => h # 0
    BY <1>1, Zenon DEF HInv, Held, KeptHandle
  <2>3. ch[c].full => a.file \in {NoFile, caller[c].file}
    BY <1>2, <1>3, Zenon DEF RightAnswer
  <2> QED
    BY <1>8, <2>1, <2>2, <2>3, Zenon
<1> HIDE DEF h, a
<1> QED
  BY <1>1, <1>4, <1>5, <1>6, <1>7, <1>8, <1>9, FinishHInv, Zenon DEF a

(* A request leaves: the only frame of its call, with the handle and the    *)
(* file of the caller.                                                      *)
LEMMA SendReqHInv == ASSUME IInv, HInv, NEW c \in Callers, SendReq(c) PROVE HInv'
<1>1. CASE ~sess
  <2>1. /\ Finish(c, KeptHandle(c)) /\ caller[c].at # "idle" /\ saw' = saw
        /\ UNCHANGED <<calls, reqs, resps, conn, sess, rl, ctxDone, handles, next, srv>>
    BY <1>1, Zenon DEF SendReq, client, server
  <2>2. DOMAIN saw = Callers /\ saw[c] = NoFile /\ ~conn
    BY <1>1, <2>1, Zenon DEF HInv, Held, Awaited
  <2>3. KeptHandle(c) \in Nat
    BY KeptHandleNat, Zenon DEF IInv
  <2> QED
    BY <2>1, <2>2, <2>3, KeptHandleHeld, FinishHInv, Zenon
<1>2. CASE sess
  <2>1. PICK f \in Requests :
           /\ f = Request(c, caller[c].id, caller[c].op, caller[c].file, caller[c].h)
           /\ f.who = c /\ f.id = caller[c].id /\ f.h = caller[c].h
           /\ f.file = caller[c].file
    <3>1. caller[c].at # "idle"
      BY Zenon DEF SendReq
    <3>2. /\ caller[c].id \in Ids /\ caller[c].op \in Ops
          /\ caller[c].file \in Files \cup {NoFile} /\ caller[c].h \in Nat
      BY <3>1, Zenon DEF IInv, Types, CallersApart
    <3>3. Request(c, caller[c].id, caller[c].op, caller[c].file, caller[c].h) \in Requests
      BY <3>2, Zenon DEF Request, Requests
    <3> QED
      BY <3>3, Zenon DEF Request
  <2>2. /\ caller' = [caller EXCEPT ![c].at = "wait"] /\ caller[c].at = "send"
        /\ UNCHANGED <<saw, calls, resps, conn, pending, ch, handles, next, srv, sess, rl, ctxDone>>
        /\ reqs' = reqs \/ reqs' = Append(reqs, f)
    BY <1>2, <2>1, Zenon DEF SendReq, server, client
  <2>3. /\ caller'[c].at = "wait" /\ caller'[c].id = caller[c].id
        /\ caller'[c].op = caller[c].op /\ caller'[c].h = caller[c].h
        /\ caller'[c].file = caller[c].file
        /\ \A d \in Callers \ {c} : caller'[d] = caller[d]
    BY <2>2, Zenon DEF IInv, Types
  <2>4. reqs \in Seq(Requests) /\ Len(reqs) \in Nat
    BY DEF IInv, Types
  <2>5. Asked' = Asked \/ Asked' = Asked \cup {f}
    <3>1. Asked = Elems(reqs) /\ Asked' = Elems(reqs')
      BY Zenon DEF Asked, Elems
    <3>2. Elems(Append(reqs, f)) = Elems(reqs) \cup {f}
      BY <2>4, ElemsAppend
    <3> QED
      BY <2>2, <3>1, <3>2, Zenon
  <2>6. Coming' = Coming /\ Answers' = Answers
    BY <2>2, Zenon DEF Coming, Answers, Elems
  <2>7. c \in Senders /\ Senders' = Senders \ {c}
    BY <2>2, <2>3, Zenon DEF Senders
  <2>8. \A h : Given(h)' = Given(h)
    BY <2>2, Zenon DEF Given
  <2>9. ASSUME NEW g, g.who \in Callers PROVE Current(g)' <=> Current(g)
    BY <2>2, <2>3, <2>9, Zenon DEF Current
  <2>10. Counted'
    <3>1. IsFiniteSet(Senders)
      BY Zenon DEF HInv, Counted
    <3>2. IsFiniteSet(Senders') /\ Cardinality(Senders') = Cardinality(Senders) - 1
      BY <2>7, <3>1, FS_RemoveElement, Zenon
    <3>3. Cardinality(Senders) \in Nat /\ Cardinality(Senders') \in Nat
      BY <3>1, <3>2, FS_CardinalityType, Zenon
    <3>4. Len(reqs') \in {Len(reqs), Len(reqs) + 1}
      BY <2>2, <2>1, <2>4
    <3>5. Opened' = Opened
      BY <2>2, Zenon DEF Opened
    <3>6. Opened \in Int /\ calls \in Nat
      BY HandleBounds DEF IInv, HInv, Counted, Opened, Types
    <3> QED
      BY <2>2, <2>4, <2>8, <3>2, <3>3, <3>4, <3>5, <3>6 DEF HInv, Counted
  <2>11. Held'
    BY <2>2, <2>3, <2>8 DEF HInv, Held
  <2>12. FramesRight'
    <3>1. ASSUME NEW r \in Asked PROVE RightRequest(r)'
      <4>1. r.who \in Callers /\ RightRequest(r)
        BY FrameFacts, Zenon DEF HInv, FramesRight
      <4>2. caller'[r.who].file = caller[r.who].file /\ caller'[r.who].h = caller[r.who].h
        BY <2>3, <4>1, Zenon
      <4>3. Current(r)' <=> Current(r)
        BY <2>9, <4>1, Zenon
      <4> QED
        BY <4>1, <4>2, <4>3, Zenon DEF RightRequest
    <3>2. RightRequest(f)'
      BY <2>3, <2>1, Zenon DEF RightRequest
    <3>3. ASSUME NEW a \in Answers PROVE RightAnswer(a)'
      <4>1. a.who \in Callers /\ RightAnswer(a)
        BY FrameFacts, Zenon DEF HInv, FramesRight
      <4>2. caller'[a.who].file = caller[a.who].file /\ caller'[a.who].h = caller[a.who].h
        BY <2>3, <4>1, Zenon
      <4>3. Current(a)' <=> Current(a)
        BY <2>9, <4>1, Zenon
      <4> QED
        BY <2>2, <2>8, <4>1, <4>2, <4>3, Zenon DEF RightAnswer
    <3> QED
      BY <2>5, <2>6, <3>1, <3>2, <3>3, Zenon DEF FramesRight
  <2>13. OneFrame'
    <3>1. \A k, l \in 1..Len(reqs') : reqs'[k].id = reqs'[l].id => k = l
      <4>1. CASE reqs' = reqs
        BY <4>1, Zenon DEF HInv, OneFrame
      <4>2. CASE reqs' = Append(reqs, f)
        <5>1. /\ Len(reqs') = Len(reqs) + 1 /\ reqs'[Len(reqs) + 1] = f
              /\ \A k \in 1..Len(reqs) : reqs'[k] = reqs[k] /\ reqs[k] \in Asked
          BY <2>1, <2>4, <4>2 DEF Asked, Elems
        <5>2. \A k \in 1..Len(reqs) : reqs[k].id # f.id
          BY <2>1, <2>7, <5>1, Zenon DEF HInv, OneFrame
        <5>3. \A k, l \in 1..Len(reqs) : reqs[k].id = reqs[l].id => k = l
          BY Zenon DEF HInv, OneFrame
        <5> QED
          BY <2>4, <5>1, <5>2, <5>3
      <4> QED
        BY <2>2, <4>1, <4>2, Zenon
    <3>2. \A r \in Asked', a \in Coming : r.id # a.id
      BY <2>1, <2>5, <2>7 DEF HInv, OneFrame
    <3>3. \A d \in Senders' : d \in Senders /\ caller'[d] = caller[d] /\ caller[d].id # f.id
      BY <2>2, <2>3, <2>1, <2>7 DEF Senders, IInv, CallersApart
    <3>4. \A d \in Senders', g \in Asked' \cup Coming : g.id # caller'[d].id
      BY <2>5, <3>3, Zenon DEF HInv, OneFrame
    <3> QED
      BY <2>2, <2>6, <3>1, <3>2, <3>4, Zenon DEF HInv, OneFrame
  <2>14. Awaited'
    <3>1. \A d \in Senders' : d \in Senders /\ caller'[d] = caller[d]
      BY <2>3, <2>7, Zenon DEF Senders
    <3>2. conn /\ ~ctxDone => <<f.id, f.who>> \in pending
      BY <2>1, <2>7, Zenon DEF HInv, Awaited
    <3> QED
      BY <2>2, <2>5, <2>6, <3>1, <3>2 DEF HInv, Awaited
  <2>15. ReadsOwnFile'
    BY <2>2, <2>3, Zenon DEF HInv, ReadsOwnFile
  <2>16. HandlesAccounted'
    <3>1. (\A d \in Callers : caller'[d].h = caller[d].h) /\ Busy' = Busy
      BY <2>2, <2>3, Zenon DEF Busy
    <3> QED
      BY <2>2, <3>1, Zenon DEF HInv, HandlesAccounted
  <2> QED
    BY <2>10, <2>11, <2>12, <2>13, <2>14, <2>15, <2>16, Zenon DEF HInv
<1> QED
  BY <1>1, <1>2, Zenon

(* An answer moves into the channel of the call that waits for it. *)
LEMMA DeliverHInv == ASSUME IInv, HInv, Deliver PROVE HInv'
<1>a. PICK r : r = Head(resps)
  BY Zenon
<1>b. /\ resps # <<>> /\ resps' = Tail(resps) /\ rl = "run"
      /\ pending' = {e \in pending : e[1] # r.id}
      /\ ch' = [c \in Callers |-> IF <<r.id, c>> \in pending
                    THEN [full |-> TRUE, closed |-> FALSE, resp |-> r] ELSE ch[c]]
      /\ rl' = IF ctxDone THEN "fail" ELSE "run"
      /\ UNCHANGED <<caller, saw, calls, reqs, conn, sess, ctxDone, handles, next, srv>>
  BY <1>a, Zenon DEF Deliver, server
<1>c. resps \in Seq(Responses) /\ Len(resps) \in Nat
  BY DEF IInv, Types
<1>d. /\ Coming = Elems(resps) /\ Coming' = Elems(resps') /\ Asked' = Asked
  BY <1>b, Zenon DEF Coming, Asked, Elems
<1>e. /\ r \in Coming /\ Coming = Coming' \cup {r} /\ r = resps[1] /\ 1 <= Len(resps)
      /\ Len(resps') = Len(resps) - 1 /\ \A k \in 1..Len(resps') : resps'[k] = resps[k + 1]
  BY <1>a, <1>b, <1>c, <1>d, ElemsTail, Zenon
<1>f. \A c \in Callers : /\ <<r.id, c>> \in pending =>
                               ch'[c].full /\ ~ch'[c].closed /\ ch'[c].resp = r
                         /\ <<r.id, c>> \notin pending => ch'[c] = ch[c]
  BY <1>b, Zenon
<1>g. Answers' \subseteq Answers
  <2>1. \A c \in Callers : ch'[c].full => ch'[c].resp = r \/ (ch[c].full /\ ch'[c].resp = ch[c].resp)
    BY <1>f, Zenon
  <2> QED
    BY <1>e, <2>1, Zenon DEF Answers
<1>h. \A f \in Coming' : f.id # r.id
  <2>1. ASSUME NEW k \in 1..Len(resps') PROVE resps'[k].id # r.id
    <3>1. k + 1 \in 1..Len(resps) /\ 1 \in 1..Len(resps) /\ k + 1 # 1
      BY <1>c, <1>e
    <3> QED
      BY <1>e, <3>1, Zenon DEF HInv, OneFrame
  <2> QED
    BY <1>d, <2>1, Zenon DEF Elems
<1>i. \A f \in Asked : f.id # r.id
  BY <1>e, Zenon DEF HInv, OneFrame
<1>j. Senders' = Senders /\ Busy' = Busy
  BY <1>b, Zenon DEF Senders, Busy
<1>1. Counted' /\ Held' /\ ReadsOwnFile'
  BY <1>b, <1>j, Zenon DEF HInv, Counted, Held, ReadsOwnFile, Opened, Given
<1>2. FramesRight'
  <2>1. \A f : Current(f)' = Current(f)
    BY <1>b, Zenon DEF Current
  <2> QED
    BY <1>b, <1>d, <1>g, <2>1, FramesStayRight, Zenon DEF HInv
<1>3. OneFrame'
  <2>1. \A k, l \in 1..Len(resps') : resps'[k].id = resps'[l].id => k = l
    <3>1. \A k \in 1..Len(resps') : k + 1 \in 1..Len(resps)
      BY <1>c, <1>e
    <3>2. \A k, l \in 1..Len(resps) : resps[k].id = resps[l].id => k = l
      BY Zenon DEF HInv, OneFrame
    <3> QED
      BY <1>c, <1>e, <3>1, <3>2
  <2> QED
    BY <1>b, <1>d, <1>e, <1>j, <2>1, Zenon DEF HInv, OneFrame
<1>4. Awaited'
  <2>1. \A c \in Callers : ~ch'[c].closed
    BY <1>b, <1>f, Zenon DEF HInv, Awaited
  <2>2. ASSUME NEW c \in Callers, ch'[c].full, NEW e \in pending' PROVE e[2] # c
    <3>1. e \in pending /\ e[1] # r.id /\ e[2] \in Busy /\ caller[e[2]].id = e[1]
      BY <1>b, Zenon DEF IInv, PendingAccounted
    <3>2. CASE <<r.id, c>> \in pending
      BY <3>1, <3>2, Zenon DEF IInv, PendingAccounted
    <3>3. CASE <<r.id, c>> \notin pending
      BY <1>f, <2>2, <3>1, <3>3, Zenon DEF HInv, Awaited
    <3> QED
      BY <3>2, <3>3, Zenon
  <2>3. conn /\ ~ctxDone => \A f \in Asked' \cup Coming' : <<f.id, f.who>> \in pending'
    BY <1>b, <1>d, <1>e, <1>h, <1>i, Zenon DEF HInv, Awaited
  <2>4. conn /\ ~ctxDone => \A c \in Senders' : <<caller'[c].id, c>> \in pending'
    BY <1>b, <1>e, <1>j, Zenon DEF HInv, Awaited, OneFrame
  <2> QED
    BY <1>b, <2>1, <2>2, <2>3, <2>4, Zenon DEF HInv, Awaited
<1>5. HandlesAccounted'
  <2> SUFFICES ASSUME conn, ~ctxDone, NEW e \in handles
               PROVE  \/ \E c \in Callers : caller[c].h = e[1]
                      \/ \E c \in Busy : ch'[c].full /\ ch'[c].resp.h = e[1]
                      \/ \E k \in 1..Len(resps') : resps'[k].h = e[1]
    BY <1>b, <1>j, Zenon DEF HInv, HandlesAccounted
  <2>1. \/ \E c \in Callers : caller[c].h = e[1]
        \/ \E c \in Busy : ch[c].full /\ ch[c].resp.h = e[1]
        \/ \E k \in 1..Len(resps) : resps[k].h = e[1]
    BY Zenon DEF HInv, HandlesAccounted
  <2>2. CASE \E c \in Busy : ch[c].full /\ ch[c].resp.h = e[1]
    <3>1. PICK c \in Busy : ch[c].full /\ ch[c].resp.h = e[1]
      BY <2>2, Zenon
    <3>2. c \in Callers /\ <<r.id, c>> \notin pending
      BY <3>1, Zenon DEF HInv, Awaited, Busy
    <3> QED
      BY <1>f, <3>1, <3>2, Zenon
  <2>3. CASE r.h = e[1]
    <3>1. <<r.id, r.who>> \in pending
      BY <1>e, Zenon DEF HInv, Awaited
    <3>2. r.who \in Busy /\ r.who \in Callers
      BY <3>1, Zenon DEF IInv, PendingAccounted, Busy
    <3> QED
      BY <1>f, <2>3, <3>1, <3>2, Zenon
  <2>4. ASSUME NEW k \in 1..Len(resps), resps[k].h = e[1], r.h # e[1]
        PROVE  \E l \in 1..Len(resps') : resps'[l].h = e[1]
    <3>1. k # 1
      BY <1>e, <2>4, Zenon
    <3>2. k - 1 \in 1..Len(resps') /\ resps'[k - 1] = resps[k]
      BY <1>c, <1>e, <3>1
    <3> QED
      BY <2>4, <3>2, Zenon
  <2> QED
    BY <2>1, <2>2, <2>3, <2>4, Zenon
<1> QED
  BY <1>1, <1>2, <1>3, <1>4, <1>5, Zenon DEF HInv

(* failPending: nobody waits any more, and the client is at its end. *)
LEMMA FailPendingHInv == ASSUME IInv, HInv, FailPending PROVE HInv'
<1>1. /\ rl = "fail" /\ rl' = "close" /\ pending' = {}
      /\ ch' = [c \in Callers |-> IF \E e \in pending : e[2] = c
                    THEN [full |-> FALSE, closed |-> TRUE] ELSE ch[c]]
      /\ UNCHANGED <<caller, saw, calls, reqs, resps, conn, sess, ctxDone, handles, next, srv>>
  BY Zenon DEF FailPending, link, server
<1>2. ~conn \/ ctxDone
  BY <1>1, Zenon DEF HInv, Awaited
<1>3. \A c \in Callers : ch'[c].full => ch'[c] = ch[c]
  BY <1>1, Zenon
<1>4. /\ Asked' = Asked /\ Coming' = Coming /\ Answers' \subseteq Answers
      /\ Senders' = Senders
  BY <1>1, <1>3 DEF Asked, Coming, Answers, Elems, Senders
<1>5. Counted' /\ Held' /\ ReadsOwnFile' /\ OneFrame'
  BY <1>1, <1>4, Zenon DEF HInv, Counted, Held, ReadsOwnFile, OneFrame, Opened, Given
<1>6. FramesRight'
  <2>1. \A f : Current(f)' = Current(f)
    BY <1>1, Zenon DEF Current
  <2> QED
    BY <1>1, <1>4, <2>1, FramesStayRight, Zenon DEF HInv
<1>7. Awaited' /\ HandlesAccounted'
  BY <1>1, <1>2, Zenon DEF HInv, Awaited, HandlesAccounted
<1> QED
  BY <1>5, <1>6, <1>7, Zenon DEF HInv

(* The connection is lost: what is left of the frames is a part of them. *)
LEMMA LinkLostHInv == ASSUME IInv, HInv, LinkLost PROVE HInv'
<1>1. PICK n \in 0..Len(reqs), m \in 0..Len(resps) :
        reqs' = SubSeq(reqs, 1, n) /\ resps' = SubSeq(resps, 1, m)
  BY Zenon DEF LinkLost
<1>2. /\ conn' = FALSE
      /\ UNCHANGED <<caller, ch, saw, pending, calls, sess, rl, ctxDone, handles, next, srv>>
  BY Zenon DEF LinkLost, callers, client, server
<1>3. /\ Len(reqs) \in Nat /\ Len(resps) \in Nat
      /\ Len(reqs') = n /\ \A k \in 1..n : k \in 1..Len(reqs) /\ reqs'[k] = reqs[k]
      /\ Len(resps') = m /\ \A k \in 1..m : k \in 1..Len(resps) /\ resps'[k] = resps[k]
  BY <1>1, PartOfList DEF IInv, Types
<1>4. Asked' \subseteq Asked /\ Coming' \subseteq Coming
  BY <1>3, Zenon DEF Asked, Coming, Elems
<1>5. Answers' \subseteq Answers /\ Senders' = Senders
  BY <1>2, <1>4, Zenon DEF Answers, Senders
<1>6. Counted'
  <2>1. Opened' = Opened /\ \A h : Given(h)' = Given(h)
    BY <1>2, Zenon DEF Opened, Given
  <2>2. Cardinality(Senders) \in Nat
    BY FS_CardinalityType, Zenon DEF HInv, Counted
  <2>3. Opened \in Int /\ calls \in Nat
    BY HandleBounds DEF IInv, HInv, Counted, Opened, Types
  <2> QED
    BY <1>2, <1>3, <1>5, <2>1, <2>2, <2>3 DEF HInv, Counted
<1>7. Held' /\ ReadsOwnFile'
  BY <1>2, Zenon DEF HInv, Held, ReadsOwnFile, Given
<1>8. FramesRight'
  <2>1. \A f : Current(f)' = Current(f)
    BY <1>2, Zenon DEF Current
  <2> QED
    BY <1>2, <1>4, <1>5, <2>1, FramesStayRight, Zenon DEF HInv
<1>9. OneFrame'
  <2>1. \A c \in Senders' : caller'[c] = caller[c]
    BY <1>2, Zenon
  <2>2. /\ \A k, l \in 1..Len(reqs') : reqs'[k].id = reqs'[l].id => k = l
        /\ \A k, l \in 1..Len(resps') : resps'[k].id = resps'[l].id => k = l
    BY <1>3, Zenon DEF HInv, OneFrame
  <2> QED
    BY <1>4, <1>5, <2>1, <2>2 DEF HInv, OneFrame
<1>10. Awaited' /\ HandlesAccounted'
  BY <1>2, Zenon DEF HInv, Awaited, HandlesAccounted
<1> QED
  BY <1>6, <1>7, <1>8, <1>9, <1>10, Zenon DEF HInv

(* The number that put takes is one that was not given out: there are more  *)
(* numbers than calls.  Those given out stay so.                            *)
LEMMA FreshHandle ==
    ASSUME IInv, HInv, reqs # <<>>, NEW file
    PROVE  LET h == put(next, file).h
           IN  /\ h \in 1..(HandleSpace - 1) /\ ~Given(h)
               /\ next' = h => /\ Given(next)' /\ \A n \in Nat : Given(n) => Given(n)'
                               /\ Opened' = Opened + 1
<1>1. Cardinality(Senders) \in Nat
  BY FS_CardinalityType, Zenon DEF HInv, Counted
<1>2. Len(reqs) \in Nat /\ 1 <= Len(reqs) /\ calls \in Nat /\ calls <= MaxCalls
  BY HandleBounds DEF IInv, Types
<1>3. next \in 0..(HandleSpace - 1) /\ Opened \in Int /\ Opened + 1 <= MaxCalls
  BY <1>1, <1>2, HandleBounds DEF HInv, Counted, Opened
<1>4. put(next, file).h = IF next + 1 = HandleSpace THEN 1 ELSE next + 1
  BY Zenon DEF put
<1> DEFINE h == put(next, file).h
<1> HIDE DEF h
<1>5. h \in 1..(HandleSpace - 1) /\ ~Given(h)
  BY <1>3, <1>4, HandleBounds DEF Opened, Given, h
<1>6. ASSUME next' = h PROVE Given(next)' /\ Opened' = Opened + 1
  <2>1. CASE next + 1 = HandleSpace
    BY <1>3, <1>4, <1>6, <2>1, HandleBounds DEF Opened, Given, h
  <2>2. CASE next + 1 # HandleSpace
    BY <1>3, <1>4, <1>6, <2>2, HandleBounds DEF Opened, Given, h
  <2> QED
    BY <2>1, <2>2, Zenon
<1>7. ASSUME next' = h, NEW n \in Nat, Given(n) PROVE Given(n)'
  BY <1>3, <1>4, <1>7, HandleBounds DEF Opened, Given, h
<1> QED
  BY <1>5, <1>6, <1>7, Zenon DEF h

(* What Handle does to the table of open files, and what it answers. *)
LEMMA HandleDoes ==
    ASSUME NEW r \in Requests, NEW fails \in BOOLEAN
    PROVE  LET z == Handle(r, fails)
               a == z.resp
           IN  \/ /\ r.op = "open" /\ z.next = put(next, r.file).h
                  /\ z.handles = {e \in handles : e[1] # z.next} \cup {<<z.next, r.file>>}
                  /\ a.h = z.next /\ a.file = NoFile
               \/ /\ z.next = next /\ z.handles \subseteq handles /\ a.h = 0
                  /\ \/ a.file = NoFile
                     \/ r.op = "read" /\ \E e \in handles : e[1] = r.h /\ a.file = e[2]
                  /\ r.op = "close" => \A e \in z.handles : e[1] # r.h
<1>1. CASE r.op = "open" /\ ~fails
  <2>1. /\ Handle(r, fails).next = put(next, r.file).h
        /\ Handle(r, fails).handles = put(next, r.file).handles
        /\ Handle(r, fails).resp.h = put(next, r.file).h
        /\ Handle(r, fails).resp.file = NoFile
    BY <1>1, Zenon DEF Handle, Response
  <2>2. put(next, r.file).handles =
            {e \in handles : e[1] # put(next, r.file).h} \cup {<<put(next, r.file).h, r.file>>}
    BY Zenon DEF put
  <2> QED
    BY <1>1, <2>1, <2>2, Zenon
<1>2. CASE ~(r.op = "open" /\ ~fails)
  <2> DEFINE x == CHOOSE e \in get(r.h) : TRUE
  <2>1. /\ Handle(r, fails).next = next /\ Handle(r, fails).resp.h = 0
        /\ Handle(r, fails).handles = IF r.op = "close" THEN handles \ get(r.h) ELSE handles
        /\ \/ Handle(r, fails).resp.file = NoFile
           \/ r.op = "read" /\ get(r.h) # {} /\ Handle(r, fails).resp.file = x[2]
    BY <1>2, Zenon DEF Handle, Response, take
  <2>2. get(r.h) # {} => x \in handles /\ x[1] = r.h
    BY Zenon DEF get
  <2> HIDE DEF x
  <2>3. r.op = "close" => \A e \in Handle(r, fails).handles : e[1] # r.h
    BY <2>1, Zenon DEF get
  <2> QED
    BY <2>1, <2>2, <2>3, Zenon
<1> QED
  BY <1>1, <1>2, Zenon

(* The server opens a file under a number nobody knows, reads through the   *)
(* number it was sent, and answers to the caller that waits.                *)
LEMMA ServeHInv == ASSUME IInv, HInv, Serve PROVE HInv'
<1>a. reqs # <<>> /\ reqs \in Seq(Requests) /\ resps \in Seq(Responses)
  BY Zenon DEF Serve, IInv, Types
<1>b. PICK r \in Requests : r = Head(reqs) /\ r \in Asked
  <2>1. Head(reqs) \in Elems(reqs)
    BY <1>a, ElemsTail, Zenon
  <2> QED
    BY <2>1, FrameFacts, Zenon DEF Asked
<1>c. PICK fails \in BOOLEAN :
        /\ handles' = Handle(r, fails).handles /\ next' = Handle(r, fails).next
        /\ resps' = IF conn THEN Append(resps, Handle(r, fails).resp) ELSE resps
  BY <1>b, Zenon DEF Serve
<1>d. PICK a \in Responses :
        /\ a = Handle(r, fails).resp
        /\ a.who = r.who /\ a.id = r.id /\ a.op = r.op
  BY HandleAnswers, HandleTypes, Zenon DEF IInv
<1>e. /\ reqs' = Tail(reqs) /\ srv = "run"
      /\ UNCHANGED <<caller, ch, saw, pending, calls, conn, sess, rl, ctxDone, srv>>
  BY Zenon DEF Serve, callers, client
<1>f. \/ /\ r.op = "open" /\ next' = put(next, r.file).h
         /\ handles' = {e \in handles : e[1] # next'} \cup {<<next', r.file>>}
         /\ a.h = next' /\ a.file = NoFile
      \/ /\ next' = next /\ handles' \subseteq handles /\ a.h = 0
         /\ a.file = NoFile \/ (r.op = "read" /\ \E e \in handles : e[1] = r.h /\ a.file = e[2])
         /\ r.op = "close" => \A e \in handles' : e[1] # r.h
  BY <1>c, <1>d, HandleDoes
<1>g. /\ next' \in 0..(HandleSpace - 1) /\ \A n \in Nat : Given(n) => Given(n)'
      /\ Opened' \in {Opened, Opened + 1}
      /\ a.h # 0 => a.op = "open" /\ Given(next)' /\ a.h = next' /\ ~Given(next')
  <2>1. CASE next' = next /\ a.h = 0
    BY <2>1, Zenon DEF HInv, Counted, Given, Opened
  <2>2. CASE next' = put(next, r.file).h /\ a.h = next' /\ r.op = "open"
    BY <1>a, <1>d, <2>2, FreshHandle, HandleBounds
  <2> QED
    BY <1>f, <2>1, <2>2, Zenon
<1>h. /\ \A e \in handles : e[1] \in Nat /\ Given(e[1])
      /\ \A c \in Callers : caller[c].h \in Nat
      /\ \A b \in Answers : b.h \in Nat
  BY FrameFacts, Zenon DEF IInv, Types, HInv, Counted, Responses
<1>i. \A e \in handles' : e \in handles \/ (a.h # 0 /\ e = <<next', r.file>> /\ e[1] = next')
  <2>1. put(next, r.file).h # 0
    BY <1>a, FreshHandle, HandleBounds
  <2>2. <<next', r.file>>[1] = next'
    BY Zenon
  <2> QED
    BY <1>f, <2>1, <2>2, Zenon
<1>j. \A e \in handles' : Given(e[1]) => e \in handles
  BY <1>i, <1>g, Zenon
<1>k. /\ Elems(reqs) = Elems(reqs') \cup {r} /\ Len(reqs') = Len(reqs) - 1
      /\ \A k \in 1..Len(reqs') : reqs'[k] = reqs[k + 1]
      /\ r = reqs[1] /\ 1 <= Len(reqs) /\ Len(reqs) \in Nat
  BY <1>a, <1>b, <1>e, ElemsTail
<1>l. /\ Asked = Elems(reqs) /\ Asked' = Elems(reqs') /\ Coming = Elems(resps)
      /\ Coming' = Elems(resps')
  BY Zenon DEF Asked, Coming, Elems
<1>m. Coming \subseteq Coming' /\ Coming' \subseteq Coming \cup {a}
  <2>1. Elems(Append(resps, a)) = Elems(resps) \cup {a}
    BY <1>a, ElemsAppend
  <2>2. resps' = resps \/ resps' = Append(resps, a)
    BY <1>c, <1>d, Zenon
  <2> QED
    BY <1>l, <2>1, <2>2, Zenon
<1>n. Answers' \subseteq Answers \cup {a}
  BY <1>e, <1>m, Zenon DEF Answers
<1>o. Senders' = Senders /\ Busy' = Busy /\ \A f : Current(f)' = Current(f)
  BY <1>e, Zenon DEF Senders, Busy, Current
<1>1. Counted'
  <2>1. Cardinality(Senders) \in Nat
    BY FS_CardinalityType, Zenon DEF HInv, Counted
  <2>2. Opened \in Int /\ calls \in Nat
    BY HandleBounds DEF IInv, HInv, Counted, Opened, Types
  <2>3. Opened' + Cardinality(Senders) + Len(reqs') <= calls
    BY <1>g, <1>k, <2>1, <2>2 DEF HInv, Counted
  <2>4. \A e \in handles' : Given(e[1])'
    BY <1>g, <1>h, <1>i, Zenon
  <2> QED
    BY <1>e, <1>g, <1>o, <2>3, <2>4, Zenon DEF HInv, Counted
<1>2. Held'
  BY <1>e, <1>g, <1>h, <1>j, Zenon DEF HInv, Held
<1>3. FramesRight'
  <2>1. ASSUME NEW q \in Asked PROVE RightRequest(q)'
    BY <1>e, <1>o, Zenon DEF HInv, FramesRight, RightRequest
  <2>2. ASSUME NEW b \in Answers PROVE RightAnswer(b)'
    <3>1. RightAnswer(b) /\ b.h \in Nat /\ b.who \in Callers
      BY <1>h, FrameFacts, Zenon DEF HInv, FramesRight
    <3>2. b.h # 0 => Given(b.h)' /\ b.op = "open"
      BY <1>g, <3>1, Zenon DEF RightAnswer
    <3>3. Current(b) /\ b.h # 0 => \A e \in handles' : e[1] = b.h => e[2] = caller[b.who].file
      BY <1>j, <3>1, Zenon DEF RightAnswer
    <3>4. ASSUME Current(b), b.op = "close", NEW e \in handles' PROVE e[1] # caller[b.who].h
      <4>1. caller[b.who].op = "close" /\ caller[b.who].at # "idle"
        BY <3>4, FrameFacts, Zenon DEF Current
      <4>2. Given(caller[b.who].h)
        BY <3>1, <4>1, Zenon DEF HInv, Held
      <4> QED
        BY <1>j, <3>1, <3>4, <4>2, Zenon DEF RightAnswer
    <3> QED
      BY <1>e, <1>o, <3>1, <3>2, <3>3, <3>4, Zenon DEF RightAnswer
  <2>3. RightAnswer(a)'
    <3>1. a.h # 0 => Given(a.h)' /\ a.op = "open"
      BY <1>g, Zenon DEF Given
    <3>2. ASSUME Current(a)
          PROVE  /\ a.h # 0 => \A e \in handles' : e[1] = a.h => e[2] = caller[a.who].file
                 /\ a.file \in {NoFile, caller[a.who].file}
                 /\ a.op = "close" => \A e \in handles' : e[1] # caller[a.who].h
      <4>1. Current(r) /\ r.who \in Callers /\ r.who = a.who /\ r.op = a.op
        BY <1>b, <1>d, <3>2, FrameFacts, Zenon DEF Current
      <4>2. /\ r.h = caller[r.who].h /\ r.file = caller[r.who].file
            /\ caller[r.who].op = r.op /\ caller[r.who].at # "idle"
        BY <1>b, <4>1, FrameFacts, Zenon DEF HInv, FramesRight, RightRequest, Current
      <4>3. a.h # 0 => \A e \in handles' : e[1] = a.h => e[2] = r.file
        BY <1>g, <1>h, <1>i
      <4>4. r.op = "read" => \A e \in handles : e[1] = r.h => e[2] = r.file
        BY <4>1, <4>2, Zenon DEF HInv, Held
      <4>5. a.file \in {NoFile, r.file}
        BY <1>f, <4>4, Zenon
      <4>6. a.op = "close" => \A e \in handles' : e[1] # r.h
        BY <1>f, <4>1, Zenon
      <4> QED
        BY <4>1, <4>2, <4>3, <4>5, <4>6, Zenon
    <3> QED
      BY <1>e, <1>o, <3>1, <3>2, Zenon DEF RightAnswer
  <2> QED
    BY <1>k, <1>l, <1>n, <2>1, <2>2, <2>3, Zenon DEF FramesRight
<1>4. OneFrame'
  <2>1. \A q \in Asked' : q.id # r.id
    <3>1. ASSUME NEW k \in 1..Len(reqs') PROVE reqs'[k].id # r.id
      <4>1. k + 1 \in 1..Len(reqs) /\ 1 \in 1..Len(reqs) /\ k + 1 # 1
        BY <1>k
      <4> QED
        BY <1>k, <4>1, Zenon DEF HInv, OneFrame
    <3> QED
      BY <1>l, <3>1, Zenon DEF Elems
  <2>2. \A b \in Coming : b.id # r.id
    BY <1>b, Zenon DEF HInv, OneFrame
  <2>3. \A k, l \in 1..Len(reqs') : reqs'[k].id = reqs'[l].id => k = l
    <3>1. \A k \in 1..Len(reqs') : k + 1 \in 1..Len(reqs)
      BY <1>k
    <3>2. \A k, l \in 1..Len(reqs) : reqs[k].id = reqs[l].id => k = l
      BY Zenon DEF HInv, OneFrame
    <3> QED
      BY <1>k, <3>1, <3>2
  <2>4. \A k, l \in 1..Len(resps') : resps'[k].id = resps'[l].id => k = l
    <3>1. \A k, l \in 1..Len(resps) : resps[k].id = resps[l].id => k = l
      BY Zenon DEF HInv, OneFrame
    <3>2. CASE resps' = resps
      BY <3>1, <3>2, Zenon
    <3>3. CASE resps' = Append(resps, a)
      <4>1. /\ Len(resps') = Len(resps) + 1 /\ resps'[Len(resps) + 1] = a /\ Len(resps) \in Nat
            /\ \A k \in 1..Len(resps) : resps'[k] = resps[k] /\ resps[k] \in Coming
        BY <1>a, <3>3 DEF Coming, Elems
      <4>2. \A k \in 1..Len(resps) : resps[k].id # a.id
        BY <1>d, <2>2, <4>1, Zenon
      <4>3. \A k \in 1..Len(resps') : k \in 1..Len(resps) \/ k = Len(resps) + 1
        BY <4>1
      <4> QED
        BY <3>1, <4>1, <4>2, <4>3, Zenon
    <3> QED
      BY <1>c, <1>d, <3>2, <3>3, Zenon
  <2>5. \A q \in Asked', b \in Coming' : q.id # b.id
    BY <1>d, <1>k, <1>l, <1>m, <2>1 DEF HInv, OneFrame
  <2>6. \A c \in Senders', f \in Asked' \cup Coming' : f.id # caller'[c].id
    BY <1>b, <1>d, <1>e, <1>k, <1>l, <1>m, <1>o DEF HInv, OneFrame
  <2> QED
    BY <2>3, <2>4, <2>5, <2>6, Zenon DEF OneFrame
<1>5. Awaited'
  <2>1. conn /\ ~ctxDone => \A f \in Asked' \cup Coming' : <<f.id, f.who>> \in pending
    BY <1>b, <1>d, <1>k, <1>l, <1>m, Zenon DEF HInv, Awaited
  <2> QED
    BY <1>e, <1>o, <2>1, Zenon DEF HInv, Awaited
<1>6. ReadsOwnFile'
  BY <1>e, Zenon DEF HInv, ReadsOwnFile
<1>7. HandlesAccounted'
  <2> SUFFICES ASSUME conn, ~ctxDone, NEW e \in handles'
               PROVE  \/ \E c \in Callers : caller[c].h = e[1]
                      \/ \E c \in Busy : ch[c].full /\ ch[c].resp.h = e[1]
                      \/ \E k \in 1..Len(resps') : resps'[k].h = e[1]
    BY <1>e, <1>o, Zenon DEF HInv, HandlesAccounted
  <2>1. /\ Len(resps') = Len(resps) + 1 /\ resps'[Len(resps) + 1] = a /\ Len(resps) \in Nat
        /\ \A k \in 1..Len(resps) : resps'[k] = resps[k]
    BY <1>a, <1>c, <1>d
  <2>2. CASE e \in handles
    <3>1. \/ \E c \in Callers : caller[c].h = e[1]
          \/ \E c \in Busy : ch[c].full /\ ch[c].resp.h = e[1]
          \/ \E k \in 1..Len(resps) : resps[k].h = e[1]
      BY <2>2, Zenon DEF HInv, HandlesAccounted
    <3>2. \A k \in 1..Len(resps) : k \in 1..Len(resps')
      BY <2>1
    <3> QED
      BY <2>1, <3>1, <3>2, Zenon
  <2>3. CASE a.h = e[1]
    <3>1. Len(resps) + 1 \in 1..Len(resps')
      BY <2>1
    <3> QED
      BY <2>1, <2>3, <3>1, Zenon
  <2> QED
    BY <1>g, <1>i, <2>2, <2>3, Zenon
<1> QED
  BY <1>1, <1>2, <1>3, <1>4, <1>5, <1>6, <1>7, Zenon DEF HInv

(* The steps of the client and of the connection that touch no call and no  *)
(* frame: the client only comes nearer to its end.                          *)
LEMMA RestHInv ==
    ASSUME IInv, HInv, \/ LoopEnds \/ LoopCloses \/ CloseCancel \/ CloseSession \/ CloseJoin
                       \/ ParentCancels \/ ServeEnds \/ UNCHANGED vars
    PROVE  HInv'
<1>1. /\ UNCHANGED <<caller, ch, saw, pending, calls, reqs, resps, next>>
      /\ handles' \subseteq handles
      /\ (handles' = handles /\ srv' = srv) \/ handles' = {}
      /\ (conn' => conn) /\ (ctxDone => ctxDone') /\ (rl # "run" => rl' # "run")
  BY DEF LoopEnds, LoopCloses, CloseCancel, CloseSession, CloseJoin, ParentCancels, ServeEnds,
     vars, callers, link, client, server
<1>2. (conn' => sess') /\ (rl' # "run" => ~conn' \/ ctxDone')
  BY DEF HInv, Awaited, LoopEnds, LoopCloses, CloseCancel, CloseSession, CloseJoin, ParentCancels,
     ServeEnds, vars, callers, link, client, server
<1>3. Asked' = Asked /\ Coming' = Coming /\ Answers' = Answers /\ Senders' = Senders
  BY <1>1, Zenon DEF Asked, Coming, Answers, Elems, Senders
<1>4. (\A h : Given(h)' = Given(h)) /\ (\A f : Current(f)' = Current(f))
  BY <1>1, Zenon DEF Given, Current
<1>5. Counted' /\ Held' /\ OneFrame' /\ ReadsOwnFile'
  BY <1>1, <1>3, <1>4, Zenon DEF HInv, Counted, Held, OneFrame, ReadsOwnFile, Opened
<1>6. FramesRight'
  BY <1>1, <1>3, <1>4, Zenon DEF HInv, FramesRight, RightRequest, RightAnswer
<1>7. Awaited'
  BY <1>1, <1>2, <1>3, Zenon DEF HInv, Awaited
<1>8. HandlesAccounted'
  <2>1. Busy' = Busy
    BY <1>1, Zenon DEF Busy
  <2> QED
    BY <1>1, <2>1, Zenon DEF HInv, HandlesAccounted
<1> QED
  BY <1>5, <1>6, <1>7, <1>8, Zenon DEF HInv

(* At the start nothing is open and nothing is under way. *)
LEMMA InitHInv == Init => HInv
<1> SUFFICES ASSUME Init PROVE HInv
  BY Zenon
<1>1. Asked = {} /\ Coming = {} /\ Answers = {} /\ Senders = {} /\ handles = {}
  <2>1. Asked = {} /\ Coming = {}
    BY EmptyList, Zenon DEF Init, Asked, Coming, Elems
  <2>2. \A c \in Callers : ~ch[c].full /\ caller[c].at = "idle"
    BY Zenon DEF Init, Idle, NoResp
  <2>3. Answers = {} /\ Senders = {}
    BY <2>1, <2>2, Zenon DEF Answers, Senders
  <2>4. handles = {}
    BY Zenon DEF Init
  <2> QED
    BY <2>1, <2>3, <2>4, Zenon
<1>2. Counted
  <2>1. IsFiniteSet({}) /\ Cardinality({}) = 0
    BY FS_EmptySet, Zenon
  <2> QED
    BY <1>1, <2>1, HandleBounds DEF Init, Counted, Opened
<1>3. Held /\ FramesRight /\ OneFrame /\ Awaited
  BY <1>1 DEF Init, Held, FramesRight, OneFrame, Awaited, Idle, NoResp
<1>4. ReadsOwnFile /\ HandlesAccounted
  BY <1>1, Zenon DEF Init, ReadsOwnFile, HandlesAccounted, Idle
<1> QED
  BY <1>2, <1>3, <1>4, Zenon DEF HInv

(* Every step keeps the invariant of the handles. *)
LEMMA NextHInv == IInv /\ HInv /\ [Next]_vars => HInv'
<1> SUFFICES ASSUME IInv, HInv, [Next]_vars PROVE HInv'
  BY Zenon
<1>1. CASE \E c \in Callers, op \in Ops, file \in Files \cup {NoFile} : Call(c, op, file)
  BY <1>1, CallHInv, Zenon
<1>2. CASE \E c \in Callers : SendReq(c) \/ ReturnCtx(c) \/ ReturnResp(c)
  BY <1>2, SendReqHInv, ReturnCtxHInv, ReturnRespHInv, Zenon
<1>3. CASE Deliver \/ FailPending \/ LinkLost \/ Serve
  BY <1>3, DeliverHInv, FailPendingHInv, LinkLostHInv, ServeHInv, Zenon
<1>4. CASE \/ LoopEnds \/ LoopCloses \/ CloseCancel \/ CloseSession \/ CloseJoin
           \/ ParentCancels \/ ServeEnds \/ UNCHANGED vars
  BY <1>4, RestHInv, Zenon
<1> QED
  BY <1>1, <1>2, <1>3, <1>4, Zenon DEF Next

(* Every reachable state satisfies it. *)
THEOREM HInvariance == SafeSpec => []HInv
BY InitHInv, NextHInv, IInvariance, PTL DEF SafeSpec

(* A read through a handle returns the content of the file its caller       *)
(* opened, for any number of callers and files and wherever the counter of  *)
(* handles starts, as long as fewer calls are made than there are numbers.  *)
THEOREM ReadsWhatWasOpened == SafeSpec => []ReadsOwnFile
<1>1. HInv => ReadsOwnFile
  BY Zenon DEF HInv
<1> QED
  BY <1>1, HInvariance, PTL

(* FileOpServer keeps no file open that nobody knows of: whatever the       *)
(* order of requests, answers, failures and the end of the connection.      *)
THEOREM NoHandleLeaks == SafeSpec => []HandlesAccounted
<1>1. HInv => HandlesAccounted
  BY Zenon DEF HInv
<1> QED
  BY <1>1, HInvariance, PTL

=============================================================================
