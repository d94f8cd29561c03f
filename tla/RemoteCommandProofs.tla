------------------------ MODULE RemoteCommandProofs ------------------------
(***************************************************************************)
(* What holds all along the chain of shim, broker, runner and agent: for   *)
(* any streams, any number of processes and events, any size of the queues *)
(* between the goroutines and any of the faults.                           *)
(*                                                                         *)
(* The inductive invariant has layers.  TypeInv types the queues; GroupInv *)
(* is about the agent and the process group; CodeInv follows the exit code *)
(* from there to the shim; OutInv follows the chunks of each output stream *)
(* from queue to queue.  PromiseProofs adds the input streams, and maps    *)
(* every step to one of module Command's.                                  *)
(***************************************************************************)
EXTENDS RemoteCommand, TLAPS

-----------------------------------------------------------------------------
(* Lists *)

(* A list is a function on the numbers up to its length. *)
LEMMA ListIs ==
    ASSUME NEW C, NEW s \in Seq(C)
    PROVE  Len(s) \in Nat /\ DOMAIN s = 1..Len(s) /\ s \in [1..Len(s) -> C]
OBVIOUS

(* One that grows at its end. *)
LEMMA AppendedIs ==
    ASSUME NEW C, NEW s \in Seq(C), NEW c \in C
    PROVE  /\ Append(s, c) \in Seq(C) /\ Append(s, c) # <<>> /\ Len(Append(s, c)) = Len(s) + 1
           /\ Append(s, c)[Len(s) + 1] = c /\ \A k \in 1..Len(s) : Append(s, c)[k] = s[k]
OBVIOUS

(* One that loses its head. *)
LEMMA HeadAndTail ==
    ASSUME NEW C, NEW s \in Seq(C), s # <<>>
    PROVE  Head(s) \in C /\ Tail(s) \in Seq(C) /\ Len(Tail(s)) = Len(s) - 1
OBVIOUS

-----------------------------------------------------------------------------
Streams == InStreams \cup OutStreams
FrameTypes == {"config", "exec", "data", "eof", "sig", "log", "exit"}
Frames == [t : FrameTypes, s : Streams, v : Int]
Places == {"idle", "decode", "warn", "sig", "write", "read", "send", "eof", "done"}
Chunk == [at : Places, v : Int]

(* The data in the queues, pipes and goroutines. *)
TypeInv ==
    /\ down \in Seq(Frames) /\ up \in Seq(Frames) /\ c2b \in Seq(Frames) /\ b2c \in Seq(Frames)
    /\ aloop \in [at : Places, s : Streams, v : Int] /\ abridge \in [OutStreams -> Chunk]
    /\ rf \in [at : Places, s : Streams, v : Int] /\ rw \in [s : Streams, v : Int]
    /\ sp \in [OutStreams -> Chunk] /\ rb \in [InStreams -> Chunk]
    /\ outPipe \in [OutStreams -> Seq(Int)] /\ shimOut \in [OutStreams -> Seq(Int)]
    /\ inPipe \in [InStreams -> Seq(Int)] /\ got \in [InStreams -> Seq(Int)]
    /\ wrote \in [OutStreams -> Nat] /\ next \in [InStreams -> Nat]
    /\ DOMAIN inClosed = InStreams
    /\ acode \in Int /\ childDone \in Int /\ status \in Int /\ rcode \in Int /\ shimCode \in Int

-----------------------------------------------------------------------------
(* The arithmetic of the counters *)

(* The counters are numbers. *)
LEMMA NatIsInt ==
    ASSUME NEW n \in Nat
    PROVE  n \in Int /\ n >= 0 /\ ~(n < 0)
OBVIOUS

(* One more. *)
LEMMA Successor ==
    ASSUME NEW n \in Nat
    PROVE  n + 1 \in Nat /\ n + 1 \in Int /\ n <= n /\ n <= n + 1 /\ n < n + 1 /\ (n + 1) - 1 = n
OBVIOUS

(* A bound still holds when what it bounds by moves up. *)
LEMMA Later ==
    ASSUME NEW a \in Nat, NEW n \in Nat
    PROVE  (a <= n => a <= n + 1) /\ (a < n => a < n + 1) /\ (a = n - 1 => n = a + 1)
OBVIOUS

(* Bounds compose. *)
LEMMA Bounded ==
    ASSUME NEW a \in Int, NEW m \in Int, NEW n \in Int, a <= m
    PROVE  (m <= n => a <= n) /\ (m < n => a < n)
OBVIOUS

(* The numbers the counters start with. *)
LEMMA NumbersOfInit == /\ 0 < 1 /\ 0 = 1 - 1 /\ 0 \in Nat /\ 0 \in Int /\ 0 <= 0 /\ 0 + 0 = 0
                       /\ (-1 >= 0 => FALSE)
OBVIOUS

(* A function does not change outside its domain. *)
LEMMA NotThere ==
    ASSUME NEW D, NEW T, NEW f \in [D -> T], NEW x, x \notin D, NEW v
    PROVE  [f EXCEPT ![x] = v] = f
OBVIOUS

(* What is above a number is one. *)
LEMMA Above ==
    ASSUME NEW m \in Nat, NEW n \in Int, m <= n
    PROVE  n \in Nat
OBVIOUS

(* The same for a strict bound. *)
LEMMA Below ==
    ASSUME NEW a \in Nat, NEW m \in Nat, NEW n \in Nat, a < m, m <= n
    PROVE  a < n
OBVIOUS

(* A pipe with the chunks between a and w, when one is read from it. *)
LEMMA OneRead ==
    ASSUME NEW a \in Nat, NEW n \in Nat, NEW w \in Nat, a + n = w, n >= 1
    PROVE  (a + 1) + (n - 1) = w /\ a + 1 <= w
OBVIOUS

(* The same pipe, when one is written to it. *)
LEMMA OneWritten ==
    ASSUME NEW a \in Nat, NEW n \in Nat
    PROVE  a + (n + 1) = a + n + 1
OBVIOUS

-----------------------------------------------------------------------------
(* The chunks of one stream in a queue of frames that carries many *)

(* What the frames are made of. *)
LEMMA FrameParts ==
    /\ 0 \in Streams /\ SIGINT \in Int /\ 0 \in Int
    /\ "config" \in FrameTypes /\ "exec" \in FrameTypes /\ "data" \in FrameTypes
    /\ "eof" \in FrameTypes /\ "sig" \in FrameTypes /\ "exit" \in FrameTypes
BY AgentAssumption DEF Streams, SIGINT, FrameTypes

(* A queue without its head, and a prefix of one. *)
LEMMA QueueParts ==
    ASSUME NEW q \in Seq(Frames)
    PROVE  /\ q # <<>> => Head(q) \in Frames /\ Tail(q) \in Seq(Frames)
           /\ \A n \in 0..Len(q) : SubSeq(q, 1, n) \in Seq(Frames)
OBVIOUS

(* The frames of stream s in q are chunks a + 1, ..., b in this order, and  *)
(* none of them comes after an exit frame: f counts them along the queue.   *)
Runs(q, s, a, b) ==
    \E f \in [0..Len(q) -> Int] :
        /\ f[0] = a /\ f[Len(q)] = b
        /\ \A i, j \in 0..Len(q) : i <= j => f[i] <= f[j]
        /\ \A i \in 1..Len(q) :
              /\ IF q[i].t = "data" /\ q[i].s = s THEN f[i] = f[i - 1] + 1 /\ q[i].v = f[i]
                                                  ELSE f[i] = f[i - 1]
              /\ q[i].t = "exit" => f[i] = b

(* The same for a pipe of chunks. *)
Numbered(q, a) == \A i \in 1..Len(q) : q[i] = a + i

HasExit(q) == \E i \in 1..Len(q) : q[i].t = "exit"

(* There is nothing on an empty queue. *)
LEMMA EmptyQueue == Len(<<>>) = 0 /\ Numbered(<<>>, 0) /\ ~HasExit(<<>>) /\ 1..0 = {}
BY DEF Numbered, HasExit

(* How a run is shown: the counting along a queue of length n. *)
LEMMA RunsBy ==
    ASSUME NEW q, NEW n, n = Len(q), NEW s, NEW a, NEW b, NEW f \in [0..n -> Int],
           f[0] = a, f[n] = b,
           \A i, j \in 0..n : i <= j => f[i] <= f[j],
           \A i \in 1..n :
               /\ IF q[i].t = "data" /\ q[i].s = s THEN f[i] = f[i - 1] + 1 /\ q[i].v = f[i]
                                                   ELSE f[i] = f[i - 1]
               /\ q[i].t = "exit" => f[i] = b
    PROVE  Runs(q, s, a, b)
<1>1. /\ f \in [0..Len(q) -> Int] /\ f[0] = a /\ f[Len(q)] = b
      /\ \A i, j \in 0..Len(q) : i <= j => f[i] <= f[j]
      /\ \A i \in 1..Len(q) :
             /\ IF q[i].t = "data" /\ q[i].s = s THEN f[i] = f[i - 1] + 1 /\ q[i].v = f[i]
                                                 ELSE f[i] = f[i - 1]
             /\ q[i].t = "exit" => f[i] = b
  BY Zenon
<1> QED
  BY ONLY <1>1, Zenon DEF Runs

(* An empty queue. *)
LEMMA RunsEmpty ==
    ASSUME NEW s, NEW a \in Int
    PROVE  Runs(<<>>, s, a, a)
<1> DEFINE q == <<>>
           n == 0
           f == [i \in 0..n |-> a]
<1>1. f \in [0..n -> Int] /\ f[0] = a /\ f[n] = a /\ n = Len(q)
  OBVIOUS
<1>2. \A i, j \in 0..n : i <= j => f[i] <= f[j]
  OBVIOUS
<1>3. \A i \in 1..n :
          /\ IF q[i].t = "data" /\ q[i].s = s THEN f[i] = f[i - 1] + 1 /\ q[i].v = f[i]
                                              ELSE f[i] = f[i - 1]
          /\ q[i].t = "exit" => f[i] = a
  OBVIOUS
<1> HIDE DEF f, q, n
<1>4. Runs(q, s, a, a)
  BY ONLY <1>1, <1>2, <1>3, RunsBy, Zenon
<1> QED
  BY <1>4, Zenon DEF q

(* What a run says of its ends. *)
LEMMA RunsBounds ==
    ASSUME NEW q \in Seq(Frames), NEW s, NEW a, NEW b, Runs(q, s, a, b)
    PROVE  /\ a \in Int /\ b \in Int /\ a <= b
           /\ q = <<>> => a = b
           /\ q # <<>> /\ Head(q).t = "exit" => a = b
<1>1. Len(q) \in Nat /\ (q = <<>> => Len(q) = 0) /\ (q # <<>> => Head(q) = q[1] /\ Len(q) >= 1)
  OBVIOUS
<1>2. PICK f \in [0..Len(q) -> Int] :
        /\ f[0] = a /\ f[Len(q)] = b
        /\ \A i, j \in 0..Len(q) : i <= j => f[i] <= f[j]
        /\ \A i \in 1..Len(q) :
              /\ IF q[i].t = "data" /\ q[i].s = s THEN f[i] = f[i - 1] + 1 /\ q[i].v = f[i]
                                                  ELSE f[i] = f[i - 1]
              /\ q[i].t = "exit" => f[i] = b
  BY Zenon DEF Runs
<1>3. 0 \in 0..Len(q) /\ Len(q) \in 0..Len(q) /\ 0 <= Len(q)
  BY <1>1
<1>4. a \in Int /\ b \in Int /\ a <= b /\ (q = <<>> => a = b)
  BY <1>1, <1>2, <1>3, Zenon
<1>5. ASSUME q # <<>>, Head(q).t = "exit" PROVE a = b
  <2>1. 1 \in 1..Len(q) /\ q[1].t = "exit" /\ 1 - 1 = 0
    BY <1>1, <1>5
  <2>2. f[1] = f[0] /\ f[1] = b
    BY <1>2, <2>1, Zenon
  <2> QED
    BY <1>2, <2>2, Zenon
<1> QED
  BY <1>4, <1>5, Zenon

(* One more frame: the next chunk, or none of this stream. *)
LEMMA RunsAppend ==
    ASSUME NEW q \in Seq(Frames), NEW x \in Frames, NEW s, NEW a, NEW b, Runs(q, s, a, b),
           NEW c, x.t = "data" /\ x.s = s => c = b + 1 /\ x.v = c /\ ~HasExit(q),
           ~(x.t = "data" /\ x.s = s) => c = b
    PROVE  Runs(Append(q, x), s, a, c)
<1> DEFINE n == Len(q)
           y == Append(q, x)
<1>1. n \in Nat /\ Len(y) = n + 1 /\ y[n + 1] = x /\ \A i \in 1..n : y[i] = q[i]
  OBVIOUS
<1>2. PICK f \in [0..n -> Int] :
        /\ f[0] = a /\ f[n] = b
        /\ \A i, j \in 0..n : i <= j => f[i] <= f[j]
        /\ \A i \in 1..n :
              /\ IF q[i].t = "data" /\ q[i].s = s THEN f[i] = f[i - 1] + 1 /\ q[i].v = f[i]
                                                  ELSE f[i] = f[i - 1]
              /\ q[i].t = "exit" => f[i] = b
  BY Zenon DEF Runs
<1> HIDE DEF n, y
<1>3. b \in Int /\ c \in Int /\ b <= c
  BY <1>1, <1>2
<1> DEFINE g == [i \in 0..(n + 1) |-> IF i = n + 1 THEN c ELSE f[i]]
<1>4. g \in [0..(n + 1) -> Int]
  BY <1>1, <1>2, <1>3
<1>5. g[0] = a /\ g[n + 1] = c /\ \A i \in 0..n : g[i] = f[i]
  BY <1>1, <1>2
<1>6. \A i, j \in 0..(n + 1) : i <= j => g[i] <= g[j]
  <2> SUFFICES ASSUME NEW i \in 0..(n + 1), NEW j \in 0..(n + 1), i <= j PROVE g[i] <= g[j]
    BY Zenon
  <2>1. CASE j \in 0..n
    <3>1. i \in 0..n
      BY <1>1, <2>1
    <3> QED
      BY <1>2, <1>5, <2>1, <3>1, Zenon
  <2>2. CASE j = n + 1 /\ i \in 0..n
    <3>1. n \in 0..n /\ i <= n
      BY <1>1, <2>2
    <3>2. f[i] <= f[n] /\ f[i] \in Int
      BY <1>2, <2>2, <3>1, Zenon
    <3> QED
      BY <1>2, <1>3, <1>5, <2>2, <3>2
  <2>3. CASE j = n + 1 /\ i = n + 1
    BY <1>3, <1>5, <2>3
  <2> QED
    BY <1>1, <2>1, <2>2, <2>3
<1>7. ASSUME NEW i \in 1..n
      PROVE  /\ IF y[i].t = "data" /\ y[i].s = s THEN g[i] = g[i - 1] + 1 /\ y[i].v = g[i]
                                                 ELSE g[i] = g[i - 1]
             /\ y[i].t = "exit" => g[i] = c
  <2>1. y[i] = q[i] /\ g[i] = f[i] /\ g[i - 1] = f[i - 1]
    BY <1>1, <1>5
  <2>2. q[i].t = "exit" => f[i] = b /\ c = b
    BY <1>2, Zenon DEF HasExit, n
  <2> HIDE DEF g
  <2> QED
    BY <1>2, <2>1, <2>2, Zenon
<1>8. /\ IF x.t = "data" /\ x.s = s THEN g[n + 1] = g[n] + 1 /\ x.v = g[n + 1]
                                    ELSE g[n + 1] = g[n]
      /\ x.t = "exit" => g[n + 1] = c
  BY <1>1, <1>2, <1>5
<1> HIDE DEF g
<1>9. \A i \in 1..(n + 1) :
          /\ IF y[i].t = "data" /\ y[i].s = s THEN g[i] = g[i - 1] + 1 /\ y[i].v = g[i]
                                              ELSE g[i] = g[i - 1]
          /\ y[i].t = "exit" => g[i] = c
  <2> SUFFICES ASSUME NEW i \in 1..(n + 1)
               PROVE  /\ IF y[i].t = "data" /\ y[i].s = s THEN g[i] = g[i - 1] + 1 /\ y[i].v = g[i]
                                                          ELSE g[i] = g[i - 1]
                      /\ y[i].t = "exit" => g[i] = c
    BY Zenon
  <2>1. CASE i \in 1..n
    BY <1>7, <2>1, Zenon
  <2>2. CASE i = n + 1
    <3>1. i - 1 = n /\ y[i] = x
      BY <1>1, <2>2
    <3> QED
      BY <1>8, <2>2, <3>1, Zenon
  <2> QED
    BY <1>1, <2>1, <2>2
<1>10. Runs(y, s, a, c)
  BY <1>1, <1>4, <1>5, <1>6, <1>9, RunsBy, Zenon
<1> QED
  BY <1>10, Zenon DEF y

(* The first frame is taken: it is the first chunk, or none of this stream. *)
LEMMA RunsTail ==
    ASSUME NEW q \in Seq(Frames), q # <<>>, NEW s, NEW a, NEW b, Runs(q, s, a, b)
    PROVE  IF Head(q).t = "data" /\ Head(q).s = s
             THEN Head(q).v = a + 1 /\ Runs(Tail(q), s, a + 1, b)
             ELSE Runs(Tail(q), s, a, b)
<1> DEFINE n == Len(q)
           y == Tail(q)
<1>1. n \in Nat /\ n >= 1 /\ Len(y) = n - 1 /\ Head(q) = q[1] /\ \A i \in 1..(n - 1) : y[i] = q[i + 1]
  OBVIOUS
<1>2. PICK f \in [0..n -> Int] :
        /\ f[0] = a /\ f[n] = b
        /\ \A i, j \in 0..n : i <= j => f[i] <= f[j]
        /\ \A i \in 1..n :
              /\ IF q[i].t = "data" /\ q[i].s = s THEN f[i] = f[i - 1] + 1 /\ q[i].v = f[i]
                                                  ELSE f[i] = f[i - 1]
              /\ q[i].t = "exit" => f[i] = b
  BY Zenon DEF Runs
<1>3. 1 \in 1..n /\ 1 - 1 = 0
  BY <1>1
<1>4. IF Head(q).t = "data" /\ Head(q).s = s THEN f[1] = a + 1 /\ Head(q).v = a + 1
                                             ELSE f[1] = a
  BY <1>1, <1>2, <1>3, Zenon
<1> DEFINE g == [i \in 0..(n - 1) |-> f[i + 1]]
<1> HIDE DEF n, y
<1>5. /\ g \in [0..(n - 1) -> Int] /\ \A i \in 0..(n - 1) : g[i] = f[i + 1]
      /\ g[0] = f[1] /\ g[n - 1] = b
  BY <1>1, <1>2
<1> HIDE DEF g
<1>6. ASSUME NEW i \in 0..(n - 1), NEW j \in 0..(n - 1), i <= j PROVE g[i] <= g[j]
  <2>1. i + 1 \in 0..n /\ j + 1 \in 0..n /\ i + 1 <= j + 1
    BY <1>1, <1>6
  <2>2. f[i + 1] <= f[j + 1]
    BY <1>2, <2>1, Zenon
  <2> QED
    BY <1>5, <2>2, Zenon
<1>7. ASSUME NEW i \in 1..(n - 1)
      PROVE  /\ IF y[i].t = "data" /\ y[i].s = s THEN g[i] = g[i - 1] + 1 /\ y[i].v = g[i]
                                                 ELSE g[i] = g[i - 1]
             /\ y[i].t = "exit" => g[i] = b
  <2>1. i + 1 \in 1..n /\ (i + 1) - 1 = i /\ i \in 0..(n - 1) /\ i - 1 \in 0..(n - 1) /\ (i - 1) + 1 = i
    BY <1>1
  <2>2. y[i] = q[i + 1] /\ g[i] = f[i + 1] /\ g[i - 1] = f[i]
    BY <1>1, <1>5, <2>1, Zenon
  <2> QED
    BY <1>2, <2>1, <2>2, Zenon
<1>8. Runs(y, s, f[1], b)
  <2> DEFINE m == n - 1
  <2>1. m = Len(y) /\ g \in [0..m -> Int] /\ g[0] = f[1] /\ g[m] = b
    BY <1>1, <1>5, Zenon
  <2>2. \A i, j \in 0..m : i <= j => g[i] <= g[j]
    BY <1>6, Zenon
  <2>3. \A i \in 1..m :
            /\ IF y[i].t = "data" /\ y[i].s = s THEN g[i] = g[i - 1] + 1 /\ y[i].v = g[i]
                                                ELSE g[i] = g[i - 1]
            /\ y[i].t = "exit" => g[i] = b
    BY <1>7, Zenon
  <2> HIDE DEF m
  <2> QED
    BY ONLY <2>1, <2>2, <2>3, RunsBy, Zenon
<1> QED
  BY <1>4, <1>8, Zenon DEF y

(* What has arrived when a connection breaks. *)
LEMMA RunsPrefix ==
    ASSUME NEW q \in Seq(Frames), NEW k \in 0..Len(q), NEW s, NEW a, NEW b, Runs(q, s, a, b)
    PROVE  \E c \in Int : /\ Runs(SubSeq(q, 1, k), s, a, c) /\ c <= b
                          /\ HasExit(SubSeq(q, 1, k)) => c = b
<1> DEFINE n == Len(q)
           y == SubSeq(q, 1, k)
<1>1. n \in Nat /\ k \in 0..n /\ Len(y) = k /\ \A i \in 1..k : y[i] = q[i]
  OBVIOUS
<1>2. PICK f \in [0..n -> Int] :
        /\ f[0] = a /\ f[n] = b
        /\ \A i, j \in 0..n : i <= j => f[i] <= f[j]
        /\ \A i \in 1..n :
              /\ IF q[i].t = "data" /\ q[i].s = s THEN f[i] = f[i - 1] + 1 /\ q[i].v = f[i]
                                                  ELSE f[i] = f[i - 1]
              /\ q[i].t = "exit" => f[i] = b
  BY Zenon DEF Runs
<1> DEFINE g == [i \in 0..k |-> f[i]]
<1> HIDE DEF n, y
<1>3. /\ g \in [0..k -> Int] /\ g[0] = a /\ g[k] = f[k] /\ f[k] \in Int /\ f[k] <= b
      /\ \A i \in 0..k : g[i] = f[i]
  BY <1>1, <1>2
<1> HIDE DEF g
<1>4. \A i, j \in 0..k : i <= j => g[i] <= g[j]
  <2> SUFFICES ASSUME NEW i \in 0..k, NEW j \in 0..k, i <= j PROVE g[i] <= g[j]
    BY Zenon
  <2>1. i \in 0..n /\ j \in 0..n
    BY <1>1
  <2>2. f[i] <= f[j]
    BY <1>2, <2>1, Zenon
  <2> QED
    BY <1>3, <2>2, Zenon
<1>5. ASSUME NEW i \in 1..k
      PROVE  /\ IF y[i].t = "data" /\ y[i].s = s THEN g[i] = g[i - 1] + 1 /\ y[i].v = g[i]
                                                 ELSE g[i] = g[i - 1]
             /\ y[i].t = "exit" => g[i] = g[k] /\ g[k] = b
  <2>1. i \in 1..n /\ i \in 0..k /\ i - 1 \in 0..k /\ k \in 0..k /\ i <= k
    BY <1>1
  <2>2. y[i] = q[i] /\ g[i] = f[i] /\ g[i - 1] = f[i - 1] /\ g[i] <= g[k]
    BY <1>1, <1>3, <1>4, <2>1, Zenon
  <2>3. y[i].t = "exit" => g[i] = b
    BY <1>2, <2>1, <2>2, Zenon
  <2>4. g[k] \in Int /\ g[k] <= b /\ b \in Int
    BY <1>1, <1>2, <1>3
  <2>5. y[i].t = "exit" => g[k] = b
    BY <2>2, <2>3, <2>4
  <2> QED
    BY <1>2, <2>1, <2>2, <2>3, <2>5, Zenon
<1>6. Runs(y, s, a, f[k])
  <2>1. k = Len(y) /\ g \in [0..k -> Int] /\ g[0] = a /\ g[k] = f[k]
    BY <1>1, <1>3, Zenon
  <2>2. \A i \in 1..k :
            /\ IF y[i].t = "data" /\ y[i].s = s THEN g[i] = g[i - 1] + 1 /\ y[i].v = g[i]
                                                ELSE g[i] = g[i - 1]
            /\ y[i].t = "exit" => g[i] = f[k]
    BY <1>5, <2>1, Zenon
  <2> QED
    BY ONLY <2>1, <2>2, <1>4, RunsBy, Zenon
<1>7. HasExit(y) => f[k] = b
  BY <1>1, <1>3, <1>5, Zenon DEF HasExit
<1> QED
  BY <1>3, <1>6, <1>7, Zenon DEF y

-----------------------------------------------------------------------------
(* Types *)

(* A frame that is sent has the parts of a frame. *)
LEMMA FrameType ==
    ASSUME NEW t \in FrameTypes, NEW s \in Streams, NEW v \in Int
    PROVE  Frame(t, s, v) \in Frames
BY Zenon DEF Frame, Frames

(* The frames of a queue with one more. *)
LEMMA AppendedFrames ==
    ASSUME NEW q \in Seq(Frames), NEW x \in Frames, NEW i \in 1..Len(Append(q, x))
    PROVE  Append(q, x)[i] = x \/ (i \in 1..Len(q) /\ Append(q, x)[i] = q[i])
OBVIOUS

(* The agent's own steps. *)
LEMMA AgentTypes ==
    ASSUME TypeInv, AgentNext, UNCHANGED localVars
    PROVE  TypeInv'
<1> USE DEF link, athreads, group
<1>1. /\ UNCHANGED <<c2b, b2c, rf, rw, sp, rb, shimOut, next, rcode, shimCode>>
      /\ 0 \in Streams /\ OutStreams \subseteq Streams
  BY AgentAssumption, Zenon DEF localVars, shimVars, sockVars, runVars, Streams
<1>2. ASSUME NEW t \in FrameTypes, NEW s \in Streams, NEW v \in Int,
             up' \in {up, Append(up, Frame(t, s, v))}
      PROVE  up' \in Seq(Frames)
  <2>1. Frame(t, s, v) \in Frames
    BY FrameType, Zenon
  <2>2. up \in Seq(Frames)
    BY Zenon DEF TypeInv
  <2>3. Append(up, Frame(t, s, v)) \in Seq(Frames)
    BY <2>1, <2>2, AppendedIs, Zenon
  <2> QED
    BY <1>2, <2>2, <2>3, Zenon
<1>3. ASSUME Log \/ LoopWarn \/ LoopSignal \/ SendRefusal \/ SendExit PROVE up' \in Seq(Frames)
  <2>1. "log" \in FrameTypes /\ "exit" \in FrameTypes /\ 0 \in Int /\ 127 \in Int /\ acode \in Int
    BY DEF TypeInv, FrameTypes
  <2>2. \E f \in {Frame("log", 0, 0), Frame("exit", 0, 127), Frame("exit", 0, acode)} :
            up' \in {up, Append(up, f)}
    BY <1>3, Zenon DEF Log, LoopWarn, LoopSignal, SendRefusal, SendExit, LogFrame, Send
  <2> QED
    BY <1>1, <1>2, <2>1, <2>2, Zenon
<1>4. down # <<>> => Tail(down) \in Seq(Frames) /\ Head(down) \in Frames
  BY DEF TypeInv
<1>5. CASE \/ Log \/ ReadRequest \/ StartFails \/ SendRefusal \/ Return \/ SelectMuxDone
           \/ GraceExpired \/ JoinMux \/ SelectChildDone \/ GraceDone \/ SendExit
  <2>1. UNCHANGED <<aloop, abridge, outPipe, inPipe, got, wrote, inClosed, status>>
    BY <1>5, Zenon DEF Log, ReadRequest, StartFails, SendRefusal, Return, SelectMuxDone,
       GraceExpired, JoinMux, SelectChildDone, GraceDone, SendExit, Send
  <2>2. acode' \in Int /\ childDone' \in Int
    BY <1>5 DEF Log, ReadRequest, StartFails, SendRefusal, Return, SelectMuxDone, GraceExpired,
                JoinMux, SelectChildDone, GraceDone, SendExit, Send, TypeInv
  <2>3. down' \in Seq(Frames)
    BY <1>4, <1>5, Zenon DEF Log, ReadRequest, StartFails, SendRefusal, Return, SelectMuxDone,
                GraceExpired, JoinMux, SelectChildDone, GraceDone, SendExit, TypeInv
  <2>4. up' \in Seq(Frames)
    BY <1>3, <1>5, Zenon DEF ReadRequest, StartFails, Return, SelectMuxDone, GraceExpired, JoinMux,
                SelectChildDone, GraceDone, TypeInv
  <2> HIDE DEF link, athreads, group
  <2> QED
    BY <1>1, <2>1, <2>2, <2>3, <2>4, Zenon DEF TypeInv
<1>6. CASE StartChild \/ StartBridges \/ Terminate \/ Kill \/ WaitFor
  <2>1. UNCHANGED <<down, up, outPipe, inPipe, got, wrote, inClosed, acode>>
    BY <1>6, Zenon DEF StartChild, StartBridges, Terminate, Kill, WaitFor
  <2>2. aloop' \in [at : Places, s : Streams, v : Int]
    <3>1. [aloop EXCEPT !.at = "decode"] \in [at : Places, s : Streams, v : Int]
      BY Zenon DEF TypeInv, Places
    <3> QED
      BY <1>6, <3>1, Zenon DEF StartChild, StartBridges, Terminate, Kill, WaitFor, TypeInv
  <2>3. abridge' \in [OutStreams -> Chunk]
    <3>1. [at |-> "read", v |-> 0] \in Chunk
      BY DEF Chunk, Places
    <3> QED
      BY <1>6, <3>1, Zenon DEF StartChild, StartBridges, Terminate, Kill, WaitFor, TypeInv
  <2>4. childDone' \in Int /\ status' \in Int
    BY <1>6 DEF StartChild, StartBridges, Terminate, Kill, WaitFor, SignalGroup, TypeInv
  <2> HIDE DEF link, athreads, group
  <2> QED
    BY <1>1, <2>1, <2>2, <2>4, <2>3, Zenon DEF TypeInv
<1>7. CASE LoopEOF \/ LoopWarn \/ LoopData \/ LoopWrite \/ LoopStreamEOF \/ LoopSignal
  <2>1. UNCHANGED <<abridge, outPipe, got, wrote, acode, childDone>>
    BY <1>7, Zenon DEF LoopEOF, LoopWarn, LoopData, LoopWrite, LoopStreamEOF, LoopSignal, Send
  <2>2. LoopTop \in [at : Places, s : Streams, v : Int]
    BY <1>1 DEF LoopTop, Places
  <2>3. aloop' \in [at : Places, s : Streams, v : Int]
    <3>1. \A at \in Places : [aloop EXCEPT !.at = at] \in [at : Places, s : Streams, v : Int]
      BY Zenon DEF TypeInv
    <3>2. {"done", "warn", "write"} \subseteq Places
      BY Zenon DEF Places
    <3>3. CASE LoopEOF \/ LoopWarn
      BY <3>1, <3>2, <3>3, Zenon DEF LoopEOF, LoopWarn, Send, TypeInv
    <3>4. CASE LoopData
      BY <1>4, <3>2, <3>4, Zenon DEF LoopData, Frames
    <3>5. CASE LoopWrite \/ LoopStreamEOF \/ LoopSignal
      BY <2>2, <3>5, Zenon DEF LoopWrite, LoopStreamEOF, LoopSignal, Send, TypeInv
    <3> QED
      BY <1>7, <3>3, <3>4, <3>5, Zenon
  <2>4. down' \in Seq(Frames)
    BY <1>4, <1>7, Zenon DEF LoopEOF, LoopWarn, LoopData, LoopWrite, LoopStreamEOF, LoopSignal,
       TypeInv
  <2>5. up' \in Seq(Frames)
    BY <1>3, <1>7, Zenon DEF LoopEOF, LoopData, LoopWrite, LoopStreamEOF, TypeInv
  <2>6. inPipe' \in [InStreams -> Seq(Int)] /\ DOMAIN inClosed' = InStreams
    <3>1. aloop.v \in Int
      BY Zenon DEF TypeInv
    <3>2. CASE LoopWrite /\ inPipe' = [inPipe EXCEPT ![aloop.s] = Append(@, aloop.v)]
      <4>1. inPipe \in [InStreams -> Seq(Int)] /\ DOMAIN inClosed = InStreams /\ UNCHANGED inClosed
        BY <3>2, Zenon DEF LoopWrite, TypeInv
      <4>2. \A r \in InStreams : Append(inPipe[r], aloop.v) \in Seq(Int)
        BY <3>1, <4>1
      <4> QED
        BY <3>2, <4>1, <4>2, Zenon
    <3>3. CASE UNCHANGED inPipe
      BY <1>7, <3>3, Zenon DEF LoopEOF, LoopWarn, LoopData, LoopWrite, LoopStreamEOF,
         LoopSignal, Send, TypeInv
    <3> QED
      BY <1>7, <3>2, <3>3, Zenon DEF LoopEOF, LoopWarn, LoopData, LoopWrite, LoopStreamEOF,
         LoopSignal, Send
  <2>7. status' \in Int
    BY <1>7 DEF LoopEOF, LoopWarn, LoopData, LoopWrite, LoopStreamEOF, LoopSignal, Send,
       SignalGroup, TypeInv
  <2> HIDE DEF link, athreads, group
  <2> QED
    BY <1>1, <2>1, <2>3, <2>4, <2>5, <2>6, <2>7, Zenon DEF TypeInv
<1>8. ASSUME NEW s \in OutStreams, BridgeRead(s) \/ BridgeSend(s) PROVE TypeInv'
  <2>1. UNCHANGED <<down, aloop, inPipe, got, wrote, inClosed, acode, childDone, status>>
    BY <1>8, Zenon DEF BridgeRead, BridgeSend, Send
  <2>2. outPipe[s] # <<>> => Head(outPipe[s]) \in Int /\ Tail(outPipe[s]) \in Seq(Int)
    BY DEF TypeInv
  <2>3. abridge' \in [OutStreams -> Chunk] /\ outPipe' \in [OutStreams -> Seq(Int)]
    <3>1. abridge \in [OutStreams -> Chunk] /\ outPipe \in [OutStreams -> Seq(Int)]
      BY Zenon DEF TypeInv
    <3>2. \A v \in Int : \A at \in {"send", "read", "done"} : [at |-> at, v |-> v] \in Chunk
      BY Zenon DEF Chunk, Places
    <3>3. [abridge[s] EXCEPT !.at = "eof"] \in Chunk
      BY <3>1, Zenon DEF Chunk, Places
    <3>4. CASE BridgeRead(s)
      <4>1. CASE /\ abridge' = [abridge EXCEPT ![s] = [at |-> "send", v |-> Head(outPipe[s])]]
                 /\ outPipe' = [outPipe EXCEPT ![s] = Tail(@)] /\ outPipe[s] # <<>>
        BY <2>2, <3>1, <3>2, <4>1, Zenon
      <4>2. CASE abridge' = [abridge EXCEPT ![s].at = "eof"] /\ UNCHANGED outPipe
        BY <3>1, <3>3, <4>2, Zenon
      <4> QED
        BY <3>4, <4>1, <4>2, Zenon DEF BridgeRead
    <3>5. CASE BridgeSend(s)
      <4>1. UNCHANGED outPipe /\ (UNCHANGED abridge \/ \E at \in {"read", "done"} :
                abridge' = [abridge EXCEPT ![s] = [at |-> at, v |-> 0]])
        <5>1. UNCHANGED outPipe /\ (UNCHANGED abridge \/ abridge' = [abridge EXCEPT ![s] =
                  [at |-> IF abridge[s].at = "send" THEN "read" ELSE "done", v |-> 0]])
          BY <3>5, Zenon DEF BridgeSend, Send
        <5> QED
          BY <5>1, Zenon
      <4>2. \A at \in {"read", "done"} : [at |-> at, v |-> 0] \in Chunk
        BY DEF Chunk, Places
      <4>3. ASSUME NEW x \in Chunk PROVE [abridge EXCEPT ![s] = x] \in [OutStreams -> Chunk]
        BY <3>1, Zenon
      <4>4. abridge' \in [OutStreams -> Chunk]
        BY <3>1, <4>1, <4>2, <4>3, Zenon
      <4> QED
        BY <3>1, <4>1, <4>4, Zenon
    <3> QED
      BY <1>8, <3>4, <3>5, Zenon
  <2>4. up' \in Seq(Frames)
    <3>1. abridge[s].v \in Int /\ s \in Streams /\ "data" \in FrameTypes /\ "eof" \in FrameTypes
      BY <1>1, Zenon DEF TypeInv, Chunk, FrameTypes
    <3>2. CASE BridgeSend(s)
      <4>1. \E t \in FrameTypes : up' \in {up, Append(up, Frame(t, s, abridge[s].v))}
        BY <3>1, <3>2, Zenon DEF BridgeSend, Send
      <4> QED
        BY <1>2, <3>1, <4>1, Zenon
    <3> QED
      BY <1>8, <3>2, Zenon DEF BridgeRead, TypeInv
  <2> HIDE DEF link, athreads, group
  <2> QED
    BY <1>1, <2>1, <2>3, <2>4, Zenon DEF TypeInv
<1> QED
  BY <1>5, <1>6, <1>7, <1>8, Zenon DEF AgentNext, AgentMain, AgentLoop, AgentBridge

(* The steps of the group. *)
LEMMA GroupTypes ==
    ASSUME TypeInv, Group, UNCHANGED localVars
    PROVE  TypeInv'
<1>1. UNCHANGED <<c2b, b2c, rf, rw, sp, rb, shimOut, next, rcode, shimCode>>
  BY Zenon DEF localVars, shimVars, sockVars, runVars
<1>2. UNCHANGED <<down, up, aloop, abridge, acode, childDone, inClosed>>
  BY Zenon DEF Group, ProcExit, ProcFork, ProcDropOutput, ProcWrite, ProcRead, link, athreads
<1>3. status' \in Int
  <2>1. \A c \in Codes \cup {143} : c \in Int
    BY AgentAssumption
  <2>2. status' = status \/ status' \in Codes \cup {143}
    BY Zenon DEF Group, ProcExit, ProcFork, ProcDropOutput, ProcWrite, ProcRead
  <2> QED
    BY <2>1, <2>2, Zenon DEF TypeInv
<1>4. wrote' \in [OutStreams -> Nat] /\ outPipe' \in [OutStreams -> Seq(Int)]
  <2>1. ASSUME NEW p, NEW s \in OutStreams, ProcWrite(p, s)
        PROVE  wrote' \in [OutStreams -> Nat] /\ outPipe' \in [OutStreams -> Seq(Int)]
    BY <2>1 DEF ProcWrite, TypeInv
  <2> QED
    BY <2>1, Zenon DEF Group, ProcExit, ProcFork, ProcDropOutput, ProcRead, TypeInv
<1>5. inPipe' \in [InStreams -> Seq(Int)] /\ got' \in [InStreams -> Seq(Int)]
  <2>1. ASSUME NEW p, NEW s \in InStreams, ProcRead(p, s)
        PROVE  inPipe' \in [InStreams -> Seq(Int)] /\ got' \in [InStreams -> Seq(Int)]
    <3>1. Tail(inPipe[s]) \in Seq(Int) /\ Head(inPipe[s]) \in Int
      BY <2>1 DEF ProcRead, TypeInv
    <3> QED
      BY <2>1, <3>1 DEF ProcRead, TypeInv
  <2> QED
    BY <2>1, Zenon DEF Group, ProcExit, ProcFork, ProcDropOutput, ProcWrite, TypeInv
<1> QED
  BY <1>1, <1>2, <1>3, <1>4, <1>5, Zenon DEF TypeInv

(* A queue that gained one frame, or lost its first one. *)
LEMMA QueueTypes ==
    ASSUME NEW q \in Seq(Frames)
    PROVE  /\ \A x \in Frames : Append(q, x) \in Seq(Frames)
           /\ q # <<>> => Tail(q) \in Seq(Frames) /\ Head(q) \in Frames
           /\ \A n \in 0..Len(q) : SubSeq(q, 1, n) \in Seq(Frames)
BY AppendedIs

(* The steps of the shim and of the broker. *)
LEMMA BrokerTypes ==
    ASSUME TypeInv,
           \/ UserSignals \/ ShimForwardSignal \/ ShimReceive \/ ShimKilled
           \/ \E s \in InStreams : ShimStream(s) \/ ShimStreamEnd(s) \/ PipeToRunner(s)
           \/ ReadFramesDecode \/ ReadFramesEnd \/ ReadFramesSignal \/ ReadFramesFdGone
           \/ \E s \in OutStreams : StreamPipe(s)
           \/ BrokerClosePipes \/ BrokerDrained \/ BrokerExit
    PROVE  TypeInv'
<1> USE DEF shimVars, sockVars, runVars
<1>1. 0 \in Streams /\ OutStreams \subseteq Streams /\ InStreams \subseteq Streams
  BY AgentAssumption, Zenon DEF Streams
<1>2. UNCHANGED <<down, up, aloop, abridge, outPipe, inPipe, got, wrote, inClosed, acode, childDone,
                  status, rw, rcode>>
  BY Zenon DEF UserSignals, ShimForwardSignal, ShimReceive, ShimKilled, ShimStream, ShimStreamEnd,
         PipeToRunner, ReadFramesDecode, ReadFramesEnd, ReadFramesSignal, ReadFramesFdGone,
         StreamPipe, BrokerClosePipes, BrokerDrained, BrokerExit, agentVars
<1>3. ASSUME c2b' \in Seq(Frames), b2c' \in Seq(Frames),
             rf' \in [at : Places, s : Streams, v : Int],
             sp' \in [OutStreams -> Chunk], rb' \in [InStreams -> Chunk],
             shimOut' \in [OutStreams -> Seq(Int)], next' \in [InStreams -> Nat], shimCode' \in Int
      PROVE  TypeInv'
  BY <1>2, <1>3, Zenon DEF TypeInv
<1>4. CASE UserSignals \/ ShimKilled \/ BrokerClosePipes \/ BrokerDrained
           \/ \E s \in InStreams : ShimStreamEnd(s)
  BY <1>3, <1>4, Zenon DEF UserSignals, ShimKilled, BrokerClosePipes, BrokerDrained,
     ShimStreamEnd, TypeInv
<1>5. ASSUME NEW t \in {"data", "sig"}, NEW s \in InStreams, NEW v \in Int, ShimSend(Frame(t, s, v))
      PROVE  c2b' \in Seq(Frames)
  <2>1. Frame(t, s, v) \in Frames
    BY <1>1, FrameType, Zenon DEF FrameTypes
  <2>2. Append(c2b, Frame(t, s, v)) \in Seq(Frames)
    BY <2>1, QueueTypes, Zenon DEF TypeInv
  <2> QED
    BY <1>5, <2>2, Zenon DEF ShimSend, TypeInv
<1>6. CASE ShimForwardSignal
  <2>1. c2b' \in Seq(Frames)
    <3>1. 0 \in InStreams /\ SIGINT \in Int
      BY AgentAssumption, SMTT(30) DEF SIGINT
    <3> QED
      BY <1>5, <1>6, <3>1, Zenon DEF ShimForwardSignal
  <2> QED
    BY <1>3, <1>6, <2>1, Zenon DEF ShimForwardSignal, TypeInv
<1>7. ASSUME NEW s \in InStreams, ShimStream(s) PROVE TypeInv'
  <2>1. next[s] \in Int /\ next' \in [InStreams -> Nat]
    <3>1. next \in [InStreams -> Nat] /\ next' = [next EXCEPT ![s] = @ + 1]
      BY <1>7, Zenon DEF ShimStream, TypeInv
    <3> QED
      BY <3>1, SMTT(30)
  <2>2. c2b' \in Seq(Frames)
    BY <1>5, <1>7, <2>1, Zenon DEF ShimStream
  <2> QED
    BY <1>3, <1>7, <2>1, <2>2, Zenon DEF ShimStream, TypeInv
<1>8. CASE ShimReceive
  <2>1. b2c # <<>> => Tail(b2c) \in Seq(Frames) /\ Head(b2c).v \in Int
    BY QueueTypes, Zenon DEF TypeInv, Frames
  <2>2. \A v \in Int, s \in OutStreams : Append(shimOut[s], v) \in Seq(Int)
    BY DEF TypeInv
  <2>3. b2c \in Seq(Frames) /\ shimCode \in Int /\ shimOut \in [OutStreams -> Seq(Int)]
    BY Zenon DEF TypeInv
  <2>4. \/ UNCHANGED shimOut
        \/ b2c # <<>> /\ shimOut' = [shimOut EXCEPT ![Head(b2c).s] = Append(@, Head(b2c).v)]
    BY <1>8, Zenon DEF ShimReceive
  <2>5. shimOut' \in [OutStreams -> Seq(Int)]
    <3>1. CASE b2c # <<>> /\ shimOut' = [shimOut EXCEPT ![Head(b2c).s] = Append(@, Head(b2c).v)]
      <4> DEFINE r == Head(b2c).s
                 x == Head(b2c).v
      <4>1. shimOut' = [shimOut EXCEPT ![r] = Append(@, x)] /\ x \in Int
        BY <2>1, <3>1, Zenon
      <4> HIDE DEF r, x
      <4> QED
        BY <2>2, <2>3, <4>1, Zenon
    <3> QED
      BY <2>3, <2>4, <3>1, Zenon
  <2>6. b2c' \in Seq(Frames)
    BY <1>8, <2>1, <2>3, Zenon DEF ShimReceive
  <2>7. UNCHANGED shimCode \/ (b2c # <<>> /\ shimCode' = Head(b2c).v) \/ shimCode' = 127
    BY <1>8, Zenon DEF ShimReceive
  <2>8. shimCode' \in Int
    BY <2>1, <2>3, <2>7
  <2> QED
    BY <1>3, <1>8, <2>5, <2>6, <2>8, Zenon DEF ShimReceive, TypeInv
<1>9. /\ rfTop \in [at : Places, s : Streams, v : Int]
      /\ [rfTop EXCEPT !.at = "done"] \in [at : Places, s : Streams, v : Int]
  BY <1>1, SMTT(30) DEF rfTop, Places
<1>10. CASE ReadFramesDecode
  <2>1. Tail(c2b) \in Seq(Frames) /\ Head(c2b) \in Frames
    BY <1>10, QueueTypes, Zenon DEF TypeInv, ReadFramesDecode
  <2>2. rf' \in [at : Places, s : Streams, v : Int]
    BY <1>10, <2>1, Zenon DEF ReadFramesDecode, Frames, Places
  <2> QED
    BY <1>3, <1>10, <2>1, <2>2, Zenon DEF ReadFramesDecode, TypeInv
<1>11. CASE ReadFramesEnd \/ ReadFramesSignal \/ ReadFramesFdGone
  BY <1>3, <1>9, <1>11, Zenon DEF ReadFramesEnd, ReadFramesSignal, ReadFramesFdGone, TypeInv
<1>12. ASSUME NEW s \in InStreams, PipeToRunner(s) PROVE TypeInv'
  <2>1. [at |-> "send", v |-> rf.v] \in Chunk
    BY Zenon DEF TypeInv, Chunk, Places
  <2>2. rb' \in [InStreams -> Chunk]
    BY <1>12, <2>1, Zenon DEF PipeToRunner, TypeInv
  <2> QED
    BY <1>3, <1>9, <1>12, <2>2, Zenon DEF PipeToRunner, TypeInv
<1>13. ASSUME NEW t \in {"data", "exit"}, NEW s \in Streams, NEW v \in Int, BrokerSend(Frame(t, s, v))
       PROVE  b2c' \in Seq(Frames)
  <2>1. Frame(t, s, v) \in Frames
    BY <1>1, FrameType, Zenon DEF FrameTypes
  <2>2. Append(b2c, Frame(t, s, v)) \in Seq(Frames)
    BY <2>1, QueueTypes, Zenon DEF TypeInv
  <2> QED
    BY <1>13, <2>2, Zenon DEF BrokerSend, TypeInv
<1>14. ASSUME NEW s \in OutStreams, StreamPipe(s) PROVE TypeInv'
  <2>1. [at |-> "read", v |-> 0] \in Chunk /\ [sp[s] EXCEPT !.at = "done"] \in Chunk /\ sp[s].v \in Int
    <3>1. sp[s] \in Chunk
      BY Zenon DEF TypeInv
    <3> QED
      BY <3>1 DEF Chunk, Places
  <2>2. sp' \in [OutStreams -> Chunk]
    <3>1. sp \in [OutStreams -> Chunk]
      BY Zenon DEF TypeInv
    <3>2. \/ sp' = [sp EXCEPT ![s].at = "done"]
          \/ sp' = [sp EXCEPT ![s] = [at |-> "read", v |-> 0]]
      BY <1>14, Zenon DEF StreamPipe
    <3> QED
      BY <2>1, <3>1, <3>2, Zenon
  <2>3. b2c' \in Seq(Frames)
    BY <1>1, <1>13, <1>14, <2>1, Zenon DEF StreamPipe, TypeInv
  <2> QED
    BY <1>3, <1>14, <2>2, <2>3, Zenon DEF StreamPipe, TypeInv
<1>15. CASE BrokerExit
  <2>1. (IF rcode < 0 THEN 127 ELSE rcode) \in Int
    BY DEF TypeInv
  <2>2. b2c' \in Seq(Frames)
    BY <1>1, <1>13, <1>15, <2>1, Zenon DEF BrokerExit
  <2> QED
    BY <1>3, <1>15, <2>2, Zenon DEF BrokerExit, TypeInv
<1> QED
  BY <1>4, <1>6, <1>7, <1>8, <1>10, <1>11, <1>12, <1>14, <1>15, Zenon

(* The steps of the runner, and the faults. *)
LEMMA RunnerTypes ==
    ASSUME TypeInv,
           \/ \E s \in InStreams : RunnerBridge(s)
           \/ RunnerFails \/ RunnerRequest \/ RunnerSignal \/ RunnerLoop \/ RunnerWrite
           \/ RunnerClose \/ RunnerJoin \/ LinkLost \/ ContextEnds \/ BrokerDies
    PROVE  TypeInv'
<1> USE DEF shimVars, sockVars, runVars
<1>1. 0 \in Streams /\ InStreams \subseteq Streams /\ SIGINT \in Int
  BY AgentAssumption, SMTT(30) DEF Streams, SIGINT
<1>2. UNCHANGED <<aloop, abridge, outPipe, inPipe, got, wrote, inClosed, acode, childDone, status,
                  next, shimCode, shimOut, c2b, b2c>>
  BY Zenon DEF RunnerBridge, RunnerFails, RunnerRequest, RunnerSignal, RunnerLoop, RunnerWrite,
     RunnerClose, RunnerJoin, LinkLost, ContextEnds, BrokerDies, agentVars, athreads, group
<1>3. ASSUME down' \in Seq(Frames), up' \in Seq(Frames),
             rf' \in [at : Places, s : Streams, v : Int], rw' \in [s : Streams, v : Int],
             sp' \in [OutStreams -> Chunk], rb' \in [InStreams -> Chunk], rcode' \in Int
      PROVE  TypeInv'
  BY <1>2, <1>3, Zenon DEF TypeInv
<1>4. /\ down \in Seq(Frames) /\ up \in Seq(Frames)
      /\ rf \in [at : Places, s : Streams, v : Int] /\ rw \in [s : Streams, v : Int]
      /\ sp \in [OutStreams -> Chunk] /\ rb \in [InStreams -> Chunk] /\ rcode \in Int
  BY Zenon DEF TypeInv
<1>5. \A at \in Places, v \in Int : [at |-> at, v |-> v] \in Chunk
  BY Zenon DEF Chunk
<1>6. ASSUME NEW t \in FrameTypes, NEW s \in Streams, NEW v \in Int, RunnerSend(Frame(t, s, v))
      PROVE  down' \in Seq(Frames)
  <2>1. Append(down, Frame(t, s, v)) \in Seq(Frames)
    BY <1>4, QueueTypes, FrameType, Zenon
  <2> QED
    BY <1>6, <2>1, Zenon DEF RunnerSend
<1>7. {"data", "eof", "sig", "config", "exec"} \subseteq FrameTypes
      /\ {"read", "send", "eof", "done", "idle"} \subseteq Places
  BY Zenon DEF FrameTypes, Places
<1>8. ASSUME NEW s \in InStreams, RunnerBridge(s) PROVE TypeInv'
  <2>1. rb[s].v \in Int /\ s \in Streams
    BY <1>1, <1>4, Zenon DEF Chunk
  <2>2. down' \in Seq(Frames)
    <3>1. \/ UNCHANGED down \/ RunnerSend(Frame("data", s, rb[s].v)) \/ RunnerSend(Frame("eof", s, 0))
      BY <1>8, Zenon DEF RunnerBridge, RunnerSendFails
    <3> QED
      BY <1>4, <1>6, <1>7, <2>1, <3>1
  <2>3. rb' \in [InStreams -> Chunk]
    <3>1. \E at \in {"eof", "done"} :
              \/ rb' = [rb EXCEPT ![s].at = at]
              \/ rb' = [rb EXCEPT ![s] = [at |-> "read", v |-> 0]]
              \/ rb' = [rb EXCEPT ![s] = [at |-> "done", v |-> 0]]
      BY <1>8, Zenon DEF RunnerBridge
    <3>2. rb[s] \in Chunk
      BY <1>4, Zenon
    <3>3. \A at \in {"eof", "done"} : [rb[s] EXCEPT !.at = at] \in Chunk
      BY <3>2, Zenon DEF Chunk, Places
    <3>4. [at |-> "read", v |-> 0] \in Chunk /\ [at |-> "done", v |-> 0] \in Chunk
      BY SMTT(30) DEF Chunk, Places
    <3> QED
      BY <1>4, <3>1, <3>3, <3>4, Zenon
  <2> QED
    BY <1>3, <1>4, <1>8, <2>2, <2>3, Zenon DEF RunnerBridge
<1>9. CASE RunnerFails \/ RunnerClose \/ RunnerJoin
  BY <1>3, <1>4, <1>9 DEF RunnerFails, RunnerClose, RunnerJoin, agentVars
<1>10. CASE RunnerRequest
  <2>1. down' \in Seq(Frames)
    <3>1. UNCHANGED down \/ RunnerSend(Frame("config", 0, 0)) \/ RunnerSend(Frame("exec", 0, 0))
      BY <1>10, Zenon DEF RunnerRequest, RunnerSendFails
    <3> QED
      BY <1>1, <1>4, <1>6, <1>7, <3>1
  <2>2. rb' \in [InStreams -> Chunk]
    <3>1. UNCHANGED rb \/ rb' = [s \in InStreams |-> [at |-> "read", v |-> 0]]
      BY <1>10, Zenon DEF RunnerRequest
    <3>2. [at |-> "read", v |-> 0] \in Chunk
      BY DEF Chunk, Places
    <3> QED
      BY <1>4, <3>1, <3>2, Zenon
  <2>3. rcode' \in Int
    BY <1>4, <1>10 DEF RunnerRequest
  <2> QED
    BY <1>3, <1>4, <1>10, <2>1, <2>2, <2>3, Zenon DEF RunnerRequest
<1>11. CASE RunnerSignal
  <2>1. UNCHANGED down \/ RunnerSend(Frame("sig", 0, SIGINT))
    BY <1>11, Zenon DEF RunnerSignal, RunnerSendFails
  <2>2. down' \in Seq(Frames)
    BY <1>1, <1>4, <1>6, <1>7, <2>1, Zenon
  <2> QED
    BY <1>3, <1>4, <1>11, <2>2, Zenon DEF RunnerSignal
<1>12. CASE RunnerLoop
  <2>1. up # <<>> => Tail(up) \in Seq(Frames) /\ Head(up) \in Frames
    BY <1>4, QueueTypes, Zenon
  <2>2. /\ UNCHANGED up \/ (up # <<>> /\ up' = Tail(up))
        /\ UNCHANGED rw \/ (up # <<>> /\ rw' = [s |-> Head(up).s, v |-> Head(up).v])
    BY <1>12, Zenon DEF RunnerLoop
  <2>3. UNCHANGED rcode \/ (up # <<>> /\ rcode' = Head(up).v)
    BY <1>12, Zenon DEF RunnerLoop
  <2>4. up' \in Seq(Frames) /\ rcode' \in Int
    BY <1>4, <2>1, <2>2, <2>3, Zenon DEF Frames
  <2>5. rw' \in [s : Streams, v : Int]
    BY <1>4, <2>1, <2>2 DEF Frames
  <2> QED
    BY <1>3, <1>4, <1>12, <2>4, <2>5, Zenon DEF RunnerLoop
<1>13. CASE RunnerWrite
  <2>1. sp' \in [OutStreams -> Chunk]
    <3>1. UNCHANGED sp \/ sp' = [sp EXCEPT ![rw.s] = [at |-> "send", v |-> rw.v]]
      BY <1>13, Zenon DEF RunnerWrite
    <3>2. [at |-> "send", v |-> rw.v] \in Chunk
      BY <1>4, <1>5, <1>7, Zenon
    <3> QED
      BY <1>4, <3>1, <3>2, Zenon
  <2> QED
    BY <1>3, <1>4, <1>13, <2>1, Zenon DEF RunnerWrite, agentVars
<1>14. CASE LinkLost
  <2>1. down' \in Seq(Frames) /\ up' \in Seq(Frames)
    BY <1>4, <1>14, QueueTypes, Zenon DEF LinkLost
  <2> QED
    BY <1>3, <1>4, <1>14, <2>1, Zenon DEF LinkLost
<1>15. CASE BrokerDies
  <2>1. [at |-> "done", v |-> 0] \in Chunk
    BY DEF Chunk, Places
  <2>2. rb' \in [InStreams -> Chunk] /\ sp' \in [OutStreams -> Chunk]
    BY <1>15, <2>1, Zenon DEF BrokerDies
  <2>3. rf' \in [at : Places, s : Streams, v : Int]
    BY <1>4, <1>15, Zenon DEF BrokerDies, Places
  <2> QED
    BY <1>3, <1>4, <1>15, <2>2, <2>3, Zenon DEF BrokerDies
<1>16. CASE ContextEnds
  BY <1>3, <1>4, <1>16, Zenon DEF ContextEnds, agentVars
<1> QED
  BY <1>8, <1>9, <1>10, <1>11, <1>12, <1>13, <1>14, <1>15, <1>16, Zenon

-----------------------------------------------------------------------------
(* The agent and the group *)

PreStart == {"first", "config", "second", "bad", "return", "building", "start", "failing",
             "refuse"}
Phases == PreStart \cup {"started", "bridge", "select", "lost", "term", "grace", "expired",
                         "kill", "killed", "exited", "drain", "join"}
Reliable == OutStreams \ Extras
Over == proc[Leader] # "none" /\ \A s \in OutStreams : Holders(s) = {}

GroupInv ==
    /\ proc \in [Procs -> {"none", "alive", "dying", "zombie", "gone"}]
    /\ outHold \in [Procs -> SUBSET OutStreams]
    /\ DOMAIN abridge = OutStreams /\ DOMAIN outPipe = OutStreams
    /\ DOMAIN aloop = {"at", "s", "v"} /\ \A s \in OutStreams : DOMAIN abridge[s] = {"at", "v"}
    /\ amain \in Phases
    /\ proc[Leader] = "none" <=> amain \in PreStart
    /\ \A p \in Procs : proc[p] # "none" => proc[Leader] # "none"
    /\ \A p \in Live : outHold[p] \in {{}, OutStreams}
    /\ Leader \in Live => outHold[Leader] = OutStreams
    /\ IF proc[Leader] \in {"zombie", "gone"} THEN status \in Nat ELSE status = -1
    /\ aloop.at = "idle" <=> amain \in PreStart \cup {"started", "bridge"}
    /\ \A s \in OutStreams : abridge[s].at = "idle" <=> amain \in PreStart \cup {"started", "bridge"}
    /\ childDone # -1 => childDone = status
    /\ amain \in {"exited", "drain", "join"} => acode = status /\ status \in Nat
    /\ \A s \in Reliable : abridge[s].at \in {"eof", "done"} => outPipe[s] = <<>> /\ Holders(s) = {}
    /\ amain = "join" => \A s \in OutStreams : abridge[s].at = "done"

(* The first output stream is one of the reliable ones. *)
LEMMA StdoutReliable == 1 \in Reliable /\ Leader \in Procs
BY AgentAssumption, Zenon DEF Reliable, Extras

(* Where each log call of main leads. *)
LEMMA LogLeads ==
    ASSUME NEW m \in DOMAIN LogNext
    PROVE  \/ m = "config" /\ LogNext[m] = "second"
           \/ m = "bad" /\ LogNext[m] = "return"
           \/ m = "building" /\ LogNext[m] = "start"
           \/ m = "failing" /\ LogNext[m] = "refuse"
           \/ m = "started" /\ LogNext[m] = "bridge"
           \/ m = "lost" /\ LogNext[m] = "term"
           \/ m = "expired" /\ LogNext[m] = "kill"
           \/ m = "exited" /\ LogNext[m] = "drain"
BY DEF LogNext

(* Steps of main that change nothing but where it is. *)
LEMMA MainGroup ==
    ASSUME GroupInv, Log \/ ReadRequest \/ StartFails \/ SendRefusal \/ Return \/ SelectMuxDone
                     \/ GraceExpired \/ JoinMux \/ SelectChildDone \/ GraceDone \/ SendExit
    PROVE  GroupInv'
<1>1. UNCHANGED group /\ UNCHANGED <<aloop, abridge>>
  BY Zenon DEF Log, ReadRequest, StartFails, SendRefusal, Return, SelectMuxDone, GraceExpired,
     JoinMux, SelectChildDone, GraceDone, SendExit, Send, link
<1>2. UNCHANGED <<proc, status, outPipe, outHold, aloop, abridge>>
  BY <1>1, Zenon DEF group
<1>3. ASSUME amain' \in Phases, amain' \in PreStart <=> amain \in PreStart,
             amain' \in {"started", "bridge"} <=> amain \in {"started", "bridge"},
             childDone' # -1 => childDone' = status,
             amain' \in {"exited", "drain", "join"} => acode' = status /\ status \in Nat,
             amain' = "join" => \A s \in OutStreams : abridge[s].at = "done"
      PROVE  GroupInv'
  BY <1>2, <1>3, Zenon DEF GroupInv, Live, Holders
<1>4. CASE Log
  <2>1. amain' = amain \/ amain' = LogNext[amain]
    BY <1>4, Zenon DEF Log, Send
  <2>2. UNCHANGED <<acode, childDone>> /\ amain \in DOMAIN LogNext
    BY <1>4, Zenon DEF Log, Send
  <2> QED
    BY <1>3, <2>1, <2>2, LogLeads, Zenon DEF GroupInv, PreStart, Phases
<1>5. CASE ReadRequest \/ StartFails \/ SelectMuxDone \/ GraceExpired
  BY <1>3, <1>5, Zenon DEF ReadRequest, StartFails, SelectMuxDone, GraceExpired, GroupInv, PreStart,
     Phases
<1>6. CASE SendRefusal \/ Return \/ JoinMux
  BY <1>3, <1>6, Zenon DEF SendRefusal, Return, JoinMux, Send, GroupInv, PreStart, Phases
<1>7. CASE SelectChildDone \/ GraceDone
  <2>1. status \in Nat
    BY <1>7, Zenon DEF SelectChildDone, GraceDone, GroupInv
  <2> QED
    BY <1>3, <1>7, <2>1, Zenon DEF SelectChildDone, GraceDone, GroupInv, PreStart, Phases
<1>8. CASE SendExit
  BY <1>3, <1>8, Zenon DEF SendExit, Send, GroupInv, PreStart, Phases
<1> QED
  BY <1>4, <1>5, <1>6, <1>7, <1>8, Zenon

(* Steps of the read loop that change nothing but where it is. *)
LEMMA LoopGroup ==
    ASSUME GroupInv, LoopEOF \/ LoopWarn \/ LoopData \/ LoopWrite \/ LoopStreamEOF
    PROVE  GroupInv'
<1>1. UNCHANGED <<proc, status, outPipe, outHold, abridge, amain, acode, childDone>>
  BY Zenon DEF LoopEOF, LoopWarn, LoopData, LoopWrite, LoopStreamEOF, Send, group
<1>2. aloop.at # "idle" /\ aloop'.at # "idle" /\ DOMAIN aloop' = {"at", "s", "v"}
  <2> USE DEF GroupInv
  <2>1. CASE LoopEOF \/ LoopData \/ LoopWrite \/ LoopStreamEOF
    BY <2>1 DEF LoopEOF, LoopData, LoopWrite, LoopStreamEOF, LoopTop
  <2>2. CASE LoopWarn
    BY <2>2, Zenon DEF LoopWarn, Send
  <2> QED
    BY <2>1, <2>2, Zenon
<1> QED
  BY <1>1, <1>2, Zenon DEF GroupInv, Live, Holders

(* A signal to the group: it starts nobody, and leaves the leader's code    *)
(* alone unless it ends it.                                                 *)
LEMMA SignalDoes ==
    ASSUME GroupInv, NEW sig, SignalGroup(sig)
    PROVE  /\ proc' \in [Procs -> {"none", "alive", "dying", "zombie", "gone"}]
           /\ \A p \in Procs : proc[p] = "none" <=> proc'[p] = "none"
           /\ Live' \subseteq Live
           /\ IF proc'[Leader] \in {"zombie", "gone"} THEN status' \in Nat ELSE status' = -1
           /\ status' = status \/ (Leader \in Live /\ Leader \notin Live')
           /\ childDone # -1 => status' = status
<1>1. CASE UNCHANGED <<proc, status>>
  BY <1>1, Zenon DEF GroupInv, Live
<1>2. CASE /\ proc' = [p \in Procs |->
                 CASE p \notin Struck(sig) -> proc[p]
                   [] p \in Struck(sig) /\ sig # SIGKILL -> "dying"
                   [] p \in Struck(sig) /\ sig = SIGKILL ->
                        IF p = Leader THEN "zombie" ELSE "gone"]
           /\ status' = IF sig = SIGKILL /\ Leader \in Live THEN 137 ELSE status
  <2>1. ASSUME NEW p \in Procs
        PROVE  \/ proc'[p] = proc[p] /\ p \notin Struck(sig)
               \/ proc'[p] = "dying" /\ p \in Live /\ sig # SIGKILL
               \/ proc'[p] = (IF p = Leader THEN "zombie" ELSE "gone") /\ p \in Live /\ sig = SIGKILL
    BY <1>2, Zenon DEF Struck
  <2>2. Leader \in Procs
    BY AgentAssumption, Zenon
  <2>3. sig = SIGKILL => Struck(sig) = Live
    BY Zenon DEF Struck
  <2>4. \A p \in Procs : p \in Live <=> proc[p] \in {"alive", "dying"}
    BY Zenon DEF Live
  <2>5. \A p \in Procs : p \in Live' <=> proc'[p] \in {"alive", "dying"}
    BY Zenon DEF Live
  <2>6. /\ proc' \in [Procs -> {"none", "alive", "dying", "zombie", "gone"}]
        /\ \A p \in Procs : proc[p] = "none" <=> proc'[p] = "none"
    <3>1. \A p \in Procs : proc'[p] \in {"none", "alive", "dying", "zombie", "gone"}
      BY <2>1, Zenon DEF GroupInv
    <3>2. proc' = [p \in Procs |-> proc'[p]]
      BY <1>2, Zenon
    <3> QED
      BY <2>1, <2>4, <3>1, <3>2, Zenon
  <2>7. Live' \subseteq Live
    <3>1. \A p \in Procs : p \in Live' => p \in Live
      BY <2>1, <2>4, <2>5, Zenon
    <3> QED
      BY <3>1, Zenon DEF Live
  <2>8. CASE sig = SIGKILL /\ Leader \in Live
    <3>1. status' = 137 /\ proc'[Leader] = "zombie"
      BY <1>2, <2>1, <2>2, <2>3, <2>8, Zenon
    <3>2. Leader \notin Live'
      BY <2>2, <2>5, <3>1, Zenon
    <3>3. status = -1 /\ childDone = -1
      BY <2>2, <2>4, <2>8, Zenon DEF GroupInv
    <3> QED
      BY <2>6, <2>7, <2>8, <3>1, <3>2, <3>3, Zenon
  <2>9. CASE ~(sig = SIGKILL /\ Leader \in Live)
    <3>1. status' = status
      BY <1>2, <2>9, Zenon
    <3>2. proc'[Leader] \in {"zombie", "gone"} <=> proc[Leader] \in {"zombie", "gone"}
      BY <2>1, <2>2, <2>4, <2>9, Zenon
    <3> QED
      BY <2>6, <2>7, <3>1, <3>2, Zenon DEF GroupInv
  <2> QED
    BY <2>8, <2>9, Zenon
<1> QED
  BY <1>1, <1>2, Zenon DEF SignalGroup

(* No process is started, and the leader's code changes only as it ends. *)
Shrinks ==
    /\ \A s \in OutStreams : Holders(s)' \subseteq Holders(s)
    /\ \A p \in Procs : proc[p] = "none" <=> proc'[p] = "none"
    /\ status' = status \/ (Leader \in Live /\ Leader \notin Live')
    /\ Live' \subseteq Live

(* Processes that end, let go of the output or go on as they were: those    *)
(* that are left hold what they held, or nothing.                           *)
LEMMA GroupShrinks ==
    ASSUME GroupInv,
           proc' \in [Procs -> {"none", "alive", "dying", "zombie", "gone"}],
           \A p \in Procs : proc[p] = "none" <=> proc'[p] = "none",
           Live' \subseteq Live,
           IF proc'[Leader] \in {"zombie", "gone"} THEN status' \in Nat ELSE status' = -1,
           childDone' # -1 => childDone' = status',
           outHold' \in [Procs -> SUBSET OutStreams],
           \A p \in Live' : outHold'[p] \in {{}, outHold[p]},
           Leader \in Live' => outHold'[Leader] = outHold[Leader],
           outPipe' = outPipe, abridge' = abridge,
           amain' = amain \/ (amain = "term" /\ amain' = "grace")
                          \/ (amain = "kill" /\ amain' = "killed"),
           aloop' = aloop \/ (aloop.at # "idle" /\ aloop'.at # "idle"),
           DOMAIN aloop' = {"at", "s", "v"},
           acode' = acode, status' = status \/ (Leader \in Live /\ Leader \notin Live')
    PROVE  GroupInv' /\ Shrinks
<1>1. Leader \in Procs
  BY AgentAssumption, Zenon
<1>2. \A s \in OutStreams : Holders(s)' \subseteq Holders(s)
  BY Zenon DEF Holders
<1>3. /\ amain' \in Phases /\ (amain' \in PreStart <=> amain \in PreStart)
      /\ (amain' \in PreStart \cup {"started", "bridge"} <=> amain \in PreStart \cup {"started", "bridge"})
      /\ amain' \in {"exited", "drain", "join"} <=> amain \in {"exited", "drain", "join"}
      /\ amain' = "join" <=> amain = "join"
  BY Zenon DEF GroupInv, PreStart, Phases
<1>4. \A p \in Live' : outHold'[p] \in {{}, OutStreams}
  BY Zenon DEF GroupInv
<1>5. amain \in {"exited", "drain", "join"} => acode' = status' /\ status' \in Nat
  <2>1. Leader \in Live => status = -1
    BY <1>1, Zenon DEF GroupInv, Live
  <2> QED
    BY <2>1 DEF GroupInv
<1>6. \A s \in Reliable : abridge'[s].at \in {"eof", "done"} => outPipe'[s] = <<>> /\ Holders(s)' = {}
  <2> SUFFICES ASSUME NEW s \in Reliable, abridge'[s].at \in {"eof", "done"}
               PROVE  outPipe'[s] = <<>> /\ Holders(s)' = {}
    BY Zenon
  <2>1. s \in OutStreams
    BY Zenon DEF Reliable
  <2>2. outPipe[s] = <<>> /\ Holders(s) = {}
    BY Zenon DEF GroupInv
  <2>3. Holders(s)' \subseteq Holders(s)
    BY <1>2, <2>1, Zenon
  <2> QED
    BY <2>2, <2>3, Zenon
<1>7. (proc'[Leader] = "none" <=> amain' \in PreStart)
  BY <1>1, <1>3, Zenon DEF GroupInv
<1>8. \A p \in Procs : proc'[p] # "none" => proc'[Leader] # "none"
  BY <1>1, Zenon DEF GroupInv
<1>9. Leader \in Live' => outHold'[Leader] = OutStreams
  BY Zenon DEF GroupInv
<1>10. GroupInv'
  BY <1>2, <1>3, <1>4, <1>5, <1>6, <1>7, <1>8, <1>9, Zenon DEF GroupInv
<1> QED
  BY <1>2, <1>10, Zenon DEF Shrinks

(* The steps GroupShrinks is about. *)
LEMMA EndsGroup ==
    ASSUME GroupInv,
           \/ Terminate \/ Kill \/ LoopSignal \/ WaitFor
           \/ \E p \in Procs : (\E c \in Codes \cup {143} : ProcExit(p, c)) \/ ProcDropOutput(p)
    PROVE  GroupInv' /\ Shrinks
<1> USE DEF athreads, link, group
<1>1. Leader \in Procs
  BY AgentAssumption, Zenon
<1>2. outHold \in [Procs -> SUBSET OutStreams] /\ DOMAIN aloop = {"at", "s", "v"}
      /\ proc \in [Procs -> {"none", "alive", "dying", "zombie", "gone"}]
  BY Zenon DEF GroupInv
<1>3. CASE Terminate \/ Kill
  <2>1. PICK sig : SignalGroup(sig)
    BY <1>3, Zenon DEF Terminate, Kill
  <2>2. /\ UNCHANGED <<outHold, outPipe, abridge, aloop, acode, childDone>>
        /\ (amain = "term" /\ amain' = "grace") \/ (amain = "kill" /\ amain' = "killed")
    BY <1>3, Zenon DEF Terminate, Kill
  <2>3. childDone' # -1 => childDone' = status'
    BY <2>1, <2>2, SignalDoes, Zenon DEF GroupInv
  <2> QED
    BY <1>2, <2>1, <2>2, <2>3, SignalDoes, GroupShrinks, Zenon
<1>4. CASE LoopSignal
  <2>1. CASE UNCHANGED <<group, aloop, abridge, amain, acode, childDone>>
    <3>1. UNCHANGED <<proc, status, outHold, outPipe, aloop, abridge, amain, acode, childDone>>
      BY <2>1, Zenon
    <3>2. GroupInv'
      BY <3>1, Zenon DEF GroupInv, Live, Holders
    <3> HIDE DEF group, athreads, link
    <3>3. Shrinks
      BY <3>1, Zenon DEF Shrinks, Live, Holders
    <3> QED
      BY <3>2, <3>3, Zenon
  <2>2. CASE SignalGroup(Head(down).v) /\ aloop' = LoopTop
             /\ UNCHANGED <<outPipe, outHold, amain, abridge, acode, childDone>>
    <3>1. aloop.at # "idle" /\ aloop'.at # "idle" /\ DOMAIN aloop' = {"at", "s", "v"}
      BY <1>4, <2>2, Zenon DEF LoopSignal, LoopTop
    <3>2. childDone' # -1 => childDone' = status'
      BY <2>2, SignalDoes, Zenon DEF GroupInv
    <3> QED
      BY <1>2, <2>2, <3>1, <3>2, SignalDoes, GroupShrinks, Zenon
  <2> QED
    BY <1>4, <2>1, <2>2, Zenon DEF LoopSignal, Send
<1>5. CASE WaitFor
  <2>1. /\ proc' = [proc EXCEPT ![Leader] = "gone"] /\ proc[Leader] = "zombie"
        /\ childDone' = status
        /\ UNCHANGED <<status, outHold, outPipe, abridge, aloop, amain, acode>>
    BY <1>5, Zenon DEF WaitFor
  <2>2. /\ proc' \in [Procs -> {"none", "alive", "dying", "zombie", "gone"}]
        /\ proc'[Leader] = "gone" /\ \A p \in Procs \ {Leader} : proc'[p] = proc[p]
    BY <1>1, <1>2, <2>1, Zenon
  <2>3. Live' \subseteq Live /\ \A p \in Procs : proc[p] = "none" <=> proc'[p] = "none"
    BY <2>1, <2>2, Zenon DEF Live
  <2>4. status \in Nat
    BY <2>1, Zenon DEF GroupInv
  <2> QED
    BY <1>2, <2>1, <2>2, <2>3, <2>4, GroupShrinks, Zenon
<1>6. ASSUME NEW p \in Procs, NEW c \in Codes \cup {143}, ProcExit(p, c)
      PROVE  GroupInv' /\ Shrinks
  <2>1. /\ p \in Live /\ proc' = [proc EXCEPT ![p] = IF p = Leader THEN "zombie" ELSE "gone"]
        /\ status' = IF p = Leader THEN c ELSE status
        /\ UNCHANGED <<outHold, outPipe, abridge, aloop, amain, acode, childDone>>
    BY <1>6, Zenon DEF ProcExit
  <2>2. /\ proc' \in [Procs -> {"none", "alive", "dying", "zombie", "gone"}]
        /\ proc'[p] = (IF p = Leader THEN "zombie" ELSE "gone")
        /\ \A o \in Procs \ {p} : proc'[o] = proc[o]
    BY <1>2, <1>6, <2>1
  <2>3. /\ Live' \subseteq Live /\ \A o \in Procs : proc[o] = "none" <=> proc'[o] = "none"
        /\ p \notin Live'
    BY <2>1, <2>2, Zenon DEF Live
  <2>4. c \in Nat
    BY AgentAssumption
  <2>5. p = Leader => status = -1 /\ childDone = -1
    BY <2>1, Zenon DEF GroupInv, Live
  <2>6. IF proc'[Leader] \in {"zombie", "gone"} THEN status' \in Nat ELSE status' = -1
    BY <1>1, <2>1, <2>2, <2>4, Zenon DEF GroupInv
  <2>7. childDone' # -1 => childDone' = status'
    BY <2>1, <2>5, Zenon DEF GroupInv
  <2> QED
    BY <1>2, <2>1, <2>2, <2>3, <2>6, <2>7, GroupShrinks
<1>7. ASSUME NEW p \in Procs, ProcDropOutput(p)
      PROVE  GroupInv' /\ Shrinks
  <2>1. /\ p # Leader /\ outHold' = [outHold EXCEPT ![p] = {}]
        /\ UNCHANGED <<proc, status, outPipe, abridge, aloop, amain, acode, childDone>>
    BY <1>7, Zenon DEF ProcDropOutput
  <2>2. /\ outHold' \in [Procs -> SUBSET OutStreams] /\ outHold'[Leader] = outHold[Leader]
        /\ \A o \in Procs : outHold'[o] \in {{}, outHold[o]}
    BY <1>1, <1>2, <2>1, Zenon
  <2>3. Live' = Live /\ Live \subseteq Procs
    BY <2>1, Zenon DEF Live
  <2>4. IF proc'[Leader] \in {"zombie", "gone"} THEN status' \in Nat ELSE status' = -1
    BY <2>1, Zenon DEF GroupInv
  <2>5. childDone' # -1 => childDone' = status'
    BY <2>1, Zenon DEF GroupInv
  <2> QED
    BY <1>2, <2>1, <2>2, <2>3, <2>4, <2>5, GroupShrinks, Zenon
<1> QED
  BY <1>3, <1>4, <1>5, <1>6, <1>7, Zenon

(* The command is started, and its goroutines. *)
LEMMA StartGroup ==
    ASSUME GroupInv, StartChild \/ StartBridges
    PROVE  GroupInv'
<1> USE DEF link, group
<1>1. CASE StartChild
  <2>1. /\ amain = "start" /\ amain' = "started" /\ Leader \in Procs
        /\ proc' = [proc EXCEPT ![Leader] = "alive"] /\ outHold' = [outHold EXCEPT ![Leader] = OutStreams]
        /\ UNCHANGED <<status, outPipe, aloop, abridge, acode, childDone>>
    BY <1>1, AgentAssumption, Zenon DEF StartChild, Build
  <2>2. \A p \in Procs : proc[p] = "none"
    BY <2>1, Zenon DEF GroupInv, PreStart
  <2>3. /\ proc' \in [Procs -> {"none", "alive", "dying", "zombie", "gone"}]
        /\ proc'[Leader] = "alive" /\ \A p \in Procs \ {Leader} : proc'[p] = "none"
    BY <2>1, <2>2, Zenon DEF GroupInv
  <2>4. Live' = {Leader}
    BY <2>1, <2>3, Zenon DEF Live
  <2>5. outHold' \in [Procs -> SUBSET OutStreams] /\ outHold'[Leader] = OutStreams
    BY <2>1, Zenon DEF GroupInv
  <2>6. status' = -1
    BY <2>1, <2>2, Zenon DEF GroupInv
  <2>7. aloop.at = "idle" /\ \A s \in OutStreams : abridge[s].at = "idle"
    BY <2>1, Zenon DEF GroupInv, PreStart
  <2>8. \A s \in Reliable : abridge'[s].at = "idle"
    BY <2>1, <2>7, Zenon DEF Reliable
  <2>9. childDone' # -1 => childDone' = status'
    BY <2>1, Zenon DEF GroupInv
  <2> QED
    BY <2>1, <2>3, <2>4, <2>5, <2>6, <2>7, <2>8, <2>9, Zenon DEF GroupInv, PreStart, Phases
<1>2. CASE StartBridges
  <2>1. /\ amain = "bridge" /\ amain' = "select" /\ aloop' = [aloop EXCEPT !.at = "decode"]
        /\ abridge' = [s \in OutStreams |-> [at |-> "read", v |-> 0]]
        /\ UNCHANGED <<proc, status, outHold, outPipe, acode, childDone>>
    BY <1>2, Zenon DEF StartBridges
  <2>2. aloop'.at = "decode" /\ DOMAIN aloop' = {"at", "s", "v"}
    BY <2>1, Zenon DEF GroupInv
  <2>3. \A s \in OutStreams : abridge'[s].at = "read" /\ DOMAIN abridge'[s] = {"at", "v"}
    BY <2>1, Zenon
  <2>4. \A s \in Reliable : abridge'[s].at = "read"
    BY <2>3, Zenon DEF Reliable
  <2>5. DOMAIN abridge' = OutStreams
    BY <2>1, Zenon
  <2> HIDE DEF group, link
  <2> QED
    BY <2>1, <2>2, <2>3, <2>4, <2>5, Zenon DEF GroupInv, PreStart, Phases, Live
<1> QED
  BY <1>1, <1>2, Zenon

(* A bridge of the agent reads the output of the group and sends it on. *)
LEMMA BridgeGroup ==
    ASSUME GroupInv, NEW s \in OutStreams, AgentBridge(s)
    PROVE  GroupInv'
<1> USE DEF link, group
<1>1. CASE BridgeRead(s)
  <2>1. /\ abridge[s].at = "read"
        /\ UNCHANGED <<amain, aloop, acode, childDone, proc, status, outHold>>
        /\ \/ /\ abridge' = [abridge EXCEPT ![s] = [at |-> "send", v |-> Head(outPipe[s])]]
              /\ outPipe' = [outPipe EXCEPT ![s] = Tail(@)]
           \/ /\ (outPipe[s] = <<>> /\ Holders(s) = {}) \/ s \in Extras
              /\ abridge' = [abridge EXCEPT ![s].at = "eof"]
              /\ UNCHANGED outPipe
    BY <1>1, Zenon DEF BridgeRead
  <2>2. /\ DOMAIN abridge' = OutStreams /\ DOMAIN outPipe' = OutStreams
        /\ \A r \in OutStreams \ {s} : abridge'[r] = abridge[r] /\ outPipe'[r] = outPipe[r]
        /\ DOMAIN abridge'[s] = {"at", "v"}
        /\ \/ abridge'[s].at = "send"
           \/ abridge'[s].at = "eof" /\ ((outPipe'[s] = <<>> /\ Holders(s) = {}) \/ s \in Extras)
    BY <2>1 DEF GroupInv
  <2>3. Live' = Live /\ \A r : Holders(r)' = Holders(r)
    BY <2>1, Zenon DEF Live, Holders
  <2>4. \A r \in Reliable : abridge'[r].at \in {"eof", "done"} => outPipe'[r] = <<>> /\ Holders(r)' = {}
    BY <2>2, <2>3, Zenon DEF GroupInv, Reliable
  <2>5. amain # "join" /\ amain \notin PreStart \cup {"started", "bridge"}
    BY <2>1, Zenon DEF GroupInv
  <2>6. \A r \in OutStreams : abridge'[r].at # "idle" /\ DOMAIN abridge'[r] = {"at", "v"}
    BY <2>2, <2>5, Zenon DEF GroupInv
  <2> HIDE DEF group, link
  <2> QED
    BY <2>1, <2>2, <2>3, <2>4, <2>5, <2>6, Zenon DEF GroupInv
<1>2. CASE BridgeSend(s)
  <2>1. CASE UNCHANGED <<abridge, amain, aloop, acode, childDone, group>>
    BY <2>1, Zenon DEF GroupInv, Live, Holders
  <2>2. CASE /\ abridge' = [abridge EXCEPT ![s] =
                              [at |-> IF abridge[s].at = "send" THEN "read" ELSE "done", v |-> 0]]
             /\ UNCHANGED <<amain, aloop, acode, childDone, group>>
    <3>1. /\ DOMAIN abridge' = OutStreams /\ DOMAIN abridge'[s] = {"at", "v"}
          /\ \A r \in OutStreams \ {s} : abridge'[r] = abridge[r]
          /\ \/ abridge[s].at = "send" /\ abridge'[s].at = "read"
             \/ abridge[s].at = "eof" /\ abridge'[s].at = "done"
      BY <1>2, <2>2, Zenon DEF GroupInv, BridgeSend
    <3>2. /\ UNCHANGED <<proc, status, outHold, outPipe>>
          /\ Live' = Live /\ \A r : Holders(r)' = Holders(r)
      BY <2>2, Zenon DEF Live, Holders
    <3>3. \A r \in Reliable : abridge'[r].at \in {"eof", "done"} => outPipe'[r] = <<>> /\ Holders(r)' = {}
      BY <3>1, <3>2, Zenon DEF GroupInv, Reliable
    <3>4. amain # "join" /\ amain \notin PreStart \cup {"started", "bridge"}
      BY <3>1, Zenon DEF GroupInv
    <3>5. \A r \in OutStreams : abridge'[r].at # "idle" /\ DOMAIN abridge'[r] = {"at", "v"}
      BY <3>1, <3>4, Zenon DEF GroupInv
    <3> HIDE DEF group, link
    <3> QED
      BY <2>2, <3>1, <3>2, <3>3, <3>4, <3>5, Zenon DEF GroupInv
  <2> QED
    BY <1>2, <2>1, <2>2, Zenon DEF BridgeSend, Send
<1> QED
  BY <1>1, <1>2, Zenon DEF AgentBridge

(* A fork: nobody but a holder of a stream makes another. *)
LEMMA ForkGroup ==
    ASSUME GroupInv, NEW p \in Procs, NEW q \in Procs, ProcFork(p, q)
    PROVE  /\ GroupInv' /\ proc'[Leader] = proc[Leader] /\ status' = status
           /\ \A s \in OutStreams : Holders(s)' = {} <=> Holders(s) = {}
<1> USE DEF link, athreads
<1>1. /\ p \in Live /\ proc[q] = "none" /\ q # Leader /\ Leader \in Procs
      /\ proc' = [proc EXCEPT ![q] = "alive"] /\ outHold' = [outHold EXCEPT ![q] = outHold[p]]
      /\ UNCHANGED <<status, outPipe, amain, aloop, abridge, acode, childDone>>
  BY AgentAssumption, Zenon DEF ProcFork
<1>2. /\ proc' \in [Procs -> {"none", "alive", "dying", "zombie", "gone"}]
      /\ proc'[q] = "alive" /\ \A o \in Procs \ {q} : proc'[o] = proc[o]
      /\ outHold' \in [Procs -> SUBSET OutStreams]
      /\ outHold'[q] = outHold[p] /\ \A o \in Procs \ {q} : outHold'[o] = outHold[o]
  BY <1>1, Zenon DEF GroupInv
<1>3. p # q /\ Live' = Live \cup {q} /\ q \notin Live /\ Live \subseteq Procs
  BY <1>1, <1>2, Zenon DEF Live
<1>4. ASSUME NEW s \in OutStreams PROVE Holders(s)' = {} <=> Holders(s) = {}
  <2>1. \A o \in Live : o \in Holders(s)' <=> o \in Holders(s)
    BY <1>2, <1>3, Zenon DEF Holders
  <2>2. q \in Holders(s)' <=> p \in Holders(s)
    BY <1>1, <1>2, <1>3, Zenon DEF Holders
  <2>3. Holders(s)' \subseteq Live \cup {q} /\ Holders(s) \subseteq Live
    BY <1>3, Zenon DEF Holders
  <2> QED
    BY <1>1, <2>1, <2>2, <2>3, Zenon
<1>5. \A o \in Live' : outHold'[o] \in {{}, OutStreams}
  BY <1>1, <1>2, <1>3, Zenon DEF GroupInv
<1>6. \A s \in Reliable : abridge'[s].at \in {"eof", "done"} => outPipe'[s] = <<>> /\ Holders(s)' = {}
  BY <1>1, <1>4, Zenon DEF GroupInv, Reliable
<1>7. proc'[Leader] = proc[Leader] /\ outHold'[Leader] = outHold[Leader]
      /\ (Leader \in Live' <=> Leader \in Live)
  BY <1>1, <1>2, <1>3, Zenon
<1>8. \A o \in Procs : proc'[o] # "none" => proc'[Leader] # "none"
  <2>1. proc[p] # "none"
    BY <1>1, Zenon DEF Live
  <2> QED
    BY <1>2, <1>7, <2>1, Zenon DEF GroupInv
<1>9. GroupInv'
  BY <1>1, <1>2, <1>5, <1>6, <1>7, <1>8, Zenon DEF GroupInv
<1> QED
  BY <1>1, <1>4, <1>7, <1>9, Zenon

(* A process writes, or reads. *)
LEMMA WriteGroup ==
    ASSUME GroupInv, NEW p \in Procs,
           (\E s \in OutStreams : ProcWrite(p, s)) \/ (\E s \in InStreams : ProcRead(p, s))
    PROVE  GroupInv'
<1> USE DEF link, athreads
<1>1. UNCHANGED <<proc, status, outHold, amain, aloop, abridge, acode, childDone>>
  BY Zenon DEF ProcWrite, ProcRead
<1>2. Live' = Live /\ \A r : Holders(r)' = Holders(r)
  BY <1>1, Zenon DEF Live, Holders
<1>3. /\ DOMAIN outPipe' = OutStreams
      /\ \A r \in Reliable : abridge'[r].at \in {"eof", "done"} => outPipe'[r] = <<>> /\ Holders(r)' = {}
  <2>1. CASE \E s \in InStreams : ProcRead(p, s)
    BY <1>1, <1>2, <2>1, Zenon DEF ProcRead, GroupInv
  <2>2. ASSUME NEW s \in OutStreams, ProcWrite(p, s)
        PROVE  /\ DOMAIN outPipe' = OutStreams /\ Holders(s) # {}
               /\ \A r \in OutStreams \ {s} : outPipe'[r] = outPipe[r]
    BY <2>2, Zenon DEF ProcWrite, GroupInv, Holders
  <2> QED
    BY <1>1, <1>2, <2>1, <2>2, Zenon DEF GroupInv, Reliable
<1> HIDE DEF link, athreads
<1> QED
  BY <1>1, <1>2, <1>3, Zenon DEF GroupInv

(* The steps on the local machine. *)
LocalStep ==
    \/ UserSignals \/ ShimForwardSignal \/ ShimReceive \/ ShimKilled
    \/ \E s \in InStreams : ShimStream(s) \/ ShimStreamEnd(s) \/ PipeToRunner(s) \/ RunnerBridge(s)
    \/ ReadFramesDecode \/ ReadFramesEnd \/ ReadFramesSignal \/ ReadFramesFdGone
    \/ \E s \in OutStreams : StreamPipe(s)
    \/ BrokerClosePipes \/ BrokerDrained \/ BrokerExit
    \/ RunnerFails \/ RunnerRequest \/ RunnerSignal \/ RunnerLoop \/ RunnerWrite
    \/ RunnerClose \/ RunnerJoin \/ LinkLost \/ ContextEnds \/ BrokerDies

(* A local step keeps the agent's threads and the group. *)
LEMMA LocalKeepsAgent ==
    ASSUME LocalStep
    PROVE  UNCHANGED <<athreads, group>>
<1> USE DEF agentVars, athreads, group
<1>1. CASE \/ UserSignals \/ ShimForwardSignal \/ ShimReceive \/ ShimKilled
           \/ \E s \in InStreams : ShimStream(s) \/ ShimStreamEnd(s) \/ PipeToRunner(s)
                                   \/ RunnerBridge(s)
  BY <1>1, Zenon DEF UserSignals, ShimForwardSignal, ShimReceive, ShimKilled, ShimStream,
     ShimStreamEnd, PipeToRunner, RunnerBridge
<1>2. CASE \/ ReadFramesDecode \/ ReadFramesEnd \/ ReadFramesSignal \/ ReadFramesFdGone
           \/ \E s \in OutStreams : StreamPipe(s)
           \/ BrokerClosePipes \/ BrokerDrained \/ BrokerExit
  BY <1>2, Zenon DEF ReadFramesDecode, ReadFramesEnd, ReadFramesSignal, ReadFramesFdGone,
     StreamPipe, BrokerClosePipes, BrokerDrained, BrokerExit
<1>3. CASE \/ RunnerFails \/ RunnerRequest \/ RunnerSignal \/ RunnerLoop \/ RunnerWrite
           \/ RunnerClose \/ RunnerJoin \/ LinkLost \/ ContextEnds \/ BrokerDies
  BY <1>3, Zenon DEF RunnerFails, RunnerRequest, RunnerSignal, RunnerLoop, RunnerWrite, RunnerClose,
              RunnerJoin, LinkLost, ContextEnds, BrokerDies
<1> QED
  BY <1>1, <1>2, <1>3, Zenon DEF LocalStep

(* Every step is one of the agent, one of the group, or a local one. *)
LEMMA StepKinds ==
    ASSUME [Next]_vars
    PROVE  \/ AgentNext /\ UNCHANGED localVars
           \/ Group /\ UNCHANGED localVars
           \/ LocalStep
           \/ UNCHANGED vars
BY Zenon DEF Next, LocalStep

(* GroupInv is an invariant. *)
LEMMA GroupInvariance == SafeSpec => []GroupInv
<1>1. Init => GroupInv
  BY StdoutReliable DEF Init, AgentInit, GroupInv, PreStart, Phases, Live, Reliable
<1>2. GroupInv /\ [Next]_vars => GroupInv'
  <2> SUFFICES ASSUME GroupInv, [Next]_vars PROVE GroupInv'
    BY Zenon
  <2>1. CASE AgentNext
    <3>1. CASE AgentMain
      BY <3>1, MainGroup, EndsGroup, StartGroup, Zenon DEF AgentMain
    <3>2. CASE AgentLoop
      BY <3>2, LoopGroup, EndsGroup, Zenon DEF AgentLoop
    <3> QED
      BY <2>1, <3>1, <3>2, BridgeGroup, EndsGroup, Zenon DEF AgentNext
  <2>2. CASE Group
    BY <2>2, EndsGroup, ForkGroup, WriteGroup, Zenon DEF Group
  <2>3. CASE UNCHANGED <<athreads, group>>
    BY <2>3, Zenon DEF athreads, group, GroupInv, Live, Holders
  <2>4. CASE UNCHANGED vars
    BY <2>3, <2>4, Zenon DEF vars, agentVars, athreads, group
  <2> QED
    BY <2>1, <2>2, <2>3, <2>4, StepKinds, LocalKeepsAgent, Zenon
<1> QED
  BY <1>1, <1>2, PTL DEF SafeSpec

(* TypeInv is an invariant. *)
LEMMA TypeInvariance == SafeSpec => []TypeInv
<1>1. Init => TypeInv
  <2> SUFFICES ASSUME Init PROVE TypeInv
    BY Zenon
  <2>1. 0 \in Streams
    BY AgentAssumption, Zenon DEF Streams
  <2>2. <<>> \in Seq(Frames) /\ <<>> \in Seq(Int)
    OBVIOUS
  <2>3. \A at \in {"idle", "read"} : [at |-> at, v |-> 0] \in Chunk
    BY DEF Chunk, Places
  <2> QED
    BY <2>1, <2>2, <2>3 DEF Init, AgentInit, TypeInv, Places
<1>2. TypeInv /\ [Next]_vars => TypeInv'
  <2> SUFFICES ASSUME TypeInv, [Next]_vars PROVE TypeInv'
    BY Zenon
  <2>1. CASE UNCHANGED vars
    BY <2>1, Zenon DEF vars, agentVars, localVars, shimVars, sockVars, runVars, TypeInv
  <2>2. CASE LocalStep
    BY <2>2, BrokerTypes, RunnerTypes, Zenon DEF LocalStep
  <2> QED
    BY <2>1, <2>2, AgentTypes, GroupTypes, StepKinds, Zenon
<1> QED
  BY <1>1, <1>2, PTL DEF SafeSpec

-----------------------------------------------------------------------------
(* The exit code *)

(* The agent has not been asked to start anything. *)
NoExec ==
    /\ \A i \in 1..Len(down) : down[i].t # "exec"
    /\ amain \in {"first", "config", "second", "bad", "return"}

(* The command has not been started and never will be. *)
Refused ==
    /\ amain \in PreStart
    /\ agent # "up" \/ amain \in {"bad", "return"} \/ (NoExec /\ downEnd)

Finished(v) == v = status /\ v \in Nat /\ Over

Asking == {"ensure", "config"}
Looping == {"loop", "write"}
Leaving == {"closing", "bridges", "wait", "returned"}
Reported == IF rcode < 0 THEN 127 ELSE rcode

(* What may be reported: the command's own code, or 127 for one that never  *)
(* started or was lost.                                                     *)
Truthful(v) == Finished(v) \/ (v = 127 /\ (Refused \/ Lost))

(* The session: an exit frame on it is the last word of the agent. *)
LinkInv ==
    /\ linkUp <=> reader = "runner"
    /\ ~linkUp => downEnd
    /\ agent \in {"up", "killed", "done"} /\ (agent = "killed" => ~linkUp)
    /\ agent = "done" => amain \in {"return", "join"}
    /\ rmain \in Asking \cup Looping \cup Leaving
    /\ rmain \in Asking => NoExec
    /\ \A i \in 1..Len(up) : up[i].t = "exit" =>
          IF proc[Leader] = "none" THEN up[i].v = 127 /\ amain = "return"
                                   ELSE amain = "join" /\ Finished(up[i].v)
    /\ linkUp /\ amain = "join" /\ rmain \notin Leaving => HasExit(up)

(* The runner: what it returns. *)
RunnerInv ==
    /\ rmain \notin Leaving => rcode = -1
    /\ rmain \in Leaving => IF rcode = -1 THEN Refused \/ Lost
                                          ELSE Finished(rcode) \/ (rcode = 127 /\ Refused)

(* The broker and the shim: what is reported, and when. *)
BrokerInv ==
    /\ bmain \in {"run", "drain", "exit", "closed"} /\ (bmain # "run" => rmain = "returned")
    /\ ~outW => bmain # "run"
    /\ bmain \in {"exit", "closed"} => \A s \in OutStreams : sp[s].at = "done"
    /\ \A s \in Reliable : sp[s].at = "done" => rmain = "returned"
    /\ \A i \in 1..Len(b2c) : b2c[i].t = "exit" => bmain = "closed" /\ b2c[i].v = Reported
    /\ bmain = "closed" /\ shim = "run" => HasExit(b2c) \/ ~linkUp
    /\ shim = "run" => shimCode = -1
    /\ shimCode # -1 => Truthful(shimCode)

CodeInv == LinkInv /\ RunnerInv /\ BrokerInv

(* What the steps never do to the group: writing resumes for nobody, and    *)
(* the leader's code is final.                                              *)
LEMMA GroupMoves ==
    ASSUME GroupInv, [Next]_vars
    PROVE  /\ Over => Over'
           /\ status \in Nat => status' = status
           /\ proc[Leader] # "none" => proc'[Leader] # "none"
<1>1. Leader \in Procs
  BY AgentAssumption, Zenon
<1>2. CASE UNCHANGED <<proc, status, outHold>>
  BY <1>2, Zenon DEF Over, Holders, Live
<1>3. CASE Shrinks
  <2>1. status \in Nat => status' = status
    <3>1. Leader \in Live => status = -1
      BY <1>1, Zenon DEF GroupInv, Live
    <3> QED
      BY <1>3, <3>1 DEF Shrinks
  <2>2. Over => Over'
    BY <1>1, <1>3, Zenon DEF Shrinks, Over
  <2> QED
    BY <1>1, <1>3, <2>1, <2>2, Zenon DEF Shrinks
<1>4. CASE StartChild
  <2>1. proc[Leader] = "none" /\ status' = status
    BY <1>4, Zenon DEF StartChild, GroupInv, PreStart
  <2> QED
    BY <2>1, Zenon DEF Over
<1>5. ASSUME NEW p \in Procs, NEW q \in Procs, ProcFork(p, q)
      PROVE  /\ Over => Over'
             /\ status \in Nat => status' = status
             /\ proc[Leader] # "none" => proc'[Leader] # "none"
  BY <1>5, ForkGroup, Zenon DEF Over
<1>6. CASE AgentNext
  <2>1. CASE Terminate \/ Kill \/ LoopSignal \/ WaitFor
    BY <1>3, <2>1, EndsGroup, Zenon
  <2>2. CASE \/ Log \/ ReadRequest \/ StartFails \/ SendRefusal \/ Return \/ SelectMuxDone
             \/ GraceExpired \/ JoinMux \/ SelectChildDone \/ GraceDone \/ SendExit \/ StartBridges
    BY <1>2, <2>2, Zenon DEF Log, ReadRequest, StartFails, SendRefusal, Return, SelectMuxDone,
       GraceExpired, JoinMux, SelectChildDone, GraceDone, SendExit, StartBridges, Send, group
  <2>3. CASE LoopEOF \/ LoopWarn \/ LoopData \/ LoopWrite \/ LoopStreamEOF
    BY <1>2, <2>3, Zenon DEF LoopEOF, LoopWarn, LoopData, LoopWrite, LoopStreamEOF, Send, group
  <2>4. ASSUME NEW s \in OutStreams, AgentBridge(s) PROVE UNCHANGED <<proc, status, outHold>>
    BY <2>4, Zenon DEF AgentBridge, BridgeRead, BridgeSend, Send, group
  <2> QED
    BY <1>2, <1>4, <1>6, <2>1, <2>2, <2>3, <2>4, Zenon DEF AgentNext, AgentMain, AgentLoop
<1>7. CASE Group
  <2>1. ASSUME NEW p \in Procs, \/ \E c \in Codes \cup {143} : ProcExit(p, c)
                                \/ ProcDropOutput(p)
        PROVE  Shrinks
    BY <2>1, EndsGroup, Zenon
  <2>2. ASSUME NEW p \in Procs, \/ \E s \in OutStreams : ProcWrite(p, s)
                                \/ \E s \in InStreams : ProcRead(p, s)
        PROVE  UNCHANGED <<proc, status, outHold>>
    BY <2>2, Zenon DEF ProcWrite, ProcRead
  <2> QED
    BY <1>2, <1>3, <1>5, <1>7, <2>1, <2>2 DEF Group
<1>8. CASE UNCHANGED <<athreads, group>>
  BY <1>2, <1>8, Zenon DEF group
<1>9. CASE UNCHANGED vars
  BY <1>2, <1>9, Zenon DEF vars, agentVars
<1> QED
  BY <1>6, <1>7, <1>8, <1>9, StepKinds, LocalKeepsAgent, Zenon

(* What the local steps do to the session's stdin: the only exec frame is   *)
(* the runner's request, nothing is sent once it has ended, and it stays    *)
(* ended.                                                                   *)
LEMMA LinkMoves ==
    ASSUME TypeInv, LocalStep
    PROVE  /\ downEnd => downEnd'
           /\ ~linkUp => ~linkUp'
           /\ Lost => Lost'
           /\ \/ UNCHANGED down
              \/ /\ ~downEnd
                 /\ \E x \in Frames : /\ down' = Append(down, x)
                                      /\ x.t = "exec" => rmain = "config" /\ rmain' = "loop"
              \/ downEnd' /\ \E n \in 0..Len(down) : down' = SubSeq(down, 1, n)
<1> USE DEF runVars, Lost
<1>1. CASE UNCHANGED <<down, downEnd, linkUp, ctxDone>>
  BY <1>1, Zenon
<1>2. CASE \/ UserSignals \/ ShimForwardSignal \/ ShimReceive \/ ShimKilled
           \/ \E s \in InStreams : ShimStream(s) \/ ShimStreamEnd(s) \/ PipeToRunner(s)
           \/ ReadFramesDecode \/ ReadFramesEnd \/ ReadFramesSignal \/ ReadFramesFdGone
           \/ \E s \in OutStreams : StreamPipe(s)
           \/ BrokerClosePipes \/ BrokerDrained \/ BrokerExit
  BY <1>1, <1>2, Zenon DEF UserSignals, ShimForwardSignal, ShimReceive, ShimKilled, ShimStream,
     ShimStreamEnd, PipeToRunner, ReadFramesDecode, ReadFramesEnd, ReadFramesSignal,
     ReadFramesFdGone, StreamPipe, BrokerClosePipes, BrokerDrained, BrokerExit, agentVars
<1>3. CASE RunnerFails \/ RunnerClose \/ RunnerJoin \/ RunnerLoop \/ RunnerWrite
  <2>1. UNCHANGED <<down, linkUp, ctxDone>> /\ (UNCHANGED downEnd \/ downEnd' = TRUE)
    BY <1>3, Zenon DEF RunnerFails, RunnerClose, RunnerJoin, RunnerLoop, RunnerWrite, agentVars
  <2> QED
    BY <2>1
<1>4. ASSUME NEW t \in FrameTypes, NEW s \in Streams, NEW v \in Int, RunnerSend(Frame(t, s, v)),
             t = "exec" => rmain = "config" /\ rmain' = "loop"
      PROVE  /\ ~downEnd
             /\ \E x \in Frames : /\ down' = Append(down, x)
                                  /\ x.t = "exec" => rmain = "config" /\ rmain' = "loop"
  <2>1. Frame(t, s, v) \in Frames /\ Frame(t, s, v).t = t
    BY FrameType, Zenon DEF Frame
  <2> QED
    BY <1>4, <2>1, Zenon DEF RunnerSend
<1>5. 0 \in Streams /\ InStreams \subseteq Streams /\ SIGINT \in Int
      /\ {"config", "exec", "data", "eof", "sig"} \subseteq FrameTypes
  BY FrameParts, Zenon DEF Streams
<1>6. CASE RunnerRequest
  <2>1. UNCHANGED <<downEnd, linkUp, ctxDone>>
    BY <1>6, Zenon DEF RunnerRequest
  <2>2. \/ UNCHANGED down \/ RunnerSend(Frame("config", 0, 0))
        \/ RunnerSend(Frame("exec", 0, 0)) /\ rmain = "config" /\ rmain' = "loop"
    BY <1>6, Zenon DEF RunnerRequest, RunnerSendFails
  <2> QED
    BY <1>4, <1>5, <2>1, <2>2
<1>7. ASSUME NEW s \in InStreams, RunnerBridge(s)
      PROVE  /\ UNCHANGED <<downEnd, linkUp, ctxDone>>
             /\ \/ UNCHANGED down \/ RunnerSend(Frame("data", s, rb[s].v))
                \/ RunnerSend(Frame("eof", s, 0))
             /\ rb[s].v \in Int
  BY <1>7, Zenon DEF RunnerBridge, RunnerSendFails, TypeInv, Chunk
<1>8. CASE RunnerSignal
  <2>1. /\ UNCHANGED <<downEnd, linkUp, ctxDone>>
        /\ UNCHANGED down \/ RunnerSend(Frame("sig", 0, SIGINT))
    BY <1>8, Zenon DEF RunnerSignal, RunnerSendFails
  <2> QED
    BY <1>4, <1>5, <2>1, Zenon
<1>9. CASE \E s \in InStreams : RunnerBridge(s)
  BY <1>4, <1>5, <1>7, <1>9
<1>10. CASE LinkLost \/ BrokerDies
  BY <1>10, Zenon DEF LinkLost, BrokerDies
<1>11. CASE ContextEnds
  <2>1. UNCHANGED <<down, downEnd, linkUp>> /\ ctxDone'
    BY <1>11, Zenon DEF ContextEnds, agentVars, link
  <2> QED
    BY <2>1, Zenon
<1> QED
  BY <1>2, <1>3, <1>6, <1>8, <1>9, <1>10, <1>11, Zenon DEF LocalStep

(* Before the command is started the agent runs nothing but main. *)
LEMMA MainOnly ==
    ASSUME GroupInv, amain \in PreStart, AgentNext
    PROVE  agent = "up" /\ (Log \/ ReadRequest \/ StartFails \/ SendRefusal \/ Return \/ StartChild)
<1>1. /\ aloop.at = "idle" /\ \A s \in OutStreams : abridge[s].at = "idle"
      /\ amain \notin {"bridge", "select", "term", "grace", "killed", "kill", "drain", "join"}
  BY Zenon DEF GroupInv, PreStart
<1>2. ~AgentLoop /\ ~WaitFor /\ \A s \in OutStreams : ~AgentBridge(s)
  BY <1>1, Zenon DEF AgentLoop, LoopEOF, LoopWarn, LoopData, LoopWrite, LoopStreamEOF,
     LoopSignal, WaitFor, AgentBridge, BridgeRead, BridgeSend
<1>3. ~StartBridges /\ ~SelectChildDone /\ ~SelectMuxDone /\ ~Terminate /\ ~GraceDone
      /\ ~GraceExpired /\ ~Kill /\ ~SendExit /\ ~JoinMux
  BY <1>1, Zenon DEF StartBridges, SelectChildDone, SelectMuxDone, Terminate, GraceDone,
     GraceExpired, Kill, SendExit, JoinMux
<1>4. Log \/ ReadRequest \/ StartFails \/ SendRefusal \/ Return \/ StartChild
  BY <1>2, <1>3, Zenon DEF AgentNext, AgentMain
<1> QED
  BY <1>4, Zenon DEF Log, ReadRequest, StartFails, SendRefusal, Return, StartChild, Send

(* An agent that was not asked stays unasked. *)
LEMMA NoExecAgent ==
    ASSUME TypeInv, GroupInv, AgentNext, NoExec
    PROVE  NoExec' /\ UNCHANGED downEnd
<1>1. amain \in {"first", "config", "second", "bad", "return"} /\ amain \in PreStart
  BY Zenon DEF NoExec, PreStart
<1>2. Log \/ ReadRequest \/ StartFails \/ SendRefusal \/ Return \/ StartChild
  BY <1>1, MainOnly, Zenon
<1>3. CASE ReadRequest
  <2>1. ASSUME down # <<>>
        PROVE  /\ Head(down) = down[1] /\ 1 \in 1..Len(down)
               /\ Len(Tail(down)) = Len(down) - 1
               /\ \A i \in 1..(Len(down) - 1) : Tail(down)[i] = down[i + 1] /\ i + 1 \in 1..Len(down)
    BY <2>1 DEF TypeInv
  <2>2. down # <<>> => Head(down).t # "exec" /\ \A i \in 1..Len(Tail(down)) : Tail(down)[i].t # "exec"
    BY <2>1, Zenon DEF NoExec
  <2> QED
    BY <1>3, <2>2, Zenon DEF ReadRequest, NoExec
<1>4. CASE Log
  <2>1. amain' = amain \/ amain' = LogNext[amain]
    BY <1>4, Zenon DEF Log, Send
  <2>2. UNCHANGED <<down, downEnd>> /\ amain \in DOMAIN LogNext
    BY <1>4, Zenon DEF Log
  <2> QED
    BY <1>1, <2>1, <2>2, LogLeads, Zenon DEF NoExec
<1>5. CASE Return
  BY <1>5, Zenon DEF Return, link, NoExec
<1>6. ~StartFails /\ ~SendRefusal /\ ~StartChild
  BY <1>1, Zenon DEF StartFails, SendRefusal, StartChild
<1> QED
  BY <1>2, <1>3, <1>4, <1>5, <1>6, Zenon

(* What was once true of a report stays true. *)
LEMMA TruthStays ==
    ASSUME TypeInv, GroupInv, [Next]_vars
    PROVE  /\ \A v : Finished(v) => Finished(v)'
           /\ Refused => Refused'
           /\ ~linkUp => ~linkUp'
           /\ Lost => Lost'
           /\ downEnd => downEnd'
<1>1. \A v : Finished(v) => Finished(v)'
  BY GroupMoves, Zenon DEF Finished
<1>2. CASE UNCHANGED vars
  BY <1>1, <1>2, Zenon DEF vars, agentVars, localVars, runVars, Refused, NoExec, Lost
<1>3. CASE Group /\ UNCHANGED localVars
  <2>1. UNCHANGED <<down, downEnd, agent, amain, linkUp, ctxDone>>
    BY <1>3, Zenon DEF Group, ProcExit, ProcFork, ProcDropOutput, ProcWrite, ProcRead, link,
       athreads, localVars, runVars
  <2> QED
    BY <1>1, <2>1, Zenon DEF Refused, NoExec, Lost
<1>4. CASE AgentNext /\ UNCHANGED localVars
  <2>1. UNCHANGED linkUp /\ UNCHANGED Lost
    BY <1>4, Zenon DEF localVars, runVars, Lost
  <2>2. UNCHANGED downEnd
    BY <1>4, Zenon DEF AgentNext, AgentMain, Log, ReadRequest, StartFails, SendRefusal, Return,
       StartChild, StartBridges, SelectChildDone, SelectMuxDone, Terminate, GraceDone,
       GraceExpired, Kill, SendExit, JoinMux, AgentLoop, LoopEOF, LoopWarn, LoopData, LoopWrite,
       LoopStreamEOF, LoopSignal, WaitFor, AgentBridge, BridgeRead, BridgeSend, link
  <2>3. ASSUME Refused PROVE Refused'
    <3>1. amain \in PreStart
      BY <2>3, Zenon DEF Refused
    <3>2. agent = "up" /\ (Log \/ ReadRequest \/ StartFails \/ SendRefusal \/ Return \/ StartChild)
      BY <1>4, <3>1, MainOnly, Zenon
    <3>3. CASE NoExec /\ downEnd
      <4>1. NoExec' /\ downEnd'
        BY <1>4, <3>3, NoExecAgent, Zenon
      <4> QED
        BY <4>1, Zenon DEF Refused, NoExec, PreStart
    <3>4. CASE amain \in {"bad", "return"}
      <4>1. amain' \in {"bad", "return"}
        <5>1. Log \/ Return
          BY <3>2, <3>4, Zenon DEF ReadRequest, StartFails, SendRefusal, StartChild
        <5>2. amain' = amain \/ (amain' = LogNext[amain] /\ amain \in DOMAIN LogNext)
          BY <5>1, Zenon DEF Log, Return, Send
        <5> QED
          BY <3>4, <5>2, LogLeads, Zenon
      <4> QED
        BY <4>1, Zenon DEF Refused, PreStart
    <3> QED
      BY <2>3, <3>2, <3>3, <3>4, Zenon DEF Refused
  <2> QED
    BY <1>1, <2>1, <2>2, <2>3, Zenon
<1>5. CASE LocalStep
  <2>1. UNCHANGED <<agent, amain>>
    BY <1>5, LocalKeepsAgent, Zenon DEF athreads
  <2>2. ASSUME NoExec, downEnd PROVE NoExec'
    <3>1. UNCHANGED down \/ \E n \in 0..Len(down) : down' = SubSeq(down, 1, n)
      BY <1>5, <2>2, LinkMoves, Zenon
    <3>2. \A n \in 0..Len(down) : \A i \in 1..Len(SubSeq(down, 1, n)) :
              SubSeq(down, 1, n)[i] = down[i] /\ i \in 1..Len(down)
      BY DEF TypeInv
    <3> QED
      BY <2>1, <2>2, <3>1, <3>2, Zenon DEF NoExec
  <2>3. (downEnd => downEnd') /\ (~linkUp => ~linkUp') /\ (Lost => Lost')
    BY <1>5, LinkMoves, Zenon
  <2>4. Refused => Refused'
    BY <2>1, <2>2, <2>3, Zenon DEF Refused
  <2> QED
    BY <1>1, <2>3, <2>4, Zenon
<1> QED
  BY <1>2, <1>3, <1>4, <1>5, StepKinds, Zenon

(* Exit frames in a queue that gains one frame or loses some. *)
LEMMA ExitFrames ==
    ASSUME NEW q \in Seq(Frames)
    PROVE  /\ \A x \in Frames : \A i \in 1..Len(Append(q, x)) :
                  Append(q, x)[i] = x \/ (i \in 1..Len(q) /\ Append(q, x)[i] = q[i])
           /\ \A x \in Frames : HasExit(Append(q, x)) <=> HasExit(q) \/ x.t = "exit"
           /\ q # <<>> => /\ \A i \in 1..Len(Tail(q)) : i + 1 \in 1..Len(q) /\ Tail(q)[i] = q[i + 1]
                          /\ HasExit(q) <=> HasExit(Tail(q)) \/ Head(q).t = "exit"
                          /\ Head(q) = q[1] /\ 1 \in 1..Len(q)
           /\ \A n \in 0..Len(q) : /\ HasExit(SubSeq(q, 1, n)) => HasExit(q)
                                   /\ \A i \in 1..Len(SubSeq(q, 1, n)) :
                                          i \in 1..Len(q) /\ SubSeq(q, 1, n)[i] = q[i]
           /\ q = <<>> => ~HasExit(q)
<1>1. \A x \in Frames : /\ Len(Append(q, x)) = Len(q) + 1 /\ Append(q, x)[Len(q) + 1] = x
                        /\ \A i \in 1..Len(q) : Append(q, x)[i] = q[i]
  BY AppendedIs
<1>2. Len(q) \in Nat /\ (q = <<>> => Len(q) = 0)
  OBVIOUS
<1>3. \A x \in Frames : \A i \in 1..Len(Append(q, x)) :
          Append(q, x)[i] = x \/ (i \in 1..Len(q) /\ Append(q, x)[i] = q[i])
  BY <1>1, <1>2
<1>4. ASSUME NEW x \in Frames PROVE HasExit(Append(q, x)) <=> HasExit(q) \/ x.t = "exit"
  <2>1. Len(q) + 1 \in 1..Len(Append(q, x)) /\ \A i \in 1..Len(q) : i \in 1..Len(Append(q, x))
    BY <1>1, <1>2
  <2> QED
    BY <1>1, <1>3, <2>1 DEF HasExit
<1>5. ASSUME q # <<>>
      PROVE  /\ \A i \in 1..Len(Tail(q)) : i + 1 \in 1..Len(q) /\ Tail(q)[i] = q[i + 1]
             /\ HasExit(q) <=> HasExit(Tail(q)) \/ Head(q).t = "exit"
             /\ Head(q) = q[1] /\ 1 \in 1..Len(q)
  <2>1. Len(Tail(q)) = Len(q) - 1 /\ Head(q) = q[1] /\ Len(q) >= 1
        /\ \A i \in 1..Len(Tail(q)) : i + 1 \in 1..Len(q) /\ Tail(q)[i] = q[i + 1]
    BY <1>5
  <2>2. \A i \in 1..Len(q) : i = 1 \/ (i - 1 \in 1..Len(Tail(q)) /\ q[i] = Tail(q)[i - 1])
    BY <1>2, <2>1
  <2> QED
    BY <1>2, <2>1, <2>2 DEF HasExit
<1>6. ASSUME NEW n \in 0..Len(q)
      PROVE  /\ HasExit(SubSeq(q, 1, n)) => HasExit(q)
             /\ \A i \in 1..Len(SubSeq(q, 1, n)) : i \in 1..Len(q) /\ SubSeq(q, 1, n)[i] = q[i]
  <2>1. \A i \in 1..Len(SubSeq(q, 1, n)) : i \in 1..Len(q) /\ SubSeq(q, 1, n)[i] = q[i]
    OBVIOUS
  <2> QED
    BY <2>1, Zenon DEF HasExit
<1>7. q = <<>> => ~HasExit(q)
  BY <1>2 DEF HasExit
<1> QED
  BY <1>3, <1>4, <1>5, <1>6, <1>7, Zenon

(* Every reliable stream is drained before the exit frame is sent, and then *)
(* no process holds any output stream.                                      *)
LEMMA DrainedIsOver ==
    ASSUME GroupInv, amain = "drain", \A s \in OutStreams : abridge[s].at = "done"
    PROVE  Finished(acode)
<1>1. Holders(1) = {} /\ 1 \in OutStreams
  BY StdoutReliable, Zenon DEF GroupInv, Reliable
<1>2. \A s \in OutStreams : Holders(s) = {}
  BY <1>1 DEF GroupInv, Holders
<1>3. acode = status /\ status \in Nat /\ proc[Leader] # "none"
  BY Zenon DEF GroupInv, PreStart
<1> QED
  BY <1>2, <1>3, Zenon DEF Finished, Over

(* The agent's own steps and the report. *)
LEMMA AgentCode ==
    ASSUME TypeInv, GroupInv, GroupInv', CodeInv, AgentNext, UNCHANGED localVars, [Next]_vars
    PROVE  CodeInv'
<1>1. UNCHANGED <<linkUp, rmain, rcode, bmain, outW, sp, b2c, shim, shimCode>>
  BY Zenon DEF localVars, shimVars, sockVars, pipeVars, runVars
<1>2. /\ \A v : Finished(v) => Finished(v)'
      /\ Refused => Refused'
      /\ Lost => Lost'
  BY TruthStays, Zenon
<1>3. RunnerInv'
  BY <1>1, <1>2, Zenon DEF CodeInv, RunnerInv
<1>4. BrokerInv'
  BY <1>1, <1>2, Zenon DEF CodeInv, BrokerInv, Truthful, Reported
<1>5. UNCHANGED <<downEnd, reader>> /\ agent = "up"
  BY Zenon DEF AgentNext, AgentMain, Log, ReadRequest, StartFails, SendRefusal, Return, StartChild,
         StartBridges, SelectChildDone, SelectMuxDone, Terminate, GraceDone, GraceExpired, Kill,
         SendExit, JoinMux, AgentLoop, LoopEOF, LoopWarn, LoopData, LoopWrite, LoopStreamEOF,
         LoopSignal, WaitFor, AgentBridge, BridgeRead, BridgeSend, link, Send
<1>6. amain = "return" => amain' = "return"
  <2>1. ASSUME amain = "return" PROVE Return
    <3>1. Log \/ ReadRequest \/ StartFails \/ SendRefusal \/ Return \/ StartChild
      BY <2>1, MainOnly, Zenon DEF PreStart
    <3> QED
      BY <2>1, <3>1, Zenon DEF Log, LogNext, ReadRequest, StartFails, SendRefusal, StartChild
  <2> QED
    BY <2>1, Zenon DEF Return
<1>7. amain = "join" => amain' = "join"
  <2>1. ASSUME amain = "join" PROVE JoinMux \/ AgentLoop \/ WaitFor \/ \E s \in OutStreams : AgentBridge(s)
    BY <2>1, Zenon DEF AgentNext, AgentMain, Log, LogNext, ReadRequest, StartFails, SendRefusal,
       Return, StartChild, StartBridges, SelectChildDone, SelectMuxDone, Terminate, GraceDone,
       GraceExpired, Kill, SendExit
  <2>2. JoinMux \/ AgentLoop \/ WaitFor \/ (\E s \in OutStreams : AgentBridge(s)) => UNCHANGED amain
    BY Zenon DEF JoinMux, AgentLoop, LoopEOF, LoopWarn, LoopData, LoopWrite, LoopStreamEOF,
         LoopSignal, WaitFor, AgentBridge, BridgeRead, BridgeSend, Send
  <2> QED
    BY <2>1, <2>2, Zenon
<1>8. \/ agent' = "up"
      \/ agent' = "killed" /\ reader = "nobody"
      \/ agent' = "done" /\ amain \in {"return", "join"}
  <2>1. CASE AgentLoop \/ WaitFor \/ \E s \in OutStreams : AgentBridge(s)
    BY <1>5, <2>1, Zenon DEF AgentLoop, LoopEOF, LoopWarn, LoopData, LoopWrite, LoopStreamEOF,
         LoopSignal, WaitFor, AgentBridge, BridgeRead, BridgeSend, Send
  <2>2. CASE AgentMain
    BY <1>5, <2>2, Zenon DEF AgentMain, Log, ReadRequest, StartFails, SendRefusal, Return,
       StartChild, StartBridges, SelectChildDone, SelectMuxDone, Terminate, GraceDone,
       GraceExpired, Kill, SendExit, JoinMux, Send
  <2> QED
    BY <2>1, <2>2, Zenon DEF AgentNext
<1>9. SendExit \/ (amain' = "join" => amain = "join")
  <2>1. Log => amain' # "join"
    <3>1. Log => amain \in DOMAIN LogNext /\ amain' \in {amain, LogNext[amain]}
      BY Zenon DEF Log, Send
    <3> QED
      BY <3>1, LogLeads, Zenon
  <2> QED
    BY <2>1, Zenon DEF AgentNext, AgentMain, ReadRequest, StartFails, SendRefusal, Return,
       StartChild, StartBridges, SelectChildDone, SelectMuxDone, Terminate, GraceDone,
       GraceExpired, Kill, JoinMux, AgentLoop, LoopEOF, LoopWarn, LoopData, LoopWrite,
       LoopStreamEOF, LoopSignal, WaitFor, AgentBridge, BridgeRead, BridgeSend, Send
<1>10. \/ UNCHANGED up /\ (amain' = "join" => amain = "join" \/ reader # "runner")
       \/ (amain' = "join" => amain = "join") /\ \E x \in Frames : x.t # "exit" /\ up' = Append(up, x)
       \/ amain' = "return" /\ up' = Append(up, Frame("exit", 0, 127))
       \/ amain' = "join" /\ amain = "drain" /\ Finished(acode) /\ up' = Append(up, Frame("exit", 0, acode))
  <2>1. 0 \in Streams /\ OutStreams \subseteq Streams
        /\ {"data", "eof", "log", "exit"} \subseteq FrameTypes
    BY AgentAssumption, Zenon DEF Streams, FrameTypes
  <2>2. ASSUME NEW t \in {"data", "eof", "log"}, NEW s \in Streams, NEW v \in Int
        PROVE  Frame(t, s, v) \in Frames /\ Frame(t, s, v).t # "exit"
    BY <2>1, FrameType, Zenon DEF Frame
  <2>3. CASE Log \/ LoopWarn \/ LoopSignal
    <3>1. amain' = "join" => amain = "join"
      <4>1. Log => amain \in DOMAIN LogNext /\ amain' \in {amain, LogNext[amain]}
        BY Zenon DEF Log, Send
      <4>2. LoopWarn \/ LoopSignal => UNCHANGED amain
        BY Zenon DEF LoopWarn, LoopSignal, Send
      <4> QED
        BY <2>3, <4>1, <4>2, LogLeads, Zenon
    <3>2. UNCHANGED up \/ up' = Append(up, Frame("log", 0, 0))
      BY <2>3, Zenon DEF Log, LoopWarn, LoopSignal, Send, LogFrame
    <3> QED
      BY <2>1, <2>2, <3>1, <3>2
  <2>4. ASSUME NEW s \in OutStreams, BridgeSend(s)
        PROVE  /\ UNCHANGED up \/ \E x \in Frames : x.t # "exit" /\ up' = Append(up, x)
               /\ amain' = amain
    <3>1. UNCHANGED up \/ up' = Append(up, Frame("data", s, abridge[s].v))
                        \/ up' = Append(up, Frame("eof", s, abridge[s].v))
      BY <2>4, Zenon DEF BridgeSend, Send
    <3>2. abridge[s].v \in Int /\ s \in Streams
      BY <2>1, Zenon DEF TypeInv, Chunk
    <3>3. amain' = amain
      BY <2>4, Zenon DEF BridgeSend, Send
    <3> QED
      BY <2>1, <2>2, <3>1, <3>2, <3>3, Zenon
  <2>5. CASE SendRefusal
    BY <2>5, Zenon DEF SendRefusal, Send, SendExit
  <2>6. CASE SendExit
    <3>1. Finished(acode) /\ amain = "drain"
      BY <2>6, DrainedIsOver, Zenon DEF SendExit
    <3> QED
      BY <2>6, <3>1, Zenon DEF SendExit, Send
  <2>7. CASE UNCHANGED up /\ ~SendExit
    BY <1>9, <2>7, Zenon
  <2> QED
    BY <2>3, <2>4, <2>5, <2>6, <2>7, Zenon
       DEF AgentNext, AgentMain, ReadRequest, StartFails, Return, StartChild, StartBridges,
           SelectChildDone, SelectMuxDone, Terminate, GraceDone, GraceExpired, Kill, JoinMux,
           AgentLoop, LoopEOF, LoopData, LoopWrite, LoopStreamEOF, WaitFor, AgentBridge,
           BridgeRead, link
<1>11. up \in Seq(Frames) /\ Frame("exit", 0, 127) \in Frames /\ Frame("exit", 0, acode) \in Frames
       /\ Frame("exit", 0, 127).t = "exit" /\ Frame("exit", 0, 127).v = 127
       /\ Frame("exit", 0, acode).t = "exit" /\ Frame("exit", 0, acode).v = acode
  BY AgentAssumption, FrameType DEF TypeInv, FrameTypes, Streams, Frame
<1>12. /\ amain' = "return" => proc'[Leader] = "none"
       /\ amain' = "join" => proc'[Leader] # "none"
  BY Zenon DEF GroupInv, PreStart
<1>13. (\A i \in 1..Len(up) : up[i].t = "exit" =>
           IF proc[Leader] = "none" THEN up[i].v = 127 /\ amain = "return"
                                    ELSE amain = "join" /\ Finished(up[i].v))'
  <2> SUFFICES ASSUME NEW i \in 1..Len(up'), up'[i].t = "exit"
               PROVE  (IF proc[Leader] = "none" THEN up[i].v = 127 /\ amain = "return"
                                                ELSE amain = "join" /\ Finished(up[i].v))'
    BY Zenon
  <2>1. CASE i \in 1..Len(up) /\ up'[i] = up[i]
    <3>1. \/ up[i].v = 127 /\ amain = "return"
          \/ amain = "join" /\ Finished(up[i].v)
      BY <2>1, Zenon DEF CodeInv, LinkInv
    <3> QED
      BY <1>2, <1>6, <1>7, <1>12, <2>1, <3>1, Zenon DEF Finished
  <2>2. CASE amain' = "return" /\ up'[i] = Frame("exit", 0, 127)
    BY <1>11, <1>12, <2>2, Zenon
  <2>3. CASE amain' = "join" /\ up'[i] = Frame("exit", 0, acode) /\ Finished(acode)
    <3>1. /\ up'[i].v = acode /\ proc'[Leader] # "none" /\ status' = status
          /\ acode = status /\ acode \in Nat /\ Over'
      BY <1>2, <1>11, <1>12, <2>3, Zenon DEF Finished
    <3> QED
      BY <2>3, <3>1, Zenon DEF Finished
  <2>4. \A x \in Frames : up' = Append(up, x) => up'[i] = x \/ (i \in 1..Len(up) /\ up'[i] = up[i])
    <3> SUFFICES ASSUME NEW x \in Frames, up' = Append(up, x)
                 PROVE  up'[i] = x \/ (i \in 1..Len(up) /\ up'[i] = up[i])
      BY Zenon
    <3>1. \A j \in 1..Len(Append(up, x)) :
              Append(up, x)[j] = x \/ (j \in 1..Len(up) /\ Append(up, x)[j] = up[j])
      BY <1>11, AppendedFrames, ZenonT(40)
    <3> QED
      BY <3>1, Zenon
  <2> QED
    BY <1>10, <1>11, <2>1, <2>2, <2>3, <2>4, Zenon
<1>14. linkUp /\ amain' = "join" /\ rmain \notin Leaving => HasExit(up)'
  <2>1. ASSUME NEW x \in Frames, up' = Append(up, x) PROVE HasExit(up)' <=> HasExit(up) \/ x.t = "exit"
    <3>1. HasExit(Append(up, x)) <=> HasExit(up) \/ x.t = "exit"
      BY <1>11, ExitFrames
    <3> QED
      BY <2>1, <3>1, Zenon DEF HasExit
  <2>2. UNCHANGED up => (HasExit(up)' <=> HasExit(up))
    BY Zenon DEF HasExit
  <2>3. HasExit(up) => HasExit(up)'
    BY <1>10, <1>11, <2>1, <2>2, Zenon
  <2>4. CASE amain = "join"
    BY <2>3, <2>4, Zenon DEF CodeInv, LinkInv
  <2>5. CASE amain # "join" /\ amain' = "join" /\ linkUp
    <3>1. reader = "runner" /\ amain' # "return"
      BY <2>5, Zenon DEF CodeInv, LinkInv
    <3> QED
      BY <1>10, <1>11, <2>5, <2>1, <3>1, Zenon
  <2> QED
    BY <2>4, <2>5, Zenon
<1>15. rmain \in Asking => NoExec'
  BY NoExecAgent, Zenon DEF CodeInv, LinkInv
<1>16. LinkInv'
  BY <1>1, <1>5, <1>6, <1>7, <1>8, <1>13, <1>14, <1>15, Zenon DEF CodeInv, LinkInv
<1> QED
  BY <1>3, <1>4, <1>16, Zenon DEF CodeInv

(* The steps of the group and the report. *)
LEMMA GroupCode ==
    ASSUME TypeInv, GroupInv, CodeInv, Group, UNCHANGED localVars, [Next]_vars
    PROVE  CodeInv'
<1>1. UNCHANGED <<linkUp, rmain, rcode, bmain, outW, sp, b2c, shim, shimCode>>
  BY Zenon DEF localVars, shimVars, sockVars, pipeVars, runVars
<1>2. /\ \A v : Finished(v) => Finished(v)'
      /\ Refused => Refused'
      /\ Lost => Lost'
  BY TruthStays, Zenon
<1>3. UNCHANGED <<down, downEnd, up, reader, agent, amain>>
  BY Zenon DEF Group, ProcExit, ProcFork, ProcDropOutput, ProcWrite, ProcRead, link, athreads
<1>4. proc[Leader] # "none" /\ proc'[Leader] # "none"
  <2>1. PICK p \in Procs : p \in Live
    BY Zenon DEF Group, ProcExit, ProcFork, ProcDropOutput, ProcWrite, ProcRead
  <2>2. proc[p] # "none"
    BY <2>1, Zenon DEF Live
  <2> QED
    BY <2>2, GroupMoves, Zenon DEF GroupInv
<1>5. LinkInv'
  <2>1. \A i \in 1..Len(up) : up[i].t = "exit" => amain = "join" /\ Finished(up[i].v)
    BY <1>4, Zenon DEF CodeInv, LinkInv
  <2>2. (\A i \in 1..Len(up) : up[i].t = "exit" => amain = "join" /\ Finished(up[i].v))'
    BY <1>2, <1>3, <2>1, Zenon DEF Finished
  <2> QED
    BY <1>1, <1>3, <1>4, <2>2, Zenon DEF CodeInv, LinkInv, NoExec, HasExit
<1> QED
  BY <1>1, <1>2, <1>5 DEF CodeInv, RunnerInv, BrokerInv, Truthful, Reported

(* The local steps and the session. *)
LEMMA LinkLocal ==
    ASSUME TypeInv, LinkInv, LocalStep
    PROVE  LinkInv'
<1> USE DEF Asking, Looping, Leaving
<1>1. UNCHANGED <<agent, amain, proc, status, outHold>>
  BY LocalKeepsAgent, Zenon DEF athreads, group
<1>2. \A v : Finished(v)' <=> Finished(v)
  BY <1>1, Zenon DEF Finished, Over, Holders, Live
<1>3. up \in Seq(Frames) /\ down \in Seq(Frames)
  BY Zenon DEF TypeInv
<1>4. ASSUME rmain' \in Asking, rmain \in Asking PROVE NoExec'
  <2>1. UNCHANGED down \/ (\E x \in Frames : down' = Append(down, x) /\ x.t # "exec")
        \/ \E n \in 0..Len(down) : down' = SubSeq(down, 1, n)
    BY <1>4, LinkMoves, Zenon
  <2>2. NoExec
    BY <1>4, Zenon DEF LinkInv
  <2>3. ASSUME NEW i \in 1..Len(down') PROVE down'[i].t # "exec"
    <3>1. CASE UNCHANGED down
      BY <2>2, <3>1, Zenon DEF NoExec
    <3>2. ASSUME NEW x \in Frames, down' = Append(down, x), x.t # "exec" PROVE down'[i].t # "exec"
      <4>1. down'[i] = x \/ (i \in 1..Len(down) /\ down'[i] = down[i])
        BY <1>3, <3>2, ExitFrames
      <4> QED
        BY <2>2, <3>2, <4>1, Zenon DEF NoExec
    <3>3. ASSUME NEW n \in 0..Len(down), down' = SubSeq(down, 1, n) PROVE down'[i].t # "exec"
      <4>1. i \in 1..Len(down) /\ down'[i] = down[i]
        BY <1>3, <3>3, ExitFrames
      <4> QED
        BY <2>2, <4>1, Zenon DEF NoExec
    <3> QED
      BY <2>1, <3>1, <3>2, <3>3, Zenon
  <2> QED
    BY <1>1, <2>2, <2>3, Zenon DEF NoExec
<1>5. ASSUME \/ UNCHANGED up
             \/ up # <<>> /\ up' = Tail(up)
             \/ \E n \in 0..Len(up) : up' = SubSeq(up, 1, n)
      PROVE  (\A i \in 1..Len(up) : up[i].t = "exit" =>
                 IF proc[Leader] = "none" THEN up[i].v = 127 /\ amain = "return"
                                          ELSE amain = "join" /\ Finished(up[i].v))'
  <2>1. ASSUME NEW i \in 1..Len(up') PROVE \E j \in 1..Len(up) : up'[i] = up[j]
    <3>1. CASE UNCHANGED up
      BY <3>1, Zenon
    <3>2. CASE up # <<>> /\ up' = Tail(up)
      <4>1. i + 1 \in 1..Len(up) /\ up'[i] = up[i + 1]
        BY <1>3, <3>2, ExitFrames
      <4> QED
        BY <4>1, Zenon
    <3>3. ASSUME NEW n \in 0..Len(up), up' = SubSeq(up, 1, n) PROVE \E j \in 1..Len(up) : up'[i] = up[j]
      BY <1>3, <3>3, ExitFrames
    <3> QED
      BY <1>5, <3>1, <3>2, <3>3, Zenon
  <2>2. \A j \in 1..Len(up) : up[j].t = "exit" =>
            IF proc[Leader] = "none" THEN up[j].v = 127 /\ amain = "return"
                                     ELSE amain = "join" /\ Finished(up[j].v)
    BY Zenon DEF LinkInv
  <2> QED
    BY <1>1, <1>2, <2>1, <2>2 DEF Finished
<1>6. ASSUME UNCHANGED <<linkUp, reader>>, downEnd => downEnd',
             rmain' \in Asking \cup Looping \cup Leaving, rmain' \in Asking => rmain \in Asking,
             rmain \in Leaving => rmain' \in Leaving,
             \/ UNCHANGED up
             \/ up # <<>> /\ up' = Tail(up) /\ (Head(up).t = "exit" => rmain' \in Leaving)
      PROVE  LinkInv'
  <2>1. HasExit(up) => rmain' \in Leaving \/ HasExit(up)'
    <3>1. CASE up # <<>> /\ up' = Tail(up) /\ (Head(up).t = "exit" => rmain' \in Leaving)
      <4>1. HasExit(up) <=> HasExit(Tail(up)) \/ Head(up).t = "exit"
        BY <1>3, <3>1, ExitFrames, Zenon
      <4> QED
        BY <3>1, <4>1, Zenon DEF HasExit
    <3> QED
      BY <1>6, <3>1, Zenon DEF HasExit
  <2> QED
    BY <1>1, <1>4, <1>5, <1>6, <2>1, Zenon DEF LinkInv
<1>7. CASE \/ UserSignals \/ ShimForwardSignal \/ ShimReceive \/ ShimKilled
           \/ \E s \in InStreams : ShimStream(s) \/ ShimStreamEnd(s) \/ PipeToRunner(s)
           \/ ReadFramesDecode \/ ReadFramesEnd \/ ReadFramesSignal \/ ReadFramesFdGone
           \/ \E s \in OutStreams : StreamPipe(s)
           \/ BrokerClosePipes \/ BrokerDrained \/ BrokerExit
  <2>1. UNCHANGED <<linkUp, reader, downEnd, rmain, up>>
    BY <1>7, Zenon DEF UserSignals, ShimForwardSignal, ShimReceive, ShimKilled, ShimStream,
       ShimStreamEnd, PipeToRunner, ReadFramesDecode, ReadFramesEnd, ReadFramesSignal,
       ReadFramesFdGone, StreamPipe, BrokerClosePipes, BrokerDrained, BrokerExit, agentVars,
       runVars
  <2> QED
    BY <1>6, <2>1, Zenon DEF LinkInv
<1>8. CASE \/ RunnerFails \/ RunnerRequest \/ RunnerSignal \/ RunnerLoop \/ RunnerWrite
           \/ RunnerClose \/ RunnerJoin \/ \E s \in InStreams : RunnerBridge(s)
  <2>1. /\ UNCHANGED <<linkUp, reader>> /\ (downEnd => downEnd')
        /\ \/ UNCHANGED up
           \/ up # <<>> /\ up' = Tail(up) /\ (Head(up).t = "exit" => rmain' = "closing")
    BY <1>8 DEF RunnerFails, RunnerRequest, RunnerSignal, RunnerLoop, RunnerWrite, RunnerClose,
                RunnerJoin, RunnerBridge, agentVars
  <2>2. /\ rmain' \in Asking \cup Looping \cup Leaving /\ (rmain' \in Asking => rmain \in Asking)
        /\ rmain \in Leaving => rmain' \in Leaving
    BY <1>8, Zenon DEF RunnerFails, RunnerRequest, RunnerSignal, RunnerLoop, RunnerWrite,
       RunnerClose, RunnerJoin, RunnerBridge, LinkInv
  <2> QED
    BY <1>6, <2>1, <2>2, Zenon
<1>9. CASE LinkLost \/ BrokerDies
  <2>1. ~linkUp' /\ downEnd' /\ reader' # "runner" /\ rmain' \in {rmain, "returned"}
    BY <1>9, Zenon DEF LinkLost, BrokerDies
  <2>2. UNCHANGED up \/ \E n \in 0..Len(up) : up' = SubSeq(up, 1, n)
    BY <1>9, Zenon DEF LinkLost, BrokerDies
  <2> QED
    BY <1>1, <1>4, <1>5, <2>1, <2>2, Zenon DEF LinkInv
<1>10. CASE ContextEnds
  <2>1. UNCHANGED <<linkUp, reader, downEnd, rmain, up>>
    BY <1>10, Zenon DEF ContextEnds, agentVars
  <2> QED
    BY <1>6, <2>1, Zenon DEF LinkInv
<1> QED
  BY <1>7, <1>8, <1>9, <1>10, Zenon DEF LocalStep

(* The local steps and what the runner returns. *)
LEMMA RunnerLocal ==
    ASSUME TypeInv, GroupInv, LinkInv, RunnerInv, LocalStep, [Next]_vars
    PROVE  RunnerInv'
<1> USE DEF Asking, Looping, Leaving
<1>1. UNCHANGED <<agent, amain, proc>>
  BY LocalKeepsAgent, Zenon DEF athreads, group
<1>2. /\ \A v : Finished(v) => Finished(v)'
      /\ Refused => Refused'
      /\ Lost => Lost'
  BY TruthStays, Zenon
<1>3. ASSUME UNCHANGED rcode, rmain' \in Leaving <=> rmain \in Leaving PROVE RunnerInv'
  BY <1>2, <1>3, Zenon DEF RunnerInv, Finished
<1>4. CASE \/ UserSignals \/ ShimForwardSignal \/ ShimReceive \/ ShimKilled
           \/ \E s \in InStreams : ShimStream(s) \/ ShimStreamEnd(s) \/ PipeToRunner(s)
           \/ ReadFramesDecode \/ ReadFramesEnd \/ ReadFramesSignal \/ ReadFramesFdGone
           \/ \E s \in OutStreams : StreamPipe(s)
           \/ BrokerClosePipes \/ BrokerDrained \/ BrokerExit
  BY <1>3, <1>4, Zenon DEF UserSignals, ShimForwardSignal, ShimReceive, ShimKilled, ShimStream,
     ShimStreamEnd, PipeToRunner, ReadFramesDecode, ReadFramesEnd, ReadFramesSignal,
     ReadFramesFdGone, StreamPipe, BrokerClosePipes, BrokerDrained, BrokerExit, runVars
<1>5. CASE \/ RunnerSignal \/ RunnerWrite \/ RunnerClose \/ RunnerJoin \/ LinkLost
           \/ ContextEnds \/ \E s \in InStreams : RunnerBridge(s)
  BY <1>3, <1>5, Zenon DEF RunnerSignal, RunnerWrite, RunnerClose, RunnerJoin, LinkLost,
     ContextEnds, RunnerBridge
<1>6. CASE RunnerFails \/ RunnerRequest
  <2>1. CASE rcode' = 127 /\ rmain' = "returned" /\ downEnd' /\ UNCHANGED down
    <3>1. rmain \in Asking
      BY <1>6, Zenon DEF RunnerFails, RunnerRequest
    <3>2. NoExec'
      BY <1>1, <2>1, <3>1, Zenon DEF LinkInv, NoExec
    <3>3. Refused'
      BY <2>1, <3>2, Zenon DEF Refused, NoExec, PreStart
    <3> QED
      BY <2>1, <3>3, Zenon DEF RunnerInv
  <2>2. CASE UNCHANGED rcode /\ rmain \notin Leaving /\ rmain' \notin Leaving
    BY <1>3, <2>2, Zenon
  <2> QED
    BY <1>6, <2>1, <2>2 DEF RunnerFails, RunnerRequest, RunnerSendFails
<1>7. CASE RunnerLoop
  <2>1. CASE UNCHANGED rcode /\ rmain' \in Looping
    BY <1>3, <1>7, <2>1, Zenon DEF RunnerLoop
  <2>2. CASE up # <<>> /\ Head(up).t = "exit" /\ rmain' = "closing" /\ rcode' = Head(up).v
    <3>1. Head(up) = up[1] /\ 1 \in 1..Len(up)
      BY <2>2, ExitFrames, Zenon DEF TypeInv
    <3>2. \/ Head(up).v = 127 /\ amain = "return"
          \/ Finished(Head(up).v)
      BY <2>2, <3>1 DEF LinkInv
    <3>3. amain = "return" => Refused
      BY Zenon DEF Refused, PreStart
    <3>4. (rcode' = 127 /\ Refused') \/ (Finished(rcode)' /\ rcode' # -1)
      BY <1>2, <2>2, <3>2, <3>3 DEF Finished
    <3> QED
      BY <2>2, <3>4, Zenon DEF RunnerInv
  <2>3. CASE /\ (up = <<>> /\ (agent # "up" \/ ~linkUp)) \/ ctxDone
             /\ rmain' = "closing" /\ UNCHANGED rcode
    <3>1. rcode = -1 /\ rmain = "loop"
      BY <1>7, Zenon DEF RunnerLoop, RunnerInv
    <3>2. up = <<>> => ~HasExit(up)
      BY ExitFrames, Zenon DEF TypeInv
    <3>3. ASSUME ~Lost PROVE Refused
      <4>1. agent = "done" /\ amain = "return"
        BY <2>3, <3>1, <3>2, <3>3, Zenon DEF LinkInv, Lost
      <4> QED
        BY <4>1, Zenon DEF Refused, PreStart
    <3> QED
      BY <1>2, <2>3, <3>1, <3>3, Zenon DEF RunnerInv
  <2> QED
    BY <1>7, <2>1, <2>2, <2>3, Zenon DEF RunnerLoop
<1>8. CASE BrokerDies
  <2>1. UNCHANGED rcode /\ rmain' = "returned" /\ ~linkUp'
    BY <1>8, Zenon DEF BrokerDies
  <2> QED
    BY <1>2, <2>1, Zenon DEF RunnerInv, Finished, Lost
<1> QED
  BY <1>4, <1>5, <1>6, <1>7, <1>8, Zenon DEF LocalStep

(* The local steps that leave what the shim is told alone. *)
LEMMA BrokerKept ==
    ASSUME BrokerInv, UNCHANGED <<rcode, bmain, outW, sp, b2c, shim, shimCode>>,
           rmain = "returned" => rmain' = "returned",
           Truthful(shimCode) => Truthful(shimCode)', ~linkUp => ~linkUp'
    PROVE  BrokerInv'
BY Zenon DEF BrokerInv, Reported, HasExit

(* The local steps and what the shim is told. *)
LEMMA BrokerLocal ==
    ASSUME TypeInv, GroupInv, RunnerInv, BrokerInv, LocalStep, [Next]_vars
    PROVE  BrokerInv'
<1> USE DEF Asking, Looping, Leaving
<1>1. b2c \in Seq(Frames) /\ sp \in [OutStreams -> Chunk]
  BY Zenon DEF TypeInv
<1>2. /\ \A v : Truthful(v) => Truthful(v)'
      /\ ~linkUp => ~linkUp'
      /\ Lost => Lost'
  BY TruthStays, Zenon DEF Truthful
<1>3. Truthful(shimCode) /\ UNCHANGED shimCode => Truthful(shimCode)'
  BY <1>2, Zenon DEF Truthful, Finished
<1>4. CASE \/ UserSignals \/ ShimForwardSignal
           \/ \E s \in InStreams : ShimStream(s) \/ ShimStreamEnd(s) \/ PipeToRunner(s)
           \/ ReadFramesDecode \/ ReadFramesEnd \/ ReadFramesSignal \/ ReadFramesFdGone
  <2>1. UNCHANGED <<rcode, bmain, outW, sp, b2c, shim, shimCode, rmain>>
    BY <1>4, Zenon DEF UserSignals, ShimForwardSignal, ShimStream, ShimStreamEnd, PipeToRunner,
       ReadFramesDecode, ReadFramesEnd, ReadFramesSignal, ReadFramesFdGone, runVars, pipeVars,
       shimVars, sockVars
  <2> QED
    BY <1>2, <1>3, <2>1, BrokerKept, Zenon
<1>5. CASE \/ RunnerSignal \/ RunnerClose \/ RunnerJoin \/ LinkLost \/ ContextEnds
           \/ \E s \in InStreams : RunnerBridge(s)
  <2>1. UNCHANGED <<rcode, bmain, outW, sp, b2c, shim, shimCode>>
    BY <1>5, Zenon DEF RunnerSignal, RunnerClose, RunnerJoin, LinkLost, ContextEnds, RunnerBridge, pipeVars,
       shimVars, sockVars
  <2>2. rmain = "returned" => rmain' = "returned"
    BY <1>5, Zenon DEF RunnerSignal, RunnerClose, RunnerJoin, LinkLost, ContextEnds, RunnerBridge
  <2> QED
    BY <1>2, <1>3, <2>1, <2>2, BrokerKept, Zenon
<1>6. CASE RunnerFails \/ RunnerRequest \/ RunnerLoop
  <2>1. rmain # "returned" /\ UNCHANGED <<bmain, outW, sp, b2c, shim, shimCode>>
    BY <1>6, Zenon DEF RunnerFails, RunnerRequest, RunnerLoop, pipeVars, shimVars, sockVars
  <2>2. bmain = "run" /\ (\A i \in 1..Len(b2c) : b2c[i].t # "exit") /\ outW
    BY <2>1, Zenon DEF BrokerInv
  <2> QED
    BY <1>2, <1>3, <2>1, <2>2, Zenon DEF BrokerInv
<1>7. CASE ShimKilled
  <2>1. UNCHANGED <<rcode, bmain, outW, sp, b2c, shimCode, rmain>> /\ shim' = "killed"
    BY <1>7, Zenon DEF ShimKilled, runVars, pipeVars
  <2> QED
    BY <1>2, <1>3, <2>1, Zenon DEF BrokerInv, Reported
<1>8. CASE BrokerClosePipes \/ BrokerDrained
  <2>1. UNCHANGED <<rcode, sp, b2c, shim, shimCode, rmain, linkUp>>
        /\ bmain \in {"run", "drain"} /\ bmain' \in {"drain", "exit"}
        /\ (bmain = "run" => rmain = "returned")
        /\ (bmain' = "exit" => \A s \in OutStreams : sp[s].at = "done")
    BY <1>8, Zenon DEF BrokerClosePipes, BrokerDrained, runVars, shimVars, sockVars
  <2>2. \A i \in 1..Len(b2c) : b2c[i].t # "exit"
    BY <2>1, Zenon DEF BrokerInv
  <2> QED
    BY <1>2, <1>3, <2>1, <2>2, Zenon DEF BrokerInv
<1>9. CASE BrokerDies
  <2>1. /\ UNCHANGED <<rcode, outW, b2c, shim, shimCode>> /\ bmain' = "closed"
        /\ rmain' = "returned" /\ ~linkUp' /\ sp' = [s \in OutStreams |-> [at |-> "done", v |-> 0]]
        /\ bmain # "closed"
    BY <1>9, Zenon DEF BrokerDies, shimVars, sockVars, pipeVars
  <2>2. \A i \in 1..Len(b2c) : b2c[i].t # "exit"
    BY <2>1, Zenon DEF BrokerInv
  <2> QED
    BY <1>2, <1>3, <2>1, <2>2, Zenon DEF BrokerInv
<1>10. CASE RunnerWrite
  <2>1. UNCHANGED <<rcode, bmain, outW, b2c, shim, shimCode, linkUp>> /\ rmain = "write" /\ rmain' = "loop"
    BY <1>10, Zenon DEF RunnerWrite, shimVars, sockVars, pipeVars
  <2>2. bmain = "run" /\ outW /\ (\A i \in 1..Len(b2c) : b2c[i].t # "exit")
        /\ \A s \in Reliable : sp[s].at # "done"
    BY <2>1, Zenon DEF BrokerInv
  <2>3. \A s \in Reliable : sp'[s].at # "done"
    <3>1. UNCHANGED sp \/ sp' = [sp EXCEPT ![rw.s] = [at |-> "send", v |-> rw.v]]
      BY <1>10, Zenon DEF RunnerWrite
    <3> QED
      BY <1>1, <2>2, <3>1 DEF Reliable
  <2> QED
    BY <1>3, <2>1, <2>2, <2>3, Zenon DEF BrokerInv
<1>11. ASSUME NEW s \in OutStreams, StreamPipe(s) PROVE BrokerInv'
  <2>1. UNCHANGED <<rcode, bmain, outW, shim, shimCode, linkUp, rmain>>
    BY <1>11, Zenon DEF StreamPipe, runVars, shimVars, pipeVars
  <2>2. bmain \notin {"exit", "closed"}
    BY <1>11, Zenon DEF StreamPipe, BrokerInv
  <2>3. \A i \in 1..Len(b2c) : b2c[i].t # "exit"
    BY <2>2, Zenon DEF BrokerInv
  <2>4. \A i \in 1..Len(b2c') : b2c'[i].t # "exit"
    <3>1. s \in Streams /\ sp[s].v \in Int /\ "data" \in FrameTypes
      BY <1>1, Zenon DEF Streams, Chunk, FrameTypes
    <3>2. Frame("data", s, sp[s].v) \in Frames /\ Frame("data", s, sp[s].v).t # "exit"
      BY <3>1, FrameType, Zenon DEF Frame
    <3>3. UNCHANGED b2c \/ b2c' = Append(b2c, Frame("data", s, sp[s].v))
      BY <1>11, Zenon DEF StreamPipe, BrokerSend
    <3>4. CASE b2c' = Append(b2c, Frame("data", s, sp[s].v))
      <4>1. \A i \in 1..Len(b2c') : b2c'[i] = Frame("data", s, sp[s].v)
                \/ (i \in 1..Len(b2c) /\ b2c'[i] = b2c[i])
        BY <1>1, <3>2, <3>4, ExitFrames
      <4> QED
        BY <2>3, <3>2, <4>1, Zenon
    <3> QED
      BY <2>3, <3>3, <3>4, Zenon
  <2>5. \A r \in Reliable : sp'[r].at = "done" => rmain = "returned"
    <3>1. CASE sp[s].at = "read" /\ (IF s \in Extras THEN s \notin fdOpen ELSE ~outW)
               /\ sp' = [sp EXCEPT ![s].at = "done"]
      <4>1. \A r \in OutStreams \ {s} : sp'[r] = sp[r]
        BY <1>1, <3>1, Zenon
      <4>2. s \in Reliable => rmain = "returned"
        BY <3>1, Zenon DEF Reliable, BrokerInv
      <4> QED
        BY <4>1, <4>2, Zenon DEF Reliable, BrokerInv
    <3>2. CASE sp' = [sp EXCEPT ![s] = [at |-> "read", v |-> 0]]
      BY <1>1, <3>2, Zenon DEF Reliable, BrokerInv
    <3> QED
      BY <1>11, <3>1, <3>2, Zenon DEF StreamPipe
  <2> QED
    BY <1>3, <2>1, <2>2, <2>4, <2>5, Zenon DEF BrokerInv
<1>12. CASE BrokerExit
  <2>1. /\ UNCHANGED <<rcode, sp, outW, shim, shimCode, linkUp, rmain>>
        /\ bmain = "exit" /\ bmain' = "closed"
        /\ \/ shim = "run" /\ b2c' = Append(b2c, Frame("exit", 0, Reported))
           \/ shim # "run" /\ UNCHANGED b2c
    BY <1>12, Zenon DEF BrokerExit, BrokerSend, Reported, runVars, shimVars
  <2>2. \A i \in 1..Len(b2c) : b2c[i].t # "exit"
    BY <2>1, Zenon DEF BrokerInv
  <2>3. CASE b2c' = Append(b2c, Frame("exit", 0, Reported))
    <3>1. 0 \in Streams /\ Reported \in Int /\ "exit" \in FrameTypes
      BY AgentAssumption DEF Streams, Reported, FrameTypes, TypeInv
    <3>2. /\ Frame("exit", 0, Reported) \in Frames /\ Frame("exit", 0, Reported).t = "exit"
          /\ Frame("exit", 0, Reported).v = Reported
      BY <3>1, FrameType, Zenon DEF Frame
    <3>3. HasExit(Append(b2c, Frame("exit", 0, Reported)))
      BY <1>1, <3>2, ExitFrames, Zenon
    <3>4. \A i \in 1..Len(b2c') : b2c'[i] = Frame("exit", 0, Reported)
                \/ (i \in 1..Len(b2c) /\ b2c'[i] = b2c[i])
      BY <1>1, <2>3, <3>2, ExitFrames
    <3>5. HasExit(b2c)' /\ Reported' = Reported
      BY <2>1, <2>3, <3>3, Zenon DEF HasExit, Reported
    <3>6. \A i \in 1..Len(b2c') : b2c'[i].t = "exit" => b2c'[i].v = Reported'
      BY <2>2, <3>2, <3>4, <3>5, Zenon
    <3> QED
      BY <1>3, <2>1, <3>5, <3>6, Zenon DEF BrokerInv
  <2>4. CASE UNCHANGED b2c /\ shim # "run"
    BY <1>3, <2>1, <2>2, <2>4, Zenon DEF BrokerInv
  <2> QED
    BY <2>1, <2>3, <2>4, Zenon
<1>13. CASE ShimReceive
  <2>1. UNCHANGED <<rcode, sp, bmain, outW, linkUp, rmain>> /\ shim = "run"
    BY <1>13, Zenon DEF ShimReceive, runVars, pipeVars
  <2>2. ASSUME b2c # <<>>, b2c' = Tail(b2c)
        PROVE  /\ \A i \in 1..Len(b2c') : b2c'[i].t = "exit" => bmain = "closed" /\ b2c'[i].v = Reported
               /\ HasExit(b2c) <=> HasExit(b2c)' \/ Head(b2c).t = "exit"
               /\ Head(b2c).t = "exit" => bmain = "closed" /\ Head(b2c).v = Reported
    <3>1. /\ \A i \in 1..Len(b2c') : i + 1 \in 1..Len(b2c) /\ b2c'[i] = b2c[i + 1]
          /\ Head(b2c) = b2c[1] /\ 1 \in 1..Len(b2c)
      BY <1>1, <2>2, ExitFrames
    <3>2. HasExit(b2c) <=> HasExit(Tail(b2c)) \/ Head(b2c).t = "exit"
      BY <1>1, <2>2, ExitFrames, Zenon
    <3> QED
      BY <2>2, <3>1, <3>2, Zenon DEF BrokerInv, HasExit
  <2>3. Reported' = Reported
    BY <2>1, Zenon DEF Reported
  <2>4. CASE b2c # <<>> /\ b2c' = Tail(b2c) /\ Head(b2c).t = "data" /\ UNCHANGED <<shim, shimCode>>
    BY <1>3, <2>1, <2>2, <2>3, <2>4, Zenon DEF BrokerInv
  <2>5. CASE b2c # <<>> /\ b2c' = Tail(b2c) /\ Head(b2c).t = "exit" /\ shim' = "exited"
             /\ shimCode' = Head(b2c).v
    <3>1. shimCode' = Reported /\ rmain = "returned"
      BY <2>2, <2>5, Zenon DEF BrokerInv
    <3>2. Truthful(Reported)
      <4>1. CASE rcode = -1
        BY <3>1, <4>1 DEF RunnerInv, Reported, Truthful
      <4>2. CASE rcode # -1
        BY <3>1, <4>2 DEF RunnerInv, Reported, Truthful, Finished
      <4> QED
        BY <4>1, <4>2, Zenon
    <3>3. Truthful(shimCode)'
      BY <1>2, <3>1, <3>2, Zenon DEF Truthful, Finished
    <3> QED
      BY <2>1, <2>2, <2>3, <2>5, <3>3, Zenon DEF BrokerInv
  <2>6. CASE b2c = <<>> /\ bmain = "closed" /\ shim' = "exited" /\ shimCode' = 127 /\ UNCHANGED b2c
    <3>1. ~HasExit(b2c)
      BY <1>1, <2>6, ExitFrames, Zenon
    <3>2. ~linkUp
      BY <2>1, <2>6, <3>1, Zenon DEF BrokerInv
    <3>3. Truthful(shimCode)'
      BY <1>2, <2>6, <3>2, Zenon DEF Truthful, Lost
    <3> QED
      BY <2>1, <2>3, <2>6, <3>3, Zenon DEF BrokerInv
  <2> QED
    BY <1>13, <2>4, <2>5, <2>6, Zenon DEF ShimReceive
<1> QED
  BY <1>4, <1>5, <1>6, <1>7, <1>8, <1>9, <1>10, <1>11, <1>12, <1>13, Zenon DEF LocalStep

(* CodeInv is an invariant. *)
LEMMA CodeInvariance == SafeSpec => []CodeInv
<1>1. Init => CodeInv
  <2> SUFFICES ASSUME Init PROVE CodeInv
    BY Zenon
  <2>1. LinkInv
    BY DEF Init, AgentInit, LinkInv, Asking, Looping, Leaving, NoExec
  <2>2. RunnerInv
    BY Zenon DEF Init, RunnerInv, Leaving
  <2>3. BrokerInv
    BY DEF Init, BrokerInv, Reliable
  <2> QED
    BY <2>1, <2>2, <2>3, Zenon DEF CodeInv
<1>2. TypeInv /\ GroupInv /\ GroupInv' /\ CodeInv /\ [Next]_vars => CodeInv'
  <2> SUFFICES ASSUME TypeInv, GroupInv, GroupInv', CodeInv, [Next]_vars PROVE CodeInv'
    BY Zenon
  <2>1. CASE LocalStep
    BY <2>1, LinkLocal, RunnerLocal, BrokerLocal, Zenon DEF CodeInv
  <2>2. CASE UNCHANGED vars
    <3>1. UNCHANGED <<linkUp, ctxDone, reader, down, downEnd, up, agent, amain, proc, status, outHold, rmain, rcode,
                      bmain, outW, sp, b2c, shim, shimCode>>
      BY <2>2, Zenon DEF vars, agentVars, localVars, shimVars, sockVars, pipeVars, runVars
    <3>2. LinkInv'
      BY <3>1, Zenon DEF CodeInv, LinkInv, NoExec, Refused, Finished, Over, Holders, Live,
         Truthful, Reported, HasExit
    <3>3. RunnerInv'
      BY <3>1, Zenon DEF CodeInv, RunnerInv, Refused, NoExec, Finished, Over, Holders, Live, Lost
    <3>4. /\ Reported' = Reported /\ (HasExit(b2c)' <=> HasExit(b2c))
          /\ (Truthful(shimCode)' <=> Truthful(shimCode))
      BY <3>1, Zenon DEF Truthful, Refused, NoExec, Finished, Over, Holders, Live, Reported, HasExit, Lost
    <3>5. BrokerInv'
      BY <3>1, <3>4, Zenon DEF CodeInv, BrokerInv
    <3> QED
      BY <3>2, <3>3, <3>5, Zenon DEF CodeInv
  <2> QED
    BY <2>1, <2>2, AgentCode, GroupCode, StepKinds, Zenon
<1> QED
  BY <1>1, <1>2, TypeInvariance, GroupInvariance, PTL DEF SafeSpec

-----------------------------------------------------------------------------
(* Output *)

(* The runner can still hand chunks of s to its streamPipe. *)
ToShim(s) == sp[s].at # "done" /\ (s \in Extras => s \in fdOpen)
(* The agent's bridge has not given the stream up. *)
Bridged(s) == s \in Extras => abridge[s].at \notin {"eof", "done"}

Plus(n, more) == IF more THEN n + 1 ELSE n

(* b is the last chunk on the socket, u the last one on the session: the    *)
(* last chunk streamPipe has, the runner has and the agent's bridge has.    *)
Handed(s, b) == Plus(b, sp[s].at = "send")
Fetched(s, b) == Plus(Handed(s, b), rmain = "write" /\ rw.s = s)
Read(s, u) == Plus(u, abridge[s].at = "send")

(* From streamPipe to the shim. *)
Showing(s, b) ==
    /\ Runs(b2c, s, Len(shimOut[s]), b)
    /\ sp[s].at = "send" => sp[s].v = b + 1
    /\ Handed(s, b) <= wrote[s]

(* Nothing reliable is missing when the code is reported. *)
Complete(s, b) ==
    s \in Reliable /\ rcode >= 0 /\ proc[Leader] # "none" =>
        /\ bmain # "closed" => Handed(s, b) = wrote[s]
        /\ HasExit(b2c) => b = wrote[s]

(* From the group to the session, as long as the runner is at its end. *)
Bridging(s, u) ==
    reader = "runner" =>
        /\ abridge[s].at = "send" => abridge[s].v = u + 1
        /\ Read(s, u) <= wrote[s]
        /\ Bridged(s) => Read(s, u) + Len(outPipe[s]) = wrote[s] /\ Numbered(outPipe[s], Read(s, u))

(* From the group to the runner. *)
Coming(s, b, u) ==
    rmain \notin Leaving /\ ToShim(s) =>
        /\ rmain = "write" /\ rw.s = s => rw.v = Handed(s, b) + 1
        /\ Runs(up, s, Fetched(s, b), u)
        /\ Fetched(s, b) <= wrote[s] /\ u <= wrote[s]
        /\ s \in Reliable /\ HasExit(up) /\ proc[Leader] # "none" => u = wrote[s]
        /\ Bridging(s, u)

OutAt(s, b, u) == Showing(s, b) /\ Complete(s, b) /\ Coming(s, b, u)

OutInv == shim = "run" => \A s \in OutStreams : \E b, u \in Nat : OutAt(s, b, u)

(* A command that was reported on is not started afterwards. *)
LEMMA StartOnce ==
    ASSUME GroupInv, CodeInv, AgentNext, rcode >= 0 \/ HasExit(up), proc[Leader] = "none"
    PROVE  proc'[Leader] = "none"
<1>1. amain \in PreStart /\ agent = "up"
      /\ (Log \/ ReadRequest \/ StartFails \/ SendRefusal \/ Return \/ StartChild)
  BY MainOnly, Zenon DEF GroupInv
<1>2. ~StartChild
  <2>1. HasExit(up) => amain = "return"
    BY Zenon DEF CodeInv, LinkInv, HasExit
  <2>2. rcode >= 0 => Refused
    BY DEF CodeInv, RunnerInv, Finished, Over
  <2>3. amain = "start" => ~Refused
    BY <1>1, Zenon DEF Refused, NoExec
  <2> QED
    BY <2>1, <2>2, <2>3, Zenon DEF StartChild
<1>3. UNCHANGED proc
  BY <1>1, <1>2, Zenon DEF Log, ReadRequest, StartFails, SendRefusal, Return, Send, group
<1> QED
  BY <1>3, Zenon

(* A command that ended with its code reported, or on its way, writes no    *)
(* more.                                                                    *)
LEMMA SilentAtTheEnd ==
    ASSUME GroupInv, CodeInv, rcode >= 0 \/ HasExit(up), proc[Leader] # "none", NEW s \in OutStreams
    PROVE  Holders(s) = {}
<1>1. ~Refused
  BY Zenon DEF GroupInv, Refused
<1>2. rcode >= 0 => Over
  BY <1>1 DEF CodeInv, RunnerInv, Finished
<1>3. HasExit(up) => Over
  BY Zenon DEF CodeInv, LinkInv, HasExit, Finished
<1> QED
  BY <1>2, <1>3, Zenon DEF Over

(* A pipe that is read, or written. *)
LEMMA PipeMoves ==
    ASSUME NEW q \in Seq(Int), NEW a \in Int, Numbered(q, a)
    PROVE  /\ q # <<>> => /\ Head(q) = a + 1 /\ Numbered(Tail(q), a + 1)
                          /\ Len(Tail(q)) = Len(q) - 1 /\ Len(q) >= 1
           /\ \A x \in Int : x = a + Len(q) + 1 =>
                  Numbered(Append(q, x), a) /\ Len(Append(q, x)) = Len(q) + 1
<1>1. Len(q) \in Nat
  OBVIOUS
<1>2. ASSUME q # <<>>
      PROVE  /\ Head(q) = a + 1 /\ Numbered(Tail(q), a + 1)
             /\ Len(Tail(q)) = Len(q) - 1 /\ Len(q) >= 1
  <2>1. /\ Len(Tail(q)) = Len(q) - 1 /\ Len(q) >= 1 /\ Head(q) = q[1]
        /\ \A i \in 1..(Len(q) - 1) : Tail(q)[i] = q[i + 1] /\ i + 1 \in 1..Len(q)
    BY <1>2
  <2>2. Numbered(Tail(q), a + 1)
    BY <2>1 DEF Numbered
  <2>3. Head(q) = a + 1
    BY <1>1, <2>1 DEF Numbered
  <2> QED
    BY <2>1, <2>2, <2>3, Zenon
<1>3. ASSUME NEW x \in Int, x = a + Len(q) + 1
      PROVE  Numbered(Append(q, x), a) /\ Len(Append(q, x)) = Len(q) + 1
  <2>1. /\ Len(Append(q, x)) = Len(q) + 1 /\ Append(q, x)[Len(q) + 1] = x
        /\ \A i \in 1..Len(q) : Append(q, x)[i] = q[i]
    BY AppendedIs
  <2> QED
    BY <1>1, <1>3, <2>1 DEF Numbered
<1> QED
  BY <1>2, <1>3, Zenon

(* A step of the agent that moves nothing of stream s. *)
AgentQuiet(s) ==
    /\ outPipe'[s] = outPipe[s]
    /\ \/ abridge'[s] = abridge[s]
       \/ abridge'[s].at # "send" /\ (reader = "runner" => abridge[s].at # "send")
          /\ (Bridged(s)' => Bridged(s))
    /\ \/ UNCHANGED up
       \/ \E x \in Frames :
              /\ up' = Append(up, x) /\ ~(x.t = "data" /\ x.s = s)
              /\ x.t = "exit" => \/ amain = "refuse"
                                 \/ reader = "runner" /\ abridge[s].at = "done"

(* What a step of the agent means for one output stream: a chunk is sent,   *)
(* one is read from the pipe, or neither.                                   *)
LEMMA AgentSends ==
    ASSUME TypeInv, GroupInv, NEW s \in OutStreams, AgentNext
    PROVE  \/ /\ reader = "runner" /\ abridge[s].at = "send" /\ abridge'[s].at = "read"
              /\ up' = Append(up, Frame("data", s, abridge[s].v)) /\ outPipe'[s] = outPipe[s]
              /\ amain \notin {"return", "join"}
           \/ /\ abridge[s].at = "read" /\ abridge'[s].at = "send" /\ UNCHANGED up
              /\ outPipe[s] # <<>> /\ abridge'[s].v = Head(outPipe[s]) /\ outPipe'[s] = Tail(outPipe[s])
           \/ AgentQuiet(s)
<1>1. /\ abridge \in [OutStreams -> Chunk] /\ outPipe \in [OutStreams -> Seq(Int)]
      /\ 0 \in Streams /\ OutStreams \subseteq Streams
      /\ {"data", "eof", "log", "exit"} \subseteq FrameTypes
  BY AgentAssumption, Zenon DEF TypeInv, Streams, FrameTypes
<1>2. ASSUME NEW t \in FrameTypes, NEW r \in Streams, NEW v \in Int
      PROVE  /\ Frame(t, r, v) \in Frames
             /\ Frame(t, r, v).t = t /\ Frame(t, r, v).s = r /\ Frame(t, r, v).v = v
  BY FrameType, Zenon DEF Frame
<1>3. CASE UNCHANGED <<outPipe, abridge, up>>
  BY <1>3, Zenon DEF AgentQuiet
<1>4. CASE Log \/ LoopWarn \/ LoopSignal
  <2>1. UNCHANGED <<outPipe, abridge>> /\ (UNCHANGED up \/ up' = Append(up, Frame("log", 0, 0)))
    BY <1>4, Zenon DEF Log, LoopWarn, LoopSignal, Send, LogFrame, group
  <2> QED
    BY <1>1, <1>2, <2>1 DEF AgentQuiet
<1>5. CASE SendRefusal
  <2>1. UNCHANGED <<outPipe, abridge>> /\ (UNCHANGED up \/ up' = Append(up, Frame("exit", 0, 127)))
        /\ amain = "refuse"
    BY <1>5, Zenon DEF SendRefusal, Send, group
  <2> QED
    BY <1>1, <1>2, <2>1 DEF AgentQuiet
<1>6. CASE SendExit
  <2>1. UNCHANGED <<outPipe, abridge>> /\ abridge[s].at = "done"
        /\ (UNCHANGED up \/ (reader = "runner" /\ up' = Append(up, Frame("exit", 0, acode))))
    BY <1>6, Zenon DEF SendExit, Send, group
  <2>2. acode \in Int
    BY Zenon DEF TypeInv
  <2> QED
    BY <1>1, <1>2, <2>1, <2>2, Zenon DEF AgentQuiet
<1>7. CASE StartBridges
  <2>1. UNCHANGED <<outPipe, up>> /\ abridge'[s].at = "read" /\ amain = "bridge"
    BY <1>7, Zenon DEF StartBridges, link, group
  <2>2. abridge[s].at = "idle"
    BY <2>1, Zenon DEF GroupInv
  <2> QED
    BY <2>1, <2>2, Zenon DEF AgentQuiet, Bridged
<1>8. ASSUME NEW r \in OutStreams, BridgeRead(r), r # s PROVE AgentQuiet(s)
  <2>1. UNCHANGED up /\ abridge'[s] = abridge[s] /\ outPipe'[s] = outPipe[s]
    BY <1>1, <1>8, Zenon DEF BridgeRead, link
  <2> QED
    BY <2>1, Zenon DEF AgentQuiet
<1>9. ASSUME BridgeRead(s)
      PROVE  \/ /\ abridge[s].at = "read" /\ abridge'[s].at = "send" /\ UNCHANGED up
                /\ outPipe[s] # <<>> /\ abridge'[s].v = Head(outPipe[s])
                /\ outPipe'[s] = Tail(outPipe[s])
             \/ AgentQuiet(s)
  <2>1. UNCHANGED up /\ abridge[s].at = "read"
    BY <1>9, Zenon DEF BridgeRead, link
  <2>2. CASE /\ outPipe[s] # <<>>
             /\ abridge' = [abridge EXCEPT ![s] = [at |-> "send", v |-> Head(outPipe[s])]]
             /\ outPipe' = [outPipe EXCEPT ![s] = Tail(@)]
    BY <1>1, <2>1, <2>2, Zenon
  <2>3. CASE abridge' = [abridge EXCEPT ![s].at = "eof"] /\ UNCHANGED outPipe
    <3>1. abridge'[s].at = "eof"
      BY <1>1, <2>3, Zenon DEF Chunk
    <3> QED
      BY <2>1, <2>3, <3>1, Zenon DEF AgentQuiet, Bridged
  <2> QED
    BY <1>9, <2>2, <2>3, Zenon DEF BridgeRead
<1>10. ASSUME NEW r \in OutStreams, BridgeSend(r), r # s PROVE AgentQuiet(s)
  <2>1. /\ abridge'[s] = abridge[s] /\ UNCHANGED outPipe
        /\ UNCHANGED up \/ up' = Append(up, Frame("data", r, abridge[r].v))
                        \/ up' = Append(up, Frame("eof", r, abridge[r].v))
    BY <1>1, <1>10, Zenon DEF BridgeSend, Send, group
  <2>2. abridge[r].v \in Int
    BY <1>1, Zenon DEF Chunk
  <2>3. r \in Streams /\ "data" \in FrameTypes /\ "eof" \in FrameTypes
    BY FrameParts, Zenon DEF Streams
  <2>4. /\ Frame("data", r, abridge[r].v) \in Frames /\ Frame("data", r, abridge[r].v).t = "data"
        /\ Frame("data", r, abridge[r].v).s = r
    BY <2>2, <2>3, FrameType, Zenon DEF Frame
  <2>5. /\ Frame("eof", r, abridge[r].v) \in Frames /\ Frame("eof", r, abridge[r].v).t = "eof"
        /\ Frame("eof", r, abridge[r].v).s = r
    BY <2>2, <2>3, FrameType, Zenon DEF Frame
  <2>6. UNCHANGED up \/ \E x \in Frames : up' = Append(up, x) /\ x.t # "exit" /\ x.s # s
    BY <1>10, <2>1, <2>4, <2>5, Zenon
  <2> QED
    BY <2>1, <2>6, Zenon DEF AgentQuiet
<1>11. ASSUME BridgeSend(s)
       PROVE  \/ /\ reader = "runner" /\ abridge[s].at = "send" /\ abridge'[s].at = "read"
                 /\ up' = Append(up, Frame("data", s, abridge[s].v)) /\ outPipe'[s] = outPipe[s]
                 /\ amain \notin {"return", "join"}
              \/ AgentQuiet(s)
  <2>1. UNCHANGED outPipe /\ abridge[s].at \in {"send", "eof"} /\ abridge[s].v \in Int
    BY <1>1, <1>11, Zenon DEF BridgeSend, Send, group, Chunk
  <2>2. CASE reader = "nobody" /\ UNCHANGED <<up, abridge>>
    BY <2>1, <2>2, Zenon DEF AgentQuiet
  <2>3. CASE /\ \/ reader = "runner" /\ up' = Append(up, Frame(IF abridge[s].at = "send" THEN "data"
                                                               ELSE "eof", s, abridge[s].v))
                \/ reader = "daemon" /\ UNCHANGED up
             /\ abridge' = [abridge EXCEPT ![s] =
                              [at |-> IF abridge[s].at = "send" THEN "read" ELSE "done", v |-> 0]]
    <3>1. abridge'[s].at = IF abridge[s].at = "send" THEN "read" ELSE "done"
      BY <1>1, <2>3, Zenon
    <3>2. CASE abridge[s].at = "send" /\ reader = "runner"
      <4>1. amain \notin {"return", "join"}
        BY <3>2, Zenon DEF GroupInv, PreStart
      <4> QED
        BY <2>1, <2>3, <3>1, <3>2, <4>1, Zenon
    <3>3. CASE abridge[s].at = "send" /\ reader # "runner"
      <4>1. UNCHANGED up /\ abridge'[s].at = "read" /\ Bridged(s)
        BY <2>3, <3>1, <3>3, Zenon DEF Bridged
      <4> QED
        BY <2>1, <3>3, <4>1, Zenon DEF AgentQuiet
    <3>4. CASE abridge[s].at = "eof"
      <4>1. UNCHANGED up \/ up' = Append(up, Frame("eof", s, abridge[s].v))
        BY <2>3, <3>4, Zenon
      <4>2. Bridged(s)' => Bridged(s)
        BY <3>1, <3>4, Zenon DEF Bridged
      <4> QED
        <5>1. s \in Streams /\ "eof" \in FrameTypes
          BY FrameParts, Zenon DEF Streams
        <5>2. /\ Frame("eof", s, abridge[s].v) \in Frames /\ Frame("eof", s, abridge[s].v).t = "eof"
              /\ abridge'[s].at = "done"
          BY <2>1, <3>1, <3>4, <5>1, FrameType, Zenon DEF Frame
        <5>3. UNCHANGED up \/ \E x \in Frames : up' = Append(up, x) /\ x.t = "eof"
          BY <4>1, <5>2, Zenon
        <5> QED
          BY <2>1, <3>4, <4>2, <5>2, <5>3, Zenon DEF AgentQuiet
    <3> QED
      BY <2>1, <3>2, <3>3, <3>4, Zenon
  <2> QED
    BY <1>11, <2>2, <2>3, Zenon DEF BridgeSend, Send
<1>12. CASE \E r \in OutStreams : AgentBridge(r)
  BY <1>8, <1>9, <1>10, <1>11, <1>12, Zenon DEF AgentBridge
<1>13. CASE \/ ReadRequest \/ StartFails \/ Return \/ StartChild \/ SelectChildDone \/ SelectMuxDone
            \/ Terminate \/ GraceDone \/ GraceExpired \/ Kill \/ JoinMux \/ LoopEOF \/ LoopData
            \/ LoopWrite \/ LoopStreamEOF \/ WaitFor
  BY <1>3, <1>13, Zenon DEF ReadRequest, StartFails, Return, StartChild, SelectChildDone,
     SelectMuxDone, Terminate, GraceDone, GraceExpired, Kill, JoinMux, LoopEOF, LoopData,
     LoopWrite, LoopStreamEOF, WaitFor, link, group
<1> QED
  BY <1>4, <1>5, <1>6, <1>7, <1>12, <1>13, Zenon DEF AgentNext, AgentMain, AgentLoop

(* The agent's own steps and the output. *)
LEMMA AgentOut ==
    ASSUME TypeInv, GroupInv, CodeInv, AgentNext, UNCHANGED localVars,
           NEW s \in OutStreams, NEW b \in Nat, NEW u \in Nat, OutAt(s, b, u)
    PROVE  \E x \in Nat : OutAt(s, b, x)'
<1>1. UNCHANGED <<b2c, shimOut, sp, rmain, rw, rcode, bmain, fdOpen>>
  BY Zenon DEF localVars, shimVars, sockVars, pipeVars, runVars
<1>2. UNCHANGED <<reader, wrote>>
  BY Zenon DEF AgentNext, AgentMain, Log, ReadRequest, StartFails, SendRefusal, Return, StartChild,
         StartBridges, SelectChildDone, SelectMuxDone, Terminate, GraceDone, GraceExpired, Kill,
         SendExit, JoinMux, AgentLoop, LoopEOF, LoopWarn, LoopData, LoopWrite, LoopStreamEOF,
         LoopSignal, WaitFor, AgentBridge, BridgeRead, BridgeSend, Send, link, group
<1>3. rcode >= 0 \/ HasExit(up) => (proc'[Leader] # "none" => proc[Leader] # "none")
  BY StartOnce, Zenon
<1>4. Showing(s, b)' /\ Complete(s, b)'
  <2>1. HasExit(b2c)' <=> HasExit(b2c)
    BY <1>1, Zenon DEF HasExit
  <2>2. Handed(s, b)' = Handed(s, b)
    BY <1>1, Zenon DEF Handed
  <2>3. Showing(s, b)'
    BY <1>1, <1>2, <2>2, Zenon DEF OutAt, Showing
  <2>4. Complete(s, b)'
    BY <1>1, <1>2, <1>3, <2>1, <2>2, Zenon DEF OutAt, Complete
  <2> QED
    BY <2>3, <2>4, Zenon
<1>5. SUFFICES ASSUME rmain \notin Leaving, ToShim(s) PROVE \E x \in Nat : Coming(s, b, x)'
  <2>1. CASE ~(rmain \notin Leaving /\ ToShim(s))
    <3>1. ~(rmain \notin Leaving /\ ToShim(s))'
      BY <1>1, <2>1, Zenon DEF ToShim
    <3>2. Coming(s, b, u)'
      BY <3>1, Zenon DEF Coming
    <3> QED
      BY <1>4, <3>2, Zenon DEF OutAt
  <2> QED
    BY <1>4, <2>1, Zenon DEF OutAt
<1>6. /\ rmain = "write" /\ rw.s = s => rw.v = Handed(s, b) + 1
      /\ Runs(up, s, Fetched(s, b), u)
      /\ Fetched(s, b) <= wrote[s] /\ u <= wrote[s]
      /\ s \in Reliable /\ HasExit(up) /\ proc[Leader] # "none" => u = wrote[s]
      /\ Bridging(s, u)
  BY <1>5, Zenon DEF OutAt, Coming
<1>7. /\ up \in Seq(Frames) /\ outPipe[s] \in Seq(Int) /\ wrote[s] \in Nat /\ abridge[s].v \in Int
      /\ Handed(s, b)' = Handed(s, b) /\ Fetched(s, b)' = Fetched(s, b) /\ wrote'[s] = wrote[s]
  BY <1>1, <1>2, Zenon DEF TypeInv, Handed, Fetched, Chunk
<1>8. ASSUME NEW x \in Nat, Runs(up', s, Fetched(s, b), x), x <= wrote[s],
             (s \in Reliable /\ HasExit(up) /\ proc[Leader] # "none")' => x = wrote[s],
             Bridging(s, x)'
      PROVE  Coming(s, b, x)'
  BY <1>1, <1>6, <1>7, <1>8, Zenon DEF Coming
<1>9. CASE /\ reader = "runner" /\ abridge[s].at = "send" /\ abridge'[s].at = "read"
           /\ up' = Append(up, Frame("data", s, abridge[s].v)) /\ outPipe'[s] = outPipe[s]
           /\ amain \notin {"return", "join"}
  <2> DEFINE x == Frame("data", s, abridge[s].v)
  <2>1. x \in Frames /\ x.t = "data" /\ x.s = s /\ x.v = abridge[s].v
    BY <1>7, FrameType, Zenon DEF Frame, Streams, FrameTypes
  <2>2. abridge[s].v = u + 1 /\ Read(s, u) = u + 1 /\ u + 1 <= wrote[s] /\ Bridged(s)
    BY <1>6, <1>9, Zenon DEF Bridging, Read, Plus, Bridged
  <2>3. ~HasExit(up)
    BY <1>9, Zenon DEF CodeInv, LinkInv, HasExit
  <2>4. Runs(up', s, Fetched(s, b), u + 1)
    BY <1>6, <1>7, <1>9, <2>1, <2>2, <2>3, RunsAppend, Zenon
  <2>5. ~HasExit(up)'
    <3>1. HasExit(Append(up, x)) <=> HasExit(up) \/ x.t = "exit"
      BY <1>7, <2>1, ExitFrames, Zenon
    <3> QED
      BY <1>9, <2>1, <2>3, <3>1, Zenon DEF HasExit
  <2>6. Bridging(s, u + 1)'
    <3>1. Read(s, u + 1)' = u + 1
      BY <1>9, Zenon DEF Read, Plus
    <3>2. u + 1 + Len(outPipe[s]) = wrote[s] /\ Numbered(outPipe[s], u + 1)
      BY <1>6, <1>9, <2>2, Zenon DEF Bridging
    <3>3. Numbered(outPipe[s], u + 1)'
      BY <1>9, <3>2, Zenon DEF Numbered
    <3> QED
      BY <1>7, <1>9, <2>2, <3>1, <3>2, <3>3, Zenon DEF Bridging
  <2> QED
    <3>1. u + 1 \in Nat
      BY Successor, Zenon
    <3>2. Coming(s, b, u + 1)'
      BY <1>8, <2>2, <2>4, <2>5, <2>6, <3>1, Zenon
    <3> QED
      BY <3>1, <3>2, Zenon
<1>10. CASE /\ abridge[s].at = "read" /\ abridge'[s].at = "send" /\ UNCHANGED up
            /\ outPipe[s] # <<>> /\ abridge'[s].v = Head(outPipe[s]) /\ outPipe'[s] = Tail(outPipe[s])
  <2>1. (s \in Reliable /\ HasExit(up) /\ proc[Leader] # "none")' => u = wrote[s]
    BY <1>3, <1>6, <1>10, Zenon DEF HasExit
  <2>2. Bridging(s, u)'
    <3>1. SUFFICES ASSUME reader = "runner" PROVE Bridging(s, u)'
      BY <1>2, Zenon DEF Bridging
    <3>2. Read(s, u) = u /\ Read(s, u)' = u + 1 /\ Bridged(s)
      BY <1>10, Zenon DEF Read, Plus, Bridged
    <3>3. u + Len(outPipe[s]) = wrote[s] /\ Numbered(outPipe[s], u)
      BY <1>6, <3>1, <3>2, Zenon DEF Bridging
    <3>4. /\ Head(outPipe[s]) = u + 1 /\ Numbered(Tail(outPipe[s]), u + 1)
          /\ Len(Tail(outPipe[s])) = Len(outPipe[s]) - 1 /\ Len(outPipe[s]) >= 1 /\ Len(outPipe[s]) \in Nat
      <4>1. u \in Int
        BY NatIsInt, Zenon
      <4> QED
        BY <1>7, <1>10, <3>3, <4>1, PipeMoves, ListIs, Zenon
    <3>5. Numbered(outPipe[s], u + 1)' /\ Len(outPipe'[s]) = Len(outPipe[s]) - 1
      BY <1>10, <3>4, Zenon DEF Numbered
    <3>6. (u + 1) + (Len(outPipe[s]) - 1) = wrote[s] /\ u + 1 <= wrote[s]
      BY <1>7, <3>3, <3>4, OneRead, Zenon
    <3> QED
      BY <1>7, <1>10, <3>2, <3>4, <3>5, <3>6, Zenon DEF Bridging, Numbered
  <2> QED
    BY <1>6, <1>8, <1>10, <2>1, <2>2, Zenon
<1>11. CASE AgentQuiet(s)
  <2>1. Bridging(s, u)'
    <3>1. SUFFICES ASSUME reader = "runner" PROVE Bridging(s, u)'
      BY <1>2, Zenon DEF Bridging
    <3>2. CASE abridge'[s] = abridge[s] /\ outPipe'[s] = outPipe[s]
      BY <1>2, <1>6, <3>2, Zenon DEF Bridging, Read, Bridged, Numbered
    <3>3. CASE /\ abridge'[s].at # "send" /\ abridge[s].at # "send"
               /\ (Bridged(s)' => Bridged(s)) /\ outPipe'[s] = outPipe[s]
      <4>1. Read(s, u) = u /\ Read(s, u)' = u
        BY <3>3, Zenon DEF Read, Plus
      <4> QED
        BY <1>2, <1>6, <3>1, <3>3, <4>1, Zenon DEF Bridging, Numbered
    <3> QED
      BY <1>11, <3>1, <3>2, <3>3, Zenon DEF AgentQuiet
  <2>2. CASE UNCHANGED up
    <3>1. (s \in Reliable /\ HasExit(up) /\ proc[Leader] # "none")' => u = wrote[s]
      BY <1>3, <1>6, <2>2, Zenon DEF HasExit
    <3> QED
      BY <1>6, <1>8, <2>1, <2>2, <3>1, Zenon
  <2>3. ASSUME NEW x \in Frames, up' = Append(up, x), ~(x.t = "data" /\ x.s = s),
               x.t = "exit" => \/ amain = "refuse"
                               \/ reader = "runner" /\ abridge[s].at = "done"
        PROVE  \E y \in Nat : Coming(s, b, y)'
    <3>1. Runs(up', s, Fetched(s, b), u)
      BY <1>6, <1>7, <2>3, RunsAppend, Zenon
    <3>2. HasExit(up)' <=> HasExit(up) \/ x.t = "exit"
      <4>1. HasExit(Append(up, x)) <=> HasExit(up) \/ x.t = "exit"
        BY <1>7, <2>3, ExitFrames, Zenon
      <4> QED
        BY <2>3, <4>1, Zenon DEF HasExit
    <3>3. ASSUME s \in Reliable, x.t = "exit", proc'[Leader] # "none" PROVE u = wrote[s]
      <4>1. CASE amain = "refuse"
        <5>1. proc[Leader] = "none" /\ amain \in PreStart
          BY <4>1, Zenon DEF GroupInv, PreStart
        <5>2. Log \/ ReadRequest \/ StartFails \/ SendRefusal \/ Return \/ StartChild
          BY <5>1, MainOnly, Zenon
        <5>3. UNCHANGED proc
          BY <4>1, <5>2, Zenon DEF Log, ReadRequest, StartFails, SendRefusal, Return,
             StartChild, Send, group
        <5> QED
          BY <3>3, <5>1, <5>3, Zenon
      <4>2. CASE reader = "runner" /\ abridge[s].at = "done"
        <5>1. outPipe[s] = <<>> /\ Bridged(s)
          BY <3>3, <4>2, Zenon DEF GroupInv, Reliable, Bridged
        <5>2. Read(s, u) = u /\ Read(s, u) + Len(outPipe[s]) = wrote[s]
          BY <1>6, <4>2, <5>1, Zenon DEF Bridging, Read, Plus
        <5> QED
          BY <5>1, <5>2, SMTT(30)
      <4> QED
        BY <2>3, <3>3, <4>1, <4>2, Zenon
    <3>4. (s \in Reliable /\ HasExit(up) /\ proc[Leader] # "none")' => u = wrote[s]
      BY <1>3, <1>6, <3>2, <3>3, Zenon
    <3> QED
      BY <1>6, <1>8, <2>1, <3>1, <3>4, Zenon
  <2> QED
    BY <1>11, <2>2, <2>3, Zenon DEF AgentQuiet
<1> QED
  BY <1>9, <1>10, <1>11, AgentSends, Zenon

(* The steps of the group and the output. *)
LEMMA GroupOut ==
    ASSUME TypeInv, GroupInv, CodeInv, Group, UNCHANGED localVars, [Next]_vars,
           NEW s \in OutStreams, NEW b \in Nat, NEW u \in Nat, OutAt(s, b, u)
    PROVE  OutAt(s, b, u)'
<1>1. UNCHANGED <<b2c, shimOut, sp, rmain, rw, rcode, bmain, fdOpen>>
  BY Zenon DEF localVars, shimVars, sockVars, pipeVars, runVars
<1>2. UNCHANGED <<reader, up, abridge>>
  BY Zenon DEF Group, ProcExit, ProcFork, ProcDropOutput, ProcWrite, ProcRead, link, athreads
<1>3. proc[Leader] # "none" /\ proc'[Leader] # "none"
  <2>1. PICK p \in Procs : p \in Live
    BY Zenon DEF Group, ProcExit, ProcFork, ProcDropOutput, ProcWrite, ProcRead
  <2>2. proc[p] # "none"
    BY <2>1, Zenon DEF Live
  <2> QED
    BY <2>2, GroupMoves, Zenon DEF GroupInv
<1>4. wrote[s] \in Nat /\ outPipe[s] \in Seq(Int)
  BY Zenon DEF TypeInv
<1>5. Handed(s, b) \in Nat /\ Fetched(s, b) \in Nat /\ Read(s, u) \in Nat
  BY Successor, Zenon DEF Handed, Fetched, Read, Plus
<1>6. Handed(s, b)' = Handed(s, b) /\ Fetched(s, b)' = Fetched(s, b) /\ Read(s, u)' = Read(s, u)
  BY <1>1, <1>2, Zenon DEF Handed, Fetched, Read, Plus
<1>7. /\ Bridged(s)' <=> Bridged(s)
      /\ ToShim(s)' <=> ToShim(s)
      /\ HasExit(b2c)' <=> HasExit(b2c)
      /\ HasExit(up)' <=> HasExit(up)
  BY <1>1, <1>2, Zenon DEF Bridged, ToShim, HasExit
<1>8. CASE wrote'[s] = wrote[s] /\ outPipe'[s] = outPipe[s]
  <2>1. Showing(s, b)' /\ Complete(s, b)'
    BY <1>1, <1>3, <1>4, <1>5, <1>6, <1>7, <1>8, Zenon DEF OutAt, Showing, Complete
  <2>2. Bridging(s, u) => Bridging(s, u)'
    BY <1>2, <1>4, <1>5, <1>6, <1>7, <1>8, Zenon DEF Bridging, Numbered
  <2>3. Coming(s, b, u)'
    BY <1>1, <1>2, <1>3, <1>4, <1>5, <1>6, <1>7, <1>8, <2>2, Zenon DEF OutAt, Coming
  <2> QED
    BY <2>1, <2>3, Zenon DEF OutAt
<1>9. ASSUME NEW p \in Procs, ProcWrite(p, s) PROVE OutAt(s, b, u)'
  <2>1. /\ wrote'[s] = wrote[s] + 1 /\ outPipe'[s] = Append(outPipe[s], wrote[s] + 1)
        /\ Holders(s) # {}
    BY <1>9, Zenon DEF ProcWrite, TypeInv, Holders
  <2>2. ~(rcode >= 0) /\ ~HasExit(up)
    BY <1>3, <2>1, SilentAtTheEnd, Zenon
  <2>3. \A n \in Nat : n <= wrote[s] => n <= wrote'[s]
    <3> TAKE n \in Nat
    <3> QED
      BY <1>4, <2>1, Later, Zenon
  <2>4. Showing(s, b)' /\ Complete(s, b)'
    <3>1. Showing(s, b)'
      BY <1>1, <1>5, <1>6, <2>3, Zenon DEF OutAt, Showing
    <3>2. Complete(s, b)'
      BY <1>1, <2>2, Zenon DEF Complete
    <3> QED
      BY <3>1, <3>2, Zenon
  <2>5. ASSUME Bridging(s, u) PROVE Bridging(s, u)'
    <3>1. ASSUME Numbered(outPipe[s], Read(s, u)), Read(s, u) + Len(outPipe[s]) = wrote[s]
          PROVE  /\ Numbered(outPipe[s], Read(s, u))'
                 /\ Read(s, u) + Len(outPipe'[s]) = wrote[s] + 1
      <4>1. Len(outPipe[s]) \in Nat
        BY <1>4, ListIs, Zenon
      <4>2. /\ Read(s, u) + (Len(outPipe[s]) + 1) = wrote[s] + 1
            /\ wrote[s] + 1 = Read(s, u) + Len(outPipe[s]) + 1 /\ wrote[s] + 1 \in Int
        <5>1. Read(s, u) + (Len(outPipe[s]) + 1) = Read(s, u) + Len(outPipe[s]) + 1
          BY <1>5, <4>1, OneWritten, Zenon
        <5>2. wrote[s] + 1 \in Int
          BY <1>4, Successor, Zenon
        <5> QED
          BY ONLY <3>1, <5>1, <5>2, Zenon
      <4>3. Read(s, u) \in Int
        BY <1>5, NatIsInt, Zenon
      <4>4. /\ Numbered(Append(outPipe[s], wrote[s] + 1), Read(s, u))
            /\ Len(Append(outPipe[s], wrote[s] + 1)) = Len(outPipe[s]) + 1
        BY ONLY <1>4, <3>1, <4>2, <4>3, PipeMoves, Zenon
      <4>5. Numbered(outPipe[s], Read(s, u))'
        BY <1>6, <2>1, <4>4, Zenon DEF Numbered
      <4>6. Len(outPipe'[s]) = Len(outPipe[s]) + 1
        BY <2>1, <4>4, Zenon
      <4> QED
        BY <4>5, <4>6, <4>2, Zenon
    <3> QED
      BY <1>2, <1>5, <1>6, <1>7, <2>1, <2>5, <2>3, <3>1, Zenon DEF Bridging, Numbered
  <2>6. Coming(s, b, u)'
    BY <1>1, <1>2, <1>5, <1>6, <1>7, <2>2, <2>5, <2>3, Zenon DEF OutAt, Coming
  <2> QED
    BY <2>4, <2>6, Zenon DEF OutAt
<1>10. ASSUME NEW p \in Procs, NEW r \in OutStreams, ProcWrite(p, r), r # s
       PROVE  wrote'[s] = wrote[s] /\ outPipe'[s] = outPipe[s]
  BY <1>10, Zenon DEF ProcWrite, TypeInv
<1> QED
  BY <1>8, <1>9, <1>10, Zenon DEF Group, ProcExit, ProcFork, ProcDropOutput, ProcRead

(* What a local step keeps when it leaves the variables of a part alone. *)
LEMMA LocalKeepsOut ==
    ASSUME TypeInv, CodeInv, LocalStep, NEW s \in OutStreams, NEW b \in Nat, NEW u \in Nat, OutAt(s, b, u)
    PROVE  /\ UNCHANGED <<wrote, outPipe, abridge, proc>>
           /\ Bridging(s, u) => Bridging(s, u)'
           /\ UNCHANGED <<b2c, shimOut, sp>> => Showing(s, b)'
           /\ UNCHANGED <<b2c, sp, rcode>> /\ (bmain' # "closed" => bmain # "closed") => Complete(s, b)'
           /\ rmain' \in Leaving => Coming(s, b, u)'
           /\ UNCHANGED <<sp, up>> /\ fdOpen' \subseteq fdOpen
              /\ (UNCHANGED <<rmain, rw>> \/ (rmain \notin {"write"} \cup Leaving /\ rmain' # "write"))
              => Coming(s, b, u)'
<1>1. UNCHANGED <<wrote, outPipe, abridge, proc>>
  BY LocalKeepsAgent, Zenon DEF athreads, group
<1>2. reader' = reader \/ reader' # "runner"
  <2>1. CASE LinkLost \/ ContextEnds \/ BrokerDies
    BY <2>1, Zenon DEF LinkLost, ContextEnds, BrokerDies, agentVars
  <2>2. CASE \/ RunnerFails \/ RunnerRequest \/ RunnerSignal \/ RunnerLoop \/ RunnerWrite
             \/ RunnerClose \/ RunnerJoin \/ \E r \in InStreams : RunnerBridge(r)
    BY <2>2, Zenon DEF RunnerFails, RunnerRequest, RunnerSignal, RunnerLoop, RunnerWrite,
       RunnerClose, RunnerJoin, RunnerBridge, agentVars
  <2>3. CASE \/ UserSignals \/ ShimForwardSignal \/ ShimReceive \/ ShimKilled
             \/ \E r \in InStreams : ShimStream(r) \/ ShimStreamEnd(r) \/ PipeToRunner(r)
             \/ ReadFramesDecode \/ ReadFramesEnd \/ ReadFramesSignal \/ ReadFramesFdGone
             \/ \E r \in OutStreams : StreamPipe(r)
             \/ BrokerClosePipes \/ BrokerDrained \/ BrokerExit
    BY <2>3, Zenon DEF UserSignals, ShimForwardSignal, ShimReceive, ShimKilled, ShimStream,
       ShimStreamEnd, PipeToRunner, ReadFramesDecode, ReadFramesEnd, ReadFramesSignal,
       ReadFramesFdGone, StreamPipe, BrokerClosePipes, BrokerDrained, BrokerExit, agentVars
  <2> QED
    BY <2>1, <2>2, <2>3, Zenon DEF LocalStep
<1>3. Bridging(s, u) => Bridging(s, u)'
  <2>1. Read(s, u)' = Read(s, u) /\ (Bridged(s)' <=> Bridged(s))
    BY <1>1, Zenon DEF Read, Bridged
  <2> QED
    BY <1>1, <1>2, <2>1, Zenon DEF Bridging, Numbered
<1>4. UNCHANGED <<b2c, shimOut, sp>> => Showing(s, b)'
  BY <1>1, Zenon DEF OutAt, Showing, Handed
<1>5. ASSUME UNCHANGED <<b2c, sp, rcode>>, bmain' # "closed" => bmain # "closed" PROVE Complete(s, b)'
  <2>1. Handed(s, b)' = Handed(s, b) /\ (HasExit(b2c)' <=> HasExit(b2c))
    BY <1>5, Zenon DEF Handed, HasExit
  <2> QED
    BY <1>1, <1>5, <2>1, Zenon DEF OutAt, Complete
<1>6. rmain' \in Leaving => Coming(s, b, u)'
  BY Zenon DEF Coming
<1>7. ASSUME UNCHANGED <<sp, up>>, fdOpen' \subseteq fdOpen,
             UNCHANGED <<rmain, rw>> \/ (rmain \notin {"write"} \cup Leaving /\ rmain' # "write")
      PROVE  Coming(s, b, u)'
  <2>1. Handed(s, b)' = Handed(s, b) /\ (HasExit(up)' <=> HasExit(up))
    BY <1>7, Zenon DEF Handed, HasExit
  <2>2. Fetched(s, b)' = Fetched(s, b)
    BY <1>7, <2>1, Zenon DEF Fetched, Plus
  <2>3. ToShim(s)' => ToShim(s)
    BY <1>7, Zenon DEF ToShim
  <2>4. rmain' \notin Leaving => rmain \notin Leaving
    BY <1>7, Zenon
  <2> QED
    BY <1>1, <1>3, <1>7, <2>1, <2>2, <2>3, <2>4, Zenon DEF OutAt, Coming
<1> QED
  BY <1>1, <1>3, <1>4, <1>5, <1>6, <1>7, Zenon

(* The shim shows a chunk. *)
LEMMA ShimReceiveOut ==
    ASSUME TypeInv, CodeInv, ShimReceive, shim' = "run",
           NEW s \in OutStreams, NEW b \in Nat, NEW u \in Nat, OutAt(s, b, u)
    PROVE  OutAt(s, b, u)'
<1>1. /\ b2c # <<>> /\ b2c' = Tail(b2c) /\ Head(b2c).t = "data"
      /\ shimOut' = [shimOut EXCEPT ![Head(b2c).s] = Append(@, Head(b2c).v)]
  BY Zenon DEF ShimReceive
<1>2. UNCHANGED <<sp, rcode, bmain, up, fdOpen, rmain, rw>> /\ LocalStep
  BY Zenon DEF ShimReceive, agentVars, pipeVars, runVars, LocalStep
<1>3. b2c \in Seq(Frames) /\ shimOut \in [OutStreams -> Seq(Int)] /\ Head(b2c) \in Frames
  BY <1>1, QueueParts, Zenon DEF TypeInv
<1>4. UNCHANGED <<wrote, outPipe, abridge, proc>> /\ Coming(s, b, u)'
  BY <1>2, LocalKeepsOut, Zenon
<1>5. Handed(s, b)' = Handed(s, b)
  BY <1>2, Zenon DEF Handed
<1>6. Showing(s, b)'
  <2>1. Runs(b2c, s, Len(shimOut[s]), b)
    BY Zenon DEF OutAt, Showing
  <2>2. IF Head(b2c).s = s THEN Runs(Tail(b2c), s, Len(shimOut[s]) + 1, b)
                           ELSE Runs(Tail(b2c), s, Len(shimOut[s]), b)
    BY <1>1, <1>3, <2>1, RunsTail, Zenon
  <2>3. IF Head(b2c).s = s THEN shimOut'[s] = Append(shimOut[s], Head(b2c).v)
                           ELSE shimOut'[s] = shimOut[s]
    BY <1>1, <1>3, Zenon
  <2>4. Head(b2c).v \in Int /\ shimOut[s] \in Seq(Int)
    BY <1>3, Zenon DEF Frames
  <2>5. Len(Append(shimOut[s], Head(b2c).v)) = Len(shimOut[s]) + 1
    BY <2>4
  <2>6. Runs(b2c', s, Len(shimOut'[s]), b)
    BY <1>1, <2>2, <2>3, <2>5, Zenon
  <2> QED
    BY <1>2, <1>4, <1>5, <2>6, Zenon DEF OutAt, Showing
<1>7. Complete(s, b)'
  <2>1. HasExit(Tail(b2c)) => HasExit(b2c)
    BY <1>1, <1>3, ExitFrames, Zenon
  <2>2. HasExit(b2c)' => HasExit(b2c)
    BY <1>1, <2>1, Zenon DEF HasExit
  <2> QED
    BY <1>2, <1>4, <1>5, <2>2, Zenon DEF OutAt, Complete
<1> QED
  BY <1>4, <1>6, <1>7, Zenon DEF OutAt

(* streamPipe sends a chunk to the shim, or ends. *)
LEMMA StreamPipeOut ==
    ASSUME TypeInv, CodeInv, NEW r \in OutStreams, StreamPipe(r), shim = "run",
           NEW s \in OutStreams, NEW b \in Nat, NEW u \in Nat, OutAt(s, b, u)
    PROVE  \E x \in Nat : OutAt(s, x, u)'
<1>1. UNCHANGED <<shimOut, rcode, bmain, up, fdOpen, rmain, rw>> /\ LocalStep
  BY Zenon DEF StreamPipe, agentVars, shimVars, pipeVars, runVars, LocalStep
<1>2. /\ b2c \in Seq(Frames) /\ sp \in [OutStreams -> Chunk] /\ wrote[s] \in Nat
      /\ sp[s].at \in Places
  BY Zenon DEF TypeInv, Chunk
<1>3. UNCHANGED <<wrote, outPipe, abridge, proc>> /\ (Bridging(s, u) => Bridging(s, u)')
  BY <1>1, LocalKeepsOut, Zenon
<1>4. ~HasExit(b2c) /\ bmain # "closed"
  <2>1. sp[r].at # "done"
    BY Zenon DEF StreamPipe
  <2>2. bmain # "closed"
    BY <2>1, Zenon DEF CodeInv, BrokerInv
  <2> QED
    BY <2>2, Zenon DEF CodeInv, BrokerInv, HasExit
<1>5. CASE /\ sp[r].at = "read" /\ (IF r \in Extras THEN r \notin fdOpen ELSE ~outW)
           /\ sp' = [sp EXCEPT ![r].at = "done"] /\ UNCHANGED b2c
  <2>1. CASE r = s
    <3>1. sp[s].at = "read" /\ sp'[s].at = "done"
      BY <1>2, <1>5, <2>1, Zenon DEF Chunk
    <3>2. Handed(s, b) = b /\ Handed(s, b)' = b
      BY <3>1, Zenon DEF Handed, Plus
    <3>3. HasExit(b2c)' <=> HasExit(b2c)
      BY <1>5, Zenon DEF HasExit
    <3>4. Showing(s, b)' /\ Complete(s, b)'
      BY <1>1, <1>3, <1>5, <3>1, <3>2, <3>3, Zenon DEF OutAt, Showing, Complete
    <3>5. Coming(s, b, u)'
      BY <3>1, Zenon DEF Coming, ToShim
    <3> QED
      BY <3>4, <3>5, Zenon DEF OutAt
  <2>2. CASE r # s
    <3>1. sp'[s] = sp[s]
      BY <1>2, <1>5, <2>2, Zenon
    <3>2. Handed(s, b)' = Handed(s, b) /\ Fetched(s, b)' = Fetched(s, b)
      BY <1>1, <3>1, Zenon DEF Handed, Fetched
    <3>3. /\ HasExit(b2c)' <=> HasExit(b2c)
          /\ HasExit(up)' <=> HasExit(up)
          /\ ToShim(s)' <=> ToShim(s)
      BY <1>1, <1>5, <3>1, Zenon DEF HasExit, ToShim
    <3>4. Showing(s, b)' /\ Complete(s, b)'
      BY <1>1, <1>3, <1>5, <3>1, <3>2, <3>3, Zenon DEF OutAt, Showing, Complete
    <3>5. Coming(s, b, u)'
      BY <1>1, <1>3, <3>2, <3>3, Zenon DEF OutAt, Coming
    <3> QED
      BY <3>4, <3>5, Zenon DEF OutAt
  <2> QED
    BY <2>1, <2>2, Zenon
<1>6. CASE /\ sp[r].at = "send" /\ b2c' = Append(b2c, Frame("data", r, sp[r].v))
           /\ sp' = [sp EXCEPT ![r] = [at |-> "read", v |-> 0]]
  <2> DEFINE x == Frame("data", r, sp[r].v)
  <2>1. x \in Frames /\ x.t = "data" /\ x.s = r /\ x.v = sp[r].v
    <3>1. r \in Streams /\ sp[r].v \in Int /\ "data" \in FrameTypes
      BY <1>2, Zenon DEF Streams, Chunk, FrameTypes
    <3> QED
      BY <3>1, FrameType, Zenon DEF Frame
  <2>2. b2c' = Append(b2c, x)
    BY <1>6, Zenon
  <2> HIDE DEF x
  <2>3. ~HasExit(b2c)'
    <3>1. ~HasExit(Append(b2c, x))
      BY <1>2, <1>4, <2>1, ExitFrames, Zenon
    <3> QED
      BY <2>2, <3>1, Zenon DEF HasExit
  <2>4. Runs(b2c, s, Len(shimOut[s]), b)
    BY Zenon DEF OutAt, Showing
  <2>5. CASE r = s
    <3>1. sp[s].at = "send" /\ sp'[s].at = "read" /\ sp[s].v = b + 1
      BY <1>2, <1>6, <2>5, Zenon DEF OutAt, Showing
    <3>2. Handed(s, b) = b + 1 /\ Handed(s, b + 1)' = b + 1
      BY <3>1, Zenon DEF Handed, Plus
    <3>3. Fetched(s, b + 1)' = Fetched(s, b)
      BY <1>1, <3>2, Zenon DEF Fetched
    <3>4. Runs(Append(b2c, x), s, Len(shimOut[s]), b + 1)
      BY <1>2, <1>4, <2>1, <2>4, <2>5, <3>1, RunsAppend, Zenon
    <3>5. /\ HasExit(up)' <=> HasExit(up)
          /\ ToShim(s)' <=> ToShim(s)
      BY <1>1, <3>1, Zenon DEF HasExit, ToShim
    <3>6. Showing(s, b + 1)'
      BY <1>1, <1>3, <2>2, <3>1, <3>2, <3>4, Zenon DEF OutAt, Showing
    <3>7. Complete(s, b + 1)'
      BY <1>1, <1>3, <1>4, <2>3, <3>2, Zenon DEF OutAt, Complete
    <3>8. Coming(s, b + 1, u)'
      BY <1>1, <1>3, <3>2, <3>3, <3>5, Zenon DEF OutAt, Coming
    <3>9. b + 1 \in Nat
      BY Successor, Zenon
    <3> QED
      BY <3>6, <3>7, <3>8, <3>9, Zenon DEF OutAt
  <2>6. CASE r # s
    <3>1. sp'[s] = sp[s]
      BY <1>2, <1>6, <2>6, Zenon
    <3>2. Handed(s, b)' = Handed(s, b) /\ Fetched(s, b)' = Fetched(s, b)
      BY <1>1, <3>1, Zenon DEF Handed, Fetched
    <3>3. /\ HasExit(up)' <=> HasExit(up)
          /\ ToShim(s)' <=> ToShim(s)
      BY <1>1, <3>1, Zenon DEF HasExit, ToShim
    <3>4. Runs(Append(b2c, x), s, Len(shimOut[s]), b)
      BY <1>2, <2>1, <2>4, <2>6, RunsAppend, Zenon
    <3>5. Showing(s, b)' /\ Complete(s, b)'
      BY <1>1, <1>3, <1>4, <2>2, <2>3, <3>1, <3>2, <3>4, Zenon DEF OutAt, Showing, Complete
    <3>6. Coming(s, b, u)'
      BY <1>1, <1>3, <3>2, <3>3, Zenon DEF OutAt, Coming
    <3> QED
      BY <3>5, <3>6, Zenon DEF OutAt
  <2> QED
    BY <2>5, <2>6, Zenon
<1> QED
  BY <1>5, <1>6, Zenon DEF StreamPipe, BrokerSend

(* ReadLoop takes a frame, or finds the session at its end. *)
LEMMA RunnerLoopOut ==
    ASSUME TypeInv, GroupInv, CodeInv, RunnerLoop,
           NEW s \in OutStreams, NEW b \in Nat, NEW u \in Nat, OutAt(s, b, u)
    PROVE  OutAt(s, b, u)'
<1>1. UNCHANGED <<b2c, shimOut, sp, bmain>> /\ rmain = "loop" /\ LocalStep
  BY Zenon DEF RunnerLoop, shimVars, sockVars, LocalStep
<1>2. up \in Seq(Frames) /\ wrote[s] \in Nat
  BY Zenon DEF TypeInv
<1>3. /\ UNCHANGED <<wrote, outPipe, abridge, proc>> /\ Showing(s, b)'
      /\ (Bridging(s, u) => Bridging(s, u)') /\ (UNCHANGED rcode => Complete(s, b)')
      /\ (rmain' \in Leaving => Coming(s, b, u)')
  BY <1>1, LocalKeepsOut, Zenon
<1>4. Handed(s, b)' = Handed(s, b) /\ Fetched(s, b) = Handed(s, b) /\ Handed(s, b) \in Nat
  BY <1>1, Successor, Zenon DEF Handed, Fetched, Plus
<1>5. CASE rmain' = "closing" /\ UNCHANGED rcode
  BY <1>3, <1>5, Zenon DEF OutAt, Leaving
<1>6. CASE /\ up # <<>> /\ up' = Tail(up) /\ Head(up).t \in {"data", "eof", "log"}
           /\ UNCHANGED rcode /\ fdOpen' \subseteq fdOpen
           /\ IF Head(up).t = "data" THEN rmain' = "write" /\ rw' = [s |-> Head(up).s, v |-> Head(up).v]
                                     ELSE rmain' = "loop"
  <2>1. SUFFICES ASSUME ToShim(s)' PROVE Coming(s, b, u)'
    BY <1>3, <1>6, Zenon DEF OutAt, Coming
  <2>2. ToShim(s) /\ rmain \notin Leaving
    BY <1>1, <1>6, <2>1, Zenon DEF ToShim, Leaving
  <2>3. /\ Runs(up, s, Handed(s, b), u) /\ u <= wrote[s] /\ Bridging(s, u)
        /\ s \in Reliable /\ HasExit(up) /\ proc[Leader] # "none" => u = wrote[s]
    BY <1>4, <2>2, Zenon DEF OutAt, Coming
  <2>4. IF Head(up).t = "data" /\ Head(up).s = s
          THEN Head(up).v = Handed(s, b) + 1 /\ Runs(Tail(up), s, Handed(s, b) + 1, u)
          ELSE Runs(Tail(up), s, Handed(s, b), u)
    BY <1>2, <1>6, <2>3, RunsTail, Zenon
  <2>5. Fetched(s, b)' = IF Head(up).t = "data" /\ Head(up).s = s THEN Handed(s, b) + 1 ELSE Handed(s, b)
    <3>1. rmain' = "write" /\ rw'.s = s <=> Head(up).t = "data" /\ Head(up).s = s
      <4>1. CASE Head(up).t = "data"
        <5>1. rmain' = "write" /\ rw' = [s |-> Head(up).s, v |-> Head(up).v]
          BY <1>6, <4>1, Zenon
        <5> QED
          BY <4>1, <5>1, Zenon
      <4>2. CASE Head(up).t # "data"
        BY <1>6, <4>2, Zenon
      <4> QED
        BY <4>1, <4>2, Zenon
    <3> QED
      BY <1>4, <3>1, Zenon DEF Fetched, Plus
  <2>6. Runs(up', s, Fetched(s, b)', u)
    BY <1>6, <2>4, <2>5, Zenon
  <2>7. Fetched(s, b)' <= wrote[s]
    <3>1. Tail(up) \in Seq(Frames)
      BY <1>2, <1>6, QueueParts, Zenon
    <3>2. Fetched(s, b)' <= u /\ Fetched(s, b)' \in Int
      BY <1>6, <2>6, <3>1, RunsBounds, Zenon
    <3>3. u \in Int /\ wrote[s] \in Int
      BY <1>2, NatIsInt, Zenon
    <3> QED
      BY <2>3, <3>2, <3>3, Bounded, Zenon
  <2>8. HasExit(up)' => HasExit(up)
    <3>1. HasExit(Tail(up)) => HasExit(up)
      BY <1>2, <1>6, ExitFrames, Zenon
    <3> QED
      BY <1>6, <3>1, Zenon DEF HasExit
  <2>9. rmain' = "write" /\ rw'.s = s => rw'.v = Handed(s, b)' + 1
    <3>1. Handed(s, b)' = Handed(s, b)
      BY <1>4, Zenon
    <3>2. ASSUME rmain' = "write", rw'.s = s PROVE Head(up).t = "data" /\ Head(up).s = s /\ rw'.v = Head(up).v
      <4>1. Head(up).t = "data"
        BY <1>6, <3>2, Zenon
      <4>2. rw' = [s |-> Head(up).s, v |-> Head(up).v]
        BY <1>6, <4>1, Zenon
      <4> QED
        BY <3>2, <4>1, <4>2, Zenon
    <3> QED
      BY <2>4, <3>1, <3>2, Zenon
  <2> QED
    BY <1>3, <2>3, <2>6, <2>7, <2>8, <2>9, Zenon DEF Coming
<1>7. CASE /\ up # <<>> /\ up' = Tail(up) /\ Head(up).t = "exit" /\ rmain' = "closing"
  <2>1. bmain # "closed" /\ ~HasExit(b2c) /\ (s \in Reliable => sp[s].at # "done")
    BY <1>1, Zenon DEF CodeInv, BrokerInv, HasExit
  <2>2. HasExit(up)
    BY <1>2, <1>7, ExitFrames, Zenon
  <2>3. ASSUME s \in Reliable, proc[Leader] # "none" PROVE Handed(s, b) = wrote[s]
    <3>1. ToShim(s) /\ rmain \notin Leaving
      BY <1>1, <2>1, <2>3, Zenon DEF ToShim, Reliable, Leaving
    <3>2. Runs(up, s, Handed(s, b), u) /\ u = wrote[s]
      BY <1>4, <2>2, <2>3, <3>1, Zenon DEF OutAt, Coming
    <3> QED
      BY <1>2, <1>7, <3>2, RunsBounds, Zenon
  <2>4. ~HasExit(b2c)'
    BY <1>1, <2>1, Zenon DEF HasExit
  <2>5. Complete(s, b)'
    BY <1>1, <1>3, <1>4, <2>3, <2>4, Zenon DEF Complete
  <2> QED
    BY <1>3, <1>7, <2>5, Zenon DEF OutAt, Leaving
<1>8. \/ rmain' = "closing" /\ UNCHANGED rcode
      \/ /\ up # <<>> /\ up' = Tail(up) /\ Head(up).t = "exit" /\ rmain' = "closing"
      \/ /\ up # <<>> /\ up' = Tail(up) /\ Head(up).t \in {"data", "eof", "log"}
         /\ UNCHANGED rcode /\ fdOpen' \subseteq fdOpen
         /\ IF Head(up).t = "data" THEN rmain' = "write" /\ rw' = [s |-> Head(up).s, v |-> Head(up).v]
                                   ELSE rmain' = "loop"
  BY <1>1, Zenon DEF RunnerLoop
<1> QED
  BY <1>5, <1>6, <1>7, <1>8, Zenon

(* ReadLoop hands a chunk to streamPipe, or drops one of a closed extra fd. *)
LEMMA RunnerWriteOut ==
    ASSUME TypeInv, CodeInv, RunnerWrite,
           NEW s \in OutStreams, NEW b \in Nat, NEW u \in Nat, OutAt(s, b, u)
    PROVE  OutAt(s, b, u)'
<1>1. /\ UNCHANGED <<b2c, shimOut, bmain, up, fdOpen, rcode, rw>> /\ LocalStep
      /\ rmain = "write" /\ rmain' = "loop"
  BY Zenon DEF RunnerWrite, agentVars, shimVars, sockVars, pipeVars, LocalStep
<1>2. sp \in [OutStreams -> Chunk] /\ wrote[s] \in Nat
  BY Zenon DEF TypeInv
<1>3. /\ UNCHANGED <<wrote, outPipe, abridge, proc>> /\ (Bridging(s, u) => Bridging(s, u)')
      /\ (UNCHANGED sp => Showing(s, b)')
  BY <1>1, LocalKeepsOut, Zenon
<1>4. Complete(s, b)'
  BY <1>1 DEF Complete, CodeInv, RunnerInv, Leaving
<1>5. /\ HasExit(up)' <=> HasExit(up)
      /\ rmain \notin Leaving
  BY <1>1, Zenon DEF HasExit, Leaving
<1>6. CASE rw.s = s /\ sp[s].at = "read" /\ (s \in Extras => s \in fdOpen)
           /\ sp' = [sp EXCEPT ![s] = [at |-> "send", v |-> rw.v]]
  <2>1. sp'[s].at = "send" /\ sp'[s].v = rw.v
    BY <1>2, <1>6, Zenon
  <2>2. ToShim(s)
    BY <1>6, Zenon DEF ToShim
  <2>3. Handed(s, b) = b /\ Fetched(s, b) = b + 1 /\ Handed(s, b)' = b + 1 /\ Fetched(s, b)' = b + 1
    BY <1>1, <1>6, <2>1, Zenon DEF Handed, Fetched, Plus
  <2>4. /\ rw.v = b + 1 /\ Runs(up, s, b + 1, u) /\ b + 1 <= wrote[s] /\ u <= wrote[s]
        /\ s \in Reliable /\ HasExit(up) /\ proc[Leader] # "none" => u = wrote[s]
        /\ Bridging(s, u)
    BY <1>1, <1>5, <1>6, <2>2, <2>3, Zenon DEF OutAt, Coming
  <2>5. Showing(s, b)'
    BY <1>1, <1>3, <2>1, <2>3, <2>4, Zenon DEF OutAt, Showing
  <2>6. Coming(s, b, u)'
    BY <1>1, <1>3, <1>5, <2>3, <2>4, Zenon DEF Coming
  <2> QED
    BY <1>4, <2>5, <2>6, Zenon DEF OutAt
<1>7. CASE rw.s = s /\ s \in Extras \ fdOpen /\ UNCHANGED sp
  <2>1. Coming(s, b, u)'
    BY <1>1, <1>7, Zenon DEF Coming, ToShim
  <2> QED
    BY <1>3, <1>4, <1>7, <2>1, Zenon DEF OutAt
<1>8. CASE rw.s # s
  <2>1. sp'[s] = sp[s]
    BY <1>2, <1>8, Zenon DEF RunnerWrite
  <2>2. Handed(s, b)' = Handed(s, b) /\ Fetched(s, b) = Handed(s, b) /\ Fetched(s, b)' = Handed(s, b)
    BY <1>1, <1>8, <2>1, Zenon DEF Handed, Fetched, Plus
  <2>3. ToShim(s)' <=> ToShim(s)
    BY <1>1, <2>1, Zenon DEF ToShim
  <2>4. Showing(s, b)'
    BY <1>1, <1>3, <2>1, <2>2, Zenon DEF OutAt, Showing
  <2>5. Coming(s, b, u)'
    BY <1>1, <1>3, <1>5, <2>2, <2>3, Zenon DEF OutAt, Coming
  <2> QED
    BY <1>4, <2>4, <2>5, Zenon DEF OutAt
<1> QED
  BY <1>6, <1>7, <1>8, Zenon DEF RunnerWrite

(* The connection breaks: a prefix of what the agent sent has arrived. *)
LEMMA LinkLostOut ==
    ASSUME TypeInv, CodeInv, LinkLost, NEW s \in OutStreams, NEW b \in Nat, NEW u \in Nat, OutAt(s, b, u)
    PROVE  \E y \in Nat : OutAt(s, b, y)'
<1>1. /\ UNCHANGED <<b2c, shimOut, sp, bmain, fdOpen, rcode, rmain, rw>> /\ LocalStep
      /\ reader' # "runner"
  BY Zenon DEF LinkLost, shimVars, sockVars, pipeVars, LocalStep
<1>2. up \in Seq(Frames) /\ wrote[s] \in Nat
  BY Zenon DEF TypeInv
<1>3. /\ UNCHANGED <<wrote, outPipe, abridge, proc>> /\ Showing(s, b)' /\ Complete(s, b)'
  BY <1>1, LocalKeepsOut, Zenon
<1>4. CASE rmain \in Leaving \/ ~ToShim(s)
  <2>1. Coming(s, b, u)'
    BY <1>1, <1>4, Zenon DEF Coming, ToShim
  <2> QED
    BY <1>3, <2>1, Zenon DEF OutAt
<1>5. CASE rmain \notin Leaving /\ ToShim(s)
  <2>1. /\ rmain = "write" /\ rw.s = s => rw.v = Handed(s, b) + 1
        /\ Runs(up, s, Fetched(s, b), u)
        /\ Fetched(s, b) <= wrote[s] /\ u <= wrote[s]
        /\ s \in Reliable /\ HasExit(up) /\ proc[Leader] # "none" => u = wrote[s]
    BY <1>5, Zenon DEF OutAt, Coming
  <2>2. PICK n \in 0..Len(up) : up' = SubSeq(up, 1, n)
    BY Zenon DEF LinkLost
  <2>3. PICK c \in Int : /\ Runs(SubSeq(up, 1, n), s, Fetched(s, b), c) /\ c <= u
                         /\ HasExit(SubSeq(up, 1, n)) => c = u
    <3>1. n \in 0..Len(up) /\ Runs(up, s, Fetched(s, b), u)
      BY <2>1, Zenon
    <3> QED
      BY ONLY <1>2, <3>1, RunsPrefix, Zenon
  <2>4. HasExit(SubSeq(up, 1, n)) => HasExit(up)
    BY <1>2, ExitFrames, Zenon
  <2>5. Fetched(s, b) <= c
    <3>1. SubSeq(up, 1, n) \in Seq(Frames)
      BY <1>2, QueueParts, Zenon
    <3> QED
      BY <2>3, <3>1, RunsBounds, Zenon
  <2>6. Fetched(s, b) \in Nat /\ Handed(s, b)' = Handed(s, b) /\ Fetched(s, b)' = Fetched(s, b)
    BY <1>1, Successor, Zenon DEF Handed, Fetched, Plus
  <2>7. c \in Nat /\ c <= wrote[s]
    <3>1. Fetched(s, b) \in Int /\ u \in Int /\ wrote[s] \in Int /\ c <= u /\ u <= wrote[s]
      BY <1>2, <2>1, <2>3, <2>6, NatIsInt, Zenon
    <3>2. c \in Nat
      BY <2>5, <2>6, Above, Zenon
    <3> QED
      BY <3>1, <3>2, Bounded, Zenon
  <2>8. HasExit(up)' => c = u /\ HasExit(up)
    BY <2>2, <2>3, <2>4, Zenon DEF HasExit
  <2>9. Coming(s, b, c)'
    BY <1>1, <1>3, <2>1, <2>2, <2>3, <2>6, <2>7, <2>8, Zenon DEF Coming, Bridging
  <2> QED
    BY <1>3, <2>7, <2>9, Zenon DEF OutAt
<1> QED
  BY <1>4, <1>5, Zenon

(* The local steps and the output. *)
LEMMA LocalOut ==
    ASSUME TypeInv, GroupInv, CodeInv, LocalStep, shim = "run", shim' = "run",
           NEW s \in OutStreams, NEW b \in Nat, NEW u \in Nat, OutAt(s, b, u)
    PROVE  \E x, y \in Nat : OutAt(s, x, y)'
<1>1. /\ UNCHANGED <<wrote, outPipe, abridge, proc>>
      /\ UNCHANGED <<b2c, shimOut, sp>> => Showing(s, b)'
      /\ UNCHANGED <<b2c, sp, rcode>> /\ (bmain' # "closed" => bmain # "closed") => Complete(s, b)'
      /\ rmain' \in Leaving => Coming(s, b, u)'
      /\ UNCHANGED <<sp, up>> /\ fdOpen' \subseteq fdOpen
         /\ (UNCHANGED <<rmain, rw>> \/ (rmain \notin {"write"} \cup Leaving /\ rmain' # "write"))
         => Coming(s, b, u)'
  BY LocalKeepsOut, Zenon
<1>2. wrote[s] \in Nat /\ b2c \in Seq(Frames)
  BY Zenon DEF TypeInv
<1>3. CASE \/ UserSignals \/ ShimForwardSignal \/ ContextEnds
           \/ \E r \in InStreams : ShimStream(r) \/ ShimStreamEnd(r) \/ PipeToRunner(r) \/ RunnerBridge(r)
           \/ ReadFramesDecode \/ ReadFramesEnd \/ ReadFramesSignal \/ ReadFramesFdGone \/ RunnerSignal
  <2>1. UNCHANGED <<b2c, shimOut, sp, rcode, bmain, up, fdOpen, rmain, rw>>
    BY <1>3, Zenon DEF UserSignals, ShimForwardSignal, ShimStream, ShimStreamEnd, PipeToRunner,
       RunnerBridge, ReadFramesDecode, ReadFramesEnd, ReadFramesSignal, ReadFramesFdGone,
       RunnerSignal, ContextEnds, agentVars, runVars, pipeVars, shimVars, sockVars
  <2> QED
    BY <1>1, <2>1, Zenon DEF OutAt
<1>4. CASE BrokerClosePipes \/ BrokerDrained
  <2>1. /\ UNCHANGED <<b2c, shimOut, sp, rcode, rmain>> /\ rmain = "returned"
        /\ bmain # "closed"
    BY <1>4, Zenon DEF BrokerClosePipes, BrokerDrained, runVars, shimVars, sockVars, CodeInv,
       BrokerInv
  <2> QED
    BY <1>1, <2>1, Zenon DEF OutAt, Leaving
<1>5. CASE BrokerExit
  <2>1. /\ UNCHANGED <<shimOut, sp, rcode, rmain>> /\ bmain = "exit" /\ bmain' = "closed"
        /\ b2c' = Append(b2c, Frame("exit", 0, Reported))
    BY <1>5, Zenon DEF BrokerExit, BrokerSend, Reported, runVars, shimVars
  <2>2. sp[s].at = "done" /\ rmain = "returned"
    BY <2>1, Zenon DEF CodeInv, BrokerInv
  <2>3. Handed(s, b) = b /\ Handed(s, b)' = b
    BY <2>1, <2>2, Zenon DEF Handed, Plus
  <2> DEFINE x == Frame("exit", 0, Reported)
  <2>4. x \in Frames /\ x.t = "exit"
    <3>1. 0 \in Streams /\ Reported \in Int /\ "exit" \in FrameTypes
      BY AgentAssumption DEF Streams, Reported, FrameTypes, TypeInv
    <3> QED
      BY <3>1, FrameType, Zenon DEF Frame
  <2>5. b2c' = Append(b2c, x)
    BY <2>1, Zenon
  <2> HIDE DEF x
  <2>6. Runs(Append(b2c, x), s, Len(shimOut[s]), b)
    BY <1>2, <2>4, RunsAppend, Zenon DEF OutAt, Showing
  <2>7. Showing(s, b)'
    BY <1>1, <2>1, <2>2, <2>3, <2>5, <2>6, Zenon DEF OutAt, Showing
  <2>8. Complete(s, b)'
    BY <1>1, <2>1, <2>3, Zenon DEF OutAt, Complete
  <2>9. Coming(s, b, u)'
    BY <1>1, <2>1, <2>2, Zenon DEF Leaving
  <2> QED
    BY <2>7, <2>8, <2>9, Zenon DEF OutAt
<1>6. CASE RunnerFails \/ RunnerRequest
  <2>1. /\ UNCHANGED <<b2c, shimOut, sp, bmain, up, fdOpen>> /\ rmain \in Asking
        /\ (rmain' = "returned" \/ (UNCHANGED rcode /\ rmain' \in {"config", "loop"}))
    BY <1>6, Zenon DEF RunnerFails, RunnerRequest, shimVars, sockVars, pipeVars, Asking
  <2>2. proc[Leader] = "none"
    <3>1. NoExec
      BY <2>1, Zenon DEF CodeInv, LinkInv
    <3>2. amain \in PreStart
      BY <3>1, Zenon DEF NoExec, PreStart
    <3> QED
      BY <3>2, Zenon DEF GroupInv
  <2>3. Complete(s, b)'
    BY <1>1, <2>2, Zenon DEF Complete
  <2>4. Coming(s, b, u)'
    BY <1>1, <2>1, Zenon DEF Leaving, Asking
  <2> QED
    BY <1>1, <2>1, <2>3, <2>4, Zenon DEF OutAt
<1>7. CASE RunnerClose \/ RunnerJoin
  <2>1. UNCHANGED <<b2c, shimOut, sp, rcode, bmain>> /\ rmain' \in Leaving
    BY <1>7, Zenon DEF RunnerClose, RunnerJoin, shimVars, sockVars, Leaving
  <2> QED
    BY <1>1, <2>1, Zenon DEF OutAt
<1>8. CASE BrokerDies
  <2>1. /\ UNCHANGED <<b2c, shimOut, rcode>> /\ rmain' = "returned" /\ bmain' = "closed"
        /\ sp' = [r \in OutStreams |-> [at |-> "done", v |-> 0]]
    BY <1>8, Zenon DEF BrokerDies, shimVars, sockVars
  <2>2. sp'[s].at = "done" /\ Handed(s, b)' = b /\ Handed(s, b) \in {b, b + 1}
    BY <2>1, Zenon DEF Handed, Plus
  <2>3. HasExit(b2c)' <=> HasExit(b2c)
    BY <2>1, Zenon DEF HasExit
  <2>4. Showing(s, b)'
    <3>1. b <= wrote[s]
      <4>1. b \in Int /\ b + 1 \in Int /\ wrote[s] \in Int /\ b <= b + 1
        BY <1>2, NatIsInt, Successor, Zenon
      <4>2. b <= wrote[s] \/ b + 1 <= wrote[s]
        BY <2>2, Zenon DEF OutAt, Showing
      <4> QED
        BY <4>1, <4>2, Bounded, Zenon
    <3> QED
      BY <1>1, <2>1, <2>2, <3>1, Zenon DEF OutAt, Showing
  <2>5. Complete(s, b)'
    BY <1>1, <2>1, <2>3, Zenon DEF OutAt, Complete
  <2> QED
    BY <1>1, <2>1, <2>4, <2>5, Zenon DEF OutAt, Leaving
<1>9. ~ShimKilled
  BY Zenon DEF ShimKilled
<1> QED
  BY <1>3, <1>4, <1>5, <1>6, <1>7, <1>8, <1>9, ShimReceiveOut, StreamPipeOut, RunnerLoopOut,
     RunnerWriteOut, LinkLostOut, Zenon DEF LocalStep

(* A shim that ended stays so. *)
LEMMA ShimEnds ==
    ASSUME [Next]_vars, shim' = "run"
    PROVE  shim = "run"
<1>1. CASE \/ UserSignals \/ ShimForwardSignal \/ ShimReceive \/ ShimKilled
           \/ \E s \in InStreams : ShimStream(s) \/ ShimStreamEnd(s) \/ PipeToRunner(s) \/ RunnerBridge(s)
  BY <1>1, Zenon DEF UserSignals, ShimForwardSignal, ShimReceive, ShimKilled, ShimStream,
     ShimStreamEnd, PipeToRunner, RunnerBridge, shimVars
<1>2. CASE \/ ReadFramesDecode \/ ReadFramesEnd \/ ReadFramesSignal \/ ReadFramesFdGone
           \/ \E s \in OutStreams : StreamPipe(s)
           \/ BrokerClosePipes \/ BrokerDrained \/ BrokerExit
  BY <1>2, Zenon DEF ReadFramesDecode, ReadFramesEnd, ReadFramesSignal, ReadFramesFdGone,
     StreamPipe, BrokerClosePipes, BrokerDrained, BrokerExit, shimVars
<1>3. CASE \/ RunnerFails \/ RunnerRequest \/ RunnerSignal \/ RunnerLoop \/ RunnerWrite
           \/ RunnerClose \/ RunnerJoin \/ LinkLost \/ ContextEnds \/ BrokerDies
  BY <1>3, Zenon DEF RunnerFails, RunnerRequest, RunnerSignal, RunnerLoop, RunnerWrite, RunnerClose,
              RunnerJoin, LinkLost, ContextEnds, BrokerDies, shimVars
<1>4. CASE UNCHANGED localVars
  BY <1>4, Zenon DEF localVars, shimVars
<1> QED
  BY <1>1, <1>2, <1>3, <1>4, StepKinds, Zenon DEF LocalStep, vars

(* OutInv is an invariant. *)
LEMMA OutInvariance == SafeSpec => []OutInv
<1>1. Init => OutInv
  <2> SUFFICES ASSUME Init, NEW s \in OutStreams PROVE OutAt(s, 0, 0)
    BY Zenon DEF OutInv
  <2>1. /\ b2c = <<>> /\ up = <<>> /\ shimOut[s] = <<>> /\ outPipe[s] = <<>> /\ wrote[s] = 0
        /\ sp[s].at = "read" /\ abridge[s].at = "idle" /\ rmain = "ensure" /\ rcode = -1
        /\ proc[Leader] = "none"
    BY AgentAssumption, Zenon DEF Init, AgentInit
  <2>2. Handed(s, 0) = 0 /\ Fetched(s, 0) = 0 /\ Read(s, 0) = 0
    BY <2>1, Zenon DEF Handed, Fetched, Read, Plus
  <2>3. Runs(<<>>, s, 0, 0) /\ Len(shimOut[s]) = 0 /\ Len(outPipe[s]) = 0
    BY <2>1, RunsEmpty, EmptyQueue, NumbersOfInit, Zenon
  <2>4. Showing(s, 0) /\ Complete(s, 0)
    BY <2>1, <2>2, <2>3, NumbersOfInit, Zenon DEF Showing, Complete
  <2>5. Bridging(s, 0)
    BY <2>1, <2>2, <2>3, EmptyQueue, NumbersOfInit, Zenon DEF Bridging
  <2>6. Coming(s, 0, 0)
    BY <2>1, <2>2, <2>3, <2>5, EmptyQueue, NumbersOfInit, Zenon DEF Coming
  <2> QED
    BY <2>4, <2>6, Zenon DEF OutAt
<1>2. TypeInv /\ GroupInv /\ CodeInv /\ OutInv /\ [Next]_vars => OutInv'
  <2> SUFFICES ASSUME TypeInv, GroupInv, CodeInv, OutInv, [Next]_vars, shim' = "run", NEW s \in OutStreams
               PROVE  \E x, y \in Nat : OutAt(s, x, y)'
    BY Zenon DEF OutInv
  <2>1. shim = "run"
    BY ShimEnds, Zenon
  <2>2. PICK b \in Nat, u \in Nat : OutAt(s, b, u)
    BY <2>1, Zenon DEF OutInv
  <2>3. CASE AgentNext /\ UNCHANGED localVars
    BY <2>2, <2>3, AgentOut, Zenon
  <2>4. CASE Group /\ UNCHANGED localVars
    BY <2>2, <2>4, GroupOut, Zenon
  <2>5. CASE LocalStep
    BY <2>1, <2>2, <2>5, LocalOut, Zenon
  <2>6. CASE UNCHANGED vars
    <3>1. UNCHANGED <<b2c, shimOut, sp, rmain, rw, rcode, bmain, fdOpen, up, reader, abridge, outPipe,
                      wrote, proc>>
      BY <2>6, Zenon DEF vars, agentVars, localVars, shimVars, sockVars, pipeVars, runVars
    <3>2. Handed(s, b)' = Handed(s, b) /\ Fetched(s, b)' = Fetched(s, b) /\ Read(s, u)' = Read(s, u)
      BY <3>1, Zenon DEF Handed, Fetched, Read
    <3>3. /\ Bridged(s)' <=> Bridged(s)
          /\ ToShim(s)' <=> ToShim(s)
          /\ HasExit(b2c)' <=> HasExit(b2c)
          /\ HasExit(up)' <=> HasExit(up)
      BY <3>1, Zenon DEF Bridged, ToShim, HasExit
    <3>4. Showing(s, b)' /\ Complete(s, b)'
      BY <2>2, <3>1, <3>2, <3>3, Zenon DEF OutAt, Showing, Complete
    <3>5. Bridging(s, u) => Bridging(s, u)'
      BY <3>1, <3>2, <3>3, Zenon DEF Bridging, Numbered
    <3>6. Coming(s, b, u)'
      BY <2>2, <3>1, <3>2, <3>3, <3>5, Zenon DEF OutAt, Coming
    <3> QED
      BY <3>4, <3>6, Zenon DEF OutAt
  <2> QED
    BY <2>3, <2>4, <2>5, <2>6, StepKinds, Zenon
<1> QED
  BY <1>1, <1>2, TypeInvariance, GroupInvariance, CodeInvariance, PTL DEF SafeSpec

=============================================================================
