------------------------- MODULE WorkspaceFSProofs -------------------------
(***************************************************************************)
(* The id maps are inverse to each other, for every width and every        *)
(* well-formed map.  Writes reach the files that were opened, for any      *)
(* number of processes, names and files and whatever happens to the names. *)
(* A chown shows what it was asked for, and a Setattr keeps the rest.      *)
(***************************************************************************)
EXTENDS WorkspaceFS, WellFoundedInduction, TLAPS

(* An id at its place in a range that ends before the width. *)
LEMMA Shifted ==
    ASSUME NEW a \in Nat, NEW b \in Nat, NEW c \in Nat, NEW i \in Nat,
           i >= b, i - b < c, a + c <= Width
    PROVE  a + (i - b) \in Ids /\ a + (i - b) >= a /\ (a + (i - b)) - a < c
BY WidthAssumption DEF Ids

(* In a well-formed map the entry that mapToLocal picks is the one that     *)
(* covers the id: there is no other.                                        *)
LEMMA LocalOf ==
    ASSUME NEW es \in Seq(IDMapEntry), WellFormed(es), NEW id \in Ids,
           NEW k \in DOMAIN es, CoversRemote(es[k], id)
    PROVE  /\ mapToLocal(es, id) = es[k].local + (id - es[k].remote)
           /\ mapToLocal(es, id) \in Ids
           /\ CoversLocal(es[k], mapToLocal(es, id))
<1> DEFINE P(j) == CoversRemote(es[j], id) /\ \A i \in 1..(j - 1) : ~CoversRemote(es[i], id)
<1>1. es[k] \in IDMapEntry /\ DOMAIN es = 1..Len(es) /\ Len(es) \in Nat
  OBVIOUS
<1>2. \A j \in DOMAIN es : CoversRemote(es[j], id) => j = k
  BY Zenon DEF WellFormed
<1>3. P(k)
  <2> SUFFICES ASSUME NEW i \in 1..(k - 1) PROVE ~CoversRemote(es[i], id)
    BY Zenon
  <2> QED BY <1>1, <1>2
<1>4. (CHOOSE j \in DOMAIN es : P(j)) = k
  <2>1. \E j \in DOMAIN es : P(j)
    BY <1>3, Zenon
  <2> QED BY <1>2, <2>1, Zenon
<1>5. mapToLocal(es, id) = (es[k].local + (id - es[k].remote)) % Width
  BY <1>4, Zenon DEF mapToLocal
<1>6. /\ es[k].local \in Nat /\ es[k].remote \in Nat /\ es[k].count \in Nat /\ id \in Nat
      /\ id >= es[k].remote /\ id - es[k].remote < es[k].count
      /\ es[k].local + es[k].count <= Width
  <2>1. es[k].local \in Nat /\ es[k].remote \in Nat /\ es[k].count \in Nat /\ id \in Nat
    BY <1>1, WidthAssumption DEF IDMapEntry, Ids
  <2> QED
    BY <2>1, Zenon DEF CoversRemote, WellFormed
<1>7. /\ es[k].local + (id - es[k].remote) \in Ids
      /\ es[k].local + (id - es[k].remote) >= es[k].local
      /\ (es[k].local + (id - es[k].remote)) - es[k].local < es[k].count
  BY <1>6, Shifted, Zenon
<1>8. \A x \in Ids : x % Width = x
  BY WidthAssumption DEF Ids
<1>9. mapToLocal(es, id) = es[k].local + (id - es[k].remote)
  BY <1>5, <1>7, <1>8, Zenon
<1> QED BY <1>7, <1>9, Zenon DEF CoversLocal

(* The same for mapToRemote. *)
LEMMA RemoteOf ==
    ASSUME NEW es \in Seq(IDMapEntry), WellFormed(es), NEW id \in Ids,
           NEW k \in DOMAIN es, CoversLocal(es[k], id)
    PROVE  /\ mapToRemote(es, id) = es[k].remote + (id - es[k].local)
           /\ mapToRemote(es, id) \in Ids
           /\ CoversRemote(es[k], mapToRemote(es, id))
<1> DEFINE P(j) == CoversLocal(es[j], id) /\ \A i \in 1..(j - 1) : ~CoversLocal(es[i], id)
<1>1. es[k] \in IDMapEntry /\ DOMAIN es = 1..Len(es) /\ Len(es) \in Nat
  OBVIOUS
<1>2. \A j \in DOMAIN es : CoversLocal(es[j], id) => j = k
  BY Zenon DEF WellFormed
<1>3. P(k)
  <2> SUFFICES ASSUME NEW i \in 1..(k - 1) PROVE ~CoversLocal(es[i], id)
    BY Zenon
  <2> QED BY <1>1, <1>2
<1>4. (CHOOSE j \in DOMAIN es : P(j)) = k
  <2>1. \E j \in DOMAIN es : P(j)
    BY <1>3, Zenon
  <2> QED BY <1>2, <2>1, Zenon
<1>5. mapToRemote(es, id) = (es[k].remote + (id - es[k].local)) % Width
  BY <1>4, Zenon DEF mapToRemote
<1>6. /\ es[k].local \in Nat /\ es[k].remote \in Nat /\ es[k].count \in Nat /\ id \in Nat
      /\ id >= es[k].local /\ id - es[k].local < es[k].count
      /\ es[k].remote + es[k].count <= Width
  <2>1. es[k].local \in Nat /\ es[k].remote \in Nat /\ es[k].count \in Nat /\ id \in Nat
    BY <1>1, WidthAssumption DEF IDMapEntry, Ids
  <2> QED
    BY <2>1, Zenon DEF CoversLocal, WellFormed
<1>7. /\ es[k].remote + (id - es[k].local) \in Ids
      /\ es[k].remote + (id - es[k].local) >= es[k].remote
      /\ (es[k].remote + (id - es[k].local)) - es[k].remote < es[k].count
  BY <1>6, Shifted, Zenon
<1>8. \A x \in Ids : x % Width = x
  BY WidthAssumption DEF Ids
<1>9. mapToRemote(es, id) = es[k].remote + (id - es[k].local)
  BY <1>5, <1>7, <1>8, Zenon
<1> QED BY <1>7, <1>9, Zenon DEF CoversRemote

(* "mapToRemote is the reverse of mapToLocal" (filesystem.go): for every    *)
(* map without overlaps or ranges past the width, of any length, an id that *)
(* is shown as another is translated back to itself, in both directions.    *)
THEOREM MapsInverse ==
    ASSUME NEW es \in Seq(IDMapEntry), WellFormed(es), NEW id \in Ids
    PROVE  RoundTrip(es, id)
<1>1. ASSUME hasLocal(es, id)
      PROVE  /\ hasRemote(es, mapToLocal(es, id))
             /\ mapToRemote(es, mapToLocal(es, id)) = id
  <2>1. PICK k \in DOMAIN es : CoversRemote(es[k], id)
    BY <1>1, Zenon DEF hasLocal
  <2>2. /\ mapToLocal(es, id) = es[k].local + (id - es[k].remote)
        /\ mapToLocal(es, id) \in Ids
        /\ CoversLocal(es[k], mapToLocal(es, id))
    BY <2>1, LocalOf, Zenon
  <2>3. mapToRemote(es, mapToLocal(es, id)) = es[k].remote + (mapToLocal(es, id) - es[k].local)
    BY <2>2, RemoteOf, Zenon
  <2>4. es[k].local \in Int /\ es[k].remote \in Int /\ id \in Int
    <3>1. es[k] \in IDMapEntry
      OBVIOUS
    <3> QED BY <3>1 DEF IDMapEntry, Ids
  <2>5. mapToRemote(es, mapToLocal(es, id)) = id
    BY <2>2, <2>3, <2>4
  <2> QED BY <2>2, <2>5, Zenon DEF hasRemote
<1>2. ASSUME hasRemote(es, id)
      PROVE  /\ hasLocal(es, mapToRemote(es, id))
             /\ mapToLocal(es, mapToRemote(es, id)) = id
  <2>1. PICK k \in DOMAIN es : CoversLocal(es[k], id)
    BY <1>2, Zenon DEF hasRemote
  <2>2. /\ mapToRemote(es, id) = es[k].remote + (id - es[k].local)
        /\ mapToRemote(es, id) \in Ids
        /\ CoversRemote(es[k], mapToRemote(es, id))
    BY <2>1, RemoteOf, Zenon
  <2>3. mapToLocal(es, mapToRemote(es, id)) = es[k].local + (mapToRemote(es, id) - es[k].remote)
    BY <2>2, LocalOf, Zenon
  <2>4. es[k].local \in Int /\ es[k].remote \in Int /\ id \in Int
    <3>1. es[k] \in IDMapEntry
      OBVIOUS
    <3> QED BY <3>1 DEF IDMapEntry, Ids
  <2>5. mapToLocal(es, mapToRemote(es, id)) = id
    BY <2>2, <2>3, <2>4
  <2> QED BY <2>2, <2>5, Zenon DEF hasLocal
<1> QED BY <1>1, <1>2, Zenon DEF RoundTrip

-----------------------------------------------------------------------------
(* Writes *)

(* The file of an open handle is one its process opened. *)
HandlesOpened ==
    /\ use \in Uses
    /\ fd = [p \in Procs |-> fd[p]] /\ opened = [p \in Procs |-> opened[p]]
    /\ data \in [Files -> SUBSET Procs]
    /\ \A p \in Procs : fd[p].file \in opened[p] \cup {NoFile}

IInv == HandlesOpened /\ WritesReachOpened

(* A change of contents by a process that opened the file, or by nobody in  *)
(* particular, as a truncation by path is.                                  *)
LEMMA ModifiesOpened ==
    ASSUME IInv, NEW f, NEW ps \in SUBSET Procs, Modifies(f, ps),
           \A p \in ps : f \in opened[p] \cup {NoFile},
           UNCHANGED <<use, fd, opened>>
    PROVE  IInv'
<1>1. data' = [data EXCEPT ![f] = @ \cup ps]
  BY Zenon DEF Modifies
<1>2. data' \in [Files -> SUBSET Procs]
  BY <1>1, Zenon DEF IInv, HandlesOpened
<1>3. HandlesOpened'
  BY <1>2, Zenon DEF IInv, HandlesOpened
<1>4. ASSUME NEW g \in Files, NEW p \in data'[g] PROVE g \in opened'[p]
  <2>1. p \in data[g] \/ (g = f /\ p \in ps)
    BY <1>1, <1>4, Zenon DEF IInv, HandlesOpened
  <2> QED BY <2>1, WorkspaceFSAssumption, Zenon DEF IInv, WritesReachOpened
<1> QED BY <1>3, <1>4, Zenon DEF IInv, WritesReachOpened

(* An open adds to what its process opened. *)
LEMMA OpensOpened ==
    ASSUME IInv, NEW p \in Procs, NEW n, NEW f, NEW w, Opens(p, n, f, w),
           UNCHANGED <<use, data>>
    PROVE  IInv'
<1>1. /\ fd' = [fd EXCEPT ![p] = [rel |-> n, file |-> f, write |-> w]]
      /\ opened' = [opened EXCEPT ![p] = @ \cup {f}]
  BY Zenon DEF Opens
<1>2. \A q \in Procs : opened[q] \subseteq opened'[q]
  BY <1>1, Zenon DEF IInv, HandlesOpened
<1>3. fd' = [q \in Procs |-> fd'[q]] /\ opened' = [q \in Procs |-> opened'[q]]
  BY <1>1, Zenon DEF IInv, HandlesOpened
<1>4. ASSUME NEW q \in Procs PROVE fd'[q].file \in opened'[q] \cup {NoFile}
  <2>1. CASE q = p
    BY <1>1, <2>1, Zenon DEF IInv, HandlesOpened
  <2>2. CASE q # p
    <3>1. fd'[q] = fd[q]
      BY <1>1, <2>2, Zenon DEF IInv, HandlesOpened
    <3> QED BY <3>1, <1>2, Zenon DEF IInv, HandlesOpened
  <2> QED BY <2>1, <2>2, Zenon
<1>5. HandlesOpened'
  BY <1>3, <1>4, Zenon DEF IInv, HandlesOpened
<1>6. WritesReachOpened'
  BY <1>2, Zenon DEF IInv, HandlesOpened, WritesReachOpened
<1> QED BY <1>5, <1>6, Zenon DEF IInv

(* A handle that is given up changes nothing else. *)
LEMMA ClosedOpened ==
    ASSUME IInv, NEW p \in Procs, fd' = [fd EXCEPT ![p] = Closed],
           UNCHANGED <<use, data, opened>>
    PROVE  IInv'
<1>1. \A q \in Procs : fd'[q].file \in {fd[q].file, NoFile}
  BY Zenon DEF IInv, HandlesOpened, Closed
<1>2. fd' = [q \in Procs |-> fd'[q]]
  BY Zenon DEF IInv, HandlesOpened
<1> QED BY <1>1, <1>2, Zenon DEF IInv, HandlesOpened, WritesReachOpened

(* IInv is preserved by every request of a process. *)
LEMMA RequestKeeps ==
    ASSUME IInv, NEW p \in Procs, Request(p)
    PROVE  IInv'
<1>1. CASE UNCHANGED <<use, data, fd, opened>>
  BY <1>1, Zenon DEF IInv, HandlesOpened, WritesReachOpened
<1>2. CASE Truncate(p)
  <2> USE DEF Truncate, given
  <2>1. CASE op[p].byFd
    BY <1>2, <2>1, ModifiesOpened DEF IInv, HandlesOpened
  <2>2. CASE ~op[p].byFd /\ UNCHANGED <<data, attr>>
    BY <1>1, <1>2, <2>2, Zenon
  <2>3. CASE ~op[p].byFd /\ Modifies(Follow(op[p].rel), {})
    BY <1>2, <2>3, ModifiesOpened
  <2> QED BY <1>2, <2>1, <2>2, <2>3, Zenon
<1>3. CASE Write(p)
  BY <1>3, ModifiesOpened DEF Write, given, IInv, HandlesOpened
<1>4. CASE \E n \in use.names, w \in BOOLEAN : Open(p, n, w)
  BY <1>4, OpensOpened, Zenon DEF Open, given, remoteFiles
<1>5. CASE \E n \in use.names : Create(p, n)
  BY <1>5, OpensOpened, Zenon DEF Create, given
<1>6. CASE CreateStat(p)
  BY <1>1, <1>6, ClosedOpened, Zenon DEF CreateStat, given, remoteFiles
<1>7. CASE Release(p)
  BY <1>7, ClosedOpened, Zenon DEF Release, given, remoteFiles
<1>8. CASE \/ \E n \in use.names, ask \in use.asks, byFd \in BOOLEAN : Setattr(p, n, ask, byFd)
           \/ SetattrStat(p) \/ Chown(p) \/ ChownCall(p)
  BY <1>1, <1>8, Zenon DEF Setattr, SetattrStat, Chown, ChownCall, given, remoteFiles
<1>9. CASE Chmod(p) \/ TimesStat(p) \/ Chtimes(p)
  BY <1>1, <1>9, Zenon DEF Chmod, TimesStat, Chtimes, given, remoteFiles
<1>10. CASE \/ \E n \in use.names : Mkdir(p, n) \/ RemoveStat(p, n)
            \/ Remove(p)
            \/ \E m, n \in use.names : Rename(p, m, n) \/ Symlink(p, n, m) \/ Link(p, m, n)
  BY <1>1, <1>10, Zenon DEF Mkdir, RemoveStat, Remove, Rename, Symlink, Link, given, remoteFiles
<1> QED BY <1>2, <1>3, <1>4, <1>5, <1>6, <1>7, <1>8, <1>9, <1>10, Zenon DEF Request

(* A process writes into files it opened and into no others: of any number  *)
(* of processes and files, and for every order of opens, writes,            *)
(* truncations, renames, links and removals.                                *)
THEOREM WritesGoWhereOpened == Spec => []WritesReachOpened
<1>1. Init => IInv
  BY DEF Init, IInv, HandlesOpened, WritesReachOpened, Closed
<1>2. IInv /\ [Next]_vars => IInv'
  <2> SUFFICES ASSUME IInv, [Next]_vars PROVE IInv'
    BY Zenon
  <2>1. CASE \E p \in use.procs : Request(p)
    BY <2>1, RequestKeeps, WorkspaceFSAssumption, Zenon DEF IInv, HandlesOpened
  <2>2. CASE UNCHANGED <<use, data, fd, opened>>
    BY <2>2, Zenon DEF IInv, HandlesOpened, WritesReachOpened
  <2>3. CASE \E f \in Files, u \in use.owners : RemoteChown(f, u)
    BY <2>2, <2>3, Zenon DEF RemoteChown, given
  <2>4. CASE UNCHANGED vars
    BY <2>2, <2>4, Zenon DEF vars
  <2> QED BY <2>1, <2>3, <2>4, Zenon DEF Next, Moves
<1>3. IInv => WritesReachOpened
  BY Zenon DEF IInv
<1> QED BY <1>1, <1>2, <1>3, PTL DEF Spec

-----------------------------------------------------------------------------
(* Setattr.  What a chown shows needs maps that are well formed, which      *)
(* nothing in the configuration checks.                                     *)

MapsSound ==
    \A u \in Uses : \A o \in u.options : WellFormed(o.uidMap) /\ WellFormed(o.gidMap)

Fields == {"at", "rel", "byFd", "ask", "file", "uid", "gid", "atime", "mtime"}
InSetattr == Setting \cup {"size"}
Times == {Old, Now, Given}

(* The record of a Setattr of the use u. *)
SetattrOf(u, q) ==
    /\ DOMAIN q = Fields /\ q.rel \in Names /\ q.ask \in u.asks
    /\ q.uid \in Ids \cup {Unset} /\ q.gid \in Ids \cup {Unset}
    /\ q.atime \in Times /\ q.mtime \in Times

(* An id that was asked for and is in the map has been translated. *)
Resolved(es, ask, id) == ask # Unset /\ hasRemote(es, ask) => id = mapToRemote(es, ask)

(* What is known of a request q in progress, in the use u with settings s. *)
RequestOK(u, s, q) ==
    /\ q.at \in InSetattr => SetattrOf(u, q)
    /\ q.at = "chown" =>
          (q.ask.uid # Unset => q.uid = q.ask.uid) /\ (q.ask.gid # Unset => q.gid = q.ask.gid)
    /\ q.at = "call" => /\ q.uid \in Ids /\ q.gid \in Ids
                        /\ Resolved(s.uidMap, q.ask.uid, q.uid)
                        /\ Resolved(s.gidMap, q.ask.gid, q.gid)
    /\ q.at \in {"times", "chtimes"} => q.ask.times # "none"

Attr == [uid : Ids, gid : Ids, atime : Times, mtime : Times]

RequestsOK ==
    /\ use \in Uses /\ fs \in use.options
    /\ dir \in [Names -> Files \cup {NoFile}] /\ attr \in [Files -> Attr]
    /\ DOMAIN op = Procs
    /\ \A p \in Procs : RequestOK(use, fs, op[p]) /\ (p \notin use.procs => op[p].at = "idle")

(* What the assumptions say of a use. *)
LEMMA UseFacts ==
    ASSUME NEW u \in Uses
    PROVE  /\ u.procs \subseteq Procs /\ u.names \subseteq Names /\ u.files \subseteq Files
           /\ u.owners \subseteq Ids /\ Unset \notin Ids
           /\ \A ask \in u.asks : /\ ask.uid \in Ids \cup {Unset} /\ ask.gid \in Ids \cup {Unset}
                                  /\ ask.times \in {"none", "atime", "mtime", "both"}
           /\ \A o \in u.options : o.uidMap \in Seq(IDMapEntry) /\ o.gidMap \in Seq(IDMapEntry)
BY WorkspaceFSAssumption, Zenon

(* From leads to the end of the request or to a later stage it asks for. *)
LEMMA FromStage ==
    ASSUME NEW q, NEW k \in 1..4
    PROVE  \/ From(q, k) = Idle
           \/ \E j \in k..4 : From(q, k) = [q EXCEPT !.at = Stages[j]] /\ Asks(q.ask, Stages[j])
<1> DEFINE A(j) == Asks(q.ask, Stages[j])
           P(j) == A(j) /\ \A i \in k..(j - 1) : ~A(i)
<1>1. CASE \A j \in k..4 : ~A(j)
  BY <1>1, Zenon DEF From
<1>2. CASE ~(\A j \in k..4 : ~A(j))
  <2> HIDE DEF A
  <2>1. \E j \in k..4 : P(j)
    BY <1>2
  <2>2. PICK j \in k..4 : j = (CHOOSE i \in k..4 : P(i)) /\ P(j)
    BY <2>1, Zenon
  <2> USE DEF A
  <2>3. From(q, k) = [q EXCEPT !.at = Stages[j]]
    BY <1>2, <2>2, Zenon DEF From
  <2> QED
    BY <2>2, <2>3, Zenon
<1> QED
  BY <1>1, <1>2, Zenon

(* From(q, k) is a request as RequestOK wants it when q is. *)
LEMMA FromOK ==
    ASSUME NEW u \in Uses, NEW s, NEW q, NEW k \in 1..4, SetattrOf(u, q),
           k = 1 => q.uid = q.ask.uid /\ q.gid = q.ask.gid
    PROVE  /\ RequestOK(u, s, From(q, k))
           /\ From(q, k).at \in {"idle", "chown", "mode", "times", "size"}
           /\ From(q, k).at = "chown" => k = 1 /\ From(q, k).uid = q.uid /\ From(q, k).gid = q.gid
                                         /\ From(q, k).ask = q.ask
<1>1. CASE From(q, k) = Idle
  BY <1>1 DEF Idle, RequestOK, InSetattr, Setting
<1>2. ASSUME NEW j \in k..4, From(q, k) = [q EXCEPT !.at = Stages[j]], Asks(q.ask, Stages[j])
      PROVE  /\ RequestOK(u, s, From(q, k))
             /\ From(q, k).at \in {"idle", "chown", "mode", "times", "size"}
             /\ From(q, k).at = "chown" => k = 1 /\ From(q, k).uid = q.uid
                                           /\ From(q, k).gid = q.gid /\ From(q, k).ask = q.ask
  <2>1. /\ j \in 1..4 /\ (j = 1 => k = 1)
        /\ Stages[j] = IF j = 1 THEN "chown" ELSE IF j = 2 THEN "mode"
                       ELSE IF j = 3 THEN "times" ELSE "size"
    BY DEF Stages
  <2>2. /\ From(q, k).at = Stages[j] /\ DOMAIN From(q, k) = Fields
        /\ From(q, k).rel = q.rel /\ From(q, k).ask = q.ask /\ From(q, k).uid = q.uid
        /\ From(q, k).gid = q.gid /\ From(q, k).atime = q.atime /\ From(q, k).mtime = q.mtime
    BY <1>2, Zenon DEF SetattrOf, Fields
  <2>3. Stages[j] = "times" => q.ask.times # "none"
    BY <1>2, Zenon DEF Asks
  <2> QED
    BY <2>1, <2>2, <2>3, Zenon DEF RequestOK, SetattrOf, InSetattr, Setting
<1> QED
  BY <1>1, <1>2, FromStage, Zenon

(* A step of p that leaves p with the request q. *)
LEMMA RequestStep ==
    ASSUME RequestsOK, NEW p \in use.procs, NEW q, RequestOK(use, fs, q), Next1(p, q),
           UNCHANGED given, dir' \in [Names -> Files \cup {NoFile}], attr' \in [Files -> Attr]
    PROVE  RequestsOK'
<1>1. p \in Procs
  BY UseFacts, Zenon DEF RequestsOK
<1>2. op' = [op EXCEPT ![p] = q] /\ use' = use /\ fs' = fs
  BY Zenon DEF Next1, given
<1>3. DOMAIN op' = Procs /\ op'[p] = q /\ \A o \in Procs \ {p} : op'[o] = op[o]
  BY <1>1, <1>2, Zenon DEF RequestsOK
<1> QED
  BY <1>2, <1>3, Zenon DEF RequestsOK

(* A step that leaves every request alone. *)
LEMMA NoRequestStep ==
    ASSUME RequestsOK, UNCHANGED <<given, op>>,
           dir' \in [Names -> Files \cup {NoFile}], attr' \in [Files -> Attr]
    PROVE  RequestsOK'
BY Zenon DEF RequestsOK, given

(* Of the entries that cover an id there is a first one. *)
LEMMA FirstCover ==
    ASSUME NEW es \in Seq(IDMapEntry), NEW id, hasRemote(es, id)
    PROVE  \E k \in DOMAIN es : CoversLocal(es[k], id) /\ \A i \in 1..(k - 1) : ~CoversLocal(es[i], id)
<1> DEFINE T == {k \in DOMAIN es : CoversLocal(es[k], id)}
<1>1. DOMAIN es = 1..Len(es) /\ Len(es) \in Nat
  OBVIOUS
<1>2. T # {}
  BY Zenon DEF hasRemote
<1>3. T \subseteq Nat
  BY <1>1
<1>4. PICK k \in T : \A i \in T : ~(<<i, k>> \in OpToRel(<, Nat))
  BY <1>2, <1>3, WFMin, NatLessThanWellFounded, Zenon
<1>5. \A i \in T : ~(i < k)
  BY <1>3, <1>4 DEF OpToRel
<1>6. \A i \in 1..(k - 1) : i \in DOMAIN es /\ i < k
  BY <1>1
<1> QED
  BY <1>5, <1>6, Zenon

(* The ids of a request are ids after the map, too. *)
LEMMA ForwardOK ==
    ASSUME use \in Uses, fs \in use.options, NEW id \in Ids
    PROVE  /\ chownForward(fs.uidMap, id) \in Ids /\ chownForward(fs.gidMap, id) \in Ids
           /\ Resolved(fs.uidMap, id, chownForward(fs.uidMap, id))
           /\ Resolved(fs.gidMap, id, chownForward(fs.gidMap, id))
<1>1. ASSUME NEW es \in Seq(IDMapEntry), hasRemote(es, id)
      PROVE  mapToRemote(es, id) \in Ids
  <2> DEFINE P(j) == CoversLocal(es[j], id) /\ \A i \in 1..(j - 1) : ~CoversLocal(es[i], id)
             k == CHOOSE j \in DOMAIN es : P(j)
  <2>1. k \in DOMAIN es
    BY <1>1, FirstCover, Zenon
  <2>2. mapToRemote(es, id) = (es[k].remote + (id - es[k].local)) % Width
    BY Zenon DEF mapToRemote
  <2> HIDE DEF k
  <2>3. es[k] \in IDMapEntry
    BY <2>1
  <2>4. es[k].remote \in Int /\ es[k].local \in Int /\ id \in Int
    BY <2>3 DEF IDMapEntry, Ids
  <2>5. \A x \in Int : x % Width \in Ids
    BY WidthAssumption DEF Ids
  <2>6. es[k].remote + (id - es[k].local) \in Int
    BY <2>4
  <2> QED
    BY <2>2, <2>5, <2>6, Zenon
<1>2. fs.uidMap \in Seq(IDMapEntry) /\ fs.gidMap \in Seq(IDMapEntry)
  BY UseFacts, Zenon
<1> QED
  BY <1>1, <1>2, Zenon DEF chownForward, Resolved

(* The calls that read or change attributes. *)
LEMMA SetattrRequests ==
    ASSUME RequestsOK, NEW p \in use.procs,
           \/ \E n \in use.names, ask \in use.asks, byFd \in BOOLEAN : Setattr(p, n, ask, byFd)
           \/ SetattrStat(p) \/ Chown(p) \/ ChownCall(p) \/ Chmod(p) \/ TimesStat(p)
           \/ Chtimes(p) \/ Truncate(p)
    PROVE  RequestsOK'
<1> DEFINE q == op[p]
<1>1. /\ p \in Procs /\ use \in Uses /\ RequestOK(use, fs, q)
      /\ dir \in [Names -> Files \cup {NoFile}] /\ attr \in [Files -> Attr]
  BY UseFacts, Zenon DEF RequestsOK
<1>2. RequestOK(use, fs, Idle)
  BY Zenon DEF RequestOK, Idle, InSetattr, Setting
<1>3. ASSUME NEW n \in use.names, NEW ask \in use.asks, NEW byFd \in BOOLEAN,
             Setattr(p, n, ask, byFd)
      PROVE  RequestsOK'
  <2> DEFINE r == [at |-> "idle", rel |-> n, byFd |-> byFd, ask |-> ask,
                   file |-> IF byFd THEN fd[p].file ELSE dir[n],
                   uid |-> ask.uid, gid |-> ask.gid, atime |-> Given, mtime |-> Given]
  <2>1. SetattrOf(use, r) /\ r.uid = r.ask.uid /\ r.gid = r.ask.gid
    BY <1>1, UseFacts, Zenon DEF SetattrOf, Fields, Times
  <2>2. RequestOK(use, fs, From(r, 1))
    BY <1>1, <2>1, FromOK
  <2>3. Next1(p, From(r, 1)) /\ UNCHANGED <<given, dir, attr>>
    BY <1>3, Zenon DEF Setattr, Next1, remoteFiles
  <2> QED
    BY <1>1, <2>2, <2>3, RequestStep, Zenon
<1>4. ASSUME SetattrStat(p) PROVE RequestsOK'
  <2> DEFINE f == dir[q.rel]
             r == [q EXCEPT !.uid = IF @ = Unset THEN attr[f].uid ELSE @,
                            !.gid = IF @ = Unset THEN attr[f].gid ELSE @]
  <2>1. q.at = "chown" /\ SetattrOf(use, q)
    BY <1>1, <1>4, Zenon DEF SetattrStat, RequestOK, InSetattr, Setting
  <2>2. f # NoFile => attr[f].uid \in Ids /\ attr[f].gid \in Ids
    BY <1>1, <2>1, Zenon DEF SetattrOf, Attr
  <2>3. f # NoFile => RequestOK(use, fs, r)
    <3> SUFFICES ASSUME f # NoFile PROVE RequestOK(use, fs, r)
      BY Zenon
    <3>1. /\ DOMAIN r = DOMAIN q /\ r.at = q.at /\ r.rel = q.rel /\ r.ask = q.ask
          /\ r.atime = q.atime /\ r.mtime = q.mtime
          /\ r.uid = IF q.uid = Unset THEN attr[f].uid ELSE q.uid
          /\ r.gid = IF q.gid = Unset THEN attr[f].gid ELSE q.gid
      BY <2>1, Zenon DEF SetattrOf, Fields
    <3> QED
      BY <1>1, <2>1, <2>2, <3>1, Zenon DEF RequestOK, SetattrOf
  <2>4. Next1(p, IF f = NoFile THEN Idle ELSE r) /\ UNCHANGED <<given, dir, attr>>
    BY <1>4, Zenon DEF SetattrStat, remoteFiles
  <2> QED
    BY <1>1, <1>2, <2>3, <2>4, RequestStep, Zenon
<1>5. ASSUME Chown(p) PROVE RequestsOK'
  <2> DEFINE f == dir[q.rel]
             keepU == chownNoop(fs.uidMap, fs.uidMode, q.uid)
             keepG == chownNoop(fs.gidMap, fs.gidMode, q.gid)
             r == [q EXCEPT !.at = "call",
                       !.uid = IF keepU THEN attr[f].uid ELSE chownForward(fs.uidMap, @),
                       !.gid = IF keepG THEN attr[f].gid ELSE chownForward(fs.gidMap, @)]
  <2>1. q.at = "chown" /\ SetattrOf(use, q) /\ q.uid \in Ids /\ q.gid \in Ids
    BY <1>1, <1>5, Zenon DEF Chown, RequestOK, InSetattr, Setting, SetattrOf
  <2>2. f # NoFile => attr[f].uid \in Ids /\ attr[f].gid \in Ids
    BY <1>1, <2>1, Zenon DEF SetattrOf, Attr
  <2>3. RequestOK(use, fs, From(q, 2))
    BY <1>1, <2>1, FromOK
  <2>4. ASSUME f # NoFile \/ ~(keepU \/ keepG)
        PROVE  RequestOK(use, fs, r)
    <3>1. /\ DOMAIN r = DOMAIN q /\ r.at = "call" /\ r.rel = q.rel /\ r.ask = q.ask
          /\ r.atime = q.atime /\ r.mtime = q.mtime
          /\ r.uid = IF keepU THEN attr[f].uid ELSE chownForward(fs.uidMap, q.uid)
          /\ r.gid = IF keepG THEN attr[f].gid ELSE chownForward(fs.gidMap, q.gid)
      BY <2>1, Zenon DEF SetattrOf, Fields
    <3>2. /\ chownForward(fs.uidMap, q.uid) \in Ids /\ chownForward(fs.gidMap, q.gid) \in Ids
          /\ Resolved(fs.uidMap, q.uid, chownForward(fs.uidMap, q.uid))
          /\ Resolved(fs.gidMap, q.gid, chownForward(fs.gidMap, q.gid))
      BY <1>1, <2>1, ForwardOK, Zenon DEF RequestsOK
    <3>3. /\ q.ask.uid # Unset => q.uid = q.ask.uid
          /\ q.ask.gid # Unset => q.gid = q.ask.gid
      BY <1>1, <2>1, Zenon DEF RequestOK
    <3>4. r.uid \in Ids /\ r.gid \in Ids
      BY <2>2, <2>4, <3>1, <3>2, Zenon
    <3>5. Resolved(fs.uidMap, q.ask.uid, r.uid) /\ Resolved(fs.gidMap, q.ask.gid, r.gid)
      BY <3>1, <3>2, <3>3, Zenon DEF Resolved, chownNoop
    <3> QED
      BY <2>1, <3>1, <3>4, <3>5, Zenon DEF RequestOK, SetattrOf
  <2>5. /\ Next1(p, IF keepU /\ keepG THEN From(q, 2)
                    ELSE IF (keepU \/ keepG) /\ f = NoFile THEN Idle ELSE r)
        /\ UNCHANGED <<given, dir, attr>>
    BY <1>5, Zenon DEF Chown, remoteFiles
  <2> QED
    BY <1>1, <1>2, <2>3, <2>4, <2>5, RequestStep, Zenon
<1>6. ASSUME ChownCall(p) PROVE RequestsOK'
  <2>1. SetattrOf(use, q) /\ q.uid \in Ids /\ q.gid \in Ids
    BY <1>1, <1>6, Zenon DEF ChownCall, RequestOK, InSetattr, Setting
  <2>2. RequestOK(use, fs, From(q, 2))
    BY <1>1, <2>1, FromOK
  <2>3. attr' \in [Files -> Attr]
    BY <1>1, <1>6, <2>1 DEF ChownCall, Attr
  <2> QED
    BY <1>1, <1>2, <1>6, <2>2, <2>3, RequestStep, Zenon DEF ChownCall
<1>7. ASSUME Chmod(p) PROVE RequestsOK'
  <2>1. SetattrOf(use, q)
    BY <1>1, <1>7, Zenon DEF Chmod, RequestOK, InSetattr, Setting
  <2>2. RequestOK(use, fs, From(q, 3))
    BY <1>1, <2>1, FromOK
  <2> QED
    BY <1>1, <1>2, <1>7, <2>2, RequestStep, Zenon DEF Chmod, remoteFiles
<1>8. ASSUME TimesStat(p) PROVE RequestsOK'
  <2> DEFINE f == dir[q.rel]
             b == [q EXCEPT !.at = "chtimes"]
             r == [q EXCEPT !.at = "chtimes",
                            !.atime = IF q.ask.times = "mtime" THEN attr[f].atime ELSE @,
                            !.mtime = IF q.ask.times = "atime" THEN attr[f].mtime ELSE @]
  <2>1. SetattrOf(use, q) /\ q.at = "times" /\ q.ask.times # "none"
    BY <1>1, <1>8, Zenon DEF TimesStat, RequestOK, InSetattr, Setting
  <2>2. f # NoFile => RequestOK(use, fs, r)
    <3> SUFFICES ASSUME f # NoFile PROVE RequestOK(use, fs, r)
      BY Zenon
    <3>1. attr[f].atime \in Times /\ attr[f].mtime \in Times
      BY <1>1, <2>1, Zenon DEF SetattrOf, Attr
    <3>2. /\ DOMAIN r = DOMAIN q /\ r.at = "chtimes" /\ r.rel = q.rel /\ r.ask = q.ask
          /\ r.uid = q.uid /\ r.gid = q.gid
          /\ r.atime \in {attr[f].atime, q.atime} /\ r.mtime \in {attr[f].mtime, q.mtime}
      BY <2>1, Zenon DEF SetattrOf, Fields
    <3> QED
      BY <2>1, <3>1, <3>2, Zenon DEF RequestOK, SetattrOf
  <2>3. RequestOK(use, fs, b)
    <3>1. /\ DOMAIN b = DOMAIN q /\ b.at = "chtimes" /\ b.rel = q.rel /\ b.ask = q.ask
          /\ b.uid = q.uid /\ b.gid = q.gid /\ b.atime = q.atime /\ b.mtime = q.mtime
      BY <2>1, Zenon DEF SetattrOf, Fields
    <3> QED
      BY <2>1, <3>1, Zenon DEF RequestOK, SetattrOf
  <2>4. /\ Next1(p, IF q.ask.times = "both" THEN b ELSE IF f = NoFile THEN Idle ELSE r)
        /\ UNCHANGED <<given, dir, attr>>
    BY <1>8, Zenon DEF TimesStat, remoteFiles
  <2> QED
    BY <1>1, <1>2, <2>2, <2>3, <2>4, RequestStep, Zenon
<1>9. ASSUME Chtimes(p) PROVE RequestsOK'
  <2>1. SetattrOf(use, q)
    BY <1>1, <1>9, Zenon DEF Chtimes, RequestOK, InSetattr, Setting
  <2>2. RequestOK(use, fs, From(q, 4))
    BY <1>1, <2>1, FromOK
  <2>3. attr' \in [Files -> Attr]
    BY <1>1, <1>9, <2>1 DEF Chtimes, Attr, SetattrOf
  <2> QED
    BY <1>1, <1>2, <1>9, <2>2, <2>3, RequestStep, Zenon DEF Chtimes
<1>10. ASSUME Truncate(p) PROVE RequestsOK'
  <2>1. attr' \in [Files -> Attr]
    BY <1>1, <1>10 DEF Truncate, Modifies, Attr, Times
  <2> QED
    BY <1>1, <1>2, <1>10, <2>1, RequestStep, Zenon DEF Truncate
<1> QED
  BY <1>3, <1>4, <1>5, <1>6, <1>7, <1>8, <1>9, <1>10, Zenon

(* The calls about handles and names. *)
LEMMA OtherRequests ==
    ASSUME RequestsOK, NEW p \in use.procs,
           \/ \E n \in use.names, w \in BOOLEAN : Open(p, n, w)
           \/ \E n \in use.names : Create(p, n) \/ Mkdir(p, n) \/ RemoveStat(p, n)
           \/ CreateStat(p) \/ Write(p) \/ Release(p) \/ Remove(p)
           \/ \E m, n \in use.names : Rename(p, m, n) \/ Symlink(p, n, m) \/ Link(p, m, n)
    PROVE  RequestsOK' /\ op'[p].at \notin InSetattr
<1>1. /\ p \in Procs /\ use \in Uses /\ use.files \subseteq Files
      /\ use.names \subseteq Names /\ Unused \subseteq Files
      /\ dir \in [Names -> Files \cup {NoFile}] /\ attr \in [Files -> Attr]
  BY UseFacts, Zenon DEF RequestsOK, Unused
<1> DEFINE Quiet(q) == /\ q.at \in {"idle", "made", "remove"}
<1>2. \A q : Quiet(q) => RequestOK(use, fs, q)
  BY Zenon DEF RequestOK, InSetattr, Setting
<1>3. \A q : Quiet(q) => q.at \notin InSetattr
  BY Zenon DEF InSetattr, Setting
<1>4. Quiet(Idle) /\ Quiet([at |-> "made"]) /\ \A n : Quiet([at |-> "remove", rel |-> n])
  BY Zenon DEF Idle
<1>5. \A q : Next1(p, q) => op'[p] = q
  BY <1>1, Zenon DEF Next1, RequestsOK
<1>6. \A n, f, k : f \in Files /\ Makes(n, f, k) => dir' \in [Names -> Files \cup {NoFile}]
  BY <1>1, Zenon DEF Makes
<1> HIDE DEF Quiet
<1>7. CASE \/ \E n \in use.names, w \in BOOLEAN : Open(p, n, w)
           \/ Release(p)
  <2>1. op[p] = Idle /\ UNCHANGED <<given, op, dir, attr>>
    BY <1>7, Zenon DEF Open, Release, remoteFiles
  <2> QED
    BY <1>1, <1>3, <1>4, <2>1, NoRequestStep, Zenon
<1>8. CASE Write(p)
  <2>1. op[p] = Idle /\ UNCHANGED <<given, op, dir>>
    BY <1>8, Zenon DEF Write
  <2>2. attr' \in [Files -> Attr]
    BY <1>1, <1>8 DEF Write, Modifies, Attr, Times
  <2> QED
    BY <1>1, <1>3, <1>4, <2>1, <2>2, NoRequestStep, Zenon
<1>9. CASE \/ \E m, n \in use.names : Rename(p, m, n) \/ Symlink(p, n, m) \/ Link(p, m, n)
           \/ \E n \in use.names : Mkdir(p, n)
  <2>1. op[p] = Idle /\ UNCHANGED <<given, op, attr>>
    BY <1>9, Zenon DEF Rename, Symlink, Link, Mkdir, remoteFiles
  <2>2. ASSUME NEW m \in use.names, NEW n \in use.names, Rename(p, m, n) \/ Link(p, m, n)
        PROVE  dir' \in [Names -> Files \cup {NoFile}]
    <3>1. dir[m] \in Files
      BY <1>1, <2>2, Zenon DEF Rename, Link, IsKind
    <3> QED
      BY <1>1, <1>6, <2>2, <3>1, Zenon DEF Rename, Link
  <2>3. dir' \in [Names -> Files \cup {NoFile}]
    BY <1>1, <1>6, <1>9, <2>2, Zenon DEF Symlink, Mkdir
  <2> QED
    BY <1>1, <1>3, <1>4, <2>1, <2>3, NoRequestStep, Zenon
<1>10. CASE \/ \E n \in use.names : Create(p, n) \/ RemoveStat(p, n)
            \/ CreateStat(p) \/ Remove(p)
  <2>1. Quiet(op[p]) /\ UNCHANGED <<given, attr>>
    BY <1>4, <1>10, Zenon DEF Create, RemoveStat, CreateStat, Remove, remoteFiles, Quiet
  <2>2. PICK q : Next1(p, q) /\ Quiet(q)
    BY <1>4, <1>10, Zenon DEF Create, RemoveStat, CreateStat, Remove
  <2>3. dir' \in [Names -> Files \cup {NoFile}]
    <3>1. ASSUME NEW n \in use.names, Create(p, n) PROVE dir' \in [Names -> Files \cup {NoFile}]
      BY <1>1, <1>6, <3>1, Zenon DEF Create
    <3>2. CASE (\E n \in use.names : RemoveStat(p, n)) \/ CreateStat(p)
      BY <1>1, <3>2, Zenon DEF RemoveStat, CreateStat
    <3>3. CASE Remove(p)
      BY <1>1, <3>3, Zenon DEF Remove
    <3> QED
      BY <1>10, <3>1, <3>2, <3>3, Zenon
  <2>4. op'[p] = q
    BY <1>5, <2>2, Zenon
  <2> QED
    BY <1>1, <1>2, <1>3, <2>1, <2>2, <2>3, <2>4, RequestStep, Zenon
<1> QED
  BY <1>7, <1>8, <1>9, <1>10, Zenon

(* A request is a step of its process only. *)
LEMMA RequestOfOne ==
    ASSUME RequestsOK, NEW p \in use.procs, Request(p)
    PROVE  UNCHANGED given /\ \A o \in Procs \ {p} : op'[o] = op[o]
<1>1. \A q : Next1(p, q) => \A o \in Procs \ {p} : op'[o] = op[o]
  BY Zenon DEF Next1, RequestsOK
<1>2. CASE \/ \E n \in use.names, ask \in use.asks, byFd \in BOOLEAN : Setattr(p, n, ask, byFd)
           \/ SetattrStat(p) \/ Chown(p) \/ ChownCall(p) \/ Chmod(p) \/ TimesStat(p)
           \/ Chtimes(p) \/ Truncate(p)
  <2>1. UNCHANGED given
    BY <1>2, Zenon DEF Setattr, SetattrStat, Chown, ChownCall, Chmod, TimesStat, Chtimes, Truncate
  <2>2. \E q : Next1(p, q)
    BY <1>2, Zenon DEF Setattr, SetattrStat, Chown, ChownCall, Chmod, TimesStat, Chtimes, Truncate,
                Next1
  <2> QED
    BY <1>1, <2>1, <2>2, Zenon
<1>3. CASE \/ \E n \in use.names, w \in BOOLEAN : Open(p, n, w)
           \/ \E n \in use.names : Create(p, n) \/ Mkdir(p, n) \/ RemoveStat(p, n)
           \/ CreateStat(p) \/ Write(p) \/ Release(p) \/ Remove(p)
           \/ \E m, n \in use.names : Rename(p, m, n) \/ Symlink(p, n, m) \/ Link(p, m, n)
  <2>1. UNCHANGED given
    BY <1>3, Zenon DEF Open, Create, Mkdir, RemoveStat, CreateStat, Write, Release, Remove, Rename,
                Symlink, Link
  <2>2. UNCHANGED op \/ \E q : Next1(p, q)
    BY <1>3, Zenon DEF Open, Create, Mkdir, RemoveStat, CreateStat, Write, Release, Remove, Rename,
                Symlink, Link
  <2> QED
    BY <1>1, <2>1, <2>2, Zenon
<1> QED
  BY <1>2, <1>3, Zenon DEF Request

(* RequestsOK is an invariant. *)
LEMMA RequestsInvariant == Spec => []RequestsOK
<1>1. Init => RequestsOK
  <2> SUFFICES ASSUME Init PROVE RequestsOK
    BY Zenon
  <2>1. use \in Uses /\ fs \in use.options /\ use.owners \subseteq Ids
    BY UseFacts, Zenon DEF Init
  <2>2. attr \in [Files -> Attr]
    BY <2>1 DEF Init, Attr, Times
  <2> QED
    BY <2>1, <2>2, Zenon DEF Init, RequestsOK, RequestOK, Idle, InSetattr, Setting
<1>2. RequestsOK /\ [Next]_vars => RequestsOK'
  <2> SUFFICES ASSUME RequestsOK, [Next]_vars PROVE RequestsOK'
    BY Zenon
  <2>1. ASSUME NEW p \in use.procs, Request(p) PROVE RequestsOK'
    BY <2>1, SetattrRequests, OtherRequests, Zenon DEF Request
  <2>2. ASSUME NEW f \in Files, NEW u \in use.owners, RemoteChown(f, u) PROVE RequestsOK'
    <3>1. u \in Ids
      BY <2>2, UseFacts, Zenon DEF RequestsOK
    <3>2. attr' \in [Files -> Attr]
      BY <2>2, <3>1, Zenon DEF RemoteChown, RequestsOK, Attr
    <3> QED
      BY <2>2, <3>2, NoRequestStep, Zenon DEF RemoteChown, RequestsOK
  <2>3. CASE UNCHANGED vars
    BY <2>3, NoRequestStep, Zenon DEF vars, given, RequestsOK
  <2> QED
    BY <2>1, <2>2, <2>3, Zenon DEF Next, Moves
<1> QED
  BY <1>1, <1>2, PTL DEF Spec

(* Only its own process moves a request on. *)
LEMMA MovedByOwn ==
    ASSUME RequestsOK, [Next]_vars, NEW p \in Procs, op'[p] # op[p]
    PROVE  p \in use.procs /\ Request(p)
<1>1. CASE \E f \in Files, u \in use.owners : RemoteChown(f, u)
  BY <1>1, Zenon DEF RemoteChown
<1>2. CASE UNCHANGED vars
  BY <1>2, Zenon DEF vars
<1>3. ASSUME NEW o \in use.procs, Request(o) PROVE p = o
  BY <1>3, RequestOfOne, Zenon
<1> QED
  BY <1>1, <1>2, <1>3, Zenon DEF Next, Moves

(* A request about to send its chown does that next. *)
LEMMA CallIsNext ==
    ASSUME NEW p, Request(p), op[p].at = "call"
    PROVE  ChownCall(p)
<1>1. op[p] # Idle
  BY DEF Idle
<1> QED
  BY <1>1, Zenon DEF Request, Setattr, SetattrStat, Chown, Chmod, TimesStat, Chtimes, Truncate,
     Open, Create, Mkdir, RemoveStat, CreateStat, Write, Release, Remove, Rename, Symlink, Link

(* A request about to send its times does that next. *)
LEMMA ChtimesIsNext ==
    ASSUME NEW p, Request(p), op[p].at = "chtimes"
    PROVE  Chtimes(p)
<1>1. op[p] # Idle
  BY DEF Idle
<1> QED
  BY <1>1, Zenon DEF Request, Setattr, SetattrStat, Chown, ChownCall, Chmod, TimesStat,
     Truncate, Open, Create, Mkdir, RemoveStat, CreateStat, Write, Release, Remove, Rename,
     Symlink, Link

(* A name of a regular file leads to that file. *)
LEMMA FileFollowed ==
    ASSUME NEW n, IsKind(n, "file")
    PROVE  LeadsTo(n) = n /\ Follow(n) = dir[n] /\ dir[n] # NoFile
<1>1. ~IsKind(n, "link") /\ dir[n] # NoFile
  BY Zenon DEF IsKind
<1> QED
  BY <1>1, Zenon DEF LeadsTo, Follow

(* What ChownCall does to a regular file. *)
LEMMA ChownCallDoes ==
    ASSUME RequestsOK, NEW p \in use.procs, ChownCall(p), ForFile(p)
    PROVE  /\ Its(p) \in Files
           /\ attr'[Its(p)].uid = op[p].uid /\ attr'[Its(p)].gid = op[p].gid
           /\ attr'[Its(p)].atime = attr[Its(p)].atime /\ attr'[Its(p)].mtime = attr[Its(p)].mtime
           /\ \A f \in Files \ {Its(p)} : attr'[f] = attr[f]
<1> DEFINE n == op[p].rel
<1>1. p \in Procs /\ op[p].at = "call"
  BY UseFacts, Zenon DEF RequestsOK, ChownCall
<1>2. n \in Names
  BY <1>1, Zenon DEF RequestsOK, RequestOK, InSetattr, Setting, SetattrOf
<1>3. IsKind(n, "file")
  BY Zenon DEF ForFile
<1>4. Follow(n) = dir[n] /\ dir[n] # NoFile
  BY <1>3, FileFollowed, Zenon
<1>5. dir[n] \in Files
  BY <1>2, <1>4, Zenon DEF RequestsOK
<1>6. attr' = [attr EXCEPT ![dir[n]].uid = op[p].uid, ![dir[n]].gid = op[p].gid]
  BY <1>4, Zenon DEF ChownCall
<1> QED
  BY <1>5, <1>6, Zenon DEF Its, RequestsOK, Attr

(* What Chtimes does to a regular file. *)
LEMMA ChtimesDoes ==
    ASSUME RequestsOK, NEW p \in use.procs, Chtimes(p), ForFile(p)
    PROVE  /\ Its(p) \in Files
           /\ attr'[Its(p)].uid = attr[Its(p)].uid /\ attr'[Its(p)].gid = attr[Its(p)].gid
           /\ attr'[Its(p)].atime = op[p].atime /\ attr'[Its(p)].mtime = op[p].mtime
           /\ \A f \in Files \ {Its(p)} : attr'[f] = attr[f]
<1> DEFINE n == op[p].rel
<1>1. p \in Procs /\ op[p].at = "chtimes"
  BY UseFacts, Zenon DEF RequestsOK, Chtimes
<1>2. n \in Names
  BY <1>1, Zenon DEF RequestsOK, RequestOK, InSetattr, Setting, SetattrOf
<1>3. IsKind(n, "file")
  BY Zenon DEF ForFile
<1>4. Follow(n) = dir[n] /\ dir[n] # NoFile
  BY <1>3, FileFollowed, Zenon
<1>5. dir[n] \in Files
  BY <1>2, <1>4, Zenon DEF RequestsOK
<1>6. attr' = [attr EXCEPT ![dir[n]].atime = op[p].atime, ![dir[n]].mtime = op[p].mtime]
  BY <1>4, Zenon DEF Chtimes
<1> QED
  BY <1>5, <1>6, Zenon DEF Its, RequestsOK, Attr

(* An id that has been translated is shown as the id it was. *)
LEMMA ResolvedShows ==
    ASSUME NEW es \in Seq(IDMapEntry), WellFormed(es), NEW m, NEW ask \in Ids \cup {Unset},
           NEW id, Resolved(es, ask, id)
    PROVE  Shows(es, m, ask, id)
<1> SUFFICES ASSUME ask # Unset, hasRemote(es, ask) PROVE view(es, m, id) = ask
  BY Zenon DEF Shows
<1>1. id = mapToRemote(es, ask) /\ ask \in Ids
  BY Zenon DEF Resolved
<1>2. hasLocal(es, id) /\ mapToLocal(es, id) = ask
  BY <1>1, MapsInverse, Zenon DEF RoundTrip
<1> QED
  BY <1>2, Zenon DEF view

(* "translate remote-reported UIDs to the local view (and back, on chown)": *)
(* with maps that are well formed, after a chown to ids the maps cover a    *)
(* stat shows those ids. For any number of processes, names and files, any  *)
(* width of ids, and whatever other processes do between the calls.         *)
THEOREM ChownIsSeen ==
    ASSUME MapsSound
    PROVE  Spec => ChownShows
<1> DEFINE Step ==
        \A p \in Procs : op[p].at = "call" /\ op'[p].at # "call" /\ ForFile(p) =>
           LET a == attr'[Its(p)] IN
           /\ Shows(fs.uidMap, fs.uidMode, op[p].ask.uid, a.uid)
           /\ Shows(fs.gidMap, fs.gidMode, op[p].ask.gid, a.gid)
<1>1. RequestsOK /\ [Next]_vars => Step
  <2> SUFFICES ASSUME RequestsOK, [Next]_vars, NEW p \in Procs,
                      op[p].at = "call", op'[p].at # "call", ForFile(p)
               PROVE  /\ Shows(fs.uidMap, fs.uidMode, op[p].ask.uid, attr'[Its(p)].uid)
                      /\ Shows(fs.gidMap, fs.gidMode, op[p].ask.gid, attr'[Its(p)].gid)
    BY Zenon
  <2>1. p \in use.procs /\ ChownCall(p)
    BY MovedByOwn, CallIsNext, Zenon
  <2>2. attr'[Its(p)].uid = op[p].uid /\ attr'[Its(p)].gid = op[p].gid
    BY <2>1, ChownCallDoes, Zenon
  <2>3. /\ op[p].ask \in use.asks
        /\ Resolved(fs.uidMap, op[p].ask.uid, op[p].uid)
        /\ Resolved(fs.gidMap, op[p].ask.gid, op[p].gid)
    BY Zenon DEF RequestsOK, RequestOK, SetattrOf, InSetattr, Setting
  <2>4. op[p].ask.uid \in Ids \cup {Unset} /\ op[p].ask.gid \in Ids \cup {Unset}
    BY <2>3, UseFacts, Zenon DEF RequestsOK
  <2>5. /\ fs.uidMap \in Seq(IDMapEntry) /\ WellFormed(fs.uidMap)
        /\ fs.gidMap \in Seq(IDMapEntry) /\ WellFormed(fs.gidMap)
    BY UseFacts, Zenon DEF MapsSound, RequestsOK
  <2> QED
    BY <2>2, <2>3, <2>4, <2>5, ResolvedShows, Zenon
<1> QED
  BY <1>1, RequestsInvariant, PTL DEF Spec, ChownShows

-----------------------------------------------------------------------------
(* What a Setattr leaves alone *)

(* What the request q found out is what the file still has. *)
AsFound(s, q, a) ==
    /\ q.at = "chown" => /\ q.ask.uid = Unset /\ q.uid # Unset => q.uid = a.uid
                         /\ q.ask.gid = Unset /\ q.gid # Unset => q.gid = a.gid
    /\ q.at = "call" => /\ Kept(s.uidMap, s.uidMode, q.ask.uid, a.uid) => q.uid = a.uid
                        /\ Kept(s.gidMap, s.gidMode, q.ask.gid, a.gid) => q.gid = a.gid
    /\ q.at = "chtimes" => /\ q.ask.times = "mtime" => q.atime = a.atime
                           /\ q.ask.times = "atime" => q.mtime = a.mtime

(* ... and the name of a request by path has the file the process meant. *)
Found(p) ==
    op[p].at \in Setting /\ p \notin touched =>
        /\ Its(p) # NoFile => AsFound(fs, op[p], attr[Its(p)])
        /\ ~op[p].byFd => Its(p) = op[p].file

KeepsInv == RequestsOK /\ \A p \in Procs : Found(p)

(* A request that has only read, or is past the calls that matter here, and *)
(* has the same name and file.                                              *)
LEMMA FromFound ==
    ASSUME NEW u \in Uses, NEW s, NEW q, NEW k \in 1..4, NEW a, SetattrOf(u, q),
           k = 1 => q.uid = q.ask.uid /\ q.gid = q.ask.gid
    PROVE  /\ AsFound(s, From(q, k), a)
           /\ From(q, k).at \in Setting =>
                  From(q, k).rel = q.rel /\ From(q, k).byFd = q.byFd /\ From(q, k).file = q.file
<1>1. /\ From(q, k).at \in {"idle", "chown", "mode", "times", "size"}
      /\ From(q, k).at = "chown" => k = 1 /\ From(q, k).uid = q.uid /\ From(q, k).gid = q.gid
                                    /\ From(q, k).ask = q.ask
  BY FromOK, Zenon
<1>2. CASE From(q, k) = Idle
  BY <1>2 DEF AsFound, Idle, Setting
<1>3. ASSUME NEW j, From(q, k) = [q EXCEPT !.at = Stages[j]]
      PROVE  From(q, k).rel = q.rel /\ From(q, k).byFd = q.byFd /\ From(q, k).file = q.file
  BY <1>3, Zenon DEF SetattrOf, Fields
<1>4. AsFound(s, From(q, k), a)
  BY <1>1, Zenon DEF AsFound
<1> QED
  BY <1>2, <1>3, <1>4, FromStage, Zenon

(* A step of others: what was found still holds unless they touched it. *)
LEMMA OthersKeep ==
    ASSUME KeepsInv, Next, UNCHANGED given, NEW p \in Procs, op'[p] = op[p]
    PROVE  Found(p)'
<1> SUFFICES ASSUME op[p].at \in Setting, p \notin touched'
             PROVE  /\ Its(p)' # NoFile => AsFound(fs, op[p], attr'[Its(p)'])
                    /\ ~op[p].byFd => Its(p)' = op[p].file
  BY Zenon DEF Found, given
<1>1. p \notin touched /\ ~Disturbed(p)
  BY Zenon DEF Next
<1>2. Its(p)' = Its(p) /\ (Its(p) # NoFile => attr'[Its(p)] = attr[Its(p)])
  BY <1>1, Zenon DEF Disturbed
<1>3. Found(p)
  BY Zenon DEF KeepsInv
<1> QED
  BY <1>1, <1>2, <1>3, Zenon DEF Found

(* What a step of p has to establish: the request r it leaves found out     *)
(* what the file has, and has the name and the file it had.                 *)
LEMMA OwnStep ==
    ASSUME KeepsInv, Next, NEW p \in Procs, NEW r, Next1(p, r), fs' = fs,
           r.at \in Setting /\ p \notin touched =>
               /\ dir'[r.rel] # NoFile => AsFound(fs, r, attr'[dir'[r.rel]])
               /\ ~r.byFd => dir'[r.rel] = r.file
    PROVE  Found(p)'
<1>1. op'[p] = r
  BY Zenon DEF Next1, KeepsInv, RequestsOK
<1>2. op'[p].at \in Setting /\ p \notin touched' => p \notin touched
  BY Zenon DEF Next
<1> QED
  BY <1>1, <1>2, Zenon DEF Found, Its

(* A request begins, or goes on to its next stage. *)
LEMMA StagesKeep ==
    ASSUME KeepsInv, Next, NEW p \in use.procs,
           \/ \E n \in use.names, ask \in use.asks, byFd \in BOOLEAN : Setattr(p, n, ask, byFd)
           \/ ChownCall(p) \/ Chmod(p) \/ Chtimes(p) \/ Truncate(p)
    PROVE  Found(p)'
<1> DEFINE q == op[p]
<1>1. p \in Procs /\ use \in Uses /\ RequestOK(use, fs, q)
  BY UseFacts, Zenon DEF KeepsInv, RequestsOK
<1>2. Next1(p, Idle) /\ fs' = fs => Found(p)'
  BY <1>1, OwnStep DEF Idle, Setting
<1>3. ASSUME NEW n \in use.names, NEW ask \in use.asks, NEW byFd \in BOOLEAN,
             Setattr(p, n, ask, byFd)
      PROVE  Found(p)'
  <2> DEFINE r == [at |-> "idle", rel |-> n, byFd |-> byFd, ask |-> ask,
                   file |-> IF byFd THEN fd[p].file ELSE dir[n],
                   uid |-> ask.uid, gid |-> ask.gid, atime |-> Given, mtime |-> Given]
  <2>1. SetattrOf(use, r) /\ r.uid = r.ask.uid /\ r.gid = r.ask.gid
    BY <1>1, UseFacts, Zenon DEF SetattrOf, Fields, Times
  <2>2. /\ r.rel = n /\ r.byFd = byFd /\ (~byFd => r.file = dir[n])
    OBVIOUS
  <2>3. Next1(p, From(r, 1)) /\ UNCHANGED <<fs, dir, attr>>
    BY <1>3, Zenon DEF Setattr, Next1, remoteFiles, given
  <2> HIDE DEF r
  <2>4. \A a : /\ AsFound(fs, From(r, 1), a)
               /\ From(r, 1).at \in Setting =>
                      From(r, 1).rel = r.rel /\ From(r, 1).byFd = r.byFd /\ From(r, 1).file = r.file
    BY <1>1, <2>1, FromFound
  <2> QED
    BY <1>1, <2>2, <2>3, <2>4, OwnStep, Zenon
<1>4. ASSUME NEW k \in 2..4, SetattrOf(use, q), q.at \in Setting, Next1(p, From(q, k)), UNCHANGED <<fs, dir>>
      PROVE  Found(p)'
  <2>1. \A a : /\ AsFound(fs, From(q, k), a)
               /\ From(q, k).at \in Setting =>
                      From(q, k).rel = q.rel /\ From(q, k).byFd = q.byFd /\ From(q, k).file = q.file
    BY <1>1, <1>4, FromFound
  <2>2. p \notin touched /\ ~q.byFd => dir[q.rel] = q.file
    BY <1>1, <1>4, Zenon DEF KeepsInv, Found, Its
  <2> QED
    BY <1>1, <1>4, <2>1, <2>2, OwnStep, Zenon
<1>5. ASSUME ChownCall(p) PROVE Found(p)'
  <2>1. SetattrOf(use, q) /\ q.at \in Setting
    BY <1>1, <1>5, Zenon DEF ChownCall, RequestOK, InSetattr, Setting
  <2> QED
    BY <1>2, <1>4, <1>5, <2>1 DEF ChownCall, given
<1>6. ASSUME Chmod(p) PROVE Found(p)'
  <2>1. SetattrOf(use, q) /\ q.at \in Setting
    BY <1>1, <1>6, Zenon DEF Chmod, RequestOK, InSetattr, Setting
  <2> QED
    BY <1>2, <1>4, <1>6, <2>1 DEF Chmod, given
<1>7. ASSUME Chtimes(p) PROVE Found(p)'
  <2>1. SetattrOf(use, q) /\ q.at \in Setting
    BY <1>1, <1>7, Zenon DEF Chtimes, RequestOK, InSetattr, Setting
  <2> QED
    BY <1>2, <1>4, <1>7, <2>1 DEF Chtimes, given
<1>8. ASSUME Truncate(p) PROVE Found(p)'
  BY <1>2, <1>8, Zenon DEF Truncate, given
<1> QED
  BY <1>3, <1>5, <1>6, <1>7, <1>8, Zenon

(* A request stats the file, and then resolves its ids. *)
LEMMA StatsKeep ==
    ASSUME KeepsInv, Next, NEW p \in use.procs, SetattrStat(p) \/ Chown(p) \/ TimesStat(p)
    PROVE  Found(p)'
<1> DEFINE q == op[p]
           f == dir[q.rel]
<1>1. p \in Procs /\ use \in Uses /\ RequestOK(use, fs, q)
  BY UseFacts, Zenon DEF KeepsInv, RequestsOK
<1>2. UNCHANGED <<fs, dir, attr>>
  BY Zenon DEF SetattrStat, Chown, TimesStat, remoteFiles, given
<1>3. SetattrOf(use, q) /\ q.at \in Setting /\ q.at \in {"chown", "times"}
  BY <1>1, Zenon DEF SetattrStat, Chown, TimesStat, RequestOK, InSetattr, Setting
<1>4. p \notin touched => /\ f # NoFile => AsFound(fs, q, attr[f])
                          /\ ~q.byFd => f = q.file
  BY <1>1, <1>3, Zenon DEF KeepsInv, Found, Its
<1>5. Next1(p, Idle) => Found(p)'
  BY <1>1, <1>2, OwnStep DEF Idle, Setting
<1>6. ASSUME NEW r, Next1(p, r), r.rel = q.rel, r.byFd = q.byFd, r.file = q.file,
             f # NoFile /\ AsFound(fs, q, attr[f]) => AsFound(fs, r, attr[f])
      PROVE  Found(p)'
  BY <1>1, <1>2, <1>4, <1>6, OwnStep, Zenon
<1>7. ASSUME SetattrStat(p) PROVE Found(p)'
  <2> DEFINE r == [q EXCEPT !.uid = IF @ = Unset THEN attr[f].uid ELSE @,
                            !.gid = IF @ = Unset THEN attr[f].gid ELSE @]
  <2>1. /\ r.at = "chown" /\ r.rel = q.rel /\ r.ask = q.ask /\ r.byFd = q.byFd /\ r.file = q.file
        /\ r.uid = IF q.uid = Unset THEN attr[f].uid ELSE q.uid
        /\ r.gid = IF q.gid = Unset THEN attr[f].gid ELSE q.gid
    BY <1>3, <1>7, Zenon DEF SetattrStat, SetattrOf, Fields
  <2>2. AsFound(fs, q, attr[f]) => AsFound(fs, r, attr[f])
    BY <1>7, <2>1, Zenon DEF AsFound, SetattrStat
  <2>3. Next1(p, IF f = NoFile THEN Idle ELSE r)
    BY <1>7, Zenon DEF SetattrStat
  <2> QED
    BY <1>5, <1>6, <2>1, <2>2, <2>3, Zenon
<1>8. ASSUME TimesStat(p) PROVE Found(p)'
  <2> DEFINE b == [q EXCEPT !.at = "chtimes"]
             r == [q EXCEPT !.at = "chtimes",
                            !.atime = IF q.ask.times = "mtime" THEN attr[f].atime ELSE @,
                            !.mtime = IF q.ask.times = "atime" THEN attr[f].mtime ELSE @]
  <2>1. /\ r.at = "chtimes" /\ r.rel = q.rel /\ r.ask = q.ask /\ r.byFd = q.byFd /\ r.file = q.file
        /\ r.atime = IF q.ask.times = "mtime" THEN attr[f].atime ELSE q.atime
        /\ r.mtime = IF q.ask.times = "atime" THEN attr[f].mtime ELSE q.mtime
    BY <1>3, Zenon DEF SetattrOf, Fields
  <2>2. /\ b.at = "chtimes" /\ b.rel = q.rel /\ b.ask = q.ask /\ b.byFd = q.byFd /\ b.file = q.file
    BY <1>3, Zenon DEF SetattrOf, Fields
  <2>3. AsFound(fs, r, attr[f])
    BY <2>1, Zenon DEF AsFound
  <2>4. q.ask.times = "both" => AsFound(fs, b, attr[f])
    BY <2>2 DEF AsFound
  <2>5. Next1(p, IF q.ask.times = "both" THEN b ELSE IF f = NoFile THEN Idle ELSE r)
    BY <1>8, Zenon DEF TimesStat
  <2> QED
    BY <1>5, <1>6, <2>1, <2>2, <2>3, <2>4, <2>5, Zenon
<1>9. ASSUME Chown(p) PROVE Found(p)'
  <2> DEFINE keepU == chownNoop(fs.uidMap, fs.uidMode, q.uid)
             keepG == chownNoop(fs.gidMap, fs.gidMode, q.gid)
             r == [q EXCEPT !.at = "call",
                       !.uid = IF keepU THEN attr[f].uid ELSE chownForward(fs.uidMap, @),
                       !.gid = IF keepG THEN attr[f].gid ELSE chownForward(fs.gidMap, @)]
  <2>1. q.at = "chown" /\ q.uid # Unset /\ q.gid # Unset
    BY <1>9, Zenon DEF Chown
  <2>2. /\ r.at = "call" /\ r.rel = q.rel /\ r.ask = q.ask /\ r.byFd = q.byFd /\ r.file = q.file
        /\ r.uid = IF keepU THEN attr[f].uid ELSE chownForward(fs.uidMap, q.uid)
        /\ r.gid = IF keepG THEN attr[f].gid ELSE chownForward(fs.gidMap, q.gid)
    BY <1>3, Zenon DEF SetattrOf, Fields
  <2>3. /\ q.ask.uid # Unset => q.uid = q.ask.uid
        /\ q.ask.gid # Unset => q.gid = q.ask.gid
    BY <1>1, <2>1, Zenon DEF RequestOK
  <2>4. ASSUME AsFound(fs, q, attr[f]) PROVE AsFound(fs, r, attr[f])
    <3>1. /\ q.ask.uid = Unset => q.uid = attr[f].uid
          /\ q.ask.gid = Unset => q.gid = attr[f].gid
      BY <2>1, <2>4, Zenon DEF AsFound
    <3>2. Kept(fs.uidMap, fs.uidMode, q.ask.uid, attr[f].uid) => r.uid = attr[f].uid
      BY <2>2, <2>3, <3>1, Zenon DEF Kept, Misread, chownForward
    <3>3. Kept(fs.gidMap, fs.gidMode, q.ask.gid, attr[f].gid) => r.gid = attr[f].gid
      BY <2>2, <2>3, <3>1, Zenon DEF Kept, Misread, chownForward
    <3> QED
      BY <2>2, <3>2, <3>3, Zenon DEF AsFound
  <2>5. \A a : /\ AsFound(fs, From(q, 2), a)
               /\ From(q, 2).at \in Setting =>
                      From(q, 2).rel = q.rel /\ From(q, 2).byFd = q.byFd /\ From(q, 2).file = q.file
    BY <1>1, <1>3, FromFound
  <2>6. Next1(p, From(q, 2)) => Found(p)'
    BY <1>1, <1>2, <1>4, <2>5, OwnStep, Zenon
  <2>7. Next1(p, IF keepU /\ keepG THEN From(q, 2)
                 ELSE IF (keepU \/ keepG) /\ f = NoFile THEN Idle ELSE r)
    BY <1>9, Zenon DEF Chown
  <2>8. Next1(p, r) => Found(p)'
    BY <1>6, <2>2, <2>4, Zenon
  <2> QED
    BY <1>5, <2>6, <2>7, <2>8, Zenon
<1> QED
  BY <1>7, <1>8, <1>9, Zenon

(* KeepsInv is an invariant. *)
LEMMA KeepsInvariant == Spec => []KeepsInv
<1>1. Init /\ RequestsOK => KeepsInv
  <2>1. Idle.at \notin Setting
    BY DEF Idle, Setting
  <2>2. Init => \A p \in Procs : op[p] = Idle
    BY Zenon DEF Init
  <2> QED
    BY <2>1, <2>2, Zenon DEF KeepsInv, Found
<1>2. KeepsInv /\ RequestsOK' /\ [Next]_vars => KeepsInv'
  <2> SUFFICES ASSUME KeepsInv, RequestsOK', [Next]_vars, NEW p \in Procs PROVE Found(p)'
    BY Zenon DEF KeepsInv
  <2>1. CASE UNCHANGED vars
    BY <2>1, Zenon DEF vars, KeepsInv, Found, Its
  <2>2. ASSUME Next, NEW o \in use.procs, Request(o) PROVE Found(p)'
    <3>1. UNCHANGED given /\ (p # o => op'[p] = op[p])
      BY <2>2, RequestOfOne, Zenon DEF KeepsInv
    <3>2. CASE p # o
      BY <2>2, <3>1, <3>2, OthersKeep, Zenon
    <3>3. CASE p = o /\ op'[p].at \notin Setting
      BY <3>3, Zenon DEF Found
    <3>4. CASE p = o /\ op'[p].at \in Setting
      <4>1. op'[o].at \in InSetattr
        BY <3>4, Zenon DEF InSetattr, Setting
      <4>2. \/ \E n \in use.names, ask \in use.asks, byFd \in BOOLEAN : Setattr(o, n, ask, byFd)
            \/ SetattrStat(o) \/ Chown(o) \/ ChownCall(o) \/ Chmod(o) \/ TimesStat(o)
            \/ Chtimes(o) \/ Truncate(o)
        BY <2>2, <4>1, OtherRequests, Zenon DEF Request, KeepsInv
      <4> QED
        BY <2>2, <3>4, <4>2, StagesKeep, StatsKeep, Zenon
    <3> QED
      BY <3>2, <3>3, <3>4, Zenon
  <2>3. ASSUME Next, NEW f \in Files, NEW u \in use.owners, RemoteChown(f, u) PROVE Found(p)'
    BY <2>3, OthersKeep, Zenon DEF RemoteChown
  <2> QED
    BY <2>1, <2>2, <2>3, Zenon DEF Next, Moves
<1> QED
  BY <1>1, <1>2, RequestsInvariant, PTL DEF Spec

(* "Override -> preserve the remote-side ownership (no-op for this          *)
(* dimension)": Chown and Chtimes change nothing they were not asked to     *)
(* change, and no file but the one the process named or that has strayed    *)
(* into its name. For any processes, names, files, maps and width of ids,   *)
(* and whatever others do, except to this very file in the midst of the     *)
(* request; an id that was not asked for and that the map has among its     *)
(* local ids is the one that is not kept.                                   *)
THEOREM SetattrLeavesTheRest == Spec => SetattrKeeps
<1> DEFINE Step ==
        \A p \in Procs \ touched :
          op[p].at \in {"call", "chtimes"} /\ op'[p].at # op[p].at /\ ForFile(p) =>
           LET ask == op[p].ask a == attr[Its(p)] b == attr'[Its(p)] IN
           /\ Kept(fs.uidMap, fs.uidMode, ask.uid, a.uid) => b.uid = a.uid
           /\ Kept(fs.gidMap, fs.gidMode, ask.gid, a.gid) => b.gid = a.gid
           /\ ask.times \in {"none", "mtime"} => b.atime = a.atime
           /\ ask.times \in {"none", "atime"} => b.mtime = a.mtime
           /\ \A f \in Files : attr'[f] # attr[f] => f = op[p].file \/ (Strayed(p) /\ f = Its(p))
<1>1. KeepsInv /\ [Next]_vars => Step
  <2> SUFFICES ASSUME KeepsInv, [Next]_vars, NEW p \in Procs \ touched,
                      op[p].at \in {"call", "chtimes"}, op'[p].at # op[p].at, ForFile(p)
               PROVE  LET ask == op[p].ask a == attr[Its(p)] b == attr'[Its(p)] IN
                      /\ Kept(fs.uidMap, fs.uidMode, ask.uid, a.uid) => b.uid = a.uid
                      /\ Kept(fs.gidMap, fs.gidMode, ask.gid, a.gid) => b.gid = a.gid
                      /\ ask.times \in {"none", "mtime"} => b.atime = a.atime
                      /\ ask.times \in {"none", "atime"} => b.mtime = a.mtime
                      /\ \A f \in Files : attr'[f] # attr[f] =>
                             f = op[p].file \/ (Strayed(p) /\ f = Its(p))
    BY Zenon
  <2>1. RequestsOK /\ p \in use.procs /\ Request(p)
    BY MovedByOwn, Zenon DEF KeepsInv
  <2>2. Its(p) # NoFile
    BY FileFollowed, Zenon DEF ForFile, Its
  <2>3. AsFound(fs, op[p], attr[Its(p)]) /\ (~op[p].byFd => Its(p) = op[p].file)
    BY <2>2, Zenon DEF KeepsInv, Found, Setting
  <2>4. \A f \in Files : f = Its(p) => f = op[p].file \/ (Strayed(p) /\ f = Its(p))
    BY <2>3, Zenon DEF Strayed
  <2>5. CASE op[p].at = "call"
    <3>1. ChownCall(p)
      BY <2>1, <2>5, CallIsNext, Zenon
    <3> QED
      BY <2>1, <2>3, <2>4, <2>5, <3>1, ChownCallDoes, Zenon DEF AsFound
  <2>6. CASE op[p].at = "chtimes"
    <3>1. Chtimes(p)
      BY <2>1, <2>6, ChtimesIsNext, Zenon
    <3>2. op[p].ask.times # "none"
      BY <2>1, <2>6, Zenon DEF RequestsOK, RequestOK
    <3> QED
      BY <2>1, <2>3, <2>4, <2>6, <3>1, <3>2, ChtimesDoes, Zenon DEF AsFound
  <2> QED
    BY <2>5, <2>6, Zenon
<1> QED
  BY <1>1, KeepsInvariant, PTL DEF Spec, SetattrKeeps

=============================================================================
