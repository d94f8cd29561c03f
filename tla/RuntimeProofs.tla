--------------------------- MODULE RuntimeProofs ---------------------------
(***************************************************************************)
(* For any list of mounts, any homes and any step that fails: what the     *)
(* child sees is served, closing removes no directory that is still        *)
(* mounted unless its unmount failed, and leaves nothing behind; and for   *)
(* any file, flags and destination the run is the one that was asked for.  *)
(***************************************************************************)
EXTENDS Runtime, FiniteSetTheorems, TLAPS

-----------------------------------------------------------------------------
(* Lists *)

(* A list is a function on the numbers up to its length. *)
LEMMA ListIs ==
    ASSUME NEW C, NEW s \in Seq(C)
    PROVE  Len(s) \in Nat /\ DOMAIN s = 1..Len(s) /\ s \in [1..Len(s) -> C]
OBVIOUS

(* What is in it. *)
LEMMA ElementIs ==
    ASSUME NEW C, NEW s \in Seq(C), NEW k \in 1..Len(s)
    PROVE  s[k] \in C
OBVIOUS

(* One that is not empty has a length. *)
LEMMA EmptyList ==
    ASSUME NEW C
    PROVE  <<>> \in Seq(C) /\ Len(<<>>) = 0 /\ \A s \in Seq(C) : s # <<>> => Len(s) \in Nat \ {0}
OBVIOUS

(* One that grows at its end. *)
LEMMA AppendedIs ==
    ASSUME NEW C, NEW s \in Seq(C), NEW c \in C
    PROVE  /\ Append(s, c) \in Seq(C) /\ Append(s, c) # <<>> /\ Len(Append(s, c)) = Len(s) + 1
           /\ Append(s, c)[Len(s) + 1] = c /\ \A k \in 1..Len(s) : Append(s, c)[k] = s[k]
OBVIOUS

(* Two in a row. *)
LEMMA JoinedIs ==
    ASSUME NEW C, NEW s \in Seq(C), NEW t \in Seq(C)
    PROVE  /\ s \o t \in Seq(C) /\ Len(s \o t) = Len(s) + Len(t)
           /\ \A k \in 1..Len(s) + Len(t) : (s \o t)[k] = IF k <= Len(s) THEN s[k] ELSE t[k - Len(s)]
OBVIOUS

(* Every function on the numbers up to one is a list. *)
LEMMA ListsAre ==
    \A C : Seq(C) = UNION {[1..n -> C] : n \in Nat}
OBVIOUS

-----------------------------------------------------------------------------
(* What was asked for *)

(* The first value of a list that is not the unset one. *)
First(u, s) ==
    LET S == {k \in DOMAIN s : s[k] \notin {u}}
    IN IF S = {} THEN u ELSE s[CHOOSE k \in S : \A n \in S : k <= n]

(* The least of a set of places. *)
LEMMA Least ==
    ASSUME NEW S, S \subseteq Nat, NEW m \in S, \A k \in S : m <= k
    PROVE  S # {} /\ (CHOOSE k \in S : \A j \in S : k <= j) = m
<1>1. PICK k \in S : k = (CHOOSE l \in S : \A j \in S : l <= j) /\ \A j \in S : k <= j
  BY Zenon
<1>2. k \in Nat /\ m \in Nat /\ k <= m /\ m <= k
  BY <1>1, Zenon
<1>3. k = m
  BY <1>2
<1> QED
  BY <1>1, <1>3, Zenon

(* Of two values, three or four: the first that is set, or else the last. *)
LEMMA FirstOfTwo ==
    ASSUME NEW u, NEW x, NEW y
    PROVE  First(u, <<x, y>>) = IF x # u THEN x ELSE y
<1> DEFINE s == <<x, y>>
           S == {k \in DOMAIN s : s[k] \notin {u}}
<1>1. DOMAIN s = 1..2 /\ s[1] = x /\ s[2] = y
  OBVIOUS
<1> HIDE DEF s
<1>2. S = {k \in 1..2 : s[k] # u} /\ S \subseteq Nat
  BY <1>1
<1> HIDE DEF S
<1>3. First(u, s) = IF S = {} THEN u ELSE s[CHOOSE k \in S : \A j \in S : k <= j]
  BY Zenon DEF First, S
<1>4. CASE x # u
  <2>1. 1 \in S /\ \A k \in S : 1 <= k
    BY <1>1, <1>2, <1>4
  <2>2. First(u, s) = s[1]
    BY <1>2, <1>3, <2>1, Least, Zenon
  <2> QED
    BY <1>1, <1>4, <2>2, Zenon DEF s
<1>5. CASE x = u /\ y # u
  <2>1. 2 \in S /\ \A k \in S : 2 <= k
    BY <1>1, <1>2, <1>5
  <2>2. First(u, s) = s[2]
    BY <1>2, <1>3, <2>1, Least, Zenon
  <2> QED
    BY <1>1, <1>5, <2>2, Zenon DEF s
<1>6. CASE x = u /\ y = u
  <2>1. S = {}
    BY <1>1, <1>2, <1>6
  <2> QED
    BY <1>3, <1>6, <2>1, Zenon DEF s
<1> QED
  BY <1>4, <1>5, <1>6, Zenon

(* Three values. *)
LEMMA FirstOfThree ==
    ASSUME NEW u, NEW x, NEW y, NEW z
    PROVE  First(u, <<x, y, z>>) = IF x # u THEN x ELSE IF y # u THEN y ELSE z
<1> DEFINE s == <<x, y, z>>
           S == {k \in DOMAIN s : s[k] \notin {u}}
<1>1. DOMAIN s = 1..3 /\ s[1] = x /\ s[2] = y /\ s[3] = z
  OBVIOUS
<1> HIDE DEF s
<1>2. S = {k \in 1..3 : s[k] # u} /\ S \subseteq Nat
  BY <1>1
<1> HIDE DEF S
<1>3. First(u, s) = IF S = {} THEN u ELSE s[CHOOSE k \in S : \A j \in S : k <= j]
  BY Zenon DEF First, S
<1>4. CASE x # u
  <2>1. 1 \in S /\ \A k \in S : 1 <= k
    BY <1>1, <1>2, <1>4
  <2>2. First(u, s) = s[1]
    BY <1>2, <1>3, <2>1, Least, Zenon
  <2> QED
    BY <1>1, <1>4, <2>2, Zenon DEF s
<1>5. CASE x = u /\ y # u
  <2>1. 2 \in S /\ \A k \in S : 2 <= k
    BY <1>1, <1>2, <1>5
  <2>2. First(u, s) = s[2]
    BY <1>2, <1>3, <2>1, Least, Zenon
  <2> QED
    BY <1>1, <1>5, <2>2, Zenon DEF s
<1>6. CASE x = u /\ y = u /\ z # u
  <2>1. 3 \in S /\ \A k \in S : 3 <= k
    BY <1>1, <1>2, <1>6
  <2>2. First(u, s) = s[3]
    BY <1>2, <1>3, <2>1, Least, Zenon
  <2> QED
    BY <1>1, <1>6, <2>2, Zenon DEF s
<1>7. CASE x = u /\ y = u /\ z = u
  <2>1. S = {}
    BY <1>1, <1>2, <1>7
  <2> QED
    BY <1>3, <1>7, <2>1, Zenon DEF s
<1> QED
  BY <1>4, <1>5, <1>6, <1>7, Zenon

(* Four values. *)
LEMMA FirstOfFour ==
    ASSUME NEW u, NEW x, NEW y, NEW z, NEW w
    PROVE  First(u, <<x, y, z, w>>) =
               IF x # u THEN x ELSE IF y # u THEN y ELSE IF z # u THEN z ELSE w
<1> DEFINE s == <<x, y, z, w>>
           S == {k \in DOMAIN s : s[k] \notin {u}}
<1>1. DOMAIN s = 1..4 /\ s[1] = x /\ s[2] = y /\ s[3] = z /\ s[4] = w
  OBVIOUS
<1> HIDE DEF s
<1>2. S = {k \in 1..4 : s[k] # u} /\ S \subseteq Nat
  BY <1>1
<1> HIDE DEF S
<1>3. First(u, s) = IF S = {} THEN u ELSE s[CHOOSE k \in S : \A j \in S : k <= j]
  BY Zenon DEF First, S
<1>4. CASE x # u
  <2>1. 1 \in S /\ \A k \in S : 1 <= k
    BY <1>1, <1>2, <1>4
  <2>2. First(u, s) = s[1]
    BY <1>2, <1>3, <2>1, Least, Zenon
  <2> QED
    BY <1>1, <1>4, <2>2, Zenon DEF s
<1>5. CASE x = u /\ y # u
  <2>1. 2 \in S /\ \A k \in S : 2 <= k
    BY <1>1, <1>2, <1>5
  <2>2. First(u, s) = s[2]
    BY <1>2, <1>3, <2>1, Least, Zenon
  <2> QED
    BY <1>1, <1>5, <2>2, Zenon DEF s
<1>6. CASE x = u /\ y = u /\ z # u
  <2>1. 3 \in S /\ \A k \in S : 3 <= k
    BY <1>1, <1>2, <1>6
  <2>2. First(u, s) = s[3]
    BY <1>2, <1>3, <2>1, Least, Zenon
  <2> QED
    BY <1>1, <1>6, <2>2, Zenon DEF s
<1>7. CASE x = u /\ y = u /\ z = u /\ w # u
  <2>1. 4 \in S /\ \A k \in S : 4 <= k
    BY <1>1, <1>2, <1>7
  <2>2. First(u, s) = s[4]
    BY <1>2, <1>3, <2>1, Least, Zenon
  <2> QED
    BY <1>1, <1>7, <2>2, Zenon DEF s
<1>8. CASE x = u /\ y = u /\ z = u /\ w = u
  <2>1. S = {}
    BY <1>1, <1>2, <1>8
  <2> QED
    BY <1>3, <1>8, <2>1, Zenon DEF s
<1> QED
  BY <1>4, <1>5, <1>6, <1>7, <1>8, Zenon

(* The same of strings, with the setter of Config. *)
SetOfTwo(x, y) == FirstSet(<<x, y>>)
SetOfThree(x, y, z) == FirstSet(<<x, y, z>>)
SetOfFour(x, y, z, w) == FirstSet(<<x, y, z, w>>)

(* Two strings. *)
LEMMA SetOfTwoIs ==
    ASSUME NEW x, NEW y
    PROVE  SetOfTwo(x, y) = Or(x, y)
<1> DEFINE s == <<x, y>>
<1>1. \A u : First(u, s) = IF x # u THEN x ELSE y
  BY FirstOfTwo
<1> HIDE DEF s
<1>2. FirstSet(s) = First("", s)
  BY Zenon DEF FirstSet, First
<1>3. First("", s) = IF x # "" THEN x ELSE y
  BY <1>1, Zenon
<1>4. FirstSet(s) = Or(x, y)
  BY <1>2, <1>3, Zenon DEF Or
<1> QED
  BY <1>4, Zenon DEF SetOfTwo, s

(* Three strings. *)
LEMMA SetOfThreeIs ==
    ASSUME NEW x, NEW y, NEW z
    PROVE  SetOfThree(x, y, z) = Or(x, Or(y, z))
<1> DEFINE s == <<x, y, z>>
<1>1. \A u : First(u, s) = IF x # u THEN x ELSE IF y # u THEN y ELSE z
  BY FirstOfThree
<1> HIDE DEF s
<1>2. FirstSet(s) = First("", s)
  BY Zenon DEF FirstSet, First
<1>3. First("", s) = IF x # "" THEN x ELSE IF y # "" THEN y ELSE z
  BY <1>1, Zenon
<1>4. FirstSet(s) = Or(x, Or(y, z))
  BY <1>2, <1>3, Zenon DEF Or
<1> QED
  BY <1>4, Zenon DEF SetOfThree, s

(* Four strings. *)
LEMMA SetOfFourIs ==
    ASSUME NEW x, NEW y, NEW z, NEW w
    PROVE  SetOfFour(x, y, z, w) = Or(x, Or(y, Or(z, w)))
<1> DEFINE s == <<x, y, z, w>>
<1>1. \A u : First(u, s) = IF x # u THEN x ELSE IF y # u THEN y ELSE IF z # u THEN z ELSE w
  BY FirstOfFour
<1> HIDE DEF s
<1>2. FirstSet(s) = First("", s)
  BY Zenon DEF FirstSet, First
<1>3. First("", s) = IF x # "" THEN x ELSE IF y # "" THEN y ELSE IF z # "" THEN z ELSE w
  BY <1>1, Zenon
<1>4. FirstSet(s) = Or(x, Or(y, Or(z, w)))
  BY <1>2, <1>3, Zenon DEF Or
<1> QED
  BY <1>4, Zenon DEF SetOfFour, s

(* And of numbers. *)
NumberOfThree(x, y, z) == FirstNumber(<<x, y, z>>)

(* Three numbers. *)
LEMMA NumberOfThreeIs ==
    ASSUME NEW x, NEW y, NEW z
    PROVE  NumberOfThree(x, y, z) = OrNumber(x, OrNumber(y, z))
<1> DEFINE s == <<x, y, z>>
<1>1. First(0, s) = IF x # 0 THEN x ELSE IF y # 0 THEN y ELSE z
  BY FirstOfThree
<1> HIDE DEF s
<1>2. {k \in DOMAIN s : s[k] # 0} = {k \in DOMAIN s : s[k] \notin {0}}
  BY Zenon
<1>3. FirstNumber(s) = First(0, s)
  BY <1>2 DEF FirstNumber, First
<1>4. FirstNumber(s) = OrNumber(x, OrNumber(y, z))
  BY <1>1, <1>3, Zenon DEF OrNumber
<1> QED
  BY <1>4, Zenon DEF NumberOfThree, s

(* The user and the platform that were asked for. *)
AskedUser == FirstSet(<<cli.user, SentOr("user", ""), file.user>>)
AskedOS == FirstSet(<<cli.os, file.os, req.info.os, LocalOS>>)
AskedArch == FirstSet(<<cli.arch, file.arch, req.info.arch, LocalArch>>)

(* Each part of what was asked for, as the setters would combine it. *)
LEMMA AskedParts ==
    /\ AskedType = Or(SentOr("scheme", ""), Or(cli.backend, Or(file.type, "ssh")))
    /\ AskedPort = OrNumber(cli.port, OrNumber(SentOr("port", 0), file.port))
    /\ AskedDir = Or(cli.workdir, file.workdir)
    /\ AskedUser = Or(cli.user, Or(SentOr("user", ""), file.user))
    /\ AskedOS = Or(cli.os, Or(file.os, Or(req.info.os, LocalOS)))
    /\ AskedArch = Or(cli.arch, Or(file.arch, Or(req.info.arch, LocalArch)))
<1>1. /\ AskedType = SetOfFour(SentOr("scheme", ""), cli.backend, file.type, "ssh")
      /\ AskedPort = NumberOfThree(cli.port, SentOr("port", 0), file.port)
      /\ AskedDir = SetOfTwo(cli.workdir, file.workdir)
      /\ AskedUser = SetOfThree(cli.user, SentOr("user", ""), file.user)
      /\ AskedOS = SetOfFour(cli.os, file.os, req.info.os, LocalOS)
      /\ AskedArch = SetOfFour(cli.arch, file.arch, req.info.arch, LocalArch)
  BY Zenon DEF AskedType, AskedPort, AskedDir, AskedUser, AskedOS, AskedArch, SetOfTwo, SetOfThree,
     SetOfFour, NumberOfThree
<1> QED
  BY <1>1, SetOfTwoIs, SetOfThreeIs, SetOfFourIs, NumberOfThreeIs, Zenon

(* The numbers and the names of a destination. *)
LEMMA InRange ==
    ASSUME NEW p \in Int, NEW m \in Int
    PROVE  (p \in 0..m <=> ~(p < 0 \/ p > m)) /\ (p >= 0 <=> ~(p < 0))
  OBVIOUS

(* The largest port. *)
LEMMA MaxPortIsInt == MaxPort \in Int
  BY DEF MaxPort

(* A name alone. *)
LEMMA Alone ==
    ASSUME NEW x, NEW y
    PROVE  (<<x>> = <<y>> <=> x = y) /\ <<x>> \o (<<>> \o <<>>) = <<x>> /\ <<>> \o <<>> = <<>>
  OBVIOUS

(* The places of a list and of a longer one. *)
LEMMA Prefix ==
    ASSUME NEW a \in Nat, NEW n \in Nat, n >= a
    PROVE  (\A k \in 1..a : k \in 1..n) /\ \A k \in 1..n : k > a \/ k \in 1..a
  OBVIOUS

-----------------------------------------------------------------------------
(* The list of mounts *)

(* A set of indices has a least one, and is put in order without losing or  *)
(* adding one.                                                              *)
LEMMA InOrderAll ==
    ASSUME NEW n \in Nat, NEW S \in SUBSET (1..n)
    PROVE  /\ IsFiniteSet(S) /\ Cardinality(S) \in Nat
           /\ \A k \in S : \E m \in 1..Cardinality(S) : InOrder(S)[m] = k
           /\ \A m \in 1..Cardinality(S) : InOrder(S)[m] \in S
           /\ S # {} => \E k \in S : \A j \in S : k <= j
<1> DEFINE Upto(k) == {j \in S : j <= k}
<1>1. IsFiniteSet(S) /\ Cardinality(S) \in Nat
  <2>1. IsFiniteSet(1..n)
    BY FS_Interval
  <2>2. IsFiniteSet(S)
    BY <2>1, FS_Subset, Zenon
  <2> QED
    BY <2>2, FS_CardinalityType, Zenon
<1>2. ASSUME NEW k \in S
      PROVE  IsFiniteSet(Upto(k)) /\ Cardinality(Upto(k)) \in 1..Cardinality(S)
  <2>1. Upto(k) \subseteq S /\ k \in Upto(k)
    OBVIOUS
  <2>2. IsFiniteSet(Upto(k)) /\ Cardinality(Upto(k)) \in Nat /\ Cardinality(Upto(k)) <= Cardinality(S)
    BY <1>1, <2>1, FS_Subset, FS_CardinalityType, Zenon
  <2>3. Cardinality(Upto(k)) # 0
    BY <2>1, <2>2, FS_EmptySet, Zenon
  <2> QED
    <3> DEFINE a == Cardinality(Upto(k))
               b == Cardinality(S)
    <3>1. a \in Nat /\ b \in Nat /\ a <= b /\ a # 0
      BY <1>1, <2>2, <2>3, Zenon
    <3>2. a \in 1..b
      <4> HIDE DEF a, b
      <4> QED
        BY <3>1
    <3> QED
      BY <2>2, <3>2, Zenon
<1>3. ASSUME NEW j \in S, NEW k \in S, j < k
      PROVE  Cardinality(Upto(j)) # Cardinality(Upto(k))
  <2>1. \A x \in S : x \in Int
    OBVIOUS
  <2>2. Upto(j) \subseteq Upto(k) /\ k \in Upto(k) /\ k \notin Upto(j)
    <3>1. \A x \in S : x <= j => x <= k
      BY <1>3, <2>1
    <3>2. k <= k /\ ~(k <= j)
      BY <1>3, <2>1
    <3> QED
      BY <3>1, <3>2, Zenon
  <2>3. Upto(j) # Upto(k)
    BY <2>2, Zenon
  <2> QED
    BY <1>2, <2>2, <2>3, FS_Subset, Zenon
<1>4. ASSUME NEW k \in S
      PROVE  \E m \in 1..Cardinality(S) : InOrder(S)[m] = k
  <2> DEFINE m == Cardinality(Upto(k))
  <2>1. m \in 1..Cardinality(S)
    BY <1>2, Zenon
  <2>2. \A j \in S : Cardinality(Upto(j)) = m => j = k
    BY <1>3
  <2>3. InOrder(S)[m] = CHOOSE j \in S : Cardinality(Upto(j)) = m
    BY <2>1, Zenon DEF InOrder
  <2>4. (CHOOSE j \in S : Cardinality(Upto(j)) = m) = k
    BY <2>2, Zenon
  <2> QED
    BY <2>1, <2>3, <2>4, Zenon
<1>5. ASSUME NEW m \in 1..Cardinality(S)
      PROVE  \E k \in S : Cardinality(Upto(k)) = m
  <2> DEFINE f == [k \in S |-> Cardinality(Upto(k))]
             T == 1..Cardinality(S)
  <2>1. f \in [S -> T]
    BY <1>2, Zenon
  <2>2. \A j, k \in S : f[j] = f[k] => j = k
    BY <1>3
  <2>3. f \in Injection(S, T)
    BY <2>1, <2>2, Zenon DEF Injection, IsInjective
  <2>4. IsFiniteSet(T) /\ Cardinality(T) = Cardinality(S)
    BY <1>1, FS_Interval
  <2>5. f \in Surjection(S, T)
    BY <2>3, <2>4, FS_Injection, Zenon
  <2>6. \E k \in S : f[k] = m
    BY <2>5, Zenon DEF Surjection
  <2> QED
    BY <2>6, Zenon
<1>6. ASSUME NEW m \in 1..Cardinality(S)
      PROVE  InOrder(S)[m] \in S
  <2>1. InOrder(S)[m] = CHOOSE j \in S : Cardinality(Upto(j)) = m
    BY Zenon DEF InOrder
  <2> QED
    BY <1>5, <2>1, Zenon
<1>7. ASSUME S # {}
      PROVE  \E k \in S : \A j \in S : k <= j
  <2>1. Cardinality(S) # 0
    BY <1>1, <1>7, FS_EmptySet, Zenon
  <2>2. 1 \in 1..Cardinality(S)
    BY <1>1, <2>1
  <2>3. PICK k \in S : Cardinality(Upto(k)) = 1
    BY <1>5, <2>2, Zenon
  <2>4. ASSUME NEW j \in S, j < k
        PROVE  FALSE
    <3>1. Upto(j) \subseteq Upto(k)
      <4>1. \A x \in S : x <= j => x <= k
        BY <2>4
      <4> QED
        BY <4>1, Zenon
    <3>2. Cardinality(Upto(j)) <= Cardinality(Upto(k))
      BY <1>2, <3>1, FS_Subset, Zenon
    <3>3. Cardinality(Upto(j)) = 1
      BY <1>2, <2>3, <3>2
    <3> QED
      BY <1>3, <2>3, <2>4, <3>3, Zenon
  <2> QED
    BY <2>4
<1> QED
  BY <1>1, <1>4, <1>6, <1>7, Zenon

(* A function on 1..n is a sequence of length n. *)
LEMMA IsSequence ==
    ASSUME NEW S, NEW n \in Nat, NEW f \in [1..n -> S]
    PROVE  f \in Seq(S) /\ Len(f) = n
<1>1. f \in Seq(S)
  BY ListsAre, Zenon
<1>2. 1..Len(f) = 1..n /\ Len(f) \in Nat
  BY <1>1, ListIs, Zenon
<1> QED
  <2> DEFINE a == Len(f)
  <2>1. a \in Nat /\ \A k \in Int : k \in 1..a <=> k \in 1..n
    BY <1>2, Zenon
  <2>2. a = n
    <3> HIDE DEF a
    <3>1. a + 1 \notin 1..n /\ n + 1 \notin 1..a
      BY <2>1
    <3> QED
      BY <2>1, <3>1
  <2> QED
    BY <1>1, <2>2, Zenon

Identity(p) == [local |-> p, remote |-> p]

(* The one list begins with the other and adds identities of its remote     *)
(* paths, so that each of those has one.                                    *)
Extended(ms, r) ==
    /\ r \in Seq(Mount) /\ Len(r) >= Len(ms)
    /\ \A k \in 1..Len(ms) : r[k] = ms[k]
    /\ \A k \in 1..Len(r) : k > Len(ms) => \E j \in 1..Len(ms) : r[k] = Identity(ms[j].remote)
    /\ \A k \in 1..Len(ms) : \E n \in 1..Len(r) : r[n] = Identity(ms[k].remote)

(* auto_identity_mounts keeps the list and appends identities of its remote *)
(* paths, so that each of them is one.                                      *)
LEMMA IdentitiesAdded ==
    ASSUME NEW ms \in Seq(Mount), NEW r, r = applyAutoIdentityMounts(ms)
    PROVE  Extended(ms, r)
<1> DEFINE identity == {ms[k].remote : k \in {n \in DOMAIN ms : ms[n].local = ms[n].remote}}
           moved == {k \in DOMAIN ms : ms[k].remote \notin identity}
           first == {k \in moved : \A j \in moved : ms[j].remote = ms[k].remote => k <= j}
           c == Cardinality(first)
           at(n) == InOrder(first)[n]
           added == [n \in 1..c |-> Identity(ms[at(n)].remote)]
<1>1. /\ Len(ms) \in Nat /\ DOMAIN ms = 1..Len(ms)
      /\ \A k \in 1..Len(ms) : ms[k] \in Mount /\ Identity(ms[k].remote) \in Mount
  BY ListIs, ElementIs, Zenon DEF Mount, Written, Identity
<1>2. r = ms \o added
  BY Zenon DEF applyAutoIdentityMounts, Identity
<1>3. /\ c \in Nat
      /\ \A k \in first : \E m \in 1..c : at(m) = k
      /\ \A m \in 1..c : at(m) \in first
  <2>1. first \in SUBSET (1..Len(ms))
    BY <1>1, Zenon
  <2> HIDE DEF first
  <2> QED
    BY <1>1, <2>1, InOrderAll, Zenon
<1>4. \A m \in 1..c : at(m) \in 1..Len(ms)
  BY <1>1, <1>3, Zenon
<1>5. added \in Seq(Mount) /\ Len(added) = c /\ \A n \in 1..c : added[n] = Identity(ms[at(n)].remote)
  <2>1. added \in [1..c -> Mount]
    BY <1>1, <1>4, Zenon
  <2>2. \A n \in 1..c : added[n] = Identity(ms[at(n)].remote)
    BY Zenon
  <2> HIDE DEF added, c
  <2> QED
    BY <1>3, <2>1, <2>2, IsSequence, Zenon
<1>6. /\ r \in Seq(Mount) /\ Len(r) = Len(ms) + c
      /\ \A k \in 1..Len(ms) : r[k] = ms[k]
      /\ \A n \in 1..c : r[Len(ms) + n] = Identity(ms[at(n)].remote)
  <2> DEFINE a == Len(ms)
  <2> HIDE DEF added, c, at
  <2>1. added \in Seq(Mount) /\ Len(added) = c
    BY <1>5, Zenon
  <2>2. /\ r \in Seq(Mount) /\ Len(r) = a + c
        /\ \A k \in 1..(a + c) : r[k] = IF k <= a THEN ms[k] ELSE added[k - a]
    <3>1. /\ ms \o added \in Seq(Mount) /\ Len(ms \o added) = Len(ms) + Len(added)
          /\ \A k \in 1..(Len(ms) + Len(added)) :
                 (ms \o added)[k] = IF k <= Len(ms) THEN ms[k] ELSE added[k - Len(ms)]
      BY <2>1, JoinedIs, Zenon
    <3> HIDE DEF a
    <3> QED
      BY <1>2, <2>1, <3>1, Zenon DEF a
  <2>3. a \in Nat /\ c \in Nat
    BY <1>1, <1>3, Zenon
  <2>4. \A k \in 1..a : r[k] = ms[k]
    <3> HIDE DEF a
    <3> QED
      BY <2>2, <2>3
  <2>5. \A n \in 1..c : r[a + n] = added[n]
    <3> HIDE DEF a
    <3>1. \A n \in 1..c : a + n \in 1..(a + c) /\ ~(a + n <= a) /\ (a + n) - a = n
      BY <2>3
    <3> QED
      BY <2>2, <3>1, Zenon
  <2> QED
    BY <1>5, <2>2, <2>4, <2>5, Zenon
<1>7. ASSUME NEW k \in 1..Len(r), k > Len(ms)
      PROVE  \E j \in 1..Len(ms) : r[k] = Identity(ms[j].remote)
  <2> DEFINE a == Len(ms)
             n == k - Len(ms)
  <2>1. n \in 1..c /\ k = a + n
    <3>1. k \in 1..(a + c) /\ k > a /\ a \in Nat /\ c \in Nat
      BY <1>1, <1>3, <1>6, <1>7, Zenon
    <3> HIDE DEF c
    <3> QED
      BY <3>1
  <2> HIDE DEF n, c, at
  <2> QED
    BY <1>4, <1>6, <2>1, Zenon
<1>8. ASSUME NEW k \in 1..Len(ms)
      PROVE  \E n \in 1..Len(r) : r[n] = Identity(ms[k].remote)
  <2>1. CASE ms[k].remote \in identity
    <3>1. PICK n \in 1..Len(ms) : ms[n].local = ms[n].remote /\ ms[n].remote = ms[k].remote
      BY <1>1, <2>1, Zenon
    <3>2. ms[n] = Identity(ms[k].remote)
      BY <1>1, <3>1, Zenon DEF Mount, Written, Identity
    <3>3. n \in 1..Len(r)
      <4> DEFINE a == Len(ms)
                 b == Len(r)
      <4>1. a \in Nat /\ c \in Nat /\ b = a + c /\ n \in 1..a
        BY <1>1, <1>3, <1>6, Zenon
      <4>2. n \in 1..b
        <5> HIDE DEF a, b, c
        <5> QED
          BY <4>1
      <4> QED
        BY <4>2, Zenon
    <3> QED
      BY <1>6, <3>2, <3>3, Zenon
  <2>2. CASE ms[k].remote \notin identity
    <3> DEFINE same == {j \in moved : ms[j].remote = ms[k].remote}
    <3>1. k \in same /\ same \in SUBSET (1..Len(ms))
      BY <1>1, <2>2, Zenon
    <3>2. PICK f \in same : \A j \in same : f <= j
      <4> HIDE DEF same
      <4> QED
        BY <1>1, <3>1, InOrderAll, Zenon
    <3>3. f \in first /\ ms[f].remote = ms[k].remote
      BY <3>2, Zenon
    <3>4. PICK m \in 1..c : at(m) = f
      BY <1>3, <3>3, Zenon
    <3>5. r[Len(ms) + m] = Identity(ms[k].remote)
      BY <1>6, <3>3, <3>4, Zenon
    <3>6. Len(ms) + m \in 1..Len(r)
      <4> DEFINE a == Len(ms)
                 b == Len(r)
      <4>1. a \in Nat /\ c \in Nat /\ b = a + c /\ m \in 1..c
        BY <1>1, <1>3, <1>6, Zenon
      <4>2. a + m \in 1..b
        <5> HIDE DEF a, b, c
        <5> QED
          BY <4>1
      <4> QED
        BY <4>2, Zenon
    <3> QED
      BY <3>5, <3>6, Zenon
  <2> QED
    BY <2>1, <2>2, Zenon
<1>9. Len(r) >= Len(ms)
  <2> DEFINE a == Len(ms)
             b == Len(r)
  <2>1. a \in Nat /\ c \in Nat /\ b = a + c
    BY <1>1, <1>3, <1>6, Zenon
  <2>2. b >= a
    <3> HIDE DEF a, b, c
    <3> QED
      BY <2>1
  <2> QED
    BY <2>2, Zenon
<1> QED
  <2> HIDE DEF at, c, first
  <2> QED
    BY <1>6, <1>7, <1>8, <1>9, Zenon DEF Extended

(* A destination does not touch the mounts. *)
LEMMA DestinationKeeps ==
    ASSUME NEW c, DOMAIN c = Settings, NEW d, NEW t, NEW e \in ParseDestination(d, t),
           NEW s, s = applyDestination(c, e)
    PROVE  DOMAIN s = Settings /\ s.mounts = c.mounts /\ s.auto = c.auto
<1>1. e.type \in {"ssh", "docker", "compose"}
  <2>1. e \in parseSSHTarget(d) \/ e \in parseDockerTarget(d) \/ e \in parseComposeTarget(d)
    BY Zenon DEF ParseDestination
  <2>2. CASE e \in parseSSHTarget(d)
    <3>1. \E h : e = [type |-> "ssh", user |-> d.user, host |-> h, port |-> d.port,
                      service |-> "", seq |-> 0]
      BY <2>2, Zenon DEF parseSSHTarget
    <3>2. \E u, h, p, sv, q :
              e = [type |-> "ssh", user |-> u, host |-> h, port |-> p, service |-> sv, seq |-> q]
      BY <3>1, Zenon
    <3> QED
      BY <3>2
  <2>3. CASE e \in parseDockerTarget(d)
    <3>1. \E h : e = [type |-> "docker", user |-> "", port |-> 0, service |-> "", seq |-> 0,
                      host |-> h]
      BY <2>3, Zenon DEF parseDockerTarget
    <3>2. \E u, h, p, sv, q :
              e = [type |-> "docker", user |-> u, port |-> p, service |-> sv, seq |-> q, host |-> h]
      BY <3>1, Zenon
    <3> QED
      BY <3>2
  <2>4. CASE e \in parseComposeTarget(d)
    <3>1. \E h : e = [type |-> "compose", user |-> "", host |-> h, port |-> 0,
                      service |-> d.service, seq |-> d.seq]
      BY <2>4, Zenon DEF parseComposeTarget
    <3>2. \E u, h, p, sv, q :
              e = [type |-> "compose", user |-> u, host |-> h, port |-> p, service |-> sv, seq |-> q]
      BY <3>1, Zenon
    <3> QED
      BY <3>2
  <2> QED
    BY <2>1, <2>2, <2>3, <2>4, Zenon
<1>2. CASE e.type = "ssh"
  <2>1. s = [c EXCEPT !.type = "ssh", !.host = e.host, !.user = Or(e.user, @),
                      !.port = OrNumber(e.port, @)]
    BY <1>2, Zenon DEF applyDestination
  <2> QED
    BY <2>1, Zenon DEF Settings
<1>3. CASE e.type = "docker"
  <2>1. s = [c EXCEPT !.type = "docker", !.container = e.host]
    BY <1>3, Zenon DEF applyDestination
  <2> QED
    BY <2>1, Zenon DEF Settings
<1>4. CASE e.type = "compose"
  <2>1. s = [c EXCEPT !.type = "compose", !.project = e.host, !.service = e.service,
                      !.seq = e.seq]
    BY <1>4, Zenon DEF applyDestination
  <2> QED
    BY <2>1, Zenon DEF Settings
<1> QED
  BY <1>1, <1>2, <1>3, <1>4, Zenon

(* At least one mount is asked for: without any it is the directory that    *)
(* machineproxy is started in.                                              *)
LEMMA AskedTyped ==
    ASSUME NEW r \in Requests,
           NEW ms, ms = IF r.cli.mounts \o r.file.mounts = <<>> THEN <<Identity(Cwd)>>
                        ELSE r.cli.mounts \o r.file.mounts
    PROVE  ms \in Seq(Mount) /\ Len(ms) >= 1
<1>1. /\ r.cli.mounts \in Seq(Mount) /\ r.file.mounts \in Seq(Mount) /\ DOMAIN r.file = Settings
      /\ Identity(Cwd) \in Mount
  BY RequestsAssumption, ConfigAssumption, Zenon DEF Mount, Written, Identity
<1>2. ms \in Seq(Mount) /\ Len(ms) >= 1
  <2> DEFINE both == r.cli.mounts \o r.file.mounts
             home == Identity(Cwd)
  <2>1. both \in Seq(Mount)
    BY <1>1, JoinedIs, Zenon
  <2>2. home \in Mount
    BY <1>1, Zenon
  <2>3. ms = IF both = <<>> THEN <<home>> ELSE both
    BY Zenon
  <2> HIDE DEF both, home
  <2>4. <<home>> \in Seq(Mount) /\ Len(<<home>>) >= 1
    BY <2>2
  <2>5. both # <<>> => Len(both) >= 1
    <3> DEFINE n == Len(both)
    <3>1. n \in Nat
      BY <2>1, ListIs, Zenon
    <3>2. both = <<>> <=> n = 0
      BY <2>1, EmptyList, Zenon
    <3> HIDE DEF n
    <3>3. n # 0 => n >= 1
      BY <3>1
    <3> QED
      BY <3>2, <3>3, Zenon DEF n
  <2>6. CASE both = <<>>
    <3>1. ms = <<home>>
      BY <2>3, <2>6, Zenon
    <3> QED
      BY <2>4, <3>1, Zenon
  <2>7. CASE both # <<>>
    <3>1. ms = both
      BY <2>3, <2>7, Zenon
    <3> QED
      BY <2>1, <2>5, <2>7, <3>1, Zenon
  <2> QED
    BY <2>6, <2>7, Zenon
<1> QED
  BY <1>2, Zenon

(* The mounts of a complete configuration: those that were asked for, and   *)
(* with auto_identity_mounts their identities.                              *)
LEMMA ConfiguredMounts ==
    ASSUME NEW r \in Requests, NEW c \in configure(r.cli, r.file),
           NEW ms, ms = IF r.cli.mounts \o r.file.mounts = <<>> THEN <<Identity(Cwd)>>
                        ELSE r.cli.mounts \o r.file.mounts
    PROVE  /\ DOMAIN c = Settings
           /\ c.mounts = IF r.file.auto THEN applyAutoIdentityMounts(ms) ELSE ms
<1>1. DOMAIN r.file = Settings
  BY RequestsAssumption, Zenon
<1> DEFINE typed == [r.file EXCEPT !.type = Or(r.cli.backend, @)]
           sent == IF r.cli.dest = NoDest THEN {typed}
                   ELSE {applyDestination(typed, d) :
                            d \in {e \in ParseDestination(r.cli.dest, typed.type) :
                                       r.cli.backend \in {"", e.type}}}
<1>2. DOMAIN typed = Settings /\ typed.mounts = r.file.mounts /\ typed.auto = r.file.auto
  BY <1>1, Zenon DEF Settings
<1>3. \E s \in sent : c = applyDefaults(applyFlags(s, r.cli))
  BY Zenon DEF configure
<1>4. PICK s \in sent : c = applyDefaults(applyFlags(s, r.cli))
  BY <1>3, Zenon
<1>5. DOMAIN s = Settings /\ s.mounts = r.file.mounts /\ s.auto = r.file.auto
  <2>1. CASE r.cli.dest = NoDest
    BY <1>2, <2>1, Zenon
  <2>2. CASE r.cli.dest # NoDest
    <3> HIDE DEF typed
    <3>1. PICK d \in ParseDestination(r.cli.dest, typed.type) : s = applyDestination(typed, d)
      BY <2>2, Zenon
    <3> HIDE DEF sent
    <3> QED
      BY <1>2, <3>1, DestinationKeeps
  <2> QED
    BY <2>1, <2>2, Zenon
<1> DEFINE f == applyFlags(s, r.cli)
<1>6. DOMAIN f = Settings /\ f.mounts = ms /\ f.auto = r.file.auto
  BY <1>5, Zenon DEF applyFlags, Settings, Identity
<1>7. c = applyDefaults(f)
  BY <1>4, Zenon
<1> HIDE DEF f
<1> QED
  BY <1>6, <1>7, Zenon DEF applyDefaults, Settings

-----------------------------------------------------------------------------
(* The invariant *)

Remotes == Written \cup {r.home : r \in Requests}
Dir == [remote : Remotes, state : {"mounted", "dir", "removed"}]
Instance == [path : ({"local"} \X Written) \cup ({"fuse"} \X Nat), remote : Remotes,
             dir : Nat, server : BOOLEAN]

TypeOK ==
    /\ req \in Requests
    /\ i \in Nat \ {0}
    /\ dirs \in Seq(Dir) /\ mounts \in Seq(Instance) /\ busy \subseteq DOMAIN dirs

(* The list of mounts that the supervisor works through. *)
Listed == IF file.auto THEN applyAutoIdentityMounts(AskedMounts) ELSE AskedMounts

Configured ==
    /\ step \in {"config", "refused"} => cfg = <<>>
    /\ step \notin {"config", "refused", "done"} \/ (step = "done" /\ cfg # <<>>) =>
           DOMAIN cfg = Settings /\ cfg.mounts = Listed

(* Nothing is done before MountWorkspace begins. *)
Untouched ==
    step \in {"config", "refused", "backend", "namespace", "files"} =>
        /\ i = 1 /\ dirs = <<>> /\ mounts = <<>> /\ busy = {} /\ wiped = {}
        /\ stub = "none" /\ sock = "none" /\ broker = "off"

(* An instance is of an entry that has been dealt with, on a live mount of  *)
(* the entry's remote path, and is the only one at its container path.      *)
PathOf(e, d) == IF darwin THEN <<"fuse", d>> ELSE <<"local", e.local>>
InstanceOf(m) ==
    /\ m.dir \in DOMAIN dirs
    /\ dirs[m.dir].state = "mounted" /\ dirs[m.dir].remote = m.remote
    /\ \E j \in 1..Len(cfg.mounts) :
           /\ j < i
           /\ m.remote = Entry(cfg.mounts[j]).remote
           /\ m.path = PathOf(Entry(cfg.mounts[j]), m.dir)
Backed ==
    /\ \A k \in DOMAIN mounts : InstanceOf(mounts[k])
    /\ \A k, n \in DOMAIN mounts : mounts[k].path = mounts[n].path => k = n

(* Unless two entries share a container path, a mount has an instance that  *)
(* owns its server, or could not be unmounted.                              *)
Held ==
    \A d \in DOMAIN dirs : dirs[d].state = "mounted" /\ ~Forgotten => d \in Served \cup busy

(* A directory that was never mounted is the last one. *)
LastFailed ==
    \A d \in DOMAIN dirs : dirs[d].state = "dir" => d = Len(dirs) /\ step # "mount"

(* Every entry that has been dealt with is bound, the first one first. *)
Bound ==
    /\ i = 1 => dirs = <<>> /\ mounts = <<>>
    /\ i > 1 => Len(mounts) >= 1 /\ mounts[1].remote = Entry(cfg.mounts[1]).remote
    /\ ~darwin => \A j \in 1..Len(cfg.mounts) : j < i =>
           \E k \in DOMAIN mounts : mounts[k].path = <<"local", Entry(cfg.mounts[j]).local>>
Dealt ==
    step \in {"mount", "stubs", "broker", "wait", "child"} =>
        Bound /\ (step # "mount" => i > Len(cfg.mounts))

(* Close goes backwards through what was started. *)
Order ==
    /\ sock = "bound" => broker \in {"bound", "serving", "failed"}
    /\ broker = "bound" => sock # "none"
    /\ step = "child" => sock = "bound"
    /\ step \in {"closeStubs", "closeMounts", "done"} =>
           sock \in {"none", "removed"} /\ broker # "serving"
    /\ step \in {"closeMounts", "done"} => stub # "mounted"
    /\ step = "done" => mounts = <<>>

IInv ==
    /\ TypeOK /\ Configured /\ Untouched
    /\ Backed /\ Held /\ LastFailed /\ RemoteIntact /\ Dealt /\ Order

-----------------------------------------------------------------------------
(* The list and the directories, as the invariant sees them *)

(* A mount's paths, once the home directories are put in. *)
LEMMA EntryTyped ==
    ASSUME req \in Requests, NEW m \in Mount
    PROVE  Entry(m) \in [local : Written, remote : Remotes]
BY ConfigAssumption, Zenon DEF Entry, ExpandLocalHome, ExpandRemoteHome, Mount, Written, Remotes

(* The list begins with the mounts that were asked for; the others are      *)
(* identities of their remote paths, and with auto_identity_mounts each     *)
(* remote path has one.                                                     *)
LEMMA ListedMounts ==
    ASSUME req \in Requests
    PROVE  /\ AskedMounts \in Seq(Mount) /\ Len(AskedMounts) >= 1
           /\ Listed \in Seq(Mount) /\ Len(Listed) >= Len(AskedMounts)
           /\ \A k \in 1..Len(AskedMounts) : Listed[k] = AskedMounts[k]
           /\ \A k \in 1..Len(Listed) : k > Len(AskedMounts) =>
                  \E j \in 1..Len(AskedMounts) : Listed[k] = Identity(AskedMounts[j].remote)
           /\ file.auto => \A k \in 1..Len(AskedMounts) :
                  \E n \in 1..Len(Listed) : Listed[n] = Identity(AskedMounts[k].remote)
<1>1. AskedMounts \in Seq(Mount) /\ Len(AskedMounts) >= 1
  BY AskedTyped, Zenon DEF AskedMounts, Identity, cli, file
<1>2. CASE file.auto
  <2>1. Listed = applyAutoIdentityMounts(AskedMounts)
    BY <1>2, Zenon DEF Listed
  <2>2. Extended(AskedMounts, Listed)
    BY <1>1, <2>1, IdentitiesAdded, Zenon
  <2> QED
    BY <1>1, <2>2, Zenon DEF Extended
<1>3. CASE ~file.auto
  <2>1. Listed = AskedMounts
    BY <1>3, Zenon DEF Listed
  <2> DEFINE a == Len(AskedMounts)
  <2>2. a \in Nat
    BY <1>1, ListIs, Zenon
  <2>3. a >= a /\ \A k \in 1..a : ~(k > a)
    <3> HIDE DEF a
    <3> QED
      BY <2>2
  <2> QED
    BY <1>1, <1>3, <2>1, <2>3, Zenon
<1> QED
  BY <1>2, <1>3, Zenon

(* The list that MountWorkspace is at. *)
LEMMA AtEntry ==
    ASSUME TypeOK, Configured, step \notin {"config", "refused", "done"} \/ cfg # <<>>
    PROVE  /\ cfg.mounts = Listed /\ cfg.mounts \in Seq(Mount)
           /\ Len(cfg.mounts) \in Nat /\ DOMAIN cfg.mounts = 1..Len(cfg.mounts)
           /\ Len(cfg.mounts) >= 1
           /\ \A k \in 1..Len(cfg.mounts) :
                  /\ Entries[k] = Entry(cfg.mounts[k])
                  /\ Entries[k] \in [local : Written, remote : Remotes]
<1>1. cfg.mounts = Listed
  BY Zenon DEF Configured
<1>2. /\ cfg.mounts \in Seq(Mount) /\ Len(cfg.mounts) \in Nat
      /\ DOMAIN cfg.mounts = 1..Len(cfg.mounts)
  BY <1>1, ListedMounts, ListIs, Zenon DEF TypeOK
<1>3. Len(cfg.mounts) >= 1
  <2> DEFINE a == Len(AskedMounts)
             b == Len(cfg.mounts)
  <2>1. a >= 1 /\ b >= a /\ b \in Nat /\ a \in Nat
    BY <1>1, <1>2, ListedMounts, ListIs, Zenon DEF TypeOK
  <2> HIDE DEF a, b
  <2>2. b >= 1
    BY <2>1
  <2> QED
    BY <2>2, Zenon DEF b
<1>4. \A k \in 1..Len(cfg.mounts) : Entries[k] = Entry(cfg.mounts[k])
  BY <1>2, Zenon DEF Entries
<1>5. ASSUME NEW k \in 1..Len(cfg.mounts) PROVE cfg.mounts[k] \in Mount
  BY <1>2, ElementIs, Zenon
<1> QED
  BY <1>1, <1>2, <1>3, <1>4, <1>5, EntryTyped, Zenon DEF TypeOK

(* The directory that serves a remote path, when there is one. *)
LEMMA FuseByRemote ==
    ASSUME TypeOK, NEW r
    PROVE  /\ fuseByRemote(r) # 0 =>
                  /\ fuseByRemote(r) \in DOMAIN dirs
                  /\ dirs[fuseByRemote(r)].remote = r /\ dirs[fuseByRemote(r)].state = "mounted"
           /\ fuseByRemote(r) = 0 =>
                  \A d \in DOMAIN dirs : dirs[d].state = "mounted" => dirs[d].remote # r
<1> DEFINE D == {d \in DOMAIN dirs : dirs[d].remote = r /\ dirs[d].state = "mounted"}
<1>1. fuseByRemote(r) = IF D = {} THEN 0 ELSE CHOOSE d \in D : TRUE
  BY Zenon DEF fuseByRemote
<1>2. 0 \notin DOMAIN dirs
  BY ListIs DEF TypeOK
<1>3. CASE D = {}
  BY <1>1, <1>3, Zenon
<1>4. CASE D # {}
  <2>1. fuseByRemote(r) \in D
    BY <1>1, <1>4, Zenon
  <2> QED
    BY <1>2, <2>1, Zenon
<1> QED
  BY <1>3, <1>4, Zenon

-----------------------------------------------------------------------------
(* Steps that leave the directories alone *)

(* Before its configuration is read the supervisor has done nothing. *)
LEMMA InitInv == Init => IInv
<1> SUFFICES ASSUME Init PROVE IInv
  BY Zenon
<1>1. TypeOK
  BY DEF Init, TypeOK
<1>2. Configured /\ Untouched /\ Order /\ Dealt
  BY Zenon DEF Init, Configured, Untouched, Order, Dealt
<1>3. Backed /\ Held /\ LastFailed /\ RemoteIntact
  BY DEF Init, Backed, Held, LastFailed, RemoteIntact
<1> QED
  BY <1>1, <1>2, <1>3, Zenon DEF IInv

(* Before MountWorkspace begins there is nothing to account for. *)
LEMMA EarlyStep ==
    ASSUME IInv, step \in {"config", "backend"},
           UNCHANGED <<darwin, req, i, dirs, mounts, busy, stub, sock, broker, wiped>>,
           step' \in {"refused", "done", "backend", "namespace", "close"}, Configured'
    PROVE  IInv'
<1>1. /\ i' = 1 /\ dirs' = <<>> /\ mounts' = <<>> /\ busy' = {} /\ wiped' = {}
      /\ stub' = "none" /\ sock' = "none" /\ broker' = "off"
  BY Zenon DEF IInv, Untouched
<1>2. TypeOK'
  BY Zenon DEF IInv, TypeOK
<1>3. Untouched' /\ Order' /\ Dealt'
  BY <1>1, Zenon DEF Untouched, Order, Dealt
<1>4. Backed' /\ Held' /\ LastFailed' /\ RemoteIntact'
  BY <1>1 DEF Backed, Held, LastFailed, RemoteIntact
<1> QED
  BY <1>2, <1>3, <1>4, Zenon DEF IInv

(* Configure: a complete configuration has the mounts that were asked for. *)
LEMMA ConfigureKeeps ==
    ASSUME IInv, Configure
    PROVE  IInv'
<1>1. /\ step = "config" /\ cfg = <<>> /\ req \in Requests
      /\ UNCHANGED <<darwin, req, i, dirs, mounts, busy, stub, sock, broker, wiped>>
      /\ step' \in {"refused", "done", "backend"}
  BY Zenon DEF IInv, TypeOK, Configured, Configure, bkr
<1>2. Listed' = Listed
  BY <1>1, Zenon DEF Listed, AskedMounts, cli, file
<1>3. CASE cfg' = cfg /\ step' \in {"refused", "done"}
  <2>1. Configured'
    BY <1>1, <1>3, Zenon DEF Configured
  <2> QED
    BY <1>1, <2>1, EarlyStep, Zenon
<1>4. CASE cfg' \in configure(req.cli, req.file) /\ step' = "backend"
  <2>1. AskedMounts = IF req.cli.mounts \o req.file.mounts = <<>> THEN <<Identity(Cwd)>>
                      ELSE req.cli.mounts \o req.file.mounts
    BY Zenon DEF AskedMounts, Identity, cli, file
  <2>2. DOMAIN cfg' = Settings /\ cfg'.mounts = Listed
    BY <1>1, <1>4, <2>1, ConfiguredMounts, Zenon DEF Listed, cli, file
  <2>3. Configured'
    BY <1>2, <1>4, <2>2, Zenon DEF Configured
  <2> QED
    BY <1>1, <2>3, EarlyStep, Zenon
<1> QED
  BY <1>3, <1>4, Zenon DEF Configure

(* StartBackend settles the platform only. *)
LEMMA BackendKeeps ==
    ASSUME IInv, StartBackend
    PROVE  IInv'
<1>1. /\ step = "backend" /\ DOMAIN cfg = Settings /\ cfg.mounts = Listed
      /\ UNCHANGED <<darwin, req, i, dirs, mounts, busy, stub, sock, broker, wiped>>
      /\ step' \in {"namespace", "close"}
      /\ cfg' = cfg \/ cfg' = resolveRemotePlatform(cfg, req.info)
  BY Zenon DEF IInv, Configured, StartBackend, bkr
<1>2. Listed' = Listed
  BY <1>1, Zenon DEF Listed, AskedMounts, cli, file
<1>3. DOMAIN cfg' = Settings /\ cfg'.mounts = cfg.mounts
  <2> DEFINE o == Or(cfg.os, Or(req.info.os, LocalOS))
             a == Or(cfg.arch, Or(req.info.arch, LocalArch))
  <2>1. cfg' = cfg \/ cfg' = [cfg EXCEPT !.os = o, !.arch = a]
    BY <1>1, Zenon DEF resolveRemotePlatform
  <2> HIDE DEF o, a
  <2> QED
    BY <1>1, <2>1, Zenon DEF Settings
<1>4. Configured'
  BY <1>1, <1>2, <1>3, Zenon DEF Configured
<1> QED
  BY <1>1, <1>4, EarlyStep, Zenon

(* What a step keeps that changes neither the mounts nor what they are of. *)
LEMMA QuietKeeps ==
    ASSUME IInv, UNCHANGED <<darwin, req, cfg, i, dirs, mounts, busy, wiped>>
    PROVE  /\ TypeOK' /\ Backed' /\ Held' /\ RemoteIntact'
           /\ Listed' = Listed /\ (Bound' <=> Bound)
<1>1. TypeOK'
  BY Zenon DEF IInv, TypeOK
<1>2. Forgotten' <=> Forgotten
  BY DEF Forgotten, Entries, Entry
<1>3. Served' = Served
  BY Zenon DEF Served
<1>4. Held'
  BY <1>2, <1>3, Zenon DEF IInv, Held
<1>5. RemoteIntact'
  BY <1>2, Zenon DEF IInv, RemoteIntact
<1>6. \A m : Entry(m)' = Entry(m) /\ \A d : PathOf(Entry(m), d)' = PathOf(Entry(m), d)
  BY Zenon DEF Entry, PathOf
<1>7. Backed'
  BY Zenon DEF IInv, Backed, InstanceOf, Entry, PathOf
<1>8. Bound' <=> Bound
  BY Zenon DEF Bound, Entry
<1>9. Listed' = Listed
  BY Zenon DEF Listed, AskedMounts, cli, file
<1> QED
  BY <1>1, <1>4, <1>5, <1>7, <1>8, <1>9, Zenon

(* The steps between which Close and its callers move. *)
LEMMA QuietStep ==
    ASSUME IInv, UNCHANGED <<darwin, req, cfg, i, dirs, mounts, busy, wiped>>,
           step' = "mount" => step = "mount" \/ step = "files",
           step' \in {"stubs", "broker", "wait", "child"} =>
               step \in {"mount", "stubs", "broker", "wait", "child"} /\ i > Len(cfg.mounts),
           step' # step => {step, step'} \cap {"config", "refused", "done"} = {},
           Untouched', Order'
    PROVE  IInv'
<1>1. /\ TypeOK' /\ Backed' /\ Held' /\ RemoteIntact'
      /\ Listed' = Listed /\ (Bound' <=> Bound)
  BY QuietKeeps, Zenon
<1>2. Configured'
  BY <1>1, Zenon DEF IInv, Configured
<1>3. LastFailed'
  <2>1. step = "files" => DOMAIN dirs = {}
    BY DEF IInv, Untouched
  <2> QED
    BY <2>1, Zenon DEF IInv, LastFailed
<1>4. step = "files" => Bound
  BY DEF IInv, Untouched, Bound
<1>5. Dealt'
  BY <1>1, <1>4, Zenon DEF IInv, Dealt
<1> QED
  BY <1>1, <1>2, <1>3, <1>5, Zenon DEF IInv

(* EnterNamespace, and the beginning and the end of MountWorkspace. *)
LEMMA MountBounds ==
    ASSUME IInv, EnterNamespace \/ MountBegin \/ MountDone
    PROVE  IInv'
<1>1. UNCHANGED <<darwin, req, cfg, i, dirs, mounts, busy, wiped, stub, sock, broker>>
  BY Zenon DEF EnterNamespace, MountBegin, MountDone, given, settled, bkr
<1>2. Untouched' /\ Order'
  BY <1>1, Zenon DEF IInv, Untouched, Order, EnterNamespace, MountBegin, MountDone, Goto
<1> QED
  BY <1>1, <1>2, QuietStep, Zenon DEF EnterNamespace, MountBegin, MountDone, Goto

(* BuildPathStubs, StartBroker, the broker's goroutine and RunChild. *)
LEMMA RunKeeps ==
    ASSUME IInv, \/ StubsSkipped \/ StubsFail \/ StubsMounted \/ StartBroker
                 \/ BrokerBinds \/ BrokerListens \/ BrokerAcceptFails \/ BrokerReady
                 \/ RunChild
    PROVE  IInv'
<1>1. UNCHANGED <<darwin, req, cfg, i, dirs, mounts, busy, wiped>>
  BY Zenon DEF StubsSkipped, StubsFail, StubsMounted, StartBroker, BrokerBinds, BrokerListens,
         BrokerAcceptFails, BrokerReady, RunChild, given, settled
<1>2. CASE StubsSkipped \/ StubsFail \/ StubsMounted
  <2>1. Untouched' /\ Order'
    BY <1>2, Zenon DEF IInv, Untouched, Order, StubsSkipped, StubsFail, StubsMounted, Goto, bkr
  <2>2. i > Len(cfg.mounts)
    BY <1>2, Zenon DEF IInv, Dealt, StubsSkipped, StubsFail, StubsMounted
  <2> QED
    BY <1>1, <1>2, <2>1, <2>2, QuietStep, Zenon DEF StubsSkipped, StubsFail, StubsMounted, Goto
<1>3. CASE StartBroker \/ BrokerReady \/ RunChild
  <2>1. Untouched' /\ Order'
    BY <1>3, Zenon DEF IInv, Untouched, Order, StartBroker, BrokerReady, RunChild, bkr
  <2>2. i > Len(cfg.mounts)
    BY <1>3, Zenon DEF IInv, Dealt, StartBroker, BrokerReady, RunChild
  <2> QED
    BY <1>1, <1>3, <2>1, <2>2, QuietStep, Zenon DEF StartBroker, BrokerReady, RunChild
<1>4. CASE BrokerBinds \/ BrokerListens \/ BrokerAcceptFails
  <2>1. Untouched' /\ Order' /\ step' = step
    <3>1. CASE BrokerBinds
      BY <1>1, <3>1, Zenon DEF IInv, Untouched, Order, BrokerBinds
    <3>2. CASE BrokerListens
      BY <1>1, <3>2, Zenon DEF IInv, Untouched, Order, BrokerListens
    <3>3. CASE BrokerAcceptFails
      BY <1>1, <3>3, Zenon DEF IInv, Untouched, Order, BrokerAcceptFails
    <3> QED
      BY <1>4, <3>1, <3>2, <3>3, Zenon
  <2>2. step \in {"stubs", "broker", "wait", "child"} => i > Len(cfg.mounts)
    BY Zenon DEF IInv, Dealt
  <2> QED
    BY <1>1, <2>1, <2>2, QuietStep, Zenon
<1> QED
  BY <1>2, <1>3, <1>4, Zenon

(* Close, up to the mounts. *)
LEMMA CloseKeeps ==
    ASSUME IInv, CloseBroker \/ CloseStubs
    PROVE  IInv'
<1>1. UNCHANGED <<darwin, req, cfg, i, dirs, mounts, busy, wiped>>
  BY Zenon DEF CloseBroker, CloseStubs, given, settled
<1>2. Untouched' /\ Order'
  BY Zenon DEF IInv, Untouched, Order, CloseBroker, CloseStubs, bkr
<1> QED
  BY <1>1, <1>2, QuietStep, Zenon DEF CloseBroker, CloseStubs

-----------------------------------------------------------------------------
(* MountWorkspace *)

(* The instance is added, unless its container path is taken. *)
Kept(inst) ==
    /\ mounts' \in Seq(Instance)
    /\ \A k \in DOMAIN mounts : k \in DOMAIN mounts' /\ mounts'[k] = mounts[k]
    /\ \A k \in DOMAIN mounts' \ DOMAIN mounts :
           /\ mounts'[k] = inst
           /\ \A n \in DOMAIN mounts : mounts[n].path # inst.path
           /\ \A n \in DOMAIN mounts' \ DOMAIN mounts : n = k
    /\ \E k \in DOMAIN mounts' : mounts'[k].path = inst.path
    /\ \/ \E n \in DOMAIN mounts : mounts[n].path = inst.path
       \/ \E k \in DOMAIN mounts' : mounts'[k] = inst

(* Keep does that. *)
LEMMA KeepAdds ==
    ASSUME mounts \in Seq(Instance), NEW m \in [local : Written, remote : Remotes],
           NEW d \in Nat, NEW server \in BOOLEAN, Keep(m, d, server),
           NEW inst, inst = [path |-> PathOf(m, d), remote |-> m.remote, dir |-> d,
                             server |-> server]
    PROVE  Kept(inst)
<1>1. mounts' = IF \E n \in DOMAIN mounts : mounts[n].path = PathOf(m, d)
                THEN mounts ELSE Append(mounts, inst)
  BY Zenon DEF Keep, PathOf
<1>2. inst \in Instance
  BY Zenon DEF Instance, PathOf
<1>3. inst.path = PathOf(m, d)
  BY Zenon
<1>4. CASE \E n \in DOMAIN mounts : mounts[n].path = PathOf(m, d)
  <2>1. mounts' = mounts
    BY <1>1, <1>4, Zenon
  <2> QED
    BY <1>3, <1>4, <2>1, Zenon DEF Kept
<1>5. CASE ~ \E n \in DOMAIN mounts : mounts[n].path = PathOf(m, d)
  <2> DEFINE c == Len(mounts)
  <2>1. c \in Nat /\ DOMAIN mounts = 1..c
    BY ListIs, Zenon
  <2>2. /\ mounts' \in Seq(Instance) /\ DOMAIN mounts' = 1..(c + 1)
        /\ \A k \in 1..c : mounts'[k] = mounts[k]
        /\ mounts'[c + 1] = inst
    BY <1>1, <1>2, <1>5, AppendedIs, ListIs
  <2> HIDE DEF c
  <2>3. \A k \in DOMAIN mounts' : k \in DOMAIN mounts \/ k = c + 1
    BY <2>1, <2>2
  <2>4. c + 1 \in DOMAIN mounts' /\ \A k \in DOMAIN mounts : k \in DOMAIN mounts'
    BY <2>1, <2>2
  <2> QED
    BY <1>3, <1>5, <2>1, <2>2, <2>3, <2>4, Zenon DEF Kept
<1> QED
  BY <1>4, <1>5, Zenon

(* An entry is dealt with, on a directory that was there or a new one. *)
LEMMA MountKeeps ==
    ASSUME IInv, step = "mount", i <= Len(cfg.mounts),
           NEW d \in Nat, NEW server \in BOOLEAN, Keep(Entries[i], d, server),
           i' = i + 1, UNCHANGED <<darwin, req, cfg, step, busy, stub, sock, broker, wiped>>,
           dirs' \in Seq(Dir), d \in DOMAIN dirs',
           dirs'[d].state = "mounted", dirs'[d].remote = Entries[i].remote,
           \A x \in DOMAIN dirs : x \in DOMAIN dirs' /\ dirs'[x] = dirs[x],
           \A x \in DOMAIN dirs' : x \in DOMAIN dirs \/ x = d,
           Held'
    PROVE  IInv'
<1> DEFINE e == Entries[i]
           inst == [path |-> PathOf(e, d), remote |-> e.remote, dir |-> d, server |-> server]
<1>1. /\ TypeOK /\ Configured /\ Backed /\ LastFailed /\ RemoteIntact /\ Dealt /\ Order
      /\ mounts \in Seq(Instance) /\ i \in Nat \ {0} /\ Bound
  BY Zenon DEF IInv, TypeOK, Dealt
<1>2. /\ Len(cfg.mounts) \in Nat /\ i \in 1..Len(cfg.mounts) /\ e = Entry(cfg.mounts[i])
      /\ e \in [local : Written, remote : Remotes]
  BY <1>1, AtEntry
<1>3. inst.path = PathOf(e, d) /\ inst.remote = e.remote /\ inst.dir = d
  BY Zenon
<1>4. Kept(inst)
  BY <1>1, <1>2, KeepAdds, Zenon
<1>5. /\ mounts' \in Seq(Instance)
      /\ \A k \in DOMAIN mounts : k \in DOMAIN mounts' /\ mounts'[k] = mounts[k]
      /\ \A k \in DOMAIN mounts' \ DOMAIN mounts :
             /\ mounts'[k] = inst
             /\ \A n \in DOMAIN mounts : mounts[n].path # PathOf(e, d)
             /\ \A n \in DOMAIN mounts' \ DOMAIN mounts : n = k
      /\ \E k \in DOMAIN mounts' : mounts'[k].path = PathOf(e, d)
      /\ \/ \E n \in DOMAIN mounts : mounts[n].path = PathOf(e, d)
         \/ \E k \in DOMAIN mounts' : mounts'[k] = inst
  BY <1>3, <1>4, Zenon DEF Kept
<1> HIDE DEF inst, e
<1>6. TypeOK'
  <2>1. busy \subseteq DOMAIN dirs /\ req \in Requests
    BY <1>1, Zenon DEF TypeOK
  <2>2. busy' \subseteq DOMAIN dirs' /\ i' \in Nat \ {0} /\ req' \in Requests
    BY <1>1, <2>1
  <2> QED
    BY <1>5, <2>2, Zenon DEF TypeOK
<1>7. Configured'
  <2>1. Listed' = Listed
    BY Zenon DEF Listed, AskedMounts, cli, file
  <2> QED
    BY <1>1, <2>1, Zenon DEF Configured
<1>8. Untouched' /\ Order' /\ LastFailed'
  <2>1. Untouched' /\ Order'
    BY <1>1, Zenon DEF Untouched, Order
  <2>2. \A x \in DOMAIN dirs : dirs[x].state # "dir"
    BY <1>1, Zenon DEF LastFailed
  <2> QED
    BY <2>1, <2>2, Zenon DEF LastFailed
<1>9. RemoteIntact'
  <2>1. Forgotten' <=> Forgotten
    BY DEF Forgotten, Entries, Entry
  <2>2. {dirs[x].remote : x \in busy} \subseteq {dirs'[x].remote : x \in busy'}
    BY <1>1, Zenon DEF TypeOK
  <2> QED
    BY <1>1, <2>1, <2>2, Zenon DEF RemoteIntact
<1>10. Backed'
  <2>1. ASSUME NEW k \in DOMAIN mounts'
        PROVE  /\ mounts'[k].dir \in DOMAIN dirs' /\ dirs'[mounts'[k].dir].state = "mounted"
               /\ dirs'[mounts'[k].dir].remote = mounts'[k].remote
               /\ \E j \in 1..Len(cfg.mounts) :
                      /\ j < i + 1
                      /\ mounts'[k].remote = Entry(cfg.mounts[j]).remote
                      /\ mounts'[k].path = PathOf(Entry(cfg.mounts[j]), mounts'[k].dir)
    <3>1. CASE k \in DOMAIN mounts
      <4>1. InstanceOf(mounts[k]) /\ mounts'[k] = mounts[k]
        BY <1>1, <1>5, <3>1, Zenon DEF Backed
      <4>2. PICK j \in 1..Len(cfg.mounts) :
                /\ j < i
                /\ mounts[k].remote = Entry(cfg.mounts[j]).remote
                /\ mounts[k].path = PathOf(Entry(cfg.mounts[j]), mounts[k].dir)
        BY <4>1, Zenon DEF InstanceOf
      <4>3. j < i + 1
        BY <1>1, <1>2, <4>2
      <4>4. /\ mounts[k].dir \in DOMAIN dirs /\ dirs[mounts[k].dir].state = "mounted"
            /\ dirs[mounts[k].dir].remote = mounts[k].remote
        BY <4>1, Zenon DEF InstanceOf
      <4> QED
        BY <4>1, <4>2, <4>3, <4>4, Zenon
    <3>2. CASE k \notin DOMAIN mounts
      <4>1. mounts'[k] = inst
        BY <1>5, <3>2, Zenon
      <4>2. i < i + 1
        BY <1>1
      <4> QED
        BY <1>2, <1>3, <4>1, <4>2, Zenon DEF e
    <3> QED
      BY <3>1, <3>2, Zenon
  <2>2. \A k, n \in DOMAIN mounts' : mounts'[k].path = mounts'[n].path => k = n
    <3>1. \A k, n \in DOMAIN mounts : mounts[k].path = mounts[n].path => k = n
      BY <1>1, Zenon DEF Backed
    <3> QED
      BY <1>5, <1>3, <3>1
  <2> QED
    BY <2>1, <2>2, Zenon DEF Backed, InstanceOf, Entry, PathOf
<1>11. Bound'
  <2>1. i' # 1 /\ i' > 1
    BY <1>1
  <2>2. Len(mounts') >= 1 /\ mounts'[1].remote = Entry(cfg.mounts[1]).remote
    <3> DEFINE c == Len(mounts)
               b == Len(mounts')
    <3>1. c \in Nat /\ b \in Nat /\ DOMAIN mounts = 1..c /\ DOMAIN mounts' = 1..b
      BY <1>1, <1>5, ListIs, Zenon
    <3> HIDE DEF c, b
    <3>2. \E k \in 1..b : mounts'[k].path = PathOf(e, d)
      BY <1>5, <3>1, Zenon
    <3>3. b >= 1 /\ 1 \in DOMAIN mounts'
      BY <3>1, <3>2
    <3>4. CASE i = 1
      <4>1. 1 \notin DOMAIN mounts
        BY <1>1, <3>4 DEF Bound
      <4>2. mounts'[1] = inst
        BY <1>5, <3>3, <4>1, Zenon
      <4> QED
        BY <1>2, <1>3, <3>3, <3>4, <4>2, Zenon DEF b
    <3>5. CASE i # 1
      <4>1. c >= 1 /\ mounts[1].remote = Entry(cfg.mounts[1]).remote
        BY <1>1, <3>5 DEF Bound, c
      <4>2. 1 \in DOMAIN mounts
        BY <3>1, <4>1
      <4> QED
        BY <1>5, <3>3, <4>1, <4>2, Zenon DEF b
    <3> QED
      BY <3>4, <3>5, Zenon
  <2>3. ASSUME ~darwin, NEW j \in 1..Len(cfg.mounts), j < i + 1
        PROVE  \E k \in DOMAIN mounts' : mounts'[k].path = <<"local", Entry(cfg.mounts[j]).local>>
    <3>1. CASE j = i
      <4>1. PathOf(e, d) = <<"local", Entry(cfg.mounts[j]).local>>
        BY <1>2, <2>3, <3>1, Zenon DEF PathOf
      <4> QED
        BY <1>5, <4>1, Zenon
    <3>2. CASE j # i
      <4>1. j < i
        BY <1>1, <1>2, <2>3, <3>2
      <4>2. PICK k \in DOMAIN mounts : mounts[k].path = <<"local", Entry(cfg.mounts[j]).local>>
        BY <1>1, <2>3, <4>1, Zenon DEF Bound
      <4> QED
        BY <1>5, <4>2, Zenon
    <3> QED
      BY <3>1, <3>2, Zenon
  <2> QED
    BY <2>1, <2>2, <2>3, Zenon DEF Bound, Entry
<1>12. Dealt'
  BY <1>11, Zenon DEF Dealt
<1> QED
  BY <1>6, <1>7, <1>8, <1>9, <1>10, <1>12, Zenon DEF IInv

(* MountShared: the entry shares the directory of its remote path. *)
LEMMA SharedKeeps ==
    ASSUME IInv, MountShared
    PROVE  IInv'
<1> DEFINE d == fuseByRemote(Entries[i].remote)
<1>1. /\ step = "mount" /\ i <= Len(cfg.mounts) /\ d # 0 /\ Keep(Entries[i], d, FALSE)
      /\ i' = i + 1
      /\ UNCHANGED <<darwin, req, cfg, step, dirs, busy, stub, sock, broker, wiped>>
  BY Zenon DEF MountShared, given, settled, bkr
<1>2. TypeOK /\ Configured /\ Held
  BY Zenon DEF IInv
<1>3. d \in DOMAIN dirs /\ dirs[d].remote = Entries[i].remote /\ dirs[d].state = "mounted"
  BY <1>1, <1>2, FuseByRemote, Zenon
<1>4. d \in Nat /\ dirs' \in Seq(Dir)
  BY <1>1, <1>2, <1>3, ListIs DEF TypeOK
<1>5. i \in 1..Len(cfg.mounts) /\ Entries[i] \in [local : Written, remote : Remotes]
  BY <1>1, <1>2, AtEntry DEF TypeOK
<1> HIDE DEF d
<1>6. \A k \in DOMAIN mounts : k \in DOMAIN mounts' /\ mounts'[k] = mounts[k]
  <2>1. mounts \in Seq(Instance)
    BY <1>2, Zenon DEF TypeOK
  <2>2. Kept([path |-> PathOf(Entries[i], d), remote |-> Entries[i].remote, dir |-> d,
              server |-> FALSE])
    BY <1>1, <1>4, <1>5, <2>1, KeepAdds, Zenon
  <2> QED
    BY <2>2, Zenon DEF Kept
<1>7. Held'
  <2>1. Forgotten' <=> Forgotten
    BY <1>1 DEF Forgotten, Entries, Entry
  <2>2. Served \subseteq Served'
    BY <1>6, Zenon DEF Served
  <2> QED
    BY <1>1, <1>2, <2>1, <2>2, Zenon DEF Held
<1> QED
  BY <1>1, <1>3, <1>4, <1>7, MountKeeps, Zenon

(* MountFresh: a directory of its own; and as no other entry has the        *)
(* container path with another remote path, an instance that owns it.       *)
LEMMA FreshKeeps ==
    ASSUME IInv, MountFresh
    PROVE  IInv'
<1> DEFINE d == Len(dirs')
           new == [remote |-> Entries[i].remote, state |-> "mounted"]
           inst == [path |-> PathOf(Entries[i], d), remote |-> Entries[i].remote, dir |-> d,
                    server |-> TRUE]
<1>1. /\ step = "mount" /\ i <= Len(cfg.mounts) /\ fuseByRemote(Entries[i].remote) = 0
      /\ dirs' = Append(dirs, new)
      /\ Keep(Entries[i], d, TRUE) /\ i' = i + 1
      /\ UNCHANGED <<darwin, req, cfg, step, busy, stub, sock, broker, wiped>>
  BY Zenon DEF MountFresh, given, settled, bkr
<1>2. TypeOK /\ Configured /\ Held /\ Backed /\ dirs \in Seq(Dir) /\ mounts \in Seq(Instance)
  BY Zenon DEF IInv, TypeOK
<1>3. /\ i \in 1..Len(cfg.mounts) /\ Entries[i] = Entry(cfg.mounts[i])
      /\ Entries[i] \in [local : Written, remote : Remotes]
      /\ DOMAIN Entries = 1..Len(cfg.mounts)
      /\ \A k \in 1..Len(cfg.mounts) : Entries[k] = Entry(cfg.mounts[k])
  <2>1. /\ i \in 1..Len(cfg.mounts) /\ DOMAIN cfg.mounts = 1..Len(cfg.mounts)
        /\ \A k \in 1..Len(cfg.mounts) :
               /\ Entries[k] = Entry(cfg.mounts[k])
               /\ Entries[k] \in [local : Written, remote : Remotes]
    BY <1>1, <1>2, AtEntry DEF TypeOK
  <2>2. DOMAIN Entries = DOMAIN cfg.mounts
    BY Zenon DEF Entries
  <2> QED
    BY <2>1, <2>2, Zenon
<1>4. new \in Dir
  BY <1>3, Zenon DEF Dir
<1>5. /\ d \in Nat /\ d \notin DOMAIN dirs /\ d \in DOMAIN dirs' /\ dirs'[d] = new
      /\ dirs' \in Seq(Dir)
      /\ \A x \in DOMAIN dirs : x \in DOMAIN dirs' /\ dirs'[x] = dirs[x]
      /\ \A x \in DOMAIN dirs' : x \in DOMAIN dirs \/ x = d
  <2> DEFINE c == Len(dirs)
  <2>1. /\ dirs' \in Seq(Dir) /\ c \in Nat /\ DOMAIN dirs = 1..c
        /\ d = c + 1 /\ DOMAIN dirs' = 1..d
        /\ \A x \in 1..c : dirs'[x] = dirs[x]
        /\ dirs'[c + 1] = new
    BY <1>1, <1>2, <1>4, AppendedIs, ListIs
  <2> HIDE DEF c, d, new
  <2> QED
    BY <2>1
<1>6. new.state = "mounted" /\ new.remote = Entries[i].remote
  BY Zenon
<1>7. inst.path = PathOf(Entries[i], d) /\ inst.dir = d /\ inst.server = TRUE
  BY Zenon
<1>8. Kept(inst)
  BY <1>1, <1>2, <1>3, <1>5, KeepAdds, Zenon
<1> HIDE DEF d, new, inst
<1>9. ~Forgotten => \A n \in DOMAIN mounts : mounts[n].path # inst.path
  <2> SUFFICES ASSUME ~Forgotten, NEW n \in DOMAIN mounts, mounts[n].path = inst.path
               PROVE  FALSE
    BY Zenon
  <2>1. InstanceOf(mounts[n])
    BY <1>2, Zenon DEF Backed
  <2>2. PICK j \in 1..Len(cfg.mounts) :
            /\ mounts[n].remote = Entry(cfg.mounts[j]).remote
            /\ mounts[n].path = PathOf(Entry(cfg.mounts[j]), mounts[n].dir)
    BY <2>1, Zenon DEF InstanceOf
  <2>3. /\ mounts[n].dir \in DOMAIN dirs /\ dirs[mounts[n].dir].state = "mounted"
        /\ dirs[mounts[n].dir].remote = mounts[n].remote
    BY <2>1, Zenon DEF InstanceOf
  <2>4. CASE darwin
    <3>1. <<"fuse", mounts[n].dir>> = <<"fuse", d>>
      BY <1>7, <2>2, <2>4, Zenon DEF PathOf
    <3>2. mounts[n].dir = d
      BY <3>1, Zenon
    <3> QED
      BY <1>5, <2>3, <3>2, Zenon
  <2>5. CASE ~darwin
    <3>1. <<"local", Entries[j].local>> = <<"local", Entries[i].local>>
      BY <1>3, <1>7, <2>2, <2>5, Zenon DEF PathOf
    <3>2. Entries[j].local = Entries[i].local
      BY <3>1, Zenon
    <3>3. Entries[j].remote = Entries[i].remote
      BY <1>3, <2>5, <3>2, Zenon DEF Forgotten
    <3>4. dirs[mounts[n].dir].remote = Entries[i].remote
      BY <1>3, <2>2, <2>3, <3>3, Zenon
    <3> QED
      BY <1>1, <1>2, <2>3, <3>4, FuseByRemote, Zenon
  <2> QED
    BY <2>4, <2>5, Zenon
<1>10. Held'
  <2>1. Forgotten' <=> Forgotten
    BY <1>1 DEF Forgotten, Entries, Entry
  <2>2. Served \subseteq Served'
    BY <1>8 DEF Served, Kept
  <2>3. ~Forgotten => d \in Served'
    <3>1. ~Forgotten => \E k \in DOMAIN mounts' : mounts'[k] = inst
      BY <1>8, <1>9, Zenon DEF Kept
    <3> QED
      BY <1>7, <3>1, Zenon DEF Served
  <2> QED
    BY <1>1, <1>2, <1>5, <2>1, <2>2, <2>3, Zenon DEF Held
<1> QED
  BY <1>1, <1>5, <1>6, <1>10, MountKeeps, Zenon DEF d

(* MountFails: at most a directory that is not mounted. *)
LEMMA FailsKeeps ==
    ASSUME IInv, MountFails
    PROVE  IInv'
<1> DEFINE new == [remote |-> Entries[i].remote, state |-> "dir"]
           c == Len(dirs)
<1>1. /\ step = "mount" /\ i <= Len(cfg.mounts) /\ step' = "undo"
      /\ dirs' = dirs \/ dirs' = Append(dirs, new)
      /\ UNCHANGED <<darwin, req, cfg, i, mounts, busy, stub, sock, broker, wiped>>
  BY Zenon DEF MountFails, given, settled, bkr
<1>2. /\ TypeOK /\ Configured /\ Held /\ Backed /\ LastFailed /\ Order /\ RemoteIntact
      /\ dirs \in Seq(Dir) /\ busy \subseteq DOMAIN dirs
  BY Zenon DEF IInv, TypeOK
<1>3. i \in 1..Len(cfg.mounts) /\ Entries[i] \in [local : Written, remote : Remotes]
  BY <1>1, <1>2, AtEntry DEF TypeOK
<1>4. new \in Dir /\ new.state = "dir"
  BY <1>3, Zenon DEF Dir
<1>5. /\ dirs' \in Seq(Dir)
      /\ \A x \in DOMAIN dirs : x \in DOMAIN dirs' /\ dirs'[x] = dirs[x]
      /\ \A x \in DOMAIN dirs' : x \in DOMAIN dirs \/ (x = Len(dirs') /\ dirs'[x] = new)
  <2>1. CASE dirs' = dirs
    BY <1>2, <2>1, Zenon
  <2>2. CASE dirs' = Append(dirs, new)
    <3>1. /\ dirs' \in Seq(Dir) /\ c \in Nat /\ DOMAIN dirs = 1..c
          /\ Len(dirs') = c + 1 /\ DOMAIN dirs' = 1..(c + 1)
          /\ \A x \in 1..c : dirs'[x] = dirs[x]
          /\ dirs'[c + 1] = new
      BY <1>2, <1>4, <2>2, AppendedIs, ListIs
    <3> HIDE DEF c, new
    <3> QED
      BY <3>1
  <2> QED
    BY <1>1, <2>1, <2>2, Zenon
<1> HIDE DEF new
<1>6. TypeOK'
  BY <1>1, <1>2, <1>5, Zenon DEF TypeOK
<1>7. Configured'
  <2>1. Listed' = Listed
    BY <1>1, Zenon DEF Listed, AskedMounts, cli, file
  <2> QED
    BY <1>1, <1>2, <2>1, Zenon DEF Configured
<1>8. Untouched' /\ Order' /\ Dealt'
  BY <1>1, <1>2, Zenon DEF Untouched, Order, Dealt
<1>9. LastFailed'
  <2>1. \A x \in DOMAIN dirs : dirs[x].state # "dir"
    BY <1>1, <1>2, Zenon DEF LastFailed
  <2> QED
    BY <1>1, <1>5, <2>1, Zenon DEF LastFailed
<1>10. Forgotten' <=> Forgotten
  BY <1>1 DEF Forgotten, Entries, Entry
<1>11. RemoteIntact'
  <2>1. {dirs[x].remote : x \in busy} \subseteq {dirs'[x].remote : x \in busy'}
    BY <1>1, <1>2, <1>5, Zenon
  <2> QED
    BY <1>1, <1>2, <1>10, <2>1, Zenon DEF RemoteIntact
<1>12. Held'
  <2>1. Served' = Served
    BY <1>1, Zenon DEF Served
  <2> QED
    BY <1>1, <1>2, <1>4, <1>5, <1>10, <2>1, Zenon DEF Held
<1>13. Backed'
  <2>1. \A k \in DOMAIN mounts : InstanceOf(mounts[k])
    BY <1>2, Zenon DEF Backed
  <2>2. \A k \in DOMAIN mounts :
            /\ mounts[k].dir \in DOMAIN dirs' /\ dirs'[mounts[k].dir].state = "mounted"
            /\ dirs'[mounts[k].dir].remote = mounts[k].remote
    BY <1>5, <2>1, Zenon DEF InstanceOf
  <2> QED
    BY <1>1, <1>2, <2>1, <2>2, Zenon DEF Backed, InstanceOf, Entry, PathOf
<1> QED
  BY <1>6, <1>7, <1>8, <1>9, <1>11, <1>12, <1>13, Zenon DEF IInv

-----------------------------------------------------------------------------
(* The mounts are released *)

(* ReleaseMounts: every server is unmounted or busy; what is emptied while  *)
(* it is mounted is of a directory whose unmount failed.                    *)
LEMMA ReleaseKeeps ==
    ASSUME IInv, ReleaseMounts, step \in {"undo", "closeMounts"},
           step' = IF step = "undo" THEN "close" ELSE "done",
           UNCHANGED <<darwin, req, cfg, i, stub, sock, broker>>
    PROVE  IInv'
<1> DEFINE owned == {mounts[k].dir : k \in DOMAIN mounts}
<1>1. PICK failed \in SUBSET Served :
          /\ dirs' = RemoveAll(UnmountAll(failed), owned) /\ busy' = busy \cup failed
          /\ wiped' = wiped \cup {UnmountAll(failed)[d].remote :
                                     d \in {e \in owned : UnmountAll(failed)[e].state = "mounted"}}
          /\ mounts' = <<>>
  BY Zenon DEF ReleaseMounts
<1> DEFINE ds == UnmountAll(failed)
<1>2. /\ TypeOK /\ Configured /\ Held /\ Backed /\ LastFailed /\ Order /\ RemoteIntact
      /\ dirs \in Seq(Dir) /\ busy \subseteq DOMAIN dirs
  BY Zenon DEF IInv, TypeOK
<1>3. Served \subseteq owned /\ owned \subseteq DOMAIN dirs
  BY <1>2, Zenon DEF Served, Backed, InstanceOf
<1>4. \A d \in DOMAIN dirs : dirs[d] \in Dir
  BY <1>2, ElementIs, ListIs, Zenon
<1>5. /\ DOMAIN ds = DOMAIN dirs
      /\ \A d \in DOMAIN dirs :
             /\ ds[d].remote = dirs[d].remote /\ ds[d] \in Dir
             /\ d \in Served \ failed => ds[d].state = "dir"
             /\ d \notin Served \ failed => ds[d] = dirs[d]
  BY <1>4, Zenon DEF UnmountAll, Dir
<1> HIDE DEF ds, owned
<1>6. /\ DOMAIN dirs' = DOMAIN dirs
      /\ \A d \in DOMAIN dirs :
             /\ dirs'[d].remote = ds[d].remote /\ dirs'[d] \in Dir
             /\ d \in owned /\ ds[d].state = "dir" => dirs'[d].state = "removed"
             /\ ~(d \in owned /\ ds[d].state = "dir") => dirs'[d] = ds[d]
  BY <1>1, <1>5, Zenon DEF RemoveAll, Dir, ds
<1>7. dirs' \in Seq(Dir) /\ Len(dirs') = Len(dirs)
  <2> DEFINE c == Len(dirs)
  <2>1. c \in Nat /\ DOMAIN dirs = 1..c
    BY <1>2, ListIs, Zenon
  <2>2. dirs' = [d \in 1..c |-> dirs'[d]]
    BY <1>1, <1>5, <2>1, Zenon DEF RemoveAll, ds
  <2> HIDE DEF c
  <2>3. dirs' \in [1..c -> Dir]
    BY <1>6, <2>1, <2>2, Zenon
  <2>4. dirs' \in Seq(Dir)
    BY <2>1, <2>3, ListsAre, Zenon
  <2>5. Len(dirs') = c
    BY <1>6, <2>1, <2>4, ListIs
  <2> QED
    BY <2>4, <2>5, Zenon DEF c
<1>8. TypeOK'
  <2>1. <<>> \in Seq(Instance)
    OBVIOUS
  <2>2. busy' \subseteq DOMAIN dirs'
    BY <1>1, <1>2, <1>3, <1>6, Zenon
  <2> QED
    BY <1>1, <1>2, <1>7, <2>1, <2>2, Zenon DEF TypeOK
<1>9. Configured'
  <2>1. Listed' = Listed
    BY Zenon DEF Listed, AskedMounts, cli, file
  <2> QED
    BY <1>2, <2>1, Zenon DEF Configured
<1>10. Untouched' /\ Order' /\ Dealt'
  BY <1>1, <1>2, Zenon DEF Untouched, Order, Dealt
<1>11. Backed'
  BY <1>1 DEF Backed
<1>12. LastFailed'
  <2>1. \A d \in DOMAIN dirs : dirs'[d].state = "dir" => dirs[d].state = "dir"
    BY <1>3, <1>5, <1>6, Zenon
  <2> QED
    BY <1>2, <1>6, <1>7, <2>1, Zenon DEF LastFailed
<1>13. Forgotten' <=> Forgotten
  BY DEF Forgotten, Entries, Entry
<1>14. ASSUME ~Forgotten, NEW d \in DOMAIN dirs, ds[d].state = "mounted"
       PROVE  d \in busy'
  <2>1. d \notin Served \ failed /\ dirs[d].state = "mounted"
    BY <1>5, <1>14, Zenon
  <2>2. d \in Served \cup busy
    BY <1>2, <1>14, <2>1, Zenon DEF Held
  <2> QED
    BY <1>1, <2>1, <2>2, Zenon
<1>15. Held'
  <2>1. \A d \in DOMAIN dirs : dirs'[d].state = "mounted" => ds[d].state = "mounted"
    BY <1>6, Zenon
  <2> QED
    BY <1>6, <1>13, <1>14, <2>1, Zenon DEF Held
<1>16. RemoteIntact'
  <2> SUFFICES ASSUME ~Forgotten, NEW r \in wiped'
               PROVE  r \in {dirs'[d].remote : d \in busy'}
    BY <1>13, Zenon DEF RemoteIntact
  <2>1. CASE r \in wiped
    <3>1. PICK d \in busy : r = dirs[d].remote
      BY <1>2, <2>1, Zenon DEF RemoteIntact
    <3>2. d \in busy' /\ dirs'[d].remote = dirs[d].remote
      BY <1>1, <1>2, <1>5, <1>6, Zenon
    <3> QED
      BY <3>1, <3>2, Zenon
  <2>2. CASE r \notin wiped
    <3>1. PICK d \in owned : ds[d].state = "mounted" /\ r = ds[d].remote
      BY <1>1, <2>2, Zenon DEF ds
    <3>2. d \in busy' /\ dirs'[d].remote = r
      BY <1>3, <1>6, <1>14, <3>1, Zenon
    <3> QED
      BY <3>2, Zenon
  <2> QED
    BY <2>1, <2>2, Zenon
<1> QED
  BY <1>8, <1>9, <1>10, <1>11, <1>12, <1>15, <1>16, Zenon DEF IInv

-----------------------------------------------------------------------------
(* The theorems *)

(* Every step keeps the invariant. *)
LEMMA Inductive == IInv /\ [Next]_vars => IInv'
<1> SUFFICES ASSUME IInv, [Next]_vars PROVE IInv'
  BY Zenon
<1>1. CASE Configure
  BY <1>1, ConfigureKeeps, Zenon
<1>2. CASE StartBackend
  BY <1>2, BackendKeeps, Zenon
<1>3. CASE EnterNamespace \/ MountBegin \/ MountDone
  BY <1>3, MountBounds, Zenon
<1>4. CASE MountShared
  BY <1>4, SharedKeeps, Zenon
<1>5. CASE MountFresh
  BY <1>5, FreshKeeps, Zenon
<1>6. CASE MountFails
  BY <1>6, FailsKeeps, Zenon
<1>7. CASE MountUndo
  BY <1>7, ReleaseKeeps, Zenon DEF MountUndo, given, settled, bkr
<1>8. CASE \/ StubsSkipped \/ StubsFail \/ StubsMounted \/ StartBroker
           \/ BrokerBinds \/ BrokerListens \/ BrokerAcceptFails \/ BrokerReady \/ RunChild
  BY <1>8, RunKeeps, Zenon
<1>9. CASE CloseBroker \/ CloseStubs
  BY <1>9, CloseKeeps, Zenon
<1>10. CASE CloseMounts
  BY <1>10, ReleaseKeeps, Zenon DEF CloseMounts, given, settled, bkr
<1>11. CASE UNCHANGED vars
  <2>1. /\ UNCHANGED <<darwin, req, cfg, i, dirs, mounts, busy, wiped>>
        /\ UNCHANGED <<step, stub, sock, broker>>
    BY <1>11, Zenon DEF vars
  <2>2. Untouched' /\ Order'
    BY <2>1, Zenon DEF IInv, Untouched, Order
  <2>3. step \in {"stubs", "broker", "wait", "child"} => i > Len(cfg.mounts)
    BY Zenon DEF IInv, Dealt
  <2> QED
    BY <2>1, <2>2, <2>3, QuietStep, Zenon
<1> QED
  BY <1>1, <1>2, <1>3, <1>4, <1>5, <1>6, <1>7, <1>8, <1>9, <1>10, <1>11, Zenon
  DEF Next, Exited

(* The invariant holds from the first step of the supervisor to the end of  *)
(* Close.                                                                   *)
LEMMA Invariance == Spec => []IInv
BY InitInv, Inductive, PTL DEF Spec

(* Whatever step of a run fails, and for any list of mounts in which no two *)
(* entries share a container path: Close removes no directory tree that is  *)
(* still a mount of the remote file system, but for one whose unmount       *)
(* failed.                                                                  *)
THEOREM CloseKeepsRemote == Spec => []RemoteIntact
<1>1. IInv => RemoteIntact
  BY Zenon DEF IInv
<1> QED
  BY <1>1, Invariance, PTL

(* For the same lists, a run that is over has left no mount, directory,     *)
(* stub file system, socket or serving broker behind, except what was in    *)
(* use and the one directory whose mount failed.                            *)
THEOREM CloseUndoes == Spec => []NothingLeft
<1>1. IInv => NothingLeft
  <2> SUFFICES ASSUME IInv, step = "done", cfg # <<>>, ~Forgotten
               PROVE  /\ \A d \in DOMAIN dirs \ busy :
                             \/ dirs[d].state = "removed"
                             \/ dirs[d].state = "dir" /\ d = Len(dirs)
                      /\ stub # "mounted" /\ sock \in {"none", "removed"} /\ broker # "serving"
    BY Zenon DEF NothingLeft
  <2>1. stub # "mounted" /\ sock \in {"none", "removed"} /\ broker # "serving" /\ Served = {}
    BY DEF IInv, Order, Served
  <2>2. \A d \in DOMAIN dirs : dirs[d] \in Dir
    BY ElementIs, ListIs, Zenon DEF IInv, TypeOK
  <2> QED
    BY <2>1, <2>2, Zenon DEF IInv, Held, LastFailed, Dir
<1> QED
  BY <1>1, Invariance, PTL

(* What is bound at the remote path of a mount that was asked for, when     *)
(* each remote path has an identity entry.                                  *)
LEMMA IdentityBound ==
    ASSUME IInv, step = "child", ~darwin, file.auto, ~HomesDiffer,
           NEW m \in Range(AskedMounts), NEW e, e = Entry(m),
           ~ \E n \in Range(AskedMounts) : Entry(n).local = e.remote /\ Entry(n).remote # e.remote
    PROVE  BoundAt(e.remote) = {e.remote}
<1>1. /\ TypeOK /\ Configured /\ Backed /\ Bound /\ req \in Requests
      /\ i > Len(cfg.mounts) /\ i \in Nat
  BY Zenon DEF IInv, Dealt, TypeOK
<1>2. cfg.mounts = Listed /\ Len(cfg.mounts) \in Nat
  BY <1>1, AtEntry, Zenon
<1>3. /\ AskedMounts \in Seq(Mount) /\ DOMAIN AskedMounts = 1..Len(AskedMounts)
      /\ \A k \in 1..Len(AskedMounts) : Listed[k] = AskedMounts[k]
      /\ \A k \in 1..Len(Listed) : k > Len(AskedMounts) =>
             \E j \in 1..Len(AskedMounts) : Listed[k] = Identity(AskedMounts[j].remote)
      /\ \A k \in 1..Len(AskedMounts) :
             \E n \in 1..Len(Listed) : Listed[n] = Identity(AskedMounts[k].remote)
  BY <1>1, ListedMounts, ListIs, Zenon
<1>4. ASSUME NEW n \in Range(AskedMounts)
      PROVE  /\ Entry(Identity(n.remote)).local = Entry(n).remote
             /\ Entry(Identity(n.remote)).remote = Entry(n).remote
  BY Zenon DEF HomesDiffer, Entry, Identity, ExpandLocalHome, ExpandRemoteHome
<1>5. PICK k \in 1..Len(AskedMounts) : m = AskedMounts[k]
  BY <1>3, Zenon DEF Range
<1>6. BoundAt(e.remote) # {}
  <2>1. PICK n \in 1..Len(cfg.mounts) : cfg.mounts[n] = Identity(m.remote)
    BY <1>2, <1>3, <1>5, Zenon
  <2>2. n < i
    BY <1>1, <1>2
  <2>3. \E x \in DOMAIN mounts : mounts[x].path = <<"local", Entry(cfg.mounts[n]).local>>
    BY <1>1, <2>2, Zenon DEF Bound
  <2>4. Entry(cfg.mounts[n]).local = e.remote
    BY <1>4, <2>1, Zenon
  <2> QED
    BY <2>3, <2>4, Zenon DEF BoundAt
<1>7. ASSUME NEW x \in DOMAIN mounts, mounts[x].path = <<"local", e.remote>>
      PROVE  mounts[x].remote = e.remote
  <2>1. PICK j \in 1..Len(cfg.mounts) :
            /\ mounts[x].remote = Entry(cfg.mounts[j]).remote
            /\ mounts[x].path = <<"local", Entry(cfg.mounts[j]).local>>
    BY <1>1, Zenon DEF Backed, InstanceOf, PathOf
  <2>2. Entry(cfg.mounts[j]).local = e.remote
    BY <1>7, <2>1
  <2>3. CASE j \in 1..Len(AskedMounts)
    <3>1. cfg.mounts[j] = AskedMounts[j] /\ AskedMounts[j] \in Range(AskedMounts)
      BY <1>2, <1>3, <2>3, Zenon DEF Range
    <3> QED
      BY <2>1, <2>2, <3>1, Zenon
  <2>4. CASE j \notin 1..Len(AskedMounts)
    <3> DEFINE a == Len(AskedMounts)
               b == Len(cfg.mounts)
    <3>1. a \in Nat /\ b \in Nat /\ j \in 1..b /\ j \notin 1..a
      BY <1>2, <1>3, <2>4, ListIs, Zenon
    <3>2. j > a
      <4> HIDE DEF a, b
      <4> QED
        BY <3>1
    <3>3. PICK h \in 1..Len(AskedMounts) : cfg.mounts[j] = Identity(AskedMounts[h].remote)
      BY <1>2, <1>3, <3>2, Zenon
    <3>4. AskedMounts[h] \in Range(AskedMounts)
      BY <1>3, Zenon DEF Range
    <3>5. Entry(cfg.mounts[j]).local = Entry(cfg.mounts[j]).remote
      BY <1>4, <3>3, <3>4, Zenon
    <3> QED
      BY <2>1, <2>2, <3>5, Zenon
  <2> QED
    BY <2>3, <2>4, Zenon
<1> QED
  BY <1>6, <1>7, Zenon DEF BoundAt

(* For any list of mounts and any home directories, on Linux and on macOS:  *)
(* when the child starts, each container path is bound once, to a live      *)
(* mount of its own remote path, every configured path is bound, the first  *)
(* mount asked for is the workspace, auto_identity_mounts makes each remote *)
(* path reachable, and the broker has bound its socket.                     *)
THEOREM ChildSeesMounts == Spec => []BindsServed
<1>1. IInv => BindsServed
  <2> SUFFICES ASSUME IInv, step = "child" PROVE BindsServed
    BY Zenon DEF BindsServed
  <2>1. /\ TypeOK /\ Configured /\ Backed /\ Bound /\ req \in Requests
        /\ i > Len(cfg.mounts) /\ i \in Nat
    BY Zenon DEF IInv, Dealt, TypeOK
  <2>2. /\ cfg.mounts = Listed /\ Len(cfg.mounts) \in Nat /\ Len(cfg.mounts) >= 1
        /\ DOMAIN cfg.mounts = 1..Len(cfg.mounts)
        /\ \A k \in 1..Len(cfg.mounts) : Entries[k] = Entry(cfg.mounts[k])
    BY <2>1, AtEntry, Zenon
  <2>3. /\ AskedMounts \in Seq(Mount) /\ Len(AskedMounts) \in Nat
        /\ DOMAIN AskedMounts = 1..Len(AskedMounts)
        /\ Len(AskedMounts) >= 1 /\ Len(Listed) >= Len(AskedMounts)
        /\ \A k \in 1..Len(AskedMounts) : Listed[k] = AskedMounts[k]
    BY <2>1, ListedMounts, ListIs, Zenon
  <2>4. DOMAIN Entries = 1..Len(cfg.mounts)
    BY <2>2, Zenon DEF Entries
  <2>5. \A j \in 1..Len(cfg.mounts) : j < i
    BY <2>1, <2>2
  <2>6. sock = "bound" /\ broker \in {"bound", "serving", "failed"}
    BY Zenon DEF IInv, Order
  <2>7. \A k \in DOMAIN mounts :
            /\ dirs[mounts[k].dir].state = "mounted"
            /\ dirs[mounts[k].dir].remote = mounts[k].remote
            /\ \A n \in DOMAIN mounts : mounts[n].path = mounts[k].path => n = k
    BY <2>1, Zenon DEF Backed, InstanceOf
  <2>8. mounts[1].remote = Entry(AskedMounts[1]).remote
    <3>1. i > 1 /\ 1 \in 1..Len(AskedMounts)
      BY <2>1, <2>2, <2>3
    <3> QED
      BY <2>1, <2>2, <2>3, <3>1, Zenon DEF Bound
  <2>9. ASSUME ~darwin
        PROVE  {mounts[k].path : k \in DOMAIN mounts}
                 = {<<"local", Entries[k].local>> : k \in DOMAIN Entries}
    <3>1. ASSUME NEW k \in DOMAIN mounts
          PROVE  \E j \in DOMAIN Entries : mounts[k].path = <<"local", Entries[j].local>>
      <4>1. \E j \in 1..Len(cfg.mounts) : mounts[k].path = PathOf(Entry(cfg.mounts[j]), mounts[k].dir)
        BY <2>1, Zenon DEF Backed, InstanceOf
      <4> QED
        BY <2>2, <2>4, <2>9, <4>1, Zenon DEF PathOf
    <3>2. ASSUME NEW j \in DOMAIN Entries
          PROVE  \E k \in DOMAIN mounts : mounts[k].path = <<"local", Entries[j].local>>
      BY <2>1, <2>2, <2>4, <2>5, <2>9, Zenon DEF Bound
    <3> QED
      BY <3>1, <3>2, Zenon
  <2>10. ASSUME ~darwin, NEW m \in Range(AskedMounts)
         PROVE  BoundAt(Entry(m).local) # {}
    <3>1. PICK k \in 1..Len(AskedMounts) : m = AskedMounts[k]
      BY <2>3, Zenon DEF Range
    <3>2. k \in 1..Len(cfg.mounts) /\ cfg.mounts[k] = m
      <4> DEFINE a == Len(AskedMounts)
                 b == Len(cfg.mounts)
      <4>1. a \in Nat /\ b \in Nat /\ b >= a /\ k \in 1..a
        BY <2>2, <2>3, <3>1, Zenon
      <4>2. k \in 1..b
        <5> HIDE DEF a, b
        <5> QED
          BY <4>1
      <4> QED
        BY <2>2, <2>3, <3>1, <4>2, Zenon
    <3>3. \E x \in DOMAIN mounts : mounts[x].path = <<"local", Entry(m).local>>
      BY <2>1, <2>5, <2>10, <3>2, Zenon DEF Bound
    <3> QED
      BY <3>3, Zenon DEF BoundAt
  <2>11. ASSUME ~darwin, NEW m \in Range(AskedMounts), file.auto, ~HomesDiffer,
                ~ \E n \in Range(AskedMounts) :
                      Entry(n).local = Entry(m).remote /\ Entry(n).remote # Entry(m).remote
         PROVE  BoundAt(Entry(m).remote) = {Entry(m).remote}
    BY <2>11, IdentityBound, Zenon
  <2> QED
    BY <2>6, <2>7, <2>8, <2>9, <2>10, <2>11, Zenon DEF BindsServed
<1> QED
  BY <1>1, Invariance, PTL

-----------------------------------------------------------------------------
(* The steps of run *)

Typed == [file EXCEPT !.type = Or(cli.backend, @)]
Flagged == cli.port # 0 \/ cli.user # ""
Done(s) == applyDefaults(applyFlags(s, cli))

(* What configure returns: without a destination, and with one. *)
LEMMA ConfigureIs ==
    ASSUME NEW c
    PROVE  /\ ~Sent => (c \in configure(cli, file) <=>
                            /\ Flagged => Typed.type = "ssh"
                            /\ c = Done(Typed) /\ Validate(c))
           /\ Sent => (c \in configure(cli, file) <=>
                          \E e \in ParseDestination(cli.dest, Typed.type) :
                              /\ cli.backend \in {"", e.type}
                              /\ Flagged => applyDestination(Typed, e).type = "ssh"
                              /\ c = Done(applyDestination(Typed, e)) /\ Validate(c))
<1>1. CASE ~Sent
  BY <1>1, Zenon DEF configure, Sent, Typed, Flagged, Done
<1>2. CASE Sent
  BY <1>2, Zenon DEF configure, Sent, Typed, Flagged, Done
<1> QED
  BY <1>1, <1>2, Zenon

(* What the file says and the type does not change. *)
FromFile(s) ==
    /\ DOMAIN s = Settings
    /\ s.mounts = file.mounts /\ s.auto = file.auto /\ s.os = file.os /\ s.arch = file.arch
    /\ s.workdir = file.workdir /\ s.mode = file.mode /\ s.sound = file.sound

(* The type, before a destination. *)
LEMMA TypedIs ==
    ASSUME req \in Requests
    PROVE  /\ FromFile(Typed) /\ Typed.type = Or(cli.backend, file.type)
           /\ Typed.host = file.host /\ Typed.user = file.user /\ Typed.port = file.port
           /\ Typed.container = file.container /\ Typed.project = file.project
           /\ Typed.service = file.service /\ Typed.seq = file.seq
<1>1. DOMAIN file = Settings
  BY RequestsAssumption, Zenon DEF file
<1> QED
  BY <1>1, Zenon DEF Typed, FromFile, Settings

(* The flags and the defaults, field by field. *)
LEMMA DoneIs ==
    ASSUME NEW s, FromFile(s), NEW c, c = Done(s)
    PROVE  /\ DOMAIN c = Settings /\ c.type = Or(s.type, "ssh")
           /\ c.host = s.host /\ c.container = s.container /\ c.project = s.project
           /\ c.service = s.service /\ c.seq = s.seq
           /\ c.user = Or(cli.user, s.user) /\ c.port = OrNumber(cli.port, s.port)
           /\ c.os = Or(cli.os, file.os) /\ c.arch = Or(cli.arch, file.arch)
           /\ c.workdir = ExpandLocalHome(Or(cli.workdir, file.workdir))
           /\ c.mode = Or(file.mode, "inherit") /\ c.sound = file.sound /\ c.mounts = Listed
<1> DEFINE f == applyFlags(s, cli)
<1>1. /\ DOMAIN f = Settings /\ f.type = s.type
      /\ f.host = s.host /\ f.container = s.container /\ f.project = s.project
      /\ f.service = s.service /\ f.seq = s.seq
      /\ f.user = Or(cli.user, s.user) /\ f.port = OrNumber(cli.port, s.port)
      /\ f.os = Or(cli.os, file.os) /\ f.arch = Or(cli.arch, file.arch)
      /\ f.workdir = Or(cli.workdir, file.workdir)
      /\ f.mode = file.mode /\ f.sound = file.sound /\ f.auto = file.auto
      /\ f.mounts = AskedMounts
  BY Zenon DEF applyFlags, FromFile, Settings, AskedMounts
<1>2. c = applyDefaults(f)
  BY Zenon DEF Done
<1>3. DOMAIN f = Settings
  BY <1>1, Zenon
<1> HIDE DEF f
<1>4. /\ DOMAIN c = Settings /\ c.type = Or(f.type, "ssh")
      /\ c.host = f.host /\ c.container = f.container /\ c.project = f.project
      /\ c.service = f.service /\ c.seq = f.seq /\ c.user = f.user /\ c.port = f.port
      /\ c.os = f.os /\ c.arch = f.arch /\ c.workdir = ExpandLocalHome(f.workdir)
      /\ c.mode = Or(f.mode, "inherit") /\ c.sound = f.sound
      /\ c.mounts = IF f.auto THEN applyAutoIdentityMounts(f.mounts) ELSE f.mounts
  BY <1>2, <1>3, Zenon DEF applyDefaults, Settings
<1>5. c.mounts = Listed
  BY <1>1, <1>4, Zenon DEF Listed
<1> QED
  BY <1>1, <1>4, <1>5, Zenon

(* The identities that are added are absolute if what was asked for is. *)
LEMMA NoneRelative ==
    ASSUME req \in Requests
    PROVE  (\A m \in Range(Listed) : isAbsOrHomeRelative(m.local) /\ isAbsOrHomeRelative(m.remote))
               <=> \A m \in Range(AskedMounts) : "rel" \notin {m.local, m.remote}
<1> DEFINE a == Len(AskedMounts)
           n == Len(Listed)
<1>1. /\ AskedMounts \in Seq(Mount) /\ Listed \in Seq(Mount) /\ n >= a
      /\ \A k \in 1..a : Listed[k] = AskedMounts[k]
      /\ \A k \in 1..n : k > a => \E j \in 1..a : Listed[k] = Identity(AskedMounts[j].remote)
  BY ListedMounts, Zenon
<1>2. a \in Nat /\ n \in Nat /\ DOMAIN AskedMounts = 1..a /\ DOMAIN Listed = 1..n
  BY <1>1, ListIs, Zenon
<1> HIDE DEF a, n
<1>3. (\A k \in 1..a : k \in 1..n) /\ \A k \in 1..n : k > a \/ k \in 1..a
  BY <1>1, <1>2, Prefix, Zenon
<1>4. ASSUME \A m \in Range(Listed) : isAbsOrHomeRelative(m.local) /\ isAbsOrHomeRelative(m.remote),
             NEW m \in Range(AskedMounts)
      PROVE  "rel" \notin {m.local, m.remote}
  <2>1. PICK k \in 1..a : m = AskedMounts[k]
    BY <1>2, <1>4, Zenon DEF Range
  <2>2. m \in Range(Listed)
    BY <1>1, <1>2, <1>3, <2>1, Zenon DEF Range
  <2> QED
    BY <1>4, <2>2, Zenon DEF isAbsOrHomeRelative
<1>5. ASSUME \A m \in Range(AskedMounts) : "rel" \notin {m.local, m.remote},
             NEW m \in Range(Listed)
      PROVE  isAbsOrHomeRelative(m.local) /\ isAbsOrHomeRelative(m.remote)
  <2>1. PICK k \in 1..n : m = Listed[k]
    BY <1>2, <1>5, Zenon DEF Range
  <2>2. CASE k \in 1..a
    <3>1. m \in Range(AskedMounts)
      BY <1>1, <1>2, <2>1, <2>2, Zenon DEF Range
    <3> QED
      BY <1>5, <3>1, Zenon DEF isAbsOrHomeRelative
  <2>3. CASE k > a
    <3>1. PICK j \in 1..a : m = Identity(AskedMounts[j].remote)
      BY <1>1, <2>1, <2>3, Zenon
    <3>2. AskedMounts[j] \in Range(AskedMounts)
      BY <1>2, Zenon DEF Range
    <3>3. m.local = AskedMounts[j].remote /\ m.remote = AskedMounts[j].remote
      BY <3>1, Zenon DEF Identity
    <3> QED
      BY <1>5, <3>2, <3>3, Zenon DEF isAbsOrHomeRelative
  <2> QED
    BY <1>3, <2>1, <2>2, <2>3, Zenon
<1> QED
  BY <1>4, <1>5, Zenon

(* The machine and the rest of a sound request, and of a valid              *)
(* configuration.                                                           *)
MachineValid(c) ==
    CASE c.type = "ssh" -> c.host # <<"">> /\ c.port \in 0..MaxPort
      [] c.type = "docker" -> c.container # <<"">>
      [] c.type = "compose" -> c.service # "" /\ c.seq >= 0
      [] OTHER -> FALSE
RestSound ==
    /\ \A m \in Range(AskedMounts) : "rel" \notin {m.local, m.remote}
    /\ AskedDir # "rel" /\ (file.mode = "explicit" => AskedDir # "") /\ file.sound

(* A home directory is neither relative nor empty, so that the directory    *)
(* may be looked at before or after it is put in.                           *)
LEMMA ValidIs ==
    ASSUME req \in Requests, NEW s, FromFile(s), NEW c, c = Done(s)
    PROVE  Validate(c) <=> MachineValid(c) /\ RestSound
<1>1. /\ c.mounts = Listed /\ c.sound = file.sound /\ c.mode = Or(file.mode, "inherit")
      /\ c.workdir = ExpandLocalHome(AskedDir)
  BY DoneIs, AskedParts, Zenon
<1>2. LocalHome \notin {"", "rel"}
  BY ConfigAssumption, Zenon
<1>3. /\ ExpandLocalHome(AskedDir) # "rel" <=> AskedDir # "rel"
      /\ ExpandLocalHome(AskedDir) # "" <=> AskedDir # ""
  BY <1>2, Zenon DEF ExpandLocalHome
<1>4. c.mode = "explicit" <=> file.mode = "explicit"
  BY <1>1, Zenon DEF Or
<1>5. Validate(c) <=> /\ MachineValid(c)
                      /\ \A m \in Range(Listed) :
                             isAbsOrHomeRelative(m.local) /\ isAbsOrHomeRelative(m.remote)
                      /\ file.sound /\ c.workdir # "rel" /\ (c.mode = "explicit" => c.workdir # "")
  BY <1>1, Zenon DEF Validate, MachineValid
<1> QED
  BY <1>1, <1>3, <1>4, <1>5, NoneRelative, Zenon DEF RestSound

(* The machine of a configuration, and that of a sound request. *)
TargetOf(c) ==
    CASE c.type = "ssh" -> <<c.host, c.user, c.port>>
      [] c.type = "docker" -> <<c.container>>
      [] OTHER -> <<c.project, c.service, c.seq>>
MachineSound ==
    CASE AskedType = "ssh" ->
            /\ IF Sent THEN /\ cli.dest.host # "" /\ cli.dest.service = ""
                            /\ cli.dest.port \in 0..MaxPort
               ELSE file.host # <<"">>
            /\ AskedPort \in 0..MaxPort
      [] AskedType = "docker" ->
            IF Sent THEN /\ cli.dest.host # "" /\ cli.dest.user = ""
                         /\ cli.dest.port = 0 /\ cli.dest.service = ""
            ELSE file.container # <<"">>
      [] AskedType = "compose" ->
            IF Sent THEN /\ cli.dest.host # "" /\ cli.dest.service # ""
                         /\ cli.dest.user = "" /\ cli.dest.port = 0 /\ cli.dest.seq >= 0
            ELSE file.service # "" /\ file.seq >= 0
      [] OTHER -> FALSE

(* The parts of a sound request. *)
LEMMA SoundIs == Sound <=> MachineSound /\ (Flagged => AskedType = "ssh") /\ RestSound
  BY Zenon DEF Sound, MachineSound, Flagged, RestSound

(* Without a destination the file and the flags name the machine. *)
LEMMA Unsent ==
    ASSUME req \in Requests, ~Sent, NEW c, c = Done(Typed)
    PROVE  /\ c.type = AskedType /\ TargetOf(c) = AskedTarget
           /\ MachineValid(c) <=> MachineSound
           /\ (Flagged => Typed.type = "ssh") <=> (Flagged => AskedType = "ssh") /\ ~LateDefault
<1>1. SentOr("scheme", "") = "" /\ SentOr("user", "") = "" /\ SentOr("port", 0) = 0
  BY Zenon DEF SentOr
<1>2. Typed.type = Or(cli.backend, file.type)
  BY TypedIs, Zenon
<1>3. AskedType = Or(Typed.type, "ssh")
  BY <1>1, <1>2, AskedParts, Zenon DEF Or
<1>4. AskedUser = Or(cli.user, file.user)
  BY <1>1, AskedParts, Zenon DEF Or
<1>5. AskedPort = OrNumber(cli.port, file.port)
  BY <1>1, AskedParts, Zenon DEF OrNumber
<1>6. /\ c.type = Or(Typed.type, "ssh")
      /\ c.host = Typed.host /\ c.container = Typed.container /\ c.project = Typed.project
      /\ c.service = Typed.service /\ c.seq = Typed.seq
      /\ c.user = Or(cli.user, Typed.user) /\ c.port = OrNumber(cli.port, Typed.port)
  BY TypedIs, DoneIs, ZenonT(40)
<1>7. /\ c.type = AskedType /\ c.host = file.host /\ c.container = file.container
      /\ c.project = file.project /\ c.service = file.service /\ c.seq = file.seq
      /\ c.user = AskedUser /\ c.port = AskedPort
  BY <1>3, <1>4, <1>5, <1>6, TypedIs, Zenon
<1>8. TargetOf(c) = AskedTarget
  BY <1>7, Zenon DEF TargetOf, AskedTarget, AskedUser
<1>9. MachineValid(c) <=> MachineSound
  BY <1>7, Zenon DEF MachineValid, MachineSound
<1>10. (Flagged => Typed.type = "ssh") <=> (Flagged => AskedType = "ssh") /\ ~LateDefault
  BY <1>2, <1>3, Zenon DEF Or, LateDefault, Flagged
<1> QED
  BY <1>7, <1>8, <1>9, <1>10, Zenon

(* The configuration that a destination leads to. *)
Backends == {"ssh", "docker", "compose"}
Named(e) == Done(applyDestination(Typed, e))

(* The destination goes to the block of its backend, and nothing else of    *)
(* the file is lost.                                                        *)
LEMMA NamedIs ==
    ASSUME req \in Requests, NEW e, e.type \in Backends
    PROVE  /\ FromFile(applyDestination(Typed, e)) /\ applyDestination(Typed, e).type = e.type
           /\ Named(e).type = e.type
           /\ e.type = "ssh" => /\ Named(e).host = e.host
                                /\ Named(e).user = Or(cli.user, Or(e.user, file.user))
                                /\ Named(e).port = OrNumber(cli.port, OrNumber(e.port, file.port))
           /\ e.type = "docker" => Named(e).container = e.host
           /\ e.type = "compose" => /\ Named(e).project = e.host
                                    /\ Named(e).service = e.service /\ Named(e).seq = e.seq
<1> DEFINE s == applyDestination(Typed, e)
           t == Typed
           c == Named(e)
<1>1. /\ DOMAIN t = Settings /\ FromFile(t) /\ t.user = file.user /\ t.port = file.port
  BY TypedIs, Zenon DEF FromFile
<1> HIDE DEF t
<1>2. CASE e.type = "ssh"
  <2>1. s = [t EXCEPT !.type = "ssh", !.host = e.host, !.user = Or(e.user, @),
                      !.port = OrNumber(e.port, @)]
    BY <1>2, Zenon DEF applyDestination, t
  <2> HIDE DEF s
  <2>2. /\ FromFile(s) /\ s.type = "ssh" /\ s.host = e.host /\ s.user = Or(e.user, t.user)
        /\ s.port = OrNumber(e.port, t.port)
    BY <1>1, <2>1, Zenon DEF FromFile, Settings
  <2>3. c = Done(s)
    BY Zenon DEF Named, s, c
  <2>4. /\ c.type = Or(s.type, "ssh") /\ c.host = s.host /\ c.user = Or(cli.user, s.user)
        /\ c.port = OrNumber(cli.port, s.port)
    BY <2>2, <2>3, DoneIs, Zenon
  <2>5. c.type = "ssh"
    BY <2>2, <2>4, Zenon DEF Or
  <2> QED
    BY <1>1, <1>2, <2>2, <2>4, <2>5, Zenon DEF s
<1>3. CASE e.type = "docker"
  <2>1. s = [t EXCEPT !.type = "docker", !.container = e.host]
    BY <1>3, Zenon DEF applyDestination, t
  <2> HIDE DEF s
  <2>2. FromFile(s) /\ s.type = "docker" /\ s.container = e.host
    BY <1>1, <2>1, Zenon DEF FromFile, Settings
  <2>3. c = Done(s)
    BY Zenon DEF Named, s, c
  <2>4. c.type = Or(s.type, "ssh") /\ c.container = s.container
    BY <2>2, <2>3, DoneIs, Zenon
  <2>5. c.type = "docker"
    BY <2>2, <2>4, Zenon DEF Or
  <2> QED
    BY <1>3, <2>2, <2>4, <2>5, Zenon DEF s
<1>4. CASE e.type = "compose"
  <2>1. s = [t EXCEPT !.type = "compose", !.project = e.host, !.service = e.service, !.seq = e.seq]
    BY <1>4, Zenon DEF applyDestination, t
  <2> HIDE DEF s
  <2>2. /\ FromFile(s) /\ s.type = "compose"
        /\ s.project = e.host /\ s.service = e.service /\ s.seq = e.seq
    BY <1>1, <2>1, Zenon DEF FromFile, Settings
  <2>3. c = Done(s)
    BY Zenon DEF Named, s, c
  <2>4. /\ c.type = Or(s.type, "ssh")
        /\ c.project = s.project /\ c.service = s.service /\ c.seq = s.seq
    BY <2>2, <2>3, DoneIs, Zenon
  <2>5. c.type = "compose"
    BY <2>2, <2>4, Zenon DEF Or
  <2> QED
    BY <1>4, <2>2, <2>4, <2>5, Zenon DEF s
<1> QED
  BY <1>2, <1>3, <1>4, Zenon DEF Backends

(* What a destination may mean. *)
Meanings == ParseDestination(cli.dest, Typed.type)

(* It is read for the backend that was asked for. *)
LEMMA ReadFor ==
    ASSUME req \in Requests, Sent
    PROVE  /\ AskedType = "ssh" => Meanings = parseSSHTarget(cli.dest)
           /\ AskedType = "docker" => Meanings = parseDockerTarget(cli.dest)
           /\ AskedType = "compose" => Meanings = parseComposeTarget(cli.dest)
           /\ AskedType \notin Backends => Meanings = {}
           /\ \A e \in Meanings : e.type = AskedType /\ e.type \in Backends
<1>1. SentOr("scheme", "") = cli.dest.scheme /\ Typed.type = Or(cli.backend, file.type)
  BY TypedIs, Zenon DEF SentOr
<1>2. AskedType = Or(cli.dest.scheme, Or(Typed.type, "ssh"))
  BY <1>1, AskedParts, Zenon DEF Or
<1>3. /\ AskedType = "ssh" => Meanings = parseSSHTarget(cli.dest)
      /\ AskedType = "docker" => Meanings = parseDockerTarget(cli.dest)
      /\ AskedType = "compose" => Meanings = parseComposeTarget(cli.dest)
      /\ AskedType \notin Backends => Meanings = {}
  BY <1>2, Zenon DEF ParseDestination, Meanings, Backends
<1>4. ASSUME NEW e \in parseSSHTarget(cli.dest)
      PROVE  e.type = "ssh"
  <2>1. PICK h : e = [type |-> "ssh", user |-> cli.dest.user, host |-> h, port |-> cli.dest.port,
                      service |-> "", seq |-> 0]
    BY <1>4, Zenon DEF parseSSHTarget
  <2> QED
    BY <2>1, Zenon
<1>5. ASSUME NEW e \in parseDockerTarget(cli.dest)
      PROVE  e.type = "docker"
  <2>1. PICK h : e = [type |-> "docker", user |-> "", port |-> 0, service |-> "", seq |-> 0,
                      host |-> h]
    BY <1>5, Zenon DEF parseDockerTarget
  <2> QED
    BY <2>1, Zenon
<1>6. ASSUME NEW e \in parseComposeTarget(cli.dest)
      PROVE  e.type = "compose"
  <2>1. e = [type |-> "compose", user |-> "", host |-> <<cli.dest.host>>, port |-> 0,
             service |-> cli.dest.service, seq |-> cli.dest.seq]
    BY <1>6, Zenon DEF parseComposeTarget
  <2> QED
    BY <2>1, Zenon
<1> QED
  BY <1>3, <1>4, <1>5, <1>6, Zenon DEF Backends

(* The numbers of a destination. *)
LEMMA SentNumbers ==
    ASSUME req \in Requests, Sent
    PROVE  /\ cli.dest.port \in 0..MaxPort <=> ~(cli.dest.port < 0 \/ cli.dest.port > MaxPort)
           /\ cli.dest.seq >= 0 <=> ~(cli.dest.seq < 0)
           /\ cli.dest.service = "" => cli.dest.seq = 0
<1>1. /\ cli.dest.port \in Int /\ cli.dest.seq \in Int
      /\ cli.dest.service = "" => cli.dest.seq = 0
  BY RequestsAssumption, Zenon DEF Sent, cli
<1> QED
  BY <1>1, InRange, MaxPortIsInt, Zenon

(* user@host:port, and nothing after it. *)
LEMMA SentSSH ==
    ASSUME req \in Requests, Sent, AskedType = "ssh", cli.dest.service = ""
    PROVE  /\ \A e \in Meanings : /\ e.host = <<cli.dest.host>> /\ e.user = cli.dest.user
                                  /\ e.port = cli.dest.port /\ cli.dest.port \in 0..MaxPort
           /\ cli.dest.host # "" /\ cli.dest.port \in 0..MaxPort => Meanings # {}
<1> DEFINE d == cli.dest
<1>1. d.seq = 0
  BY SentNumbers, Zenon
<1>2. parseSSHTarget(d) = IF (d.host = "" /\ d.port = 0) \/ d.port < 0 \/ d.port > MaxPort
                          THEN {}
                          ELSE {[type |-> "ssh", user |-> d.user, host |-> <<d.host>>,
                                 port |-> d.port, service |-> "", seq |-> 0]}
  BY <1>1, Alone, Zenon DEF parseSSHTarget
<1>3. Meanings = parseSSHTarget(d)
  BY ReadFor, Zenon
<1> DEFINE p == (d.host = "" /\ d.port = 0) \/ d.port < 0 \/ d.port > MaxPort
           r == [type |-> "ssh", user |-> d.user, host |-> <<d.host>>, port |-> d.port,
                 service |-> "", seq |-> 0]
<1>4. /\ r.host = <<d.host>> /\ r.user = d.user /\ r.port = d.port
      /\ (~p => d.port \in 0..MaxPort) /\ (d.host # "" /\ d.port \in 0..MaxPort => ~p)
  BY SentNumbers, Zenon
<1>5. Meanings = IF p THEN {} ELSE {r}
  BY <1>2, <1>3, Zenon
<1> HIDE DEF p, r
<1> QED
  BY <1>4, <1>5, Zenon

(* A container. *)
LEMMA SentDocker ==
    ASSUME req \in Requests, Sent, AskedType = "docker", cli.dest.port = 0
    PROVE  /\ \A e \in Meanings : /\ e.host = <<cli.dest.host>> /\ cli.dest.host # ""
                                  /\ cli.dest.user = "" /\ cli.dest.service = ""
           /\ cli.dest.host # "" /\ cli.dest.user = "" /\ cli.dest.service = "" => Meanings # {}
<1> DEFINE d == cli.dest
           p == d.user # "" \/ d.service # "" \/ (d.host = "" /\ d.port = 0)
           r == [type |-> "docker", user |-> "", port |-> 0, service |-> "", seq |-> 0,
                 host |-> <<d.host>>]
<1>1. Meanings = parseDockerTarget(d)
  BY ReadFor, Zenon
<1>2. Meanings = IF p THEN {} ELSE {r}
  BY <1>1, Zenon DEF parseDockerTarget
<1>3. r.host = <<d.host>> /\ (~p <=> d.host # "" /\ d.user = "" /\ d.service = "")
  BY Zenon
<1> HIDE DEF p, r
<1> QED
  BY <1>2, <1>3, Zenon

(* A service of a project. *)
LEMMA SentCompose ==
    ASSUME req \in Requests, Sent, AskedType = "compose"
    PROVE  /\ \A e \in Meanings : /\ e.host = <<cli.dest.host>> /\ e.service = cli.dest.service
                                  /\ e.seq = cli.dest.seq /\ MachineSound
           /\ MachineSound => Meanings # {}
<1> DEFINE d == cli.dest
           p == d.host = "" \/ d.service = "" \/ d.user # "" \/ d.port # 0 \/ d.seq < 0
           r == [type |-> "compose", user |-> "", host |-> <<d.host>>, port |-> 0,
                 service |-> d.service, seq |-> d.seq]
<1>1. Meanings = parseComposeTarget(d)
  BY ReadFor, Zenon
<1>2. MachineSound <=> /\ cli.dest.host # "" /\ cli.dest.service # ""
                       /\ cli.dest.user = "" /\ cli.dest.port = 0 /\ cli.dest.seq >= 0
  BY Zenon DEF MachineSound
<1>3. Meanings = IF p THEN {} ELSE {r}
  BY <1>1, Zenon DEF parseComposeTarget
<1>4. /\ r.host = <<d.host>> /\ r.service = d.service /\ r.seq = d.seq
      /\ ~p <=> MachineSound
  BY <1>2, SentNumbers, Zenon
<1> HIDE DEF p, r
<1> QED
  BY <1>3, <1>4, Zenon

(* With a destination that is not misread, it and the flags, then the file, *)
(* name the machine.                                                        *)
LEMMA SentNames ==
    ASSUME req \in Requests, Sent, ~Misread
    PROVE  /\ MachineSound => Meanings # {}
           /\ \A e \in Meanings : /\ TargetOf(Named(e)) = AskedTarget
                                  /\ MachineValid(Named(e)) <=> MachineSound
<1>1. /\ SentOr("user", "") = cli.dest.user /\ SentOr("port", 0) = cli.dest.port
      /\ \A e \in Meanings : e.type = AskedType /\ e.type \in Backends
  BY ReadFor, Zenon DEF SentOr
<1>2. CASE AskedType = "ssh"
  <2>1. cli.dest.service = ""
    BY <1>2, Zenon DEF Misread
  <2>2. MachineSound <=> /\ cli.dest.host # "" /\ cli.dest.port \in 0..MaxPort
                         /\ AskedPort \in 0..MaxPort
    BY <1>2, <2>1, Zenon DEF MachineSound
  <2>3. ASSUME NEW e \in Meanings
        PROVE  TargetOf(Named(e)) = AskedTarget /\ (MachineValid(Named(e)) <=> MachineSound)
    <3> DEFINE c == Named(e)
    <3>1. c = Named(e)
      BY Zenon
    <3> HIDE DEF c
    <3>2. /\ e.type = "ssh" /\ e.host = <<cli.dest.host>> /\ e.user = cli.dest.user
          /\ e.port = cli.dest.port /\ cli.dest.port \in 0..MaxPort
      BY <1>1, <1>2, <2>1, SentSSH, Zenon
    <3>3. /\ c.type = "ssh" /\ c.host = e.host /\ c.user = Or(cli.user, Or(e.user, file.user))
          /\ c.port = OrNumber(cli.port, OrNumber(e.port, file.port))
      <4>1. e.type \in Backends
        BY <3>2, Zenon DEF Backends
      <4>2. /\ Named(e).type = e.type
            /\ e.type = "ssh" => /\ Named(e).host = e.host
                                 /\ Named(e).user = Or(cli.user, Or(e.user, file.user))
                                 /\ Named(e).port = OrNumber(cli.port, OrNumber(e.port, file.port))
        BY <4>1, NamedIs, Zenon
      <4> QED
        BY <3>1, <3>2, <4>2, Zenon
    <3>4. c.user = AskedUser /\ c.port = AskedPort /\ c.host = <<cli.dest.host>>
      BY <1>1, <3>2, <3>3, AskedParts, Zenon
    <3>5. TargetOf(c) = <<c.host, c.user, c.port>>
      BY <3>3, Zenon DEF TargetOf
    <3>6. AskedTarget = <<<<cli.dest.host>>, AskedUser, AskedPort>>
      BY <1>2, Zenon DEF AskedTarget, AskedUser
    <3>7. MachineValid(c) <=> c.host # <<"">> /\ c.port \in 0..MaxPort
      BY <3>3, Zenon DEF MachineValid
    <3>8. <<cli.dest.host>> # <<"">> <=> cli.dest.host # ""
      BY Alone, Zenon
    <3> QED
      BY <2>2, <3>2, <3>4, <3>5, <3>6, <3>7, <3>8, <3>1, Zenon
  <2> QED
    BY <1>2, <2>1, <2>2, <2>3, SentSSH, Zenon
<1>3. CASE AskedType = "docker"
  <2>1. cli.dest.port = 0
    BY <1>3, Zenon DEF Misread
  <2>2. MachineSound <=> cli.dest.host # "" /\ cli.dest.user = "" /\ cli.dest.service = ""
    BY <1>3, <2>1, Zenon DEF MachineSound
  <2>3. ASSUME NEW e \in Meanings
        PROVE  TargetOf(Named(e)) = AskedTarget /\ (MachineValid(Named(e)) <=> MachineSound)
    <3> DEFINE c == Named(e)
    <3>1. c = Named(e)
      BY Zenon
    <3> HIDE DEF c
    <3>2. /\ e.type = "docker" /\ e.host = <<cli.dest.host>> /\ cli.dest.host # ""
          /\ cli.dest.user = "" /\ cli.dest.service = ""
      BY <1>1, <1>3, <2>1, SentDocker, Zenon
    <3>3. c.type = "docker" /\ c.container = e.host
      <4>1. e.type \in Backends
        BY <3>2, Zenon DEF Backends
      <4>2. Named(e).type = e.type /\ (e.type = "docker" => Named(e).container = e.host)
        BY <4>1, NamedIs, Zenon
      <4> QED
        BY <3>1, <3>2, <4>2, Zenon
    <3>4. TargetOf(c) = <<c.container>>
      BY <3>3, Zenon DEF TargetOf
    <3>5. AskedTarget = <<<<cli.dest.host>>>>
      BY <1>3, Zenon DEF AskedTarget
    <3>6. MachineValid(c) <=> c.container # <<"">>
      BY <3>3, Zenon DEF MachineValid
    <3>7. <<cli.dest.host>> # <<"">>
      BY <3>2, Alone, Zenon
    <3> QED
      BY <2>2, <3>2, <3>3, <3>4, <3>5, <3>6, <3>7, <3>1, Zenon
  <2> QED
    BY <1>3, <2>1, <2>2, <2>3, SentDocker, Zenon
<1>4. CASE AskedType = "compose"
  <2>1. ASSUME NEW e \in Meanings
        PROVE  TargetOf(Named(e)) = AskedTarget /\ (MachineValid(Named(e)) <=> MachineSound)
    <3> DEFINE c == Named(e)
    <3>1. c = Named(e)
      BY Zenon
    <3> HIDE DEF c
    <3>2. /\ e.type = "compose" /\ e.host = <<cli.dest.host>> /\ e.service = cli.dest.service
          /\ e.seq = cli.dest.seq /\ MachineSound
      BY <1>1, <1>4, SentCompose, Zenon
    <3>3. c.type = "compose" /\ c.project = e.host /\ c.service = e.service /\ c.seq = e.seq
      <4>1. e.type \in Backends
        BY <3>2, Zenon DEF Backends
      <4>2. /\ Named(e).type = e.type
            /\ e.type = "compose" => /\ Named(e).project = e.host
                                     /\ Named(e).service = e.service /\ Named(e).seq = e.seq
        BY <4>1, NamedIs, Zenon
      <4> QED
        BY <3>1, <3>2, <4>2, Zenon
    <3>4. TargetOf(c) = <<c.project, c.service, c.seq>>
      BY <3>3, Zenon DEF TargetOf
    <3>5. AskedTarget = <<<<cli.dest.host>>, cli.dest.service, cli.dest.seq>>
      BY <1>4, Zenon DEF AskedTarget
    <3>6. MachineValid(c) <=> c.service # "" /\ c.seq >= 0
      BY <3>3, Zenon DEF MachineValid
    <3>7. cli.dest.service # "" /\ cli.dest.seq >= 0
      BY <1>4, <3>2, Zenon DEF MachineSound
    <3> QED
      BY <3>2, <3>3, <3>4, <3>5, <3>6, <3>7, <3>1, Zenon
  <2> QED
    BY <1>4, <2>1, SentCompose, Zenon
<1>5. CASE AskedType \notin Backends
  BY <1>1, <1>5, Zenon DEF MachineSound, Backends
<1> QED
  BY <1>2, <1>3, <1>4, <1>5, Zenon DEF Backends

(* What configure returns is what was asked for. *)
LEMMA ConfiguredAsAsked ==
    ASSUME req \in Requests, NEW c \in configure(cli, file)
    PROVE  /\ Misread \/ (Sound /\ c.type = AskedType /\ TargetOf(c) = AskedTarget)
           /\ DOMAIN c = Settings /\ c.workdir = ExpandLocalHome(AskedDir)
           /\ c.os = Or(cli.os, file.os) /\ c.arch = Or(cli.arch, file.arch)
<1>1. ASSUME NEW s, FromFile(s), c = Done(s)
      PROVE  /\ DOMAIN c = Settings /\ c.workdir = ExpandLocalHome(AskedDir)
             /\ c.os = Or(cli.os, file.os) /\ c.arch = Or(cli.arch, file.arch)
  BY <1>1, DoneIs, AskedParts, Zenon
<1>2. CASE ~Sent
  <2>1. (Flagged => Typed.type = "ssh") /\ c = Done(Typed) /\ Validate(c)
    BY <1>2, ConfigureIs, Zenon
  <2>2. FromFile(Typed)
    BY TypedIs, Zenon
  <2>3. MachineValid(c) /\ RestSound
    BY <2>1, <2>2, ValidIs, Zenon
  <2>4. /\ c.type = AskedType /\ TargetOf(c) = AskedTarget /\ MachineSound
        /\ Flagged => AskedType = "ssh"
    BY <1>2, <2>1, <2>3, Unsent, Zenon
  <2> QED
    BY <1>1, <2>1, <2>2, <2>3, <2>4, SoundIs, Zenon
<1>3. CASE Sent
  <2>1. PICK e \in Meanings : /\ Flagged => applyDestination(Typed, e).type = "ssh"
                              /\ c = Done(applyDestination(Typed, e)) /\ Validate(c)
    BY <1>3, ConfigureIs, Zenon DEF Meanings
  <2>2. e.type = AskedType /\ e.type \in Backends
    BY <1>3, ReadFor, Zenon
  <2>3. /\ FromFile(applyDestination(Typed, e)) /\ applyDestination(Typed, e).type = e.type
        /\ Named(e).type = e.type
    BY <2>2, NamedIs, Zenon
  <2>4. MachineValid(c) /\ RestSound
    BY <2>1, <2>3, ValidIs, Zenon
  <2>5. c = Named(e)
    BY <2>1, Zenon DEF Named
  <2>6. CASE ~Misread
    <3>1. TargetOf(Named(e)) = AskedTarget /\ (MachineValid(Named(e)) <=> MachineSound)
      BY <1>3, <2>6, SentNames, Zenon
    <3>2. TargetOf(c) = AskedTarget /\ MachineSound
      BY <2>4, <2>5, <3>1, Zenon
    <3>3. c.type = AskedType /\ (Flagged => AskedType = "ssh")
      BY <2>1, <2>2, <2>3, <2>5, Zenon
    <3> QED
      BY <1>1, <2>1, <2>3, <2>4, <3>2, <3>3, SoundIs, Zenon
  <2> QED
    BY <1>1, <2>1, <2>3, <2>6, Zenon
<1> QED
  BY <1>2, <1>3, Zenon

(* A sound request leads to a configuration. *)
LEMMA SoundConfigured ==
    ASSUME req \in Requests, Sound, ~LateDefault, ~Conflict
    PROVE  configure(cli, file) # {}
<1>1. MachineSound /\ (Flagged => AskedType = "ssh") /\ RestSound
  BY SoundIs, Zenon
<1>2. CASE ~Sent
  <2> DEFINE c == Done(Typed)
  <2>1. c = Done(Typed)
    BY Zenon
  <2> HIDE DEF c
  <2>2. MachineValid(c) /\ (Flagged => Typed.type = "ssh")
    BY <1>1, <1>2, <2>1, Unsent, Zenon
  <2>3. Validate(c)
    BY <1>1, <2>1, <2>2, TypedIs, ValidIs, Zenon
  <2> QED
    BY <1>2, <2>1, <2>2, <2>3, ConfigureIs, Zenon
<1>3. CASE Sent
  <2>1. ~Misread
    BY <1>1, <1>3, Zenon DEF MachineSound, Misread
  <2>2. PICK e \in Meanings : MachineValid(Named(e))
    BY <1>1, <1>3, <2>1, SentNames, Zenon
  <2>3. e.type = AskedType /\ e.type \in Backends
    BY <1>3, ReadFor, Zenon
  <2> DEFINE s == applyDestination(Typed, e)
             c == Named(e)
  <2>4. FromFile(s) /\ s.type = e.type
    BY <2>3, NamedIs, Zenon
  <2>5. c = Done(s)
    BY Zenon DEF Named
  <2>6. MachineValid(c)
    BY <2>2, Zenon
  <2> HIDE DEF s, c
  <2>7. Validate(c)
    BY <1>1, <2>4, <2>5, <2>6, ValidIs, Zenon
  <2>8. cli.backend \in {"", e.type}
    BY <1>3, <2>3, Zenon DEF Conflict
  <2>9. Flagged => s.type = "ssh"
    BY <1>1, <2>3, <2>4, Zenon
  <2>10. c \in configure(cli, file)
    BY <1>3, <2>5, <2>7, <2>8, <2>9, ConfigureIs, Zenon DEF Meanings, s
  <2> QED
    BY <2>10, Zenon
<1> QED
  BY <1>2, <1>3, Zenon

(* Once the remote machine has answered. *)
Answered == {"namespace", "files", "mount", "stubs", "broker", "wait", "child"}

(* The configuration is the one that was asked for, completed by what the   *)
(* machine reports, from the answer on; and a child's agent is located with *)
(* that configuration.                                                      *)
AskInv ==
    /\ req \in Requests
    /\ step = "refused" => configure(cli, file) = {}
    /\ step = "backend" => cfg \in configure(cli, file)
    /\ step \in Answered =>
           \E c \in configure(cli, file) : cfg = resolveRemotePlatform(c, req.info)
    /\ step \in {"wait", "child"} => agent \in Located(cfg)

(* A step that leaves the configuration alone and does not take the         *)
(* supervisor past a point it is not at.                                    *)
LEMMA AskStep ==
    ASSUME AskInv, UNCHANGED given,
           \/ step' = step
           \/ step \in Answered /\ step' \in Answered /\ step' \notin {"wait", "child"}
           \/ step \in {"wait", "child"} /\ step' \in {"wait", "child"}
           \/ step' \in {"undo", "close", "closeStubs", "closeMounts", "done"}
    PROVE  AskInv'
<1>1. req' = req /\ cfg' = cfg /\ agent' = agent /\ cli' = cli /\ file' = file
  BY Zenon DEF given, settled, cli, file
<1>2. configure(cli, file)' = configure(cli, file)
  BY <1>1, Zenon
<1>3. Located(cfg)' = Located(cfg)
  BY <1>1, Zenon DEF Located
<1>4. CASE step' = step
  BY <1>1, <1>2, <1>3, <1>4, Zenon DEF AskInv
<1>5. CASE step \in Answered /\ step' \in Answered /\ step' \notin {"wait", "child"}
  <2>1. step' # "refused" /\ step' # "backend"
    BY <1>5, Zenon DEF Answered
  <2> QED
    BY <1>1, <1>2, <1>5, <2>1, Zenon DEF AskInv
<1>6. CASE step \in {"wait", "child"} /\ step' \in {"wait", "child"}
  <2>1. step \in Answered /\ step' # "refused" /\ step' # "backend"
    BY <1>6, Zenon DEF Answered
  <2> QED
    BY <1>1, <1>2, <1>3, <1>6, <2>1, Zenon DEF AskInv
<1>7. CASE step' \in {"undo", "close", "closeStubs", "closeMounts", "done"}
  BY <1>1, <1>7, Zenon DEF AskInv, Answered
<1> QED
  BY <1>4, <1>5, <1>6, <1>7, Zenon

(* The configuration is set once, completed once, and used to locate. *)
LEMMA AskInductive == AskInv /\ [Next]_vars => AskInv'
<1> SUFFICES ASSUME AskInv, [Next]_vars
             PROVE  AskInv'
  BY Zenon
<1>1. CASE Configure
  <2>1. /\ req' = req /\ cli' = cli /\ file' = file
        /\ \/ configure(cli, file) = {} /\ step' = "refused"
           \/ cfg' \in configure(cli, file) /\ step' = "backend"
           \/ step' = "done"
    BY <1>1, Zenon DEF Configure, cli, file
  <2>2. configure(cli, file)' = configure(cli, file)
    BY <2>1, Zenon
  <2> QED
    BY <2>1, <2>2, Zenon DEF AskInv, Answered
<1>2. CASE StartBackend
  <2>1. /\ req' = req /\ cli' = cli /\ file' = file
        /\ \/ step' = "close"
           \/ cfg' = resolveRemotePlatform(cfg, req.info) /\ step' = "namespace"
    BY <1>2, Zenon DEF StartBackend, cli, file
  <2>2. cfg \in configure(cli, file)
    BY <1>2, Zenon DEF StartBackend, AskInv
  <2>3. configure(cli, file)' = configure(cli, file)
    BY <2>1, Zenon
  <2>4. CASE step' = "close"
    BY <2>1, <2>4, Zenon DEF AskInv, Answered
  <2>5. CASE cfg' = resolveRemotePlatform(cfg, req.info) /\ step' = "namespace"
    BY <2>1, <2>2, <2>3, <2>5, Zenon DEF AskInv, Answered
  <2> QED
    BY <2>1, <2>4, <2>5, Zenon
<1>3. CASE StartBroker
  <2>1. req' = req /\ cfg' = cfg /\ cli' = cli /\ file' = file /\ step = "broker"
    BY <1>3, Zenon DEF StartBroker, settled, cli, file
  <2>2. configure(cli, file)' = configure(cli, file) /\ Located(cfg)' = Located(cfg)
    BY <2>1, Zenon DEF Located
  <2>3. step' = "close" \/ (agent' \in Located(cfg) /\ step' = "wait")
    BY <1>3, Zenon DEF StartBroker
  <2>4. CASE step' = "close"
    BY <2>1, <2>4, Zenon DEF AskInv, Answered
  <2>5. CASE agent' \in Located(cfg) /\ step' = "wait"
    BY <2>1, <2>2, <2>5, Zenon DEF AskInv, Answered
  <2> QED
    BY <2>3, <2>4, <2>5, Zenon
<1>4. CASE EnterNamespace \/ MountBegin \/ MountDone
  BY <1>4, AskStep, Zenon DEF EnterNamespace, MountBegin, MountDone, Goto, Answered
<1>5. CASE MountShared \/ MountFresh \/ BrokerBinds \/ BrokerListens \/ BrokerAcceptFails
  BY <1>5, AskStep, Zenon DEF MountShared, MountFresh, BrokerBinds, BrokerListens,
         BrokerAcceptFails
<1>6. CASE MountFails \/ MountUndo
  BY <1>6, AskStep, Zenon DEF MountFails, MountUndo
<1>7. CASE StubsSkipped \/ StubsFail \/ StubsMounted
  BY <1>7, AskStep, Zenon DEF StubsSkipped, StubsFail, StubsMounted, Goto, Answered
<1>8. CASE BrokerReady \/ RunChild
  BY <1>8, AskStep, Zenon DEF BrokerReady, RunChild
<1>9. CASE CloseBroker \/ CloseStubs \/ CloseMounts
  BY <1>9, AskStep, Zenon DEF CloseBroker, CloseStubs, CloseMounts
<1>10. CASE Exited \/ UNCHANGED vars
  BY <1>10, AskStep, Zenon DEF Exited, vars, given, settled
<1> QED
  BY <1>1, <1>2, <1>3, <1>4, <1>5, <1>6, <1>7, <1>8, <1>9, <1>10, Zenon DEF Next

(* AsAsked (main.go, resolve.go): whatever the file, the flags and the      *)
(* destination are, a sound request is not refused, and a run that gets as  *)
(* far as the child has the machine, the user and the directory that were   *)
(* asked for, and an agent for the platform that was pinned or reported.    *)
THEOREM RunIsAsAsked == Spec => []AsAsked
<1>1. Init => AskInv
  BY Zenon DEF Init, AskInv, Answered
<1>2. AskInv => AsAsked
  <2> SUFFICES ASSUME AskInv
               PROVE  AsAsked
    BY Zenon
  <2>1. step = "refused" => ~Sound \/ LateDefault \/ Conflict
    BY SoundConfigured, Zenon DEF AskInv
  <2>2. ASSUME step = "child"
        PROVE  /\ Misread \/ (Sound /\ cfg.type = AskedType /\ Target = AskedTarget)
               /\ cfg.workdir = ExpandLocalHome(AskedDir)
               /\ \/ agent \in {<<"env">>, <<"conf">>, <<"sibling">>}
                  \/ agent = <<AskedOS, AskedArch>>
    <3>1. PICK c \in configure(cli, file) : cfg = resolveRemotePlatform(c, req.info)
      BY <2>2, Zenon DEF AskInv, Answered
    <3>2. agent \in Located(cfg) /\ req \in Requests
      BY <2>2, Zenon DEF AskInv
    <3>3. /\ Misread \/ (Sound /\ c.type = AskedType /\ TargetOf(c) = AskedTarget)
          /\ DOMAIN c = Settings /\ c.workdir = ExpandLocalHome(AskedDir)
          /\ c.os = Or(cli.os, file.os) /\ c.arch = Or(cli.arch, file.arch)
      BY <3>2, ConfiguredAsAsked, Zenon
    <3>4. /\ cfg.type = c.type /\ cfg.host = c.host /\ cfg.user = c.user /\ cfg.port = c.port
          /\ cfg.container = c.container /\ cfg.project = c.project /\ cfg.service = c.service
          /\ cfg.seq = c.seq /\ cfg.workdir = c.workdir
          /\ cfg.os = Or(c.os, Or(req.info.os, LocalOS))
          /\ cfg.arch = Or(c.arch, Or(req.info.arch, LocalArch))
      BY <3>1, <3>3, Zenon DEF resolveRemotePlatform, Settings
    <3>5. Target = TargetOf(c)
      BY <3>4, Zenon DEF Target, TargetOf
    <3>6. cfg.os = AskedOS
      BY <3>3, <3>4, AskedParts, Zenon DEF Or
    <3>7. cfg.arch = AskedArch
      BY <3>3, <3>4, AskedParts, Zenon DEF Or
    <3>8. agent \in {<<"env">>, <<"conf">>, <<"sibling">>} \/ agent = <<cfg.os, cfg.arch>>
      BY <3>2, Zenon DEF Located, ResolveAgentBinaryPath
    <3> QED
      BY <3>3, <3>4, <3>5, <3>6, <3>7, <3>8, Zenon
  <2> QED
    BY <2>1, <2>2, Zenon DEF AsAsked, AskedOS, AskedArch
<1> QED
  BY <1>1, <1>2, AskInductive, PTL DEF Spec
=============================================================================
