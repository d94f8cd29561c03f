------------------------- MODULE CommandPathsProofs -------------------------
(* Where the commands of a contained program run, for any command, PATH,    *)
(* files, mounts, settings and local_commands.                              *)
EXTENDS CommandPaths, WellFoundedInduction, TLAPS

-----------------------------------------------------------------------------
(* Numbers and paths *)

(* A nonempty set of numbers has a least one. *)
LEMMA LeastNumber ==
    ASSUME NEW T, T \subseteq Nat, T # {}
    PROVE  \E x \in T : \A y \in T : x <= y
<1> DEFINE R == OpToRel(<, Nat)
<1>1. IsWellFoundedOn(R, Nat)
  BY NatLessThanWellFounded, Zenon
<1>2. ASSUME NEW x \in Nat, NEW y \in Nat, ~(<<y, x>> \in R) PROVE x <= y
  BY <1>2, SMT DEF OpToRel
<1> HIDE DEF R
<1>3. \E x \in T : \A y \in T : ~(<<y, x>> \in R)
  BY <1>1, WFMin, Zenon
<1> QED
  BY <1>2, <1>3, Zenon

(* A nonempty set of numbers with a bound has a greatest one. *)
LEMMA GreatestNumber ==
    ASSUME NEW T, T \subseteq Nat, T # {}, NEW n \in Nat, \A y \in T : y <= n
    PROVE  \E x \in T : \A y \in T : y <= x
<1> DEFINE U == {k \in Nat : n - k \in T}
<1>1. U \subseteq Nat
  OBVIOUS
<1>2. U # {}
  <2>1. PICK y : y \in T
    OBVIOUS
  <2>2. n - y \in Nat /\ n - (n - y) = y
    BY <2>1
  <2> QED
    BY <2>1, <2>2
<1>3. \E x \in U : \A y \in U : x <= y
  <2> HIDE DEF U
  <2> QED
    BY <1>1, <1>2, LeastNumber, Zenon
<1>4. PICK x \in U : \A y \in U : x <= y
  BY <1>3
<1>5. n - x \in T /\ x \in Nat
  OBVIOUS
<1>6. ASSUME NEW y \in T PROVE y <= n - x
  <2>1. n - y \in Nat /\ n - (n - y) = y
    BY <1>6
  <2>2. x <= n - y
    BY <1>4, <2>1
  <2> QED
    BY <2>1, <2>2
<1> QED
  BY <1>5, <1>6

(* A list is a function on the numbers up to its length. *)
LEMMA ListIs ==
    ASSUME NEW C, NEW s \in Seq(C)
    PROVE  Len(s) \in Nat /\ DOMAIN s = 1..Len(s) /\ s \in [1..Len(s) -> C]
OBVIOUS

(* What is in it. *)
LEMMA ElementIs ==
    ASSUME NEW C, NEW s \in Seq(C), NEW k \in 1..Len(s)
    PROVE  s[k] \in C
OBVIOUS

(* One that is not empty has a length. *)
LEMMA EmptyList ==
    ASSUME NEW C
    PROVE  <<>> \in Seq(C) /\ Len(<<>>) = 0 /\ \A s \in Seq(C) : s # <<>> => Len(s) \in Nat \ {0}
OBVIOUS

(* Lists with the same elements are the same. *)
LEMMA ListsEqual ==
    ASSUME NEW C, NEW s \in Seq(C), NEW t \in Seq(C),
           Len(s) = Len(t), \A k \in 1..Len(s) : s[k] = t[k]
    PROVE  s = t
OBVIOUS

(* The beginning of a path. *)
LEMMA Shortened ==
    ASSUME NEW C, NEW p \in Seq(C), NEW n \in Nat, n <= Len(p)
    PROVE  /\ SubSeq(p, 1, n) \in Seq(C) /\ Len(SubSeq(p, 1, n)) = n
           /\ \A k \in 1..n : SubSeq(p, 1, n)[k] = p[k]
BY SMT

(* A path that is a prefix of another agrees with it, component by component. *)
LEMMA PrefixAgrees ==
    ASSUME NEW C, NEW c \in Seq(C), NEW p \in Seq(C), Within(c, p)
    PROVE  \A k \in 1..Len(c) : c[k] = p[k]
<1>1. c = SubSeq(p, 1, Len(c)) /\ Len(c) <= Len(p)
  BY Zenon DEF Within
<1>a. Len(c) \in Nat
  BY ListIs, Zenon
<1>2. \A k \in 1..Len(c) : SubSeq(p, 1, Len(c))[k] = p[k]
  BY <1>1, <1>a, Shortened, Zenon
<1> QED
  BY <1>1, <1>2, Zenon

(* One that agrees with it is a prefix. *)
LEMMA AgreesWithin ==
    ASSUME NEW C, NEW c \in Seq(C), NEW p \in Seq(C),
           Len(c) <= Len(p), \A k \in 1..Len(c) : c[k] = p[k]
    PROVE  Within(c, p)
<1>1. /\ SubSeq(p, 1, Len(c)) \in Seq(C) /\ Len(SubSeq(p, 1, Len(c))) = Len(c)
      /\ \A k \in 1..Len(c) : SubSeq(p, 1, Len(c))[k] = p[k]
  BY ListIs, Shortened, Zenon
<1>2. c = SubSeq(p, 1, Len(c))
  BY <1>1, ListsEqual, Zenon
<1> QED
  BY <1>2, Zenon DEF Within

(* Of two prefixes of one path, the shorter is a prefix of the longer. *)
LEMMA PrefixOfPrefix ==
    ASSUME NEW C, NEW b \in Seq(C), NEW c \in Seq(C), NEW p \in Seq(C),
           Within(b, p), Within(c, p), Len(b) <= Len(c)
    PROVE  Within(b, c)
<1>1. (\A k \in 1..Len(b) : b[k] = p[k]) /\ (\A k \in 1..Len(c) : c[k] = p[k])
  BY PrefixAgrees, Zenon
<1>2. 1..Len(b) \subseteq 1..Len(c)
  BY SMT
<1>3. \A k \in 1..Len(b) : b[k] = c[k]
  BY <1>1, <1>2, Zenon
<1> QED
  BY <1>3, AgreesWithin, Zenon

(* What follows a prefix makes up the rest. *)
LEMMA PrefixAndRest ==
    ASSUME NEW C, NEW c \in Seq(C), NEW p \in Seq(C), Within(c, p)
    PROVE  /\ SubSeq(p, Len(c) + 1, Len(p)) \in Seq(C)
           /\ c \o SubSeq(p, Len(c) + 1, Len(p)) = p
<1> DEFINE rest == SubSeq(p, Len(c) + 1, Len(p))
<1>1. Len(c) <= Len(p) /\ \A k \in 1..Len(c) : c[k] = p[k]
  BY PrefixAgrees, Zenon DEF Within
<1>2. /\ rest \in Seq(C) /\ Len(rest) = Len(p) - Len(c)
      /\ \A k \in 1..Len(p) - Len(c) : rest[k] = p[Len(c) + k]
  BY <1>1, SMT
<1> HIDE DEF rest
<1>3. c \o rest \in Seq(C) /\ Len(c \o rest) = Len(p) /\ \A k \in 1..Len(p) : (c \o rest)[k] = p[k]
  BY <1>1, <1>2, SMT
<1>4. c \o rest = p
  BY <1>3, ListsEqual, Zenon
<1> QED
  BY <1>2, <1>4, Zenon DEF rest

(* A path is a prefix of what extends it, and keeps its type. *)
LEMMA PrefixOfLonger ==
    ASSUME NEW C, NEW c \in Seq(C), NEW d \in Seq(C)
    PROVE  c \o d \in Seq(C) /\ Within(c, c \o d)
<1>1. /\ c \o d \in Seq(C) /\ Len(c) <= Len(c \o d)
      /\ \A k \in 1..Len(c) : c[k] = (c \o d)[k]
  BY SMT
<1> QED
  BY <1>1, AgreesWithin, Zenon

(* The list grows at its end and shrinks at its head. *)
LEMMA ListSteps ==
    ASSUME NEW C, NEW s \in Seq(C)
    PROVE  /\ \A c \in C : Append(s, c) \in Seq(C)
           /\ s # <<>> => Head(s) \in C /\ Tail(s) \in Seq(C)
BY SMT

(* A path of one component. *)
LEMMA OneElement ==
    ASSUME NEW C, NEW c \in C
    PROVE  <<c>> \in Seq(C)
BY SMT

(* A list of as many. *)
LEMMA ListOf ==
    ASSUME NEW C, NEW n \in Nat, NEW f \in [1..n -> C]
    PROVE  f \in Seq(C)
BY SMT

(* A mount of Darwin gets its temporary directory. *)
LEMMA WithContainer ==
    ASSUME NEW m \in [container : Path \cup {None}, remote : Path], NEW c \in Path
    PROVE  /\ [m EXCEPT !.container = c] \in [container : Path, remote : Path]
           /\ m.container # None => m \in [container : Path, remote : Path]
BY SMT DEF Path

(* One of the list, on Darwin or not. *)
LEMMA WithNone ==
    ASSUME NEW m \in [container : Path, remote : Path]
    PROVE  /\ m \in [container : Path \cup {None}, remote : Path]
           /\ [m EXCEPT !.container = None] \in [container : Path \cup {None}, remote : Path]
BY SMT DEF Path

(* The least of a set of numbers is the one that is chosen. *)
LEMMA LeastIsChosen ==
    ASSUME NEW S, S \subseteq Nat, NEW m \in S, \A j \in S : m <= j
    PROVE  (CHOOSE k \in S : \A j \in S : k <= j) = m
<1>1. \A k \in S : (\A j \in S : k <= j) => k = m
  BY SMT
<1> QED
  BY <1>1, Zenon

-----------------------------------------------------------------------------
(* The side a command runs on *)

(* Which paths local_commands names, on the system at hand. *)
ListedPath(p) ==
    \/ \E entry \in local : MatchLocalCommand(entry, p)
    \/ ~Darwin /\ \E matched \in Regexes : p \in matched

(* The interposer keeps its hold on a process tree of Darwin if no program  *)
(* withheld its variables and the operator did not choose to strip them.    *)
Interposing == Darwin /\ conf.dylib /\ ~conf.strip /\ ~dropped

(* No command is run before the program is; local_commands is then final.   *)
Routing ==
    /\ last # None => at = "runs" /\ conf # None
    /\ conf # None /\ Interposing /\ at \in {"env", "runs"} => env = Injected /\ loaded
    /\ RoutedAsListed

(* The steps that lead up to the program. *)
LEMMA BeforeRuns ==
    ASSUME Routing, at # "runs",
           \/ Resolve /\ UNCHANGED <<mountVars, dirVars, req, tries, astray, skewed>>
           \/ Mount /\ UNCHANGED <<dirVars, tries, astray, skewed>>
           \/ StartFails \/ EnvExec
    PROVE  Routing'
<1>1. last' = None
  BY Zenon DEF Routing, dirVars, StartFails, EnvExec
<1>2. UNCHANGED <<conf, env, loaded, dropped>>
  BY Zenon DEF dirVars, StartFails, EnvExec
<1>3. at' \in {"env", "runs"} => at = "env"
  BY Zenon DEF Resolve, LookPath, LookPathDirect, Derive, Mount, MountWorkspace, BuildPathStubs,
     EnumerateStep, StubsBuilt, StartFails, EnvExec
<1> QED
  BY <1>1, <1>2, <1>3, Zenon DEF Routing, RoutedAsListed, Interposing, Darwin

(* The start: with the library, all that the interposer needs is set. *)
LEMMA StartRouting ==
    ASSUME Routing, StartChild
    PROVE  Routing'
<1>1. last' = None /\ at' \in {"env", "runs"}
  BY Zenon DEF Routing, StartChild, EnterDir, dirVars
<1>2. ASSUME conf' # None, Interposing'
      PROVE  env' = Injected /\ loaded' = TRUE
  <2>1. CASE conf = None
    BY <1>2, <2>1, Zenon DEF StartChild, EnterDir, dirVars
  <2>2. CASE conf # None
    <3>1. conf' = conf /\ (Darwin <=> Darwin')
      BY <2>2, Zenon DEF StartChild, EnterDir, Darwin
    <3>2. Darwin /\ conf.dylib /\ Image \notin Hardened
      BY <1>2, <2>2, <3>1, Zenon DEF Interposing, StartChild, EnterDir
    <3>3. env' = Injected
      BY <2>2, <3>2, Zenon DEF StartChild, EnterDir, Dyld
    <3> QED
      BY <2>2, <3>2, <3>3, Zenon DEF StartChild, EnterDir, Injected
  <2> QED
    BY <2>1, <2>2, Zenon
<1> QED
  BY <1>1, <1>2, Zenon DEF Routing, RoutedAsListed

(* What is on the list, in the terms of the property. *)
LEMMA StaysIfListed ==
    ASSUME Darwin => "MPROXY" \in env, NEW p
    PROVE  StaysLocal(p) <=> ListedPath(p)
BY Zenon DEF StaysLocal, ListedPath, shouldAllow

(* A command that leaves is not on the list. *)
LEMMA RemoteRouting ==
    ASSUME Routing, at = "runs", at' = at, conf # None, UNCHANGED local,
           NEW p, NEW e, NEW forked, ExecRemote(p, e, forked)
    PROVE  Routing'
<1>1. UNCHANGED <<conf, env, loaded, dropped>>
  BY Zenon DEF ExecRemote
<1>2. ~ListedPath(p)
  BY StaysIfListed, Zenon DEF ExecRemote
<1>3. \/ last' = Ran(p, "nowhere", None)
      \/ last' = Ran(p, "remote", PathMapper(ShimGetwd(e)))
  BY Zenon DEF ExecRemote
<1>4. last'.where = "nowhere" \/ (last'.where = "remote" /\ last'.path = p)
  BY <1>3, SMT DEF Ran
<1>5. RoutedAsListed'
  BY <1>1, <1>2, <1>4 DEF RoutedAsListed, ListedPath, Darwin
<1> QED
  BY <1>1, <1>5, Zenon DEF Routing, Interposing, Darwin

(* A command that stays is on the list, and hands on to its own commands    *)
(* what the interposer needs.                                               *)
LEMMA LocalRouting ==
    ASSUME Routing, at = "runs", at' = at, conf # None, UNCHANGED local,
           NEW p, NEW e, NEW forked, ExecLocal(p, e, forked)
    PROVE  Routing'
<1>1. /\ conf' = conf
      /\ last' = Ran(p, IF Missed(forked) THEN "missed" ELSE "local", None)
  BY Zenon DEF ExecLocal
<1>2. /\ Missed(forked) => last'.where = "missed"
      /\ ~Missed(forked) => last'.where = "local" /\ last'.path = p
  BY <1>1, Zenon DEF Ran
<1>3. ASSUME Interposing'
      PROVE  env' = Injected /\ loaded' = TRUE /\ (~Missed(forked) => ListedPath(p))
  <2>1. Interposing /\ e = env /\ p \notin Hardened
    BY <1>1, <1>3, Zenon DEF Interposing, Darwin, ExecLocal
  <2>2. env = Injected /\ loaded
    BY <2>1, Zenon DEF Routing
  <2>3. Hooked /\ "MPROXY" \in env /\ "DYLD" \in env
    BY <2>2, Zenon DEF Hooked, Injected
  <2>4. ~Missed(forked) => StaysLocal(p) /\ ListedPath(p)
    BY <2>3, StaysIfListed, Zenon DEF ExecLocal
  <2>5. env' = env
    BY <2>1, Zenon DEF ExecLocal, ExecEnv, Interposing, Dyld
  <2> QED
    BY <2>1, <2>2, <2>3, <2>4, <2>5, Zenon DEF ExecLocal, Interposing
<1>4. CASE ~Darwin
  <2>1. ~Missed(forked) => ListedPath(p)
    BY <1>4, StaysIfListed, Zenon DEF ExecLocal, Hooked
  <2>2. RoutedAsListed'
    BY <1>1, <1>2, <1>4, <2>1, Zenon DEF RoutedAsListed, ListedPath, Darwin
  <2> QED
    BY <1>1, <1>4, <2>2, Zenon DEF Routing, Interposing, Darwin
<1>5. CASE Darwin
  <2>1. RoutedAsListed'
    BY <1>1, <1>2, <1>3, <1>5, Zenon DEF RoutedAsListed, ListedPath, Interposing, Darwin
  <2> QED
    BY <1>1, <1>3, <2>1, Zenon DEF Routing
<1> QED
  BY <1>4, <1>5

(* The steps of the running program. *)
LEMMA ProgramRouting ==
    ASSUME Routing, WorkDirStep
    PROVE  Routing'
<1>1. at' = at /\ UNCHANGED local
  BY Zenon DEF WorkDirStep, resolveVars
<1>2. ASSUME NEW d, Chdir(d)
      PROVE  Routing'
  BY <1>1, <1>2, Zenon DEF Chdir, Routing, RoutedAsListed, Interposing, Darwin
<1>3. ASSUME NEW p, ExecvFails(p)
      PROVE  Routing'
  <2>1. Interposing => env' = env
    BY <1>3, Zenon DEF ExecvFails, ExecEnv, Interposing
  <2> QED
    BY <1>1, <1>3, <2>1, Zenon DEF ExecvFails, Routing, RoutedAsListed, Interposing, Darwin
<1> QED
  BY <1>1, <1>2, <1>3, RemoteRouting, LocalRouting, Zenon DEF WorkDirStep

(* A command runs locally if and only if local_commands names it, at the    *)
(* end of every chain of programs of any length, when the tracer sees the   *)
(* exec, that is, in a process that has not executed a command in its own   *)
(* place before, and when on Darwin no program of the chain is hardened or  *)
(* withholds the interposer's variables.                                    *)
THEOREM CommandsRouted == Spec => []RoutedAsListed
<1>1. Init => Routing
  BY Zenon DEF Init, ResolveInit, DirInit, Routing, RoutedAsListed
<1>2. Routing /\ [Next]_vars => Routing'
  <2> SUFFICES ASSUME Routing, [Next]_vars PROVE Routing'
    OBVIOUS
  <2>1. CASE \/ Resolve /\ UNCHANGED <<mountVars, dirVars, req, tries, astray, skewed>>
             \/ Mount /\ UNCHANGED <<dirVars, tries, astray, skewed>>
             \/ StartFails \/ EnvExec
    <3>1. at # "runs"
      BY <2>1, Zenon DEF Resolve, LookPath, LookPathDirect, Derive, Mount, MountWorkspace,
         BuildPathStubs, EnumerateStep, StubsBuilt, StartFails, EnvExec
    <3> QED
      BY <2>1, <3>1, BeforeRuns, Zenon
  <2>2. CASE StartChild
    BY <2>2, StartRouting
  <2>3. CASE WorkDirStep /\ UNCHANGED <<tries, astray>>
    BY <2>3, ProgramRouting
  <2>4. CASE UNCHANGED <<local, at, dirVars>>
    BY <2>4, Zenon DEF dirVars, Routing, RoutedAsListed, Interposing, Darwin
  <2> QED
    BY <2>1, <2>2, <2>3, <2>4, Zenon DEF Next, ReExec, Exec, resolveVars, vars
<1>3. Routing => RoutedAsListed
  BY DEF Routing
<1> QED
  BY <1>1, <1>2, <1>3, PTL DEF Spec

-----------------------------------------------------------------------------
(* The initial command *)

Executable(d) == File(Join(d, cmd.base)).kind \in {"binary", "script"}

(* The entries of PATH where the command is, and the first of these. *)
Hit(k) == k \in DOMAIN path /\ path[k].dir # StubDir /\ Executable(path[k].dir)
FirstHit(k) == Hit(k) /\ \A j : Hit(j) => k <= j

(* FirstLocal in these terms. *)
LEMMA FirstLocalIs ==
    \A x : x \in FirstLocal <=> \E k : FirstHit(k) /\ x = Join(path[k].dir, cmd.base)
<1> DEFINE hits == {k \in DOMAIN path :
                      /\ path[k].dir # StubDir
                      /\ File(Join(path[k].dir, cmd.base)).kind \in {"binary", "script"}}
<1>1. \A k : k \in hits <=> Hit(k)
  BY Zenon DEF Hit, Executable
<1>2. \A k : k \in {m \in hits : \A j \in hits : m <= j} <=> FirstHit(k)
  BY <1>1, Zenon DEF FirstHit
<1>3. FirstLocal = {Join(path[k].dir, cmd.base) : k \in {k \in hits : \A j \in hits : k <= j}}
  BY Zenon DEF FirstLocal
<1> QED
  BY <1>2, <1>3, Zenon

(* What is executable depends on the files and the command alone. *)
LEMMA ExecutableKept ==
    ASSUME UNCHANGED <<cmd, files>>
    PROVE  \A d : Executable(d)' <=> Executable(d)
BY Zenon DEF Executable, File, Abs, Join, Missing

(* The stub directory, at either end of PATH, hides no local command. *)
LEMMA InjectedIsSkipped ==
    ASSUME NEW S, path \in Seq(S), NEW e, e.dir = StubDir, UNCHANGED <<cmd, files>>,
           path' = <<e>> \o path \/ path' = Append(path, e)
    PROVE  FirstLocal' = FirstLocal
<1>1. \A d : Executable(d)' <=> Executable(d)
  BY ExecutableKept
<1>2. PICK shift \in {0, 1} :
          /\ \A k : Hit(k) => k \in Int
          /\ \A k : Hit(k)' => k \in Int
          /\ \A k \in Int : Hit(k + shift)' <=> Hit(k)
          /\ \A k : Hit(k) => path'[k + shift].dir = path[k].dir
  <2>1. DOMAIN path = 1..Len(path) /\ Len(path) \in Nat
    BY SMT
  <2>2. CASE path' = <<e>> \o path
    <3>1. /\ DOMAIN path' = 1..(Len(path) + 1)
          /\ path'[1] = e
          /\ \A k \in 1..Len(path) : path'[k + 1] = path[k]
      BY <2>2, SMT
    <3> QED
      BY <1>1, <2>1, <3>1, SMT DEF Hit
  <2>3. CASE path' = Append(path, e)
    <3>1. /\ DOMAIN path' = 1..(Len(path) + 1)
          /\ path'[Len(path) + 1] = e
          /\ \A k \in 1..Len(path) : path'[k] = path[k]
      BY <2>3, SMT
    <3> QED
      BY <1>1, <2>1, <3>1, SMT DEF Hit
  <2> QED
    BY <2>2, <2>3
<1>3. ASSUME NEW k \in Int
      PROVE  FirstHit(k + shift)' <=> FirstHit(k)
  <2>1. ASSUME FirstHit(k), NEW j, Hit(j)' PROVE k + shift <= j
    <3>1. j \in Int
      BY <1>2, <2>1, Zenon
    <3>2. j \in Int /\ j - shift \in Int /\ (j - shift) + shift = j
      BY <3>1, SMT
    <3>3. k <= j - shift
      BY <1>2, <2>1, <3>2, Zenon DEF FirstHit
    <3> QED
      BY <3>2, <3>3, SMT
  <2>2. ASSUME FirstHit(k + shift)', NEW j, Hit(j) PROVE k <= j
    <3>1. j \in Int /\ k + shift <= j + shift
      BY <1>2, <2>2, Zenon DEF FirstHit
    <3> QED
      BY <3>1, SMT
  <2> QED
    BY <1>2, <2>1, <2>2, Zenon DEF FirstHit
<1>4. \A k : FirstHit(k) => k \in Int /\ path'[k + shift].dir = path[k].dir
  BY <1>2, Zenon DEF FirstHit
<1>5. ASSUME NEW k, FirstHit(k)'
      PROVE  k - shift \in Int /\ (k - shift) + shift = k
  <2>1. k \in Int
    BY <1>2, <1>5, Zenon DEF FirstHit
  <2> QED
    BY <2>1, SMT
<1>6. (\A x : x \in FirstLocal <=> \E k : FirstHit(k) /\ x = Join(path[k].dir, cmd.base))'
  BY FirstLocalIs, PTL
<1>7. ASSUME NEW x PROVE x \in FirstLocal' <=> x \in FirstLocal
  <2>1. x \in FirstLocal <=> \E k : FirstHit(k) /\ x = Join(path[k].dir, cmd.base)
    BY FirstLocalIs, Zenon
  <2>2. x \in FirstLocal' <=> \E k : FirstHit(k)' /\ x = Join(path[k].dir, cmd.base)'
    BY <1>6, Zenon
  <2> QED
    BY <1>3, <1>4, <1>5, <2>1, <2>2, ZenonT(40) DEF Join
<1> QED
  BY <1>7, Zenon

(* LookPath: what it has passed over, and its answer.  A PATH that the      *)
(* scenario gives is a sequence of absolute directories.                    *)
Bare == cmd.dir = ""
Before == {"look", "derive", "mount", "enumerate", "start"}
AbsolutePath ==
    /\ path \in Seq(Range(path))
    /\ \A k \in DOMAIN path : path[k].dir \notin Relative \cup {""}
Looked ==
    /\ at \in Before \cup {"failed", "env", "runs"}
    /\ at \in Before => AbsolutePath
    /\ Bare /\ at = "look" => i \in Nat \ {0} /\ \A j : Hit(j) => j >= i
    /\ Bare /\ at \notin {"look", "failed"} => {resolved} = FirstLocal
    /\ Bare /\ at = "failed" => FirstLocal = {} \/ CannotEnter

(* One entry of PATH, or its end. *)
LEMMA LookPathLooked ==
    ASSUME Looked, LookPath, UNCHANGED <<mountVars, dirVars>>
    PROVE  Looked'
<1>1. /\ Bare /\ at = "look" /\ AbsolutePath
      /\ i \in Nat \ {0} /\ \A j : Hit(j) => j >= i
  BY Zenon DEF Looked, LookPath, Bare, Before
<1>2. UNCHANGED <<cmd, path, files>>
  BY Zenon DEF LookPath
<1>3. AbsolutePath' /\ Bare' /\ FirstLocal' = FirstLocal /\ \A k : Hit(k)' <=> Hit(k)
  BY <1>1, <1>2, ZenonT(40) DEF AbsolutePath, Range, Bare, FirstLocal, File, Abs, Join, Missing,
     Hit, Executable
<1>4. DOMAIN path = 1..Len(path) /\ Len(path) \in Nat
  <2>1. path \in Seq(Range(path))
    BY <1>1, Zenon DEF AbsolutePath
  <2> QED
    BY <2>1, SMT
<1>5. CASE i > Len(path)
  <2>1. \A k : ~Hit(k)
    BY <1>1, <1>4, <1>5, SMT DEF Hit
  <2>2. FirstLocal = {}
    BY <2>1, FirstLocalIs, Zenon DEF FirstHit
  <2>3. at' = "failed"
    BY <1>5, Zenon DEF LookPath
  <2> QED
    BY <1>3, <2>2, <2>3, Zenon DEF Looked, Before
<1>6. CASE ~(i > Len(path)) /\ (Skipped(path[i]) \/ ~checkExec(Join(path[i].dir, cmd.base)))
  <2>1. at' = at /\ i' = i + 1
    BY <1>6, Zenon DEF LookPath
  <2>2. ~Hit(i)
    BY <1>6, Zenon DEF Hit, Executable, Skipped, checkExec
  <2>3. i' \in Nat \ {0} /\ \A j : Hit(j) => j >= i'
    <3>1. \A j : Hit(j) => j \in Nat
      BY <1>4, SMT DEF Hit
    <3> QED
      BY <1>1, <2>1, <2>2, <3>1, SMT
  <2> QED
    BY <1>1, <1>3, <2>1, <2>3, Zenon DEF Looked, Before
<1>7. CASE ~(i > Len(path)) /\ ~(Skipped(path[i]) \/ ~checkExec(Join(path[i].dir, cmd.base)))
  <2>1. at' = "derive" /\ resolved' = Join(path[i].dir, cmd.base)
    BY <1>7, Zenon DEF LookPath
  <2>2. i \in DOMAIN path
    BY <1>1, <1>4, <1>7, SMT
  <2>3. Hit(i)
    BY <1>7, <2>2, Zenon DEF Hit, Executable, Skipped, checkExec
  <2>4. \A k : FirstHit(k) <=> k = i
    <3>1. \A j : Hit(j) => i <= j /\ j \in Nat
      BY <1>1, <1>4, SMT DEF Hit
    <3> QED
      BY <1>1, <2>3, <3>1, SMT DEF FirstHit
  <2>5. FirstLocal = {resolved'}
    BY <2>1, <2>4, FirstLocalIs, Zenon
  <2> QED
    BY <1>3, <2>1, <2>5, Zenon DEF Looked, Before
<1> QED
  BY <1>5, <1>6, <1>7

(* The step that starts the program changes PATH. *)
LEMMA StartLooked ==
    ASSUME Looked, StartChild
    PROVE  Looked'
<1>1. at = "start" /\ AbsolutePath /\ (Bare => {resolved} = FirstLocal)
  BY Zenon DEF Looked, StartChild, Before
<1>2. UNCHANGED <<cmd, files, resolved>> /\ at' \in {"env", "runs"} /\ path' \in injectPath(path)
  BY Zenon DEF StartChild
<1>3. FirstLocal' = FirstLocal
  <2>1. CASE path' = path
    BY <1>2, <2>1, ZenonT(40) DEF FirstLocal, File, Abs, Join, Missing
  <2>2. CASE path' # path
    <3> DEFINE stub == [dir |-> StubDir, clean |-> TRUE]
    <3>1. path' = <<stub>> \o path \/ path' = Append(path, stub)
      BY <1>2, <2>2, Zenon DEF injectPath
    <3>2. stub.dir = StubDir
      BY SMT
    <3> HIDE DEF stub
    <3> QED
      BY <1>1, <1>2, <3>1, <3>2, InjectedIsSkipped, Zenon DEF AbsolutePath
  <2> QED
    BY <2>1, <2>2
<1> QED
  BY <1>1, <1>2, <1>3, Zenon DEF Looked, Before, Bare

(* LookPath finds the first local executable of PATH, and nothing that      *)
(* follows changes which one that is.                                       *)
LEMMA LookedKept ==
    ASSUME Looked, [Next]_vars
    PROVE  Looked'
<1>1. CASE LookPath /\ UNCHANGED <<mountVars, dirVars, req, tries, astray, skewed>>
  BY <1>1, LookPathLooked
<1>2. CASE StartChild
  BY <1>2, StartLooked
<1>3. CASE LookPathDirect
  <2>1. ~Bare /\ ~Bare' /\ at' \in {"derive", "failed"} /\ AbsolutePath'
    BY <1>3, Zenon DEF LookPathDirect, Looked, Bare, Before, AbsolutePath, Range
  <2> QED
    BY <2>1, Zenon DEF Looked, Before
<1>4. CASE StartFails
  <2>1. CannotEnter' /\ at' = "failed"
    BY <1>4, Zenon DEF StartFails, CannotEnter, resolveWorkingDir, Workspace, Exists, Bound,
       IsStub, dirVars, mountVars
  <2> QED
    BY <2>1, Zenon DEF Looked, Before
<1>5. ASSUME UNCHANGED <<cmd, path, files, resolved>>, at \notin {"look", "failed"},
             at' \notin {"look", "failed"}, at' \in Before => at \in Before,
             at' \in Before \cup {"failed", "env", "runs"}
      PROVE  Looked'
  <2>1. FirstLocal' = FirstLocal /\ (Bare' <=> Bare) /\ (AbsolutePath => AbsolutePath')
    BY <1>5, ZenonT(40) DEF FirstLocal, File, Abs, Join, Missing, Bare, AbsolutePath, Range
  <2> QED
    BY <1>5, <2>1, Zenon DEF Looked
<1>6. CASE UNCHANGED vars
  <2>1. UNCHANGED <<cmd, path, files, resolved, at, i, conf, mounts, stubs>>
    BY <1>6, Zenon DEF vars, resolveVars, dirVars, mountVars
  <2>2. FirstLocal' = FirstLocal /\ (Bare' <=> Bare) /\ (AbsolutePath => AbsolutePath')
        /\ (CannotEnter' <=> CannotEnter) /\ \A k : Hit(k)' <=> Hit(k)
    BY <2>1, ZenonT(40) DEF FirstLocal, File, Abs, Join, Missing, Bare, AbsolutePath, Range,
       Hit, Executable, CannotEnter, resolveWorkingDir, Workspace, Exists, Bound, IsStub
  <2> QED
    BY <2>1, <2>2, Zenon DEF Looked
<1>7. CASE Derive \/ Mount \/ EnvExec \/ ReExec \/ (\E p \in Asked : Exec(p)) \/ WorkDirStep
  <2>1. UNCHANGED <<cmd, path, files, resolved>>
    BY <1>7, Zenon DEF Derive, Mount, MountWorkspace, BuildPathStubs, EnumerateStep, StubsBuilt,
       EnvExec, ReExec, Exec, WorkDirStep, resolveVars
  <2>2. /\ at \notin {"look", "failed"} /\ at' \notin {"look", "failed"}
        /\ at' \in Before => at \in Before
        /\ at' \in Before \cup {"failed", "env", "runs"}
    BY <1>7, Zenon DEF Derive, Mount, MountWorkspace, BuildPathStubs, EnumerateStep, StubsBuilt,
       EnvExec, ReExec, Exec, WorkDirStep, Chdir, Before
  <2> QED
    BY <1>5, <2>1, <2>2, Zenon
<1> QED
  BY <1>1, <1>2, <1>3, <1>4, <1>6, <1>7, ZenonT(40) DEF Next, Resolve

(* A script is followed to its one #! line. *)
LEMMA OneLine ==
    ASSUME PlainScripts(files), NEW p \in DOMAIN files
    PROVE  LastLine[MaxNest][p] = IF files[p].kind = "script" THEN {files[p]} ELSE {}
<1> DEFINE One == [n \in 0..MaxNest |-> [q \in DOMAIN files |->
                      IF files[q].kind = "script" THEN {files[q]} ELSE {}]]
           F(f) == [n \in 0..MaxNest |-> [q \in DOMAIN files |->
                      IF files[q].kind # "script" THEN {}
                      ELSE IF n > 0 /\ File(files[q].interp).kind = "script"
                           THEN f[n - 1][files[q].interp]
                      ELSE {files[q]}]]
<1>1. \A q \in DOMAIN files : files[q].kind = "script" => File(files[q].interp).kind # "script"
  BY Zenon DEF PlainScripts, File, Missing
<1>2. ASSUME NEW f PROVE F(f) = One
  BY <1>1
<1>3. LastLine = CHOOSE f : f = F(f)
  BY DEF LastLine
<1>4. MaxNest \in 0..MaxNest
  <2>1. MaxNest \in Nat
    BY CommandPathsAssumption, Zenon
  <2> QED
    BY <2>1, SMT
<1>5. One[MaxNest][p] = IF files[p].kind = "script" THEN {files[p]} ELSE {}
  BY <1>4
<1> HIDE DEF One, F
<1>6. One = F(One)
  BY <1>2, Zenon
<1>7. LastLine = F(LastLine)
  BY <1>3, <1>6, Zenon
<1>8. LastLine = One
  BY <1>2, <1>7, Zenon
<1> QED
  BY <1>5, <1>8, Zenon

(* The tracer lets p run, and p is spelled like a path. *)
Claimed(p) == shouldAllow(p) /\ p = Join(p.dir, p.base)

(* What is found is absolute and executable; once main has derived them,    *)
(* the command and its helpers are local commands; no stub has the name of  *)
(* a local command, so none is among what env will try.                     *)
StayInv ==
    /\ PlainScripts(files)
    /\ at = "look" => cmd = Join(cmd.dir, cmd.base)
    /\ at \in {"look", "derive", "mount", "enumerate"} => stubs = <<>>
    /\ at \in Before => tries = <<>>
    /\ at \notin {"look", "failed"} =>
          checkExec(resolved) /\ resolved.dir \notin Relative \cup {""}
    /\ force /\ at \notin {"look", "failed", "derive"} => DeriveLocalCommands(resolved) \subseteq local
    /\ \A n \in DOMAIN stubs : ~shouldAllow(Join(StubDir, n))
    /\ force => \E S : tries \in Seq(S) /\ \A p \in S : Claimed(p)
    /\ force => astray = {}

(* An entry that is not relative allows itself, a word what is named so. *)
LEMMA EntryAllows ==
    ASSUME NEW w \in local, w.dir \notin Relative
    PROVE  /\ w.dir # "" => shouldAllow(w)
           /\ w.dir = "" => \A d : shouldAllow(Join(d, w.base))
<1>1. ASSUME NEW d PROVE Join(d, w.base).base = w.base
  BY SMT DEF Join
<1> QED
  BY <1>1, Zenon DEF shouldAllow, MatchLocalCommand

(* What is executable is one of the files. *)
LEMMA ExecutableIsFile ==
    ASSUME NEW p, checkExec(p)
    PROVE  Abs(p) \in DOMAIN files /\ File(p) = files[Abs(p)]
<1>1. Missing.kind \notin {"binary", "script"}
  BY SMT DEF Missing
<1> QED
  BY <1>1, Zenon DEF checkExec, File

(* Neither what env tries nor the command itself leaves for the remote, and *)
(* what env tries is no stub.                                               *)
LEMMA ClaimedIsNoStub ==
    ASSUME StayInv, NEW p, Claimed(p)
    PROVE  shouldAllow(p) /\ ~(p.dir = StubDir /\ Runs(p))
BY Zenon DEF StayInv, Claimed, Runs

(* A word with a slash is the only one to try. *)
LEMMA OneTry == ASSUME NEW w PROVE <<w>> \in Seq({w})
BY SMT

(* The words of env's execvp are claimed by the derived local commands. *)
LEMMA TriesClaimed ==
    ASSUME StayInv, force, checkExec(resolved), DeriveLocalCommands(resolved) \subseteq local,
           NEW line \in LastLine[MaxNest][Abs(resolved)], NEW w \in line.runs,
           NEW ps, NEW P, ps \in Seq(P)
    PROVE  \E S : Tries(w, ps) \in Seq(S) /\ \A p \in S : Claimed(p)
<1>1. Abs(resolved) \in DOMAIN files /\ File(resolved) = files[Abs(resolved)]
  BY ExecutableIsFile
<1>2. File(resolved).kind = "script" /\ line = File(resolved)
  BY <1>1, OneLine, Zenon DEF StayInv
<1>3. /\ line.interp.base = "env" /\ w \in envTarget(line.arg)
      /\ w = Join(w.dir, w.base) /\ w.dir \notin Relative
  BY <1>1, <1>2, Zenon DEF StayInv, PlainScripts
<1>4. w \in local
  BY <1>2, <1>3, Zenon DEF DeriveLocalCommands
<1>5. CASE w.dir # ""
  <2>1. Tries(w, ps) = <<w>> /\ Claimed(w)
    BY <1>3, <1>4, <1>5, EntryAllows, Zenon DEF Tries, Claimed
  <2> DEFINE S == {w}
  <2>2. Tries(w, ps) \in Seq(S) /\ \A p \in S : Claimed(p)
    BY <2>1, OneTry, Zenon
  <2> HIDE DEF S
  <2> QED
    BY <2>2, Zenon
<1>6. CASE w.dir = ""
  <2> DEFINE S == {Join(ps[k].dir, w.base) : k \in DOMAIN ps}
  <2>1. Tries(w, ps) = [k \in DOMAIN ps |-> Join(ps[k].dir, w.base)]
    BY <1>6, Zenon DEF Tries
  <2>2. DOMAIN ps = 1..Len(ps) /\ Len(ps) \in Nat
    BY SMT
  <2>3. Tries(w, ps) \in Seq(S)
    <3> HIDE DEF S
    <3>1. \A k \in DOMAIN ps : Tries(w, ps)[k] \in S
      BY <2>1, Zenon DEF S
    <3> QED
      BY <2>1, <2>2, <3>1, SMT
  <2>4. ASSUME NEW d PROVE Claimed(Join(d, w.base))
    <3>1. Join(d, w.base) = Join(Join(d, w.base).dir, Join(d, w.base).base)
      BY SMT DEF Join
    <3> QED
      BY <1>3, <1>4, <1>6, <3>1, EntryAllows, Zenon DEF Claimed
  <2>5. \A p \in S : Claimed(p)
    BY <2>4, Zenon
  <2> QED
    BY <2>3, <2>5, Zenon
<1> QED
  BY <1>5, <1>6, Zenon

(* The answers of LookPath, and the local commands derived from them. *)
LEMMA ResolveStay ==
    ASSUME Looked, StayInv, Resolve, UNCHANGED <<mountVars, tries, astray, skewed>>
    PROVE  StayInv'
<1>1. /\ UNCHANGED <<cmd, files, force, stubs>>
      /\ at \in {"look", "derive"} /\ at' \in {"look", "derive", "mount", "failed"}
  BY Zenon DEF Resolve, LookPath, LookPathDirect, Derive, mountVars
<1>2. stubs' = <<>> /\ DOMAIN stubs' = {}
  <2>1. stubs' = <<>>
    BY <1>1, Zenon DEF StayInv
  <2> QED
    BY <2>1, SMT
<1>3. /\ PlainScripts(files)'
      /\ at' = "look" => cmd' = Join(cmd'.dir, cmd'.base)
  BY <1>1, Zenon DEF StayInv, PlainScripts, Resolve, LookPath, LookPathDirect, Derive
<1>4. ASSUME at' \notin {"look", "failed"}
      PROVE  checkExec(resolved)' /\ resolved'.dir \notin Relative \cup {""}
  <2>1. \A p : checkExec(p)' <=> checkExec(p)
    BY <1>1, Zenon DEF checkExec, File, Abs, Missing
  <2>2. CASE LookPathDirect
    <3>1. resolved' = Abs(cmd) /\ checkExec(cmd) /\ cmd.dir # ""
      BY <1>4, <2>2, Zenon DEF LookPathDirect
    <3>2. Abs(cmd).dir \notin Relative \cup {""} /\ Abs(Abs(cmd)) = Abs(cmd)
      <4>1. Join(Cwd, cmd.base).dir = Cwd
        BY SMT DEF Join
      <4> QED
        BY <3>1, <4>1, CommandPathsAssumption, Zenon DEF Abs
    <3> QED
      BY <2>1, <3>1, <3>2, Zenon DEF checkExec, File
  <2>3. CASE LookPath
    <3>1. /\ Bare /\ at = "look" /\ ~(i > Len(path))
          /\ resolved' = Join(path[i].dir, cmd.base) /\ checkExec(Join(path[i].dir, cmd.base))
      BY <1>4, <2>3, Zenon DEF LookPath, Bare
    <3>2. i \in Nat \ {0} /\ path \in Seq(Range(path))
      BY <3>1, Zenon DEF Looked, Before, AbsolutePath
    <3>3. i \in DOMAIN path
      BY <3>1, <3>2, SMT
    <3>4. resolved'.dir = path[i].dir
      BY <3>1, SMT DEF Join
    <3> QED
      BY <2>1, <3>1, <3>3, <3>4, Zenon DEF Looked, Before, AbsolutePath
  <2>4. CASE Derive
    BY <2>1, <2>4, Zenon DEF Derive, StayInv
  <2> QED
    BY <2>2, <2>3, <2>4, Zenon DEF Resolve
<1>5. ASSUME force', at' \notin {"look", "failed", "derive"}
      PROVE  (DeriveLocalCommands(resolved) \subseteq local)'
  <2>1. Derive
    BY <1>5, Zenon DEF Resolve, LookPath, LookPathDirect
  <2>2. DeriveLocalCommands(resolved)' = DeriveLocalCommands(resolved)
    BY <2>1, Zenon DEF Derive, DeriveLocalCommands, File, Abs, Missing
  <2>3. local' = local \cup DeriveLocalCommands(resolved)
    <3>1. UNCHANGED force
      BY <1>1, Zenon
    <3>2. force
      BY <1>5, <3>1
    <3> QED
      BY <2>1, <3>2, Zenon DEF Derive
  <2>4. DeriveLocalCommands(resolved)' \subseteq local'
    BY <2>2, <2>3, Zenon
  <2> QED
    BY <2>4, Zenon
<1>6. tries' = <<>> /\ \E S : tries' \in Seq(S) /\ \A p \in S : Claimed(p)'
  <2>1. tries' = <<>>
    BY <1>1, Zenon DEF StayInv, Before
  <2> DEFINE S == {}
  <2>2. <<>> \in Seq(S)
    BY SMT
  <2>3. \A p \in S : Claimed(p)'
    BY Zenon
  <2> HIDE DEF S
  <2> QED
    BY <2>1, <2>2, <2>3, Zenon
<1> QED
  BY <1>1, <1>2, <1>3, <1>4, <1>5, <1>6, Zenon DEF StayInv

(* The invariant survives a step that leaves the command, its files, the    *)
(* local commands and the stubs alone, if what is tried is still claimed.   *)
LEMMA StayUnlessTried ==
    ASSUME StayInv, UNCHANGED <<cmd, files, force, resolved, local, stubs>>,
           at' = "look" => at = "look",
           at' \in {"look", "derive", "mount", "enumerate"} =>
               at \in {"look", "derive", "mount", "enumerate"},
           at' \notin {"look", "failed"} => at \notin {"look", "failed"},
           at' \notin {"look", "failed", "derive"} => at \notin {"look", "failed", "derive"},
           at' \in Before => tries' = <<>>,
           force => \E S : tries' \in Seq(S) /\ \A p \in S : Claimed(p),
           force => astray' = {}
    PROVE  StayInv'
<1>1. UNCHANGED force
  BY Zenon
<1>2. force' <=> force
  BY <1>1
<1>3. \A p : shouldAllow(p)' <=> shouldAllow(p)
  BY Zenon DEF shouldAllow
<1>4. (\A p : Claimed(p)' <=> Claimed(p)) /\ (checkExec(resolved)' <=> checkExec(resolved))
  BY <1>3, Zenon DEF Claimed, checkExec, File, Abs, Missing
<1>5. DeriveLocalCommands(resolved)' = DeriveLocalCommands(resolved)
  BY Zenon DEF DeriveLocalCommands, File, Abs, Missing
<1>6. PlainScripts(files)'
  BY Zenon DEF StayInv, PlainScripts
<1>7. \A n \in DOMAIN stubs' : ~shouldAllow(Join(StubDir, n))'
  BY <1>3, Zenon DEF StayInv
<1>8. force' => \E S : tries' \in Seq(S) /\ \A p \in S : Claimed(p)'
  BY <1>2, <1>4, Zenon
<1>9. /\ at' = "look" => cmd' = Join(cmd'.dir, cmd'.base)
      /\ at' \in {"look", "derive", "mount", "enumerate"} => stubs' = <<>>
      /\ at' \notin {"look", "failed"} =>
            checkExec(resolved)' /\ resolved'.dir \notin Relative \cup {""}
  BY <1>4, Zenon DEF StayInv
<1>10. force' /\ at' \notin {"look", "failed", "derive"} => (DeriveLocalCommands(resolved) \subseteq local)'
  BY <1>2, <1>5, Zenon DEF StayInv
<1>11. force' => astray' = {}
  BY <1>2, Zenon
<1> QED
  BY <1>6, <1>7, <1>8, <1>9, <1>10, <1>11, ZenonT(40) DEF StayInv

(* Listing the remote PATH adds no stub that a local command claims. *)
LEMMA MountStay ==
    ASSUME StayInv, Mount, UNCHANGED <<dirVars, tries, astray, skewed>>
    PROVE  StayInv'
<1>1. /\ UNCHANGED <<cmd, files, force, resolved, local>>
      /\ at \in {"mount", "enumerate"} /\ at' \in {"mount", "enumerate", "start"} /\ tries' = <<>>
  BY Zenon DEF Mount, MountWorkspace, BuildPathStubs, EnumerateStep, StubsBuilt, resolveVars,
     StayInv, Before
<1>2. (force => \E S : tries' \in Seq(S) /\ \A p \in S : Claimed(p)) /\ (force => astray' = {})
  BY Zenon DEF StayInv
<1>3. CASE UNCHANGED stubs
  BY <1>1, <1>2, <1>3, StayUnlessTried, Zenon
<1>4. CASE stubs' # stubs
  <2>1. StubsBuilt
    BY <1>4, Zenon DEF Mount, MountWorkspace, BuildPathStubs, EnumerateStep, mountVars
  <2>2. \A n \in DOMAIN stubs' : ~shouldAllow(Join(StubDir, n))
    BY <2>1, Zenon DEF StubsBuilt, FilterLocalCommands
  <2>3. \A p : shouldAllow(p)' <=> shouldAllow(p)
    BY <1>1, Zenon DEF shouldAllow
  <2>4. at' = "start"
    BY <2>1, Zenon DEF StubsBuilt
  <2>5. UNCHANGED force
    BY <1>1, Zenon
  <2>6. force' <=> force
    BY <2>5
  <2>7. (\A p : Claimed(p)' <=> Claimed(p)) /\ (checkExec(resolved)' <=> checkExec(resolved))
        /\ DeriveLocalCommands(resolved)' = DeriveLocalCommands(resolved)
    BY <1>1, <2>3, Zenon DEF Claimed, checkExec, DeriveLocalCommands, File, Abs, Missing
  <2>8. PlainScripts(files)' /\ checkExec(resolved)' /\ resolved'.dir \notin Relative \cup {""}
    BY <1>1, <2>7, Zenon DEF StayInv, PlainScripts
  <2>9. force' => (DeriveLocalCommands(resolved) \subseteq local)'
    BY <1>1, <2>6, <2>7, Zenon DEF StayInv
  <2>10. force' => \E S : tries' \in Seq(S) /\ \A p \in S : Claimed(p)'
    BY <1>2, <2>6, <2>7, Zenon
  <2> QED
    BY <1>1, <1>2, <2>2, <2>3, <2>4, <2>6, <2>8, <2>9, <2>10, ZenonT(40) DEF StayInv
<1> QED
  BY <1>3, <1>4

(* PATH is still a sequence once the stub directory is injected. *)
LEMMA InjectedIsSequence ==
    ASSUME NEW P, NEW ps \in Seq(P), NEW qs \in injectPath(ps)
    PROVE  \E Q : qs \in Seq(Q)
<1> DEFINE stub == [dir |-> StubDir, clean |-> TRUE]
           Q == P \cup {stub}
<1>1. qs = ps \/ qs = <<stub>> \o ps \/ qs = Append(ps, stub)
  BY Zenon DEF injectPath
<1>2. stub \in Q /\ P \subseteq Q
  BY Zenon
<1> HIDE DEF stub, Q
<1>3. ps \in Seq(Q)
  BY <1>2, SMT
<1>4. Append(ps, stub) \in Seq(Q)
  BY <1>2, <1>3, SMT
<1>5. <<stub>> \in Seq(Q)
  BY <1>2, SMT
<1>6. ASSUME NEW s \in Seq(Q) PROVE s \o ps \in Seq(Q)
  BY <1>3, SMT
<1> QED
  BY <1>1, <1>3, <1>4, <1>5, <1>6, ZenonT(40)

(* env starts with what the derived local commands claim. *)
LEMMA StartStay ==
    ASSUME Looked, StayInv, StartChild
    PROVE  StayInv'
<1>1. /\ UNCHANGED <<cmd, files, force, resolved, local, stubs, astray>>
      /\ at = "start" /\ at' \in {"env", "runs"} /\ at' \notin Before
  BY Zenon DEF StartChild, mountVars, Before
<1>2. ASSUME force PROVE \E S : tries' \in Seq(S) /\ \A p \in S : Claimed(p)
  <2>1. checkExec(resolved) /\ DeriveLocalCommands(resolved) \subseteq local
    BY <1>1, <1>2, Zenon DEF StayInv
  <2>2. CASE UNCHANGED tries
    BY <1>2, <2>2, Zenon DEF StayInv
  <2>3. CASE ~UNCHANGED tries
    <3>1. PICK line \in LastLine[MaxNest][Abs(resolved)] : \E w \in line.runs : tries' = Tries(w, path')
      BY <2>3, Zenon DEF StartChild
    <3>2. PICK w \in line.runs : tries' = Tries(w, path')
      BY <3>1, Zenon
    <3>3. path \in Seq(Range(path)) /\ path' \in injectPath(path)
      BY <1>1, Zenon DEF Looked, Before, AbsolutePath, StartChild
    <3>4. PICK Q : path' \in Seq(Q)
      BY <3>3, InjectedIsSequence, Zenon
    <3> QED
      BY <1>2, <2>1, <3>2, <3>4, TriesClaimed, ZenonT(40)
  <2> QED
    BY <2>2, <2>3
<1>3. force => astray' = {}
  BY <1>1, Zenon DEF StayInv
<1> QED
  BY <1>1, <1>2, <1>3, StayUnlessTried, Zenon DEF Before

(* execvp goes on to the next path, or is done. *)
LEMMA NextTry ==
    ASSUME NEW S, NEW t \in Seq(S), t # <<>>
    PROVE  Head(t) \in S /\ Tail(t) \in Seq(S) /\ <<>> \in Seq(S)
BY SMT

(* Nothing that env tries goes to the remote, and none is a stub. *)
LEMMA EnvStay ==
    ASSUME StayInv, EnvExec
    PROVE  StayInv'
<1>1. /\ UNCHANGED <<cmd, files, force, resolved, local, stubs>>
      /\ at = "env" /\ at' \in {"env", "runs"}
  BY Zenon DEF EnvExec, resolveVars, mountVars
<1>2. ASSUME force
      PROVE  astray' = {} /\ \E S : tries' \in Seq(S) /\ \A p \in S : Claimed(p)
  <2>1. PICK S : tries \in Seq(S) /\ \A p \in S : Claimed(p)
    BY <1>2, Zenon DEF StayInv
  <2>2. astray = {}
    BY <1>2, Zenon DEF StayInv
  <2>3. CASE tries = <<>>
    BY <2>1, <2>2, <2>3, Zenon DEF EnvExec
  <2>4. CASE tries # <<>>
    <3>1. Head(tries) \in S /\ Tail(tries) \in Seq(S) /\ <<>> \in Seq(S)
      BY <2>1, <2>4, NextTry
    <3>2. shouldAllow(Head(tries)) /\ ~(Head(tries).dir = StubDir /\ Runs(Head(tries)))
      BY <2>1, <3>1, ClaimedIsNoStub, Zenon
    <3>3. astray' = astray /\ (tries' = <<>> \/ tries' = Tail(tries))
      BY <2>4, <3>2, Zenon DEF EnvExec
    <3> QED
      BY <2>1, <2>2, <3>1, <3>3, ZenonT(40)
  <2> QED
    BY <2>3, <2>4
<1> QED
  BY <1>1, <1>2, StayUnlessTried, Zenon DEF Before

(* The re-exec of the command is that of one of its derived entries. *)
LEMMA ReExecStay ==
    ASSUME StayInv, ReExec
    PROVE  StayInv'
<1>1. UNCHANGED <<cmd, files, force, resolved, local, stubs, tries, at>> /\ at = "runs"
  BY Zenon DEF ReExec, resolveVars, mountVars
<1>2. ASSUME force PROVE astray' = {}
  <2>1. resolved \in local /\ resolved.dir \notin Relative /\ resolved.dir # ""
    <3>1. resolved \in DeriveLocalCommands(resolved)
      BY Zenon DEF DeriveLocalCommands
    <3> QED
      BY <1>1, <1>2, <3>1, Zenon DEF StayInv
  <2>2. shouldAllow(resolved)
    BY <2>1, EntryAllows, Zenon
  <2> QED
    BY <1>2, <2>2, Zenon DEF ReExec, StayInv
<1>3. force => \E S : tries' \in Seq(S) /\ \A p \in S : Claimed(p)
  BY <1>1, Zenon DEF StayInv
<1> QED
  BY <1>1, <1>2, <1>3, StayUnlessTried, ZenonT(40) DEF Before

(* Every step keeps what is tried, and what has strayed. *)
LEMMA StayKept ==
    ASSUME Looked, StayInv, [Next]_vars
    PROVE  StayInv'
<1>1. CASE Resolve /\ UNCHANGED <<mountVars, dirVars, req, tries, astray, skewed>>
  BY <1>1, ResolveStay, Zenon
<1>2. CASE Mount /\ UNCHANGED <<dirVars, tries, astray, skewed>>
  BY <1>2, MountStay, Zenon
<1>3. CASE StartChild
  BY <1>3, StartStay
<1>4. CASE EnvExec
  BY <1>4, EnvStay
<1>5. CASE ReExec
  BY <1>5, ReExecStay
<1>6. CASE StartFails \/ (WorkDirStep /\ UNCHANGED <<tries, astray>>) \/ UNCHANGED vars
           \/ \E p \in Asked : Exec(p) /\ UNCHANGED <<dirVars, tries, astray, skewed>>
  <2>1. UNCHANGED <<cmd, files, force, resolved, local, stubs, tries, astray>>
    BY <1>6, Zenon DEF StartFails, WorkDirStep, Exec, vars, resolveVars, mountVars
  <2>2. at' = at \/ at' = "failed"
    BY <1>6, Zenon DEF StartFails, WorkDirStep, Exec, vars
  <2>3. /\ force => \E S : tries' \in Seq(S) /\ \A p \in S : Claimed(p)
        /\ force => astray' = {}
        /\ at' \in Before => tries' = <<>>
    BY <2>1, <2>2, Zenon DEF StayInv, Before
  <2> QED
    BY <2>1, <2>2, <2>3, StayUnlessTried, Zenon
<1> QED
  BY <1>1, <1>2, <1>3, <1>4, <1>5, <1>6, Zenon DEF Next

(* The scenarios satisfy the invariants. *)
LEMMA InitStays == Init => Looked /\ StayInv
<1> SUFFICES ASSUME Init PROVE Looked /\ StayInv
  OBVIOUS
<1>1. PICK s \in Scenarios : ResolveInit(s) /\ MountInit(s) /\ DirInit(s)
  BY Zenon DEF Init
<1>2. /\ cmd = s.cmd /\ path = s.path /\ files = s.files /\ i = 1 /\ at = "look"
      /\ stubs = <<>> /\ tries = <<>> /\ astray = {}
  BY <1>1, Zenon DEF ResolveInit, MountInit, Init
<1>3. AbsolutePath /\ cmd = Join(cmd.dir, cmd.base) /\ PlainScripts(files)
  BY <1>2, CommandPathsAssumption, Zenon DEF AbsolutePath
<1>4. i \in Nat \ {0} /\ \A j : Hit(j) => j >= i
  <2>1. path \in Seq(Range(path))
    BY <1>3, Zenon DEF AbsolutePath
  <2>2. \A j \in DOMAIN path : j >= 1
    BY <2>1, SMT
  <2>3. i \in Nat \ {0}
    BY <1>2, SMT
  <2> QED
    BY <1>2, <2>2, <2>3, Zenon DEF Hit
<1>5. DOMAIN stubs = {}
  BY <1>2, SMT
<1>6. \E S : tries \in Seq(S) /\ \A p \in S : Claimed(p)
  <2> DEFINE S == {}
  <2>1. tries \in Seq(S)
    BY <1>2, SMT
  <2>2. \A p \in S : Claimed(p)
    BY Zenon
  <2> HIDE DEF S
  <2> QED
    BY <2>1, <2>2, Zenon
<1>7. Looked
  BY <1>2, <1>3, <1>4, Zenon DEF Looked, Before
<1> QED
  BY <1>2, <1>3, <1>5, <1>6, <1>7, Zenon DEF StayInv, Before

(* In every scenario with absolute PATH entries and plain scripts, the      *)
(* initial command is the first local executable of PATH, and when it is    *)
(* forced local neither what env runs for it nor its re-exec leaves for the *)
(* remote or runs a stub instead.                                           *)
THEOREM InitialStays == Spec => []InitialStaysLocal
<1>1. Looked /\ StayInv /\ [Next]_vars => (Looked /\ StayInv)'
  BY LookedKept, StayKept, Zenon
<1>2. Looked /\ StayInv => InitialStaysLocal
  BY Zenon DEF Looked, StayInv, InitialStaysLocal, Bare
<1> QED
  BY InitStays, <1>1, <1>2, PTL DEF Spec

-----------------------------------------------------------------------------
(* What the mapper and the container show *)

(* The mounts d.mounts can hold: those of paths. *)
Mounted == mounts \in Seq([container : Path, remote : Path])

(* A mount has its paths. *)
LEMMA MountPaths ==
    ASSUME Mounted, NEW k \in DOMAIN mounts
    PROVE  mounts[k].container \in Path /\ mounts[k].remote \in Path /\ k \in Nat \ {0}
<1>1. k \in 1..Len(mounts) /\ Len(mounts) \in Nat
  BY ListIs, Zenon DEF Mounted
<1>2. mounts[k] \in [container : Path, remote : Path]
  BY <1>1, ElementIs, Zenon DEF Mounted
<1> QED
  BY <1>1, <1>2, SMT

(* The mount shown at a path is the last one there. *)
LEMMA BoundIs ==
    ASSUME Mounted, NEW p
    PROVE  /\ \/ Bound(p) = 0
              \/ Bound(p) \in DOMAIN mounts /\ Within(mounts[Bound(p)].container, p)
           /\ \A k \in DOMAIN mounts :
                 Within(mounts[k].container, p) => k <= Bound(p) /\ Bound(p) # 0
<1> DEFINE T == {0} \cup {k \in DOMAIN mounts : Within(mounts[k].container, p)}
<1>1. DOMAIN mounts = 1..Len(mounts) /\ Len(mounts) \in Nat
  BY ListIs, Zenon DEF Mounted
<1>2. T \subseteq Nat /\ T # {} /\ \A y \in T : y <= Len(mounts)
  BY <1>1, SMT
<1>3. 0 \in T /\ \A k \in T : k = 0 \/ (k \in DOMAIN mounts /\ Within(mounts[k].container, p))
  BY Zenon
<1>4. \A k \in DOMAIN mounts : Within(mounts[k].container, p) => k \in T /\ k # 0
  BY <1>1, SMT
<1>5. Bound(p) = Max(T)
  BY Zenon DEF Bound
<1> HIDE DEF T
<1>6. \E x \in T : \A y \in T : y <= x
  BY <1>1, <1>2, GreatestNumber, Zenon
<1>7. \A x, y \in T : y <= x <=> x >= y
  BY <1>2, SMT
<1>8. Bound(p) \in T /\ \A y \in T : y <= Bound(p)
  <2>1. \E x \in T : \A y \in T : x >= y
    BY <1>6, <1>7, Zenon
  <2>2. Bound(p) \in T /\ \A y \in T : Bound(p) >= y
    BY <1>5, <2>1, Zenon DEF Max
  <2> QED
    BY <1>7, <2>2, Zenon
<1>9. \A k \in T : k # 0 => Bound(p) # 0
  BY <1>2, <1>8, SMT
<1> QED
  BY <1>3, <1>4, <1>8, <1>9, Zenon

(* The mount that the mapper takes is the first of the longest that move.   *)
Chosen(p) == CHOOSE k \in Moving(p) : \A j \in Moving(p) : SortsBefore(k, j)

(* There is one. *)
LEMMA ChosenIs ==
    ASSUME Mounted, NEW p \in Path, Moving(p) # {}
    PROVE  Chosen(p) \in Moving(p) /\ \A j \in Moving(p) : SortsBefore(Chosen(p), j)
<1> DEFINE M == Moving(p)
           L(k) == Len(mounts[k].container)
           T == {L(k) : k \in M}
<1>1. ASSUME NEW k \in M PROVE k \in Nat /\ L(k) \in Nat /\ L(k) <= Len(p)
  <2>1. k \in DOMAIN mounts /\ Within(mounts[k].container, p)
    BY <1>1, Zenon DEF Moving
  <2>2. mounts[k].container \in Path /\ k \in Nat \ {0}
    BY <2>1, MountPaths, Zenon
  <2> QED
    BY <2>1, <2>2, ListIs, Zenon DEF Within, Path
<1>2. \A j, k \in M : SortsBefore(j, k) <=> L(j) > L(k) \/ (L(j) = L(k) /\ j <= k)
  BY Zenon DEF SortsBefore
<1>3. Len(p) \in Nat /\ M # {}
  BY ListIs, Zenon DEF Path
<1> HIDE DEF M, L
<1>4. T \subseteq Nat /\ T # {} /\ \A y \in T : y <= Len(p)
  BY <1>1, <1>3, Zenon
<1>5. PICK k \in M : \A j \in M : L(j) <= L(k)
  <2>1. \E x \in T : \A y \in T : y <= x
    <3> HIDE DEF T
    <3> QED
      BY <1>3, <1>4, GreatestNumber, Zenon
  <2> QED
    BY <2>1, Zenon
<1> DEFINE U == {j \in M : L(j) = L(k)}
<1>6. U \subseteq Nat /\ U # {}
  BY <1>1, <1>5, Zenon
<1>7. PICK m \in U : \A j \in U : m <= j
  <2> HIDE DEF U
  <2> QED
    BY <1>6, LeastNumber, Zenon
<1>8. m \in M /\ \A j \in M : SortsBefore(m, j)
  <2>1. m \in M /\ L(m) = L(k)
    BY <1>7, Zenon
  <2>2. ASSUME NEW j \in M PROVE L(m) > L(j) \/ (L(m) = L(j) /\ m <= j)
    <3>1. L(j) <= L(k) /\ L(j) \in Nat /\ L(k) \in Nat /\ (L(j) = L(k) => m <= j)
      BY <1>1, <1>5, <1>7, <2>2, Zenon
    <3> QED
      BY <2>1, <3>1, SMT
  <2> QED
    BY <1>2, <2>1, <2>2, Zenon
<1> QED
  BY <1>8, Zenon DEF Chosen, M

(* If parents are listed first, the mount that the mapper takes for a path  *)
(* is the one that the container shows there.                               *)
LEMMA MapperTakesShown ==
    ASSUME Mounted, Regular, NEW p \in Path, Moving(p) # {}
    PROVE  Bound(p) # 0 /\ mounts[Chosen(p)] = mounts[Bound(p)]
<1> DEFINE k == Chosen(p)
           b == Bound(p)
           C(j) == mounts[j].container
<1>1. k \in DOMAIN mounts /\ Within(C(k), p) /\ C(k) # mounts[k].remote
  BY ChosenIs, Zenon DEF Moving
<1>2. b \in DOMAIN mounts /\ b # 0 /\ k <= b /\ Within(C(b), p)
  BY <1>1, BoundIs, Zenon
<1>3. /\ C(k) \in Path /\ C(b) \in Path /\ k \in Nat /\ b \in Nat
      /\ Len(C(k)) \in Nat /\ Len(C(b)) \in Nat
  BY <1>1, <1>2, MountPaths, ListIs, Zenon DEF Path
<1>4. C(b) # mounts[b].remote => Len(C(k)) > Len(C(b)) \/ Len(C(k)) = Len(C(b))
  <2>1. C(b) # mounts[b].remote => b \in Moving(p)
    BY <1>2, Zenon DEF Moving
  <2> QED
    BY <2>1, ChosenIs, Zenon DEF SortsBefore
<1>5. \A l, j \in DOMAIN mounts : mounts[l] # mounts[j] /\ Within(C(l), C(j)) =>
          l < j /\ C(j) # mounts[j].remote
  BY Zenon DEF Regular, Nested
<1> HIDE DEF k, b, C
<1>6. Len(C(b)) <= Len(C(k)) => Within(C(b), C(k))
  BY <1>1, <1>2, <1>3, PrefixOfPrefix, Zenon DEF Path
<1>7. Len(C(k)) <= Len(C(b)) => Within(C(k), C(b))
  BY <1>1, <1>2, <1>3, PrefixOfPrefix, Zenon DEF Path
<1>8. ~(b < k)
  BY <1>2, <1>3, SMT
<1>9. Len(C(b)) <= Len(C(k)) => mounts[k] = mounts[b]
  BY <1>1, <1>2, <1>5, <1>6, <1>8, Zenon
<1>10. Len(C(k)) <= Len(C(b)) =>
          mounts[k] = mounts[b] \/ Len(C(k)) > Len(C(b)) \/ Len(C(k)) = Len(C(b))
  BY <1>1, <1>2, <1>4, <1>5, <1>7, Zenon DEF C
<1>11. mounts[k] = mounts[b]
  BY <1>3, <1>9, <1>10, SMT
<1> QED
  BY <1>2, <1>11, Zenon DEF k, b

(* So the mapper leads to the remote directory or file the mounts show. *)
LEMMA MapperShows ==
    ASSUME Mounted, Regular, NEW p \in Path, ~IsStub(p)
    PROVE  PathMapper(p) = Shows(p)
<1>1. CASE Moving(p) # {}
  <2>1. PathMapper(p) = RewritePathPrefix(p, mounts[Chosen(p)])
    BY <1>1, Zenon DEF PathMapper, Chosen
  <2>2. Bound(p) # 0 /\ mounts[Chosen(p)] = mounts[Bound(p)]
    BY <1>1, MapperTakesShown, Zenon
  <2> QED
    BY <2>1, <2>2, Zenon DEF Shows
<1>2. CASE Moving(p) = {}
  <2>1. PathMapper(p) = p
    BY <1>2, Zenon DEF PathMapper
  <2>2. ASSUME Bound(p) # 0 PROVE Shows(p) = p
    <3>1. Bound(p) \in DOMAIN mounts /\ Within(mounts[Bound(p)].container, p)
      BY <2>2, BoundIs, Zenon
    <3>2. mounts[Bound(p)].container = mounts[Bound(p)].remote
      BY <1>2, <3>1, Zenon DEF Moving
    <3>3. mounts[Bound(p)].container \in Path
      BY <3>1, MountPaths, Zenon
    <3>4. RewritePathPrefix(p, mounts[Bound(p)]) = p
      BY <3>1, <3>2, <3>3, PrefixAndRest, Zenon DEF RewritePathPrefix, Path
    <3> QED
      BY <2>2, <3>4, Zenon DEF Shows
  <2>3. Bound(p) = 0 => Shows(p) = p
    BY Zenon DEF Shows
  <2> QED
    BY <2>1, <2>2, <2>3, Zenon
<1> QED
  BY <1>1, <1>2, Zenon

(* cwd_remap's answer is what the container shows, and the mapper leaves it *)
(* alone.                                                                   *)
LEMMA RemapShows ==
    ASSUME Mounted, Regular, RemapUnambiguous, 1 \in DOMAIN mounts,
           NEW p \in Path, Within(Workspace.container, p)
    PROVE  PathMapper(RewritePathPrefix(p, Workspace)) = Shows(p)
<1> DEFINE c == Workspace.container
           r == Workspace.remote
           q == RewritePathPrefix(p, Workspace)
<1>1. c \in Path /\ r \in Path
  BY MountPaths, Zenon DEF Workspace
<1>2. q \in Path /\ Within(r, q)
  <2>1. SubSeq(p, Len(c) + 1, Len(p)) \in Path
    BY <1>1, PrefixAndRest, Zenon DEF Path
  <2> QED
    BY <1>1, <2>1, PrefixOfLonger, Zenon DEF RewritePathPrefix, Path
<1>3. ASSUME NEW k \in DOMAIN mounts, k # 1 PROVE ~Within(mounts[k].container, p)
  <2> DEFINE ck == mounts[k].container
  <2>1. ck \in Path /\ k \in Nat \ {0} /\ Len(ck) \in Nat /\ Len(c) \in Nat
    BY <1>1, MountPaths, ListIs, Zenon DEF Path
  <2>2. ~Within(c, ck)
    BY <1>3, Zenon DEF RemapUnambiguous
  <2>3. ~Within(ck, c)
    <3>1. mounts[k] # mounts[1]
      <4>1. Within(c, c)
        BY <1>1, SMT DEF Within, Path
      <4> QED
        BY <2>2, <4>1, Zenon DEF Workspace
    <3>2. ~(k < 1)
      BY <2>1, SMT
    <3> QED
      BY <3>1, <3>2, Zenon DEF Regular, Nested, Workspace
  <2>4. Len(ck) <= Len(c) \/ Len(c) <= Len(ck)
    BY <2>1, SMT
  <2> HIDE DEF c, ck
  <2>5. Within(c, p)
    BY Zenon DEF c
  <2>6. ~Within(ck, p)
    BY <1>1, <2>1, <2>2, <2>3, <2>4, <2>5, PrefixOfPrefix, Zenon DEF Path
  <2> QED
    BY <2>6, Zenon DEF ck
<1>4. Shows(p) = q
  <2>1. Bound(p) # 0 /\ Bound(p) \in DOMAIN mounts /\ Within(mounts[Bound(p)].container, p)
    BY BoundIs, Zenon DEF Workspace
  <2>2. Bound(p) = 1
    BY <1>3, <2>1, Zenon
  <2> QED
    BY <2>1, <2>2, Zenon DEF Shows, Workspace
<1>5. Moving(q) = {}
  <2> SUFFICES ASSUME NEW k \in Moving(q) PROVE FALSE
    BY Zenon
  <2> DEFINE ck == mounts[k].container
  <2>1. k \in DOMAIN mounts /\ ck # mounts[k].remote /\ Within(ck, q)
    BY Zenon DEF Moving
  <2>2. ~Within(ck, r) /\ ~Within(r, ck)
    BY <2>1, Zenon DEF RemapUnambiguous
  <2>3. ck \in Path /\ Len(ck) \in Nat /\ Len(r) \in Nat
    BY <1>1, <2>1, MountPaths, ListIs, Zenon DEF Path
  <2>4. Len(ck) <= Len(r) \/ Len(r) <= Len(ck)
    BY <2>3, SMT
  <2> HIDE DEF ck, r, q
  <2> QED
    BY <1>1, <1>2, <2>1, <2>2, <2>3, <2>4, PrefixOfPrefix, Zenon DEF Path
<1>6. ~IsStub(q)
  <2> SUFFICES ASSUME IsStub(q) PROVE FALSE
    OBVIOUS
  <2>1. q = Append(PathStubDir, Base(q)) /\ Base(q) \in DOMAIN stubs
    BY Zenon DEF IsStub, InStubDir
  <2> HIDE DEF q, r
  <2>2. ~Within(r, Append(PathStubDir, Base(q)))
    BY <2>1, Zenon DEF RemapUnambiguous, r
  <2> QED
    BY <1>2, <2>1, <2>2, Zenon
<1>7. PathMapper(q) = q
  <2> HIDE DEF q
  <2> QED
    BY <1>5, <1>6, Zenon DEF PathMapper
<1> QED
  BY <1>4, <1>7, Zenon

(* A remapped path is a path. *)
LEMMA RemapIsPath ==
    ASSUME Mounted, 1 \in DOMAIN mounts, NEW p \in Path
    PROVE  Remap(p) \in Path
<1>1. Workspace.container \in Path /\ Workspace.remote \in Path
  BY MountPaths, Zenon DEF Workspace
<1>2. ASSUME Within(Workspace.container, p) PROVE RewritePathPrefix(p, Workspace) \in Path
  <2>1. SubSeq(p, Len(Workspace.container) + 1, Len(p)) \in Path
    BY <1>1, <1>2, PrefixAndRest, Zenon DEF Path
  <2> QED
    BY <1>1, <2>1, PrefixOfLonger, Zenon DEF RewritePathPrefix, Path
<1> QED
  BY <1>2, Zenon DEF Remap

(* With the environment or without. *)
LEMMA RemappedIsPath ==
    ASSUME Mounted, 1 \in DOMAIN mounts, NEW p \in Path, NEW e
    PROVE  Remapped(p, e) \in Path
BY RemapIsPath, Zenon DEF Remapped

(* Directories that are one show one remote directory. *)
LEMMA InodeShows ==
    ASSUME NEW p, NEW d, Inode(p) = Inode(d)
    PROVE  Shows(p) = Shows(d)
<1> DEFINE R(x) == mounts[Bound(x)].remote
           S(x) == SubSeq(x, Len(mounts[Bound(x)].container) + 1, Len(x))
<1>1. \A x : Inode(x) = IF Bound(x) = 0 THEN <<{}, x>> ELSE <<{R(x)}, S(x)>>
  BY Zenon DEF Inode
<1>2. \A x : Shows(x) = IF Bound(x) = 0 THEN x ELSE R(x) \o S(x)
  BY Zenon DEF Shows, RewritePathPrefix
<1> HIDE DEF R, S
<1>3. \A a, b, f, g : <<a, b>> = <<f, g>> => a = f /\ b = g
  BY SMT
<1>4. \A x : {} # {x} /\ \A y : {x} = {y} => x = y
  BY SMT
<1>5. CASE Bound(p) = 0 /\ Bound(d) = 0
  <2>1. <<{}, p>> = <<{}, d>>
    BY <1>1, <1>5, Zenon
  <2> QED
    BY <1>3, <2>1, Zenon
<1>6. CASE Bound(p) # 0 /\ Bound(d) # 0
  <2>1. <<{R(p)}, S(p)>> = <<{R(d)}, S(d)>>
    BY <1>1, <1>6, Zenon
  <2>2. {R(p)} = {R(d)} /\ S(p) = S(d)
    BY <1>3, <2>1, Zenon
  <2>3. R(p) = R(d)
    BY <1>4, <2>2, Zenon
  <2> QED
    BY <1>2, <1>6, <2>2, <2>3, Zenon
<1>7. CASE (Bound(p) = 0 /\ Bound(d) # 0) \/ (Bound(p) # 0 /\ Bound(d) = 0)
  <2>1. <<{}, p>> = <<{R(d)}, S(d)>> \/ <<{R(p)}, S(p)>> = <<{}, d>>
    BY <1>1, <1>7, Zenon
  <2>2. {} = {R(d)} \/ {R(p)} = {}
    BY <1>3, <2>1, Zenon
  <2> QED
    BY <1>4, <2>2, Zenon
<1> QED
  BY <1>5, <1>6, <1>7, Zenon

(* Whichever of getcwd and $PWD the shim believes, the mapper turns it into *)
(* the remote directory that is shown where the program is.                 *)
LEMMA GetwdShows ==
    ASSUME Mounted, Regular, conf.remap => RemapUnambiguous, 1 \in DOMAIN mounts,
           dir \in Path, pwd \in Path, Exists(dir), NEW e
    PROVE  PathMapper(ShimGetwd(e)) = Shows(dir)
<1> DEFINE p == Remapped(pwd, env)
<1>1. CASE Exists(p) /\ Inode(p) = Inode(dir) /\ ShimGetwd(e) = p
  <2>1. p \in Path
    BY RemappedIsPath, Zenon
  <2>2. ~IsStub(p)
    BY <1>1, Zenon DEF Exists
  <2> HIDE DEF p
  <2>3. PathMapper(p) = Shows(p)
    BY <2>1, <2>2, MapperShows, Zenon
  <2> QED
    BY <1>1, <2>3, InodeShows, Zenon
<1>2. CASE ShimGetwd(e) = dir
  <2>1. ~IsStub(dir)
    BY Zenon DEF Exists
  <2> QED
    BY <1>2, <2>1, MapperShows, Zenon
<1>3. CASE conf.remap /\ Within(Workspace.container, dir)
           /\ ShimGetwd(e) = RewritePathPrefix(dir, Workspace)
  BY <1>3, RemapShows, Zenon
<1> QED
  BY <1>1, <1>2, <1>3, Zenon DEF ShimGetwd, Getcwd, Remapped, Remap

-----------------------------------------------------------------------------
(* What is mounted, the stubs, and what the broker and the program are told *)

(* The mounts are those of paths; a program has at least one. *)
MountsInv ==
    /\ Mounted /\ entries \in Seq([container : Path \cup {None}, remote : Path])
    /\ at \notin {"look", "derive", "mount", "failed"} => mounts # <<>>

(* What has been found is what a search of the listed directories finds,    *)
(* and the stubs are made of all of it, or there are none.                  *)
StubsInv ==
    /\ rpath \in Seq(Path) /\ next \in 1..Len(rpath) + 1
    /\ \A k \in DOMAIN rpath : k < next => remote[rpath[k]] \subseteq DOMAIN found
    /\ \A n \in DOMAIN found : \E k \in Hits(n) :
          k < next /\ found[n] = Append(rpath[k], n) /\ \A j \in Hits(n) : k <= j
    /\ at \in {"look", "derive", "mount"} => next = 1
    /\ at \in {"look", "derive", "mount", "enumerate"} => stubs = <<>>
    /\ at \in {"start", "env", "runs"} =>
          \/ next = 1 /\ stubs = <<>>
          \/ next > Len(rpath) /\ stubs = FilterLocalCommands(found)

(* The broker's answer was the mapper's. *)
ReqInv == req # None => at = "runs" /\ req.asked \in Asked /\ req.got = PathMapper(req.asked)

(* A program is in a directory that exists. *)
DirInv ==
    /\ conf # None => conf.wd \in Path \cup {None}
    /\ last # None => at = "runs" /\ conf # None
    /\ conf # None /\ at \in {"env", "runs"} => dir \in Path /\ pwd \in Path /\ Exists(dir)
    /\ RunsWhereShown

(* Mounting keeps the mounts those of paths. *)
LEMMA MountsKept ==
    ASSUME MountsInv, [Next]_vars
    PROVE  MountsInv'
<1>1. CASE MountWorkspace
  <2> DEFINE E == [container : Path \cup {None}, remote : Path]
             M == [container : Path, remote : Path]
             m == Head(entries)
  <2>1. /\ entries \in Seq(E) /\ mounts \in Seq(M)
        /\ entries # <<>> /\ entries' = Tail(entries) /\ at' = "mount"
    BY <1>1, Zenon DEF MountsInv, Mounted, MountWorkspace
  <2>2. \/ mounts' = mounts
        \/ m.container # None /\ mounts' = Append(mounts, m)
        \/ /\ Len(mounts) < Len(TempDirs)
           /\ mounts' = Append(mounts, [m EXCEPT !.container = TempDirs[Len(mounts) + 1]])
    BY <1>1, Zenon DEF MountWorkspace
  <2>3. TempDirs \in Seq(Path) /\ \E c : c \in Path
    <3>1. <<>> \in Path
      BY EmptyList, Zenon DEF Path
    <3> QED
      BY <3>1, PathsAssumption, Zenon
  <2>4. Len(mounts) < Len(TempDirs) => TempDirs[Len(mounts) + 1] \in Path
    <3>1. Len(mounts) \in Nat /\ Len(TempDirs) \in Nat
      BY <2>1, <2>3, ListIs, Zenon
    <3>2. Len(mounts) < Len(TempDirs) => Len(mounts) + 1 \in 1..Len(TempDirs)
      BY <3>1, SMT
    <3> QED
      BY <2>3, <3>2, ElementIs, Zenon
  <2>5. m \in E
    <3> HIDE DEF E
    <3> QED
      BY <2>1, ListSteps, Zenon
  <2>6. /\ \A c \in Path : [m EXCEPT !.container = c] \in M
        /\ m.container # None => m \in M
    <3> HIDE DEF m
    <3> QED
      BY <2>3, <2>5, WithContainer, Zenon
  <2> HIDE DEF E, M, m
  <2>7. mounts' \in Seq(M)
    BY <2>1, <2>2, <2>4, <2>6, ListSteps, Zenon
  <2>8. entries' \in Seq(E)
    BY <2>1, ListSteps, Zenon
  <2> QED
    BY <2>1, <2>7, <2>8, Zenon DEF MountsInv, Mounted, E, M
<1>2. CASE BuildPathStubs
  BY <1>2, Zenon DEF BuildPathStubs, MountsInv, Mounted, mountVars
<1>3. CASE ~MountWorkspace /\ ~BuildPathStubs
  <2>1. UNCHANGED <<entries, mounts>>
    BY <1>3, Zenon DEF Next, Mount, EnumerateStep, StubsBuilt, StartChild, StartFails, EnvExec,
       ReExec, Exec, WorkDirStep, mountVars, vars
  <2>2. at' \notin {"look", "derive", "mount", "failed"} =>
            at \notin {"look", "derive", "mount", "failed"}
    BY <1>3, Zenon DEF Next, Resolve, LookPath, LookPathDirect, Derive, Mount, EnumerateStep,
       StubsBuilt, StartChild, StartFails, EnvExec, ReExec, Exec, WorkDirStep, vars
  <2> QED
    BY <2>1, <2>2, Zenon DEF MountsInv, Mounted
<1> QED
  BY <1>1, <1>2, <1>3, Zenon

(* Listing one more directory: its names are found, unless they are already. *)
LEMMA EnumerateFound ==
    ASSUME StubsInv, EnumerateStep
    PROVE  StubsInv'
<1> DEFINE d == rpath[next]
<1>1. /\ UNCHANGED <<rpath, remote, stubs, at>> /\ at = "enumerate" /\ next' = next + 1
      /\ next <= Len(rpath) /\ found' = EnumerateDir(d)
  BY Zenon DEF EnumerateStep
<1>2. /\ rpath \in Seq(Path) /\ DOMAIN rpath = 1..Len(rpath) /\ Len(rpath) \in Nat
      /\ next \in Nat \ {0}
  <2>1. rpath \in Seq(Path) /\ next \in 1..Len(rpath) + 1
    BY Zenon DEF StubsInv
  <2>2. Len(rpath) \in Nat /\ DOMAIN rpath = 1..Len(rpath)
    BY <2>1, ListIs, Zenon
  <2> QED
    BY <2>1, <2>2, SMT
<1>3. /\ next \in DOMAIN rpath /\ next' \in 1..Len(rpath) + 1 /\ next < next'
      /\ \A k \in DOMAIN rpath : (k < next' <=> k < next \/ k = next) /\ (~(k < next) => next <= k)
  BY <1>1, <1>2, SMT
<1>4. /\ DOMAIN found' = DOMAIN found \cup remote[d]
      /\ \A n \in DOMAIN found : found'[n] = found[n]
      /\ \A n \in remote[d] : n \notin DOMAIN found => found'[n] = Append(d, n)
  <2> HIDE DEF d
  <2> QED
    BY <1>1, Zenon DEF EnumerateDir
<1>5. \A n : Hits(n)' = Hits(n)
  BY <1>1, Zenon DEF Hits
<1>6. \A k \in DOMAIN rpath : k < next => remote[rpath[k]] \subseteq DOMAIN found
  BY Zenon DEF StubsInv
<1>7. \A k \in DOMAIN rpath : k < next' => remote[rpath[k]] \subseteq DOMAIN found'
  BY <1>3, <1>4, <1>6, Zenon
<1>8. ASSUME NEW n \in DOMAIN found'
      PROVE  \E k \in Hits(n) :
                 k < next' /\ found'[n] = Append(rpath[k], n) /\ \A j \in Hits(n) : k <= j
  <2>1. CASE n \in DOMAIN found
    <3>1. PICK k \in Hits(n) :
             k < next /\ found[n] = Append(rpath[k], n) /\ \A j \in Hits(n) : k <= j
      BY <2>1, Zenon DEF StubsInv
    <3>2. k < next' /\ found'[n] = found[n]
      BY <1>3, <1>4, <2>1, <3>1, Zenon DEF Hits
    <3> QED
      BY <3>1, <3>2, Zenon
  <2>2. CASE n \notin DOMAIN found
    <3>1. n \in remote[d] /\ found'[n] = Append(d, n)
      BY <1>4, <1>8, <2>2, Zenon
    <3>2. \A j \in Hits(n) : j \in DOMAIN rpath /\ ~(j < next)
      BY <1>6, <2>2, Zenon DEF Hits
    <3>3. \A j \in Hits(n) : next <= j
      BY <1>3, <3>2, Zenon
    <3>4. next \in Hits(n)
      BY <1>3, <3>1, Zenon DEF Hits
    <3> QED
      BY <1>3, <3>1, <3>3, <3>4, Zenon
  <2> QED
    BY <2>1, <2>2, Zenon
<1> HIDE DEF d
<1>9. stubs' = <<>> /\ at' = "enumerate"
  BY <1>1, Zenon DEF StubsInv
<1> QED
  BY <1>1, <1>2, <1>3, <1>5, <1>7, <1>8, <1>9, Zenon DEF StubsInv

(* A step that leaves the listing and the stubs alone. *)
LEMMA StubsUnchanged ==
    ASSUME StubsInv, UNCHANGED <<rpath, remote, next, found, stubs>>,
           at' \in {"look", "derive", "mount"} => at \in {"look", "derive", "mount"},
           at' \in {"look", "derive", "mount", "enumerate"} =>
               at \in {"look", "derive", "mount", "enumerate"},
           at' \in {"start", "env", "runs"} =>
               \/ at \in {"start", "env", "runs"} /\ UNCHANGED local
               \/ next = 1 /\ stubs = <<>>
    PROVE  StubsInv'
<1>1. \A n : Hits(n)' = Hits(n)
  BY Zenon DEF Hits
<1>2. ASSUME UNCHANGED local PROVE FilterLocalCommands(found)' = FilterLocalCommands(found)
  BY <1>2, Zenon DEF FilterLocalCommands, shouldAllow
<1>3. at' \in {"start", "env", "runs"} =>
         \/ next = 1 /\ stubs = <<>>
         \/ next > Len(rpath) /\ stubs = FilterLocalCommands(found)'
  BY <1>2, Zenon DEF StubsInv
<1> QED
  BY <1>1, <1>3, Zenon DEF StubsInv

(* The listing and the stubs, over every step. *)
LEMMA StubsKept ==
    ASSUME StubsInv, [Next]_vars
    PROVE  StubsInv'
<1>1. CASE EnumerateStep
  BY <1>1, EnumerateFound, Zenon
<1>2. CASE StubsBuilt
  <2>1. /\ UNCHANGED <<rpath, remote, next, found, local>> /\ at' = "start"
        /\ next > Len(rpath) /\ stubs' = FilterLocalCommands(found)
    BY <1>2, Zenon DEF StubsBuilt, resolveVars
  <2>2. \A n : Hits(n)' = Hits(n)
    BY <2>1, Zenon DEF Hits
  <2>3. FilterLocalCommands(found)' = FilterLocalCommands(found)
    BY <2>1, Zenon DEF FilterLocalCommands, shouldAllow
  <2> QED
    BY <2>1, <2>2, <2>3, Zenon DEF StubsInv
<1>3. CASE ~EnumerateStep /\ ~StubsBuilt
  <2>1. UNCHANGED <<rpath, remote, next, found, stubs>>
    BY <1>3, Zenon DEF Next, Mount, MountWorkspace, BuildPathStubs, StartChild, StartFails,
       EnvExec, ReExec, Exec, WorkDirStep, mountVars, vars
  <2>2. /\ at' \in {"look", "derive", "mount"} => at \in {"look", "derive", "mount"}
        /\ at' \in {"look", "derive", "mount", "enumerate"} =>
               at \in {"look", "derive", "mount", "enumerate"}
    BY <1>3, Zenon DEF Next, Resolve, LookPath, LookPathDirect, Derive, Mount, MountWorkspace,
       BuildPathStubs, StartChild, StartFails, EnvExec, ReExec, Exec, WorkDirStep, vars
  <2>3. at' \in {"start", "env", "runs"} =>
           at = "mount" \/ (at \in {"start", "env", "runs"} /\ UNCHANGED local)
    BY <1>3, Zenon DEF Next, Resolve, LookPath, LookPathDirect, Derive, Mount, MountWorkspace,
       BuildPathStubs, StartChild, StartFails, EnvExec, ReExec, Exec, WorkDirStep, resolveVars,
       vars
  <2>4. at = "mount" => next = 1 /\ stubs = <<>>
    BY Zenon DEF StubsInv
  <2> QED
    BY <2>1, <2>2, <2>3, <2>4, StubsUnchanged, Zenon
<1> QED
  BY <1>1, <1>2, <1>3, Zenon

(* The mapper and what the container shows depend on the mounts and the     *)
(* stubs alone.                                                             *)
LEMMA MapperKept ==
    ASSUME UNCHANGED <<mounts, stubs>>
    PROVE  /\ \A p : PathMapper(p)' = PathMapper(p) /\ Shows(p)' = Shows(p)
           /\ \A p : Exists(p)' <=> Exists(p)
           /\ (Regular' <=> Regular) /\ (RemapUnambiguous' <=> RemapUnambiguous)
<1>1. \A p : (IsStub(p)' <=> IsStub(p)) /\ Moving(p)' = Moving(p) /\ Bound(p)' = Bound(p)
  BY Zenon DEF IsStub, Moving, Bound
<1> DEFINE First(S, m) ==
        CHOOSE k \in S : \A j \in S :
            \/ Len(m[k].container) > Len(m[j].container)
            \/ Len(m[k].container) = Len(m[j].container) /\ k <= j
           Mapped(p, s, m, S, t) ==
        IF s THEN t[Base(p)] ELSE IF S = {} THEN p ELSE RewritePathPrefix(p, m[First(S, m)])
<1>2. ASSUME NEW p
      PROVE  /\ PathMapper(p) = Mapped(p, IsStub(p), mounts, Moving(p), stubs)
             /\ PathMapper(p)' = Mapped(p, IsStub(p)', mounts', Moving(p)', stubs')
  BY Zenon DEF PathMapper, SortsBefore
<1>3. ASSUME NEW p PROVE PathMapper(p)' = PathMapper(p)
  <2> HIDE DEF First
  <2> QED
    BY <1>1, <1>2, Zenon
<1>4. ASSUME NEW p PROVE Shows(p)' = Shows(p) /\ (Exists(p)' <=> Exists(p))
  BY <1>1, Zenon DEF Shows, Exists
<1>5. (Regular' <=> Regular) /\ (RemapUnambiguous' <=> RemapUnambiguous)
  BY Zenon DEF Regular, RemapUnambiguous, Workspace
<1> QED
  BY <1>3, <1>4, <1>5, Zenon

(* The broker's answers, over every step. *)
LEMMA ReqKept ==
    ASSUME ReqInv, [Next]_vars
    PROVE  ReqInv'
<1>1. CASE \E p \in Asked : Exec(p)
  <2>1. PICK p \in Asked : Exec(p)
    BY <1>1, Zenon
  <2>2. req' = [asked |-> p, got |-> PathMapper(p)] /\ at' = "runs" /\ UNCHANGED <<mounts, stubs>>
    BY <2>1, Zenon DEF Exec, mountVars
  <2>3. req'.asked = p /\ req'.got = PathMapper(p)
    BY <2>2, Zenon
  <2> QED
    BY <2>2, <2>3, MapperKept, Zenon DEF ReqInv
<1>2. CASE ~\E p \in Asked : Exec(p)
  <2>1. UNCHANGED req
    BY <1>2, Zenon DEF Next, Mount, MountWorkspace, BuildPathStubs, EnumerateStep, StubsBuilt,
       StartChild, StartFails, EnvExec, ReExec, WorkDirStep, vars
  <2>2. at = "runs" => at' = "runs" /\ UNCHANGED <<mounts, stubs>>
    BY <1>2, Zenon DEF Next, Resolve, LookPath, LookPathDirect, Derive, Mount, MountWorkspace,
       BuildPathStubs, EnumerateStep, StubsBuilt, StartChild, StartFails, EnvExec, ReExec,
       WorkDirStep, mountVars, vars
  <2> QED
    BY <2>1, <2>2, MapperKept, Zenon DEF ReqInv
<1> QED
  BY <1>1, <1>2, Zenon

(* The mounts are those of a program. *)
LEMMA FirstMount ==
    ASSUME MountsInv, at \notin {"look", "derive", "mount", "failed"}
    PROVE  Mounted /\ 1 \in DOMAIN mounts
<1>1. mounts \in Seq([container : Path, remote : Path]) /\ mounts # <<>>
  BY Zenon DEF MountsInv, Mounted
<1>2. Len(mounts) \in Nat \ {0} /\ DOMAIN mounts = 1..Len(mounts)
  BY <1>1, EmptyList, ListIs, Zenon
<1> QED
  BY <1>1, <1>2, SMT DEF Mounted

(* The invariant survives a step that keeps the mounts, the stubs and the   *)
(* settings, if the program is where it may be and what it ran last is      *)
(* nothing new, or has not left.                                            *)
LEMMA DirUnless ==
    ASSUME DirInv, UNCHANGED <<mounts, stubs, conf>>,
           last' # None => at' = "runs" /\ conf # None,
           conf # None /\ at' \in {"env", "runs"} => dir' \in Path /\ pwd' \in Path /\ Exists(dir'),
           last' = last \/ last' = None \/ last'.where # "remote"
    PROVE  DirInv'
<1>1. Exists(dir)' <=> Exists(dir')
  BY Zenon DEF Exists, Bound, IsStub
<1>2. RunsWhereShown'
  BY MapperKept, Zenon DEF RunsWhereShown, DirInv
<1> QED
  BY <1>1, <1>2, Zenon DEF DirInv

(* Before the program, and when it starts. *)
LEMMA StartDir ==
    ASSUME MountsInv, DirInv, StartChild
    PROVE  DirInv'
<1>1. /\ UNCHANGED <<mounts, stubs>> /\ at = "start" /\ EnterDir(Image) /\ last = None
      /\ Mounted /\ 1 \in DOMAIN mounts
  BY FirstMount, Zenon DEF StartChild, mountVars, DirInv
<1>2. CASE conf = None
  <2>1. UNCHANGED <<conf, last>>
    BY <1>1, <1>2, Zenon DEF EnterDir, dirVars
  <2> QED
    BY <1>1, <1>2, <2>1, DirUnless, Zenon
<1>3. CASE conf # None
  <2>1. /\ UNCHANGED <<conf, last>> /\ dir' \in resolveWorkingDir /\ Exists(dir')
        /\ pwd' = Remap(IF Darwin THEN <<Cwd>> ELSE dir')
    BY <1>1, <1>3, Zenon DEF EnterDir
  <2>2. Workspace.container \in Path /\ Workspace.remote \in Path
    BY <1>1, MountPaths, Zenon DEF Workspace
  <2>3. dir' \in Path
    BY <1>3, <2>1, <2>2, PathsAssumption, Zenon DEF resolveWorkingDir, DirInv
  <2>4. <<Cwd>> \in Path
    <3>1. Cwd \in STRING
      BY PathsAssumption, Zenon
    <3> QED
      BY <3>1, OneElement, Zenon DEF Path
  <2>5. ASSUME NEW p \in Path PROVE Remap(p) \in Path
    BY <1>1, <2>5, RemapIsPath, Zenon
  <2>6. pwd' \in Path
    BY <2>1, <2>3, <2>4, <2>5, Zenon
  <2> QED
    BY <1>1, <2>1, <2>3, <2>6, DirUnless, Zenon
<1> QED
  BY <1>2, <1>3, Zenon

(* What the program does. *)
LEMMA ProgramDir ==
    ASSUME MountsInv, DirInv, WorkDirStep
    PROVE  DirInv'
<1>1. UNCHANGED <<mounts, stubs, conf>> /\ at = "runs" /\ at' = "runs" /\ conf # None
  BY Zenon DEF WorkDirStep, Chdir, ExecRemote, ExecLocal, ExecvFails, mountVars
<1>2. Mounted /\ 1 \in DOMAIN mounts
  BY <1>1, FirstMount, Zenon
<1>3. dir \in Path /\ pwd \in Path /\ Exists(dir)
  BY <1>1, Zenon DEF DirInv
<1>4. ASSUME NEW d \in Places, Chdir(d) PROVE DirInv'
  <2>1. d \in Path
    BY PathsAssumption, Zenon
  <2>2. Remapped(d, env) \in Path
    BY <1>2, <2>1, RemappedIsPath, Zenon
  <2>3. dir' = d /\ Exists(d) /\ last' = None /\ pwd' \in Path
    BY <1>3, <1>4, <2>1, <2>2, Zenon DEF Chdir
  <2> QED
    BY <1>1, <2>1, <2>3, DirUnless, Zenon
<1>5. ASSUME NEW p, NEW e, NEW forked, ExecRemote(p, e, forked) PROVE DirInv'
  <2> DEFINE cwd == PathMapper(ShimGetwd(e))
  <2>1. /\ UNCHANGED <<dir, pwd>>
        /\ last' = Ran(p, "nowhere", None) \/ last' = Ran(p, "remote", cwd)
    BY <1>5, Zenon DEF ExecRemote
  <2>2. CASE last' = Ran(p, "nowhere", None)
    <3>1. last'.where = "nowhere"
      BY <2>2, Zenon DEF Ran
    <3>2. last'.where # "remote"
      BY <3>1, Zenon
    <3> QED
      BY <1>1, <1>3, <2>1, <3>2, DirUnless, Zenon
  <2>3. CASE last' = Ran(p, "remote", cwd)
    <3>1. last'.dir = dir /\ last'.cwd = cwd
      BY <2>3, Zenon DEF Ran
    <3>2. Regular /\ (conf.remap => RemapUnambiguous) => cwd = Shows(dir)
      BY <1>2, <1>3, GetwdShows, Zenon
    <3>3. RunsWhereShown'
      BY <1>1, <3>1, <3>2, MapperKept, Zenon DEF RunsWhereShown
    <3>4. Exists(dir)'
      BY <1>1, <1>3, <2>1, Zenon DEF Exists, Bound, IsStub
    <3> QED
      BY <1>1, <1>3, <2>1, <3>3, <3>4, Zenon DEF DirInv
  <2> QED
    BY <2>1, <2>2, <2>3, Zenon
<1>6. ASSUME NEW p, NEW e, NEW forked, ExecLocal(p, e, forked) PROVE DirInv'
  <2>1. /\ UNCHANGED dir /\ pwd' \in ExecPwd(Hooked /\ ~Missed(forked))
        /\ last' = Ran(p, IF Missed(forked) THEN "missed" ELSE "local", None)
    BY <1>6, Zenon DEF ExecLocal
  <2>2. pwd' \in Path
    BY <1>2, <1>3, <2>1, RemappedIsPath, Zenon DEF ExecPwd
  <2>3. last'.where # "remote"
    <3>1. last'.where \in {"local", "missed"}
      BY <2>1, Zenon DEF Ran
    <3> QED
      BY <3>1, Zenon
  <2> QED
    BY <1>1, <1>3, <2>1, <2>2, <2>3, DirUnless, Zenon
<1>7. ASSUME NEW p, ExecvFails(p) PROVE DirInv'
  <2>1. UNCHANGED dir /\ pwd' = Remapped(pwd, env) /\ last' = None
    BY <1>7, Zenon DEF ExecvFails
  <2>2. pwd' \in Path
    BY <1>2, <1>3, <2>1, RemappedIsPath, Zenon
  <2> QED
    BY <1>1, <1>3, <2>1, <2>2, DirUnless, Zenon
<1> QED
  BY <1>4, <1>5, <1>6, <1>7, Zenon DEF WorkDirStep

(* The program's directory, over every step. *)
LEMMA DirKept ==
    ASSUME MountsInv, DirInv, [Next]_vars
    PROVE  DirInv'
<1>1. CASE StartChild
  BY <1>1, StartDir, Zenon
<1>2. CASE WorkDirStep
  BY <1>2, ProgramDir, Zenon
<1>3. CASE /\ at \notin {"env", "runs"} /\ at' \notin {"env", "runs"}
           /\ UNCHANGED dirVars
  <2>1. last' = None /\ conf' = conf
    BY <1>3, Zenon DEF DirInv, dirVars
  <2> QED
    BY <1>3, <2>1, Zenon DEF DirInv, RunsWhereShown
<1>4. CASE /\ at \in {"env", "runs"} /\ at' \in {"env", "runs"} /\ (at = "runs" => at' = "runs")
           /\ UNCHANGED <<mounts, stubs, dirVars>>
  <2>1. UNCHANGED <<conf, dir, pwd, last>>
    BY <1>4, Zenon DEF dirVars
  <2> QED
    BY <1>4, <2>1, DirUnless, Zenon DEF DirInv
<1>5. CASE Resolve \/ Mount \/ StartFails
  <2>1. at \notin {"env", "runs"} /\ at' \notin {"env", "runs"}
    BY <1>5, Zenon DEF Resolve, LookPath, LookPathDirect, Derive, Mount, MountWorkspace,
       BuildPathStubs, EnumerateStep, StubsBuilt, StartFails
  <2>2. CASE UNCHANGED dirVars
    BY <1>3, <2>1, <2>2, Zenon
  <2>3. CASE ~UNCHANGED dirVars
    BY <1>1, <1>2, <1>5, <2>3, Zenon DEF Next, StartFails, EnvExec, ReExec, vars
  <2> QED
    BY <2>2, <2>3, Zenon
<1>6. CASE EnvExec \/ ReExec \/ \E p \in Asked : Exec(p) /\ UNCHANGED dirVars
  <2>1. /\ at \in {"env", "runs"} /\ at' \in {"env", "runs"} /\ (at = "runs" => at' = "runs")
        /\ UNCHANGED <<mounts, stubs, dirVars>>
    BY <1>6, Zenon DEF EnvExec, ReExec, Exec, mountVars
  <2> QED
    BY <1>4, <2>1, Zenon
<1>7. CASE UNCHANGED vars
  <2>1. UNCHANGED <<mounts, stubs, at, conf, dir, pwd, last>>
    BY <1>7, Zenon DEF vars, mountVars, dirVars
  <2> QED
    BY <2>1, DirUnless, Zenon DEF DirInv
<1> QED
  BY <1>1, <1>2, <1>5, <1>6, <1>7, Zenon DEF Next

(* The scenarios satisfy the invariants. *)
LEMMA InitPaths == Init => MountsInv /\ StubsInv /\ ReqInv /\ DirInv
<1> SUFFICES ASSUME Init PROVE MountsInv /\ StubsInv /\ ReqInv /\ DirInv
  OBVIOUS
<1>1. PICK s \in Scenarios : ResolveInit(s) /\ MountInit(s) /\ DirInit(s)
  BY Zenon DEF Init
<1> DEFINE E == [container : Path \cup {None}, remote : Path]
           M == [container : Path, remote : Path]
<1>2. /\ at = "look" /\ mounts = <<>> /\ rpath = s.rpath /\ next = 1 /\ found = <<>>
      /\ stubs = <<>> /\ req = None /\ conf = s.conf /\ last = None
  BY <1>1, Zenon DEF ResolveInit, MountInit, DirInit
<1>3. /\ s.mounts \in Seq(M) /\ s.rpath \in Seq(Path)
      /\ s.conf # None => s.conf.wd \in Path \cup {None}
  BY PathsAssumption, Zenon
<1>4. entries \in Seq(E)
  <2> DEFINE n == Len(s.mounts)
  <2>1. n \in Nat /\ DOMAIN s.mounts = 1..n
    BY <1>3, ListIs, Zenon
  <2>2. ASSUME NEW k \in 1..n
        PROVE  s.mounts[k] \in E /\ [s.mounts[k] EXCEPT !.container = None] \in E
    <3>1. s.mounts[k] \in M
      BY <1>3, <2>2, ElementIs, Zenon
    <3>2. \A m \in M : m \in E /\ [m EXCEPT !.container = None] \in E
      BY WithNone, Zenon
    <3> QED
      BY <3>1, <3>2, Zenon
  <2> HIDE DEF E, M, n
  <2>3. entries \in [1..n -> E]
    BY <1>1, <2>1, <2>2, Zenon DEF MountInit
  <2> QED
    BY <2>1, <2>3, ListOf, Zenon
<1>5. MountsInv
  <2>1. <<>> \in Seq(M)
    BY EmptyList, Zenon
  <2> QED
    BY <1>2, <1>4, <2>1, Zenon DEF MountsInv, Mounted
<1>6. StubsInv
  <2>1. Len(rpath) \in Nat /\ DOMAIN rpath = 1..Len(rpath)
    BY <1>2, <1>3, ListIs, Zenon
  <2>2. 1 \in 1..Len(rpath) + 1 /\ \A k \in DOMAIN rpath : ~(k < 1)
    BY <2>1, SMT
  <2>3. DOMAIN found = {}
    BY <1>2, SMT
  <2> QED
    BY <1>2, <1>3, <2>2, <2>3, Zenon DEF StubsInv
<1> QED
  BY <1>2, <1>3, <1>5, <1>6, Zenon DEF ReqInv, DirInv, RunsWhereShown

(* What was found is what a search of the remote PATH finds. *)
LEMMA FoundIsSearched ==
    ASSUME StubsInv, NEW n \in DOMAIN found
    PROVE  Hits(n) # {} /\ found[n] = SearchPath(n)
<1>1. PICK m \in Hits(n) : found[n] = Append(rpath[m], n) /\ \A j \in Hits(n) : m <= j
  BY Zenon DEF StubsInv
<1>2. Hits(n) \subseteq Nat
  <2>1. DOMAIN rpath = 1..Len(rpath) /\ Len(rpath) \in Nat
    BY ListIs, Zenon DEF StubsInv
  <2> QED
    BY <2>1, SMT DEF Hits
<1>3. (CHOOSE k \in Hits(n) : \A j \in Hits(n) : k <= j) = m
  BY <1>1, <1>2, LeastIsChosen, Zenon
<1> QED
  BY <1>1, <1>3, Zenon DEF SearchPath

(* The broker's mapper leads to the remote file that the container shows. *)
LEMMA MapperIsShown ==
    ASSUME Mounted, StubsInv, at = "runs", Regular, NEW p \in Path
    PROVE  PathMapper(p) = Shown(p)
<1> DEFINE n == Base(p)
           stub == InStubDir(p)
<1>1. Len(rpath) \in Nat /\ DOMAIN rpath = 1..Len(rpath) /\ next \in 1..Len(rpath) + 1
  BY ListIs, Zenon DEF StubsInv
<1>2. IsStub(p) <=> stub /\ n \in DOMAIN stubs
  BY Zenon DEF IsStub
<1>3. ~IsStub(p) => PathMapper(p) = Shows(p)
  BY MapperShows, Zenon
<1>4. CASE next = 1 /\ stubs = <<>>
  <2>1. DOMAIN stubs = {}
    BY <1>4, SMT
  <2>2. next > Len(rpath) => DOMAIN rpath = {}
    BY <1>1, <1>4, SMT
  <2>3. ~(next > Len(rpath) /\ Hits(n) # {})
    BY <2>2, Zenon DEF Hits
  <2> QED
    BY <1>2, <1>3, <2>1, <2>3, Zenon DEF Shown
<1>5. CASE next > Len(rpath) /\ stubs = FilterLocalCommands(found)
  <2>1. /\ \A m : m \in DOMAIN stubs <=> m \in DOMAIN found /\ ~shouldAllow(Join(StubDir, m))
        /\ \A m \in DOMAIN stubs : stubs[m] = found[m]
    BY <1>5, Zenon DEF FilterLocalCommands
  <2>2. \A k \in DOMAIN rpath : k < next
    BY <1>1, <1>5, SMT
  <2>3. \A m : Hits(m) # {} => m \in DOMAIN found
    BY <2>2, Zenon DEF Hits, StubsInv
  <2>4. n \in DOMAIN stubs <=> Hits(n) # {} /\ ~shouldAllow(Join(StubDir, n))
    BY <2>1, <2>3, FoundIsSearched, Zenon
  <2>5. CASE IsStub(p)
    <3>1. PathMapper(p) = stubs[n] /\ n \in DOMAIN stubs /\ stub
      BY <1>2, <2>5, Zenon DEF PathMapper
    <3>2. stubs[n] = SearchPath(n)
      BY <2>1, <3>1, FoundIsSearched, Zenon
    <3> QED
      BY <1>5, <2>4, <3>1, <3>2, Zenon DEF Shown
  <2>6. CASE ~IsStub(p)
    BY <1>2, <1>3, <2>4, <2>6, Zenon DEF Shown
  <2> QED
    BY <2>5, <2>6, Zenon
<1> QED
  BY <1>4, <1>5, Zenon DEF StubsInv

(* The command the broker starts is the remote file that its path shows in  *)
(* the container: a stub that a search of the remote PATH finds first, or   *)
(* what the mounts show, if parents are listed first.                       *)
THEOREM MappedAsShown == Spec => []MapsToShown
<1> DEFINE Inv == MountsInv /\ StubsInv /\ ReqInv
<1>1. Inv /\ [Next]_vars => Inv'
  BY MountsKept, StubsKept, ReqKept, Zenon
<1>2. Init => Inv
  BY InitPaths, Zenon
<1>3. Inv => MapsToShown
  <2> SUFFICES ASSUME Inv, req # None, Regular PROVE req.got = Shown(req.asked)
    BY Zenon DEF MapsToShown
  <2>1. at = "runs" /\ req.asked \in Path /\ req.got = PathMapper(req.asked) /\ Mounted
    BY PathsAssumption, Zenon DEF ReqInv, MountsInv
  <2> QED
    BY <2>1, MapperIsShown, Zenon
<1> QED
  BY <1>1, <1>2, <1>3, PTL DEF Spec

(* A remote command runs in the remote directory that its program's working *)
(* directory shows, whatever the mounts, if parents are listed first.       *)
THEOREM RemoteRunsWhereShown == Spec => []RunsWhereShown
<1>1. MountsInv /\ DirInv /\ [Next]_vars => (MountsInv /\ DirInv)'
  BY MountsKept, DirKept, Zenon
<1>2. Init => MountsInv /\ DirInv
  BY InitPaths, Zenon
<1>3. DirInv => RunsWhereShown
  BY Zenon DEF DirInv
<1> QED
  BY <1>1, <1>2, <1>3, PTL DEF Spec
=============================================================================
