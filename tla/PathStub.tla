------------------------------ MODULE PathStub ------------------------------
(***************************************************************************)
(* Which remote file a path of the container stands for: the mounts that   *)
(* are bound into the container (pkg/config, cmd/machineproxy/runtime.go), *)
(* the stubs of the remote PATH (pkg/pathstub) and the broker's path       *)
(* mapper (cmd/machineproxy/pathmapper.go), which has to agree with both.  *)
(*                                                                         *)
(* A path is the sequence of its components. The listing of a remote       *)
(* directory says which of Names are executable files; a directory that    *)
(* cannot be read has none.                                                *)
(***************************************************************************)
EXTENDS InitCommand, FiniteSetsExt

CONSTANTS
    None,
    TempDirs   \* Darwin: the directories MkdirTemp makes, in order (bound)

VARIABLES
    entries,  \* cfg.Container.Mounts, what MountWorkspace has not come to yet:
              \*   sequence of [container, remote]; on Darwin container is None
    mounts,   \* d.mounts: sequence of [container, remote]
    remote,   \* remote[d]: names of the executable files of directory d
    rpath,    \* the remote PATH
    next,     \* next directory of the remote PATH to list
    found,    \* name -> remote path (seen and out of EnumerateLocally)
    stubs,    \* d.stubEntries: name -> remote path; with none, nothing is mounted
    req       \* path of the last command, as asked and as mapped

mountVars == <<entries, mounts, remote, rpath, next, found, stubs>>

PathStubDir == <<StubDir>>
Path == Seq(STRING)

-----------------------------------------------------------------------------
(* One entry of the list.  Of two mounts at one container path the first is *)
(* kept.  Without binds, a mount of Darwin is where its FUSE file system    *)
(* is, a temporary directory for each remote path.  A mount that fails ends *)
(* the run; Runtime has these.                                              *)
Taken(m) ==
    \E k \in DOMAIN mounts :
        IF m.container = None THEN mounts[k].remote = m.remote
        ELSE mounts[k].container = m.container

MountWorkspace ==
    /\ at = "mount" /\ entries # <<>> /\ entries' = Tail(entries)
    /\ LET m == Head(entries) IN
       \/ Taken(m) /\ mounts' = mounts
       \/ ~Taken(m) /\ m.container # None /\ mounts' = Append(mounts, m)
       \/ /\ ~Taken(m) /\ m.container = None /\ Len(mounts) < Len(TempDirs)
          /\ mounts' = Append(mounts, [m EXCEPT !.container = TempDirs[Len(mounts) + 1]])
    /\ UNCHANGED <<resolveVars, remote, rpath, next, found, stubs, at, req>>

-----------------------------------------------------------------------------
(* A mutation: a later directory of PATH replaces what an earlier one has. *)
EnumerateDirLastWins(d) ==
    [n \in DOMAIN found \cup remote[d] |-> IF n \in remote[d] THEN Append(d, n) ELSE found[n]]

(* EnumerateLocally, one directory: names seen before are skipped. *)
EnumerateDir(d) ==
    [n \in DOMAIN found \cup remote[d] |-> IF n \in DOMAIN found THEN found[n] ELSE Append(d, n)]

(* The stubs a local command does not shadow. *)
FilterLocalCommands(f) ==
    [n \in {m \in DOMAIN f : ~shouldAllow(Join(StubDir, m))} |-> f[n]]

-----------------------------------------------------------------------------
(* A path that is from, or below it. *)
Within(from, p) == Len(from) <= Len(p) /\ SubSeq(p, 1, Len(from)) = from
RewritePathPrefix(p, m) == m.remote \o SubSeq(p, Len(m.container) + 1, Len(p))

Base(p) == p[Len(p)]
InStubDir(p) == p # <<>> /\ p = Append(PathStubDir, Base(p))
IsStub(p) == InStubDir(p) /\ Base(p) \in DOMAIN stubs

(* The mounts that move p. *)
Moving(p) ==
    {k \in DOMAIN mounts :
        mounts[k].container # mounts[k].remote /\ Within(mounts[k].container, p)}

(* The order of the pairs: the longest container path first, which of two   *)
(* that fit one path is the one with more components.                       *)
SortsBefore(j, k) ==
    LET lj == Len(mounts[j].container)  lk == Len(mounts[k].container)
    IN lj > lk \/ (lj = lk /\ j <= k)

(* What buildPathMapper returns: stubs first, then the first pair that fits. *)
PathMapper(p) ==
    IF IsStub(p) THEN stubs[Base(p)]
    ELSE IF Moving(p) = {} THEN p
    ELSE RewritePathPrefix(p,
             mounts[CHOOSE k \in Moving(p) : \A j \in Moving(p) : SortsBefore(k, j)])

(* The mount that the container shows at p, 0 for none: bwrap binds them in *)
(* order, and a bind hides what is below it.                                *)
Bound(p) == Max({0} \cup {k \in DOMAIN mounts : Within(mounts[k].container, p)})

-----------------------------------------------------------------------------
MountInit(s) ==
    /\ entries = [k \in DOMAIN s.mounts |->
                     IF s.darwin THEN [s.mounts[k] EXCEPT !.container = None] ELSE s.mounts[k]]
    /\ mounts = <<>>
    /\ remote = s.remote /\ rpath = s.rpath
    /\ next = 1 /\ found = <<>> /\ stubs = <<>> /\ req = None

(* BuildPathStubs: path_proxy is "disabled", or the agent lists its PATH.   *)
(* A run without mounts does not get here.                                  *)
BuildPathStubs ==
    /\ at = "mount" /\ entries = <<>> /\ mounts # <<>> /\ at' \in {"enumerate", "start"}
    /\ UNCHANGED <<resolveVars, mountVars, req>>

EnumerateStep ==
    /\ at = "enumerate" /\ next <= Len(rpath)
    /\ found' = EnumerateDir(rpath[next]) /\ next' = next + 1
    /\ UNCHANGED <<resolveVars, entries, mounts, remote, rpath, stubs, at, req>>

StubsBuilt ==
    /\ at = "enumerate" /\ next > Len(rpath)
    /\ stubs' = FilterLocalCommands(found) /\ at' = "start"
    /\ UNCHANGED <<resolveVars, entries, mounts, remote, rpath, next, found, req>>

(* The broker maps the path (and, likewise, the directory) of a command. *)
Exec(p) ==
    /\ at = "runs" /\ req' = [asked |-> p, got |-> PathMapper(p)]
    /\ UNCHANGED <<resolveVars, mountVars, at>>

Mount == MountWorkspace \/ BuildPathStubs \/ EnumerateStep \/ StubsBuilt
=============================================================================
