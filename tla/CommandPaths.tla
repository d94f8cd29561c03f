---------------------------- MODULE CommandPaths ----------------------------
(***************************************************************************)
(* A run of machineproxy from the word on its command line to the execs of *)
(* the program it starts: InitCommand resolves the word, PathStub realizes *)
(* the mounts and the stubs, the tracer decides with the resulting         *)
(* local_commands which execs stay local, and WorkDir is what a program    *)
(* that moves about then sees.                                             *)
(***************************************************************************)
EXTENDS WorkDir

CONSTANTS
    Scenarios,  \* what InitCommand and PathStub are given
    Asked,      \* paths of commands that the broker is asked for
    Names,      \* names of commands
    MaxNest     \* scripts that the kernel runs one by another

(* Scripts whose interpreter is not a script, and whose env runs a word of  *)
(* the line that is not a relative path.                                    *)
PlainScripts(fs) ==
    \A p \in DOMAIN fs : fs[p].kind = "script" =>
        /\ Abs(fs[p].interp) \in DOMAIN fs => fs[Abs(fs[p].interp)].kind # "script"
        /\ \A w \in fs[p].runs :
               /\ fs[p].interp.base = "env" /\ w \in envTarget(fs[p].arg)
               /\ w = Join(w.dir, w.base) /\ w.dir \notin Relative

(* Relative entries of PATH, and interpreters of interpreters, are left out. *)
ASSUME CommandPathsAssumption ==
    /\ MaxNest \in Nat /\ Cwd \notin Relative \cup {""}
    /\ \A s \in Scenarios :
          /\ s.cmd = Join(s.cmd.dir, s.cmd.base) /\ s.path \in Seq(Range(s.path))
          /\ \A k \in DOMAIN s.path : s.path[k].dir \notin Relative \cup {""}
          /\ PlainScripts(s.files)

(* Paths are paths; every directory of the remote PATH has a listing. *)
ASSUME PathsAssumption ==
    /\ {StubDir, Cwd} \subseteq STRING /\ TempDirs \in Seq(Path)
    /\ LocalDirs \subseteq Path /\ Places \subseteq Path /\ Asked \subseteq Path
    /\ \A s \in Scenarios :
          /\ s.mounts \in Seq([container : Path, remote : Path])
          /\ s.rpath \in Seq(Path) /\ Range(s.rpath) \subseteq DOMAIN s.remote
          /\ s.conf # None => s.conf.wd \in Path \cup {None}

(* On Darwin, where env itself would have to load the interposer, no #!      *)
(* line makes it run anything.                                               *)
ASSUME DarwinAssumption ==
    \A s \in Scenarios : s.conf # None /\ s.conf.darwin =>
        \A p \in DOMAIN s.files : s.files[p].kind = "script" => s.files[p].runs = {}

VARIABLES
    tries,    \* the paths env's execvp has still to try
    astray    \* paths sent to the remote, and stubs run as local programs

vars == <<resolveVars, mountVars, dirVars, at, req, tries, astray, skewed>>

Init ==
    /\ \E s \in Scenarios : ResolveInit(s) /\ MountInit(s) /\ DirInit(s)
    /\ tries = <<>> /\ astray = {}

-----------------------------------------------------------------------------
(* The kernel: a script is run by its interpreter, which may be a script.   *)
(* The last #! line followed, or none.                                      *)
LastLine[n \in 0..MaxNest] ==
    [p \in DOMAIN files |->
        IF files[p].kind # "script" THEN {}
        ELSE IF n > 0 /\ File(files[p].interp).kind = "script" THEN LastLine[n - 1][files[p].interp]
        ELSE {files[p]}]

(* The stub directory goes to either end of PATH, unless it is spelled there. *)
injectPath(p) ==
    LET stub == [dir |-> StubDir, clean |-> TRUE]
    IN IF stubs = <<>> \/ stub \in Range(p) THEN {p} ELSE {<<stub>> \o p, Append(p, stub)}

(* execvp: a word with a slash is itself, another is looked for in PATH. *)
Tries(w, p) == IF w.dir # "" THEN <<w>> ELSE [k \in DOMAIN p |-> Join(p[k].dir, w.base)]

(* The program in the process: the command, or the interpreter of its script. *)
Image ==
    LET lines == LastLine[MaxNest][Abs(resolved)]
    IN IF lines = {} THEN resolved ELSE (CHOOSE line \in lines : TRUE).interp

(* RunChild and the tracer's ForkExec, which is not itself intercepted.     *)
(* env execs what its #! line names (line.runs, a set of at most one word), *)
(* anything else just runs.                                                 *)
StartChild ==
    /\ at = "start" /\ path' \in injectPath(path) /\ EnterDir(Image)
    /\ LET targets == UNION {line.runs : line \in LastLine[MaxNest][Abs(resolved)]}
       IN \/ targets = {} /\ at' = "runs" /\ UNCHANGED tries
          \/ \E w \in targets : at' = "env" /\ tries' = Tries(w, path')
    /\ UNCHANGED <<cmd, files, force, i, resolved, local, mountVars, req, astray, skewed>>

StartFails ==
    /\ at = "start" /\ CannotEnter /\ at' = "failed"
    /\ UNCHANGED <<resolveVars, mountVars, dirVars, req, tries, astray, skewed>>

(* A path of the stub directory is a file of the container if it is a stub. *)
Runs(p) == IF p.dir = StubDir THEN p.base \in DOMAIN stubs ELSE checkExec(p)

(* The commands of a program that moves about are followed on Linux. *)
Traced == conf # None /\ ~Darwin

(* One execve of env's execvp: to the shim, to the program, or on. *)
EnvExec ==
    /\ at = "env"
    /\ \/ tries = <<>> /\ at' = "runs" /\ UNCHANGED <<tries, astray, skewed>>
       \/ /\ tries # <<>>
          /\ LET p == Head(tries) IN
             /\ astray' = IF ~shouldAllow(p) \/ (p.dir = StubDir /\ Runs(p))
                          THEN astray \cup {p} ELSE astray
             /\ IF ~shouldAllow(p) \/ Runs(p)
                THEN at' = "runs" /\ tries' = <<>> /\ skewed' = Traced
                ELSE tries' = Tail(tries) /\ UNCHANGED <<at, skewed>>
    /\ UNCHANGED <<resolveVars, mountVars, dirVars, req>>

(* The program re-executes itself by the path it was started with, in its   *)
(* own process or in another.                                               *)
ReExec ==
    /\ at = "runs" /\ skewed' \in {skewed, Traced}
    /\ astray' = IF shouldAllow(resolved) THEN astray ELSE astray \cup {resolved}
    /\ UNCHANGED <<resolveVars, mountVars, dirVars, at, req, tries>>

Next ==
    \/ Resolve /\ UNCHANGED <<mountVars, dirVars, req, tries, astray, skewed>>
    \/ Mount /\ UNCHANGED <<dirVars, tries, astray, skewed>>
    \/ StartChild \/ StartFails \/ EnvExec \/ ReExec
    \/ \E p \in Asked : conf = None /\ Exec(p) /\ UNCHANGED <<dirVars, tries, astray, skewed>>
    \/ WorkDirStep /\ UNCHANGED <<tries, astray>>

Spec == Init /\ [][Next]_vars

-----------------------------------------------------------------------------
(* The first entry of PATH outside the stub directory with an executable    *)
(* file of that name.                                                       *)
FirstLocal ==
    LET hits == {k \in DOMAIN path :
                   /\ path[k].dir # StubDir
                   /\ File(Join(path[k].dir, cmd.base)).kind \in {"binary", "script"}}
    IN  {Join(path[k].dir, cmd.base) : k \in {k \in hits : \A j \in hits : k <= j}}

(* "the initial exec is always resolved against the local PATH (the         *)
(* path-stub directory is skipped)": LookPath's answer is the first local   *)
(* executable of PATH, and it fails only when there is none.  With          *)
(* force_resolve_initial_command_locally, which "keeps the kernel's         *)
(* binfmt_script chain and any in-process re-exec local", the tracer sends  *)
(* neither what env runs for the command nor its re-exec to the remote, and *)
(* FilterLocalCommands leaves no stub that env could find on its PATH and   *)
(* run in place of the local program.                                       *)
InitialStaysLocal ==
    /\ cmd.dir = "" =>
          /\ at \notin {"look", "failed"} => {resolved} = FirstLocal
          /\ at = "failed" => FirstLocal = {} \/ CannotEnter
    /\ force => astray = {}

(* What a search of PATH on the remote side finds for n. *)
Hits(n) == {k \in DOMAIN rpath : n \in remote[rpath[k]]}
SearchPath(n) == Append(rpath[CHOOSE k \in Hits(n) : \A j \in Hits(n) : k <= j], n)

(* The remote file the container shows at p: a stub, for what a search of   *)
(* the remote PATH finds and no local command, configured or derived,       *)
(* claims; or what the mounts show there.                                   *)
Shown(p) ==
    IF /\ InStubDir(p) /\ next > Len(rpath)
       /\ Hits(Base(p)) # {} /\ ~shouldAllow(Join(StubDir, Base(p)))
    THEN SearchPath(Base(p)) ELSE Shows(p)

(* A command is started from the remote file its path shows in the          *)
(* container.  Stubs are enumerated "mirroring real PATH lookup             *)
(* precedence", buildPathMapper translates "a container-local path to its   *)
(* remote-side equivalent", and "a nested mount wins over a parent", for    *)
(* mounts that are listed in order.                                         *)
MapsToShown == req # None /\ Regular => req.got = Shown(req.asked)
=============================================================================
