------------------------------ MODULE WorkDir -------------------------------
(***************************************************************************)
(* The working directory of the contained program, and the commands it     *)
(* starts from it: where RunChild starts it (resolveWorkingDir), what it   *)
(* is told by getcwd and $PWD (cwd_remap), which of its commands leave for *)
(* the remote side, and the directory these run in there (the shim's       *)
(* os.Getwd, then the broker's path mapper).                               *)
(*                                                                         *)
(* On Linux the tracer is in the way of every exec of a process up to the  *)
(* first that succeeds: it takes the later ones for their exits (Tracer).  *)
(* On Darwin it is a library, darwin/interposer, that each process has to  *)
(* load, and that reads its settings from the process's own environment.   *)
(***************************************************************************)
EXTENDS PathStub

CONSTANTS
    LocalDirs,   \* directories of the local machine outside the mounts
    Places,      \* directories the program may go to
    Commands,    \* what it runs: a path, or a bare word (execvp, posix_spawnp)
    Hardened,    \* those of the programs that dyld lets no library into
    MaxDepth     \* components of $PWD, which every exec lengthens when the first
                 \*   mount's remote path is below its container path (bound)

VARIABLES
    conf,      \* [mode, wd, remap, darwin, strip, dylib]: cwd_mode, working_dir,
               \*   cwd_remap = "remote", the system, the interposer's option to
               \*   strip DYLD_INSERT_LIBRARIES, and whether the library is found;
               \*   None when the program neither moves nor looks
    dir,       \* its working directory
    pwd,       \* its $PWD
    env,       \* Darwin: "DYLD" (DYLD_INSERT_LIBRARIES) and "MPROXY" (MPROXY_*), if set
    loaded,    \* Darwin: the interposer is in the process
    dropped,   \* Darwin: a program, or dyld, has withheld part of env from a command
    last,      \* the command just run: [path, where, dir, cwd]
    skewed     \* Linux: the process has executed a command in its own place

dirVars == <<conf, dir, pwd, env, loaded, dropped, last>>

Injected == {"DYLD", "MPROXY"}
Darwin == conf.darwin

DirInit(s) ==
    /\ conf = s.conf /\ dir = None /\ pwd = None
    /\ env = {} /\ loaded = FALSE /\ dropped = FALSE /\ last = None /\ skewed = FALSE

-----------------------------------------------------------------------------
(* resolveCwdRemap and config.RewritePathPrefix, of the first mount only. *)
Workspace == mounts[1]
Remap(p) ==
    IF conf.remap /\ Within(Workspace.container, p) THEN RewritePathPrefix(p, Workspace) ELSE p

(* cwd_from and cwd_to of the interposer come from the environment. *)
Remapped(p, e) == IF Darwin /\ ~("MPROXY" \in e) THEN p ELSE Remap(p)
Hooked == ~Darwin \/ loaded

(* dyld takes DYLD_INSERT_LIBRARIES from a program with the hardened runtime. *)
Dyld(p, e) == IF Darwin /\ p \in Hardened THEN e \ {"DYLD"} ELSE e

(* The tracer's inSyscall is out of step after an exec: the next one of the  *)
(* same process is let through.                                              *)
Missed(forked) == skewed /\ ~forked

(* A directory that is mounted or local, where no stub is. *)
Exists(p) == (Bound(p) # 0 \/ p \in LocalDirs) /\ ~IsStub(p)

(* Two paths are one directory if they lead to the same place below one     *)
(* FUSE file system, and mounts of one remote path share theirs.            *)
Inode(p) ==
    IF Bound(p) = 0 THEN <<{}, p>>
    ELSE <<{mounts[Bound(p)].remote}, SubSeq(p, Len(mounts[Bound(p)].container) + 1, Len(p))>>

-----------------------------------------------------------------------------
(* At most one directory; none makes RunChild fail. *)
resolveWorkingDir ==
    IF conf.mode = "explicit" THEN {conf.wd} \cap LocalDirs
    ELSE IF conf.wd # None THEN {conf.wd}
    ELSE IF conf.mode = "remote" THEN {Workspace.remote} ELSE {Workspace.container}

(* RunChild, buildChildInvocation and the start of the tracer: bwrap sets   *)
(* $PWD, on Darwin it is inherited.  Without the library, or for an image   *)
(* that is hardened, nothing is intercepted there.                          *)
EnterDir(image) ==
    IF conf = None THEN UNCHANGED dirVars
    ELSE /\ dir' \in {d \in resolveWorkingDir : Exists(d)}
         /\ pwd' = Remap(IF Darwin THEN <<Cwd>> ELSE dir')
         /\ env' = Dyld(image, IF ~Darwin THEN {} ELSE IF conf.dylib THEN Injected ELSE {"MPROXY"})
         /\ loaded' = (Darwin /\ "DYLD" \in env')
         /\ dropped' = (dropped \/ (Darwin /\ image \in Hardened))
         /\ UNCHANGED <<conf, last>>

CannotEnter == conf # None /\ \A d \in resolveWorkingDir : ~Exists(d)

-----------------------------------------------------------------------------
(* getcwd, in a process with environment e that is hooked or not. *)
Getcwd(hooked, e) == IF hooked THEN Remapped(dir, e) ELSE dir

(* The program moves: a shell keeps $PWD, as it was spelled or as getcwd    *)
(* has it, and another program leaves it alone.                             *)
Chdir(d) ==
    /\ at = "runs" /\ conf # None /\ Exists(d)
    /\ dir' = d /\ last' = None
    /\ pwd' \in {pwd, d, IF Hooked THEN Remapped(d, env) ELSE d}
    /\ UNCHANGED <<conf, env, loaded, dropped, skewed>>

(* is_whitelisted, and on Linux MatchLocalCommand; the interposer ignores   *)
(* /regex/ entries, and has no list without its environment.                *)
StaysLocal(p) ==
    IF Darwin THEN "MPROXY" \in env /\ \E entry \in local : MatchLocalCommand(entry, p)
    ELSE shouldAllow(p)

(* os.Getwd of the shim believes $PWD if it leads to where it is. *)
ShimGetwd(e) ==
    LET p == Remapped(pwd, env) IN
    IF p # None /\ Exists(p) /\ Inode(p) = Inode(dir) THEN p
    ELSE Getcwd(~Darwin \/ "DYLD" \in e, e)

Ran(p, where, cwd) == [path |-> p, where |-> where, dir |-> dir, cwd |-> cwd]

(* A mutation: the broker maps the path of a command and not its directory. *)
ExecRemoteUnmapped(p, e, forked) ==
    /\ Hooked /\ ~Missed(forked) /\ ~StaysLocal(p) /\ (Darwin => "MPROXY" \in env)
    /\ last' = IF Darwin /\ "MPROXY" \notin e THEN Ran(p, "nowhere", None)
               ELSE Ran(p, "remote", ShimGetwd(e))
    /\ UNCHANGED <<conf, dir, pwd, env, loaded, dropped, skewed>>

(* handleSyscallStop, mproxy_execve and mproxy_posix_spawn: a command that  *)
(* leaves, from a process forked for it or from that of the program.  Its   *)
(* environment e finds the broker, or the shim gives up.                    *)
ExecRemote(p, e, forked) ==
    /\ Hooked /\ ~Missed(forked) /\ ~StaysLocal(p) /\ (Darwin => "MPROXY" \in env)
    /\ last' = IF Darwin /\ "MPROXY" \notin e THEN Ran(p, "nowhere", None)
               ELSE Ran(p, "remote", PathMapper(ShimGetwd(e)))
    /\ UNCHANGED <<conf, dir, pwd, env, loaded, dropped, skewed>>

(* A mutation: every local command loses the library. *)
ExecEnvStripped(e) == e \ {"DYLD"}

(* build_exec_envp *)
ExecEnv(e) == IF conf.strip THEN e \ {"DYLD"} ELSE e

(* remapAllowedExecPWD: $PWD is remapped, or left alone if the tracer       *)
(* cannot write it.                                                         *)
ExecPwd(seen) == IF seen THEN {pwd, Remapped(pwd, env)} ELSE {pwd}

(* A command that stays, seen from its own process: a listed one, or any    *)
(* if the tracer misses it, or the interposer is missing or cannot find the *)
(* shim.                                                                    *)
ExecLocal(p, e, forked) ==
    LET seen == Hooked /\ ~Missed(forked) IN
    /\ ~seen \/ StaysLocal(p) \/ (Darwin /\ "MPROXY" \notin env)
    /\ env' = Dyld(p, IF seen /\ Darwin /\ StaysLocal(p) THEN ExecEnv(e) ELSE e)
    /\ loaded' = (Darwin /\ "DYLD" \in env')
    /\ pwd' \in ExecPwd(seen) /\ Len(pwd') <= MaxDepth
    /\ dropped' = (dropped \/ e # env \/ (Darwin /\ p \in Hardened))
    /\ last' = Ran(p, IF Missed(forked) THEN "missed" ELSE "local", None)
    /\ skewed' = ~Darwin
    /\ UNCHANGED <<conf, dir>>

(* mproxy_execv and mproxy_execvp change the environment of the process     *)
(* itself, and it goes on with that when the exec fails.                    *)
ExecvFails(p) ==
    /\ Darwin /\ loaded /\ StaysLocal(p)
    /\ env' = ExecEnv(env) /\ pwd' = Remapped(pwd, env) /\ Len(pwd') <= MaxDepth
    /\ last' = None
    /\ UNCHANGED <<conf, dir, loaded, dropped, skewed>>

(* The environment a program gives its command. *)
Given == IF Darwin THEN SUBSET env ELSE {{}}

WorkDirStep ==
    /\ \/ \E d \in Places : Chdir(d)
       \/ /\ at = "runs" /\ conf # None
          /\ \E p \in Commands :
                \/ \E e \in Given, forked \in BOOLEAN : ExecRemote(p, e, forked) \/ ExecLocal(p, e, forked)
                \/ ExecvFails(p)
    /\ UNCHANGED <<resolveVars, mountVars, at, req>>

-----------------------------------------------------------------------------
(* The remote directory the container shows at d. *)
Shows(d) == IF Bound(d) = 0 THEN d ELSE RewritePathPrefix(d, mounts[Bound(d)])

(* Parents are listed before what is nested in them, and nothing nested in  *)
(* another mount is mounted where it is: otherwise the mapper, which takes  *)
(* the longest path that moves, and the binds, of which the last is seen,   *)
(* disagree.                                                                *)
Nested(m, n) == m # n /\ Within(m.container, n.container)
Regular ==
    \A j, k \in DOMAIN mounts :
        Nested(mounts[j], mounts[k]) => j < k /\ mounts[k].container # mounts[k].remote

(* cwd_remap turns the first mount's path into its remote path, which the   *)
(* mapper must not take for one of the container: nothing else is mounted   *)
(* inside the first mount, no mount moves what is at, above or below its    *)
(* remote path, and no stub is there.                                       *)
RemapUnambiguous ==
    /\ \A k \in DOMAIN mounts :
          LET m == mounts[k] IN
          /\ k # 1 => ~Within(Workspace.container, m.container)
          /\ m.container # m.remote =>
                ~Within(m.container, Workspace.remote) /\ ~Within(Workspace.remote, m.container)
    /\ \A n \in DOMAIN stubs : ~Within(Workspace.remote, Append(PathStubDir, n))

(* "Translate container paths to remote paths so the agent can resolve the  *)
(* working directory": a remote command runs in the remote directory that   *)
(* its program's real working directory shows, whichever of getcwd and a    *)
(* current or stale $PWD the shim believes, and with or without cwd_remap.  *)
RunsWhereShown ==
    last # None /\ last.where = "remote" /\ Regular /\ (conf.remap => RemapUnambiguous) =>
        last.cwd = Shows(last.dir)

(* Each command runs on the side local_commands names, however long the     *)
(* chain of programs that leads to it, with these exceptions. On Linux the  *)
(* tracer misses an exec in a process that has succeeded with one before.   *)
(* On Darwin a program can withhold the interposer's variables, dyld does   *)
(* so for hardened programs, whose commands then stay local, the operator   *)
(* can choose to strip them, and the library may not be found.              *)
RoutedAsListed ==
    last # None /\ ~dropped /\ last.where \notin {"nowhere", "missed"}
      /\ (Darwin => conf.dylib /\ ~conf.strip) =>
        (last.where = "local" <=>
            \/ \E entry \in local : MatchLocalCommand(entry, last.path)
            \/ ~Darwin /\ \E matched \in Regexes : last.path \in matched)
=============================================================================
