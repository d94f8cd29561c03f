------------------------------ MODULE Runtime ------------------------------
(***************************************************************************)
(* One run of machineproxy: the configuration (Config), the supervisor's   *)
(* six steps (pkg/supervisor/supervisor.go) over runtimeDeps               *)
(* (cmd/machineproxy/runtime.go), and the deferred Close, which has to     *)
(* undo whatever the steps before a failure have done.                     *)
(*                                                                         *)
(* What matters is who owns which directory: a FUSE mount of the workspace *)
(* is writable, so removing a directory tree that is still mounted removes *)
(* the files of the remote machine.                                        *)
(***************************************************************************)
EXTENDS Config

CONSTANTS
    Requests      \* what machineproxy may be asked, and what it meets

(* A path and a mount as they are written, and the settings of a file. *)
Written == Paths \cup {"~", "rel"}
Mount == [local : Written, remote : Written]
Settings == {"type", "host", "user", "port", "container", "project", "service", "seq", "os",
             "arch", "mounts", "auto", "workdir", "mode", "sound"}

(* Of a destination [/service[/seq]] there may be neither, or the first.    *)
ASSUME RequestsAssumption ==
    \A r \in Requests :
        /\ r.cli.mounts \in Seq(Mount) /\ r.file.mounts \in Seq(Mount)
        /\ DOMAIN r.file = Settings
        /\ r.cli.dest # NoDest =>
               /\ {r.cli.dest.port, r.cli.dest.seq} \subseteq Int
               /\ r.cli.dest.service = "" => r.cli.dest.seq = 0

VARIABLES
    darwin,    \* no bind mounts: a mount lives at its FUSE directory
    req,       \* [cli, file, info, home, where]: the command line, the file, the
               \*   platform the remote machine reports, its home directory, and
               \*   where an agent binary is found
    cfg,       \* d.cfg, once the configuration is complete
    agent,     \* the agent binary of the broker's transfers, and for Docker of
               \*   StartBackend's; <<>> before
    step,      \* where the supervisor, or Close, is
    i,         \* the entry MountWorkspace is at
    dirs,      \* host directories made so far: sequence of [remote, state]
    mounts,    \* d.mounts: sequence of [local, remote, dir, server]
    busy,      \* directories whose unmount failed
    stub,      \* path-stub directory: "none", "mounted", "removed", "busy"
    sock,      \* broker socket directory: "none", "dir", "bound" once the socket
               \*   file is in it, "removed"
    broker,    \* the goroutine: "off", "starting", "bound", "serving", "failed", and
               \*   "stopped" by its context
    wiped      \* remote paths whose files were removed

vars == <<darwin, req, cfg, agent, step, i, dirs, mounts, busy, stub, sock, broker, wiped>>
settled == <<darwin, req, cfg>>
given == <<settled, agent>>
bkr == <<sock, broker>>

Init ==
    /\ darwin \in BOOLEAN /\ req \in Requests
    /\ cfg = <<>> /\ agent = <<>>
    /\ step = "config" /\ i = 1
    /\ dirs = <<>> /\ mounts = <<>> /\ busy = {}
    /\ stub = "none"
    /\ sock = "none" /\ broker = "off"
    /\ wiped = {}

-----------------------------------------------------------------------------
(* The configuration *)

Goto(ok) == step' \in {ok, "close"}

(* main.run: the request is refused, or ends for a reason of its own (a     *)
(* file that does not decode, no command, a backend that is not compiled    *)
(* in) before there is anything to close.                                   *)
Configure ==
    /\ step = "config"
    /\ LET cs == configure(req.cli, req.file)
       IN \/ cs = {} /\ cfg' = cfg /\ step' = "refused"
          \/ cfg' \in cs /\ step' = "backend"
          \/ cfg' = cfg /\ step' = "done"
    /\ UNCHANGED <<darwin, req, agent, i, dirs, mounts, busy, stub, bkr, wiped>>

Located(c) == ResolveAgentBinaryPath(c, req.where)

-----------------------------------------------------------------------------
(* Steps 1 and 2: StartBackend, EnterNamespace *)

(* The connection, the platform, and for Docker the agent's upload. *)
StartBackend ==
    /\ step = "backend"
    /\ \/ step' = "close" /\ UNCHANGED <<cfg, agent>>
       \/ /\ cfg' = resolveRemotePlatform(cfg, req.info)
          /\ \/ cfg.type = "ssh" /\ agent' = agent /\ step' = "namespace"
             \/ cfg.type # "ssh" /\ agent' \in Located(cfg') /\ step' = "namespace"
             \/ cfg.type # "ssh" /\ agent' = agent /\ step' = "close"
    /\ UNCHANGED <<darwin, req, i, dirs, mounts, busy, stub, bkr, wiped>>

EnterNamespace ==
    /\ step = "namespace" /\ Goto("files")
    /\ UNCHANGED <<given, i, dirs, mounts, busy, stub, bkr, wiped>>

-----------------------------------------------------------------------------
(* Step 3: MountWorkspace *)

(* preflightFUSE, Files, Getwd and the options: nothing to undo yet. *)
MountBegin ==
    /\ step = "files" /\ Goto("mount")
    /\ UNCHANGED <<given, i, dirs, mounts, busy, stub, bkr, wiped>>

(* An entry of container.mounts, as ParseMount and ExpandRemoteHome read it. *)
Entry(m) == [local |-> ExpandLocalHome(m.local), remote |-> ExpandRemoteHome(m.remote, req.home)]
Entries == [k \in DOMAIN cfg.mounts |-> Entry(cfg.mounts[k])]

(* Any directory that is mounted. *)
fuseByAny(r) ==
    LET D == {d \in DOMAIN dirs : dirs[d].state = "mounted"}
    IN IF D = {} THEN 0 ELSE CHOOSE d \in D : TRUE

(* fuseByRemote: the directory that serves a remote path, 0 when none. *)
fuseByRemote(r) ==
    LET D == {d \in DOMAIN dirs : dirs[d].remote = r /\ dirs[d].state = "mounted"}
    IN IF D = {} THEN 0 ELSE CHOOSE d \in D : TRUE

(* The entry becomes an instance unless its container path is taken. *)
Keep(m, d, server) ==
    LET path == IF darwin THEN <<"fuse", d>> ELSE <<"local", m.local>>
        inst == [path |-> path, remote |-> m.remote, dir |-> d, server |-> server]
    IN mounts' = IF \E k \in DOMAIN mounts : mounts[k].path = path
                 THEN mounts ELSE Append(mounts, inst)

MountShared ==
    /\ step = "mount" /\ i <= Len(cfg.mounts) /\ fuseByRemote(Entries[i].remote) # 0
    /\ Keep(Entries[i], fuseByRemote(Entries[i].remote), FALSE)
    /\ i' = i + 1
    /\ UNCHANGED <<given, step, dirs, busy, stub, bkr, wiped>>

MountFresh ==
    /\ step = "mount" /\ i <= Len(cfg.mounts) /\ fuseByRemote(Entries[i].remote) = 0
    /\ dirs' = Append(dirs, [remote |-> Entries[i].remote, state |-> "mounted"])
    /\ Keep(Entries[i], Len(dirs'), TRUE)
    /\ i' = i + 1
    /\ UNCHANGED <<given, step, busy, stub, bkr, wiped>>

(* Stat or MkdirTemp fails, or the mount itself, which leaves its directory. *)
MountFails ==
    /\ step = "mount" /\ i <= Len(cfg.mounts) /\ fuseByRemote(Entries[i].remote) = 0
    /\ \/ dirs' = dirs
       \/ dirs' = Append(dirs, [remote |-> Entries[i].remote, state |-> "dir"])
    /\ step' = "undo"
    /\ UNCHANGED <<given, i, mounts, busy, stub, bkr, wiped>>

MountDone ==
    /\ step = "mount" /\ i > Len(cfg.mounts)
    /\ step' = "stubs"
    /\ UNCHANGED <<given, i, dirs, mounts, busy, stub, bkr, wiped>>

Served == {mounts[k].dir : k \in {n \in DOMAIN mounts : mounts[n].server}}

(* The directories are removed, the servers are left to the end of the      *)
(* process.                                                                 *)
UnmountNone(failed) == dirs

(* Unmount each server; RemoveAll each directory once: what is still        *)
(* mounted is emptied, and stays.                                           *)
UnmountAll(failed) ==
    [d \in DOMAIN dirs |->
        IF d \in Served \ failed THEN [dirs[d] EXCEPT !.state = "dir"] ELSE dirs[d]]

RemoveAll(ds, owned) ==
    [d \in DOMAIN ds |->
        IF d \in owned /\ ds[d].state = "dir" THEN [ds[d] EXCEPT !.state = "removed"] ELSE ds[d]]

(* An unmount fails while the mount is in use, which is only logged. *)
ReleaseMounts ==
    \E failed \in SUBSET Served :
        LET ds == UnmountAll(failed)
            owned == {mounts[k].dir : k \in DOMAIN mounts}
        IN /\ dirs' = RemoveAll(ds, owned) /\ busy' = busy \cup failed
           /\ wiped' = wiped \cup {ds[d].remote : d \in {e \in owned : ds[e].state = "mounted"}}
           /\ mounts' = <<>>

(* The instances are forgotten, their mounts left to the end of the process. *)
MountUndoForgets ==
    /\ step = "undo" /\ mounts' = <<>>
    /\ step' = "close"
    /\ UNCHANGED <<given, i, dirs, busy, stub, bkr, wiped>>

(* The deferred function of MountWorkspace. *)
MountUndo ==
    /\ step = "undo" /\ ReleaseMounts
    /\ step' = "close"
    /\ UNCHANGED <<given, i, stub, bkr>>

-----------------------------------------------------------------------------
(* Step 4: BuildPathStubs *)

(* Path proxy disabled, or nothing to mount; or the enumeration fails, or   *)
(* the mount, after which the directory is removed again.                   *)
StubsSkipped ==
    /\ step = "stubs" /\ Goto("broker")
    /\ UNCHANGED <<given, i, dirs, mounts, busy, stub, bkr, wiped>>

StubsFail ==
    /\ step = "stubs" /\ Located(cfg) # {}
    /\ stub' = "removed" /\ step' = "close"
    /\ UNCHANGED <<given, i, dirs, mounts, busy, bkr, wiped>>

StubsMounted ==
    /\ step = "stubs" /\ Located(cfg) # {}
    /\ stub' = "mounted" /\ step' = "broker"
    /\ UNCHANGED <<given, i, dirs, mounts, busy, bkr, wiped>>

-----------------------------------------------------------------------------
(* Step 5: StartBroker and the broker's goroutine *)

(* The socket's directory, then the agent binary and the recorder: a        *)
(* failure of those leaves the directory to Close.                          *)
StartBroker ==
    /\ step = "broker"
    /\ \/ sock' = "none" /\ broker' = "off" /\ agent' = agent /\ step' = "close"
       \/ sock' = "dir" /\ broker' = "off" /\ agent' = agent /\ step' = "close"
       \/ sock' = "dir" /\ broker' = "starting" /\ agent' \in Located(cfg) /\ step' = "wait"
    /\ UNCHANGED <<settled, i, dirs, mounts, busy, stub, wiped>>

(* net.Listen binds, which makes the socket file, and then listens: until   *)
(* it does, a connection is refused.                                        *)
BrokerBinds ==
    /\ broker = "starting"
    /\ \/ sock = "dir" /\ sock' = "bound" /\ broker' = "bound"
       \/ sock' = sock /\ broker' = "failed"
    /\ UNCHANGED <<given, step, i, dirs, mounts, busy, stub, wiped>>

(* A failure leaves the file; a context that has ended closes the listener. *)
BrokerListens ==
    /\ broker = "bound"
    /\ broker' \in {"failed", IF sock = "removed" THEN "stopped" ELSE "serving"}
    /\ UNCHANGED <<given, step, i, dirs, mounts, busy, stub, sock, wiped>>

(* Accept fails: Start returns and leaves the socket to Close. *)
BrokerAcceptFails ==
    /\ broker = "serving" /\ broker' = "failed"
    /\ UNCHANGED <<given, step, i, dirs, mounts, busy, stub, sock, wiped>>

(* The wait for the socket file, two seconds at most, with the look at it   *)
(* up to a tick old when they are over.                                     *)
BrokerReady ==
    /\ step = "wait"
    /\ \/ sock = "bound" /\ step' = "child"
       \/ step' = "close"
    /\ UNCHANGED <<given, i, dirs, mounts, busy, stub, bkr, wiped>>

-----------------------------------------------------------------------------
(* Step 6: RunChild: an early error or the end of bwrap; then Close *)

RunChild ==
    /\ step = "child" /\ step' = "close"
    /\ UNCHANGED <<given, i, dirs, mounts, busy, stub, bkr, wiped>>

(* Close: the broker's context and socket. A goroutine that had not bound   *)
(* its socket yet finds no directory for it, one that had not listened yet  *)
(* listens and stops.                                                       *)
CloseBroker ==
    /\ step = "close" /\ step' = "closeStubs"
    /\ sock' = IF sock = "none" THEN "none" ELSE "removed"
    /\ broker' = IF broker = "serving" THEN "stopped" ELSE broker
    /\ UNCHANGED <<given, i, dirs, mounts, busy, stub, wiped>>

(* The stub file system is read-only: RemoveAll cannot empty it. *)
CloseStubs ==
    /\ step = "closeStubs" /\ step' = "closeMounts"
    /\ stub' \in IF stub # "mounted" THEN {stub} ELSE {"removed", "busy"}
    /\ UNCHANGED <<given, i, dirs, mounts, busy, bkr, wiped>>

CloseMounts ==
    /\ step = "closeMounts" /\ ReleaseMounts
    /\ step' = "done"
    /\ UNCHANGED <<given, i, stub, bkr>>

Exited == step \in {"done", "refused"} /\ UNCHANGED vars

Next ==
    \/ Configure \/ StartBackend \/ EnterNamespace
    \/ MountBegin \/ MountShared \/ MountFresh \/ MountFails \/ MountDone \/ MountUndo
    \/ StubsSkipped \/ StubsFail \/ StubsMounted
    \/ StartBroker \/ BrokerBinds \/ BrokerListens \/ BrokerAcceptFails \/ BrokerReady
    \/ RunChild \/ CloseBroker \/ CloseStubs \/ CloseMounts \/ Exited

Spec == Init /\ [][Next]_vars

-----------------------------------------------------------------------------
(* What was asked for, read off the request without the order of run: the   *)
(* destination before the flag before the file for the backend, the flags   *)
(* before the destination before the file for the rest.                     *)

FirstSet(s) ==
    LET S == {k \in DOMAIN s : s[k] \notin {""}}
    IN IF S = {} THEN "" ELSE s[CHOOSE k \in S : \A n \in S : k <= n]
FirstNumber(s) ==
    LET S == {k \in DOMAIN s : s[k] # 0}
    IN IF S = {} THEN 0 ELSE s[CHOOSE k \in S : \A n \in S : k <= n]

cli == req.cli
file == req.file
Sent == cli.dest # NoDest
SentOr(field, unset) == IF Sent THEN cli.dest[field] ELSE unset

AskedType == FirstSet(<<SentOr("scheme", ""), cli.backend, file.type, "ssh">>)
AskedPort == FirstNumber(<<cli.port, SentOr("port", 0), file.port>>)
AskedTarget ==
    CASE AskedType = "ssh" ->
            <<IF Sent THEN <<cli.dest.host>> ELSE file.host,
              FirstSet(<<cli.user, SentOr("user", ""), file.user>>), AskedPort>>
      [] AskedType = "docker" -> <<IF Sent THEN <<cli.dest.host>> ELSE file.container>>
      [] OTHER -> IF Sent THEN <<<<cli.dest.host>>, cli.dest.service, cli.dest.seq>>
                  ELSE <<file.project, file.service, file.seq>>
Target ==
    CASE cfg.type = "ssh" -> <<cfg.host, cfg.user, cfg.port>>
      [] cfg.type = "docker" -> <<cfg.container>>
      [] OTHER -> <<cfg.project, cfg.service, cfg.seq>>

AskedMounts ==
    IF cli.mounts \o file.mounts = <<>> THEN <<[local |-> Cwd, remote |-> Cwd]>>
    ELSE cli.mounts \o file.mounts
AskedDir == FirstSet(<<cli.workdir, file.workdir>>)

(* A request that names a machine the way its backend is named, and is      *)
(* otherwise well formed.                                                   *)
Sound ==
    /\ CASE AskedType = "ssh" ->
               /\ IF Sent THEN /\ cli.dest.host # "" /\ cli.dest.service = ""
                               /\ cli.dest.port \in 0..MaxPort
                  ELSE file.host # <<"">>
               /\ AskedPort \in 0..MaxPort
         [] AskedType = "docker" ->
               IF Sent THEN /\ cli.dest.host # "" /\ cli.dest.user = ""
                            /\ cli.dest.port = 0 /\ cli.dest.service = ""
               ELSE file.container # <<"">>
         [] AskedType = "compose" ->
               IF Sent THEN /\ cli.dest.host # "" /\ cli.dest.service # ""
                            /\ cli.dest.user = "" /\ cli.dest.port = 0 /\ cli.dest.seq >= 0
               ELSE file.service # "" /\ file.seq >= 0
         [] OTHER -> FALSE
    /\ cli.port # 0 \/ cli.user # "" => AskedType = "ssh"
    /\ \A m \in Range(AskedMounts) : "rel" \notin {m.local, m.remote}
    /\ AskedDir # "rel" /\ (file.mode = "explicit" => AskedDir # "") /\ file.sound

(* -p and -l are refused when the backend is ssh by default only: the       *)
(* default is set after they have been looked at.                           *)
LateDefault == ~Sent /\ cli.backend = "" /\ file.type = "" /\ (cli.port # 0 \/ cli.user # "")

(* "The destination URL scheme takes precedence when both are given": it is *)
(* refused.                                                                 *)
Conflict == Sent /\ cli.backend \notin {"", AskedType}

(* project/service for ssh, and name:port for Docker, are taken for a name. *)
Misread == Sent /\ ((AskedType = "ssh" /\ cli.dest.service # "")
                    \/ (AskedType = "docker" /\ cli.dest.port # 0))

(* Whatever the file, the flags and the destination are, a sound request is *)
(* not refused, and a run that gets as far as the child is connected to the *)
(* machine that was asked for, as the user and in the directory that were   *)
(* asked for; and its agent is the one that was named, the one beside       *)
(* machineproxy, or the one installed for the platform that was pinned,     *)
(* reported or, last, is local.                                             *)
AsAsked ==
    /\ step = "refused" => ~Sound \/ LateDefault \/ Conflict
    /\ step = "child" =>
           /\ Misread \/ (Sound /\ cfg.type = AskedType /\ Target = AskedTarget)
           /\ cfg.workdir = ExpandLocalHome(AskedDir)
           /\ \/ agent \in {<<"env">>, <<"conf">>, <<"sibling">>}
              \/ agent = <<FirstSet(<<cli.os, file.os, req.info.os, LocalOS>>),
                           FirstSet(<<cli.arch, file.arch, req.info.arch, LocalArch>>)>>

BoundAt(p) == {mounts[k].remote : k \in {n \in DOMAIN mounts : mounts[n].path = <<"local", p>>}}

(* An identity entry whose remote path is written with "~" is bound at that *)
(* path of the local home directory, which it may take from another.        *)
HomesDiffer == req.home # LocalHome /\ \E m \in Range(AskedMounts) : m.remote = "~"

(* What the child sees: one bind per container path, each backed by a live  *)
(* mount of its own remote path; what is bound are the configured container *)
(* paths, among them all that were asked for; the first mount asked for is  *)
(* the workspace; with auto_identity_mounts "the mounted content is also    *)
(* reachable at its remote path", unless an entry has that path already or  *)
(* the homes differ; and the broker's socket is at its path, with a broker  *)
(* behind it that serves, is about to listen on it, or has failed: the file *)
(* that ends the wait is there a moment before anyone listens.              *)
BindsServed ==
    step = "child" =>
        /\ sock = "bound" /\ broker \in {"bound", "serving", "failed"}
        /\ \A k \in DOMAIN mounts :
               /\ dirs[mounts[k].dir].state = "mounted"
               /\ dirs[mounts[k].dir].remote = mounts[k].remote
               /\ \A n \in DOMAIN mounts : mounts[n].path = mounts[k].path => n = k
        /\ mounts[1].remote = Entry(AskedMounts[1]).remote
        /\ ~darwin => {mounts[k].path : k \in DOMAIN mounts}
                        = {<<"local", Entries[k].local>> : k \in DOMAIN Entries}
        /\ ~darwin => \A m \in Range(AskedMounts) :
               LET e == Entry(m)
                   Taken == \E n \in Range(AskedMounts) :
                                Entry(n).local = e.remote /\ Entry(n).remote # e.remote
               IN /\ BoundAt(e.local) # {}
                  /\ file.auto /\ ~Taken /\ ~HomesDiffer => BoundAt(e.remote) = {e.remote}

(* Two entries with one container path: the server of the second is mounted *)
(* and then forgotten, while its directory may serve a third.               *)
Forgotten ==
    ~darwin /\ \E j, k \in DOMAIN Entries :
        Entries[j].local = Entries[k].local /\ Entries[j].remote # Entries[k].remote

(* "Unmount every FUSE server first, then remove the host dirs": whatever   *)
(* step failed, no directory is removed while it is a mount of the remote   *)
(* file system, but for one that could not be unmounted.                    *)
RemoteIntact == wiped # {} /\ ~Forgotten => wiped \subseteq {dirs[d].remote : d \in busy}

(* At the end no mount, broker or directory is left, except a mount in use  *)
(* and the directory of a mount that failed, which ends MountWorkspace and  *)
(* so is the last.                                                          *)
NothingLeft ==
    step = "done" /\ cfg # <<>> /\ ~Forgotten =>
        /\ \A d \in DOMAIN dirs \ busy :
               \/ dirs[d].state = "removed"
               \/ dirs[d].state = "dir" /\ d = Len(dirs)
        /\ stub # "mounted" /\ sock \in {"none", "removed"} /\ broker # "serving"
=============================================================================
