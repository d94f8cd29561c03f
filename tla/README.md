# A TLA+ model of MachineProxy

MachineProxy runs a program locally while the commands that program starts run
on another machine, over SSH or in a Docker container. This directory holds
TLA+ modules that model the program from its source, TLC configurations that
check them on small instances, and proofs that TLAPS checks. `PROJECT.json`
lists, for every definition, the source lines it stands for.

Paths below are relative to `src/`.

## 1. The system

    user's program  --exec-->  tracer (ptrace)  --rewritten exec-->  mproxy-shim
                                                                        | unix socket
    remote child <-- mproxy-agent <-- SSH / Docker session <-- runner <-- broker
    workspace (FUSE)  ------>  file client (SFTP, or file operations of an agent)

| Part | State | Operations | What makes it hard | What must hold |
|---|---|---|---|---|
| Subreaper `pkg/subreaper` | watched, pending, SIGCHLD channel | Run, reapAll, deliver, WaitFor | children exit before, during and after registration; SIGCHLDs merge | every waiter gets its own child's status; no zombie sleeps |
| Agent `cmd/mproxy-agent` | child, bridges, read loop | start, copy, signal, tear down, exit | output races the exit; the connection dies; pipes fill | exit frame last; loss ends the process group |
| Command path: `cmd/mproxy-shim`, `pkg/broker`, `pkg/remoteexec` | three processes and about ten goroutines for each command | forward input, output, descriptors, signals, exit code | four bounded channels in a row; any side dies first | nothing lost or reordered; everything ends |
| Tracer `pkg/tracer` | per-pid entry/exit toggle | handle stops, rewrite execs and getcwd | the kernel's order of fork, stop and exec events | every non-local exec is redirected |
| File RPC `pkg/agentproto` | pending calls, file handles | FileOp, deliver, failPending, Handle, Close | concurrent calls, cancellation, late answers, wrapping ids | every answer reaches its caller; nothing leaks |
| Docker session and backend `pkg/remote/docker` | hijacked stream, shared file client | Start, Wait, Close, Files, UploadAgent | a blocked demultiplexer; a cut stream; racing first uses | Wait tells the truth and returns; one shared client |
| SSH backend `pkg/sshconn`, `pkg/remote/ssh` | current connection, SFTP client | connect, keepalive, reconnect, Close | reconnects under users' feet | no leaked connection; dead ones are replaced |
| Configuration `pkg/config`, `pkg/remote/destination.go`, `cmd/machineproxy/main.go` | the configuration being put together | file, destination, flags, defaults, validation, platform | each step sees what is set so far; two home directories | the machine, the agent and the mounts are those asked for |
| Runtime `cmd/machineproxy/runtime.go` | mounts, directories, broker | the supervisor's steps, Close | failure at any step; shared mounts | remote files survive, nothing local is left |
| Workspace `pkg/workspacefs` | nodes' paths, open files, id maps | lookup, open, create, write, setattr, mkdir, link, symlink, rename, removal | several remote calls in one request; stale paths | owners and files are the ones meant |
| Recording `pkg/agentproto/recording.go` | file, sequence number | Start/WriteFrame/EndCommand, Close | concurrent commands; shutdown | records can be attributed |
| Agent upload `pkg/agenttransfer` | resolved path, remote file | Ensure, UploadAgent | concurrent first commands; failures half-way | only whole executables are started |
| Environment `pkg/envfilter`, `pkg/tracer/env.go`, `pkg/ns/env.go` | environment at four places | inherit, change, filter twice | filters that feed each other | kept is kept, removed is removed |
| Path stubs and mapper `pkg/pathstub`, `cmd/machineproxy/pathmapper.go` | stub table, mount list | enumerate, filter, map | nested and identity mounts | a path means the same file on both sides |
| Working directory and Darwin interposer `pkg/ns`, `pkg/tracer/env.go`, `darwin/interposer` | directory, $PWD, the interposer's variables | start, chdir, getcwd, exec in all its forms | two mappings in a row; settings that each process hands to the next | a command runs on its side, in the directory its program is in |
| Initial command `pkg/initcmd` | whitelist | LookPath, DeriveLocalCommands | #! lines, env, the stub directory | the program itself stays local |
| Dialling, Docker contexts, register access, logging | none that lasts | parsing, formatting | | not modelled (section 8) |

The hazards of each part, with the line where they bite and the properties that
watch them, are the list `hazards` of `PROJECT.json`.

## 2. The modules

Each component has one module. A module whose name begins with `MC` gives
constants their values for TLC; one that ends in `Proofs` holds theorems. What a
user configures (the backend, the mounts, the filters' options) is chosen in
the initial state, so that one run covers all of it.

* **ChildWait** is the abstract promise of a reaper: a WaitFor returns once, with
  the status of its child. **Reaper** is the code: the goroutine of `Run`, the
  merging of SIGCHLDs in the kernel and in the channel, and the callers of
  `WaitFor`. `Reaper` implements `ChildWait` (checked and proved).
* **Agent** is the agent from its request to its exit: main goroutine, read loop,
  one bridge per output stream, the child's process group, pipes of bounded
  capacity. Where the code calls WaitFor it takes the steps `ChildWait` allows
  (by hand, not by INSTANCE). **RemoteCommand** extends it with shim, broker and
  `AgentRunner`, every goroutine a process of its own. **Command** is what all of
  them together promise the user of a redirected command, with no word of how:
  input and output in order, one exit code, after the last output, or 127 for a
  command that was not started or was lost. `RemoteCommand` implements `Command`
  (`KeepsPromise`, checked and proved), also when the link or a process is lost.
  The end of machineproxy itself has two steps: Close cancels the context, which
  the runner's read loop notices before its next frame, and then the process
  ends. `reader` says who reads the agent's stdout after a loss: with Docker the
  daemon goes on draining it, with SSH nobody does and the next write ends the
  agent.
* **Tracer** is `traceLoop` and `handleSyscallStop` over a model of what ptrace
  reports: fork events and initial stops in either order, syscall stops, exec
  events, exits. A forked child reports no syscall-exit stop of the fork. Any
  access to a process's registers or memory may fail, and a process may be
  killed in any stop, also in one the tracer has not heard of yet.
* **FileRPC** is the multiplexed file operations: callers, read loop, server,
  handle table, `Close`. Ids and handles count modulo the size of their type.
* **DockerSession** is one exec with its demultiplexer, `Wait` and `Close`, used
  by `execCapture` or by the runner. **DockerBackend** is `Start`, `UploadAgent`,
  `Files` and `Close` of the backend with concurrent callers and the file-op
  agents they launch. **Docker** puts the two side by side: a behaviour follows
  one session or the backend, whose sessions close as `CloseEndsGoroutines` says.
* **SshBackend** is the connection manager and the users of its connection. A
  "dead" connection is one whose peer is gone; operations on it fail or hang
  until a keepalive finds out.
* **Config** is what `run` makes of the configuration file, the destination and
  the flags, in its order, as operators that return a set, empty when the request
  is refused; and what is settled later: the platform, the agent binary, the
  home directories of the mounts. **Runtime** extends it with the supervisor's
  order of steps and a failure at any of them, `MountWorkspace` with shared FUSE
  directories, the broker, whose socket file is there before it listens, and
  `Close`. What was asked for (`AskedTarget`, `AskedMounts`,
  `Sound`) is defined a second time, as an order of precedence, and compared.
* **IdMap** is the translation of owners as pure operators; **WorkspaceFS** uses
  it for a directory of files, directories and links with open handles, in steps
  as small as the remote calls. `touched` remembers the requests whose file or
  name others changed between two of their calls.
* **AgentUpload** is `Transferer.Ensure` with the two backends' uploads, and
  **Recording** extends it: `RunWithControl` first gets the agent, then records
  the session it runs. A write to the recording may fail.
* **EnvForward** follows the environment from the user's shell to the remote
  command: `env_remove`, the stub directory in PATH, the tracer's list of
  changes, and the filter that broker and agent both apply.
* **InitCommand** resolves the initial command and derives its local commands;
  **PathStub** extends it with the mounts, realized one by one from the list that
  `Config` leaves, the stub table, which leaves out what the local commands
  claim, and the broker's path mapper. **WorkDir** extends
  that with a program that moves about and starts commands: its working
  directory, what getcwd and `$PWD` tell it under `cwd_remap`, the tracer on
  Linux, which misses an exec by a process that has succeeded with one before,
  and on Darwin the interposer with the environment it depends on, which a
  program can withhold and dyld takes from programs with the hardened runtime
  (`Hardened`).
  **CommandPaths** adds the execs of the initial command's own chain.

Composition: `RemoteCommand` extends `Agent`, which relies on what `Reaper` is
shown to implement; `Docker` extends `DockerSession` and `DockerBackend`;
`Runtime` extends `Config`; `Recording` extends `AgentUpload`; `WorkspaceFS`
extends `IdMap`; `CommandPaths` extends `WorkDir`, that `PathStub`, and that
`InitCommand`. The others meet at interfaces that are values (an environment, a
client, a mount list).

## 3. What the runs check

| Run | States | Properties | What it shows |
|---|---|---|---|
| `reaper` | 31 thousand | ZombieHasWakeup, StatusNeverLost, AbstractSpec, WaitForReturns | no status lost, no zombie without a wake-up, every WaitFor of a child that exits returns, `ChildWait` implemented |
| `command_data` | 1.3 million | KeepsPromise | `Command` implemented with stdout and an extra descriptor that carries data both ways, signals, and a start that may fail |
| `command_live` | 0.4 million | KeepsPromise, CommandReturns, GoroutinesEnd, LossEndsGroup | `Command` implemented with the link, the shim, the broker's context or the broker lost at any moment; commands return, goroutines end, a lost connection ends the remote group |
| `tracer` | 0.7 million | FirstExecRedirected, InitialStopSuppressed, GetcwdRemapped, LoopTerminates | the first exec of each process is redirected, initial stops swallowed, getcwd remapped, the root's status returned with nobody left whom the tracer let run, though accesses fail and processes are killed |
| `filerpc` | 0.4 million | OwnAnswer, ReadsOwnFile, PendingAccounted, HandlesAccounted, CloseReleasesAll | own answer, own file, tables hold what is in use, Close releases every caller |
| `docker` | 38 thousand | WaitTellsTruth, WaitReturns, CloseEndsGoroutines, FilesShared, CloseReleases | the three promises of a session, with the stream cut at any time; racing first calls of Files share one client, and Close leaves none |
| `ssh` | 24 thousand | NoLeak, Reconnects | what is open is what the manager holds, dead connections are replaced |
| `runtime` | 0.9 million | AsAsked, BindsServed, RemoteIntact, NothingLeft | the run is connected, as asked, with the agent for the platform; the child sees the mounts asked for; remote files survive, nothing local is left, on Linux and Darwin |
| `workspace` | 4.9 million | WritesReachOpened, ChownShows, SetattrKeeps | writes reach the opened file, a chown shows, what was not asked for is kept unless others touch the file in between |
| `agent_runs` | 2.1 million | AgentStarts, Attributable | one upload for concurrent commands, only whole executables started, records attributable |
| `env` | 0.7 million | ForwardedExactly, ShimFindsBroker | exactly what is kept and not removed arrives, a shim finds its own broker |
| `command_paths` | 2.7 million | InitialStaysLocal, MapsToShown, RunsWhereShown, RoutedAsListed | the program itself stays local; a command that the tracer or the interposer sees runs on the side local_commands names, is the file its path shows, and runs in the directory its program is in |

Every property has a mutant in `PROJECT.json`: an operator with a plausible bug,
defined before the definition it replaces, under which the property fails.

## 4. Bounds

All bounds are constants. They are as small as they can be with the interesting
case still happening:

* Processes: two children and an orphan for the reaper (one waiter's child may
  exit while another is delivered); a leader and a helper for the agent's group;
  two traced processes (fork order), a local and a missing path, three stops for
  each, and at every stop any set of the accesses that can fail.
* Channels, pipes and links hold one element, so that every sender blocks and
  every "full" branch is taken. The SIGCHLD channel has capacity 1 instead of 8;
  the proofs hold for any capacity. The hijacked Docker stream holds two.
* `RemoteCommand` bounds the events that come from outside (a chunk of input, of
  output, a signal, a fork) by `MaxEvents` in all, of the kinds in `Kinds`, and
  has at most one fault. In `command_data` any two of input and output of an
  extra descriptor, output on stdout and signals meet in every pair of places;
  stdin ends there but carries no data, which takes the same hops as an extra
  descriptor's. `command_live` has one event (data on stdin, output or a fork),
  since the cost of a liveness check is in the graph, and neither signals nor
  extra descriptors; its leader and its helper ignore SIGTERM. The end of the
  context, with that of the process behind it, is one fault. An extra
  descriptor is always a stream in both directions (`AgentAssumption`).
* `FileRPC` starts its counters so that they wrap during a run, and makes fewer
  calls than there are ids (`FileRPCAssumption`); what happens when a counter
  comes full circle while an id is in use is outside the model. Two callers open
  a file each (`Opens`), so that a mixed-up answer or handle shows.
* Docker: four chunks on a stream of two; two callers and four calls of Files for
  the backend, so that a race is followed by a call that finds its winner.
* SSH: four dials, two of them failing. `Reconnects` is conditional on dials
  being left, so that the bound is not mistaken for a flaw.
* Runtime: three mounts over three paths, one more for each by
  auto_identity_mounts; sharing needs two, and a third to follow a dropped one.
  Paths below a home directory are one value, "~", with a remote home that is or
  is not the local one. For the machine: no destination, or one of six shapes
  without a scheme or with one of four, with every backend flag, three sets of
  flags, five types and three sets of blocks in the file. For the platform: each source that can be set
  or not, four ways an agent can be found.
* Workspace: two files, two names, two processes, ids modulo 8, in four uses:
  every Setattr by one process, for owners that the maps know as remote ids, as
  local ids and not at all; two processes that do everything to names and
  contents, owners and times of files, directories and links, and owners that
  remote processes change.
* Uploads and recording: two concurrent commands besides the query and the
  backend's own upload, one failure, a frame in each direction.
* Environment: one variable of each class of the filters, two values.
* Paths: every initial command (a local PATH of three entries, every kind of
  file) with one set of mounts, and every list of one or two mounts, with the
  identity mounts added for them, with two commands; a remote PATH of two
  directories, three names. A program that moves has eight directories to go to
  and four commands to run, one of them local and hardened, in its own process
  or in another, any number of times. On Darwin the initial command has no #!
  line with env (`DarwinAssumption`). `$PWD` has at most `MaxDepth`
  components, which matters where every exec lengthens it.

Deadlock is checked where the system should always be able to step
(`EnvForward`, `Runtime`, whose end is a step that repeats). Elsewhere a run of
the program simply ends, and the cfg says `CHECK_DEADLOCK FALSE`. Symmetry is
used with safety properties only.

## 5. Fairness

Liveness is checked under weak fairness of goroutines that the Go scheduler
runs when they can run, and of processes the kernel schedules; a select or a
read loop is one process, so fairness is of the disjunction. Nothing outside
the program is assumed to be kind except where the code depends on it:

* `Agent`: main, read loop, bridges, WaitFor; a process that was killed exits.
  Live processes need not exit, read or write.
* `RemoteCommand`: shim, broker, runner and their goroutines. Nobody has to
  send input, signals, or the end of either. A process whose context has ended
  ends: main returns after Close.
* `Reaper`: Run, the delivery of signals, and WaitFor's receive.
* `Tracer`: a stop of each pid is eventually reported and handled.
* `FileRPC`: callers, read loop, Close, server, each as one process. The
  connection may be lost at any time.
* `Docker`: the copying goroutines of a session, its caller, and the daemon's
  answer to an inspect of an exec that has exited. Nobody has to call Files or
  Close of the backend.
* `SshBackend`: weak fairness of manager, Start and users; strong fairness of
  the keepalive tick, since the loop's select is left and entered again while
  ticks keep coming.

## 6. Where code and words part

The properties of section 3 hold of the code as it is. In the places below the
code does less than a comment or a document says; the model follows the code,
and the property named has the case as an explicit exception or its inputs
leave it out.

| Place | What the code does | What is said | Where it shows here |
|---|---|---|---|
| `cmd/mproxy-agent/main.go:247` | logs the loss of the connection before it signals the child; with SSH the log goes to a closed stdout and SIGPIPE ends the agent | `:245` the child must not "keep running orphaned" | `LossEndsGroup`: `agent = "killed"` |
| `cmd/mproxy-agent/main.go:285` | the group is killed only if the leader outlives the grace period; members that ignore SIGTERM outlive a leader that does not | `:277` "escalating to SIGKILL if the group outlives the grace period" | `LossEndsGroup`: `status = 137` |
| `pkg/agentproto/mux.go:223` | ReadLoop writes the child's input itself, so what is behind unread input (a signal, the end) is not handled | `cmd/mproxy-agent/main.go:177` "Forward signals to the child's process group." | `CommandReturns`, `LossEndsGroup`: `Blocked` |
| `cmd/mproxy-shim/main.go:92` | the end of stdin half-closes the connection signals are sent on | `:77` "Forward signals to the broker." | `ShimForwardSignal` drops them |
| `cmd/mproxy-shim/main.go:193` | the end of an extra descriptor is not sent | `README.md:105` descriptor inheritance "works across the machine boundary" | `Command` is about data, not about its end |
| `pkg/tracer/tracer.go:195` | `inSyscall` is cleared at the exec event although the exit stop still follows, so the entry of the next exec is taken for an exit | `:193` "this replaces the syscall-exit stop" | `FirstExecRedirected` is about the first exec; `RoutedAsListed`: `"missed"` |
| `pkg/tracer/tracer.go:275` | an exec at whose entry the registers cannot be read goes ahead | `:47` "redirecting non-whitelisted exec calls" | `FirstExecRedirected`, `GetcwdRemapped`: `blind` |
| `pkg/tracer/tracer.go:146` | the loop counts the processes it has heard of: a child in its initial stop whose parent was killed at the fork event is left to PTRACE_O_EXITKILL | `:141` "until all traced pids exit" | `LoopTerminates`: `"initstop"` |
| `pkg/agentproto/mux.go:199` | the end of the context ends the read loop without an exit code, so the shim may report 127 for a command that runs or has succeeded | `pkg/remoteexec/runner.go:17` "returns the process exit code and an error if the request could not be started" | `Command`: `lost` |
| `pkg/agentproto/mux.go:149` | a call that registers after failPending waits until the client is closed | `:147` "so blocked callers don't hang forever" | `CloseReleasesAll` starts from Close |
| `pkg/remote/docker/session.go:127` | output behind the exit frame has no reader and blocks the demultiplexer, and with it Wait | `:169` "Wait blocks until the exec exits." | `WaitReturns`: `Unread` |
| `pkg/remote/docker/backend.go:168` | a call of Files that overlaps Close, or follows it, installs a client nobody closes | `pkg/remote/backend.go:33` "safe for concurrent use", `:79` Close "releases resources" | `CloseReleases`: `late` |
| `pkg/sshconn/manager.go:146` | without ServerAliveInterval nobody notices a dead connection | `pkg/sshconn/doc.go:5` "reconnecting sessions" | `Reconnects`: `keepAlive` |
| `pkg/sshconn/dialer.go:177` | a session is opened on a connection whose client Close has set to nil | `pkg/remote/backend.go:33` "safe for concurrent use" | the steps `SessionReads`, `SessionOpens`; `NoLeak` is about what is found under the lock |
| `cmd/machineproxy/runtime.go:259` | the workspace keeps the first connection's SFTP client | `pkg/sshconn/doc.go:5` "reconnecting sessions, SFTP clients" | `TakeFiles` takes it once |
| `pkg/sshconn/manager.go:155` | after Close the manager's goroutine reconnects at its next tick | `pkg/remote/backend.go:79` "Close terminates the connection" | `NoLeak` counts it as the manager's |
| `cmd/machineproxy/main.go:86` | -p and -l are refused when neither the file nor the command line names a backend: the default is set after they are looked at | `config/machineproxy.example.toml:13` "ssh" is the default; `docs/machineproxy.1` -p overrides remote.ssh.port | `AsAsked`: `LateDefault` |
| `cmd/machineproxy/main.go:64` | a destination scheme that contradicts --backend is refused | `docs/machineproxy.1` "The destination URL scheme takes precedence when both are given." | `AsAsked`: `Conflict` |
| `pkg/remote/destination.go:75` | project/service for ssh and name:port for Docker are taken for a name | `:11` the forms of a destination | `AsAsked`: `Misread` |
| `pkg/config/paths.go:118` | an agent beside the executable is taken whatever the remote platform is | `:78` "The goos and goarch parameters select the correct platform-specific binary" | `AsAsked`: `"sibling"` |
| `pkg/config/config.go:501` | an identity mount of a remote path below "~" is bound at that path of the local home directory | `:474` "also reachable at its remote path inside the container" | `BindsServed`: `HomesDiffer` |
| `cmd/machineproxy/runtime.go:398` | the server of a mount with a duplicate container path is forgotten | `:126` "Unmount every FUSE server first" | `RemoteIntact`, `NothingLeft`: `Forgotten` |
| `cmd/machineproxy/runtime.go:145` | a directory whose unmount failed is removed, through the mount | `:126`, as above | `RemoteIntact`: `busy` |
| `cmd/machineproxy/runtime.go:610` | the socket file, which is there before anyone listens and also when listening fails, ends the wait for the broker | `:611` "broker ready" | `BindsServed`: `broker \in {"bound", "failed"}` |
| `pkg/remoteexec/agent_runner.go:225` | the end of a command is recorded although its start could not be | `pkg/agentproto/recording.go:123` a start "marks the beginning of a new command" | `Attributable`: `Unstarted` |
| `pkg/agentproto/recording.go:177` | commands that still run record behind the footer | `:76` "written once at the end of a recording file" | `Attributable` does not need the footer |
| `pkg/workspacefs/node_file.go:173` | a request for one owner passes the other, a remote id, through the translation for local ids | `pkg/workspacefs/filesystem.go:40` | `SetattrKeeps`: `Misread` |
| `pkg/workspacefs/filesystem.go:397` | an owner that changes between Stat and Chown is written back | `:376` "preserve the remote-side ownership" | `SetattrKeeps`: `touched` |
| `pkg/workspacefs/node_file.go:194` | Setattr and Getattr of an open file work on the path of its lookup | `pkg/workspacefs/doc.go:4` "POSIX-like file behavior" | `WritesReachOpened` is about writes; `SetattrKeeps`: `Strayed` |
| `pkg/workspacefs/node_file.go:165` | a change of a symbolic link's owner or times changes what it leads to, and directories have no Setattr | as above | `SetattrKeeps`, `ChownShows`: `ForFile` |
| `pkg/remote/ssh/backend.go:209` | every run truncates the same remote file | `pkg/agenttransfer/transfer.go:37` "if it hasn't been already" | `AgentStarts` is about one run |
| `cmd/mproxy-agent/main.go:130` | the second pass of the filter has no list of changes and drops changed variables | `config/machineproxy.example.toml:190` they are "forwarded" | `ForwardedExactly` is about env_keep and env_remove |
| `pkg/tracer/env.go:54` | a cleared environment gets no broker socket | `README.md:117` | `ShimFindsBroker`: the variable is unchanged |
| `cmd/machineproxy/pathmapper.go:32` | identity mounts do not count as nested mounts | `:21` "a nested mount wins" | `MapsToShown`, `RunsWhereShown`: `Regular` |
| `cmd/machineproxy/pathmapper.go:37` | the longest path wins in the mapper, the last bind in the container | `:11` | `MapsToShown`, `RunsWhereShown`: `Regular` |
| `cmd/machineproxy/runtime.go:730` | a path that cwd_remap has mapped is mapped again if it looks like one of the container: with a mount inside the first mount, one that moves what is at, above or below its remote path, or a stub below that | `config/machineproxy.example.toml:101` "report remote paths to the process" | `RunsWhereShown`: `RemapUnambiguous` |
| `darwin/interposer/interposer.c:134` | a failed execv keeps the changed environment, as its comment says | | `RoutedAsListed`: `strip` |
| `darwin/interposer/interposer.c:138` | the interposer of the program that execs redirects a path that is not listed, hardened or not; a hardened program that runs locally loses the library, and the commands it starts stay local, listed or not | `README.md:136` hardened binaries "always run locally even without an entry in local_commands", `docs/machineproxy.1:234` | `RoutedAsListed`: `dropped` |
| `pkg/initcmd/initcmd.go:61` | a relative PATH entry gives a relative answer | `:18` "to an absolute, executable path" | `CommandPathsAssumption`: PATH entries are absolute |
| `pkg/initcmd/initcmd.go:107` | only the first #! line is followed | `:91` "the chain of" helpers | `CommandPathsAssumption`: interpreters are binaries |

## 7. What is proved

TLAPS checks the theorems below for every value of the constants that the
named assumptions allow. Hardly any of the properties is inductive as it
stands; with each theorem stands what had to be added.

**ProcessProofs**, the life of a local program and of an agent. From
`RecordingAssumption`: `AgentsStart`, from an invariant of the upload (who
uploads holds the lock of a transferer that is not resolved; who uses the agent
does so after an upload), and `RecordsAttributable`, from an invariant of the
recording on top of it, for any number of concurrent commands. From
`ReaperAssumption` (the waited-for processes are among the children, the channel
has room for one): that a zombie has a wake-up depends on where `Run` is, that a
status is not lost on which waiters are registered. `IInv` adds `Bookkeeping`,
which says where a status can be (kernel, hand, pending, channel) and that a
waiter is registered exactly until its status is sent. From it follow
`TypeCorrect`, `NoLostWakeup`, `StatusConservation`, `WaitForReturnsOwnCode`,
and, step by step, `Refinement`: `ReaperSpec => ChildWait!Spec` under the
mapping in `Reaper`.

Also there, from `TracerAssumption`: `FirstExecsRedirected`,
`InitialStopsSuppressed` and `GetcwdAlwaysRemapped`, for any number of processes
and syscalls. `TInv` ties the tracer's toggle to where the kernel has the
process: which processes are known and whose initial stop is still to come
(`Known`), that the toggle agrees with the kernel until the first exec and when
a getcwd result is pending (`InStep`), both only while the registers could be
read at every stop so far, and the three properties themselves (`Promises`). From `EnvForwardAssumption`: `EnvironmentForwarded`, for any names
and lists, with `Carried` (which filters a command's environment has passed at
each stage), and `OwnBrokerFound`, whatever env_remove lists: the broker's socket
is appended, and of two values os/exec passes on the last.

**RemoteCommandProofs** and **PromiseProofs** (from `CommandAssumption` and
`AgentAssumption`): `PromiseKept`, that `RemoteCommand` implements `Command` for
any number of events, descriptors and processes, channels and pipes of any
capacity and any faults. The invariant comes in layers, each proved from those
before it:

* `TypeInv`, the types of queues, frames and counters;
* `GroupInv`: what is known of the group's processes at each step of the agent;
* `CodeInv`: whoever has an exit code in hand (session, runner, broker, shim) has
  the leader's, and nobody writes any more; or 127, and the command was never
  started and never will be, or the session was lost or its context has ended;
* `OutInv`: the chunks of an output stream are numbered, and what the shim has
  shown is continued without a gap by what is on the socket, in the broker, in
  the runner, on the session, in the agent and in the pipe, each for as long as
  it can still arrive; nothing is missing when the code is reported;
* `InInv`, in PromiseProofs: the same for input, from the group back to the
  shim's descriptors.

The refinement has one lemma for each step: the mapping takes it to a step of
`Command` or to none.

**FileRPCProofs** (from `FileRPCAssumption`, in particular that fewer calls are
made than there are ids). `AnswersMatch` is that each of any number of
concurrent callers gets the answer to its own request, and `NoStaleEntry` that
the table holds calls in flight only. The strengthening: the ids given out are
exactly those the counter has moved over (`Counter`, `Used`), busy callers have
different ids (`CallersApart`), and a frame on the link, even a late answer,
has an id that no caller but its sender uses (`FramesOwned`). On top of it `HInv`
gives `ReadsWhatWasOpened` and `NoHandleLeaks`: a handle is in use only if it
was given out, and fewer are than calls were served (`Counted`), what a caller
holds is its own file (`Held`), a frame of a call in progress agrees with its
caller (`FramesRight`), a call has one frame (`OneFrame`), and while the client
lives somebody waits for it (`Awaited`).

**BackendProofs**. `NoConnectionLeaks` (from `SshBackendAssumption`), for any
number of dials, failures and users, needs `Fresh`: nothing beyond the last dial
was ever opened, so a new connection is not the manager's. `OneSharedClient`,
`EveryClientOwned` and `CloseLeavesNothing`, for any number of concurrent calls
of Files: the invariant says who owns a client that is not closed. Calls that
have launched one have different ones, neither the backend's nor Close's
(`OwnClient`, `Apart`), the loser of a race holds the mutex and there is a winner
(`Losers`), the shared client is alive (`SharedLive`), a call in progress was
given nothing yet (`NothingYet`), and what is left at each step of Close
(`Closing`). `WaitIsTruthful`: a session's result is the exec's own code, since
it is taken from an inspect that found it exited (`ResultSound`).

**RuntimeProofs** (from `ConfigAssumption` and `RequestsAssumption`: the types of
a request; an absolute path is not written "", "~" or "rel"; the port and the
sequence of a destination are numbers, and a sequence follows a service, as in
`[/service[/seq]]`). `ChildSeesMounts`, `CloseKeepsRemote` and `CloseUndoes`, for mounts
of any number and order and a failure at any step. `IInv` says that an instance
is of an entry of the list, on a live mount of its remote path, and alone at its
container path (`Backed`), that every live mount has an instance with its server
or could not be unmounted (`Held`), that every entry so far is bound (`Dealt`),
that nothing is there before `MountWorkspace` begins (`Untouched`), and that
`Close` goes backwards through what was started (`Order`). What `Config` makes of
a list of mounts enters by three lemmas: it begins with what was asked for, the
rest are identities, and with auto_identity_mounts every remote path has one.
`RunIsAsAsked`, for any file, flags, destination, platform and agent binaries: what
`configure` returns is compared, part by part, with what the request says without
the order of `run`. Without a destination the two agree (`Unsent`); with one that
is not misread they agree for each backend (`SentNames`); both accept the same
mounts, directory and mode (`ValidIs`). `AskInv` carries this to the child: the
configuration is one that `configure` returned, completed by what the machine
reports from the answer on, and the broker's agent was located with it.

**WorkspaceFSProofs** (from `WorkspaceFSAssumption` and `WidthAssumption`).
`MapsInverse`: for a well-formed map of any length and any width the
translations of ids are inverse to each other; well-formed means that ranges
neither overlap nor run past the width, which the code does not enforce.
`WritesGoWhereOpened`, for any processes, names and files, with `HandlesOpened`:
the file of an open handle is one its process opened. `ChownIsSeen` for
well-formed maps (`MapsSound`), and `SetattrLeavesTheRest` for any maps and any
number of processes, with its exceptions in the property (section 6). Both follow a request through its remote calls: an id that
was asked for has been translated, one that was not is the remote one of the
Stat, and still the file's if nobody touched it since.

**CommandPathsProofs** (from `CommandPathsAssumption`: PATH entries are absolute
and interpreters are binaries, see section 6; and `PathsAssumption`: paths are
sequences of strings). `CommandsRouted`, with `Routing`:
the interposer's variables are in the environment for as long as no program, no
hardened runtime and no configuration dropped them; an exec that the tracer
misses is not one it has routed. `InitialStays`, with `Looked` (the answer of the search is the first hit in
PATH) and `StayInv` (the command and its helpers are local commands from the
derivation on, so no stub has one of their names and the chain of execs goes
through none).
`MappedAsShown` and `RemoteRunsWhereShown`, for mounts of any number and depth, on
either system. Their core is `MapperTakesShown`: two container paths that fit one
path are nested in each other, so for a `Regular` list the longest that moves is
also the last bind. That there is a longest, and a last, is the least-number
principle (`LeastNumber`). Around it, `MountsInv`: mounts are those of paths, and
a program has one; `StubsInv`: what the listing has found so far is what a search
of those directories finds first, and the stubs are made of all of it or there
are none; `ReqInv`: the broker's answer was the mapper's; `DirInv`: a program is in
a directory that exists. `GetwdShows` then goes through what the shim can believe:
a `$PWD` that is the same directory shows the same remote one (`InodeShows`), and
what `cwd_remap` has mapped already is mapped to itself (`RemapShows`).

Only model-checked: the liveness properties (`WaitForReturns`, `CommandReturns`,
`GoroutinesEnd`, `LossEndsGroup`, `LoopTerminates`, `CloseReleasesAll`,
`WaitReturns`, `CloseEndsGoroutines`, `Reconnects`). Fairness and ENABLED are
outside this prover.

## 8. What is not modelled

* The decoding of configuration files, the splitting of the arguments, Docker
  contexts, compose projects, SSH configuration and the syntax of id maps: text
  that is read once and keeps no state. `Config` starts from the decoded values;
  the local home directory is known.
* Register layouts and the reading of a tracee's memory: steps that succeed or
  fail in `Tracer`. Group stops, and an exec by a thread that is not the leader.
* The CBOR encoding: frames arrive whole, in order, or not at all.
* Windows builds.
* Reads, listings and permission checks of the workspace, which change nothing;
  attributes cached by the kernel. `WorkspaceFS` has one directory.
* The content of a stub read through FUSE; remote programs that appear or
  disappear after the enumeration.
* In `InitCommand`: env's NAME=VALUE words, #! lines longer than the kernel's
  buffer, and file names with colons.
* In `EnvForward`: duplicate names. `$PWD` and the interposer's variables are in
  `WorkDir`.
* Calls the interposer does not wrap, and its failing allocations. Which
  programs have the hardened runtime is a constant; what else macOS takes from
  an environment is not modelled, nor are #! lines with env on Darwin.
* A record of which only a part reaches the file: a write succeeds or fails.
* After the end of the context, how many frames the runner's read loop still
  takes: it may take any number in the model, and at most one in the code.
* The death of the shim is not passed on to the remote command by the code, and
  no document says that it should be: there is no property.

## 9. Plan

Done: the modules above, in the order subreaper, agent, command path, tracer,
file RPC, backends, runtime, recording, workspace, upload, environment, paths,
initial command; then the Docker backend's file clients, the workspace's
directories and links, the working directory with `cwd_remap` and the
interposer, the configuration; abstract specifications of the reaper and of a
remote command; proofs of every safety property and of both refinements.

Next, in this order:

1. Signals in the liveness run of `RemoteCommand`, for which its graph has to
   become smaller (hazard at `pkg/broker/server.go:257`).
2. An abstract specification of exec redirection that both `Tracer` and the
   interposer's part of `WorkDir` refine.
3. The syntax of id maps, with the overlaps the configuration accepts.
4. `FileRPC` with counters that come full circle while ids are in use.
