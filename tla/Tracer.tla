------------------------------- MODULE Tracer -------------------------------
(***************************************************************************)
(* pkg/tracer: the ptrace loop that redirects execs to mproxy-shim.        *)
(*                                                                         *)
(* The kernel's side is external and modelled by what the tracer relies    *)
(* on: a traced process stops at syscall entry and exit, at fork and exec  *)
(* events, at signals and with an initial SIGSTOP when it was auto-        *)
(* attached; wait4(-1) reports the stops of different processes in any     *)
(* order, and a stopped process waits until PTRACE_SYSCALL resumes it.     *)
(* After a successful execve the kernel reports the exec event AND the     *)
(* syscall-exit stop, with the argument registers cleared.  SIGKILL, or    *)
(* the exit of another thread, takes a process in any stop; the stop is    *)
(* then not reported any more.                                             *)
(***************************************************************************)
EXTENDS Naturals, FiniteSets

CONSTANTS
    Procs,      \* process identifiers
    Root,       \* the process Start forks and execs
    Paths,      \* programs that can be passed to execve
    Whitelist,  \* the ones a whitelist entry matches (local commands)
    Missing,    \* the ones that do not exist on this machine
    Shim,       \* t.cfg.ShimPath
    NoPath,     \* the empty path
    CwdMap,     \* cwdMapEnabled()
    MaxStops    \* syscalls and signals per process (bound)

ASSUME TracerAssumption ==
    /\ Root \in Procs /\ Whitelist \subseteq Paths /\ Missing \subseteq Paths
    /\ Shim \notin Paths /\ NoPath \notin Paths /\ Shim # NoPath
    /\ CwdMap \in BOOLEAN /\ MaxStops \in Nat

Calls == {"exec", "fork", "getcwd", "other"}

VARIABLES
    kern,     \* [Procs -> [at, call, path, child]]: the process in the kernel
    image,    \* [Procs -> program the process runs]
    stops,    \* [Procs -> syscalls and signals so far]
    pids,     \* t.pids: [Procs -> [known, inSyscall, expectStop, cwdPending]]
    loop,     \* traceLoop: "run" or "done"
    status,   \* [Procs -> exit code of a dead process]
    exitCode, \* traceLoop's variable exitCode
    execed,   \* history: [Procs -> BOOLEAN], whether a traced exec succeeded
    stopped,  \* history: processes whose initial SIGSTOP was delivered
    rawCwd,   \* history: processes that saw an unmapped getcwd result
    blind     \* history: [Procs -> {"never", "now", "once"}], when the registers
              \* of the process could not be read: at its last syscall stop, or before

history == <<execed, stopped, rawCwd, blind>>
tracerVars == <<kern, image, stops, pids, loop, status, exitCode, execed, stopped, rawCwd, blind>>

Idle == [at |-> "none", call |-> "other", path |-> NoPath, child |-> Root]
Unknown == [known |-> FALSE, inSyscall |-> FALSE, expectStop |-> FALSE, cwdPending |-> FALSE]
(* A pid whose first stop is taken for the end of a syscall. *)
NewPidInSyscall == [Unknown EXCEPT !.known = TRUE, !.inSyscall = TRUE]

NewPid == [Unknown EXCEPT !.known = TRUE]

(* Start: the root has passed its first exec stop before the loop begins. *)
TracerInit ==
    /\ kern = [p \in Procs |-> IF p = Root THEN [Idle EXCEPT !.at = "user"] ELSE Idle]
    /\ image = [p \in Procs |-> NoPath]
    /\ stops = [p \in Procs |-> 0]
    /\ pids = [p \in Procs |-> IF p = Root THEN NewPid ELSE Unknown]
    /\ loop = "run" /\ status = [p \in Procs |-> 0] /\ exitCode = 127
    /\ execed = [p \in Procs |-> FALSE] /\ stopped = {} /\ rawCwd = {}
    /\ blind = [p \in Procs |-> "never"]

-----------------------------------------------------------------------------
(* The traced programs. *)

Syscall(p, c, path) ==
    /\ kern[p].at = "user" /\ stops[p] < MaxStops
    /\ c = "exec" \/ path = NoPath   \* NoPath: execveat of a descriptor
    /\ image[p] # Shim   \* the shim execs nothing
    /\ kern' = [kern EXCEPT ![p] = [Idle EXCEPT !.at = "entry", !.call = c, !.path = path]]
    /\ stops' = [stops EXCEPT ![p] = @ + 1]
    /\ UNCHANGED <<image, pids, loop, status, exitCode, history>>

SignalStop(p) ==
    /\ kern[p].at = "user" /\ stops[p] < MaxStops
    /\ kern' = [kern EXCEPT ![p].at = "signal"]
    /\ stops' = [stops EXCEPT ![p] = @ + 1]
    /\ UNCHANGED <<image, pids, loop, status, exitCode, history>>

(* A process exits, or a signal or another thread ends it, in a stop that   *)
(* the tracer has not heard of as well.                                     *)
Gone == {"none", "dead", "reaped"}
Die(p, code) ==
    /\ kern[p].at \notin Gone
    /\ kern' = [kern EXCEPT ![p] = [Idle EXCEPT !.at = "dead"]]
    /\ status' = [status EXCEPT ![p] = code]
    /\ UNCHANGED <<image, stops, pids, loop, exitCode, history>>

-----------------------------------------------------------------------------
(* handleSyscallStop, as a function of the pid's state and of what the      *)
(* registers show.  `fault' says which accesses to the tracee fail: reading *)
(* its registers, reading the exec's path, reading or writing the rest of   *)
(* its memory, writing its registers.  verdict is what becomes of the       *)
(* syscall; at an exit stop it is too late to change an exec, and a getcwd  *)
(* whose result cannot be changed keeps it, with a warning ("giveUp").      *)
Faults == SUBSET {"regs", "path", "memory", "commit"}
shouldAllow(path) == path \in {NoPath, Shim} \cup Whitelist

Verdict(ps, v) == [ps |-> ps, verdict |-> v]

(* The verdict at a call's entry.  An exec that cannot be rewritten is      *)
(* blocked (blockExec); if the registers cannot be written either way, the  *)
(* process is killed; if they cannot be read, the exec goes ahead.          *)
EntryVerdict(call, path, fault) ==
    IF call # "exec" \/ "regs" \in fault THEN "none"
    ELSE IF "path" \in fault \/ (~shouldAllow(path) /\ "memory" \in fault)
      THEN IF "commit" \in fault THEN "kill" ELSE "blockExec"
    ELSE IF shouldAllow(path) THEN "none"
    ELSE IF "commit" \in fault THEN "kill" ELSE "rewrite"

(* getcwd keyed to the entry/exit toggle like every other call. *)
handleSyscallStopByToggle(ps, call, path, fault) ==
    IF ~ps.known
      THEN Verdict([NewPid EXCEPT !.inSyscall = TRUE, !.expectStop = TRUE], "none")
    ELSE Verdict([ps EXCEPT !.inSyscall = ~@],
                 IF ~ps.inSyscall THEN EntryVerdict(call, path, fault)
                 ELSE IF call = "getcwd" THEN "rewriteGetcwd" ELSE "none")

handleSyscallStop(ps, call, path, fault) ==
    IF ~ps.known
      THEN Verdict([NewPid EXCEPT !.inSyscall = TRUE, !.expectStop = TRUE], "none")
    ELSE IF CwdMap /\ call = "getcwd" /\ "regs" \notin fault
      THEN Verdict([ps EXCEPT !.cwdPending = ~@, !.inSyscall = ~@],
                   IF ~ps.cwdPending THEN "none"
                   ELSE IF fault \cap {"memory", "commit"} = {} THEN "rewriteGetcwd" ELSE "giveUp")
    ELSE IF ps.inSyscall
      THEN Verdict([ps EXCEPT !.inSyscall = FALSE], "none")
    ELSE Verdict([ps EXCEPT !.inSyscall = TRUE], EntryVerdict(call, path, fault))

(* What becomes of blind[p]. *)
Blinded(b, fault) ==
    IF "regs" \in fault THEN "now" ELSE IF b = "never" THEN "never" ELSE "once"

(* What a resumed execve runs, and where the kernel stops next. *)
Program(k, v) == IF v = "rewrite" THEN Shim ELSE k.path
AfterEntry(k, v) ==
    IF v = "kill" THEN [Idle EXCEPT !.at = "dead"]
    ELSE IF k.call # "exec" THEN [k EXCEPT !.at = "exit"]
    ELSE IF v = "blockExec" THEN [k EXCEPT !.at = "exit", !.call = "other", !.path = NoPath]
    ELSE IF Program(k, v) \in Missing THEN [k EXCEPT !.at = "exit"]
    ELSE [k EXCEPT !.at = "execev", !.path = Program(k, v)]

(* The stop at a syscall's entry, and PTRACE_SYSCALL: a fork gives birth to *)
(* a child that is stopped and a parent stopped at its event.               *)
EntryStop(p) ==
    /\ loop = "run" /\ kern[p].at = "entry"
    /\ \E fault \in Faults :
       LET r == handleSyscallStop(pids[p], kern[p].call, kern[p].path, fault)
       IN  /\ pids' = [pids EXCEPT ![p] = r.ps]
           /\ IF kern[p].call = "fork" /\ \E q \in Procs : kern[q].at = "none"
                THEN \E q \in Procs :
                       /\ kern[q].at = "none"
                       /\ kern' = [kern EXCEPT ![p].at = "forkev", ![p].child = q,
                                               ![q].at = "initstop"]
                       /\ image' = [image EXCEPT ![q] = image[p]]
                ELSE /\ kern' = [kern EXCEPT ![p] = AfterEntry(kern[p], r.verdict)]
                     /\ UNCHANGED image
           /\ status' = IF r.verdict = "kill" THEN [status EXCEPT ![p] = 137] ELSE status
           /\ execed' = [execed EXCEPT ![p] =
                  @ \/ AfterEntry(kern[p], r.verdict).at = "execev"]
           /\ blind' = [blind EXCEPT ![p] = Blinded(@, fault)]
    /\ UNCHANGED <<stops, loop, exitCode, stopped, rawCwd>>

(* The stop at a syscall's exit; taken for an entry, that of a failed exec  *)
(* may still end the process.                                               *)
ExitStop(p) ==
    /\ loop = "run" /\ kern[p].at = "exit"
    /\ \E fault \in Faults :
       LET r == handleSyscallStop(pids[p], kern[p].call, kern[p].path, fault)
       IN  /\ pids' = [pids EXCEPT ![p] = r.ps]
           /\ rawCwd' = IF kern[p].call = "getcwd" /\ r.verdict = "none"
                          THEN rawCwd \cup {p} ELSE rawCwd
           /\ blind' = [blind EXCEPT ![p] = Blinded(@, fault)]
           /\ kern' = [kern EXCEPT ![p] =
                          [Idle EXCEPT !.at = IF r.verdict = "kill" THEN "dead" ELSE "user"]]
           /\ status' = IF r.verdict = "kill" THEN [status EXCEPT ![p] = 137] ELSE status
    /\ UNCHANGED <<image, stops, loop, exitCode, execed, stopped>>

-----------------------------------------------------------------------------
(* traceLoop *)

(* PTRACE_EVENT_FORK, VFORK, CLONE *)
ForkEvent(p) ==
    /\ loop = "run" /\ kern[p].at = "forkev"
    /\ LET np == kern[p].child IN
       pids' = IF pids[np].known THEN pids
               ELSE [pids EXCEPT ![np] = [NewPid EXCEPT !.expectStop = TRUE]]
    /\ kern' = [kern EXCEPT ![p].at = "exit"]
    /\ UNCHANGED <<image, stops, loop, status, exitCode, history>>

(* PTRACE_EVENT_EXEC; the exit stop that follows shows cleared registers. *)
ExecEvent(p) ==
    /\ loop = "run" /\ kern[p].at = "execev"
    /\ pids' = IF pids[p].known THEN [pids EXCEPT ![p].inSyscall = FALSE] ELSE pids
    /\ image' = [image EXCEPT ![p] = kern[p].path]
    /\ kern' = [kern EXCEPT ![p].at = "exit", ![p].path = NoPath]
    /\ UNCHANGED <<stops, loop, status, exitCode, history>>

(* The initial SIGSTOP of an auto-attached child: suppressed when the pid   *)
(* is new or the stop is expected, delivered otherwise.                     *)
InitialStopKnownOnly(p) ==   \* only when it is expected
    /\ loop = "run" /\ kern[p].at = "initstop"
    /\ stopped' = IF pids[p].expectStop THEN stopped ELSE stopped \cup {p}
    /\ pids' = [pids EXCEPT ![p] = NewPid]
    /\ kern' = [kern EXCEPT ![p].at = "user"]
    /\ UNCHANGED <<image, stops, loop, status, exitCode, execed, rawCwd, blind>>

InitialStop(p) ==
    /\ loop = "run" /\ kern[p].at = "initstop"
    /\ IF ~pids[p].known
         THEN pids' = [pids EXCEPT ![p] = NewPid] /\ UNCHANGED stopped
       ELSE IF pids[p].expectStop
         THEN pids' = [pids EXCEPT ![p].expectStop = FALSE] /\ UNCHANGED stopped
       ELSE stopped' = stopped \cup {p} /\ UNCHANGED pids
    /\ kern' = [kern EXCEPT ![p].at = "user"]
    /\ UNCHANGED <<image, stops, loop, status, exitCode, execed, rawCwd, blind>>

(* Any other signal is passed on. *)
DeliverSignal(p) ==
    /\ loop = "run" /\ kern[p].at = "signal"
    /\ kern' = [kern EXCEPT ![p].at = "user"]
    /\ UNCHANGED <<image, stops, pids, loop, status, exitCode, history>>

(* Exited or Signaled. *)
Exited(p) ==
    /\ loop = "run" /\ kern[p].at = "dead"
    /\ kern' = [kern EXCEPT ![p].at = "reaped"]
    /\ pids' = [pids EXCEPT ![p] = Unknown]
    /\ exitCode' = IF p = Root THEN status[p] ELSE exitCode
    /\ UNCHANGED <<image, stops, loop, status, history>>

(* Leaving only when the map is empty. *)
LoopEndsWhenEmpty ==
    /\ loop = "run" /\ \A p \in Procs : ~pids[p].known
    /\ loop' = "done"
    /\ UNCHANGED <<kern, image, stops, pids, status, exitCode, history>>

(* The loop ends when t.pids is empty, or wait4 fails with ECHILD. *)
LoopEnds ==
    /\ loop = "run"
    /\ \/ \A p \in Procs : ~pids[p].known
       \/ \A p \in Procs : kern[p].at \in {"none", "reaped"}
    /\ loop' = "done"
    /\ UNCHANGED <<kern, image, stops, pids, status, exitCode, history>>

-----------------------------------------------------------------------------
TraceLoop(p) == EntryStop(p) \/ ExitStop(p) \/ ForkEvent(p) \/ ExecEvent(p)
                \/ InitialStop(p) \/ DeliverSignal(p) \/ Exited(p)

TracerNext ==
    \/ \E p \in Procs :
        \/ \E c \in Calls, path \in Paths \cup {NoPath} : Syscall(p, c, path)
        \/ SignalStop(p)
        \/ \E code \in {0, 137} : Die(p, code)
        \/ EntryStop(p) \/ ExitStop(p) \/ ForkEvent(p) \/ ExecEvent(p)
        \/ InitialStop(p) \/ DeliverSignal(p) \/ Exited(p)
    \/ LoopEnds

(* wait4 reports every stop eventually. *)
TracerSpec ==
    /\ TracerInit /\ [][TracerNext]_tracerVars
    /\ WF_tracerVars(LoopEnds) /\ \A p \in Procs : WF_tracerVars(TraceLoop(p))

-----------------------------------------------------------------------------
(* A step that decides on an exec of p. *)
ExecDecided(p) ==
    /\ kern[p].at = "entry" /\ kern[p].call = "exec" /\ kern'[p].call = "exec"
    /\ kern'[p] # kern[p]

Redirected(p) ==
    ExecDecided(p) =>
        /\ kern[p].path \notin Whitelist \cup {NoPath} /\ ~execed[p] /\ blind'[p] # "now" =>
               kern'[p].path = Shim
        /\ kern[p].path \in Whitelist => kern'[p].path = kern[p].path

ExecsRedirected == \A p \in Procs : Redirected(p)

(* The first program a process execs after it was forked becomes the shim   *)
(* ("redirecting non-whitelisted exec calls through mproxy-shim") unless it *)
(* is a local command, and a local command never does, whatever the order   *)
(* of fork events, initial stops, signals and kills: this is what           *)
(* fork-and-exec, as every shell does it, relies on.  An execveat of a      *)
(* descriptor is let through with a warning, an exec whose registers cannot *)
(* be read without one.                                                     *)
FirstExecRedirected == [][ExecsRedirected]_tracerVars

(* The SIGSTOP with which the kernel attaches a child is never delivered,   *)
(* whichever of it and the parent's fork event is reported first.           *)
InitialStopSuppressed == stopped = {}

(* getcwd "must still be remapped for a process that calls it after an      *)
(* exec": no traced program ever sees an unmapped working directory, unless *)
(* its memory or registers cannot be written, or its registers once could   *)
(* not be read: getcwd's own toggle may be out of step from then on.        *)
GetcwdRemapped == CwdMap => \A p \in rawCwd : blind[p] # "never"

AllGone == \A p \in Procs : kern[p].at \in Gone

(* The tracer returns once all traced processes have exited, with the exit  *)
(* code of the process it was asked to run; and no process that it has ever *)
(* let run is left when it does.  Only a child that it never heard of can   *)
(* be: the child waits in its initial stop, its parent was killed at its    *)
(* fork event, and PTRACE_O_EXITKILL ends it with the tracer.               *)
LoopTerminates ==
    /\ AllGone ~> loop = "done"
    /\ [](loop = "done" => /\ exitCode = status[Root]
                           /\ \A p \in Procs : kern[p].at \in Gone \cup {"initstop"})
=============================================================================
