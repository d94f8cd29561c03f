--------------------------- MODULE ProcessProofs ----------------------------
(***************************************************************************)
(* The processes at both ends.  What the tracer does with every traced     *)
(* process, for any number of processes and of syscalls; the environment   *)
(* that a redirected exec takes with it, for any names, values and lists   *)
(* of patterns; the agent's upload and the recording, for any number of    *)
(* commands, of failures and of frames; and the agent's reaper, for any    *)
(* set of children, any set of waiters, any statuses and any capacity of   *)
(* the signal channel, with the step simulation of ChildWait.              *)
(***************************************************************************)
EXTENDS Tracer, EnvForward, Recording, Reaper, TLAPS

-----------------------------------------------------------------------------
(* Tracer *)

PidState == [known : BOOLEAN, inSyscall : BOOLEAN, expectStop : BOOLEAN, cwdPending : BOOLEAN]

(* Outside of a syscall, and in one: from its entry stop on. *)
Out == {"user", "signal", "entry"}
In == {"exit", "forkev", "execev"}

KernState ==
    [at : Out \cup In \cup {"none", "initstop", "dead", "reaped"}, call : Calls,
     path : Paths \cup {NoPath, Shim}, child : Procs]

Sight == {"never", "now", "once"}

TracerTypes ==
    /\ kern \in [Procs -> KernState] /\ pids \in [Procs -> PidState]
    /\ execed \in [Procs -> BOOLEAN] /\ blind \in [Procs -> Sight]

(* A process that was born and lives is known, or still has its initial     *)
(* stop to come, which is then expected or the first thing the tracer hears *)
(* of it.                                                                   *)
Known(p) ==
    /\ kern[p].at \in Out \cup In => pids[p].known = TRUE
    /\ kern[p].at = "none" => pids[p].known = FALSE
    /\ kern[p].at = "initstop" /\ pids[p].known = TRUE =>
           pids[p].expectStop = TRUE /\ pids[p].inSyscall = FALSE
    /\ kern[p].at \in {"none", "initstop"} => pids[p].cwdPending = FALSE /\ execed[p] = FALSE
    /\ kern[p].at = "forkev" => kern[p].child # p /\ kern[kern[p].child].at # "none"

(* The toggle follows the process until its first exec, whose event and     *)
(* exit stop both turn it; the one for getcwd follows it for as long as the *)
(* registers can be read.                                                   *)
InStep(p) ==
    /\ kern[p].at \in Out /\ execed[p] = FALSE => pids[p].inSyscall = FALSE
    /\ kern[p].at \in In /\ execed[p] = FALSE => pids[p].inSyscall = TRUE
    /\ kern[p].at = "execev" => execed[p] = TRUE
    /\ kern[p].at = "forkev" => kern[p].call = "fork"
    /\ kern[p].at = "execev" => kern[p].call = "exec"

CwdInStep(p) ==
    blind[p] = "never" =>
        /\ kern[p].at \in Out \cup {"forkev", "execev"} => pids[p].cwdPending = FALSE
        /\ kern[p].at = "exit" =>
               /\ kern[p].call = "getcwd" /\ CwdMap = TRUE => pids[p].cwdPending = TRUE
               /\ kern[p].call # "getcwd" \/ CwdMap = FALSE => pids[p].cwdPending = FALSE

InOrder(p) == Known(p) /\ InStep(p) /\ CwdInStep(p)

Promises == InitialStopSuppressed /\ GetcwdRemapped /\ rawCwd \subseteq Procs

TInv == TracerTypes /\ (\A p \in Procs : InOrder(p)) /\ Promises

(* What handleSyscallStop does to the state of a pid it knows, and which    *)
(* execs it lets through.                                                   *)
StopEffect(ps, call, path, fault, r) ==
    /\ r.ps \in PidState /\ r.ps.known = TRUE
    /\ ps.inSyscall = FALSE => r.ps.inSyscall = TRUE
    /\ ps.inSyscall = TRUE => r.ps.inSyscall = FALSE
    /\ CwdMap = FALSE \/ call # "getcwd" \/ "regs" \in fault => r.ps.cwdPending = ps.cwdPending
    /\ CwdMap = TRUE /\ call = "getcwd" /\ "regs" \notin fault =>
           /\ ps.cwdPending = FALSE => r.ps.cwdPending = TRUE
           /\ ps.cwdPending = TRUE => r.ps.cwdPending = FALSE /\ r.verdict # "none"
    /\ r.verdict \in {"rewrite", "blockExec", "kill"} => call = "exec"
    /\ r.verdict = "rewrite" => ~shouldAllow(path)
    /\ ps.inSyscall = FALSE /\ call = "exec" /\ ~shouldAllow(path) /\ "regs" \notin fault =>
           r.verdict \in {"rewrite", "blockExec", "kill"}
    /\ call = "exec" => r.verdict \in {"none", "rewrite", "blockExec", "kill"}

(* What an entry stop decides about an exec, and that it decides nothing    *)
(* about any other call.                                                    *)
LEMMA EntryVerdicts ==
    ASSUME NEW call, NEW path, NEW fault, NEW v, v = EntryVerdict(call, path, fault)
    PROVE  /\ v \in {"none", "rewrite", "blockExec", "kill"}
           /\ v \in {"rewrite", "blockExec", "kill"} => call = "exec"
           /\ v = "rewrite" => ~shouldAllow(path)
           /\ call = "exec" /\ ~shouldAllow(path) /\ "regs" \notin fault =>
                  v \in {"rewrite", "blockExec", "kill"}
<1> HIDE DEF shouldAllow
<1>1. CASE call # "exec" \/ "regs" \in fault
  BY <1>1, Zenon DEF EntryVerdict
<1>2. CASE call = "exec" /\ "regs" \notin fault
  BY <1>2, Zenon DEF EntryVerdict
<1> QED BY <1>1, <1>2, Zenon

(* handleSyscallStop has that effect, at an entry stop and at an exit stop. *)
LEMMA HandleStop ==
    ASSUME NEW ps \in PidState, ps.known = TRUE, NEW call \in Calls, NEW path, NEW fault \in Faults,
           NEW r, r = handleSyscallStop(ps, call, path, fault)
    PROVE  StopEffect(ps, call, path, fault, r)
<1> USE DEF StopEffect
<1>1. CwdMap \in BOOLEAN /\ ps.inSyscall \in BOOLEAN /\ ps.cwdPending \in BOOLEAN
  BY TracerAssumption, Zenon DEF PidState
<1>2. CASE CwdMap = TRUE /\ call = "getcwd" /\ "regs" \notin fault
  <2>1. /\ r.ps = [ps EXCEPT !.cwdPending = ~ps.cwdPending, !.inSyscall = ~ps.inSyscall]
        /\ r.verdict = IF ~ps.cwdPending THEN "none"
                       ELSE IF fault \cap {"memory", "commit"} = {} THEN "rewriteGetcwd" ELSE "giveUp"
    BY <1>2, Zenon DEF handleSyscallStop, Verdict, PidState
  <2>2. /\ r.ps \in PidState /\ r.ps.known = TRUE
        /\ r.ps.inSyscall = ~ps.inSyscall /\ r.ps.cwdPending = ~ps.cwdPending
    BY <2>1, Zenon DEF PidState
  <2>3. /\ r.verdict \in {"rewriteGetcwd", "giveUp", "none"}
        /\ ps.cwdPending = TRUE => r.verdict # "none"
    BY <2>1, Zenon
  <2> QED BY <1>1, <1>2, <2>2, <2>3, Zenon
<1>3. CASE ~(CwdMap = TRUE /\ call = "getcwd" /\ "regs" \notin fault) /\ ps.inSyscall = TRUE
  <2>1. r.ps = [ps EXCEPT !.inSyscall = FALSE] /\ r.verdict = "none"
    BY <1>1, <1>3, Zenon DEF handleSyscallStop, Verdict, PidState
  <2>2. /\ r.ps \in PidState /\ r.ps.known = TRUE /\ r.ps.inSyscall = FALSE
        /\ r.ps.cwdPending = ps.cwdPending
    BY <2>1, Zenon DEF PidState
  <2> QED BY <1>3, <2>1, <2>2, Zenon
<1>4. CASE ~(CwdMap = TRUE /\ call = "getcwd" /\ "regs" \notin fault) /\ ps.inSyscall = FALSE
  <2>1. r.ps = [ps EXCEPT !.inSyscall = TRUE] /\ r.verdict = EntryVerdict(call, path, fault)
    BY <1>1, <1>4, Zenon DEF handleSyscallStop, Verdict, PidState
  <2>2. /\ r.verdict \in {"none", "rewrite", "blockExec", "kill"}
        /\ r.verdict \in {"rewrite", "blockExec", "kill"} => call = "exec"
        /\ r.verdict = "rewrite" => ~shouldAllow(path)
        /\ call = "exec" /\ ~shouldAllow(path) /\ "regs" \notin fault =>
               r.verdict \in {"rewrite", "blockExec", "kill"}
    BY <2>1, EntryVerdicts, Zenon
  <2>3. /\ r.ps \in PidState /\ r.ps.known = TRUE /\ r.ps.inSyscall = TRUE
        /\ r.ps.cwdPending = ps.cwdPending
    BY <2>1, Zenon DEF PidState
  <2> QED BY <1>4, <2>2, <2>3, Zenon
<1> QED BY <1>1, <1>2, <1>3, <1>4, Zenon

(* A process once seen blindly stays so recorded. *)
LEMMA Blinding ==
    ASSUME NEW b \in Sight, NEW fault
    PROVE  /\ Blinded(b, fault) \in Sight
           /\ Blinded(b, fault) = "never" => b = "never" /\ "regs" \notin fault
           /\ "regs" \in fault => Blinded(b, fault) = "now"
BY Zenon DEF Blinded, Sight

(* A step that changes one process only, in the kernel or in t.pids, and    *)
(* leaves it in order, keeps the others in order.                           *)
LEMMA OneProcess ==
    ASSUME TInv, NEW p \in Procs, NEW k \in KernState, NEW s \in PidState, NEW m \in BOOLEAN,
           NEW b \in Sight,
           kern' = [kern EXCEPT ![p] = k], pids' = [pids EXCEPT ![p] = s],
           execed' = [execed EXCEPT ![p] = m], blind' = [blind EXCEPT ![p] = b],
           k.at # "none", InOrder(p)'
    PROVE  TracerTypes' /\ \A q \in Procs : InOrder(q)'
<1>1. TracerTypes'
  BY Zenon DEF TInv, TracerTypes
<1>2. ASSUME NEW q \in Procs, q # p PROVE InOrder(q)'
  <2>1. /\ kern'[q] = kern[q] /\ pids'[q] = pids[q] /\ execed'[q] = execed[q]
        /\ blind'[q] = blind[q]
    BY <1>2, Zenon DEF TInv, TracerTypes
  <2>2. Known(q) /\ InStep(q) /\ CwdInStep(q)
    BY Zenon DEF TInv, InOrder
  <2>3. kern'[p] = k
    BY Zenon DEF TInv, TracerTypes
  <2>4. kern[q].at = "forkev" => kern'[kern[q].child].at # "none"
    <3>1. kern[q].child \in Procs
      BY Zenon DEF TInv, TracerTypes, KernState
    <3>2. CASE kern[q].child = p
      BY <2>3, <3>2, Zenon
    <3>3. CASE kern[q].child # p
      BY <2>2, <3>1, <3>3, Zenon DEF TInv, TracerTypes, Known
    <3> QED BY <3>2, <3>3, Zenon
  <2>5. InStep(q)' /\ CwdInStep(q)'
    BY <2>1, <2>2, Zenon DEF InStep, CwdInStep
  <2>6. Known(q)'
    BY <2>1, <2>2, <2>4, Zenon DEF Known
  <2> QED BY <2>5, <2>6, Zenon DEF InOrder
<1> QED BY <1>1, <1>2, Zenon

(* The same for a step that is not a syscall stop. *)
LEMMA OneProcessNoStop ==
    ASSUME TInv, NEW p \in Procs, NEW k \in KernState, NEW s \in PidState,
           kern' = [kern EXCEPT ![p] = k], pids' = [pids EXCEPT ![p] = s],
           UNCHANGED <<execed, blind>>,
           k.at # "none", InOrder(p)'
    PROVE  TracerTypes' /\ \A q \in Procs : InOrder(q)'
<1>1. /\ execed' = [execed EXCEPT ![p] = execed[p]] /\ execed[p] \in BOOLEAN
      /\ blind' = [blind EXCEPT ![p] = blind[p]] /\ blind[p] \in Sight
  BY Zenon DEF TInv, TracerTypes
<1> QED BY <1>1, OneProcess, Zenon

(* What nobody but a syscall stop can break. *)
LEMMA PromisesKept ==
    ASSUME Promises, UNCHANGED <<stopped, rawCwd, blind>>
    PROVE  Promises'
BY Zenon DEF Promises, InitialStopSuppressed, GetcwdRemapped

(* A process that goes on outside of its syscalls, or dies. *)
LEMMA OutsideKeeps ==
    ASSUME TInv, NEW p \in Procs, NEW k \in KernState,
           kern' = [kern EXCEPT ![p] = k],
           (kern[p].at \in Out /\ k.at \in Out) \/ k.at = "dead",
           UNCHANGED <<pids, execed, stopped, rawCwd, blind>>
    PROVE  TInv'
<1>1. /\ kern[p] \in KernState /\ pids[p] \in PidState
      /\ Known(p) /\ InStep(p) /\ CwdInStep(p)
  BY Zenon DEF TInv, TracerTypes, InOrder
<1>2. /\ kern'[p] = k /\ pids'[p] = pids[p] /\ execed'[p] = execed[p]
      /\ blind'[p] = blind[p]
  <2>1. kern \in [Procs -> KernState]
    BY Zenon DEF TInv, TracerTypes
  <2>2. kern'[p] = k
    BY <2>1, Zenon
  <2> QED BY <2>2, Zenon
<1>3. InOrder(p)'
  <2>1. CASE k.at = "dead"
    BY <1>2, <2>1, Zenon DEF InOrder, Known, InStep, CwdInStep, Out, In
  <2>2. CASE kern[p].at \in Out /\ k.at \in Out
    <3>1. k.at \notin {"none", "initstop", "forkev", "execev", "exit"} /\ k.at \notin In
      BY <2>2, Zenon DEF Out, In
    <3> QED BY <1>1, <1>2, <2>2, <3>1, Zenon DEF InOrder, Known, InStep, CwdInStep
  <2> QED BY <2>1, <2>2, Zenon
<1>4. pids' = [pids EXCEPT ![p] = pids[p]]
  BY Zenon DEF TInv, TracerTypes
<1>5. k.at # "none"
  BY Zenon DEF Out
<1>6. TracerTypes' /\ \A q \in Procs : InOrder(q)'
  BY <1>1, <1>3, <1>4, <1>5, OneProcessNoStop, Zenon
<1>7. Promises'
  BY PromisesKept, Zenon DEF TInv
<1> QED BY <1>6, <1>7, Zenon DEF TInv

LEMMA KernTyped ==
    ASSUME TInv, NEW p \in Procs
    PROVE  kern[p] \in KernState /\ Root \in Procs
BY TracerAssumption, Zenon DEF TInv, TracerTypes

(* What the programs do: syscalls, signals, exits. *)
LEMMA ProgramsKeep ==
    ASSUME TInv, NEW p \in Procs,
           \/ \E c \in Calls, path \in Paths \cup {NoPath} : Syscall(p, c, path)
           \/ SignalStop(p) \/ DeliverSignal(p)
           \/ \E code \in {0, 137} : Die(p, code)
    PROVE  TInv'
<1>1. kern[p] \in KernState /\ Root \in Procs
  BY KernTyped, Zenon
<1>2. \E k \in KernState :
         /\ kern' = [kern EXCEPT ![p] = k]
         /\ (kern[p].at \in Out /\ k.at \in Out) \/ k.at = "dead"
  <2>1. CASE \E c \in Calls, path \in Paths \cup {NoPath} : Syscall(p, c, path)
    <3>1. PICK c \in Calls, path \in Paths \cup {NoPath} : Syscall(p, c, path)
      BY <2>1, Zenon
    <3>2. [Idle EXCEPT !.at = "entry", !.call = c, !.path = path] \in KernState
      BY <1>1, Zenon DEF Idle, KernState, Out
    <3> QED BY <3>1, <3>2, Zenon DEF Syscall, Out, Idle
  <2>2. CASE SignalStop(p)
    <3>1. [kern[p] EXCEPT !.at = "signal"] \in KernState
      BY <1>1, Zenon DEF KernState, Out
    <3> QED BY <1>1, <2>2, <3>1, Zenon DEF SignalStop, Out, KernState
  <2>3. CASE DeliverSignal(p)
    <3>1. [kern[p] EXCEPT !.at = "user"] \in KernState
      BY <1>1, Zenon DEF KernState, Out
    <3> QED BY <1>1, <2>3, <3>1, Zenon DEF DeliverSignal, Out, KernState
  <2>4. CASE \E code \in {0, 137} : Die(p, code)
    <3>1. [Idle EXCEPT !.at = "dead"] \in KernState
      BY <1>1, Zenon DEF Idle, KernState, Calls
    <3>2. kern' = [kern EXCEPT ![p] = [Idle EXCEPT !.at = "dead"]]
      BY <2>4, Zenon DEF Die
    <3>3. [Idle EXCEPT !.at = "dead"].at = "dead"
      BY Zenon DEF Idle
    <3> QED BY <3>1, <3>2, <3>3, Zenon
  <2> QED BY <2>1, <2>2, <2>3, <2>4, Zenon
<1>3. PICK k \in KernState : /\ kern' = [kern EXCEPT ![p] = k]
                             /\ (kern[p].at \in Out /\ k.at \in Out) \/ k.at = "dead"
  BY <1>2, Zenon
<1>4. UNCHANGED <<pids, execed, stopped, rawCwd, blind>>
  BY Zenon DEF Syscall, SignalStop, DeliverSignal, Die, history
<1> QED BY <1>3, <1>4, OutsideKeeps, Zenon

(* The initial stop is swallowed. *)
LEMMA InitialStopKeeps ==
    ASSUME TInv, NEW p \in Procs, InitialStop(p)
    PROVE  TInv'
<1>1. kern[p] \in KernState /\ pids[p] \in PidState /\ Known(p)
  BY Zenon DEF TInv, TracerTypes, InOrder
<1>2. kern[p].at = "initstop" /\ UNCHANGED <<execed, rawCwd, blind>>
  BY Zenon DEF InitialStop
<1>3. /\ [kern[p] EXCEPT !.at = "user"] \in KernState
      /\ kern' = [kern EXCEPT ![p] = [kern[p] EXCEPT !.at = "user"]]
  BY <1>1, Zenon DEF InitialStop, KernState, Out
<1>4. stopped' = stopped
      /\ \E s \in PidState : /\ pids' = [pids EXCEPT ![p] = s]
                             /\ s.known = TRUE /\ s.inSyscall = FALSE /\ s.cwdPending = FALSE
  <2>1. CASE pids[p].known = FALSE
    <3>1. NewPid \in PidState /\ NewPid.known = TRUE /\ NewPid.inSyscall = FALSE
          /\ NewPid.cwdPending = FALSE
      BY Zenon DEF NewPid, Unknown, PidState
    <3> QED BY <2>1, <3>1, Zenon DEF InitialStop
  <2>2. CASE pids[p].known = TRUE
    <3>1. pids[p].expectStop = TRUE /\ pids[p].inSyscall = FALSE /\ pids[p].cwdPending = FALSE
      BY <1>1, <1>2, <2>2, Zenon DEF Known
    <3> DEFINE s == [pids[p] EXCEPT !.expectStop = FALSE]
    <3>2. pids' = [pids EXCEPT ![p] = s] /\ stopped' = stopped
      BY <2>2, <3>1, Zenon DEF InitialStop
    <3>3. s \in PidState /\ s.known = TRUE /\ s.inSyscall = FALSE /\ s.cwdPending = FALSE
      BY <1>1, <2>2, <3>1, Zenon DEF PidState
    <3> QED BY <3>2, <3>3, Zenon
  <2> QED BY <1>1, <2>1, <2>2, Zenon DEF PidState
<1>5. PICK s \in PidState : /\ pids' = [pids EXCEPT ![p] = s]
                           /\ s.known = TRUE /\ s.inSyscall = FALSE /\ s.cwdPending = FALSE
  BY <1>4, Zenon
<1>6. /\ kern'[p].at = "user" /\ kern'[p] = [kern[p] EXCEPT !.at = "user"]
      /\ pids'[p] = s
  BY <1>1, <1>3, <1>5, Zenon DEF TInv, TracerTypes, KernState
<1>7. InOrder(p)'
  BY <1>5, <1>6, Zenon DEF InOrder, Known, InStep, CwdInStep, Out, In
<1>8. TracerTypes' /\ \A q \in Procs : InOrder(q)'
  BY <1>2, <1>3, <1>5, <1>6, <1>7, OneProcessNoStop, Zenon
<1>9. Promises'
  BY <1>2, <1>4, PromisesKept, Zenon DEF TInv
<1> QED BY <1>8, <1>9, Zenon DEF TInv

(* The end of a process. *)
LEMMA ExitedKeeps ==
    ASSUME TInv, NEW p \in Procs, Exited(p)
    PROVE  TInv'
<1>1. kern[p] \in KernState
  BY Zenon DEF TInv, TracerTypes
<1>2. UNCHANGED <<execed, stopped, rawCwd, blind>> /\ pids' = [pids EXCEPT ![p] = Unknown]
  BY Zenon DEF Exited, history
<1>3. /\ [kern[p] EXCEPT !.at = "reaped"] \in KernState /\ Unknown \in PidState
      /\ kern' = [kern EXCEPT ![p] = [kern[p] EXCEPT !.at = "reaped"]]
  BY <1>1, Zenon DEF Exited, KernState, Unknown, PidState
<1>4. kern'[p].at = "reaped"
  BY <1>1, <1>3, Zenon DEF TInv, TracerTypes, KernState
<1>5. InOrder(p)'
  BY <1>4, Zenon DEF InOrder, Known, InStep, CwdInStep, Out, In
<1>6. TracerTypes' /\ \A q \in Procs : InOrder(q)'
  <2>1. [kern[p] EXCEPT !.at = "reaped"].at # "none"
    BY <1>1, Zenon DEF KernState
  <2> QED BY <1>2, <1>3, <1>5, <2>1, OneProcessNoStop, Zenon
<1>7. Promises'
  BY <1>2, PromisesKept, Zenon DEF TInv
<1> QED BY <1>6, <1>7, Zenon DEF TInv

(* The exec event turns the toggle of a process that has exec'd. *)
LEMMA ExecEventKeeps ==
    ASSUME TInv, NEW p \in Procs, ExecEvent(p)
    PROVE  TInv'
<1>1. kern[p] \in KernState /\ pids[p] \in PidState /\ InOrder(p)
  BY Zenon DEF TInv, TracerTypes
<1>2. kern[p].at = "execev" /\ UNCHANGED <<execed, stopped, rawCwd, blind>>
  BY Zenon DEF ExecEvent, history
<1>3. /\ pids[p].known = TRUE /\ execed[p] = TRUE /\ kern[p].call = "exec"
      /\ blind[p] = "never" => pids[p].cwdPending = FALSE
  BY <1>1, <1>2, Zenon DEF InOrder, Known, InStep, CwdInStep, In
<1> DEFINE k == [kern[p] EXCEPT !.at = "exit", !.path = NoPath]
           s == [pids[p] EXCEPT !.inSyscall = FALSE]
<1>4. k \in KernState /\ k.at = "exit" /\ k.call = "exec" /\ kern' = [kern EXCEPT ![p] = k]
  BY <1>1, <1>3, Zenon DEF ExecEvent, KernState, In
<1>5. /\ s \in PidState /\ s.known = TRUE /\ s.cwdPending = pids[p].cwdPending
      /\ pids' = [pids EXCEPT ![p] = s]
  BY <1>1, <1>3, Zenon DEF ExecEvent, PidState
<1> HIDE DEF k, s
<1>6. kern'[p] = k /\ pids'[p] = s /\ execed'[p] = execed[p] /\ blind'[p] = blind[p]
  BY <1>2, <1>4, <1>5, Zenon DEF TInv, TracerTypes
<1>7. InOrder(p)'
  <2>1. Known(p)' /\ InStep(p)'
    BY <1>3, <1>4, <1>5, <1>6, Zenon DEF Known, InStep, Out, In
  <2>2. CwdInStep(p)'
    BY <1>3, <1>4, <1>5, <1>6, Zenon DEF CwdInStep, Out
  <2> QED BY <2>1, <2>2, Zenon DEF InOrder
<1>8. TracerTypes' /\ \A q \in Procs : InOrder(q)'
  BY <1>2, <1>4, <1>5, <1>7, OneProcessNoStop, Zenon
<1>9. Promises'
  BY <1>2, PromisesKept, Zenon DEF TInv
<1> QED BY <1>8, <1>9, Zenon DEF TInv

(* At the exit stop getcwd's answer is remapped. *)
LEMMA ExitStopKeeps ==
    ASSUME TInv, NEW p \in Procs, ExitStop(p)
    PROVE  TInv'
<1>1. /\ kern[p] \in KernState /\ pids[p] \in PidState /\ InOrder(p) /\ blind[p] \in Sight
      /\ kern[p].call \in Calls /\ CwdMap \in BOOLEAN
  BY TracerAssumption, Zenon DEF TInv, TracerTypes, KernState
<1>2. kern[p].at = "exit" /\ UNCHANGED <<execed, stopped>>
  BY Zenon DEF ExitStop
<1>3. /\ pids[p].known = TRUE
      /\ execed[p] = FALSE => pids[p].inSyscall = TRUE
      /\ blind[p] = "never" =>
           /\ kern[p].call = "getcwd" /\ CwdMap = TRUE => pids[p].cwdPending = TRUE
           /\ kern[p].call # "getcwd" \/ CwdMap = FALSE => pids[p].cwdPending = FALSE
  BY <1>1, <1>2, Zenon DEF InOrder, Known, InStep, CwdInStep, In
<1>4. PICK fault \in Faults :
         LET r == handleSyscallStop(pids[p], kern[p].call, kern[p].path, fault)
         IN  /\ pids' = [pids EXCEPT ![p] = r.ps]
             /\ rawCwd' = IF kern[p].call = "getcwd" /\ r.verdict = "none"
                            THEN rawCwd \cup {p} ELSE rawCwd
             /\ blind' = [blind EXCEPT ![p] = Blinded(blind[p], fault)]
             /\ kern' = [kern EXCEPT ![p] =
                            [Idle EXCEPT !.at = IF r.verdict = "kill" THEN "dead" ELSE "user"]]
  BY Zenon DEF ExitStop
<1>f. fault \in Faults
  BY <1>4, Zenon
<1>r. PICK r : r = handleSyscallStop(pids[p], kern[p].call, kern[p].path, fault)
  BY Zenon
<1>s. StopEffect(pids[p], kern[p].call, kern[p].path, fault, r)
  BY <1>1, <1>3, <1>f, <1>r, HandleStop, Zenon
<1> DEFINE k == [Idle EXCEPT !.at = IF r.verdict = "kill" THEN "dead" ELSE "user"]
           b == Blinded(blind[p], fault)
<1>5. /\ pids' = [pids EXCEPT ![p] = r.ps]
      /\ rawCwd' = IF kern[p].call = "getcwd" /\ r.verdict = "none"
                     THEN rawCwd \cup {p} ELSE rawCwd
      /\ blind' = [blind EXCEPT ![p] = b] /\ kern' = [kern EXCEPT ![p] = k]
  BY <1>4, <1>r, Zenon
<1>6. /\ r.ps \in PidState /\ r.ps.known = TRUE
      /\ pids[p].inSyscall = TRUE => r.ps.inSyscall = FALSE
      /\ CwdMap = FALSE \/ kern[p].call # "getcwd" => r.ps.cwdPending = pids[p].cwdPending
      /\ CwdMap = TRUE /\ kern[p].call = "getcwd" /\ "regs" \notin fault /\ pids[p].cwdPending = TRUE =>
             r.ps.cwdPending = FALSE /\ r.verdict # "none"
  BY <1>s, Zenon DEF StopEffect
<1>7. k \in KernState /\ k.at \in {"user", "dead"}
  BY TracerAssumption, Zenon DEF Idle, KernState, Out, Calls
<1>8. b \in Sight /\ (b = "never" => blind[p] = "never" /\ "regs" \notin fault)
  BY <1>1, Blinding, Zenon
<1> HIDE DEF k, b
<1>9. kern'[p] = k /\ pids'[p] = r.ps /\ execed'[p] = execed[p] /\ blind'[p] = b
  BY <1>2, <1>5, Zenon DEF TInv, TracerTypes
<1>10. b = "never" => r.ps.cwdPending = FALSE
  BY <1>1, <1>3, <1>6, <1>8, Zenon
<1>11. InOrder(p)'
  <2>1. Known(p)' /\ InStep(p)'
    BY <1>3, <1>6, <1>7, <1>9, Zenon DEF Known, InStep, Out, In
  <2>2. CwdInStep(p)'
    BY <1>7, <1>9, <1>10, Zenon DEF CwdInStep
  <2> QED BY <2>1, <2>2, Zenon DEF InOrder
<1>12. TracerTypes' /\ \A q \in Procs : InOrder(q)'
  <2>1. execed' = [execed EXCEPT ![p] = execed[p]] /\ execed[p] \in BOOLEAN
    BY <1>2, Zenon DEF TInv, TracerTypes
  <2> QED BY <1>5, <1>6, <1>7, <1>8, <1>11, <2>1, OneProcess, Zenon
<1>13. GetcwdRemapped'
  <2> SUFFICES ASSUME CwdMap = TRUE, NEW q \in rawCwd' PROVE blind'[q] # "never"
    BY <1>1, Zenon DEF GetcwdRemapped
  <2>1. CASE q = p /\ q \notin rawCwd
    <3>1. kern[p].call = "getcwd" /\ r.verdict = "none"
      BY <1>5, <2>1, Zenon
    <3> QED BY <1>3, <1>6, <1>8, <1>9, <2>1, <3>1, Zenon
  <2>2. CASE q \in rawCwd
    <3>1. blind[q] # "never"
      BY <2>2, Zenon DEF TInv, Promises, GetcwdRemapped
    <3>2. q = p \/ blind'[q] = blind[q]
      BY <1>5, <2>2, Zenon DEF TInv, TracerTypes, Promises
    <3> QED BY <1>8, <1>9, <3>1, <3>2, Zenon
  <2> QED BY <1>5, <2>1, <2>2, Zenon
<1>14. Promises'
  BY <1>2, <1>5, <1>13, Zenon DEF TInv, Promises, InitialStopSuppressed
<1> QED BY <1>12, <1>14, Zenon DEF TInv

(* The fork event makes a child known whose initial stop is still to come.  *)
LEMMA ForkEventKeeps ==
    ASSUME TInv, NEW p \in Procs, ForkEvent(p)
    PROVE  TInv'
<1> DEFINE c == kern[p].child
           k == [kern[p] EXCEPT !.at = "exit"]
           s == [NewPid EXCEPT !.expectStop = TRUE]
<1>1. /\ kern[p] \in KernState /\ c \in Procs /\ pids[c] \in PidState
      /\ Known(p) /\ InStep(p) /\ CwdInStep(p) /\ Known(c)
  BY Zenon DEF TInv, TracerTypes, KernState, InOrder
<1>2. /\ kern[p].at = "forkev" /\ kern[p].call = "fork" /\ c # p /\ kern[c].at # "none"
      /\ UNCHANGED <<execed, stopped, rawCwd, blind>>
  BY <1>1, Zenon DEF ForkEvent, history, Known, InStep
<1>3. k \in KernState /\ k.at = "exit" /\ k.call = "fork" /\ kern' = [kern EXCEPT ![p] = k]
  BY <1>1, <1>2, Zenon DEF ForkEvent, KernState, In
<1>4. /\ s \in PidState /\ s.expectStop = TRUE /\ s.inSyscall = FALSE /\ s.cwdPending = FALSE
  BY Zenon DEF NewPid, Unknown, PidState
<1>5. \/ pids' = pids
      \/ pids[c].known = FALSE /\ pids' = [pids EXCEPT ![c] = s]
  BY <1>1, Zenon DEF ForkEvent, PidState
<1> HIDE DEF k, s
<1>6. /\ TracerTypes' /\ kern'[p] = k
      /\ \A q \in Procs \ {p} : kern'[q] = kern[q]
      /\ \A q \in Procs \ {c} : pids'[q] = pids[q]
      /\ pids'[c] = pids[c] \/ (pids[c].known = FALSE /\ pids'[c] = s)
  BY <1>1, <1>2, <1>3, <1>4, <1>5, Zenon DEF TInv, TracerTypes
<1> HIDE DEF c
<1>7. InOrder(p)'
  <2>1. pids'[p] = pids[p] /\ execed'[p] = execed[p] /\ blind'[p] = blind[p]
    BY <1>2, <1>6, Zenon
  <2>2. Known(p)' /\ InStep(p)'
    BY <1>1, <1>2, <1>3, <1>6, <2>1, Zenon DEF Known, InStep, Out, In
  <2>3. CwdInStep(p)'
    BY <1>1, <1>2, <1>3, <1>6, <2>1, Zenon DEF CwdInStep, Out
  <2> QED BY <2>2, <2>3, Zenon DEF InOrder
<1>8. ASSUME NEW q \in Procs, q # p PROVE InOrder(q)'
  <2>1. /\ Known(q) /\ InStep(q) /\ CwdInStep(q) /\ kern'[q] = kern[q]
        /\ execed'[q] = execed[q] /\ blind'[q] = blind[q]
    BY <1>2, <1>6, <1>8, Zenon DEF TInv, InOrder
  <2>2. kern[q].at = "forkev" => kern'[kern[q].child].at # "none"
    BY <1>3, <1>6, <2>1, Zenon DEF Known, TInv, TracerTypes, KernState
  <2>3. CASE pids'[q] = pids[q]
    BY <2>1, <2>2, <2>3, Zenon DEF InOrder, Known, InStep, CwdInStep
  <2>4. CASE q = c /\ pids[c].known = FALSE /\ pids'[c] = s
    <3>1. kern[q].at \in {"initstop", "dead", "reaped"}
      BY <1>2, <2>1, <2>4, Zenon DEF Known, TInv, TracerTypes, KernState
    <3> QED BY <1>4, <2>1, <2>4, <3>1, Zenon DEF InOrder, Known, InStep, CwdInStep, Out, In
  <2> QED BY <1>6, <2>3, <2>4, Zenon
<1>9. Promises'
  BY <1>2, PromisesKept, Zenon DEF TInv
<1> QED BY <1>6, <1>7, <1>8, <1>9, Zenon DEF TInv

(* A fork's entry stop: the child is born, stopped, and unknown. *)
LEMMA ForkKeeps ==
    ASSUME TInv, NEW p \in Procs, NEW c \in Procs, NEW s \in PidState, NEW b \in Sight,
           kern[p].at = "entry", kern[p].call = "fork", kern[c].at = "none",
           kern' = [kern EXCEPT ![p].at = "forkev", ![p].child = c, ![c].at = "initstop"],
           pids' = [pids EXCEPT ![p] = s], execed' = execed, blind' = [blind EXCEPT ![p] = b],
           s.known = TRUE, b = "never" => s.cwdPending = FALSE,
           execed[p] = FALSE => s.inSyscall = TRUE
    PROVE  TracerTypes' /\ \A q \in Procs : InOrder(q)'
<1> DEFINE k == [kern[p] EXCEPT !.at = "forkev", !.child = c]
           d == [kern[c] EXCEPT !.at = "initstop"]
<1>1. p # c /\ kern[p] \in KernState /\ kern[c] \in KernState
  BY Zenon DEF TInv, TracerTypes
<1>2. /\ k \in KernState /\ k.at = "forkev" /\ k.child = c /\ k.call = "fork"
      /\ d \in KernState /\ d.at = "initstop"
  BY <1>1, Zenon DEF KernState, In
<1>3. kern' = [kern EXCEPT ![p] = k, ![c] = d]
  BY <1>1, Zenon DEF TInv, TracerTypes, KernState
<1> HIDE DEF k, d
<1>4. /\ TracerTypes' /\ kern'[p] = k /\ kern'[c] = d
      /\ \A q \in Procs \ {p, c} : kern'[q] = kern[q]
      /\ \A q \in Procs \ {p} : pids'[q] = pids[q]
      /\ pids'[p] = s /\ blind'[p] = b
      /\ \A q \in Procs \ {p} : blind'[q] = blind[q]
  BY <1>1, <1>2, <1>3 DEF TInv, TracerTypes
<1>5. InOrder(p)'
  <2>1. Known(p)' /\ InStep(p)'
    BY <1>1, <1>2, <1>4, Zenon DEF Known, InStep, Out, In
  <2>2. CwdInStep(p)'
    BY <1>2, <1>4, Zenon DEF CwdInStep
  <2> QED BY <2>1, <2>2, Zenon DEF InOrder
<1>6. pids[c].known = FALSE /\ execed[c] = FALSE /\ pids[c].cwdPending = FALSE
  BY Zenon DEF TInv, InOrder, Known
<1>7. InOrder(c)'
  <2>1. kern'[c].at = "initstop" /\ execed'[c] = FALSE
    BY <1>2, <1>4, <1>6, Zenon
  <2>2. pids'[c] = pids[c]
    BY <1>1, <1>4, Zenon
  <2>3. Known(c)'
    BY <1>6, <2>2, <2>1, Zenon DEF Known, Out, In
  <2>4. InStep(c)' /\ CwdInStep(c)'
    BY <2>1, Zenon DEF InStep, CwdInStep, Out, In
  <2> QED BY <2>3, <2>4, Zenon DEF InOrder
<1>8. ASSUME NEW q \in Procs \ {p, c} PROVE InOrder(q)'
  <2>1. /\ Known(q) /\ InStep(q) /\ CwdInStep(q) /\ kern'[q] = kern[q] /\ pids'[q] = pids[q]
        /\ execed'[q] = execed[q] /\ blind'[q] = blind[q]
    BY <1>4, Zenon DEF TInv, InOrder
  <2>2. kern[q].at = "forkev" => kern'[kern[q].child].at # "none"
    BY <1>2, <1>4, <2>1 DEF Known, TInv, TracerTypes, KernState
  <2>3. Known(q)'
    BY <2>1, <2>2, Zenon DEF Known
  <2>4. InStep(q)' /\ CwdInStep(q)'
    BY <2>1, Zenon DEF InStep, CwdInStep
  <2> QED BY <2>3, <2>4, Zenon DEF InOrder
<1> QED BY <1>4, <1>5, <1>7, <1>8, Zenon

(* Where a process stops after its entry stop, and what it then runs. *)
LEMMA Resumed ==
    ASSUME NEW k0 \in KernState, NEW v, NEW k, k = AfterEntry(k0, v),
           v \in {"rewrite", "blockExec", "kill"} => k0.call = "exec",
           k0.call = "exec" => v \in {"none", "rewrite", "blockExec", "kill"}
    PROVE  /\ k \in KernState /\ k.at \in {"dead", "exit", "execev"}
           /\ k.at = "execev" => k.call = "exec" /\ k0.call = "exec"
           /\ k.at = "exit" => k.call = k0.call \/ (k0.call = "exec" /\ k.call = "other")
           /\ k.call = "exec" => v \in {"none", "rewrite"} /\ k.path = Program(k0, v)
<1>1. CASE v = "kill"
  BY <1>1, TracerAssumption, Zenon DEF AfterEntry, Idle, KernState, Calls
<1>2. CASE v # "kill" /\ k0.call # "exec"
  BY <1>2, Zenon DEF AfterEntry, KernState, In
<1>3. CASE v = "blockExec"
  <2>1. k0.call = "exec" /\ k = [k0 EXCEPT !.at = "exit", !.call = "other", !.path = NoPath]
    BY <1>3, Zenon DEF AfterEntry
  <2> QED BY <2>1, Zenon DEF KernState, In, Calls
<1>4. CASE v \notin {"kill", "blockExec"} /\ k0.call = "exec" /\ Program(k0, v) \in Missing
  <2>1. k = [k0 EXCEPT !.at = "exit"]
    BY <1>4, Zenon DEF AfterEntry
  <2>2. Program(k0, v) = k0.path
    BY <1>4, TracerAssumption, Zenon DEF Program
  <2> QED BY <1>4, <2>1, <2>2, Zenon DEF KernState, In
<1>5. CASE v \notin {"kill", "blockExec"} /\ k0.call = "exec" /\ Program(k0, v) \notin Missing
  <2>1. k = [k0 EXCEPT !.at = "execev", !.path = Program(k0, v)]
    BY <1>5, Zenon DEF AfterEntry
  <2>2. Program(k0, v) \in Paths \cup {NoPath, Shim}
    BY Zenon DEF Program, KernState
  <2> QED BY <1>5, <2>1, <2>2, Zenon DEF KernState, In
<1> QED BY <1>1, <1>2, <1>3, <1>4, <1>5, Zenon

(* What an entry stop does, with the verdict named. *)
Entered(p, fault, r) ==
    /\ StopEffect(pids[p], kern[p].call, kern[p].path, fault, r)
    /\ pids' = [pids EXCEPT ![p] = r.ps]
    /\ blind' = [blind EXCEPT ![p] = Blinded(blind[p], fault)]
    /\ execed' = [execed EXCEPT ![p] = execed[p] \/ AfterEntry(kern[p], r.verdict).at = "execev"]
    /\ \/ /\ kern[p].call = "fork"
          /\ \E c \in Procs :
               /\ kern[c].at = "none"
               /\ kern' = [kern EXCEPT ![p].at = "forkev", ![p].child = c, ![c].at = "initstop"]
       \/ kern' = [kern EXCEPT ![p] = AfterEntry(kern[p], r.verdict)]

(* Every entry stop is of that form. *)
LEMMA EntryEffect ==
    ASSUME TInv, NEW p \in Procs, EntryStop(p)
    PROVE  \E fault \in Faults : \E r : Entered(p, fault, r)
<1>1. /\ pids[p] \in PidState /\ kern[p].call \in Calls /\ pids[p].known = TRUE
  <2>1. kern[p].at = "entry" /\ Known(p)
    BY Zenon DEF EntryStop, TInv, InOrder
  <2> QED BY <2>1, Zenon DEF TInv, TracerTypes, KernState, Known, Out
<1>2. PICK fault \in Faults :
       LET r == handleSyscallStop(pids[p], kern[p].call, kern[p].path, fault)
       IN  /\ pids' = [pids EXCEPT ![p] = r.ps]
           /\ IF kern[p].call = "fork" /\ \E q \in Procs : kern[q].at = "none"
                THEN \E q \in Procs :
                       /\ kern[q].at = "none"
                       /\ kern' = [kern EXCEPT ![p].at = "forkev", ![p].child = q,
                                               ![q].at = "initstop"]
                ELSE kern' = [kern EXCEPT ![p] = AfterEntry(kern[p], r.verdict)]
           /\ execed' = [execed EXCEPT ![p] =
                  execed[p] \/ AfterEntry(kern[p], r.verdict).at = "execev"]
           /\ blind' = [blind EXCEPT ![p] = Blinded(blind[p], fault)]
  BY Zenon DEF EntryStop
<1>3. fault \in Faults
  BY <1>2, Zenon
<1>4. PICK r : r = handleSyscallStop(pids[p], kern[p].call, kern[p].path, fault)
  BY Zenon
<1>5. StopEffect(pids[p], kern[p].call, kern[p].path, fault, r)
  BY <1>1, <1>3, <1>4, HandleStop, Zenon
<1>6. Entered(p, fault, r)
  BY <1>2, <1>4, <1>5, Zenon DEF Entered
<1> QED BY <1>3, <1>6, Zenon

(* The entry stop of any call: an exec that is the first of its process     *)
(* finds the toggle off.                                                    *)
LEMMA EntryStopKeeps ==
    ASSUME TInv, NEW p \in Procs, EntryStop(p)
    PROVE  TInv'
<1>1. /\ kern[p] \in KernState /\ pids[p] \in PidState /\ InOrder(p)
      /\ CwdMap \in BOOLEAN /\ execed[p] \in BOOLEAN /\ blind[p] \in Sight
  BY TracerAssumption, Zenon DEF TInv, TracerTypes
<1>2. kern[p].at = "entry" /\ UNCHANGED <<stopped, rawCwd>>
  BY Zenon DEF EntryStop
<1>3. /\ pids[p].known = TRUE
      /\ blind[p] = "never" => pids[p].cwdPending = FALSE
      /\ execed[p] = FALSE => pids[p].inSyscall = FALSE
  BY <1>1, <1>2, Zenon DEF InOrder, Known, InStep, CwdInStep, Out
<1>4. PICK fault \in Faults : \E r : Entered(p, fault, r)
  BY EntryEffect, Zenon
<1>5. PICK r : Entered(p, fault, r)
  BY <1>4, Zenon
<1> DEFINE k == AfterEntry(kern[p], r.verdict)
           b == Blinded(blind[p], fault)
           m == execed[p] \/ k.at = "execev"
<1>6. /\ pids' = [pids EXCEPT ![p] = r.ps] /\ blind' = [blind EXCEPT ![p] = b]
      /\ execed' = [execed EXCEPT ![p] = m]
  BY <1>5, Zenon DEF Entered
<1>7. b \in Sight /\ (b = "never" => blind[p] = "never" /\ "regs" \notin fault)
  BY <1>1, Blinding, Zenon
<1>8. /\ r.ps \in PidState /\ r.ps.known = TRUE
      /\ execed[p] = FALSE => r.ps.inSyscall = TRUE
      /\ b = "never" =>
           /\ CwdMap = FALSE \/ kern[p].call # "getcwd" => r.ps.cwdPending = FALSE
           /\ CwdMap = TRUE /\ kern[p].call = "getcwd" => r.ps.cwdPending = TRUE
  BY <1>1, <1>3, <1>5, <1>7, Zenon DEF Entered, StopEffect
<1>9. /\ k \in KernState /\ k.at \in {"dead", "exit", "execev"}
      /\ k.at = "execev" => k.call = "exec" /\ kern[p].call = "exec"
      /\ k.at = "exit" => k.call = kern[p].call \/ (kern[p].call = "exec" /\ k.call = "other")
  <2>1. /\ r.verdict \in {"rewrite", "blockExec", "kill"} => kern[p].call = "exec"
        /\ kern[p].call = "exec" => r.verdict \in {"none", "rewrite", "blockExec", "kill"}
    BY <1>5, Zenon DEF Entered, StopEffect
  <2>2. PICK a : a = AfterEntry(kern[p], r.verdict)
    BY Zenon
  <2>3. kern[p] \in KernState
    BY <1>1, Zenon
  <2>4. /\ a \in KernState /\ a.at \in {"dead", "exit", "execev"}
        /\ a.at = "execev" => a.call = "exec" /\ kern[p].call = "exec"
        /\ a.at = "exit" => a.call = kern[p].call \/ (kern[p].call = "exec" /\ a.call = "other")
    <3>1. \A s : s = AfterEntry(kern[p], r.verdict) =>
             /\ s \in KernState /\ s.at \in {"dead", "exit", "execev"}
             /\ s.at = "execev" => s.call = "exec" /\ kern[p].call = "exec"
             /\ s.at = "exit" => s.call = kern[p].call \/ (kern[p].call = "exec" /\ s.call = "other")
      BY <2>1, <2>3, Resumed, SMT
    <3> QED BY <2>2, <3>1, Zenon
  <2> QED BY <2>2, <2>4, Zenon
<1> HIDE DEF b, k
<1>10. Promises'
  <2>1. ASSUME NEW q \in rawCwd, blind[q] # "never" PROVE blind'[q] # "never"
    <3>1. q = p \/ blind'[q] = blind[q]
      BY <1>6, <2>1, Zenon DEF TInv, TracerTypes, Promises
    <3>2. blind'[p] = b
      BY <1>6, Zenon DEF TInv, TracerTypes
    <3> QED BY <1>7, <2>1, <3>1, <3>2, Zenon
  <2> QED BY <1>2, <2>1, Zenon DEF TInv, Promises, InitialStopSuppressed, GetcwdRemapped
<1>11. CASE /\ kern[p].call = "fork"
            /\ \E c \in Procs :
                 /\ kern[c].at = "none"
                 /\ kern' = [kern EXCEPT ![p].at = "forkev", ![p].child = c, ![c].at = "initstop"]
  <2>1. PICK c \in Procs :
           /\ kern[c].at = "none"
           /\ kern' = [kern EXCEPT ![p].at = "forkev", ![p].child = c, ![c].at = "initstop"]
    BY <1>11, Zenon
  <2>2. execed' = execed
    <3>1. m = execed[p]
      BY <1>1, <1>9, <1>11, Zenon
    <3> QED BY <1>6, <3>1, Zenon DEF TInv, TracerTypes
  <2>3. b = "never" => r.ps.cwdPending = FALSE
    BY <1>8, <1>11, Zenon
  <2>4. TracerTypes' /\ \A q \in Procs : InOrder(q)'
    BY <1>2, <1>6, <1>7, <1>8, <1>11, <2>1, <2>2, <2>3, ForkKeeps, Zenon
  <2> QED BY <1>10, <2>4, Zenon DEF TInv
<1>12. CASE kern' = [kern EXCEPT ![p] = k]
  <2>1. kern'[p] = k /\ pids'[p] = r.ps /\ execed'[p] = m /\ blind'[p] = b
    BY <1>6, <1>12, Zenon DEF TInv, TracerTypes
  <2>2. Known(p)'
    BY <1>8, <1>9, <2>1, Zenon DEF Known, Out, In
  <2>3. InStep(p)'
    <3>1. m = FALSE => r.ps.inSyscall = TRUE
      BY <1>1, <1>8, Zenon
    <3>2. k.at = "execev" => m = TRUE
      BY <1>1, Zenon
    <3>3. k.at \notin Out /\ k.at # "forkev"
      BY <1>9, Zenon DEF Out
    <3> HIDE DEF m
    <3> QED BY <1>9, <2>1, <3>1, <3>2, <3>3, Zenon DEF InStep
  <2>4. CwdInStep(p)'
    <3>1. k.at \notin Out /\ k.at # "forkev"
      BY <1>9, Zenon DEF Out
    <3>2. k.at = "execev" /\ b = "never" => r.ps.cwdPending = FALSE
      BY <1>8, <1>9, Zenon
    <3>3. k.at = "exit" /\ b = "never" =>
             /\ k.call = "getcwd" /\ CwdMap = TRUE => r.ps.cwdPending = TRUE
             /\ k.call # "getcwd" \/ CwdMap = FALSE => r.ps.cwdPending = FALSE
      BY <1>8, <1>9, Zenon
    <3> HIDE DEF m
    <3> QED BY <2>1, <3>1, <3>2, <3>3, Zenon DEF CwdInStep
  <2>5. InOrder(p)'
    BY <2>2, <2>3, <2>4, Zenon DEF InOrder
  <2>6. m \in BOOLEAN /\ k.at # "none"
    BY <1>1, <1>9, Zenon
  <2> HIDE DEF m
  <2>7. TracerTypes' /\ \A q \in Procs : InOrder(q)'
    BY <1>6, <1>7, <1>8, <1>9, <1>12, <2>5, <2>6, OneProcess, Zenon
  <2> QED BY <1>10, <2>7, Zenon DEF TInv
<1> QED BY <1>5, <1>11, <1>12, Zenon DEF Entered, k

(* The loop's end, and a step in which nothing changes. *)
LEMMA NothingKeeps ==
    ASSUME TInv, UNCHANGED <<kern, pids, history>>
    PROVE  TInv'
<1>1. TracerTypes'
  BY Zenon DEF TInv, TracerTypes, history
<1>2. ASSUME NEW p \in Procs PROVE InOrder(p)'
  BY Zenon DEF TInv, InOrder, Known, InStep, CwdInStep, history
<1>3. Promises'
  BY PromisesKept, Zenon DEF TInv, history
<1> QED BY <1>1, <1>2, <1>3, Zenon DEF TInv

(* The invariant holds whatever the kernel reports, in whichever order. *)
LEMMA TInvariance == TracerSpec => []TInv
<1>1. TracerInit => TInv
  <2> SUFFICES ASSUME TracerInit PROVE TInv
    BY Zenon
  <2>1. TracerTypes
    BY TracerAssumption, Zenon DEF TracerInit, TracerTypes, KernState, PidState, Idle, NewPid, Unknown,
       Calls, Out, Sight
  <2>2. ASSUME NEW p \in Procs PROVE InOrder(p)
    <3>1. CASE p = Root
      <4>1. kern[p].at = "user" /\ pids[p].known = TRUE /\ execed[p] = FALSE
            /\ pids[p].inSyscall = FALSE /\ pids[p].cwdPending = FALSE
        BY <3>1, Zenon DEF TracerInit, Idle, NewPid, Unknown
      <4> QED BY <4>1, Zenon DEF InOrder, Known, InStep, CwdInStep, Out, In
    <3>2. CASE p # Root
      <4>1. kern[p].at = "none" /\ pids[p].known = FALSE /\ execed[p] = FALSE
            /\ pids[p].cwdPending = FALSE
        BY <3>2, Zenon DEF TracerInit, Idle, Unknown
      <4> QED BY <4>1, Zenon DEF InOrder, Known, InStep, CwdInStep, Out, In
    <3> QED BY <3>1, <3>2, Zenon
  <2>3. Promises
    BY Zenon DEF TracerInit, Promises, InitialStopSuppressed, GetcwdRemapped
  <2> QED BY <2>1, <2>2, <2>3, Zenon DEF TInv
<1>2. TInv /\ [TracerNext]_tracerVars => TInv'
  <2> SUFFICES ASSUME TInv, [TracerNext]_tracerVars PROVE TInv'
    BY Zenon
  <2>1. CASE LoopEnds \/ UNCHANGED tracerVars
    <3>1. UNCHANGED <<kern, pids, history>>
      BY <2>1, Zenon DEF LoopEnds, tracerVars, history
    <3> QED BY <3>1, NothingKeeps, Zenon
  <2>2. CASE \E p \in Procs :
               \/ \E c \in Calls, path \in Paths \cup {NoPath} : Syscall(p, c, path)
               \/ SignalStop(p)
               \/ \E code \in {0, 137} : Die(p, code)
               \/ EntryStop(p) \/ ExitStop(p) \/ ForkEvent(p) \/ ExecEvent(p)
               \/ InitialStop(p) \/ DeliverSignal(p) \/ Exited(p)
    BY <2>2, ProgramsKeep, EntryStopKeeps, ExitStopKeeps, ForkEventKeeps, ExecEventKeeps,
       InitialStopKeeps, ExitedKeeps, Zenon
  <2> QED BY <2>1, <2>2, Zenon DEF TracerNext
<1> QED BY <1>1, <1>2, PTL DEF TracerSpec

(* An exec at its entry stop is decided by that stop alone: any other step  *)
(* leaves it waiting, or ends the process.                                  *)
LEMMA DecidedAtEntry ==
    ASSUME TInv, TracerNext, NEW q \in Procs,
           kern[q].at = "entry", kern'[q] # kern[q], kern'[q].call = "exec"
    PROVE  EntryStop(q)
<1>1. kern \in [Procs -> KernState]
  BY Zenon DEF TInv, TracerTypes
<1>2. ~LoopEnds
  BY Zenon DEF LoopEnds
<1>3. PICK p \in Procs :
         \/ \E c \in Calls, path \in Paths \cup {NoPath} : Syscall(p, c, path)
         \/ SignalStop(p)
         \/ \E code \in {0, 137} : Die(p, code)
         \/ EntryStop(p) \/ ExitStop(p) \/ ForkEvent(p) \/ ExecEvent(p)
         \/ InitialStop(p) \/ DeliverSignal(p) \/ Exited(p)
  BY <1>2, Zenon DEF TracerNext
<1>4. CASE EntryStop(p)
  <2>1. PICK fault \in Faults : \E r : Entered(p, fault, r)
    BY <1>4, EntryEffect, Zenon
  <2>2. PICK r : Entered(p, fault, r)
    BY <2>1, Zenon
  <2>3. \/ \E c \in Procs :
              /\ kern[c].at = "none"
              /\ kern' = [kern EXCEPT ![p].at = "forkev", ![p].child = c, ![c].at = "initstop"]
        \/ kern' = [kern EXCEPT ![p] = AfterEntry(kern[p], r.verdict)]
    BY <2>2, Zenon DEF Entered
  <2>4. p = q
    BY <1>1, <2>3, Zenon
  <2> QED BY <1>4, <2>4, Zenon
<1>5. CASE \E code \in {0, 137} : Die(p, code)
  <2>1. kern' = [kern EXCEPT ![p] = [Idle EXCEPT !.at = "dead"]]
    BY <1>5, Zenon DEF Die
  <2> QED BY <1>1, <2>1, Zenon DEF Idle
<1>6. CASE \/ \E c \in Calls, path \in Paths \cup {NoPath} : Syscall(p, c, path)
           \/ SignalStop(p) \/ ExitStop(p) \/ ForkEvent(p) \/ ExecEvent(p)
           \/ InitialStop(p) \/ DeliverSignal(p) \/ Exited(p)
  <2>1. kern[p].at # "entry"
    BY <1>6, Zenon DEF Syscall, SignalStop, ExitStop, ForkEvent, ExecEvent, InitialStop,
       DeliverSignal, Exited
  <2>2. \E k : kern' = [kern EXCEPT ![p] = k]
    BY <1>6, Zenon DEF Syscall, SignalStop, ExitStop, ForkEvent, ExecEvent, InitialStop,
       DeliverSignal, Exited
  <2> QED BY <1>1, <2>1, <2>2, Zenon
<1> QED BY <1>3, <1>4, <1>5, <1>6, Zenon

(* For any number of processes, of syscalls, of signals and of kills: the   *)
(* first program every process execs is replaced by the shim unless it is   *)
(* on the whitelist or its registers cannot be read, and what is on the     *)
(* whitelist never is.                                                      *)
THEOREM FirstExecsRedirected == TracerSpec => FirstExecRedirected
<1>1. TInv /\ TracerNext => ExecsRedirected
  <2> SUFFICES ASSUME TInv, TracerNext, NEW q \in Procs, ExecDecided(q)
               PROVE  /\ kern[q].path \notin Whitelist \cup {NoPath} /\ ~execed[q]
                             /\ blind'[q] # "now" => kern'[q].path = Shim
                      /\ kern[q].path \in Whitelist => kern'[q].path = kern[q].path
    BY Zenon DEF ExecsRedirected, Redirected
  <2>e. /\ kern[q].at = "entry" /\ kern[q].call = "exec" /\ kern'[q].call = "exec"
        /\ kern'[q] # kern[q]
    BY Zenon DEF ExecDecided
  <2>1. EntryStop(q)
    BY <2>e, DecidedAtEntry, Zenon
  <2>2. PICK fault \in Faults : \E r : Entered(q, fault, r)
    BY <2>1, EntryEffect, Zenon
  <2>3. PICK r : Entered(q, fault, r)
    BY <2>2, Zenon
  <2>4. kern' = [kern EXCEPT ![q] = AfterEntry(kern[q], r.verdict)]
    BY <2>3, <2>e, Zenon DEF Entered
  <2>5. kern'[q] = AfterEntry(kern[q], r.verdict) /\ kern[q] \in KernState
    BY <2>4, Zenon DEF TInv, TracerTypes
  <2>6. r.verdict \in {"none", "rewrite"} /\ kern'[q].path = Program(kern[q], r.verdict)
    <3>1. r.verdict \in {"none", "rewrite", "blockExec", "kill"}
      BY <2>3, <2>e, Zenon DEF Entered, StopEffect
    <3> QED BY <2>5, <2>e, <3>1, Resumed, Zenon
  <2>7. ~execed[q] => pids[q].inSyscall = FALSE
    <3>1. InStep(q) /\ execed[q] \in BOOLEAN
      BY Zenon DEF TInv, InOrder, TracerTypes
    <3> QED BY <2>e, <3>1, Zenon DEF InStep, Out
  <2>8. blind'[q] # "now" => "regs" \notin fault
    <3>1. blind'[q] = Blinded(blind[q], fault) /\ blind[q] \in Sight
      BY <2>3, Zenon DEF Entered, TInv, TracerTypes
    <3> QED BY <3>1, Blinding, Zenon
  <2>9. kern[q].path \notin Whitelist \cup {NoPath} /\ ~execed[q] /\ blind'[q] # "now" =>
           kern'[q].path = Shim
    <3>1. ~shouldAllow(kern[q].path) /\ ~execed[q] /\ blind'[q] # "now" => r.verdict = "rewrite"
      BY <2>3, <2>6, <2>7, <2>8, <2>e, Zenon DEF Entered, StopEffect
    <3>2. kern[q].path \notin Whitelist \cup {NoPath} =>
             ~shouldAllow(kern[q].path) \/ kern[q].path = Shim
      BY Zenon DEF shouldAllow
    <3> QED BY <2>6, <3>1, <3>2, Zenon DEF Program
  <2>10. kern[q].path \in Whitelist => kern'[q].path = kern[q].path
    <3>1. kern[q].path \in Whitelist => r.verdict # "rewrite"
      BY <2>3, Zenon DEF Entered, StopEffect, shouldAllow
    <3> QED BY <2>6, <3>1, Zenon DEF Program
  <2> QED BY <2>9, <2>10, Zenon
<1>2. TInv /\ [TracerNext]_tracerVars => [ExecsRedirected]_tracerVars
  BY <1>1, Zenon
<1> QED BY <1>2, TInvariance, PTL DEF TracerSpec, FirstExecRedirected

(* The kernel's initial SIGSTOP reaches no process, whichever of it and the *)
(* fork event traceLoop hears of first.                                     *)
THEOREM InitialStopsSuppressed == TracerSpec => []InitialStopSuppressed
<1>1. TInv => InitialStopSuppressed
  BY Zenon DEF TInv, Promises
<1> QED BY <1>1, TInvariance, PTL

(* No getcwd returns unmapped while a map is configured, to a process whose *)
(* registers could always be read: the toggle of its own that getcwd has    *)
(* stays in step where inSyscall has long lost it.                          *)
THEOREM GetcwdAlwaysRemapped == TracerSpec => []GetcwdRemapped
<1>1. TInv => GetcwdRemapped
  BY Zenon DEF TInv, Promises
<1> QED BY <1>1, TInvariance, PTL

-----------------------------------------------------------------------------
(* EnvForward *)

(* What the broker makes of the environment, and the agent of that. *)
Unmarked == Filter(env, ChangedKeys(env))
Stripped == [Unmarked EXCEPT !["PATH"] = IF stubs THEN StripPathSegment(@) ELSE @]

(* A redirected command carries the environment of the program that started *)
(* it, which waits for it, through one filter after the other; the marker   *)
(* of changed variables goes with it up to the broker and no further.       *)
Carried ==
    /\ env = [n \in Names |-> env[n]]
    /\ stage \in {"inherit", "local", "shim", "broker", "remote"}
    /\ stage = "shim" => wire = env /\ changed = ChangedKeys(env)
    /\ stage = "broker" => wire = Stripped /\ changed = {}
    /\ stage = "remote" => wire = Filter(Stripped, {})

(* The environment stays a function on Names. *)
LEMMA EnvIsFunction ==
    ASSUME Carried, [EnvNext]_envVars
    PROVE  env' = [n \in Names |-> env'[n]]
<1>1. CASE RunChild
  BY <1>1, Zenon DEF RunChild, FormatEnv, Without
<1>2. ASSUME NEW n \in Names, SetVar(n)
      PROVE  env' = [m \in Names |-> env'[m]]
  BY <1>2, Zenon DEF SetVar, Carried
<1>3. CASE env' = env
  BY <1>3, Zenon DEF Carried
<1> QED
  BY <1>1, <1>2, <1>3, Zenon
  DEF EnvNext, envVars, RewriteExec, ShimFails, BrokerFilter, AgentFilter, CommandEnds

(* The filters see what the program was when it started its command. *)
LEMMA FiltersUndisturbed ==
    ASSUME UNCHANGED <<env, baseline, stubs>>
    PROVE  UNCHANGED <<Stripped, ChangedKeys(env)>>
<1>1. ChangedKeys(env)' = ChangedKeys(env)
  BY Zenon DEF ChangedKeys
<1>2. Unmarked' = Unmarked
  BY <1>1, Zenon DEF Unmarked, Filter
<1> QED
  BY <1>1, <1>2, Zenon DEF Stripped

(* Every step keeps Carried: only the program's own steps change its        *)
(* environment, and it takes none while its command is on the way.          *)
LEMMA CarriedKept ==
    ASSUME Carried, [EnvNext]_envVars
    PROVE  Carried'
<1>1. env' = [n \in Names |-> env'[n]]
  BY EnvIsFunction, Zenon
<1>2. CASE RunChild \/ (\E n \in Names : SetVar(n)) \/ ShimFails \/ CommandEnds
  <2>1. stage' = "local"
    BY <1>2, Zenon DEF RunChild, SetVar, ShimFails, CommandEnds
  <2> QED
    BY <1>1, <2>1, Zenon DEF Carried
<1>3. CASE RewriteExec
  <2>1. stage' = "shim" /\ wire' = env' /\ changed' = ChangedKeys(env)'
    BY <1>3, Zenon DEF RewriteExec, ChangedKeys
  <2> QED
    BY <1>1, <2>1, Zenon DEF Carried
<1>4. CASE BrokerFilter
  <2>1. stage' = "broker" /\ wire' = Stripped' /\ changed' = {}
    BY <1>4, FiltersUndisturbed, Zenon DEF BrokerFilter, Carried, Stripped, Unmarked
  <2> QED
    BY <1>1, <2>1, Zenon DEF Carried
<1>5. CASE AgentFilter
  <2>1. stage' = "remote" /\ wire' = Filter(Stripped, {})'
    BY <1>5, FiltersUndisturbed, Zenon DEF AgentFilter, Carried, Filter
  <2> QED
    BY <1>1, <2>1, Zenon DEF Carried
<1>6. CASE UNCHANGED envVars
  BY <1>6, FiltersUndisturbed, Zenon DEF envVars, Carried, Filter
<1> QED
  BY <1>2, <1>3, <1>4, <1>5, <1>6, Zenon DEF EnvNext

(* What env_keep names and env_remove does not reaches the remote command   *)
(* as the local program has it, PATH without the stub directory, and        *)
(* nothing else does, whatever the names, the values and the two lists.     *)
THEOREM EnvironmentForwarded == EnvSpec => []ForwardedExactly
<1>1. EnvInit => Carried
  <2> SUFFICES ASSUME EnvInit PROVE Carried
    BY Zenon
  <2>1. env = [n \in Names |-> env[n]]
    BY Zenon DEF EnvInit
  <2> QED
    BY <2>1, Zenon DEF EnvInit, Carried
<1>2. Carried /\ [EnvNext]_envVars => Carried'
  BY CarriedKept, Zenon
<1>3. Carried => ForwardedExactly
  <2> SUFFICES ASSUME Carried, stage = "remote", NEW n \in Names
               PROVE  /\ n \in EnvKeep \ EnvRemove => wire[n] = Remotely(n)
                      /\ n \in EnvRemove \/ n \notin EnvKeep => wire[n] = Unset
    BY Zenon DEF ForwardedExactly
  <2>1. wire[n] = IF n \notin EnvRemove /\ n \in EnvKeep THEN Stripped[n] ELSE Unset
    BY Zenon DEF Carried, Filter
  <2>2. Unmarked[n] = IF n \notin EnvRemove /\ n \in ChangedKeys(env) \cup EnvKeep THEN env[n] ELSE Unset
    BY Zenon DEF Unmarked, Filter
  <2>3. CASE n # "PATH"
    <3>1. Stripped[n] = Unmarked[n]
      BY <2>3, Zenon DEF Stripped, Unmarked, Filter
    <3> QED
      BY <2>1, <2>2, <2>3, <3>1, Zenon DEF Remotely
  <2>4. CASE n = "PATH"
    <3>1. Stripped[n] = IF stubs THEN StripPathSegment(Unmarked[n]) ELSE Unmarked[n]
      BY <2>4, Zenon DEF Stripped, Unmarked, Filter
    <3>2. Remotely(n) = IF stubs THEN StripPathSegment(env[n]) ELSE env[n]
      BY <2>4, Zenon DEF Remotely, Unstubbed, StripPathSegment
    <3> QED
      BY <2>1, <2>2, <3>1, <3>2, Zenon
  <2> QED
    BY <2>3, <2>4, Zenon
<1> QED
  BY <1>1, <1>2, <1>3, PTL DEF EnvSpec

(* Once the program runs, the environment it was started with names the     *)
(* broker's own socket.                                                     *)
Named == stage # "inherit" => baseline["SOCK"] = <<"own">>

(* The program's own steps cannot touch the baseline, and RunChild adds the *)
(* socket after env_remove, whose default "MPROXY_*" would drop it.         *)
LEMMA NamedKept ==
    ASSUME Named, [EnvNext]_envVars
    PROVE  Named'
<1>1. CASE RunChild
  <2>1. "SOCK" \in Names
    BY EnvForwardAssumption, Zenon
  <2>2. FormatEnv(Without(env, ContainerRemove))["SOCK"] = <<"own">>
    BY <2>1, Zenon DEF FormatEnv, Without
  <2> QED
    BY <1>1, <2>2, Zenon DEF RunChild, Named
<1>2. CASE baseline' = baseline /\ (stage = "inherit" => stage' = "inherit")
  BY <1>2, Zenon DEF Named
<1> QED
  BY <1>1, <1>2, Zenon
  DEF EnvNext, envVars, SetVar, RewriteExec, ShimFails, BrokerFilter, AgentFilter, CommandEnds

(* Whatever container.env_remove lists, the shim of a redirected exec finds *)
(* this machineproxy's broker, whatever socket the program had inherited.   *)
THEOREM OwnBrokerFound == EnvSpec => []ShimFindsBroker
<1>1. EnvInit => Carried /\ Named
  <2> SUFFICES ASSUME EnvInit PROVE Carried /\ Named
    BY Zenon
  <2>1. env = [n \in Names |-> env[n]]
    BY Zenon DEF EnvInit
  <2> QED
    BY <2>1, Zenon DEF EnvInit, Carried, Named
<1>2. Carried /\ Named /\ [EnvNext]_envVars => (Carried /\ Named)'
  BY CarriedKept, NamedKept, Zenon
<1>3. Carried /\ Named => ShimFindsBroker
  BY Zenon DEF Carried, Named, ShimFindsBroker
<1> QED
  BY <1>1, <1>2, <1>3, PTL DEF EnvSpec

-----------------------------------------------------------------------------
(* The upload *)

Uploading == {"open", "copy", "chmod"}
Using == {"ready", "run"}
Sharers == {"query"} \cup Cmds

(* Who uploads holds the lock of a transferer that is not resolved yet; who *)
(* uses the agent does so after an upload, and the order of the runtime     *)
(* keeps the users of one transferer away from the uploads of the other.    *)
UploadOrder ==
    /\ at \in [Clients -> {"idle", "open", "copy", "chmod", "ready", "run", "done", "failed"}]
    /\ \A c \in Cmds : at[c] # "idle" => at["query"] = "done" /\ at["boot"] = "done"
    /\ at["query"] \in Uploading \cup Using => at["boot"] = "done"
    /\ at["boot"] \notin Using

Locked ==
    /\ mu = [t \in Transferers |-> mu[t]]
    /\ \A c \in Sharers : at[c] \in Uploading => mu[trans(c)] = c /\ uploads[trans(c)] = 0
    /\ \A t \in Transferers : uploads[t] = 0 => resolved[t] = FALSE

Counted ==
    /\ uploads \in [Transferers -> {0, 1}] /\ resolved \in [Transferers -> BOOLEAN]
    /\ \A t \in Transferers : resolved[t] = FALSE => uploads[t] = 0
    /\ \A c \in Sharers : at[c] \in Using => uploads[trans(c)] = 1
    /\ at["query"] = "idle" => uploads["query"] = 0

Whole ==
    /\ \A c \in Clients : at[c] = "chmod" => agentFile = "whole"
    /\ \A c \in Clients : at[c] \in Using => agentFile = "whole" /\ execBit = TRUE
    /\ uploads["broker"] = 1 => /\ agentFile = "whole" /\ execBit = TRUE
                               /\ at["query"] = "done" /\ at["boot"] = "done"

UInv == UploadOrder /\ Locked /\ Counted /\ Whole

(* Who is who: the parties are different, and each has its transferer. *)
LEMMA Parties ==
    /\ "boot" \in Clients /\ "query" \in Clients /\ Cmds \subseteq Clients
    /\ "boot" \notin Sharers /\ "query" \in Sharers /\ Clients = {"boot"} \cup Sharers
    /\ "boot" \notin Cmds /\ "query" \notin Cmds /\ NoOne \notin Cmds
    /\ trans("query") = "query" /\ \A c \in Cmds : trans(c) = "broker"
    /\ \A c \in Clients : trans(c) \in Transferers
    /\ NoOne \notin Sharers
BY AgentUploadAssumption, Zenon DEF Clients, Sharers, Transferers, trans

(* While somebody uploads, nobody has the agent ready or running. *)
LEMMA NobodyUses ==
    ASSUME UInv, NEW c \in Clients, at[c] \in Uploading, NEW d \in Clients
    PROVE  at[d] \notin Using
<1>1. CASE c = "boot"
  BY <1>1, Parties, Zenon DEF UInv, UploadOrder, Uploading, Using, Sharers
<1>2. CASE c = "query"
  BY <1>2, Parties, Zenon DEF UInv, UploadOrder, Locked, Counted, Uploading, Using, Sharers
<1>3. CASE c \in Cmds
  <2>1. at["query"] = "done" /\ at["boot"] = "done" /\ uploads["broker"] = 0
    BY <1>3, Parties DEF UInv, UploadOrder, Locked, Uploading, Sharers
  <2>2. d \in Cmds => at[d] \notin Using
    BY <2>1, Parties DEF UInv, Counted, Sharers
  <2> QED BY <2>1, <2>2, Parties, Zenon DEF Using, Sharers
<1> QED BY <1>1, <1>2, <1>3, Parties, Zenon DEF Sharers

(* One client uploads at a time, and none once the commands have an agent.  *)
LEMMA OneUploads ==
    ASSUME UInv, NEW c \in Clients, at[c] \in Uploading
    PROVE  /\ \A d \in Clients : at[d] \in Uploading => c = d
           /\ uploads["broker"] = 0
<1>1. CASE c = "boot"
  BY <1>1, Parties, Zenon DEF UInv, UploadOrder, Counted, Whole, Uploading, Sharers, Transferers
<1>2. CASE c = "query"
  BY <1>2, Parties, Zenon DEF UInv, UploadOrder, Counted, Whole, Uploading, Sharers, Transferers
<1>3. CASE c \in Cmds
  BY <1>3, Parties DEF UInv, UploadOrder, Locked, Uploading, Sharers
<1> QED BY <1>1, <1>2, <1>3, Parties, Zenon DEF Sharers

(* UInv holds at first ... *)
LEMMA UploadInitial ==
    ASSUME UploadInit
    PROVE  UInv
<1>1. /\ at \in [Clients -> {"idle", "done"}]
      /\ \A c \in Cmds : at[c] = "idle"
  BY Parties, Zenon DEF UploadInit
<1>2. UploadOrder
  BY <1>1, Parties, Zenon DEF UploadOrder, Uploading, Using
<1>3. \A c \in Clients : at[c] \notin Uploading \cup Using
  BY <1>1, Zenon DEF Uploading, Using
<1>4. Locked
  BY <1>3, Parties, Zenon DEF UploadInit, Locked
<1>5. Counted
  BY <1>3, Parties, Zenon DEF UploadInit, Counted
<1>6. Whole
  <2>1. uploads["broker"] = 0
    BY Zenon DEF UploadInit, Transferers
  <2> QED BY <1>3, <2>1 DEF Whole, Uploading
<1> QED BY <1>2, <1>4, <1>5, <1>6, Zenon DEF UInv

(* ... and is preserved: Ensure. *)
LEMMA EnsureKeeps ==
    ASSUME UInv, NEW c \in Clients, Ensure(c)
    PROVE  UInv'
<1> USE Parties
<1>1. /\ c \in Sharers /\ at[c] = "idle" /\ mu[trans(c)] = NoOne /\ at["boot"] = "done"
      /\ c \in Cmds => at["query"] = "done"
      /\ UNCHANGED <<resolved, uploads, agentFile, execBit>>
  BY Zenon DEF Ensure, Due
<1>2. CASE resolved[trans(c)] = TRUE
  <2>1. at' = [at EXCEPT ![c] = "ready"] /\ mu' = mu
    BY <1>2, Zenon DEF Ensure, Step
  <2>2. uploads[trans(c)] = 1
    BY <1>2 DEF UInv, Locked, Counted
  <2>3. UploadOrder'
    BY <1>1, <2>1, Zenon DEF UInv, UploadOrder, Uploading, Using, Sharers
  <2>4. Locked'
    BY <1>1, <2>1, Zenon DEF UInv, UploadOrder, Locked, Uploading, Sharers
  <2>5. Counted'
    BY <1>1, <2>1, <2>2, Zenon DEF UInv, UploadOrder, Counted, Using, Sharers
  <2>6. c \in Cmds /\ agentFile = "whole" /\ execBit = TRUE
    BY <1>1, <2>2 DEF UInv, Counted, Whole, Sharers
  <2>7. Whole'
    BY <1>1, <2>1, <2>6, Zenon DEF UInv, UploadOrder, Whole, Using
  <2> QED BY <2>3, <2>4, <2>5, <2>7, Zenon DEF UInv
<1>3. CASE resolved[trans(c)] = FALSE
  <2>1. at' = [at EXCEPT ![c] = "open"] /\ mu' = [mu EXCEPT ![trans(c)] = c]
    BY <1>3, Zenon DEF Ensure, Step
  <2>2. uploads[trans(c)] = 0
    BY <1>3, Zenon DEF UInv, Counted
  <2>3. UploadOrder'
    BY <1>1, <2>1, Zenon DEF UInv, UploadOrder, Uploading, Using, Sharers
  <2>4. Locked'
    BY <1>1, <2>1, <2>2 DEF UInv, UploadOrder, Locked, Uploading
  <2>5. Counted'
    BY <1>1, <2>1, <2>2, Zenon DEF UInv, UploadOrder, Counted, Using, Sharers
  <2>6. Whole'
    BY <1>1, <2>1, <2>2, Zenon DEF UInv, UploadOrder, Whole, Using, Sharers
  <2> QED BY <2>3, <2>4, <2>5, <2>6, Zenon DEF UInv
<1> QED BY <1>2, <1>3, Zenon DEF UInv, Counted

(* The backend's own upload begins: nobody else has begun anything. *)
LEMMA BootKeeps ==
    ASSUME UInv, NEW c \in Clients, Boot(c)
    PROVE  UInv'
<1> USE Parties
<1>1. /\ at["boot"] = "idle" /\ at' = [at EXCEPT !["boot"] = "open"]
      /\ UNCHANGED <<mu, resolved, uploads, agentFile, execBit>>
  BY Zenon DEF Boot, Step
<1>2. UploadOrder'
  BY <1>1, Zenon DEF UInv, UploadOrder, Uploading, Using
<1>3. Locked'
  BY <1>1, Zenon DEF UInv, UploadOrder, Locked
<1>4. Counted'
  BY <1>1, Zenon DEF UInv, UploadOrder, Counted
<1>5. Whole'
  BY <1>1, Zenon DEF UInv, UploadOrder, Whole, Using
<1> QED BY <1>2, <1>3, <1>4, <1>5, Zenon DEF UInv

(* Steps of an upload that is under way: opening, copying. *)
LEMMA UploadGoesOn ==
    ASSUME UInv, NEW c \in Clients, Open(c) \/ Copy(c)
    PROVE  UInv'
<1> USE Parties
<1>1. at[c] \in Uploading /\ UNCHANGED <<resolved, uploads>>
  BY Zenon DEF Open, Copy, Uploading
<1>2. Running = {}
  BY <1>1, NobodyUses, Zenon DEF Running, Using
<1>3. /\ mu' = mu
      /\ \/ at' = [at EXCEPT ![c] = "copy"]
         \/ at' = [at EXCEPT ![c] = "chmod"] /\ agentFile' = "whole"
  BY <1>2, Zenon DEF Open, OpenTar, OpenSftp, Copy, Step
<1>4. \A d \in Clients : /\ d # c => at'[d] = at[d] /\ at[d] \notin Uploading
                         /\ at[d] \notin Using
  BY <1>1, <1>3, OneUploads, NobodyUses, Zenon DEF UInv, UploadOrder
<1>5. at'[c] \in {"copy", "chmod"}
  BY <1>3, Zenon DEF UInv, UploadOrder
<1>6. UploadOrder'
  BY <1>1, <1>3, <1>4, <1>5, Zenon DEF UInv, UploadOrder, Uploading, Using
<1>7. Locked'
  BY <1>1, <1>3, <1>4, <1>5, Zenon DEF UInv, Locked, Uploading, Sharers
<1>8. Counted'
  BY <1>1, <1>4, <1>5, Zenon DEF UInv, Counted, Using, Sharers
<1>9. Whole'
  <2>1. uploads'["broker"] = 0
    BY <1>1, OneUploads, Zenon
  <2>2. \A d \in Clients : at'[d] \notin Using
    BY <1>4, <1>5, Zenon DEF Using
  <2>3. \A d \in Clients : at'[d] = "chmod" => agentFile' = "whole"
    BY <1>3, <1>4, <1>5, Zenon DEF UInv, UploadOrder, Uploading
  <2> QED BY <2>1, <2>2, <2>3 DEF Whole
<1> QED BY <1>6, <1>7, <1>8, <1>9, Zenon DEF UInv

(* The end of an upload, by success or failure. *)
LEMMA UploadFailsKeeps ==
    ASSUME UInv, NEW c \in Clients, UploadFails(c)
    PROVE  UInv'
<1> USE Parties
<1>1. /\ at[c] \in Uploading /\ at' = [at EXCEPT ![c] = "failed"] /\ mu' = Unlock(c)
      /\ UNCHANGED <<resolved, uploads, agentFile, execBit>>
  BY Zenon DEF UploadFails, Step, Uploading
<1>2. \A d \in Clients : at'[d] = IF d = c THEN "failed" ELSE at[d]
  BY <1>1, Zenon DEF UInv, UploadOrder
<1>3. \A d \in Clients : at'[d] \notin Uploading \cup Using
  BY <1>1, <1>2, OneUploads, NobodyUses DEF Uploading, Using
<1>4. UploadOrder'
  BY <1>1, <1>2, Zenon DEF UInv, UploadOrder, Uploading, Using
<1>5. Locked'
  BY <1>1, <1>3, Zenon DEF UInv, Locked, Unlock
<1>6. Counted'
  BY <1>1, <1>2, <1>3 DEF UInv, Counted
<1>7. Whole'
  BY <1>1, <1>3, OneUploads DEF Whole, Uploading
<1> QED BY <1>4, <1>5, <1>6, <1>7, Zenon DEF UInv

(* The last step of an upload: the file is whole when its mode is set. *)
LEMMA ChmodKeeps ==
    ASSUME UInv, NEW c \in Clients, Chmod(c)
    PROVE  UInv'
<1> USE Parties
<1>1. /\ at[c] = "chmod" /\ mu' = Unlock(c) /\ agentFile' = agentFile /\ execBit' = TRUE
      /\ agentFile = "whole"
  BY Zenon DEF Chmod, Uploaded, UInv, Whole
<1>2. at[c] \in Uploading
  BY <1>1, Zenon DEF Uploading
<1>3. \A d \in Clients : /\ d # c => at[d] \notin Uploading
                         /\ at[d] \notin Using
  BY <1>2, OneUploads, NobodyUses, Zenon
<1>4. CASE c = "boot"
  <2>1. at' = [at EXCEPT !["boot"] = "done"] /\ UNCHANGED <<resolved, uploads>>
    BY <1>4, Zenon DEF Chmod, Uploaded, Step
  <2>2. \A d \in Clients : at'[d] \notin Uploading \cup Using
    BY <1>3, <1>4, <2>1, Zenon DEF UInv, UploadOrder, Uploading, Using
  <2>3. UploadOrder'
    BY <2>1, <2>2, Zenon DEF UInv, UploadOrder
  <2>4. Locked'
    BY <1>1, <2>1, <2>2, Zenon DEF UInv, Locked, Unlock
  <2>5. Counted'
    BY <2>1, <2>2, Zenon DEF UInv, UploadOrder, Counted
  <2>6. Whole'
    BY <1>2, <2>1, <2>2, OneUploads DEF Whole, Uploading
  <2> QED BY <2>3, <2>4, <2>5, <2>6, Zenon DEF UInv
<1>5. CASE c \in Sharers
  <2>1. /\ at' = [at EXCEPT ![c] = "ready"]
        /\ resolved' = [resolved EXCEPT ![trans(c)] = TRUE]
        /\ uploads' = [uploads EXCEPT ![trans(c)] = @ + 1]
    BY <1>5, Zenon DEF Chmod, Uploaded, Step
  <2>2. uploads[trans(c)] = 0 /\ uploads' = [uploads EXCEPT ![trans(c)] = 1]
    <3>1. uploads[trans(c)] = 0
      BY <1>2, <1>5, Zenon DEF UInv, Locked
    <3> QED BY <2>1, <3>1
  <2>3. \A d \in Clients : /\ d # c => at'[d] = at[d] /\ at'[d] \notin Uploading \cup Using
                           /\ at'[c] = "ready"
    BY <1>3, <2>1, Zenon DEF UInv, UploadOrder
  <2>4. UploadOrder'
    BY <1>2, <1>5, <2>1, Zenon DEF UInv, UploadOrder, Uploading, Using, Sharers
  <2>5. Locked'
    BY <1>1, <2>1, <2>2, <2>3 DEF UInv, Locked, Counted, Unlock, Uploading, Sharers
  <2>6. Counted'
    <3>1. uploads' \in [Transferers -> {0, 1}] /\ resolved' \in [Transferers -> BOOLEAN]
      BY <2>1, <2>2, Zenon DEF UInv, Counted
    <3>2. \A t \in Transferers : resolved'[t] = FALSE => t # trans(c) /\ resolved[t] = FALSE
      BY <2>1, Zenon DEF UInv, Counted
    <3>3. \A t \in Transferers \ {trans(c)} : uploads'[t] = uploads[t]
      BY <2>2, Zenon DEF UInv, Counted
    <3>4. \A t \in Transferers : resolved'[t] = FALSE => uploads'[t] = 0
      BY <3>2, <3>3, Zenon DEF UInv, Counted
    <3>5. \A d \in Sharers : at'[d] \in Using => d = c /\ uploads'[trans(d)] = 1
      BY <1>5, <2>2, <2>3, Zenon DEF UInv, Counted, Sharers
    <3>6. at'["query"] = "idle" => uploads'["query"] = 0
      <4>1. at'["query"] = "idle" => c \in Cmds /\ at["query"] = "idle"
        BY <1>5, <2>3, Zenon DEF Sharers
      <4> QED BY <4>1, <3>3, Zenon DEF UInv, Counted, Transferers
    <3> QED BY <3>1, <3>4, <3>5, <3>6, Zenon DEF Counted
  <2>7. uploads'["broker"] = 1 => at'["query"] = "done" /\ at'["boot"] = "done"
    BY <1>2, <1>5, <2>1, <2>2, <2>3, OneUploads
       DEF UInv, UploadOrder, Uploading, Sharers, Transferers
  <2>8. Whole'
    BY <1>1, <2>3, <2>7, Zenon DEF Whole, Uploading
  <2> QED BY <2>4, <2>5, <2>6, <2>8, Zenon DEF UInv
<1> QED BY <1>4, <1>5, Zenon

(* A use of the agent: it is there and whole, and its end changes nothing.  *)
LEMMA UseKeeps ==
    ASSUME UInv, NEW c \in Clients, StartAgent(c) \/ AgentExits(c)
    PROVE  UInv'
<1> USE Parties
<1>1. at[c] \in Using /\ UNCHANGED <<mu, resolved, uploads, agentFile, execBit>>
  BY Zenon DEF StartAgent, AgentExits, Using
<1>2. agentFile = "whole" /\ execBit = TRUE
  BY <1>1, Zenon DEF UInv, Whole
<1>3. PICK s \in {"run", "done", "failed"} : at' = [at EXCEPT ![c] = s]
  BY <1>2, Zenon DEF StartAgent, AgentExits, Step
<1>4. c \in Sharers
  BY <1>1, Zenon DEF UInv, UploadOrder
<1>5. UploadOrder'
  BY <1>1, <1>3, <1>4, Zenon DEF UInv, UploadOrder, Uploading, Using, Sharers
<1>6. \A d \in Clients : /\ at'[d] \in Uploading => at[d] \in Uploading
                         /\ at'[d] \in Using => at[d] \in Using
                         /\ d # c => at'[d] = at[d]
  BY <1>1, <1>3, Zenon DEF UInv, UploadOrder, Uploading, Using
<1>7. Locked'
  BY <1>1, <1>6, Zenon DEF UInv, Locked
<1>8. Counted'
  BY <1>1, <1>3, <1>6, Zenon DEF UInv, UploadOrder, Counted
<1>9. uploads["broker"] = 1 => at'["query"] = "done" /\ at'["boot"] = "done"
  BY <1>1, <1>4, <1>6, Zenon DEF UInv, Whole, Using, Sharers
<1>10. Whole'
  BY <1>1, <1>2, <1>9, Zenon DEF Whole
<1> QED BY <1>5, <1>7, <1>8, <1>10, Zenon DEF UInv

(* However many commands start at once and whatever uploads failed before,  *)
(* each transferer uploads once, no upload is refused because an agent runs *)
(* from the file, and every agent that is started is whole and executable.  *)
THEOREM AgentsStart == Spec => []AgentStarts
<1>1. Init => UInv
  BY UploadInitial, Zenon DEF Init
<1>2. UInv /\ [Next]_vars => UInv'
  <2> SUFFICES ASSUME UInv, [Next]_vars PROVE UInv'
    BY Zenon
  <2>1. CASE UploadNext
    BY <2>1, EnsureKeeps, BootKeeps, UploadGoesOn, UploadFailsKeeps, ChmodKeeps, UseKeeps, Zenon
       DEF UploadNext
  <2>2. CASE UNCHANGED uploadVars
    BY <2>2, Zenon DEF uploadVars, UInv, UploadOrder, Locked, Counted, Whole
  <2>3. CASE ~UploadNext
    BY <2>2, <2>3, Zenon DEF Next, vars, TakeSeq, WriteCommandStart, WriteFrame, WriteSignal,
                      WriteCommandEnd, WriteSessionFooter, CloseFile
  <2> QED BY <2>1, <2>3, Zenon
<1>3. UInv => AgentStarts
  <2> SUFFICES ASSUME UInv PROVE AgentStarts
    BY Zenon
  <2>1. \A t \in Transferers : uploads[t] \in {0, 1}
    BY Zenon DEF UInv, Counted
  <2>2. \A t \in Transferers : uploads[t] <= 1
    BY <2>1
  <2> QED BY <2>2, Zenon DEF AgentStarts, UInv, UploadOrder
<1> QED BY <1>1, <1>2, <1>3, PTL DEF Spec

-----------------------------------------------------------------------------
(* The recording *)

Rec == [kind : {"header", "start", "frame", "end", "footer"}, seq : Nat, n : Nat]

RecordTypeOK ==
    /\ file \in Seq(Rec) /\ open \in BOOLEAN /\ seqNum \in Nat
    /\ cmd \in [Cmds -> [at : {"idle", "start", "running", "ended"}, seq : Nat,
                         rec : BOOLEAN, frames : Nat]]

(* A command's number is its own from the moment it is taken. *)
Numbered ==
    /\ \A c \in Cmds : cmd[c].at # "idle" => cmd[c].seq < seqNum
    /\ \A c, d \in Cmds : /\ cmd[c].at # "idle" /\ cmd[d].at # "idle"
                         /\ cmd[c].seq = cmd[d].seq => c = d

Past == {"running", "ended"}

(* A start in the file is that of a command past its start, an end that of  *)
(* one that ended; and a command whose mux records has its start in the     *)
(* file.                                                                    *)
Recorded ==
    /\ \A k \in At("start") :
         \E c \in Cmds : cmd[c].at \in Past /\ cmd[c].seq = file[k].seq
    /\ \A k \in At("end") : \E c \in Cmds : cmd[c].at = "ended" /\ cmd[c].seq = file[k].seq
    /\ \A c \in Cmds : cmd[c].at \in Past /\ cmd[c].rec = TRUE =>
         \E j \in At("start") : file[j].seq = cmd[c].seq

RInv == RecordTypeOK /\ Numbered /\ Recorded /\ Attributable

(* What appending does to the file. *)
LEMMA Grows ==
    ASSUME file \in Seq(Rec), NEW r \in Rec, file' = Append(file, r)
    PROVE  /\ file' \in Seq(Rec) /\ Len(file) + 1 \in Nat
           /\ DOMAIN file' = DOMAIN file \cup {Len(file) + 1}
           /\ \A k \in DOMAIN file : k \in Nat /\ k < Len(file) + 1 /\ file'[k] = file[k]
           /\ file'[Len(file) + 1] = r
OBVIOUS

(* What has ended keeps its number, and whether its mux recorded. *)
EndsKept ==
    \A c \in Cmds : cmd[c].at = "ended" =>
        cmd'[c].at = "ended" /\ cmd'[c].seq = cmd[c].seq /\ cmd'[c].rec = cmd[c].rec

(* So a command that ended without a start in the file stays one. *)
LEMMA StaysUnstarted ==
    ASSUME EndsKept, NEW s, Unstarted(s)
    PROVE  \E c \in Cmds : cmd'[c].at = "ended" /\ ~cmd'[c].rec /\ cmd'[c].seq = s
<1>1. PICK c \in Cmds : cmd[c].at = "ended" /\ ~cmd[c].rec /\ cmd[c].seq = s
  BY Zenon DEF Unstarted
<1> QED BY <1>1, Zenon DEF EndsKept

(* A step that writes nothing leaves all attributable. *)
LEMMA StillAttributable ==
    ASSUME Attributable, EndsKept, file' = file
    PROVE  Attributable'
<1>1. \A x \in {"start", "frame", "end"} : At(x)' = At(x)
  BY Zenon DEF At
<1>2. ASSUME NEW k \in At("frame") \cup At("end")
      PROVE  \/ \E j \in At("start") : j < k /\ file[j].seq = file[k].seq
             \/ file[k].kind = "end" /\ \E c \in Cmds : /\ cmd'[c].at = "ended" /\ ~cmd'[c].rec
                                                        /\ cmd'[c].seq = file[k].seq
  BY StaysUnstarted, Zenon DEF Attributable
<1>3. \A j, k \in At("start")' : file'[j].seq = file'[k].seq => j = k
  BY <1>1, Zenon DEF Attributable
<1>4. \A k \in At("frame")' \cup At("end")' :
          \/ \E j \in At("start")' : j < k /\ file'[j].seq = file'[k].seq
          \/ file'[k].kind = "end" /\ Unstarted(file[k].seq)'
  BY <1>1, <1>2, Zenon DEF Unstarted
<1>5. \A k \in At("end")', j \in At("frame")' :
          j > k /\ file'[j].seq = file'[k].seq => file'[j].n = 1
  BY <1>1, Zenon DEF Attributable
<1> QED BY <1>3, <1>4, <1>5, Zenon DEF Attributable

(* A record that belongs where it is written leaves all attributable. *)
LEMMA StaysAttributable ==
    ASSUME RecordTypeOK, Attributable, EndsKept, NEW r \in Rec, file' = Append(file, r),
           r.kind = "start" => \A k \in At("start") : file[k].seq # r.seq,
           r.kind \in {"frame", "end"} =>
               \/ \E j \in At("start") : file[j].seq = r.seq
               \/ r.kind = "end" /\ \E c \in Cmds : /\ cmd'[c].at = "ended" /\ ~cmd'[c].rec
                                                    /\ cmd'[c].seq = r.seq,
           r.kind = "frame" /\ r.n # 1 => \A k \in At("end") : file[k].seq # r.seq
    PROVE  Attributable'
<1> DEFINE lastLine == Len(file) + 1
<1>1. /\ file' \in Seq(Rec) /\ lastLine \in Nat
      /\ DOMAIN file' = DOMAIN file \cup {lastLine}
      /\ \A k \in DOMAIN file : k \in Nat /\ k < lastLine /\ file'[k] = file[k]
      /\ file'[lastLine] = r
  BY Grows, Zenon DEF RecordTypeOK
<1>2. \A x \in {"start", "frame", "end"} : \A k \in At(x)' :
          \/ k \in At(x) /\ file'[k] = file[k] /\ k < lastLine
          \/ k = lastLine /\ r.kind = x
  BY <1>1, Zenon DEF At
<1>3. \A j \in At("start") : j \in At("start")' /\ file'[j] = file[j] /\ j < lastLine
  BY <1>1, Zenon DEF At
<1> HIDE DEF lastLine
<1>4. ASSUME NEW j \in At("start")', NEW k \in At("start")', file'[j].seq = file'[k].seq
      PROVE  j = k
  <2>1. CASE j \in At("start") /\ file'[j] = file[j] /\ k \in At("start") /\ file'[k] = file[k]
    BY <1>4, <2>1, Zenon DEF Attributable
  <2>2. CASE j = lastLine /\ r.kind = "start"
    BY <1>1, <1>2, <1>4, <2>2, Zenon
  <2>3. CASE k = lastLine /\ r.kind = "start"
    BY <1>1, <1>2, <1>4, <2>3, Zenon
  <2> QED BY <1>2, <2>1, <2>2, <2>3, Zenon
<1> DEFINE Before(k) == \E j \in At("start")' : j < k /\ file'[j].seq = file'[k].seq
           Alone(k) == file'[k].kind = "end" /\ Unstarted(file[k].seq)'
<1>5. ASSUME NEW k \in At("frame")' \cup At("end")'
      PROVE  Before(k) \/ Alone(k)
  <2>1. CASE k \in At("frame") \cup At("end") /\ file'[k] = file[k]
    <3>1. CASE \E j \in At("start") : j < k /\ file[j].seq = file[k].seq
      BY <1>3, <2>1, <3>1, Zenon
    <3>2. CASE file[k].kind = "end" /\ Unstarted(file[k].seq)
      <4>1. \E c \in Cmds : cmd'[c].at = "ended" /\ ~cmd'[c].rec /\ cmd'[c].seq = file[k].seq
        BY <3>2, StaysUnstarted, Zenon
      <4> QED BY <2>1, <3>2, <4>1, Zenon DEF Unstarted
    <3> QED BY <2>1, <3>1, <3>2, Zenon DEF Attributable
  <2>2. CASE k = lastLine /\ r.kind \in {"frame", "end"}
    <3>1. CASE \E j \in At("start") : file[j].seq = r.seq
      BY <1>1, <1>3, <2>2, <3>1, Zenon
    <3>2. CASE r.kind = "end" /\ \E c \in Cmds : /\ cmd'[c].at = "ended" /\ ~cmd'[c].rec
                                               /\ cmd'[c].seq = r.seq
      BY <1>1, <2>2, <3>2, Zenon DEF Unstarted
    <3> QED BY <2>2, <3>1, <3>2, Zenon
  <2> QED BY <1>2, <2>1, <2>2, Zenon
<1>6. ASSUME NEW k \in At("end")', NEW j \in At("frame")', j > k, file'[j].seq = file'[k].seq
      PROVE  file'[j].n = 1
  BY <1>1, <1>2, <1>6 DEF Attributable, At
<1> QED BY <1>4, <1>5, <1>6, Zenon DEF Attributable

(* Appending keeps what Recorded says, if the commands are as far as before *)
(* or further, and the record itself is accounted for.                      *)
LEMMA StaysRecorded ==
    ASSUME RecordTypeOK, Recorded, NEW r \in Rec, file' = Append(file, r),
           \A c \in Cmds : cmd[c].at \in Past =>
               cmd'[c].at \in Past /\ cmd'[c].seq = cmd[c].seq /\ cmd'[c].rec = cmd[c].rec,
           \A c \in Cmds : cmd[c].at = "ended" => cmd'[c].at = "ended",
           \A c \in Cmds : cmd'[c].at \in Past /\ cmd[c].at \notin Past =>
               r.kind = "start" /\ r.seq = cmd'[c].seq,
           r.kind = "start" =>
               \E c \in Cmds : cmd'[c].at \in Past /\ cmd'[c].seq = r.seq,
           r.kind = "end" => \E c \in Cmds : cmd'[c].at = "ended" /\ cmd'[c].seq = r.seq
    PROVE  Recorded'
<1> DEFINE lastLine == Len(file) + 1
<1>1. /\ file' \in Seq(Rec) /\ lastLine \in Nat
      /\ DOMAIN file' = DOMAIN file \cup {lastLine}
      /\ \A k \in DOMAIN file : k \in Nat /\ k < lastLine /\ file'[k] = file[k]
      /\ file'[lastLine] = r
  BY Grows, Zenon DEF RecordTypeOK
<1>2. \A x \in {"start", "end"} : \A k \in At(x)' :
          \/ k \in At(x) /\ file'[k] = file[k]
          \/ k = lastLine /\ r.kind = x
  BY <1>1, Zenon DEF At
<1>3. /\ \A j \in At("start") : j \in At("start")' /\ file'[j] = file[j]
      /\ r.kind = "start" => lastLine \in At("start")'
  BY <1>1, Zenon DEF At
<1> HIDE DEF lastLine
<1>4. ASSUME NEW k \in At("start")'
      PROVE  \E c \in Cmds : cmd'[c].at \in Past /\ cmd'[c].seq = file'[k].seq
  <2>1. CASE k \in At("start") /\ file'[k] = file[k]
    <3>1. PICK c \in Cmds : cmd[c].at \in Past /\ cmd[c].seq = file[k].seq
      BY <2>1, Zenon DEF Recorded
    <3> QED BY <2>1, <3>1, Zenon
  <2> QED BY <1>1, <1>2, <2>1, Zenon
<1>5. ASSUME NEW k \in At("end")'
      PROVE  \E c \in Cmds : cmd'[c].at = "ended" /\ cmd'[c].seq = file'[k].seq
  <2>1. CASE k \in At("end") /\ file'[k] = file[k]
    <3>1. PICK c \in Cmds : cmd[c].at = "ended" /\ cmd[c].seq = file[k].seq
      BY <2>1, Zenon DEF Recorded
    <3> QED BY <2>1, <3>1, Zenon DEF Past
  <2> QED BY <1>1, <1>2, <2>1, Zenon
<1>6. ASSUME NEW c \in Cmds, cmd'[c].at \in Past, cmd'[c].rec = TRUE
      PROVE  \E j \in At("start")' : file'[j].seq = cmd'[c].seq
  <2>1. CASE cmd[c].at \in Past
    <3>1. PICK j \in At("start") : file[j].seq = cmd[c].seq
      BY <1>6, <2>1, Zenon DEF Recorded
    <3> QED BY <1>3, <2>1, <3>1, Zenon
  <2>2. CASE r.kind = "start" /\ r.seq = cmd'[c].seq
    BY <1>1, <1>3, <2>2, Zenon
  <2> QED BY <1>6, <2>1, <2>2, Zenon
<1> QED BY <1>4, <1>5, <1>6, Zenon DEF Recorded

(* So does leaving the file alone, if the mux of a command that gets past   *)
(* its start does not record.                                               *)
LEMMA StaysUnwritten ==
    ASSUME RecordTypeOK, Recorded, file' = file,
           \A c \in Cmds : cmd[c].at \in Past =>
               cmd'[c].at \in Past /\ cmd'[c].seq = cmd[c].seq /\ cmd'[c].rec = cmd[c].rec,
           \A c \in Cmds : cmd[c].at = "ended" => cmd'[c].at = "ended",
           \A c \in Cmds : cmd'[c].at \in Past /\ cmd[c].at \notin Past => cmd'[c].rec = FALSE
    PROVE  Recorded'
<1>1. At("start")' = At("start") /\ At("end")' = At("end")
  BY Zenon DEF At
<1>2. ASSUME NEW k \in At("start")
      PROVE  \E c \in Cmds : cmd'[c].at \in Past /\ cmd'[c].seq = file'[k].seq
  <2>1. PICK c \in Cmds : cmd[c].at \in Past /\ cmd[c].seq = file[k].seq
    BY Zenon DEF Recorded
  <2> QED BY <2>1, Zenon
<1>3. ASSUME NEW k \in At("end")
      PROVE  \E c \in Cmds : cmd'[c].at = "ended" /\ cmd'[c].seq = file'[k].seq
  <2>1. PICK c \in Cmds : cmd[c].at = "ended" /\ cmd[c].seq = file[k].seq
    BY Zenon DEF Recorded
  <2> QED BY <2>1, Zenon DEF Past
<1>4. ASSUME NEW c \in Cmds, cmd'[c].at \in Past, cmd'[c].rec = TRUE
      PROVE  \E j \in At("start") : file'[j].seq = cmd'[c].seq
  <2>1. cmd[c].at \in Past
    BY <1>4, Zenon
  <2>2. PICK j \in At("start") : file[j].seq = cmd[c].seq
    BY <1>4, <2>1, Zenon DEF Recorded
  <2> QED BY <2>1, <2>2, Zenon
<1> QED BY <1>1, <1>2, <1>3, <1>4 DEF Recorded

(* Taking a number. *)
LEMMA TakeSeqKeeps ==
    ASSUME RInv, NEW c \in Cmds, TakeSeq(c)
    PROVE  RInv'
<1>1. /\ cmd[c].at = "idle" /\ seqNum' = seqNum + 1 /\ UNCHANGED <<file, open>>
      /\ cmd' = [cmd EXCEPT ![c] = [cmd[c] EXCEPT !.at = "start", !.seq = seqNum]]
  BY Zenon DEF TakeSeq, RInv, RecordTypeOK
<1>2. RecordTypeOK'
  <2>1. [cmd[c] EXCEPT !.at = "start", !.seq = seqNum] \in
            [at : {"idle", "start", "running", "ended"}, seq : Nat, rec : BOOLEAN, frames : Nat]
    BY Zenon DEF RInv, RecordTypeOK
  <2>2. cmd' \in [Cmds -> [at : {"idle", "start", "running", "ended"}, seq : Nat,
                           rec : BOOLEAN, frames : Nat]]
    BY <1>1, <2>1, Zenon DEF RInv, RecordTypeOK
  <2>3. seqNum' \in Nat
    BY <1>1 DEF RInv, RecordTypeOK
  <2> QED BY <1>1, <2>2, <2>3, Zenon DEF RInv, RecordTypeOK
<1>3. /\ \A d \in Cmds : d # c => cmd'[d] = cmd[d]
      /\ cmd'[c].at = "start" /\ cmd'[c].seq = seqNum
  BY <1>1, Zenon DEF RInv, RecordTypeOK
<1>4. seqNum \in Nat /\ \A d \in Cmds : cmd[d].seq \in Nat
  BY Zenon DEF RInv, RecordTypeOK
<1>5. Numbered'
  BY <1>1, <1>3, <1>4 DEF RInv, Numbered
<1>6. Recorded'
  <2>1. \A d \in Cmds : /\ cmd[d].at \in Past => cmd'[d] = cmd[d]
                        /\ cmd'[d].at \in Past => cmd[d].at \in Past
    BY <1>1, <1>3, Zenon DEF Past
  <2> QED BY <1>1, <2>1, StaysUnwritten, Zenon DEF RInv, Past
<1>7. Attributable'
  BY <1>1, <1>3, StillAttributable, Zenon DEF RInv, EndsKept
<1> QED BY <1>2, <1>5, <1>6, <1>7, Zenon DEF RInv

(* A record made of a command's number. *)
LEMMA IsRec ==
    ASSUME RInv, NEW c \in Cmds, NEW k \in {"start", "frame", "end"}, NEW m \in {0, 1}
    PROVE  [kind |-> k, seq |-> cmd[c].seq, n |-> m] \in Rec
BY DEF RInv, RecordTypeOK, Rec

(* The start of a command, written or not. *)
LEMMA StartKeeps ==
    ASSUME RInv, NEW c \in Cmds, WriteCommandStart(c)
    PROVE  RInv'
<1> DEFINE r == [kind |-> "start", seq |-> cmd[c].seq, n |-> 0]
<1>1. PICK ok \in BOOLEAN :
      /\ cmd[c].at = "start" /\ UNCHANGED <<open, seqNum>>
      /\ cmd' = [cmd EXCEPT ![c] = [cmd[c] EXCEPT !.at = "running", !.rec = ok]]
      /\ file' = IF ok THEN Append(file, r) ELSE file
  BY Zenon DEF WriteCommandStart, write, RInv, RecordTypeOK
<1>2. r \in Rec
  BY IsRec, Zenon
<1>3. /\ \A d \in Cmds : d # c => cmd'[d] = cmd[d]
      /\ cmd'[c].at = "running" /\ cmd'[c].seq = cmd[c].seq /\ cmd'[c].rec = ok
  BY <1>1, Zenon DEF RInv, RecordTypeOK
<1>4. cmd' \in [Cmds -> [at : {"idle", "start", "running", "ended"}, seq : Nat,
                         rec : BOOLEAN, frames : Nat]]
  BY <1>1, Zenon DEF RInv, RecordTypeOK
<1>5. Numbered'
  BY <1>1, <1>3 DEF RInv, Numbered
<1>6. \A d \in Cmds : /\ cmd[d].at \in Past => cmd'[d] = cmd[d] /\ d # c
                      /\ cmd'[d].at \in Past /\ cmd[d].at \notin Past => d = c
  BY <1>1, <1>3, Zenon DEF Past
<1>7. EndsKept
  BY <1>1, <1>3, Zenon DEF EndsKept
<1>8. CASE ok = TRUE
  <2>1. file' = Append(file, r)
    BY <1>1, <1>8, Zenon
  <2>2. \A k \in At("start") : file[k].seq # cmd[c].seq
    BY <1>1 DEF RInv, Numbered, Recorded, Past
  <2>3. Recorded'
    BY <1>1, <1>2, <1>3, <1>6, <2>1, StaysRecorded DEF RInv, Past
  <2>4. Attributable'
    BY <1>2, <1>7, <2>1, <2>2, StaysAttributable, Zenon DEF RInv
  <2>5. RecordTypeOK'
    BY <1>1, <1>2, <1>4, <2>1, Grows, Zenon DEF RInv, RecordTypeOK
  <2> QED BY <1>5, <2>3, <2>4, <2>5, Zenon DEF RInv
<1>9. CASE ok = FALSE
  <2>1. file' = file
    BY <1>1, <1>9, Zenon
  <2>2. Recorded'
    BY <1>1, <1>3, <1>6, <1>9, <2>1, StaysUnwritten, Zenon DEF RInv, Past
  <2>3. Attributable'
    BY <1>7, <2>1, StillAttributable, Zenon DEF RInv
  <2>4. RecordTypeOK'
    BY <1>1, <1>4, <2>1, Zenon DEF RInv, RecordTypeOK
  <2> QED BY <1>5, <2>2, <2>3, <2>4, Zenon DEF RInv
<1> QED BY <1>8, <1>9, Zenon

(* A record of a command past its start: a frame while it runs, the frame   *)
(* of a signal, or its end; or nothing is written.                          *)
LEMMA RecordKeeps ==
    ASSUME RInv, NEW c \in Cmds, cmd[c].at \in Past, NEW k \in {"frame", "end"}, NEW m \in {0, 1},
           \/ file' = file
           \/ /\ file' = Append(file, [kind |-> k, seq |-> cmd[c].seq, n |-> m])
              /\ k = "frame" => cmd[c].rec = TRUE,
           k = "end" => cmd'[c].at = "ended",
           k = "frame" /\ m = 0 => cmd[c].at = "running",
           cmd' \in [Cmds -> [at : {"idle", "start", "running", "ended"}, seq : Nat,
                             rec : BOOLEAN, frames : Nat]],
           \A d \in Cmds : cmd'[d].seq = cmd[d].seq /\ cmd'[d].rec = cmd[d].rec,
           \A d \in Cmds : cmd'[d].at = cmd[d].at \/ (d = c /\ cmd'[d].at = "ended"),
           UNCHANGED <<open, seqNum>>
    PROVE  RInv'
<1> DEFINE r == [kind |-> k, seq |-> cmd[c].seq, n |-> m]
<1>1. r \in Rec
  BY IsRec, Zenon
<1>2. \A d \in Cmds : /\ cmd[d].at \in Past <=> cmd'[d].at \in Past
                      /\ cmd'[d].at # "idle" => cmd[d].at # "idle"
                      /\ cmd[d].at = "ended" => cmd'[d].at = "ended"
  BY Zenon DEF Past
<1>3. Numbered'
  <2>1. \A d \in Cmds : cmd'[d].at # "idle" => cmd'[d].seq < seqNum'
    BY <1>2, Zenon DEF RInv, Numbered
  <2>2. ASSUME NEW d \in Cmds, NEW e \in Cmds, cmd'[d].at # "idle", cmd'[e].at # "idle",
               cmd'[d].seq = cmd'[e].seq
        PROVE  d = e
    <3>1. cmd[d].at # "idle" /\ cmd[e].at # "idle" /\ cmd[d].seq = cmd[e].seq
      BY <1>2, <2>2, Zenon
    <3> QED BY <3>1, Zenon DEF RInv, Numbered
  <2> QED BY <2>1, <2>2, Zenon DEF Numbered
<1>4. EndsKept
  BY Zenon DEF EndsKept
<1>5. CASE file' = file
  <2>1. Recorded'
    BY <1>2, <1>5, StaysUnwritten, Zenon DEF RInv
  <2>2. Attributable'
    BY <1>5, <1>4, StillAttributable, Zenon DEF RInv
  <2>3. RecordTypeOK'
    BY <1>5, Zenon DEF RInv, RecordTypeOK
  <2> QED BY <1>3, <2>1, <2>2, <2>3, Zenon DEF RInv
<1>6. CASE file' = Append(file, r) /\ (k = "frame" => cmd[c].rec = TRUE)
  <2>1. \/ \E j \in At("start") : file[j].seq = cmd[c].seq
        \/ k = "end" /\ cmd'[c].at = "ended" /\ ~cmd'[c].rec /\ cmd'[c].seq = cmd[c].seq
    <3>1. CASE cmd[c].rec = TRUE
      BY <3>1, Zenon DEF RInv, Recorded
    <3>2. CASE cmd[c].rec = FALSE
      BY <1>6, <3>2, Zenon
    <3>3. cmd[c].rec \in BOOLEAN
      BY Zenon DEF RInv, RecordTypeOK
    <3> QED BY <3>1, <3>2, <3>3, Zenon
  <2>2. ASSUME k = "frame", m = 0, NEW i \in At("end")
        PROVE  file[i].seq # cmd[c].seq
    <3>1. PICK d \in Cmds : cmd[d].at = "ended" /\ cmd[d].seq = file[i].seq
      BY Zenon DEF RInv, Recorded
    <3>2. cmd[c].at = "running"
      BY <2>2, Zenon
    <3> QED BY <3>1, <3>2, Zenon DEF RInv, Numbered
  <2>3. r.kind = k /\ r.seq = cmd[c].seq /\ r.n = m
    BY Zenon
  <2> HIDE DEF r
  <2>4. Attributable'
    <3>1. r.kind = "frame" /\ r.n # 1 => \A i \in At("end") : file[i].seq # r.seq
      BY <2>2, <2>3, Zenon
    <3>2. r.kind \in {"frame", "end"} =>
              \/ \E j \in At("start") : file[j].seq = r.seq
              \/ r.kind = "end" /\ \E d \in Cmds : /\ cmd'[d].at = "ended" /\ ~cmd'[d].rec
                                                   /\ cmd'[d].seq = r.seq
      BY <2>1, <2>3, Zenon
    <3>3. r.kind # "start"
      BY <2>3, Zenon
    <3> QED BY <1>1, <1>6, <1>4, <3>1, <3>2, <3>3, StaysAttributable, Zenon DEF RInv
  <2>5. Recorded'
    <3>1. r.kind = "end" => \E d \in Cmds : cmd'[d].at = "ended" /\ cmd'[d].seq = r.seq
      BY <2>3, Zenon
    <3>2. r.kind # "start"
      BY <2>3, Zenon
    <3> QED BY <1>1, <1>2, <1>6, <3>1, <3>2, StaysRecorded, Zenon DEF RInv
  <2>6. RecordTypeOK'
    BY <1>1, <1>6, Grows, Zenon DEF RInv, RecordTypeOK
  <2> QED BY <1>3, <2>4, <2>5, <2>6, Zenon DEF RInv
<1> QED BY <1>5, <1>6, Zenon

(* Frames and ends are such records. *)
LEMMA FramesKeep ==
    ASSUME RInv, NEW c \in Cmds, WriteFrame(c) \/ WriteSignal(c) \/ WriteCommandEnd(c)
    PROVE  RInv'
<1>1. open \in BOOLEAN /\ cmd[c].rec \in BOOLEAN
  BY Zenon DEF RInv, RecordTypeOK
<1>2. CASE WriteFrame(c)
  <2>1. /\ cmd[c].at = "running" /\ UNCHANGED <<open, seqNum>>
        /\ cmd' = [cmd EXCEPT ![c] = [cmd[c] EXCEPT !.frames = cmd[c].frames + 1]]
    BY <1>2, Zenon DEF WriteFrame, RInv, RecordTypeOK
  <2>2. \/ file' = file
        \/ /\ file' = Append(file, [kind |-> "frame", seq |-> cmd[c].seq, n |-> 0])
           /\ cmd[c].rec = TRUE
    BY <1>1, <1>2, Zenon DEF WriteFrame, write
  <2>3. cmd[c].frames + 1 \in Nat
    BY DEF RInv, RecordTypeOK
  <2>4. cmd' \in [Cmds -> [at : {"idle", "start", "running", "ended"}, seq : Nat,
                           rec : BOOLEAN, frames : Nat]]
    BY <2>1, <2>3, Zenon DEF RInv, RecordTypeOK
  <2>5. \A d \in Cmds : cmd'[d].seq = cmd[d].seq /\ cmd'[d].rec = cmd[d].rec
                        /\ cmd'[d].at = cmd[d].at
    BY <2>1, Zenon DEF RInv, RecordTypeOK
  <2> QED BY <2>1, <2>2, <2>4, <2>5, RecordKeeps, Zenon DEF Past
<1>3. CASE WriteSignal(c)
  <2>1. cmd[c].at \in Past /\ UNCHANGED <<open, seqNum>>
    BY <1>3, Zenon DEF WriteSignal, Past
  <2>2. \/ file' = file
        \/ /\ file' = Append(file, [kind |-> "frame", seq |-> cmd[c].seq, n |-> 1])
           /\ cmd[c].rec = TRUE
    BY <1>1, <1>3, Zenon DEF WriteSignal, write
  <2>3. cmd' \in [Cmds -> [at : {"idle", "start", "running", "ended"}, seq : Nat,
                           rec : BOOLEAN, frames : Nat]]
    BY <1>3, Zenon DEF WriteSignal, RInv, RecordTypeOK
  <2>4. \A d \in Cmds : cmd'[d].seq = cmd[d].seq /\ cmd'[d].rec = cmd[d].rec
                        /\ cmd'[d].at = cmd[d].at
    BY <1>3, Zenon DEF WriteSignal
  <2>5. 1 # 0
    OBVIOUS
  <2> QED BY <2>1, <2>2, <2>3, <2>4, <2>5, RecordKeeps, Zenon
<1>4. CASE WriteCommandEnd(c)
  <2>1. /\ cmd[c].at = "running" /\ UNCHANGED <<open, seqNum>>
        /\ cmd' = [cmd EXCEPT ![c] = [cmd[c] EXCEPT !.at = "ended"]]
    BY <1>4, Zenon DEF WriteCommandEnd, RInv, RecordTypeOK
  <2>2. \/ file' = file
        \/ file' = Append(file, [kind |-> "end", seq |-> cmd[c].seq, n |-> 0])
    BY <1>1, <1>4, Zenon DEF WriteCommandEnd, write
  <2>3. cmd' \in [Cmds -> [at : {"idle", "start", "running", "ended"}, seq : Nat,
                           rec : BOOLEAN, frames : Nat]]
    BY <2>1, Zenon DEF RInv, RecordTypeOK
  <2>4. \A d \in Cmds : /\ cmd'[d].seq = cmd[d].seq /\ cmd'[d].rec = cmd[d].rec
                        /\ cmd'[d].at = cmd[d].at \/ (d = c /\ cmd'[d].at = "ended")
    BY <2>1, Zenon DEF RInv, RecordTypeOK
  <2>5. cmd'[c].at = "ended"
    BY <2>1, Zenon DEF RInv, RecordTypeOK
  <2> QED BY <2>1, <2>2, <2>3, <2>4, <2>5, RecordKeeps, Zenon DEF Past
<1> QED BY <1>2, <1>3, <1>4, Zenon

(* The footer belongs to no command. *)
LEMMA CloseKeeps ==
    ASSUME RInv, WriteSessionFooter \/ CloseFile
    PROVE  RInv'
<1> DEFINE r == [kind |-> "footer", seq |-> 0, n |-> seqNum]
<1>1. /\ UNCHANGED <<seqNum, cmd>> /\ open \in BOOLEAN /\ r \in Rec
      /\ open' \in {open, FALSE}
      /\ file' = file \/ file' = Append(file, r)
  BY Zenon DEF WriteSessionFooter, CloseFile, write, RInv, RecordTypeOK, Rec
<1>2. Numbered' /\ EndsKept
  BY <1>1, Zenon DEF RInv, Numbered, EndsKept
<1>3. CASE file' = file
  <2>1. Recorded'
    BY <1>1, <1>3, StaysUnwritten, Zenon DEF RInv
  <2>2. Attributable'
    BY <1>2, <1>3, StillAttributable, Zenon DEF RInv
  <2>3. RecordTypeOK'
    BY <1>1, <1>3, Zenon DEF RInv, RecordTypeOK
  <2> QED BY <1>2, <2>1, <2>2, <2>3, Zenon DEF RInv
<1>4. CASE file' = Append(file, r)
  <2>1. r.kind = "footer"
    BY Zenon
  <2> HIDE DEF r
  <2>2. Recorded'
    BY <1>1, <1>4, <2>1, StaysRecorded, Zenon DEF RInv
  <2>3. Attributable'
    BY <1>1, <1>2, <1>4, <2>1, StaysAttributable, Zenon DEF RInv
  <2>4. RecordTypeOK'
    BY <1>1, <1>4, Grows, Zenon DEF RInv, RecordTypeOK
  <2> QED BY <1>2, <2>2, <2>3, <2>4, Zenon DEF RInv
<1> QED BY <1>1, <1>3, <1>4, Zenon

(* Every record can be attributed to its command, for any number of         *)
(* commands and frames, also when the file is closed under them or a write  *)
(* fails.                                                                   *)
THEOREM RecordsAttributable == Spec => []Attributable
<1>1. Init => RInv
  <2> SUFFICES ASSUME Init PROVE RInv
    BY Zenon
  <2>1. /\ file = <<[kind |-> "header", seq |-> 0, n |-> 0]>>
        /\ \A c \in Cmds : cmd[c].at = "idle"
    BY Zenon DEF Init
  <2>2. At("start") = {} /\ At("frame") = {} /\ At("end") = {}
    BY <2>1 DEF At
  <2>3. RecordTypeOK
    <3>1. [kind |-> "header", seq |-> 0, n |-> 0] \in Rec
      BY Zenon DEF Rec
    <3>2. file \in Seq(Rec)
      BY <2>1, <3>1
    <3> QED BY <3>2, Zenon DEF Init, RecordTypeOK
  <2> QED BY <2>1, <2>2, <2>3, Zenon DEF RInv, Numbered, Recorded, Attributable, Past
<1>2. RInv /\ [Next]_vars => RInv'
  <2> SUFFICES ASSUME RInv, [Next]_vars PROVE RInv'
    BY Zenon
  <2>1. CASE UNCHANGED recordVars
    <3>1. UNCHANGED <<file, open, seqNum, cmd>>
      BY <2>1, Zenon DEF recordVars
    <3>2. RecordTypeOK' /\ EndsKept
      BY <3>1, Zenon DEF RInv, RecordTypeOK, EndsKept
    <3>3. Numbered'
      BY <3>1, Zenon DEF RInv, Numbered
    <3>4. Recorded'
      BY <3>1, StaysUnwritten, Zenon DEF RInv
    <3>5. Attributable'
      BY <3>1, <3>2, StillAttributable, Zenon DEF RInv
    <3> QED BY <3>2, <3>3, <3>4, <3>5, Zenon DEF RInv
  <2>2. CASE UNCHANGED vars
    BY <2>1, <2>2, Zenon DEF vars
  <2> QED BY <2>1, <2>2, TakeSeqKeeps, StartKeeps, FramesKeep, CloseKeeps, Zenon DEF Next
<1>3. RInv => Attributable
  BY Zenon DEF RInv
<1> QED BY <1>1, <1>2, <1>3, PTL DEF Spec

-----------------------------------------------------------------------------
(* The reaper: one lemma per action shows that it preserves the inductive   *)
(* invariant IInv.                                                          *)

USE DEF InHand, Parked, Sent, Returned, kernel, signals, tables, callers

(* NewReaper establishes the inductive invariant. *)
LEMMA InitIInv == ReaperInit => IInv
<1> SUFFICES ASSUME ReaperInit PROVE IInv
  BY Zenon
<1>1. TypeOK
  <2>1. -1 \in Int /\ 0 \in 0..SigChCap
    BY ReaperAssumption
  <2>2. result \in [Waited -> Int]
    BY <2>1, Zenon DEF ReaperInit
  <2>3. watched \subseteq Waited /\ sigch \in 0..SigChCap
    BY <2>1, Zenon DEF ReaperInit
  <2> QED
    BY <2>2, <2>3, Zenon DEF ReaperInit, TypeOK
<1>2. Bookkeeping /\ ZombieHasWakeup /\ NoStrandedWaiter /\ OwnExitCode
  BY ReaperAssumption, Zenon DEF ReaperInit, Bookkeeping, ZombieHasWakeup, NoStrandedWaiter, OwnExitCode
<1>3. StatusNeverLost
  BY ReaperAssumption, Zenon DEF ReaperInit, StatusNeverLost
<1> QED
  BY <1>1, <1>2, <1>3, Zenon DEF IInv

(* A new child of the agent has no status yet. *)
LEMMA AppearIInv == ASSUME IInv, NEW p \in Pids, Appear(p) PROVE IInv'
BY ReaperAssumption DEF Appear, IInv, TypeOK, Bookkeeping, ZombieHasWakeup,
   StatusNeverLost, NoStrandedWaiter, OwnExitCode, Zombies

(* A child that exits leaves a zombie and a pending SIGCHLD. *)
LEMMA ExitIInv == ASSUME IInv, NEW p \in Pids, NEW ws \in Statuses, Exit(p, ws) PROVE IInv'
BY ReaperAssumption DEF Exit, IInv, TypeOK, Bookkeeping, ZombieHasWakeup,
   StatusNeverLost, NoStrandedWaiter, OwnExitCode, Zombies

(* The runtime moves a pending SIGCHLD to the channel, or finds it full. *)
LEMMA ForwardIInv == ASSUME IInv, Forward PROVE IInv'
<1>1. sigch' \in 0..SigChCap /\ sigch' > 0
  BY ReaperAssumption DEF Forward, IInv, TypeOK
<1>2. TypeOK'
  BY <1>1, Zenon DEF Forward, IInv, TypeOK
<1>3. ZombieHasWakeup'
  BY <1>1, Zenon DEF ZombieHasWakeup
<1>4. (Bookkeeping /\ StatusNeverLost /\ NoStrandedWaiter /\ OwnExitCode)'
  BY Zenon DEF Forward, IInv, Bookkeeping, StatusNeverLost, NoStrandedWaiter, OwnExitCode
<1> QED
  BY <1>2, <1>3, <1>4, Zenon DEF IInv

(* Cancelling the context changes no status. *)
LEMMA CancelIInv == ASSUME IInv, Cancel PROVE IInv'
BY ReaperAssumption, Zenon DEF Cancel, IInv, TypeOK, Bookkeeping, ZombieHasWakeup,
   StatusNeverLost, NoStrandedWaiter, OwnExitCode, Zombies

(* The first reapAll needs no signal. *)
LEMMA RunStartIInv == ASSUME IInv, RunStart PROVE IInv'
BY ReaperAssumption, Zenon DEF RunStart, IInv, TypeOK, Bookkeeping, ZombieHasWakeup,
   StatusNeverLost, NoStrandedWaiter, OwnExitCode, Zombies

(* wait4 takes the status of one zombie into hand. *)
LEMMA Wait4ChildIInv == ASSUME IInv, NEW p \in Pids, Wait4Child(p) PROVE IInv'
BY ReaperAssumption DEF Wait4Child, IInv, TypeOK, Bookkeeping, ZombieHasWakeup,
   StatusNeverLost, NoStrandedWaiter, OwnExitCode, Zombies

(* reapAll stops only when there is no zombie. *)
LEMMA Wait4NoneIInv == ASSUME IInv, Wait4None PROVE IInv'
BY ReaperAssumption, Zenon DEF Wait4None, IInv, TypeOK, Bookkeeping, ZombieHasWakeup,
   StatusNeverLost, NoStrandedWaiter, OwnExitCode, Zombies

(* deliver sends the status to its waiter or parks it. *)
LEMMA DeliverIInv == ASSUME IInv, Deliver PROVE IInv'
BY ReaperAssumption DEF Deliver, IInv, TypeOK, Bookkeeping, ZombieHasWakeup,
   StatusNeverLost, NoStrandedWaiter, OwnExitCode, Zombies

(* A received SIGCHLD starts another reapAll. *)
LEMMA SelectSignalIInv == ASSUME IInv, SelectSignal PROVE IInv'
BY ReaperAssumption DEF SelectSignal, IInv, TypeOK, Bookkeeping, ZombieHasWakeup,
   StatusNeverLost, NoStrandedWaiter, OwnExitCode, Zombies

(* Run that returns on a done context holds no status. *)
LEMMA SelectDoneIInv == ASSUME IInv, SelectDone PROVE IInv'
BY ReaperAssumption, Zenon DEF SelectDone, IInv, TypeOK, Bookkeeping, ZombieHasWakeup,
   StatusNeverLost, NoStrandedWaiter, OwnExitCode, Zombies

(* WaitFor takes a parked status or registers, never both. *)
LEMMA WaitForRegisterIInv == ASSUME IInv, NEW p \in Waited, WaitForRegister(p) PROVE IInv'
BY ReaperAssumption DEF WaitForRegister, ExitCodeFromWaitStatus, IInv, TypeOK, Bookkeeping,
   ZombieHasWakeup, StatusNeverLost, NoStrandedWaiter, OwnExitCode, Zombies

(* WaitFor receives the status that deliver sent. *)
LEMMA WaitForReceiveIInv == ASSUME IInv, NEW p \in Waited, WaitForReceive(p) PROVE IInv'
BY ReaperAssumption DEF WaitForReceive, ExitCodeFromWaitStatus, IInv, TypeOK, Bookkeeping,
   ZombieHasWakeup, StatusNeverLost, NoStrandedWaiter, OwnExitCode, Zombies

(* Every step keeps the inductive invariant. *)
LEMMA NextIInv == IInv /\ [ReaperNext]_reaperVars => IInv'
<1> SUFFICES ASSUME IInv, [ReaperNext]_reaperVars PROVE IInv'
  BY Zenon
<1>1. CASE UNCHANGED reaperVars
  BY <1>1, Zenon DEF reaperVars, IInv, TypeOK, Bookkeeping, ZombieHasWakeup, StatusNeverLost,
     NoStrandedWaiter, OwnExitCode, Zombies
<1>2. ASSUME NEW p \in Pids, Appear(p) \/ \E ws \in Statuses : Exit(p, ws)
      PROVE IInv'
  BY <1>2, AppearIInv, ExitIInv, Zenon
<1>3. CASE Forward \/ Cancel
  BY <1>3, ForwardIInv, CancelIInv, Zenon
<1>4. CASE RunStart \/ Wait4None \/ Wait4Interrupted \/ Deliver
  BY <1>1, <1>4, RunStartIInv, Wait4NoneIInv, DeliverIInv, Zenon DEF Wait4Interrupted
<1>5. CASE SelectSignal \/ SelectDone
  BY <1>5, SelectSignalIInv, SelectDoneIInv, Zenon
<1>6. ASSUME NEW p \in Pids, Wait4Child(p) PROVE IInv'
  BY <1>6, Wait4ChildIInv, Zenon
<1>7. ASSUME NEW p \in Waited, WaitForRegister(p) \/ WaitForReceive(p) PROVE IInv'
  BY <1>7, WaitForRegisterIInv, WaitForReceiveIInv, Zenon
<1> QED
  BY <1>1, <1>2, <1>3, <1>4, <1>5, <1>6, <1>7, Zenon DEF ReaperNext

(* Every reachable state of Run and WaitFor satisfies the inductive invariant. *)
THEOREM IInvariance == ReaperSpec => []IInv
BY InitIInv, NextIInv, PTL DEF ReaperSpec

(* Run and WaitFor keep every variable of the reaper in its range; in       *)
(* particular sigch never holds more than its capacity.                     *)
THEOREM TypeCorrect == ReaperSpec => []TypeOK
<1>1. IInv => TypeOK
  BY Zenon DEF IInv
<1> QED
  BY <1>1, IInvariance, PTL

(* Run never sleeps on a zombie without a SIGCHLD on its way.               *)
THEOREM NoLostWakeup == ReaperSpec => []ZombieHasWakeup
<1>1. IInv => ZombieHasWakeup
  BY Zenon DEF IInv
<1> QED
  BY <1>1, IInvariance, PTL

(* deliver and WaitFor keep the status of every reaped child in exactly one *)
(* place until it is returned, and never strand a registered waiter.        *)
THEOREM StatusConservation == ReaperSpec => [](StatusNeverLost /\ NoStrandedWaiter)
<1>1. IInv => StatusNeverLost /\ NoStrandedWaiter
  BY Zenon DEF IInv
<1> QED
  BY <1>1, IInvariance, PTL

(* WaitFor returns the exit code of its own child.                          *)
THEOREM WaitForReturnsOwnCode == ReaperSpec => []OwnExitCode
<1>1. IInv => OwnExitCode
  BY Zenon DEF IInv
<1> QED
  BY <1>1, IInvariance, PTL

-----------------------------------------------------------------------------
(* Refinement. *)

(* The initial states map to initial states of ChildWait. *)
LEMMA InitRefines == ReaperInit => Abstract!Init
BY ReaperAssumption, Zenon DEF ReaperInit, Abstract!Init

(* Every step of the reaper is a step of ChildWait or changes nothing in it. *)
LEMMA NextRefines == IInv /\ [ReaperNext]_reaperVars => [Abstract!Next]_(Abstract!wvars)
<1> SUFFICES ASSUME IInv, [ReaperNext]_reaperVars PROVE [Abstract!Next]_(Abstract!wvars)
  BY Zenon
<1> USE DEF Abstract!wvars
<1>1. CASE UNCHANGED reaperVars
  BY <1>1, Zenon DEF reaperVars
<1>2. ASSUME NEW p \in Pids, Appear(p) PROVE Abstract!Begin(p)
  BY <1>2, Zenon DEF Appear, Abstract!Begin, IInv, TypeOK, Bookkeeping
<1>3. ASSUME NEW p \in Pids, NEW ws \in Statuses, Exit(p, ws) PROVE Abstract!End(p, ws)
  BY <1>3, Zenon DEF Exit, Abstract!End, IInv, TypeOK, Bookkeeping
<1>4. CASE Forward \/ Cancel \/ RunStart \/ Wait4None \/ Wait4Interrupted \/ Deliver
           \/ SelectSignal \/ SelectDone
  BY <1>1, <1>4, Zenon DEF Forward, Cancel, RunStart, Wait4None, Wait4Interrupted, Deliver,
     SelectSignal, SelectDone
<1>5. ASSUME NEW p \in Pids, Wait4Child(p) PROVE UNCHANGED Abstract!wvars
  BY <1>5, Zenon DEF Wait4Child, IInv, TypeOK
<1>6. ASSUME NEW p \in Waited, WaitForRegister(p)
      PROVE Abstract!Call(p) \/ Abstract!Return(p)
  BY <1>6, ReaperAssumption, Zenon DEF WaitForRegister, Abstract!Call, Abstract!Return, IInv, TypeOK,
     Bookkeeping, ExitCodeFromWaitStatus, Abstract!ExitCodeFromWaitStatus
<1>7. ASSUME NEW p \in Waited, WaitForReceive(p) PROVE Abstract!Return(p)
  BY <1>7, ReaperAssumption, Zenon DEF WaitForReceive, Abstract!Return, IInv, TypeOK, Bookkeeping,
     ExitCodeFromWaitStatus, Abstract!ExitCodeFromWaitStatus
<1> QED
  BY <1>1, <1>2, <1>3, <1>4, <1>5, <1>6, <1>7, Zenon DEF ReaperNext, Abstract!Next

(* The reaper implements ChildWait: seen from its callers, a child ends     *)
(* once, and WaitFor returns after that with that child's code.             *)
THEOREM Refinement == ReaperSpec => AbstractSpec
BY InitRefines, NextRefines, IInvariance, PTL DEF ReaperSpec, AbstractSpec, Abstract!Spec
=============================================================================
