------------------------------- MODULE Reaper -------------------------------
(***************************************************************************)
(* pkg/subreaper/reap_unix.go: the only waiter of mproxy-agent.            *)
(*                                                                         *)
(* The Run goroutine drains zombies with wait4(-1, WNOHANG) whenever a     *)
(* SIGCHLD arrives and hands each status to the goroutine blocked in       *)
(* WaitFor, or parks it in `pending' for a WaitFor that has not registered *)
(* yet.  The kernel's process table, the coalescing of SIGCHLD and the     *)
(* bounded channel signal.Notify writes to are part of the model, because  *)
(* the code's correctness is about their interleaving.                     *)
(***************************************************************************)
EXTENDS Integers

CONSTANTS Pids,        \* children of this process, forked or reparented to it
          Waited,      \* the ones some goroutine passes to WaitFor
          Statuses,    \* wait statuses: [signaled |-> BOOLEAN, n |-> code or signal]
          NoStatus,    \* not a status
          NoPid,       \* not a pid
          SigChCap     \* capacity of sigch (8 in the code)

ASSUME ReaperAssumption ==
    /\ Waited \subseteq Pids
    /\ NoPid \notin Pids
    /\ NoStatus \notin Statuses
    /\ Statuses \subseteq [signaled : BOOLEAN, n : Nat]
    /\ SigChCap \in Nat \ {0}

VARIABLES
    kproc,      \* kernel: [Pids -> {"unborn", "running", "zombie", "gone"}]
    kstatus,    \* kernel: status a zombie was left with
    notified,   \* signal.Notify has been called
    sigRaised,  \* a SIGCHLD is pending in the kernel or the Go runtime (they coalesce)
    sigch,      \* number of entries in the channel sigch
    ctxDone,    \* ctx has been cancelled
    pc,         \* Run: "start", "reap" (in reapAll), "deliver", "select", "stopped"
    last,       \* the reapAll in progress is the final drain
    hand,       \* pid wait4 just returned, NoPid otherwise
    watched,    \* keys of r.watched
    pending,    \* r.pending: [Pids -> status or NoStatus]
    ch,         \* content of the channel WaitFor made (capacity 1)
    waiter,     \* [Waited -> {"idle", "waiting", "done"}]
    result      \* [Waited -> exit code returned, -1 before]

kernel == <<kproc, kstatus>>
signals == <<notified, sigRaised, sigch>>
tables == <<watched, pending, ch>>
callers == <<waiter, result>>
reaperVars == <<kproc, kstatus, notified, sigRaised, sigch, ctxDone, pc, last, hand,
               watched, pending, ch, waiter, result>>

(* The exit status field alone: zero for a killed child. *)
ExitStatusOnly(ws) == IF ws.signaled THEN 0 ELSE ws.n

ExitCodeFromWaitStatus(ws) ==
    IF ws.signaled THEN 128 + ws.n ELSE ws.n

Zombies == {p \in Pids : kproc[p] = "zombie"}

ReaperInit ==
    /\ kproc = [p \in Pids |-> "unborn"]
    /\ kstatus = [p \in Pids |-> NoStatus]
    /\ notified = FALSE /\ sigRaised = FALSE /\ sigch = 0
    /\ ctxDone = FALSE
    /\ pc = "start" /\ last = FALSE /\ hand = NoPid
    /\ watched = {}
    /\ pending = [p \in Pids |-> NoStatus]
    /\ ch = [p \in Pids |-> NoStatus]
    /\ waiter = [p \in Waited |-> "idle"]
    /\ result = [p \in Waited |-> -1]

-----------------------------------------------------------------------------
(* The operating system. *)

(* A child is started, or an orphaned descendant is reparented to us. *)
Appear(p) ==
    /\ kproc[p] = "unborn"
    /\ kproc' = [kproc EXCEPT ![p] = "running"]
    /\ UNCHANGED <<kstatus, signals, ctxDone, pc, last, hand, tables, callers>>

(* A child exits.  SIGCHLD is ignored by default until Notify is called. *)
Exit(p, ws) ==
    /\ kproc[p] = "running"
    /\ kproc' = [kproc EXCEPT ![p] = "zombie"]
    /\ kstatus' = [kstatus EXCEPT ![p] = ws]
    /\ sigRaised' = (sigRaised \/ notified)
    /\ UNCHANGED <<notified, sigch, ctxDone, pc, last, hand, tables, callers>>

(* os/signal forwards the signal; it drops it when the channel is full. *)
Forward ==
    /\ sigRaised
    /\ sigRaised' = FALSE
    /\ sigch' = IF sigch < SigChCap THEN sigch + 1 ELSE sigch
    /\ UNCHANGED <<kernel, notified, ctxDone, pc, last, hand, tables, callers>>

(* The agent cancels the context. *)
Cancel ==
    /\ ~ctxDone
    /\ ctxDone' = TRUE
    /\ UNCHANGED <<kernel, signals, pc, last, hand, tables, callers>>

-----------------------------------------------------------------------------
(* Run and reapAll. *)

(* Run without the reapAll before the loop. *)
RunStartNoDrain ==
    /\ pc = "start"
    /\ notified' = TRUE
    /\ pc' = "select"
    /\ UNCHANGED <<kernel, sigRaised, sigch, ctxDone, last, hand, tables, callers>>

RunStart ==
    /\ pc = "start"
    /\ notified' = TRUE
    /\ pc' = "reap"
    /\ UNCHANGED <<kernel, sigRaised, sigch, ctxDone, last, hand, tables, callers>>

(* wait4 was interrupted: reapAll tries again. *)
Wait4Interrupted ==
    /\ pc = "reap"
    /\ UNCHANGED reaperVars

Wait4Child(p) ==
    /\ pc = "reap" /\ kproc[p] = "zombie"
    /\ kproc' = [kproc EXCEPT ![p] = "gone"]
    /\ hand' = p
    /\ pc' = "deliver"
    /\ UNCHANGED <<kstatus, signals, ctxDone, last, tables, callers>>

Wait4None ==
    /\ pc = "reap" /\ Zombies = {}
    /\ pc' = IF last THEN "stopped" ELSE "select"
    /\ UNCHANGED <<kernel, signals, ctxDone, last, hand, tables, callers>>

(* A delivery that only serves goroutines already registered. *)
DeliverWatchedOnly ==
    /\ pc = "deliver"
    /\ watched' = watched \ {hand}
    /\ ch' = IF hand \in watched THEN [ch EXCEPT ![hand] = kstatus[hand]] ELSE ch
    /\ hand' = NoPid
    /\ pc' = "reap"
    /\ UNCHANGED <<kernel, signals, ctxDone, last, callers, pending>>

Deliver ==
    /\ pc = "deliver"
    /\ IF hand \in watched
         THEN /\ watched' = watched \ {hand}
              /\ ch' = [ch EXCEPT ![hand] = kstatus[hand]]
              /\ UNCHANGED pending
         ELSE /\ pending' = [pending EXCEPT ![hand] = kstatus[hand]]
              /\ UNCHANGED <<watched, ch>>
    /\ hand' = NoPid
    /\ pc' = "reap"
    /\ UNCHANGED <<kernel, signals, ctxDone, last, callers>>

SelectSignal ==
    /\ pc = "select" /\ sigch > 0
    /\ sigch' = sigch - 1
    /\ pc' = "reap"
    /\ UNCHANGED <<kernel, notified, sigRaised, ctxDone, last, hand, tables, callers>>

SelectDone ==
    /\ pc = "select" /\ ctxDone
    /\ pc' = "reap" /\ last' = TRUE
    /\ UNCHANGED <<kernel, signals, ctxDone, hand, tables, callers>>

-----------------------------------------------------------------------------
(* WaitFor.  The critical section under r.mu is one step. *)

(* WaitFor without the look at r.pending. *)
WaitForRegisterBlindly(p) ==
    /\ waiter[p] = "idle" /\ kproc[p] # "unborn"
    /\ watched' = watched \cup {p}
    /\ waiter' = [waiter EXCEPT ![p] = "waiting"]
    /\ UNCHANGED <<kernel, signals, ctxDone, pc, last, hand, ch, pending, result>>

WaitForRegister(p) ==
    /\ waiter[p] = "idle" /\ kproc[p] # "unborn"
    /\ IF pending[p] # NoStatus
         THEN /\ pending' = [pending EXCEPT ![p] = NoStatus]
              /\ waiter' = [waiter EXCEPT ![p] = "done"]
              /\ result' = [result EXCEPT ![p] = ExitCodeFromWaitStatus(pending[p])]
              /\ UNCHANGED watched
         ELSE /\ watched' = watched \cup {p}
              /\ waiter' = [waiter EXCEPT ![p] = "waiting"]
              /\ UNCHANGED <<pending, result>>
    /\ UNCHANGED <<kernel, signals, ctxDone, pc, last, hand, ch>>

WaitForReceive(p) ==
    /\ waiter[p] = "waiting" /\ ch[p] # NoStatus
    /\ ch' = [ch EXCEPT ![p] = NoStatus]
    /\ waiter' = [waiter EXCEPT ![p] = "done"]
    /\ result' = [result EXCEPT ![p] = ExitCodeFromWaitStatus(ch[p])]
    /\ UNCHANGED <<kernel, signals, ctxDone, pc, last, hand, watched, pending>>

-----------------------------------------------------------------------------
Run == RunStart \/ Wait4None \/ Deliver \/ SelectSignal \/ SelectDone
       \/ \E p \in Pids : Wait4Child(p)

ReaperNext ==
    \/ \E p \in Pids : Appear(p) \/ \E ws \in Statuses : Exit(p, ws)
    \/ Forward \/ Cancel
    \/ RunStart \/ Wait4None \/ Wait4Interrupted \/ Deliver
    \/ SelectSignal \/ SelectDone
    \/ \E p \in Pids : Wait4Child(p)
    \/ \E p \in Waited : WaitForRegister(p) \/ WaitForReceive(p)

ReaperSpec == ReaperInit /\ [][ReaperNext]_reaperVars

(* Goroutines are scheduled, the runtime forwards signals, and wait4 is not *)
(* interrupted for ever.  Nothing makes a child exit or anyone call WaitFor *)
(* or cancel.                                                               *)
FairSpec ==
    /\ ReaperSpec
    /\ WF_reaperVars(Run) /\ WF_reaperVars(Forward)
    /\ \A p \in Waited : WF_reaperVars(WaitForReceive(p))
-----------------------------------------------------------------------------
TypeOK ==
    /\ kproc \in [Pids -> {"unborn", "running", "zombie", "gone"}]
    /\ kstatus \in [Pids -> Statuses \cup {NoStatus}]
    /\ notified \in BOOLEAN /\ sigRaised \in BOOLEAN
    /\ sigch \in 0..SigChCap
    /\ ctxDone \in BOOLEAN
    /\ pc \in {"start", "reap", "deliver", "select", "stopped"}
    /\ last \in BOOLEAN
    /\ hand \in Pids \cup {NoPid}
    /\ watched \subseteq Waited
    /\ pending \in [Pids -> Statuses \cup {NoStatus}]
    /\ ch \in [Pids -> Statuses \cup {NoStatus}]
    /\ waiter \in [Waited -> {"idle", "waiting", "done"}]
    /\ result \in [Waited -> Int]

(* No lost wake-up (comments of Run and reapAll: "a later WaitFor would      *)
(* block forever"): whenever Run sleeps in its select while some child is a *)
(* zombie, a SIGCHLD is on its way to it, although signals coalesce, the    *)
(* channel is bounded and children may have exited before Notify.           *)
ZombieHasWakeup ==
    pc = "select" /\ Zombies # {} => sigRaised \/ sigch > 0

(* The places where the status of p can be once the kernel has given it up. *)
InHand(p) == hand = p
Parked(p) == pending[p] # NoStatus
Sent(p) == ch[p] # NoStatus
Returned(p) == p \in Waited /\ waiter[p] = "done"

(* deliver's "so it isn't lost": the status of a child that has been reaped *)
(* is in exactly one place (with Run, in r.pending, in its waiter's channel *)
(* or returned by WaitFor), and that of a child not reaped is in none.      *)
StatusNeverLost ==
    \A p \in Pids :
        /\ kproc[p] = "gone" <=> InHand(p) \/ Parked(p) \/ Sent(p) \/ Returned(p)
        /\ InHand(p) => ~(Parked(p) \/ Sent(p) \/ Returned(p))
        /\ Parked(p) => ~(Sent(p) \/ Returned(p))
        /\ Sent(p) => ~Returned(p)

(* WaitFor never blocks on a channel nobody will write: while a caller is   *)
(* registered its child's status is not parked where deliver put it for a   *)
(* caller that had not come yet.                                            *)
NoStrandedWaiter ==
    \A p \in Waited : waiter[p] = "waiting" =>
        /\ pending[p] = NoStatus
        /\ p \in watched \/ ch[p] # NoStatus

(* WaitFor returns the code of its own child, with the shell's 128+signal   *)
(* for a child that was killed, however many others exit at the same time.  *)
OwnExitCode ==
    \A p \in Waited : waiter[p] = "done" =>
        /\ kproc[p] = "gone"
        /\ result[p] = (IF kstatus[p].signaled THEN 128 ELSE 0) + kstatus[p].n

(* A WaitFor whose child has exited returns, unless the agent cancels Run.  *)
WaitForReturns ==
    \A p \in Waited :
        (waiter[p] = "waiting" /\ kproc[p] \in {"zombie", "gone"})
            ~> (waiter[p] = "done" \/ ctxDone)

(* The state the invariants above rest on: which statuses exist, whose they *)
(* are, and that a waiter is registered exactly until its status is sent.   *)
Bookkeeping ==
    /\ notified <=> pc # "start"
    /\ hand # NoPid <=> pc = "deliver"
    /\ \A p \in Pids :
        /\ kstatus[p] # NoStatus <=> kproc[p] \in {"zombie", "gone"}
        /\ pending[p] \in {kstatus[p], NoStatus}
        /\ ch[p] \in {kstatus[p], NoStatus}
        /\ ch[p] # NoStatus => p \in Waited
    /\ \A p \in Waited :
        /\ p \in watched => waiter[p] = "waiting"
        /\ ch[p] # NoStatus => waiter[p] = "waiting"
        /\ p \in watched => ch[p] = NoStatus
        /\ waiter[p] # "idle" => kproc[p] # "unborn"

(* The inductive invariant of the reaper. *)
IInv == /\ TypeOK /\ Bookkeeping
        /\ ZombieHasWakeup /\ StatusNeverLost /\ NoStrandedWaiter /\ OwnExitCode

(* The reaper keeps the promise of ChildWait: a child has ended as soon as  *)
(* the kernel made it a zombie.                                             *)
Abstract == INSTANCE ChildWait WITH
    alive <- {p \in Pids : kproc[p] = "running"},
    ended <- kstatus,
    caller <- waiter,
    answer <- result

AbstractSpec == Abstract!Spec
=============================================================================
