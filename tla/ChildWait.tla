----------------------------- MODULE ChildWait -----------------------------
(***************************************************************************)
(* What mproxy-agent needs from whoever collects its children: a call      *)
(* WaitFor(p) returns once the child p has exited, and returns p's own     *)
(* exit code.  Who reaps which zombie, when a SIGCHLD is delivered and     *)
(* whether the caller or the child is first do not appear here; module     *)
(* Reaper shows that pkg/subreaper keeps this promise.                     *)
(***************************************************************************)
EXTENDS Integers

CONSTANTS Pids,      \* process identifiers of the children
          Waited,    \* the children some caller passes to WaitFor
          Statuses,  \* wait statuses a child can end with
          NoStatus   \* "has not exited"

VARIABLES alive,     \* children that have been started and not exited
          ended,     \* [Pids -> wait status of the exited child, or NoStatus]
          caller,    \* [Waited -> where the caller of WaitFor is]
          answer     \* [Waited -> the exit code WaitFor returned, or -1]

wvars == <<alive, ended, caller, answer>>

(* pkg/childproc ExitCodeFromWaitStatus: 128+signal for a killed child. *)
ExitCodeFromWaitStatus(ws) ==
    IF ws.signaled THEN 128 + ws.n ELSE ws.n

Init ==
    /\ alive = {}
    /\ ended = [p \in Pids |-> NoStatus]
    /\ caller = [p \in Waited |-> "idle"]
    /\ answer = [p \in Waited |-> -1]

Begin(p) ==
    /\ p \notin alive /\ ended[p] = NoStatus
    /\ alive' = alive \cup {p}
    /\ UNCHANGED <<ended, caller, answer>>

End(p, ws) ==
    /\ p \in alive
    /\ alive' = alive \ {p}
    /\ ended' = [ended EXCEPT ![p] = ws]
    /\ UNCHANGED <<caller, answer>>

Call(p) ==
    /\ caller[p] = "idle"
    /\ p \in alive \/ ended[p] # NoStatus
    /\ caller' = [caller EXCEPT ![p] = "waiting"]
    /\ UNCHANGED <<alive, ended, answer>>

Return(p) ==
    /\ caller[p] \in {"idle", "waiting"}
    /\ ended[p] # NoStatus
    /\ caller' = [caller EXCEPT ![p] = "done"]
    /\ answer' = [answer EXCEPT ![p] = ExitCodeFromWaitStatus(ended[p])]
    /\ UNCHANGED <<alive, ended>>

Next ==
    \/ \E p \in Pids : Begin(p) \/ \E ws \in Statuses : End(p, ws)
    \/ \E p \in Waited : Call(p) \/ Return(p)

Spec == Init /\ [][Next]_wvars
=============================================================================
