------------------------------ MODULE Command -------------------------------
(***************************************************************************)
(* What a user of a redirected command is promised, with nothing said of   *)
(* shim, broker, runner, agent, sockets or pipes: the command is started   *)
(* elsewhere, takes the input in the order it was given, its output is     *)
(* shown in the order it was written, and it returns once, with its own    *)
(* exit code and after its last output, or with 127 when it was never      *)
(* started or was lost.  Module RemoteCommand shows that the code keeps    *)
(* this promise.                                                           *)
(*                                                                         *)
(* The chunks of a stream are numbered from 1.                             *)
(***************************************************************************)
EXTENDS Integers, Sequences

CONSTANTS
    Ins, Outs,    \* the streams to the command and back
    Reliable      \* output that must be complete when the command returns

VARIABLES
    given, taken,   \* [Ins -> how many chunks the user gave; those the command took]
    wrote, shown,   \* [Outs -> how many chunks the command wrote; those the user saw]
    run,            \* "no", "yes" or "over": whether the command can write
    status,         \* exit code of the command, -1 before
    lost,           \* the connection is gone, or the run over
    answer          \* what the user is told, -1 before

cvars == <<given, taken, wrote, shown, run, status, lost, answer>>

Init ==
    /\ given = [s \in Ins |-> 0] /\ taken = [s \in Ins |-> <<>>]
    /\ wrote = [s \in Outs |-> 0] /\ shown = [s \in Outs |-> <<>>]
    /\ run = "no" /\ status = -1 /\ lost = FALSE /\ answer = -1

Give(s) ==
    /\ given' = [given EXCEPT ![s] = @ + 1]
    /\ UNCHANGED <<taken, wrote, shown, run, status, lost, answer>>

(* A command reported as not started never starts, unless its connection    *)
(* was lost with the request on its way.                                    *)
Begin ==
    /\ run = "no" /\ run' = "yes"
    /\ answer = -1 \/ lost
    /\ UNCHANGED <<given, taken, wrote, shown, status, lost, answer>>

Take(s) ==
    /\ run # "no" /\ Len(taken[s]) < given[s]
    /\ taken' = [taken EXCEPT ![s] = Append(@, Len(@) + 1)]
    /\ UNCHANGED <<given, wrote, shown, run, status, lost, answer>>

Write(s) ==
    /\ run = "yes"
    /\ wrote' = [wrote EXCEPT ![s] = @ + 1]
    /\ UNCHANGED <<given, taken, shown, run, status, lost, answer>>

Show(s) ==
    /\ answer = -1 /\ Len(shown[s]) < wrote[s]
    /\ shown' = [shown EXCEPT ![s] = Append(@, Len(@) + 1)]
    /\ UNCHANGED <<given, taken, wrote, run, status, lost, answer>>

(* The command exits; processes it leaves behind may write on. *)
Exit ==
    /\ run = "yes" /\ status = -1 /\ status' >= 0
    /\ run' \in {"yes", "over"}
    /\ UNCHANGED <<given, taken, wrote, shown, lost, answer>>

(* The last process that could write is gone, or has let go of the output. *)
Over ==
    /\ run = "yes" /\ run' = "over"
    /\ UNCHANGED <<given, taken, wrote, shown, status, lost, answer>>

Lose ==
    /\ lost' = TRUE
    /\ UNCHANGED <<given, taken, wrote, shown, run, status, answer>>

Answer ==
    /\ answer = -1
    /\ \/ /\ status >= 0 /\ answer' = status /\ run = "over"
          /\ \A s \in Reliable : Len(shown[s]) = wrote[s]
       \/ answer' = 127 /\ (run = "no" \/ lost)
    /\ UNCHANGED <<given, taken, wrote, shown, run, status, lost>>

Next ==
    \/ Begin \/ Exit \/ Over \/ Lose \/ Answer
    \/ \E s \in Ins : Give(s) \/ Take(s)
    \/ \E s \in Outs : Write(s) \/ Show(s)

Spec == Init /\ [][Next]_cvars
=============================================================================
