----------------------------- MODULE Recording -----------------------------
(***************************************************************************)
(* The session recording (pkg/agentproto/recording.go): concurrent         *)
(* commands (RunWithControl, pkg/remoteexec/agent_runner.go) write their   *)
(* start, the frames of their mux and their end into one file, while       *)
(* runtimeDeps.Close, which does not wait for them, writes the footer and  *)
(* closes the file.  A command is recorded once its agent was started, as  *)
(* module AgentUpload says.                                                *)
(***************************************************************************)
EXTENDS AgentUpload, Sequences

CONSTANT MaxFrames    \* frames of one command (bound)

ASSUME RecordingAssumption == MaxFrames \in Nat

VARIABLES
    file,     \* the records written: [kind, seq, n]
    open,     \* the file is open
    seqNum,   \* commands numbered so far
    cmd,      \* [Cmds -> [at, seq, rec (the mux records), frames]]
    sig,      \* [Cmds -> a signal is still to be forwarded]
    closer    \* Recorder.Close: "no", "footer", "done"

recordVars == <<file, open, seqNum, cmd, sig, closer>>
vars == <<uploadVars, recordVars>>

Init ==
    /\ UploadInit
    /\ file = <<[kind |-> "header", seq |-> 0, n |-> 0]>>
    /\ open = TRUE /\ seqNum = 0
    /\ cmd = [c \in Cmds |-> [at |-> "idle", seq |-> 0, rec |-> FALSE, frames |-> 0]]
    /\ sig = [c \in Cmds |-> TRUE]
    /\ closer = "no"

(* A write may fail, and does once the file is closed; it leaves no trace. *)
write(kind, seq, n, ok) ==
    /\ ok => open
    /\ file' = IF ok THEN Append(file, [kind |-> kind, seq |-> seq, n |-> n]) ELSE file

(* session.Start has returned. *)
Started(c) == at[c] \in {"run", "broken", "done"}

(* The counter is read and stored without being advanced atomically. *)
TakeSeqTorn(c) ==
    /\ cmd[c].at = "idle" /\ Started(c)
    /\ cmd' = [cmd EXCEPT ![c].at = "start", ![c].seq = seqNum]
    /\ seqNum' \in {seqNum, seqNum + 1}
    /\ UNCHANGED <<uploadVars, file, open, sig, closer>>

(* The number is taken before, and outside of, the lock. *)
TakeSeq(c) ==
    /\ cmd[c].at = "idle" /\ Started(c)
    /\ cmd' = [cmd EXCEPT ![c].at = "start", ![c].seq = seqNum]
    /\ seqNum' = seqNum + 1
    /\ UNCHANGED <<uploadVars, file, open, sig, closer>>

(* The mux records if the start was written. *)
WriteCommandStart(c) ==
    /\ cmd[c].at = "start"
    /\ \E ok \in BOOLEAN :
          /\ write("start", cmd[c].seq, 0, ok)
          /\ cmd' = [cmd EXCEPT ![c].at = "running", ![c].rec = ok]
    /\ UNCHANGED <<uploadVars, open, seqNum, sig, closer>>

(* Frames of the bridges, which RunWithControl joins, and of the read loop. *)
WriteFrame(c) ==
    /\ cmd[c].at = "running" /\ cmd[c].frames < MaxFrames
    /\ cmd' = [cmd EXCEPT ![c].frames = @ + 1]
    /\ \E ok \in {cmd[c].rec, FALSE} : write("frame", cmd[c].seq, 0, ok)
    /\ UNCHANGED <<uploadVars, open, seqNum, sig, closer>>

(* A signal's frame: its goroutine ends with the connection, and nobody     *)
(* joins it.                                                                *)
WriteSignal(c) ==
    /\ cmd[c].at \in {"running", "ended"} /\ sig[c]
    /\ sig' = [sig EXCEPT ![c] = FALSE]
    /\ \E ok \in {cmd[c].rec, FALSE} : write("frame", cmd[c].seq, 1, ok)
    /\ UNCHANGED <<uploadVars, open, seqNum, cmd, closer>>

(* After ReadLoop, bridgeWG.Wait and session.Wait, whether or not the start *)
(* was written; an early return (a frame that cannot be sent) writes no     *)
(* end.                                                                     *)
WriteCommandEnd(c) ==
    /\ cmd[c].at = "running"
    /\ cmd' = [cmd EXCEPT ![c].at = "ended"]
    /\ \E ok \in {at[c] # "run", FALSE} : write("end", cmd[c].seq, 0, ok)
    /\ UNCHANGED <<uploadVars, open, seqNum, sig, closer>>

(* Close: the footer, with the commands numbered so far, then the file. *)
WriteSessionFooter ==
    /\ closer = "no" /\ closer' = "footer"
    /\ \E ok \in BOOLEAN : write("footer", 0, seqNum, ok)
    /\ UNCHANGED <<uploadVars, open, seqNum, cmd, sig>>

CloseFile ==
    /\ closer = "footer" /\ closer' = "done" /\ open' = FALSE
    /\ UNCHANGED <<uploadVars, file, seqNum, cmd, sig>>

Next ==
    \/ UploadNext /\ UNCHANGED recordVars
    \/ \E c \in Cmds : TakeSeq(c) \/ WriteCommandStart(c) \/ WriteFrame(c)
                       \/ WriteSignal(c) \/ WriteCommandEnd(c)
    \/ WriteSessionFooter \/ CloseFile

Spec == Init /\ [][Next]_vars

-----------------------------------------------------------------------------
At(kind) == {k \in DOMAIN file : file[k].kind = kind}

(* The number of a command that ended and whose start could not be written. *)
Unstarted(s) == \E c \in Cmds : cmd[c].at = "ended" /\ ~cmd[c].rec /\ cmd[c].seq = s

(* Every record can be attributed: no two starts have the same number, a    *)
(* frame or an end comes after the start of its command, but for the end of *)
(* one whose start could not be written, and after its end a command has no *)
(* frames but signals, also when the starts are written out of order or the *)
(* file is closed in between.                                               *)
Attributable ==
    /\ \A j, k \in At("start") : file[j].seq = file[k].seq => j = k
    /\ \A k \in At("frame") \cup At("end") :
        \/ \E j \in At("start") : j < k /\ file[j].seq = file[k].seq
        \/ file[k].kind = "end" /\ Unstarted(file[k].seq)
    /\ \A k \in At("end"), j \in At("frame") :
        j > k /\ file[j].seq = file[k].seq => file[j].n = 1
=============================================================================
