---------------------------- MODULE AgentUpload ----------------------------
(***************************************************************************)
(* How the agent binary gets to the remote side and is started from there: *)
(* Transferer.Ensure (pkg/agenttransfer), UploadAgent of the two backends, *)
(* and the runner that starts a session with the path Ensure returned.     *)
(*                                                                         *)
(* A machineproxy run has two transferers, one for the query of the remote *)
(* PATH and one for the broker's commands; with Docker it uploads once     *)
(* more when its backend starts. All of them write the same file.          *)
(***************************************************************************)
EXTENDS Naturals

CONSTANTS
    Cmds,      \* commands, concurrent with each other
    NoOne,
    MaxFails   \* uploads that fail (bound)

(* Who needs the agent: the backend's start, the query and the commands. *)
Clients == {"boot", "query"} \cup Cmds

ASSUME AgentUploadAssumption ==
    MaxFails \in Nat /\ {"boot", "query"} \cap Cmds = {} /\ NoOne \notin Clients

Transferers == {"query", "broker"}

VARIABLES
    docker,    \* the backend is Docker, else SSH
    at,        \* [Clients -> step]
    mu,        \* [Transferers -> client that holds t.mu, or NoOne]
    resolved,  \* [Transferers -> t.resolved is set]
    uploads,   \* [Transferers -> uploads that succeeded]
    agentFile, \* the remote file: "absent", "partial", "whole"
    execBit,   \* its mode lets it be executed
    fails

uploadVars == <<docker, at, mu, resolved, uploads, agentFile, execBit, fails>>

trans(c) == IF c = "query" THEN "query" ELSE "broker"

UploadInit ==
    /\ docker \in BOOLEAN
    /\ \E proxied \in BOOLEAN :     \* container.path_proxy
        LET skipped == (IF docker THEN {} ELSE {"boot"}) \cup (IF proxied THEN {} ELSE {"query"}) IN
        at = [c \in Clients |-> IF c \in skipped THEN "done" ELSE "idle"]
    /\ mu = [t \in Transferers |-> NoOne]
    /\ resolved = [t \in Transferers |-> FALSE] /\ uploads = [t \in Transferers |-> 0]
    /\ agentFile \in {"absent", "partial", "whole"}     \* as earlier runs left it
    /\ execBit \in BOOLEAN /\ (agentFile = "absent" => ~execBit)
    /\ fails = 0

Step(c, s) == at' = [at EXCEPT ![c] = s]

(* The runtime's order: the backend's upload, the query, the commands. *)
Due(c) ==
    /\ c # "boot" => at["boot"] = "done"
    /\ c \in Cmds => at["query"] = "done"

Running == {c \in Clients : at[c] = "run"}

-----------------------------------------------------------------------------
(* Transferer.Ensure *)

(* A mutation: Ensure looks at t.resolved before it has the lock. *)
EnsureUnlocked(c) ==
    /\ at[c] = "idle" /\ Due(c) /\ c # "boot"
    /\ Step(c, IF resolved[trans(c)] THEN "ready" ELSE "open")
    /\ UNCHANGED <<docker, mu, resolved, uploads, agentFile, execBit, fails>>

Ensure(c) ==
    /\ at[c] = "idle" /\ Due(c) /\ c # "boot"
    /\ mu[trans(c)] = NoOne
    /\ IF resolved[trans(c)] THEN Step(c, "ready") /\ mu' = mu
       ELSE Step(c, "open") /\ mu' = [mu EXCEPT ![trans(c)] = c]
    /\ UNCHANGED <<docker, resolved, uploads, agentFile, execBit, fails>>

(* StartBackend uploads without a transferer. *)
Boot(c) ==
    /\ at[c] = "idle" /\ c = "boot"
    /\ Step(c, "open")
    /\ UNCHANGED <<docker, mu, resolved, uploads, agentFile, execBit, fails>>

Unlock(c) == [t \in Transferers |-> IF mu[t] = c THEN NoOne ELSE mu[t]]

-----------------------------------------------------------------------------
(* UploadAgent *)

(* SFTP: opening the file truncates it in place, which the remote kernel    *)
(* refuses while an agent runs from it; a new file is not executable yet.   *)
OpenSftp(c) ==
    IF Running # {}
    THEN Step(c, "refused") /\ mu' = Unlock(c) /\ UNCHANGED <<agentFile, execBit>>
    ELSE /\ Step(c, "copy") /\ agentFile' = "partial"
         /\ UNCHANGED <<mu, execBit>>

(* Docker: the archive is unpacked to a new file that has its mode. *)
OpenTar(c) == Step(c, "copy") /\ agentFile' = "partial" /\ execBit' = TRUE /\ mu' = mu

Open(c) ==
    /\ at[c] = "open"
    /\ IF docker THEN OpenTar(c) ELSE OpenSftp(c)
    /\ UNCHANGED <<docker, resolved, uploads, fails>>

(* Any remote call of the upload may fail; what was written stays. *)
UploadFails(c) ==
    /\ at[c] \in {"open", "copy", "chmod"} /\ fails < MaxFails
    /\ at[c] = "chmod" => ~docker
    /\ fails' = fails + 1
    /\ Step(c, "failed") /\ mu' = Unlock(c)
    /\ UNCHANGED <<docker, resolved, uploads, agentFile, execBit>>

Copy(c) ==
    /\ at[c] = "copy"
    /\ agentFile' = "whole"
    /\ Step(c, "chmod")
    /\ UNCHANGED <<docker, mu, resolved, uploads, execBit, fails>>

(* The upload's last step, and the end of Ensure. *)
Uploaded(c) ==
    /\ Step(c, IF c = "boot" THEN "done" ELSE "ready") /\ mu' = Unlock(c)
    /\ IF c = "boot" THEN UNCHANGED <<resolved, uploads>>
       ELSE /\ resolved' = [resolved EXCEPT ![trans(c)] = TRUE]
            /\ uploads' = [uploads EXCEPT ![trans(c)] = @ + 1]
    /\ UNCHANGED <<docker, agentFile, fails>>

Chmod(c) == at[c] = "chmod" /\ Uploaded(c) /\ execBit' = TRUE

-----------------------------------------------------------------------------
(* The session that runs the agent: RunWithControl and EnumeratePaths *)

StartAgent(c) ==
    /\ at[c] = "ready"
    /\ \/ Step(c, IF agentFile = "whole" /\ execBit THEN "run" ELSE "broken")
       \/ Step(c, "failed")     \* no session
    /\ UNCHANGED <<docker, mu, resolved, uploads, agentFile, execBit, fails>>

(* The agent exits. A query that got no answer ends the run. *)
AgentExits(c) ==
    /\ at[c] = "run"
    /\ \/ Step(c, "done")
       \/ c = "query" /\ Step(c, "failed")
    /\ UNCHANGED <<docker, mu, resolved, uploads, agentFile, execBit, fails>>

UploadNext ==
    \E c \in Clients :
        \/ Ensure(c) \/ Boot(c) \/ Open(c) \/ UploadFails(c) \/ Copy(c) \/ Chmod(c)
        \/ StartAgent(c) \/ AgentExits(c)

-----------------------------------------------------------------------------
(* "repeated callers of Ensure share one upload", however many commands     *)
(* start at once and whatever failed before, and Ensure "returns the        *)
(* resolved remote agent path for use by remoteexec": no upload is refused, *)
(* and an agent that is started is a whole binary that may be executed.     *)
AgentStarts ==
    /\ \A t \in Transferers : uploads[t] <= 1
    /\ \A c \in Clients : at[c] \notin {"refused", "broken"}
=============================================================================
