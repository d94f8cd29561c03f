---------------------------- MODULE DockerBackend ---------------------------
(***************************************************************************)
(* The Docker backend (pkg/remote/docker/backend.go): Start, UploadAgent,  *)
(* Files, which launches the file-op agent at its first use and shares its *)
(* client from then on, and Close. Any number of goroutines call Files     *)
(* while Close may run. A section under the mutex is one step, and so is   *)
(* every call between two of them; the loser of a race closes its client   *)
(* with the mutex held. What a client does is module FileRPC, what its     *)
(* session does DockerSession.                                             *)
(*                                                                         *)
(* Clients are numbered in the order they are launched; 0 is nil.          *)
(***************************************************************************)
EXTENDS Naturals, Sequences

CONSTANTS
    Users,      \* goroutines that call Files
    MaxCalls    \* calls of Files in one behaviour (bound)

VARIABLES
    mu,           \* the goroutine that holds the mutex over a step, or {}
    connected, lastErr, containerID, agentPath,   \* fields of Backend
    fileClient,   \* field of Backend
    clients,      \* of each client launched: "probe", "open", "lost" or "closed"
    boot,         \* the start-up: "start", "upload", "store", "run" or "failed"
    user,         \* user[u]: where its call of Files is, its client, and the one it got
    calls,        \* calls of Files so far
    closer,       \* Close: "no", "take", "client", "cli" or "done"
    closing,      \* the client Close took
    late          \* who called Files, or was in it, after Close took the client

fields == <<connected, lastErr, containerID, agentPath>>
shutdown == <<closer, closing>>
backendVars == <<mu, fields, fileClient, clients, boot, user, calls, shutdown, late>>

Idle == [at |-> "idle", mine |-> 0, got |-> 0]
Free == mu = {}

BackendInit ==
    /\ mu = {} /\ connected = FALSE /\ lastErr = "nil" /\ containerID = "unset" /\ agentPath = "unset"
    /\ fileClient = 0 /\ clients = <<>> /\ boot = "start" /\ calls = 0
    /\ user = [u \in Users |-> Idle]
    /\ closer = "no" /\ closing = 0 /\ late = {}

-----------------------------------------------------------------------------
(* Start: the daemon answers and the container runs, or lastErr is set. *)
BackendStart ==
    /\ boot = "start" /\ Free
    /\ \/ containerID' = "id" /\ connected' = TRUE /\ lastErr' = "nil" /\ boot' = "upload"
       \/ lastErr' = "err" /\ boot' = "failed" /\ UNCHANGED <<containerID, connected>>
    /\ UNCHANGED <<mu, agentPath, fileClient, clients, user, calls, shutdown, late>>

(* UploadAgent: the container's id is read, the copy made, its path stored. *)
UploadAgent ==
    /\ boot = "upload" /\ Free
    /\ boot' \in IF containerID # "unset" THEN {"store", "failed"} ELSE {"failed"}
    /\ UNCHANGED <<mu, fields, fileClient, clients, user, calls, shutdown, late>>

StoreAgentPath ==
    /\ boot = "store" /\ Free /\ agentPath' = "path" /\ boot' = "run"
    /\ UNCHANGED <<mu, connected, lastErr, containerID, fileClient, clients, user, calls, shutdown, late>>

-----------------------------------------------------------------------------
(* A call of Files that returns c (0: an error), and one that launches. *)
Return(u, c) == [user EXCEPT ![u] = [at |-> "idle", mine |-> 0, got |-> c]]
Goto(u, where) == [user EXCEPT ![u].at = where]

(* Files: not started, shared, not uploaded, or to be launched. *)
Files(u) ==
    /\ user[u].at = "idle" /\ calls < MaxCalls /\ Free
    /\ calls' = calls + 1
    /\ user' = IF containerID = "unset" THEN Return(u, 0)
               ELSE IF fileClient # 0 THEN Return(u, fileClient)
               ELSE IF agentPath = "unset" THEN Return(u, 0)
               ELSE [user EXCEPT ![u] = [at |-> "launch", mine |-> 0, got |-> 0]]
    /\ late' = IF closer \in {"client", "cli", "done"} THEN late \cup {u} ELSE late
    /\ UNCHANGED <<mu, fields, fileClient, clients, boot, shutdown>>

(* newAgentFileClient: the session starts, or does not. *)
Launch(u) ==
    /\ user[u].at = "launch"
    /\ \/ /\ clients' = Append(clients, "probe")
          /\ user' = [user EXCEPT ![u].at = "probe", ![u].mine = Len(clients) + 1]
       \/ user' = Return(u, 0) /\ UNCHANGED clients
    /\ UNCHANGED <<mu, fields, fileClient, boot, calls, shutdown, late>>

(* A probe that fails and leaves the session behind. *)
ProbeLeaks(u) ==
    /\ user[u].at = "probe"
    /\ \/ /\ clients[user[u].mine] = "probe"
          /\ clients' = [clients EXCEPT ![user[u].mine] = "open"]
          /\ user' = Goto(u, "install")
       \/ user' = Return(u, 0) /\ UNCHANGED clients
    /\ UNCHANGED <<mu, fields, fileClient, boot, calls, shutdown, late>>

(* The probe is answered, or fails and the session is closed. *)
Probe(u) ==
    /\ user[u].at = "probe"
    /\ \/ /\ clients[user[u].mine] = "probe"
          /\ clients' = [clients EXCEPT ![user[u].mine] = "open"]
          /\ user' = Goto(u, "install")
       \/ /\ clients' = [clients EXCEPT ![user[u].mine] = "closed"]
          /\ user' = Return(u, 0)
    /\ UNCHANGED <<mu, fields, fileClient, boot, calls, shutdown, late>>

(* A check for the winner that comes too late: the last client is kept. *)
InstallLast(u) ==
    /\ user[u].at = "install" /\ Free
    /\ fileClient' = user[u].mine /\ user' = Return(u, user[u].mine)
    /\ UNCHANGED <<mu, fields, clients, boot, calls, shutdown, late>>

(* The client becomes the backend's, or lost a race and has to be closed. *)
Install(u) ==
    /\ user[u].at = "install" /\ Free
    /\ \/ /\ fileClient = 0
          /\ fileClient' = user[u].mine /\ user' = Return(u, user[u].mine)
          /\ UNCHANGED mu
       \/ /\ fileClient # 0
          /\ mu' = {u} /\ user' = Goto(u, "yield") /\ UNCHANGED fileClient
    /\ UNCHANGED <<fields, clients, boot, calls, shutdown, late>>

(* The loser closes its own under the mutex and returns the winner's. *)
Yield(u) ==
    /\ user[u].at = "yield"
    /\ clients' = [clients EXCEPT ![user[u].mine] = "closed"]
    /\ user' = Return(u, fileClient) /\ mu' = {}
    /\ UNCHANGED <<fields, fileClient, boot, calls, shutdown, late>>

(* The agent or the daemon is gone: the read loop ends and closes the       *)
(* session, the client stays where it is.                                   *)
ClientLost(k) ==
    /\ clients[k] \in {"probe", "open"}
    /\ clients' = [clients EXCEPT ![k] = "lost"]
    /\ UNCHANGED <<mu, fields, fileClient, boot, user, calls, shutdown, late>>

-----------------------------------------------------------------------------
(* Close, at any time. *)
CloseCalled ==
    /\ closer = "no" /\ closer' = "take"
    /\ UNCHANGED <<mu, fields, fileClient, clients, boot, user, calls, closing, late>>

CloseTake ==
    /\ closer = "take" /\ Free /\ closer' = "client"
    /\ closing' = fileClient /\ fileClient' = 0 /\ connected' = FALSE
    /\ late' = {u \in Users : user[u].at # "idle"}
    /\ UNCHANGED <<mu, lastErr, containerID, agentPath, clients, boot, user, calls>>

CloseClient ==
    /\ closer = "client" /\ closer' = "cli"
    /\ clients' = IF closing = 0 THEN clients ELSE [clients EXCEPT ![closing] = "closed"]
    /\ UNCHANGED <<mu, fields, fileClient, boot, user, calls, closing, late>>

CloseCli ==
    /\ closer = "cli" /\ closer' = "done"
    /\ UNCHANGED <<mu, fields, fileClient, clients, boot, user, calls, closing, late>>

FilesStep(u) == Files(u) \/ Launch(u) \/ Probe(u) \/ Install(u) \/ Yield(u)

BackendNext ==
    \/ BackendStart \/ UploadAgent \/ StoreAgentPath
    \/ \E u \in Users : FilesStep(u)
    \/ \E k \in DOMAIN clients : ClientLost(k)
    \/ CloseCalled \/ CloseTake \/ CloseClient \/ CloseCli

BackendSpec == BackendInit /\ [][BackendNext]_backendVars

-----------------------------------------------------------------------------
BackendTypeOK ==
    /\ mu \in SUBSET Users
    /\ lastErr \in {"nil", "err"} /\ containerID \in {"unset", "id"} /\ agentPath \in {"unset", "path"}
    /\ clients \in Seq({"probe", "open", "lost", "closed"})
    /\ fileClient \in 0..Len(clients) /\ closing \in 0..Len(clients)
    /\ boot \in {"start", "upload", "store", "run", "failed"}
    /\ user \in [Users -> [at : {"idle", "launch", "probe", "install", "yield"},
                           mine : 0..Len(clients), got : 0..Len(clients)]]
    /\ calls \in Nat /\ late \in SUBSET Users
    /\ closer \in {"no", "take", "client", "cli", "done"}

(* "Lost a race; close ours and use the existing one": until Close takes    *)
(* it, every client a call of Files has returned is the one the backend     *)
(* shares, and nobody has closed it, whatever calls raced to launch one.    *)
FilesShared ==
    closer \in {"no", "take"} =>
        \A u \in Users : user[u].got # 0 =>
            user[u].got = fileClient /\ clients[fileClient] # "closed"

(* Every agent launched for file operations has one owner who will close    *)
(* it: the backend, the call that launched it, or Close.                    *)
ClientsOwned ==
    \A k \in DOMAIN clients : clients[k] \in {"probe", "open"} =>
        \/ k = fileClient
        \/ \E u \in Users : user[u].at \in {"probe", "install", "yield"} /\ user[u].mine = k
        \/ closer = "client" /\ k = closing

(* "Close shuts down the long-lived file-op agent": once Close is done and  *)
(* no call of Files was under way or came after it, no agent launched for   *)
(* any of the calls is left, neither the shared one nor a race's loser.     *)
CloseReleases ==
    closer \in {"cli", "done"} /\ late = {} =>
        \A k \in DOMAIN clients : clients[k] \in {"lost", "closed"}
=============================================================================
