--------------------------- MODULE BackendProofs ---------------------------
(***************************************************************************)
(* For any goroutines and any number of calls: the clients of the Docker   *)
(* backend are shared, owned and released.  For any exit codes and any     *)
(* amount of output: Wait of a session tells the truth.  For any number of *)
(* dials and failures: no SSH connection is lost sight of.                 *)
(***************************************************************************)
EXTENDS Docker, SshBackend, TLAPS

Launched == {"probe", "install", "yield"}
Gone == {"lost", "closed"}
States == {"probe", "open", "lost", "closed"}
Calls == {"idle", "launch", "probe", "install", "yield"}

(* A call's own client is live, and neither the backend's nor Close's. *)
OwnClient ==
    \A u \in Users : user[u].at \in Launched =>
        /\ user[u].mine # 0 /\ user[u].mine # fileClient /\ user[u].mine # closing
        /\ clients[user[u].mine] # "closed"

(* Calls that have launched a client have launched different ones. *)
Apart ==
    \A u, v \in Users :
        user[u].at \in Launched /\ user[v].at \in Launched /\ user[u].mine = user[v].mine => u = v

(* The loser of a race holds the mutex, and there is a winner. *)
Losers == \A u \in Users : user[u].at = "yield" => mu = {u} /\ fileClient # 0

(* The shared client is neither closed nor in the hands of Close. *)
SharedLive == fileClient # 0 => fileClient # closing /\ clients[fileClient] # "closed"

Ownership == OwnClient /\ Apart /\ Losers /\ SharedLive

(* A call of Files holds no client while it runs. *)
NothingYet == \A u \in Users : user[u].at # "idle" => user[u].got = 0

(* How far Close is. *)
Closing ==
    /\ closer \in {"no", "take"} => closing = 0
    /\ closer \in {"cli", "done"} /\ closing # 0 => clients[closing] = "closed"
    /\ closer \in {"client", "cli", "done"} /\ late = {} =>
           fileClient = 0 /\ \A u \in Users : user[u].at = "idle"

IInv == BackendTypeOK /\ FilesShared /\ ClientsOwned /\ Ownership /\ NothingYet /\ Closing

USE DEF Launched, Gone, States, Idle, Free, fields, shutdown

(* The initial state: no client, no call. *)
LEMMA InitIInv == ASSUME BackendInit PROVE IInv
<1>1. clients \in Seq(States) /\ Len(clients) = 0 /\ DOMAIN clients = {}
  BY DEF BackendInit
<1>2. \A u \in Users : user[u].at = "idle" /\ user[u].mine = 0 /\ user[u].got = 0
  BY Zenon DEF BackendInit
<1>3. BackendTypeOK
  BY <1>1 DEF BackendInit, BackendTypeOK
<1>4. FilesShared /\ NothingYet
  BY <1>2, Zenon DEF FilesShared, NothingYet
<1>5. ClientsOwned
  BY <1>1, Zenon DEF ClientsOwned
<1>6. Ownership
  BY <1>2, Zenon DEF BackendInit, Ownership, OwnClient, Apart, Losers, SharedLive
<1>7. Closing
  BY <1>2, Zenon DEF BackendInit, Closing
<1>8. QED
  BY <1>3, <1>4, <1>5, <1>6, <1>7, Zenon DEF IInv

(* Start and UploadAgent change fields that no client depends on. *)
LEMMA BootIInv == ASSUME IInv, BackendStart \/ UploadAgent \/ StoreAgentPath PROVE IInv'
<1>1. BackendTypeOK'
  BY Zenon DEF BackendStart, UploadAgent, StoreAgentPath, IInv, BackendTypeOK
<1>2. FilesShared'
  BY Zenon DEF BackendStart, UploadAgent, StoreAgentPath, IInv, BackendTypeOK, FilesShared,
     Ownership, OwnClient, Apart, Losers, SharedLive, NothingYet
<1>3. ClientsOwned'
  BY DEF BackendStart, UploadAgent, StoreAgentPath, IInv, BackendTypeOK, ClientsOwned,
     Ownership, OwnClient, Apart, Losers, SharedLive, Closing
<1>4. Ownership'
  BY DEF BackendStart, UploadAgent, StoreAgentPath, IInv, BackendTypeOK, Ownership, OwnClient,
     Apart, Losers, SharedLive, Closing
<1>5. NothingYet'
  BY Zenon DEF BackendStart, UploadAgent, StoreAgentPath, IInv, BackendTypeOK, NothingYet
<1>6. Closing'
  BY Zenon DEF BackendStart, UploadAgent, StoreAgentPath, IInv, BackendTypeOK, Ownership, OwnClient,
     Apart, Losers, SharedLive, Closing
<1>7. QED
  BY <1>1, <1>2, <1>3, <1>4, <1>5, <1>6, Zenon DEF IInv

(* Files: an error, the shared client, or a call on its way. *)
LEMMA FilesIInv == ASSUME NEW u \in Users, IInv, Files(u) PROVE IInv'
<1>1. BackendTypeOK'
  BY DEF Files, Return, IInv, BackendTypeOK
<1>2. FilesShared'
  BY Zenon DEF Files, Return, IInv, BackendTypeOK, FilesShared, Ownership, OwnClient, Apart, Losers,
     SharedLive, NothingYet
<1>3. ClientsOwned'
  BY Zenon DEF Files, Return, IInv, BackendTypeOK, ClientsOwned, Ownership, OwnClient, Apart,
     Losers, SharedLive, Closing
<1>4. Ownership'
  BY Zenon DEF Files, Return, IInv, BackendTypeOK, Ownership, OwnClient, Apart, Losers, SharedLive,
     Closing
<1>5. NothingYet'
  BY Zenon DEF Files, Return, IInv, BackendTypeOK, NothingYet
<1>6. Closing'
  BY Zenon DEF Files, Return, IInv, BackendTypeOK, Ownership, OwnClient, Apart, Losers, SharedLive,
     Closing
<1>7. QED
  BY <1>1, <1>2, <1>3, <1>4, <1>5, <1>6, Zenon DEF IInv

(* Launch: a new client, which only the call that launched it knows. *)
LEMMA LaunchIInv == ASSUME NEW u \in Users, IInv, Launch(u) PROVE IInv'
<1>1. CASE user' = Return(u, 0) /\ UNCHANGED clients
  BY <1>1 DEF Launch, Return, IInv, BackendTypeOK, FilesShared, ClientsOwned, Ownership,
     OwnClient, Apart, Losers, SharedLive, NothingYet, Closing
<1>2. CASE /\ clients' = Append(clients, "probe")
           /\ user' = [user EXCEPT ![u].at = "probe", ![u].mine = Len(clients) + 1]
  <2> DEFINE n == Len(clients)
  <2>1. /\ clients \in Seq(States) /\ n \in Nat
        /\ clients' \in Seq(States) /\ Len(clients') = n + 1
        /\ clients'[n + 1] = "probe" /\ \A k \in 1..n : clients'[k] = clients[k]
    BY <1>2 DEF IInv, BackendTypeOK
  <2>2. /\ \A v \in Users \ {u} : user'[v] = user[v]
        /\ user'[u].at = "probe" /\ user'[u].mine = n + 1 /\ user'[u].got = user[u].got
        /\ user' \in [Users -> [at : Calls, mine : 0..(n + 1), got : 0..(n + 1)]]
    BY <1>2, <2>1 DEF IInv, BackendTypeOK, Calls
  <2> HIDE DEF n
  <2>3. /\ fileClient \in 0..n /\ closing \in 0..n /\ \A v \in Users : user[v].mine \in 0..n
        /\ UNCHANGED <<mu, fields, fileClient, boot, calls, shutdown, late>>
        /\ fileClient # 0 => clients'[fileClient] = clients[fileClient]
        /\ closing # 0 => clients'[closing] = clients[closing]
        /\ \A v \in Users : user[v].mine # n + 1
                           /\ (user[v].mine # 0 => clients'[user[v].mine] = clients[user[v].mine])
        /\ fileClient # n + 1 /\ closing # n + 1 /\ n + 1 # 0
    BY <2>1 DEF Launch, IInv, BackendTypeOK, n
  <2>4. BackendTypeOK'
    BY <2>1, <2>2, <2>3 DEF IInv, BackendTypeOK, n, Calls
  <2>5. FilesShared'
    <3> SUFFICES ASSUME closer \in {"no", "take"}, NEW v \in Users, user'[v].got # 0
                 PROVE  user'[v].got = fileClient /\ clients'[fileClient] # "closed"
      BY <2>3, Zenon DEF FilesShared
    <3>1. user'[v].got = user[v].got
      BY <2>2, Zenon
    <3>2. user[v].got = fileClient /\ clients[fileClient] # "closed"
      BY <3>1, Zenon DEF IInv, FilesShared
    <3> QED
      BY <3>1, <3>2, <2>3, Zenon
  <2>6. ClientsOwned'
    BY <2>1, <2>2, <2>3 DEF Launch, IInv, ClientsOwned, n
  <2>7. OwnClient'
    <3> SUFFICES ASSUME NEW v \in Users, user'[v].at \in Launched
                 PROVE  /\ user'[v].mine # 0 /\ user'[v].mine # fileClient /\ user'[v].mine # closing
                        /\ clients'[user'[v].mine] # "closed"
      BY <2>3, Zenon DEF OwnClient
    <3>1. CASE v = u
      BY <3>1, <2>1, <2>2, <2>3, Zenon
    <3>2. CASE v # u
      BY <3>2, <2>2, <2>3, Zenon DEF IInv, Ownership, OwnClient
    <3> QED
      BY <3>1, <3>2, Zenon
  <2>8. Apart'
    <3> SUFFICES ASSUME NEW v \in Users, NEW w \in Users, user'[v].mine = user'[w].mine,
                        user'[v].at \in Launched, user'[w].at \in Launched
                 PROVE  v = w
      BY Zenon DEF Apart
    <3>1. CASE v = u \/ w = u
      BY <3>1, <2>2, <2>3
    <3>2. CASE v # u /\ w # u
      BY <3>2, <2>2, Zenon DEF IInv, Ownership, Apart
    <3> QED
      BY <3>1, <3>2, Zenon
  <2>9. Losers'
    BY <2>1, <2>2, <2>3, Zenon DEF IInv, BackendTypeOK, Ownership, Losers
  <2>10. SharedLive'
    BY <2>1, <2>2, <2>3, Zenon DEF IInv, BackendTypeOK, Ownership, OwnClient, SharedLive
  <2>11. Ownership'
    BY <2>7, <2>8, <2>9, <2>10, Zenon DEF Ownership
  <2>12. NothingYet' /\ Closing'
    BY <2>1, <2>2, <2>3, Zenon DEF Launch, IInv, NothingYet, Closing
  <2> QED
    BY <2>4, <2>5, <2>6, <2>11, <2>12, Zenon DEF IInv
<1> QED
  BY <1>1, <1>2, Zenon DEF Launch

(* Probe: the call's own client opens or is closed. *)
LEMMA ProbeIInv == ASSUME NEW u \in Users, IInv, Probe(u) PROVE IInv'
<1> DEFINE m == user[u].mine
<1>1. PICK c \in {"open", "closed"} :
          /\ clients' = [clients EXCEPT ![m] = c]
          /\ user' = IF c = "open" THEN Goto(u, "install") ELSE Return(u, 0)
  BY Zenon DEF Probe
<1>2. /\ user[u].at = "probe" /\ m \in 1..Len(clients) /\ m # fileClient /\ m # closing
      /\ UNCHANGED <<mu, fields, fileClient, boot, calls, shutdown, late>>
  BY DEF Probe, IInv, BackendTypeOK, Ownership, OwnClient, Apart, Losers, SharedLive
<1>3. /\ clients' \in Seq(States) /\ Len(clients') = Len(clients) /\ clients'[m] = c
      /\ \A k \in 1..Len(clients) : k # m => clients'[k] = clients[k]
  BY <1>1, <1>2 DEF IInv, BackendTypeOK
<1>4. /\ \A v \in Users : v # u => user'[v] = user[v]
      /\ user' \in [Users -> [at : Calls, mine : 0..Len(clients), got : 0..Len(clients)]]
      /\ user'[u].got = 0
      /\ \/ user'[u].at = "install" /\ user'[u].mine = m /\ c = "open"
         \/ user'[u].at = "idle" /\ c = "closed"
  BY <1>1, <1>2, <1>3, Zenon DEF Goto, Return, IInv, BackendTypeOK, NothingYet, Calls
<1> HIDE DEF m
<1>5. BackendTypeOK'
  BY <1>2, <1>3, <1>4, Zenon DEF IInv, BackendTypeOK, Calls
<1>6. FilesShared'
  <2> SUFFICES ASSUME closer \in {"no", "take"}, NEW v \in Users, user'[v].got # 0
               PROVE  user'[v].got = fileClient /\ clients'[fileClient] # "closed"
    BY <1>2, Zenon DEF FilesShared
  <2>1. v # u /\ user'[v].got = user[v].got
    BY <1>4, Zenon
  <2>2. user[v].got = fileClient /\ clients[fileClient] # "closed"
    BY <2>1, Zenon DEF IInv, FilesShared
  <2>3. fileClient \in 1..Len(clients)
    BY <2>1, <2>2 DEF IInv, BackendTypeOK
  <2> QED
    BY <2>1, <2>2, <2>3, <1>2, <1>3, Zenon
<1>7. ClientsOwned'
  <2> SUFFICES ASSUME NEW k \in DOMAIN clients', clients'[k] \in {"probe", "open"}
               PROVE  \/ k = fileClient'
                      \/ \E v \in Users : user'[v].at \in Launched /\ user'[v].mine = k
                      \/ closer' = "client" /\ k = closing'
    BY Zenon DEF ClientsOwned
  <2>1. CASE k = m
    BY <2>1, <1>3, <1>4, Zenon
  <2>2. CASE k # m
    <3>1. k \in DOMAIN clients /\ clients[k] \in {"probe", "open"}
      BY <2>2, <1>3 DEF IInv, BackendTypeOK
    <3> QED
      BY <2>2, <3>1, <1>2, <1>4, Zenon DEF IInv, ClientsOwned, m
  <2> QED
    BY <2>1, <2>2, Zenon
<1>8. OwnClient'
  <2> SUFFICES ASSUME NEW v \in Users, user'[v].at \in Launched
               PROVE  /\ user'[v].mine # 0 /\ user'[v].mine # fileClient /\ user'[v].mine # closing
                      /\ clients'[user'[v].mine] # "closed"
    BY <1>2, Zenon DEF OwnClient
  <2>1. CASE v = u
    BY <2>1, <1>2, <1>3, <1>4
  <2>2. CASE v # u
    <3>1. user'[v] = user[v] /\ user[v].mine \in 1..Len(clients) /\ user[v].mine # m
      BY <2>2, <1>2, <1>4 DEF IInv, BackendTypeOK, Ownership, OwnClient, Apart, m
    <3> QED
      BY <3>1, <1>3, Zenon DEF IInv, Ownership, OwnClient
  <2> QED
    BY <2>1, <2>2, Zenon
<1>9. Apart'
  BY <1>2, <1>4 DEF IInv, Ownership, Apart, m
<1>10. Losers'
  BY <1>2, <1>3, <1>4, Zenon DEF IInv, BackendTypeOK, Ownership, Losers, m
<1>11. SharedLive'
  BY <1>2, <1>3, <1>4 DEF IInv, BackendTypeOK, Ownership, OwnClient, SharedLive, m
<1>12. Ownership'
  BY <1>8, <1>9, <1>10, <1>11, Zenon DEF Ownership
<1>13. NothingYet'
  BY <1>4, Zenon DEF IInv, NothingYet
<1>14. Closing'
  BY <1>2, <1>3, <1>4 DEF IInv, BackendTypeOK, Closing
<1> QED
  BY <1>5, <1>6, <1>7, <1>12, <1>13, <1>14, Zenon DEF IInv

(* Install: the first client becomes the backend's, a later one yields. *)
LEMMA InstallIInv == ASSUME NEW u \in Users, IInv, Install(u) PROVE IInv'
<1> DEFINE m == user[u].mine
<1>1. /\ user[u].at = "install" /\ mu = {} /\ m \in 1..Len(clients) /\ m # closing /\ user[u].got = 0
      /\ UNCHANGED <<fields, clients, boot, calls, shutdown, late>>
  BY DEF Install, IInv, BackendTypeOK, Ownership, OwnClient, Apart, Losers, SharedLive, NothingYet
<1>2. CASE fileClient = 0 /\ fileClient' = m /\ user' = Return(u, m) /\ mu' = mu
  <2>1. /\ \A v \in Users : v # u => user'[v] = user[v]
        /\ user' \in [Users -> [at : Calls, mine : 0..Len(clients), got : 0..Len(clients)]]
        /\ user'[u].at = "idle" /\ user'[u].got = m
    BY <1>1, <1>2, Zenon DEF Return, IInv, BackendTypeOK, Calls
  <2>2. BackendTypeOK'
    BY <1>1, <1>2, <2>1, Zenon DEF IInv, BackendTypeOK, Calls
  <2>3. clients[m] # "closed"
    BY <1>1, Zenon DEF IInv, Ownership, OwnClient, Apart, Losers, SharedLive
  <2>4. FilesShared'
    BY <1>1, <1>2, <2>1, <2>3, Zenon DEF IInv, FilesShared
  <2>5. ClientsOwned' /\ NothingYet'
    <3>1. clients' = clients /\ closer' = closer /\ closing' = closing
      BY <1>1, Zenon DEF fields
    <3>2. ASSUME NEW k \in DOMAIN clients, clients[k] \in {"probe", "open"}
          PROVE  \/ k = fileClient'
                 \/ \E v \in Users : /\ user'[v].at \in {"probe", "install", "yield"}
                                    /\ user'[v].mine = k
                 \/ closer = "client" /\ k = closing
      <4>1. k # 0
        BY DEF IInv, BackendTypeOK
      <4>2. CASE closer = "client" /\ k = closing
        BY <4>2, Zenon
      <4>3. CASE \E v \in Users : user[v].at \in {"probe", "install", "yield"} /\ user[v].mine = k
        BY <1>2, <2>1, <4>3, Zenon
      <4> QED
        BY <1>2, <3>2, <4>1, <4>2, <4>3, Zenon DEF IInv, ClientsOwned
    <3>3. ClientsOwned'
      BY <3>1, <3>2, Zenon DEF ClientsOwned
    <3>4. NothingYet'
      BY <2>1, Zenon DEF IInv, NothingYet
    <3> QED
      BY <3>3, <3>4, Zenon
  <2>6. OwnClient'
    BY <1>1, <1>2, <2>1, <2>3 DEF IInv, BackendTypeOK, Ownership, OwnClient, Apart
  <2>7. Apart'
    BY <2>1, Zenon DEF IInv, Ownership, Apart, Launched
  <2>8. Losers'
    BY <1>1, <1>2, <2>1, <2>3, Zenon DEF IInv, BackendTypeOK, Ownership, Losers
  <2>9. SharedLive'
    BY <1>1, <1>2, <2>1, <2>3, Zenon DEF IInv, BackendTypeOK, Ownership, OwnClient, SharedLive
  <2>10. Ownership' /\ Closing'
    BY <1>1, <1>2, <2>1, <2>6, <2>7, <2>8, <2>9, Zenon DEF IInv, Ownership, Closing
  <2> QED
    BY <2>2, <2>4, <2>5, <2>10, Zenon DEF IInv
<1>3. CASE fileClient # 0 /\ fileClient' = fileClient /\ user' = Goto(u, "yield") /\ mu' = {u}
  <2>1. /\ \A v \in Users : v # u => user'[v] = user[v]
        /\ user' \in [Users -> [at : Calls, mine : 0..Len(clients), got : 0..Len(clients)]]
        /\ user'[u].at = "yield" /\ user'[u].mine = m /\ user'[u].got = 0
    BY <1>1, <1>3, Zenon DEF Goto, IInv, BackendTypeOK, Calls
  <2>2. BackendTypeOK'
    BY <1>1, <1>3, <2>1, Zenon DEF IInv, BackendTypeOK, Calls
  <2>3. FilesShared' /\ NothingYet'
    BY <1>1, <1>3, <2>1, Zenon DEF IInv, FilesShared, NothingYet
  <2>4. ClientsOwned'
    BY <1>1, <1>3, <2>1 DEF IInv, ClientsOwned
  <2>5. OwnClient'
    BY <1>1, <1>3, <2>1 DEF IInv, BackendTypeOK, Ownership, OwnClient, Apart
  <2>6. Apart'
    BY <1>1, <2>1 DEF IInv, Ownership, Apart
  <2>7. Losers'
    BY <1>1, <1>3, <2>1, Zenon DEF IInv, BackendTypeOK, Ownership, Losers
  <2>8. SharedLive'
    BY <1>1, <1>3, <2>1, Zenon DEF IInv, BackendTypeOK, Ownership, OwnClient, SharedLive
  <2>9. Ownership' /\ Closing'
    BY <1>1, <1>3, <2>1, <2>5, <2>6, <2>7, <2>8, Zenon DEF IInv, Ownership, Closing
  <2> QED
    BY <2>2, <2>3, <2>4, <2>9, Zenon DEF IInv
<1> QED
  BY <1>2, <1>3, Zenon DEF Install

(* Yield: the loser closes its own client, never the shared one. *)
LEMMA YieldIInv == ASSUME NEW u \in Users, IInv, Yield(u) PROVE IInv'
<1> DEFINE m == user[u].mine
<1>1. /\ user[u].at = "yield" /\ m \in 1..Len(clients) /\ m # fileClient /\ m # closing
      /\ mu = {u} /\ mu' = {}
      /\ UNCHANGED <<fields, fileClient, boot, calls, shutdown, late>>
  BY DEF Yield, IInv, BackendTypeOK, Ownership, OwnClient, Apart, Losers, SharedLive
<1>2. /\ clients' \in Seq(States) /\ Len(clients') = Len(clients) /\ clients'[m] = "closed"
      /\ \A k \in 1..Len(clients) : k # m => clients'[k] = clients[k]
  BY <1>1 DEF Yield, IInv, BackendTypeOK
<1>3. /\ \A v \in Users : v # u => user'[v] = user[v]
      /\ user' \in [Users -> [at : Calls, mine : 0..Len(clients), got : 0..Len(clients)]]
      /\ user'[u].at = "idle" /\ user'[u].got = fileClient
  BY <1>1 DEF Yield, Return, IInv, BackendTypeOK, Calls
<1> HIDE DEF m
<1>4. BackendTypeOK'
  BY <1>1, <1>2, <1>3, Zenon DEF IInv, BackendTypeOK, Calls
<1>5. FilesShared'
  <2> SUFFICES ASSUME closer \in {"no", "take"}, NEW v \in Users, user'[v].got # 0
               PROVE  user'[v].got = fileClient /\ clients'[fileClient] # "closed"
    BY <1>1, Zenon DEF FilesShared
  <2>1. user'[v].got = fileClient
    BY <1>3, Zenon DEF IInv, FilesShared
  <2>2. clients[fileClient] # "closed" /\ fileClient \in 1..Len(clients)
    BY <2>1 DEF IInv, BackendTypeOK, Ownership, SharedLive
  <2> QED
    BY <2>1, <2>2, <1>1, <1>2, Zenon
<1>6. ClientsOwned'
  <2> SUFFICES ASSUME NEW k \in DOMAIN clients', clients'[k] \in {"probe", "open"}
               PROVE  \/ k = fileClient'
                      \/ \E v \in Users : user'[v].at \in Launched /\ user'[v].mine = k
                      \/ closer' = "client" /\ k = closing'
    BY Zenon DEF ClientsOwned
  <2>1. k # m /\ k \in DOMAIN clients /\ clients[k] \in {"probe", "open"}
    <3>1. DOMAIN clients = 1..Len(clients) /\ DOMAIN clients' = 1..Len(clients)
      BY <1>2 DEF IInv, BackendTypeOK
    <3> QED
      BY <3>1, <1>2, Zenon
  <2> QED
    BY <2>1, <1>1, <1>3, Zenon DEF IInv, ClientsOwned, m
<1>7. OwnClient'
  <2> SUFFICES ASSUME NEW v \in Users, user'[v].at \in Launched
               PROVE  /\ user'[v].mine # 0 /\ user'[v].mine # fileClient /\ user'[v].mine # closing
                      /\ clients'[user'[v].mine] # "closed"
    BY <1>1, Zenon DEF OwnClient
  <2>1. v # u /\ user'[v] = user[v]
    BY <1>3, Zenon
  <2>2. user[v].mine \in 1..Len(clients) /\ user[v].mine # m
    BY <2>1, <1>1 DEF IInv, BackendTypeOK, Ownership, OwnClient, Apart, m
  <2> QED
    BY <2>1, <2>2, <1>2, Zenon DEF IInv, Ownership, OwnClient
<1>8. Apart'
  BY <1>3, Zenon DEF IInv, Ownership, Apart
<1>9. Losers'
  BY <1>1, <1>2, <1>3, Zenon DEF IInv, BackendTypeOK, Ownership, Losers, m
<1>10. SharedLive'
  BY <1>1, <1>2, <1>3 DEF IInv, BackendTypeOK, Ownership, OwnClient, SharedLive, m
<1>11. Ownership'
  BY <1>7, <1>8, <1>9, <1>10, Zenon DEF Ownership
<1>12. NothingYet'
  BY <1>3, Zenon DEF IInv, NothingYet
<1>13. Closing'
  BY <1>1, <1>2, <1>3 DEF IInv, BackendTypeOK, Closing
<1> QED
  BY <1>4, <1>5, <1>6, <1>11, <1>12, <1>13, Zenon DEF IInv

(* A client that is lost stays where it is. *)
LEMMA LostIInv == ASSUME NEW k \in DOMAIN clients, IInv, ClientLost(k) PROVE IInv'
<1>1. BackendTypeOK'
  BY DEF ClientLost, IInv, BackendTypeOK
<1>2. FilesShared'
  BY DEF ClientLost, IInv, BackendTypeOK, FilesShared, Ownership, OwnClient, Apart, Losers,
     SharedLive, NothingYet
<1>3. ClientsOwned'
  BY DEF ClientLost, IInv, BackendTypeOK, ClientsOwned, Ownership, OwnClient, Apart, Losers,
     SharedLive, Closing
<1>4. Ownership'
  BY DEF ClientLost, IInv, BackendTypeOK, Ownership, OwnClient, Apart, Losers, SharedLive, Closing
<1>5. NothingYet'
  BY Zenon DEF ClientLost, IInv, BackendTypeOK, NothingYet
<1>6. Closing'
  BY DEF ClientLost, IInv, BackendTypeOK, Ownership, OwnClient, Apart, Losers, SharedLive, Closing
<1>7. QED
  BY <1>1, <1>2, <1>3, <1>4, <1>5, <1>6, Zenon DEF IInv

(* Close takes the shared client and closes it. *)
LEMMA CloseIInv == ASSUME IInv, CloseCalled \/ CloseTake \/ CloseClient \/ CloseCli PROVE IInv'
<1>1. CASE CloseCalled \/ CloseCli
  BY <1>1 DEF CloseCalled, CloseCli, IInv, BackendTypeOK, FilesShared, ClientsOwned,
              Ownership, OwnClient, Apart, Losers, SharedLive, NothingYet, Closing
<1>2. CASE CloseTake
  BY <1>2 DEF CloseTake, IInv, BackendTypeOK, FilesShared, ClientsOwned,
              Ownership, OwnClient, Apart, Losers, SharedLive, NothingYet, Closing
<1>3. CASE CloseClient
  <2>1. CASE closing = 0
    BY <1>3, <2>1 DEF CloseClient, IInv, BackendTypeOK, FilesShared, ClientsOwned,
                      Ownership, OwnClient, Apart, Losers, SharedLive, NothingYet, Closing
  <2>2. CASE closing # 0
    <3>1. /\ clients' \in Seq(States) /\ Len(clients') = Len(clients) /\ clients'[closing] = "closed"
          /\ \A k \in 1..Len(clients) : k # closing => clients'[k] = clients[k]
          /\ closer = "client" /\ closer' = "cli" /\ closing \in 1..Len(clients)
          /\ UNCHANGED <<mu, fields, fileClient, boot, user, calls, closing, late>>
      BY <1>3, <2>2 DEF CloseClient, IInv, BackendTypeOK
    <3>2. BackendTypeOK'
      BY <3>1, Zenon DEF IInv, BackendTypeOK
    <3>3. FilesShared' /\ NothingYet' /\ Closing'
      BY <3>1, Zenon DEF IInv, FilesShared, NothingYet, Closing
    <3>4. ClientsOwned'
      BY <3>1 DEF IInv, BackendTypeOK, ClientsOwned
    <3>5. Ownership'
      BY <3>1 DEF IInv, BackendTypeOK, Ownership, OwnClient, Apart, Losers, SharedLive
    <3> QED
      BY <3>2, <3>3, <3>4, <3>5, Zenon DEF IInv
  <2> QED
    BY <2>1, <2>2, Zenon
<1> QED
  BY <1>1, <1>2, <1>3, Zenon

(* Every step of the backend preserves the invariant. *)
THEOREM BackendInvariance == BackendSpec => []IInv
<1>1. IInv /\ UNCHANGED backendVars => IInv'
  BY DEF backendVars, IInv, BackendTypeOK, FilesShared, ClientsOwned, Ownership, OwnClient,
     Apart, Losers, SharedLive, NothingYet, Closing
<1>2. IInv /\ BackendNext => IInv'
  BY BootIInv, FilesIInv, LaunchIInv, ProbeIInv, InstallIInv, YieldIInv, LostIInv, CloseIInv, Zenon
  DEF BackendNext, FilesStep
<1>3. QED
  BY InitIInv, <1>1, <1>2, PTL DEF BackendSpec

(* The composition of a session and the backend leaves the backend to its   *)
(* own steps.                                                               *)
LEMMA DockerIsBackend == DockerSpec => BackendSpec
<1>1. DockerInit => BackendInit
  BY Zenon DEF DockerInit
<1>2. [DockerNext]_dockerVars => [BackendNext]_backendVars
  BY Zenon DEF DockerNext, dockerVars
<1> QED
  BY <1>1, <1>2, PTL DEF DockerSpec, BackendSpec

(* Racing first calls of Files end up with one client that nobody closes    *)
(* before Close does, for any number of goroutines and calls.               *)
THEOREM OneSharedClient == DockerSpec => []FilesShared
  BY BackendInvariance, DockerIsBackend, PTL DEF IInv

(* Every launched agent has an owner who closes it. *)
THEOREM EveryClientOwned == DockerSpec => []ClientsOwned
  BY BackendInvariance, DockerIsBackend, PTL DEF IInv

(* Close leaves no agent behind unless a call of Files overlaps it. *)
THEOREM CloseLeavesNothing == DockerSpec => []CloseReleases
<1>1. IInv => CloseReleases
  BY DEF IInv, BackendTypeOK, ClientsOwned, Ownership, OwnClient, Apart, Losers, SharedLive,
     Closing, CloseReleases
<1>2. QED
  BY BackendInvariance, DockerIsBackend, <1>1, PTL

-----------------------------------------------------------------------------
(* A session.  What Wait returns was read from an inspect that found the    *)
(* exec finished, and a finished exec keeps its exit code.                  *)

ExecTypeOK == DOMAIN exec = {"run", "code", "said"} /\ exec.code \in Int

(* The order of events behind a result without an error. *)
ResultSound ==
    /\ caller = "new" => exec.run = "none"
    /\ inspect = "exited" => exec.run = "exited"
    /\ doneCh /\ ~waitErr => exec.run = "exited" /\ exitCode = exec.code

SessionIInv == ExecTypeOK /\ ResultSound /\ WaitTellsTruth

(* A session begins without an exec and without a result. *)
LEMMA InitSession == Init => SessionIInv
BY DEF Init, SessionIInv, ExecTypeOK, ResultSound, WaitTellsTruth

(* Every step of a session keeps the invariant. *)
LEMMA NextSession == SessionIInv /\ [Next]_vars => SessionIInv'
<1> SUFFICES ASSUME SessionIInv, [Next]_vars PROVE SessionIInv'
  BY Zenon
<1> USE DEF SessionIInv, ExecTypeOK, ResultSound, WaitTellsTruth, sess, remote, result
<1>1. CASE Start \/ StartFails
  BY <1>1 DEF Start, StartFails
<1>2. CASE CopyInEnds \/ GiveUp \/ Cut \/ CopyRead \/ CopyEnds
  BY <1>2 DEF CopyInEnds, GiveUp, Cut, CopyRead, CopyEnds
<1>3. CASE MarkDone \/ MarkDoneTimesOut
  BY <1>3, Zenon DEF MarkDone, MarkDoneTimesOut
<1>4. CASE Read \/ ReadEnds \/ Close
  BY <1>4 DEF Read, ReadEnds, Close
<1>5. CASE Wait
  BY <1>5, Zenon DEF Wait
<1>6. CASE \E c \in Chunks : Output(c)
  BY <1>6 DEF Output
<1>7. ASSUME NEW c \in Codes, ExecExits(c) PROVE SessionIInv'
  <2>1. c \in Int
    BY DockerSessionAssumption
  <2> QED
    BY <1>7, <2>1, Zenon DEF ExecExits
<1>8. CASE InspectSees
  BY <1>8, Zenon DEF InspectSees
<1>9. CASE UNCHANGED vars
  BY <1>9, Zenon DEF vars
<1> QED
  BY <1>1, <1>2, <1>3, <1>4, <1>5, <1>6, <1>7, <1>8, <1>9, Zenon DEF Next, CopyOut, Caller

(* Wait of a Docker session reports success only for an exec that has ended *)
(* with exit code 0, for any codes, any amount of output and whoever reads  *)
(* it, although the stream may end, or be cut, before the exec does.        *)
THEOREM WaitIsTruthful == DockerSpec => []WaitTellsTruth
<1>1. DockerInit => SessionIInv
  BY InitSession, Zenon DEF DockerInit
<1>2. DockerNext => [Next]_vars
  BY Zenon DEF DockerNext
<1>3. UNCHANGED dockerVars => UNCHANGED vars
  BY Zenon DEF dockerVars
<1>4. SessionIInv /\ [DockerNext]_dockerVars => SessionIInv'
  BY <1>2, <1>3, NextSession, Zenon
<1>5. SessionIInv => WaitTellsTruth
  BY Zenon DEF SessionIInv
<1> QED
  BY <1>1, <1>4, <1>5, PTL DEF DockerSpec

-----------------------------------------------------------------------------
(* The SSH connections *)

TypeOK ==
    /\ net \in [1..MaxDials -> {"new", "up", "dead", "closed"}]
    /\ dials \in 0..MaxDials
    /\ conn \in 0..MaxDials /\ dialing \in 0..MaxDials

(* A connection that is dialled is not the one the manager has: nothing     *)
(* beyond the last one dialled was ever opened.                             *)
Fresh ==
    /\ \A k \in 1..MaxDials : k > dials => net[k] = "new"
    /\ conn # 0 => conn # dialing

SshInv == TypeOK /\ Fresh /\ NoLeak

(* Drop closes at most the connection it is given. *)
LEMMA DropCloses ==
    ASSUME TypeOK, NEW k \in 0..MaxDials
    PROVE  /\ Drop(k) \in [1..MaxDials -> {"new", "up", "dead", "closed"}]
           /\ \A i \in 1..MaxDials : Drop(k)[i] = IF i = k THEN "closed" ELSE net[i]
BY SshBackendAssumption DEF TypeOK, Drop

(* IInv is preserved by every step. *)
LEMMA SshInductive ==
    ASSUME SshInv, [SshNext]_sshVars
    PROVE  SshInv'
<1> USE SshBackendAssumption DEF SshInv
<1>1. /\ conn # 0 => conn \in 1..dials /\ net[conn] \in {"up", "dead"}
      /\ dialing # 0 => dialing \in 1..dials /\ net[dialing] \in {"up", "dead"}
      /\ \A k \in 1..MaxDials : k \notin {conn, dialing} => net[k] \in {"new", "closed"}
      /\ TypeOK
  BY DEF TypeOK, Fresh, NoLeak, Open
<1>2. CASE Dial
  <2>1. /\ dials < MaxDials /\ dialing = 0 /\ dials' = dials + 1 /\ dialing' = dials + 1
        /\ net' = [net EXCEPT ![dials + 1] = "up"] /\ UNCHANGED <<conn, sftp>>
    BY <1>2, Zenon DEF Dial
  <2>2. TypeOK' /\ Fresh'
    BY <1>1, <2>1 DEF TypeOK, Fresh
  <2>3. NoLeak'
    BY <1>1, <2>1 DEF TypeOK, NoLeak, Open
  <2> QED BY <2>2, <2>3, Zenon
<1>3. CASE NewSFTPFails
  <2>1. /\ dialing # 0 /\ net' = [net EXCEPT ![dialing] = "closed"] /\ dialing' = 0
        /\ UNCHANGED <<conn, sftp, dials>>
    BY <1>3, Zenon DEF NewSFTPFails
  <2>2. TypeOK' /\ Fresh'
    BY <1>1, <2>1 DEF TypeOK, Fresh
  <2>3. NoLeak'
    BY <1>1, <2>1, Zenon DEF TypeOK, Fresh, NoLeak, Open
  <2> QED BY <2>2, <2>3, Zenon
<1>4. CASE InstallConn \/ KeepAliveFails \/ SshClose
  <2>1. /\ net' = Drop(conn) /\ sftp' = conn' /\ dials' = dials
        /\ \/ conn' = dialing /\ dialing' = 0
           \/ conn' = 0 /\ dialing' = dialing
    BY <1>4, Zenon DEF InstallConn, KeepAliveFails, SshClose
  <2>2. /\ net' \in [1..MaxDials -> {"new", "up", "dead", "closed"}]
        /\ \A i \in 1..MaxDials : net'[i] = IF i = conn THEN "closed" ELSE net[i]
    BY <1>1, <2>1, DropCloses, Zenon DEF TypeOK
  <2>3. TypeOK' /\ Fresh'
    BY <1>1, <2>1, <2>2 DEF TypeOK, Fresh
  <2>4. NoLeak'
    BY <1>1, <2>1, <2>2 DEF TypeOK, Fresh, NoLeak, Open
  <2> QED BY <2>3, <2>4, Zenon
<1>5. CASE \E k \in 1..MaxDials : LinkLost(k)
  <2>1. PICK k \in 1..MaxDials : /\ net[k] = "up" /\ net' = [net EXCEPT ![k] = "dead"]
                                /\ UNCHANGED <<dials, conn, sftp, dialing>>
    BY <1>5, Zenon DEF LinkLost, mgr
  <2>2. TypeOK' /\ Fresh'
    BY <1>1, <2>1, Zenon DEF TypeOK, Fresh
  <2>3. NoLeak'
    BY <1>1, <2>1, Zenon DEF TypeOK, NoLeak, Open
  <2> QED BY <2>2, <2>3, Zenon
<1>6. CASE UNCHANGED <<net, dials, conn, sftp, dialing>>
  BY <1>6, Zenon DEF TypeOK, Fresh, NoLeak, Open
<1>7. CASE DialFails \/ MgrStart \/ Top \/ ReconnectTick \/ KeepAliveTick \/ KeepAliveSent
           \/ KeepAlivePanics \/ Poll
  BY <1>6, <1>7, Zenon DEF DialFails, MgrStart, Top, ReconnectTick, KeepAliveTick, KeepAliveSent,
                    KeepAlivePanics, Poll, mgr
<1>8. CASE SessionReads \/ SessionOpens \/ TakeFiles
  BY <1>6, <1>8, Zenon DEF SessionReads, SessionOpens, TakeFiles, mgr
<1>9. CASE UNCHANGED sshVars
  BY <1>6, <1>9, Zenon DEF sshVars
<1> QED BY <1>2, <1>3, <1>4, <1>5, <1>7, <1>8, <1>9, Zenon DEF SshNext, Manager, Reconnect

(* However often dials and SFTP start-ups fail, connections die and Close   *)
(* runs beside the manager, the connections that are open are m.conn and    *)
(* the one a reconnect has in hand, and m.sftp is that of m.conn.           *)
THEOREM NoConnectionLeaks == Spec => []NoLeak
<1>1. SshInit => SshInv
  BY SshBackendAssumption DEF SshInit, SshInv, TypeOK, Fresh, NoLeak, Open
<1>2. SshInv /\ [SshNext]_sshVars => SshInv'
  BY SshInductive, Zenon
<1>3. SshInv => NoLeak
  BY Zenon DEF SshInv
<1> QED BY <1>1, <1>2, <1>3, PTL DEF Spec
=============================================================================
