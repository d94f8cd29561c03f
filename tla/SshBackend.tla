----------------------------- MODULE SshBackend -----------------------------
(***************************************************************************)
(* The SSH backend: the connection manager (pkg/sshconn/manager.go) with   *)
(* its reconnecting goroutine, the connections it dials                    *)
(* (pkg/sshconn/dialer.go), the backend on top of it                       *)
(* (pkg/remote/ssh/backend.go), and its two kinds of users: commands that  *)
(* open a session, and the workspace mount, which takes one file client.   *)
(*                                                                         *)
(* Connections are numbered in the order they are dialled; 0 is nil.       *)
(***************************************************************************)
EXTENDS Naturals, FiniteSets

CONSTANTS
    MaxDials,    \* connections dialled (bound)
    MaxFails     \* dials and SFTP subsystems that fail (bound)

ASSUME SshBackendAssumption ==
    MaxDials \in Nat \ {0} /\ MaxFails \in Nat

VARIABLES
    keepAlive,  \* ServerAliveInterval is set, so keepalives are sent
    net,      \* [1..MaxDials -> state]: "new", "up", "dead" (peer gone), "closed"
    dials, fails,
    conn, sftp, dialErr,   \* m.conn, m.sftp, m.lastErr # nil
    dialing,  \* the connection a reconnect has in hand
    run,      \* who runs the manager: the caller of Start, then the goroutine
    start,    \* Backend.Start: "begin", "connect", "poll", "ok", "failed"
    keep,     \* the connection sendKeepAlive holds
    shut,     \* Backend.Close was called
    opener,   \* a command that opens a session: [at, conn]
    files     \* the connection of the workspace's file client

mgr == <<conn, sftp, dialErr, dialing>>
users == <<opener, files>>
sshVars == <<keepAlive, net, dials, fails, conn, sftp, dialErr, dialing, run, start, keep, shut,
             opener, files>>

SshInit ==
    /\ keepAlive \in BOOLEAN
    /\ net = [k \in 1..MaxDials |-> "new"] /\ dials = 0 /\ fails = 0
    /\ conn = 0 /\ sftp = 0 /\ dialErr = FALSE /\ dialing = 0
    /\ run = "off" /\ start = "begin" /\ keep = 0 /\ shut = FALSE
    /\ opener = [at |-> "idle", conn |-> 0] /\ files = 0

(* closeLocked, as a new value of net: Conn.Close also closes the SFTP      *)
(* client.                                                                  *)
Drop(k) == IF k = 0 THEN net ELSE [net EXCEPT ![k] = "closed"]

-----------------------------------------------------------------------------
(* reconnect: Dial, NewSFTP, and the swap under the lock *)

(* Start's own first attempt, the top of the goroutine's loop, or its tick. *)
Dialing == start = "connect" \/ run \in {"dial", "tick"}

(* Back to the caller; Start spawns the goroutine whatever the result. *)
ReconnectEnds ==
    /\ start' = IF start = "connect" THEN "poll" ELSE start
    /\ run' = CASE start = "connect" -> "top" [] run = "dial" -> "select" [] run = "tick" -> "top"

Dial ==
    /\ Dialing /\ dialing = 0 /\ dials < MaxDials
    /\ dials' = dials + 1 /\ dialing' = dials + 1
    /\ net' = [net EXCEPT ![dials + 1] = "up"]
    /\ UNCHANGED <<keepAlive, fails, conn, sftp, dialErr, run, start, keep, shut, users>>

DialFails ==
    /\ Dialing /\ dialing = 0 /\ fails < MaxFails
    /\ fails' = fails + 1 /\ dialErr' = TRUE
    /\ ReconnectEnds
    /\ UNCHANGED <<keepAlive, net, dials, conn, sftp, dialing, keep, shut, users>>

(* NewSFTP fails and the connection is left open. *)
NewSFTPFailsOpen ==
    /\ dialing # 0 /\ (net[dialing] = "dead" \/ fails < MaxFails)
    /\ fails' = IF net[dialing] = "dead" THEN fails ELSE fails + 1
    /\ dialErr' = TRUE /\ dialing' = 0
    /\ ReconnectEnds
    /\ UNCHANGED <<keepAlive, net, dials, conn, sftp, keep, shut, users>>

NewSFTPFails ==
    /\ dialing # 0 /\ (net[dialing] = "dead" \/ fails < MaxFails)
    /\ fails' = IF net[dialing] = "dead" THEN fails ELSE fails + 1
    /\ net' = [net EXCEPT ![dialing] = "closed"]
    /\ dialErr' = TRUE /\ dialing' = 0
    /\ ReconnectEnds
    /\ UNCHANGED <<keepAlive, dials, conn, sftp, keep, shut, users>>

InstallConn ==
    /\ dialing # 0
    /\ net' = Drop(conn) /\ conn' = dialing /\ sftp' = dialing
    /\ dialErr' = FALSE /\ dialing' = 0
    /\ ReconnectEnds
    /\ UNCHANGED <<keepAlive, dials, fails, keep, shut, users>>

Reconnect == Dial \/ DialFails \/ NewSFTPFails \/ InstallConn

-----------------------------------------------------------------------------
(* Manager.Start and the goroutine run *)

MgrStart ==
    /\ start = "begin"
    /\ start' = "connect"
    /\ UNCHANGED <<keepAlive, net, dials, fails, mgr, run, keep, shut, users>>

Top ==
    /\ run = "top"
    /\ run' = IF conn = 0 THEN "dial" ELSE "select"
    /\ UNCHANGED <<keepAlive, net, dials, fails, mgr, start, keep, shut, users>>

ReconnectTick ==
    /\ run = "select"
    /\ run' = IF conn = 0 THEN "tick" ELSE "top"
    /\ UNCHANGED <<keepAlive, net, dials, fails, mgr, start, keep, shut, users>>

KeepAliveTick ==
    /\ run = "select" /\ keepAlive
    /\ keep' = conn
    /\ run' = IF conn = 0 THEN "top" ELSE "keep"
    /\ UNCHANGED <<keepAlive, net, dials, fails, mgr, start, shut, users>>

KeepAliveSent ==
    /\ run = "keep" /\ net[keep] = "up"
    /\ run' = "top" /\ keep' = 0
    /\ UNCHANGED <<keepAlive, net, dials, fails, mgr, start, shut, users>>

(* A failed keepalive that is only logged. *)
KeepAliveIgnored ==
    /\ run = "keep" /\ net[keep] = "dead"
    /\ run' = "top" /\ keep' = 0
    /\ UNCHANGED <<keepAlive, net, dials, fails, mgr, start, shut, users>>

(* The peer is gone, or Close closed the connection under the request: the  *)
(* connection is closed, and the next turn of the loop dials.               *)
KeepAliveFails ==
    /\ run = "keep" /\ net[keep] \in {"dead", "closed"}
    /\ net' = Drop(conn) /\ conn' = 0 /\ sftp' = 0
    /\ run' = "top" /\ keep' = 0
    /\ UNCHANGED <<keepAlive, dials, fails, dialErr, dialing, start, shut, users>>

(* SendRequest on the client of a connection that was closed meanwhile: the *)
(* field is nil.                                                            *)
KeepAlivePanics ==
    /\ run = "keep" /\ net[keep] = "closed"
    /\ run' = "panic"
    /\ UNCHANGED <<keepAlive, net, dials, fails, mgr, start, keep, shut, users>>

-----------------------------------------------------------------------------
(* Backend.Start polls; Backend.Close *)

Poll ==
    /\ start = "poll"
    /\ \/ conn # 0 /\ start' = "ok"
       \/ conn = 0 /\ start' = "failed"   \* fifteen seconds are over
    /\ UNCHANGED <<keepAlive, net, dials, fails, mgr, run, keep, shut, users>>

SshClose ==
    /\ start \in {"ok", "failed"} /\ ~shut
    /\ net' = Drop(conn) /\ conn' = 0 /\ sftp' = 0
    /\ shut' = TRUE
    /\ UNCHANGED <<keepAlive, dials, fails, dialErr, dialing, run, start, keep, users>>

-----------------------------------------------------------------------------
(* Users *)

(* Manager.NewSession reads m.conn under the lock and uses it after. *)
SessionReads ==
    /\ start = "ok" /\ opener.at \in {"idle", "open", "error"}
    /\ opener' = IF conn = 0 THEN [at |-> "error", conn |-> 0] ELSE [at |-> "read", conn |-> conn]
    /\ UNCHANGED <<keepAlive, net, dials, fails, mgr, run, start, keep, shut, files>>

(* The server may refuse; a closed connection has a nil client, unless the  *)
(* request was under way when it was closed.                                *)
SessionOpens ==
    /\ opener.at = "read"
    /\ \E r \in CASE net[opener.conn] = "up" -> {"open", "error"}
                    [] net[opener.conn] = "dead" -> {"error"}
                    [] net[opener.conn] = "closed" -> {"error", "panic"} :
            opener' = [opener EXCEPT !.at = r]
    /\ UNCHANGED <<keepAlive, net, dials, fails, mgr, run, start, keep, shut, files>>

(* MountWorkspace: Files once; the mount keeps the client. *)
TakeFiles ==
    /\ start = "ok" /\ files = 0 /\ sftp # 0
    /\ files' = sftp
    /\ UNCHANGED <<keepAlive, net, dials, fails, mgr, run, start, keep, shut, opener>>

(* The peer or the network goes away; nobody is told. *)
LinkLost(k) ==
    /\ net[k] = "up"
    /\ net' = [net EXCEPT ![k] = "dead"]
    /\ UNCHANGED <<keepAlive, dials, fails, mgr, run, start, keep, shut, users>>

-----------------------------------------------------------------------------
Manager == Reconnect \/ Top \/ ReconnectTick \/ KeepAliveTick \/ KeepAliveSent
           \/ KeepAliveFails \/ KeepAlivePanics
SshNext ==
    \/ MgrStart \/ Manager \/ Poll \/ SshClose
    \/ SessionReads \/ SessionOpens \/ TakeFiles
    \/ \E k \in 1..MaxDials : LinkLost(k)

(* The goroutine runs and both tickers tick (Go picks among ready cases at  *)
(* random); failures are bounded, so a dial succeeds in the end; the        *)
(* backend's user goes on.                                                  *)
Spec ==
    /\ SshInit /\ [][SshNext]_sshVars
    /\ WF_sshVars(MgrStart) /\ WF_sshVars(Poll) /\ WF_sshVars(TakeFiles)
    /\ WF_sshVars(Manager) /\ SF_sshVars(KeepAliveTick)

-----------------------------------------------------------------------------
Open == {k \in 1..MaxDials : net[k] \in {"up", "dead"}}

(* No connection is lost sight of, and none is used on: those that are open *)
(* are the manager's and the one a reconnect has in hand, a failed          *)
(* reconnect closes its own, what NewSession and Files find under the lock  *)
(* was not closed by a keepalive or by Close, and the SFTP client the       *)
(* manager hands out is that of its connection.                             *)
NoLeak == Open = {conn, dialing} \ {0} /\ sftp = conn

(* "reconnecting sessions": with keepalives a connection that dies is       *)
(* replaced, as long as dials are left and the backend is not closed.       *)
Reconnects ==
    keepAlive /\ [](dials < MaxDials) =>
        [](start = "ok" => <>(shut \/ (conn # 0 /\ net[conn] = "up")))
=============================================================================
