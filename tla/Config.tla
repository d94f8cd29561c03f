------------------------------- MODULE Config -------------------------------
(***************************************************************************)
(* What a run of machineproxy is asked to do: the configuration file, the  *)
(* flags and the destination on the command line, put together by run in   *)
(* cmd/machineproxy/main.go in one fixed order, and the pieces that can    *)
(* only be settled once the remote machine answers: its platform, which    *)
(* selects the agent binary, and its home directory.                       *)
(*                                                                         *)
(* A string is "" and a number 0 when it is not set, as in the code.  A    *)
(* step that may refuse the request returns a set, empty when it does.     *)
(***************************************************************************)
EXTENDS Integers, Sequences, FiniteSets, Functions

CONSTANTS
    Paths,       \* absolute paths, local and remote
    Cwd,         \* the directory machineproxy is started in
    LocalHome,   \* the local user's home directory
    LocalOS,     \* runtime.GOOS
    LocalArch    \* runtime.GOARCH

ASSUME ConfigAssumption ==
    {Cwd, LocalHome} \subseteq Paths /\ {"", "~", "rel"} \cap Paths = {}

NoDest == [none |-> TRUE]
MaxPort == 65535

(* The value that is set, or else the other. *)
Or(x, y) == IF x = "" THEN y ELSE x
OrNumber(x, y) == IF x = 0 THEN y ELSE x

-----------------------------------------------------------------------------
(* The destination [scheme://][user@]host[:port][/service[/seq]], by its    *)
(* pieces.  A port or a sequence of -1 is one that does not parse.  What    *)
(* has no meaning for a backend stays part of the name, as a tuple.         *)

parseSSHTarget(d) ==
    LET tail == (IF d.service = "" THEN <<>> ELSE <<d.service>>)
                \o (IF d.seq = 0 THEN <<>> ELSE <<d.seq>>)
    IN IF \/ d.host = "" /\ d.port = 0 /\ tail = <<>>
          \/ d.port < 0 \/ d.port > MaxPort
          \/ d.port # 0 /\ tail # <<>>
       THEN {}
       ELSE {[type |-> "ssh", user |-> d.user, host |-> <<d.host>> \o tail,
              port |-> d.port, service |-> "", seq |-> 0]}

parseDockerTarget(d) ==
    IF d.user # "" \/ d.service # "" \/ (d.host = "" /\ d.port = 0)
    THEN {}
    ELSE {[type |-> "docker", user |-> "", port |-> 0, service |-> "", seq |-> 0,
           host |-> IF d.port = 0 THEN <<d.host>> ELSE <<d.host, d.port>>]}

parseComposeTarget(d) ==
    IF d.host = "" \/ d.service = "" \/ d.user # "" \/ d.port # 0 \/ d.seq < 0
    THEN {}
    ELSE {[type |-> "compose", user |-> "", host |-> <<d.host>>, port |-> 0,
           service |-> d.service, seq |-> d.seq]}

ParseDestination(d, defaultType) ==
    LET t == Or(d.scheme, Or(defaultType, "ssh"))
    IN CASE t = "ssh" -> parseSSHTarget(d)
         [] t = "docker" -> parseDockerTarget(d)
         [] t = "compose" -> parseComposeTarget(d)
         [] OTHER -> {}

(* The user of the configuration file stands, whatever the destination says. *)
applyDestinationFileUser(c, dst) ==
    CASE dst.type = "ssh" ->
            [c EXCEPT !.type = "ssh", !.host = dst.host, !.user = Or(@, dst.user),
                      !.port = OrNumber(dst.port, @)]
      [] dst.type = "docker" -> [c EXCEPT !.type = "docker", !.container = dst.host]
      [] dst.type = "compose" ->
            [c EXCEPT !.type = "compose", !.project = dst.host, !.service = dst.service,
                      !.seq = dst.seq]

(* The destination goes to the block of its backend. *)
applyDestination(c, dst) ==
    CASE dst.type = "ssh" ->
            [c EXCEPT !.type = "ssh", !.host = dst.host, !.user = Or(dst.user, @),
                      !.port = OrNumber(dst.port, @)]
      [] dst.type = "docker" -> [c EXCEPT !.type = "docker", !.container = dst.host]
      [] dst.type = "compose" ->
            [c EXCEPT !.type = "compose", !.project = dst.host, !.service = dst.service,
                      !.seq = dst.seq]

-----------------------------------------------------------------------------
(* The mounts.  "~" stands for a path below the home directory, "rel" for   *)
(* one that is neither absolute nor that.                                   *)

ExpandLocalHome(p) == IF p = "~" THEN LocalHome ELSE p
ExpandRemoteHome(p, home) == IF p = "~" THEN home ELSE p
isAbsOrHomeRelative(p) == p # "rel"

(* The numbers of a set as a sequence, in ascending order. *)
InOrder(S) ==
    [n \in 1..Cardinality(S) |-> CHOOSE k \in S : Cardinality({j \in S : j <= k}) = n]

(* Every mount that is not an identity also gets its remote path as a       *)
(* container path, once.  The entries are compared as they are written.     *)
applyAutoIdentityMounts(ms) ==
    LET identity == {ms[k].remote : k \in {n \in DOMAIN ms : ms[n].local = ms[n].remote}}
        moved == {k \in DOMAIN ms : ms[k].remote \notin identity}
        first == {k \in moved : \A j \in moved : ms[j].remote = ms[k].remote => k <= j}
        added(n) == ms[InOrder(first)[n]].remote
    IN ms \o [n \in 1..Cardinality(first) |-> [local |-> added(n), remote |-> added(n)]]

-----------------------------------------------------------------------------
(* run, up to newRuntimeDeps *)

applyFlags(c, cli) ==
    [c EXCEPT !.port = OrNumber(cli.port, @), !.user = Or(cli.user, @),
              !.os = Or(cli.os, @), !.arch = Or(cli.arch, @),
              !.workdir = Or(cli.workdir, @),
              !.mounts = IF cli.mounts \o @ = <<>>
                         THEN <<[local |-> Cwd, remote |-> Cwd]>>
                         ELSE cli.mounts \o @]

applyDefaults(c) ==
    [c EXCEPT !.type = Or(@, "ssh"),
              !.mode = Or(@, "inherit"),
              !.workdir = ExpandLocalHome(@),
              !.mounts = IF c.auto THEN applyAutoIdentityMounts(@) ELSE @]

(* sound: the other fields hold values they may have. *)
Validate(c) ==
    /\ CASE c.type = "ssh" -> c.host # <<"">> /\ c.port \in 0..MaxPort
         [] c.type = "docker" -> c.container # <<"">>
         [] c.type = "compose" -> c.service # "" /\ c.seq >= 0
         [] OTHER -> FALSE
    /\ \A m \in Range(c.mounts) :
           isAbsOrHomeRelative(m.local) /\ isAbsOrHomeRelative(m.remote)
    /\ c.sound /\ c.workdir # "rel"
    /\ c.mode = "explicit" => c.workdir # ""

configure(cli, file) ==
    LET typed == [file EXCEPT !.type = Or(cli.backend, @)]
        sent == IF cli.dest = NoDest THEN {typed}
                ELSE {applyDestination(typed, d) :
                         d \in {e \in ParseDestination(cli.dest, typed.type) :
                                    cli.backend \in {"", e.type}}}
        flagged == {applyFlags(c, cli) :
                       c \in {e \in sent : cli.port # 0 \/ cli.user # "" => e.type = "ssh"}}
    IN {c \in {applyDefaults(e) : e \in flagged} : Validate(c)}

-----------------------------------------------------------------------------
(* Once the remote machine has answered *)

(* Each field that is not pinned is what the backend reports, or local. *)
resolveRemotePlatform(c, info) ==
    [c EXCEPT !.os = Or(@, Or(info.os, LocalOS)),
              !.arch = Or(@, Or(info.arch, LocalArch))]

(* resolveBinary for the agent: MPROXY_AGENT_BIN as it is, the configured   *)
(* path or nothing, a sibling of the executable, the installed one of the   *)
(* platform.                                                                *)
ResolveAgentBinaryPath(c, where) ==
    CASE where.env -> {<<"env">>}
      [] ~where.env /\ where.conf # "" -> IF where.conf = "there" THEN {<<"conf">>} ELSE {}
      [] ~where.env /\ where.conf = "" /\ where.sibling -> {<<"sibling">>}
      [] OTHER -> {p \in where.lib : p = <<c.os, c.arch>>}
=============================================================================
