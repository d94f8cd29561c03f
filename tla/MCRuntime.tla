----------------------------- MODULE MCRuntime -----------------------------
(* Three uses: the mounts, the machine, and the agent's platform. *)
EXTENDS Runtime

CONSTANTS a, b, c, MaxMounts

MCPaths == {a, b, c}

cli0 == [backend |-> "", dest |-> NoDest, port |-> 0, user |-> "", os |-> "", arch |-> "",
         mounts |-> <<>>, workdir |-> ""]
file0 == [type |-> "", host |-> <<"fh">>, user |-> "", port |-> 0, container |-> <<"">>,
          project |-> <<"">>, service |-> "", seq |-> 0, os |-> "", arch |-> "",
          mounts |-> <<>>, auto |-> FALSE, workdir |-> "", mode |-> "", sound |-> TRUE]
info0 == [os |-> "", arch |-> ""]
where0 == [env |-> TRUE, conf |-> "", sibling |-> FALSE, lib |-> {}]
req0 == [cli |-> cli0, file |-> file0, info |-> info0, home |-> a, where |-> where0]

Lists(S, n) == UNION {[1..k -> [local : S, remote : S]] : k \in 0..n}

(* Lists of mounts, and shorter ones with home directories on the command   *)
(* line.                                                                    *)
MountRequests ==
    {[req0 EXCEPT !.file.mounts = ms, !.file.auto = auto] :
        ms \in Lists(Paths, MaxMounts), auto \in BOOLEAN}
    \cup {[req0 EXCEPT !.cli.mounts = <<m>>, !.file.mounts = ms, !.file.auto = TRUE, !.home = h] :
        m \in [local : {a, c, "~", "rel"}, remote : {b, c, "~", "rel"}],
        ms \in Lists({a, b, "~"}, 1), h \in {a, b}}

Dests ==
    {NoDest} \cup
    {[scheme |-> s, user |-> r[1], host |-> r[2], port |-> r[3], service |-> r[4], seq |-> r[5]] :
        s \in {"", "ssh", "docker", "compose", "http"},
        r \in {<<"", "dh", 0, "", 0>>, <<"du", "dh", 22, "", 0>>, <<"", "dh", 70000, "", 0>>,
               <<"", "dh", 0, "ds", 2>>, <<"", "dh", 0, "ds", -1>>, <<"du", "", 0, "", 0>>}}

TargetRequests ==
    {[req0 EXCEPT !.cli.backend = k, !.cli.dest = d, !.cli.port = f[1], !.cli.user = f[2],
                  !.file = [x EXCEPT !.type = t]] :
        k \in {"", "ssh", "docker", "compose"}, d \in Dests,
        f \in {<<0, "">>, <<2222, "cu">>, <<70000, "">>},
        t \in {"", "ssh", "docker", "compose", "telnet"},
        x \in {[file0 EXCEPT !.host = <<"">>],
               [file0 EXCEPT !.user = "fu", !.port = 70000, !.container = <<"fc">>],
               [file0 EXCEPT !.port = 23, !.user = "fu", !.project = <<"fp">>, !.service = "fs",
                             !.seq = 1]}}

PlatformRequests ==
    {[req0 EXCEPT !.cli.os = p[1], !.file.arch = p[2], !.info = [os |-> p[3], arch |-> p[4]],
                  !.file.type = t[1], !.file.container = t[2], !.where = w,
                  !.cli.workdir = d[1], !.file.workdir = d[2], !.file.mode = d[3], !.file.sound = d[4]] :
        p \in {"", "co"} \X {"", "fa"} \X {"", "ro"} \X {"", "ra"},
        t \in {<<"ssh", <<"">>>>, <<"docker", <<"fc">>>>},
        w \in [env : {FALSE}, conf : {"", "there", "missing"}, sibling : BOOLEAN,
               lib : {{"co", "ro", "lo"} \X {"fa", "ra", "la"}, {<<"lo", "la">>}}],
        d \in {<<"", "", "explicit", TRUE>>, <<"", "", "", FALSE>>, <<"", "~", "explicit", TRUE>>,
               <<b, "rel", "", TRUE>>}}

MCRequests == MountRequests \cup TargetRequests \cup PlatformRequests
=============================================================================
