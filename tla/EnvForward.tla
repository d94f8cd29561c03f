----------------------------- MODULE EnvForward -----------------------------
(***************************************************************************)
(* The environment of a command on its way to the remote side: what the    *)
(* contained program is given (runtime.RunChild, ns.FormatEnv), what the   *)
(* tracer adds when it redirects an exec (tracer.EnvBaseline), and the two *)
(* filters behind it, the broker's and the agent's (pkg/envfilter).        *)
(*                                                                         *)
(* An environment maps a name to its value or Unset; a value is the        *)
(* sequence of its parts between colons, so PATH is one of directories. A  *)
(* list of patterns is the set of names it matches.                        *)
(***************************************************************************)
EXTENDS Sequences, Functions

CONSTANTS
    Names,           \* variables, PATH and SOCK (MPROXY_BROKER_SOCK) among them
    Values,          \* of the other variables
    Dirs,            \* directories of PATH
    StubDir,         \* container.path_stub_dir
    Unset,
    ContainerRemove, \* container.env_remove
    EnvKeep, EnvRemove     \* agent.env_keep, agent.env_remove

ASSUME EnvForwardAssumption ==
    /\ {"PATH", "SOCK"} \subseteq Names
    /\ ContainerRemove \cup EnvKeep \cup EnvRemove \subseteq Names
    /\ StubDir \notin Dirs

VARIABLES
    stage,     \* "inherit", "local", "shim", "broker", "remote"
    stubs,     \* the stub directory is mounted
    position,  \* container.path_proxy: "append" or "prepend"
    env,       \* of the contained program
    baseline,  \* EnvBaseline.entries
    wire,      \* of the command, where it is now
    changed    \* names in its MPROXY_CHANGED_ENVS ({}: not there)

envVars == <<stage, stubs, position, env, baseline, wire, changed>>

PathValues == {<<>>, <<StubDir>>} \cup {<<d>> : d \in Dirs}
ValuesOf(n) ==
    {Unset} \cup (CASE n = "PATH" -> PathValues [] n = "SOCK" -> {<<"outer">>} [] OTHER -> {<<v>> : v \in Values})
Nothing == [n \in Names |-> Unset]

EnvInit ==
    /\ stage = "inherit" /\ stubs \in BOOLEAN /\ position \in {"append", "prepend"}
    /\ env \in {e \in [Names -> UNION {ValuesOf(n) : n \in Names}] :
                   \A n \in Names : e[n] \in ValuesOf(n)}
    /\ baseline = Nothing /\ wire = Nothing /\ changed = {}

-----------------------------------------------------------------------------
(* The contained program's environment *)

Without(e, ns) == [n \in Names |-> IF n \in ns THEN Unset ELSE e[n]]

Splice(p) == IF position = "append" THEN p \o <<StubDir>> ELSE <<StubDir>> \o p

(* PATH with the stub directory in it; a missing PATH gets a default one. *)
injectPath(p) ==
    IF p = Unset THEN Splice(<<"default">>)
    ELSE IF StubDir \in Range(p) THEN p ELSE Splice(p)

(* The broker's socket is appended to the list, and exec.Cmd, which starts  *)
(* the program, gives it the last value of a name.                          *)
FormatEnv(e) ==
    [e EXCEPT !["PATH"] = IF stubs THEN injectPath(@) ELSE @,
              !["SOCK"] = <<"own">>]

(* FormatEnv before env_remove, the order RunChild warns about. *)
RunChildSwapped ==
    /\ stage = "inherit" /\ stage' = "local"
    /\ env' = Without(FormatEnv(env), ContainerRemove)
    /\ baseline' = env'
    /\ UNCHANGED <<stubs, position, wire, changed>>

RunChild ==
    /\ stage = "inherit" /\ stage' = "local"
    /\ env' = FormatEnv(Without(env, ContainerRemove))
    /\ baseline' = env'
    /\ UNCHANGED <<stubs, position, wire, changed>>

(* The contained program sets or unsets a variable for its children. *)
SetVar(n) ==
    /\ stage = "local"
    /\ \E v \in ValuesOf(n) : env' = [env EXCEPT ![n] = v]
    /\ UNCHANGED <<stage, stubs, position, baseline, wire, changed>>

-----------------------------------------------------------------------------
(* A redirected exec *)

ChangedKeys(e) == {n \in Names : e[n] # Unset /\ e[n] # baseline[n]}

(* The tracer: InjectEnvVars. *)
RewriteExec ==
    /\ stage = "local" /\ stage' = "shim"
    /\ wire' = env /\ changed' = ChangedKeys(env)
    /\ UNCHANGED <<stubs, position, env, baseline>>

(* The shim has no socket to dial: exit 127. *)
ShimFails ==
    /\ stage = "shim" /\ wire["SOCK"] = Unset
    /\ stage' = "local" /\ wire' = Nothing /\ changed' = {}
    /\ UNCHANGED <<stubs, position, env, baseline>>

Filter(e, marked) ==
    [n \in Names |-> IF n \notin EnvRemove /\ n \in marked \cup EnvKeep THEN e[n] ELSE Unset]

(* A strip that leaves PATH as it is when it starts with the stub directory. *)
StripPathSegmentTail(p) ==
    IF p = Unset \/ p = <<>> THEN p ELSE <<Head(p)>> \o SelectSeq(Tail(p), LAMBDA d : d # StubDir)

(* An empty PATH stays; one that loses its last directory is dropped. *)
WithoutStubs(p) == SelectSeq(p, LAMBDA d : d # StubDir)
StripPathSegment(p) ==
    IF p = Unset \/ p = <<>> THEN p
    ELSE IF WithoutStubs(p) = <<>> THEN Unset ELSE WithoutStubs(p)

(* The broker: its filter consumes the marker, then PATH loses the stubs. *)
BrokerFilter ==
    /\ stage = "shim" /\ wire["SOCK"] # Unset /\ stage' = "broker"
    /\ LET f == Filter(wire, changed) IN
       wire' = [f EXCEPT !["PATH"] = IF stubs THEN StripPathSegment(@) ELSE @]
    /\ changed' = {}
    /\ UNCHANGED <<stubs, position, env, baseline>>

(* The agent filters again, by the configuration it was sent. *)
AgentFilter ==
    /\ stage = "broker" /\ stage' = "remote"
    /\ wire' = Filter(wire, changed)
    /\ UNCHANGED <<stubs, position, env, baseline, changed>>

CommandEnds ==
    /\ stage = "remote" /\ stage' = "local"
    /\ wire' = Nothing
    /\ UNCHANGED <<stubs, position, env, baseline, changed>>

EnvNext ==
    \/ RunChild \/ \E n \in Names : SetVar(n)
    \/ RewriteExec \/ ShimFails \/ BrokerFilter \/ AgentFilter \/ CommandEnds

EnvSpec == EnvInit /\ [][EnvNext]_envVars

-----------------------------------------------------------------------------
(* Properties *)

(* The PATH a remote command should see: the local one without the stubs. *)
Unstubbed(v) ==
    IF ~stubs \/ v = Unset \/ v = <<>> THEN v
    ELSE IF WithoutStubs(v) = <<>> THEN Unset ELSE WithoutStubs(v)
Remotely(n) == IF n = "PATH" THEN Unstubbed(env[n]) ELSE env[n]

(* What matches env_keep and not env_remove reaches the remote command      *)
(* with the value the local program gave it, PATH without the container's   *)
(* stub directory; "any matching env_remove are always stripped", changed   *)
(* or not; and an inherited variable is not sent unless env_keep names it.  *)
ForwardedExactly ==
    stage = "remote" =>
        \A n \in Names :
            /\ n \in EnvKeep \ EnvRemove => wire[n] = Remotely(n)
            /\ n \in EnvRemove \/ (n \notin EnvKeep /\ env[n] = baseline[n]) => wire[n] = Unset

(* Whatever the program inherited, the shim of a redirected exec finds the  *)
(* socket of this machineproxy's broker, never an outer one's, unless the   *)
(* program itself changed the variable.                                     *)
ShimFindsBroker ==
    stage = "shim" /\ env["SOCK"] = baseline["SOCK"] => wire["SOCK"] = <<"own">>
=============================================================================
