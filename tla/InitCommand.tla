----------------------------- MODULE InitCommand ----------------------------
(***************************************************************************)
(* The initial command (pkg/initcmd): LookPath resolves it on the local    *)
(* PATH without the stub directory, DeriveLocalCommands whitelists it and  *)
(* what its #! line makes the kernel and env run.                          *)
(*                                                                         *)
(* A path, a word of a #! line and a local_commands entry are all records  *)
(* [dir, base]; dir "" is a word with no slash.  Directories in Relative   *)
(* do not begin with a slash.  env's NAME=VALUE words, and #! lines longer *)
(* than the kernel's buffer, are left out.                                 *)
(***************************************************************************)
EXTENDS Naturals, Sequences

CONSTANTS
    StubDir,        \* container.path_stub_dir
    Relative, Cwd,
    LocalCommands,  \* configured words and absolute paths
    Regexes         \* configured /regex/ entries: the paths each one matches

VARIABLES
    cmd,        \* the word the user typed
    path,       \* PATH: a sequence of [dir, clean]
    files,      \* the local files: path -> file
    force,      \* force_resolve_initial_command_locally
    i,          \* LookPath: the PATH entry it is at
    resolved,   \* LookPath's answer, once at is past "look"
    local,      \* cfg.Container.LocalCommands, without the regexes
    at          \* "look", "derive", "mount" or "failed", and what PathStub adds

resolveVars == <<cmd, path, files, force, i, resolved, local>>

Word(w) == [dir |-> "", base |-> w]
Join(dir, name) == [dir |-> dir, base |-> name]

(* filepath.Abs: a relative directory is below the working directory. *)
Abs(p) == IF p.dir \in Relative THEN Join(Cwd, p.base) ELSE p

Missing == [kind |-> "missing"]
File(p) == IF Abs(p) \in DOMAIN files THEN files[Abs(p)] ELSE Missing

checkExec(p) == File(p).kind \in {"binary", "script"}

-----------------------------------------------------------------------------
(* filepath.Clean on both sides: however the directory is spelled. *)
Skipped(e) == e.dir = StubDir

ResolveInit(s) ==
    /\ cmd = s.cmd /\ path = s.path /\ files = s.files /\ force = s.force
    /\ i = 1 /\ resolved = s.cmd /\ local = LocalCommands /\ at = "look"

(* LookPath with a slash in the name: PATH is not consulted. *)
LookPathDirect ==
    /\ at = "look" /\ cmd.dir # ""
    /\ resolved' = Abs(cmd)
    /\ at' = IF checkExec(cmd) THEN "derive" ELSE "failed"
    /\ UNCHANGED <<cmd, path, files, force, i, local>>

(* LookPath: one PATH entry, or the end of PATH. *)
LookPath ==
    /\ at = "look" /\ cmd.dir = ""
    /\ IF i > Len(path) THEN at' = "failed" /\ UNCHANGED <<i, resolved>>
       ELSE LET candidate == Join(path[i].dir, cmd.base)
            IN  IF Skipped(path[i]) \/ ~checkExec(candidate)
                THEN i' = i + 1 /\ UNCHANGED <<resolved, at>>
                ELSE resolved' = candidate /\ at' = "derive" /\ UNCHANGED i
    /\ UNCHANGED <<cmd, path, files, force, local>>

-----------------------------------------------------------------------------
ValueFlags == {"-u", "--unset", "-C", "--chdir"}
IsFlag(w) == w.dir = "" /\ w.base \in ValueFlags \cup {"-S", "-i"}

(* envTarget: the first word that is neither a flag nor a flag's value, and *)
(* a value may look like a flag.                                            *)
Targets(arg) ==
    LET skipped[k \in DOMAIN arg] ==
            k > 1 /\ ~skipped[k - 1] /\ arg[k - 1] \in {Word(f) : f \in ValueFlags}
    IN {k \in DOMAIN arg : ~skipped[k] /\ ~IsFlag(arg[k])}

envTarget(arg) == {arg[k] : k \in {k \in Targets(arg) : \A j \in Targets(arg) : k <= j}}

(* A mutation: the interpreter is whitelisted, what env runs is not. *)
DeriveNoTarget(p) ==
    {p} \cup (IF File(p).kind = "script" THEN {File(p).interp} ELSE {})

DeriveLocalCommands(p) ==
    LET f == File(p) IN
    {p} \cup (IF f.kind # "script" THEN {}
              ELSE {f.interp} \cup IF f.interp.base = "env" THEN envTarget(f.arg) ELSE {})

(* main: the derived entries join the configured ones. *)
Derive ==
    /\ at = "derive" /\ at' = "mount"
    /\ local' = IF force THEN local \cup DeriveLocalCommands(resolved) ELSE local
    /\ UNCHANGED <<cmd, path, files, force, i, resolved>>

Resolve == LookPathDirect \/ LookPath \/ Derive

-----------------------------------------------------------------------------
(* MatchLocalCommand: a bare word, an absolute path, or a malformed entry. *)
MatchLocalCommand(entry, p) ==
    \/ entry.dir = "" /\ entry.base = p.base
    \/ entry.dir \notin Relative \cup {""} /\ entry = p

shouldAllow(p) ==
    \/ \E entry \in local : MatchLocalCommand(entry, p)
    \/ \E matched \in Regexes : p \in matched
=============================================================================
