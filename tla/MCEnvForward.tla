---------------------------- MODULE MCEnvForward ----------------------------
EXTENDS EnvForward

(* HOME is kept, LD_PRELOAD and MPROXY_* are removed, APP is neither. *)
MCNames == {"PATH", "SOCK", "HOME", "APP", "LD_PRELOAD"}
MCKeep == {"PATH", "HOME"}
MCRemove == {"SOCK", "LD_PRELOAD"}
MCContainerRemove == {"SOCK"}
=============================================================================
