----------------------------- MODULE MCFileRPC -----------------------------
EXTENDS FileRPC

CONSTANTS u, v, f, g

(* Two callers, each with a file of its own. *)
MCOpens == [c \in Callers |-> IF c = u THEN {f} ELSE {g}]
=============================================================================
