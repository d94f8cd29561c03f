------------------------------ MODULE MCReaper ------------------------------
(* Three children of which two are waited for, and a signal channel of one *)
(* entry, so that signals coalesce both in the runtime and in the channel. *)
EXTENDS Reaper

CONSTANTS c1, c2, orphan

MCPids == {c1, c2, orphan}
MCWaited == {c1, c2}
MCStatuses == {[signaled |-> FALSE, n |-> 0], [signaled |-> TRUE, n |-> 15]}
=============================================================================
