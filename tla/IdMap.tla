------------------------------- MODULE IdMap -------------------------------
(***************************************************************************)
(* The uid_map and gid_map of the workspace mount                          *)
(* (pkg/workspacefs/filesystem.go): contiguous ranges of remote ids shown  *)
(* as local ids, searched in order, in arithmetic modulo the width of an   *)
(* id (2^32 in the code).                                                  *)
(***************************************************************************)
EXTENDS Integers, Sequences

CONSTANT Width

ASSUME WidthAssumption == Width \in Nat \ {0}

Ids == 0..(Width - 1)
IDMapEntry == [remote : Ids, local : Ids, count : Ids]

CoversRemote(e, id) == id >= e.remote /\ id - e.remote < e.count
CoversLocal(e, id) == id >= e.local /\ id - e.local < e.count

(* The ids some entry translates. *)
hasLocal(es, id) == \E k \in DOMAIN es : CoversRemote(es[k], id)
hasRemote(es, id) == \E k \in DOMAIN es : CoversLocal(es[k], id)

(* The first entry that covers the id translates it. *)
mapToLocal(es, id) ==
    LET k == CHOOSE j \in DOMAIN es :
                 CoversRemote(es[j], id) /\ \A i \in 1..(j - 1) : ~CoversRemote(es[i], id)
    IN (es[k].local + (id - es[k].remote)) % Width

(* The offset within the range is forgotten. *)
mapToRemoteUnshifted(es, id) ==
    LET k == CHOOSE j \in DOMAIN es :
                 CoversLocal(es[j], id) /\ \A i \in 1..(j - 1) : ~CoversLocal(es[i], id)
    IN es[k].remote

mapToRemote(es, id) ==
    LET k == CHOOSE j \in DOMAIN es :
                 CoversLocal(es[j], id) /\ \A i \in 1..(j - 1) : ~CoversLocal(es[i], id)
    IN (es[k].remote + (id - es[k].local)) % Width

(* No range runs past the width, and no two ranges share a local or a       *)
(* remote id. Nothing in the configuration checks this.                     *)
WellFormed(es) ==
    /\ \A k \in DOMAIN es :
           es[k].remote + es[k].count <= Width /\ es[k].local + es[k].count <= Width
    /\ \A j, k \in DOMAIN es : \A id \in Ids :
           /\ CoversRemote(es[j], id) /\ CoversRemote(es[k], id) => j = k
           /\ CoversLocal(es[j], id) /\ CoversLocal(es[k], id) => j = k

(* "mapToRemote is the reverse of mapToLocal": what a stat shows for an id  *)
(* is what chown translates back to that id, and the other way round.       *)
RoundTrip(es, id) ==
    /\ hasLocal(es, id) => /\ hasRemote(es, mapToLocal(es, id))
                           /\ mapToRemote(es, mapToLocal(es, id)) = id
    /\ hasRemote(es, id) => /\ hasLocal(es, mapToRemote(es, id))
                            /\ mapToLocal(es, mapToRemote(es, id)) = id
=============================================================================
