--------------------------- MODULE MCWorkspaceFS ---------------------------
(* Four uses of the mount: one process that asks for everything a Setattr  *)
(* can ask, for owners that the maps know as remote ids, as local ids and  *)
(* not at all; two processes that open, write, truncate, and do everything *)
(* that can be done to names; one that changes owners and times of files,  *)
(* directories and links, by path and by descriptor; and two that change   *)
(* owners while remote processes do.                                       *)
EXTENDS WorkspaceFS

CONSTANTS proc1, proc2, n1, n2, f1, f2

Modes == {"override", "transparent"}
Range1(r, l, c) == [remote |-> r, local |-> l, count |-> c]
Settings(uidMaps, gidMaps, modes) ==
    [uidMap : uidMaps, gidMap : gidMaps, uidMode : modes, gidMode : modes]

UidMaps == {<<>>, <<Range1(3, 7, 1), Range1(1, 5, 2)>>}
GidMaps == {<<>>, <<Range1(1, 5, 2)>>}

(* Any ids and nothing else, anything but ids, and everything at once. *)
AllRequests ==
    [uid : {3, 6, Unset}, gid : {3, 5, Unset}, mode : {FALSE}, times : {"none"}, size : {FALSE}]
    \cup [uid : {Unset}, gid : {Unset}, mode : BOOLEAN, times : {"none", "atime", "mtime", "both"},
          size : {FALSE}]
    \cup [uid : {6, Unset}, gid : {5}, mode : {TRUE}, times : {"atime"}, size : {TRUE}]
Nothing == [uid |-> Unset, gid |-> Unset, mode |-> FALSE, times |-> "none", size |-> FALSE]

MCUses ==
    {[procs |-> {proc1}, names |-> {n1}, files |-> {f1}, owners |-> {1, 3, 5}, remote |-> FALSE,
      acts |-> {"rename", "unlink"}, asks |-> AllRequests,
      options |-> Settings(UidMaps, GidMaps, Modes)],
     [procs |-> {proc1, proc2}, names |-> {n1, n2}, files |-> {f1, f2}, owners |-> {1}, remote |-> FALSE,
      acts |-> Acts, asks |-> {[Nothing EXCEPT !.size = TRUE]},
      options |-> Settings({<<>>}, {<<>>}, {"override"})],
     [procs |-> {proc1}, names |-> {n1, n2}, files |-> {f1, f2}, owners |-> {3}, remote |-> FALSE,
      acts |-> Acts,
      asks |-> {[Nothing EXCEPT !.uid = 5], [Nothing EXCEPT !.times = "mtime"]},
      options |-> Settings({<<Range1(1, 5, 2)>>}, {<<>>}, Modes)],
     [procs |-> {proc1, proc2}, names |-> {n1}, files |-> {f1}, owners |-> {1, 3}, remote |-> TRUE,
      acts |-> {"unlink"}, asks |-> {[Nothing EXCEPT !.uid = 5], [Nothing EXCEPT !.uid = 4, !.gid = 5]},
      options |-> Settings({<<Range1(1, 5, 2)>>}, {<<Range1(1, 5, 2)>>}, {"override"})]}
=============================================================================
