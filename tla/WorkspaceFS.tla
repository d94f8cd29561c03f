---------------------------- MODULE WorkspaceFS ----------------------------
(***************************************************************************)
(* The workspace mount (pkg/workspacefs): FUSE requests of local processes *)
(* turned into calls of the remote file client, while other processes,     *)
(* local and remote, work on the same files.                               *)
(*                                                                         *)
(* A node of the mount remembers the path it was looked up under and goes  *)
(* by it for ever; an open handle stands for the remote file itself. A     *)
(* request that makes several remote calls takes one step for each. One    *)
(* directory is modelled, with regular files, hard and symbolic links and  *)
(* directories in it, and of a file's contents only who wrote.             *)
(***************************************************************************)
EXTENDS IdMap, FiniteSets

CONSTANTS
    Procs,       \* local processes
    Names,       \* names in the directory
    Files,       \* remote files
    NoFile,
    Unset,       \* an id a request leaves alone
    LocalID,     \* the local user's id
    Uses         \* what happens in one behaviour: the settings of the mount (options,
                 \*   a set of [uidMap, gidMap, uidMode, gidMode]), the processes that
                 \*   act (procs), the names and files there are (names, files), whose
                 \*   they are at first (owners), what a Setattr may ask (asks, a set of [uid,
                 \*   gid, mode, times, size]), what may happen to names (acts, a subset
                 \*   of Acts), and whether remote processes act (remote)

Acts == {"rename", "unlink", "link", "symlink", "mkdir"}

ASSUME WorkspaceFSAssumption ==
    /\ NoFile \notin Files /\ Unset \notin Ids /\ LocalID \in Ids
    /\ \A u \in Uses :
        /\ u.procs \subseteq Procs /\ u.names \subseteq Names /\ u.files \subseteq Files
        /\ u.owners \subseteq Ids /\ u.acts \subseteq Acts /\ u.remote \in BOOLEAN
        /\ u.asks \subseteq [uid : Ids \cup {Unset}, gid : Ids \cup {Unset}, mode : BOOLEAN,
                             times : {"none", "atime", "mtime", "both"}, size : BOOLEAN]
        /\ \A o \in u.options : /\ o.uidMap \in Seq(IDMapEntry) /\ o.gidMap \in Seq(IDMapEntry)
                                /\ {o.uidMode, o.gidMode} \subseteq {"override", "transparent"}

VARIABLES
    use,      \* the use the behaviour makes of the mount
    fs,       \* the mount's settings
    dir,      \* [Names -> file or NoFile]
    what,     \* [Files -> [kind, target]]: "file", "dir" or "link", to a name
    attr,     \* [Files -> [uid, gid, atime, mtime]], on the remote side
    data,     \* [Files -> the processes that wrote into it]
    fd,       \* [Procs -> [rel, file, write]], file NoFile when closed
    opened,   \* [Procs -> the files it ever opened]
    op,       \* [Procs -> the request in progress]
    touched   \* history: the processes in a Setattr during which others gave the name
              \*   another file, or changed the owners or times of the file that has it

given == <<use, fs>>
remoteFiles == <<what, attr, data>>
vars == <<use, fs, dir, what, attr, data, fd, opened, op, touched>>

(* The times of a file: as it was, that of a change of its contents, and    *)
(* one given in a request.                                                  *)
Old == 0
Now == 1
Given == 2

Idle == [at |-> "idle"]
Closed == [rel |-> CHOOSE n \in Names : TRUE, file |-> NoFile, write |-> FALSE]
Kind(k) == [kind |-> k, target |-> CHOOSE n \in Names : TRUE]

Init ==
    /\ use \in Uses /\ fs \in use.options
    /\ dir \in [Names -> Files \cup {NoFile}]
    /\ \A m, n \in Names : dir[m] = dir[n] /\ dir[n] # NoFile => m = n
    /\ \A n \in Names : dir[n] \in IF n \in use.names THEN use.files \cup {NoFile} ELSE {NoFile}
    /\ \E u, g \in use.owners : attr = [f \in Files |-> [uid |-> u, gid |-> g, atime |-> Old, mtime |-> Old]]
    /\ what = [f \in Files |-> Kind("file")] /\ data = [f \in Files |-> {}]
    /\ fd = [p \in Procs |-> Closed] /\ opened = [p \in Procs |-> {}]
    /\ op = [p \in Procs |-> Idle] /\ touched = {}

Named == {dir[n] : n \in Names} \ {NoFile}
Unused == use.files \ (Named \cup UNION {opened[q] : q \in Procs})

IsKind(n, k) == dir[n] # NoFile /\ what[dir[n]].kind = k

(* Where a name leads when links are followed, as the remote side does for  *)
(* every call but Lstat, Remove, Rename, Link and Readlink, and what it     *)
(* finds there: NoFile if nothing, or if links lead in circles.             *)
LeadsIn[k \in 0..Cardinality(Names), n \in Names] ==
    IF k > 0 /\ IsKind(n, "link") THEN LeadsIn[k - 1, what[dir[n]].target] ELSE n
LeadsTo(n) == IF IsKind(n, "link") THEN LeadsIn[Cardinality(Names), n] ELSE n
Follow(n) == IF IsKind(LeadsTo(n), "link") THEN NoFile ELSE dir[LeadsTo(n)]

-----------------------------------------------------------------------------
(* What a stat shows (applyAttr, viewUID and viewGID), and what becomes of *)
(* an id given to chown (resolveChownUID and resolveChownGID).             *)

view(es, m, id) ==
    IF hasLocal(es, id) THEN mapToLocal(es, id) ELSE IF m = "override" THEN LocalID ELSE id

chownNoop(es, m, id) == ~hasRemote(es, id) /\ m = "override"
chownForward(es, id) == IF hasRemote(es, id) THEN mapToRemote(es, id) ELSE id

-----------------------------------------------------------------------------
(* Setattr: owners, then mode, then times, then size *)

(* The step a request is at: the first thing from "stage" on it asks for. *)
Stages == <<"chown", "mode", "times", "size">>
Asks(ask, s) ==
    CASE s = "chown" -> {ask.uid, ask.gid} # {Unset}
      [] s = "mode"  -> ask.mode
      [] s = "times" -> ask.times # "none"
      [] s = "size"  -> ask.size
From(q, k) ==
    IF \A j \in k..4 : ~Asks(q.ask, Stages[j]) THEN Idle
    ELSE [q EXCEPT !.at = Stages[CHOOSE j \in k..4 :
                              Asks(q.ask, Stages[j]) /\ \A i \in k..(j - 1) : ~Asks(q.ask, Stages[i])]]

(* A request by path, or by a descriptor: its node has the path in both     *)
(* cases, and the file is the one the process means. Only an open for       *)
(* writing can be truncated through its descriptor.                         *)
(* A directory's node has no Setattr, and a link's gets owners and times.   *)
Setattr(p, n, ask, byFd) ==
    /\ op[p] = Idle
    /\ IF byFd THEN fd[p].file # NoFile /\ n = fd[p].rel /\ (ask.size => fd[p].write)
               ELSE IsKind(n, "file") \/ (IsKind(n, "link") /\ ~ask.mode /\ ~ask.size)
    /\ op' = [op EXCEPT ![p] =
                From([at |-> "idle", rel |-> n, byFd |-> byFd, ask |-> ask,
                      file |-> IF byFd THEN fd[p].file ELSE dir[n],
                      uid |-> ask.uid, gid |-> ask.gid, atime |-> Given, mtime |-> Given], 1)]
    /\ UNCHANGED <<given, dir, remoteFiles, fd, opened>>

Next1(p, q) == op' = [op EXCEPT ![p] = q]

(* The id that was not asked for is taken from a stat of the path. *)
SetattrStat(p) ==
    /\ op[p].at = "chown" /\ Unset \in {op[p].uid, op[p].gid}
    /\ LET q == op[p] f == dir[q.rel] IN
       Next1(p, IF f = NoFile THEN Idle
                ELSE [q EXCEPT !.uid = IF @ = Unset THEN attr[f].uid ELSE @,
                               !.gid = IF @ = Unset THEN attr[f].gid ELSE @])
    /\ UNCHANGED <<given, dir, remoteFiles, fd, opened>>

(* Chown sends the id to be left alone as it came with the request. *)
ChownNoStat(p) ==
    /\ op[p].at = "chown" /\ Unset \notin {op[p].uid, op[p].gid}
    /\ LET q == op[p] IN
       Next1(p, [q EXCEPT !.at = "call", !.uid = chownForward(fs.uidMap, @),
                                         !.gid = chownForward(fs.gidMap, @)])
    /\ UNCHANGED <<given, dir, remoteFiles, fd, opened>>

(* FileSystem.Chown up to its call: both ids are resolved, and one that is  *)
(* to be left alone is filled in from a stat.                               *)
Chown(p) ==
    /\ op[p].at = "chown" /\ Unset \notin {op[p].uid, op[p].gid}
    /\ LET q == op[p] f == dir[q.rel]
           keepU == chownNoop(fs.uidMap, fs.uidMode, q.uid)
           keepG == chownNoop(fs.gidMap, fs.gidMode, q.gid)
       IN Next1(p, IF keepU /\ keepG THEN From(q, 2)
                   ELSE IF (keepU \/ keepG) /\ f = NoFile THEN Idle
                   ELSE [q EXCEPT !.at = "call",
                             !.uid = IF keepU THEN attr[f].uid ELSE chownForward(fs.uidMap, @),
                             !.gid = IF keepG THEN attr[f].gid ELSE chownForward(fs.gidMap, @)])
    /\ UNCHANGED <<given, dir, remoteFiles, fd, opened>>

ChownCall(p) ==
    /\ op[p].at = "call"
    /\ LET q == op[p] f == Follow(q.rel) IN
       IF f = NoFile THEN Next1(p, Idle) /\ attr' = attr
       ELSE Next1(p, From(q, 2)) /\ attr' = [attr EXCEPT ![f].uid = q.uid, ![f].gid = q.gid]
    /\ UNCHANGED <<given, dir, what, data, fd, opened>>

(* By path, whether or not the request came with a descriptor. *)
Chmod(p) ==
    /\ op[p].at = "mode"
    /\ Next1(p, IF Follow(op[p].rel) = NoFile THEN Idle ELSE From(op[p], 3))
    /\ UNCHANGED <<given, dir, remoteFiles, fd, opened>>

(* One of the two times that was not asked for is taken from a stat of the  *)
(* path ...                                                                 *)
TimesStat(p) ==
    /\ op[p].at = "times"
    /\ LET q == op[p] f == dir[q.rel] IN
       Next1(p, IF q.ask.times = "both" THEN [q EXCEPT !.at = "chtimes"]
                ELSE IF f = NoFile THEN Idle
                ELSE [q EXCEPT !.at = "chtimes",
                               !.atime = IF q.ask.times = "mtime" THEN attr[f].atime ELSE @,
                               !.mtime = IF q.ask.times = "atime" THEN attr[f].mtime ELSE @])
    /\ UNCHANGED <<given, dir, remoteFiles, fd, opened>>

(* ... and sent with the rest. *)
Chtimes(p) ==
    /\ op[p].at = "chtimes"
    /\ LET q == op[p] f == Follow(q.rel) IN
       IF f = NoFile THEN Next1(p, Idle) /\ attr' = attr
       ELSE /\ Next1(p, From(q, 4))
            /\ attr' = [attr EXCEPT ![f].atime = q.atime, ![f].mtime = q.mtime]
    /\ UNCHANGED <<given, dir, what, data, fd, opened>>

(* What a change of contents does: its mtime is that of now. *)
Modifies(f, ps) ==
    /\ data' = [data EXCEPT ![f] = @ \cup ps]
    /\ attr' = [attr EXCEPT ![f].mtime = Now]

(* Through the handle if there is one for writing, else by path. *)
Truncate(p) ==
    /\ op[p].at = "size"
    /\ LET q == op[p] IN
       IF q.byFd THEN Modifies(fd[p].file, {p})
       ELSE IF Follow(q.rel) = NoFile \/ what[Follow(q.rel)].kind = "dir" THEN UNCHANGED <<data, attr>>
       ELSE Modifies(Follow(q.rel), {})
    /\ Next1(p, Idle)
    /\ UNCHANGED <<given, dir, what, fd, opened>>

-----------------------------------------------------------------------------
(* Open handles *)

Opens(p, n, f, w) ==
    /\ fd' = [fd EXCEPT ![p] = [rel |-> n, file |-> f, write |-> w]]
    /\ opened' = [opened EXCEPT ![p] = @ \cup {f}]

(* A name that was free is given to an object of its own. *)
Makes(n, f, k) ==
    dir[n] = NoFile /\ dir' = [dir EXCEPT ![n] = f] /\ what' = [what EXCEPT ![f] = k]

(* Lookup, then Open of the path that was looked up. *)
Open(p, n, w) ==
    /\ op[p] = Idle /\ fd[p] = Closed /\ IsKind(n, "file")
    /\ Opens(p, n, dir[n], w)
    /\ UNCHANGED <<given, dir, remoteFiles, op>>

(* Create opens the file the name leads to, made if need be ... *)
Create(p, n) ==
    /\ op[p] = Idle /\ fd[p] = Closed
    /\ \/ IsKind(LeadsTo(n), "file") /\ Opens(p, n, Follow(n), TRUE) /\ UNCHANGED <<dir, what>>
       \/ \E f \in Unused : Makes(LeadsTo(n), f, Kind("file")) /\ Opens(p, n, f, TRUE)
    /\ Next1(p, [at |-> "made"])
    /\ UNCHANGED <<given, attr, data>>

(* ... and then stats the path. If it is gone the handle is given up. *)
CreateStat(p) ==
    /\ op[p].at = "made"
    /\ fd' = IF dir[fd[p].rel] = NoFile THEN [fd EXCEPT ![p] = Closed] ELSE fd
    /\ Next1(p, Idle)
    /\ UNCHANGED <<given, dir, remoteFiles, opened>>

(* Every write opens the path anew. *)
WriteFile(p) ==
    /\ op[p] = Idle /\ fd[p].write /\ IsKind(LeadsTo(fd[p].rel), "file")
    /\ Modifies(Follow(fd[p].rel), {p})
    /\ UNCHANGED <<given, dir, what, fd, opened, op>>

Write(p) ==
    /\ op[p] = Idle /\ fd[p].write
    /\ Modifies(fd[p].file, {p})
    /\ UNCHANGED <<given, dir, what, fd, opened, op>>

Release(p) ==
    /\ op[p] = Idle /\ fd[p] # Closed
    /\ fd' = [fd EXCEPT ![p] = Closed]
    /\ UNCHANGED <<given, dir, remoteFiles, opened, op>>

-----------------------------------------------------------------------------
(* Names: no node learns of the change *)

(* Rename replaces what has the new name, a directory only by a directory,  *)
(* and leaves two names of one file alone.                                  *)
Rename(p, m, n) ==
    /\ "rename" \in use.acts
    /\ op[p] = Idle /\ dir[m] # NoFile /\ dir[m] # dir[n]
    /\ dir[n] # NoFile => (IsKind(m, "dir") <=> IsKind(n, "dir"))
    /\ dir' = [dir EXCEPT ![n] = dir[m], ![m] = NoFile]
    /\ UNCHANGED <<given, remoteFiles, fd, opened, op>>

(* Mkdir, Symlink and Link are followed by a stat of the new name, whose    *)
(* failure is the request's but undoes nothing.                             *)
Mkdir(p, n) ==
    /\ op[p] = Idle /\ "mkdir" \in use.acts
    /\ \E f \in Unused : Makes(n, f, Kind("dir"))
    /\ UNCHANGED <<given, attr, data, fd, opened, op>>

Symlink(p, n, m) ==
    /\ op[p] = Idle /\ "symlink" \in use.acts
    /\ \E f \in Unused : Makes(n, f, [kind |-> "link", target |-> m])
    /\ UNCHANGED <<given, attr, data, fd, opened, op>>

(* The old name is that of the node, a fileNode: not a directory's. *)
Link(p, m, n) ==
    /\ op[p] = Idle /\ "link" \in use.acts
    /\ IsKind(m, "file") \/ IsKind(m, "link")
    /\ Makes(n, dir[m], what[dir[m]])
    /\ UNCHANGED <<given, attr, data, fd, opened, op>>

(* Unlink and Rmdir stat the name to see that it is of their kind ... *)
RemoveStat(p, n) ==
    /\ op[p] = Idle /\ "unlink" \in use.acts /\ dir[n] # NoFile
    /\ Next1(p, [at |-> "remove", rel |-> n])
    /\ UNCHANGED <<given, dir, remoteFiles, fd, opened>>

(* ... and then remove whatever has it. *)
Remove(p) ==
    /\ op[p].at = "remove"
    /\ dir' = [dir EXCEPT ![op[p].rel] = NoFile]
    /\ Next1(p, Idle)
    /\ UNCHANGED <<given, remoteFiles, fd, opened>>

(* A remote process changes an owner. *)
RemoteChown(f, u) ==
    /\ use.remote /\ f \in Named
    /\ attr' = [attr EXCEPT ![f].uid = u]
    /\ UNCHANGED <<given, dir, what, data, fd, opened, op>>

Request(p) ==
    \/ \E n \in use.names, ask \in use.asks, byFd \in BOOLEAN : Setattr(p, n, ask, byFd)
    \/ SetattrStat(p) \/ Chown(p) \/ ChownCall(p) \/ Chmod(p) \/ TimesStat(p) \/ Chtimes(p)
    \/ Truncate(p)
    \/ \E n \in use.names, w \in BOOLEAN : Open(p, n, w)
    \/ \E n \in use.names : Create(p, n) \/ Mkdir(p, n) \/ RemoveStat(p, n)
    \/ CreateStat(p) \/ Write(p) \/ Release(p) \/ Remove(p)
    \/ \E m, n \in use.names : Rename(p, m, n) \/ Symlink(p, n, m) \/ Link(p, m, n)

Moves ==
    \/ \E p \in use.procs : Request(p)
    \/ \E f \in Files, u \in use.owners : RemoteChown(f, u)

(* What has the path of a process's request.                                *)
Its(p) == dir[op[p].rel]

(* A request that has owners or times yet to change. *)
Setting == {"chown", "call", "mode", "times", "chtimes"}
Disturbed(p) ==
    /\ op[p].at \in Setting /\ op'[p] = op[p]
    /\ Its(p)' # Its(p) \/ (Its(p) # NoFile /\ attr'[Its(p)] # attr[Its(p)])

Next ==
    /\ Moves
    /\ touched' = {p \in Procs : op'[p].at \in Setting /\ (p \in touched \/ Disturbed(p))}

Spec == Init /\ [][Next]_vars

-----------------------------------------------------------------------------
(* Properties *)

(* The remote side follows links in every call that changes attributes, but *)
(* not in the stat before it: a request for a link changes what the link    *)
(* leads to, and is left out below.                                         *)
ForFile(p) == IsKind(op[p].rel, "file")

(* "translate remote-reported UIDs to the local view (and back, on chown)": *)
(* after a chown to ids the maps cover, a stat shows those ids.             *)
Shows(es, m, ask, id) == ask # Unset /\ hasRemote(es, ask) => view(es, m, id) = ask
ChownShows ==
    [][\A p \in Procs : op[p].at = "call" /\ op'[p].at # "call" /\ ForFile(p) =>
           LET a == attr'[Its(p)] IN
           /\ Shows(fs.uidMap, fs.uidMode, op[p].ask.uid, a.uid)
           /\ Shows(fs.gidMap, fs.gidMode, op[p].ask.gid, a.gid)]_vars

(* An id a request has to leave as it is: one whose change is a no-op, or    *)
(* one that was not asked for. The latter comes from a stat and is taken     *)
(* for a local id by Chown, so it changes when it is one of the map's.       *)
Misread(es, id) == hasRemote(es, id) /\ mapToRemote(es, id) # id
Kept(es, m, ask, id) == IF ask = Unset THEN ~Misread(es, id) ELSE chownNoop(es, m, ask)

(* The path of a descriptor's request has gone to another file. *)
Strayed(p) == op[p].byFd /\ Its(p) # op[p].file

(* "Override -> preserve the remote-side ownership (no-op for this          *)
(* dimension)": Chown and Chtimes read what they were not asked to change   *)
(* and write it back in another call, whatever the process and others do to *)
(* names, owners and contents. Unless others touched this very file or its  *)
(* name in between, that leaves it as it was, and only the file that the    *)
(* process named, by path or by descriptor, changes, or by a descriptor     *)
(* whose path has strayed the one that has the path.                        *)
SetattrKeeps ==
    [][\A p \in Procs \ touched :
          op[p].at \in {"call", "chtimes"} /\ op'[p].at # op[p].at /\ ForFile(p) =>
           LET ask == op[p].ask a == attr[Its(p)] b == attr'[Its(p)] IN
           /\ Kept(fs.uidMap, fs.uidMode, ask.uid, a.uid) => b.uid = a.uid
           /\ Kept(fs.gidMap, fs.gidMode, ask.gid, a.gid) => b.gid = a.gid
           /\ ask.times \in {"none", "mtime"} => b.atime = a.atime
           /\ ask.times \in {"none", "atime"} => b.mtime = a.mtime
           /\ \A f \in Files : attr'[f] # attr[f] => f = op[p].file \/ (Strayed(p) /\ f = Its(p))]_vars

(* A process writes into files it opened and into no others, whatever was   *)
(* renamed, replaced or removed in the meantime.                            *)
WritesReachOpened == \A f \in Files : \A p \in data[f] : f \in opened[p]
=============================================================================
