----------------------------- MODULE Workspace -----------------------------
(***************************************************************************)
(* One account's workspace: the directory tree on disk, its deletion       *)
(* tombstones, and the HTTP handlers that change them (src/workspace.cpp,  *)
(* the shared write of src/share.cpp, fWriteFileAtomic of src/util.cpp).   *)
(*                                                                         *)
(* Handlers run on different IO threads with no lock between them.  Every  *)
(* file-system call and every database statement is one step; a walk over  *)
(* the tree (quota, collection, the scan of remove_all) is one step too.   *)
(*                                                                         *)
(* A path is the sequence of its names.  A temporary file is a file whose  *)
(* last name is the handler that writes it: it is in the tree, is counted, *)
(* listed, collected, moved and deleted like any other file.               *)
(*                                                                         *)
(* Much of the bookkeeping is only right where requests do not get into    *)
(* each other's way, none is cut off or fails half way, and none takes a   *)
(* file for a folder.  unsure holds the paths where requests have met,     *)
(* died, lost a statement, miscounted, been refused a call by the file     *)
(* system after they had removed something, or been mistaken; what the     *)
(* invariants say of the bookkeeping they say of every other path.         *)
(* OneMishap bounds all but the last kind.                                 *)
(***************************************************************************)
EXTENDS Naturals, FiniteSets, SequencesExt

CONSTANTS
    Names,          \* file and folder names
    Handlers,       \* requests that can be in progress at once
    Requests,       \* the requests each handler may be given
    ClientMaxBodySize,  \* the longest body the server accepts
    Quota,          \* workspace_quota_bytes, 0 for none
    Dirs0, Files0,  \* the tree to begin with; Files0 maps paths to sizes
    MayFail,        \* whether the process may die, and the file system and
                    \* the tombstones' statements fail
    OneMishap       \* bound: whether no mishap may follow another

Path == Seq(Names \cup Handlers)
Content == [size : Nat, whole : BOOLEAN]

Kinds == {"put", "share", "rm", "rmdir", "move", "folder", "list"}
Request == [kind : Kinds, path : Seq(Names), to : Seq(Names), size : Nat]
NoRequest == [kind |-> "put", path |-> <<>>, to |-> <<>>, size |-> 0]

ASSUME WorkspaceAssumption ==
    /\ Names \cap Handlers = {}
    /\ IsFiniteSet(Handlers) /\ Handlers # {}
    /\ ClientMaxBodySize \in Nat
    /\ \A h \in Handlers : \A r \in Requests[h] :
           /\ r \in Request
           /\ r.size <= ClientMaxBodySize
           /\ r.path = <<>> <=> r.kind = "list"
           /\ r.kind = "move" => r.to # <<>>
    /\ Quota \in Nat
    /\ <<>> \in Dirs0 /\ DOMAIN Files0 \cap Dirs0 = {}
    /\ \A p \in DOMAIN Files0 \cup Dirs0 :
           p \in Seq(Names) /\ \A n \in 0..(Len(p) - 1) : SubSeq(p, 1, n) \in Dirs0
    /\ IsFiniteSet(DOMAIN Files0) /\ \A p \in DOMAIN Files0 : Files0[p] \in Nat
    /\ MayFail \in BOOLEAN /\ OneMishap \in BOOLEAN

VARIABLES
    file,      \* the regular files: a function from their paths to contents
    dirs,      \* the directories, the root <<>> among them
    tomb,      \* deleted_files, the tombstoned paths
    pc,        \* where each handler is
    req,       \* the request it serves
    inside,    \* the paths it still has to tombstone; or has listed
    scan,      \* what remove_all has left to remove, the walk left to visit;
               \* a moved path in "dest"
    wasDir,    \* the move is of a directory
    ever,      \* documents that have existed (history)
    untold,    \* documents each handler changed and did not announce (history)
    steady,    \* documents that have not moved since a listing began (history)
    unsure,    \* where a mishap has been (history)
    unweighed  \* documents let in unchecked since the tree was last counted,
               \* kept until a mishap (history)

tree     == <<file, dirs>>
handling == <<pc, req, inside, scan, wasDir>>
changes  == <<ever, untold, steady>>
reckoned == <<unsure, unweighed>>
history  == <<changes, reckoned>>
vars     == <<tree, tomb, handling, history>>

Phases == {"idle", "exists", "quota", "parents", "temp", "fill", "replace", "fallback",
           "again", "clear", "remove", "collect", "removeAll", "removing", "look",
           "rename", "record", "dest", "folder", "notify", "walk"}

IsTemp(p) == p # <<>> /\ Last(p) \in Handlers
IsDoc(p) == ~IsTemp(p)
Occupied(d) == \E q \in DOMAIN file \cup dirs : IsStrictPrefix(d, q)
fDirSizeBytes == SumFunction([p \in DOMAIN file |-> file[p].size])

TypeOK ==
    /\ \A p \in DOMAIN file : p \in Path /\ file[p] \in Content
    /\ \A d \in dirs : d \in Seq(Names)
    /\ <<>> \in dirs
    /\ \A p \in DOMAIN file \cup (dirs \ {<<>>}) : Front(p) \in dirs
    /\ DOMAIN file \cap dirs = {}
    /\ \A p \in tomb : p \in Path
    /\ pc \in [Handlers -> Phases]
    /\ \A h \in Handlers : req[h] \in Requests[h] \cup {NoRequest}
    /\ \A h \in Handlers : \A p \in inside[h] \cup scan[h] : p \in Path
    /\ wasDir \in [Handlers -> BOOLEAN]
    /\ \A h \in Handlers : steady[h] \subseteq DOMAIN file
    /\ \A p \in unsure \cup unweighed : p \in Path

Init ==
    /\ file = [p \in DOMAIN Files0 |-> [size |-> Files0[p], whole |-> TRUE]]
    /\ dirs = Dirs0
    /\ tomb = {}
    /\ pc = [h \in Handlers |-> "idle"]
    /\ req = [h \in Handlers |-> NoRequest]
    /\ inside = [h \in Handlers |-> {}]
    /\ scan = [h \in Handlers |-> {}]
    /\ wasDir = [h \in Handlers |-> FALSE]
    /\ ever = DOMAIN Files0
    /\ untold = [h \in Handlers |-> {}]
    /\ steady = [h \in Handlers |-> {}]
    /\ unsure = {}
    /\ unweighed = {}
----------------------------------------------------------------------------
(* The file system (external): what the calls of std::filesystem do *)

Under(d) == {q \in DOMAIN file : IsStrictPrefix(d, q)}
Without(p) == [q \in DOMAIN file \ {p} |-> file[q]]
With(p, c) == [q \in DOMAIN file \cup {p} |-> IF q = p THEN c ELSE file[q]]

\* create_directories(d): every missing ancestor, up to a file in the way.
Blocked(d) == \E n \in 0..Len(d) : SubSeq(d, 1, n) \in DOMAIN file
Created(d) == {SubSeq(d, 1, n) : n \in {m \in 0..Len(d) : ~Blocked(SubSeq(d, 1, m))}}

\* remove(p): a file, or a directory that is empty.
Removable(p) == p \in DOMAIN file \/ (p \in dirs /\ ~Occupied(p))

\* rename(a, b): a file onto a file or nothing, a directory onto an empty
\* directory or nothing, into an existing directory, never into itself.
CanRename(a, b) ==
    /\ Front(b) \in dirs
    /\ \/ a \in DOMAIN file /\ b \notin dirs
       \/ a \in dirs /\ b \notin DOMAIN file /\ ~IsStrictPrefix(a, b)
          /\ (a = b \/ b \notin dirs \/ ~Occupied(b))

\* Where q is after rename(a, b), and where r was before it; what stood at b is
\* gone (Stands: the given paths but what stood there).
Moved(a, b, q) == IF IsPrefix(a, q) THEN b \o SubSeq(q, Len(a) + 1, Len(q)) ELSE q
Renamed(a, b) ==
    LET moved == {q \in DOMAIN file : IsPrefix(a, q)}
        others == {q \in DOMAIN file : ~IsPrefix(a, q) /\ ~IsPrefix(b, q)}
    IN [r \in {Moved(a, b, q) : q \in moved} \cup others |-> file[Moved(b, a, r)]]
Stands(a, b, paths) == {q \in paths : IsPrefix(a, q) \/ ~IsPrefix(b, q)}

\* Handler h leaves the tree as f and d, having changed the given documents.
SetTree(h, f, d, docs) ==
    /\ file' = f
    /\ dirs' = d
    /\ ever' = ever \cup {p \in DOMAIN f : IsDoc(p)}
    /\ untold' = [untold EXCEPT ![h] = @ \cup {p \in docs : IsDoc(p)}]
    /\ steady' = [g \in Handlers |-> steady[g] \cap DOMAIN f]
----------------------------------------------------------------------------
(* Mishaps *)

Writes(r) == r.kind \in {"put", "share"}
Roots(r) == IF r.kind = "list" THEN {} ELSE IF r.kind = "move" THEN {r.path, r.to} ELSE {r.path}

\* Two requests about one entry that are not both a write, or about a folder and
\* what is in it, be it a folder one write makes where the other makes a file.
Clash(r, s) ==
    \E a \in Roots(r), b \in Roots(s) :
        /\ IsPrefix(a, b) \/ IsPrefix(b, a)
        /\ ~(Writes(r) /\ Writes(s) /\ a = b)

Untroubled == unsure = {}
MishapMayCome == OneMishap => Untroubled
Sure(p) == \A a \in unsure : ~IsPrefix(a, p)

\* What happens leaves something wrong at the given paths, if any.
Trouble(paths) ==
    /\ unsure' = unsure \cup paths
    /\ unweighed' = IF unsure' = {} THEN unweighed ELSE {}

\* A call of the file system or the database fails for a reason of its own ...
MayBeRefused == MayFail /\ MishapMayCome

\* ... and leaves something wrong at the given paths.
Mishap(paths) == MayBeRefused /\ Trouble(paths)
----------------------------------------------------------------------------
At(h, phase) == pc[h] = phase
Goto(h, phase) == pc' = [pc EXCEPT ![h] = phase]

\* The handler answers, successfully or not, and its thread is free.
Done(h) ==
    /\ pc' = [pc EXCEPT ![h] = "idle"]
    /\ req' = [req EXCEPT ![h] = NoRequest]
    /\ inside' = [inside EXCEPT ![h] = {}]
    /\ scan' = [scan EXCEPT ![h] = {}]
    /\ wasDir' = [wasDir EXCEPT ![h] = FALSE]

\* Handler h leaves its own record alone but for where it is.
Step(h, phase) == Goto(h, phase) /\ UNCHANGED <<req, inside, scan, wasDir>>

FirstPhase == [put |-> "quota", share |-> "exists", rm |-> "remove",
               rmdir |-> "collect", move |-> "look", folder |-> "folder", list |-> "walk"]

\* A request arrives: authenticated, its path normalised by fSafeRelPath, its
\* body within the server's limit (and a PUT's within fMaxWorkFileBytes), a
\* share's permission and file type accepted.
\* The name of a temporary file is never used again.
Take(h, r) ==
    LET met == {g \in Handlers : ~At(g, "idle") /\ Clash(r, req[g])}
    IN /\ At(h, "idle")
       /\ Writes(r) => \A p \in DOMAIN file : IsDoc(p) \/ Last(p) # h
       /\ met # {} => MishapMayCome
       /\ req' = [req EXCEPT ![h] = r]
       /\ Goto(h, FirstPhase[r.kind])
       /\ scan' = [scan EXCEPT ![h] = IF r.kind = "list" THEN {<<>>} ELSE {}]
       /\ steady' = [steady EXCEPT ![h] =
                        IF r.kind = "list" THEN {p \in DOMAIN file : IsDoc(p)} ELSE {}]
       /\ Trouble(IF met = {} THEN {} ELSE Roots(r) \cup UNION {Roots(req[g]) : g \in met})
       /\ UNCHANGED <<tree, tomb, inside, wasDir, ever, untold>>

\* A call that changes the tree is refused by the file system for a reason of its
\* own, has changed nothing, and ends the request in an error.
Refused(h) ==
    /\ MayBeRefused
    /\ pc[h] \in {"temp", "remove", "removeAll", "rename", "folder"}
    /\ Done(h)
    /\ UNCHANGED <<tree, tomb, history>>

\* Mutant: a grantee's write is not refused when the file is gone.
ExistsUnchecked(h) ==
    /\ At(h, "exists")
    /\ Step(h, "quota")
    /\ UNCHANGED <<tree, tomb, history>>

\* fWriteThrough: a grantee may only write a file that is there.
Exists(h) ==
    /\ At(h, "exists")
    /\ IF req[h].path \in DOMAIN file THEN Step(h, "quota") ELSE Done(h)
    /\ UNCHANGED <<tree, tomb, history>>

\* Mutant: the incoming file alone is held against the quota.
HasRoomAlone(h) == Quota = 0 \/ req[h].size <= Quota

\* fCheckQuota: is_regular_file sets the error code for a path where there is
\* nothing, and on an error the check is left: a new file is not held against the
\* quota at all.  Shrinking is always allowed.
IsNew(h) == req[h].path \notin DOMAIN file \cup dirs
Existing(h) == IF req[h].path \in DOMAIN file THEN file[req[h].path].size ELSE 0
Grows(h) == ~IsNew(h) /\ req[h].size > Existing(h)
HasRoom(h) ==
    Quota # 0 /\ Grows(h) => fDirSizeBytes + req[h].size - Existing(h) <= Quota

\* A write that grows a file and is let in has had the whole tree counted.
CheckQuota(h) ==
    /\ At(h, "quota")
    /\ IF HasRoom(h)
         THEN /\ Step(h, "parents")
              /\ unweighed' = IF Grows(h) THEN {}
                               ELSE IF IsNew(h) /\ Untroubled THEN unweighed \cup {req[h].path}
                               ELSE unweighed
         ELSE Done(h) /\ UNCHANGED unweighed
    /\ UNCHANGED <<tree, tomb, changes, unsure>>

\* fCheckQuota looks at the target and then walks the tree (fDirSizeBytes): where
\* another handler replaces, moves or removes entries meanwhile it may count too
\* little (of a target that has shrunk, of what has moved behind the walk, or as
\* a folder goes and ends it), and the write is let in.
CountTorn(h) ==
    /\ At(h, "quota")
    /\ Quota # 0 /\ MishapMayCome
    /\ \E g \in Handlers :
           pc[g] \in {"replace", "fallback", "again", "remove", "removing", "rename"}
    /\ Step(h, "parents")
    /\ Trouble(Roots(req[h]))
    /\ UNCHANGED <<tree, tomb, changes>>

\* create_directories of the parent, its error ignored: of the written file in
\* fWriteFileAtomic, of the destination in a move.
Parents(h) ==
    LET r == req[h]
    IN /\ At(h, "parents")
       /\ dirs' = dirs \cup Created(Front(IF r.kind = "move" THEN r.to ELSE r.path))
       /\ Step(h, IF r.kind = "move" THEN "rename" ELSE "temp")
       /\ UNCHANGED <<file, tomb, history>>
----------------------------------------------------------------------------
(* fWriteFileAtomic *)

\* Mutant: every writer in a folder uses the same temporary file.
TempShared(h) == Append(Front(req[h].path), CHOOSE g \in Handlers : TRUE)

\* The temporary file's name is unique to the writer.
Temp(h) == Append(Front(req[h].path), h)

\* The temporary file is opened (else the write throws) and partly written.
OpenTemp(h) ==
    /\ At(h, "temp")
    /\ IF Front(req[h].path) \in dirs
         THEN /\ SetTree(h, With(Temp(h), [size |-> 0, whole |-> FALSE]), dirs, {})
              /\ Step(h, "fill")
         ELSE Done(h) /\ UNCHANGED <<tree, changes>>
    /\ UNCHANGED <<tomb, reckoned>>

\* The content is written and flushed; or that fails and the write throws
\* (FillFails).  The stream is open: the content reaches the file also where its
\* folder has been moved to, or nothing if it has been removed.
FillTemp(h) ==
    /\ At(h, "fill")
    /\ SetTree(h, [p \in DOMAIN file |-> IF IsTemp(p) /\ Last(p) = h
                                           THEN [size |-> req[h].size, whole |-> TRUE]
                                           ELSE file[p]], dirs, {})
    /\ Step(h, "replace")
    /\ UNCHANGED <<tomb, reckoned>>

\* Mutant: the write throws and leaves the temporary file.
FillFailsUntidy(h) ==
    /\ At(h, "fill")
    /\ Done(h)
    /\ UNCHANGED <<tree, tomb, history>>

\* The temporary file is removed, its error ignored: where that is refused the
\* file stays.
DropTemp(h) ==
    \/ SetTree(h, Without(Temp(h)), dirs, {}) /\ UNCHANGED reckoned
    \/ Mishap(Roots(req[h])) /\ UNCHANGED <<tree, changes>>

FillFails(h) ==
    /\ At(h, "fill")
    /\ DropTemp(h)
    /\ Done(h)
    /\ UNCHANGED tomb

\* The temporary file is renamed over the target.
Put(h) ==
    /\ CanRename(Temp(h), req[h].path)
    /\ SetTree(h, Renamed(Temp(h), req[h].path), dirs, {req[h].path})
    /\ Step(h, IF req[h].kind = "put" THEN "clear" ELSE "notify")

\* It may be refused for what is in the way or for the file system's own reasons.
Replace(h) ==
    /\ At(h, "replace")
    /\ \/ Put(h)
       \/ /\ MayBeRefused \/ ~CanRename(Temp(h), req[h].path)
          /\ Step(h, "fallback")
          /\ UNCHANGED <<tree, changes>>
    /\ UNCHANGED <<tomb, reckoned>>

\* Then the target is removed, whatever it is by now, its error ignored, ...
RemoveTarget(h) ==
    LET p == req[h].path
    IN /\ At(h, "fallback")
       /\ \/ Removable(p) /\ SetTree(h, Without(p), dirs \ {p}, DOMAIN file \cap {p})
          \/ (MayBeRefused \/ ~Removable(p)) /\ UNCHANGED <<tree, changes>>
       /\ Step(h, "again")
       /\ UNCHANGED <<tomb, reckoned>>

\* ... and the rename tried again, or the write gives up, removes the temporary
\* file and throws.  If nothing was in the way of the second rename, the document
\* removed for it is lost: it gets no tombstone and nobody is told.
ReplaceAgain(h) ==
    /\ At(h, "again")
    /\ \/ Put(h) /\ UNCHANGED reckoned
       \/ /\ ~CanRename(Temp(h), req[h].path)
          /\ DropTemp(h)
          /\ Done(h)
       \/ /\ Mishap(untold[h])
          /\ SetTree(h, Without(Temp(h)), dirs, {})
          /\ Done(h)
    /\ UNCHANGED tomb

\* A statement of fRecordTombstone or fClearTombstone fails, and nobody is told.
Swallowed(h) == Mishap(Roots(req[h])) /\ UNCHANGED tomb

\* fClearTombstone of the written path, in PUT only.
ClearTombstone(h) ==
    /\ At(h, "clear")
    /\ \/ tomb' = tomb \ {req[h].path} /\ UNCHANGED reckoned
       \/ Swallowed(h)
    /\ Step(h, "notify")
    /\ UNCHANGED <<tree, changes>>
----------------------------------------------------------------------------
(* DELETE /api/workspace/entry *)

\* isDir=false: one remove.
RemoveOne(h) ==
    LET p == req[h].path
    IN /\ At(h, "remove")
       /\ IF Removable(p)
            THEN /\ SetTree(h, Without(p), dirs \ {p}, DOMAIN file \cap {p})
                 /\ inside' = [inside EXCEPT ![h] = {p}]
                 /\ Goto(h, "record")
                 /\ UNCHANGED <<req, scan, wasDir>>
            ELSE Done(h) /\ UNCHANGED <<tree, changes>>
       /\ UNCHANGED <<tomb, reckoned>>

\* isDir=true: fCollectFilesUnder comes first.  It finds nothing where the path
\* is that of a file, which remove_all will remove all the same: a request that
\* takes a file for a folder leaves no tombstone ...
Collect(h) ==
    LET p == req[h].path
    IN /\ At(h, "collect")
       /\ inside' = [inside EXCEPT ![h] = Under(p)]
       /\ Trouble({p} \cap DOMAIN file)
       /\ Goto(h, "removeAll")
       /\ UNCHANGED <<tree, tomb, req, scan, wasDir, changes>>

\* ... when it looks again at what is there (nothing is a 404) ...
RemoveAll(h) ==
    LET p == req[h].path
        found == {q \in DOMAIN file \cup dirs : IsPrefix(p, q)}
    IN /\ At(h, "removeAll")
       /\ IF found # {}
            THEN /\ scan' = [scan EXCEPT ![h] = found]
                 /\ Goto(h, "removing")
                 /\ UNCHANGED <<req, inside, wasDir>>
            ELSE Done(h)
       /\ UNCHANGED <<tree, tomb, history>>

\* ... and removes it bottom up.  A directory that has got a new entry in the
\* meantime makes it fail, and so does an entry the file system will not remove:
\* the request ends in a 404 and what it has removed is lost, without a tombstone
\* and without an announcement.
RemoveEntry(h) ==
    /\ At(h, "removing")
    /\ \/ /\ \E p \in scan[h] :
               /\ \A q \in scan[h] : Len(q) <= Len(p)
               /\ IF p \in dirs /\ Occupied(p)
                    THEN Done(h) /\ UNCHANGED <<tree, changes>>
                    ELSE /\ SetTree(h, Without(p), dirs \ {p}, DOMAIN file \cap {p})
                         /\ scan' = [scan EXCEPT ![h] = @ \ {p}]
                         /\ Goto(h, IF scan[h] = {p} THEN "record" ELSE "removing")
                         /\ UNCHANGED <<req, inside, wasDir>>
          /\ UNCHANGED reckoned
       \/ /\ Mishap(untold[h])
          /\ Done(h)
          /\ UNCHANGED <<tree, changes>>
    /\ UNCHANGED tomb
----------------------------------------------------------------------------
(* POST /api/workspace/move *)

\* Mutant: a moved directory counts as one path.
LookAtOne(h) ==
    LET p == req[h].path
    IN /\ At(h, "look")
       /\ wasDir' = [wasDir EXCEPT ![h] = p \in dirs]
       /\ inside' = [inside EXCEPT ![h] = {p}]
       /\ Goto(h, "parents")
       /\ UNCHANGED <<tree, tomb, req, scan, history>>

\* A directory is moved with the files collected here.
Look(h) ==
    LET p == req[h].path
    IN /\ At(h, "look")
       /\ wasDir' = [wasDir EXCEPT ![h] = p \in dirs]
       /\ inside' = [inside EXCEPT ![h] = IF p \in dirs THEN Under(p) ELSE {p}]
       /\ Goto(h, "parents")
       /\ UNCHANGED <<tree, tomb, req, scan, history>>

\* Mutant: the files are moved and their directories are not.
RenameFiles(h) ==
    LET a == req[h].path
        b == req[h].to
        moved == {q \in DOMAIN file : IsPrefix(a, q)}
    IN /\ At(h, "rename")
       /\ IF CanRename(a, b)
            THEN /\ unweighed' = {Moved(a, b, q) : q \in Stands(a, b, unweighed)}
                 /\ SetTree(h, Renamed(a, b), dirs, moved \cup {Moved(a, b, q) : q \in moved})
                 /\ Step(h, "record")
            ELSE Done(h) /\ UNCHANGED <<tree, changes, unweighed>>
       /\ UNCHANGED <<tomb, unsure>>

Rename(h) ==
    LET a == req[h].path
        b == req[h].to
        moved == {q \in DOMAIN file : IsPrefix(a, q)}
    IN /\ At(h, "rename")
       /\ IF CanRename(a, b)
            THEN /\ unweighed' = {Moved(a, b, q) : q \in Stands(a, b, unweighed)}
                 /\ SetTree(h, Renamed(a, b), {Moved(a, b, q) : q \in dirs},
                            moved \cup {Moved(a, b, q) : q \in moved})
                 /\ Step(h, "record")
            ELSE Done(h) /\ UNCHANGED <<tree, changes, unweighed>>
       /\ UNCHANGED <<tomb, unsure>>

\* fRecordTombstone of each collected path in turn; a move also clears the
\* tombstone of the path's new place.
Record(h) ==
    /\ At(h, "record")
    /\ \E p \in inside[h] :
         /\ \/ tomb' = tomb \cup {p} /\ UNCHANGED reckoned
            \/ Swallowed(h)
         /\ inside' = [inside EXCEPT ![h] = @ \ {p}]
         /\ IF req[h].kind = "move"
              THEN scan' = [scan EXCEPT ![h] = {p}] /\ Goto(h, "dest")
              ELSE UNCHANGED <<pc, scan>>
    /\ UNCHANGED <<tree, req, wasDir, changes>>

ClearDest(h) ==
    /\ At(h, "dest")
    /\ \/ tomb' = tomb \ {Moved(req[h].path, req[h].to, p) : p \in scan[h]} /\ UNCHANGED reckoned
       \/ Swallowed(h)
    /\ scan' = [scan EXCEPT ![h] = {}]
    /\ Goto(h, "record")
    /\ UNCHANGED <<tree, req, inside, wasDir, changes>>

Recorded(h) ==
    /\ At(h, "record")
    /\ inside[h] = {}
    /\ Step(h, "notify")
    /\ UNCHANGED <<tree, tomb, history>>
----------------------------------------------------------------------------
\* POST /api/workspace/folder.
Folder(h) ==
    LET d == req[h].path
    IN /\ At(h, "folder")
       /\ dirs' = dirs \cup Created(d)
       /\ IF Blocked(d) THEN Done(h) ELSE Step(h, "notify")
       /\ UNCHANGED <<file, tomb, history>>

\* Mutant: a move announces the place it left and not the place it went to.
NotifyFrom(h) ==
    LET r == req[h]
        everything == r.kind \in {"rmdir", "folder"} \/ wasDir[h]
    IN /\ At(h, "notify")
       /\ untold' = [untold EXCEPT ![h] = IF everything THEN {} ELSE @ \ {r.path}]
       /\ Done(h)
       /\ UNCHANGED <<tree, tomb, ever, steady, reckoned>>

\* fNotifyChanges: a list of paths, or none ("look at everything") after a
\* folder operation; then the answer.
Notify(h) ==
    LET r == req[h]
        everything == r.kind \in {"rmdir", "folder"} \/ wasDir[h]
        told == IF r.kind = "move" THEN {r.path, r.to} ELSE {r.path}
    IN /\ At(h, "notify")
       /\ untold' = [untold EXCEPT ![h] = IF everything THEN {} ELSE @ \ told]
       /\ Done(h)
       /\ UNCHANGED <<tree, tomb, ever, steady, reckoned>>

----------------------------------------------------------------------------
(* GET /api/workspace: fWalkWorkDir *)

\* Mutant: the walk ends at a folder that is gone.
WalkShort(h) ==
    /\ At(h, "walk")
    /\ \E d \in scan[h] :
         /\ \A e \in scan[h] : Len(e) <= Len(d)
         /\ scan' = [scan EXCEPT ![h] =
                       IF d \in dirs THEN (@ \ {d}) \cup {e \in dirs : e # <<>> /\ Front(e) = d}
                       ELSE {}]
         /\ inside' = [inside EXCEPT ![h] = @ \cup {p \in DOMAIN file : Front(p) = d}]
    /\ UNCHANGED <<tree, tomb, pc, req, wasDir, history>>

\* The deepest folder that is due is read: its files are listed (dotfiles are
\* not documents), its folders are due next.  One that is gone by now makes the
\* whole listing a 404.
Walk(h) ==
    /\ At(h, "walk")
    /\ \E d \in scan[h] :
         /\ \A e \in scan[h] : Len(e) <= Len(d)
         /\ IF d \in dirs
              THEN /\ scan' = [scan EXCEPT ![h] = (@ \ {d}) \cup {e \in dirs : e # <<>> /\ Front(e) = d}]
                   /\ inside' = [inside EXCEPT ![h] = @ \cup {p \in DOMAIN file : Front(p) = d}]
                   /\ UNCHANGED <<pc, req, wasDir>>
              ELSE Done(h)
    /\ UNCHANGED <<tree, tomb, history>>

\* The listing is answered.
Listed(h) ==
    /\ At(h, "walk")
    /\ scan[h] = {}
    /\ Done(h)
    /\ UNCHANGED <<tree, tomb, history>>
----------------------------------------------------------------------------
\* The process dies and starts again: only the disk and the database survive.
\* Every client reconnects and is asked to catch up (module SyncHub).
Crash ==
    LET cut == {h \in Handlers : ~At(h, "idle")}
    IN /\ MayFail /\ MishapMayCome
       /\ cut # {}
       /\ pc' = [h \in Handlers |-> "idle"]
       /\ req' = [h \in Handlers |-> NoRequest]
       /\ inside' = [h \in Handlers |-> {}]
       /\ scan' = [h \in Handlers |-> {}]
       /\ wasDir' = [h \in Handlers |-> FALSE]
       /\ untold' = [h \in Handlers |-> {}]
       /\ steady' = [h \in Handlers |-> {}]
       /\ Trouble(UNION {Roots(req[h]) : h \in cut})
       /\ UNCHANGED <<tree, tomb, ever>>

HandlerStep(h) ==
    \/ Refused(h) \/ Exists(h) \/ CheckQuota(h) \/ CountTorn(h) \/ Parents(h)
    \/ OpenTemp(h) \/ FillTemp(h) \/ FillFails(h) \/ Replace(h) \/ RemoveTarget(h)
    \/ ReplaceAgain(h) \/ ClearTombstone(h)
    \/ RemoveOne(h) \/ Collect(h) \/ RemoveAll(h) \/ RemoveEntry(h)
    \/ Look(h) \/ Rename(h) \/ Record(h) \/ ClearDest(h) \/ Recorded(h)
    \/ Folder(h) \/ Notify(h) \/ Walk(h) \/ Listed(h)

Next ==
    \/ \E h \in Handlers : \E r \in Requests[h] : Take(h, r)
    \/ \E h \in Handlers : HandlerStep(h)
    \/ Crash

Spec == Init /\ [][Next]_vars
----------------------------------------------------------------------------
(* Properties *)

AtRest == \A h \in Handlers : pc[h] = "idle"

\* A live file has no tombstone once the requests are done: "a stale tombstone
\* would tell sync clients to delete what the user just (re)created" (PUT and
\* move in workspace.cpp).
NoStaleTombstone == AtRest => tomb \cap DOMAIN file = {}

\* Every document that was there and is not any more has a tombstone, so that a
\* client that still holds it does not bring it back (migration 0007).
DeletionsRemembered == AtRest => ever \subseteq DOMAIN file \cup tomb

\* The two hold of every path but those of requests that have met (Clash), were cut
\* off by a crash or lost a tombstone's statement; of documents a write or a
\* DELETE has removed before the file system refused it the rest (the second
\* rename, an entry of remove_all); of a file that was deleted as if it were a
\* folder; and of a write whose temporary file could not be removed or whose quota
\* was miscounted, which are not known to do harm.  No failure of one request
\* reaches another's documents.
TombstonesRight ==
    AtRest => \A p \in ever : Sure(p) => (p \in tomb <=> p \notin DOMAIN file)

\* Whatever a request changed it has announced by the time it is answered, in
\* success or in an error (README, "changes"), but at the paths named above: there
\* documents can go without a word, as when the second rename is refused.
ChangesAnnounced == \A h \in Handlers : At(h, "idle") => \A p \in untold[h] : ~Sure(p)

\* "Per-account workspace ceiling; registration is open, so without a cap any
\* account could fill the disk" (main.cpp:155-156): the account's files stay within
\* the quota, or what was there before it was set.
QuotaIsCeiling ==
    AtRest /\ Quota # 0 => fDirSizeBytes <= Max({Quota, SumFunction(Files0)})

\* All files but the ones let in as new since the tree was last counted stay within
\* it, or over it by what the other handlers were let in for meanwhile: nothing is
\* reserved (fCheckQuota).  New ones are let in unchecked, whatever their number;
\* the next write that grows a file counts them.  (A torn count, like the other
\* mishaps, voids it.)
WithinQuota ==
    AtRest /\ Quota # 0 /\ Untroubled =>
        SumFunction([p \in DOMAIN file \ unweighed |-> file[p].size])
            <= Max({Quota, SumFunction(Files0)})
               + (Cardinality(Handlers) - 1) * ClientMaxBodySize

\* No document is ever half written, whatever runs at the same time and
\* wherever the process dies: only temporary files are (fWriteFileAtomic).
DocumentsWhole == \A p \in DOMAIN file : IsDoc(p) => file[p].whole

\* A temporary file belongs to a write that is under way, unless one was cut off,
\* had its folder moved away or could not remove it; nothing is left for the
\* listing to show or the quota to count (fWriteFileAtomic).
TempsHaveWriters ==
    Untroubled => \A p \in DOMAIN file : IsTemp(p) =>
        pc[Last(p)] \in {"fill", "replace", "fallback", "again"} /\ p = Temp(Last(p))

\* What a grantee's write changes is a document the owner has had at that path
\* ("Grantees can edit existing files but not create new ones", share.cpp:217-219).
\* It need not be there any more: one that the owner deletes or moves away between
\* the check (237) and the write (244) is brought back, and with the tombstone that
\* the deletion leaves, which no shared write clears.
GranteesAddNothing ==
    [][\A h \in Handlers : req[h].kind = "share" => untold'[h] \subseteq untold[h] \cup ever]_vars

\* A document that stays where it is is in every listing that is answered,
\* whatever else is changed during the walk: "anything hidden here but present
\* on disk looks deleted" (fWalkWorkDir).
ListingsComplete ==
    \A h \in Handlers : At(h, "walk") /\ scan[h] = {} => steady[h] \subseteq inside[h]
============================================================================
