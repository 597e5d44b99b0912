---------------------------- MODULE MCWorkspace ----------------------------
(***************************************************************************)
(* Small instances of Workspace for TLC: folders notes and pics, files x, y *)
(***************************************************************************)
EXTENDS Workspace, TLC

CONSTANTS h1, h2, notes, pics, x, y

D  == <<notes>>
E  == <<pics>>
X  == <<x>>
XY == <<x, y>>
DX == <<notes, x>>
DY == <<notes, y>>
EX == <<pics, x>>

PutR(p, n)   == [kind |-> "put", path |-> p, to |-> <<>>, size |-> n]
ShareR(p, n) == [kind |-> "share", path |-> p, to |-> <<>>, size |-> n]
RmR(p)       == [kind |-> "rm", path |-> p, to |-> <<>>, size |-> 0]
RmdirR(p)    == [kind |-> "rmdir", path |-> p, to |-> <<>>, size |-> 0]
MoveR(p, q)  == [kind |-> "move", path |-> p, to |-> q, size |-> 0]
ListR        == [kind |-> "list", path |-> <<>>, to |-> <<>>, size |-> 0]
FolderR(p)   == [kind |-> "folder", path |-> p, to |-> <<>>, size |-> 0]

SmallDirs == {<<>>, D}
SmallFiles == DX :> 1

\* One handler has what can be asked of a folder and its file, of an empty place for
\* the folder to move to and of a file that a folder, empty or not, may be in the way
\* of; the other lists, writes the same files, moves one of them, and meets it.
AllRequests ==
    (h1 :> {ShareR(X, 3), RmR(DX), RmdirR(D), MoveR(D, E), FolderR(X), PutR(XY, 1)}) @@
    (h2 :> {ListR, PutR(DX, 3), PutR(X, 3), MoveR(X, EX)})

\* Where the code does less than its documentation says: two requests at once, one
\* of each handler; a file deleted as if it were a folder; a new file.
PutAgainstDelete == (h1 :> {PutR(DX, 1)}) @@ (h2 :> {RmR(DX)})
FileAsFolder     == (h1 :> {RmdirR(DX)}) @@ (h2 :> {})
NewFile          == (h1 :> {PutR(DY, 3)}) @@ (h2 :> {})
============================================================================
