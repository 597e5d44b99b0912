------------------------------ MODULE Sharing ------------------------------
(***************************************************************************)
(* Shares with other accounts, links for anyone, and comments              *)
(* (src/share.cpp): three tables, and handlers that look at a table, then  *)
(* at the owner's files, then write a table.                               *)
(*                                                                         *)
(* Paths are sequences of names; that a sub path cannot leave the shared   *)
(* folder is the business of PathRules.  What a write does to the file is  *)
(* in Workspace, what a watch is told in SyncHub, the lid on anonymous     *)
(* comments in RateLimiter.                                                *)
(***************************************************************************)
EXTENDS Naturals, Sequences, FiniteSets

CONSTANTS
    Users,       \* the accounts
    Owners,      \* those who have files, and share them
    Names,       \* what files and folders are called
    Trees,       \* bound: the shapes an owner's files take
    Shared,      \* bound: the paths that owners share
    Handlers,    \* requests in progress at once
    MaxMinted    \* bound: how many random ids are drawn

Paths == {<<n>> : n \in Names} \cup (Names \X Names)

ASSUME SharingAssumption ==
    /\ Owners \subseteq Users
    /\ Trees \subseteq [Paths -> {"none", "file", "folder"}]
    /\ \A t \in Trees, p \in Paths : Len(p) = 2 /\ t[p] # "none" => t[<<p[1]>>] = "folder"
    /\ Shared \subseteq Paths
    /\ MaxMinted \in Nat

Perms == {"view", "comment", "edit"}

VARIABLES
    tree,       \* the files of each owner: what every path is
    shares,     \* the table: from an id to owner, grantee, path, kind and level
    links,      \* the table: the same without a grantee; the id is the token
    comments,   \* the table: from an id to owner and path
    doing,      \* what each handler has looked at and is about to do
    minted,     \* how many random ids there are
    answered,   \* history: the shares that owners were told of and nobody ended
    allowed     \* history: what the user or the token of each request under way
                \* had been granted when it came

vars == <<tree, shares, links, comments, doing, minted, answered, allowed>>

Idle == [step |-> "idle"]
Minted == 1..minted
Nobody == [i \in {} |-> Idle]

Init ==
    /\ tree \in [Owners -> Trees]
    /\ shares = Nobody /\ links = Nobody /\ comments = Nobody
    /\ doing = [h \in Handlers |-> Idle]
    /\ minted = 0
    /\ answered = {}
    /\ allowed = [h \in Handlers |-> {}]

At(h, step) == doing[h].step = step
Goto(h, next) == doing' = [doing EXCEPT ![h] = next]
With(table, id, row) == [i \in DOMAIN table \cup {id} |-> IF i = id THEN row ELSE table[i]]
Without(table, id) == [i \in DOMAIN table \ {id} |-> table[i]]

\* The order of enum Perm.
Level(perm) == CASE perm = "view" -> 0 [] perm = "comment" -> 1 [] perm = "edit" -> 2

\* What one may do with an entry: read, stat, list or watch it; write it; comment
\* on it.  And the sub paths that are sent with a folder share or link.
Acts == {"see", "write", "comment"}
Subs == {<<>>} \cup {<<n>> : n \in Names}

\* What an owner has granted, by the meaning of the tables: to everybody their
\* own files, to a grantee or a token at least this level on an entry or on the
\* folder it is in.
Covers(row, owner, path, perm) ==
    /\ row.owner = owner
    /\ Level(row.perm) >= Level(perm)
    /\ \/ path = row.path
       \/ row.is_dir /\ Len(path) > Len(row.path) /\ SubSeq(path, 1, Len(row.path)) = row.path
Granted(by, owner, path, perm) ==
    \/ by = owner
    \/ \E s \in DOMAIN shares : shares[s].grantee = by /\ Covers(shares[s], owner, path, perm)
    \/ by \in DOMAIN links /\ Covers(links[by], owner, path, perm)
Needs(act) == CASE act = "write" -> "edit" [] act = "comment" -> "comment" [] OTHER -> "view"

\* The owner, the path and the act of a request, and all that a user or a token
\* is granted.
Reachable == {p \o sub : p \in Paths, sub \in Subs}
Targets == Owners \X Reachable \X Acts
AllowedTo(by) == {t \in Targets : Granted(by, t[1], t[2], Needs(t[3]))}
----------------------------------------------------------------------------
(* Sharing with an account *)

\* POST /shares up to the first write: the entry exists and is what the owner
\* says it is (fRequireEntryExists), and the grantee is somebody else.
Share(h, owner, grantee, path, is_dir, perm) ==
    /\ At(h, "idle")
    /\ tree[owner][path] = IF is_dir THEN "folder" ELSE "file"
    /\ grantee # owner
    /\ Goto(h, [step |-> "upsert", owner |-> owner, grantee |-> grantee,
                path |-> path, is_dir |-> is_dir, perm |-> perm])
    /\ UNCHANGED <<tree, shares, links, comments, minted, answered, allowed>>

\* The rows of an owner, a grantee and a path: the table's UNIQUE constraint.
Conflicts(d) ==
    {s \in DOMAIN shares : <<shares[s].owner, shares[s].grantee, shares[s].path>>
                         = <<d.owner, d.grantee, d.path>>}
Row(d) == [owner |-> d.owner, grantee |-> d.grantee, path |-> d.path,
           is_dir |-> d.is_dir, perm |-> d.perm]

AfterUpsert(d) == [step |-> "read back", owner |-> d.owner, grantee |-> d.grantee, path |-> d.path]

\* Mutant: INSERT OR REPLACE.
UpsertReplace(h) ==
    /\ At(h, "upsert")
    /\ minted < MaxMinted
    /\ minted' = minted + 1
    /\ shares' = [i \in (DOMAIN shares \ Conflicts(doing[h])) \cup {minted + 1} |->
           IF i = minted + 1 THEN Row(doing[h]) ELSE shares[i]]
    /\ Goto(h, AfterUpsert(doing[h]))
    /\ UNCHANGED <<tree, links, comments, answered, allowed>>

\* INSERT ... ON CONFLICT DO UPDATE: an existing row keeps its id.
Upsert(h) ==
    /\ At(h, "upsert")
    /\ minted < MaxMinted
    /\ minted' = minted + 1
    /\ LET same == Conflicts(doing[h])
       IN shares' = IF same = {} THEN With(shares, minted + 1, Row(doing[h]))
                    ELSE [s \in DOMAIN shares |->
                              IF s \in same THEN Row(doing[h]) ELSE shares[s]]
    /\ Goto(h, AfterUpsert(doing[h]))
    /\ UNCHANGED <<tree, links, comments, answered, allowed>>

Told(d, id) == [id |-> id, owner |-> d.owner, grantee |-> d.grantee, path |-> d.path]

\* Mutant: the id that was drawn is answered.
ReadBackDrawn(h) ==
    /\ At(h, "read back")
    /\ answered' = answered \cup {Told(doing[h], minted)}
    /\ Goto(h, Idle)
    /\ UNCHANGED <<tree, shares, links, comments, minted, allowed>>

\* The id is read back and answered; the row may have vanished again.
ReadBack(h) ==
    /\ At(h, "read back")
    /\ answered' = answered \cup {Told(doing[h], s) : s \in Conflicts(doing[h])}
    /\ Goto(h, Idle)
    /\ UNCHANGED <<tree, shares, links, comments, minted, allowed>>

\* DELETE /shares/{id}: the owner revokes it or the grantee leaves.
Unshare(user, s) ==
    /\ s \in DOMAIN shares
    /\ user \in {shares[s].owner, shares[s].grantee}
    /\ shares' = Without(shares, s)
    /\ answered' = {a \in answered : a.id # s}
    /\ UNCHANGED <<tree, links, comments, doing, minted, allowed>>
----------------------------------------------------------------------------
(* Links *)

\* POST /links: the entry is looked at, then the row is inserted.
Link(h, owner, path, is_dir, perm) ==
    /\ At(h, "idle")
    /\ tree[owner][path] = IF is_dir THEN "folder" ELSE "file"
    /\ Goto(h, [step |-> "link", row |->
           [owner |-> owner, path |-> path, is_dir |-> is_dir, perm |-> perm]])
    /\ UNCHANGED <<tree, shares, links, comments, minted, answered, allowed>>

InsertLink(h) ==
    /\ At(h, "link")
    /\ minted < MaxMinted
    /\ minted' = minted + 1
    /\ links' = With(links, minted + 1, doing[h].row)
    /\ Goto(h, Idle)
    /\ UNCHANGED <<tree, shares, comments, answered, allowed>>

\* DELETE /links/{id}, by the owner.
Unlink(l) ==
    /\ l \in DOMAIN links
    /\ links' = Without(links, l)
    /\ UNCHANGED <<tree, shares, comments, doing, minted, answered, allowed>>
----------------------------------------------------------------------------
(* Use of a share or a link.  Only comments change a table of this module. *)

\* fResolveShareAccess and fResolveLinkAccess: the row, read in one statement; a
\* share has to be the user's (else a 404), a token is good for whoever has it; a
\* sub path only inside a folder (fEffectivePath).  What they give is the access:
\* whose workspace, which path, at what level.
Reached(row, sub) == row.path \o sub
Joins(row, sub) == sub = <<>> \/ row.is_dir
Access(row, sub) == [owner |-> row.owner, path |-> Reached(row, sub), perm |-> row.perm]

\* Mutant: the share is not compared with the user.
ShareOfAnyoneResolves(user, s, sub) == s \in DOMAIN shares /\ Joins(shares[s], sub)

ShareResolves(user, s, sub) ==
    s \in DOMAIN shares /\ shares[s].grantee = user /\ Joins(shares[s], sub)
LinkResolves(l, sub) == l \in DOMAIN links /\ Joins(links[l], sub)

\* A request by a user or a token has been let through.
Admit(h, by, step, act, owner, path) ==
    /\ At(h, "idle")
    /\ allowed' = [allowed EXCEPT ![h] = AllowedTo(by)]
    /\ Goto(h, [step |-> step, act |-> act, owner |-> owner, path |-> path])
    /\ UNCHANGED <<tree, shares, links, comments, minted, answered>>

\* To read, stat, list or watch an entry needs no more than the row.
See(h, by, access) == Admit(h, by, "act", "see", access.owner, access.path)

\* Mutant: fWriteThrough leaves the level to its callers.
WriteThroughAny(h, by, access) == Admit(h, by, "look", "write", access.owner, access.path)

\* fWriteThrough looks at the level itself (else a 403) ...
WriteThrough(h, by, access) ==
    /\ Level(access.perm) >= Level("edit")
    /\ Admit(h, by, "look", "write", access.owner, access.path)

\* ... and fResolveCommentTarget does in each of its branches, but for the last:
\* one's own files.
CommentByShare(h, user, access) ==
    /\ Level(access.perm) >= Level("comment")
    /\ Admit(h, user, "look", "comment", access.owner, access.path)
CommentByLink(h, l, access) ==
    /\ Level(access.perm) >= Level("comment")
    /\ Admit(h, l, "look", "comment", access.owner, access.path)
CommentOwn(h, user, path) == Admit(h, user, "look", "comment", user, path)

\* A request goes on, or ends and holds nothing.
Turn(h, next) ==
    /\ Goto(h, next)
    /\ allowed' = IF next = Idle THEN [allowed EXCEPT ![h] = {}] ELSE allowed
    /\ UNCHANGED <<tree, shares, links, answered>>

\* The file that is written or commented on has to be there (else a 404).
Look(h) ==
    /\ At(h, "look")
    /\ LET d == doing[h]
       IN Turn(h, IF d.path \in Paths /\ tree[d.owner][d.path] = "file"
                    THEN [d EXCEPT !.step = "act"] ELSE Idle)
    /\ UNCHANGED <<comments, minted>>

\* What is seen is answered; what is written goes to the owner's files (module
\* Workspace).
Answer(h) ==
    /\ At(h, "act") /\ doing[h].act # "comment"
    /\ Turn(h, Idle)
    /\ UNCHANGED <<comments, minted>>

\* The comment's row.  Its author is left out: nothing but the right to delete it
\* depends on that.
InsertComment(h) ==
    /\ At(h, "act") /\ doing[h].act = "comment"
    /\ minted < MaxMinted
    /\ minted' = minted + 1
    /\ comments' = With(comments, minted + 1, [owner |-> doing[h].owner, path |-> doing[h].path])
    /\ Turn(h, Idle)

\* DELETE /comments/{id}, by its author or the file's owner.
DeleteComment(c) ==
    /\ c \in DOMAIN comments
    /\ comments' = Without(comments, c)
    /\ UNCHANGED <<tree, shares, links, doing, minted, answered, allowed>>
----------------------------------------------------------------------------
\* A statement throws, or the process dies with the request.
Fail(h) ==
    /\ ~At(h, "idle")
    /\ Turn(h, Idle)
    /\ UNCHANGED <<comments, minted>>

\* The owner writes, moves and deletes: src/workspace.cpp keeps no table of
\* this module in step.
Rearrange(owner) ==
    /\ \E t \in Trees : tree' = [tree EXCEPT ![owner] = t]
    /\ UNCHANGED <<shares, links, comments, doing, minted, answered, allowed>>

NextShare(h) ==
    \/ \E o \in Owners, p \in Shared, d \in BOOLEAN, perm \in Perms :
           \/ \E g \in Users : Share(h, o, g, p, d, perm)
           \/ Link(h, o, p, d, perm)
    \/ Upsert(h) \/ ReadBack(h) \/ InsertLink(h)

NextUse(h) ==
    \/ \E s \in Minted, sub \in Subs, u \in Users :
           /\ ShareResolves(u, s, sub)
           /\ LET access == Access(shares[s], sub)
              IN See(h, u, access) \/ WriteThrough(h, u, access) \/ CommentByShare(h, u, access)
    \/ \E l \in Minted, sub \in Subs :
           /\ LinkResolves(l, sub)
           /\ LET access == Access(links[l], sub)
              IN See(h, l, access) \/ WriteThrough(h, l, access) \/ CommentByLink(h, l, access)
    \/ \E o \in Owners, p \in Paths : CommentOwn(h, o, p)
    \/ Look(h) \/ Answer(h) \/ InsertComment(h)

Next ==
    \/ \E h \in Handlers : NextShare(h) \/ NextUse(h) \/ Fail(h)
    \/ \E i \in Minted :
           \/ \E u \in Users : Unshare(u, i)
           \/ Unlink(i) \/ DeleteComment(i)
    \/ \E o \in Owners : Rearrange(o)

Spec == Init /\ [][Next]_vars
----------------------------------------------------------------------------
(* Properties *)

\* Whatever a request is about to do, it or its token had been granted that by the
\* owner, at that level, when it came: no branch of the checks lets more through,
\* though the share may be lowered, withdrawn or made again, and the files moved,
\* between the statement that read it and the act (fResolveShareAccess,
\* fResolveLinkAccess, fWriteThrough, fResolveCommentTarget, fResolveWatch).
ActsWereGranted ==
    \A h \in Handlers : At(h, "act") =>
        <<doing[h].owner, doing[h].path, doing[h].act>> \in allowed[h]

\* A share is there, under the id grantees know it by, until it is revoked or
\* left: sharing the same entry again changes the level and not the id ("The
\* upsert may have kept the original row id", /api/shares).
SharesKeepTheirId ==
    [][\A s \in DOMAIN shares \ DOMAIN shares' : \E u \in Users : Unshare(u, s)]_vars

\* The id an owner was answered is good to revoke the share they asked for,
\* however many requests shared and revoked it at the same time.
AnsweredSharesWork ==
    \A a \in answered : a.id \in Conflicts(a)
============================================================================
