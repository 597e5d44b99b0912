--------------------------- MODULE SharingProofs ---------------------------
(***************************************************************************)
(* What is answered and allowed by the tables of shares and links is what  *)
(* owners granted, for any accounts, files, requests and ids; and the paths *)
(* they are asked with become keys inside what was granted, for any texts. *)
(***************************************************************************)
EXTENDS Sharing, PathRules, SequenceTheorems, FiniteSetTheorems, WellFoundedInduction, TLAPS

IsGranting(row) ==
    row.owner \in Owners /\ row.path \in Shared /\ row.is_dir \in BOOLEAN /\ row.perm \in Perms

\* The rows, and those about to be written, say what an owner may grant; every
\* row has a number that was drawn.
TablesOK ==
    /\ minted \in Nat
    /\ DOMAIN shares \subseteq Minted
    /\ \A s \in DOMAIN shares : IsGranting(shares[s])
    /\ \A l \in DOMAIN links : IsGranting(links[l])
    /\ DOMAIN doing = Handlers
    /\ \A h \in Handlers :
           /\ At(h, "upsert") => IsGranting(doing[h])
           /\ At(h, "link") => IsGranting(doing[h].row)

\* The inductive invariant.
IInv == TablesOK /\ AnsweredSharesWork

\* Another handler turns to something else, and no table of grants is written.
LEMMA TurnsTo ==
  ASSUME IInv, NEW h \in Handlers, NEW next, Goto(h, next),
         minted' \in Nat, minted <= minted', UNCHANGED <<shares, links, answered>>,
         next.step = "upsert" => IsGranting(next),
         next.step = "link" => IsGranting(next.row)
  PROVE  IInv'
<1>1. \A g \in Handlers : doing'[g] = IF g = h THEN next ELSE doing[g]
  BY DEF IInv, TablesOK, Goto
<1>2. Minted \subseteq Minted'
  BY DEF IInv, TablesOK, Minted
<1>3. TablesOK'
  BY <1>1, <1>2 DEF IInv, TablesOK, At, Goto
<1>4. AnsweredSharesWork'
  BY DEF IInv, AnsweredSharesWork, Conflicts
<1> QED
  BY <1>3, <1>4 DEF IInv

\* A row that is written over keeps its key; a new one has a number of its own.
LEMMA UpsertKeeps ==
  ASSUME IInv, NEW h \in Handlers, Upsert(h)
  PROVE  IInv'
<1> DEFINE d == doing[h]
           same == Conflicts(d)
<1>1. minted \in Nat /\ minted' = minted + 1 /\ minted + 1 \notin DOMAIN shares
      /\ Minted \subseteq Minted' /\ minted + 1 \in Minted'
  BY DEF IInv, TablesOK, Minted, Upsert
<1>2. IsGranting(Row(d))
  BY DEF IInv, TablesOK, Upsert, IsGranting, Row
<1>3. /\ DOMAIN shares \subseteq DOMAIN shares'
      /\ DOMAIN shares' \subseteq DOMAIN shares \cup {minted + 1}
      /\ \A s \in DOMAIN shares : shares'[s] = shares[s] \/ (s \in same /\ shares'[s] = Row(d))
      /\ \A s \in DOMAIN shares' \ DOMAIN shares : shares'[s] = Row(d)
  BY <1>1 DEF Upsert, With
<1>4. /\ \A g \in Handlers \ {h} : doing'[g] = doing[g]
      /\ doing'[h].step = "read back" /\ DOMAIN doing' = Handlers
      /\ links' = links /\ answered' = answered
  BY DEF Upsert, Goto, AfterUpsert, IInv, TablesOK
<1>5. TablesOK'
  <2>1. minted' \in Nat /\ DOMAIN shares' \subseteq Minted'
    BY <1>1, <1>3 DEF IInv, TablesOK
  <2>2. \A s \in DOMAIN shares' : IsGranting(shares'[s])
    BY <1>2, <1>3 DEF IInv, TablesOK
  <2>3. /\ \A l \in DOMAIN links' : IsGranting(links'[l])
        /\ \A g \in Handlers :
               /\ At(g, "upsert")' => IsGranting(doing'[g])
               /\ At(g, "link")' => IsGranting(doing'[g].row)
    BY <1>4 DEF IInv, TablesOK, At
  <2> QED
    BY <1>4, <2>1, <2>2, <2>3 DEF TablesOK
<1>6. AnsweredSharesWork'
  <2> SUFFICES ASSUME NEW a \in answered PROVE a.id \in Conflicts(a)'
    BY <1>4 DEF AnsweredSharesWork
  <2>1. a.id \in DOMAIN shares /\ shares[a.id].owner = a.owner
        /\ shares[a.id].grantee = a.grantee /\ shares[a.id].path = a.path
    BY DEF IInv, AnsweredSharesWork, Conflicts
  <2>2. CASE shares'[a.id] = shares[a.id]
    BY <1>3, <2>1, <2>2 DEF Conflicts
  <2>3. CASE a.id \in same /\ shares'[a.id] = Row(d)
    <3>1. Row(d).owner = a.owner /\ Row(d).grantee = a.grantee /\ Row(d).path = a.path
      BY <2>1, <2>3 DEF Conflicts, Row
    <3> QED
      BY <1>3, <2>1, <2>3, <3>1 DEF Conflicts
  <2> QED
    BY <1>3, <2>1, <2>2, <2>3
<1> QED
  BY <1>5, <1>6 DEF IInv

\* What is answered has just been read.
LEMMA ReadBackKeeps ==
  ASSUME IInv, NEW h \in Handlers, ReadBack(h)
  PROVE  IInv'
<1>1. TablesOK'
  <2>1. \A g \in Handlers : doing'[g] = IF g = h THEN Idle ELSE doing[g]
    BY DEF ReadBack, Goto, IInv, TablesOK
  <2> QED
    BY <2>1 DEF ReadBack, Goto, IInv, TablesOK, At, Idle, Minted
<1>2. AnsweredSharesWork'
  <2> SUFFICES ASSUME NEW a \in answered' PROVE a.id \in Conflicts(a)'
    BY DEF AnsweredSharesWork
  <2>1. Conflicts(a)' = Conflicts(a)
    BY DEF ReadBack, Conflicts
  <2>2. CASE a \in answered
    BY <2>1, <2>2 DEF IInv, AnsweredSharesWork
  <2>3. ASSUME NEW s \in Conflicts(doing[h]), a = Told(doing[h], s) PROVE a.id \in Conflicts(a)
    BY <2>3 DEF Conflicts, Told
  <2> QED
    BY <2>1, <2>2, <2>3 DEF ReadBack
<1> QED
  BY <1>1, <1>2 DEF IInv

LEMMA UnshareKeeps ==
  ASSUME IInv, NEW u \in Users, NEW s, Unshare(u, s)
  PROVE  IInv'
<1>1. /\ DOMAIN shares' = DOMAIN shares \ {s}
      /\ \A i \in DOMAIN shares' : shares'[i] = shares[i]
      /\ answered' = {a \in answered : a.id # s}
      /\ UNCHANGED <<links, doing, minted>>
  BY DEF Unshare, Without
<1>2. TablesOK'
  BY <1>1 DEF IInv, TablesOK, Minted, At
<1>3. AnsweredSharesWork'
  BY <1>1 DEF IInv, AnsweredSharesWork, Conflicts
<1> QED
  BY <1>2, <1>3 DEF IInv

LEMMA Inductive == IInv /\ [Next]_vars => IInv'
<1> SUFFICES ASSUME IInv, [Next]_vars PROVE IInv'
  OBVIOUS
<1>0. minted \in Nat /\ minted + 1 \in Nat /\ minted <= minted + 1 /\ Idle.step = "idle"
  BY DEF IInv, TablesOK, Idle
<1>1. ASSUME NEW h \in Handlers, NEW o \in Owners, NEW p \in Shared, NEW is_dir \in BOOLEAN,
             NEW perm \in Perms, NEW g \in Users, Share(h, o, g, p, is_dir, perm)
      PROVE  IInv'
  BY <1>0, <1>1, TurnsTo DEF Share, IsGranting
<1>2. ASSUME NEW h \in Handlers, NEW o \in Owners, NEW p \in Shared, NEW is_dir \in BOOLEAN,
             NEW perm \in Perms, Link(h, o, p, is_dir, perm)
      PROVE  IInv'
  BY <1>0, <1>2, TurnsTo DEF Link, IsGranting
<1>3. ASSUME NEW h \in Handlers, InsertLink(h) PROVE IInv'
  <2>1. IsGranting(doing[h].row)
    BY <1>3 DEF InsertLink, IInv, TablesOK
  <2>2. \A l \in DOMAIN links' : IsGranting(links'[l])
    BY <1>3, <2>1 DEF InsertLink, With, IInv, TablesOK
  <2>3. /\ \A g \in Handlers : doing'[g] = IF g = h THEN Idle ELSE doing[g]
        /\ DOMAIN doing' = Handlers /\ shares' = shares /\ answered' = answered
        /\ minted' = minted + 1
    BY <1>3 DEF InsertLink, Goto, IInv, TablesOK
  <2>4. TablesOK'
    BY <1>0, <2>2, <2>3 DEF IInv, TablesOK, At, Minted
  <2>5. AnsweredSharesWork'
    BY <2>3 DEF IInv, AnsweredSharesWork, Conflicts
  <2> QED
    BY <2>4, <2>5 DEF IInv
<1>4. ASSUME NEW h \in Handlers, NEW by, NEW step \in {"look", "act"}, NEW act, NEW o, NEW p,
             Admit(h, by, step, act, o, p)
      PROVE  IInv'
  BY <1>0, <1>4, TurnsTo DEF Admit
<1>5. ASSUME NEW h \in Handlers, Look(h) PROVE IInv'
  <2>1. PICK next : /\ Goto(h, next) /\ next.step \notin {"upsert", "link"}
    <3>1. At(h, "look")
      BY <1>5 DEF Look
    <3>2. [doing[h] EXCEPT !.step = "act"].step \notin {"upsert", "link"}
      BY <3>1 DEF At
    <3> QED
      BY <1>0, <1>5, <3>2 DEF Look, Turn
  <2> QED
    BY <1>0, <1>5, <2>1, TurnsTo DEF Look, Turn
<1>6. ASSUME NEW h \in Handlers, InsertComment(h) \/ Answer(h) \/ Fail(h) PROVE IInv'
  BY <1>0, <1>6, TurnsTo DEF InsertComment, Answer, Fail, Turn
<1>7. ASSUME NEW l, Unlink(l) PROVE IInv'
  BY <1>7 DEF Unlink, Without, IInv, TablesOK, AnsweredSharesWork, Conflicts, Minted, At
<1>8. CASE UNCHANGED <<shares, links, doing, minted, answered>>
  BY <1>8 DEF IInv, TablesOK, AnsweredSharesWork, Conflicts, Minted, At
<1>9. ASSUME NEW h \in Handlers, NextShare(h) PROVE IInv'
  BY <1>1, <1>2, <1>3, <1>9, UpsertKeeps, ReadBackKeeps DEF NextShare
<1>10. ASSUME NEW h \in Handlers, NextUse(h) PROVE IInv'
  BY <1>4, <1>5, <1>6, <1>10
  DEF NextUse, See, WriteThrough, CommentByShare, CommentByLink, CommentOwn
<1>11. CASE \E i \in Minted : (\E u \in Users : Unshare(u, i)) \/ Unlink(i) \/ DeleteComment(i)
  BY <1>7, <1>8, <1>11, UnshareKeeps DEF DeleteComment
<1>12. CASE (\E o \in Owners : Rearrange(o)) \/ UNCHANGED vars
  BY <1>8, <1>12 DEF Rearrange, vars
<1> QED
  BY <1>6, <1>9, <1>10, <1>11, <1>12 DEF Next

\* IInv is an invariant, for any accounts, files, requests and ids.
THEOREM Invariance == Spec => []IInv
<1>1. Init => IInv
  BY SharingAssumption DEF Init, IInv, TablesOK, AnsweredSharesWork, Nobody, At, Idle
<1> QED
  BY <1>1, Inductive, PTL DEF Spec

\* The id an owner was answered is good to revoke the share they asked for,
\* however many requests share and revoke it at the same time.
THEOREM AnswersAreGood == Spec => []AnsweredSharesWork
<1>1. IInv => AnsweredSharesWork
  BY DEF IInv
<1> QED
  BY <1>1, Invariance, PTL

\* A share is there, under its id, until it is revoked or left.
THEOREM IdsAreKept == Spec => SharesKeepTheirId
<1>1. ASSUME [Next]_vars, NEW s \in DOMAIN shares \ DOMAIN shares'
      PROVE  \E u \in Users : Unshare(u, s)
  <2>1. ASSUME NEW h \in Handlers, Upsert(h) PROVE FALSE
    BY <1>1, <2>1 DEF Upsert, With
  <2>2. shares' # shares
    BY <1>1
  <2>3. ASSUME NEW h \in Handlers PROVE ~NextShare(h)
    BY <2>1, <2>2 DEF NextShare, Share, Link, ReadBack, InsertLink
  <2>4. ASSUME NEW h \in Handlers PROVE ~NextUse(h)
    BY <2>2 DEF NextUse, See, WriteThrough, CommentByShare, CommentByLink, CommentOwn, Admit,
                Look, Answer, InsertComment, Turn
  <2>5. ASSUME NEW h \in Handlers PROVE ~Fail(h)
    BY <2>2 DEF Fail, Turn
  <2>6. ASSUME NEW i \in Minted PROVE ~Unlink(i) /\ ~DeleteComment(i)
    BY <2>2 DEF Unlink, DeleteComment
  <2>7. ~UNCHANGED vars /\ \A o \in Owners : ~Rearrange(o)
    BY <2>2 DEF vars, Rearrange
  <2>8. \E i \in Minted, u \in Users : Unshare(u, i)
    BY <1>1, <2>3, <2>4, <2>5, <2>6, <2>7 DEF Next
  <2>9. ASSUME NEW i, NEW u \in Users, Unshare(u, i) PROVE i = s
    BY <1>1, <2>9 DEF Unshare, Without
  <2> QED
    BY <2>8, <2>9
<1>2. [Next]_vars => [\A s \in DOMAIN shares \ DOMAIN shares' : \E u \in Users : Unshare(u, s)]_vars
  BY <1>1
<1> QED
  BY <1>2, PTL DEF Spec, SharesKeepTheirId

----------------------------------------------------------------------------
(* Who may act on what *)

\* An entry below a shared folder, and the folder or file itself.
LEMMA SubPathsAreCovered ==
  ASSUME NEW row, IsGranting(row), NEW act \in Acts, NEW below \in Subs,
         Joins(row, below), Level(row.perm) >= Level(Needs(act))
  PROVE  Covers(row, row.owner, Reached(row, below), Needs(act))
<1>1. Level(row.perm) >= Level(Needs(act))
  OBVIOUS
<1>2. row.path \in Seq(Names) /\ below \in Seq(Names)
  <2>1. row.path \in Paths
    BY SharingAssumption DEF SharingAssumption, IsGranting
  <2>2. ASSUME NEW p \in Names \X Names PROVE p \in Seq(Names)
    <3>1. PICK m \in Names, n \in Names : p = <<m, n>>
      OBVIOUS
    <3>2. <<m, n>> \in Seq(Names)
      OBVIOUS
    <3> QED
      BY <3>1, <3>2
  <2>3. \A n \in Names : <<n>> \in Seq(Names)
    OBVIOUS
  <2>4. <<>> \in Seq(Names)
    OBVIOUS
  <2> QED
    BY <2>1, <2>2, <2>3, <2>4 DEF Paths, Subs
<1>3. CASE below = <<>>
  BY <1>1, <1>2, <1>3 DEF Covers, Reached
<1>4. CASE below # <<>>
  <2> DEFINE path == row.path \o below
  <2>1. Len(below) \in Nat \ {0} /\ Len(row.path) \in Nat /\ row.is_dir
    BY <1>2, <1>4 DEF Joins
  <2>2. path \in Seq(Names) /\ Len(path) = Len(row.path) + Len(below)
        /\ \A i \in 1..Len(row.path) : path[i] = row.path[i]
    BY <1>2
  <2>3. SubSeq(path, 1, Len(row.path)) = row.path
    BY <1>2, <2>1, <2>2
  <2>4. Len(path) > Len(row.path)
    BY <2>1, <2>2
  <2> QED
    BY <1>1, <2>1, <2>3, <2>4 DEF Covers, Reached
<1> QED
  BY <1>3, <1>4

\* Who has been let through was granted, when it came, what it is about to do.
Holds(h) ==
    At(h, "look") \/ At(h, "act") =>
        <<doing[h].owner, doing[h].path, doing[h].act>> \in allowed[h]

\* The histories are kept for the requests, and each has what it holds.
HeldInv == DOMAIN allowed = Handlers /\ \A h \in Handlers : Holds(h)

\* A target is an owner, a path, with a sub path or without, and an act.
LEMMA IsTarget ==
  ASSUME NEW o \in Owners, NEW q \in Paths, NEW below \in Subs, NEW act \in Acts
  PROVE  <<o, q \o below, act>> \in Targets
<1>1. q \o below \in Reachable
  BY DEF Reachable
<1> QED
  BY <1>1 DEF Targets

\* The access a row gives, with enough of a level for the act, is granted to whom
\* the row is for.
LEMMA AccessIsGranted ==
  ASSUME NEW row, IsGranting(row), NEW act \in Acts, NEW below \in Subs, NEW by,
         Joins(row, below), Level(row.perm) >= Level(Needs(act)),
         \/ \E s \in DOMAIN shares : row = shares[s] /\ shares[s].grantee = by
         \/ by \in DOMAIN links /\ row = links[by]
  PROVE  <<Access(row, below).owner, Access(row, below).path, act>> \in AllowedTo(by)
<1> DEFINE t == <<row.owner, Reached(row, below), act>>
<1>1. Covers(row, row.owner, Reached(row, below), Needs(act))
  BY SubPathsAreCovered
<1>2. Granted(by, row.owner, Reached(row, below), Needs(act))
  BY <1>1 DEF Granted
<1>3. t \in Targets
  BY SharingAssumption, IsTarget DEF SharingAssumption, IsGranting, Reached
<1>4. t[1] = row.owner /\ t[2] = Reached(row, below) /\ t[3] = act
  OBVIOUS
<1> QED
  BY <1>2, <1>3, <1>4 DEF AllowedTo, Access

\* A request that has been let through holds what it asks for; the others what they did.
LEMMA AdmitHolds ==
  ASSUME IInv, HeldInv, NEW h \in Handlers, NEW by, NEW step, NEW act, NEW owner, NEW path,
         Admit(h, by, step, act, owner, path), <<owner, path, act>> \in AllowedTo(by)
  PROVE  HeldInv'
<1>1. /\ \A g \in Handlers \ {h} : doing'[g] = doing[g] /\ allowed'[g] = allowed[g]
      /\ doing'[h] = [step |-> step, act |-> act, owner |-> owner, path |-> path]
      /\ allowed'[h] = AllowedTo(by)
      /\ DOMAIN allowed' = Handlers
  BY DEF Admit, Goto, HeldInv, IInv, TablesOK
<1>2. Holds(h)'
  BY <1>1 DEF Holds
<1>3. ASSUME NEW g \in Handlers \ {h} PROVE Holds(g)'
  BY <1>1 DEF Holds, At, HeldInv
<1> QED
  BY <1>1, <1>2, <1>3 DEF HeldInv

\* A request that goes on is about the same; one that ends holds nothing.
LEMMA TurnHolds ==
  ASSUME IInv, HeldInv, NEW h \in Handlers, NEW next, Turn(h, next),
         \/ next = Idle
         \/ /\ At(h, "look")
            /\ next.owner = doing[h].owner /\ next.path = doing[h].path /\ next.act = doing[h].act
  PROVE  HeldInv'
<1>1. /\ \A g \in Handlers \ {h} : doing'[g] = doing[g] /\ allowed'[g] = allowed[g]
      /\ doing'[h] = next
      /\ next # Idle => allowed'[h] = allowed[h]
      /\ DOMAIN allowed' = Handlers
  BY DEF Turn, Goto, HeldInv, IInv, TablesOK
<1>2. Holds(h)'
  BY <1>1 DEF Holds, At, Idle, HeldInv
<1>3. ASSUME NEW g \in Handlers \ {h} PROVE Holds(g)'
  BY <1>1 DEF Holds, At, HeldInv
<1> QED
  BY <1>1, <1>2, <1>3 DEF HeldInv

\* A request that is not about an access turns to something of its kind.
LEMMA OthersHold ==
  ASSUME IInv, HeldInv, NEW h \in Handlers, NEW next, Goto(h, next), allowed' = allowed,
         next.step \notin {"look", "act"}
  PROVE  HeldInv'
<1>1. \A g \in Handlers : doing'[g] = IF g = h THEN next ELSE doing[g]
  BY DEF Goto, IInv, TablesOK
<1> QED
  BY <1>1 DEF HeldInv, Holds, At

LEMMA HeldInductive == IInv /\ HeldInv /\ [Next]_vars => HeldInv'
<1> SUFFICES ASSUME IInv, HeldInv, [Next]_vars PROVE HeldInv'
  OBVIOUS
<1>1. CASE UNCHANGED <<doing, allowed>>
  BY <1>1 DEF HeldInv, Holds, At
<1>2. ASSUME NEW h \in Handlers, NextShare(h) PROVE HeldInv'
  <2>1. PICK next : Goto(h, next) /\ next.step \notin {"look", "act"} /\ allowed' = allowed
    BY <1>2 DEF NextShare, Share, Link, Upsert, AfterUpsert, ReadBack, InsertLink, Idle
  <2> QED
    BY <2>1, OthersHold
<1>3. ASSUME NEW h \in Handlers, NEW s \in Minted, NEW below \in Subs, NEW u \in Users,
             ShareResolves(u, s, below),
             \/ See(h, u, Access(shares[s], below)) \/ WriteThrough(h, u, Access(shares[s], below))
             \/ CommentByShare(h, u, Access(shares[s], below))
      PROVE  HeldInv'
  <2> DEFINE row == shares[s]
             access == Access(row, below)
  <2>1. IsGranting(row) /\ s \in DOMAIN shares /\ row.grantee = u /\ Joins(row, below)
    BY <1>3 DEF ShareResolves, IInv, TablesOK
  <2>2. PICK act \in Acts, step \in {"look", "act"} :
            /\ Admit(h, u, step, act, access.owner, access.path)
            /\ Level(row.perm) >= Level(Needs(act))
    BY <1>3, <2>1 DEF See, WriteThrough, CommentByShare, Access, Acts, Needs, Level, IsGranting, Perms
  <2>3. <<access.owner, access.path, act>> \in AllowedTo(u)
    BY <2>1, <2>2, AccessIsGranted
  <2> QED
    BY <2>2, <2>3, AdmitHolds
<1>4. ASSUME NEW h \in Handlers, NEW l \in Minted, NEW below \in Subs, LinkResolves(l, below),
             \/ See(h, l, Access(links[l], below)) \/ WriteThrough(h, l, Access(links[l], below))
             \/ CommentByLink(h, l, Access(links[l], below))
      PROVE  HeldInv'
  <2> DEFINE row == links[l]
             access == Access(row, below)
  <2>1. IsGranting(row) /\ l \in DOMAIN links /\ Joins(row, below)
    BY <1>4 DEF LinkResolves, IInv, TablesOK
  <2>2. PICK act \in Acts, step \in {"look", "act"} :
            /\ Admit(h, l, step, act, access.owner, access.path)
            /\ Level(row.perm) >= Level(Needs(act))
    BY <1>4, <2>1 DEF See, WriteThrough, CommentByLink, Access, Acts, Needs, Level, IsGranting, Perms
  <2>3. <<access.owner, access.path, act>> \in AllowedTo(l)
    BY <2>1, <2>2, AccessIsGranted
  <2> QED
    BY <2>2, <2>3, AdmitHolds
<1>5. ASSUME NEW h \in Handlers, NEW o \in Owners, NEW p \in Paths, CommentOwn(h, o, p)
      PROVE  HeldInv'
  <2> DEFINE t == <<o, p, "comment">>
  <2>1. p \o <<>> = p /\ <<>> \in Subs /\ "comment" \in Acts
    BY DEF Paths, Subs, Acts
  <2>2. t \in Targets /\ t[1] = o
    BY <2>1, IsTarget
  <2>3. t \in AllowedTo(o)
    BY <2>2 DEF AllowedTo, Granted
  <2> QED
    BY <1>5, <2>3, AdmitHolds DEF CommentOwn
<1>6. ASSUME NEW h \in Handlers, Look(h) PROVE HeldInv'
  <2> DEFINE d == doing[h]
             next == [d EXCEPT !.step = "act"]
  <2>1. next.owner = d.owner /\ next.path = d.path /\ next.act = d.act
    OBVIOUS
  <2>2. CASE Turn(h, Idle)
    BY <2>2, TurnHolds
  <2>3. CASE Turn(h, next)
    BY <1>6, <2>1, <2>3, TurnHolds DEF Look
  <2> QED
    BY <1>6, <2>2, <2>3 DEF Look
<1>7. ASSUME NEW h \in Handlers, Answer(h) \/ InsertComment(h) \/ Fail(h) PROVE HeldInv'
  BY <1>7, TurnHolds DEF Answer, InsertComment, Fail
<1>8. ASSUME NEW h \in Handlers, NextUse(h) PROVE HeldInv'
  BY <1>3, <1>4, <1>5, <1>6, <1>7, <1>8 DEF NextUse
<1>9. CASE \E i \in Minted : (\E u \in Users : Unshare(u, i)) \/ Unlink(i) \/ DeleteComment(i)
  BY <1>1, <1>9 DEF Unshare, Unlink, DeleteComment
<1>10. CASE (\E o \in Owners : Rearrange(o)) \/ UNCHANGED vars
  BY <1>1, <1>10 DEF Rearrange, vars
<1> QED
  BY <1>2, <1>7, <1>8, <1>9, <1>10 DEF Next

\* Whatever a request is about to do, its owner had granted that when it came, to
\* its user or its token: through every branch of the checks, for any accounts,
\* tables, trees and requests.
THEOREM OnlyWhatIsGranted == Spec => []ActsWereGranted
<1>1. Init => HeldInv
  BY DEF Init, HeldInv, Holds, At, Idle
<1>2. HeldInv => ActsWereGranted
  BY DEF HeldInv, Holds, ActsWereGranted
<1> QED
  BY <1>1, <1>2, HeldInductive, Invariance, PTL DEF Spec

----------------------------------------------------------------------------
(* Texts, counted through *)

\* What holds of 0 and of the successor of each natural number holds of all.
LEMMA Counting ==
  ASSUME NEW S, 0 \in S, \A n \in Nat : n \in S => n + 1 \in S
  PROVE  Nat \subseteq S
<1> DEFINE Bad == Nat \ S
<1> SUFFICES ASSUME Bad # {} PROVE FALSE
  OBVIOUS
<1>1. PICK n \in Bad : \A m \in Bad : ~ (<<m, n>> \in OpToRel(<, Nat))
  <2>1. Bad \subseteq Nat
    OBVIOUS
  <2> HIDE DEF Bad
  <2> QED
    BY <2>1, NatLessThanWellFounded, WFMin
<1>2. n \in Nat /\ n # 0 /\ n - 1 \in Nat /\ n - 1 < n
  OBVIOUS
<1>3. <<n - 1, n>> \in OpToRel(<, Nat)
  BY <1>2 DEF OpToRel
<1>4. n - 1 \in S
  BY <1>1, <1>2, <1>3
<1> QED
  BY <1>2, <1>4

LEMMA CountingTo ==
  ASSUME NEW L \in Nat, NEW S, 0 \in S, \A n \in 0..L : n \in S /\ n # L => n + 1 \in S
  PROVE  0..L \subseteq S
<1> DEFINE T == {n \in Nat : n <= L => n \in S}
<1>1. 0 \in T /\ \A n \in Nat : n \in T => n + 1 \in T
  OBVIOUS
<1>2. Nat \subseteq T
  <2> HIDE DEF T
  <2> QED BY <1>1, Counting
<1> QED
  BY <1>2

----------------------------------------------------------------------------
\* A fold over a sequence.
LEMMA MaxIs ==
  ASSUME NEW n \in Nat, NEW s \in SUBSET (1..(n + 1)), n + 1 \in s
  PROVE  Max(s) = n + 1
<1> DEFINE P(x) == x \in s /\ \A y \in s : x >= y
<1>1. ASSUME NEW x PROVE P(x) <=> x = n + 1
  <2>1. x \in s => x \in Int /\ x <= n + 1
    OBVIOUS
  <2>2. \A y \in s : y \in Int /\ n + 1 >= y
    OBVIOUS
  <2>3. P(x) => x >= n + 1
    OBVIOUS
  <2> QED
    BY <2>1, <2>2, <2>3
<1>2. P(CHOOSE x : P(x))
  <2> HIDE DEF P
  <2> QED BY <1>1
<1>3. Max(s) = CHOOSE x : P(x)
  BY DEF Max
<1> HIDE DEF P
<1> QED
  BY <1>1, <1>2, <1>3

\* f folds step over each set of numbers up to n, from its least to its largest.
FoldsTo(f, States, base, n, step) ==
    /\ f \in [SUBSET (1..n) -> States]
    /\ \A s \in SUBSET (1..n) :
           /\ s # {} => Max(s) \in s
           /\ f[s] = IF s = {} THEN base ELSE step[<<f[s \ {Max(s)}], Max(s)>>]

LEMMA FoldsExist ==
  ASSUME NEW States, NEW base \in States, NEW L \in Nat, NEW step \in [States \X (1..L) -> States]
  PROVE  \E f : FoldsTo(f, States, base, L, step)
<1> DEFINE S == {n \in 0..L : \E f : FoldsTo(f, States, base, n, step)}
<1>1. 0 \in S
  <2> DEFINE f == [s \in SUBSET (1..0) |-> base]
  <2>1. f \in [SUBSET (1..0) -> States]
    OBVIOUS
  <2>2. \A s \in SUBSET (1..0) : s = {}
    OBVIOUS
  <2>3. FoldsTo(f, States, base, 0, step)
    BY <2>1, <2>2 DEF FoldsTo
  <2>4. 0 \in 0..L
    OBVIOUS
  <2> HIDE DEF f
  <2> QED
    BY <2>3, <2>4
<1>2. ASSUME NEW n \in 0..L, n \in S, n # L PROVE n + 1 \in S
  <2>1. PICK f : FoldsTo(f, States, base, n, step)
    BY <1>2
  <2> DEFINE g == [s \in SUBSET (1..(n + 1)) |->
                     IF n + 1 \in s THEN step[<<f[s \ {n + 1}], n + 1>>] ELSE f[s]]
  <2>2. \A s \in SUBSET (1..(n + 1)) :
           /\ n + 1 \in s => s \ {n + 1} \in SUBSET (1..n)
           /\ n + 1 \notin s => s \in SUBSET (1..n)
    OBVIOUS
  <2>3. f \in [SUBSET (1..n) -> States]
    BY <2>1 DEF FoldsTo
  <2>4. g \in [SUBSET (1..(n + 1)) -> States]
    <3>1. n + 1 \in 1..L
      BY <1>2
    <3>2. \A s \in SUBSET (1..(n + 1)) :
             (IF n + 1 \in s THEN step[<<f[s \ {n + 1}], n + 1>>] ELSE f[s]) \in States
      BY <2>2, <2>3, <3>1
    <3> QED
      BY <3>2
  <2>5. ASSUME NEW s \in SUBSET (1..(n + 1))
        PROVE  /\ s # {} => Max(s) \in s
               /\ g[s] = IF s = {} THEN base ELSE step[<<g[s \ {Max(s)}], Max(s)>>]
    <3>1. CASE n + 1 \in s
      <4>1. Max(s) = n + 1
        BY <3>1, MaxIs
      <4>2. g[s \ {n + 1}] = f[s \ {n + 1}]
        OBVIOUS
      <4> QED
        BY <3>1, <4>1, <4>2
    <3>2. CASE n + 1 \notin s
      <4>1. s \in SUBSET (1..n) /\ s \ {Max(s)} \in SUBSET (1..n)
        BY <2>2, <3>2
      <4>2. g[s \ {Max(s)}] = f[s \ {Max(s)}] /\ g[s] = f[s]
        BY <4>1
      <4> QED
        BY <2>1, <4>1, <4>2 DEF FoldsTo
    <3> QED
      BY <3>1, <3>2
  <2>6. FoldsTo(g, States, base, n + 1, step)
    <3> HIDE DEF g
    <3> QED
      BY <2>4, <2>5 DEF FoldsTo
  <2> HIDE DEF g
  <2> QED
    BY <1>2, <2>6
<1>3. L \in S
  <2>1. 0..L \subseteq S
    <3> HIDE DEF S
    <3> QED
      BY <1>1, <1>2, CountingTo
  <2> QED
    BY <2>1
<1> QED
  BY <1>3

----------------------------------------------------------------------------
\* The loop over the characters: a state after each of them, the last one the fold's.
Texts == Seq(Char)
States == [segments : Seq(Texts), current : Texts, bad : BOOLEAN]
Start == [segments |-> <<>>, current |-> <<>>, bad |-> FALSE]

ReadsBy(it, text) ==
  it = [s \in SUBSET DOMAIN text |-> IF s = {} THEN Start ELSE Read(it[s \ {Max(s)}], text[Max(s)])]

LEMMA ReadUnfolds ==
  ASSUME NEW text
  PROVE  FoldLeft(Read, Start, text) = (CHOOSE it : ReadsBy(it, text))[DOMAIN text]
BY DEF FoldLeft, MapThenFoldSet, ReadsBy

LEMMA FlushTypes ==
  ASSUME NEW s \in States
  PROVE  fFlush(s) \in States
<1>1. <<>> \in Texts /\ s.segments \in Seq(Texts) /\ s.current \in Texts
  BY DEF States, Texts
<1>2. Append(s.segments, s.current) \in Seq(Texts)
  BY <1>1
<1> QED
  BY <1>1, <1>2 DEF States, fFlush

LEMMA ReadTypes ==
  ASSUME NEW s \in States, NEW c \in Char
  PROVE  Read(s, c) \in States
<1>1. Append(s.current, c) \in Texts
  BY DEF States, Texts
<1> QED
  BY <1>1, FlushTypes DEF States, Read

LEMMA StartTypes == Start \in States
<1>1. <<>> \in Texts /\ <<>> \in Seq(Texts)
  BY DEF Texts
<1> QED
  BY <1>1 DEF States, Start

LEMMA Downto ==
  ASSUME NEW n \in Nat, n # 0
  PROVE  /\ Max(1..n) = n
         /\ (1..n) \ {n} = 1..(n - 1)
         /\ 1..n # {}
<1>1. n - 1 \in Nat /\ 1..n \in SUBSET (1..((n - 1) + 1)) /\ (n - 1) + 1 \in 1..n /\ (n - 1) + 1 = n
  OBVIOUS
<1>2. Max(1..n) = (n - 1) + 1
  <2> DEFINE m == n - 1
             s == 1..n
  <2>1. m \in Nat /\ s \in SUBSET (1..(m + 1)) /\ m + 1 \in s
    BY <1>1
  <2> HIDE DEF m, s
  <2>2. Max(s) = m + 1
    BY <2>1, MaxIs
  <2> QED
    BY <2>2 DEF s, m
<1> QED
  BY <1>1, <1>2

LEMMA Reading ==
  ASSUME NEW text \in Texts
  PROVE  \E at \in [0..Len(text) -> States] :
            /\ at[0] = Start
            /\ \A n \in 1..Len(text) : at[n] = Read(at[n - 1], text[n])
            /\ FoldLeft(Read, Start, text) = at[Len(text)]
<1> DEFINE L == Len(text)
           step == [p \in States \X (1..L) |-> Read(p[1], text[p[2]])]
<1>1. L \in Nat /\ DOMAIN text = 1..L /\ \A n \in 1..L : text[n] \in Char
  BY DEF Texts
<1>2. step \in [States \X (1..L) -> States]
  BY <1>1, ReadTypes
<1>3. PICK f : FoldsTo(f, States, Start, L, step)
  <2> HIDE DEF step, L
  <2> QED
    BY <1>1, <1>2, StartTypes, FoldsExist
<1>4. f \in [SUBSET (1..L) -> States]
  BY <1>3 DEF FoldsTo
<1>5. ASSUME NEW s \in SUBSET (1..L)
      PROVE  f[s] = IF s = {} THEN Start ELSE Read(f[s \ {Max(s)}], text[Max(s)])
  <2>1. s # {} => Max(s) \in 1..L /\ f[s \ {Max(s)}] \in States
    BY <1>3, <1>4 DEF FoldsTo
  <2>2. s # {} => step[<<f[s \ {Max(s)}], Max(s)>>] = Read(f[s \ {Max(s)}], text[Max(s)])
    BY <2>1
  <2> HIDE DEF step
  <2> QED
    BY <1>3, <2>2 DEF FoldsTo
<1>6. ReadsBy(f, text)
  BY <1>1, <1>4, <1>5 DEF ReadsBy
<1> DEFINE it == CHOOSE it : ReadsBy(it, text)
           at == [n \in 0..L |-> it[1..n]]
<1>7. ReadsBy(it, text)
  BY <1>6
<1>8. FoldLeft(Read, Start, text) = it[1..L]
  BY <1>1, ReadUnfolds
<1> HIDE DEF it
<1>9. \A s \in SUBSET (1..L) : it[s] = IF s = {} THEN Start ELSE Read(it[s \ {Max(s)}], text[Max(s)])
  BY <1>1, <1>7 DEF ReadsBy
<1>10. it[1..0] = Start
  <2>1. 1..0 = {} /\ 1..0 \in SUBSET (1..L)
    OBVIOUS
  <2> QED
    BY <1>9, <2>1
<1>11. ASSUME NEW n \in 1..L
       PROVE  it[1..n] = Read(it[1..(n - 1)], text[n])
  <2>1. 1..n \in SUBSET (1..L) /\ n \in Nat /\ n # 0
    BY <1>1
  <2> QED
    BY <1>9, <2>1, Downto
<1>12. \A n \in 0..L : it[1..n] \in States
  <2> DEFINE T == {n \in 0..L : it[1..n] \in States}
  <2>1. 0 \in T
    BY <1>1, <1>10, StartTypes
  <2>2. ASSUME NEW n \in 0..L, n \in T, n # L PROVE n + 1 \in T
    <3>1. n + 1 \in 1..L /\ (n + 1) - 1 = n
      <4> HIDE DEF T, L
      <4> QED
        BY <1>1, <2>2
    <3>2. text[n + 1] \in Char
      BY <1>1, <3>1
    <3>3. it[1..(n + 1)] = Read(it[1..n], text[n + 1])
      BY <1>11, <3>1
    <3> QED
      BY <2>2, <3>1, <3>2, <3>3, ReadTypes
  <2>3. 0..L \subseteq T
    <3> HIDE DEF T, L
    <3> QED
      BY <1>1, <2>1, <2>2, CountingTo
  <2> QED
    BY <2>3
<1>13. at \in [0..L -> States]
  BY <1>12
<1>14. at[0] = Start /\ at[L] = it[1..L] /\ \A n \in 1..L : at[n] = Read(at[n - 1], text[n])
  BY <1>1, <1>10, <1>11
<1> HIDE DEF at
<1> QED
  BY <1>8, <1>13, <1>14

\* The same for the joining of segments: what is there after each of them.
JoinsBy(it, first, rest) ==
  it = [s \in SUBSET DOMAIN rest |->
          IF s = {} THEN first ELSE it[s \ {Max(s)}] \o <<Slash>> \o rest[Max(s)]]

LEMMA JoinUnfolds ==
  ASSUME NEW segments
  PROVE  Join(segments) = (CHOOSE it : JoinsBy(it, Head(segments), Tail(segments)))[DOMAIN Tail(segments)]
BY DEF Join, FoldLeft, MapThenFoldSet, JoinsBy

LEMMA Joining ==
  ASSUME NEW segments \in Seq(Texts), segments # <<>>
  PROVE  \E at \in [1..Len(segments) -> Texts] :
            /\ at[1] = segments[1]
            /\ \A n \in 1..Len(segments) :
                  n # Len(segments) => at[n + 1] = at[n] \o <<Slash>> \o segments[n + 1]
            /\ Join(segments) = at[Len(segments)]
<1> DEFINE first == Head(segments)
           rest == Tail(segments)
           L == Len(rest)
           step == [p \in Texts \X (1..L) |-> p[1] \o <<Slash>> \o rest[p[2]]]
<1>1. /\ L \in Nat /\ DOMAIN rest = 1..L /\ Len(segments) = L + 1
      /\ \A n \in 1..L : rest[n] = segments[n + 1] /\ rest[n] \in Texts
      /\ first = segments[1] /\ first \in Texts
  OBVIOUS
<1>2. \A t \in Texts, u \in Texts : t \o <<Slash>> \o u \in Texts
  <2>1. <<Slash>> \in Texts
    BY PathRulesAssumption DEF Texts
  <2> QED
    BY <2>1 DEF Texts
<1> HIDE DEF first, rest, L
<1>3. step \in [Texts \X (1..L) -> Texts]
  BY <1>1, <1>2
<1>4. PICK f : FoldsTo(f, Texts, first, L, step)
  <2> HIDE DEF step
  <2> QED
    BY <1>1, <1>3, FoldsExist
<1>5. f \in [SUBSET (1..L) -> Texts]
  BY <1>4 DEF FoldsTo
<1>6. ASSUME NEW s \in SUBSET (1..L)
      PROVE  f[s] = IF s = {} THEN first ELSE f[s \ {Max(s)}] \o <<Slash>> \o rest[Max(s)]
  <2>1. s # {} => Max(s) \in 1..L /\ f[s \ {Max(s)}] \in Texts
    BY <1>4, <1>5 DEF FoldsTo
  <2>2. s # {} => step[<<f[s \ {Max(s)}], Max(s)>>] = f[s \ {Max(s)}] \o <<Slash>> \o rest[Max(s)]
    BY <2>1
  <2> HIDE DEF step
  <2> QED
    BY <1>4, <2>2 DEF FoldsTo
<1>7. JoinsBy(f, first, rest)
  BY <1>1, <1>5, <1>6 DEF JoinsBy
<1> DEFINE it == CHOOSE it : JoinsBy(it, first, rest)
           at == [n \in 1..(L + 1) |-> it[1..(n - 1)]]
<1>8. JoinsBy(it, first, rest)
  BY <1>7
<1>9. Join(segments) = it[1..L]
  <2>1. Join(segments) = it[DOMAIN rest]
    BY JoinUnfolds DEF first, rest
  <2> QED
    BY <1>1, <2>1
<1> HIDE DEF it
<1>10. \A s \in SUBSET (1..L) :
          it[s] = IF s = {} THEN first ELSE it[s \ {Max(s)}] \o <<Slash>> \o rest[Max(s)]
  BY <1>1, <1>8 DEF JoinsBy
<1>11. it[1..0] = first
  <2>1. 1..0 = {} /\ 1..0 \in SUBSET (1..L)
    OBVIOUS
  <2> QED
    BY <1>10, <2>1
<1>12. ASSUME NEW n \in 1..L
       PROVE  it[1..n] = it[1..(n - 1)] \o <<Slash>> \o rest[n]
  <2>1. 1..n \in SUBSET (1..L) /\ n \in Nat /\ n # 0
    BY <1>1
  <2> QED
    BY <1>10, <2>1, Downto
<1>13. \A n \in 0..L : it[1..n] \in Texts
  <2> DEFINE T == {n \in 0..L : it[1..n] \in Texts}
  <2>1. 0 \in T
    BY <1>1, <1>11
  <2>2. ASSUME NEW n \in 0..L, n \in T, n # L PROVE n + 1 \in T
    <3>1. n + 1 \in 1..L /\ (n + 1) - 1 = n /\ rest[n + 1] \in Texts
      BY <1>1, <2>2
    <3>2. it[1..(n + 1)] = it[1..n] \o <<Slash>> \o rest[n + 1]
      BY <1>12, <3>1
    <3>3. it[1..n] \in Texts
      BY <2>2
    <3>4. it[1..(n + 1)] \in Texts
      BY <1>2, <3>1, <3>2, <3>3
    <3> QED
      BY <1>1, <3>1, <3>4
  <2>3. 0..L \subseteq T
    <3> HIDE DEF T
    <3> QED
      BY <1>1, <2>1, <2>2, CountingTo
  <2> QED
    BY <2>3
<1>14. at \in [1..(L + 1) -> Texts]
  BY <1>1, <1>13
<1>15. at[1] = first /\ at[L + 1] = it[1..L]
  BY <1>1, <1>11
<1>16. ASSUME NEW n \in 1..(L + 1), n # L + 1
       PROVE  at[n + 1] = at[n] \o <<Slash>> \o segments[n + 1]
  <2>1. n \in 1..L /\ n + 1 \in 1..(L + 1) /\ (n + 1) - 1 = n
    BY <1>1, <1>16
  <2> QED
    BY <1>1, <1>12, <2>1
<1> HIDE DEF at
<1> QED
  BY <1>1, <1>9, <1>14, <1>15, <1>16
----------------------------------------------------------------------------
\* Pieces in the order of a text.
Rank(pieces, p) == Cardinality({q \in pieces : q[1] <= p[1]})
IsPlace(p) == p \in Nat \X Nat

LEMMA NthIs ==
  ASSUME NEW pieces, NEW n
  PROVE  Nth(pieces, n) = CHOOSE p \in {p \in pieces : Rank(pieces, p) = n} : TRUE
BY DEF Nth, Rank

LEMMA RankBounded ==
  ASSUME NEW pieces, IsFiniteSet(pieces), NEW p
  PROVE  Rank(pieces, p) \in Nat /\ Rank(pieces, p) <= Cardinality(pieces)
<1>1. {q \in pieces : q[1] <= p[1]} \in SUBSET pieces
  OBVIOUS
<1> QED
  BY <1>1, FS_Subset, FS_CardinalityType DEF Rank

\* A piece behind all others is the last of them.
LEMMA NthNext ==
  ASSUME NEW pieces, IsFiniteSet(pieces), \A q \in pieces : IsPlace(q),
         NEW p, IsPlace(p), \A q \in pieces : q[1] < p[1]
  PROVE  /\ IsFiniteSet(pieces \cup {p})
         /\ Cardinality(pieces) \in Nat
         /\ Cardinality(pieces \cup {p}) = Cardinality(pieces) + 1
         /\ Nth(pieces \cup {p}, Cardinality(pieces) + 1) = p
         /\ \A n \in 1..Cardinality(pieces) : Nth(pieces \cup {p}, n) = Nth(pieces, n)
<1> DEFINE more == pieces \cup {p}
           N == Cardinality(pieces)
<1>1. p \notin pieces
  BY DEF IsPlace
<1>2. IsFiniteSet(more) /\ Cardinality(more) = N + 1 /\ N \in Nat
  BY <1>1, FS_AddElement, FS_CardinalityType
<1>3. Rank(more, p) = N + 1
  <2>1. {q \in more : q[1] <= p[1]} = more
    BY DEF IsPlace
  <2> HIDE DEF more
  <2> QED
    BY <1>2, <2>1 DEF Rank
<1>4. ASSUME NEW q \in pieces PROVE Rank(more, q) = Rank(pieces, q) /\ Rank(pieces, q) # N + 1
  <2>1. {r \in more : r[1] <= q[1]} = {r \in pieces : r[1] <= q[1]}
    BY DEF IsPlace
  <2>2. Rank(more, q) = Rank(pieces, q)
    <3> HIDE DEF more
    <3> QED
      BY <2>1 DEF Rank
  <2>3. Rank(pieces, q) \in Nat /\ Rank(pieces, q) <= N
    BY RankBounded
  <2> HIDE DEF more, N
  <2> QED
    BY <1>2, <2>2, <2>3
<1>5. Nth(more, N + 1) = p
  <2>1. {q \in more : Rank(more, q) = N + 1} = {p}
    BY <1>3, <1>4
  <2> HIDE DEF more, N
  <2> QED
    BY <2>1, NthIs
<1>6. ASSUME NEW n \in 1..N PROVE Nth(more, n) = Nth(pieces, n)
  <2>1. {q \in more : Rank(more, q) = n} = {q \in pieces : Rank(pieces, q) = n}
    BY <1>2, <1>3, <1>4
  <2>2. Nth(more, n) = CHOOSE q \in {q \in more : Rank(more, q) = n} : TRUE
    BY NthIs
  <2>3. Nth(pieces, n) = CHOOSE q \in {q \in pieces : Rank(pieces, q) = n} : TRUE
    BY NthIs
  <2> HIDE DEF more, N
  <2> QED
    BY <2>1, <2>2, <2>3
<1> QED
  BY <1>2, <1>5, <1>6

\* Pieces of a text do not overlap; of the first few, in the order of their ends,
\* one that ends later begins later.
Upto(pieces, n) == {p \in pieces : p[2] < n}

LEMMA PlacesOf ==
  ASSUME NEW text \in Texts
  PROVE  /\ Len(text) \in Nat
         /\ \A p \in Pieces(text) : /\ IsPlace(p) /\ p = <<p[1], p[2]>>
                                    /\ p[1] \in 1..Len(text) /\ p[2] \in 1..Len(text) /\ p[1] <= p[2]
BY DEF Texts, Pieces, IsPlace

LEMMA LaterPieces ==
  ASSUME NEW text \in Texts, NEW p \in Pieces(text), NEW q \in Pieces(text), q[2] < p[2]
  PROVE  q[1] < p[1]
<1>1. p[1] \in Nat /\ p[2] \in 1..Len(text) /\ q[1] \in Nat /\ q[2] \in 1..Len(text) /\ Len(text) \in Nat /\ q[1] <= q[2]
  BY PlacesOf DEF IsPlace
<1>2. q[2] # Len(text) /\ text[q[2] + 1] \in Separators
  BY <1>1 DEF Pieces
<1>3. \A i \in p[1]..p[2] : text[i] \notin Separators
  BY DEF Pieces
<1> QED
  BY <1>1, <1>2, <1>3

LEMMA SameEnd ==
  ASSUME NEW text \in Texts, NEW p \in Pieces(text), NEW q \in Pieces(text), q[2] = p[2]
  PROVE  q = p
<1>1. /\ p[1] \in 1..Len(text) /\ p[2] \in 1..Len(text) /\ q[1] \in 1..Len(text) /\ Len(text) \in Nat
      /\ q[1] <= q[2] /\ p[1] <= p[2] /\ p = <<p[1], p[2]>> /\ q = <<q[1], q[2]>>
  BY PlacesOf
<1>2. /\ p[1] # 1 => text[p[1] - 1] \in Separators
      /\ q[1] # 1 => text[q[1] - 1] \in Separators
  BY DEF Pieces
<1>3. /\ \A i \in p[1]..p[2] : text[i] \notin Separators
      /\ \A i \in q[1]..q[2] : text[i] \notin Separators
  BY DEF Pieces
<1>4. p[1] = q[1]
  BY <1>1, <1>2, <1>3
<1> QED
  BY <1>1, <1>4

LEMMA Advance ==
  ASSUME NEW text \in Texts, NEW pieces \in SUBSET Pieces(text), NEW n \in Nat
  PROVE  \/ Upto(pieces, n + 1) = Upto(pieces, n) /\ \A p \in pieces : p[2] # n
         \/ \E p \in pieces : /\ p[2] = n /\ IsPlace(p)
                              /\ Upto(pieces, n + 1) = Upto(pieces, n) \cup {p}
                              /\ \A q \in Upto(pieces, n) : q[1] < p[1]
<1>1. \A p \in pieces : p[1] \in Nat /\ p[2] \in Nat /\ IsPlace(p)
  BY PlacesOf
<1>2. CASE \A p \in pieces : p[2] # n
  BY <1>1, <1>2 DEF Upto
<1>3. CASE \E p \in pieces : p[2] = n
  <2>1. PICK p \in pieces : p[2] = n
    BY <1>3
  <2>2. \A q \in pieces : q[2] = n => q = p
    BY <2>1, SameEnd
  <2>3. Upto(pieces, n + 1) = Upto(pieces, n) \cup {p}
    BY <1>1, <2>1, <2>2 DEF Upto
  <2>4. \A q \in Upto(pieces, n) : q[1] < p[1]
    BY <2>1, LaterPieces DEF Upto
  <2> QED
    BY <1>1, <2>1, <2>3, <2>4
<1> QED
  BY <1>2, <1>3

\* Every piece has its number, and every number up to theirs a piece.
Numbered(pieces) ==
    /\ IsFiniteSet(pieces)
    /\ \A n \in 1..Cardinality(pieces) : Nth(pieces, n) \in pieces
    /\ \A p \in pieces : \E n \in 1..Cardinality(pieces) : Nth(pieces, n) = p

LEMMA AllNumbered ==
  ASSUME NEW text \in Texts, NEW pieces \in SUBSET Pieces(text)
  PROVE  /\ Numbered(pieces)
         /\ \A n \in Nat : Numbered(Upto(pieces, n))
<1> DEFINE T == {n \in Nat : Numbered(Upto(pieces, n))}
<1>0. \A p \in pieces : p[1] \in Nat /\ p[2] \in 1..Len(text) /\ IsPlace(p)
  BY PlacesOf DEF IsPlace
<1>1. 0 \in T
  <2>1. Upto(pieces, 0) = {}
    BY <1>0 DEF Upto
  <2>2. Numbered({})
    BY FS_EmptySet DEF Numbered
  <2> QED
    BY <2>1, <2>2
<1>2. ASSUME NEW n \in Nat, n \in T PROVE n + 1 \in T
  <2>1. CASE Upto(pieces, n + 1) = Upto(pieces, n)
    BY <1>2, <2>1
  <2>2. CASE \E p \in pieces : /\ p[2] = n /\ IsPlace(p)
                               /\ Upto(pieces, n + 1) = Upto(pieces, n) \cup {p}
                               /\ \A q \in Upto(pieces, n) : q[1] < p[1]
    <3>1. PICK p \in pieces : /\ IsPlace(p) /\ Upto(pieces, n + 1) = Upto(pieces, n) \cup {p}
                              /\ \A q \in Upto(pieces, n) : q[1] < p[1]
      BY <2>2
    <3> DEFINE less == Upto(pieces, n)
               N == Cardinality(less)
    <3>2. Numbered(less)
      BY <1>2
    <3>3. /\ IsFiniteSet(less \cup {p})
          /\ N \in Nat
          /\ Cardinality(less \cup {p}) = N + 1
          /\ Nth(less \cup {p}, N + 1) = p
          /\ \A i \in 1..N : Nth(less \cup {p}, i) = Nth(less, i)
      <4>1. \A q \in less : IsPlace(q)
        BY <1>0 DEF Upto
      <4>2. IsFiniteSet(less)
        BY <3>2 DEF Numbered
      <4> HIDE DEF less
      <4> QED
        BY <3>1, <4>1, <4>2, NthNext DEF less
    <3> HIDE DEF less
    <3>4. N + 1 \in 1..(N + 1) /\ \A i \in 1..N : i \in 1..(N + 1)
      BY <3>3
    <3>5. \A i \in 1..(N + 1) : i = N + 1 \/ i \in 1..N
      BY <3>3
    <3>6. Numbered(less \cup {p})
      BY <3>2, <3>3, <3>4, <3>5 DEF Numbered
    <3> QED
      BY <3>1, <3>6 DEF less
  <2> QED
    BY <2>1, <2>2, Advance
<1>3. Nat \subseteq T
  <2> HIDE DEF T
  <2> QED
    BY <1>1, <1>2, Counting
<1>4. Upto(pieces, Len(text) + 1) = pieces /\ Len(text) + 1 \in Nat
  BY <1>0, PlacesOf DEF Upto
<1> QED
  BY <1>3, <1>4

LEMMA PieceIs ==
  ASSUME NEW text \in Texts, NEW i \in Nat, NEW j \in Nat, 1 <= i, i <= j, j <= Len(text)
  PROVE  /\ SubSeq(text, i, j) \in Texts
         /\ Len(SubSeq(text, i, j)) = j - i + 1
         /\ \A n \in 1..(j - i + 1) : SubSeq(text, i, j)[n] = text[i + n - 1]
<1>1. Len(text) \in Nat /\ \A n \in 1..Len(text) : text[n] \in Char
  BY DEF Texts
<1>2. \A n \in i..j : text[n] \in Char
  BY <1>1
<1> QED
  BY <1>2, SubSeqProperties DEF Texts

\* What is in order: the pieces, each in its place.
LEMMA InOrderIs ==
  ASSUME NEW text \in Texts, NEW pieces \in SUBSET Pieces(text)
  PROVE  /\ InOrder(text, pieces) \in Seq(Texts)
         /\ Len(InOrder(text, pieces)) = Cardinality(pieces)
         /\ Cardinality(pieces) \in Nat
         /\ \A n \in 1..Cardinality(pieces) :
               InOrder(text, pieces)[n] = Piece(text, Nth(pieces, n)) /\ Nth(pieces, n) \in pieces
         /\ \A p \in pieces : \E n \in 1..Cardinality(pieces) : InOrder(text, pieces)[n] = Piece(text, p)
<1> DEFINE N == Cardinality(pieces)
<1>1. Numbered(pieces) /\ N \in Nat
  BY AllNumbered, FS_CardinalityType DEF Numbered
<1>2. \A p \in pieces : Piece(text, p) \in Texts
  BY PlacesOf, PieceIs DEF Piece
<1>3. \A n \in 1..N : Piece(text, Nth(pieces, n)) \in Texts
  BY <1>1, <1>2 DEF Numbered
<1>4. InOrder(text, pieces) \in [1..N -> Texts]
  BY <1>3 DEF InOrder
<1>5. InOrder(text, pieces) \in Seq(Texts) /\ Len(InOrder(text, pieces)) = N
  <2> HIDE DEF N
  <2> QED
    BY <1>1, <1>4
<1>6. \A n \in 1..N : InOrder(text, pieces)[n] = Piece(text, Nth(pieces, n)) /\ Nth(pieces, n) \in pieces
  BY <1>1 DEF InOrder, Numbered
<1>7. \A p \in pieces : \E n \in 1..N : InOrder(text, pieces)[n] = Piece(text, p)
  <2> HIDE DEF N
  <2>1. \A p \in pieces : \E n \in 1..N : Nth(pieces, n) = p
    BY <1>1 DEF Numbered, N
  <2> QED
    BY <1>6, <2>1
<1> QED
  BY <1>1, <1>5, <1>6, <1>7

LEMMA InOrderNext ==
  ASSUME NEW text \in Texts, NEW pieces \in SUBSET Pieces(text), NEW p \in Pieces(text),
         \A q \in pieces : q[1] < p[1]
  PROVE  InOrder(text, pieces \cup {p}) = Append(InOrder(text, pieces), Piece(text, p))
<1> DEFINE more == pieces \cup {p}
           N == Cardinality(pieces)
           s == InOrder(text, pieces)
           t == InOrder(text, more)
<1>1. more \in SUBSET Pieces(text)
  OBVIOUS
<1>2. /\ s \in Seq(Texts) /\ Len(s) = N /\ N \in Nat
      /\ \A n \in 1..N : s[n] = Piece(text, Nth(pieces, n))
  BY InOrderIs
<1>3. /\ t \in Seq(Texts) /\ Len(t) = Cardinality(more)
      /\ \A n \in 1..Cardinality(more) : t[n] = Piece(text, Nth(more, n))
  <2> HIDE DEF more
  <2> QED
    BY <1>1, InOrderIs
<1>4. /\ Cardinality(more) = N + 1
      /\ Nth(more, N + 1) = p
      /\ \A n \in 1..N : Nth(more, n) = Nth(pieces, n)
  <2>1. IsFiniteSet(pieces)
    BY AllNumbered DEF Numbered
  <2>2. IsPlace(p) /\ \A q \in pieces : IsPlace(q)
    BY PlacesOf
  <2>3. \A q \in pieces : q[1] < p[1]
    OBVIOUS
  <2> HIDE DEF more, N
  <2>4. Cardinality(pieces) \in Nat
    BY <2>1, FS_CardinalityType
  <2>5. Cardinality(pieces \cup {p}) = Cardinality(pieces) + 1
    BY <2>1, <2>2, <2>3, NthNext
  <2>6. Nth(pieces \cup {p}, Cardinality(pieces) + 1) = p
    BY <2>1, <2>2, <2>3, NthNext
  <2>7. \A n \in 1..Cardinality(pieces) : Nth(pieces \cup {p}, n) = Nth(pieces, n)
    BY <2>1, <2>2, <2>3, NthNext
  <2> QED
    BY <2>5, <2>6, <2>7 DEF more, N
<1>5. Piece(text, p) \in Texts
  BY PlacesOf, PieceIs DEF Piece
<1> HIDE DEF more, N, s, t
<1>6. t[N + 1] = Piece(text, p) /\ \A n \in 1..N : t[n] = s[n]
  BY <1>2, <1>3, <1>4
<1>7. Append(s, Piece(text, p)) = t
  BY <1>2, <1>3, <1>4, <1>5, <1>6
<1> QED
  BY <1>7 DEF s, t, more

LEMMA InOrderNone ==
  ASSUME NEW text
  PROVE  InOrder(text, {}) = <<>>
<1>1. Cardinality({}) = 0
  BY FS_EmptySet
<1> QED
  BY <1>1 DEF InOrder

----------------------------------------------------------------------------
\* The guard follows the text.
Dots(text) == {p \in Pieces(text) : Piece(text, p) = <<Dot>>}
Kept(text) == Pieces(text) \ Dots(text)
IsWrong(s) == s = <<Dot, Dot>> \/ Contains(s, Colon)

\* Something in the first n characters, or a piece that ended before n, is refused.
Threw(text, n, ended) ==
    \/ \E i \in 1..n : i <= Len(text) /\ text[i] = Nul
    \/ \E p \in Upto(Pieces(text), ended) : IsWrong(Piece(text, p))

\* The piece that is being read begins after k - 1 characters.
IsOpen(text, n, k) ==
    /\ k \in 1..(n + 1)
    /\ \A i \in k..n : text[i] \notin Separators
    /\ k = 1 \/ text[k - 1] \in Separators

\* What the loop knows after n characters.
Follows(s, text, n) ==
    /\ s \in States
    /\ s.bad <=> Threw(text, n, n)
    /\ ~s.bad => /\ s.segments = InOrder(text, Upto(Kept(text), n))
                 /\ \E k \in 1..(n + 1) : IsOpen(text, n, k) /\ s.current = SubSeq(text, k, n)

\* What it knows when it has flushed the piece that ends there.
Flushed(s, text, n) ==
    /\ s \in States
    /\ s.bad <=> Threw(text, n, n + 1)
    /\ ~s.bad => s.segments = InOrder(text, Upto(Kept(text), n + 1)) /\ s.current = <<>>


LEMMA WrongIsKept ==
  ASSUME NEW s, IsWrong(s)
  PROVE  s # <<Dot>> /\ s # <<>>
<1>1. Dot # Colon
  BY DEF Dot, Colon
<1>2. <<Dot>> # <<Dot, Dot>> /\ <<>> # <<Dot, Dot>>
  OBVIOUS
<1>3. ~Contains(<<Dot>>, Colon) /\ ~Contains(<<>>, Colon)
  BY <1>1 DEF Contains
<1> QED
  BY <1>2, <1>3 DEF IsWrong

LEMMA FlushFollows ==
  ASSUME NEW text \in Texts, NEW n \in 0..Len(text), NEW s, Follows(s, text, n), ~s.bad,
         n # Len(text) => text[n + 1] \in Separators
  PROVE  Flushed(fFlush(s), text, n)
<1> DEFINE all == Pieces(text)
           kept == Kept(text)
<1>1. PICK k \in 1..(n + 1) : IsOpen(text, n, k) /\ s.current = SubSeq(text, k, n)
  BY DEF Follows
<1>2. /\ s \in States /\ ~Threw(text, n, n) /\ s.segments = InOrder(text, Upto(kept, n))
      /\ Len(text) \in Nat /\ fFlush(s) \in States
  BY PlacesOf, FlushTypes DEF Follows
<1>3. all \in SUBSET Pieces(text) /\ kept \in SUBSET Pieces(text)
  BY DEF Kept
<1>4. CASE k = n + 1
  <2>1. s.current = <<>>
    BY <1>1, <1>4, SubSeqEmpty
  <2>2. fFlush(s) = [s EXCEPT !.current = <<>>]
    BY <2>1 DEF fFlush
  <2>3. \A p \in all : p[2] # n
    BY <1>1, <1>2, <1>4, PlacesOf DEF IsOpen, Pieces
  <2>4. Upto(all, n + 1) = Upto(all, n) /\ Upto(kept, n + 1) = Upto(kept, n)
    BY <1>2, <2>3, PlacesOf DEF Upto, Kept
  <2> HIDE DEF all, kept
  <2>5. Threw(text, n, n + 1) <=> Threw(text, n, n)
    BY <2>4 DEF Threw, all
  <2> QED
    BY <1>2, <2>2, <2>4, <2>5 DEF Flushed, States, kept
<1>5. CASE k # n + 1
  <2> DEFINE p == <<k, n>>
  <2>1. k \in Nat /\ 1 <= k /\ k <= n /\ n \in Nat /\ n <= Len(text)
    BY <1>1, <1>2, <1>5
  <2>2. p \in all /\ p[1] = k /\ p[2] = n
    BY <1>1, <2>1 DEF IsOpen, Pieces
  <2>3. Piece(text, p) = s.current /\ s.current # <<>>
    <3>1. Piece(text, p) = s.current
      BY <1>1, <2>2 DEF Piece
    <3>2. Len(SubSeq(text, k, n)) = n - k + 1
      BY <2>1, PieceIs
    <3>3. Len(SubSeq(text, k, n)) # 0
      BY <2>1, <3>2
    <3>4. SubSeq(text, k, n) # <<>>
      BY <3>3
    <3> HIDE DEF p
    <3> QED
      BY <1>1, <3>1, <3>4
  <2>4. Upto(all, n + 1) = Upto(all, n) \cup {p}
    BY <1>2, <2>1, <2>2, SameEnd, PlacesOf DEF Upto
  <2>5. Upto(kept, n + 1) = IF s.current = <<Dot>> THEN Upto(kept, n) ELSE Upto(kept, n) \cup {p}
    BY <2>2, <2>3, <2>4 DEF Upto, Kept, Dots
  <2>6. \A q \in Upto(kept, n) : q[1] < p[1]
    BY <2>2, LaterPieces DEF Upto, Kept
  <2> HIDE DEF p
  <2>7. Threw(text, n, n + 1) <=> IsWrong(s.current)
    BY <1>2, <2>3, <2>4 DEF Threw
  <2>8. CASE s.current = <<Dot>>
    <3>1. fFlush(s) = [s EXCEPT !.current = <<>>]
      BY <2>8 DEF fFlush
    <3> QED
      BY <1>2, <2>5, <2>7, <2>8, <3>1, WrongIsKept DEF Flushed, States
  <2>9. CASE IsWrong(s.current)
    <3>1. fFlush(s) = [s EXCEPT !.bad = TRUE]
      BY <2>3, <2>9, WrongIsKept DEF fFlush, IsWrong
    <3> QED
      BY <1>2, <2>7, <2>9, <3>1 DEF Flushed, States
  <2>10. CASE s.current # <<Dot>> /\ ~IsWrong(s.current)
    <3>1. fFlush(s) = [s EXCEPT !.segments = Append(@, s.current), !.current = <<>>]
      BY <2>3, <2>10 DEF fFlush, IsWrong
    <3>2. InOrder(text, Upto(kept, n) \cup {p}) = Append(InOrder(text, Upto(kept, n)), Piece(text, p))
      <4>1. Upto(kept, n) \in SUBSET Pieces(text)
        BY <1>3 DEF Upto
      <4> QED
        BY <2>2, <2>6, <4>1, InOrderNext
    <3> QED
      BY <1>2, <2>3, <2>5, <2>7, <2>10, <3>1, <3>2 DEF Flushed, States
  <2> QED
    BY <2>8, <2>9, <2>10
<1> QED
  BY <1>4, <1>5

LEMMA ReadFollows ==
  ASSUME NEW text \in Texts, NEW n \in 0..Len(text), n # Len(text), NEW s, Follows(s, text, n)
  PROVE  Follows(Read(s, text[n + 1]), text, n + 1)
<1> DEFINE c == text[n + 1]
           all == Pieces(text)
           kept == Kept(text)
           next == Read(s, c)
<1> SUFFICES Follows(next, text, n + 1)
  OBVIOUS
<1>1. Len(text) \in Nat /\ n \in Nat /\ n + 1 \in 1..Len(text) /\ c \in Char
  BY PlacesOf DEF Texts
<1>2. next \in States
  BY <1>1, ReadTypes DEF Follows
<1>3. CASE s.bad
  <2>1. next = s
    BY <1>3 DEF Read
  <2>2. Threw(text, n, n)
    BY <1>3 DEF Follows
  <2>3. Threw(text, n + 1, n + 1)
    BY <1>1, <2>2, PlacesOf DEF Threw, Upto
  <2> QED
    BY <1>2, <1>3, <2>1, <2>3 DEF Follows
<1>4. CASE ~s.bad /\ c \in Separators
  <2>1. next = fFlush(s)
    BY <1>4 DEF Read
  <2>2. Flushed(next, text, n)
    BY <1>4, <2>1, FlushFollows
  <2>3. c # Nul
    BY <1>4 DEF Separators, Slash, Backslash, Nul
  <2>4. Threw(text, n + 1, n + 1) <=> Threw(text, n, n + 1)
    BY <1>1, <2>3 DEF Threw
  <2>5. IsOpen(text, n + 1, n + 2) /\ n + 2 \in 1..((n + 1) + 1)
    BY <1>1, <1>4 DEF IsOpen
  <2>6. SubSeq(text, n + 2, n + 1) = <<>>
    BY <1>1, SubSeqEmpty
  <2> HIDE DEF next, c
  <2> QED
    BY <1>1, <2>2, <2>4, <2>5, <2>6 DEF Follows, Flushed
<1>5. CASE ~s.bad /\ c \notin Separators
  <2>1. PICK k \in 1..(n + 1) : IsOpen(text, n, k) /\ s.current = SubSeq(text, k, n)
    BY <1>5 DEF Follows
  <2>2. ~Threw(text, n, n) /\ s.segments = InOrder(text, Upto(kept, n)) /\ s \in States
    BY <1>5 DEF Follows
  <2>3. \A p \in all : p[2] # n
    BY <1>1, <1>5, PlacesOf DEF Pieces
  <2>4. Upto(all, n + 1) = Upto(all, n) /\ Upto(kept, n + 1) = Upto(kept, n)
    BY <1>1, <2>3, PlacesOf DEF Upto, Kept
  <2> HIDE DEF all, kept, next
  <2>5. Threw(text, n + 1, n + 1) <=> c = Nul
    BY <1>1, <2>2, <2>4 DEF Threw, all
  <2>6. CASE c = Nul
    <3>1. next = [s EXCEPT !.bad = TRUE]
      BY <1>5, <2>6 DEF Read, next
    <3> QED
      BY <1>2, <2>2, <2>5, <2>6, <3>1 DEF Follows, States
  <2>7. CASE c # Nul
    <3>1. next = [s EXCEPT !.current = Append(@, c)]
      BY <1>5, <2>7 DEF Read, next
    <3>2. k \in 1..((n + 1) + 1) /\ IsOpen(text, n + 1, k)
      BY <1>1, <1>5, <2>1 DEF IsOpen
    <3>3. Append(SubSeq(text, k, n), c) = SubSeq(text, k, n + 1)
      <4>1. k \in 1..Len(text) /\ n + 1 \in k..Len(text) /\ (n + 1) - 1 = n
        BY <1>1, <2>1
      <4>2. SubSeq(text, k, n + 1) = SubSeq(text, k, n) \o <<c>>
        BY <4>1, SubSeqRecursiveSecond DEF Texts
      <4>3. SubSeq(text, k, n) \in Texts
        BY <2>1, <2>2 DEF States
      <4> QED
        BY <1>1, <4>2, <4>3, AppendIsConcat DEF Texts
    <3>4. next.current = SubSeq(text, k, n + 1) /\ next.segments = InOrder(text, Upto(kept, n)) /\ ~next.bad
      BY <1>5, <2>1, <2>2, <3>1, <3>3 DEF States
    <3> QED
      BY <1>2, <2>4, <2>5, <2>7, <3>2, <3>4 DEF Follows, kept
  <2> QED
    BY <2>6, <2>7
<1> QED
  BY <1>3, <1>4, <1>5

LEMMA AllRead ==
  ASSUME NEW text \in Texts
  PROVE  Follows(FoldLeft(Read, Start, text), text, Len(text))
<1> DEFINE L == Len(text)
<1>1. PICK at \in [0..L -> States] :
          /\ at[0] = Start
          /\ \A n \in 1..L : at[n] = Read(at[n - 1], text[n])
          /\ FoldLeft(Read, Start, text) = at[L]
  BY Reading
<1>2. L \in Nat
  BY PlacesOf
<1> DEFINE T == {n \in 0..L : Follows(at[n], text, n)}
<1>3. 0 \in T
  <2>1. Upto(Pieces(text), 0) = {} /\ Upto(Kept(text), 0) = {}
    BY PlacesOf DEF Upto, Kept
  <2>2. ~Threw(text, 0, 0)
    BY <2>1 DEF Threw
  <2>3. 1 \in 1..(0 + 1) /\ IsOpen(text, 0, 1)
    BY DEF IsOpen
  <2>4. SubSeq(text, 1, 0) = <<>>
    BY SubSeqEmpty
  <2>5. ~Start.bad /\ Start.segments = <<>> /\ Start.current = <<>>
    BY DEF Start
  <2>6. Follows(Start, text, 0)
    BY <2>1, <2>2, <2>3, <2>4, <2>5, StartTypes, InOrderNone DEF Follows
  <2> QED
    BY <1>1, <1>2, <2>6
<1>4. ASSUME NEW n \in 0..L, n \in T, n # L PROVE n + 1 \in T
  <2>1. Follows(Read(at[n], text[n + 1]), text, n + 1)
    BY <1>4, ReadFollows
  <2>2. n + 1 \in 1..L /\ (n + 1) - 1 = n /\ n + 1 \in 0..L
    BY <1>2, <1>4
  <2> QED
    BY <1>1, <2>1, <2>2
<1>5. 0..L \subseteq T
  <2> HIDE DEF L, T
  <2> QED
    BY <1>2, <1>3, <1>4, CountingTo
<1>6. L \in T
  BY <1>2, <1>5
<1> QED
  BY <1>1, <1>6

\* The guard accepts the safe texts, and joins the components they lead through.
LEMMA GuardIs ==
  ASSUME NEW text \in Texts
  PROVE  fSafeRelPath(text) = IF Safe(text) THEN Join(Leads(text)) ELSE Refused
<1> DEFINE s == FoldLeft(Read, Start, text)
           end == IF s.bad THEN s ELSE fFlush(s)
           L == Len(text)
<1>1. Follows(s, text, L) /\ L \in Nat
  BY AllRead, PlacesOf
<1>2. Upto(Pieces(text), L + 1) = Pieces(text) /\ Upto(Kept(text), L + 1) = Kept(text)
  BY <1>1, PlacesOf DEF Upto, Kept
<1>3. Kept(text) \in SUBSET Pieces(text) /\ Leads(text) = InOrder(text, Kept(text))
  <2>1. Kept(text) = {p \in Pieces(text) : Piece(text, p) # <<Dot>>}
    BY DEF Kept, Dots
  <2> QED
    BY <2>1 DEF Leads
<1>4. /\ Leads(text) \in Seq(Texts)
      /\ \A n \in DOMAIN Leads(text) : \E p \in Kept(text) : Leads(text)[n] = Piece(text, p)
      /\ \A p \in Kept(text) : \E n \in DOMAIN Leads(text) : Leads(text)[n] = Piece(text, p)
  <2> DEFINE leads == InOrder(text, Kept(text))
             N == Cardinality(Kept(text))
  <2>1. /\ leads \in Seq(Texts) /\ Len(leads) = N
        /\ \A n \in 1..N : leads[n] = Piece(text, Nth(Kept(text), n)) /\ Nth(Kept(text), n) \in Kept(text)
        /\ \A p \in Kept(text) : \E n \in 1..N : leads[n] = Piece(text, p)
    BY <1>3, InOrderIs
  <2> HIDE DEF leads, N
  <2>2. DOMAIN leads = 1..N
    BY <2>1
  <2>3. leads = Leads(text)
    BY <1>3 DEF leads
  <2> QED
    BY <2>1, <2>2, <2>3
<1> DEFINE refused == Threw(text, L, L + 1)
<1>5. end.bad <=> refused
  <2>1. CASE s.bad
    <3>1. Threw(text, L, L)
      BY <1>1, <2>1 DEF Follows
    <3>2. refused
      BY <1>1, <3>1, PlacesOf DEF Threw, Upto
    <3> QED
      BY <2>1, <3>2
  <2>2. CASE ~s.bad
    <3>1. L \in 0..Len(text)
      BY <1>1
    <3>2. Flushed(fFlush(s), text, L)
      BY <1>1, <2>2, <3>1, FlushFollows
    <3> HIDE DEF s
    <3> QED
      BY <2>2, <3>2 DEF Flushed
  <2> QED
    BY <2>1, <2>2
<1>6. ~end.bad => end.segments = Leads(text)
  <2> SUFFICES ASSUME ~end.bad PROVE end.segments = Leads(text)
    OBVIOUS
  <2>1. ~s.bad /\ L \in 0..Len(text)
    BY <1>1
  <2>2. Flushed(fFlush(s), text, L)
    BY <1>1, <2>1, FlushFollows
  <2> HIDE DEF s
  <2> QED
    BY <1>2, <1>3, <2>1, <2>2 DEF Flushed
<1>7. refused <=> \/ Contains(text, Nul)
                  \/ \E n \in DOMAIN Leads(text) : IsWrong(Leads(text)[n])
  <2>1. refused <=> \/ \E i \in 1..L : text[i] = Nul
                    \/ \E p \in Pieces(text) : IsWrong(Piece(text, p))
    BY <1>1, <1>2 DEF Threw
  <2>2. (\E p \in Pieces(text) : IsWrong(Piece(text, p))) <=> (\E p \in Kept(text) : IsWrong(Piece(text, p)))
    BY WrongIsKept DEF Kept, Dots
  <2> HIDE DEF refused
  <2> QED
    BY <1>4, <2>1, <2>2 DEF Contains
<1>8. text # <<>> => Head(text) = text[1]
  BY DEF Texts
<1>9. fSafeRelPath(text) = IF text = <<>> \/ Head(text) \in Separators \/ end.bad \/ end.segments = <<>>
                           THEN Refused ELSE Join(end.segments)
  BY DEF fSafeRelPath, Start
<1> HIDE DEF end, refused
<1>10. Safe(text) <=> ~(text = <<>> \/ Head(text) \in Separators \/ refused \/ Leads(text) = <<>>)
  BY <1>7, <1>8 DEF Safe, IsWrong
<1> QED
  BY <1>5, <1>6, <1>9, <1>10

----------------------------------------------------------------------------
\* What keys are made of.
Segments ==
    {s \in Texts : /\ s \notin {<<>>, <<Dot>>, <<Dot, Dot>>}
                   /\ \A i \in 1..Len(s) : s[i] \notin Separators \cup {Nul, Colon}}

LEMMA LeadsAreSegments ==
  ASSUME NEW text \in Texts, Safe(text)
  PROVE  Leads(text) \in Seq(Segments) /\ Leads(text) # <<>>
<1> DEFINE kept == {p \in Pieces(text) : Piece(text, p) # <<Dot>>}
           N == Cardinality(kept)
<1>1. /\ Leads(text) \in Seq(Texts) /\ Len(Leads(text)) = N /\ N \in Nat
      /\ \A n \in 1..N : Leads(text)[n] = Piece(text, Nth(kept, n)) /\ Nth(kept, n) \in kept
  <2>1. kept \in SUBSET Pieces(text)
    OBVIOUS
  <2> HIDE DEF kept
  <2>2. /\ InOrder(text, kept) \in Seq(Texts) /\ Len(InOrder(text, kept)) = N /\ N \in Nat
        /\ \A n \in 1..N : InOrder(text, kept)[n] = Piece(text, Nth(kept, n)) /\ Nth(kept, n) \in kept
    BY <2>1, InOrderIs
  <2>3. Leads(text) = InOrder(text, kept)
    BY DEF Leads, kept
  <2> QED
    BY <2>2, <2>3
<1> HIDE DEF N
<1>2. ASSUME NEW n \in 1..N PROVE Leads(text)[n] \in Segments
  <2> DEFINE p == Nth(kept, n)
             g == Leads(text)[n]
  <2>1. g = SubSeq(text, p[1], p[2]) /\ p \in Pieces(text) /\ g # <<Dot>>
    BY <1>1 DEF Piece
  <2>2. /\ p[1] \in 1..Len(text) /\ p[2] \in 1..Len(text) /\ p[1] <= p[2] /\ Len(text) \in Nat
        /\ \A i \in p[1]..p[2] : text[i] \notin Separators
    BY <2>1, PlacesOf DEF Pieces
  <2> HIDE DEF g, p
  <2>3. /\ g \in Texts /\ Len(g) = p[2] - p[1] + 1
        /\ \A i \in 1..(p[2] - p[1] + 1) : g[i] = text[p[1] + i - 1]
    BY <2>1, <2>2, PieceIs
  <2>4. n \in DOMAIN Leads(text)
    BY <1>1
  <2>5. g # <<Dot, Dot>> /\ ~Contains(g, Colon)
    BY <2>4 DEF Safe, g
  <2>6. g # <<>>
    BY <2>2, <2>3
  <2>7. ASSUME NEW i \in 1..Len(g) PROVE g[i] \notin Separators \cup {Nul, Colon}
    <3>1. p[1] + i - 1 \in p[1]..p[2] /\ p[1] + i - 1 \in 1..Len(text) /\ g[i] = text[p[1] + i - 1]
      BY <2>2, <2>3
    <3>2. g[i] # Colon
      BY <2>5 DEF Contains
    <3>3. g[i] # Nul
      BY <3>1 DEF Safe, Contains
    <3> QED
      BY <2>2, <3>1, <3>2, <3>3
  <2>8. g \in Segments
    BY <2>1, <2>3, <2>5, <2>6, <2>7 DEF Segments
  <2> QED
    BY <2>8 DEF g
<1>3. Leads(text) \in [1..N -> Segments]
  BY <1>1, <1>2
<1> QED
  BY <1>1, <1>3 DEF Safe

\* A text that is made of the given segments and of nothing else.
Spells(text, segments) ==
    /\ text \in Texts /\ text # <<>> /\ text[1] \notin Separators /\ ~Contains(text, Nul)
    /\ Components(text) = segments
    /\ \A p \in Pieces(text) : Piece(text, p) \in Segments

LEMMA SegmentIs ==
  ASSUME NEW g \in Segments
  PROVE  /\ g \in Texts /\ Len(g) \in Nat /\ Len(g) >= 1 /\ g # <<Dot>>
         /\ \A i \in 1..Len(g) : g[i] \notin Separators /\ g[i] # Nul /\ g[i] # Colon
BY DEF Segments, Texts

LEMMA OneSpells ==
  ASSUME NEW g \in Segments
  PROVE  Spells(g, <<g>>)
<1> DEFINE p == <<1, Len(g)>>
<1>1. /\ g \in Texts /\ Len(g) \in Nat /\ Len(g) >= 1
      /\ \A i \in 1..Len(g) : g[i] \notin Separators /\ g[i] # Nul
  BY SegmentIs
<1>2. p \in Pieces(g) /\ p[1] = 1 /\ p[2] = Len(g)
  BY <1>1 DEF Pieces
<1>3. ASSUME NEW q \in Pieces(g) PROVE q = p
  <2>1. /\ q = <<q[1], q[2]>> /\ q[1] \in 1..Len(g) /\ q[2] \in 1..Len(g)
        /\ q[1] = 1 \/ g[q[1] - 1] \in Separators
        /\ q[2] = Len(g) \/ g[q[2] + 1] \in Separators
    BY PlacesOf, <1>1 DEF Pieces
  <2>2. q[1] = 1 /\ q[2] = Len(g)
    BY <1>1, <2>1
  <2> QED
    BY <2>1, <2>2
<1>4. Pieces(g) = {} \cup {p}
  BY <1>2, <1>3
<1>5. Piece(g, p) = g
  BY <1>1, <1>2, SubSeqFull DEF Piece, Texts
<1> HIDE DEF p
<1>6. InOrder(g, {} \cup {p}) = Append(InOrder(g, {}), Piece(g, p))
  BY <1>1, <1>2, InOrderNext
<1>7. Components(g) = <<g>>
  <2>1. InOrder(g, {} \cup {p}) = Append(<<>>, g)
    BY <1>5, <1>6, InOrderNone
  <2>2. Append(<<>>, g) = <<g>>
    OBVIOUS
  <2> QED
    BY <1>4, <2>1, <2>2 DEF Components
<1>8. g # <<>> /\ g[1] \notin Separators /\ ~Contains(g, Nul)
  BY <1>1 DEF Contains
<1> QED
  BY <1>1, <1>4, <1>5, <1>7, <1>8 DEF Spells

\* y is x, a slash and g.
Glues(y, x, g) ==
    /\ y \in Texts /\ Len(y) = Len(x) + 1 + Len(g)
    /\ \A i \in 1..Len(x) : y[i] = x[i]
    /\ y[Len(x) + 1] = Slash
    /\ \A i \in 1..Len(g) : y[Len(x) + 1 + i] = g[i]

LEMMA ConcatGlues ==
  ASSUME NEW x \in Texts, NEW g \in Texts
  PROVE  Glues(x \o <<Slash>> \o g, x, g)
<1>1. <<Slash>> \in Texts /\ Len(<<Slash>>) = 1 /\ <<Slash>>[1] = Slash
  BY PathRulesAssumption DEF Texts
<1>2. /\ <<Slash>> \o g \in Texts /\ Len(<<Slash>> \o g) = 1 + Len(g)
      /\ (<<Slash>> \o g)[1] = Slash
      /\ \A i \in 1..Len(g) : (<<Slash>> \o g)[1 + i] = g[i]
  BY <1>1 DEF Texts
<1> QED
  BY <1>1, <1>2 DEF Texts, Glues

LEMMA GluedSame ==
  ASSUME NEW x \in Texts, NEW g \in Texts, NEW y, Glues(y, x, g), NEW p \in Pieces(x)
  PROVE  Piece(y, p) = Piece(x, p)
<1> DEFINE X == Len(x)
           Y == Len(y)
<1>1. X \in Nat /\ Len(g) \in Nat
  BY DEF Texts
<1>2. y \in Texts /\ Y = X + 1 + Len(g) /\ \A i \in 1..X : y[i] = x[i]
  BY DEF Glues
<1> HIDE DEF X, Y
<1> DEFINE a == p[1]
           b == p[2]
<1>3. a \in 1..X /\ b \in 1..X /\ a <= b
  BY PlacesOf DEF X
<1>4. p[1] = a /\ p[2] = b
  OBVIOUS
<1> HIDE DEF a, b
<1> DEFINE M == b - a + 1
<1>5. /\ Piece(x, p) \in Texts /\ Len(Piece(x, p)) = M
      /\ \A n \in 1..M : Piece(x, p)[n] = x[a + n - 1]
  BY <1>1, <1>3, PieceIs DEF Piece, X, a, b
<1>6. a \in Nat /\ b \in Nat /\ 1 <= a /\ a <= b /\ b <= Y
  BY <1>1, <1>2, <1>3
<1>7. Piece(y, p) = SubSeq(y, a, b)
  BY <1>4 DEF Piece
<1>8. /\ Piece(y, p) \in Texts /\ Len(Piece(y, p)) = M
      /\ \A n \in 1..M : Piece(y, p)[n] = y[a + n - 1]
  BY <1>2, <1>6, <1>7, PieceIs DEF Y
<1>9. \A n \in 1..M : a + n - 1 \in 1..X
  BY <1>1, <1>3
<1> HIDE DEF M
<1>10. \A n \in 1..M : Piece(y, p)[n] = Piece(x, p)[n]
  BY <1>2, <1>5, <1>8, <1>9
<1> QED
  BY <1>5, <1>8, <1>10, SeqEqual DEF Texts

\* A separator and a segment behind a text add one piece.
LEMMA GluedPieces ==
  ASSUME NEW x \in Texts, x # <<>>, NEW g \in Segments, NEW y, Glues(y, x, g)
  PROVE  /\ Pieces(y) = Pieces(x) \cup {<<Len(x) + 2, Len(y)>>}
         /\ <<Len(x) + 2, Len(y)>> \in Pieces(y)
         /\ Piece(y, <<Len(x) + 2, Len(y)>>) = g
<1> DEFINE X == Len(x)
           G == Len(g)
           Y == Len(y)
           last == <<X + 2, Y>>
<1>1. /\ g \in Texts /\ G \in Nat /\ G >= 1 /\ \A i \in 1..G : g[i] \notin Separators
      /\ X \in Nat /\ X >= 1
  BY SegmentIs DEF Texts
<1>2. /\ y \in Texts /\ Y = X + 1 + G
      /\ \A i \in 1..X : y[i] = x[i]
      /\ y[X + 1] = Slash
      /\ \A i \in 1..G : y[X + 1 + i] = g[i]
  BY DEF Glues
<1> HIDE DEF X, G, Y
<1>3. Slash \in Separators
  BY DEF Separators
<1>4. \A i \in 1..Y : i > X + 1 => y[i] \notin Separators
  <2> TAKE i \in 1..Y
  <2> HAVE i > X + 1
  <2>1. i - X - 1 \in 1..G /\ X + 1 + (i - X - 1) = i
    BY <1>1, <1>2
  <2>2. y[X + 1 + (i - X - 1)] = g[i - X - 1]
    BY <1>2, <2>1
  <2> QED
    BY <1>1, <2>1, <2>2
<1>5. last \in Pieces(y)
  <2>1. last \in (1..Len(y)) \X (1..Len(y)) /\ last[1] = X + 2 /\ last[2] = Y
    BY <1>1, <1>2 DEF Y
  <2>2. last[1] <= last[2]
    BY <1>1, <1>2, <2>1
  <2>3. \A n \in last[1]..last[2] : y[n] \notin Separators
    BY <1>1, <1>2, <1>4, <2>1
  <2>4. y[last[1] - 1] \in Separators
    BY <1>1, <1>2, <1>3, <2>1
  <2> HIDE DEF last
  <2> QED
    BY <2>1, <2>2, <2>3, <2>4 DEF Pieces, Y
<1>6. ASSUME NEW p \in Pieces(x) PROVE p \in Pieces(y)
  <2> DEFINE a == p[1]
             b == p[2]
  <2>1. /\ p = <<p[1], p[2]>> /\ a \in 1..X /\ b \in 1..X /\ a <= b
        /\ \A n \in a..b : x[n] \notin Separators
        /\ a = 1 \/ x[a - 1] \in Separators
        /\ b = X \/ x[b + 1] \in Separators
    BY PlacesOf DEF Pieces, X
  <2> HIDE DEF a, b
  <2>2. p \in (1..Len(y)) \X (1..Len(y))
    BY <1>1, <1>2, <2>1 DEF Y, a, b
  <2>3. \A n \in a..b : y[n] \notin Separators
    BY <1>1, <1>2, <2>1
  <2>4. a = 1 \/ y[a - 1] \in Separators
    BY <1>1, <1>2, <2>1
  <2>5. y[b + 1] \in Separators
    BY <1>1, <1>2, <1>3, <2>1
  <2> QED
    BY <2>1, <2>2, <2>3, <2>4, <2>5 DEF Pieces, a, b
<1>7. ASSUME NEW p \in Pieces(y) PROVE p \in Pieces(x) \/ p = last
  <2> DEFINE a == p[1]
             b == p[2]
  <2>1. /\ p = <<p[1], p[2]>> /\ a \in 1..Y /\ b \in 1..Y /\ a <= b
        /\ \A n \in a..b : y[n] \notin Separators
        /\ a = 1 \/ y[a - 1] \in Separators
        /\ b = Y \/ y[b + 1] \in Separators
    BY <1>2, PlacesOf DEF Pieces, Y
  <2> HIDE DEF a, b
  <2>2. b <= X \/ a >= X + 2
    BY <1>1, <1>2, <1>3, <2>1
  <2>3. CASE b <= X
    <3>1. a \in 1..Len(x) /\ b \in 1..Len(x)
      BY <1>1, <2>1, <2>3 DEF X
    <3>2. \A n \in a..b : x[n] \notin Separators
      BY <1>1, <1>2, <2>1, <2>3
    <3>3. a = 1 \/ x[a - 1] \in Separators
      BY <1>1, <1>2, <2>1, <2>3
    <3>4. b = X \/ x[b + 1] \in Separators
      BY <1>1, <1>2, <2>1, <2>3
    <3> QED
      BY <2>1, <3>1, <3>2, <3>3, <3>4 DEF Pieces, X, a, b
  <2>4. CASE a >= X + 2
    <3>1. a = X + 2
      BY <1>1, <1>2, <1>4, <2>1, <2>4
    <3>2. b = Y
      BY <1>1, <1>2, <1>4, <2>1, <2>4
    <3> QED
      BY <2>1, <3>1, <3>2 DEF a, b
  <2> QED
    BY <2>2, <2>3, <2>4
<1>9. Piece(y, last) = g
  <2>1. SubSeq(y, X + 2, Y) \in Texts /\ Len(SubSeq(y, X + 2, Y)) = G
        /\ \A n \in 1..G : SubSeq(y, X + 2, Y)[n] = y[(X + 2) + n - 1]
    <3> DEFINE from == X + 2
    <3>1. Y - from + 1 = G /\ from \in Nat /\ Y \in Nat /\ 1 <= from /\ from <= Y
      BY <1>1, <1>2
    <3>2. Y <= Len(y)
      BY <3>1 DEF Y
    <3> HIDE DEF from
    <3>3. SubSeq(y, from, Y) \in Texts /\ Len(SubSeq(y, from, Y)) = G
          /\ \A n \in 1..G : SubSeq(y, from, Y)[n] = y[from + n - 1]
      BY <1>2, <3>1, <3>2, PieceIs
    <3> QED
      BY <3>3 DEF from
  <2>2. \A n \in 1..G : (X + 2) + n - 1 = X + 1 + n
    BY <1>1
  <2>3. \A n \in 1..G : SubSeq(y, X + 2, Y)[n] = g[n]
    BY <1>2, <2>1, <2>2
  <2>4. SubSeq(y, X + 2, Y) = g
    BY <1>1, <2>1, <2>3, SeqEqual DEF Texts, G
  <2> QED
    BY <2>4 DEF Piece
<1> HIDE DEF last
<1>10. Pieces(y) = Pieces(x) \cup {last}
  BY <1>5, <1>6, <1>7
<1> QED
  BY <1>2, <1>5, <1>9, <1>10 DEF X, Y, G, last

LEMMA MoreSpells ==
  ASSUME NEW text, NEW segments \in Seq(Segments), Spells(text, segments), NEW g \in Segments
  PROVE  Spells(text \o <<Slash>> \o g, Append(segments, g))
<1> DEFINE more == text \o <<Slash>> \o g
           last == <<Len(text) + 2, Len(more)>>
<1>1. text \in Texts /\ text # <<>> /\ g \in Texts /\ Len(text) \in Nat /\ Len(text) >= 1 /\ Len(g) \in Nat
  BY SegmentIs DEF Spells, Texts
<1>2. Glues(more, text, g)
  BY <1>1, ConcatGlues
<1> HIDE DEF more
<1>3. /\ Pieces(more) = Pieces(text) \cup {last} /\ last \in Pieces(more)
      /\ \A p \in Pieces(text) : Piece(more, p) = Piece(text, p)
      /\ Piece(more, last) = g
  <2>1. Pieces(more) = Pieces(text) \cup {last}
    BY <1>1, <1>2, GluedPieces
  <2>2. last \in Pieces(more) /\ Piece(more, last) = g
    BY <1>1, <1>2, GluedPieces
  <2>3. \A p \in Pieces(text) : Piece(more, p) = Piece(text, p)
    <3> TAKE p \in Pieces(text)
    <3> QED
      BY <1>1, <1>2, GluedSame
  <2> HIDE DEF last
  <2> QED
    BY <2>1, <2>2, <2>3
<1>4. \A p \in Pieces(text) : p[1] < last[1]
  BY <1>1, PlacesOf
<1> HIDE DEF last
<1>5. more \in Texts
  BY <1>2 DEF Glues
<1>6. InOrder(more, Pieces(text)) = segments
  <2>1. /\ InOrder(text, Pieces(text)) = segments
        /\ \A n \in 1..Cardinality(Pieces(text)) : Nth(Pieces(text), n) \in Pieces(text)
    BY <1>1, InOrderIs DEF Spells, Components
  <2>2. \A n \in 1..Cardinality(Pieces(text)) : Piece(more, Nth(Pieces(text), n)) = Piece(text, Nth(Pieces(text), n))
    BY <1>3, <2>1
  <2>3. InOrder(more, Pieces(text)) = InOrder(text, Pieces(text))
    BY <2>2 DEF InOrder
  <2> QED
    BY <2>1, <2>3
<1>7. Components(more) = Append(segments, g)
  <2>1. Pieces(text) \in SUBSET Pieces(more)
    BY <1>3
  <2>2. InOrder(more, Pieces(text) \cup {last}) = Append(InOrder(more, Pieces(text)), Piece(more, last))
    BY <1>3, <1>4, <1>5, <2>1, InOrderNext
  <2> QED
    BY <1>3, <1>6, <2>2 DEF Components
<1>8. \A p \in Pieces(more) : Piece(more, p) \in Segments
  BY <1>3 DEF Spells
<1>9. more # <<>> /\ more[1] \notin Separators
  BY <1>1, <1>2 DEF Glues, Spells
<1>10. ~Contains(more, Nul)
  <2> SUFFICES ASSUME NEW i \in 1..Len(more) PROVE more[i] # Nul
    BY DEF Contains
  <2>1. CASE i <= Len(text)
    BY <1>1, <1>2, <2>1 DEF Glues, Spells, Contains
  <2>2. CASE i = Len(text) + 1
    BY <1>2, <2>2 DEF Glues, Slash, Nul
  <2>3. CASE i > Len(text) + 1
    <3> DEFINE j == i - Len(text) - 1
    <3>1. j \in 1..Len(g) /\ i = Len(text) + 1 + j
      BY <1>1, <1>2, <2>3 DEF Glues
    <3> HIDE DEF j
    <3>2. more[i] = g[j]
      BY <1>2, <3>1 DEF Glues
    <3> QED
      BY <3>1, <3>2, SegmentIs
  <2> QED
    BY <1>1, <1>2, <2>1, <2>2, <2>3 DEF Glues
<1>11. Spells(more, Append(segments, g))
  BY <1>5, <1>7, <1>8, <1>9, <1>10 DEF Spells
<1> QED
  BY <1>11 DEF more

\* What is joined is spelled.
LEMMA JoinSpells ==
  ASSUME NEW segments \in Seq(Segments), segments # <<>>
  PROVE  Spells(Join(segments), segments)
<1> DEFINE L == Len(segments)
<1>1. L \in Nat /\ L >= 1 /\ segments \in Seq(Texts)
  BY SegmentIs
<1>2. PICK at \in [1..L -> Texts] :
          /\ at[1] = segments[1]
          /\ \A n \in 1..L : n # L => at[n + 1] = at[n] \o <<Slash>> \o segments[n + 1]
          /\ Join(segments) = at[L]
  BY <1>1, Joining
<1>3. \A n \in 1..L : segments[n] \in Segments
  OBVIOUS
<1> DEFINE T == {n \in 0..(L - 1) : Spells(at[n + 1], SubSeq(segments, 1, n + 1))}
<1>4. 0 \in T
  <2>1. SubSeq(segments, 1, 1) = <<segments[1]>>
    <3>1. 1 \in 1..Len(segments) /\ 1 \in 1..Len(segments) /\ 1 - 1 = 0
      BY <1>1
    <3>2. SubSeq(segments, 1, 1) = SubSeq(segments, 1, 0) \o <<segments[1]>>
      BY <1>1, <3>1, SubSeqRecursiveSecond
    <3>3. SubSeq(segments, 1, 0) = <<>>
      BY SubSeqEmpty
    <3>4. segments[1] \in Segments
      BY <1>1, <1>3
    <3>5. <<segments[1]>> \in Seq(Segments)
      BY <3>4
    <3>6. <<>> \o <<segments[1]>> = <<segments[1]>>
      BY <3>5, ConcatEmptySeq
    <3> QED
      BY <3>2, <3>3, <3>6
  <2>2. Spells(at[1], <<segments[1]>>)
    BY <1>1, <1>2, <1>3, OneSpells
  <2>3. 0 \in 0..(L - 1) /\ 0 + 1 = 1
    BY <1>1
  <2> QED
    BY <2>1, <2>2, <2>3
<1>5. ASSUME NEW n \in 0..(L - 1), n \in T, n # L - 1 PROVE n + 1 \in T
  <2> DEFINE m == n + 1
  <2>1. m \in 1..L /\ m # L /\ m + 1 \in 1..L
    BY <1>1, <1>5
  <2>2. SubSeq(segments, 1, m) \in Seq(Segments) /\ Spells(at[m], SubSeq(segments, 1, m))
    BY <1>3, <1>5, <2>1
  <2>3. Spells(at[m] \o <<Slash>> \o segments[m + 1], Append(SubSeq(segments, 1, m), segments[m + 1]))
    BY <1>3, <2>1, <2>2, MoreSpells
  <2>4. Append(SubSeq(segments, 1, m), segments[m + 1]) = SubSeq(segments, 1, m + 1)
    BY <1>1, <2>1
  <2>5. Spells(at[m + 1], SubSeq(segments, 1, m + 1))
    BY <1>2, <2>1, <2>3, <2>4
  <2> QED
    BY <1>1, <2>1, <2>5
<1>6. 0..(L - 1) \subseteq T
  <2> DEFINE M == L - 1
  <2>1. M \in Nat
    BY <1>1
  <2> HIDE DEF T, M
  <2>2. 0..M \subseteq T
    BY <1>4, <1>5, <2>1, CountingTo DEF M
  <2> QED
    BY <2>2 DEF M
<1>7. Spells(at[L], SubSeq(segments, 1, L))
  <2>1. L - 1 \in 0..(L - 1) /\ (L - 1) + 1 = L
    BY <1>1
  <2>2. L - 1 \in T
    <3> HIDE DEF T
    <3> QED
      BY <1>6, <2>1
  <2> QED
    BY <2>1, <2>2
<1> QED
  BY <1>1, <1>2, <1>7, SubSeqFull

\* And what is spelled is safe, and leads through just these segments.
LEMMA SpelledIsSafe ==
  ASSUME NEW segments \in Seq(Segments), segments # <<>>, NEW text, Spells(text, segments)
  PROVE  text \in Texts /\ Safe(text) /\ Components(text) = segments /\ Leads(text) = segments
<1>1. text \in Texts /\ Components(text) = segments
  BY DEF Spells
<1>2. Leads(text) = segments
  <2>1. \A p \in Pieces(text) : Piece(text, p) # <<Dot>>
    BY SegmentIs DEF Spells
  <2>2. {p \in Pieces(text) : Piece(text, p) # <<Dot>>} = Pieces(text)
    BY <2>1
  <2> QED
    BY <1>1, <2>2 DEF Leads, Components
<1>3. ASSUME NEW n \in DOMAIN segments PROVE segments[n] # <<Dot, Dot>> /\ ~Contains(segments[n], Colon)
  <2>1. segments[n] \in Segments
    OBVIOUS
  <2> HIDE DEF Segments
  <2>2. ~Contains(segments[n], Colon)
    BY <2>1, SegmentIs DEF Contains
  <2> QED
    BY <2>1, <2>2 DEF Segments
<1> QED
  BY <1>1, <1>2, <1>3 DEF Safe, Spells

\* Concatenation, as an operation of which only this is known.
Cat(u, v) == u \o v

LEMMA CatIs ==
  ASSUME NEW u \in Texts, NEW v \in Texts
  PROVE  Cat(u, v) \in Texts /\ \A w \in Texts : Cat(Cat(u, v), w) = Cat(u, Cat(v, w))
<1>1. Cat(u, v) \in Texts
  BY DEF Cat, Texts
<1>2. ASSUME NEW w \in Texts PROVE Cat(Cat(u, v), w) = Cat(u, Cat(v, w))
  <2>1. u \in Seq(Char) /\ v \in Seq(Char) /\ w \in Seq(Char)
    BY DEF Texts
  <2>2. (u \o v) \o w = u \o (v \o w)
    BY ONLY <2>1
  <2> QED
    BY <2>2 DEF Cat
<1> QED
  BY <1>1, <1>2

LEMMA GlueAgain ==
  ASSUME NEW x \in Texts, NEW y \in Texts, NEW z \in Texts
  PROVE  (x \o <<Slash>> \o y) \o <<Slash>> \o z = x \o <<Slash>> \o (y \o <<Slash>> \o z)
<1> DEFINE s == <<Slash>>
           p == Cat(x, s)
           q == Cat(y, s)
<1>1. s \in Texts
  BY PathRulesAssumption DEF Texts
<1> HIDE DEF s
<1>2. p \in Texts /\ q \in Texts
  BY <1>1, CatIs
<1>3. Cat(Cat(p, y), s) = Cat(p, q)
  <2> HIDE DEF p
  <2> QED
    BY <1>1, <1>2, CatIs
<1>4. Cat(Cat(p, q), z) = Cat(p, Cat(q, z))
  <2> HIDE DEF p, q
  <2> QED
    BY <1>2, CatIs
<1>5. Cat(Cat(Cat(p, y), s), z) = Cat(p, Cat(q, z))
  BY <1>3, <1>4
<1> QED
  BY <1>5 DEF Cat, s

\* Joining in two steps is joining.
LEMMA JoinConcat ==
  ASSUME NEW a \in Seq(Texts), a # <<>>, NEW b \in Seq(Texts), b # <<>>
  PROVE  Join(a) \o <<Slash>> \o Join(b) = Join(a \o b)
<1> DEFINE A == Len(a)
           B == Len(b)
           c == a \o b
<1>1. /\ A \in Nat /\ A >= 1 /\ B \in Nat /\ B >= 1
      /\ \A n \in 1..A : a[n] \in Texts
      /\ \A n \in 1..B : b[n] \in Texts
  OBVIOUS
<1>2. /\ c \in Seq(Texts) /\ c # <<>> /\ Len(c) = A + B
      /\ \A n \in 1..A : c[n] = a[n]
      /\ \A n \in 1..B : c[A + n] = b[n]
  OBVIOUS
<1> HIDE DEF c
<1>3. PICK f \in [1..A -> Texts] :
          /\ f[1] = a[1]
          /\ \A n \in 1..A : n # A => f[n + 1] = f[n] \o <<Slash>> \o a[n + 1]
          /\ Join(a) = f[A]
  BY Joining
<1>4. PICK g \in [1..B -> Texts] :
          /\ g[1] = b[1]
          /\ \A n \in 1..B : n # B => g[n + 1] = g[n] \o <<Slash>> \o b[n + 1]
          /\ Join(b) = g[B]
  BY Joining
<1> HIDE DEF A, B
<1>5. PICK h \in [1..(A + B) -> Texts] :
          /\ h[1] = c[1]
          /\ \A n \in 1..(A + B) : n # A + B => h[n + 1] = h[n] \o <<Slash>> \o c[n + 1]
          /\ Join(c) = h[A + B]
  BY <1>2, Joining
<1> DEFINE S == {n \in 0..(A - 1) : h[n + 1] = f[n + 1]}
           T == {n \in 0..(B - 1) : h[A + n + 1] = f[A] \o <<Slash>> \o g[n + 1]}
<1>6. 0 \in S
  BY <1>1, <1>2, <1>3, <1>5
<1>7. ASSUME NEW n \in 0..(A - 1), n \in S, n # A - 1 PROVE n + 1 \in S
  <2>1. n + 1 \in 1..A /\ n + 1 # A /\ n + 1 \in 1..(A + B) /\ n + 1 # A + B /\ n + 1 + 1 \in 1..A
    BY <1>1, <1>7
  <2>2. h[n + 1 + 1] = h[n + 1] \o <<Slash>> \o c[n + 1 + 1]
    BY <1>5, <2>1
  <2>3. f[n + 1 + 1] = f[n + 1] \o <<Slash>> \o a[n + 1 + 1]
    BY <1>3, <2>1
  <2>4. h[n + 1] = f[n + 1] /\ c[n + 1 + 1] = a[n + 1 + 1]
    BY <1>2, <1>7, <2>1
  <2>5. n + 1 \in 0..(A - 1)
    BY <1>1, <2>1
  <2>6. h[n + 1 + 1] = f[n + 1 + 1]
    BY <2>2, <2>3, <2>4
  <2> QED
    BY <2>5, <2>6
<1>8. h[A] = f[A]
  <2> DEFINE M == A - 1
  <2>1. M \in Nat /\ M + 1 = A
    BY <1>1
  <2> HIDE DEF S, M
  <2>2. 0..M \subseteq S
    BY <1>6, <1>7, <2>1, CountingTo DEF M
  <2>3. M \in S
    BY <2>1, <2>2
  <2> QED
    BY <2>1, <2>3 DEF S
<1>9. 0 \in T
  <2>1. A \in 1..(A + B) /\ A # A + B /\ A + 0 + 1 = A + 1 /\ 0 + 1 = 1 /\ 1 \in 1..B /\ 0 \in 0..(B - 1)
    BY <1>1
  <2>2. h[A + 1] = h[A] \o <<Slash>> \o c[A + 1]
    BY <1>5, <2>1
  <2>3. c[A + 1] = g[1]
    BY <1>2, <1>4, <2>1
  <2> QED
    BY <1>8, <2>1, <2>2, <2>3
<1>10. ASSUME NEW n \in 0..(B - 1), n \in T, n # B - 1 PROVE n + 1 \in T
  <2>1. /\ n + 1 \in 1..B /\ n + 1 # B /\ n + 1 + 1 \in 1..B /\ n + 1 \in 0..(B - 1)
        /\ A + n + 1 \in 1..(A + B) /\ A + n + 1 # A + B
        /\ A + (n + 1) + 1 = (A + n + 1) + 1 /\ (A + n + 1) + 1 = A + (n + 1 + 1)
    BY <1>1, <1>10
  <2>2. h[(A + n + 1) + 1] = h[A + n + 1] \o <<Slash>> \o c[(A + n + 1) + 1]
    BY <1>5, <2>1
  <2>3. c[(A + n + 1) + 1] = b[n + 1 + 1]
    BY <1>2, <2>1
  <2>4. g[n + 1 + 1] = g[n + 1] \o <<Slash>> \o b[n + 1 + 1]
    BY <1>4, <2>1
  <2>5. h[A + n + 1] = f[A] \o <<Slash>> \o g[n + 1]
    BY <1>10
  <2>6. f[A] \in Texts /\ g[n + 1] \in Texts /\ b[n + 1 + 1] \in Texts /\ <<Slash>> \in Texts
    BY <1>1, <2>1, PathRulesAssumption DEF Texts
  <2>7. (f[A] \o <<Slash>> \o g[n + 1]) \o <<Slash>> \o b[n + 1 + 1]
          = f[A] \o <<Slash>> \o (g[n + 1] \o <<Slash>> \o b[n + 1 + 1])
    BY <2>6, GlueAgain
  <2> QED
    BY <2>1, <2>2, <2>3, <2>4, <2>5, <2>7
<1>11. h[A + B] = f[A] \o <<Slash>> \o g[B]
  <2> DEFINE M == B - 1
  <2>1. M \in Nat /\ M + 1 = B /\ A + M + 1 = A + B
    BY <1>1
  <2> HIDE DEF T, M
  <2>2. 0..M \subseteq T
    BY <1>9, <1>10, <2>1, CountingTo DEF M
  <2>3. M \in T
    BY <2>1, <2>2
  <2>4. h[A + M + 1] = f[A] \o <<Slash>> \o g[M + 1]
    BY <2>3 DEF T
  <2> QED
    BY <2>1, <2>4
<1> QED
  BY <1>3, <1>4, <1>5, <1>11 DEF c

----------------------------------------------------------------------------
LEMMA TextsAreTexts == PathsSpec => [](root \in Texts /\ sub \in Texts)
<1> DEFINE Typed == root \in Texts /\ sub \in Texts
<1>1. PathsInit => Typed
  BY DEF PathsInit, Texts
<1>2. Typed /\ [PathsNext]_<<root, sub>> => Typed'
  <2>1. \A text \in Texts, c \in Char : Append(text, c) \in Texts
    BY DEF Texts
  <2> QED
    BY <2>1 DEF PathsNext, NameRoot, NameSub
<1> QED
  BY <1>1, <1>2, PTL DEF PathsSpec

\* What the guard makes of a text it accepts.
LEMMA KeyIs ==
  ASSUME NEW text \in Texts, fSafeRelPath(text) # Refused
  PROVE  /\ Safe(text) /\ Leads(text) \in Seq(Segments) /\ Leads(text) # <<>>
         /\ fSafeRelPath(text) = Join(Leads(text))
<1>1. Safe(text) /\ fSafeRelPath(text) = Join(Leads(text))
  BY GuardIs
<1> QED
  BY <1>1, LeadsAreSegments

\* A key is made of segments again: it is safe, it leads through them, and the guard
\* gives it back.
LEMMA JoinedIs ==
  ASSUME NEW segments \in Seq(Segments), segments # <<>>
  PROVE  /\ Join(segments) \in Texts /\ Join(segments) # Refused
         /\ Safe(Join(segments)) /\ Components(Join(segments)) = segments
         /\ fSafeRelPath(Join(segments)) = Join(segments)
<1>1. Spells(Join(segments), segments)
  BY JoinSpells
<1>2. /\ Join(segments) \in Texts /\ Safe(Join(segments))
      /\ Components(Join(segments)) = segments /\ Leads(Join(segments)) = segments
  BY <1>1, SpelledIsSafe
<1>3. fSafeRelPath(Join(segments)) = Join(segments)
  BY <1>2, GuardIs
<1> QED
  BY <1>2, <1>3 DEF Safe, Refused

\* The guard accepts exactly the safe paths, and its key leads where the path led,
\* whatever the path (fSafeRelPath).
THEOREM GuardIsExact == PathsSpec => []KeysAreExact
<1>1. ASSUME root \in Texts PROVE KeysAreExact
  <2>1. fSafeRelPath(root) # Refused => Safe(root) /\ Components(fSafeRelPath(root)) = Leads(root)
    BY <1>1, KeyIs, JoinedIs
  <2>2. Safe(root) => fSafeRelPath(root) # Refused
    BY <1>1, GuardIs, LeadsAreSegments, JoinedIs
  <2> QED
    BY <2>1, <2>2 DEF KeysAreExact
<1> QED
  BY <1>1, TextsAreTexts, PTL

\* To validate a key is to get it back, whatever path it was made of.
THEOREM GuardIsStable == PathsSpec => []KeysAreStable
<1>1. ASSUME root \in Texts PROVE KeysAreStable
  BY <1>1, KeyIs, JoinedIs DEF KeysAreStable
<1> QED
  BY <1>1, TextsAreTexts, PTL

\* Below a shared folder's key a sub path's key is one of the same tree, the one
\* the owner would use (fEffectivePath).
THEOREM SubPathsStayInside == PathsSpec => []SharesStayInside
<1>1. ASSUME root \in Texts, sub \in Texts PROVE SharesStayInside
  <2> DEFINE shared == fSafeRelPath(root)
             reached == fEffectivePath(shared, sub)
  <2> SUFFICES ASSUME shared # Refused, reached # Refused
               PROVE  fOwnerFullPath(reached) = reached /\ IsPrefix(Components(shared), Components(reached))
    BY DEF SharesStayInside
  <2>1. PICK a \in Seq(Segments) : a # <<>> /\ shared = Join(a)
    BY <1>1, KeyIs
  <2>2. shared \in Texts /\ Components(shared) = a /\ fSafeRelPath(shared) = shared
    BY <2>1, JoinedIs
  <2>3. CASE sub = <<>>
    <3>1. reached = shared
      BY <2>3 DEF fEffectivePath
    <3>2. IsPrefix(a, a)
      BY DEF IsPrefix
    <3> QED
      BY <2>2, <3>1, <3>2 DEF fOwnerFullPath
  <2>4. CASE sub # <<>>
    <3>1. fSafeRelPath(sub) # Refused /\ reached = shared \o <<Slash>> \o fSafeRelPath(sub)
      BY <2>4 DEF fEffectivePath
    <3>2. PICK b \in Seq(Segments) : b # <<>> /\ fSafeRelPath(sub) = Join(b)
      BY <1>1, <3>1, KeyIs
    <3> HIDE DEF shared, reached
    <3>3. a \in Seq(Texts) /\ b \in Seq(Texts)
      BY SegmentIs
    <3>4. reached = Join(a \o b)
      BY <2>1, <3>1, <3>2, <3>3, JoinConcat
    <3>5. a \o b \in Seq(Segments) /\ a \o b # <<>>
      BY <2>1
    <3>6. fSafeRelPath(reached) = reached /\ Components(reached) = a \o b
      BY <3>4, <3>5, JoinedIs
    <3>7. IsPrefix(a, a \o b)
      BY DEF IsPrefix
    <3> QED
      BY <2>2, <3>6, <3>7 DEF fOwnerFullPath
  <2> QED
    BY <2>3, <2>4
<1> QED
  BY <1>1, TextsAreTexts, PTL
============================================================================
