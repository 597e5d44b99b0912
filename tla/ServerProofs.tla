---------------------------- MODULE ServerProofs ----------------------------
(***************************************************************************)
(* No process serves on a database that lacks a script of its release, no  *)
(* comment is lost, the scripts take effect whole and in order, and no     *)
(* download page shows an old release, for any number of processes,        *)
(* visitors and retries.                                                   *)
(***************************************************************************)
EXTENDS Server, WellFoundedInduction, TLAPS

Fields == {"step", "script", "statement", "work"}
Applying == {"check", "begin", "transaction"}

\* A process that is at a script has found or recorded all before it, and what
\* is recorded stays recorded.
IInv ==
    /\ DOMAIN proc = Procs
    /\ \A p \in Procs :
           /\ DOMAIN proc[p] = Fields
           /\ proc[p].script \in Nat
           /\ proc[p].step \in Applying =>
                  proc[p].script # 0 /\ 1..(proc[p].script - 1) \subseteq ledger
    /\ ServesOnItsSchema

LEMMA ShipsFit == Ships \in [Procs -> 0..Scripts]
  BY MigrationsAssumption DEF MigrationsAssumption

LEMMA DownFields == DOMAIN Down = Fields /\ Down.step = "down" /\ Down.script = 0
  BY DEF Down, Fields

\* A process that moves on keeps the invariant if the ledger does not shrink and
\* covers what it has got to.
LEMMA MovesOn ==
  ASSUME IInv, NEW p \in Procs, NEW new, proc' = [proc EXCEPT ![p] = new],
         DOMAIN new = Fields, new.script \in Nat,
         ledger \subseteq ledger',
         new.step \in Applying => new.script # 0 /\ 1..(new.script - 1) \subseteq ledger',
         new.step = "serving" => 1..Ships[p] \subseteq ledger'
  PROVE  IInv'
<1>1. \A q \in Procs : proc'[q] = IF q = p THEN new ELSE proc[q]
  BY DEF IInv
<1> QED
  BY <1>1 DEF IInv, ServesOnItsSchema, At

LEMMA Inductive == IInv /\ [Next]_vars => IInv'
<1> SUFFICES ASSUME IInv, [Next]_vars PROVE IInv'
  OBVIOUS
<1> USE ShipsFit, DownFields
<1>0. ASSUME NEW p \in Procs PROVE DOMAIN proc[p] = Fields /\ proc[p].script \in Nat
  BY DEF IInv
<1>1. ASSUME NEW p \in Procs, Start(p) PROVE IInv'
  <2> DEFINE new == [proc[p] EXCEPT !.step = "check", !.script = 1]
  <2>1. proc' = [proc EXCEPT ![p] = new] /\ ledger' = ledger
    BY <1>1 DEF Start, IInv
  <2>2. DOMAIN new = Fields /\ new.script = 1 /\ new.step = "check"
    BY <1>0 DEF Fields
  <2> HIDE DEF new
  <2>3. new.script \in Nat \ {0} /\ 1..(new.script - 1) \subseteq ledger'
    BY <2>2
  <2>4. ledger \subseteq ledger' /\ new.step # "serving"
    BY <2>1, <2>2
  <2> QED
    BY <2>1, <2>2, <2>3, <2>4, MovesOn
<1>2. ASSUME NEW p \in Procs, Check(p) PROVE IInv'
  <2>1. proc[p].script \in Nat \ {0} /\ 1..(proc[p].script - 1) \subseteq ledger /\ ledger' = ledger
    BY <1>2 DEF Check, At, IInv, Applying
  <2>2. CASE proc[p].script \in ledger
    <3> DEFINE new == [proc[p] EXCEPT !.script = proc[p].script + 1]
    <3>1. proc' = [proc EXCEPT ![p] = new]
      BY <1>2, <2>2 DEF Check, IInv
    <3>2. DOMAIN new = Fields /\ new.script = proc[p].script + 1 /\ new.step = "check"
      BY <1>0, <1>2 DEF Fields, Check, At
    <3>3. new.script \in Nat \ {0} /\ 1..(new.script - 1) \subseteq ledger
      BY <2>1, <2>2, <3>2
    <3> HIDE DEF new
    <3> QED
      BY <2>1, <3>1, <3>2, <3>3, MovesOn
  <2>3. CASE proc[p].script \notin ledger
    <3> DEFINE new == [proc[p] EXCEPT !.step = "begin"]
    <3>1. proc' = [proc EXCEPT ![p] = new]
      BY <1>2, <2>3 DEF Check, IInv
    <3>2. DOMAIN new = Fields /\ new.script = proc[p].script /\ new.step = "begin"
      BY <1>0 DEF Fields
    <3> HIDE DEF new
    <3> QED
      BY <2>1, <3>1, <3>2, MovesOn
  <2> QED
    BY <2>2, <2>3
<1>3. ASSUME NEW p \in Procs, Begin(p) PROVE IInv'
  <2> DEFINE new == [proc[p] EXCEPT !.step = "transaction", !.statement = 1, !.work = database]
  <2>1. proc' = [proc EXCEPT ![p] = new] /\ ledger' = ledger
    BY <1>3 DEF Begin, IInv
  <2>2. DOMAIN new = Fields /\ new.script = proc[p].script /\ new.step = "transaction"
    BY <1>0 DEF Fields
  <2>3. proc[p].script \in Nat \ {0} /\ 1..(proc[p].script - 1) \subseteq ledger
    BY <1>3 DEF Begin, At, IInv, Applying
  <2> HIDE DEF new
  <2> QED
    BY <2>1, <2>2, <2>3, MovesOn
<1>4. ASSUME NEW p \in Procs, Run(p) PROVE IInv'
  <2> DEFINE new == [proc[p] EXCEPT !.work = Effect(Statement(p), proc[p].work),
                                    !.statement = proc[p].statement + 1]
  <2>1. proc' = [proc EXCEPT ![p] = new] /\ ledger' = ledger
    BY <1>4 DEF Run, IInv
  <2>2. DOMAIN new = Fields /\ new.script = proc[p].script /\ new.step = "transaction"
    BY <1>0, <1>4 DEF Fields, Run, At
  <2>3. proc[p].script \in Nat \ {0} /\ 1..(proc[p].script - 1) \subseteq ledger
    BY <1>4 DEF Run, At, IInv, Applying
  <2> HIDE DEF new
  <2> QED
    BY <2>1, <2>2, <2>3, MovesOn
<1>5. ASSUME NEW p \in Procs, Commit(p) PROVE IInv'
  <2> DEFINE new == [Down EXCEPT !.step = "check", !.script = proc[p].script + 1]
  <2>1. proc[p].script \in Nat \ {0} /\ 1..(proc[p].script - 1) \subseteq ledger
    BY <1>5 DEF Commit, At, IInv, Applying
  <2>2. proc' = [proc EXCEPT ![p] = new] /\ ledger' = ledger \cup {proc[p].script}
    BY <1>5 DEF Commit
  <2>3. DOMAIN new = Fields /\ new.script = proc[p].script + 1 /\ new.step = "check"
    BY DEF Fields
  <2> HIDE DEF new
  <2>4. new.script \in Nat \ {0} /\ 1..(new.script - 1) \subseteq ledger'
    BY <2>1, <2>2, <2>3
  <2> QED
    BY <2>2, <2>3, <2>4, MovesOn
<1>6. ASSUME NEW p \in Procs, Throw(p) \/ Crash(p) PROVE IInv'
  BY <1>6, MovesOn DEF Throw, Crash, Applying
<1>7. ASSUME NEW p \in Procs, Serve(p) PROVE IInv'
  <2> DEFINE new == [Down EXCEPT !.step = "serving"]
  <2>1. proc' = [proc EXCEPT ![p] = new] /\ ledger' = ledger
    BY <1>7 DEF Serve
  <2>2. DOMAIN new = Fields /\ new.script = 0 /\ new.step = "serving"
    BY DEF Fields
  <2>3. Ships[p] \in Nat /\ proc[p].script \in Nat /\ Ships[p] < proc[p].script
    BY <1>0, <1>7 DEF Serve
  <2>4. 1..(proc[p].script - 1) \subseteq ledger
    BY <1>7 DEF Serve, At, IInv, Applying
  <2>5. 1..Ships[p] \subseteq ledger
    BY <2>3, <2>4
  <2> HIDE DEF new
  <2>6. new.script \in Nat /\ new.step \notin Applying
    BY <2>2 DEF Applying
  <2> QED
    BY <2>1, <2>2, <2>5, <2>6, MovesOn
<1>8. ASSUME NEW p \in Procs, NEW c \in Comments, Comment(p, c) PROVE IInv'
  BY <1>8 DEF Comment, IInv, ServesOnItsSchema, At
<1>9. CASE UNCHANGED vars
  BY <1>9 DEF vars, IInv, ServesOnItsSchema, At
<1> QED
  BY <1>1, <1>2, <1>3, <1>4, <1>5, <1>6, <1>7, <1>8, <1>9 DEF Next, StartUp

\* Whatever starts, fails, dies and competes: a process that serves has every
\* script of its release recorded in the database it serves from.
THEOREM SchemaIsThere == Spec => []ServesOnItsSchema
<1>1. Init => IInv
  BY DownFields DEF Init, IInv, ServesOnItsSchema, At, Applying
<1>2. IInv => ServesOnItsSchema
  BY DEF IInv
<1> QED
  BY <1>1, <1>2, Inductive, PTL DEF Spec
----------------------------------------------------------------------------
(* Comments survive *)

\* Where a transaction has the comments: while 0004 rebuilds their table, and
\* until it has copied them, in the renamed one.
Place(p) ==
    IF proc[p].script = 4 /\ proc[p].statement \in {4, 5} THEN "comments_v1" ELSE "comments"

\* One process writes at a time, and its transaction has every comment; nobody
\* else changes the database meanwhile.
CommentsInv ==
    /\ written \subseteq Comments
    /\ \A p \in Procs :
           /\ proc[p].step \in {"begin", "transaction"} => proc[p].script \in 1..8
           /\ At(p, "transaction") =>
                  /\ proc[p].statement \in Nat \ {0}
                  /\ \A c \in written : <<Place(p), c>> \in proc[p].work
                  /\ \A q \in Procs : At(q, "transaction") => q = p
    /\ CommentsSurvive

LEMMA EightScripts == Scripts = 8 /\ DOMAIN Script = 1..8
  BY DEF Scripts, Script

\* The scripts but 0004 only add.
LEMMA Additions ==
  ASSUME NEW n \in 1..8, n # 4, NEW k \in 1..Len(Script[n])
  PROVE  Script[n][k].op \in {"create", "add", "index"}
<1>1. CASE n = 1
  BY <1>1 DEF Script, Users, Create
<1>2. CASE n = 2
  BY <1>2 DEF Script, ApiToken, AddColumn, CreateIndex
<1>3. CASE n = 3
  BY <1>3 DEF Script, SharesComments, Create, CreateIndex
<1>5. CASE n = 5
  BY <1>5 DEF Script, CommentAnchors, AddColumn
<1>6. CASE n = 6
  BY <1>6 DEF Script, CustomFonts, Create, CreateIndex
<1>7. CASE n = 7
  BY <1>7 DEF Script, DeletedFiles, Create
<1>8. CASE n = 8
  BY <1>8 DEF Script, SessionRows, Create, CreateIndex
<1> QED
  BY <1>1, <1>2, <1>3, <1>5, <1>6, <1>7, <1>8

LEMMA AddsOnly ==
  ASSUME NEW s, NEW d, s.op \in {"create", "add", "index"}
  PROVE  d \subseteq Effect(s, d)
BY DEF Effect

\* A statement finds the comments where they are and leaves them where the next
\* one looks for them.
LEMMA StatementKeeps ==
  ASSUME NEW n \in 1..8, NEW k \in 1..Len(Script[n]), NEW d, NEW c \in Comments,
         <<IF n = 4 /\ k \in {4, 5} THEN "comments_v1" ELSE "comments", c>> \in d
  PROVE  <<IF n = 4 /\ k + 1 \in {4, 5} THEN "comments_v1" ELSE "comments", c>>
             \in Effect(Script[n][k], d)
<1>1. CASE n # 4
  BY <1>1, Additions, AddsOnly
<1>2. CASE n = 4
  <2>1. Script[4] = ShareLinks /\ k \in 1..7
    BY <1>2 DEF Script, ShareLinks
  <2>2. CASE k \in {1, 2, 4, 7}
    <3>1. ShareLinks[k].op \in {"create", "index"}
      BY <2>2 DEF ShareLinks, Create, CreateIndex
    <3> QED
      BY <1>2, <2>1, <2>2, <3>1, AddsOnly
  <2>3. CASE k = 3
    <3>1. ShareLinks[3] = RenameTable("comments", "comments_v1")
      BY DEF ShareLinks
    <3>2. <<"comments_v1", c>> \in Effect(ShareLinks[3], d)
      BY <1>2, <2>3, <3>1 DEF Effect, RenameTable
    <3> QED
      BY <1>2, <2>1, <2>3, <3>2
  <2>4. CASE k = 5
    <3>1. ShareLinks[5] = CopyRows("comments_v1", "comments")
      BY DEF ShareLinks
    <3>2. <<"comments", c>> \in Effect(ShareLinks[5], d)
      BY <1>2, <2>4, <3>1 DEF Effect, CopyRows, Rows
    <3> QED
      BY <1>2, <2>1, <2>4, <3>2
  <2>5. CASE k = 6
    <3>1. ShareLinks[6] = Drop("comments_v1")
      BY DEF ShareLinks
    <3>2. <<"comments", c>> \in Effect(ShareLinks[6], d)
      BY <1>2, <2>5, <3>1 DEF Effect, Drop
    <3> QED
      BY <1>2, <2>1, <2>5, <3>2
  <2> QED
    BY <2>1, <2>2, <2>3, <2>4, <2>5
<1> QED
  BY <1>1, <1>2

\* A process outside its transaction, or that ends it, has nothing to keep.
LEMMA OutOfTransaction ==
  ASSUME IInv, CommentsInv, NEW p \in Procs, NEW new, proc' = [proc EXCEPT ![p] = new],
         UNCHANGED <<database, written>>,
         new.step # "transaction", new.step = "begin" => new.script \in 1..8
  PROVE  CommentsInv'
<1>1. \A q \in Procs : proc'[q] = IF q = p THEN new ELSE proc[q]
  BY DEF IInv
<1>2. \A q \in Procs : proc'[q].step = "transaction" => q # p /\ proc'[q] = proc[q]
  BY <1>1
<1> QED
  BY <1>1, <1>2 DEF CommentsInv, CommentsSurvive, At, Place

LEMMA CommentsInductive == IInv /\ CommentsInv /\ [Next]_vars => CommentsInv'
<1> SUFFICES ASSUME IInv, CommentsInv, [Next]_vars PROVE CommentsInv'
  OBVIOUS
<1>0. ASSUME NEW p \in Procs PROVE DOMAIN proc[p] = Fields /\ proc[p].script \in Nat
  BY DEF IInv
<1>1. ASSUME NEW p \in Procs, Start(p) PROVE CommentsInv'
  <2> DEFINE new == [proc[p] EXCEPT !.step = "check", !.script = 1]
  <2>1. proc' = [proc EXCEPT ![p] = new] /\ UNCHANGED <<database, written>>
    BY <1>1 DEF Start, IInv
  <2>2. new.step = "check"
    BY <1>0 DEF Fields
  <2> HIDE DEF new
  <2> QED
    BY <2>1, <2>2, OutOfTransaction
<1>2. ASSUME NEW p \in Procs, Check(p) PROVE CommentsInv'
  <2>1. CASE proc[p].script \in ledger
    <3> DEFINE new == [proc[p] EXCEPT !.script = proc[p].script + 1]
    <3>1. proc' = [proc EXCEPT ![p] = new] /\ UNCHANGED <<database, written>>
      BY <1>2, <2>1 DEF Check, IInv
    <3>2. new.step = "check"
      BY <1>0, <1>2 DEF Fields, Check, At
    <3> HIDE DEF new
    <3> QED
      BY <3>1, <3>2, OutOfTransaction
  <2>2. CASE proc[p].script \notin ledger
    <3> DEFINE new == [proc[p] EXCEPT !.step = "begin"]
    <3>1. proc' = [proc EXCEPT ![p] = new] /\ UNCHANGED <<database, written>>
      BY <1>2, <2>2 DEF Check, IInv
    <3>2. new.step = "begin" /\ new.script = proc[p].script
      BY <1>0 DEF Fields
    <3>3. proc[p].script \in 1..8
      BY <1>0, <1>2, ShipsFit, EightScripts
      DEF Check, At, IInv, Applying
    <3> HIDE DEF new
    <3> QED
      BY <3>1, <3>2, <3>3, OutOfTransaction
  <2> QED
    BY <2>1, <2>2
<1>3. ASSUME NEW p \in Procs, Begin(p) PROVE CommentsInv'
  <2> DEFINE new == [proc[p] EXCEPT !.step = "transaction", !.statement = 1, !.work = database]
  <2>1. proc' = [proc EXCEPT ![p] = new] /\ UNCHANGED <<database, written>>
    BY <1>3 DEF Begin, IInv
  <2>2. /\ new.step = "transaction" /\ new.statement = 1 /\ new.work = database
        /\ new.script = proc[p].script /\ new.script \in 1..8
    BY <1>0, <1>3 DEF Fields, Begin, At, CommentsInv
  <2> HIDE DEF new
  <2>3. \A q \in Procs : proc'[q] = IF q = p THEN new ELSE proc[q]
    BY <2>1 DEF IInv
  <2>4. \A q \in Procs : q # p => proc'[q].step # "transaction"
    BY <1>3, <2>3 DEF Begin, Locked, At
  <2> QED
    BY <2>1, <2>2, <2>3, <2>4 DEF CommentsInv, CommentsSurvive, Place, At
<1>4. ASSUME NEW p \in Procs, Run(p) PROVE CommentsInv'
  <2> DEFINE n == proc[p].script
             k == proc[p].statement
             new == [proc[p] EXCEPT !.work = Effect(Statement(p), proc[p].work),
                                    !.statement = k + 1]
  <2>1. proc' = [proc EXCEPT ![p] = new] /\ UNCHANGED <<database, written>>
    BY <1>4 DEF Run, IInv
  <2>2. /\ new.step = "transaction" /\ new.statement = k + 1 /\ new.script = n
        /\ new.work = Effect(Script[n][k], proc[p].work)
    BY <1>0, <1>4 DEF Fields, Run, At, Statement
  <2> HIDE DEF new
  <2>3. n \in 1..8 /\ k \in 1..Len(Script[n])
    BY <1>4 DEF Run, At, Finished, CommentsInv
  <2>4. \A c \in written :
            <<IF n = 4 /\ k + 1 \in {4, 5} THEN "comments_v1" ELSE "comments", c>> \in new.work
    <3> SUFFICES ASSUME NEW c \in written
                 PROVE  <<IF n = 4 /\ k + 1 \in {4, 5} THEN "comments_v1" ELSE "comments", c>>
                            \in new.work
      OBVIOUS
    <3>1. c \in Comments
      BY DEF CommentsInv
    <3>2. <<IF n = 4 /\ k \in {4, 5} THEN "comments_v1" ELSE "comments", c>> \in proc[p].work
      BY <1>4 DEF Run, At, CommentsInv, Place
    <3> HIDE DEF n, k
    <3> QED
      BY <2>2, <2>3, <3>1, <3>2, StatementKeeps
  <2>5. \A q \in Procs : proc'[q] = IF q = p THEN new ELSE proc[q]
    BY <2>1 DEF IInv
  <2> QED
    <3>1. At(p, "transaction")
      BY <1>4 DEF Run
    <3>2. k + 1 \in Nat \ {0} /\ \A q \in Procs : At(q, "transaction") => q = p
      BY <2>3, <3>1 DEF CommentsInv
    <3>3. \A c \in written : <<Place(p)', c>> \in new.work
      BY <2>2, <2>4, <2>5 DEF Place
    <3> HIDE DEF n, k
    <3> QED
      BY <2>1, <2>2, <2>3, <2>5, <3>2, <3>3 DEF CommentsInv, CommentsSurvive, At
<1>5. ASSUME NEW p \in Procs, Commit(p) PROVE CommentsInv'
  <2> DEFINE new == [Down EXCEPT !.step = "check", !.script = proc[p].script + 1]
  <2>1. proc' = [proc EXCEPT ![p] = new] /\ written' = written /\ database' = proc[p].work
    BY <1>5 DEF Commit
  <2>2. new.step = "check"
    BY DownFields DEF Fields
  <2> HIDE DEF new
  <2>3. \A c \in written : <<"comments", c>> \in database'
    <3>1. Len(Script[4]) = 7
      BY DEF Script, ShareLinks
    <3>2. proc[p].statement \in Nat /\ proc[p].statement > Len(Script[proc[p].script])
      BY <1>5 DEF Commit, At, Finished, CommentsInv
    <3>3. Place(p) = "comments"
      <4>1. CASE proc[p].script = 4
        <5>1. proc[p].statement > 7
          BY <3>1, <3>2, <4>1
        <5>2. proc[p].statement \notin {4, 5}
          BY <3>2, <5>1
        <5> QED
          BY <5>2 DEF Place
      <4>2. CASE proc[p].script # 4
        BY <4>2 DEF Place
      <4> QED
        BY <4>1, <4>2
    <3> QED
      BY <1>5, <2>1, <3>3 DEF Commit, At, CommentsInv
  <2>4. \A q \in Procs : proc'[q] = IF q = p THEN new ELSE proc[q]
    BY <2>1 DEF IInv
  <2>5. \A q \in Procs : proc'[q].step # "transaction"
    BY <1>5, <2>2, <2>4 DEF Commit, At, CommentsInv
  <2> QED
    BY <2>1, <2>2, <2>3, <2>4, <2>5 DEF CommentsInv, CommentsSurvive, At
<1>6. ASSUME NEW p \in Procs, Throw(p) \/ Crash(p) PROVE CommentsInv'
  BY <1>6, DownFields, OutOfTransaction DEF Throw, Crash
<1>7. ASSUME NEW p \in Procs, Serve(p) PROVE CommentsInv'
  <2>1. [Down EXCEPT !.step = "serving"].step = "serving"
    BY DownFields DEF Fields
  <2> QED
    BY <1>7, <2>1, OutOfTransaction DEF Serve
<1>8. ASSUME NEW p \in Procs, NEW c \in Comments, Comment(p, c) PROVE CommentsInv'
  <2>1. \A q \in Procs : proc[q].step # "transaction"
    BY <1>8 DEF Comment, Locked, At
  <2> QED
    BY <1>8, <2>1 DEF Comment, CommentsInv, CommentsSurvive, At
<1>9. CASE UNCHANGED vars
  BY <1>9 DEF vars, CommentsInv, CommentsSurvive, Place, At
<1> QED
  BY <1>1, <1>2, <1>3, <1>4, <1>5, <1>6, <1>7, <1>8, <1>9 DEF Next, StartUp

\* No comment is lost to the rebuilding of its table, whoever starts, serves and
\* dies at the same time.
THEOREM CommentsAreKept == Spec => []CommentsSurvive
<1>1. Init => IInv /\ CommentsInv
  BY DownFields DEF Init, IInv, ServesOnItsSchema, CommentsInv, CommentsSurvive, At, Applying
<1>2. CommentsInv => CommentsSurvive
  BY DEF CommentsInv
<1> QED
  BY <1>1, <1>2, Inductive, CommentsInductive, PTL DEF Spec
----------------------------------------------------------------------------
(* The scripts take effect whole *)

\* What holds of 0 and of each next number up to L holds up to L.
LEMMA CountingTo ==
  ASSUME NEW L \in Nat, NEW S, 0 \in S, \A n \in 0..L : n \in S /\ n # L => n + 1 \in S
  PROVE  0..L \subseteq S
<1> DEFINE Bad == (0..L) \ S
<1> SUFFICES ASSUME Bad # {} PROVE FALSE
  OBVIOUS
<1>1. PICK n \in Bad : \A m \in Bad : ~ (<<m, n>> \in OpToRel(<, Nat))
  <2>1. Bad \subseteq Nat
    OBVIOUS
  <2> HIDE DEF Bad
  <2> QED
    BY <2>1, NatLessThanWellFounded, WFMin
<1>2. n \in 0..L /\ n # 0 /\ n - 1 \in 0..L /\ n - 1 # L /\ n - 1 < n /\ (n - 1) + 1 = n
  OBVIOUS
<1>3. <<n - 1, n>> \in OpToRel(<, Nat)
  BY <1>2 DEF OpToRel
<1>4. n - 1 \in S
  BY <1>1, <1>2, <1>3
<1> QED
  BY <1>2, <1>4

\* The statements of a script one after the other.
MadeBy(f, script, d, n) == f = [k \in 0..n |-> IF k = 0 THEN d ELSE Effect(script[k], f[k - 1])]

LEMMA StatementsInTurn ==
  ASSUME NEW script, NEW d, Len(script) \in Nat
  PROVE  /\ Made(script, d)[0] = d
         /\ \A k \in 1..Len(script) : Made(script, d)[k] = Effect(script[k], Made(script, d)[k - 1])
<1> DEFINE L == Len(script)
           S == {n \in 0..L : \E f : MadeBy(f, script, d, n)}
<1>1. 0 \in S
  <2> DEFINE f == [k \in 0..0 |-> d]
  <2>1. MadeBy(f, script, d, 0)
    BY DEF MadeBy
  <2> QED
    BY <2>1
<1>2. ASSUME NEW n \in 0..L, n \in S, n # L PROVE n + 1 \in S
  <2>1. PICK f : MadeBy(f, script, d, n)
    BY <1>2
  <2> DEFINE g == [k \in 0..(n + 1) |-> IF k = n + 1 THEN Effect(script[k], f[k - 1]) ELSE f[k]]
  <2>2. \A k \in 0..(n + 1) : k # n + 1 => g[k] = f[k] /\ k \in 0..n
    OBVIOUS
  <2>3. \A k \in 0..(n + 1) : k # 0 => g[k - 1] = f[k - 1]
    BY <2>2
  <2>4. \A k \in 0..(n + 1) : g[k] = IF k = 0 THEN d ELSE Effect(script[k], g[k - 1])
    <3> SUFFICES ASSUME NEW k \in 0..(n + 1)
                 PROVE  g[k] = IF k = 0 THEN d ELSE Effect(script[k], g[k - 1])
      OBVIOUS
    <3>1. k = n + 1 => g[k] = Effect(script[k], f[k - 1]) /\ k # 0
      OBVIOUS
    <3>2. k # n + 1 => g[k] = f[k] /\ k \in 0..n
      BY <2>2
    <3>3. k # 0 => g[k - 1] = f[k - 1]
      BY <2>3
    <3>4. \A j \in 0..n : f[j] = IF j = 0 THEN d ELSE Effect(script[j], f[j - 1])
      BY <2>1 DEF MadeBy
    <3> HIDE DEF g
    <3> QED
      BY <3>1, <3>2, <3>3, <3>4
  <2>5. MadeBy(g, script, d, n + 1)
    BY <2>4 DEF MadeBy
  <2> QED
    BY <1>2, <2>5
<1>3. \E f : MadeBy(f, script, d, L)
  <2>1. 0..L \subseteq S
    <3> HIDE DEF S
    <3> QED
      BY <1>1, <1>2, CountingTo
  <2> QED
    BY <2>1
<1>4. Made(script, d) = CHOOSE f : MadeBy(f, script, d, L)
  BY DEF Made, MadeBy
<1>5. MadeBy(Made(script, d), script, d, L)
  BY <1>3, <1>4
<1> QED
  BY <1>5 DEF MadeBy

\* The scripts one after the other.
SchemasBy(f, m) ==
  f = [n \in 0..m |-> IF n = 0 THEN {} ELSE Made(Script[n], f[n - 1])[Len(Script[n])]]

LEMMA ScriptsInTurn ==
  /\ SchemaAfter[0] = {}
  /\ \A n \in 1..8 : SchemaAfter[n] = Made(Script[n], SchemaAfter[n - 1])[Len(Script[n])]
<1> DEFINE S == {n \in 0..8 : \E f : SchemasBy(f, n)}
<1>1. 0 \in S
  <2> DEFINE f == [n \in 0..0 |-> {}]
  <2>1. SchemasBy(f, 0)
    BY DEF SchemasBy
  <2> QED
    BY <2>1
<1>2. ASSUME NEW m \in 0..8, m \in S, m # 8 PROVE m + 1 \in S
  <2>1. PICK f : SchemasBy(f, m)
    BY <1>2
  <2> DEFINE Then(n, before) == Made(Script[n], before)[Len(Script[n])]
             g == [n \in 0..(m + 1) |-> IF n = m + 1 THEN Then(n, f[n - 1]) ELSE f[n]]
  <2> HIDE DEF Then
  <2>2. \A n \in 0..(m + 1) : n # m + 1 => g[n] = f[n] /\ n \in 0..m
    OBVIOUS
  <2>3. \A n \in 0..(m + 1) : n # 0 => g[n - 1] = f[n - 1]
    BY <2>2
  <2>4. \A n \in 0..m : f[n] = IF n = 0 THEN {} ELSE Then(n, f[n - 1])
    BY <2>1 DEF SchemasBy, Then
  <2>5. \A n \in 0..(m + 1) : g[n] = IF n = 0 THEN {} ELSE Then(n, g[n - 1])
    <3> SUFFICES ASSUME NEW n \in 0..(m + 1)
                 PROVE  g[n] = IF n = 0 THEN {} ELSE Then(n, g[n - 1])
      OBVIOUS
    <3>1. n = m + 1 => g[n] = Then(n, f[n - 1]) /\ n # 0
      OBVIOUS
    <3>2. n # m + 1 => g[n] = f[n] /\ n \in 0..m
      BY <2>2
    <3>3. n # 0 => g[n - 1] = f[n - 1]
      BY <2>3
    <3> HIDE DEF g
    <3> QED
      BY <2>4, <3>1, <3>2, <3>3
  <2>6. SchemasBy(g, m + 1)
    BY <2>5 DEF SchemasBy, Then
  <2> QED
    BY <1>2, <2>6
<1>3. \E f : SchemasBy(f, 8)
  <2>1. 0..8 \subseteq S
    <3> HIDE DEF S
    <3> QED
      BY <1>1, <1>2, CountingTo
  <2> QED
    BY <2>1
<1>4. SchemaAfter = CHOOSE f : SchemasBy(f, 8)
  BY EightScripts DEF SchemaAfter, SchemasBy
<1>5. SchemasBy(SchemaAfter, 8)
  BY <1>3, <1>4
<1> DEFINE Then(n, before) == Made(Script[n], before)[Len(Script[n])]
<1>6. SchemaAfter = [n \in 0..8 |-> IF n = 0 THEN {} ELSE Then(n, SchemaAfter[n - 1])]
  BY <1>5 DEF SchemasBy
<1> HIDE DEF Then
<1>7. SchemaAfter[0] = {} /\ \A n \in 1..8 : SchemaAfter[n] = Then(n, SchemaAfter[n - 1])
  BY <1>6
<1> QED
  BY <1>7 DEF Then

\* What there is of d beside the rows: a statement does with it what it does with d.
Bare(d) == {e \in d : e[2] \notin Comments}

LEMMA StatementsAre ==
  ASSUME NEW n \in 1..8, NEW k \in 1..Len(Script[n])
  PROVE  /\ Script[n][k].op \in {"create", "add", "index", "rename", "copy", "drop"}
         /\ Script[n][k].item \notin Comments
<1>1. Script[n][k].item \notin Comments
  BY MigrationsAssumption, EightScripts DEF MigrationsAssumption
<1>2. CASE n # 4
  BY <1>1, <1>2, Additions
<1>3. CASE n = 4
  <2>1. Script[n] = ShareLinks /\ k \in 1..7
    BY <1>3 DEF Script, ShareLinks
  <2>2. ShareLinks[k].op \in {"create", "index", "rename", "copy", "drop"}
    BY <2>1 DEF ShareLinks, Create, CreateIndex, RenameTable, CopyRows, Drop
  <2> QED
    BY <1>1, <2>1, <2>2
<1> QED
  BY <1>2, <1>3

LEMMA RowsApart ==
  ASSUME NEW s, NEW d, s.item \notin Comments,
         s.op \in {"create", "add", "index", "rename", "copy", "drop"}
  PROVE  Bare(Effect(s, d)) = Effect(s, Bare(d))
<1>1. CASE s.op \in {"create", "add", "index"}
  <2>1. \A e : Effect(s, e) = e \cup {<<s.table, s.item>>}
    BY <1>1 DEF Effect
  <2> QED
    BY <2>1 DEF Bare
<1>2. CASE s.op = "rename"
  <2> DEFINE Moved(e) == <<IF e[1] = s.table THEN s.item ELSE e[1], e[2]>>
  <2>1. \A b : Effect(s, b) = {Moved(e) : e \in b}
    BY <1>2 DEF Effect
  <2>2. \A e : Moved(e)[2] = e[2]
    OBVIOUS
  <2> HIDE DEF Moved
  <2> QED
    BY <2>1, <2>2 DEF Bare
<1>3. CASE s.op = "copy"
  <2>1. \A b : Effect(s, b) = b \cup {<<s.item, e[2]>> : e \in Rows(b, s.table)}
    BY <1>3 DEF Effect
  <2>2. Rows(Bare(d), s.table) = {}
    BY DEF Rows, Bare
  <2>3. \A e \in Rows(d, s.table) : <<s.item, e[2]>>[2] \in Comments
    BY DEF Rows
  <2>4. Effect(s, Bare(d)) = Bare(d)
    BY <2>1, <2>2
  <2> QED
    BY <2>1, <2>3, <2>4 DEF Bare
<1>4. CASE s.op = "drop"
  <2>1. \A b : Effect(s, b) = {e \in b : e[1] # s.table}
    BY <1>4 DEF Effect
  <2> QED
    BY <2>1 DEF Bare
<1> QED
  BY <1>1, <1>2, <1>3, <1>4

\* The ledger has the first so many scripts and the database what they make.  Who
\* applies the next one is where its statements have got to; who comes too late,
\* since another process recorded it meanwhile, does not commit.
UpgradeInv ==
    /\ \E m \in 0..8 : ledger = 1..m /\ Structure = SchemaAfter[m]
    /\ \A p \in Procs :
           At(p, "transaction") /\ proc[p].script \notin ledger =>
               LET n == proc[p].script
                   k == proc[p].statement
               IN /\ k \in 1..(Len(Script[n]) + 1)
                  /\ Bare(proc[p].work) = Made(Script[n], SchemaAfter[n - 1])[k - 1]

\* The next script is the one after those recorded.
LEMMA NextScript ==
  ASSUME UpgradeInv, NEW n \in 1..8, 1..(n - 1) \subseteq ledger, n \notin ledger
  PROVE  ledger = 1..(n - 1) /\ Structure = SchemaAfter[n - 1]
<1>1. PICK m \in 0..8 : ledger = 1..m /\ Structure = SchemaAfter[m]
  BY DEF UpgradeInv
<1>2. n > m /\ (n - 1 = 0 \/ n - 1 \in 1..m)
  BY <1>1
<1>3. m = n - 1
  BY <1>2
<1> QED
  BY <1>1, <1>3

LEMMA LengthsAre ==
  ASSUME NEW n \in 1..8
  PROVE  Len(Script[n]) \in Nat
<1>1. /\ Len(Users) = 1 /\ Len(ApiToken) = 2 /\ Len(SharesComments) = 4 /\ Len(ShareLinks) = 7
      /\ Len(CommentAnchors) = 1 /\ Len(CustomFonts) = 2 /\ Len(DeletedFiles) = 1
      /\ Len(SessionRows) = 2
  BY DEF Users, ApiToken, SharesComments, ShareLinks, CommentAnchors, CustomFonts, DeletedFiles,
         SessionRows
<1> QED
  BY <1>1 DEF Script

\* A commit is the next upgrade.
LEMMA CommitUpgrades ==
  ASSUME IInv, CommentsInv, UpgradeInv, NEW p \in Procs, Commit(p)
  PROVE  \E n \in 1..8 : /\ ledger = 1..(n - 1) /\ ledger' = 1..n
                         /\ Structure' = SchemaAfter[n]
<1> DEFINE n == proc[p].script
           k == proc[p].statement
<1>1. n \in 1..8 /\ 1..(n - 1) \subseteq ledger /\ n \notin ledger /\ At(p, "transaction")
  BY DEF Commit, At, IInv, Applying, CommentsInv
<1>2. ledger = 1..(n - 1)
  BY <1>1, NextScript
<1>3. ledger' = 1..n
  <2>1. ledger' = ledger \cup {n}
    BY DEF Commit
  <2> HIDE DEF n
  <2> QED
    BY <1>1, <1>2, <2>1
<1>4. k = Len(Script[n]) + 1
  <2>1. k > Len(Script[n])
    BY DEF Commit, Finished
  <2>2. k \in 1..(Len(Script[n]) + 1)
    BY <1>1 DEF UpgradeInv
  <2>3. Len(Script[n]) \in Nat
    BY <1>1, LengthsAre
  <2> HIDE DEF n, k
  <2> QED
    BY <2>1, <2>2, <2>3
<1>5. Bare(proc[p].work) = Made(Script[n], SchemaAfter[n - 1])[Len(Script[n])]
  <2>1. Bare(proc[p].work) = Made(Script[n], SchemaAfter[n - 1])[k - 1]
    BY <1>1 DEF UpgradeInv
  <2>2. k - 1 = Len(Script[n])
    <3>1. Len(Script[n]) \in Nat
      BY <1>1, LengthsAre
    <3> HIDE DEF n, k
    <3> QED
      BY <1>4, <3>1
  <2> HIDE DEF n, k
  <2> QED
    BY <2>1, <2>2
<1>6. Structure' = SchemaAfter[n]
  <2>1. Structure' = Bare(proc[p].work)
    BY DEF Commit, Structure, Bare
  <2> HIDE DEF n
  <2> QED
    BY <1>1, <1>5, <2>1, ScriptsInTurn
<1> HIDE DEF n
<1> QED
  BY <1>1, <1>2, <1>3, <1>6

\* A step that commits nothing: nobody has got anywhere in a transaction but as
\* the invariant says.
LEMMA NothingCommitted ==
  ASSUME UpgradeInv, ledger' = ledger, Structure' = Structure,
         \A p \in Procs : At(p, "transaction")' =>
             \/ proc'[p] = proc[p]
             \/ proc'[p].script \notin ledger =>
                    LET n == proc'[p].script
                        k == proc'[p].statement
                    IN /\ k \in 1..(Len(Script[n]) + 1)
                       /\ Bare(proc'[p].work) = Made(Script[n], SchemaAfter[n - 1])[k - 1]
  PROVE  UpgradeInv'
BY DEF UpgradeInv, At, Bare

LEMMA Upgrading ==
  ASSUME IInv, CommentsInv, UpgradeInv, [Next]_vars
  PROVE  /\ UpgradeInv'
         /\ \/ UNCHANGED <<Structure, ledger>>
            \/ \E n \in 1..8 : /\ ledger = 1..(n - 1) /\ ledger' = 1..n
                               /\ Structure' = SchemaAfter[n]
<1>0. ASSUME NEW p \in Procs PROVE DOMAIN proc[p] = Fields
  BY DEF IInv
<1>1. ASSUME NEW p \in Procs, NEW new, proc' = [proc EXCEPT ![p] = new], new.step # "transaction",
             UNCHANGED <<database, ledger>>
      PROVE  UpgradeInv' /\ UNCHANGED <<Structure, ledger>>
  <2>1. \A q \in Procs : proc'[q] = IF q = p THEN new ELSE proc[q]
    BY <1>1 DEF IInv
  <2>2. Structure' = Structure
    BY <1>1 DEF Structure
  <2> QED
    BY <1>1, <2>1, <2>2, NothingCommitted DEF At
<1>2. ASSUME NEW p \in Procs, Start(p) \/ Check(p) PROVE UpgradeInv' /\ UNCHANGED <<Structure, ledger>>
  <2>1. CASE Start(p)
    <3> DEFINE new == [proc[p] EXCEPT !.step = "check", !.script = 1]
    <3>1. new.step = "check" /\ proc' = [proc EXCEPT ![p] = new] /\ UNCHANGED <<database, ledger>>
      BY <1>0, <2>1 DEF Fields, Start, IInv
    <3> HIDE DEF new
    <3> QED
      BY <1>1, <3>1
  <2>2. CASE Check(p) /\ proc[p].script \in ledger
    <3> DEFINE new == [proc[p] EXCEPT !.script = proc[p].script + 1]
    <3>1. new.step = "check" /\ proc' = [proc EXCEPT ![p] = new] /\ UNCHANGED <<database, ledger>>
      BY <1>0, <2>2 DEF Fields, Check, At, IInv
    <3> HIDE DEF new
    <3> QED
      BY <1>1, <3>1
  <2>3. CASE Check(p) /\ proc[p].script \notin ledger
    <3> DEFINE new == [proc[p] EXCEPT !.step = "begin"]
    <3>1. new.step = "begin" /\ proc' = [proc EXCEPT ![p] = new] /\ UNCHANGED <<database, ledger>>
      BY <1>0, <2>3 DEF Fields, Check, IInv
    <3> HIDE DEF new
    <3> QED
      BY <1>1, <3>1
  <2> QED
    BY <1>2, <2>1, <2>2, <2>3
<1>3. ASSUME NEW p \in Procs, Begin(p) PROVE UpgradeInv' /\ UNCHANGED <<Structure, ledger>>
  <2> DEFINE n == proc[p].script
             new == [proc[p] EXCEPT !.step = "transaction", !.statement = 1, !.work = database]
  <2>1. proc' = [proc EXCEPT ![p] = new] /\ UNCHANGED <<database, ledger>>
    BY <1>3 DEF Begin, IInv
  <2>2. new.statement = 1 /\ new.work = database /\ new.script = n
    BY <1>0, <1>3 DEF Fields
  <2>3. n \in 1..8 /\ 1..(n - 1) \subseteq ledger
    BY <1>3 DEF Begin, At, IInv, Applying, CommentsInv
  <2>4. \A q \in Procs : proc'[q] = IF q = p THEN new ELSE proc[q]
    BY <2>1 DEF IInv
  <2>5. Structure' = Structure /\ Structure = Bare(database)
    BY <2>1 DEF Structure, Bare
  <2> HIDE DEF new, n
  <2>6. n \notin ledger => /\ 1 \in 1..(Len(Script[n]) + 1)
                           /\ Bare(database) = Made(Script[n], SchemaAfter[n - 1])[1 - 1]
    <3>1. Len(Script[n]) \in Nat
      BY <2>3, LengthsAre
    <3>2. 1 \in 1..(Len(Script[n]) + 1) /\ 1 - 1 = 0
      BY <3>1
    <3>3. Made(Script[n], SchemaAfter[n - 1])[0] = SchemaAfter[n - 1]
      BY <3>1, StatementsInTurn
    <3> QED
      BY <2>3, <2>5, <3>2, <3>3, NextScript
  <2> QED
    BY <2>1, <2>2, <2>4, <2>5, <2>6, NothingCommitted
<1>4. ASSUME NEW p \in Procs, Run(p) PROVE UpgradeInv' /\ UNCHANGED <<Structure, ledger>>
  <2> DEFINE n == proc[p].script
             k == proc[p].statement
             new == [proc[p] EXCEPT !.work = Effect(Statement(p), proc[p].work),
                                    !.statement = k + 1]
  <2>1. proc' = [proc EXCEPT ![p] = new] /\ UNCHANGED <<database, ledger>>
    BY <1>4 DEF Run, IInv
  <2>2. /\ new.statement = k + 1 /\ new.script = n
        /\ new.work = Effect(Script[n][k], proc[p].work)
    BY <1>0, <1>4 DEF Fields, Statement
  <2>3. n \in 1..8 /\ k \in Nat \ {0} /\ ~ (k > Len(Script[n]))
    BY <1>4 DEF Run, At, Finished, CommentsInv
  <2>4. \A q \in Procs : proc'[q] = IF q = p THEN new ELSE proc[q]
    BY <2>1 DEF IInv
  <2>5. Structure' = Structure
    BY <2>1 DEF Structure
  <2>6. n \notin ledger => Bare(proc[p].work) = Made(Script[n], SchemaAfter[n - 1])[k - 1]
    BY <1>4 DEF Run, UpgradeInv
  <2> HIDE DEF new, n, k
  <2>7. Len(Script[n]) \in Nat
    BY <2>3, LengthsAre
  <2>8. k \in 1..Len(Script[n]) /\ k + 1 \in 1..(Len(Script[n]) + 1) /\ (k + 1) - 1 = k
    BY <2>3, <2>7
  <2>9. Bare(new.work) = Effect(Script[n][k], Bare(proc[p].work))
    BY <2>2, <2>3, <2>8, StatementsAre, RowsApart
  <2>10. n \notin ledger => Bare(new.work) = Made(Script[n], SchemaAfter[n - 1])[(k + 1) - 1]
    BY <2>6, <2>7, <2>8, <2>9, StatementsInTurn
  <2> QED
    BY <2>1, <2>2, <2>4, <2>5, <2>8, <2>10, NothingCommitted
<1>5. ASSUME NEW p \in Procs, Commit(p)
      PROVE  UpgradeInv' /\ \E n \in 1..8 : /\ ledger = 1..(n - 1) /\ ledger' = 1..n
                                            /\ Structure' = SchemaAfter[n]
  <2> DEFINE new == [Down EXCEPT !.step = "check", !.script = proc[p].script + 1]
  <2>1. new.step = "check" /\ proc' = [proc EXCEPT ![p] = new]
    BY <1>5, DownFields DEF Fields, Commit
  <2> HIDE DEF new
  <2>2. \A q \in Procs : proc'[q] = IF q = p THEN new ELSE proc[q]
    BY <2>1 DEF IInv
  <2>3. \A q \in Procs : proc'[q].step # "transaction"
    BY <1>5, <2>1, <2>2 DEF Commit, At, CommentsInv
  <2>4. PICK n \in 1..8 : ledger = 1..(n - 1) /\ ledger' = 1..n /\ Structure' = SchemaAfter[n]
    BY <1>5, CommitUpgrades
  <2>5. n \in 0..8
    OBVIOUS
  <2> QED
    BY <2>3, <2>4, <2>5 DEF UpgradeInv, At
<1>6. ASSUME NEW p \in Procs, Throw(p) \/ Crash(p) \/ Serve(p)
      PROVE  UpgradeInv' /\ UNCHANGED <<Structure, ledger>>
  <2>1. [Down EXCEPT !.step = "serving"].step = "serving" /\ Down.step = "down"
    BY DownFields DEF Fields
  <2> QED
    BY <1>1, <1>6, <2>1 DEF Throw, Crash, Serve
<1>7. ASSUME NEW p \in Procs, NEW c \in Comments, Comment(p, c)
      PROVE  UpgradeInv' /\ UNCHANGED <<Structure, ledger>>
  <2>1. proc' = proc /\ ledger' = ledger /\ database' = database \cup {<<"comments", c>>}
    BY <1>7 DEF Comment
  <2>2. Structure' = Structure
    BY <2>1 DEF Structure
  <2> QED
    BY <2>1, <2>2, NothingCommitted
<1>8. CASE UNCHANGED vars
  <2>1. proc' = proc /\ ledger' = ledger /\ Structure' = Structure
    BY <1>8 DEF vars, Structure
  <2> QED
    BY <2>1, NothingCommitted
<1> QED
  BY <1>2, <1>3, <1>4, <1>5, <1>6, <1>7, <1>8 DEF Next, StartUp

\* Whoever starts at the same time, and wherever one is cut off, the database goes
\* from the schema of each script to that of the next, and the ledger with it.
THEOREM ScriptsTakeEffectWhole == Spec => ImplementsUpgrades
<1>1. Init => IInv /\ CommentsInv
  BY DownFields DEF Init, IInv, ServesOnItsSchema, CommentsInv, CommentsSurvive, At, Applying
<1>2. Init => UpgradeInv /\ Upgraded!Init
  <2>1. SchemaAfter[0] = {} /\ 0 \in 0..8 /\ 1..0 = {}
    BY ScriptsInTurn
  <2> QED
    BY <2>1, DownFields DEF Init, Structure, UpgradeInv, At, Upgraded!Init
<1>3. IInv /\ CommentsInv /\ UpgradeInv /\ [Next]_vars => UpgradeInv'
  BY Upgrading
<1>4. IInv /\ CommentsInv /\ UpgradeInv /\ [Next]_vars => [Upgraded!Next]_<<Structure, ledger>>
  BY Upgrading, EightScripts DEF Upgraded!Next, Upgraded!Upgrade
<1> QED
  BY <1>1, <1>2, <1>3, <1>4, Inductive, CommentsInductive, PTL
  DEF Spec, ImplementsUpgrades, Upgraded!Spec, Upgraded!vars

----------------------------------------------------------------------------
(* A process and its memory *)

\* A server, its download page included, starts, migrates and ends as module
\* Migrations says: SchemaIsThere and CommentsAreKept hold of it too.
THEOREM PageChangesNoDatabase == ServerSpec => Spec
<1>1. ServerInit => Init
  BY DEF ServerInit
<1>2. [ServerNext]_serverVars => [Next]_vars
  BY DEF ServerNext, Process, Page, serverVars, vars
<1> QED
  BY <1>1, <1>2, PTL DEF ServerSpec, Spec

\* An answer under way can have been overtaken by a release for as long as it
\* waits, a listing for as long as it is kept beyond that.
Asking == [step : {"idle", "asked", "told"}, waited : 0..cTimeout, lag : Nat]
ListingsInv ==
    /\ visitor \in [Visitors -> Asking]
    /\ \A v \in Visitors :
           /\ visitor[v].lag <= visitor[v].waited + 1
           /\ visitor[v].step = "asked" => visitor[v].lag = 0
    /\ cache \in [age : Nat, lag : Nat]
    /\ Releases!Fresh => cache.lag <= cache.age + cTimeout + 1

LEMMA LaterIsOneMore ==
  ASSUME NEW l \in Nat, NEW n \in Nat, l <= n + 1
  PROVE  Releases!Later(l) \in Nat /\ Releases!Later(l) <= n + 2 /\ (l = 0 => Releases!Later(l) = 0)
BY DEF Releases!Later

LEMMA NothingKnown ==
  /\ Releases!Idle \in Asking /\ Releases!Idle.step = "idle"
  /\ Releases!Idle.lag = 0 /\ Releases!Idle.waited = 0
  /\ Releases!NoListing \in [age : Nat, lag : Nat] /\ Releases!NoListing.age = cCacheTtl
BY ServerAssumption DEF ServerAssumption, Asking, Releases!Idle, Releases!NoListing

\* A request that goes on or is over, and the listing is left or replaced by what
\* it was told.
LEMMA VisitorGoesOn ==
  ASSUME ListingsInv, NEW v \in Visitors, NEW w \in Asking, visitor' = [visitor EXCEPT ![v] = w],
         w.lag <= w.waited + 1, w.step = "asked" => w.lag = 0,
         cache' = cache \/ cache' = [age |-> 0, lag |-> visitor[v].lag]
  PROVE  ListingsInv'
<1>1. \A u \in Visitors : visitor'[u] = IF u = v THEN w ELSE visitor[u]
  BY DEF ListingsInv
<1>2. visitor' \in [Visitors -> Asking]
  BY DEF ListingsInv
<1>3. CASE cache' = cache
  BY <1>1, <1>2, <1>3 DEF ListingsInv, Releases!Fresh
<1>4. CASE cache' = [age |-> 0, lag |-> visitor[v].lag]
  <2>1. /\ visitor[v].lag \in Nat /\ visitor[v].waited \in 0..cTimeout
        /\ visitor[v].lag <= visitor[v].waited + 1
    BY DEF ListingsInv, Asking
  <2>2. visitor[v].lag <= cTimeout + 1
    BY <2>1, ServerAssumption DEF ServerAssumption
  <2>3. cache' \in [age : Nat, lag : Nat] /\ cache'.lag <= cache'.age + cTimeout + 1
    BY <1>4, <2>1, <2>2, ServerAssumption DEF ServerAssumption
  <2>4. \A u \in Visitors : /\ visitor'[u].lag <= visitor'[u].waited + 1
                           /\ visitor'[u].step = "asked" => visitor'[u].lag = 0
    BY <1>1 DEF ListingsInv
  <2> QED
    BY <1>2, <2>3, <2>4 DEF ListingsInv
<1> QED
  BY <1>3, <1>4

LEMMA PageKeeps ==
  ASSUME ListingsInv, Releases!Next
  PROVE  ListingsInv'
<1> USE ServerAssumption DEF ServerAssumption
<1>0. ASSUME NEW v \in Visitors
      PROVE  visitor[v] \in Asking /\ visitor[v].lag <= visitor[v].waited + 1
  BY DEF ListingsInv
<1>1. ASSUME NEW v \in Visitors, Releases!Ask(v) \/ Releases!Look(v) PROVE ListingsInv'
  <2>1. PICK s \in {"asked", "told"} :
            visitor' = [visitor EXCEPT ![v].step = s] /\ visitor[v].lag = 0 /\ cache' = cache
    BY <1>1, NothingKnown DEF Releases!Ask, Releases!Look, ListingsInv
  <2> DEFINE w == [visitor[v] EXCEPT !.step = s]
  <2>2. visitor' = [visitor EXCEPT ![v] = w]
    BY <2>1 DEF ListingsInv
  <2>3. w \in Asking /\ w.lag = 0 /\ w.waited \in Nat
    BY <1>0, <2>1 DEF Asking
  <2>4. w.lag <= w.waited + 1
    BY <2>3
  <2> HIDE DEF w
  <2> QED
    BY <2>1, <2>2, <2>3, <2>4, VisitorGoesOn
<1>2. ASSUME NEW v \in Visitors, Releases!Store(v) \/ Releases!GiveUp(v) PROVE ListingsInv'
  BY <1>2, NothingKnown, VisitorGoesOn DEF Releases!Store, Releases!GiveUp
<1>3. CASE Releases!Publish
  <2>1. /\ visitor' \in [Visitors -> Asking]
        /\ \A v \in Visitors : /\ visitor'[v].lag <= visitor'[v].waited + 1
                               /\ visitor'[v].step = "asked" => visitor'[v].lag = 0
    <3>1. ASSUME NEW v \in Visitors
          PROVE  /\ visitor'[v] \in Asking /\ visitor'[v].lag <= visitor'[v].waited + 1
                 /\ visitor'[v].step = "asked" => visitor'[v].lag = 0
      <4>1. CASE visitor[v].step = "told" /\ visitor[v].lag = 0
        <5>1. visitor'[v] = [visitor[v] EXCEPT !.lag = 1]
          BY <1>3, <4>1 DEF Releases!Publish
        <5> QED
          BY <1>0, <4>1, <5>1 DEF Asking
      <4>2. CASE ~(visitor[v].step = "told" /\ visitor[v].lag = 0)
        BY <1>0, <1>3, <4>2 DEF Releases!Publish, ListingsInv
      <4> QED
        BY <4>1, <4>2
    <3>2. visitor' = [v \in Visitors |-> visitor'[v]]
      BY <1>3 DEF Releases!Publish
    <3> QED
      BY <3>1, <3>2
  <2>2. cache' \in [age : Nat, lag : Nat] /\ cache'.age = cache.age
        /\ (cache' = cache \/ cache'.lag = 1)
    BY <1>3 DEF Releases!Publish, ListingsInv
  <2> QED
    BY <2>1, <2>2 DEF ListingsInv, Releases!Fresh
<1>4. CASE Releases!Tick
  <2>1. /\ visitor' \in [Visitors -> Asking]
        /\ \A v \in Visitors : /\ visitor'[v].lag <= visitor'[v].waited + 1
                               /\ visitor'[v].step = "asked" => visitor'[v].lag = 0
    <3>1. ASSUME NEW v \in Visitors
          PROVE  /\ visitor'[v] \in Asking /\ visitor'[v].lag <= visitor'[v].waited + 1
                 /\ visitor'[v].step = "asked" => visitor'[v].lag = 0
      <4>1. CASE visitor[v].step = "idle"
        <5>1. visitor'[v] = Releases!Idle
          BY <1>4, <4>1 DEF Releases!Tick
        <5> QED
          BY <5>1, NothingKnown
      <4>2. CASE visitor[v].step # "idle"
        <5> DEFINE n == visitor[v].waited
                   l == Releases!Later(visitor[v].lag)
        <5>0. visitor[v].waited < cTimeout
          BY <1>4, <4>2 DEF Releases!Tick
        <5>1. /\ n \in Nat /\ n < cTimeout /\ visitor[v].lag \in Nat
              /\ visitor'[v] = [visitor[v] EXCEPT !.waited = n + 1, !.lag = l]
          <6>1. visitor'[v] = [visitor[v] EXCEPT !.waited = n + 1, !.lag = l]
            BY <1>4, <4>2 DEF Releases!Tick
          <6> QED
            BY <1>0, <5>0, <6>1 DEF Asking
        <5>2. l \in Nat /\ l <= n + 2 /\ (visitor[v].lag = 0 => l = 0)
          BY <1>0, <5>1, LaterIsOneMore
        <5>3. n + 1 \in 0..cTimeout
          BY <5>1
        <5> HIDE DEF n, l
        <5>4. /\ visitor'[v] \in Asking /\ visitor'[v].waited = n + 1 /\ visitor'[v].lag = l
              /\ visitor'[v].step = visitor[v].step
          BY <1>0, <5>1, <5>2, <5>3 DEF Asking
        <5> QED
          BY <5>1, <5>2, <5>4 DEF ListingsInv
      <4> QED
        BY <4>1, <4>2
    <3>2. visitor' = [v \in Visitors |-> visitor'[v]]
      BY <1>4 DEF Releases!Tick
    <3> QED
      BY <3>1, <3>2
  <2>2. CASE cache.age + 1 < cCacheTtl
    <3>1. cache' = [age |-> cache.age + 1, lag |-> Releases!Later(cache.lag)]
      BY <1>4, <2>2 DEF Releases!Tick
    <3>2. cache.age \in Nat /\ cache.lag \in Nat /\ cache.lag <= (cache.age + cTimeout) + 1
      BY <2>2 DEF ListingsInv, Releases!Fresh
    <3> DEFINE n == cache.age + cTimeout
               l == Releases!Later(cache.lag)
    <3>3. l \in Nat /\ l <= n + 2
      <4>1. n \in Nat /\ cache.lag \in Nat /\ cache.lag <= n + 1
        BY <3>2
      <4> HIDE DEF n
      <4> QED
        BY <4>1, LaterIsOneMore
    <3>4. cache' \in [age : Nat, lag : Nat] /\ cache'.lag <= cache'.age + cTimeout + 1
      <4>1. cache' = [age |-> cache.age + 1, lag |-> l]
        BY <3>1
      <4> HIDE DEF l
      <4>2. cache' \in [age : Nat, lag : Nat] /\ cache'.age = cache.age + 1 /\ cache'.lag = l
        BY <3>2, <3>3, <4>1
      <4> QED
        BY <3>2, <3>3, <4>2
    <3> QED
      BY <2>1, <3>4 DEF ListingsInv
  <2>3. CASE ~(cache.age + 1 < cCacheTtl)
    <3>1. cache' = Releases!NoListing
      BY <1>4, <2>3 DEF Releases!Tick
    <3>2. cache' \in [age : Nat, lag : Nat] /\ ~Releases!Fresh'
      BY <3>1, NothingKnown DEF Releases!Fresh
    <3> QED
      BY <2>1, <3>2 DEF ListingsInv
  <2> QED
    BY <2>2, <2>3
<1> QED
  BY <1>1, <1>2, <1>3, <1>4 DEF Releases!Next

LEMMA NoListingKeeps ==
  ASSUME cache = Releases!NoListing, visitor = [v \in Visitors |-> Releases!Idle]
  PROVE  ListingsInv
BY NothingKnown, ServerAssumption DEF ListingsInv, ServerAssumption, Releases!Fresh

\* The page shows what was the latest release within the time a listing is kept
\* and a request may take, however the requests overtake each other.
THEOREM ListingsAreFresh == ServerSpec => []ListingsFresh
<1>1. ServerInit => ListingsInv
  BY NoListingKeeps DEF ServerInit, Releases!Init
<1>2. ASSUME ListingsInv, [ServerNext]_serverVars PROVE ListingsInv'
  <2>1. CASE Process
    <3>1. CASE UNCHANGED <<cache, visitor>>
      BY <1>2, <3>1 DEF ListingsInv, Releases!Fresh
    <3>2. CASE cache' = Releases!NoListing /\ visitor' = [v \in Visitors |-> Releases!Idle]
      BY <3>2, NothingKnown, ServerAssumption DEF ListingsInv, ServerAssumption, Releases!Fresh
    <3> QED
      BY <2>1, <3>1, <3>2 DEF Process
  <2>2. CASE Page
    BY <1>2, <2>2, PageKeeps DEF Page
  <2>3. CASE UNCHANGED serverVars
    BY <1>2, <2>3 DEF serverVars, ListingsInv, Releases!Fresh
  <2> QED
    BY <1>2, <2>1, <2>2, <2>3 DEF ServerNext
<1>3. ASSUME ListingsInv PROVE ListingsFresh
  <2>1. cache.age \in Nat /\ cache.lag \in Nat
    BY <1>3 DEF ListingsInv
  <2> QED
    BY <1>3, <2>1, ServerAssumption
    DEF ListingsInv, ListingsFresh, Releases!ListingsFresh, Releases!Fresh, ServerAssumption
<1> QED
  BY <1>1, <1>2, <1>3, PTL DEF ServerSpec
=============================================================================
