---------------------------- MODULE FontsProofs ----------------------------
(***************************************************************************)
(* Fonts last, a library stays near its limit and an export misses no font *)
(* that stays, for any number of users, families, handlers and fonts.      *)
(***************************************************************************)
EXTENDS Fonts, FiniteSetTheorems, TLAPS

\* The ids at hand are minted, and a step has what it needs of the request.
AtHand ==
    \A h \in Handlers :
        /\ doing[h].new \in 0..minted /\ doing[h].old \in 0..minted
        /\ doing[h].step = "write" \/ doing[h].new # 0 =>
               doing[h].user \in Users /\ doing[h].family \in Families
        /\ doing[h].step \in {"idle", "write", "embed", "styled"} => doing[h].new = 0 /\ doing[h].old = 0
        /\ doing[h].step \in {"find", "insert"} => doing[h].new # 0
        /\ doing[h].step \in {"unlink", "drop"} => doing[h].old # 0

\* What is being removed has been given up by its owner.
GoingIsGivenUp ==
    \A h \in Handlers : doing[h].step \in {"unlink", "drop"} => doing[h].old \notin kept

\* A new font has its file and no row yet, and is nobody else's concern.
NewIsOwn ==
    \A h \in Handlers : doing[h].new # 0 =>
        /\ doing[h].new \in files
        /\ doing[h].new \notin DOMAIN rows
        /\ \A g \in Handlers :
               /\ doing[g].old # doing[h].new
               /\ g # h => doing[g].new # doing[h].new

\* UNIQUE (owner_id, family_name).
OneRowEach ==
    \A i, j \in DOMAIN rows :
        rows[i].owner = rows[j].owner /\ rows[i].family = rows[j].family => i = j

\* A row that goes is of the family that replaces it, or was asked to be deleted.
GoingIsAccountedFor ==
    \A h \in Handlers :
        doing[h].step \in {"unlink", "drop"} /\ doing[h].old \in DOMAIN rows =>
            LET row == rows[doing[h].old]
            IN IF doing[h].new # 0
                 THEN row.owner = doing[h].user /\ row.family = doing[h].family
                 ELSE <<row.owner, row.family>> \notin served

\* The inductive invariant.
IInv ==
    /\ TypeOK /\ AtHand /\ GoingIsGivenUp /\ NewIsOwn /\ OneRowEach
    /\ GoingIsAccountedFor /\ FontsLast /\ FamiliesLast

LEMMA IdleIsDoing == Idle \in Doing
  BY FontsAssumption DEF FontsAssumption, Idle, Doing, Steps, Id

LEMMA TypeStep == TypeOK /\ AtHand /\ [Next]_vars => TypeOK'
<1> SUFFICES ASSUME TypeOK, AtHand, [Next]_vars PROVE TypeOK'
  OBVIOUS
<1>a. MaxFonts \in Nat /\ minted \in 0..MaxFonts /\ 1..minted \subseteq Id
  BY FontsAssumption DEF FontsAssumption, TypeOK, Id
<1>b. \A g \in Handlers : doing[g] \in Doing
  BY DEF TypeOK
<1>1. ASSUME NEW h \in Handlers, NEW u \in Users, NEW f \in FamiliesOf[u], Upload(h, u, f)
      PROVE  TypeOK'
  <2>1. f \in Families
    BY FontsAssumption DEF FontsAssumption
  <2>2. [Idle EXCEPT !.step = "write", !.user = u, !.family = f] \in Doing
    BY <2>1, IdleIsDoing DEF Idle, Doing, Steps
  <2> QED
    BY <1>1, <2>2 DEF TypeOK, Upload, disk
<1>2. ASSUME NEW h \in Handlers, WriteFont(h) PROVE TypeOK'
  <2>1. minted' \in Id /\ 1..minted \subseteq 1..minted' /\ minted' \in 1..minted'
    BY <1>2, <1>a DEF WriteFont, Id
  <2>2. [doing[h] EXCEPT !.step = "find", !.new = minted'] \in Doing
    BY <1>b, <2>1 DEF Doing, Steps
  <2>3. doing' = [doing EXCEPT ![h] = [doing[h] EXCEPT !.step = "find", !.new = minted']]
    BY <1>2 DEF WriteFont, TypeOK
  <2>4. doing' \in [Handlers -> Doing]
    BY <2>2, <2>3 DEF TypeOK
  <2> QED
    BY <1>2, <2>1, <2>4 DEF TypeOK, WriteFont
<1>3. ASSUME NEW h \in Handlers, FindSame(h) PROVE TypeOK'
  <2>1. \A i \in DOMAIN rows : [doing[h] EXCEPT !.step = "unlink", !.old = i] \in Doing
    BY <1>a, <1>b DEF TypeOK, Doing, Steps
  <2>2. [doing[h] EXCEPT !.step = "insert"] \in Doing
    BY <1>b DEF Doing, Steps
  <2>3. doing' \in [Handlers -> Doing]
    BY <1>3, <2>1, <2>2 DEF FindSame, Goto, Named, OwnedBy, TypeOK
  <2>4. kept' \subseteq kept
    BY <1>3 DEF FindSame
  <2> QED
    BY <1>3, <2>3, <2>4 DEF TypeOK, FindSame, disk
<1>4. ASSUME NEW h \in Handlers, Insert(h) PROVE TypeOK'
  <2>1. doing' \in [Handlers -> Doing]
    BY <1>4, IdleIsDoing DEF TypeOK, Insert, Done
  <2>2. CASE UNCHANGED <<rows, kept, served>>
    BY <1>4, <2>1, <2>2 DEF TypeOK, Insert
  <2>3. CASE ~UNCHANGED <<rows, kept, served>>
    <3>1. doing[h].new \in 1..minted
      BY <1>4, <1>a DEF Insert, At, AtHand
    <3>2. doing[h].user \in Users /\ doing[h].family \in Families
      BY <1>4 DEF Insert, At, AtHand
    <3>3. \A i \in DOMAIN rows' : rows'[i] \in Row
      BY <1>4, <2>3, <3>2 DEF Insert, TypeOK, Row
    <3>4. DOMAIN rows' \subseteq 1..minted /\ kept' \subseteq 1..minted
          /\ served' \subseteq Users \X Families
      BY <1>4, <2>3, <3>1, <3>2 DEF Insert, TypeOK
    <3> QED
      BY <1>4, <2>1, <3>3, <3>4 DEF Insert, TypeOK
  <2> QED
    BY <2>2, <2>3
<1>5. ASSUME NEW h \in Handlers, NEW u \in Users, NEW i \in DOMAIN rows, Delete(h, u, i)
      PROVE  TypeOK'
  <2>1. i \in Id
    BY <1>a DEF TypeOK
  <2>2. [Idle EXCEPT !.step = "unlink", !.user = u, !.old = i] \in Doing
    BY <2>1, IdleIsDoing DEF Idle, Doing, Steps
  <2> QED
    BY <1>5, <2>2 DEF TypeOK, Delete, disk
<1>6. ASSUME NEW h \in Handlers, RemoveFile(h) PROVE TypeOK'
  BY <1>6, <1>b DEF TypeOK, RemoveFile, Goto, Doing, Steps
<1>7. ASSUME NEW h \in Handlers, DropRow(h) PROVE TypeOK'
  <2>1. doing' \in [Handlers -> Doing]
    BY <1>7, <1>b, IdleIsDoing DEF TypeOK, DropRow, Goto, Done, Doing, Steps
  <2> QED
    BY <1>7, <2>1 DEF TypeOK, DropRow
<1>8. ASSUME NEW h \in Handlers, NEW u \in Users, Export(h, u) PROVE TypeOK'
  <2> DEFINE lib == OwnedBy(u)
  <2>1. lib \in SUBSET Id /\ lib \cap kept \in SUBSET Id
    BY <1>a DEF TypeOK, OwnedBy
  <2>2. /\ [Idle EXCEPT !.step = "embed", !.lib = lib, !.had = lib \cap kept] \in Doing
        /\ [Idle EXCEPT !.step = "styled"] \in Doing
    <3> HIDE DEF lib
    <3> QED
      BY <2>1, IdleIsDoing DEF Idle, Doing, Steps
  <2> QED
    BY <1>8, <2>2 DEF TypeOK, Export, disk
<1>9. ASSUME NEW h \in Handlers, NEW i \in 1..minted, Embed(h, i) PROVE TypeOK'
  <2> DEFINE d == doing[h]
  <2>1. d.lib \ {i} \in SUBSET Id /\ d.style \cup {i} \in SUBSET Id
        /\ d.had \ {i} \in SUBSET Id
    BY <1>a, <1>b DEF Doing
  <2>2. /\ [d EXCEPT !.lib = d.lib \ {i}, !.style = d.style \cup {i}] \in Doing
        /\ [d EXCEPT !.lib = d.lib \ {i}, !.had = d.had \ {i}] \in Doing
        /\ [d EXCEPT !.lib = d.lib \ {i}] \in Doing
    BY <1>b, <2>1 DEF Doing
  <2>3. \/ doing' = [doing EXCEPT ![h] = [d EXCEPT !.lib = d.lib \ {i}, !.style = d.style \cup {i}]]
        \/ doing' = [doing EXCEPT ![h] = [d EXCEPT !.lib = d.lib \ {i}, !.had = d.had \ {i}]]
        \/ doing' = [doing EXCEPT ![h] = [d EXCEPT !.lib = d.lib \ {i}]]
    BY <1>9 DEF Embed, TypeOK
  <2>4. doing' \in [Handlers -> Doing]
    <3> HIDE DEF d
    <3> QED
      BY <2>2, <2>3 DEF TypeOK
  <2> QED
    BY <1>9, <2>4 DEF TypeOK, Embed, disk
<1>10. ASSUME NEW h \in Handlers, Embedded(h) \/ Exported(h) \/ Fail(h) PROVE TypeOK'
  <2>1. [doing[h] EXCEPT !.step = "styled"] \in Doing
    BY <1>b DEF Doing, Steps
  <2> QED
    BY <1>10, <2>1, IdleIsDoing DEF TypeOK, Embedded, Exported, Fail, Goto, Done, disk
<1>11. CASE Crash
  BY <1>11, IdleIsDoing DEF TypeOK, Crash, disk
<1>12. CASE UNCHANGED vars
  BY <1>12 DEF TypeOK, vars, disk
<1> QED
  BY <1>1, <1>2, <1>3, <1>4, <1>5, <1>6, <1>7, <1>8, <1>9, <1>10, <1>11, <1>12
  DEF Next, HandlerStep

----------------------------------------------------------------------------
LEMMA MintedIsNat == TypeOK => minted \in Nat
  BY FontsAssumption DEF FontsAssumption, TypeOK, Id

\* A handler that turns to something that touches neither rows nor files.
LEMMA TurnsAside ==
  ASSUME IInv, TypeOK', NEW h \in Handlers,
         UNCHANGED <<disk, kept>>, served' \subseteq served,
         \A g \in Handlers \ {h} : doing'[g] = doing[g],
         doing'[h].step \in {"idle", "write", "embed", "styled"},
         doing'[h].new = 0, doing'[h].old = 0,
         doing'[h].step = "write" => doing'[h].user \in Users /\ doing'[h].family \in Families,
         At(h, "insert") /\ doing[h].old # 0 => <<doing[h].user, doing[h].family>> \notin served'
  PROVE  IInv'
<1>1. AtHand'
  BY MintedIsNat DEF IInv, AtHand, disk
<1>2. GoingIsGivenUp' /\ NewIsOwn' /\ OneRowEach'
  BY DEF IInv, GoingIsGivenUp, NewIsOwn, OneRowEach, disk
<1>3. GoingIsAccountedFor'
  BY DEF IInv, GoingIsAccountedFor, disk
<1>4. FontsLast'
  BY DEF IInv, FontsLast, disk
<1>5. FamiliesLast'
  BY DEF IInv, FamiliesLast, Named, OwnedBy, At, disk
<1> QED
  BY <1>1, <1>2, <1>3, <1>4, <1>5 DEF IInv

LEMMA WriteFontKeeps ==
  ASSUME IInv, TypeOK', NEW h \in Handlers, WriteFont(h)
  PROVE  IInv'
<1>1. /\ \A g \in Handlers \ {h} : doing'[g] = doing[g]
      /\ doing'[h].step = "find" /\ doing'[h].new = minted' /\ doing'[h].old = 0
      /\ doing'[h].user \in Users /\ doing'[h].family \in Families
      /\ doing[h].step = "write" /\ UNCHANGED <<rows, kept, served>>
  BY DEF WriteFont, IInv, TypeOK, Doing, AtHand, At
<1>2. minted \in Nat /\ minted' = minted + 1
  BY MintedIsNat DEF WriteFont, IInv
<1>3. AtHand'
  BY <1>1, <1>2 DEF IInv, AtHand
<1>4. GoingIsGivenUp' /\ OneRowEach'
  BY <1>1 DEF IInv, GoingIsGivenUp, OneRowEach
<1>5. NewIsOwn'
  BY <1>1, <1>2 DEF WriteFont, IInv, NewIsOwn, AtHand, TypeOK
<1>6. GoingIsAccountedFor'
  BY <1>1 DEF IInv, GoingIsAccountedFor
<1>7. FontsLast'
  BY DEF WriteFont, IInv, FontsLast
<1>8. FamiliesLast'
  BY <1>1 DEF IInv, FamiliesLast, Named, OwnedBy, At
<1> QED
  BY <1>3, <1>4, <1>5, <1>6, <1>7, <1>8 DEF IInv

\* The replaced font is the one row of its family.
LEMMA FindSameKeeps ==
  ASSUME IInv, TypeOK', NEW h \in Handlers, FindSame(h)
  PROVE  IInv'
<1>1. /\ \A g \in Handlers \ {h} : doing'[g] = doing[g]
      /\ doing'[h].new = doing[h].new /\ doing[h].new # 0
      /\ doing'[h].user = doing[h].user /\ doing'[h].family = doing[h].family
      /\ doing[h].step = "find" /\ kept' \subseteq kept
      /\ UNCHANGED <<rows, files, minted, served>>
  BY DEF FindSame, Goto, IInv, TypeOK, Doing, AtHand, At, disk
<1>2. \/ doing'[h].step = "insert" /\ doing'[h].old = doing[h].old
      \/ /\ doing'[h].step = "unlink"
         /\ doing'[h].old \in DOMAIN rows
         /\ rows[doing'[h].old].owner = doing[h].user
         /\ rows[doing'[h].old].family = doing[h].family
         /\ doing'[h].old \notin kept'
  BY DEF FindSame, Goto, IInv, TypeOK, Doing, Named, OwnedBy
<1>3. doing'[h].old \in 0..minted /\ (doing'[h].step = "unlink" => doing'[h].old # 0)
  BY <1>1, <1>2, MintedIsNat DEF IInv, TypeOK, AtHand
<1>4. AtHand'
  BY <1>1, <1>2, <1>3 DEF IInv, AtHand
<1>5. GoingIsGivenUp' /\ OneRowEach'
  BY <1>1, <1>2 DEF IInv, GoingIsGivenUp, OneRowEach
<1>6. NewIsOwn'
  BY <1>1, <1>2 DEF IInv, NewIsOwn
<1>7. GoingIsAccountedFor'
  BY <1>1, <1>2 DEF IInv, GoingIsAccountedFor
<1>8. FontsLast'
  BY <1>1 DEF IInv, FontsLast
<1>9. FamiliesLast'
  BY <1>1 DEF IInv, FamiliesLast, Named, OwnedBy, At
<1> QED
  BY <1>4, <1>5, <1>6, <1>7, <1>8, <1>9 DEF IInv

\* The new row is the only one of its family, and nobody is removing it.
LEMMA InsertKeeps ==
  ASSUME IInv, TypeOK', NEW h \in Handlers, Insert(h)
  PROVE  IInv'
<1> DEFINE n == doing[h].new
           u == doing[h].user
           f == doing[h].family
<1>1. /\ \A g \in Handlers \ {h} : doing'[g] = doing[g]
      /\ doing'[h] = Idle /\ doing[h].step = "insert"
      /\ UNCHANGED <<files, minted>>
  BY DEF Insert, Done, IInv, TypeOK, At
<1>2. n # 0 /\ n \in files /\ n \notin DOMAIN rows
  BY <1>1 DEF IInv, AtHand, NewIsOwn
<1>3. CASE Named(u, f) # {}
  <2>1. UNCHANGED <<rows, kept, served>>
    BY <1>3 DEF Insert
  <2>2. AtHand'
    BY <1>1, MintedIsNat DEF IInv, AtHand, Idle
  <2>3. GoingIsGivenUp' /\ NewIsOwn' /\ OneRowEach' /\ GoingIsAccountedFor' /\ FontsLast'
    BY <1>1, <2>1 DEF IInv, GoingIsGivenUp, NewIsOwn, OneRowEach, GoingIsAccountedFor,
                      FontsLast, Idle
  <2>4. FamiliesLast'
    BY <1>1, <1>3, <2>1 DEF IInv, FamiliesLast, Named, OwnedBy, At
  <2> QED
    BY <2>2, <2>3, <2>4 DEF IInv
<1>4. CASE Named(u, f) = {}
  <2>1. /\ DOMAIN rows' = DOMAIN rows \cup {n}
        /\ \A i \in DOMAIN rows : rows'[i] = rows[i]
        /\ rows'[n].owner = u /\ rows'[n].family = f
        /\ kept' = kept \cup {n} /\ served' = served \cup {<<u, f>>}
    BY <1>2, <1>4 DEF Insert
  <2>2. \A i \in DOMAIN rows : ~(rows[i].owner = u /\ rows[i].family = f)
    BY <1>4 DEF Named, OwnedBy
  <2>3. AtHand' /\ FontsLast'
    BY <1>1, <1>2, <2>1, MintedIsNat DEF IInv, AtHand, FontsLast, Idle
  <2>4. GoingIsGivenUp' /\ NewIsOwn'
    BY <1>1, <1>2, <2>1 DEF IInv, GoingIsGivenUp, NewIsOwn, Idle
  <2>5. OneRowEach'
    BY <2>1, <2>2 DEF IInv, OneRowEach
  <2>6. GoingIsAccountedFor'
    BY <1>1, <1>2, <2>1, <2>2 DEF IInv, GoingIsAccountedFor, NewIsOwn, Idle
  <2>7. FamiliesLast'
    <3> SUFFICES ASSUME NEW p \in served'
                 PROVE  \/ Named(p[1], p[2])' # {}
                        \/ \E g \in Handlers : At(g, "insert")' /\ doing'[g].old # 0
                               /\ p = <<doing'[g].user, doing'[g].family>>
      BY DEF FamiliesLast
    <3>1. CASE p = <<u, f>>
      BY <2>1, <3>1 DEF Named, OwnedBy
    <3>2. CASE p # <<u, f>>
      <4>1. p \in served
        BY <2>1, <3>2
      <4>2. CASE Named(p[1], p[2]) # {}
        BY <2>1, <4>2 DEF Named, OwnedBy
      <4>3. CASE \E g \in Handlers : At(g, "insert") /\ doing[g].old # 0
                               /\ p = <<doing[g].user, doing[g].family>>
        BY <1>1, <3>2, <4>3 DEF At
      <4> QED
        BY <4>1, <4>2, <4>3 DEF IInv, FamiliesLast
    <3> QED
      BY <3>1, <3>2
  <2> QED
    BY <2>3, <2>4, <2>5, <2>6, <2>7 DEF IInv
<1> QED
  BY <1>3, <1>4

\* The owner's font is no new one of anybody's.
LEMMA DeleteKeeps ==
  ASSUME IInv, TypeOK', NEW h \in Handlers, NEW u \in Users, NEW i \in DOMAIN rows, Delete(h, u, i)
  PROVE  IInv'
<1>1. /\ \A g \in Handlers \ {h} : doing'[g] = doing[g]
      /\ doing'[h].step = "unlink" /\ doing'[h].new = 0 /\ doing'[h].old = i
      /\ doing[h].step = "idle"
      /\ kept' = kept \ {i} /\ served' = served \ {<<u, rows[i].family>>}
      /\ UNCHANGED <<rows, files, minted>>
  BY DEF Delete, Idle, IInv, TypeOK, At, disk
<1>2. rows[i].owner = u /\ i \in 1..minted
  BY DEF Delete, OwnedBy, IInv, TypeOK
<1>3. AtHand'
  BY <1>1, <1>2, MintedIsNat DEF IInv, AtHand
<1>4. GoingIsGivenUp' /\ OneRowEach' /\ FontsLast'
  BY <1>1 DEF IInv, GoingIsGivenUp, OneRowEach, FontsLast
<1>5. NewIsOwn'
  BY <1>1 DEF IInv, NewIsOwn
<1>6. GoingIsAccountedFor'
  BY <1>1, <1>2 DEF IInv, GoingIsAccountedFor
<1>7. FamiliesLast'
  BY <1>1 DEF IInv, FamiliesLast, Named, OwnedBy, At
<1> QED
  BY <1>3, <1>4, <1>5, <1>6, <1>7 DEF IInv

LEMMA RemoveFileKeeps ==
  ASSUME IInv, TypeOK', NEW h \in Handlers, RemoveFile(h)
  PROVE  IInv'
<1>1. /\ \A g \in Handlers \ {h} : doing'[g] = doing[g]
      /\ doing[h].step = "unlink" /\ doing'[h].step = "drop"
      /\ doing'[h].new = doing[h].new /\ doing'[h].old = doing[h].old
      /\ doing'[h].user = doing[h].user /\ doing'[h].family = doing[h].family
      /\ files \ {doing[h].old} \subseteq files'
      /\ UNCHANGED <<rows, minted, kept, served>>
  BY DEF RemoveFile, Goto, IInv, TypeOK, Doing, At
<1>2. AtHand'
  BY <1>1 DEF IInv, AtHand
<1>3. GoingIsGivenUp' /\ OneRowEach'
  BY <1>1 DEF IInv, GoingIsGivenUp, OneRowEach
<1>4. NewIsOwn'
  BY <1>1 DEF IInv, NewIsOwn
<1>5. GoingIsAccountedFor'
  BY <1>1 DEF IInv, GoingIsAccountedFor
<1>6. FontsLast'
  BY <1>1 DEF IInv, FontsLast, GoingIsGivenUp
<1>7. FamiliesLast'
  BY <1>1 DEF IInv, FamiliesLast, Named, OwnedBy, At
<1> QED
  BY <1>2, <1>3, <1>4, <1>5, <1>6, <1>7 DEF IInv

\* The row that goes was of the family that is about to be inserted, or its
\* owner has asked for it to go.
LEMMA DropRowKeeps ==
  ASSUME IInv, TypeOK', NEW h \in Handlers, DropRow(h)
  PROVE  IInv'
<1> DEFINE o == doing[h].old
<1>1. /\ \A g \in Handlers \ {h} : doing'[g] = doing[g]
      /\ doing[h].step = "drop"
      /\ DOMAIN rows' = DOMAIN rows \ {o} /\ \A i \in DOMAIN rows' : rows'[i] = rows[i]
      /\ UNCHANGED <<files, minted, kept, served>>
  BY DEF DropRow, Goto, Done, IInv, TypeOK, At
<1>2. IF doing[h].new = 0
        THEN doing'[h] = Idle
        ELSE /\ doing'[h].step = "insert"
             /\ doing'[h].new = doing[h].new /\ doing'[h].old = o
             /\ doing'[h].user = doing[h].user /\ doing'[h].family = doing[h].family
  BY DEF DropRow, Goto, Done, IInv, TypeOK, Doing
<1>3. AtHand'
  BY <1>1, <1>2, MintedIsNat DEF IInv, AtHand, Idle
<1>4. GoingIsGivenUp' /\ OneRowEach'
  BY <1>1, <1>2 DEF IInv, GoingIsGivenUp, OneRowEach, Idle
<1>5. NewIsOwn'
  BY <1>1, <1>2 DEF IInv, NewIsOwn, Idle
<1>6. GoingIsAccountedFor'
  BY <1>1, <1>2 DEF IInv, GoingIsAccountedFor, Idle
<1>7. FontsLast'
  BY <1>1 DEF IInv, FontsLast, GoingIsGivenUp
<1>8. FamiliesLast'
  <2> SUFFICES ASSUME NEW p \in served
               PROVE  \/ Named(p[1], p[2])' # {}
                      \/ \E g \in Handlers : At(g, "insert")' /\ doing'[g].old # 0
                             /\ p = <<doing'[g].user, doing'[g].family>>
    BY <1>1 DEF FamiliesLast
  <2>1. p = <<p[1], p[2]>>
    BY DEF IInv, TypeOK
  <2>2. CASE \E g \in Handlers : At(g, "insert") /\ doing[g].old # 0
                             /\ p = <<doing[g].user, doing[g].family>>
    BY <1>1, <2>2 DEF At
  <2>3. ASSUME NEW i \in Named(p[1], p[2]), i # o PROVE Named(p[1], p[2])' # {}
    BY <1>1, <2>3 DEF Named, OwnedBy
  <2>4. CASE o \in Named(p[1], p[2])
    <3>1. o \in DOMAIN rows /\ rows[o].owner = p[1] /\ rows[o].family = p[2]
      BY <2>4 DEF Named, OwnedBy
    <3>2. doing[h].new # 0 /\ doing[h].user = p[1] /\ doing[h].family = p[2]
      BY <1>1, <2>1, <3>1 DEF IInv, GoingIsAccountedFor
    <3>3. o # 0
      BY <1>1 DEF IInv, AtHand
    <3> QED
      BY <1>2, <2>1, <3>2, <3>3 DEF At
  <2> QED
    BY <2>2, <2>3, <2>4 DEF IInv, FamiliesLast
<1> QED
  BY <1>3, <1>4, <1>5, <1>6, <1>7, <1>8 DEF IInv

LEMMA CrashKeeps == IInv /\ TypeOK' /\ Crash => IInv'
<1> SUFFICES ASSUME IInv, TypeOK', Crash PROVE IInv'
  OBVIOUS
<1>1. /\ \A g \in Handlers : doing'[g] = Idle
      /\ UNCHANGED <<rows, files, minted, kept>>
  BY DEF Crash, disk
<1>2. AtHand'
  BY <1>1, MintedIsNat DEF IInv, AtHand, Idle
<1>3. GoingIsGivenUp' /\ NewIsOwn' /\ OneRowEach' /\ GoingIsAccountedFor' /\ FontsLast'
  BY <1>1 DEF IInv, GoingIsGivenUp, NewIsOwn, OneRowEach, GoingIsAccountedFor, FontsLast, Idle
<1>4. FamiliesLast'
  <2>1. \A h \in Handlers : At(h, "insert") /\ doing[h].old # 0 =>
            <<doing[h].user, doing[h].family>> \notin served'
    BY DEF Crash, Cut, IInv, AtHand, At
  <2>2. served' \subseteq served
    BY DEF Crash
  <2> QED
    BY <1>1, <2>1, <2>2 DEF IInv, FamiliesLast, Named, OwnedBy
<1> QED
  BY <1>2, <1>3, <1>4 DEF IInv
----------------------------------------------------------------------------
LEMMA Inductive == IInv /\ [Next]_vars => IInv'
<1> SUFFICES ASSUME IInv, [Next]_vars PROVE IInv'
  OBVIOUS
<1>0. TypeOK'
  BY TypeStep DEF IInv
<1>1. ASSUME NEW h \in Handlers, NEW u \in Users, NEW f \in FamiliesOf[u], Upload(h, u, f)
      PROVE  IInv'
  <2>1. f \in Families
    BY FontsAssumption DEF FontsAssumption
  <2>2. /\ \A g \in Handlers \ {h} : doing'[g] = doing[g]
        /\ doing'[h].step = "write" /\ doing'[h].new = 0 /\ doing'[h].old = 0
        /\ doing'[h].user = u /\ doing'[h].family = f
        /\ doing[h].step = "idle" /\ UNCHANGED <<disk, kept, served>>
    BY <1>1 DEF Upload, Idle, IInv, TypeOK, At
  <2> QED
    BY <1>0, <2>1, <2>2, TurnsAside DEF At
<1>2. ASSUME NEW h \in Handlers, NEW u \in Users, Export(h, u) PROVE IInv'
  <2>1. /\ \A g \in Handlers \ {h} : doing'[g] = doing[g]
        /\ doing'[h].step \in {"embed", "styled"} /\ doing'[h].new = 0 /\ doing'[h].old = 0
        /\ doing[h].step = "idle" /\ UNCHANGED <<disk, kept, served>>
    BY <1>2 DEF Export, Idle, IInv, TypeOK, At
  <2> QED
    BY <1>0, <2>1, TurnsAside DEF At
<1>3. ASSUME NEW h \in Handlers,
             (\E i \in 1..minted : Embed(h, i)) \/ Embedded(h)
      PROVE  IInv'
  <2>1. /\ \A g \in Handlers \ {h} : doing'[g] = doing[g]
        /\ doing'[h].step \in {"embed", "styled"} /\ doing'[h].new = 0 /\ doing'[h].old = 0
        /\ doing[h].step = "embed" /\ UNCHANGED <<disk, kept, served>>
    <3>0. doing \in [Handlers -> Doing] /\ AtHand
      BY <1>0 DEF IInv, TypeOK
    <3>1. CASE \E i \in 1..minted : Embed(h, i)
      BY <3>0, <3>1 DEF Embed, Doing, AtHand, At
    <3>2. CASE Embedded(h)
      BY <3>0, <3>2 DEF Embedded, Goto, Doing, AtHand, At
    <3> QED
      BY <1>3, <3>1, <3>2
  <2> QED
    BY <1>0, <2>1, TurnsAside DEF At
<1>4. ASSUME NEW h \in Handlers, Exported(h) \/ Fail(h) PROVE IInv'
  <2>1. /\ \A g \in Handlers \ {h} : doing'[g] = doing[g]
        /\ doing'[h] = Idle /\ UNCHANGED <<disk, kept>> /\ served' \subseteq served
    BY <1>4 DEF Exported, Fail, Done, IInv, TypeOK
  <2>2. At(h, "insert") /\ doing[h].old # 0 => <<doing[h].user, doing[h].family>> \notin served'
    BY <1>4 DEF Exported, Fail, Cut, At, IInv, AtHand
  <2> QED
    BY <1>0, <2>1, <2>2, TurnsAside DEF Idle
<1>5. ASSUME NEW h \in Handlers, HandlerStep(h) PROVE IInv'
  BY <1>0, <1>3, <1>4, <1>5, WriteFontKeeps, FindSameKeeps, InsertKeeps, RemoveFileKeeps, DropRowKeeps
  DEF HandlerStep
<1>6. ASSUME NEW h \in Handlers, NEW u \in Users, NEW i \in DOMAIN rows, Delete(h, u, i)
      PROVE  IInv'
  BY <1>0, <1>6, DeleteKeeps
<1>7. CASE Crash
  BY <1>0, <1>7, CrashKeeps
<1>8. CASE UNCHANGED vars
  BY <1>0, <1>8 DEF vars, disk, IInv, AtHand, GoingIsGivenUp, NewIsOwn, OneRowEach,
                    GoingIsAccountedFor, FontsLast, FamiliesLast, Named, OwnedBy, At
<1> QED
  BY <1>1, <1>2, <1>3, <1>5, <1>6, <1>7, <1>8 DEF Next

----------------------------------------------------------------------------
(* The library's limit *)

\* The uploads that were counted and are not in the library yet.
Uploading(u) == {h \in Handlers : doing[h].user = u /\ (At(h, "write") \/ doing[h].new # 0)}

\* What is in a library and on its way there.  An upload comes to this with
\* fewer than the limit in the library and at most all handlers under way.
RoomLeft ==
    \A u \in Users :
        Cardinality(OwnedBy(u)) + Cardinality(Uploading(u))
            < cMaxFontsPerAccount + Cardinality(Handlers)

LEMMA LibrariesAreFinite ==
  ASSUME TypeOK, NEW u \in Users
  PROVE  /\ IsFiniteSet(OwnedBy(u)) /\ Cardinality(OwnedBy(u)) \in Nat
         /\ IsFiniteSet(Uploading(u)) /\ Cardinality(Uploading(u)) \in Nat
         /\ IsFiniteSet(Handlers) /\ Cardinality(Handlers) \in Nat
         /\ Cardinality(Uploading(u)) <= Cardinality(Handlers)
         /\ cMaxFontsPerAccount \in Nat
<1>1. IsFiniteSet(1..minted)
  BY MintedIsNat, FS_Interval
<1>2. OwnedBy(u) \in SUBSET (1..minted) /\ Uploading(u) \in SUBSET Handlers
  BY DEF OwnedBy, Uploading, TypeOK
<1>3. IsFiniteSet(Handlers) /\ cMaxFontsPerAccount \in Nat
  BY FontsAssumption DEF FontsAssumption
<1>4. IsFiniteSet(OwnedBy(u))
  BY <1>1, <1>2, FS_Subset
<1>5. IsFiniteSet(Uploading(u)) /\ Cardinality(Uploading(u)) <= Cardinality(Handlers)
  BY <1>2, <1>3, FS_Subset
<1> QED
  BY <1>3, <1>4, <1>5, FS_CardinalityType

\* A step after which neither the library nor its uploads have more.
LEMMA NoMore ==
  ASSUME TypeOK, TypeOK', RoomLeft, NEW u \in Users,
         OwnedBy(u)' \subseteq OwnedBy(u), Uploading(u)' \subseteq Uploading(u)
  PROVE  Cardinality(OwnedBy(u)') + Cardinality(Uploading(u)')
             < cMaxFontsPerAccount + Cardinality(Handlers)
<1>1. /\ Cardinality(OwnedBy(u)') <= Cardinality(OwnedBy(u)) /\ Cardinality(OwnedBy(u)') \in Nat
      /\ Cardinality(Uploading(u)') <= Cardinality(Uploading(u)) /\ Cardinality(Uploading(u)') \in Nat
  BY LibrariesAreFinite, FS_Subset, FS_CardinalityType
<1> QED
  BY <1>1, LibrariesAreFinite DEF RoomLeft

LEMMA RoomKeeps == IInv /\ IInv' /\ RoomLeft /\ [Next]_vars => RoomLeft'
<1> SUFFICES ASSUME IInv, IInv', RoomLeft, [Next]_vars, NEW v \in Users
             PROVE  Cardinality(OwnedBy(v)') + Cardinality(Uploading(v)')
                        < cMaxFontsPerAccount + Cardinality(Handlers)
  BY DEF RoomLeft
<1>0. TypeOK /\ TypeOK' /\ AtHand /\ AtHand' /\ doing \in [Handlers -> Doing]
  BY DEF IInv, TypeOK
<1>1. ASSUME NEW h \in Handlers, NEW u \in Users, NEW f \in FamiliesOf[u], Upload(h, u, f)
      PROVE  Cardinality(OwnedBy(v)') + Cardinality(Uploading(v)')
                 < cMaxFontsPerAccount + Cardinality(Handlers)
  <2>1. OwnedBy(v)' = OwnedBy(v)
    BY <1>1 DEF Upload, OwnedBy, disk
  <2>2. CASE u = v
    <3>1. Cardinality(OwnedBy(v)') < cMaxFontsPerAccount
      BY <1>1, <2>1, <2>2 DEF Upload
    <3>2. /\ Cardinality(OwnedBy(v)') \in Nat /\ Cardinality(Uploading(v)') \in Nat
          /\ Cardinality(Uploading(v)') <= Cardinality(Handlers)
          /\ cMaxFontsPerAccount \in Nat /\ Cardinality(Handlers) \in Nat
      <4>1. Uploading(v)' \in SUBSET Handlers
        BY DEF Uploading
      <4> QED
        BY <1>0, <2>1, <4>1, LibrariesAreFinite, FS_Subset, FS_CardinalityType
    <3> QED
      BY <3>1, <3>2
  <2>3. CASE u # v
    <3>1. Uploading(v)' \subseteq Uploading(v)
      BY <1>0, <1>1, <2>3 DEF Upload, Uploading, At, Idle
    <3> QED
      BY <1>0, <2>1, <3>1, NoMore
  <2> QED
    BY <2>2, <2>3
<1>2. ASSUME NEW h \in Handlers, Insert(h)
      PROVE  Cardinality(OwnedBy(v)') + Cardinality(Uploading(v)')
                 < cMaxFontsPerAccount + Cardinality(Handlers)
  <2>1. /\ \A g \in Handlers \ {h} : doing'[g] = doing[g]
        /\ doing'[h] = Idle /\ doing[h].step = "insert" /\ doing[h].new # 0
    BY <1>0, <1>2 DEF Insert, Done, At, AtHand
  <2>2. Uploading(v)' = Uploading(v) \ {h}
    BY <2>1 DEF Uploading, At, Idle
  <2>3. CASE OwnedBy(v)' \subseteq OwnedBy(v)
    BY <1>0, <2>2, <2>3, NoMore
  <2>4. CASE ~(OwnedBy(v)' \subseteq OwnedBy(v))
    <3>1. rows' = [i \in DOMAIN rows \cup {doing[h].new} |->
                      IF i = doing[h].new THEN [owner |-> doing[h].user, family |-> doing[h].family]
                                          ELSE rows[i]]
      BY <1>2, <2>4 DEF Insert, OwnedBy
    <3>2. doing[h].new \notin DOMAIN rows
      BY <2>1 DEF IInv, NewIsOwn
    <3>3. doing[h].user = v
      BY <2>4, <3>1, <3>2 DEF OwnedBy
    <3>4. OwnedBy(v)' = OwnedBy(v) \cup {doing[h].new}
      BY <3>1, <3>2, <3>3 DEF OwnedBy
    <3>5. /\ IsFiniteSet(OwnedBy(v)) /\ Cardinality(OwnedBy(v)) \in Nat
          /\ IsFiniteSet(Uploading(v)) /\ Cardinality(Uploading(v)) \in Nat
          /\ Cardinality(Handlers) \in Nat /\ cMaxFontsPerAccount \in Nat
      BY <1>0, LibrariesAreFinite
    <3>6. Cardinality(OwnedBy(v) \cup {doing[h].new}) \in {Cardinality(OwnedBy(v)), Cardinality(OwnedBy(v)) + 1}
      BY <3>5, FS_AddElement
    <3>7. h \in Uploading(v)
      BY <2>1, <3>3 DEF Uploading
    <3>8. Cardinality(Uploading(v) \ {h}) = Cardinality(Uploading(v)) - 1
      BY <3>5, <3>7, FS_RemoveElement
    <3> QED
      BY <2>2, <3>4, <3>5, <3>6, <3>8 DEF RoomLeft
  <2> QED
    BY <2>3, <2>4
<1>3. CASE OwnedBy(v)' \subseteq OwnedBy(v) /\ Uploading(v)' \subseteq Uploading(v)
  BY <1>0, <1>3, NoMore
<1>4. ASSUME NEW h \in Handlers, WriteFont(h) \/ FindSame(h) \/ RemoveFile(h)
      PROVE  OwnedBy(v)' \subseteq OwnedBy(v) /\ Uploading(v)' \subseteq Uploading(v)
  <2>1. /\ \A g \in Handlers \ {h} : doing'[g] = doing[g]
        /\ doing'[h].user = doing[h].user /\ UNCHANGED rows
        /\ (doing'[h].step = "write" \/ doing'[h].new # 0) => (doing[h].step = "write" \/ doing[h].new # 0)
    BY <1>0, <1>4 DEF WriteFont, FindSame, RemoveFile, Goto, At, Doing, disk
  <2> QED
    BY <2>1 DEF OwnedBy, Uploading, At
<1>5. ASSUME NEW h \in Handlers, DropRow(h)
      PROVE  OwnedBy(v)' \subseteq OwnedBy(v) /\ Uploading(v)' \subseteq Uploading(v)
  <2>1. /\ \A g \in Handlers \ {h} : doing'[g] = doing[g]
        /\ doing'[h] = Idle \/ (doing'[h].user = doing[h].user /\ doing'[h].step = "insert"
                                 /\ doing'[h].new = doing[h].new)
        /\ DOMAIN rows' \subseteq DOMAIN rows /\ \A i \in DOMAIN rows' : rows'[i] = rows[i]
    BY <1>0, <1>5 DEF DropRow, Done, Goto, Doing
  <2> QED
    BY <2>1 DEF OwnedBy, Uploading, At, Idle
<1>6. ASSUME NEW h \in Handlers, NEW u \in Users,
             \/ \E i \in DOMAIN rows : Delete(h, u, i)
             \/ Export(h, u)
      PROVE  OwnedBy(v)' \subseteq OwnedBy(v) /\ Uploading(v)' \subseteq Uploading(v)
  <2>1. /\ \A g \in Handlers \ {h} : doing'[g] = doing[g]
        /\ doing'[h].step # "write" /\ doing'[h].new = 0 /\ UNCHANGED rows
    BY <1>0, <1>6 DEF Delete, Export, Idle, disk
  <2> QED
    BY <2>1 DEF OwnedBy, Uploading, At
<1>7. ASSUME NEW h \in Handlers, (\E i \in 1..minted : Embed(h, i)) \/ Embedded(h)
      PROVE  OwnedBy(v)' \subseteq OwnedBy(v) /\ Uploading(v)' \subseteq Uploading(v)
  <2>1. /\ \A g \in Handlers \ {h} : doing'[g] = doing[g]
        /\ doing'[h].step \in {"embed", "styled"} /\ UNCHANGED rows
    <3>1. CASE \E i \in 1..minted : Embed(h, i)
      BY <1>0, <3>1 DEF Embed, At, Doing, disk
    <3>2. CASE Embedded(h)
      BY <1>0, <3>2 DEF Embedded, Goto, At, Doing, disk
    <3> QED
      BY <1>7, <3>1, <3>2
  <2>2. doing'[h].new = 0
    BY <1>0, <2>1 DEF AtHand
  <2> QED
    BY <2>1, <2>2 DEF OwnedBy, Uploading, At
<1>8. ASSUME NEW h \in Handlers, Exported(h) \/ Fail(h)
      PROVE  OwnedBy(v)' \subseteq OwnedBy(v) /\ Uploading(v)' \subseteq Uploading(v)
  BY <1>0, <1>8 DEF Exported, Fail, Done, Idle, OwnedBy, Uploading, At, disk
<1>9. ASSUME Crash
      PROVE  OwnedBy(v)' \subseteq OwnedBy(v) /\ Uploading(v)' \subseteq Uploading(v)
  BY <1>9 DEF Crash, Idle, OwnedBy, Uploading, At, disk
<1>10. ASSUME UNCHANGED vars
       PROVE  OwnedBy(v)' \subseteq OwnedBy(v) /\ Uploading(v)' \subseteq Uploading(v)
  BY <1>10 DEF vars, disk, OwnedBy, Uploading, At
<1> QED
  BY <1>1, <1>2, <1>3, <1>4, <1>5, <1>6, <1>7, <1>8, <1>9, <1>10 DEF Next, HandlerStep

----------------------------------------------------------------------------
(* What an export embeds *)

\* What an export was to embed it looked up, and what it came across of that it
\* embedded or could not read.  No later upload's font is among it: each has an
\* id of its own.
StyleSoFar ==
    \A h \in Handlers :
        LET d == doing[h]
        IN /\ d.had \subseteq 1..minted
           /\ \A g \in Handlers : doing[g].new \notin d.had
           /\ d.step = "embed" => d.had \cap kept \subseteq d.lib \cup d.style
           /\ d.step = "styled" => d.had \cap kept \subseteq d.style

\* A step that leaves the exports alone: what is kept from now on was kept, or is
\* the new font of an upload.
LEMMA StyleStays ==
  ASSUME StyleSoFar, doing \in [Handlers -> Doing], minted \in Nat, minted' \in {minted, minted + 1},
         kept' \subseteq kept \cup {doing[g].new : g \in Handlers},
         \A g \in Handlers :
             /\ doing'[g].new \in {0, doing[g].new, minted + 1}
             /\ \/ doing'[g].step \notin {"embed", "styled"} /\ doing'[g].had \in {{}, doing[g].had}
                \/ doing'[g] = doing[g]
  PROVE  StyleSoFar'
<1>1. \A g \in Handlers : doing'[g].had \subseteq doing[g].had
  OBVIOUS
<1>2. \A h, g \in Handlers : doing'[g].new \notin doing[h].had
  BY DEF StyleSoFar
<1>3. \A h \in Handlers : doing[h].had \cap kept' \subseteq kept
  BY DEF StyleSoFar
<1> QED
  BY <1>1, <1>2, <1>3 DEF StyleSoFar

LEMMA StyleKeeps == IInv /\ IInv' /\ StyleSoFar /\ [Next]_vars => StyleSoFar'
<1> SUFFICES ASSUME IInv, IInv', StyleSoFar, [Next]_vars PROVE StyleSoFar'
  OBVIOUS
<1>0. /\ doing \in [Handlers -> Doing] /\ minted \in Nat /\ kept \subseteq 1..minted
      /\ kept \subseteq files /\ kept \subseteq DOMAIN rows
  BY MintedIsNat DEF IInv, TypeOK, FontsLast
<1>1. ASSUME NEW h \in Handlers,
             \/ WriteFont(h) \/ FindSame(h) \/ RemoveFile(h) \/ DropRow(h)
             \/ Insert(h) \/ Exported(h) \/ Fail(h)
      PROVE  StyleSoFar'
  <2>1. /\ kept' \subseteq kept \cup {doing[g].new : g \in Handlers}
        /\ minted' \in {minted, minted + 1}
        /\ \A g \in Handlers \ {h} : doing'[g] = doing[g]
        /\ doing'[h].new \in {0, doing[h].new, minted + 1}
    BY <1>0, <1>1 DEF WriteFont, FindSame, RemoveFile, DropRow, Insert, Exported, Fail,
                      Goto, Done, Idle, Doing, disk
  <2>2. doing'[h].step \notin {"embed", "styled"} /\ doing'[h].had \in {{}, doing[h].had}
    BY <1>0, <1>1 DEF WriteFont, FindSame, RemoveFile, DropRow, Insert, Exported, Fail,
                      Goto, Done, Idle, Doing
  <2> QED
    BY <1>0, <2>1, <2>2, StyleStays
<1>2. ASSUME NEW h \in Handlers, NEW u \in Users,
             \/ \E f \in FamiliesOf[u] : Upload(h, u, f)
             \/ \E i \in DOMAIN rows : Delete(h, u, i)
      PROVE  StyleSoFar'
  <2>1. /\ kept' \subseteq kept /\ minted' = minted
        /\ \A g \in Handlers \ {h} : doing'[g] = doing[g]
        /\ doing'[h].new = 0 /\ doing'[h].had = {} /\ doing'[h].step \notin {"embed", "styled"}
    BY <1>0, <1>2 DEF Upload, Delete, Idle, disk
  <2> QED
    BY <1>0, <2>1, StyleStays
<1>3. ASSUME NEW h \in Handlers, NEW u \in Users, Export(h, u) PROVE StyleSoFar'
  <2>1. /\ UNCHANGED <<disk, kept>> /\ \A g \in Handlers \ {h} : doing'[g] = doing[g]
        /\ doing'[h].new = 0
        /\ \/ doing'[h].step = "embed" /\ doing'[h].had = OwnedBy(u) \cap kept
                                      /\ doing'[h].lib = OwnedBy(u)
           \/ doing'[h].step = "styled" /\ doing'[h].had = {}
    BY <1>0, <1>3 DEF Export, Idle
  <2>2. doing'[h].had \subseteq kept
    BY <2>1
  <2>3. \A g \in Handlers : doing'[g].new \notin doing'[h].had
    <3>1. \A g \in Handlers : doing'[g].new \in {0, doing[g].new}
      BY <2>1
    <3>2. 0 \notin kept
      BY <1>0
    <3>3. \A g \in Handlers : doing[g].new \notin kept
      BY <1>0, <3>2 DEF IInv, NewIsOwn
    <3> QED
      BY <2>2, <3>1, <3>2, <3>3
  <2>4. \A f \in Handlers \ {h} : \A g \in Handlers : doing'[g].new \notin doing'[f].had
    BY <1>0, <2>1 DEF StyleSoFar
  <2> QED
    <3>1. \A g \in Handlers : doing'[g].had \subseteq 1..minted
      BY <1>0, <2>1, <2>2 DEF StyleSoFar
    <3>2. \A f, g \in Handlers : doing'[g].new \notin doing'[f].had
      BY <2>3, <2>4
    <3> QED
      BY <2>1, <3>1, <3>2 DEF StyleSoFar, disk
<1>4. ASSUME NEW h \in Handlers, NEW i \in 1..minted, Embed(h, i) PROVE StyleSoFar'
  <2>1. /\ UNCHANGED <<disk, kept>> /\ \A g \in Handlers \ {h} : doing'[g] = doing[g]
        /\ doing'[h].new = doing[h].new
        /\ doing'[h].had \subseteq doing[h].had
        /\ doing'[h].step = "embed" /\ doing[h].step = "embed"
        /\ doing'[h].lib = doing[h].lib \ {i}
        /\ doing[h].style \subseteq doing'[h].style
        /\ i \in files => i \in doing'[h].style \/ i \notin doing'[h].had
    BY <1>0, <1>4 DEF Embed, At, Doing
  <2> QED
    BY <1>0, <2>1 DEF StyleSoFar, disk
<1>5. ASSUME NEW h \in Handlers, Embedded(h) PROVE StyleSoFar'
  <2>1. /\ UNCHANGED <<disk, kept>> /\ \A g \in Handlers \ {h} : doing'[g] = doing[g]
        /\ doing[h].step = "embed" /\ doing[h].lib = {}
        /\ doing' = [doing EXCEPT ![h].step = "styled"]
    BY <1>0, <1>5 DEF Embedded, Goto, At
  <2>2. /\ doing'[h].new = doing[h].new /\ doing'[h].had = doing[h].had
        /\ doing'[h].style = doing[h].style
        /\ doing'[h].step = "styled"
    BY <1>0, <2>1 DEF Doing
  <2> QED
    BY <1>0, <2>1, <2>2 DEF StyleSoFar, disk
<1>6. CASE Crash
  <2>1. \A g \in Handlers : doing'[g] = Idle
    BY <1>6 DEF Crash
  <2> QED
    BY <1>0, <1>6, <2>1, StyleStays DEF Crash, Idle, disk
<1>7. CASE UNCHANGED vars
  BY <1>7 DEF vars, disk, StyleSoFar
<1> QED
  BY <1>1, <1>2, <1>3, <1>4, <1>5, <1>6, <1>7 DEF Next, HandlerStep

----------------------------------------------------------------------------
\* IInv is an invariant, for any number of users, families, handlers and fonts.
THEOREM Invariance == Spec => []IInv
<1>1. Init => IInv
  BY FontsAssumption, IdleIsDoing
  DEF FontsAssumption, Init, IInv, TypeOK, AtHand, GoingIsGivenUp, NewIsOwn, OneRowEach,
      GoingIsAccountedFor, FontsLast, FamiliesLast, Id, Idle
<1> QED
  BY <1>1, Inductive, PTL DEF Spec

\* A font whose upload was answered keeps its row and its file until its owner
\* deletes or replaces it.
THEOREM FontsAreKept == Spec => []FontsLast
<1>1. IInv => FontsLast
  BY DEF IInv
<1> QED
  BY <1>1, Invariance, PTL

\* A family once uploaded stays in the library until it is deleted, but for the
\* moment in which its row is replaced.
THEOREM FamiliesAreKept == Spec => []FamiliesLast
<1>1. IInv => FamiliesLast
  BY DEF IInv
<1> QED
  BY <1>1, Invariance, PTL

\* A library is never over the account's limit by more than the uploads that
\* were counted together with it.
THEOREM LibrariesStayBounded == Spec => []LibraryBounded
<1>1. Init => RoomLeft
  <2> SUFFICES ASSUME Init, NEW u \in Users
               PROVE  Cardinality(OwnedBy(u)) + Cardinality(Uploading(u))
                          < cMaxFontsPerAccount + Cardinality(Handlers)
    BY DEF RoomLeft
  <2>1. OwnedBy(u) = {} /\ Uploading(u) = {}
    BY DEF Init, OwnedBy, Uploading, At, Idle
  <2>2. Cardinality(Handlers) \in Nat /\ cMaxFontsPerAccount \in Nat \ {0}
    BY FontsAssumption, FS_CardinalityType DEF FontsAssumption
  <2> QED
    BY <2>1, <2>2, FS_EmptySet
<1>2. IInv /\ RoomLeft => LibraryBounded
  <2> SUFFICES ASSUME IInv, RoomLeft, NEW u \in Users
               PROVE  Cardinality(OwnedBy(u)) < cMaxFontsPerAccount + Cardinality(Handlers)
    BY DEF LibraryBounded
  <2> QED
    BY LibrariesAreFinite DEF IInv, RoomLeft
<1> QED
  BY <1>1, <1>2, RoomKeeps, Invariance, PTL DEF Spec

\* When an export's style is made up, every font that was answered before the
\* lookup and is kept is in it, or could not be read.
THEOREM StylesAreComplete == Spec => []StylesComplete
<1>1. Init => StyleSoFar
  BY DEF Init, StyleSoFar, Idle
<1>2. StyleSoFar => StylesComplete
  BY DEF StyleSoFar, StylesComplete, At
<1> QED
  BY <1>1, <1>2, StyleKeeps, Invariance, PTL DEF Spec
============================================================================
