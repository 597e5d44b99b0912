-------------------------- MODULE WorkspaceProofs --------------------------
(***************************************************************************)
(* The workspace's safety properties for any handlers, requests, names and *)
(* trees.                                                                  *)
(*                                                                         *)
(* In layers, each an inductive invariant that rests on those before it:   *)
(*   TypeInv     the files and folders are a tree, and a handler is where  *)
(*               its request takes it;                                     *)
(*   ListingInv, WholeInv, TempsHaveWriters   listings, contents and what  *)
(*               becomes of temporary files;                               *)
(*   ClashInv    requests that have met are unsure; all others keep apart: *)
(*               what a step may touch (Touches) lies at its own places;   *)
(*   OwnInv      so what a deletion or a move has found out stays true;    *)
(*   ToldInv     what a write relies on, and what is still to be announced;*)
(*   GranteeInv  that a grantee's write is about what has been there;      *)
(*   TombInv     who has yet to set right a path and its tombstone;        *)
(*   QuotaInv    what the documents come to, whichever writes succeed.     *)
(***************************************************************************)
EXTENDS Workspace, SequenceTheorems, FiniteSetTheorems, WellFoundedInduction, TLAPS
----------------------------------------------------------------------------
(* Prefixes *)

\* Paths of names alone are paths.
LEMMA NamesArePaths == Seq(Names) \subseteq Path /\ <<>> \in Seq(Names)
BY DEF Path

\* A prefix agrees with what it is a prefix of, element by element.
LEMMA PrefixElements ==
  ASSUME NEW a \in Path, NEW b \in Path
  PROVE  /\ Len(a) \in Nat /\ Len(b) \in Nat
         /\ IsPrefix(a, b) <=> Len(a) <= Len(b) /\ \A i \in 1..Len(a) : a[i] = b[i]
<1>1. Len(a) \in Nat /\ Len(b) \in Nat
  BY DEF Path
<1>2. ASSUME Len(a) <= Len(b)
      PROVE  SubSeq(a, 1, Len(a)) = SubSeq(b, 1, Len(a)) <=> \A i \in 1..Len(a) : a[i] = b[i]
  <2>1. /\ SubSeq(a, 1, Len(a)) \in Path /\ Len(SubSeq(a, 1, Len(a))) = Len(a)
        /\ \A i \in 1..Len(a) : SubSeq(a, 1, Len(a))[i] = a[i]
    BY <1>1 DEF Path
  <2>2. /\ SubSeq(b, 1, Len(a)) \in Path /\ Len(SubSeq(b, 1, Len(a))) = Len(a)
        /\ \A i \in 1..Len(a) : SubSeq(b, 1, Len(a))[i] = b[i]
    BY <1>1, <1>2 DEF Path
  <2> HIDE DEF Path
  <2>3. ASSUME \A i \in 1..Len(a) : a[i] = b[i]
        PROVE  SubSeq(a, 1, Len(a)) = SubSeq(b, 1, Len(a))
    BY <2>1, <2>2, <2>3, SeqEqual DEF Path
  <2> QED
    BY <2>1, <2>2, <2>3
<1> QED
  BY <1>1, <1>2 DEF IsPrefix

\* Paths of the same elements are equal.
LEMMA PathEqual ==
  ASSUME NEW a \in Path, NEW b \in Path, Len(a) = Len(b), \A i \in 1..Len(a) : a[i] = b[i]
  PROVE  a = b
BY SeqEqual DEF Path

\* The order of the paths.
LEMMA PrefixOrder ==
  ASSUME NEW a \in Path, NEW b \in Path, NEW c \in Path
  PROVE  /\ IsPrefix(a, a)
         /\ IsPrefix(<<>>, a)
         /\ IsPrefix(a, b) /\ IsPrefix(b, a) => a = b
         /\ IsPrefix(a, b) /\ IsPrefix(b, c) => IsPrefix(a, c)
         /\ IsPrefix(a, c) /\ IsPrefix(b, c) => IsPrefix(a, b) \/ IsPrefix(b, a)
<1>1. Len(a) \in Nat /\ Len(b) \in Nat /\ Len(c) \in Nat /\ Len(<<>>) = 0 /\ <<>> \in Path
  BY PrefixElements DEF Path
<1>2. IsPrefix(a, a) /\ IsPrefix(<<>>, a)
  BY <1>1, PrefixElements
<1>3. ASSUME IsPrefix(a, b), IsPrefix(b, a) PROVE a = b
  <2>1. Len(a) <= Len(b) /\ Len(b) <= Len(a) /\ \A i \in 1..Len(a) : a[i] = b[i]
    BY <1>3, PrefixElements
  <2> QED
    BY <1>1, <2>1, PathEqual
<1>4. ASSUME IsPrefix(a, b), IsPrefix(b, c) PROVE IsPrefix(a, c)
  <2>1. /\ Len(a) <= Len(b) /\ \A i \in 1..Len(a) : a[i] = b[i]
        /\ Len(b) <= Len(c) /\ \A i \in 1..Len(b) : b[i] = c[i]
    BY <1>4, PrefixElements
  <2>2. Len(a) <= Len(c) /\ \A i \in 1..Len(a) : a[i] = c[i]
    BY <1>1, <2>1
  <2> QED
    BY <2>2, PrefixElements
<1>5. ASSUME IsPrefix(a, c), IsPrefix(b, c) PROVE IsPrefix(a, b) \/ IsPrefix(b, a)
  <2>1. /\ \A i \in 1..Len(a) : a[i] = c[i]
        /\ \A i \in 1..Len(b) : b[i] = c[i]
    BY <1>5, PrefixElements
  <2>2. CASE Len(a) <= Len(b)
    <3>1. \A i \in 1..Len(a) : a[i] = b[i]
      BY <1>1, <2>1, <2>2
    <3> QED
      BY <2>2, <3>1, PrefixElements
  <2>3. CASE Len(b) <= Len(a)
    <3>1. \A i \in 1..Len(b) : b[i] = a[i]
      BY <1>1, <2>1, <2>3
    <3> QED
      BY <2>3, <3>1, PrefixElements
  <2> QED
    BY <1>1, <2>2, <2>3
<1> QED
  BY <1>2, <1>3, <1>4, <1>5

\* What a path begins with.
LEMMA Beginnings ==
  ASSUME NEW S, NEW b \in Seq(S), NEW n \in 0..Len(b)
  PROVE  /\ Len(b) \in Nat
         /\ SubSeq(b, 1, n) \in Seq(S) /\ Len(SubSeq(b, 1, n)) = n
         /\ \A i \in 1..n : SubSeq(b, 1, n)[i] = b[i]
         /\ SubSeq(b, 1, Len(b)) = b
<1>1. Len(b) \in Nat
  OBVIOUS
<1>2. /\ SubSeq(b, 1, n) \in Seq(S) /\ Len(SubSeq(b, 1, n)) = n
      /\ \A i \in 1..n : SubSeq(b, 1, n)[i] = b[i]
  BY <1>1
<1>3. SubSeq(b, 1, Len(b)) \in Seq(S) /\ Len(SubSeq(b, 1, Len(b))) = Len(b)
      /\ \A i \in 1..Len(b) : SubSeq(b, 1, Len(b))[i] = b[i]
  BY <1>1
<1>4. SubSeq(b, 1, Len(b)) = b
  BY <1>1, <1>3, SeqEqual
<1> QED
  BY <1>1, <1>2, <1>4

\* The prefixes of a path are its beginnings.
LEMMA PrefixIsBeginning ==
  ASSUME NEW a \in Path, NEW b \in Path
  PROVE  /\ IsPrefix(a, b) => a = SubSeq(b, 1, Len(a)) /\ Len(a) \in 0..Len(b)
         /\ IsStrictPrefix(a, b) => Len(a) \in 0..(Len(b) - 1) /\ Len(a) < Len(b)
         /\ IsPrefix(a, b) /\ Len(a) # Len(b) => IsStrictPrefix(a, b)
         /\ \A n \in 0..Len(b) : /\ SubSeq(b, 1, n) \in Path
                                 /\ IsPrefix(SubSeq(b, 1, n), b)
                                 /\ n < Len(b) => IsStrictPrefix(SubSeq(b, 1, n), b)
<1>1. Len(a) \in Nat /\ Len(b) \in Nat
  BY PrefixElements
<1>2. ASSUME NEW n \in 0..Len(b)
      PROVE  /\ SubSeq(b, 1, n) \in Path /\ Len(SubSeq(b, 1, n)) = n
             /\ \A i \in 1..n : SubSeq(b, 1, n)[i] = b[i]
  BY <1>2, Beginnings DEF Path
<1>3. ASSUME NEW n \in 0..Len(b)
      PROVE  /\ IsPrefix(SubSeq(b, 1, n), b)
             /\ n < Len(b) => IsStrictPrefix(SubSeq(b, 1, n), b)
  <2>1. n <= Len(b)
    BY <1>1
  <2>2. IsPrefix(SubSeq(b, 1, n), b)
    BY <1>2, <2>1, PrefixElements
  <2>3. n < Len(b) => SubSeq(b, 1, n) # b
    BY <1>1, <1>2
  <2> QED
    BY <2>2, <2>3 DEF IsStrictPrefix
<1>4. ASSUME IsPrefix(a, b)
      PROVE  a = SubSeq(b, 1, Len(a)) /\ Len(a) \in 0..Len(b)
  <2>1. Len(a) <= Len(b) /\ \A i \in 1..Len(a) : a[i] = b[i]
    BY <1>4, PrefixElements
  <2>2. Len(a) \in 0..Len(b)
    BY <1>1, <2>1
  <2>3. /\ SubSeq(b, 1, Len(a)) \in Path /\ Len(SubSeq(b, 1, Len(a))) = Len(a)
        /\ \A i \in 1..Len(a) : SubSeq(b, 1, Len(a))[i] = b[i]
    BY <1>2, <2>2
  <2> QED
    BY <2>1, <2>2, <2>3, PathEqual
<1>5. ASSUME IsStrictPrefix(a, b) PROVE Len(a) \in 0..(Len(b) - 1) /\ Len(a) < Len(b)
  <2>1. IsPrefix(a, b) /\ a # b
    BY <1>5 DEF IsStrictPrefix
  <2>2. a = SubSeq(b, 1, Len(a)) /\ Len(a) \in 0..Len(b)
    BY <1>4, <2>1
  <2>3. Len(a) # Len(b)
    BY <2>1, <2>2, Beginnings DEF Path
  <2> QED
    BY <1>1, <2>2, <2>3
<1>6. ASSUME IsPrefix(a, b), Len(a) # Len(b) PROVE IsStrictPrefix(a, b)
  BY <1>6 DEF IsStrictPrefix
<1> QED
  BY <1>2, <1>3, <1>4, <1>5, <1>6

\* The folder of an entry.
LEMMA Folders ==
  ASSUME NEW p \in Path, p # <<>>
  PROVE  /\ Front(p) \in Path
         /\ p \in Seq(Names) => Front(p) \in Seq(Names)
         /\ IsStrictPrefix(Front(p), p)
         /\ \A a \in Path : IsStrictPrefix(a, p) <=> IsPrefix(a, Front(p))
<1>1. Len(p) \in Nat /\ Len(p) # 0
  BY DEF Path
<1> DEFINE n == Len(p) - 1
<1>2. n \in 0..Len(p) /\ n < Len(p) /\ n \in Nat
  BY <1>1
<1>3. Front(p) = SubSeq(p, 1, n)
  BY DEF Front
<1> HIDE DEF n
<1>4. Front(p) \in Path /\ IsStrictPrefix(Front(p), p) /\ Len(Front(p)) = n
  <2>1. SubSeq(p, 1, n) \in Path /\ IsStrictPrefix(SubSeq(p, 1, n), p)
    BY <1>2, PrefixIsBeginning
  <2>2. Len(SubSeq(p, 1, n)) = n
    BY <1>2, Beginnings DEF Path
  <2> QED
    BY <1>3, <2>1, <2>2
<1>5. p \in Seq(Names) => Front(p) \in Seq(Names)
  BY <1>2, <1>3, Beginnings
<1>6. ASSUME NEW a \in Path, IsPrefix(a, Front(p)) PROVE IsStrictPrefix(a, p)
  <2>1. IsPrefix(a, p)
    BY <1>4, <1>6, PrefixOrder DEF IsStrictPrefix
  <2>2. Len(a) <= n
    BY <1>4, <1>6, PrefixElements
  <2> QED
    BY <1>1, <2>1, <2>2 DEF IsStrictPrefix, n
<1>7. ASSUME NEW a \in Path, IsStrictPrefix(a, p) PROVE IsPrefix(a, Front(p))
  <2>1. IsPrefix(a, p) /\ Len(a) \in 0..n
    BY <1>7, PrefixIsBeginning DEF IsStrictPrefix, n
  <2>2. IsPrefix(Front(p), a) => Len(Front(p)) <= Len(a)
    BY <1>4, PrefixElements
  <2>3. IsPrefix(a, Front(p)) \/ IsPrefix(Front(p), a)
    BY <1>4, <2>1, PrefixOrder DEF IsStrictPrefix
  <2>4. ASSUME IsPrefix(Front(p), a) PROVE a = Front(p)
    <3>1. Len(a) = Len(Front(p))
      BY <1>4, <2>1, <2>2, <2>4
    <3> QED
      BY <1>4, <2>4, <3>1, PathEqual, PrefixElements
  <2> QED
    BY <1>4, <2>3, <2>4, PrefixOrder
<1> QED
  BY <1>4, <1>5, <1>6, <1>7
\* What is under a renamed entry keeps its name, and Moved leads back to it.
LEMMA MovedBack ==
  ASSUME NEW S, NEW a \in Seq(S), NEW b \in Seq(S), NEW q \in Seq(S), IsPrefix(a, q)
  PROVE  /\ Moved(a, b, q) \in Seq(S)
         /\ Moved(b, a, Moved(a, b, q)) = q
         /\ q = a => Moved(a, b, q) = b
         /\ q # a => /\ q # <<>> /\ Moved(a, b, q) # <<>>
                     /\ Last(Moved(a, b, q)) = Last(q)
<1> DEFINE n == Len(q) - Len(a)
           s == SubSeq(q, Len(a) + 1, Len(q))
           r == b \o s
<1>1. Len(a) \in Nat /\ Len(b) \in Nat /\ Len(q) \in Nat /\ n \in Nat
  BY DEF IsPrefix
<1>2. s \in Seq(S) /\ Len(s) = n /\ \A i \in 1..n : s[i] = q[Len(a) + i]
  BY <1>1
<1>3. r \in Seq(S) /\ Len(r) = Len(b) + n
  BY <1>1, <1>2
<1>4. /\ \A i \in 1..Len(b) : r[i] = b[i]
      /\ \A i \in 1..n : r[Len(b) + i] = q[Len(a) + i]
  BY <1>1, <1>2, <1>3
<1>5. Moved(a, b, q) = r
  BY DEF Moved
<1>6. IsPrefix(b, r)
  <2>1. Len(b) <= Len(r)
    BY <1>1, <1>3
  <2>2. SubSeq(b, 1, Len(b)) = SubSeq(r, 1, Len(b))
    BY <1>1, <1>3, <1>4, <2>1
  <2> QED
    BY <2>1, <2>2 DEF IsPrefix
<1>7. SubSeq(r, Len(b) + 1, Len(r)) = s
  BY <1>1, <1>2, <1>3, <1>4
<1>8. a \o s = q
  <2>1. \A i \in 1..Len(a) : q[i] = a[i]
    BY <1>1 DEF IsPrefix
  <2>2. a \o s \in Seq(S) /\ Len(a \o s) = Len(q)
    BY <1>1, <1>2
  <2>3. \A i \in 1..Len(q) : (a \o s)[i] = q[i]
    BY <1>1, <1>2, <2>1, <2>2
  <2> QED
    BY <2>2, <2>3, SeqEqual
<1>9. Moved(b, a, r) = q
  BY <1>6, <1>7, <1>8 DEF Moved
<1>10. ASSUME q = a PROVE r = b
  BY <1>1, <1>2, <1>3, <1>4, <1>10, SeqEqual
<1>11. ASSUME q # a PROVE q # <<>> /\ r # <<>> /\ Last(r) = Last(q)
  <2>1. n # 0
    BY <1>1, <1>2, <1>8, <1>11
  <2>2. n \in 1..n /\ Len(b) + n = Len(r) /\ Len(a) + n = Len(q)
    BY <1>1, <1>3, <2>1
  <2>3. r[Len(r)] = q[Len(q)]
    BY <1>4, <2>2
  <2>4. Len(q) # 0 /\ Len(r) # 0
    BY <1>1, <1>3, <2>1
  <2> HIDE DEF r
  <2> QED
    BY <2>3, <2>4 DEF Last
<1> HIDE DEF r
<1> QED
  BY <1>3, <1>5, <1>9, <1>10, <1>11

\* What is under a renamed entry is as far under its new place.
LEMMA MovedUnder ==
  ASSUME NEW a \in Path, NEW b \in Path, NEW q \in Path, IsPrefix(a, q)
  PROVE  /\ Moved(a, b, q) \in Path /\ IsPrefix(b, Moved(a, b, q))
         /\ Moved(b, a, Moved(a, b, q)) = q
         /\ a \in Seq(Names) /\ b \in Seq(Names) /\ q \in Seq(Names)
                => Moved(a, b, q) \in Seq(Names)
         /\ Moved(a, b, a) = b /\ Moved(a, a, q) = q
         /\ Len(Moved(a, b, q)) = Len(b) + Len(q) - Len(a)
         /\ \A i \in 1..(Len(q) - Len(a)) : Moved(a, b, q)[Len(b) + i] = q[Len(a) + i]
<1> DEFINE n == Len(q) - Len(a)
           s == SubSeq(q, Len(a) + 1, Len(q))
           r == b \o s
<1>1. Len(a) \in Nat /\ Len(b) \in Nat /\ Len(q) \in Nat /\ n \in Nat
  BY PrefixElements
<1>2. s \in Path /\ Len(s) = n /\ \A i \in 1..n : s[i] = q[Len(a) + i]
  BY <1>1 DEF Path
<1>3. r \in Path /\ Len(r) = Len(b) + n
  BY <1>1, <1>2 DEF Path
<1>4. /\ \A i \in 1..Len(b) : r[i] = b[i]
      /\ \A i \in 1..n : r[Len(b) + i] = q[Len(a) + i]
  BY <1>1, <1>2, <1>3 DEF Path
<1>5. Moved(a, b, q) = r
  BY DEF Moved
<1>6. IsPrefix(b, r)
  <2>1. Len(b) <= Len(r)
    BY <1>1, <1>3
  <2> HIDE DEF r
  <2> QED
    BY <1>3, <1>4, <2>1, PrefixElements
<1>7. Moved(b, a, Moved(a, b, q)) = q /\ Moved(a, b, a) = b
  <2>1. IsPrefix(a, a)
    BY PrefixOrder
  <2> QED
    BY <2>1, MovedBack DEF Path
<1>8. a \in Seq(Names) /\ b \in Seq(Names) /\ q \in Seq(Names) => Moved(a, b, q) \in Seq(Names)
  BY MovedBack
<1>9. Moved(a, a, q) = q
  <2>1. Moved(a, a, Moved(a, a, q)) = q
    BY MovedBack DEF Path
  <2>2. Moved(a, a, q) \in Path /\ Len(Moved(a, a, q)) = Len(q)
    <3> DEFINE t == a \o s
    <3>1. t \in Path /\ Len(t) = Len(a) + n
      BY <1>1, <1>2 DEF Path
    <3>2. Moved(a, a, q) = t
      BY DEF Moved
    <3> HIDE DEF t
    <3> QED
      BY <1>1, <3>1, <3>2
  <2>3. \A i \in 1..Len(q) : Moved(a, a, q)[i] = q[i]
    <3>1. \A i \in 1..Len(a) : q[i] = a[i]
      BY PrefixElements
    <3>2. \A i \in 1..Len(q) : (a \o s)[i] = IF i <= Len(a) THEN a[i] ELSE s[i - Len(a)]
      BY <1>1, <1>2 DEF Path
    <3>3. \A i \in 1..Len(q) : (a \o s)[i] = q[i]
      <4> TAKE i \in 1..Len(q)
      <4>1. CASE i <= Len(a)
        BY <1>1, <3>1, <3>2, <4>1
      <4>2. CASE ~(i <= Len(a))
        <5>1. i - Len(a) \in 1..n /\ Len(a) + (i - Len(a)) = i
          BY <1>1, <4>2
        <5>2. s[i - Len(a)] = q[Len(a) + (i - Len(a))]
          BY <1>2, <5>1
        <5> HIDE DEF s
        <5> QED
          BY <3>2, <4>2, <5>1, <5>2
      <4> QED
        BY <4>1, <4>2
    <3> QED
      BY <3>3 DEF Moved
  <2> QED
    BY <2>2, <2>3, PathEqual
<1> HIDE DEF r
<1> QED
  BY <1>1, <1>3, <1>4, <1>5, <1>6, <1>7, <1>8, <1>9 DEF n

\* What is under an entry is under it in their new place, too.
LEMMA MovedOrder ==
  ASSUME NEW a \in Path, NEW b \in Path, NEW c \in Path, NEW q \in Path,
         IsPrefix(a, c), IsPrefix(c, q)
  PROVE  /\ IsPrefix(a, q) /\ IsPrefix(Moved(a, b, c), Moved(a, b, q))
         /\ c # q => Moved(a, b, c) # Moved(a, b, q)
<1>0. Len(a) \in Nat /\ Len(b) \in Nat /\ Len(c) \in Nat /\ Len(q) \in Nat
  BY PrefixElements
<1>1. IsPrefix(a, q)
  BY PrefixOrder
<1>2. /\ Moved(a, b, c) \in Path /\ Moved(a, b, q) \in Path
      /\ IsPrefix(b, Moved(a, b, c)) /\ IsPrefix(b, Moved(a, b, q))
      /\ Len(Moved(a, b, c)) = Len(b) + Len(c) - Len(a)
      /\ Len(Moved(a, b, q)) = Len(b) + Len(q) - Len(a)
      /\ \A i \in 1..(Len(c) - Len(a)) : Moved(a, b, c)[Len(b) + i] = c[Len(a) + i]
      /\ \A i \in 1..(Len(q) - Len(a)) : Moved(a, b, q)[Len(b) + i] = q[Len(a) + i]
      /\ Moved(b, a, Moved(a, b, c)) = c /\ Moved(b, a, Moved(a, b, q)) = q
  <2>1. ASSUME NEW r \in Path, IsPrefix(a, r)
        PROVE  /\ Moved(a, b, r) \in Path /\ IsPrefix(b, Moved(a, b, r))
               /\ Len(Moved(a, b, r)) = Len(b) + Len(r) - Len(a)
               /\ \A i \in 1..(Len(r) - Len(a)) : Moved(a, b, r)[Len(b) + i] = r[Len(a) + i]
               /\ Moved(b, a, Moved(a, b, r)) = r
    <3>1. Moved(a, b, r) \in Path /\ IsPrefix(b, Moved(a, b, r)) /\ Moved(b, a, Moved(a, b, r)) = r
      BY <2>1, MovedUnder
    <3>2. Len(Moved(a, b, r)) = Len(b) + Len(r) - Len(a)
      BY <2>1, MovedUnder
    <3>3. \A i \in 1..(Len(r) - Len(a)) : Moved(a, b, r)[Len(b) + i] = r[Len(a) + i]
      BY <2>1, MovedUnder
    <3> QED
      BY <3>1, <3>2, <3>3
  <2> QED
    BY <1>1, <2>1
<1>3. /\ Len(a) <= Len(c) /\ Len(c) <= Len(q)
      /\ \A i \in 1..Len(c) : c[i] = q[i]
      /\ \A i \in 1..Len(b) : Moved(a, b, c)[i] = b[i] /\ Moved(a, b, q)[i] = b[i]
  BY <1>2, PrefixElements
<1>4. Len(Moved(a, b, c)) <= Len(Moved(a, b, q))
  BY <1>0, <1>2, <1>3
<1>5. ASSUME NEW i \in 1..Len(Moved(a, b, c)) PROVE Moved(a, b, c)[i] = Moved(a, b, q)[i]
  <2>1. CASE i <= Len(b)
    BY <1>0, <1>3, <2>1
  <2>2. CASE ~(i <= Len(b))
    <3> DEFINE k == i - Len(b)
    <3>1. /\ k \in 1..(Len(c) - Len(a)) /\ k \in 1..(Len(q) - Len(a)) /\ Len(b) + k = i
          /\ Len(a) + k \in 1..Len(c)
      BY <1>0, <1>2, <1>3, <2>2
    <3> HIDE DEF k
    <3>2. /\ Moved(a, b, c)[Len(b) + k] = c[Len(a) + k]
          /\ Moved(a, b, q)[Len(b) + k] = q[Len(a) + k]
          /\ c[Len(a) + k] = q[Len(a) + k]
      BY <1>2, <1>3, <3>1
    <3> QED
      BY <3>1, <3>2
  <2> QED
    BY <2>1, <2>2
<1>6. IsPrefix(Moved(a, b, c), Moved(a, b, q))
  BY <1>2, <1>4, <1>5, PrefixElements
<1> QED
  BY <1>1, <1>2, <1>6

----------------------------------------------------------------------------
(* Trees *)

\* The files f and the folders d are a tree.
Tree(f, d) ==
    /\ DOMAIN f \subseteq Path
    /\ d \subseteq Seq(Names) /\ <<>> \in d
    /\ DOMAIN f \cap d = {}
    /\ \A p \in DOMAIN f \cup d : \A n \in 0..(Len(p) - 1) : SubSeq(p, 1, n) \in d

\* What is above an entry of a tree is one of its folders.
LEMMA Above ==
  ASSUME NEW f, NEW d, Tree(f, d), NEW p \in DOMAIN f \cup d, NEW a \in Path, IsStrictPrefix(a, p)
  PROVE  a \in d
<1>1. p \in Path
  BY NamesArePaths DEF Tree
<1>2. Len(a) \in 0..(Len(p) - 1) /\ a = SubSeq(p, 1, Len(a))
  BY <1>1, PrefixIsBeginning DEF IsStrictPrefix
<1> QED
  BY <1>2 DEF Tree

\* A tree is known by what is above its entries.
LEMMA IsTree ==
  ASSUME NEW f, NEW d, DOMAIN f \subseteq Path, d \subseteq Seq(Names), <<>> \in d,
         DOMAIN f \cap d = {},
         \A p \in DOMAIN f \cup d : \A a \in Path : IsStrictPrefix(a, p) => a \in d
  PROVE  Tree(f, d)
<1> SUFFICES ASSUME NEW p \in DOMAIN f \cup d, NEW n \in 0..(Len(p) - 1)
             PROVE  SubSeq(p, 1, n) \in d
  BY DEF Tree
<1>1. p \in Path /\ Len(p) \in Nat
  BY NamesArePaths, PrefixElements
<1>2. n \in 0..Len(p) /\ n < Len(p)
  BY <1>1
<1> QED
  BY <1>1, <1>2, PrefixIsBeginning

\* Nothing is under a file.
LEMMA UnderAFile ==
  ASSUME NEW f, NEW d, Tree(f, d), NEW a \in DOMAIN f, NEW p \in DOMAIN f \cup d, IsPrefix(a, p)
  PROVE  p = a
BY Above DEF Tree, IsStrictPrefix

\* Nothing is under what is not there, either.
LEMMA UnderNothing ==
  ASSUME NEW f, NEW d, Tree(f, d), NEW a \in Path, a \notin d,
         NEW p \in DOMAIN f \cup d, IsPrefix(a, p)
  PROVE  p = a /\ p \in DOMAIN f
BY Above DEF Tree, IsStrictPrefix

\* create_directories leaves a tree, and makes no folder where a file is.
LEMMA Creations ==
  ASSUME Tree(file, dirs), NEW d \in Seq(Names)
  PROVE  /\ Tree(file, dirs \cup Created(d))
         /\ \A c \in Created(d) : c \in Seq(Names) /\ IsPrefix(c, d) /\ c \notin DOMAIN file
<1>1. d \in Path /\ Len(d) \in Nat
  BY NamesArePaths, PrefixElements
<1>2. ASSUME NEW c \in Created(d)
      PROVE  /\ c \in Seq(Names) /\ IsPrefix(c, d) /\ c \notin DOMAIN file
             /\ \A a \in Path : IsStrictPrefix(a, c) => a \in Created(d)
  <2>1. PICK n \in 0..Len(d) : c = SubSeq(d, 1, n) /\ ~Blocked(SubSeq(d, 1, n))
    BY <1>2 DEF Created
  <2>2. c \in Seq(Names) /\ Len(c) = n /\ c \in Path
    BY <1>1, <2>1, Beginnings, NamesArePaths
  <2>3. IsPrefix(c, d)
    BY <1>1, <2>1, PrefixIsBeginning
  <2>4. \A m \in 0..n : SubSeq(c, 1, m) \notin DOMAIN file
    BY <2>1, <2>2 DEF Blocked
  <2>5. c \notin DOMAIN file
    <3>1. n \in 0..n /\ SubSeq(c, 1, n) = c
      BY <2>2, Beginnings
    <3> QED
      BY <2>4, <3>1
  <2>6. ASSUME NEW a \in Path, IsStrictPrefix(a, c) PROVE a \in Created(d)
    <3>1. IsPrefix(a, d) /\ IsPrefix(a, c) /\ Len(a) \in Nat
      BY <1>1, <2>2, <2>3, <2>6, PrefixOrder, PrefixElements DEF IsStrictPrefix
    <3>2. Len(a) \in 0..Len(d) /\ a = SubSeq(d, 1, Len(a))
      BY <1>1, <3>1, PrefixIsBeginning
    <3>3. ASSUME NEW m \in 0..Len(a) PROVE SubSeq(a, 1, m) \notin DOMAIN file
      <4>1. SubSeq(a, 1, m) \in Path /\ IsPrefix(SubSeq(a, 1, m), a) /\ Len(SubSeq(a, 1, m)) = m
        BY <3>1, <3>3, PrefixIsBeginning, Beginnings DEF Path
      <4>2. IsPrefix(SubSeq(a, 1, m), c)
        BY <2>2, <3>1, <4>1, PrefixOrder
      <4>3. Len(SubSeq(a, 1, m)) \in 0..Len(c)
            /\ SubSeq(a, 1, m) = SubSeq(c, 1, Len(SubSeq(a, 1, m)))
        BY <2>2, <4>1, <4>2, PrefixIsBeginning
      <4> QED
        BY <2>2, <2>4, <4>1, <4>3
    <3>4. ~Blocked(a)
      BY <3>3 DEF Blocked
    <3> QED
      BY <3>2, <3>4 DEF Created
  <2> QED
    BY <2>2, <2>3, <2>5, <2>6
<1>3. ASSUME NEW p \in DOMAIN file \cup (dirs \cup Created(d)), NEW a \in Path, IsStrictPrefix(a, p)
      PROVE  a \in dirs \cup Created(d)
  BY <1>2, <1>3, Above
<1>4. Tree(file, dirs \cup Created(d))
  <2>1. DOMAIN file \subseteq Path /\ dirs \cup Created(d) \subseteq Seq(Names)
        /\ <<>> \in dirs \cup Created(d) /\ DOMAIN file \cap (dirs \cup Created(d)) = {}
    BY <1>2 DEF Tree
  <2> QED
    BY <1>3, <2>1, IsTree
<1> QED
  BY <1>2, <1>4

\* So does the removal of a file or of an empty folder, ...
LEMMA Removals ==
  ASSUME Tree(file, dirs), NEW p, p # <<>>, ~(p \in dirs /\ Occupied(p))
  PROVE  Tree(Without(p), dirs \ {p})
<1>1. DOMAIN Without(p) = DOMAIN file \ {p}
  BY DEF Without
<1>2. ASSUME NEW q \in DOMAIN Without(p) \cup (dirs \ {p}), NEW a \in Path, IsStrictPrefix(a, q)
      PROVE  a \in dirs \ {p}
  <2>1. a \in dirs /\ q \in DOMAIN file \cup dirs
    BY <1>1, <1>2, Above
  <2> QED
    BY <1>2, <2>1 DEF Occupied
<1>3. /\ DOMAIN Without(p) \subseteq Path /\ dirs \ {p} \subseteq Seq(Names)
      /\ <<>> \in dirs \ {p} /\ DOMAIN Without(p) \cap (dirs \ {p}) = {}
  BY <1>1 DEF Tree
<1> QED
  BY <1>2, <1>3, IsTree

\* ... and a new file in a folder.
LEMMA Additions ==
  ASSUME Tree(file, dirs), NEW p \in Path, p # <<>>, Front(p) \in dirs, p \notin dirs, NEW c
  PROVE  Tree(With(p, c), dirs)
<1>1. DOMAIN With(p, c) = DOMAIN file \cup {p}
  BY DEF With
<1>2. ASSUME NEW q \in DOMAIN With(p, c) \cup dirs, NEW a \in Path, IsStrictPrefix(a, q)
      PROVE  a \in dirs
  <2>1. CASE q = p
    <3>1. IsPrefix(a, Front(p)) /\ Front(p) \in Path
      BY <1>2, <2>1, Folders
    <3> QED
      BY <3>1, Above DEF IsStrictPrefix
  <2>2. CASE q # p
    BY <1>1, <1>2, <2>2, Above
  <2> QED
    BY <2>1, <2>2
<1>3. /\ DOMAIN With(p, c) \subseteq Path /\ dirs \subseteq Seq(Names)
      /\ <<>> \in dirs /\ DOMAIN With(p, c) \cap dirs = {}
  BY <1>1 DEF Tree
<1> QED
  BY <1>2, <1>3, IsTree

\* The files after a rename.
LEMMA RenamedDomain ==
  ASSUME NEW a, NEW b, NEW r
  PROVE  r \in DOMAIN Renamed(a, b) <=>
           \/ \E q \in DOMAIN file : IsPrefix(a, q) /\ r = Moved(a, b, q)
           \/ r \in DOMAIN file /\ ~IsPrefix(a, r) /\ ~IsPrefix(b, r)
BY DEF Renamed

\* rename of a file.
LEMMA FileRenamed ==
  ASSUME Tree(file, dirs), NEW a \in DOMAIN file, NEW b \in Path, CanRename(a, b)
  PROVE  /\ DOMAIN Renamed(a, b) = (DOMAIN file \ {a}) \cup {b}
         /\ {Moved(a, b, q) : q \in dirs} = dirs
         /\ b \notin dirs
         /\ \A q \in DOMAIN file : IsPrefix(a, q) <=> q = a
<1>1. a \in Path /\ a \notin dirs /\ b \notin dirs
  BY DEF Tree, CanRename
<1>2. \A q \in DOMAIN file \cup dirs : IsPrefix(a, q) <=> q = a
  BY <1>1, UnderAFile, PrefixOrder
<1>3. \A q \in DOMAIN file : IsPrefix(b, q) <=> q = b
  BY <1>1, UnderNothing, PrefixOrder
<1>4. Moved(a, b, a) = b
  BY <1>1, MovedUnder, PrefixOrder
<1>5. \A q \in dirs : Moved(a, b, q) = q
  BY <1>1, <1>2 DEF Moved
<1>6. ASSUME NEW r PROVE r \in DOMAIN Renamed(a, b) <=> r \in (DOMAIN file \ {a}) \cup {b}
  BY <1>2, <1>3, <1>4, RenamedDomain
<1> QED
  BY <1>1, <1>2, <1>5, <1>6

\* rename of a folder.
LEMMA FolderRenamed ==
  ASSUME Tree(file, dirs), NEW a \in dirs, a # <<>>, NEW b \in Seq(Names), CanRename(a, b)
  PROVE  /\ Tree(Renamed(a, b), {Moved(a, b, q) : q \in dirs})
         /\ \A q \in DOMAIN file \cup dirs : IsPrefix(b, q) => q = b \/ a = b
         /\ a # b => ~IsPrefix(a, b) /\ ~IsPrefix(b, a)
<1> DEFINE d == {Moved(a, b, q) : q \in dirs}
<1>1. /\ a \in Path /\ b \in Path /\ a \in Seq(Names) /\ dirs \subseteq Path
      /\ DOMAIN file \subseteq Path
  BY NamesArePaths DEF Tree
<1>2. /\ Front(b) \in dirs /\ b \notin DOMAIN file /\ ~IsStrictPrefix(a, b)
      /\ a = b \/ b \notin dirs \/ ~Occupied(b)
  BY DEF CanRename, Tree
<1>3. ASSUME NEW q \in DOMAIN file \cup dirs, IsPrefix(b, q) PROVE q = b \/ a = b
  <2>1. CASE b \notin dirs
    BY <1>1, <1>3, <2>1, UnderNothing
  <2>2. CASE ~Occupied(b)
    BY <1>3, <2>2 DEF Occupied, IsStrictPrefix
  <2> QED
    BY <1>2, <2>1, <2>2
<1>4. a # b => ~IsPrefix(a, b) /\ ~IsPrefix(b, a)
  BY <1>2, <1>3 DEF IsStrictPrefix
<1>5. ASSUME NEW r
      PROVE  r \in DOMAIN Renamed(a, b) <=> \/ \E q \in DOMAIN file : IsPrefix(a, q) /\ r = Moved(a, b, q)
                                            \/ r \in DOMAIN file /\ ~IsPrefix(a, r)
  <2>1. r \in DOMAIN file /\ IsPrefix(b, r) => IsPrefix(a, r)
    BY <1>2, <1>3
  <2> QED
    BY <2>1, RenamedDomain
<1>6. ASSUME NEW q \in DOMAIN file \cup dirs, IsPrefix(a, q)
      PROVE  /\ Moved(a, b, q) \in Path /\ IsPrefix(b, Moved(a, b, q))
             /\ Moved(b, a, Moved(a, b, q)) = q
             /\ q \in dirs => Moved(a, b, q) \in Seq(Names)
  BY <1>1, <1>6, MovedUnder DEF Tree
<1>7. \A q : ~IsPrefix(a, q) => Moved(a, b, q) = q
  BY DEF Moved
<1>8. DOMAIN Renamed(a, b) \subseteq Path
  BY <1>1, <1>5, <1>6
<1>9. d \subseteq Seq(Names)
  BY <1>6, <1>7 DEF Tree
<1>10. <<>> \in d
  <2>1. ~IsPrefix(a, <<>>)
    BY <1>1, NamesArePaths, PrefixOrder
  <2> QED
    BY <1>7, <2>1 DEF Tree
<1>11. ASSUME NEW r \in DOMAIN Renamed(a, b), r \in d PROVE FALSE
  <2>1. PICK q2 \in dirs : r = Moved(a, b, q2)
    BY <1>11
  <2>2. CASE r \in DOMAIN file /\ ~IsPrefix(a, r)
    <3>1. ~IsPrefix(a, q2) => FALSE
      BY <1>7, <2>1, <2>2 DEF Tree
    <3>2. IsPrefix(a, q2) => IsPrefix(b, r)
      BY <1>6, <2>1
    <3> QED
      BY <1>2, <1>3, <2>2, <3>1, <3>2
  <2>3. ASSUME NEW q1 \in DOMAIN file, IsPrefix(a, q1), r = Moved(a, b, q1) PROVE FALSE
    <3>1. IsPrefix(a, q2) => q1 = q2
      <4>1. Moved(b, a, Moved(a, b, q1)) = q1
        BY <1>6, <2>3
      <4>2. ASSUME IsPrefix(a, q2) PROVE Moved(b, a, Moved(a, b, q2)) = q2
        BY <1>6, <4>2
      <4> QED
        BY <2>1, <2>3, <4>1, <4>2
    <3>2. IsPrefix(b, r)
      BY <1>6, <2>3
    <3>3. ~IsPrefix(a, q2) => q2 = b /\ r = b
      BY <1>3, <1>7, <2>1, <3>2
    <3>4. r = b => q1 = a
      <4>1. Moved(b, a, r) = q1 /\ Moved(b, a, b) = a
        <5>1. IsPrefix(b, b)
          BY <1>1, PrefixOrder
        <5> QED
          BY <1>1, <1>6, <2>3, <5>1, MovedUnder
      <4> QED
        BY <4>1
    <3> QED
      BY <3>1, <3>3, <3>4 DEF Tree
  <2> QED
    BY <1>5, <1>11, <2>2, <2>3
<1>12. ASSUME NEW q \in DOMAIN file \cup dirs, IsPrefix(a, q),
              NEW c \in Path, IsStrictPrefix(c, Moved(a, b, q))
       PROVE  c \in d
  <2> DEFINE r == Moved(a, b, q)
  <2>1. r \in Path /\ IsPrefix(b, r) /\ IsPrefix(c, r) /\ c # r /\ q \in Path
    BY <1>1, <1>6, <1>12 DEF IsStrictPrefix
  <2>2. CASE IsPrefix(b, c)
    <3> DEFINE c1 == Moved(b, a, c)
    <3>1. c1 \in Path /\ IsPrefix(a, c1) /\ Moved(a, b, c1) = c
      BY <1>1, <2>2, MovedUnder
    <3>2. IsPrefix(c1, q) /\ c1 # q
      <4>1. IsPrefix(Moved(b, a, c), Moved(b, a, r)) /\ Moved(b, a, c) # Moved(b, a, r)
        BY <1>1, <2>1, <2>2, MovedOrder
      <4> QED
        BY <1>6, <1>12, <4>1
    <3>3. c1 \in dirs
      BY <3>1, <3>2, Above DEF IsStrictPrefix
    <3> QED
      BY <3>1, <3>3
  <2>3. CASE ~IsPrefix(b, c)
    <3>1. IsPrefix(c, b) /\ c # b
      BY <1>1, <2>1, <2>3, PrefixOrder
    <3>2. b # <<>>
      BY <1>1, <3>1, PrefixOrder, NamesArePaths
    <3>3. IsPrefix(c, Front(b)) /\ Front(b) \in Path
      BY <1>1, <3>1, <3>2, Folders DEF IsStrictPrefix
    <3>4. c \in dirs
      BY <1>2, <3>3, Above DEF IsStrictPrefix
    <3>5. ~IsPrefix(a, c)
      <4>1. IsPrefix(a, c) => IsPrefix(a, b)
        BY <1>1, <3>1, PrefixOrder
      <4>2. a = b => ~IsPrefix(a, c)
        BY <2>3
      <4> QED
        BY <1>4, <4>1, <4>2
    <3> QED
      BY <1>7, <3>4, <3>5
  <2> QED
    BY <2>2, <2>3
<1>13. ASSUME NEW q \in DOMAIN file \cup dirs, ~IsPrefix(a, q), NEW c \in Path, IsStrictPrefix(c, q)
       PROVE  c \in d
  <2>1. c \in dirs
    BY <1>13, Above
  <2>2. ~IsPrefix(a, c)
    BY <1>1, <1>13, PrefixOrder DEF IsStrictPrefix
  <2> QED
    BY <1>7, <2>1, <2>2
<1>14. ASSUME NEW r \in DOMAIN Renamed(a, b) \cup d, NEW c \in Path, IsStrictPrefix(c, r) PROVE c \in d
  <2>1. \/ \E q \in DOMAIN file \cup dirs : IsPrefix(a, q) /\ r = Moved(a, b, q)
        \/ r \in DOMAIN file \cup dirs /\ ~IsPrefix(a, r)
    BY <1>5, <1>7, <1>14
  <2> HIDE DEF d
  <2> QED
    BY <1>12, <1>13, <1>14, <2>1
<1>15. Tree(Renamed(a, b), d)
  <2> HIDE DEF d
  <2> QED
    BY <1>8, <1>9, <1>10, <1>11, <1>14, IsTree
<1> QED
  BY <1>3, <1>4, <1>15

----------------------------------------------------------------------------
(* Where the handlers are *)

Writing == {"temp", "fill", "replace", "fallback", "again"}
Filled == {"replace", "fallback", "again"}

PhasesOf ==
    [put    |-> {"quota", "parents", "clear", "notify"} \cup Writing,
     share  |-> {"exists", "quota", "parents", "notify"} \cup Writing,
     rm     |-> {"remove", "record", "notify"},
     rmdir  |-> {"collect", "removeAll", "removing", "record", "notify"},
     move   |-> {"look", "parents", "rename", "record", "dest", "notify"},
     folder |-> {"folder", "notify"},
     list   |-> {"walk"}]

\* Where a handler is fits the request it serves.
Serving ==
    /\ DOMAIN pc = Handlers /\ DOMAIN req = Handlers
    /\ \A h \in Handlers :
           IF pc[h] = "idle" THEN req[h] = NoRequest
           ELSE req[h] \in Requests[h] /\ pc[h] \in PhasesOf[req[h].kind]

\* No name is that of a temporary file.
LEMMA NamesAndHandlers == Names \cap Handlers = {}
  BY WorkspaceAssumption DEF WorkspaceAssumption

\* A handler writes, moves and removes at paths of names.
LEMMA Asked ==
  ASSUME Serving, NEW h \in Handlers, pc[h] # "idle"
  PROVE  /\ req[h] \in Request /\ req[h].kind \in Kinds /\ pc[h] \in PhasesOf[req[h].kind]
         /\ req[h].path \in Seq(Names) /\ req[h].to \in Seq(Names)
         /\ req[h].path \in Path /\ req[h].to \in Path
         /\ req[h].kind # "list" => req[h].path # <<>>
         /\ req[h].kind = "move" => req[h].to # <<>>
         /\ req[h].size \in Nat
<1>1. req[h] \in Requests[h] /\ pc[h] \in PhasesOf[req[h].kind]
  BY DEF Serving
<1>2. /\ req[h] \in Request
      /\ req[h].path = <<>> <=> req[h].kind = "list"
      /\ req[h].kind = "move" => req[h].to # <<>>
  BY <1>1, WorkspaceAssumption DEF WorkspaceAssumption
<1>3. /\ req[h].path \in Seq(Names) /\ req[h].to \in Seq(Names) /\ req[h].kind \in Kinds
      /\ req[h].size \in Nat
  BY <1>2 DEF Request
<1> QED
  BY <1>1, <1>2, <1>3, NamesArePaths

\* What a handler serves where it is.
LEMMA KindAt ==
  ASSUME Serving, NEW h \in Handlers, pc[h] # "idle"
  PROVE  /\ pc[h] \in {"exists", "quota"} \cup Writing => Writes(req[h])
         /\ pc[h] = "exists" => req[h].kind = "share"
         /\ pc[h] = "clear" => req[h].kind = "put"
         /\ pc[h] \in {"look", "rename", "dest"} => req[h].kind = "move"
         /\ pc[h] = "parents" => Writes(req[h]) \/ req[h].kind = "move"
         /\ pc[h] = "remove" => req[h].kind = "rm"
         /\ pc[h] \in {"collect", "removeAll", "removing"} => req[h].kind = "rmdir"
         /\ pc[h] = "record" => req[h].kind \in {"rm", "rmdir", "move"}
         /\ pc[h] = "folder" => req[h].kind = "folder"
         /\ pc[h] = "walk" => req[h].kind = "list"
         /\ pc[h] \in Phases
<1>1. req[h].kind \in Kinds /\ pc[h] \in PhasesOf[req[h].kind]
  BY Asked
<1> QED
  BY <1>1 DEF PhasesOf, Kinds, Writing, Writes, Phases

\* Its temporary file is in the written file's folder, under its own name.
LEMMA TempIsOwn ==
  ASSUME Serving, NEW h \in Handlers, pc[h] # "idle", req[h].kind # "list"
  PROVE  /\ Temp(h) \in Path /\ Temp(h) # <<>> /\ Last(Temp(h)) = h
         /\ Front(Temp(h)) = Front(req[h].path)
         /\ req[h].path \in Path /\ req[h].path # <<>> /\ Last(req[h].path) \in Names
<1>1. req[h].path \in Seq(Names) /\ req[h].path # <<>>
  BY Asked
<1>2. Len(req[h].path) \in Nat \ {0}
  BY <1>1
<1> DEFINE f == Front(req[h].path)
<1>3. f \in Seq(Names \cup Handlers)
  BY <1>1, Folders, NamesArePaths DEF Path
<1> HIDE DEF f
<1>4. /\ Append(f, h) \in Seq(Names \cup Handlers) /\ Len(f) \in Nat
      /\ Len(Append(f, h)) = Len(f) + 1
      /\ Append(f, h)[Len(f) + 1] = h
      /\ \A i \in 1..Len(f) : Append(f, h)[i] = f[i]
  BY <1>3
<1>5. Last(Append(f, h)) = h /\ Append(f, h) # <<>>
  BY <1>3, <1>4 DEF Last
<1>6. Last(req[h].path) \in Names
  BY <1>1, <1>2 DEF Last
<1>7. Front(Append(f, h)) = f
  <2> DEFINE t == Append(f, h)
  <2> HIDE DEF t
  <2>1. /\ SubSeq(t, 1, Len(f)) \in Seq(Names \cup Handlers) /\ Len(SubSeq(t, 1, Len(f))) = Len(f)
        /\ \A i \in 1..Len(f) : SubSeq(t, 1, Len(f))[i] = t[i]
    <3>1. Len(f) \in 0..Len(t)
      BY <1>4 DEF t
    <3> QED
      BY <1>4, <3>1, Beginnings DEF t
  <2>2. SubSeq(t, 1, Len(f)) = f
    BY <1>3, <1>4, <2>1, SeqEqual DEF t
  <2> QED
    BY <1>4, <2>2 DEF t, Front
<1> QED
  BY <1>1, <1>4, <1>5, <1>6, <1>7, NamesArePaths DEF Path, Temp, f

\* What is at a handler's temporary file is no folder, and a path of names above
\* it is above the written file.
LEMMA AboveTemp ==
  ASSUME Serving, NEW h \in Handlers, pc[h] # "idle", req[h].kind # "list"
  PROVE  /\ Temp(h) \notin Seq(Names)
         /\ \A a \in Seq(Names) : IsPrefix(a, Temp(h)) => IsPrefix(a, req[h].path) /\ a # req[h].path
<1>1. /\ Temp(h) \in Path /\ Temp(h) # <<>> /\ Last(Temp(h)) = h /\ Front(Temp(h)) = Front(req[h].path)
      /\ req[h].path \in Path /\ req[h].path # <<>>
  BY TempIsOwn
<1>2. Temp(h) \notin Seq(Names)
  <2>1. ASSUME Temp(h) \in Seq(Names) PROVE Last(Temp(h)) \in Names
    BY <1>1, <2>1 DEF Last
  <2> QED
    BY <1>1, <2>1, NamesAndHandlers
<1>3. ASSUME NEW a \in Seq(Names), IsPrefix(a, Temp(h))
      PROVE  IsPrefix(a, req[h].path) /\ a # req[h].path
  <2>1. a \in Path /\ IsStrictPrefix(a, Temp(h))
    BY <1>2, <1>3, NamesArePaths DEF IsStrictPrefix
  <2>2. IsPrefix(a, Front(req[h].path))
    BY <1>1, <2>1, Folders
  <2>3. IsStrictPrefix(a, req[h].path)
    BY <1>1, <2>1, <2>2, Folders
  <2> QED
    BY <2>3 DEF IsStrictPrefix
<1> QED
  BY <1>2, <1>3
----------------------------------------------------------------------------
(* What a step does to where the handlers are *)

\* A handler that goes on goes where its request takes it.
LEMMA ServingOn ==
  ASSUME Serving, NEW h \in Handlers, NEW phase, pc[h] # "idle",
         pc' = [pc EXCEPT ![h] = phase], req' = req,
         phase \in PhasesOf[req[h].kind], phase # "idle"
  PROVE  Serving'
<1>1. \A g \in Handlers : pc'[g] = IF g = h THEN phase ELSE pc[g]
  BY DEF Serving
<1>2. req[h] \in Requests[h]
  BY DEF Serving
<1> QED
  BY <1>1, <1>2 DEF Serving

\* A handler that is done serves nothing.
LEMMA ServingDone ==
  ASSUME Serving, NEW h \in Handlers, Done(h)
  PROVE  Serving'
<1>1. \A g \in Handlers \ {h} : pc'[g] = pc[g] /\ req'[g] = req[g]
  BY DEF Serving, Done
<1>2. pc'[h] = "idle" /\ req'[h] = NoRequest /\ DOMAIN pc' = Handlers /\ DOMAIN req' = Handlers
  BY DEF Serving, Done
<1> QED
  BY <1>1, <1>2 DEF Serving

\* A handler that takes a request begins it.
LEMMA ServingTake ==
  ASSUME Serving, NEW h \in Handlers, NEW r \in Requests[h], Take(h, r)
  PROVE  Serving'
<1>1. r.kind \in Kinds
  BY WorkspaceAssumption DEF WorkspaceAssumption, Request
<1>2. /\ DOMAIN pc' = Handlers /\ DOMAIN req' = Handlers
      /\ pc'[h] = FirstPhase[r.kind] /\ req'[h] = r
      /\ \A g \in Handlers \ {h} : pc'[g] = pc[g] /\ req'[g] = req[g]
  BY DEF Take, Goto, Serving
<1>3. FirstPhase[r.kind] \in PhasesOf[r.kind] /\ FirstPhase[r.kind] # "idle"
  BY <1>1 DEF FirstPhase, Kinds, PhasesOf
<1> QED
  BY <1>2, <1>3 DEF Serving

\* One line of a handler's code.
LEMMA ServingStep ==
  ASSUME Serving, NEW h \in Handlers, HandlerStep(h)
  PROVE  Serving' /\ pc[h] # "idle"
<1>0. pc[h] # "idle"
  BY DEF HandlerStep, Refused, Exists, CheckQuota, CountTorn, Parents, OpenTemp, FillTemp,
     FillFails, DropTemp, Replace, RemoveTarget, ReplaceAgain, ClearTombstone, RemoveOne, Collect,
     RemoveAll, RemoveEntry, Look, Rename, Record, ClearDest, Recorded, Folder, Notify, Walk,
     Listed, At
<1> SUFFICES Serving'
  BY <1>0
<1>k. req[h].kind \in Kinds /\ pc[h] \in PhasesOf[req[h].kind]
  BY <1>0, Asked
<1>d. ASSUME Done(h) PROVE Serving'
  BY <1>d, ServingDone
<1>s. ASSUME NEW phase, pc' = [pc EXCEPT ![h] = phase], req' = req, phase \in PhasesOf[req[h].kind],
             phase # "idle"
      PROVE  Serving'
  BY <1>0, <1>s, ServingOn
<1> USE DEF At, Step, Goto
<1>11. CASE Refused(h)
  BY <1>d, <1>11 DEF Refused
<1>1. CASE Exists(h) \/ CheckQuota(h) \/ CountTorn(h)
  <2>1. Writes(req[h])
    BY <1>0, <1>1, KindAt DEF Exists, CheckQuota, CountTorn
  <2>2. "quota" \in PhasesOf[req[h].kind] /\ "parents" \in PhasesOf[req[h].kind]
    BY <2>1 DEF PhasesOf, Writes
  <2>3. CASE Exists(h)
    BY <1>d, <1>s, <2>2, <2>3 DEF Exists
  <2>4. CASE CheckQuota(h)
    BY <1>d, <1>s, <2>2, <2>4 DEF CheckQuota
  <2>5. CASE CountTorn(h)
    BY <1>s, <2>2, <2>5 DEF CountTorn
  <2> QED
    BY <1>1, <2>3, <2>4, <2>5
<1>2. CASE Parents(h)
  <2>1. IF req[h].kind = "move" THEN "rename" \in PhasesOf[req[h].kind] ELSE "temp" \in PhasesOf[req[h].kind]
    BY <1>0, <1>2, KindAt DEF Parents, PhasesOf, Writes, Writing
  <2> QED
    BY <1>2, <1>s, <2>1 DEF Parents
<1>3. CASE OpenTemp(h) \/ FillTemp(h) \/ FillFails(h) \/ Replace(h) \/ RemoveTarget(h) \/ ReplaceAgain(h)
  <2>1. Writes(req[h])
    BY <1>0, <1>3, KindAt DEF OpenTemp, FillTemp, FillFails, DropTemp, Replace, RemoveTarget,
       ReplaceAgain, Writing
  <2>2. Writing \cup {"notify"} \subseteq PhasesOf[req[h].kind]
        /\ (req[h].kind = "put" => "clear" \in PhasesOf[req[h].kind])
    BY <2>1 DEF PhasesOf, Writes
  <2>3. CASE OpenTemp(h) \/ FillTemp(h) \/ FillFails(h)
    BY <1>d, <1>s, <2>2, <2>3 DEF OpenTemp, FillTemp, FillFails, DropTemp, Writing
  <2>4. ASSUME Put(h) PROVE Serving'
    BY <1>s, <2>2, <2>4 DEF Put
  <2>5. CASE Replace(h) \/ RemoveTarget(h) \/ ReplaceAgain(h)
    BY <1>d, <1>s, <2>2, <2>4, <2>5 DEF Replace, RemoveTarget, ReplaceAgain, DropTemp, Writing
  <2> QED
    BY <1>3, <2>3, <2>5
<1>4. CASE ClearTombstone(h)
  <2>1. "notify" \in PhasesOf[req[h].kind]
    BY <1>0, <1>4, KindAt DEF ClearTombstone, PhasesOf
  <2> QED
    BY <1>4, <1>s, <2>1 DEF ClearTombstone
<1>5. CASE RemoveOne(h) \/ Collect(h) \/ RemoveAll(h) \/ RemoveEntry(h)
  <2>1. /\ RemoveOne(h) => "record" \in PhasesOf[req[h].kind]
        /\ Collect(h) => "removeAll" \in PhasesOf[req[h].kind]
        /\ RemoveAll(h) => "removing" \in PhasesOf[req[h].kind]
        /\ RemoveEntry(h) => {"record", "removing"} \subseteq PhasesOf[req[h].kind]
    BY <1>0, KindAt DEF RemoveOne, Collect, RemoveAll, RemoveEntry, PhasesOf
  <2> QED
    BY <1>5, <1>d, <1>s, <2>1 DEF RemoveOne, Collect, RemoveAll, RemoveEntry
<1>6. CASE Look(h) \/ Rename(h)
  <2>1. {"parents", "record"} \subseteq PhasesOf[req[h].kind]
    BY <1>0, <1>6, KindAt DEF Look, Rename, PhasesOf
  <2> QED
    BY <1>6, <1>d, <1>s, <2>1 DEF Look, Rename
<1>7. CASE Record(h)
  <2>1. req[h].kind = "move" => "dest" \in PhasesOf[req[h].kind]
    BY DEF PhasesOf
  <2>2. ASSUME pc' = pc, req' = req PROVE Serving'
    BY <2>2 DEF Serving
  <2> QED
    BY <1>7, <1>s, <2>1, <2>2 DEF Record
<1>8. CASE ClearDest(h) \/ Recorded(h)
  <2>1. /\ ClearDest(h) => "record" \in PhasesOf[req[h].kind]
        /\ Recorded(h) => "notify" \in PhasesOf[req[h].kind]
    BY <1>0, KindAt DEF ClearDest, Recorded, PhasesOf
  <2> QED
    BY <1>8, <1>s, <2>1 DEF ClearDest, Recorded
<1>9. CASE Folder(h) \/ Notify(h)
  <2>1. Folder(h) => "notify" \in PhasesOf[req[h].kind]
    BY <1>0, KindAt DEF Folder, PhasesOf
  <2> QED
    BY <1>9, <1>d, <1>s, <2>1 DEF Folder, Notify
<1>10. CASE Walk(h) \/ Listed(h)
  <2>1. Done(h) \/ (pc' = pc /\ req' = req)
    BY <1>10 DEF Walk, Listed
  <2> QED
    BY <1>d, <2>1 DEF Serving
<1> QED
  BY <1>0, <1>1, <1>2, <1>3, <1>4, <1>5, <1>6, <1>7, <1>8, <1>9, <1>10, <1>11 DEF HandlerStep

----------------------------------------------------------------------------
(* What a step does to the tree *)

\* A handler's record is well typed, and what it has collected is its own.
Typed ==
    /\ pc = [h \in Handlers |-> pc[h]]
    /\ inside \in [Handlers -> SUBSET Path] /\ scan \in [Handlers -> SUBSET Path]
    /\ wasDir \in [Handlers -> BOOLEAN]
    /\ untold \in [Handlers -> SUBSET Path]
    /\ steady \in [Handlers -> SUBSET DOMAIN file]
    /\ tomb \subseteq Path /\ unsure \subseteq Path /\ unweighed \subseteq Path
    /\ \A p \in DOMAIN file : file[p] \in Content
    /\ \A p \in ever : p \in Path /\ IsDoc(p)
    /\ Tree(file, dirs)
    /\ \A h \in Handlers : req[h].kind \in {"rm", "rmdir", "move"} =>
           \A p \in inside[h] \cup scan[h] : IsPrefix(req[h].path, p)
    /\ \A h \in Handlers : pc[h] = "idle" => inside[h] = {}

Follows ==
    /\ ever' = ever \cup {p \in DOMAIN file' : IsDoc(p)}
    /\ steady' = [g \in Handlers |-> steady[g] \cap DOMAIN file']

Keeps == file' = file /\ dirs' = dirs /\ ever' = ever /\ steady' = steady

Makes(h) ==
    /\ \E d \in Seq(Names) :
           /\ dirs' = dirs \cup Created(d)
           /\ \/ pc[h] = "parents" /\ Writes(req[h]) /\ d = Front(req[h].path)
              \/ pc[h] = "parents" /\ req[h].kind = "move" /\ d = Front(req[h].to)
              \/ pc[h] = "folder" /\ req[h].kind = "folder" /\ d = req[h].path
    /\ file' = file /\ ever' = ever /\ steady' = steady

Opens(h) ==
    /\ pc[h] = "temp" /\ pc'[h] = "fill" /\ Writes(req[h]) /\ Front(req[h].path) \in dirs
    /\ file' = With(Temp(h), [size |-> 0, whole |-> FALSE])
    /\ dirs' = dirs /\ Follows

Fills(h) ==
    /\ pc[h] = "fill" /\ Writes(req[h])
    /\ file' = [p \in DOMAIN file |-> IF IsTemp(p) /\ Last(p) = h
                                        THEN [size |-> req[h].size, whole |-> TRUE] ELSE file[p]]
    /\ dirs' = dirs /\ Follows

Drops(h) ==
    /\ pc[h] \in {"fill", "again"} /\ pc'[h] = "idle" /\ Writes(req[h])
    /\ file' = Without(Temp(h))
    /\ dirs' = dirs /\ Follows

Puts(h) ==
    /\ pc[h] \in {"replace", "again"} /\ pc'[h] \in {"clear", "notify"} /\ Writes(req[h])
    /\ CanRename(Temp(h), req[h].path)
    /\ file' = Renamed(Temp(h), req[h].path)
    /\ dirs' = dirs /\ Follows

Removes(h, p) ==
    /\ \/ pc[h] = "fallback" /\ pc'[h] = "again" /\ Writes(req[h]) /\ p = req[h].path
       \/ pc[h] = "remove" /\ req[h].kind = "rm" /\ p = req[h].path
       \/ pc[h] = "removing" /\ req[h].kind = "rmdir" /\ p \in scan[h]
    /\ ~(p \in dirs /\ Occupied(p))
    /\ file' = Without(p)
    /\ dirs' = dirs \ {p} /\ Follows

Renames(h) ==
    /\ pc[h] = "rename" /\ pc'[h] = "record" /\ req[h].kind = "move"
    /\ CanRename(req[h].path, req[h].to)
    /\ file' = Renamed(req[h].path, req[h].to)
    /\ dirs' = {Moved(req[h].path, req[h].to, q) : q \in dirs} /\ Follows

Changes(h) ==
    \/ Keeps \/ Makes(h) \/ Opens(h) \/ Fills(h) \/ Drops(h) \/ Puts(h)
    \/ (\E p \in {req[h].path} \cup scan[h] : Removes(h, p)) \/ Renames(h)

\* Every step is one of these changes of the tree.
LEMMA TreeSteps ==
  ASSUME Serving, Tree(file, dirs), NEW h \in Handlers, HandlerStep(h)
  PROVE  Changes(h)
<1>0. \A p \in DOMAIN file : p \notin dirs
  BY DEF Tree
<1>1. pc[h] # "idle" /\ DOMAIN pc = Handlers
  BY ServingStep DEF Serving
<1>2. \A f, d, docs : SetTree(h, f, d, docs) => file' = f /\ dirs' = d /\ Follows
  BY DEF SetTree, Follows
<1>3. ASSUME UNCHANGED <<tree, changes>> PROVE Keeps
  BY <1>3 DEF tree, changes, Keeps
<1>4. ASSUME UNCHANGED <<tree, history>> PROVE Keeps
  BY <1>4 DEF tree, changes, history, Keeps
<1>5. CASE Refused(h) \/ Exists(h) \/ CheckQuota(h) \/ CountTorn(h) \/ ClearTombstone(h) \/ Collect(h)
           \/ RemoveAll(h) \/ Look(h) \/ Record(h) \/ ClearDest(h) \/ Recorded(h) \/ Walk(h) \/ Listed(h)
  <2>1. Keeps
    BY <1>3, <1>4, <1>5 DEF Refused, Exists, CheckQuota, CountTorn, ClearTombstone, Collect,
       RemoveAll, Look, Record, ClearDest, Recorded, Walk, Listed
  <2> QED
    BY <2>1 DEF Changes
<1>6. CASE Notify(h)
  BY <1>6 DEF Notify, tree, Keeps, Changes
<1>7. CASE Parents(h) \/ Folder(h)
  <2>1. file' = file /\ ever' = ever /\ steady' = steady
    BY <1>7 DEF Parents, Folder, history, changes
  <2>2. req[h].path \in Seq(Names) /\ req[h].to \in Seq(Names)
    BY <1>1, Asked
  <2>3. CASE Folder(h)
    <3>1. pc[h] = "folder" /\ req[h].kind = "folder" /\ dirs' = dirs \cup Created(req[h].path)
      BY <1>1, <2>3, KindAt DEF Folder, At
    <3> QED
      BY <2>1, <2>2, <3>1 DEF Makes, Changes
  <2>4. CASE Parents(h)
    <3>1. pc[h] = "parents" /\ (Writes(req[h]) \/ req[h].kind = "move")
      BY <1>1, <2>4, KindAt DEF Parents, At
    <3>2. CASE req[h].kind = "move"
      <4>1. Front(req[h].to) \in Seq(Names)
        BY <1>1, <3>2, Asked, Folders
      <4>2. dirs' = dirs \cup Created(Front(req[h].to))
        BY <2>4, <3>2 DEF Parents
      <4> QED
        BY <2>1, <3>1, <3>2, <4>1, <4>2 DEF Makes, Changes
    <3>3. CASE Writes(req[h])
      <4>1. Front(req[h].path) \in Seq(Names)
        BY <1>1, <3>3, Asked, Folders DEF Writes
      <4>2. dirs' = dirs \cup Created(Front(req[h].path))
        BY <2>4, <3>3 DEF Parents, Writes
      <4> QED
        BY <2>1, <3>1, <3>3, <4>1, <4>2 DEF Makes, Changes
    <3> QED
      BY <3>1, <3>2, <3>3
  <2> QED
    BY <1>7, <2>3, <2>4
<1>8. CASE OpenTemp(h)
  BY <1>1, <1>2, <1>3, <1>8, KindAt DEF OpenTemp, At, Step, Goto, Opens, Changes, Writing
<1>9. CASE FillTemp(h)
  BY <1>1, <1>2, <1>9, KindAt DEF FillTemp, At, Fills, Changes, Writing
<1>10. CASE FillFails(h)
  BY <1>1, <1>2, <1>3, <1>10, KindAt DEF FillFails, DropTemp, At, Done, Drops, Changes, Writing
<1>11. ASSUME pc[h] \in {"replace", "again"}, Put(h) PROVE Puts(h)
  <2>1. pc'[h] \in {"clear", "notify"}
    BY <1>1, <1>11 DEF Put, Step, Goto
  <2> QED
    BY <1>1, <1>2, <1>11, <2>1, KindAt DEF Put, Puts, Writing
<1>12. CASE Replace(h)
  BY <1>3, <1>11, <1>12 DEF Replace, At, Changes
<1>13. CASE ReplaceAgain(h)
  <2>1. CASE Put(h)
    BY <1>11, <1>13, <2>1 DEF ReplaceAgain, DropTemp, At, Changes
  <2>2. CASE ~Put(h)
    BY <1>1, <1>2, <1>3, <1>13, <2>2, KindAt DEF ReplaceAgain, DropTemp, At, Done, Drops, Changes,
       Writing
  <2> QED
    BY <2>1, <2>2
<1>14. CASE RemoveTarget(h)
  <2>1. pc[h] = "fallback" /\ pc'[h] = "again" /\ Writes(req[h])
    BY <1>1, <1>14, KindAt DEF RemoveTarget, At, Step, Goto, Writing
  <2>2. Keeps \/ Removes(h, req[h].path)
    BY <1>0, <1>2, <1>3, <1>14, <2>1 DEF RemoveTarget, Removable, Removes
  <2> QED
    BY <2>2 DEF Changes
<1>15. CASE RemoveOne(h)
  BY <1>0, <1>1, <1>2, <1>3, <1>15, KindAt DEF RemoveOne, At, Removable, Removes, Changes
<1>16. CASE RemoveEntry(h)
  <2>1. pc[h] = "removing" /\ req[h].kind = "rmdir"
    BY <1>1, <1>16, KindAt DEF RemoveEntry, At
  <2>2. ASSUME NEW p \in scan[h], ~(p \in dirs /\ Occupied(p)),
               SetTree(h, Without(p), dirs \ {p}, DOMAIN file \cap {p})
        PROVE  Changes(h)
    <3>1. Removes(h, p)
      BY <1>2, <2>1, <2>2 DEF Removes
    <3> QED
      BY <3>1 DEF Changes
  <2>3. UNCHANGED <<tree, changes>> => Changes(h)
    BY <1>3 DEF Changes
  <2> QED
    BY <1>16, <2>2, <2>3 DEF RemoveEntry
<1>17. CASE Rename(h)
  BY <1>1, <1>2, <1>3, <1>17, KindAt DEF Rename, At, Step, Goto, Renames, Changes
<1> QED
  BY <1>5, <1>6, <1>7, <1>8, <1>9, <1>10, <1>12, <1>13, <1>14, <1>15, <1>16, <1>17 DEF HandlerStep

\* A file put in its place.
LEMMA PutsFile ==
  ASSUME Serving, Tree(file, dirs), NEW h \in Handlers, pc[h] # "idle", Puts(h)
  PROVE  /\ Temp(h) \in DOMAIN file /\ Temp(h) # req[h].path
         /\ DOMAIN file' = (DOMAIN file \ {Temp(h)}) \cup {req[h].path}
         /\ req[h].path \notin dirs /\ Front(req[h].path) \in dirs
         /\ dirs' = dirs /\ Tree(file', dirs')
<1> DEFINE p == req[h].path
           t == Temp(h)
<1>1. req[h].kind # "list" /\ p \in Seq(Names) /\ p # <<>> /\ p \in Path
  BY Asked DEF Puts, Writes
<1>2. t \in Path /\ t \notin Seq(Names)
  BY <1>1, TempIsOwn, AboveTemp
<1>3. CanRename(t, p) /\ file' = Renamed(t, p) /\ dirs' = dirs
  BY DEF Puts
<1>4. t \in DOMAIN file /\ p \notin dirs /\ Front(p) \in dirs
  BY <1>2, <1>3 DEF CanRename, Tree
<1>5. DOMAIN file' = (DOMAIN file \ {t}) \cup {p}
  BY <1>1, <1>3, <1>4, FileRenamed
<1>6. ASSUME NEW q \in DOMAIN file' \cup dirs, NEW a \in Path, IsStrictPrefix(a, q) PROVE a \in dirs
  <2>1. CASE q \in DOMAIN file \cup dirs
    BY <1>6, <2>1, Above
  <2>2. CASE q = p
    <3>1. IsPrefix(a, Front(p)) /\ Front(p) \in Path
      BY <1>1, <1>6, <2>2, Folders
    <3> QED
      BY <1>4, <3>1, Above DEF IsStrictPrefix
  <2> QED
    BY <1>5, <1>6, <2>1, <2>2
<1>7. Tree(file', dirs)
  <2>1. DOMAIN file' \subseteq Path /\ dirs \subseteq Seq(Names) /\ <<>> \in dirs /\ DOMAIN file' \cap dirs = {}
    BY <1>1, <1>4, <1>5 DEF Tree
  <2> QED
    BY <1>6, <2>1, IsTree
<1> QED
  BY <1>1, <1>2, <1>3, <1>4, <1>5, <1>7

\* What a move of h leaves: nothing at the old place, what was there at the new one.
LEMMA RenamesEntry ==
  ASSUME Serving, Tree(file, dirs), NEW h \in Handlers, pc[h] # "idle", Renames(h),
         NEW a, a = req[h].path, NEW b, b = req[h].to
  PROVE  /\ Tree(file', dirs')
         /\ \A r : r \in DOMAIN file' =>
                     \/ \E q \in DOMAIN file : IsPrefix(a, q) /\ r = Moved(a, b, q)
                     \/ r \in DOMAIN file /\ ~IsPrefix(a, r)
         /\ \A q \in DOMAIN file : IsPrefix(a, q) => Moved(a, b, q) \in DOMAIN file'
         /\ \A r \in DOMAIN file : ~IsPrefix(a, r) => r \in DOMAIN file'
         /\ \A r \in Path : ~IsPrefix(a, r) /\ ~IsPrefix(b, r) => (r \in dirs' <=> r \in dirs)
         /\ a # b => ~IsPrefix(a, b) /\ ~IsPrefix(b, a)
         /\ a \notin dirs => a \in DOMAIN file /\ \A q \in DOMAIN file : IsPrefix(a, q) => q = a
         /\ a \in dirs => ~IsStrictPrefix(a, b)
<1>1. /\ a \in Seq(Names) /\ b \in Seq(Names) /\ a \in Path /\ b \in Path
      /\ a # <<>> /\ b # <<>>
  BY Asked DEF Renames
<1>2. /\ CanRename(a, b) /\ file' = Renamed(a, b) /\ dirs' = {Moved(a, b, q) : q \in dirs}
  BY DEF Renames
<1>3. ASSUME NEW q, IsPrefix(a, q), q \in DOMAIN file \cup dirs PROVE q \in Path /\ IsPrefix(b, Moved(a, b, q))
  <2>1. q \in Path
    BY <1>3, NamesArePaths DEF Tree
  <2> QED
    BY <1>1, <1>3, <2>1, MovedUnder
<1>4. \A q : ~IsPrefix(a, q) => Moved(a, b, q) = q
  BY DEF Moved
<1>5. ASSUME NEW r \in Path, ~IsPrefix(a, r), ~IsPrefix(b, r) PROVE r \in dirs' <=> r \in dirs
  BY <1>2, <1>3, <1>4, <1>5
<1>6. CASE a \in dirs
  <2>1. Tree(Renamed(a, b), {Moved(a, b, q) : q \in dirs})
    BY <1>1, <1>2, <1>6, FolderRenamed
  <2>3. ASSUME NEW r
        PROVE  r \in DOMAIN Renamed(a, b) <=>
                 \/ \E q \in DOMAIN file : IsPrefix(a, q) /\ r = Moved(a, b, q)
                 \/ r \in DOMAIN file /\ ~IsPrefix(a, r)
    <3>1. \A q \in DOMAIN file \cup dirs : IsPrefix(b, q) => q = b \/ a = b
      BY <1>1, <1>2, <1>6, FolderRenamed
    <3>2. b \notin DOMAIN file
      BY <1>2, <1>6 DEF CanRename, Tree
    <3>3. r \in DOMAIN file /\ IsPrefix(b, r) => IsPrefix(a, r)
      BY <3>1, <3>2
    <3> QED
      BY <3>3, RenamedDomain
  <2>4. a # b => ~IsPrefix(a, b) /\ ~IsPrefix(b, a)
    BY <1>1, <1>2, <1>6, FolderRenamed
  <2>2. ~IsStrictPrefix(a, b)
    BY <1>2, <1>6 DEF CanRename, Tree
  <2> QED
    BY <1>2, <1>5, <1>6, <2>1, <2>2, <2>3, <2>4
<1>7. CASE a \notin dirs
  <2>1. a \in DOMAIN file
    BY <1>2, <1>7 DEF CanRename
  <2>8. /\ DOMAIN Renamed(a, b) = (DOMAIN file \ {a}) \cup {b}
        /\ {Moved(a, b, q) : q \in dirs} = dirs /\ b \notin dirs
        /\ \A q \in DOMAIN file : IsPrefix(a, q) <=> q = a
    BY <1>1, <1>2, <2>1, FileRenamed
  <2>2. /\ DOMAIN file' = (DOMAIN file \ {a}) \cup {b} /\ dirs' = dirs /\ b \notin dirs
        /\ \A q \in DOMAIN file : IsPrefix(a, q) <=> q = a
        /\ Front(b) \in dirs
    BY <1>2, <2>8 DEF CanRename
  <2>3. Moved(a, b, a) = b
    BY <1>1, MovedUnder, PrefixOrder
  <2>4. ASSUME NEW q \in DOMAIN file' \cup dirs, NEW c \in Path, IsStrictPrefix(c, q) PROVE c \in dirs
    <3>1. CASE q \in DOMAIN file \cup dirs
      BY <2>4, <3>1, Above
    <3>2. CASE q = b
      <4>1. IsPrefix(c, Front(b)) /\ Front(b) \in Path
        BY <1>1, <2>4, <3>2, Folders
      <4> QED
        BY <2>2, <4>1, Above DEF IsStrictPrefix
    <3> QED
      BY <2>2, <2>4, <3>1, <3>2
  <2>5. Tree(file', dirs)
    <3>1. DOMAIN file' \subseteq Path /\ dirs \subseteq Seq(Names) /\ <<>> \in dirs /\ DOMAIN file' \cap dirs = {}
      BY <1>1, <2>2 DEF Tree
    <3> QED
      BY <2>4, <3>1, IsTree
  <2>6. ASSUME a # b PROVE ~IsPrefix(a, b) /\ ~IsPrefix(b, a)
    <3>1. ~IsPrefix(b, a)
      <4>1. IsPrefix(b, a) => b \in dirs
        BY <1>1, <2>1, <2>6, Above DEF IsStrictPrefix
      <4> QED
        BY <2>2, <4>1
    <3>2. ~IsPrefix(a, b)
      <4>1. ASSUME IsPrefix(a, b) PROVE a \in dirs
        <5>1. IsPrefix(a, Front(b)) /\ Front(b) \in Path
          BY <1>1, <2>6, <4>1, Folders DEF IsStrictPrefix
        <5> QED
          BY <1>1, <2>2, <5>1, Above DEF IsStrictPrefix
      <4> QED
        BY <1>7, <4>1
    <3> QED
      BY <3>1, <3>2
  <2> QED
    BY <1>5, <1>7, <2>1, <2>2, <2>3, <2>5, <2>6
<1> QED
  BY <1>6, <1>7

\* The paths a step of h may add or take away: the written one and the temporary
\* file, what is under the others, and folders above them.
Touches(h, q) ==
    \/ Writes(req[h]) /\ q \in {Temp(h), req[h].path}
    \/ \E root \in Roots(req[h]) : IsPrefix(q, root) /\ (Writes(req[h]) => q # root)
    \/ ~Writes(req[h]) /\ \E root \in Roots(req[h]) : IsPrefix(root, q)

\* The places of a request are paths of names below the root.
LEMMA RootsAre ==
  ASSUME Serving, NEW h \in Handlers, pc[h] # "idle"
  PROVE  /\ \A root \in Roots(req[h]) : root \in Seq(Names) /\ root \in Path /\ root # <<>>
         /\ req[h].kind # "list" => req[h].path \in Roots(req[h])
         /\ req[h].kind = "move" => Roots(req[h]) = {req[h].path, req[h].to}
         /\ req[h].kind \in Kinds \ {"move", "list"} => Roots(req[h]) = {req[h].path}
         /\ req[h].kind \in Kinds
BY Asked DEF Roots

\* A step keeps the tree a tree and touches nothing else.
LEMMA Footprint ==
  ASSUME Serving, Tree(file, dirs), NEW h \in Handlers, pc[h] # "idle", Changes(h),
         \A p \in scan[h] : req[h].kind = "rmdir" => IsPrefix(req[h].path, p)
  PROVE  /\ Tree(file', dirs')
         /\ \A q \in Path : \/ /\ q \in DOMAIN file' <=> q \in DOMAIN file
                               /\ q \in dirs' <=> q \in dirs
                            \/ Touches(h, q)
<1>1. /\ \A root \in Roots(req[h]) : root \in Seq(Names) /\ root \in Path /\ root # <<>>
      /\ req[h].kind # "list" => req[h].path \in Roots(req[h])
      /\ req[h].kind = "move" => Roots(req[h]) = {req[h].path, req[h].to}
      /\ req[h].kind \in Kinds
  BY RootsAre
<1>2. CASE Keeps
  BY <1>2 DEF Keeps
<1>3. CASE Makes(h)
  <2>1. PICK d \in Seq(Names) :
           /\ dirs' = dirs \cup Created(d)
           /\ \/ pc[h] = "parents" /\ Writes(req[h]) /\ d = Front(req[h].path)
              \/ pc[h] = "parents" /\ req[h].kind = "move" /\ d = Front(req[h].to)
              \/ pc[h] = "folder" /\ req[h].kind = "folder" /\ d = req[h].path
    BY <1>3 DEF Makes
  <2>2. file' = file
    BY <1>3 DEF Makes
  <2>3. Tree(file, dirs') /\ \A c \in Created(d) : c \in Path /\ IsPrefix(c, d)
    BY <2>1, Creations, NamesArePaths
  <2>4. ASSUME NEW c \in Created(d) PROVE Touches(h, c)
    <3>1. CASE Writes(req[h]) /\ d = Front(req[h].path)
      <4>1. req[h].path \in Roots(req[h]) /\ req[h].path \in Path /\ req[h].path # <<>>
        BY <1>1, <3>1 DEF Writes
      <4>2. IsStrictPrefix(c, req[h].path)
        BY <2>3, <2>4, <3>1, <4>1, Folders
      <4> QED
        BY <4>1, <4>2 DEF IsStrictPrefix, Touches
    <3>2. CASE req[h].kind = "move" /\ d = Front(req[h].to)
      <4>1. req[h].to \in Roots(req[h]) /\ req[h].to \in Path /\ req[h].to # <<>>
        BY <1>1, <3>2
      <4>2. IsStrictPrefix(c, req[h].to)
        BY <2>3, <2>4, <3>2, <4>1, Folders
      <4> QED
        BY <4>1, <4>2 DEF IsStrictPrefix, Touches
    <3>3. CASE req[h].kind = "folder" /\ d = req[h].path
      BY <1>1, <2>3, <2>4, <3>3 DEF Touches, Writes
    <3> QED
      BY <2>1, <3>1, <3>2, <3>3
  <2> QED
    BY <2>1, <2>2, <2>3, <2>4
<1>4. CASE Opens(h)
  <2>1. req[h].kind # "list" /\ Writes(req[h])
    BY <1>4 DEF Opens, Writes
  <2>2. Temp(h) \in Path /\ Temp(h) # <<>> /\ Front(Temp(h)) \in dirs /\ Temp(h) \notin dirs
    BY <1>4, <2>1, TempIsOwn, AboveTemp DEF Opens, Tree
  <2>3. Tree(file', dirs')
    BY <1>4, <2>2, Additions DEF Opens
  <2>4. DOMAIN file' = DOMAIN file \cup {Temp(h)} /\ dirs' = dirs
    BY <1>4 DEF Opens, With
  <2> QED
    BY <2>1, <2>3, <2>4 DEF Touches
<1>5. CASE Fills(h)
  <2>1. DOMAIN file' = DOMAIN file /\ dirs' = dirs
    BY <1>5 DEF Fills
  <2> QED
    BY <2>1 DEF Tree
<1>6. CASE Drops(h)
  <2>1. req[h].kind # "list" /\ Writes(req[h])
    BY <1>6 DEF Drops, Writes
  <2>2. Temp(h) # <<>> /\ Temp(h) \notin dirs
    BY <2>1, TempIsOwn, AboveTemp DEF Tree
  <2>3. Tree(file', dirs \ {Temp(h)}) /\ dirs \ {Temp(h)} = dirs
    BY <1>6, <2>2, Removals DEF Drops
  <2>4. DOMAIN file' = DOMAIN file \ {Temp(h)} /\ dirs' = dirs
    BY <1>6 DEF Drops, Without
  <2> QED
    BY <2>1, <2>3, <2>4 DEF Touches
<1>7. CASE Puts(h)
  BY <1>7, PutsFile DEF Puts, Touches
<1>8. ASSUME NEW p \in {req[h].path} \cup scan[h], Removes(h, p)
      PROVE  /\ Tree(file', dirs')
             /\ \A q \in Path : \/ /\ q \in DOMAIN file' <=> q \in DOMAIN file
                                   /\ q \in dirs' <=> q \in dirs
                                \/ Touches(h, q)
  <2>1. req[h].path # <<>> /\ req[h].path \in Path /\ req[h].path \in Roots(req[h])
    BY <1>1, <1>8 DEF Removes, Writes
  <2>2. DOMAIN file' = DOMAIN file \ {p} /\ dirs' = dirs \ {p}
    BY <1>8 DEF Removes, Without
  <2>3. p = req[h].path \/ (IsPrefix(req[h].path, p) /\ ~Writes(req[h]))
    BY <1>8 DEF Removes, Writes
  <2>4. p # <<>>
    <3>1. IsPrefix(req[h].path, <<>>) => req[h].path = <<>>
      BY <2>1, PrefixOrder, NamesArePaths
    <3> QED
      BY <2>1, <2>3, <3>1
  <2>5. Tree(file', dirs')
    BY <1>8, <2>4, Removals DEF Removes
  <2>6. Touches(h, p)
    <3>1. IsPrefix(req[h].path, req[h].path)
      BY <2>1, PrefixOrder
    <3> QED
      BY <2>1, <2>3, <3>1 DEF Touches
  <2> QED
    BY <2>2, <2>5, <2>6
<1>9. CASE Renames(h)
  <2> DEFINE a == req[h].path
             b == req[h].to
  <2>1. /\ Tree(file', dirs')
        /\ \A r : r \in DOMAIN file' =>
                     \/ \E q \in DOMAIN file : IsPrefix(a, q) /\ r = Moved(a, b, q)
                     \/ r \in DOMAIN file /\ ~IsPrefix(a, r)
        /\ \A r \in DOMAIN file : ~IsPrefix(a, r) => r \in DOMAIN file'
        /\ \A r \in Path : ~IsPrefix(a, r) /\ ~IsPrefix(b, r) => (r \in dirs' <=> r \in dirs)
    BY <1>9, RenamesEntry
  <2>2. ASSUME NEW q \in DOMAIN file, IsPrefix(a, q) PROVE IsPrefix(b, Moved(a, b, q))
    <3>1. q \in Path /\ a \in Path /\ b \in Path
      BY <1>9, Asked DEF Tree
    <3> QED
      BY <2>2, <3>1, MovedUnder
  <2>3. a \in Roots(req[h]) /\ b \in Roots(req[h]) /\ ~Writes(req[h])
    BY <1>1, <1>9 DEF Renames, Writes
  <2>4. ASSUME NEW q \in Path, ~IsPrefix(a, q), ~IsPrefix(b, q)
        PROVE  (q \in DOMAIN file' <=> q \in DOMAIN file) /\ (q \in dirs' <=> q \in dirs)
    BY <2>1, <2>2, <2>4
  <2>5. ASSUME NEW q \in Path, IsPrefix(a, q) \/ IsPrefix(b, q) PROVE Touches(h, q)
    BY <2>3, <2>5 DEF Touches
  <2> QED
    BY <2>1, <2>4, <2>5
<1> QED
  BY <1>2, <1>3, <1>4, <1>5, <1>6, <1>7, <1>8, <1>9 DEF Changes

----------------------------------------------------------------------------
(* What a step does to the records *)

\* A step leaves the records of the other handlers alone.
LEMMA OthersStay ==
  ASSUME Serving, Typed, NEW h \in Handlers, HandlerStep(h), NEW g \in Handlers \ {h}
  PROVE  /\ pc'[g] = pc[g] /\ req'[g] = req[g]
         /\ inside'[g] = inside[g] /\ scan'[g] = scan[g] /\ wasDir'[g] = wasDir[g]
         /\ untold'[g] = untold[g]
<1>1. ASSUME Done(h)
      PROVE  /\ pc'[g] = pc[g] /\ req'[g] = req[g]
             /\ inside'[g] = inside[g] /\ scan'[g] = scan[g] /\ wasDir'[g] = wasDir[g]
  BY <1>1 DEF Done, Serving, Typed
<1>2. ASSUME NEW phase, Goto(h, phase) PROVE pc'[g] = pc[g]
  BY <1>2 DEF Goto, Serving
<1>3. ASSUME NEW phase, Step(h, phase)
      PROVE  /\ pc'[g] = pc[g] /\ req'[g] = req[g]
             /\ inside'[g] = inside[g] /\ scan'[g] = scan[g] /\ wasDir'[g] = wasDir[g]
  BY <1>2, <1>3 DEF Step
<1>4. \A f, d, docs : SetTree(h, f, d, docs) => untold'[g] = untold[g]
  BY DEF SetTree, Typed
<1>5. UNCHANGED changes \/ UNCHANGED history => untold'[g] = untold[g]
  BY DEF changes, history
<1>6. CASE Refused(h) \/ Exists(h) \/ CheckQuota(h) \/ CountTorn(h) \/ Parents(h) \/ OpenTemp(h)
  BY <1>1, <1>3, <1>4, <1>5, <1>6 DEF Refused, Exists, CheckQuota, CountTorn, Parents, OpenTemp
<1>7. CASE FillTemp(h) \/ FillFails(h) \/ Replace(h) \/ RemoveTarget(h) \/ ReplaceAgain(h)
  BY <1>1, <1>3, <1>4, <1>5, <1>7 DEF FillTemp, FillFails, DropTemp, Replace, RemoveTarget,
     ReplaceAgain, Put
<1>8. CASE ClearTombstone(h) \/ Recorded(h) \/ Folder(h) \/ Listed(h)
  BY <1>1, <1>3, <1>4, <1>5, <1>8 DEF ClearTombstone, Recorded, Folder, Listed
<1>9. CASE RemoveOne(h) \/ Collect(h) \/ RemoveAll(h) \/ RemoveEntry(h)
  BY <1>1, <1>2, <1>4, <1>5, <1>9 DEF RemoveOne, Collect, RemoveAll, RemoveEntry, Typed
<1>10. CASE Look(h) \/ Rename(h) \/ Record(h) \/ ClearDest(h)
  BY <1>1, <1>2, <1>3, <1>4, <1>5, <1>10 DEF Look, Rename, Record, ClearDest, Typed
<1>11. CASE Notify(h) \/ Walk(h)
  BY <1>1, <1>5, <1>11 DEF Notify, Walk, Typed
<1> QED
  BY <1>6, <1>7, <1>8, <1>9, <1>10, <1>11 DEF HandlerStep

\* A step keeps the request it is about, or answers it.
LEMMA RequestSteps ==
  ASSUME Serving, Typed, NEW h \in Handlers, HandlerStep(h)
  PROVE  /\ \A g \in Handlers : pc'[g] # "idle" => req'[g] = req[g] /\ pc[g] # "idle"
         /\ req' = req \/ Done(h)
<1>1. Serving' /\ pc[h] # "idle"
  BY ServingStep
<1>2. req' = req \/ Done(h)
  BY DEF HandlerStep, Step, Refused, Exists, CheckQuota, CountTorn, Parents, OpenTemp, FillTemp,
     FillFails, DropTemp, Replace, Put, RemoveTarget, ReplaceAgain, ClearTombstone, RemoveOne,
     Collect, RemoveAll, RemoveEntry, Look, Rename, Record, ClearDest, Recorded, Folder, Notify,
     Walk, Listed
<1>3. ASSUME NEW g \in Handlers, pc'[g] # "idle" PROVE req'[g] = req[g] /\ pc[g] # "idle"
  <2>1. CASE g = h
    BY <1>1, <1>2, <1>3, <2>1 DEF Done, Serving
  <2>2. CASE g # h
    BY <1>3, <2>2, OthersStay
  <2> QED
    BY <2>1, <2>2
<1> QED
  BY <1>2, <1>3

\* What a handler has collected, has yet to remove or to visit, is in its tree and
\* under its path.
RecordOf(h) ==
    /\ inside \in [Handlers -> SUBSET Path] /\ scan \in [Handlers -> SUBSET Path]
    /\ wasDir \in [Handlers -> BOOLEAN]
    /\ req[h].kind \in {"rm", "rmdir", "move"} =>
           \A p \in inside[h] \cup scan[h] : IsPrefix(req[h].path, p)
    /\ pc[h] = "idle" => inside[h] = {}

\* What a handler has collected is still its own after its step.
LEMMA RecordSteps ==
  ASSUME Serving, Typed, NEW h \in Handlers, HandlerStep(h)
  PROVE  RecordOf(h)'
<1>1. /\ inside \in [Handlers -> SUBSET Path] /\ scan \in [Handlers -> SUBSET Path]
      /\ wasDir \in [Handlers -> BOOLEAN] /\ DOMAIN req = Handlers
      /\ req[h].kind \in {"rm", "rmdir", "move"} =>
             \A p \in inside[h] \cup scan[h] : IsPrefix(req[h].path, p)
  BY DEF Typed, Serving
<1>0. pc[h] # "idle" /\ DOMAIN file \subseteq Path /\ dirs \subseteq Path
  BY ServingStep, NamesArePaths DEF Typed, Tree
<1>2. req[h].path \in Path /\ IsPrefix(req[h].path, req[h].path)
  BY <1>0, Asked, PrefixOrder
<1>19. ASSUME req' = req PROVE pc'[h] # "idle"
  <2>1. req[h].kind # "list" => req[h].path # <<>>
    BY <1>0, Asked
  <2>2. req[h] # NoRequest
    BY <2>1 DEF NoRequest
  <2>3. Serving'
    BY ServingStep
  <2> QED
    BY <1>19, <2>2, <2>3 DEF Serving
<1>3. ASSUME Done(h) PROVE RecordOf(h)'
  <2>1. req'[h] = NoRequest /\ NoRequest.kind = "put"
    BY <1>1, <1>3 DEF Done, NoRequest
  <2>2. inside' \in [Handlers -> SUBSET Path] /\ scan' \in [Handlers -> SUBSET Path]
        /\ wasDir' \in [Handlers -> BOOLEAN] /\ inside'[h] = {}
    BY <1>1, <1>3 DEF Done
  <2> QED
    BY <2>1, <2>2 DEF RecordOf
<1>4. ASSUME UNCHANGED <<req, inside, scan, wasDir>> PROVE RecordOf(h)'
  BY <1>1, <1>4, <1>19 DEF RecordOf
<1>5. ASSUME NEW phase, Step(h, phase) PROVE RecordOf(h)'
  BY <1>4, <1>5 DEF Step
<1>6. ASSUME NEW i \in SUBSET Path, NEW s \in SUBSET Path, NEW w \in BOOLEAN,
             inside' = [inside EXCEPT ![h] = i] \/ (inside' = inside /\ i = inside[h]),
             scan' = [scan EXCEPT ![h] = s] \/ (scan' = scan /\ s = scan[h]),
             wasDir' = [wasDir EXCEPT ![h] = w] \/ (wasDir' = wasDir /\ w = wasDir[h]), req' = req,
             req[h].kind \in {"rm", "rmdir", "move"} => \A p \in i \cup s : IsPrefix(req[h].path, p)
      PROVE  RecordOf(h)'
  <2>1. inside' \in [Handlers -> SUBSET Path] /\ inside'[h] = i
    BY <1>1, <1>6
  <2>2. scan' \in [Handlers -> SUBSET Path] /\ scan'[h] = s
    BY <1>1, <1>6
  <2>3. wasDir' \in [Handlers -> BOOLEAN]
    BY <1>1, <1>6
  <2> QED
    BY <1>6, <1>19, <2>1, <2>2, <2>3 DEF RecordOf
<1>7. inside[h] \in SUBSET Path /\ scan[h] \in SUBSET Path /\ wasDir[h] \in BOOLEAN
  BY <1>1
<1>8. CASE Refused(h) \/ Exists(h) \/ CheckQuota(h) \/ CountTorn(h) \/ Parents(h) \/ OpenTemp(h)
  BY <1>3, <1>5, <1>8 DEF Refused, Exists, CheckQuota, CountTorn, Parents, OpenTemp
<1>9. CASE FillTemp(h) \/ FillFails(h) \/ Replace(h) \/ RemoveTarget(h) \/ ReplaceAgain(h)
  BY <1>3, <1>5, <1>9 DEF FillTemp, FillFails, DropTemp, Replace, RemoveTarget, ReplaceAgain, Put
<1>10. CASE ClearTombstone(h) \/ Recorded(h) \/ Folder(h) \/ Listed(h) \/ Rename(h) \/ Notify(h)
  BY <1>3, <1>5, <1>10 DEF ClearTombstone, Recorded, Folder, Listed, Rename, Notify
<1>11. CASE RemoveOne(h)
  <2>1. CASE Done(h)
    BY <1>3, <2>1
  <2>2. CASE ~Done(h)
    <3>1. /\ inside' = [inside EXCEPT ![h] = {req[h].path}] /\ UNCHANGED <<req, scan, wasDir>>
      BY <1>11, <2>2 DEF RemoveOne
    <3> QED
      BY <1>1, <1>2, <1>6, <1>7, <3>1
  <2> QED
    BY <2>1, <2>2
<1>12. CASE Collect(h)
  <2>1. inside' = [inside EXCEPT ![h] = Under(req[h].path)] /\ UNCHANGED <<req, scan, wasDir>>
    BY <1>12 DEF Collect
  <2>2. \A p \in Under(req[h].path) : p \in Path /\ IsPrefix(req[h].path, p)
    BY <1>0 DEF Under, IsStrictPrefix
  <2> QED
    BY <1>1, <1>6, <1>7, <2>1, <2>2
<1>13. CASE RemoveAll(h)
  <2> DEFINE found == {q \in DOMAIN file \cup dirs : IsPrefix(req[h].path, q)}
  <2>1. CASE Done(h)
    BY <1>3, <2>1
  <2>2. CASE ~Done(h)
    <3>1. scan' = [scan EXCEPT ![h] = found] /\ UNCHANGED <<req, inside, wasDir>>
      BY <1>13, <2>2 DEF RemoveAll
    <3>2. \A p \in found : p \in Path /\ IsPrefix(req[h].path, p)
      BY <1>0
    <3> HIDE DEF found
    <3> QED
      BY <1>1, <1>6, <1>7, <3>1, <3>2
  <2> QED
    BY <2>1, <2>2
<1>14. CASE RemoveEntry(h)
  <2>1. CASE Done(h)
    BY <1>3, <2>1
  <2>2. CASE ~Done(h)
    <3>1. PICK p \in scan[h] : scan' = [scan EXCEPT ![h] = @ \ {p}] /\ UNCHANGED <<req, inside, wasDir>>
      BY <1>14, <2>2 DEF RemoveEntry
    <3>2. scan' = [scan EXCEPT ![h] = scan[h] \ {p}]
      BY <1>1, <3>1
    <3> QED
      BY <1>1, <1>6, <1>7, <3>1, <3>2
  <2> QED
    BY <2>1, <2>2
<1>15. CASE Look(h)
  <2> DEFINE i == IF req[h].path \in dirs THEN Under(req[h].path) ELSE {req[h].path}
  <2>1. /\ wasDir' = [wasDir EXCEPT ![h] = req[h].path \in dirs]
        /\ inside' = [inside EXCEPT ![h] = i]
        /\ UNCHANGED <<req, scan>>
    BY <1>15 DEF Look
  <2>2. \A p \in i : p \in Path /\ IsPrefix(req[h].path, p)
    BY <1>0, <1>2 DEF Under, IsStrictPrefix
  <2>3. i \in SUBSET Path
    BY <2>2
  <2>4. \E w \in BOOLEAN : w = (req[h].path \in dirs)
    <3>1. CASE req[h].path \in dirs
      <4>1. TRUE = (req[h].path \in dirs)
        BY <3>1
      <4> QED
        BY <4>1
    <3>2. CASE req[h].path \notin dirs
      <4>1. FALSE = (req[h].path \in dirs)
        BY <3>2
      <4> QED
        BY <4>1
    <3> QED
      BY <3>1, <3>2
  <2>6. PICK w \in BOOLEAN : w = (req[h].path \in dirs)
    BY <2>4
  <2>5. wasDir' = [wasDir EXCEPT ![h] = w]
    BY <2>1, <2>6
  <2> HIDE DEF i
  <2> QED
    BY <1>1, <1>6, <1>7, <2>1, <2>2, <2>3, <2>5
<1>16. CASE Record(h)
  <2>1. PICK p \in inside[h] :
            /\ inside' = [inside EXCEPT ![h] = @ \ {p}]
            /\ scan' = [scan EXCEPT ![h] = {p}] \/ scan' = scan
            /\ UNCHANGED <<req, wasDir>>
    BY <1>16 DEF Record
  <2>2. inside' = [inside EXCEPT ![h] = inside[h] \ {p}] /\ {p} \in SUBSET Path
    BY <1>1, <2>1
  <2>3. CASE scan' = scan
    BY <1>1, <1>6, <1>7, <2>1, <2>2, <2>3
  <2>4. CASE scan' = [scan EXCEPT ![h] = {p}]
    BY <1>1, <1>6, <1>7, <2>1, <2>2, <2>4
  <2> QED
    BY <2>1, <2>3, <2>4
<1>17. CASE ClearDest(h)
  <2>1. scan' = [scan EXCEPT ![h] = {}] /\ UNCHANGED <<req, inside, wasDir>>
    BY <1>17 DEF ClearDest
  <2> QED
    BY <1>1, <1>6, <1>7, <2>1
<1>18. CASE Walk(h)
  <2>1. CASE Done(h)
    BY <1>3, <2>1
  <2>2. CASE ~Done(h)
    <3>1. PICK d \in scan[h] :
              /\ scan' = [scan EXCEPT ![h] = (@ \ {d}) \cup {e \in dirs : e # <<>> /\ Front(e) = d}]
              /\ inside' = [inside EXCEPT ![h] = @ \cup {p \in DOMAIN file : Front(p) = d}]
              /\ UNCHANGED <<req, wasDir>>
      BY <1>18, <2>2 DEF Walk
    <3> DEFINE s == (scan[h] \ {d}) \cup {e \in dirs : e # <<>> /\ Front(e) = d}
               i == inside[h] \cup {p \in DOMAIN file : Front(p) = d}
    <3>2. inside' = [inside EXCEPT ![h] = i] /\ scan' = [scan EXCEPT ![h] = s]
      BY <1>1, <3>1
    <3>3. i \in SUBSET Path /\ s \in SUBSET Path
      BY <1>0, <1>1
    <3>4. req[h].kind \notin {"rm", "rmdir", "move"}
      BY <1>0, <1>18, KindAt DEF Walk, At
    <3> HIDE DEF i, s
    <3> QED
      BY <1>6, <1>7, <3>1, <3>2, <3>3, <3>4
  <2> QED
    BY <2>1, <2>2
<1> QED
  BY <1>8, <1>9, <1>10, <1>11, <1>12, <1>13, <1>14, <1>15, <1>16, <1>17, <1>18 DEF HandlerStep

----------------------------------------------------------------------------
(* The types *)

\* Every file after a renaming is one from before it, with its own name still
\* unless it is the renamed file itself.
LEMMA RenamedFiles ==
  ASSUME DOMAIN file \subseteq Path, NEW a \in Path, NEW b \in Path,
         NEW r \in DOMAIN Renamed(a, b)
  PROVE  /\ r \in Path
         /\ \E q \in DOMAIN file :
                /\ Renamed(a, b)[r] = file[q]
                /\ \/ r = q
                   \/ q = a /\ r = b
                   \/ q # <<>> /\ r # <<>> /\ Last(r) = Last(q)
<1>1. /\ DOMAIN Renamed(a, b) = {Moved(a, b, q) : q \in {p \in DOMAIN file : IsPrefix(a, p)}}
             \cup {q \in DOMAIN file : ~IsPrefix(a, q) /\ ~IsPrefix(b, q)}
      /\ Renamed(a, b)[r] = file[Moved(b, a, r)]
  BY DEF Renamed
<1>2. CASE r \in DOMAIN file /\ ~IsPrefix(b, r)
  BY <1>1, <1>2 DEF Moved
<1>3. ASSUME NEW q \in DOMAIN file, IsPrefix(a, q), r = Moved(a, b, q)
      PROVE  /\ r \in Path
             /\ Renamed(a, b)[r] = file[q]
             /\ \/ q = a /\ r = b
                \/ q # <<>> /\ r # <<>> /\ Last(r) = Last(q)
  <2>1. q \in Seq(Names \cup Handlers) /\ a \in Seq(Names \cup Handlers)
        /\ b \in Seq(Names \cup Handlers)
    BY DEF Path
  <2> QED
    BY <1>1, <1>3, <2>1, MovedBack DEF Path
<1> QED
  BY <1>1, <1>2, <1>3

\* A step changes the tree in one of the ways above, within its footprint.
LEMMA TreeKept ==
  ASSUME Serving, Typed, NEW h \in Handlers, HandlerStep(h)
  PROVE  /\ pc[h] # "idle" /\ Changes(h) /\ Tree(file', dirs')
         /\ \A q \in Path : \/ /\ q \in DOMAIN file' <=> q \in DOMAIN file
                               /\ q \in dirs' <=> q \in dirs
                            \/ Touches(h, q)
<1>1. pc[h] # "idle" /\ Tree(file, dirs)
  BY ServingStep DEF Typed
<1>2. Changes(h)
  BY <1>1, TreeSteps
<1>3. \A p \in scan[h] : req[h].kind = "rmdir" => IsPrefix(req[h].path, p)
  BY DEF Typed
<1> QED
  BY <1>1, <1>2, <1>3, Footprint

\* Files have contents, whatever the change.
LEMMA ContentSteps ==
  ASSUME Serving, Typed, NEW h \in Handlers, pc[h] # "idle", Changes(h)
  PROVE  \A p \in DOMAIN file' : file'[p] \in Content
<1>1. DOMAIN file \subseteq Path /\ \A p \in DOMAIN file : file[p] \in Content
  BY DEF Typed, Tree
<1>2. ASSUME NEW a \in Path, NEW b \in Path, file' = Renamed(a, b)
      PROVE  \A p \in DOMAIN file' : file'[p] \in Content
  <2> SUFFICES ASSUME NEW p \in DOMAIN Renamed(a, b) PROVE Renamed(a, b)[p] \in Content
    BY <1>2
  <2>1. PICK q \in DOMAIN file : Renamed(a, b)[p] = file[q]
    BY <1>1, RenamedFiles
  <2> QED
    BY <1>1, <2>1
<1>3. CASE Keeps \/ Makes(h)
  BY <1>1, <1>3 DEF Keeps, Makes
<1>4. CASE Opens(h)
  <2>1. [size |-> 0, whole |-> FALSE] \in Content
    BY DEF Content
  <2> QED
    BY <1>1, <1>4, <2>1 DEF Opens, With
<1>5. CASE Fills(h)
  <2>1. [size |-> req[h].size, whole |-> TRUE] \in Content
    BY Asked DEF Content
  <2> QED
    BY <1>1, <1>5, <2>1 DEF Fills
<1>6. CASE Drops(h) \/ \E p \in {req[h].path} \cup scan[h] : Removes(h, p)
  BY <1>1, <1>6 DEF Drops, Removes, Without
<1>7. CASE Puts(h)
  <2>1. Temp(h) \in Path /\ req[h].path \in Path
    BY <1>7, TempIsOwn, Asked DEF Puts, Writes
  <2> QED
    BY <1>2, <1>7, <2>1 DEF Puts
<1>8. CASE Renames(h)
  BY <1>2, <1>8, Asked DEF Renames
<1> QED
  BY <1>3, <1>4, <1>5, <1>6, <1>7, <1>8 DEF Changes

\* The histories follow the files.
LEMMA FollowsOn ==
  ASSUME Typed, NEW h \in Handlers, Changes(h), DOMAIN file' \subseteq Path
  PROVE  /\ steady' \in [Handlers -> SUBSET DOMAIN file']
         /\ \A p \in ever' : p \in Path /\ IsDoc(p)
<1>1. steady \in [Handlers -> SUBSET DOMAIN file] /\ \A p \in ever : p \in Path /\ IsDoc(p)
  BY DEF Typed
<1>2. CASE Follows
  BY <1>1, <1>2 DEF Follows
<1>3. CASE Keeps \/ Makes(h)
  BY <1>1, <1>3 DEF Keeps, Makes
<1> QED
  BY <1>2, <1>3 DEF Changes, Opens, Fills, Drops, Puts, Removes, Renames

Marked == unsure \subseteq Path /\ unweighed \subseteq Path

\* Tombstones, mishaps and unchecked documents are at paths.
LEMMA MarkSteps ==
  ASSUME Serving, Typed, NEW h \in Handlers, HandlerStep(h)
  PROVE  tomb' \subseteq Path /\ unsure' \subseteq Path /\ unweighed' \subseteq Path
<1>1. /\ tomb \subseteq Path /\ unsure \subseteq Path /\ unweighed \subseteq Path
      /\ inside[h] \subseteq Path /\ untold[h] \subseteq Path /\ DOMAIN file \subseteq Path
  BY DEF Typed, Tree
<1>2. pc[h] # "idle" /\ Roots(req[h]) \subseteq Path
  BY ServingStep, RootsAre
<1>3. /\ \A paths : paths \subseteq Path /\ Trouble(paths) => Marked'
      /\ UNCHANGED reckoned \/ UNCHANGED history => Marked'
  BY <1>1 DEF Trouble, reckoned, history, Marked
<1>4. tomb' \subseteq Path
  <2>1. CASE ClearTombstone(h) \/ Record(h) \/ ClearDest(h)
    BY <1>1, <2>1 DEF ClearTombstone, Record, ClearDest, Swallowed
  <2>2. CASE ~(ClearTombstone(h) \/ Record(h) \/ ClearDest(h))
    <3>1. tomb' = tomb
      BY <2>2 DEF HandlerStep, Refused, Exists, CheckQuota, CountTorn, Parents, OpenTemp, FillTemp,
         FillFails, Replace, RemoveTarget, ReplaceAgain, RemoveOne, Collect, RemoveAll, RemoveEntry,
         Look, Rename, Recorded, Folder, Notify, Walk, Listed
    <3> QED
      BY <1>1, <3>1
  <2> QED
    BY <2>1, <2>2
<1>5. ASSUME CheckQuota(h) PROVE Marked'
  <2>1. {req[h].path} \subseteq Path /\ unsure' = unsure
    BY <1>2, <1>5, Asked DEF CheckQuota
  <2> QED
    BY <1>1, <1>5, <2>1 DEF CheckQuota, Marked
<1>6. ASSUME CountTorn(h) \/ ClearTombstone(h) \/ Record(h) \/ ClearDest(h) \/ FillFails(h) PROVE Marked'
  <2>1. Trouble(Roots(req[h])) \/ UNCHANGED reckoned
    BY <1>6 DEF CountTorn, ClearTombstone, Record, ClearDest, FillFails, DropTemp, Swallowed, Mishap
  <2> QED
    BY <1>2, <1>3, <2>1
<1>7. ASSUME ReplaceAgain(h) \/ RemoveEntry(h) \/ Collect(h) PROVE Marked'
  <2>2. \A paths : paths \subseteq Path /\ Mishap(paths) => Marked'
    BY <1>3 DEF Mishap
  <2>1. {req[h].path} \cap DOMAIN file \subseteq Path
    BY <1>1
  <2> QED
    BY <1>1, <1>2, <1>3, <1>7, <2>1, <2>2 DEF ReplaceAgain, DropTemp, RemoveEntry, Collect
<1>8. ASSUME Rename(h) PROVE Marked'
  <2>1. unsure' = unsure
    BY <1>8 DEF Rename, reckoned
  <2>2. ASSUME NEW q \in unweighed PROVE Moved(req[h].path, req[h].to, q) \in Path
    <3>1. req[h].path \in Path /\ req[h].to \in Path /\ q \in Path
      BY <1>1, <1>2, Asked
    <3>2. CASE IsPrefix(req[h].path, q)
      BY <3>1, <3>2, MovedUnder
    <3>3. CASE ~IsPrefix(req[h].path, q)
      BY <3>1, <3>3 DEF Moved
    <3> QED
      BY <3>2, <3>3
  <2>3. unweighed' \subseteq Path
    BY <1>1, <1>8, <2>2 DEF Rename, Stands
  <2> QED
    BY <1>1, <2>1, <2>3 DEF Marked
<1>9. ASSUME Refused(h) \/ Exists(h) \/ Parents(h) \/ OpenTemp(h) \/ FillTemp(h) \/ Replace(h)
           \/ RemoveTarget(h) \/ RemoveOne(h) \/ RemoveAll(h) \/ Look(h) \/ Recorded(h)
           \/ Folder(h) \/ Notify(h) \/ Walk(h) \/ Listed(h)
      PROVE  Marked'
  BY <1>3, <1>9 DEF Refused, Exists, Parents, OpenTemp, FillTemp, Replace, RemoveTarget, RemoveOne,
     RemoveAll, Look, Recorded, Folder, Notify, Walk, Listed
<1> QED
  <2>1. Marked'
    BY <1>5, <1>6, <1>7, <1>8, <1>9 DEF HandlerStep
  <2> QED
    BY <1>4, <2>1 DEF Marked

\* What a handler has to announce are paths.
LEMMA UntoldSteps ==
  ASSUME Serving, Typed, NEW h \in Handlers, HandlerStep(h)
  PROVE  untold' \in [Handlers -> SUBSET Path]
<1>1. untold \in [Handlers -> SUBSET Path] /\ DOMAIN file \subseteq Path
  BY DEF Typed, Tree
<1>2. ASSUME NEW f, NEW d, NEW docs \in SUBSET Path, SetTree(h, f, d, docs)
      PROVE  untold' \in [Handlers -> SUBSET Path]
  BY <1>1, <1>2 DEF SetTree
<1>3. ASSUME UNCHANGED changes \/ UNCHANGED history PROVE untold' \in [Handlers -> SUBSET Path]
  BY <1>1, <1>3 DEF changes, history
<1>4. pc[h] # "idle"
  BY ServingStep
<1>5. CASE OpenTemp(h) \/ FillTemp(h) \/ FillFails(h)
  BY <1>2, <1>3, <1>5 DEF OpenTemp, FillTemp, FillFails, DropTemp
<1>6. CASE Replace(h) \/ ReplaceAgain(h)
  <2>1. {req[h].path} \in SUBSET Path
    BY <1>4, Asked
  <2> QED
    BY <1>2, <1>3, <1>6, <2>1 DEF Replace, ReplaceAgain, DropTemp, Put
<1>7. CASE RemoveTarget(h) \/ RemoveOne(h)
  <2>1. DOMAIN file \cap {req[h].path} \in SUBSET Path
    BY <1>1
  <2> QED
    BY <1>2, <1>3, <1>7, <2>1 DEF RemoveTarget, RemoveOne
<1>8. CASE RemoveEntry(h)
  <2>1. \A p : DOMAIN file \cap {p} \in SUBSET Path
    BY <1>1
  <2> QED
    BY <1>2, <1>3, <1>8, <2>1 DEF RemoveEntry
<1>9. CASE Rename(h)
  <2> DEFINE moved == {q \in DOMAIN file : IsPrefix(req[h].path, q)}
             docs == moved \cup {Moved(req[h].path, req[h].to, q) : q \in moved}
  <2>1. docs \in SUBSET Path
    <3>1. ASSUME NEW q \in moved PROVE Moved(req[h].path, req[h].to, q) \in Path
      BY <1>1, <1>4, Asked, MovedUnder
    <3> QED
      BY <1>1, <3>1
  <2>2. \/ UNCHANGED <<tree, changes>>
        \/ \E f, d : SetTree(h, f, d, docs)
    BY <1>9 DEF Rename
  <2> HIDE DEF docs
  <2> QED
    BY <1>2, <1>3, <2>1, <2>2
<1>10. CASE Notify(h)
  <2>1. PICK t \in SUBSET Path : untold' = [untold EXCEPT ![h] = t]
    <3>1. untold[h] \ {req[h].path, req[h].to} \in SUBSET Path /\ untold[h] \ {req[h].path} \in SUBSET Path
          /\ {} \in SUBSET Path
      BY <1>1
    <3> QED
      BY <1>10, <3>1 DEF Notify
  <2> QED
    BY <1>1, <2>1
<1>11. CASE Refused(h) \/ Exists(h) \/ CheckQuota(h) \/ CountTorn(h) \/ Parents(h) \/ ClearTombstone(h)
            \/ Collect(h) \/ RemoveAll(h) \/ Look(h)
  BY <1>3, <1>11 DEF Refused, Exists, CheckQuota, CountTorn, Parents, ClearTombstone, Collect,
     RemoveAll, Look
<1>12. CASE Record(h) \/ ClearDest(h) \/ Recorded(h) \/ Folder(h) \/ Walk(h) \/ Listed(h)
  BY <1>3, <1>12 DEF Record, ClearDest, Recorded, Folder, Walk, Listed
<1> QED
  BY <1>5, <1>6, <1>7, <1>8, <1>9, <1>10, <1>11, <1>12 DEF HandlerStep

\* The phases stay those of the handlers.
LEMMA PhaseSteps ==
  ASSUME Serving, NEW h \in Handlers, HandlerStep(h), pc = [g \in Handlers |-> pc[g]]
  PROVE  pc' = [g \in Handlers |-> pc'[g]]
<1>1. ASSUME NEW phase, pc' = [pc EXCEPT ![h] = phase] PROVE pc' = [g \in Handlers |-> pc'[g]]
  BY <1>1 DEF Serving
<1>2. \A phase : Goto(h, phase) \/ Step(h, phase) \/ Done(h) => pc' = [g \in Handlers |-> pc'[g]]
  BY <1>1 DEF Goto, Step, Done
<1>3. pc' = pc => pc' = [g \in Handlers |-> pc'[g]]
  OBVIOUS
<1>4. CASE Refused(h) \/ Exists(h) \/ CheckQuota(h) \/ CountTorn(h) \/ Parents(h) \/ OpenTemp(h) \/ FillTemp(h)
           \/ FillFails(h) \/ Replace(h) \/ RemoveTarget(h) \/ ReplaceAgain(h) \/ ClearTombstone(h)
  BY <1>2, <1>4 DEF Refused, Exists, CheckQuota, CountTorn, Parents, OpenTemp, FillTemp, FillFails,
     DropTemp, Replace, Put, RemoveTarget, ReplaceAgain, ClearTombstone
<1>5. CASE RemoveOne(h) \/ Collect(h) \/ RemoveAll(h) \/ RemoveEntry(h) \/ Look(h) \/ Rename(h)
  BY <1>2, <1>5 DEF RemoveOne, Collect, RemoveAll, RemoveEntry, Look, Rename
<1>6. CASE Record(h) \/ ClearDest(h) \/ Recorded(h) \/ Folder(h) \/ Notify(h) \/ Walk(h) \/ Listed(h)
  BY <1>2, <1>3, <1>6 DEF Record, ClearDest, Recorded, Folder, Notify, Walk, Listed
<1> QED
  BY <1>4, <1>5, <1>6 DEF HandlerStep

\* The types hold after a step of a handler, ...
LEMMA TypedStep ==
  ASSUME Serving, Typed, NEW h \in Handlers, HandlerStep(h)
  PROVE  Typed'
<1>1. pc[h] # "idle" /\ Changes(h) /\ Tree(file', dirs')
  BY TreeKept
<1>2. \A p \in DOMAIN file' : file'[p] \in Content
  BY <1>1, ContentSteps
<1>3. steady' \in [Handlers -> SUBSET DOMAIN file'] /\ \A p \in ever' : p \in Path /\ IsDoc(p)
  BY <1>1, FollowsOn DEF Tree
<1>4. tomb' \subseteq Path /\ unsure' \subseteq Path /\ unweighed' \subseteq Path
  BY MarkSteps
<1>5. untold' \in [Handlers -> SUBSET Path]
  BY UntoldSteps
<1>6. RecordOf(h)'
  BY RecordSteps
<1>7. ASSUME NEW g \in Handlers, req'[g].kind \in {"rm", "rmdir", "move"}, NEW p \in inside'[g] \cup scan'[g]
      PROVE  IsPrefix(req'[g].path, p)
  <2>1. CASE g = h
    BY <1>6, <1>7, <2>1 DEF RecordOf
  <2>2. CASE g # h
    <3>1. req'[g] = req[g] /\ inside'[g] = inside[g] /\ scan'[g] = scan[g]
      BY <2>2, OthersStay
    <3> QED
      BY <1>7, <3>1 DEF Typed
  <2> QED
    BY <2>1, <2>2
<1>8. ASSUME NEW g \in Handlers, pc'[g] = "idle" PROVE inside'[g] = {}
  <2>1. CASE g = h
    BY <1>6, <1>8, <2>1 DEF RecordOf
  <2>2. CASE g # h
    <3>1. pc'[g] = pc[g] /\ inside'[g] = inside[g]
      BY <2>2, OthersStay
    <3> QED
      BY <1>8, <3>1 DEF Typed
  <2> QED
    BY <2>1, <2>2
<1>9. pc' = [g \in Handlers |-> pc'[g]]
  BY PhaseSteps DEF Typed
<1> QED
  BY <1>1, <1>2, <1>3, <1>4, <1>5, <1>6, <1>7, <1>8, <1>9 DEF Typed, RecordOf

\* ... and after a request arrives.
LEMMA TypedTake ==
  ASSUME Serving, Typed, NEW h \in Handlers, NEW r \in Requests[h], Take(h, r)
  PROVE  Typed'
<1>1. file' = file /\ dirs' = dirs /\ tomb' = tomb /\ inside' = inside /\ wasDir' = wasDir
      /\ ever' = ever /\ untold' = untold /\ pc[h] = "idle"
  BY DEF Take, tree, At
<1>2. Serving'
  BY ServingTake
<1>3. /\ scan \in [Handlers -> SUBSET Path] /\ steady \in [Handlers -> SUBSET DOMAIN file]
      /\ DOMAIN req = Handlers /\ unsure \subseteq Path /\ unweighed \subseteq Path
  BY DEF Typed, Serving
<1>4. <<>> \in Path
  BY NamesArePaths
<1>5. /\ scan' \in [Handlers -> SUBSET Path]
      /\ scan'[h] = IF r.kind = "list" THEN {<<>>} ELSE {}
      /\ \A g \in Handlers \ {h} : scan'[g] = scan[g]
  BY <1>3, <1>4 DEF Take
<1>6. steady' \in [Handlers -> SUBSET DOMAIN file]
  <2>1. PICK s \in SUBSET DOMAIN file : steady' = [steady EXCEPT ![h] = s]
    <3>1. {p \in DOMAIN file : IsDoc(p)} \in SUBSET DOMAIN file /\ {} \in SUBSET DOMAIN file
      OBVIOUS
    <3> QED
      BY <3>1 DEF Take
  <2> QED
    BY <1>3, <2>1
<1>7. /\ req'[h] = r /\ \A g \in Handlers \ {h} : req'[g] = req[g] /\ pc'[g] = pc[g]
      /\ pc'[h] # "idle"
  <2>1. r.kind \in Kinds
    BY WorkspaceAssumption DEF WorkspaceAssumption, Request
  <2>2. FirstPhase[r.kind] # "idle"
    BY <2>1 DEF FirstPhase, Kinds
  <2> QED
    BY <1>3, <2>2 DEF Take, Goto, Serving
<1>8. Roots(r) \subseteq Path
  <2>1. r.path \in Seq(Names) /\ r.to \in Seq(Names)
    BY WorkspaceAssumption DEF WorkspaceAssumption, Request
  <2> QED
    BY <2>1, NamesArePaths DEF Roots
<1>9. ASSUME NEW g \in Handlers, pc[g] # "idle" PROVE Roots(req[g]) \subseteq Path
  BY <1>9, RootsAre
<1>10. unsure' \subseteq Path /\ unweighed' \subseteq Path
  BY <1>3, <1>8, <1>9 DEF Take, At, Trouble
<1>11. ASSUME NEW g \in Handlers, req'[g].kind \in {"rm", "rmdir", "move"}, NEW p \in inside[g] \cup scan'[g]
       PROVE  IsPrefix(req'[g].path, p)
  <2>1. CASE g # h
    BY <1>5, <1>7, <1>11, <2>1 DEF Typed
  <2>2. CASE g = h
    BY <1>1, <1>5, <1>7, <1>11, <2>2 DEF Typed
  <2> QED
    BY <2>1, <2>2
<1>12. ASSUME NEW g \in Handlers, pc'[g] = "idle" PROVE inside[g] = {}
  BY <1>7, <1>12 DEF Typed
<1>13. /\ inside' \in [Handlers -> SUBSET Path] /\ wasDir' \in [Handlers -> BOOLEAN]
       /\ untold' \in [Handlers -> SUBSET Path] /\ tomb' \subseteq Path
       /\ steady' \in [Handlers -> SUBSET DOMAIN file']
       /\ \A p \in DOMAIN file' : file'[p] \in Content
       /\ \A p \in ever' : p \in Path /\ IsDoc(p)
       /\ Tree(file', dirs')
  BY <1>1, <1>6 DEF Typed
<1>14. /\ \A g \in Handlers : req'[g].kind \in {"rm", "rmdir", "move"} =>
                \A p \in inside'[g] \cup scan'[g] : IsPrefix(req'[g].path, p)
       /\ \A g \in Handlers : pc'[g] = "idle" => inside'[g] = {}
  BY <1>1, <1>11, <1>12
<1>15. scan' \in [Handlers -> SUBSET Path]
  BY <1>5
<1>16. pc' = [g \in Handlers |-> pc'[g]]
  BY DEF Take, Goto, Serving, Typed
<1> QED
  BY <1>10, <1>13, <1>14, <1>15, <1>16 DEF Typed

TypeInv == Serving /\ Typed

LEMMA TypesBegin == Init => TypeInv
<1> SUFFICES ASSUME Init PROVE TypeInv
  OBVIOUS
<1>1. /\ <<>> \in Dirs0 /\ DOMAIN Files0 \cap Dirs0 = {}
      /\ \A p \in DOMAIN Files0 \cup Dirs0 :
             p \in Seq(Names) /\ \A n \in 0..(Len(p) - 1) : SubSeq(p, 1, n) \in Dirs0
      /\ \A p \in DOMAIN Files0 : Files0[p] \in Nat
  BY WorkspaceAssumption DEF WorkspaceAssumption
<1>2. DOMAIN file = DOMAIN Files0 /\ dirs = Dirs0 /\ \A p \in DOMAIN file : file[p] \in Content
  BY <1>1 DEF Init, Content
<1>3. Tree(file, dirs)
  BY <1>1, <1>2, NamesArePaths DEF Tree
<1>4. Serving
  BY DEF Init, Serving
<1>5. ASSUME NEW p \in DOMAIN Files0 PROVE p \in Path /\ IsDoc(p)
  <2>1. p \in Seq(Names)
    BY <1>1
  <2>2. p # <<>> => Last(p) \in Names
    BY <2>1 DEF Last
  <2> QED
    BY <2>1, <2>2, NamesArePaths, NamesAndHandlers DEF IsDoc, IsTemp
<1>6. \A h \in Handlers : req[h].kind = "put"
  BY DEF Init, NoRequest
<1> QED
  BY <1>2, <1>3, <1>4, <1>5, <1>6 DEF Init, Typed, TypeInv

LEMMA TypesKept == TypeInv /\ [Next]_vars => TypeInv'
<1> SUFFICES ASSUME TypeInv, [Next]_vars PROVE TypeInv'
  OBVIOUS
<1> USE DEF TypeInv
<1>1. ASSUME NEW h \in Handlers, NEW r \in Requests[h], Take(h, r) PROVE TypeInv'
  BY <1>1, ServingTake, TypedTake
<1>2. ASSUME NEW h \in Handlers, HandlerStep(h) PROVE TypeInv'
  BY <1>2, ServingStep, TypedStep
<1>3. CASE Crash
  <2>1. Serving'
    BY <1>3 DEF Crash, Serving
  <2>2. file' = file /\ dirs' = dirs /\ tomb' = tomb /\ ever' = ever
    BY <1>3 DEF Crash, tree
  <2>3. unsure' \subseteq Path /\ unweighed' \subseteq Path
    <3>1. /\ unsure' = unsure \cup UNION {Roots(req[h]) : h \in {g \in Handlers : pc[g] # "idle"}}
          /\ unweighed' \subseteq unweighed
      BY <1>3 DEF Crash, At, Trouble
    <3>2. ASSUME NEW h \in Handlers, pc[h] # "idle" PROVE Roots(req[h]) \subseteq Path
      BY <3>2, RootsAre
    <3> QED
      BY <3>1, <3>2 DEF Typed
  <2>4. \A h \in Handlers : req'[h].kind = "put"
    BY <1>3 DEF Crash, NoRequest
  <2>5. /\ inside' \in [Handlers -> SUBSET Path] /\ scan' \in [Handlers -> SUBSET Path]
        /\ wasDir' \in [Handlers -> BOOLEAN] /\ untold' \in [Handlers -> SUBSET Path]
        /\ steady' \in [Handlers -> SUBSET DOMAIN file'] /\ \A h \in Handlers : inside'[h] = {}
    BY <1>3 DEF Crash
  <2>6. /\ tomb' \subseteq Path /\ \A p \in DOMAIN file' : file'[p] \in Content
        /\ \A p \in ever' : p \in Path /\ IsDoc(p)
        /\ Tree(file', dirs')
    BY <2>2 DEF Typed
  <2>7. pc' = [h \in Handlers |-> pc'[h]]
    BY <1>3 DEF Crash
  <2> QED
    BY <2>1, <2>3, <2>4, <2>5, <2>6, <2>7 DEF Typed
<1>4. CASE UNCHANGED vars
  BY <1>4 DEF vars, tree, handling, history, changes, reckoned, Serving, Typed
<1> QED
  BY <1>1, <1>2, <1>3, <1>4 DEF Next

LEMMA TypesHold == Spec => []TypeInv
BY TypesBegin, TypesKept, PTL DEF Spec

\* Files and folders are a tree of which every folder is there, no path is both,
\* and each handler's record fits its request: what std::filesystem guarantees
\* and the handlers' local variables hold.
THEOREM TypeCorrect == Spec => []TypeOK
<1>1. ASSUME TypeInv PROVE TypeOK
  <2>1. /\ DOMAIN file \subseteq Path /\ dirs \subseteq Seq(Names) /\ <<>> \in dirs
        /\ DOMAIN file \cap dirs = {} /\ Tree(file, dirs)
    BY <1>1 DEF TypeInv, Typed, Tree
  <2>2. ASSUME NEW p \in DOMAIN file \cup (dirs \ {<<>>}) PROVE Front(p) \in dirs
    <3>1. p \in Path /\ p # <<>>
      BY <2>1, NamesArePaths
    <3>2. Front(p) \in Path /\ IsStrictPrefix(Front(p), p)
      BY <3>1, Folders
    <3> QED
      BY <2>1, <3>2, Above
  <2>3. ASSUME NEW h \in Handlers
        PROVE  pc[h] \in Phases /\ req[h] \in Requests[h] \cup {NoRequest}
    <3>1. CASE pc[h] = "idle"
      BY <1>1, <3>1 DEF TypeInv, Serving, Phases
    <3>2. CASE pc[h] # "idle"
      <4>1. req[h].kind \in Kinds /\ pc[h] \in PhasesOf[req[h].kind] /\ req[h] \in Requests[h]
        BY <1>1, <3>2, Asked DEF TypeInv, Serving
      <4>2. \A k \in Kinds : PhasesOf[k] \subseteq Phases
        BY DEF Kinds, PhasesOf, Phases, Writing
      <4> QED
        BY <4>1, <4>2
    <3> QED
      BY <3>1, <3>2
  <2>4. pc \in [Handlers -> Phases]
    BY <1>1, <2>3 DEF TypeInv, Typed
  <2>5. /\ \A p \in DOMAIN file : p \in Path /\ file[p] \in Content
        /\ \A p \in tomb : p \in Path
        /\ \A h \in Handlers : \A p \in inside[h] \cup scan[h] : p \in Path
        /\ wasDir \in [Handlers -> BOOLEAN]
        /\ \A h \in Handlers : steady[h] \subseteq DOMAIN file
        /\ \A p \in unsure \cup unweighed : p \in Path
    BY <1>1, <2>1 DEF TypeInv, Typed
  <2> QED
    BY <2>1, <2>2, <2>3, <2>4, <2>5 DEF TypeOK
<1> QED
  BY <1>1, TypesHold, PTL

----------------------------------------------------------------------------
(* Listings *)

\* A document that has stayed in its place since the walk began is listed, or is in
\* a folder that is still due.
ListingInv ==
    \A h \in Handlers : pc[h] = "walk" =>
        \A p \in steady[h] : p \in inside[h] \/ \E d \in scan[h] : IsStrictPrefix(d, p)

\* One folder is read.
LEMMA FolderRead ==
  ASSUME Tree(file, dirs), NEW p \in DOMAIN file, NEW d \in dirs, IsStrictPrefix(d, p)
  PROVE  \/ Front(p) = d
         \/ \E e \in dirs : e # <<>> /\ Front(e) = d /\ IsStrictPrefix(e, p)
<1>1. p \in Path /\ d \in Path /\ dirs \subseteq Path
  BY NamesArePaths DEF Tree
<1>2. Len(d) \in 0..(Len(p) - 1) /\ Len(p) \in Nat /\ Len(d) \in Nat /\ d = SubSeq(p, 1, Len(d))
  BY <1>1, PrefixIsBeginning, PrefixElements DEF IsStrictPrefix
<1> DEFINE n == Len(d) + 1
<1>3. n \in 1..Len(p) /\ n \in Nat /\ n - 1 = Len(d)
  BY <1>2
<1>4. p # <<>>
  BY <1>2
<1>5. CASE n = Len(p)
  <2>1. Front(p) = SubSeq(p, 1, Len(p) - 1)
    BY DEF Front
  <2> QED
    BY <1>2, <1>3, <1>5, <2>1
<1>6. CASE n < Len(p)
  <2> DEFINE e == SubSeq(p, 1, n)
  <2> HIDE DEF n
  <2>1. e \in Path /\ IsStrictPrefix(e, p) /\ Len(e) = n /\ \A i \in 1..n : e[i] = p[i]
    BY <1>1, <1>3, <1>6, PrefixIsBeginning, Beginnings DEF Path
  <2>2. e \in dirs
    BY <1>1, <2>1, Above
  <2> HIDE DEF e
  <2>3. e # <<>>
    BY <1>3, <2>1
  <2>4. Front(e) = SubSeq(e, 1, Len(d))
    BY <1>3, <2>1 DEF Front
  <2>5. /\ SubSeq(e, 1, Len(d)) \in Path /\ Len(SubSeq(e, 1, Len(d))) = Len(d)
        /\ \A i \in 1..Len(d) : SubSeq(e, 1, Len(d))[i] = e[i]
    <3>1. Len(d) \in 0..Len(e)
      BY <1>2, <1>3, <2>1
    <3> QED
      BY <2>1, <3>1, Beginnings DEF Path
  <2>6. IsPrefix(d, p) /\ \A i \in 1..Len(d) : d[i] = p[i]
    BY <1>1, PrefixElements DEF IsStrictPrefix
  <2>7. \A i \in 1..Len(d) : i \in 1..n
    BY <1>2, <1>3
  <2>8. SubSeq(e, 1, Len(d)) = d
    BY <1>1, <2>1, <2>5, <2>6, <2>7, PathEqual
  <2> QED
    BY <2>1, <2>2, <2>3, <2>4, <2>8
<1> QED
  BY <1>3, <1>5, <1>6

LEMMA ListingsBegin == Init => ListingInv
BY DEF Init, ListingInv

LEMMA ListingsKept == TypeInv /\ TypeInv' /\ ListingInv /\ [Next]_vars => ListingInv'
<1> SUFFICES ASSUME TypeInv, TypeInv', ListingInv, [Next]_vars,
                    NEW h \in Handlers, pc'[h] = "walk", NEW p \in steady'[h]
             PROVE  p \in inside'[h] \/ \E d \in scan'[h] : IsStrictPrefix(d, p)
  BY DEF ListingInv
<1>1. Serving /\ Typed /\ Tree(file, dirs) /\ DOMAIN file \subseteq Path /\ dirs \subseteq Path
  BY NamesArePaths DEF TypeInv, Typed, Tree
<1>2. ASSUME pc[h] = "walk", p \in steady[h], inside'[h] = inside[h], scan'[h] = scan[h]
      PROVE  p \in inside'[h] \/ \E d \in scan'[h] : IsStrictPrefix(d, p)
  BY <1>2 DEF ListingInv
<1>3. ASSUME NEW g \in Handlers, NEW r \in Requests[g], Take(g, r)
      PROVE  p \in inside'[h] \/ \E d \in scan'[h] : IsStrictPrefix(d, p)
  <2>1. CASE g = h
    <3>1. r.kind \in Kinds
      BY WorkspaceAssumption DEF WorkspaceAssumption, Request
    <3>2. r.kind = "list"
      BY <1>1, <1>3, <2>1, <3>1 DEF Take, Goto, Serving, FirstPhase, Kinds
    <3>3. scan'[h] = {<<>>} /\ p \in DOMAIN file
      BY <1>1, <1>3, <2>1, <3>2 DEF Take, Typed
    <3>4. p # <<>> /\ p \in Path
      BY <1>1, <3>3 DEF Tree
    <3>5. IsStrictPrefix(<<>>, p)
      BY <3>4, PrefixOrder DEF IsStrictPrefix
    <3> QED
      BY <3>3, <3>5
  <2>2. CASE g # h
    <3>1. pc'[h] = pc[h] /\ inside'[h] = inside[h] /\ scan'[h] = scan[h] /\ steady'[h] = steady[h]
      BY <1>1, <1>3, <2>2 DEF Take, Goto, Serving, Typed
    <3> QED
      BY <1>2, <3>1
  <2> QED
    BY <2>1, <2>2
<1>4. ASSUME NEW g \in Handlers, HandlerStep(g)
      PROVE  p \in inside'[h] \/ \E d \in scan'[h] : IsStrictPrefix(d, p)
  <2>1. p \in steady[h] /\ p \in DOMAIN file
    <3>1. Changes(g)
      BY <1>1, <1>4, TreeKept
    <3>2. Follows => p \in steady[h]
      BY <1>1 DEF Follows, Typed
    <3>3. p \in steady[h]
      BY <3>1, <3>2 DEF Changes, Keeps, Makes, Opens, Fills, Drops, Puts, Removes, Renames
    <3> QED
      BY <1>1, <3>3 DEF Typed
  <2>2. CASE g # h
    <3>1. pc'[h] = pc[h] /\ inside'[h] = inside[h] /\ scan'[h] = scan[h]
      BY <1>1, <1>4, <2>2, OthersStay
    <3> QED
      BY <1>2, <2>1, <3>1
  <2>3. CASE g = h
    <3>1. Serving' /\ pc[h] # "idle"
      BY <1>1, <1>4, <2>3, ServingStep
    <3>2. pc[h] = "walk"
      <4>1. ~Walk(h) /\ ~Listed(h) => pc'[h] # "walk"
        BY <1>1, <1>4, <2>3 DEF HandlerStep, Serving, Step, Goto, Done, At, Refused, Exists,
           CheckQuota, CountTorn, Parents, OpenTemp, FillTemp, FillFails, DropTemp, Replace, Put,
           RemoveTarget, ReplaceAgain, ClearTombstone, RemoveOne, Collect, RemoveAll, RemoveEntry,
           Look, Rename, Record, ClearDest, Recorded, Folder, Notify
      <4> QED
        BY <4>1 DEF Walk, Listed, At
    <3>3. Walk(h)
      BY <1>1, <1>4, <2>3, <3>2 DEF HandlerStep, Serving, Done, At, Refused, Exists, CheckQuota,
         CountTorn, Parents, OpenTemp, FillTemp, FillFails, DropTemp, Replace, RemoveTarget,
         ReplaceAgain, ClearTombstone, RemoveOne, Collect, RemoveAll, RemoveEntry, Look, Rename,
         Record, ClearDest, Recorded, Folder, Notify, Listed
    <3>4. ~Done(h)
      BY <1>1 DEF Done, Serving
    <3>5. PICK d \in scan[h] :
              /\ d \in dirs
              /\ scan' = [scan EXCEPT ![h] = (@ \ {d}) \cup {e \in dirs : e # <<>> /\ Front(e) = d}]
              /\ inside' = [inside EXCEPT ![h] = @ \cup {q \in DOMAIN file : Front(q) = d}]
      BY <3>3, <3>4 DEF Walk
    <3>6. /\ scan'[h] = (scan[h] \ {d}) \cup {e \in dirs : e # <<>> /\ Front(e) = d}
          /\ inside'[h] = inside[h] \cup {q \in DOMAIN file : Front(q) = d}
      BY <1>1, <3>5 DEF Typed
    <3>7. CASE p \in inside[h]
      BY <3>6, <3>7
    <3>8. ASSUME NEW c \in scan[h], IsStrictPrefix(c, p), c # d
          PROVE  p \in inside'[h] \/ \E e \in scan'[h] : IsStrictPrefix(e, p)
      BY <3>6, <3>8
    <3>9. CASE IsStrictPrefix(d, p)
      <4>1. Front(p) = d \/ \E e \in dirs : e # <<>> /\ Front(e) = d /\ IsStrictPrefix(e, p)
        BY <1>1, <2>1, <3>5, <3>9, FolderRead
      <4> QED
        BY <2>1, <3>6, <4>1
    <3> QED
      BY <2>1, <3>2, <3>7, <3>8, <3>9 DEF ListingInv
  <2> QED
    BY <2>2, <2>3
<1>5. ASSUME Crash \/ UNCHANGED vars
      PROVE  p \in inside'[h] \/ \E d \in scan'[h] : IsStrictPrefix(d, p)
  BY <1>2, <1>5 DEF Crash, vars, handling, history, changes
<1> QED
  BY <1>3, <1>4, <1>5 DEF Next

\* A document that stays where it is is in every listing that is answered, whatever
\* else is changed during the walk (fWalkWorkDir).
THEOREM ListingsAreComplete == Spec => []ListingsComplete
<1>1. TypeInv /\ ListingInv => ListingsComplete
  BY DEF ListingInv, ListingsComplete, At
<1> QED
  BY <1>1, TypesHold, ListingsBegin, ListingsKept, PTL DEF Spec

----------------------------------------------------------------------------
(* Documents are whole *)

\* A handler's temporary file is what it is to be, wherever it has got to, once it
\* is filled and until it is in place.
Written(h) == [size |-> req[h].size, whole |-> TRUE]
TempsFilled(f) ==
    \A h \in Handlers : pc[h] \in Filled =>
        \A p \in DOMAIN f : p # <<>> /\ Last(p) = h => f[p] = Written(h)

\* The documents of a tree are whole.
AllWhole(f) == \A p \in DOMAIN f : IsDoc(p) => f[p].whole

WholeInv == TempsFilled(file) /\ AllWhole(file)

\* Renaming a whole file, or a folder, to a name of a document keeps the rest.
LEMMA RenamingKeeps ==
  ASSUME TypeInv, WholeInv, NEW a \in Path, NEW b \in Path, b # <<>>, Last(b) \in Names,
         a \in DOMAIN file => file[a].whole
  PROVE  AllWhole(Renamed(a, b)) /\ TempsFilled(Renamed(a, b))
<1>1. DOMAIN file \subseteq Path
  BY DEF TypeInv, Typed, Tree
<1>2. ASSUME NEW r \in DOMAIN Renamed(a, b)
      PROVE  /\ IsDoc(r) => Renamed(a, b)[r].whole
             /\ \A h \in Handlers :
                    pc[h] \in Filled /\ r # <<>> /\ Last(r) = h => Renamed(a, b)[r] = Written(h)
  <2>1. PICK q \in DOMAIN file :
                /\ Renamed(a, b)[r] = file[q]
                /\ \/ r = q
                   \/ q = a /\ r = b
                   \/ q # <<>> /\ r # <<>> /\ Last(r) = Last(q)
    BY <1>1, <1>2, RenamedFiles
  <2>2. CASE q = a /\ r = b
    BY <2>1, <2>2, NamesAndHandlers
  <2>3. CASE \/ r = q
             \/ q # <<>> /\ r # <<>> /\ Last(r) = Last(q)
    BY <2>1, <2>3 DEF WholeInv, AllWhole, TempsFilled, IsDoc, IsTemp
  <2> QED
    BY <2>1, <2>2, <2>3
<1> QED
  BY <1>2 DEF AllWhole, TempsFilled

\* So does removing a file.
LEMMA RemovingKeeps ==
  ASSUME WholeInv, NEW p
  PROVE  AllWhole(Without(p)) /\ TempsFilled(Without(p))
BY DEF WholeInv, Without, AllWhole, TempsFilled

\* What a handler puts in place is whole.
LEMMA PuttingKeeps ==
  ASSUME TypeInv, WholeInv, NEW h \in Handlers, pc[h] \in Filled, req[h].kind # "list"
  PROVE  AllWhole(Renamed(Temp(h), req[h].path)) /\ TempsFilled(Renamed(Temp(h), req[h].path))
<1>1. /\ Temp(h) \in Path /\ Temp(h) # <<>> /\ Last(Temp(h)) = h
      /\ req[h].path \in Path /\ req[h].path # <<>> /\ Last(req[h].path) \in Names
  <2>1. pc[h] # "idle"
    BY DEF Filled
  <2> QED
    BY <2>1, TempIsOwn DEF TypeInv
<1>2. Temp(h) \in DOMAIN file => file[Temp(h)].whole
  BY <1>1 DEF WholeInv, TempsFilled, Written
<1> QED
  BY <1>1, <1>2, RenamingKeeps

\* The files a step leaves are in order as far as the handlers had got before it.
LEMMA FilesKeep ==
  ASSUME TypeInv, WholeInv, NEW h \in Handlers, pc[h] # "idle", Changes(h)
  PROVE  AllWhole(file') /\ TempsFilled(file')
<1>1. AllWhole(file) /\ TempsFilled(file)
  BY DEF WholeInv
<1>2. Writes(req[h]) => req[h].kind # "list"
  BY DEF Writes
<1>3. CASE Keeps \/ Makes(h)
  BY <1>1, <1>3 DEF Keeps, Makes
<1>4. CASE Opens(h)
  <2>1. Temp(h) # <<>> /\ Last(Temp(h)) = h
    BY <1>2, <1>4, TempIsOwn DEF Opens, TypeInv
  <2>2. pc[h] \notin Filled
    BY <1>4 DEF Opens, Filled
  <2>3. \A p \in DOMAIN file' \ {Temp(h)} : p \in DOMAIN file /\ file'[p] = file[p]
    BY <1>4 DEF Opens, With
  <2> QED
    BY <1>1, <2>1, <2>2, <2>3 DEF AllWhole, TempsFilled, IsDoc, IsTemp
<1>5. CASE Fills(h)
  <2>1. /\ DOMAIN file' = DOMAIN file
        /\ \A p \in DOMAIN file : IF p # <<>> /\ Last(p) = h THEN file'[p] = Written(h)
                                  ELSE file'[p] = file[p]
    BY <1>5 DEF Fills, IsTemp, Written
  <2>2. AllWhole(file')
    BY <1>1, <2>1 DEF AllWhole, Written
  <2> QED
    BY <1>1, <2>1, <2>2 DEF TempsFilled
<1>6. CASE Drops(h) \/ \E p \in {req[h].path} \cup scan[h] : Removes(h, p)
  BY <1>6, RemovingKeeps DEF Drops, Removes
<1>7. CASE Puts(h)
  BY <1>2, <1>7, PuttingKeeps DEF Puts, Filled
<1>8. CASE Renames(h)
  <2>1. /\ req[h].path \in Seq(Names) /\ req[h].to \in Seq(Names) /\ req[h].path # <<>> /\ req[h].to # <<>>
        /\ req[h].path \in Path /\ req[h].to \in Path
    BY <1>8, Asked DEF Renames, TypeInv
  <2>2. Last(req[h].path) \in Names /\ Last(req[h].to) \in Names
    BY <2>1 DEF Last
  <2>3. req[h].path \in DOMAIN file => file[req[h].path].whole
    BY <1>1, <2>2, NamesAndHandlers DEF AllWhole, IsDoc, IsTemp
  <2> QED
    BY <1>8, <2>1, <2>2, <2>3, RenamingKeeps DEF Renames
<1> QED
  BY <1>3, <1>4, <1>5, <1>6, <1>7, <1>8 DEF Changes

\* Documents stay whole.
LEMMA WholeKept == TypeInv /\ WholeInv /\ [Next]_vars => WholeInv'
<1> SUFFICES ASSUME TypeInv, WholeInv, [Next]_vars PROVE WholeInv'
  OBVIOUS
<1>1. Serving /\ Typed /\ DOMAIN pc = Handlers
  BY DEF TypeInv, Serving
<1>2. ASSUME NEW h \in Handlers, HandlerStep(h) PROVE WholeInv'
  <2>1. AllWhole(file') /\ TempsFilled(file')
    BY <1>1, <1>2, FilesKeep, TreeKept
  <2>2. \A g \in Handlers \ {h} : pc'[g] = pc[g]
    BY <1>1, <1>2, OthersStay
  <2>5. \A g \in Handlers : pc'[g] \in Filled => Written(g)' = Written(g)
    <3>1. \A g \in Handlers : pc'[g] # "idle" => req'[g] = req[g]
      BY <1>1, <1>2, RequestSteps
    <3> QED
      BY <3>1 DEF Filled, Written
  <2>3. CASE FillTemp(h)
    <3>1. \A p \in DOMAIN file' : p # <<>> /\ Last(p) = h => file'[p] = Written(h)
      BY <2>3 DEF FillTemp, SetTree, IsTemp, Written
    <3> QED
      BY <2>1, <2>2, <2>5, <3>1 DEF WholeInv, AllWhole, TempsFilled
  <2>4. CASE ~FillTemp(h)
    <3>1. pc'[h] \in Filled => pc[h] \in Filled
      BY <1>1, <1>2, <2>4 DEF HandlerStep, Step, Goto, Done, At, Filled, Refused, Exists,
         CheckQuota, CountTorn, Parents, OpenTemp, FillFails, DropTemp, Replace, Put, RemoveTarget,
         ReplaceAgain, ClearTombstone, RemoveOne, Collect, RemoveAll, RemoveEntry, Look, Rename,
         Record, ClearDest, Recorded, Folder, Notify, Walk, Listed
    <3> QED
      BY <2>1, <2>2, <2>5, <3>1 DEF WholeInv, AllWhole, TempsFilled
  <2> QED
    BY <2>3, <2>4
<1>3. ASSUME NEW h \in Handlers, NEW r \in Requests[h], Take(h, r) PROVE WholeInv'
  <2>1. file' = file /\ pc' = [pc EXCEPT ![h] = FirstPhase[r.kind]] /\ r.kind \in Kinds
    BY <1>3, WorkspaceAssumption DEF WorkspaceAssumption, Request, Take, Goto, tree
  <2>2. FirstPhase[r.kind] \notin Filled
    BY <2>1 DEF FirstPhase, Kinds, Filled
  <2>3. \A g \in Handlers \ {h} : req'[g] = req[g]
    BY <1>1, <1>3 DEF Take, Serving
  <2> QED
    BY <1>1, <2>1, <2>2, <2>3 DEF WholeInv, AllWhole, TempsFilled, Written
<1>4. CASE Crash
  BY <1>4 DEF Crash, tree, WholeInv, AllWhole, TempsFilled, Filled
<1>5. CASE UNCHANGED vars
  BY <1>5 DEF vars, tree, handling, WholeInv, AllWhole, TempsFilled, Written
<1> QED
  BY <1>2, <1>3, <1>4, <1>5 DEF Next

LEMMA WholeBegins == Init => WholeInv
BY DEF Init, WholeInv, AllWhole, TempsFilled, Filled

\* No document is ever half written, whatever else is written, moved or removed
\* at the same time and wherever the process dies (fWriteFileAtomic).
THEOREM NoneHalfWritten == Spec => []DocumentsWhole
<1>1. WholeInv => DocumentsWhole
  BY DEF WholeInv, AllWhole, DocumentsWhole
<1> QED
  BY <1>1, TypesHold, WholeBegins, WholeKept, PTL DEF Spec

----------------------------------------------------------------------------
(* Requests that have met *)

Active(h) == pc[h] # "idle"

\* Where two requests have met, both places are unsure.
ClashInv ==
    \A g, h \in Handlers :
        g # h /\ Active(g) /\ Active(h) /\ Clash(req[g], req[h]) => Roots(req[h]) \subseteq unsure

\* Who clashes with a request is clashed with by it.
LEMMA ClashSymmetric ==
  ASSUME NEW r, NEW s
  PROVE  Clash(r, s) <=> Clash(s, r)
BY DEF Clash

\* What is unsure stays unsure.
LEMMA UnsureGrows == [Next]_vars => unsure \subseteq unsure'
<1> SUFFICES ASSUME [Next]_vars PROVE unsure \subseteq unsure'
  OBVIOUS
<1>0. /\ \A paths : Mishap(paths) \/ Trouble(paths) => unsure \subseteq unsure'
      /\ UNCHANGED reckoned \/ UNCHANGED history \/ UNCHANGED unsure => unsure \subseteq unsure'
  BY DEF Mishap, Trouble, reckoned, history
<1>1. ASSUME NEW h \in Handlers, HandlerStep(h) PROVE unsure \subseteq unsure'
  <2>1. CASE CountTorn(h) \/ Collect(h) \/ ClearTombstone(h) \/ Record(h) \/ ClearDest(h) \/ FillFails(h)
             \/ ReplaceAgain(h) \/ RemoveEntry(h)
    BY <1>0, <2>1 DEF CountTorn, Collect, ClearTombstone, Record, ClearDest, Swallowed, FillFails,
       DropTemp, ReplaceAgain, RemoveEntry
  <2>2. CASE Refused(h) \/ Exists(h) \/ CheckQuota(h) \/ Parents(h) \/ OpenTemp(h) \/ FillTemp(h)
             \/ Replace(h) \/ RemoveTarget(h) \/ RemoveOne(h) \/ RemoveAll(h) \/ Look(h) \/ Rename(h)
             \/ Recorded(h) \/ Folder(h) \/ Notify(h) \/ Walk(h) \/ Listed(h)
    BY <1>0, <2>2 DEF Refused, Exists, CheckQuota, Parents, OpenTemp, FillTemp, Replace, RemoveTarget,
       RemoveOne, RemoveAll, Look, Rename, Recorded, Folder, Notify, Walk, Listed
  <2> QED
    BY <1>1, <2>1, <2>2 DEF HandlerStep
<1>2. ASSUME NEW h \in Handlers, NEW r \in Requests[h], Take(h, r) PROVE unsure \subseteq unsure'
  BY <1>0, <1>2 DEF Take
<1>3. CASE Crash
  BY <1>0, <1>3 DEF Crash
<1>4. CASE UNCHANGED vars
  BY <1>0, <1>4 DEF vars
<1> QED
  BY <1>1, <1>2, <1>3, <1>4 DEF Next

LEMMA ClashesKept == TypeInv /\ ClashInv /\ [Next]_vars => ClashInv'
<1> SUFFICES ASSUME TypeInv, ClashInv, [Next]_vars,
                    NEW g \in Handlers, NEW h \in Handlers, g # h,
                    pc'[g] # "idle", pc'[h] # "idle", Clash(req'[g], req'[h])
             PROVE  Roots(req'[h]) \subseteq unsure'
  BY DEF ClashInv, Active
<1>0. unsure \subseteq unsure' /\ Serving /\ Typed /\ DOMAIN req = Handlers /\ DOMAIN pc = Handlers
  BY UnsureGrows DEF TypeInv, Serving
<1>1. ASSUME req'[g] = req[g], req'[h] = req[h], pc[g] # "idle", pc[h] # "idle"
      PROVE  Roots(req'[h]) \subseteq unsure'
  BY <1>0, <1>1 DEF ClashInv, Active
<1>2. ASSUME NEW f \in Handlers, HandlerStep(f) PROVE Roots(req'[h]) \subseteq unsure'
  BY <1>0, <1>1, <1>2, RequestSteps
<1>3. ASSUME NEW f \in Handlers, NEW r \in Requests[f], Take(f, r) PROVE Roots(req'[h]) \subseteq unsure'
  <2>1. \A e \in Handlers : req'[e] = (IF e = f THEN r ELSE req[e])
    BY <1>0, <1>3 DEF Take
  <2>2. \A e \in Handlers \ {f} : pc'[e] = pc[e]
    BY <1>0, <1>3 DEF Take, Goto
  <2> DEFINE met == {e \in Handlers : pc[e] # "idle" /\ Clash(r, req[e])}
  <2>3. met # {} => unsure' = unsure \cup Roots(r) \cup UNION {Roots(req[e]) : e \in met}
    BY <1>3 DEF Take, At, Trouble
  <2>4. CASE f = h
    <3>1. g \in met
      BY <2>1, <2>2, <2>4, ClashSymmetric
    <3> QED
      BY <2>1, <2>3, <2>4, <3>1
  <2>5. CASE f = g
    <3>1. h \in met
      BY <2>1, <2>2, <2>5
    <3> QED
      BY <2>1, <2>3, <2>5, <3>1
  <2>6. CASE f # g /\ f # h
    BY <1>1, <2>1, <2>2, <2>6
  <2> QED
    BY <2>4, <2>5, <2>6
<1>4. CASE Crash
  BY <1>4 DEF Crash
<1>5. CASE UNCHANGED vars
  BY <1>1, <1>5 DEF vars, handling
<1> QED
  BY <1>2, <1>3, <1>4, <1>5 DEF Next

LEMMA ClashesBegin == Init => ClashInv
BY DEF Init, ClashInv, Active

\* Two requests that have not met do not touch each other's places, but for two
\* writes of one file.
LEMMA Apart ==
  ASSUME Serving, NEW g \in Handlers, NEW h \in Handlers, pc[g] # "idle", pc[h] # "idle",
         ~Clash(req[g], req[h]), NEW root \in Roots(req[h]), NEW q \in Path,
         Touches(g, q), IsPrefix(root, q)
  PROVE  Writes(req[g]) /\ Writes(req[h]) /\ q = req[g].path /\ q = root
<1>1. root \in Seq(Names) /\ root \in Path
  BY RootsAre
<1>2. \A other \in Roots(req[g]) : other \in Path /\ other \in Seq(Names)
  BY RootsAre
<1>3. \A other \in Roots(req[g]) :
          IsPrefix(root, other) \/ IsPrefix(other, root) =>
              Writes(req[g]) /\ Writes(req[h]) /\ other = root
  BY DEF Clash
<1>4. CASE Writes(req[g]) /\ q \in {Temp(g), req[g].path}
  <2>1. req[g].kind # "list" /\ req[g].path \in Roots(req[g])
    BY <1>4, RootsAre DEF Writes
  <2>2. CASE q = Temp(g)
    <3>1. IsPrefix(root, req[g].path) /\ root # req[g].path
      BY <1>1, <2>1, <2>2, AboveTemp
    <3> QED
      BY <1>3, <2>1, <3>1
  <2>3. CASE q = req[g].path
    BY <1>3, <2>1, <2>3
  <2> QED
    BY <1>4, <2>2, <2>3
<1>5. ASSUME NEW other \in Roots(req[g]), IsPrefix(q, other), Writes(req[g]) => q # other
      PROVE  FALSE
  <2>1. IsPrefix(root, other)
    BY <1>1, <1>2, <1>5, PrefixOrder
  <2>2. Writes(req[g]) /\ other = root
    BY <1>3, <2>1
  <2>3. q = root
    BY <1>1, <1>5, <2>2, PrefixOrder
  <2> QED
    BY <1>5, <2>2, <2>3
<1>6. ASSUME ~Writes(req[g]), NEW other \in Roots(req[g]), IsPrefix(other, q) PROVE FALSE
  <2>1. IsPrefix(root, other) \/ IsPrefix(other, root)
    BY <1>1, <1>2, <1>6, PrefixOrder
  <2> QED
    BY <1>3, <1>6, <2>1
<1> QED
  BY <1>4, <1>5, <1>6 DEF Touches

\* Nor does one touch the temporary file of the other.
LEMMA TempApart ==
  ASSUME Serving, NEW g \in Handlers, NEW h \in Handlers, g # h, pc[g] # "idle", pc[h] # "idle",
         ~Clash(req[g], req[h]), Writes(req[h])
  PROVE  ~Touches(g, Temp(h))
<1>1. /\ req[h].kind # "list" /\ Temp(h) \in Path /\ Last(Temp(h)) = h /\ Temp(h) \notin Seq(Names)
      /\ req[h].path \in Roots(req[h])
      /\ \A a \in Seq(Names) : IsPrefix(a, Temp(h)) => IsPrefix(a, req[h].path) /\ a # req[h].path
  <2>1. req[h].kind # "list"
    BY DEF Writes
  <2> QED
    BY <2>1, TempIsOwn, AboveTemp, RootsAre
<1>2. \A other \in Roots(req[g]) : other \in Path /\ other \in Seq(Names)
  BY RootsAre
<1>3. ASSUME Writes(req[g]), Temp(h) \in {Temp(g), req[g].path} PROVE FALSE
  <2>1. req[g].kind # "list" /\ req[g].path \in Roots(req[g])
    BY <1>3, RootsAre DEF Writes
  <2>2. Last(Temp(g)) = g
    BY <2>1, TempIsOwn
  <2> QED
    BY <1>1, <1>2, <1>3, <2>1, <2>2
<1>4. ASSUME NEW other \in Roots(req[g]), IsPrefix(Temp(h), other) PROVE FALSE
  <2>1. Temp(h) = SubSeq(other, 1, Len(Temp(h))) /\ Len(Temp(h)) \in 0..Len(other)
    BY <1>1, <1>2, <1>4, PrefixIsBeginning
  <2>2. Temp(h) \in Seq(Names)
    BY <1>2, <2>1, Beginnings
  <2> QED
    BY <1>1, <2>2
<1>5. ASSUME ~Writes(req[g]), NEW other \in Roots(req[g]), IsPrefix(other, Temp(h)) PROVE FALSE
  BY <1>1, <1>2, <1>5 DEF Clash
<1> QED
  BY <1>3, <1>4, <1>5 DEF Touches

----------------------------------------------------------------------------
(* Temporary files *)

\* A write goes on with its temporary file in place, or ends without it.
LEMMA WriterSteps ==
  ASSUME Serving, Typed, NEW h \in Handlers, HandlerStep(h),
         pc[h] \in {"fill", "replace", "fallback", "again"}
  PROVE  \/ pc'[h] \in {"fill", "replace", "fallback", "again"} /\ req'[h] = req[h]
         \/ Temp(h) \notin DOMAIN file'
         \/ unsure' # {}
<1>1. DOMAIN pc = Handlers
  BY DEF Serving
<1>7. DropTemp(h) => Temp(h) \notin DOMAIN file' \/ unsure' # {}
  <2>1. Roots(req[h]) # {}
    BY KindAt DEF Writing, Writes, Roots
  <2> QED
    BY <2>1 DEF DropTemp, SetTree, Without, Mishap, Trouble
<1>2. CASE FillTemp(h) \/ RemoveTarget(h)
  BY <1>1, <1>2 DEF FillTemp, RemoveTarget, Step, Goto
<1>3. CASE FillFails(h)
  BY <1>3, <1>7 DEF FillFails
<1>4. ASSUME Put(h) PROVE Temp(h) \notin DOMAIN file'
  <2>1. pc[h] # "idle" /\ Changes(h)
    BY TreeKept
  <2>2. Writes(req[h]) /\ req[h].kind # "list"
    BY <2>1, KindAt DEF Writing, Writes
  <2>3. Temp(h) \in Path /\ req[h].path \in Path /\ req[h].path \in Seq(Names) /\ Temp(h) \notin Seq(Names)
    BY <2>1, <2>2, TempIsOwn, AboveTemp, Asked
  <2>4. CanRename(Temp(h), req[h].path) /\ file' = Renamed(Temp(h), req[h].path) /\ Tree(file, dirs)
    BY <1>4 DEF Put, SetTree, Typed
  <2>5. Temp(h) \in DOMAIN file
    BY <2>3, <2>4 DEF CanRename, Tree
  <2>6. DOMAIN file' = (DOMAIN file \ {Temp(h)}) \cup {req[h].path}
    BY <2>3, <2>4, <2>5, FileRenamed
  <2> QED
    BY <2>3, <2>6
<1>5. CASE Replace(h)
  BY <1>1, <1>4, <1>5 DEF Replace, Step, Goto
<1>6. CASE ReplaceAgain(h)
  BY <1>4, <1>6, <1>7 DEF ReplaceAgain, SetTree, Without
<1> QED
  BY <1>2, <1>3, <1>5, <1>6 DEF HandlerStep, At, Refused, Exists, CheckQuota, CountTorn, Parents,
     OpenTemp, ClearTombstone, RemoveOne, Collect, RemoveAll, RemoveEntry, Look, Rename, Record,
     ClearDest, Recorded, Folder, Notify, Walk, Listed

\* What a step adds to the files.
LEMMA NewFiles ==
  ASSUME Serving, Typed, NEW h \in Handlers, HandlerStep(h), NEW p \in DOMAIN file', p \notin DOMAIN file
  PROVE  \/ Opens(h) /\ p = Temp(h)
         \/ Puts(h) /\ p = req[h].path /\ IsDoc(p)
         \/ /\ Renames(h)
            /\ \E q \in DOMAIN file : /\ IsPrefix(req[h].path, q) /\ p = Moved(req[h].path, req[h].to, q)
                                      /\ IsTemp(p) => IsTemp(q) /\ Last(p) = Last(q) /\ q # req[h].path
<1>1. pc[h] # "idle" /\ Changes(h) /\ Tree(file, dirs) /\ DOMAIN file \subseteq Path
  BY TreeKept DEF Typed, Tree
<1>2. \A c \in Seq(Names) : IsDoc(c)
  <2>1. \A c \in Seq(Names) : c # <<>> => Last(c) \in Names
    BY DEF Last
  <2> QED
    BY <2>1, NamesAndHandlers DEF IsDoc, IsTemp
<1>3. CASE Keeps \/ Makes(h) \/ Fills(h) \/ Drops(h) \/ \E r \in {req[h].path} \cup scan[h] : Removes(h, r)
  BY <1>3 DEF Keeps, Makes, Fills, Drops, Removes, Without
<1>4. CASE Opens(h)
  BY <1>4 DEF Opens, With
<1>5. CASE Puts(h)
  BY <1>1, <1>2, <1>5, PutsFile, Asked
<1>6. CASE Renames(h)
  <2>1. PICK q \in DOMAIN file : IsPrefix(req[h].path, q) /\ p = Moved(req[h].path, req[h].to, q)
    BY <1>1, <1>6, RenamesEntry
  <2>2. /\ q \in Seq(Names \cup Handlers) /\ req[h].path \in Seq(Names \cup Handlers)
        /\ req[h].to \in Seq(Names \cup Handlers)
    BY <1>1, Asked DEF Path
  <2>3. /\ q = req[h].path => p = req[h].to
        /\ q # req[h].path => q # <<>> /\ p # <<>> /\ Last(p) = Last(q)
    BY <2>1, <2>2, MovedBack
  <2>4. IsDoc(req[h].to)
    BY <1>1, <1>2, Asked
  <2>5. IsTemp(p) => IsTemp(q) /\ Last(p) = Last(q) /\ q # req[h].path
    BY <2>3, <2>4 DEF IsTemp, IsDoc
  <2> QED
    BY <1>6, <2>1, <2>5
<1> QED
  BY <1>1, <1>3, <1>4, <1>5, <1>6 DEF Changes

LEMMA TempsBegin == Init => TempsHaveWriters
<1> SUFFICES ASSUME Init, NEW p \in DOMAIN file PROVE ~IsTemp(p)
  BY DEF TempsHaveWriters
<1>1. p \in Seq(Names)
  BY WorkspaceAssumption DEF WorkspaceAssumption, Init
<1>2. p # <<>> => Last(p) \in Names
  BY <1>1 DEF Last
<1> QED
  BY <1>2, NamesAndHandlers DEF IsTemp

LEMMA TempsKept == TypeInv /\ TypeInv' /\ ClashInv /\ TempsHaveWriters /\ [Next]_vars => TempsHaveWriters'
<1> SUFFICES ASSUME TypeInv, TypeInv', ClashInv, TempsHaveWriters, [Next]_vars, unsure' = {},
                    NEW p \in DOMAIN file', IsTemp(p)
             PROVE  /\ pc'[Last(p)] \in {"fill", "replace", "fallback", "again"}
                    /\ p = Append(Front(req'[Last(p)].path), Last(p))
  BY DEF TempsHaveWriters, Untroubled, Temp
<1>0. unsure = {}
  BY UnsureGrows
<1>1. /\ Serving /\ Typed /\ DOMAIN pc = Handlers /\ DOMAIN req = Handlers
      /\ Last(p) \in Handlers /\ DOMAIN file \subseteq Path
  BY DEF TypeInv, Typed, Serving, Tree, IsTemp
<1>2. \A q \in DOMAIN file : IsTemp(q) =>
          pc[Last(q)] \in {"fill", "replace", "fallback", "again"} /\ q = Temp(Last(q))
  BY <1>0 DEF TempsHaveWriters, Untroubled
<1>3. ASSUME p \in DOMAIN file, pc'[Last(p)] = pc[Last(p)], req'[Last(p)] = req[Last(p)]
      PROVE  /\ pc'[Last(p)] \in {"fill", "replace", "fallback", "again"}
             /\ p = Append(Front(req'[Last(p)].path), Last(p))
  BY <1>2, <1>3 DEF Temp
<1>4. ASSUME NEW h \in Handlers, HandlerStep(h)
      PROVE  /\ pc'[Last(p)] \in {"fill", "replace", "fallback", "again"}
             /\ p = Append(Front(req'[Last(p)].path), Last(p))
  <2>1. CASE p \in DOMAIN file /\ Last(p) # h
    BY <1>1, <1>3, <1>4, <2>1, OthersStay
  <2>2. CASE p \in DOMAIN file /\ Last(p) = h
    <3>1. pc[h] \in {"fill", "replace", "fallback", "again"} /\ p = Temp(h)
      BY <1>2, <2>2
    <3>2. pc'[h] \in {"fill", "replace", "fallback", "again"} /\ req'[h] = req[h]
      BY <1>1, <1>4, <3>1, WriterSteps
    <3> QED
      BY <2>2, <3>1, <3>2 DEF Temp
  <2>3. CASE p \notin DOMAIN file
    <3>1. pc[h] # "idle"
      BY <1>1, <1>4, TreeKept
    <3>2. CASE Opens(h) /\ p = Temp(h)
      <4>1. pc'[h] = "fill" /\ req[h].kind # "list"
        BY <3>2 DEF Opens, Writes
      <4>2. Last(p) = h
        BY <1>1, <3>1, <3>2, <4>1, TempIsOwn
      <4>3. req'[h] = req[h]
        BY <1>1, <1>4, <4>1, RequestSteps
      <4> QED
        BY <3>2, <4>1, <4>2, <4>3 DEF Temp
    <3>3. CASE Puts(h) /\ p = req[h].path /\ IsDoc(p)
      BY <3>3 DEF IsDoc
    <3>4. ASSUME Renames(h), NEW q \in DOMAIN file, IsPrefix(req[h].path, q), IsTemp(q), q # req[h].path
          PROVE  FALSE
      <4> DEFINE g == Last(q)
      <4>1. g \in Handlers /\ pc[g] \in {"fill", "replace", "fallback", "again"} /\ q = Temp(g)
        BY <1>2, <3>4 DEF IsTemp
      <4> HIDE DEF g
      <4>2. pc[g] # "idle" /\ Writes(req[g]) /\ req[g].kind # "list"
        <5>1. pc[g] # "idle"
          BY <4>1
        <5>2. Writes(req[g])
          BY <1>1, <4>1, <5>1, KindAt DEF Writing
        <5> QED
          BY <5>1, <5>2 DEF Writes
      <4>3. req[h].kind = "move" /\ req[h].path \in Seq(Names) /\ req[h].path \in Roots(req[h])
        BY <1>1, <3>1, <3>4, RootsAre, Asked DEF Renames
      <4>4. IsPrefix(req[h].path, req[g].path) /\ req[g].path \in Roots(req[g])
        BY <1>1, <3>4, <4>1, <4>2, <4>3, AboveTemp, RootsAre
      <4>5. g # h /\ Clash(req[g], req[h])
        BY <4>2, <4>3, <4>4 DEF Clash, Writes
      <4>6. Roots(req[h]) \subseteq unsure
        BY <3>1, <4>1, <4>2, <4>5 DEF ClashInv, Active
      <4> QED
        BY <1>0, <4>3, <4>6
    <3> QED
      BY <1>1, <1>4, <2>3, <3>2, <3>3, <3>4, NewFiles
  <2> QED
    BY <2>1, <2>2, <2>3
<1>5. ASSUME NEW h \in Handlers, NEW r \in Requests[h], Take(h, r)
      PROVE  /\ pc'[Last(p)] \in {"fill", "replace", "fallback", "again"}
             /\ p = Append(Front(req'[Last(p)].path), Last(p))
  <2>1. p \in DOMAIN file /\ pc[h] = "idle"
    BY <1>5 DEF Take, tree, At
  <2>2. Last(p) # h
    BY <1>2, <2>1
  <2> QED
    BY <1>1, <1>3, <1>5, <2>1, <2>2 DEF Take, Goto
<1>6. CASE Crash
  <2>1. p \in DOMAIN file
    BY <1>6 DEF Crash, tree
  <2>2. pc[Last(p)] \in {"fill", "replace", "fallback", "again"}
    BY <1>2, <2>1
  <2>3. Writes(req[Last(p)]) /\ pc[Last(p)] # "idle"
    BY <1>1, <2>2, KindAt DEF Writing
  <2>4. Roots(req[Last(p)]) # {}
    BY <2>3 DEF Writes, Roots
  <2>5. Roots(req[Last(p)]) \subseteq unsure'
    BY <1>1, <1>6, <2>3 DEF Crash, At, Trouble
  <2> QED
    BY <2>4, <2>5
<1>7. CASE UNCHANGED vars
  BY <1>3, <1>7 DEF vars, tree, handling
<1> QED
  BY <1>4, <1>5, <1>6, <1>7 DEF Next

\* A temporary file belongs to a write that is under way, wherever nothing has gone
\* amiss: each one is renamed into place or removed (fWriteFileAtomic).
THEOREM NoTempIsLeft == Spec => []TempsHaveWriters
BY TypesHold, ClashesBegin, ClashesKept, TempsBegin, TempsKept, PTL DEF Spec

----------------------------------------------------------------------------
(* What a deletion and a move know *)

Troubled(h) == Roots(req[h]) \subseteq unsure

\* Handler h stands still.
Rests(h) ==
    /\ pc[h] # "idle" /\ pc'[h] = pc[h] /\ req'[h] = req[h]
    /\ inside'[h] = inside[h] /\ scan'[h] = scan[h] /\ wasDir'[h] = wasDir[h] /\ untold'[h] = untold[h]

Arrives(h) ==
    \E r \in Requests[h] :
        /\ pc[h] = "idle" /\ req'[h] = r /\ r.kind \in Kinds /\ pc'[h] = FirstPhase[r.kind]
        /\ inside'[h] = {} /\ untold'[h] = untold[h]

\* A handler that is busy after a step has taken it, or has stood still while another
\* took it, or something happened that leaves the tree and the tombstones alone.
LEMMA WhoMoves ==
  ASSUME TypeInv, [Next]_vars, NEW h \in Handlers, pc'[h] # "idle"
  PROVE  /\ unsure \subseteq unsure'
         /\ \/ HandlerStep(h)
            \/ \E g \in Handlers \ {h} : HandlerStep(g) /\ Rests(h)
            \/ /\ UNCHANGED <<tree, tomb, ever>>
               /\ Rests(h) \/ Arrives(h)
               /\ \A f \in Handlers : pc[f] # "idle" => Rests(f)
<1>1. Serving /\ Typed /\ DOMAIN pc = Handlers /\ DOMAIN req = Handlers
  BY DEF TypeInv, Serving
<1>2. ASSUME NEW g \in Handlers \ {h}, HandlerStep(g) PROVE Rests(h)
  <2>1. pc'[h] = pc[h] /\ req'[h] = req[h] /\ inside'[h] = inside[h] /\ scan'[h] = scan[h]
        /\ wasDir'[h] = wasDir[h] /\ untold'[h] = untold[h]
    BY <1>1, <1>2, OthersStay
  <2> QED
    BY <2>1 DEF Rests
<1>3. ASSUME NEW g \in Handlers, NEW r \in Requests[g], Take(g, r)
      PROVE  /\ UNCHANGED <<tree, tomb, ever>>
             /\ Rests(h) \/ Arrives(h)
             /\ \A f \in Handlers : pc[f] # "idle" => Rests(f)
  <2>1. /\ UNCHANGED <<tree, tomb, ever>> /\ inside' = inside /\ wasDir' = wasDir /\ untold' = untold
        /\ pc[g] = "idle" /\ pc' = [pc EXCEPT ![g] = FirstPhase[r.kind]] /\ req' = [req EXCEPT ![g] = r]
    BY <1>3 DEF Take, At, Goto
  <2>2. ASSUME g = h PROVE Arrives(h)
    <3>1. r \in Requests[h] /\ r.kind \in Kinds
      BY <2>2, WorkspaceAssumption DEF WorkspaceAssumption, Request
    <3>2. inside'[h] = {} /\ req'[h] = r /\ pc'[h] = FirstPhase[r.kind] /\ pc[h] = "idle" /\ untold'[h] = untold[h]
      BY <1>1, <2>1, <2>2 DEF Typed
    <3>3. Arrives(h)
      BY <3>1, <3>2 DEF Arrives
    <3> QED
      BY <3>3
  <2>3. ASSUME NEW f \in Handlers, f # g
        PROVE  /\ pc'[f] = pc[f] /\ req'[f] = req[f] /\ scan'[f] = scan[f]
               /\ inside'[f] = inside[f] /\ wasDir'[f] = wasDir[f] /\ untold'[f] = untold[f]
    <3>1. scan'[f] = scan[f]
      BY <1>1, <1>3, <2>3 DEF Take, Typed
    <3> QED
      BY <1>1, <2>1, <2>3, <3>1
  <2>4. \A f \in Handlers : pc[f] # "idle" => Rests(f)
    <3> SUFFICES ASSUME NEW f \in Handlers, pc[f] # "idle" PROVE Rests(f)
      OBVIOUS
    <3>1. f # g
      BY <2>1
    <3> QED
      BY <2>3, <3>1 DEF Rests
  <2>5. pc[h] # "idle" \/ g = h
    BY <1>1, <2>3
  <2> QED
    BY <2>1, <2>2, <2>4, <2>5
<1>4. ~Crash
  BY DEF Crash
<1>5. UNCHANGED vars => /\ UNCHANGED <<tree, tomb, ever>> /\ Rests(h)
                        /\ \A f \in Handlers : pc[f] # "idle" => Rests(f)
  BY DEF vars, handling, history, changes, Rests
<1>6. unsure \subseteq unsure'
  BY UnsureGrows
<1> QED
  BY <1>2, <1>3, <1>4, <1>5, <1>6 DEF Next

\* Where a request is all alone, nobody changes what is under its places.
LEMMA NobodyElse ==
  ASSUME TypeInv, ClashInv, NEW h \in Handlers, pc[h] # "idle", ~Troubled(h), ~Writes(req[h]),
         NEW g \in Handlers \ {h}, HandlerStep(g),
         NEW root \in Roots(req[h]), NEW q \in Path, IsPrefix(root, q)
  PROVE  (q \in DOMAIN file' <=> q \in DOMAIN file) /\ (q \in dirs' <=> q \in dirs)
<1>1. Serving /\ Typed /\ pc[g] # "idle"
  BY TreeKept DEF TypeInv
<1>2. ~Clash(req[g], req[h])
  BY <1>1 DEF ClashInv, Active, Troubled
<1>3. ~Touches(g, q)
  BY <1>1, <1>2, Apart
<1> QED
  BY <1>1, <1>3, TreeKept

\* A file that was deleted has not come back.
RmInv ==
    \A h \in Handlers : pc[h] = "record" /\ req[h].kind = "rm" /\ ~Troubled(h) =>
        req[h].path \notin DOMAIN file

\* What it remembers is the file alone.
OneInv ==
    \A h \in Handlers : pc[h] = "record" /\ req[h].kind = "rm" => inside[h] \subseteq {req[h].path}

\* A folder's deletion knows all that is left of it, and what was collected are
\* all its files, there still or removed by it.
RmdirInv ==
    \A h \in Handlers : pc[h] # "idle" /\ req[h].kind = "rmdir" /\ ~Troubled(h) =>
        /\ pc[h] = "removing" =>
               \A q \in DOMAIN file \cup dirs : IsPrefix(req[h].path, q) => q \in scan[h]
        /\ pc[h] \in {"removeAll", "removing"} =>
               /\ \A q \in DOMAIN file : IsPrefix(req[h].path, q) => q \in inside[h]
               /\ \A q \in inside[h] : IsDoc(q) => q \in DOMAIN file \cup untold[h]
        /\ pc[h] = "record" => \A q \in DOMAIN file : ~IsPrefix(req[h].path, q)

\* A move knows whether it moves a folder, and its files; it leaves nothing behind
\* and finds the files in their new place.
MoveInv ==
    \A h \in Handlers : pc[h] # "idle" /\ req[h].kind = "move" /\ ~Troubled(h) =>
        /\ pc[h] \in {"parents", "rename"} =>
               /\ req[h].path \in dirs => wasDir[h] \/ IsStrictPrefix(req[h].path, req[h].to)
               /\ \A q \in DOMAIN file : IsPrefix(req[h].path, q) => q \in inside[h]
               /\ IF wasDir[h] THEN inside[h] \subseteq DOMAIN file ELSE inside[h] = {req[h].path}
        /\ pc[h] \in {"record", "dest"} =>
               /\ req[h].path # req[h].to => \A q \in DOMAIN file : ~IsPrefix(req[h].path, q)
               /\ \A q \in inside[h] : Moved(req[h].path, req[h].to, q) \in DOMAIN file
               /\ pc[h] = "dest" => \A q \in scan[h] : Moved(req[h].path, req[h].to, q) \in DOMAIN file

\* Where the requests begin.
LEMMA FirstPhases ==
  ASSUME NEW k \in Kinds
  PROVE  /\ FirstPhase[k] \notin {"idle", "record", "removing", "removeAll", "parents", "rename", "dest",
                                 "clear", "notify"} \cup Writing
         /\ FirstPhase[k] = "quota" => k = "put"
         /\ FirstPhase[k] = "exists" => k = "share"
BY DEF FirstPhase, Kinds, Writing

LEMMA RmKept ==
  ASSUME TypeInv, TypeInv', ClashInv, RmInv, [Next]_vars
  PROVE  RmInv'
<1> SUFFICES ASSUME NEW h \in Handlers, pc'[h] = "record", req'[h].kind = "rm", ~Troubled(h)'
             PROVE  req'[h].path \notin DOMAIN file'
  BY DEF RmInv
<1>1. Serving /\ Typed /\ unsure \subseteq unsure' /\ DOMAIN pc = Handlers
  BY WhoMoves DEF TypeInv, Serving
<1>2. ASSUME Rests(h) PROVE /\ req[h].path \notin DOMAIN file /\ ~Troubled(h) /\ req'[h] = req[h]
                            /\ pc[h] # "idle" /\ req[h].kind = "rm"
  BY <1>1, <1>2 DEF Rests, Troubled, RmInv
<1>3. ASSUME HandlerStep(h) PROVE req'[h].path \notin DOMAIN file'
  <2>1. req'[h] = req[h] /\ pc[h] # "idle" /\ pc[h] \in PhasesOf[req[h].kind]
    BY <1>1, <1>3, RequestSteps DEF Serving
  <2>2. pc[h] \in {"remove", "record", "notify"}
    BY <2>1 DEF PhasesOf
  <2>3. RemoveOne(h) \/ Record(h)
    BY <1>1, <1>3, <2>2 DEF HandlerStep, At, Step, Goto, Done, Refused, Exists, CheckQuota,
       CountTorn, Parents, OpenTemp, FillTemp, FillFails, DropTemp, Replace, RemoveTarget,
       ReplaceAgain, ClearTombstone, Collect, RemoveAll, RemoveEntry, Look, Rename, ClearDest,
       Recorded, Folder, Notify, Walk, Listed
  <2>4. CASE RemoveOne(h)
    <3>1. ~Done(h)
      BY <1>1 DEF Done
    <3>2. file' = Without(req[h].path)
      BY <2>4, <3>1 DEF RemoveOne, SetTree
    <3> QED
      BY <2>1, <3>2 DEF Without
  <2>5. CASE Record(h)
    <3>1. file' = file /\ pc[h] = "record"
      BY <2>5 DEF Record, tree, At
    <3> QED
      BY <1>1, <2>1, <3>1 DEF RmInv, Troubled
  <2> QED
    BY <2>3, <2>4, <2>5
<1>4. ASSUME NEW g \in Handlers \ {h}, HandlerStep(g), Rests(h) PROVE req'[h].path \notin DOMAIN file'
  <2>1. req[h].path \in Roots(req[h]) /\ req[h].path \in Path /\ ~Writes(req[h])
    BY <1>1, <1>2, <1>4, RootsAre, Asked DEF Writes
  <2> QED
    BY <1>2, <1>4, <2>1, NobodyElse, PrefixOrder
<1>5. ASSUME UNCHANGED <<tree, tomb, ever>>, Rests(h) \/ Arrives(h) PROVE req'[h].path \notin DOMAIN file'
  BY <1>2, <1>5, FirstPhases DEF Arrives, tree
<1> QED
  BY <1>3, <1>4, <1>5, WhoMoves

LEMMA OneKept ==
  ASSUME TypeInv, TypeInv', OneInv, [Next]_vars
  PROVE  OneInv'
<1> SUFFICES ASSUME NEW h \in Handlers, pc'[h] = "record", req'[h].kind = "rm"
             PROVE  inside'[h] \subseteq {req'[h].path}
  BY DEF OneInv
<1>1. Serving /\ Typed /\ DOMAIN pc = Handlers
  BY DEF TypeInv, Serving
<1>2. ASSUME HandlerStep(h) PROVE inside'[h] \subseteq {req'[h].path}
  <2>1. req'[h] = req[h] /\ pc[h] # "idle" /\ pc[h] \in PhasesOf[req[h].kind] /\ ~Done(h)
    BY <1>1, <1>2, RequestSteps DEF Serving, Done
  <2>2. pc[h] \in {"remove", "record", "notify"}
    BY <2>1 DEF PhasesOf
  <2>3. CASE RemoveOne(h)
    <3>1. inside'[h] = {req[h].path}
      BY <1>1, <2>1, <2>3 DEF RemoveOne, Typed
    <3> QED
      BY <2>1, <3>1
  <2>4. CASE Record(h)
    <3>1. pc[h] = "record" /\ inside'[h] \subseteq inside[h]
      BY <1>1, <2>4 DEF Record, At, Typed
    <3> QED
      BY <2>1, <3>1 DEF OneInv
  <2> QED
    BY <1>1, <1>2, <2>1, <2>2, <2>3, <2>4 DEF HandlerStep, At, Step, Goto, Refused, Exists,
       CheckQuota, CountTorn, Parents, OpenTemp, FillTemp, FillFails, DropTemp, Replace,
       RemoveTarget, ReplaceAgain, ClearTombstone, Collect, RemoveAll, RemoveEntry, Look, Rename,
       ClearDest, Recorded, Folder, Notify, Walk, Listed
<1>3. ASSUME Rests(h) PROVE inside'[h] \subseteq {req'[h].path}
  BY <1>3 DEF Rests, OneInv
<1>4. ASSUME Arrives(h) PROVE FALSE
  BY <1>4, FirstPhases DEF Arrives
<1> QED
  BY <1>2, <1>3, <1>4, WhoMoves

LEMMA RmdirKept ==
  ASSUME TypeInv, TypeInv', ClashInv, RmdirInv, [Next]_vars
  PROVE  RmdirInv'
<1> SUFFICES ASSUME NEW h \in Handlers, pc'[h] # "idle", req'[h].kind = "rmdir", ~Troubled(h)'
             PROVE  /\ pc'[h] = "removing" =>
                         \A q \in DOMAIN file' \cup dirs' : IsPrefix(req'[h].path, q) => q \in scan'[h]
                    /\ pc'[h] \in {"removeAll", "removing"} =>
                         /\ \A q \in DOMAIN file' : IsPrefix(req'[h].path, q) => q \in inside'[h]
                         /\ \A q \in inside'[h] : IsDoc(q) => q \in DOMAIN file' \cup untold'[h]
                    /\ pc'[h] = "record" => \A q \in DOMAIN file' : ~IsPrefix(req'[h].path, q)
  BY DEF RmdirInv
<1> DEFINE Claim == /\ pc'[h] = "removing" =>
                         \A q \in DOMAIN file' \cup dirs' : IsPrefix(req'[h].path, q) => q \in scan'[h]
                    /\ pc'[h] \in {"removeAll", "removing"} =>
                         /\ \A q \in DOMAIN file' : IsPrefix(req'[h].path, q) => q \in inside'[h]
                         /\ \A q \in inside'[h] : IsDoc(q) => q \in DOMAIN file' \cup untold'[h]
                    /\ pc'[h] = "record" => \A q \in DOMAIN file' : ~IsPrefix(req'[h].path, q)
<1>1. Serving /\ Typed /\ unsure \subseteq unsure' /\ DOMAIN pc = Handlers
  BY WhoMoves DEF TypeInv, Serving
<1>2. ASSUME req'[h] = req[h], pc[h] # "idle"
      PROVE  /\ ~Troubled(h) /\ req[h].kind = "rmdir"
             /\ pc[h] = "removing" =>
                  \A q \in DOMAIN file \cup dirs : IsPrefix(req[h].path, q) => q \in scan[h]
             /\ pc[h] \in {"removeAll", "removing"} =>
                  /\ \A q \in DOMAIN file : IsPrefix(req[h].path, q) => q \in inside[h]
                  /\ \A q \in inside[h] : IsDoc(q) => q \in DOMAIN file \cup untold[h]
             /\ pc[h] = "record" => \A q \in DOMAIN file : ~IsPrefix(req[h].path, q)
  BY <1>1, <1>2 DEF Troubled, RmdirInv
<1>3. ASSUME HandlerStep(h) PROVE Claim
  <2>1. req'[h] = req[h] /\ pc[h] # "idle" /\ pc[h] \in PhasesOf[req[h].kind] /\ req[h].kind = "rmdir"
    BY <1>1, <1>3, RequestSteps DEF Serving
  <2>2. pc[h] \in {"collect", "removeAll", "removing", "record", "notify"}
    BY <2>1 DEF PhasesOf
  <2>3. ~Done(h)
    BY <1>1 DEF Done
  <2>4. CASE Collect(h)
    <3>1. /\ pc'[h] = "removeAll" /\ inside'[h] = Under(req[h].path) /\ file' = file
          /\ unsure' = unsure \cup ({req[h].path} \cap DOMAIN file)
      BY <1>1, <2>4 DEF Collect, Trouble, Goto, tree, Typed
    <3>2. Roots(req[h]) = {req[h].path}
      BY <2>1 DEF Roots
    <3>3. req[h].path \notin DOMAIN file
      BY <2>1, <3>1, <3>2 DEF Troubled
    <3> QED
      BY <2>1, <3>1, <3>3 DEF Under, IsStrictPrefix
  <2>5. CASE RemoveAll(h)
    <3>1. /\ scan'[h] = {q \in DOMAIN file \cup dirs : IsPrefix(req[h].path, q)}
          /\ pc'[h] = "removing" /\ inside' = inside /\ file' = file /\ dirs' = dirs /\ pc[h] = "removeAll"
          /\ untold' = untold
      BY <1>1, <2>3, <2>5 DEF RemoveAll, Goto, tree, Typed, At, history, changes
    <3> QED
      BY <1>2, <2>1, <3>1
  <2>6. CASE RemoveEntry(h)
    <3>1. PICK p \in scan[h] :
             /\ file' = Without(p) /\ dirs' = dirs \ {p}
             /\ scan' = [scan EXCEPT ![h] = @ \ {p}]
             /\ pc' = [pc EXCEPT ![h] = IF scan[h] = {p} THEN "record" ELSE "removing"]
             /\ inside' = inside
             /\ untold' = [untold EXCEPT ![h] = @ \cup {q \in DOMAIN file \cap {p} : IsDoc(q)}]
      <4>1. PICK p \in scan[h] :
               /\ SetTree(h, Without(p), dirs \ {p}, DOMAIN file \cap {p})
               /\ scan' = [scan EXCEPT ![h] = @ \ {p}]
               /\ Goto(h, IF scan[h] = {p} THEN "record" ELSE "removing")
               /\ inside' = inside
        BY <2>3, <2>6 DEF RemoveEntry
      <4> QED
        BY <4>1 DEF SetTree, Goto
    <3>2. pc[h] = "removing"
      BY <2>6 DEF RemoveEntry, At
    <3>3. DOMAIN file' = DOMAIN file \ {p} /\ scan'[h] = scan[h] \ {p}
          /\ pc'[h] = IF scan[h] = {p} THEN "record" ELSE "removing"
      BY <1>1, <3>1 DEF Without, Typed
    <3>5. untold'[h] = untold[h] \cup {q \in DOMAIN file \cap {p} : IsDoc(q)}
      BY <1>1, <3>1 DEF Typed
    <3>4. /\ \A q \in DOMAIN file \cup dirs : IsPrefix(req[h].path, q) => q \in scan[h]
          /\ \A q \in DOMAIN file : IsPrefix(req[h].path, q) => q \in inside[h]
          /\ \A q \in inside[h] : IsDoc(q) => q \in DOMAIN file \cup untold[h]
      BY <1>2, <2>1, <3>2
    <3> QED
      BY <2>1, <3>1, <3>3, <3>4, <3>5
  <2>7. CASE Record(h)
    <3>1. pc[h] = "record" /\ pc' = pc /\ file' = file
      BY <2>1, <2>7 DEF Record, At, tree
    <3> QED
      BY <1>2, <2>1, <3>1
  <2>8. CASE Recorded(h)
    BY <1>1, <2>8 DEF Recorded, Step, Goto
  <2> HIDE DEF Claim
  <2> QED
    BY <1>3, <2>2, <2>3, <2>4, <2>5, <2>6, <2>7, <2>8 DEF HandlerStep, At, Refused, Exists,
       CheckQuota, CountTorn, Parents, OpenTemp, FillTemp, FillFails, DropTemp, Replace,
       RemoveTarget, ReplaceAgain, ClearTombstone, RemoveOne, Look, Rename, ClearDest, Folder,
       Notify, Walk, Listed
<1>4. ASSUME NEW g \in Handlers \ {h}, HandlerStep(g), Rests(h) PROVE Claim
  <2>1. /\ req'[h] = req[h] /\ pc'[h] = pc[h] /\ pc[h] # "idle" /\ inside'[h] = inside[h]
        /\ scan'[h] = scan[h] /\ untold'[h] = untold[h]
    BY <1>4 DEF Rests
  <2>2. req[h].path \in Roots(req[h]) /\ ~Writes(req[h]) /\ ~Troubled(h) /\ req[h].kind = "rmdir"
    BY <1>1, <1>2, <2>1, RootsAre DEF Writes
  <2>3. /\ DOMAIN file' \subseteq Path /\ dirs' \subseteq Path
        /\ \A q \in inside[h] : q \in Path /\ IsPrefix(req[h].path, q)
    BY <1>1, <1>4, <2>2, TreeKept, NamesArePaths DEF Tree, Typed
  <2>4. ASSUME NEW q \in DOMAIN file' \cup dirs' \cup inside[h], IsPrefix(req[h].path, q)
        PROVE  (q \in DOMAIN file' <=> q \in DOMAIN file) /\ (q \in dirs' <=> q \in dirs)
    BY <1>4, <2>1, <2>2, <2>3, <2>4, NobodyElse
  <2> QED
    BY <1>2, <2>1, <2>3, <2>4
<1>5. ASSUME UNCHANGED <<tree, tomb, ever>>, Rests(h) \/ Arrives(h) PROVE Claim
  <2>1. CASE Arrives(h)
    BY <2>1, FirstPhases DEF Arrives
  <2>2. CASE Rests(h)
    BY <1>2, <1>5, <2>2 DEF Rests, tree
  <2> QED
    BY <1>5, <2>1, <2>2
<1> QED
  BY <1>3, <1>4, <1>5, WhoMoves

LEMMA MoveKept ==
  ASSUME TypeInv, TypeInv', ClashInv, MoveInv, [Next]_vars
  PROVE  MoveInv'
<1> SUFFICES ASSUME NEW h \in Handlers, pc'[h] # "idle", req'[h].kind = "move", ~Troubled(h)',
                    NEW a, a = req'[h].path, NEW b, b = req'[h].to
             PROVE  /\ pc'[h] \in {"parents", "rename"} =>
                        /\ a \in dirs' => wasDir'[h] \/ IsStrictPrefix(a, b)
                        /\ \A q \in DOMAIN file' : IsPrefix(a, q) => q \in inside'[h]
                        /\ IF wasDir'[h] THEN inside'[h] \subseteq DOMAIN file' ELSE inside'[h] = {a}
                    /\ pc'[h] \in {"record", "dest"} =>
                        /\ a # b => \A q \in DOMAIN file' : ~IsPrefix(a, q)
                        /\ \A q \in inside'[h] : Moved(a, b, q) \in DOMAIN file'
                        /\ pc'[h] = "dest" => \A q \in scan'[h] : Moved(a, b, q) \in DOMAIN file'
  BY DEF MoveInv
<1> DEFINE Before == pc'[h] \in {"parents", "rename"} =>
                        /\ a \in dirs' => wasDir'[h] \/ IsStrictPrefix(a, b)
                        /\ \A q \in DOMAIN file' : IsPrefix(a, q) => q \in inside'[h]
                        /\ IF wasDir'[h] THEN inside'[h] \subseteq DOMAIN file' ELSE inside'[h] = {a}
           After == pc'[h] \in {"record", "dest"} =>
                        /\ a # b => \A q \in DOMAIN file' : ~IsPrefix(a, q)
                        /\ \A q \in inside'[h] : Moved(a, b, q) \in DOMAIN file'
                        /\ pc'[h] = "dest" => \A q \in scan'[h] : Moved(a, b, q) \in DOMAIN file'
<1>1. /\ Serving /\ Typed /\ unsure \subseteq unsure' /\ DOMAIN pc = Handlers
      /\ Tree(file, dirs) /\ DOMAIN file \subseteq Path /\ dirs \subseteq Path
  BY WhoMoves, NamesArePaths DEF TypeInv, Serving, Typed, Tree
<1>2. ASSUME req'[h] = req[h], pc[h] # "idle"
      PROVE  /\ ~Troubled(h) /\ req[h].kind = "move" /\ a = req[h].path /\ b = req[h].to
             /\ a \in Path /\ b \in Path /\ a # <<>> /\ b # <<>>
             /\ a \in Seq(Names) /\ b \in Seq(Names) /\ a \in Roots(req[h]) /\ b \in Roots(req[h])
             /\ \A q \in inside[h] \cup scan[h] : q \in Path /\ IsPrefix(a, q)
             /\ wasDir[h] \in BOOLEAN
  <2>1. ~Troubled(h) /\ req[h].kind = "move" /\ a = req[h].path /\ b = req[h].to
    BY <1>1, <1>2 DEF Troubled
  <2>2. /\ a \in Path /\ b \in Path /\ a # <<>> /\ b # <<>>
        /\ a \in Seq(Names) /\ b \in Seq(Names) /\ a \in Roots(req[h]) /\ b \in Roots(req[h])
    BY <1>1, <1>2, <2>1, Asked, RootsAre
  <2>3. /\ \A q \in inside[h] \cup scan[h] : q \in Path /\ IsPrefix(a, q)
        /\ wasDir[h] \in BOOLEAN
    BY <1>1, <2>1 DEF Typed
  <2> QED
    BY <2>1, <2>2, <2>3
<1>3. ASSUME req'[h] = req[h], pc[h] \in {"parents", "rename"}
      PROVE  /\ a \in dirs => wasDir[h] \/ IsStrictPrefix(a, b)
             /\ \A q \in DOMAIN file : IsPrefix(a, q) => q \in inside[h]
             /\ IF wasDir[h] THEN inside[h] \subseteq DOMAIN file ELSE inside[h] = {a}
  BY <1>2, <1>3 DEF MoveInv
<1>4. ASSUME req'[h] = req[h], pc[h] \in {"record", "dest"}
      PROVE  /\ a # b => \A q \in DOMAIN file : ~IsPrefix(a, q)
             /\ \A q \in inside[h] : Moved(a, b, q) \in DOMAIN file
             /\ pc[h] = "dest" => \A q \in scan[h] : Moved(a, b, q) \in DOMAIN file
  BY <1>2, <1>4 DEF MoveInv
<1>5. ASSUME HandlerStep(h) PROVE Before /\ After
  <2>1. req'[h] = req[h] /\ pc[h] # "idle" /\ pc[h] \in PhasesOf[req[h].kind] /\ ~Done(h)
    BY <1>1, <1>5, RequestSteps DEF Serving, Done
  <2>2. pc[h] \in {"look", "parents", "rename", "record", "dest", "notify"}
    BY <1>2, <2>1 DEF PhasesOf
  <2>3. CASE Look(h)
    <3>1. /\ pc'[h] = "parents" /\ file' = file /\ dirs' = dirs
          /\ wasDir'[h] = (a \in dirs)
          /\ inside'[h] = IF a \in dirs THEN Under(a) ELSE {a}
      BY <1>1, <1>2, <2>1, <2>3 DEF Look, Goto, tree, Typed
    <3>2. CASE a \in dirs
      <4>1. \A q \in DOMAIN file : IsPrefix(a, q) => q # a
        BY <1>1, <3>2 DEF Tree
      <4>2. \A q \in DOMAIN file : IsPrefix(a, q) => q \in Under(a)
        BY <4>1 DEF Under, IsStrictPrefix
      <4>3. Under(a) \subseteq DOMAIN file
        BY DEF Under
      <4> QED
        BY <3>1, <3>2, <4>2, <4>3
    <3>3. CASE a \notin dirs
      <4>1. \A q \in DOMAIN file : IsPrefix(a, q) => q = a
        BY <1>1, <1>2, <2>1, <3>3, UnderNothing
      <4> QED
        BY <3>1, <3>3, <4>1
    <3> QED
      BY <3>2, <3>3
  <2>4. CASE Parents(h)
    <3>1. /\ pc'[h] = "rename" /\ file' = file /\ dirs' = dirs \cup Created(Front(b))
          /\ inside' = inside /\ wasDir' = wasDir /\ pc[h] = "parents"
      BY <1>1, <1>2, <2>1, <2>4 DEF Parents, Step, Goto, At
    <3>2. ASSUME a \in Created(Front(b)) PROVE IsStrictPrefix(a, b)
      <4>1. Front(b) \in Seq(Names) /\ Front(b) \in Path
        BY <1>2, <2>1, Folders
      <4>2. IsPrefix(a, Front(b))
        BY <1>1, <3>2, <4>1, Creations
      <4> QED
        BY <1>2, <2>1, <4>2, Folders
    <3> QED
      BY <1>3, <2>1, <3>1, <3>2
  <2>5. CASE Rename(h)
    <3>1. pc[h] = "rename" /\ CanRename(a, b) /\ pc'[h] = "record" /\ inside' = inside
      BY <1>1, <1>2, <2>1, <2>5 DEF Rename, At, Step, Goto
    <3>2. Renames(h)
      <4>1. Changes(h)
        BY <1>1, <1>5, TreeKept
      <4>2. SetTree(h, Renamed(a, b), {Moved(a, b, q) : q \in dirs},
                    {q \in DOMAIN file : IsPrefix(a, q)} \cup {Moved(a, b, q) : q \in {r \in DOMAIN file : IsPrefix(a, r)}})
        BY <1>2, <2>1, <2>5, <3>1 DEF Rename
      <4> QED
        BY <1>2, <2>1, <3>1, <4>2 DEF Renames, SetTree, Follows
    <3>3. /\ \A r : r \in DOMAIN file' =>
                     \/ \E q \in DOMAIN file : IsPrefix(a, q) /\ r = Moved(a, b, q)
                     \/ r \in DOMAIN file /\ ~IsPrefix(a, r)
          /\ \A q \in DOMAIN file : IsPrefix(a, q) => Moved(a, b, q) \in DOMAIN file'
          /\ a # b => ~IsPrefix(a, b) /\ ~IsPrefix(b, a)
          /\ a \notin dirs => a \in DOMAIN file
          /\ a \in dirs => ~IsStrictPrefix(a, b)
      BY <1>1, <1>2, <2>1, <3>2, RenamesEntry
    <3>4. ASSUME a # b, NEW r \in DOMAIN file', IsPrefix(a, r) PROVE FALSE
      <4>1. PICK q \in DOMAIN file : IsPrefix(a, q) /\ r = Moved(a, b, q)
        BY <3>3, <3>4
      <4>2. r \in Path /\ IsPrefix(b, r)
        BY <1>1, <1>2, <2>1, <4>1, MovedUnder
      <4>3. IsPrefix(a, b) \/ IsPrefix(b, a)
        BY <1>2, <2>1, <3>4, <4>2, PrefixOrder
      <4> QED
        BY <3>3, <3>4, <4>3
    <3>5. ASSUME NEW q \in inside[h] PROVE Moved(a, b, q) \in DOMAIN file'
      <4>1. q \in DOMAIN file
        BY <1>2, <1>3, <2>1, <3>1, <3>3
      <4> QED
        BY <1>2, <2>1, <3>3, <4>1
    <3> QED
      BY <3>1, <3>4, <3>5
  <2>6. CASE Record(h)
    <3>1. PICK p \in inside[h] : inside' = [inside EXCEPT ![h] = @ \ {p}] /\ scan' = [scan EXCEPT ![h] = {p}]
                                 /\ pc'[h] = "dest"
      BY <1>1, <1>2, <2>1, <2>6 DEF Record, Goto
    <3>2. inside'[h] \subseteq inside[h] /\ scan'[h] = {p} /\ file' = file /\ pc[h] = "record"
      BY <1>1, <2>6, <3>1 DEF Record, tree, At, Typed
    <3> QED
      BY <1>4, <2>1, <3>1, <3>2
  <2>7. CASE ClearDest(h)
    <3>1. inside' = inside /\ file' = file /\ pc'[h] = "record" /\ pc[h] = "dest"
      BY <1>1, <2>7 DEF ClearDest, tree, At, Goto
    <3> QED
      BY <1>4, <2>1, <3>1
  <2>8. CASE Recorded(h)
    BY <1>1, <2>8 DEF Recorded, Step, Goto
  <2>9. CASE Notify(h)
    BY <2>1, <2>9 DEF Notify
  <2>10. ~Refused(h)
    BY <2>1 DEF Refused
  <2> HIDE DEF Before, After
  <2> QED
    BY <1>5, <2>2, <2>3, <2>4, <2>5, <2>6, <2>7, <2>8, <2>9, <2>10 DEF HandlerStep, At, Exists,
       CheckQuota, CountTorn, OpenTemp, FillTemp, FillFails, DropTemp, Replace, RemoveTarget,
       ReplaceAgain, ClearTombstone, RemoveOne, Collect, RemoveAll, RemoveEntry, Folder, Walk,
       Listed
<1>6. ASSUME NEW g \in Handlers \ {h}, HandlerStep(g), Rests(h) PROVE Before /\ After
  <2>1. /\ req'[h] = req[h] /\ pc'[h] = pc[h] /\ pc[h] # "idle" /\ inside'[h] = inside[h]
        /\ scan'[h] = scan[h] /\ wasDir'[h] = wasDir[h]
    BY <1>6 DEF Rests
  <2>2. ~Writes(req[h]) /\ ~Troubled(h)
    BY <1>2, <2>1 DEF Writes
  <2>3. DOMAIN file' \subseteq Path /\ dirs' \subseteq Path
    BY <1>1, <1>6, TreeKept, NamesArePaths DEF Tree
  <2>4. ASSUME NEW q \in Path, IsPrefix(a, q)
        PROVE  (q \in DOMAIN file' <=> q \in DOMAIN file) /\ (q \in dirs' <=> q \in dirs)
    BY <1>2, <1>6, <2>1, <2>2, <2>4, NobodyElse
  <2>5. ASSUME NEW q \in Path, IsPrefix(b, q) PROVE q \in DOMAIN file' <=> q \in DOMAIN file
    BY <1>2, <1>6, <2>1, <2>2, <2>5, NobodyElse
  <2>6. IsPrefix(a, a)
    BY <1>2, <2>1, PrefixOrder
  <2>7. \A q \in inside[h] \cup scan[h] : Moved(a, b, q) \in Path /\ IsPrefix(b, Moved(a, b, q))
    BY <1>2, <2>1, MovedUnder
  <2>8. Before
    BY <1>2, <1>3, <2>1, <2>3, <2>4, <2>6
  <2>9. After
    BY <1>2, <1>4, <2>1, <2>3, <2>4, <2>5, <2>7
  <2> QED
    BY <2>8, <2>9
<1>7. ASSUME UNCHANGED <<tree, tomb, ever>>, Rests(h) \/ Arrives(h) PROVE Before /\ After
  <2>1. CASE Arrives(h)
    BY <2>1, FirstPhases DEF Arrives
  <2>2. CASE Rests(h)
    <3>1. /\ req'[h] = req[h] /\ pc'[h] = pc[h] /\ pc[h] # "idle" /\ inside'[h] = inside[h]
          /\ scan'[h] = scan[h] /\ wasDir'[h] = wasDir[h] /\ file' = file /\ dirs' = dirs
      BY <1>7, <2>2 DEF Rests, tree
    <3> QED
      BY <1>3, <1>4, <3>1
  <2> QED
    BY <1>7, <2>1, <2>2
<1> QED
  BY <1>5, <1>6, <1>7, WhoMoves

\* What the deletions and moves know, together.
OwnInv == ClashInv /\ RmInv /\ OneInv /\ RmdirInv /\ MoveInv

LEMMA OwnBegins == Init => OwnInv
BY ClashesBegin DEF Init, OwnInv, RmInv, OneInv, RmdirInv, MoveInv

LEMMA OwnKept == TypeInv /\ TypeInv' /\ OwnInv /\ [Next]_vars => OwnInv'
BY ClashesKept, RmKept, OneKept, RmdirKept, MoveKept DEF OwnInv

LEMMA OwnHolds == Spec => []OwnInv
BY TypesHold, OwnBegins, OwnKept, PTL DEF Spec

----------------------------------------------------------------------------
(* What a write finds, and what is announced *)

\* A write has taken the file away and is about to put its own in place.
BeingPut(p) == \E g \in Handlers : pc[g] = "again" /\ req[g].path = p /\ p \in untold[g]

\* A write has its temporary file and no folder in place of what it has removed; a
\* grantee's, or one that is done, has the file, unless one is being put there.
WriteInv ==
    \A h \in Handlers : pc[h] # "idle" /\ Writes(req[h]) /\ Sure(req[h].path) =>
        /\ pc[h] \in {"fill"} \cup Filled => Temp(h) \in DOMAIN file
        /\ pc[h] = "again" /\ req[h].path \in untold[h] => req[h].path \notin dirs
        /\ req[h].kind = "share" /\ pc[h] \in {"quota", "parents"} \cup Writing =>
               req[h].path \in DOMAIN file \/ BeingPut(req[h].path)
        /\ pc[h] = "clear" => req[h].path \in DOMAIN file \/ BeingPut(req[h].path)

\* The handler has yet to announce what it changed at p, and will.
WillTell(h, p) ==
    \/ Writes(req[h]) /\ pc[h] \in {"again", "clear", "notify"} /\ p = req[h].path
    \/ req[h].kind = "rm" /\ pc[h] \in {"record", "notify"} /\ p = req[h].path
    \/ req[h].kind = "rmdir" /\ pc[h] \in {"removing", "record", "notify"} /\ IsPrefix(req[h].path, p)
    \/ /\ req[h].kind = "move" /\ pc[h] \in {"record", "dest", "notify"}
       /\ wasDir[h] \/ p \in {req[h].path, req[h].to}
       /\ IsPrefix(req[h].path, p) \/ IsPrefix(req[h].to, p)

TellInv == \A h \in Handlers : \A p \in untold[h] : Sure(p) => WillTell(h, p)

\* A place that is sure is the request's own.
LEMMA SureIsCalm ==
  ASSUME Serving, NEW h \in Handlers, pc[h] # "idle", NEW root \in Roots(req[h]),
         NEW p, IsPrefix(root, p), Sure(p)
  PROVE  ~Troubled(h) /\ root \notin unsure
BY DEF Sure, Troubled

\* What is sure now was sure before.
LEMMA StaysSure ==
  ASSUME unsure \subseteq unsure', NEW p, Sure(p)'
  PROVE  Sure(p)
BY DEF Sure

\* A write puts no folder in the file's place, and takes the file away only to put
\* its own there.
LEMMA WriterPath ==
  ASSUME Serving, Typed, NEW g \in Handlers, HandlerStep(g), Writes(req[g]), NEW p, p = req[g].path
  PROVE  /\ p \in dirs' => p \in dirs
         /\ p \in DOMAIN file => p \in DOMAIN file' \/ (pc'[g] = "again" /\ req'[g] = req[g] /\ p \in untold'[g])
<1>1. /\ pc[g] # "idle" /\ Changes(g) /\ req[g].kind # "list" /\ Tree(file, dirs)
      /\ p \in Path /\ p \in Seq(Names) /\ p # <<>>
  BY TreeKept, Asked DEF Writes, Typed
<1>2. Temp(g) # p
  BY <1>1, AboveTemp
<1>3. IsDoc(p)
  <2>1. Last(p) \in Names
    BY <1>1 DEF Last
  <2> QED
    BY <2>1, NamesAndHandlers DEF IsDoc, IsTemp
<1>4. CASE Keeps
  BY <1>4 DEF Keeps
<1>5. CASE Makes(g)
  <2>1. dirs' = dirs \cup Created(Front(p)) /\ file' = file
    BY <1>5 DEF Makes, Writes
  <2>2. Front(p) \in Seq(Names) /\ Front(p) \in Path /\ IsStrictPrefix(Front(p), p)
    BY <1>1, Folders
  <2>3. p \notin Created(Front(p))
    <3>1. p \in Created(Front(p)) => IsPrefix(p, Front(p))
      BY <1>1, <2>2, Creations
    <3>2. ~IsPrefix(p, Front(p))
      BY <1>1, <2>2, PrefixOrder DEF IsStrictPrefix
    <3> QED
      BY <3>1, <3>2
  <2> QED
    BY <2>1, <2>3
<1>6. CASE Opens(g) \/ Fills(g) \/ Drops(g)
  BY <1>2, <1>6 DEF Opens, Fills, Drops, With, Without
<1>7. CASE Puts(g)
  BY <1>1, <1>7, PutsFile
<1>8. ASSUME NEW q \in {req[g].path} \cup scan[g], Removes(g, q)
      PROVE  /\ p \in dirs' => p \in dirs
             /\ p \in DOMAIN file => p \in DOMAIN file' \/ (pc'[g] = "again" /\ req'[g] = req[g] /\ p \in untold'[g])
  <2>1. pc[g] = "fallback" /\ pc'[g] = "again" /\ q = p /\ dirs' = dirs \ {p} /\ file' = Without(p)
    BY <1>8 DEF Removes, Writes
  <2>2. RemoveTarget(g)
    BY <2>1 DEF HandlerStep, At, Refused, Exists, CheckQuota, CountTorn, Parents, OpenTemp,
       FillTemp, FillFails, DropTemp, Replace, ReplaceAgain, ClearTombstone, RemoveOne, Collect,
       RemoveAll, RemoveEntry, Look, Rename, Record, ClearDest, Recorded, Folder, Notify, Walk,
       Listed
  <2>3. ASSUME p \in DOMAIN file, p \notin DOMAIN file' PROVE req'[g] = req[g] /\ p \in untold'[g]
    <3>1. SetTree(g, Without(p), dirs \ {p}, DOMAIN file \cap {p}) /\ req' = req
      BY <2>2, <2>3 DEF RemoveTarget, Step, tree
    <3>2. p \in {r \in DOMAIN file \cap {p} : IsDoc(r)}
      BY <1>3, <2>3
    <3> QED
      BY <3>1, <3>2 DEF SetTree, Typed
  <2> QED
    BY <2>1, <2>3
<1>9. CASE Renames(g)
  BY <1>9 DEF Renames, Writes
<1> QED
  BY <1>1, <1>4, <1>5, <1>6, <1>7, <1>8, <1>9 DEF Changes

\* Nobody but a write of the same file gets at it.
LEMMA FileStays ==
  ASSUME TypeInv, ClashInv, NEW h \in Handlers, pc[h] # "idle", Writes(req[h]),
         NEW p, p = req[h].path, Sure(p), NEW g \in Handlers, HandlerStep(g)
  PROVE  /\ p \in dirs' => p \in dirs
         /\ p \in DOMAIN file => p \in DOMAIN file' \/ BeingPut(p)'
<1>1. Serving /\ Typed /\ pc[g] # "idle"
  BY TreeKept DEF TypeInv
<1>2. p \in Roots(req[h]) /\ p \in Path /\ IsPrefix(p, p)
  BY <1>1, RootsAre, Asked, PrefixOrder DEF Writes
<1>3. ASSUME Writes(req[g]), p = req[g].path
      PROVE  /\ p \in dirs' => p \in dirs
             /\ p \in DOMAIN file => p \in DOMAIN file' \/ BeingPut(p)'
  BY <1>1, <1>3, WriterPath DEF BeingPut
<1>4. CASE g = h
  BY <1>3, <1>4
<1>5. CASE g # h
  <2>1. ~Clash(req[g], req[h])
    BY <1>1, <1>2, <1>5, SureIsCalm DEF ClashInv, Active, Troubled
  <2>2. Touches(g, p) => Writes(req[g]) /\ p = req[g].path
    BY <1>1, <1>2, <2>1, Apart
  <2>3. ~Touches(g, p) => (p \in DOMAIN file' <=> p \in DOMAIN file) /\ (p \in dirs' <=> p \in dirs)
    BY <1>1, <1>2, TreeKept
  <2> QED
    BY <1>3, <2>2, <2>3
<1> QED
  BY <1>4, <1>5

\* A write whose temporary file is there and whose place is no folder succeeds.
LEMMA CanPut ==
  ASSUME TypeInv, NEW h \in Handlers, pc[h] # "idle", Writes(req[h]),
         Temp(h) \in DOMAIN file, req[h].path \notin dirs
  PROVE  CanRename(Temp(h), req[h].path)
<1>1. /\ Serving /\ Tree(file, dirs) /\ req[h].kind # "list"
  BY DEF TypeInv, Typed, Writes
<1>2. Temp(h) \in Path /\ Temp(h) # <<>> /\ Front(Temp(h)) = Front(req[h].path)
  BY <1>1, TempIsOwn
<1>3. Front(Temp(h)) \in Path /\ IsStrictPrefix(Front(Temp(h)), Temp(h))
  BY <1>2, Folders
<1>4. Front(Temp(h)) \in dirs
  BY <1>1, <1>3, Above
<1> QED
  BY <1>2, <1>4 DEF CanRename

\* What is put is in place.
LEMMA PutThere ==
  ASSUME TypeInv, NEW h \in Handlers, pc[h] \in {"replace", "again"}, Put(h)
  PROVE  req[h].path \in DOMAIN file'
<1>1. Serving /\ Typed /\ Tree(file, dirs) /\ pc[h] # "idle"
  BY DEF TypeInv, Typed
<1>2. Writes(req[h]) /\ req[h].kind # "list"
  BY <1>1, KindAt DEF Writing, Writes
<1>3. Temp(h) \in Path /\ req[h].path \in Path /\ Temp(h) \notin Seq(Names)
  BY <1>1, <1>2, TempIsOwn, AboveTemp, Asked
<1>4. CanRename(Temp(h), req[h].path) /\ file' = Renamed(Temp(h), req[h].path)
  BY DEF Put, SetTree
<1>5. Temp(h) \in DOMAIN file
  BY <1>1, <1>3, <1>4 DEF CanRename, Tree
<1>6. DOMAIN file' = (DOMAIN file \ {Temp(h)}) \cup {req[h].path}
  BY <1>1, <1>3, <1>4, <1>5, FileRenamed
<1> QED
  BY <1>6

\* Where a mishap has been nothing is sure.
LEMMA MishapUnsure ==
  ASSUME NEW paths, Mishap(paths), NEW p \in paths, p \in Path
  PROVE  ~Sure(p)'
<1>1. p \in unsure'
  BY DEF Mishap, Trouble
<1>2. IsPrefix(p, p)
  BY PrefixOrder
<1> QED
  BY <1>1, <1>2 DEF Sure

\* A file that is being put there still is after a step, or is there.
LEMMA BeingPutStays ==
  ASSUME TypeInv, WriteInv, NEW p, Sure(p), Sure(p)', BeingPut(p), NEW g \in Handlers, HandlerStep(g)
  PROVE  p \in DOMAIN file' \/ BeingPut(p)'
<1>1. Serving /\ Typed
  BY DEF TypeInv
<1>2. PICK f \in Handlers : pc[f] = "again" /\ req[f].path = p /\ p \in untold[f]
  BY DEF BeingPut
<1>3. CASE f # g
  <2>1. pc'[f] = pc[f] /\ req'[f] = req[f] /\ untold'[f] = untold[f]
    BY <1>1, <1>3, OthersStay
  <2> QED
    BY <1>2, <2>1 DEF BeingPut
<1>4. CASE f = g
  <2>1. Writes(req[g])
    BY <1>1, <1>2, <1>4, KindAt DEF Writing
  <2>2. Temp(g) \in DOMAIN file /\ p \notin dirs
    BY <1>2, <1>4, <2>1 DEF WriteInv, Filled
  <2>3. CanRename(Temp(g), p)
    BY <1>2, <1>4, <2>1, <2>2, CanPut
  <2>4. ReplaceAgain(g)
    BY <1>2, <1>4 DEF HandlerStep, At, Refused, Exists, CheckQuota, CountTorn, Parents, OpenTemp,
       FillTemp, FillFails, DropTemp, Replace, RemoveTarget, ClearTombstone, RemoveOne, Collect,
       RemoveAll, RemoveEntry, Look, Rename, Record, ClearDest, Recorded, Folder, Notify, Walk,
       Listed
  <2>6. ~Mishap(untold[g])
    <3>1. p \in untold[g] /\ p \in Path
      BY <1>1, <1>2, <1>4 DEF Typed
    <3> QED
      BY <3>1, MishapUnsure
  <2>5. Put(g)
    BY <1>2, <1>4, <2>3, <2>4, <2>6 DEF ReplaceAgain
  <2> QED
    BY <1>2, <1>4, <2>5, PutThere
<1> QED
  BY <1>3, <1>4

LEMMA WriteKept ==
  ASSUME TypeInv, TypeInv', OwnInv, WriteInv, TellInv, [Next]_vars
  PROVE  WriteInv'
<1> SUFFICES ASSUME NEW h \in Handlers, pc'[h] # "idle", Writes(req'[h]),
                    NEW p, p = req'[h].path, Sure(p)'
             PROVE  /\ pc'[h] \in {"fill"} \cup Filled => Append(Front(p), h) \in DOMAIN file'
                    /\ pc'[h] = "again" /\ p \in untold'[h] => p \notin dirs'
                    /\ req'[h].kind = "share" /\ pc'[h] \in {"quota", "parents"} \cup Writing =>
                          p \in DOMAIN file' \/ BeingPut(p)'
                    /\ pc'[h] = "clear" => p \in DOMAIN file' \/ BeingPut(p)'
  <2> SUFFICES ASSUME NEW h \in Handlers, pc'[h] # "idle", Writes(req'[h]), Sure(req[h].path)'
               PROVE  /\ pc'[h] \in {"fill"} \cup Filled => Append(Front(req'[h].path), h) \in DOMAIN file'
                      /\ pc'[h] = "again" /\ req'[h].path \in untold'[h] => req'[h].path \notin dirs'
                      /\ req'[h].kind = "share" /\ pc'[h] \in {"quota", "parents"} \cup Writing =>
                            req'[h].path \in DOMAIN file' \/ BeingPut(req[h].path)'
                      /\ pc'[h] = "clear" => req'[h].path \in DOMAIN file' \/ BeingPut(req[h].path)'
    BY DEF WriteInv, Temp
  <2> QED
    OBVIOUS
<1> DEFINE HasTemp == pc'[h] \in {"fill"} \cup Filled => Append(Front(p), h) \in DOMAIN file'
           NoFolder == pc'[h] = "again" /\ p \in untold'[h] => p \notin dirs'
           Grantee == req'[h].kind = "share" /\ pc'[h] \in {"quota", "parents"} \cup Writing =>
                         p \in DOMAIN file' \/ BeingPut(p)'
           IsPut == pc'[h] = "clear" => p \in DOMAIN file' \/ BeingPut(p)'
           Claim == HasTemp /\ NoFolder /\ Grantee /\ IsPut
<1>1. /\ Serving /\ Typed /\ ClashInv /\ unsure \subseteq unsure' /\ DOMAIN pc = Handlers
      /\ Tree(file, dirs)
  BY WhoMoves DEF TypeInv, Serving, OwnInv, Typed
<1>2. Sure(p)
  BY <1>1 DEF Sure
<1>3. ASSUME req'[h] = req[h], pc[h] # "idle"
      PROVE  /\ Writes(req[h]) /\ req[h].kind # "list" /\ p = req[h].path /\ p \in Path /\ p \in Roots(req[h])
             /\ IsPrefix(p, p) /\ Temp(h) = Append(Front(p), h) /\ Temp(h) # p
             /\ pc[h] \in PhasesOf[req[h].kind] /\ req[h].kind \in Kinds
  <2>1. Writes(req[h]) /\ req[h].kind # "list" /\ p = req[h].path
    BY <1>3 DEF Writes
  <2>2. p \in Path /\ p \in Seq(Names) /\ p \in Roots(req[h]) /\ pc[h] \in PhasesOf[req[h].kind] /\ req[h].kind \in Kinds
    BY <1>1, <1>3, <2>1, Asked, RootsAre
  <2>3. Temp(h) \notin Seq(Names) /\ IsPrefix(p, p)
    BY <1>1, <1>3, <2>1, <2>2, AboveTemp, PrefixOrder
  <2> QED
    BY <2>1, <2>2, <2>3 DEF Temp
<1>4. ASSUME req'[h] = req[h], pc[h] # "idle"
      PROVE  /\ pc[h] \in {"fill"} \cup Filled => Temp(h) \in DOMAIN file
             /\ pc[h] = "again" /\ p \in untold[h] => p \notin dirs
             /\ req[h].kind = "share" /\ pc[h] \in {"quota", "parents"} \cup Writing =>
                   p \in DOMAIN file \/ BeingPut(p)
             /\ pc[h] = "clear" => p \in DOMAIN file \/ BeingPut(p)
  BY <1>2, <1>3, <1>4 DEF WriteInv
<1>5. ASSUME NEW g \in Handlers, HandlerStep(g), req'[h] = req[h], pc[h] # "idle"
      PROVE  /\ p \in dirs' => p \in dirs
             /\ p \in DOMAIN file \/ BeingPut(p) => p \in DOMAIN file' \/ BeingPut(p)'
  <2>1. /\ p \in dirs' => p \in dirs
        /\ p \in DOMAIN file => p \in DOMAIN file' \/ BeingPut(p)'
    BY <1>1, <1>2, <1>3, <1>5, FileStays
  <2>2. BeingPut(p) => p \in DOMAIN file' \/ BeingPut(p)'
    BY <1>2, <1>5, BeingPutStays
  <2> QED
    BY <2>1, <2>2
<1>6. ASSUME HandlerStep(h) PROVE Claim
  <2>1. req'[h] = req[h] /\ pc[h] # "idle" /\ ~Done(h)
    BY <1>1, <1>6, RequestSteps DEF Done
  <2>2. /\ p \in dirs' => p \in dirs
        /\ p \in DOMAIN file \/ BeingPut(p) => p \in DOMAIN file' \/ BeingPut(p)'
    BY <1>5, <1>6, <2>1
  <2>3. pc[h] \in {"exists", "quota", "parents", "clear", "notify"} \cup Writing
    BY <1>3, <2>1 DEF Writes, PhasesOf
  <2> USE DEF At, Step, Goto
  <2>4. CASE Exists(h)
    <3>1. pc'[h] = "quota" /\ p \in DOMAIN file /\ file' = file /\ dirs' = dirs
      BY <1>1, <1>3, <2>1, <2>4 DEF Exists, tree
    <3> QED
      BY <3>1 DEF Filled, Writing
  <2>5. CASE CheckQuota(h) \/ CountTorn(h) \/ Parents(h)
    <3>1. pc[h] \in {"quota", "parents"} /\ pc'[h] \in {"parents", "temp"}
      BY <1>1, <1>3, <2>1, <2>5 DEF CheckQuota, CountTorn, Parents, Writes
    <3> QED
      BY <1>4, <2>1, <2>2, <3>1 DEF Filled, Writing
  <2>6. CASE OpenTemp(h)
    <3>1. pc[h] = "temp" /\ pc'[h] = "fill" /\ file' = With(Temp(h), [size |-> 0, whole |-> FALSE])
      BY <1>1, <2>1, <2>6 DEF OpenTemp, SetTree
    <3>2. Append(Front(p), h) \in DOMAIN file'
      BY <1>3, <2>1, <3>1 DEF With
    <3> QED
      BY <1>4, <2>1, <2>2, <3>1, <3>2 DEF Writing
  <2>7. CASE FillTemp(h)
    <3>1. pc[h] = "fill" /\ pc'[h] = "replace" /\ DOMAIN file' = DOMAIN file
      BY <1>1, <2>1, <2>7 DEF FillTemp, SetTree
    <3> QED
      BY <1>3, <1>4, <2>1, <2>2, <3>1 DEF Writing
  <2>8. ASSUME pc[h] \in {"replace", "again"}, Put(h) PROVE Claim
    <3>1. pc'[h] \in {"clear", "notify"} /\ p \in DOMAIN file'
      BY <1>1, <1>3, <2>1, <2>8, PutThere DEF Put
    <3> QED
      BY <3>1 DEF Filled, Writing
  <2>9. CASE Replace(h) /\ ~Put(h)
    <3>1. pc[h] = "replace" /\ pc'[h] = "fallback" /\ file' = file
      BY <1>1, <1>3, <2>1, <2>9 DEF Replace, tree
    <3> QED
      BY <1>3, <1>4, <2>1, <2>2, <3>1 DEF Filled, Writing
  <2>10. CASE RemoveTarget(h)
    <3>1. pc[h] = "fallback" /\ pc'[h] = "again"
      BY <1>1, <2>1, <2>10 DEF RemoveTarget
    <3>2. p \notin untold[h]
      BY <1>2, <1>3, <2>1, <3>1 DEF TellInv, WillTell, Writes
    <3>3. CASE file' = Without(p) /\ dirs' = dirs \ {p}
      <4>2. Temp(h) \in DOMAIN file'
        BY <1>3, <1>4, <2>1, <3>1, <3>3 DEF Without, Filled
      <4> QED
        BY <1>3, <1>4, <2>1, <2>2, <3>1, <3>3, <4>2 DEF Writing
    <3>4. CASE file' = file /\ untold' = untold
      BY <1>3, <1>4, <2>1, <2>2, <3>1, <3>2, <3>4 DEF Filled, Writing
    <3> QED
      BY <1>3, <2>1, <2>10, <3>3, <3>4 DEF RemoveTarget, SetTree, tree, changes
  <2>11. CASE ClearTombstone(h)
    <3>1. pc'[h] = "notify"
      BY <1>1, <2>11 DEF ClearTombstone
    <3> QED
      BY <3>1 DEF Filled, Writing
  <2>12. /\ ~Refused(h) /\ ~FillFails(h) /\ ~Notify(h) /\ (ReplaceAgain(h) => pc[h] = "again" /\ Put(h))
         /\ (Replace(h) => pc[h] = "replace")
    BY <2>1 DEF Refused, FillFails, Notify, ReplaceAgain, Replace
  <2> HIDE DEF Claim
  <2> QED
    BY <1>6, <2>3, <2>4, <2>5, <2>6, <2>7, <2>8, <2>9, <2>10, <2>11, <2>12 DEF HandlerStep, Writing,
       RemoveOne, Collect, RemoveAll, RemoveEntry, Look, Rename, Record, ClearDest, Recorded, Folder,
       Walk, Listed
<1>7. ASSUME NEW g \in Handlers \ {h}, HandlerStep(g), Rests(h) PROVE Claim
  <2>1. req'[h] = req[h] /\ pc[h] # "idle" /\ pc'[h] = pc[h] /\ untold'[h] = untold[h]
    BY <1>7 DEF Rests
  <2>2. pc[g] # "idle" /\ ~Clash(req[g], req[h])
    <3>1. pc[g] # "idle"
      BY <1>1, <1>7, TreeKept
    <3> QED
      BY <1>1, <1>2, <1>3, <2>1, <3>1, SureIsCalm DEF ClashInv, Active, Troubled
  <2>3. ~Touches(g, Temp(h))
    BY <1>1, <1>3, <2>1, <2>2, TempApart
  <2>4. Temp(h) \in DOMAIN file => Temp(h) \in DOMAIN file'
    BY <1>1, <1>7, <2>3, TreeKept DEF Tree
  <2> QED
    BY <1>3, <1>4, <1>5, <1>7, <2>1, <2>4
<1>8. ASSUME UNCHANGED <<tree, tomb, ever>>, Rests(h) \/ Arrives(h),
             \A f \in Handlers : pc[f] # "idle" => Rests(f)
      PROVE  Claim
  <2>1. CASE Arrives(h)
    <3>1. req'[h].kind \in Kinds /\ pc'[h] = FirstPhase[req'[h].kind]
      BY <2>1 DEF Arrives
    <3> QED
      BY <3>1, FirstPhases DEF Writing, Filled
  <2>2. CASE Rests(h)
    <3>1. /\ req'[h] = req[h] /\ pc[h] # "idle" /\ pc'[h] = pc[h] /\ untold'[h] = untold[h]
          /\ file' = file /\ dirs' = dirs
      BY <1>8, <2>2 DEF Rests, tree
    <3>2. BeingPut(p) => BeingPut(p)'
      BY <1>8 DEF BeingPut, Rests
    <3> QED
      BY <1>3, <1>4, <3>1, <3>2
  <2> QED
    BY <1>8, <2>1, <2>2
<1> HIDE DEF Claim
<1> USE DEF Claim
<1> QED
  BY <1>6, <1>7, <1>8, WhoMoves

\* A folder's deletion that has come so far undisturbed does not fail.
LEMMA NothingNew ==
  ASSUME TypeInv, OwnInv, NEW h \in Handlers, pc[h] = "removing", ~Troubled(h),
         NEW p \in scan[h], \A q \in scan[h] : Len(q) <= Len(p)
  PROVE  ~Occupied(p)
<1>1. Serving /\ Typed /\ RmdirInv /\ DOMAIN file \subseteq Path /\ dirs \subseteq Path
  BY NamesArePaths DEF TypeInv, OwnInv, Typed, Tree
<1>2. req[h].kind = "rmdir" /\ req[h].path \in Path
  BY <1>1, KindAt, Asked
<1>3. p \in Path /\ IsPrefix(req[h].path, p)
  BY <1>1, <1>2 DEF Typed
<1> SUFFICES ASSUME NEW q \in DOMAIN file \cup dirs, IsStrictPrefix(p, q) PROVE FALSE
  BY DEF Occupied
<1>4. q \in Path /\ IsPrefix(req[h].path, q)
  BY <1>1, <1>2, <1>3, PrefixOrder DEF IsStrictPrefix
<1>5. q \in scan[h]
  BY <1>1, <1>2, <1>4 DEF RmdirInv
<1>6. Len(q) <= Len(p) /\ Len(p) < Len(q) /\ Len(p) \in Nat /\ Len(q) \in Nat
  BY <1>3, <1>4, <1>5, PrefixElements, PrefixIsBeginning
<1> QED
  BY <1>6

\* One line of the handler's own code.
LEMMA TellStep ==
  ASSUME TypeInv, OwnInv, WriteInv, TellInv, NEW h \in Handlers, HandlerStep(h), Serving',
         NEW p \in untold'[h], p \in Path, Sure(p), Sure(p)'
  PROVE  WillTell(h, p)'
<1>1. /\ Serving /\ Typed /\ DOMAIN pc = Handlers /\ DOMAIN req = Handlers
      /\ untold \in [Handlers -> SUBSET Path] /\ wasDir \in [Handlers -> BOOLEAN]
      /\ pc[h] # "idle"
  BY ServingStep DEF TypeInv, Serving, Typed
<1>2. /\ req[h].path \in Path /\ req[h].to \in Path /\ IsPrefix(req[h].path, req[h].path)
      /\ IsPrefix(req[h].to, req[h].to) /\ req[h].kind \in Kinds
  BY <1>1, Asked, PrefixOrder
<1>3. p \in untold[h] => WillTell(h, p)
  BY DEF TellInv
<1>4. ASSUME p \in untold[h]
      PROVE  pc[h] \in {"again", "clear", "notify", "record", "removing", "dest"}
  BY <1>3, <1>4 DEF WillTell
<1>5. \A f, d : SetTree(h, f, d, {}) => untold'[h] = untold[h]
  BY <1>1 DEF SetTree
<1>6. \A f, d, docs : SetTree(h, f, d, docs) => untold'[h] \subseteq untold[h] \cup docs
  BY <1>1 DEF SetTree
<1>7. UNCHANGED changes \/ UNCHANGED history => untold' = untold
  BY DEF changes, history
<1> USE DEF At
<1>8. CASE \/ Refused(h) \/ Exists(h) \/ CheckQuota(h) \/ CountTorn(h) \/ Parents(h) \/ Collect(h)
           \/ RemoveAll(h) \/ Look(h) \/ Folder(h) \/ Walk(h) \/ Listed(h)
  <2>1. untold' = untold
    BY <1>7, <1>8 DEF Refused, Exists, CheckQuota, CountTorn, Parents, Collect, RemoveAll, Look,
       Folder, Walk, Listed
  <2>2. pc[h] \notin {"again", "clear", "notify", "record", "removing", "dest"}
    BY <1>8 DEF Refused, Exists, CheckQuota, CountTorn, Parents, Collect, RemoveAll, Look, Folder,
       Walk, Listed
  <2> QED
    BY <1>4, <2>1, <2>2
<1>9. CASE OpenTemp(h) \/ FillTemp(h) \/ FillFails(h)
  <2>1. untold'[h] = untold[h] /\ pc[h] \in {"temp", "fill"}
    BY <1>5, <1>7, <1>9 DEF OpenTemp, FillTemp, FillFails, DropTemp
  <2> QED
    BY <1>4, <2>1
<1>10. ASSUME pc[h] \in {"replace", "again"}, Put(h), p \in untold[h] => p = req[h].path
       PROVE  WillTell(h, p)'
  <2>1. p = req[h].path
    BY <1>6, <1>10 DEF Put
  <2>2. pc'[h] \in {"clear", "notify"} /\ req'[h] = req[h]
    BY <1>1, <1>10 DEF Put, Step, Goto
  <2>3. Writes(req[h])
    BY <1>1, <1>10, KindAt DEF Writing
  <2> QED
    BY <2>1, <2>2, <2>3 DEF WillTell
<1>22. ASSUME NEW paths, Mishap(paths) PROVE p \notin paths
  BY <1>22, MishapUnsure
<1>11. CASE Replace(h)
  <2>1. pc[h] = "replace" /\ p \notin untold[h]
    BY <1>4, <1>11 DEF Replace
  <2>2. Put(h)
    BY <1>7, <1>11, <2>1 DEF Replace
  <2> QED
    BY <1>10, <2>1, <2>2
<1>12. CASE RemoveTarget(h)
  <2>1. pc[h] = "fallback" /\ pc'[h] = "again" /\ req'[h] = req[h] /\ p \notin untold[h]
    BY <1>1, <1>4, <1>12 DEF RemoveTarget, Step, Goto
  <2>2. p = req[h].path
    BY <1>6, <1>7, <1>12, <2>1 DEF RemoveTarget
  <2>3. Writes(req[h])
    BY <1>1, <2>1, KindAt DEF Writing
  <2> QED
    BY <2>1, <2>2, <2>3 DEF WillTell
<1>13. CASE ReplaceAgain(h)
  <2>1. pc[h] = "again"
    BY <1>13 DEF ReplaceAgain, DropTemp
  <2>2. Writes(req[h])
    BY <1>1, <2>1, KindAt DEF Writing
  <2>3. p \in untold[h] => p = req[h].path
    BY <1>3, <2>1, <2>2 DEF WillTell, Writes
  <2>4. ASSUME ~Put(h) PROVE FALSE
    <3>1. ~CanRename(Temp(h), req[h].path) /\ p \in untold[h]
      BY <1>5, <1>7, <1>13, <1>22, <2>4 DEF ReplaceAgain, DropTemp
    <3>2. Temp(h) \in DOMAIN file /\ req[h].path \notin dirs
      BY <1>1, <2>1, <2>2, <2>3, <3>1 DEF WriteInv, Filled
    <3> QED
      BY <1>1, <2>2, <3>1, <3>2, CanPut
  <2> QED
    BY <1>10, <2>1, <2>3, <2>4
<1>14. CASE ClearTombstone(h)
  <2>1. /\ pc[h] = "clear" /\ pc'[h] = "notify" /\ req'[h] = req[h] /\ untold' = untold /\ Writes(req[h])
    BY <1>1, <1>7, <1>14, KindAt DEF ClearTombstone, Step, Goto, Writes
  <2> QED
    BY <1>3, <2>1 DEF WillTell, Writes
<1>15. CASE RemoveOne(h)
  <2>1. pc[h] = "remove" /\ p \notin untold[h] /\ req[h].kind = "rm"
    BY <1>1, <1>4, <1>15, KindAt DEF RemoveOne
  <2>2. p = req[h].path /\ pc'[h] = "record" /\ req'[h] = req[h]
    BY <1>1, <1>6, <1>7, <1>15, <2>1 DEF RemoveOne, Goto
  <2> QED
    BY <2>1, <2>2 DEF WillTell
<1>16. CASE RemoveEntry(h)
  <2>1. pc[h] = "removing" /\ req[h].kind = "rmdir" /\ req[h].path \in Roots(req[h])
    BY <1>1, <1>16, KindAt, RootsAre DEF RemoveEntry
  <2>2. p \in untold[h] => IsPrefix(req[h].path, p)
    BY <1>3, <2>1 DEF WillTell, Writes
  <2>8. ~(Mishap(untold[h]) /\ UNCHANGED changes)
    BY <1>7, <1>22
  <2>3. PICK e \in scan[h] :
           /\ \A q \in scan[h] : Len(q) <= Len(e)
           /\ IF e \in dirs /\ Occupied(e)
                THEN Done(h) /\ UNCHANGED <<tree, changes>>
                ELSE /\ SetTree(h, Without(e), dirs \ {e}, DOMAIN file \cap {e})
                     /\ Goto(h, IF scan[h] = {e} THEN "record" ELSE "removing")
                     /\ UNCHANGED req
    BY <1>16, <2>8 DEF RemoveEntry
  <2>4. IsPrefix(req[h].path, e)
    BY <1>1, <2>1 DEF Typed
  <2>5. ASSUME e \in dirs, Occupied(e) PROVE FALSE
    <3>1. p \in untold[h] /\ IsPrefix(req[h].path, p)
      BY <1>7, <2>2, <2>3, <2>5
    <3>2. ~Troubled(h)
      BY <1>1, <2>1, <3>1, SureIsCalm
    <3> QED
      BY <2>1, <2>3, <2>5, <3>2, NothingNew
  <2>6. p \in untold[h] \cup {e} /\ pc'[h] \in {"record", "removing"} /\ req'[h] = req[h]
    BY <1>1, <1>6, <2>3, <2>5 DEF Goto
  <2>7. IsPrefix(req[h].path, p)
    BY <2>2, <2>4, <2>6
  <2> QED
    BY <2>1, <2>6, <2>7 DEF WillTell
<1>17. CASE Rename(h)
  <2> DEFINE a == req[h].path
             b == req[h].to
             moved == {q \in DOMAIN file : IsPrefix(a, q)}
  <2>1. /\ pc[h] = "rename" /\ req[h].kind = "move" /\ a \in Roots(req[h]) /\ b \in Roots(req[h])
        /\ p \notin untold[h]
    BY <1>1, <1>4, <1>17, KindAt, RootsAre DEF Rename
  <2>2. /\ SetTree(h, Renamed(a, b), {Moved(a, b, q) : q \in dirs}, moved \cup {Moved(a, b, q) : q \in moved})
        /\ CanRename(a, b) /\ pc'[h] = "record" /\ req'[h] = req[h] /\ wasDir'[h] = wasDir[h]
    BY <1>1, <1>7, <1>17, <2>1 DEF Rename, Step, Goto
  <2>3. p \in moved \cup {Moved(a, b, q) : q \in moved}
    BY <1>6, <2>1, <2>2
  <2>4. DOMAIN file \subseteq Path /\ Tree(file, dirs) /\ \A q \in DOMAIN file : q \notin dirs
    BY <1>1 DEF Typed, Tree
  <2>5. IsPrefix(a, p) \/ IsPrefix(b, p)
    <3>1. ASSUME NEW q \in moved PROVE IsPrefix(b, Moved(a, b, q))
      BY <1>2, <2>4, <3>1, MovedUnder
    <3> QED
      BY <2>3, <3>1
  <2>6. ASSUME ~wasDir[h] PROVE p \in {a, b}
    <3>1. ~Troubled(h)
      BY <1>1, <2>1, <2>5, SureIsCalm
    <3>2. a \in dirs => IsStrictPrefix(a, b)
      BY <1>1, <2>1, <2>6, <3>1 DEF OwnInv, MoveInv
    <3>3. a \in DOMAIN file
      BY <2>2, <2>4, <3>2 DEF CanRename
    <3>4. moved = {a}
      BY <1>2, <2>4, <3>3, UnderAFile
    <3>5. Moved(a, b, a) = b
      BY <1>2, MovedUnder
    <3> QED
      BY <2>3, <3>4, <3>5
  <2> QED
    BY <2>1, <2>2, <2>5, <2>6 DEF WillTell
<1>18. CASE Record(h) \/ ClearDest(h) \/ Recorded(h)
  <2>1. /\ untold' = untold /\ req' = req /\ wasDir' = wasDir /\ pc[h] \in {"record", "dest"}
    BY <1>7, <1>18 DEF Record, ClearDest, Recorded, Step
  <2>2. pc'[h] \in {"record", "notify"} \/ (pc'[h] = "dest" /\ req[h].kind = "move")
    BY <1>1, <1>18 DEF Record, ClearDest, Recorded, Step, Goto
  <2>3. WillTell(h, p) /\ req[h].kind \in {"rm", "rmdir", "move"}
    BY <1>1, <1>3, <2>1, KindAt
  <2> QED
    BY <2>1, <2>2, <2>3 DEF WillTell, Writes
<1>19. CASE Notify(h)
  <2>1. /\ pc[h] = "notify"
        /\ untold'[h] = IF req[h].kind \in {"rmdir", "folder"} \/ wasDir[h] THEN {}
                        ELSE untold[h] \ (IF req[h].kind = "move" THEN {req[h].path, req[h].to} ELSE {req[h].path})
    BY <1>1, <1>19 DEF Notify
  <2>2. p \in untold[h] /\ WillTell(h, p)
    BY <1>3, <2>1
  <2> QED
    BY <2>1, <2>2 DEF WillTell, Writes
<1> QED
  BY <1>8, <1>9, <1>11, <1>12, <1>13, <1>14, <1>15, <1>16, <1>17, <1>18, <1>19 DEF HandlerStep

LEMMA TellKept ==
  ASSUME TypeInv, TypeInv', OwnInv, WriteInv, TellInv, [Next]_vars
  PROVE  TellInv'
<1> SUFFICES ASSUME NEW h \in Handlers, NEW p \in untold'[h], Sure(p)' PROVE WillTell(h, p)'
  BY DEF TellInv
<1>1. /\ Serving /\ Typed /\ DOMAIN pc = Handlers /\ DOMAIN req = Handlers /\ unsure \subseteq unsure'
  BY UnsureGrows DEF TypeInv, Serving
<1>2. Sure(p)
  BY <1>1 DEF Sure
<1>3. ASSUME untold'[h] = untold[h], pc'[h] = pc[h], req'[h] = req[h], wasDir'[h] = wasDir[h]
      PROVE  WillTell(h, p)'
  <2>1. WillTell(h, p)
    BY <1>2, <1>3 DEF TellInv
  <2> QED
    BY <1>3, <2>1 DEF WillTell
<1>4. ASSUME NEW g \in Handlers, HandlerStep(g) PROVE WillTell(h, p)'
  <2>1. CASE g = h
    <3>1. p \in Path
      BY DEF TypeInv, Typed
    <3> QED
      BY <1>2, <1>4, <2>1, <3>1, TellStep DEF TypeInv
  <2>2. CASE g # h
    BY <1>1, <1>3, <1>4, <2>2, OthersStay
  <2> QED
    BY <2>1, <2>2
<1>5. ASSUME NEW g \in Handlers, NEW r \in Requests[g], Take(g, r) PROVE WillTell(h, p)'
  <2>1. untold' = untold /\ wasDir' = wasDir /\ pc[g] = "idle"
    BY <1>5 DEF Take, At
  <2>2. CASE g = h
    <3>1. WillTell(h, p)
      BY <1>2, <2>1 DEF TellInv
    <3> QED
      BY <2>1, <2>2, <3>1 DEF WillTell
  <2>3. CASE g # h
    BY <1>1, <1>3, <1>5, <2>1, <2>3 DEF Take, Goto
  <2> QED
    BY <2>2, <2>3
<1>6. CASE Crash
  BY <1>6 DEF Crash
<1>7. CASE UNCHANGED vars
  BY <1>3, <1>7 DEF vars, handling, history, changes
<1> QED
  BY <1>4, <1>5, <1>6, <1>7 DEF Next

\* What is written and what is announced, together.
ToldInv == WriteInv /\ TellInv

LEMMA ToldBegins == Init => ToldInv
BY DEF Init, ToldInv, WriteInv, TellInv

LEMMA ToldKept == TypeInv /\ TypeInv' /\ OwnInv /\ ToldInv /\ [Next]_vars => ToldInv'
BY WriteKept, TellKept DEF ToldInv

LEMMA ToldHolds == Spec => []ToldInv
BY TypesHold, OwnHolds, ToldBegins, ToldKept, PTL DEF Spec

\* Whatever a request changed it has announced by the time it is answered
\* (fNotifyChanges at the end of each handler), but where it met another one or was
\* cut off, and but what it had removed when the file system refused it the rest
\* (the second rename of a write, an entry of remove_all): that it says to no one.
THEOREM AllAnnounced == Spec => []ChangesAnnounced
<1>1. ToldInv => ChangesAnnounced
  BY DEF ToldInv, TellInv, WillTell, ChangesAnnounced, At
<1> QED
  BY <1>1, ToldHolds, PTL

----------------------------------------------------------------------------
(* What a grantee's write is about *)

\* Every document is known to have existed, and so is the one a grantee's write that
\* has passed its check is about.
GranteeInv ==
    /\ \A p \in DOMAIN file : IsDoc(p) => p \in ever
    /\ \A h \in Handlers : req[h].kind = "share" /\ pc[h] \notin {"idle", "exists"} =>
           req[h].path \in ever

\* What has existed stays known, and what is written becomes so.
LEMMA EverKept ==
  ASSUME TypeInv, GranteeInv, [Next]_vars
  PROVE  ever \subseteq ever' /\ \A p \in DOMAIN file' : IsDoc(p) => p \in ever'
<1>1. Serving /\ Typed
  BY DEF TypeInv
<1>2. ASSUME NEW g \in Handlers, HandlerStep(g)
      PROVE  ever \subseteq ever' /\ \A p \in DOMAIN file' : IsDoc(p) => p \in ever'
  <2>1. Changes(g)
    BY <1>1, <1>2, TreeKept
  <2> QED
    BY <2>1 DEF GranteeInv, Changes, Keeps, Makes, Opens, Fills, Drops, Puts, Removes, Renames, Follows
<1>3. ASSUME NEW g \in Handlers, NEW r \in Requests[g], Take(g, r) PROVE ever' = ever /\ file' = file
  BY <1>3 DEF Take, tree
<1>4. CASE Crash
  BY <1>4 DEF Crash, tree, GranteeInv
<1>5. CASE UNCHANGED vars
  BY <1>5 DEF vars, tree, history, changes, GranteeInv
<1> QED
  BY <1>2, <1>3, <1>4, <1>5 DEF Next, GranteeInv

LEMMA GranteeKept == TypeInv /\ TypeInv' /\ GranteeInv /\ [Next]_vars => GranteeInv'
<1> SUFFICES ASSUME TypeInv, TypeInv', GranteeInv, [Next]_vars,
                    NEW h \in Handlers, req'[h].kind = "share", pc'[h] \notin {"idle", "exists"}
             PROVE  req'[h].path \in ever'
  BY EverKept DEF GranteeInv
<1>1. Serving /\ Typed /\ ever \subseteq ever'
  BY EverKept DEF TypeInv
<1>2. CASE Rests(h)
  BY <1>1, <1>2 DEF Rests, GranteeInv
<1>3. CASE HandlerStep(h)
  <2>1. req'[h] = req[h] /\ pc[h] # "idle"
    BY <1>1, <1>3, RequestSteps
  <2>2. CASE pc[h] = "exists"
    <3>1. Exists(h)
      BY <1>3, <2>2 DEF HandlerStep, At, Refused, CheckQuota, CountTorn, Parents, OpenTemp, FillTemp,
         FillFails, Replace, RemoveTarget, ReplaceAgain, ClearTombstone, RemoveOne, Collect,
         RemoveAll, RemoveEntry, Look, Rename, Record, ClearDest, Recorded, Folder, Notify, Walk,
         Listed
    <3>2. ~Done(h)
      BY <1>1 DEF Done, Serving
    <3>3. req[h].path \in DOMAIN file
      BY <3>1, <3>2 DEF Exists
    <3>4. IsDoc(req[h].path)
      <4>1. req[h].path \in Seq(Names) /\ req[h].path # <<>>
        BY <1>1, <2>1, Asked
      <4>2. Last(req[h].path) \in Names
        BY <4>1 DEF Last
      <4> QED
        BY <4>2, NamesAndHandlers DEF IsDoc, IsTemp
    <3> QED
      BY <1>1, <2>1, <3>3, <3>4 DEF GranteeInv
  <2>3. CASE pc[h] # "exists"
    BY <1>1, <2>1, <2>3 DEF GranteeInv
  <2> QED
    BY <2>2, <2>3
<1>4. CASE Arrives(h)
  BY <1>4, FirstPhases DEF Arrives, FirstPhase
<1> QED
  BY <1>2, <1>3, <1>4, WhoMoves

LEMMA GranteeHolds == Spec => []GranteeInv
<1>1. Init => GranteeInv
  BY DEF Init, GranteeInv
<1> QED
  BY <1>1, GranteeKept, TypesHold, PTL DEF Spec

\* A grantee's step changes the file it is about.
LEMMA GranteeStep ==
  ASSUME TypeInv, GranteeInv, NEW h \in Handlers, HandlerStep(h), req[h].kind = "share"
  PROVE  untold'[h] \subseteq untold[h] \cup ever
<1>1. /\ Serving /\ Typed /\ pc[h] # "idle" /\ Writes(req[h])
      /\ untold \in [Handlers -> SUBSET Path]
  BY ServingStep DEF TypeInv, Typed, Writes
<1>2. \A f, d, docs : SetTree(h, f, d, docs) => untold'[h] \subseteq untold[h] \cup docs
  BY <1>1 DEF SetTree
<1>3. UNCHANGED changes \/ UNCHANGED history => untold' = untold
  BY DEF changes, history
<1>4. pc[h] \notin {"clear", "remove", "collect", "removeAll", "removing", "look", "rename", "record",
                    "dest", "folder", "walk"}
  BY <1>1, KindAt, Asked DEF PhasesOf, Writing
<1>5. pc[h] # "exists" => req[h].path \in ever
  BY <1>1 DEF GranteeInv
<1> USE DEF At
<1>6. CASE Put(h) /\ pc[h] \in {"replace", "again"}
  BY <1>2, <1>5, <1>6 DEF Put
<1>7. CASE RemoveTarget(h)
  BY <1>2, <1>3, <1>5, <1>7 DEF RemoveTarget
<1>8. CASE (Replace(h) \/ ReplaceAgain(h)) /\ ~Put(h)
  BY <1>2, <1>3, <1>8 DEF Replace, ReplaceAgain, DropTemp
<1>9. CASE OpenTemp(h) \/ FillTemp(h) \/ FillFails(h)
  BY <1>2, <1>3, <1>9 DEF OpenTemp, FillTemp, FillFails, DropTemp
<1>10. CASE Refused(h) \/ Exists(h) \/ CheckQuota(h) \/ CountTorn(h) \/ Parents(h)
  BY <1>3, <1>10 DEF Refused, Exists, CheckQuota, CountTorn, Parents
<1>11. CASE Notify(h)
  BY <1>1, <1>11 DEF Notify
<1> QED
  BY <1>4, <1>6, <1>7, <1>8, <1>9, <1>10, <1>11 DEF HandlerStep, Replace, ReplaceAgain,
     ClearTombstone, RemoveOne, Collect, RemoveAll, RemoveEntry, Look, Rename, Record, ClearDest,
     Recorded, Folder, Walk, Listed

\* What a grantee's write changes is a document the owner has had at that path.  One
\* that the owner takes away between the check and the write is brought back
\* (fWriteThrough).
THEOREM GranteesOnlyEdit == Spec => GranteesAddNothing
<1>2. ASSUME TypeInv, GranteeInv, [Next]_vars, NEW h \in Handlers, req[h].kind = "share"
      PROVE  untold'[h] \subseteq untold[h] \cup ever
  <2>1. Serving /\ Typed
    BY <1>2 DEF TypeInv
  <2>2. ASSUME NEW g \in Handlers, HandlerStep(g) PROVE untold'[h] \subseteq untold[h] \cup ever
    BY <1>2, <2>1, <2>2, GranteeStep, OthersStay
  <2>3. ASSUME NEW g \in Handlers, NEW r \in Requests[g], Take(g, r) PROVE untold' = untold
    BY <2>3 DEF Take
  <2>4. Crash => untold'[h] = {}
    BY DEF Crash
  <2>5. UNCHANGED vars => untold' = untold
    BY DEF vars, history, changes
  <2> QED
    BY <1>2, <2>2, <2>3, <2>4, <2>5 DEF Next
<1>3. TypeInv /\ GranteeInv /\ [Next]_vars =>
          [\A h \in Handlers : req[h].kind = "share" => untold'[h] \subseteq untold[h] \cup ever]_vars
  BY <1>2
<1> QED
  BY <1>3, GranteeHolds, TypesHold, PTL DEF Spec, GranteesAddNothing

----------------------------------------------------------------------------
(* Tombstones *)

\* The handler will clear p's tombstone; or record one, or put a file there in place of
\* the one it took away.
Clears(h, p) ==
    \/ req[h].kind = "put" /\ pc[h] = "clear" /\ p = req[h].path
    \/ /\ req[h].kind = "move" /\ pc[h] \in {"record", "dest"}
       /\ \E q \in inside[h] : p = Moved(req[h].path, req[h].to, q)
    \/ /\ req[h].kind = "move" /\ pc[h] = "dest"
       /\ \E q \in scan[h] : p = Moved(req[h].path, req[h].to, q)

Remembers(h, p) == pc[h] \in {"removing", "record", "dest"} /\ p \in inside[h]
Replaces(h, p) == pc[h] = "again" /\ req[h].path = p /\ p \in untold[h]
Minds(h, p) == Remembers(h, p) \/ Replaces(h, p)

\* Where a document, be it there or about to be put back, has a tombstone, or has none
\* and is gone, a handler is still about it.
TombAt(p) ==
    /\ (p \in DOMAIN file \/ BeingPut(p)) /\ p \in tomb => \E h \in Handlers : Clears(h, p)
    /\ p \notin DOMAIN file /\ p \notin tomb => \E h \in Handlers : Minds(h, p)

TombInv ==
    /\ \A p \in DOMAIN file : IsDoc(p) => p \in ever
    /\ \A p \in ever : Sure(p) => TombAt(p)

\* What another handler is about it stays about.
LEMMA MindStays ==
  ASSUME Serving, Typed, NEW g \in Handlers, HandlerStep(g), NEW h \in Handlers, h # g, NEW p
  PROVE  /\ Clears(h, p) => Clears(h, p)'
         /\ Minds(h, p) => Minds(h, p)'
<1>1. /\ pc'[h] = pc[h] /\ req'[h] = req[h]
      /\ inside'[h] = inside[h] /\ scan'[h] = scan[h] /\ untold'[h] = untold[h]
  BY OthersStay
<1> QED
  BY <1>1 DEF Clears, Minds, Remembers, Replaces

\* A file that is being put after a step was before, or was there.
LEMMA BeingPutBefore ==
  ASSUME TypeInv, ToldInv, NEW g \in Handlers, HandlerStep(g), NEW p, Sure(p), BeingPut(p)'
  PROVE  BeingPut(p) \/ p \in DOMAIN file
<1>1. Serving /\ Typed /\ DOMAIN pc = Handlers /\ TellInv
  BY DEF TypeInv, Serving, ToldInv
<1>2. PICK f \in Handlers : pc'[f] = "again" /\ req'[f].path = p /\ p \in untold'[f]
  BY DEF BeingPut
<1>3. CASE f # g
  <2>1. pc'[f] = pc[f] /\ req'[f] = req[f] /\ untold'[f] = untold[f]
    BY <1>1, <1>3, OthersStay
  <2> QED
    BY <1>2, <2>1 DEF BeingPut
<1>4. CASE f = g
  <2>1. pc[g] # "idle" /\ req'[g] = req[g] /\ pc'[g] = "again"
    BY <1>1, <1>2, <1>4, ServingStep, RequestSteps
  <2>2. RemoveTarget(g)
    <3>1. \A phase : Goto(g, phase) \/ Step(g, phase) => phase = "again"
      BY <1>1, <2>1 DEF Goto, Step
    <3>2. ~Done(g) /\ (pc' # pc \/ pc[g] = "again")
      BY <1>1, <2>1 DEF Done
    <3>3. pc[g] = "again" => ReplaceAgain(g)
      BY DEF HandlerStep, At, Refused, Exists, CheckQuota, CountTorn, Parents, OpenTemp, FillTemp,
         FillFails, Replace, RemoveTarget, ClearTombstone, RemoveOne, Collect, RemoveAll,
         RemoveEntry, Look, Rename, Record, ClearDest, Recorded, Folder, Notify, Walk, Listed
    <3>4. ~ReplaceAgain(g)
      <4>1. ~Done(g)
        BY <1>1, <2>1 DEF Done
      <4>2. ~Put(g)
        BY <3>1 DEF Put
      <4> QED
        BY <4>1, <4>2 DEF ReplaceAgain
    <3>5. ~Done(g) /\ pc' # pc
      BY <1>1, <2>1, <3>2, <3>3, <3>4 DEF Done
    <3>6. ~(Refused(g) \/ Exists(g) \/ CheckQuota(g) \/ CountTorn(g) \/ Parents(g) \/ OpenTemp(g)
            \/ FillTemp(g) \/ FillFails(g) \/ ClearTombstone(g) \/ RemoveOne(g) \/ Collect(g))
      BY <3>1, <3>5 DEF Refused, Exists, CheckQuota, CountTorn, Parents, OpenTemp, FillTemp, FillFails,
         ClearTombstone, RemoveOne, Collect
    <3>7. ~Replace(g)
      BY <3>1 DEF Replace, Put
    <3>8. ~(RemoveAll(g) \/ RemoveEntry(g) \/ Look(g) \/ Rename(g) \/ Record(g) \/ ClearDest(g)
            \/ Recorded(g) \/ Folder(g) \/ Notify(g) \/ Walk(g) \/ Listed(g))
      BY <3>1, <3>5 DEF RemoveAll, RemoveEntry, Look, Rename, Record, ClearDest, Recorded, Folder,
         Notify, Walk, Listed
    <3> QED
      BY <3>4, <3>6, <3>7, <3>8 DEF HandlerStep
  <2>3. pc[g] = "fallback"
    BY <2>2 DEF RemoveTarget, At
  <2>4. p \notin untold[g]
    BY <1>1, <2>3, KindAt DEF TellInv, WillTell, Writing, Writes
  <2>5. untold'[g] \subseteq untold[g] \cup (DOMAIN file \cap {req[g].path})
    BY <1>1, <2>2 DEF RemoveTarget, SetTree, changes, Typed
  <2> QED
    BY <1>2, <1>4, <2>4, <2>5
<1> QED
  BY <1>3, <1>4

\* Where a file and its tombstone disagreed, another handler is still about it.
LEMMA Inherited ==
  ASSUME Serving, Typed, TombInv, NEW g \in Handlers, HandlerStep(g), NEW p \in ever', IsDoc(p), Sure(p)
  PROVE  /\ p \in ever \/ p \in DOMAIN file' \ DOMAIN file
         /\ p \in DOMAIN file \/ (p \in ever /\ BeingPut(p)) =>
                (p \in tomb => Clears(g, p) \/ \E h \in Handlers : Clears(h, p)')
         /\ p \notin DOMAIN file /\ p \notin DOMAIN file' /\ p \notin tomb =>
                Minds(g, p) \/ \E h \in Handlers : Minds(h, p)'
<1>1. p \in ever \/ p \in DOMAIN file'
  <2>1. Changes(g) => p \in ever \/ p \in DOMAIN file'
    BY DEF Changes, Keeps, Makes, Opens, Fills, Drops, Puts, Removes, Renames, Follows
  <2> QED
    BY <2>1, TreeKept
<1>2. p \in ever => TombAt(p)
  BY DEF TombInv
<1>3. p \in DOMAIN file => p \in ever
  BY DEF TombInv
<1> QED
  BY <1>1, <1>2, <1>3, MindStays DEF TombAt

\* A path whose file and tombstone a step leaves alone, the handler being about it
\* no less than before.
LEMMA Quiet ==
  ASSUME TypeInv, ToldInv, TombInv, NEW g \in Handlers, HandlerStep(g), NEW p \in ever', IsDoc(p), Sure(p),
         p \in DOMAIN file' <=> p \in DOMAIN file, p \in tomb' <=> p \in tomb,
         Clears(g, p) => Clears(g, p)', Minds(g, p) => Minds(g, p)'
  PROVE  TombAt(p)'
<1>0. Serving /\ Typed
  BY DEF TypeInv
<1>3. p \in ever /\ (BeingPut(p)' => BeingPut(p) \/ p \in DOMAIN file)
  BY <1>0, Inherited, BeingPutBefore
<1>1. (p \in DOMAIN file' \/ BeingPut(p)') /\ p \in tomb' => \E h \in Handlers : Clears(h, p)'
  BY <1>0, <1>3, Inherited
<1>2. p \notin DOMAIN file' /\ p \notin tomb' => \E h \in Handlers : Minds(h, p)'
  BY <1>0, Inherited
<1> QED
  BY <1>1, <1>2 DEF TombAt

\* The steps before a handler has changed anything, and the last.
LEMMA TombIdle ==
  ASSUME TypeInv, ToldInv, TombInv, NEW g \in Handlers, HandlerStep(g), NEW p \in ever', IsDoc(p), Sure(p),
         \/ Refused(g) \/ Exists(g) \/ CheckQuota(g) \/ CountTorn(g) \/ Parents(g) \/ OpenTemp(g) \/ FillTemp(g)
         \/ FillFails(g) \/ (Replace(g) /\ ~Put(g)) \/ Collect(g) \/ RemoveAll(g) \/ Look(g) \/ Recorded(g)
         \/ Folder(g) \/ Notify(g) \/ Walk(g) \/ Listed(g)
  PROVE  TombAt(p)'
<1>1. Serving /\ Typed /\ pc[g] # "idle"
  BY ServingStep DEF TypeInv
<1>2. ~Clears(g, p) /\ ~Minds(g, p)
  <2>1. CASE Recorded(g)
    <3>1. pc[g] = "record" /\ inside[g] = {}
      BY <2>1 DEF Recorded, At
    <3> QED
      BY <3>1 DEF Clears, Minds, Remembers, Replaces
  <2>2. CASE ~Recorded(g)
    <3>1. pc[g] \notin {"again", "clear", "record", "dest", "removing"}
      BY <2>2 DEF Refused, Exists, CheckQuota, CountTorn, Parents, OpenTemp, FillTemp, FillFails,
         DropTemp, Replace, Collect, RemoveAll, Look, Folder, Notify, Walk, Listed, At
    <3> QED
      BY <3>1 DEF Clears, Minds, Remembers, Replaces
  <2> QED
    BY <2>1, <2>2
<1>3. tomb' = tomb
  BY DEF Refused, Exists, CheckQuota, CountTorn, Parents, OpenTemp, FillTemp, FillFails, DropTemp,
     Replace, Collect, RemoveAll, Look, Recorded, Folder, Notify, Walk, Listed
<1>4. p \in DOMAIN file' <=> p \in DOMAIN file
  <2>1. CASE OpenTemp(g) \/ FillFails(g)
    <3>1. pc[g] \in {"temp", "fill"}
      BY <2>1 DEF OpenTemp, FillFails, DropTemp, At
    <3>2. req[g].kind # "list"
      BY <1>1, <3>1, KindAt DEF Writing, Writes
    <3>3. IsTemp(Temp(g))
      BY <1>1, <3>2, TempIsOwn DEF IsTemp
    <3>4. p # Temp(g)
      BY <3>3 DEF IsDoc
    <3> QED
      BY <2>1, <3>4 DEF OpenTemp, FillFails, DropTemp, SetTree, With, Without, tree
  <2>2. CASE FillTemp(g)
    BY <2>2 DEF FillTemp, SetTree
  <2>3. CASE ~OpenTemp(g) /\ ~FillFails(g) /\ ~FillTemp(g)
    BY <2>3 DEF Refused, Exists, CheckQuota, CountTorn, Parents, Replace, Collect, RemoveAll, Look,
       Recorded, Folder, Notify, Walk, Listed, tree
  <2> QED
    BY <2>1, <2>2, <2>3
<1> QED
  BY <1>1, <1>2, <1>3, <1>4, Quiet

\* What a writer is about is the file it writes.
LEMMA WriterMinds ==
  ASSUME NEW g \in Handlers, Writes(req[g]), pc[g] \in Writing \cup {"clear"}, NEW p,
         p # req[g].path \/ pc[g] \notin {"again", "clear"}
  PROVE  ~Clears(g, p) /\ ~Minds(g, p)
BY DEF Clears, Minds, Remembers, Replaces, Writes, Writing

\* A writer that has put its file there and is no grantee.
LEMMA WriterClears ==
  ASSUME NEW g \in Handlers, req[g].kind = "put", req'[g] = req[g], pc'[g] = "clear",
         NEW p, p = req[g].path
  PROVE  Clears(g, p)'
BY DEF Clears

\* The rename of a temporary file into place.
LEMMA TombPut ==
  ASSUME TypeInv, ToldInv, GranteeInv, TombInv, NEW g \in Handlers, HandlerStep(g), NEW p \in ever', IsDoc(p), Sure(p),
         pc[g] \in {"replace", "again"}, Put(g), tomb' = tomb
  PROVE  TombAt(p)'
<1>1. Serving /\ Typed /\ DOMAIN pc = Handlers /\ Tree(file, dirs) /\ pc[g] # "idle" /\ WriteInv
  BY ServingStep DEF TypeInv, Serving, Typed, ToldInv
<1>2. Writes(req[g]) /\ req'[g] = req[g] /\ (req[g].kind = "put" => pc'[g] = "clear")
  BY <1>1, KindAt DEF Put, Step, Goto, Writing
<1>3. DOMAIN file' = (DOMAIN file \ {Temp(g)}) \cup {req[g].path} /\ p # Temp(g)
  <2>1. Puts(g)
    <3>1. CanRename(Temp(g), req[g].path) /\ file' = Renamed(Temp(g), req[g].path) /\ dirs' = dirs /\ Follows
      BY DEF Put, SetTree, Follows
    <3>2. pc'[g] \in {"clear", "notify"}
      BY <1>1 DEF Put, Step, Goto
    <3> QED
      BY <1>2, <3>1, <3>2 DEF Puts
  <2>2. IsTemp(Temp(g))
    BY <1>1, <1>2, TempIsOwn DEF IsTemp, Writes
  <2> QED
    BY <1>1, <2>1, <2>2, PutsFile DEF IsDoc
<1>4. CASE p # req[g].path
  BY <1>1, <1>2, <1>3, <1>4, WriterMinds, Quiet DEF Writing
<1>5. CASE p = req[g].path
  <2>1. p \in DOMAIN file'
    BY <1>3, <1>5
  <2>2. CASE req[g].kind = "put"
    <3>1. Clears(g, p)'
      BY <1>2, <1>5, <2>2, WriterClears
    <3> QED
      BY <2>1, <3>1 DEF TombAt
  <2>3. CASE req[g].kind # "put"
    <3>1. req[g].kind = "share" /\ (p \in DOMAIN file \/ BeingPut(p))
      BY <1>1, <1>2, <1>5, <2>3 DEF Writes, WriteInv, Writing
    <3>2. ~Clears(g, p)
      BY <3>1 DEF Clears
    <3>3. p \in ever
      BY <1>1, <1>5, <3>1 DEF GranteeInv
    <3>4. p \in tomb' => \E h \in Handlers : Clears(h, p)'
      BY <1>1, <3>1, <3>2, <3>3, Inherited
    <3> QED
      BY <2>1, <3>4 DEF TombAt
  <2> QED
    BY <2>2, <2>3
<1> QED
  BY <1>4, <1>5

\* The steps of a write that change the tree or the tombstones.
LEMMA TombWrite ==
  ASSUME TypeInv, ToldInv, GranteeInv, TombInv, NEW g \in Handlers, HandlerStep(g), NEW p \in ever', IsDoc(p), Sure(p),
         Sure(p)', Replace(g) \/ RemoveTarget(g) \/ ReplaceAgain(g) \/ ClearTombstone(g)
  PROVE  TombAt(p)'
<1>1. Serving /\ Typed /\ DOMAIN pc = Handlers /\ Tree(file, dirs) /\ pc[g] # "idle" /\ WriteInv
  BY ServingStep DEF TypeInv, Serving, Typed, ToldInv
<1>2. pc[g] \in {"replace", "fallback", "again", "clear"}
  BY DEF Replace, RemoveTarget, ReplaceAgain, DropTemp, ClearTombstone, At
<1>3. Writes(req[g]) /\ p # Temp(g)
  <2>1. Writes(req[g])
    BY <1>1, <1>2, KindAt DEF Writing, Writes
  <2>2. IsTemp(Temp(g))
    BY <1>1, <2>1, TempIsOwn DEF IsTemp, Writes
  <2> QED
    BY <2>1, <2>2 DEF IsDoc
<1>4. CASE Replace(g)
  <2>1. tomb' = tomb /\ pc[g] = "replace"
    BY <1>4 DEF Replace, At
  <2> QED
    BY <1>4, <2>1, TombPut, TombIdle
<1>5. CASE RemoveTarget(g)
  <2>1. /\ tomb' = tomb /\ pc[g] = "fallback" /\ pc'[g] = "again" /\ req'[g] = req[g]
        /\ DOMAIN file' \in {DOMAIN file, DOMAIN file \ {req[g].path}}
    <3>1. /\ tomb' = tomb /\ pc[g] = "fallback" /\ pc'[g] = "again" /\ req'[g] = req[g]
          /\ file' \in {file, Without(req[g].path)}
      BY <1>1, <1>5 DEF RemoveTarget, At, Step, Goto, SetTree, tree
    <3> QED
      BY <3>1 DEF Without
  <2>2. ~Clears(g, p) /\ ~Minds(g, p)
    BY <1>3, <2>1, WriterMinds DEF Writing
  <2>3. CASE p # req[g].path
    BY <1>1, <2>1, <2>2, <2>3, Quiet
  <2>4. CASE p = req[g].path
    <3>1. BeingPut(p)' => BeingPut(p) \/ p \in DOMAIN file
      BY BeingPutBefore
    <3>2. (p \in DOMAIN file' \/ BeingPut(p)') /\ p \in tomb' => \E h \in Handlers : Clears(h, p)'
      BY <1>1, <2>1, <2>2, <3>1, Inherited
    <3>3. p \notin DOMAIN file' /\ p \notin tomb' => \E h \in Handlers : Minds(h, p)'
      <4>1. CASE p \in DOMAIN file
        <5>1. p \in DOMAIN file' \/ p \in untold'[g]
          BY <1>1, <1>3, <2>4, <4>1, WriterPath
        <5>2. p \in untold'[g] => Minds(g, p)'
          BY <2>1, <2>4 DEF Minds, Replaces
        <5> QED
          BY <5>1, <5>2
      <4>2. CASE p \notin DOMAIN file
        BY <1>1, <2>1, <2>2, <4>2, Inherited
      <4> QED
        BY <4>1, <4>2
    <3> QED
      BY <3>2, <3>3 DEF TombAt
  <2> QED
    BY <2>3, <2>4
<1>6. CASE ReplaceAgain(g)
  <2>1. tomb' = tomb /\ pc[g] = "again"
    BY <1>6 DEF ReplaceAgain, DropTemp, At
  <2>2. CASE Put(g)
    BY <2>1, <2>2, TombPut
  <2>3. CASE ~Put(g)
    <3>1. /\ ~CanRename(Temp(g), req[g].path) \/ Mishap(untold[g])
          /\ p \in DOMAIN file' <=> p \in DOMAIN file
      BY <1>3, <1>6, <2>3 DEF ReplaceAgain, DropTemp, SetTree, Without, tree
    <3>2. ~Clears(g, p)
      BY <1>3, <2>1 DEF Clears, Writes
    <3>3. ~Minds(g, p)
      <4> SUFFICES ASSUME p = req[g].path, p \in untold[g] PROVE FALSE
        BY <2>1 DEF Minds, Remembers, Replaces
      <4>1. Temp(g) \in DOMAIN file /\ p \notin dirs
        BY <1>1, <1>3, <2>1 DEF WriteInv, Filled
      <4>2. p \in Path
        BY <1>1 DEF Typed
      <4> QED
        BY <1>1, <1>3, <3>1, <4>1, <4>2, CanPut, MishapUnsure
    <3> QED
      BY <2>1, <3>1, <3>2, <3>3, Quiet
  <2> QED
    BY <2>2, <2>3
<1>7. CASE ClearTombstone(g)
  <2>1. /\ pc[g] = "clear" /\ file' = file
        /\ \/ tomb' = tomb \ {req[g].path}
           \/ tomb' = tomb /\ unsure' = unsure \cup Roots(req[g])
    BY <1>7 DEF ClearTombstone, At, tree, Swallowed, Mishap, Trouble
  <2>2. CASE p # req[g].path
    <3>1. ~Clears(g, p) /\ ~Minds(g, p)
      BY <1>3, <2>1, <2>2, WriterMinds DEF Writing
    <3>2. p \in tomb' <=> p \in tomb
      BY <2>1, <2>2
    <3> QED
      BY <1>1, <2>1, <3>1, <3>2, Quiet
  <2>3. CASE p = req[g].path
    <3>1. p \notin tomb'
      <4>1. p \in Roots(req[g]) /\ IsPrefix(p, p)
        BY <1>1, <1>3, <2>3, RootsAre, Asked, PrefixOrder DEF Writes
      <4>2. unsure' # unsure \cup Roots(req[g])
        BY <4>1 DEF Sure
      <4> QED
        BY <2>1, <2>3, <4>2
    <3>2. p \notin DOMAIN file' => \E h \in Handlers : Minds(h, p)'
      <4> SUFFICES ASSUME p \notin DOMAIN file' PROVE \E h \in Handlers : Minds(h, p)'
        OBVIOUS
      <4>1. BeingPut(p)
        BY <1>1, <1>3, <2>1, <2>3 DEF WriteInv
      <4>2. PICK f \in Handlers : pc[f] = "again" /\ req[f].path = p /\ p \in untold[f]
        BY <4>1 DEF BeingPut
      <4>3. f # g /\ Minds(f, p)
        BY <2>1, <4>2 DEF Minds, Replaces
      <4> QED
        BY <1>1, <4>3, MindStays
    <3> QED
      BY <3>1, <3>2 DEF TombAt
  <2> QED
    BY <2>2, <2>3
<1> QED
  BY <1>4, <1>5, <1>6, <1>7

\* The steps of a deletion that change the tree.
LEMMA TombDelete ==
  ASSUME TypeInv, OwnInv, ToldInv, TombInv, NEW g \in Handlers, HandlerStep(g), NEW p \in ever', IsDoc(p), Sure(p),
         Sure(p)', RemoveOne(g) \/ RemoveEntry(g)
  PROVE  TombAt(p)'
<1>1. /\ Serving /\ Typed /\ DOMAIN pc = Handlers /\ pc[g] # "idle"
      /\ inside \in [Handlers -> SUBSET Path] /\ scan \in [Handlers -> SUBSET Path]
      /\ req[g].path \in Path /\ tomb' = tomb
  BY ServingStep, Asked DEF TypeInv, Serving, Typed, RemoveOne, RemoveEntry
<1>2. CASE RemoveOne(g)
  <2>1. pc[g] = "remove" /\ req[g].kind = "rm"
    BY <1>1, <1>2, KindAt DEF RemoveOne, At
  <2>2. ~Clears(g, p) /\ ~Minds(g, p)
    BY <2>1 DEF Clears, Minds, Remembers, Replaces
  <2>3. \/ file' = file
        \/ file' = Without(req[g].path) /\ inside'[g] = {req[g].path} /\ pc'[g] = "record"
    BY <1>1, <1>2 DEF RemoveOne, SetTree, tree, Goto
  <2>4. CASE p \in DOMAIN file' <=> p \in DOMAIN file
    BY <1>1, <2>2, <2>4, Quiet
  <2>5. CASE ~(p \in DOMAIN file' <=> p \in DOMAIN file)
    <3>1. p \notin DOMAIN file' /\ p = req[g].path /\ inside'[g] = {p} /\ pc'[g] = "record"
      BY <2>3, <2>5 DEF Without
    <3>2. Minds(g, p)'
      BY <3>1 DEF Minds, Remembers
    <3>3. p \in tomb' => \E h \in Handlers : Clears(h, p)'
      BY <1>1, <2>2, <2>5, <3>1, Inherited
    <3> QED
      BY <3>1, <3>2, <3>3 DEF TombAt
  <2> QED
    BY <2>4, <2>5
<1>3. CASE RemoveEntry(g)
  <2>1. pc[g] = "removing" /\ req[g].kind = "rmdir" /\ req[g].path \in Roots(req[g])
    BY <1>1, <1>3, KindAt, RootsAre DEF RemoveEntry, At
  <2>2. ~Clears(g, p) /\ (Minds(g, p) <=> p \in inside[g])
    BY <2>1 DEF Clears, Minds, Remembers, Replaces
  <2>3. \A q \in inside[g] \cup scan[g] : IsPrefix(req[g].path, q)
    BY <1>1, <2>1 DEF Typed
  <2>4. IsPrefix(req[g].path, p) => ~Troubled(g)
    BY <1>1, <2>1, SureIsCalm
  <2>8. CASE Mishap(untold[g]) /\ file' = file
    <3>1. p \notin untold[g]
      <4>1. p \in untold[g] => p \in Path
        BY <1>1 DEF Typed
      <4> QED
        BY <2>8, <4>1, MishapUnsure
    <3>2. p \in inside[g] => p \in DOMAIN file
      BY <1>1, <2>1, <2>3, <2>4, <3>1 DEF OwnInv, RmdirInv
    <3>3. CASE p \in DOMAIN file
      <4>1. (p \in tomb' => \E h \in Handlers : Clears(h, p)') /\ p \in DOMAIN file'
        BY <1>1, <2>2, <2>8, <3>3, Inherited
      <4> QED
        BY <4>1 DEF TombAt
    <3>4. CASE p \notin DOMAIN file
      BY <1>1, <2>2, <2>8, <3>2, <3>4, Quiet
    <3> QED
      BY <3>3, <3>4
  <2> SUFFICES ASSUME ~(Mishap(untold[g]) /\ file' = file) PROVE TombAt(p)'
    BY <2>8
  <2>5. PICK e \in scan[g] :
          /\ \A q \in scan[g] : Len(q) <= Len(e)
          /\ \/ Occupied(e) /\ file' = file
             \/ /\ file' = Without(e) /\ inside' = inside
                /\ pc' = [pc EXCEPT ![g] = IF scan[g] = {e} THEN "record" ELSE "removing"]
    <3>1. PICK e \in scan[g] :
            /\ \A q \in scan[g] : Len(q) <= Len(e)
            /\ IF e \in dirs /\ Occupied(e)
                 THEN UNCHANGED <<tree, changes>>
                 ELSE /\ SetTree(g, Without(e), dirs \ {e}, DOMAIN file \cap {e})
                      /\ Goto(g, IF scan[g] = {e} THEN "record" ELSE "removing")
                      /\ inside' = inside
      BY <1>3 DEF RemoveEntry, tree
    <3> QED
      BY <3>1 DEF SetTree, tree, Goto
  <2>6. CASE Occupied(e) /\ file' = file
    <3>1. p \notin inside[g]
      BY <1>1, <2>1, <2>3, <2>4, <2>5, <2>6, NothingNew
    <3> QED
      BY <1>1, <2>2, <2>6, <3>1, Quiet
  <2>7. CASE ~(Occupied(e) /\ file' = file)
    <3>1. /\ DOMAIN file' = DOMAIN file \ {e} /\ inside'[g] = inside[g]
          /\ pc'[g] \in {"record", "removing"}
      BY <1>1, <2>5, <2>7 DEF Without
    <3>2. Minds(g, p) => Minds(g, p)'
      BY <2>2, <3>1 DEF Minds, Remembers
    <3>3. CASE p \in DOMAIN file' <=> p \in DOMAIN file
      BY <1>1, <2>2, <3>2, <3>3, Quiet
    <3>4. CASE ~(p \in DOMAIN file' <=> p \in DOMAIN file)
      <4>1. p = e /\ p \in DOMAIN file /\ p \notin DOMAIN file'
        BY <3>1, <3>4
      <4>2. IsPrefix(req[g].path, p) /\ ~Troubled(g)
        BY <2>3, <2>4, <4>1
      <4>3. p \in inside[g]
        BY <1>1, <2>1, <4>1, <4>2 DEF OwnInv, RmdirInv
      <4>4. Minds(g, p)'
        BY <2>2, <3>2, <4>3
      <4>5. p \in tomb' => \E h \in Handlers : Clears(h, p)'
        BY <1>1, <2>2, <4>1, Inherited
      <4> QED
        BY <4>1, <4>4, <4>5 DEF TombAt
    <3> QED
      BY <3>3, <3>4
  <2> QED
    BY <2>6, <2>7
<1> QED
  BY <1>2, <1>3

\* A move's rename.
LEMMA TombRename ==
  ASSUME TypeInv, OwnInv, ToldInv, TombInv, NEW g \in Handlers, HandlerStep(g), NEW p \in ever', IsDoc(p), Sure(p),
         Rename(g)
  PROVE  TombAt(p)'
<1> DEFINE a == req[g].path
           b == req[g].to
<1>1. Serving /\ Typed /\ DOMAIN pc = Handlers /\ pc[g] = "rename" /\ tomb' = tomb /\ Tree(file, dirs)
  BY DEF TypeInv, Serving, Typed, Rename, At
<1>2. /\ req[g].kind = "move" /\ a \in Path /\ b \in Path /\ a \in Roots(req[g]) /\ b \in Roots(req[g])
      /\ DOMAIN file \subseteq Path
  BY <1>1, KindAt, Asked, RootsAre DEF Tree
<1>3. ~Clears(g, p) /\ ~Minds(g, p)
  BY <1>1 DEF Clears, Minds, Remembers, Replaces
<1>4. IsPrefix(a, p) \/ IsPrefix(b, p) => ~Troubled(g)
  BY <1>1, <1>2, SureIsCalm
<1>5. ~Troubled(g) => \A q \in DOMAIN file : IsPrefix(a, q) => q \in inside[g]
  BY <1>1, <1>2 DEF OwnInv, MoveInv
<1>6. CASE ~CanRename(a, b)
  <2>1. file' = file
    BY <1>6 DEF Rename, tree
  <2> QED
    BY <1>1, <1>3, <2>1, Quiet
<1>7. CASE CanRename(a, b)
  <2>1. pc'[g] = "record" /\ req' = req /\ inside' = inside
    BY <1>1, <1>7 DEF Rename, Step, Goto
  <2>2. Renames(g)
    <3>1. SetTree(g, Renamed(a, b), {Moved(a, b, q) : q \in dirs},
                  {q \in DOMAIN file : IsPrefix(a, q)}
                      \cup {Moved(a, b, q) : q \in {r \in DOMAIN file : IsPrefix(a, r)}})
      BY <1>7 DEF Rename
    <3> QED
      BY <1>1, <1>2, <1>7, <2>1, <3>1 DEF Renames, SetTree, Follows
  <2>3. /\ \A r : r \in DOMAIN file' =>
                     \/ \E q \in DOMAIN file : IsPrefix(a, q) /\ r = Moved(a, b, q)
                     \/ r \in DOMAIN file /\ ~IsPrefix(a, r)
        /\ \A r \in DOMAIN file : ~IsPrefix(a, r) => r \in DOMAIN file'
    BY <1>1, <1>2, <2>2, RenamesEntry
  <2>4. (p \in DOMAIN file' \/ BeingPut(p)') /\ p \in tomb' => \E h \in Handlers : Clears(h, p)'
    <3> SUFFICES ASSUME p \in DOMAIN file' \/ BeingPut(p)', p \in tomb
                 PROVE  \E h \in Handlers : Clears(h, p)'
      BY <1>1
    <3>1. ASSUME NEW q \in DOMAIN file, IsPrefix(a, q), p = Moved(a, b, q) PROVE Clears(g, p)'
      <4>1. IsPrefix(b, p)
        BY <1>2, <3>1, MovedUnder
      <4>2. q \in inside'[g]
        BY <1>4, <1>5, <2>1, <3>1, <4>1
      <4>3. \E r \in inside'[g] : p = Moved(req'[g].path, req'[g].to, r)
        BY <2>1, <3>1, <4>2
      <4> QED
        BY <1>2, <2>1, <4>3 DEF Clears
    <3>2. CASE p \in DOMAIN file
      BY <1>1, <1>3, <3>2, Inherited
    <3>3. CASE p \notin DOMAIN file /\ p \notin DOMAIN file'
      <4>1. p \in ever /\ BeingPut(p)
        BY <1>1, <3>3, Inherited, BeingPutBefore
      <4> QED
        BY <1>1, <1>3, <4>1, Inherited
    <3> QED
      BY <2>3, <3>1, <3>2, <3>3
  <2>5. p \notin DOMAIN file' /\ p \notin tomb' => \E h \in Handlers : Minds(h, p)'
    <3> SUFFICES ASSUME p \notin DOMAIN file', p \notin tomb PROVE \E h \in Handlers : Minds(h, p)'
      BY <1>1
    <3>1. CASE p \in DOMAIN file
      <4>1. p \in inside[g]
        BY <1>4, <1>5, <2>3, <3>1
      <4>2. Minds(g, p)'
        BY <2>1, <4>1 DEF Minds, Remembers
      <4> QED
        BY <4>2
    <3>2. CASE p \notin DOMAIN file
      BY <1>1, <1>3, <3>2, Inherited
    <3> QED
      BY <3>1, <3>2
  <2> QED
    BY <2>4, <2>5 DEF TombAt
<1> QED
  BY <1>6, <1>7

\* What a deletion or a move is about is under its places.
LEMMA MindsItsOwn ==
  ASSUME Serving, Typed, NEW g \in Handlers, pc[g] \in {"record", "dest"}, NEW p, Clears(g, p) \/ Minds(g, p)
  PROVE  \E root \in Roots(req[g]) : IsPrefix(root, p)
<1>1. req[g].kind \in {"rm", "rmdir", "move"}
  BY KindAt
<1>2. /\ req[g].path \in Roots(req[g]) /\ req[g].path \in Path /\ req[g].to \in Path
      /\ (req[g].kind = "move" => req[g].to \in Roots(req[g]))
  BY <1>1, RootsAre, Asked
<1>3. \A q \in inside[g] \cup scan[g] : q \in Path /\ IsPrefix(req[g].path, q)
  BY <1>1 DEF Typed
<1>4. ASSUME NEW q \in inside[g] \cup scan[g], req[g].kind = "move", p = Moved(req[g].path, req[g].to, q)
      PROVE  IsPrefix(req[g].to, p)
  BY <1>2, <1>3, <1>4, MovedUnder
<1>5. CASE Clears(g, p)
  <2>1. req[g].kind = "move" /\ \E q \in inside[g] \cup scan[g] : p = Moved(req[g].path, req[g].to, q)
    BY <1>1, <1>5 DEF Clears
  <2> QED
    BY <1>2, <1>4, <2>1
<1>6. CASE Minds(g, p)
  BY <1>2, <1>3, <1>6 DEF Minds, Remembers, Replaces
<1> QED
  BY <1>5, <1>6

\* Where a statement of a deletion or a move has failed nothing is sure.
LEMMA TombSwallowed ==
  ASSUME TypeInv, ToldInv, TombInv, NEW g \in Handlers, HandlerStep(g), NEW p \in ever', IsDoc(p), Sure(p), Sure(p)',
         Record(g) \/ ClearDest(g), Swallowed(g)
  PROVE  TombAt(p)'
<1>1. Serving /\ Typed /\ pc[g] \in {"record", "dest"} /\ file' = file
  BY DEF TypeInv, Record, ClearDest, At, tree
<1>2. tomb' = tomb /\ \A root \in Roots(req[g]) : ~IsPrefix(root, p)
  BY DEF Swallowed, Mishap, Trouble, Sure
<1>3. ~Clears(g, p) /\ ~Minds(g, p)
  BY <1>1, <1>2, MindsItsOwn
<1> QED
  BY <1>1, <1>2, <1>3, Quiet

\* Who puts a file where another request deletes or moves has met it.
LEMMA PutsMeet ==
  ASSUME Serving, ClashInv, NEW g \in Handlers, pc[g] # "idle", ~Writes(req[g]), NEW root \in Roots(req[g]),
         NEW p, IsPrefix(root, p), BeingPut(p)
  PROVE  Troubled(g)
<1>1. PICK f \in Handlers : pc[f] = "again" /\ req[f].path = p
  BY DEF BeingPut
<1>2. pc[f] # "idle" /\ Writes(req[f]) /\ f # g
  BY <1>1, KindAt DEF Writing
<1>3. p \in Roots(req[f])
  BY <1>1, <1>2 DEF Roots, Writes
<1>4. Clash(req[f], req[g])
  BY <1>3 DEF Clash
<1> QED
  BY <1>2, <1>4 DEF ClashInv, Active, Troubled

\* The steps of a deletion or a move that change the tombstones.
LEMMA TombRecord ==
  ASSUME TypeInv, OwnInv, ToldInv, TombInv, NEW g \in Handlers, HandlerStep(g), NEW p \in ever', IsDoc(p), Sure(p),
         Record(g) \/ ClearDest(g), ~Swallowed(g)
  PROVE  TombAt(p)'
<1> DEFINE a == req[g].path
           b == req[g].to
<1>1. /\ Serving /\ Typed /\ DOMAIN pc = Handlers /\ pc[g] # "idle" /\ pc[g] \in {"record", "dest"}
      /\ file' = file /\ req' = req
      /\ inside \in [Handlers -> SUBSET Path] /\ scan \in [Handlers -> SUBSET Path]
  BY ServingStep DEF TypeInv, Serving, Typed, Record, ClearDest, At, tree
<1>2. /\ req[g].kind \in {"rm", "rmdir", "move"} /\ a \in Path /\ b \in Path /\ a \in Roots(req[g])
      /\ (req[g].kind = "move" => b \in Roots(req[g]))
  BY <1>1, KindAt, Asked, RootsAre
<1>3. \A q \in inside[g] \cup scan[g] : q \in Path /\ IsPrefix(a, q)
  BY <1>1, <1>2 DEF Typed
<1>4. ASSUME IsPrefix(a, p) \/ (req[g].kind = "move" /\ IsPrefix(b, p)) PROVE ~Troubled(g)
  BY <1>1, <1>2, <1>4, SureIsCalm
<1>5. CASE Record(g)
  <2>1. PICK q \in inside[g] :
          /\ tomb' = tomb \cup {q}
          /\ inside' = [inside EXCEPT ![g] = @ \ {q}]
          /\ IF req[g].kind = "move"
               THEN scan' = [scan EXCEPT ![g] = {q}] /\ pc' = [pc EXCEPT ![g] = "dest"]
               ELSE pc' = pc /\ scan' = scan
    BY <1>5 DEF Record, Goto
  <2>2. /\ pc[g] = "record" /\ inside'[g] = inside[g] \ {q}
        /\ IF req[g].kind = "move" THEN scan'[g] = {q} /\ pc'[g] = "dest" ELSE pc'[g] = "record"
    BY <1>1, <1>5, <2>1 DEF Record, At
  <2>3. CASE p # q
    <3>1. Clears(g, p) => Clears(g, p)'
      <4> SUFFICES ASSUME Clears(g, p) PROVE Clears(g, p)'
        OBVIOUS
      <4>1. req[g].kind = "move" /\ \E r \in inside[g] : p = Moved(a, b, r)
        BY <1>2, <2>2 DEF Clears
      <4>2. PICK r \in inside[g] : p = Moved(a, b, r)
        BY <4>1
      <4>3. r \in inside'[g] \/ r \in scan'[g]
        BY <2>2, <4>1
      <4> QED
        BY <1>1, <2>2, <4>1, <4>2, <4>3 DEF Clears
    <3>2. Minds(g, p) => Minds(g, p)'
      BY <2>2, <2>3 DEF Minds, Remembers, Replaces
    <3> QED
      BY <1>1, <2>1, <2>3, <3>1, <3>2, Quiet
  <2>4. CASE p = q
    <3>1. p \in tomb' /\ IsPrefix(a, p) /\ ~Troubled(g)
      BY <1>3, <1>4, <2>1, <2>4
    <3>2. CASE p \notin DOMAIN file
      <4>1. ~BeingPut(p)'
        <5> SUFFICES ASSUME BeingPut(p)' PROVE FALSE
          OBVIOUS
        <5>1. BeingPut(p)
          BY <3>2, BeingPutBefore
        <5> QED
          BY <1>1, <1>2, <3>1, <5>1, PutsMeet DEF OwnInv, Writes
      <4> QED
        BY <1>1, <3>1, <3>2, <4>1 DEF TombAt
    <3>3. CASE p \in DOMAIN file
      <4>1. req[g].kind # "rm"
        BY <1>1, <2>2, <2>4, <3>1, <3>3 DEF OwnInv, OneInv, RmInv
      <4>2. req[g].kind # "rmdir"
        BY <1>1, <2>2, <3>1, <3>3 DEF OwnInv, RmdirInv
      <4>3. req[g].kind = "move"
        BY <1>2, <4>1, <4>2
      <4>4. a = b
        BY <1>1, <2>2, <3>1, <3>3, <4>3 DEF OwnInv, MoveInv
      <4>5. p = Moved(a, b, p)
        BY <1>2, <1>3, <2>4, <4>4, MovedUnder
      <4>6. scan'[g] = {p} /\ pc'[g] = "dest"
        BY <2>2, <2>4, <4>3
      <4>7. Clears(g, p)'
        BY <1>1, <4>3, <4>5, <4>6 DEF Clears
      <4> QED
        BY <3>1, <4>7 DEF TombAt
    <3> QED
      BY <3>2, <3>3
  <2> QED
    BY <2>3, <2>4
<1>6. CASE ClearDest(g)
  <2>1. /\ tomb' = tomb \ {Moved(a, b, s) : s \in scan[g]} /\ pc[g] = "dest" /\ pc'[g] = "record"
        /\ inside' = inside /\ req[g].kind = "move"
    BY <1>1, <1>6, KindAt DEF ClearDest, At, Goto
  <2>2. CASE p \in {Moved(a, b, s) : s \in scan[g]}
    <3>1. PICK s \in scan[g] : p = Moved(a, b, s)
      BY <2>2
    <3>2. IsPrefix(b, p)
      BY <1>2, <1>3, <3>1, MovedUnder
    <3>3. p \in DOMAIN file
      BY <1>1, <1>4, <2>1, <3>1, <3>2 DEF OwnInv, MoveInv
    <3>4. p \notin tomb'
      BY <2>1, <2>2
    <3> QED
      BY <1>1, <3>3, <3>4 DEF TombAt
  <2>3. CASE p \notin {Moved(a, b, s) : s \in scan[g]}
    <3>1. Clears(g, p) => Clears(g, p)'
      BY <1>1, <2>1, <2>3 DEF Clears
    <3>2. Minds(g, p) => Minds(g, p)'
      BY <2>1 DEF Minds, Remembers, Replaces
    <3> QED
      BY <1>1, <2>1, <2>3, <3>1, <3>2, Quiet
  <2> QED
    BY <2>2, <2>3
<1> QED
  BY <1>5, <1>6

\* Any step of a handler.
LEMMA TombStep ==
  ASSUME TypeInv, OwnInv, ToldInv, GranteeInv, TombInv, NEW g \in Handlers, HandlerStep(g), NEW p \in ever', IsDoc(p),
         Sure(p), Sure(p)'
  PROVE  TombAt(p)'
<1>1. CASE Replace(g) \/ RemoveTarget(g) \/ ReplaceAgain(g) \/ ClearTombstone(g)
  BY <1>1, TombWrite
<1>2. CASE RemoveOne(g) \/ RemoveEntry(g)
  BY <1>2, TombDelete
<1>3. CASE Rename(g)
  BY <1>3, TombRename
<1>4. CASE Record(g) \/ ClearDest(g)
  BY <1>4, TombSwallowed, TombRecord
<1>5. CASE \/ Refused(g) \/ Exists(g) \/ CheckQuota(g) \/ CountTorn(g) \/ Parents(g) \/ OpenTemp(g)
           \/ FillTemp(g) \/ FillFails(g) \/ Collect(g) \/ RemoveAll(g) \/ Look(g) \/ Recorded(g)
           \/ Folder(g) \/ Notify(g) \/ Walk(g) \/ Listed(g)
  BY <1>5, TombIdle
<1> QED
  BY <1>1, <1>2, <1>3, <1>4, <1>5 DEF HandlerStep

\* Who is about a path has not come to rest, and has it under its places if it is
\* an active one.
LEMMA MindersAreActive ==
  ASSUME Serving, Typed, NEW h \in Handlers, NEW p, Clears(h, p) \/ Minds(h, p)
  PROVE  pc[h] # "idle" /\ \E root \in Roots(req[h]) : IsPrefix(root, p)
<1>1. pc[h] \in {"again", "clear", "removing", "record", "dest"} /\ pc[h] # "idle"
  BY DEF Clears, Minds, Remembers, Replaces
<1>2. CASE pc[h] \in {"record", "dest"}
  BY <1>1, <1>2, MindsItsOwn
<1>3. CASE pc[h] \notin {"record", "dest"}
  <2>1. req[h].kind # "list" /\ req[h].path \in Path /\ req[h].path \in Roots(req[h])
    BY <1>1, <1>3, KindAt, Asked, RootsAre DEF Writing, Writes
  <2>2. CASE pc[h] = "removing"
    <3>1. req[h].kind = "rmdir" /\ p \in inside[h]
      BY <1>1, <2>2, KindAt DEF Clears, Minds, Remembers, Replaces
    <3> QED
      BY <1>1, <2>1, <3>1 DEF Typed
  <2>3. CASE pc[h] # "removing"
    <3>1. p = req[h].path
      BY <1>3, <2>3 DEF Clears, Minds, Remembers, Replaces
    <3> QED
      BY <1>1, <2>1, <3>1, PrefixOrder
  <2> QED
    BY <2>2, <2>3
<1> QED
  BY <1>2, <1>3

LEMMA TombKept ==
  ASSUME TypeInv, TypeInv', OwnInv, ToldInv, GranteeInv, TombInv, [Next]_vars
  PROVE  TombInv'
<1>1. Serving /\ Typed /\ unsure \subseteq unsure' /\ \A p \in ever' : IsDoc(p)
  BY UnsureGrows DEF TypeInv, Typed
<1>2. ASSUME NEW g \in Handlers, HandlerStep(g) PROVE TombInv'
  <2>1. \A p \in DOMAIN file' : IsDoc(p) => p \in ever'
    <3>1. Changes(g)
      BY <1>1, <1>2, TreeKept
    <3> QED
      BY <3>1 DEF TombInv, Changes, Keeps, Makes, Opens, Fills, Drops, Puts, Removes, Renames, Follows
  <2>2. ASSUME NEW p \in ever', Sure(p)' PROVE TombAt(p)'
    <3>1. Sure(p) /\ IsDoc(p)
      BY <1>1, <2>2, StaysSure
    <3> QED
      BY <1>2, <2>2, <3>1, TombStep
  <2> QED
    BY <2>1, <2>2 DEF TombInv
<1>3. ASSUME UNCHANGED <<tree, tomb, ever>>,
             \A h \in Handlers : \A p : Sure(p)' =>
                 /\ Clears(h, p) => Clears(h, p)'
                 /\ Minds(h, p) => Minds(h, p)',
             \A p : BeingPut(p)' => BeingPut(p)
      PROVE  TombInv'
  <2>1. file' = file /\ tomb' = tomb /\ ever' = ever
    BY <1>3 DEF tree
  <2>2. ASSUME NEW p \in ever', Sure(p)' PROVE TombAt(p)'
    <3>1. TombAt(p)
      BY <1>1, <2>1, <2>2, StaysSure DEF TombInv
    <3> QED
      BY <1>3, <2>1, <2>2, <3>1 DEF TombAt
  <2> QED
    BY <2>1, <2>2 DEF TombInv
<1>4. ASSUME NEW h \in Handlers, Rests(h), NEW p
      PROVE  /\ Clears(h, p) => Clears(h, p)'
             /\ Minds(h, p) => Minds(h, p)'
  BY <1>4 DEF Rests, Clears, Minds, Remembers, Replaces
<1>5. ASSUME NEW g \in Handlers, NEW r \in Requests[g], Take(g, r) PROVE TombInv'
  <2>1. UNCHANGED <<tree, tomb, ever>>
    BY <1>5 DEF Take
  <2>2. ASSUME NEW h \in Handlers, pc[h] # "idle" PROVE Rests(h)
    <3>1. /\ pc[g] = "idle" /\ inside' = inside /\ wasDir' = wasDir /\ untold' = untold
          /\ pc'[h] = pc[h] /\ req'[h] = req[h]
      BY <1>1, <1>5, <2>2 DEF Take, At, Goto, Serving
    <3>2. scan'[h] = scan[h]
      BY <1>1, <1>5, <2>2, <3>1 DEF Take, Typed
    <3> QED
      BY <2>2, <3>1, <3>2 DEF Rests
  <2>3. \A h \in Handlers : \A p : Clears(h, p) \/ Minds(h, p) => pc[h] # "idle"
    BY <1>1, MindersAreActive
  <2>4. \A p : BeingPut(p)' => BeingPut(p)
    <3>1. ASSUME NEW f \in Handlers, pc'[f] = "again" PROVE pc[f] # "idle"
      <4>1. pc' = [pc EXCEPT ![g] = FirstPhase[r.kind]] /\ r.kind \in Kinds
        BY <1>5, WorkspaceAssumption DEF Take, Goto, WorkspaceAssumption, Request
      <4>2. FirstPhase[r.kind] # "again"
        BY <4>1, FirstPhases DEF Writing
      <4>3. f # g
        BY <1>1, <3>1, <4>1, <4>2 DEF Serving
      <4> QED
        BY <1>1, <3>1, <4>1, <4>3 DEF Serving
    <3> QED
      BY <2>2, <3>1 DEF BeingPut, Rests
  <2> QED
    BY <1>3, <1>4, <2>1, <2>2, <2>3, <2>4
<1>6. CASE Crash
  <2>1. /\ UNCHANGED <<tree, tomb, ever>>
        /\ unsure' = unsure \cup UNION {Roots(req[h]) : h \in {g \in Handlers : pc[g] # "idle"}}
    BY <1>6 DEF Crash, At, Trouble
  <2>3. \A p : ~BeingPut(p)'
    BY <1>6 DEF Crash, BeingPut
  <2>2. ASSUME NEW h \in Handlers, NEW p, Clears(h, p) \/ Minds(h, p) PROVE ~Sure(p)'
    <3>1. PICK root \in Roots(req[h]) : IsPrefix(root, p)
      BY <1>1, <2>2, MindersAreActive
    <3>2. root \in unsure'
      BY <1>1, <2>1, <2>2, <3>1, MindersAreActive
    <3> QED
      BY <3>1, <3>2 DEF Sure
  <2> QED
    BY <1>3, <2>1, <2>2, <2>3
<1>7. CASE UNCHANGED vars
  <2>4. \A p : BeingPut(p)' => BeingPut(p)
    BY <1>7 DEF vars, handling, history, changes, BeingPut
  <2>1. UNCHANGED <<tree, tomb, ever>>
    BY <1>7 DEF vars, history, changes
  <2>2. \A h \in Handlers : pc[h] # "idle" => Rests(h)
    BY <1>7 DEF vars, handling, history, changes, Rests
  <2>3. \A h \in Handlers : \A p : Clears(h, p) \/ Minds(h, p) => pc[h] # "idle"
    BY <1>1, MindersAreActive
  <2> QED
    BY <1>3, <1>4, <2>1, <2>2, <2>3, <2>4
<1> QED
  BY <1>2, <1>5, <1>6, <1>7 DEF Next

LEMMA TombBegins == Init => TombInv
BY DEF Init, TombInv, TombAt, BeingPut

\* Once the requests are done a document has a tombstone exactly if it is gone:
\* nothing that is there is deleted by a client's catching up, and nothing deleted
\* comes back (fRecordTombstone and fClearTombstone in the handlers of
\* workspace.cpp).  It is so at every path but those where requests met, were cut
\* off or lost a statement, where one had removed something when the file system
\* refused it the rest, and where a file was deleted as if it were a folder.
THEOREM TombstonesHold == Spec => []TombstonesRight
<1>1. TypeInv /\ TypeInv' /\ OwnInv /\ ToldInv /\ GranteeInv /\ TombInv /\ [Next]_vars => TombInv'
  BY TombKept
<1>2. TypeInv /\ TombInv => TombstonesRight
  <2> SUFFICES ASSUME TypeInv, TombInv, AtRest, NEW p \in ever, Sure(p)
               PROVE  p \in tomb <=> p \notin DOMAIN file
    BY DEF TombstonesRight
  <2>1. \A h \in Handlers : ~Clears(h, p) /\ ~Minds(h, p)
    BY MindersAreActive DEF TypeInv, AtRest
  <2>2. TombAt(p)
    BY DEF TombInv
  <2> QED
    BY <2>1, <2>2 DEF TombAt
<1> QED
  BY <1>1, <1>2, TombBegins, TypesHold, OwnHolds, ToldHolds, GranteeHolds, PTL DEF Spec

----------------------------------------------------------------------------
(* Sums over finite sets *)

\* Of any sets of elements of a finite set, some contains no other: what makes
\* an induction over finite sets an argument about a least counterexample.
LEMMA LeastSubset ==
  ASSUME NEW S, IsFiniteSet(S), NEW T, T \subseteq SUBSET S, T # {}
  PROVE  \E t \in T : \A u \in T : ~ (u \subseteq t /\ u # t)
<1>1. IsWellFoundedOn(StrictSubsetOrdering(S), FiniteSubsetsOf(S)) /\ FiniteSubsetsOf(S) = SUBSET S
  BY FS_StrictSubsetOrderingWellFounded, FS_FiniteSubsetsOfFinite
<1>2. PICK t \in T : \A u \in T : ~ (<<u, t>> \in StrictSubsetOrdering(S))
  BY <1>1, WFMin
<1> QED
  BY <1>2 DEF StrictSubsetOrdering

\* The sum function of the library takes the elements one by one, in the order of
\* its choice.
Pick(s) == CHOOSE x \in s : TRUE
SumsUp(g, f, S) == g = [s \in SUBSET S |-> IF s = {} THEN 0 ELSE f[Pick(s)] + g[s \ {Pick(s)}]]

\* The library's sum is any function that adds up so, at the whole set.
LEMMA SumUnfolds ==
  ASSUME NEW f, NEW S
  PROVE  SumFunctionOnSet(f, S) = (CHOOSE g : SumsUp(g, f, S))[S]
BY DEF SumFunctionOnSet, FoldFunctionOnSet, MapThenFoldSet, SumsUp, Pick

\* Two that add up the same terms agree where both do.
LEMMA SumsAgree ==
  ASSUME NEW S, IsFiniteSet(S), NEW f, NEW T \in SUBSET S,
         NEW g, SumsUp(g, f, S), NEW k, SumsUp(k, f, T)
  PROVE  \A s \in SUBSET T : g[s] = k[s]
<1> DEFINE Bad == {s \in SUBSET T : g[s] # k[s]}
<1> SUFFICES ASSUME Bad # {} PROVE FALSE
  OBVIOUS
<1>1. PICK s \in Bad : \A u \in Bad : ~ (u \subseteq s /\ u # s)
  <2>1. Bad \subseteq SUBSET S /\ Bad # {}
    OBVIOUS
  <2> HIDE DEF Bad
  <2> QED
    BY <2>1, LeastSubset
<1>2. s \in SUBSET S /\ s \in SUBSET T
  OBVIOUS
<1>3. g[s] = IF s = {} THEN 0 ELSE f[Pick(s)] + g[s \ {Pick(s)}]
  BY <1>2 DEF SumsUp
<1>4. k[s] = IF s = {} THEN 0 ELSE f[Pick(s)] + k[s \ {Pick(s)}]
  BY <1>2 DEF SumsUp
<1>5. s # {} => s \ {Pick(s)} \notin Bad
  BY <1>1, <1>2 DEF Pick
<1>6. s # {} => g[s \ {Pick(s)}] = k[s \ {Pick(s)}]
  BY <1>5, <1>2
<1> QED
  BY <1>3, <1>4, <1>6

\* There is one for every finite set.
LEMMA SumsExist ==
  ASSUME NEW S, IsFiniteSet(S), NEW f
  PROVE  \E g : SumsUp(g, f, S)
<1> DEFINE Has(s) == \E g : SumsUp(g, f, s)
           Bad == {s \in SUBSET S : ~Has(s)}
<1> SUFFICES ASSUME Bad # {} PROVE FALSE
  OBVIOUS
<1>1. PICK s \in Bad : \A u \in Bad : ~ (u \subseteq s /\ u # s)
  <2>1. Bad \subseteq SUBSET S /\ Bad # {}
    OBVIOUS
  <2> HIDE DEF Bad
  <2> QED
    BY <2>1, LeastSubset
<1>2. IsFiniteSet(s) /\ \A u \in SUBSET s : IsFiniteSet(u)
  BY FS_Subset
<1> DEFINE Of(u) == CHOOSE g : SumsUp(g, f, u)
           Rest(u) == u \ {Pick(u)}
           G == [u \in SUBSET s |-> IF u = {} THEN 0 ELSE f[Pick(u)] + Of(Rest(u))[Rest(u)]]
<1>3. ASSUME NEW u \in SUBSET s, u # s PROVE SumsUp(Of(u), f, u)
  <2>1. Has(u)
    BY <1>1, <1>3
  <2> QED
    BY <2>1
<1>4. ASSUME NEW u \in SUBSET s, u # {} PROVE G[Rest(u)] = Of(Rest(u))[Rest(u)]
  <2> DEFINE v == Rest(u)
  <2>1. Pick(u) \in u /\ v \in SUBSET s /\ v # s
    BY <1>4 DEF Pick
  <2>2. SumsUp(Of(v), f, v)
    BY <2>1, <1>3
  <2>3. CASE v = {}
    BY <2>1, <2>2, <2>3 DEF SumsUp
  <2>4. CASE v # {}
    <3> DEFINE w == Rest(v)
    <3>1. Pick(v) \in v /\ w \in SUBSET v /\ w # s /\ w \in SUBSET s
      BY <2>1, <2>4 DEF Pick
    <3>2. SumsUp(Of(w), f, w)
      BY <3>1, <1>3
    <3>3. Of(v)[w] = Of(w)[w]
      <4>2. \A t \in SUBSET w : Of(v)[t] = Of(w)[t]
        <5>1. IsFiniteSet(v) /\ w \in SUBSET v
          BY <1>2, <2>1, <3>1
        <5> HIDE DEF Of, w, v, Rest
        <5> QED
          BY <2>2, <3>2, <5>1, SumsAgree
      <4> QED
        BY <4>2
    <3>4. Of(v)[v] = f[Pick(v)] + Of(v)[w]
      BY <2>2, <2>4 DEF SumsUp
    <3>5. G[v] = f[Pick(v)] + Of(w)[w]
      BY <2>1, <2>4
    <3> QED
      BY <3>3, <3>4, <3>5
  <2> QED
    BY <2>3, <2>4
<1>5. SumsUp(G, f, s)
  <2>1. G = [u \in SUBSET s |-> IF u = {} THEN 0 ELSE f[Pick(u)] + G[Rest(u)]]
    <3> DEFINE R(u) == IF u = {} THEN 0 ELSE f[Pick(u)] + G[Rest(u)]
    <3>1. ASSUME NEW u \in SUBSET s PROVE G[u] = R(u)
      <4>1. G[u] = IF u = {} THEN 0 ELSE f[Pick(u)] + Of(Rest(u))[Rest(u)]
        OBVIOUS
      <4>2. u # {} => G[Rest(u)] = Of(Rest(u))[Rest(u)]
        BY <1>4
      <4> HIDE DEF G, Of
      <4> QED
        BY <4>1, <4>2
    <3>2. G = [u \in SUBSET s |-> G[u]]
      OBVIOUS
    <3> HIDE DEF G
    <3> QED
      BY <3>1, <3>2
  <2> QED
    BY <2>1 DEF SumsUp
<1> QED
  BY <1>5

\* It yields numbers.
LEMMA SumsCount ==
  ASSUME NEW S, IsFiniteSet(S), NEW f, \A x \in S : f[x] \in Nat
  PROVE  \E g \in [SUBSET S -> Nat] : SumsUp(g, f, S)
<1>1. PICK g : SumsUp(g, f, S)
  BY SumsExist
<1>2. /\ g = [s \in SUBSET S |-> g[s]]
      /\ \A s \in SUBSET S : g[s] = IF s = {} THEN 0 ELSE f[Pick(s)] + g[s \ {Pick(s)}]
  BY <1>1 DEF SumsUp
<1> DEFINE Bad == {s \in SUBSET S : g[s] \notin Nat}
<1>3. Bad = {}
  <2> SUFFICES ASSUME Bad # {} PROVE FALSE
    OBVIOUS
  <2>1. PICK s \in Bad : \A u \in Bad : ~ (u \subseteq s /\ u # s)
    <3>1. Bad \subseteq SUBSET S /\ Bad # {}
      OBVIOUS
    <3> HIDE DEF Bad
    <3> QED
      BY <3>1, LeastSubset
  <2>2. s \in SUBSET S /\ g[s] \notin Nat
    OBVIOUS
  <2> HIDE DEF Bad
  <2>3. g[s] = IF s = {} THEN 0 ELSE f[Pick(s)] + g[s \ {Pick(s)}]
    BY <1>2, <2>2
  <2>4. s # {} /\ g[s] = f[Pick(s)] + g[s \ {Pick(s)}]
    BY <2>2, <2>3
  <2>5. Pick(s) \in s /\ s \ {Pick(s)} \in SUBSET S
    BY <2>2, <2>4 DEF Pick
  <2>6. g[s \ {Pick(s)}] \in Nat
    BY <2>1, <2>5 DEF Bad
  <2> QED
    BY <2>2, <2>4, <2>5, <2>6
<1> QED
  BY <1>1, <1>2, <1>3

\* The sum over a finite set is a number; it is taken element by element.
LEMMA SumByPick ==
  ASSUME NEW S, IsFiniteSet(S), NEW f, \A x \in S : f[x] \in Nat
  PROVE  /\ SumFunctionOnSet(f, S) \in Nat
         /\ SumFunctionOnSet(f, S) = IF S = {} THEN 0
                ELSE f[Pick(S)] + SumFunctionOnSet(f, S \ {Pick(S)})
<1> DEFINE G(s) == CHOOSE g : SumsUp(g, f, s)
           x == Pick(S)
<1>1. PICK g \in [SUBSET S -> Nat] : SumsUp(g, f, S)
  BY SumsCount
<1>2. SumsUp(G(S), f, S)
  BY <1>1
<1>3. G(S)[S] = g[S]
  <2> HIDE DEF G
  <2> QED
    BY <1>1, <1>2, SumsAgree
<1>4. CASE S = {}
  <2>1. G(S)[S] = 0
    BY <1>2, <1>4 DEF SumsUp
  <2> QED
    BY <2>1, <1>4, SumUnfolds
<1>5. CASE S # {}
  <2> DEFINE T == S \ {x}
  <2>1. x \in S /\ T \in SUBSET S /\ IsFiniteSet(T)
    BY <1>5, FS_Subset DEF Pick
  <2>2. PICK k \in [SUBSET T -> Nat] : SumsUp(k, f, T)
    <3>1. \A y \in T : f[y] \in Nat
      OBVIOUS
    <3> HIDE DEF T
    <3> QED
      BY <2>1, <3>1, SumsCount
  <2>3. SumsUp(G(T), f, T)
    BY <2>2
  <2>4. G(S)[T] = G(T)[T]
    <3> HIDE DEF G, T
    <3> QED
      BY <1>2, <2>1, <2>3, SumsAgree
  <2>5. G(S)[S] = f[x] + G(S)[T]
    BY <1>2, <1>5 DEF SumsUp
  <2>6. SumFunctionOnSet(f, S) = G(S)[S] /\ SumFunctionOnSet(f, T) = G(T)[T]
    BY SumUnfolds
  <2>7. G(S)[S] \in Nat
    BY <1>1, <1>3
  <2> HIDE DEF G, T
  <2> QED
    BY <1>5, <2>4, <2>5, <2>6, <2>7 DEF T
<1> QED
  BY <1>4, <1>5

\* It does not matter which element is taken first.
LEMMA SumAny ==
  ASSUME NEW S, IsFiniteSet(S), NEW f, \A x \in S : f[x] \in Nat, NEW x \in S
  PROVE  SumFunctionOnSet(f, S) = f[x] + SumFunctionOnSet(f, S \ {x})
<1> DEFINE Sum(s) == SumFunctionOnSet(f, s)
           Bad == {s \in SUBSET S : \E y \in s : Sum(s) # f[y] + Sum(s \ {y})}
<1> SUFFICES ASSUME Bad # {} PROVE FALSE
  OBVIOUS
<1>1. PICK s \in Bad : \A u \in Bad : ~ (u \subseteq s /\ u # s)
  <2>1. Bad \subseteq SUBSET S /\ Bad # {}
    OBVIOUS
  <2> HIDE DEF Bad
  <2> QED
    BY <2>1, LeastSubset
<1>2. PICK y \in s : Sum(s) # f[y] + Sum(s \ {y})
  OBVIOUS
<1> DEFINE z == Pick(s)
<1>3. \A u \in SUBSET S : /\ Sum(u) \in Nat
                          /\ u # {} => Pick(u) \in u /\ Sum(u) = f[Pick(u)] + Sum(u \ {Pick(u)})
  <2> TAKE u \in SUBSET S
  <2>1. IsFiniteSet(u) /\ \A v \in u : f[v] \in Nat
    BY FS_Subset
  <2> QED
    BY <2>1, SumByPick DEF Pick
<1>4. s \in SUBSET S /\ y \in s /\ z \in s
  BY <1>2, <1>3
<1>5. y # z
  BY <1>2, <1>3, <1>4
<1>6. \A u \in SUBSET s : u # s => \A v \in u : Sum(u) = f[v] + Sum(u \ {v})
  BY <1>1, <1>4
<1>7. Sum(s \ {z}) = f[y] + Sum((s \ {z}) \ {y})
  BY <1>4, <1>5, <1>6
<1>8. Sum(s \ {y}) = f[z] + Sum((s \ {y}) \ {z})
  BY <1>4, <1>5, <1>6
<1>9. (s \ {z}) \ {y} = (s \ {y}) \ {z}
  OBVIOUS
<1>10. Sum(s) = f[z] + Sum(s \ {z})
  BY <1>3, <1>4
<1>11. f[y] \in Nat /\ f[z] \in Nat /\ Sum((s \ {y}) \ {z}) \in Nat
  BY <1>3, <1>4
<1> HIDE DEF Sum, Bad, z
<1> QED
  BY <1>2, <1>7, <1>8, <1>9, <1>10, <1>11

\* A sum is no more than another where every term that counts has a term of the
\* other, one of its own and no smaller, to stand for it.
LEMMA SumInto ==
  ASSUME NEW S, IsFiniteSet(S), NEW f, \A x \in S : f[x] \in Nat,
         NEW T, IsFiniteSet(T), NEW g, \A x \in T : g[x] \in Nat,
         NEW m, \A x \in T : g[x] = 0 \/ (m[x] \in S /\ g[x] <= f[m[x]]),
         \A x, y \in T : g[x] # 0 /\ g[y] # 0 /\ m[x] = m[y] => x = y
  PROVE  SumFunctionOnSet(g, T) <= SumFunctionOnSet(f, S)
<1> DEFINE F(s) == SumFunctionOnSet(f, s)
           G(s) == SumFunctionOnSet(g, s)
           Image(s) == {m[x] : x \in {y \in s : g[y] # 0}}
           Bad == {s \in SUBSET T : ~ \A u \in SUBSET S : Image(s) \subseteq u => G(s) <= F(u)}
<1>a. ASSUME NEW s \in SUBSET T
      PROVE  /\ G(s) \in Nat
             /\ G({}) = 0
             /\ \A x \in s : G(s) = g[x] + G(s \ {x})
  <2>1. IsFiniteSet(s) /\ \A v \in s : g[v] \in Nat
    BY FS_Subset
  <2>2. G({}) = 0
    BY FS_EmptySet, SumByPick
  <2> QED
    BY <2>1, <2>2, SumByPick, SumAny
<1>b. ASSUME NEW s \in SUBSET S
      PROVE  F(s) \in Nat /\ \A x \in s : F(s) = f[x] + F(s \ {x})
  <2>1. IsFiniteSet(s) /\ \A v \in s : f[v] \in Nat
    BY FS_Subset
  <2> QED
    BY <2>1, SumByPick, SumAny
<1>1. Bad = {}
  <2> SUFFICES ASSUME Bad # {} PROVE FALSE
    OBVIOUS
  <2>1. PICK s \in Bad : \A u \in Bad : ~ (u \subseteq s /\ u # s)
    <3>1. Bad \subseteq SUBSET T /\ Bad # {}
      OBVIOUS
    <3> HIDE DEF Bad
    <3> QED
      BY <3>1, LeastSubset
  <2>2. PICK u \in SUBSET S : Image(s) \subseteq u /\ ~ (G(s) <= F(u))
    OBVIOUS
  <2>3. s \in SUBSET T
    OBVIOUS
  <2>4. PICK x \in s : TRUE
    <3>1. F(u) \in Nat /\ G({}) = 0
      BY <1>a, <1>b, <2>2
    <3>2. s = {} => G(s) <= F(u)
      <4> HIDE DEF F, G, Bad
      <4> QED
        BY <3>1
    <3> QED
      BY <2>2, <3>2
  <2>5. x \in T /\ g[x] \in Nat /\ s \ {x} \in SUBSET T /\ s \ {x} # s
    BY <2>3, <2>4
  <2>6. s \ {x} \notin Bad
    BY <2>1, <2>5
  <2>7. G(s) = g[x] + G(s \ {x}) /\ G(s \ {x}) \in Nat
    BY <1>a, <2>3, <2>4
  <2>8. CASE g[x] = 0
    <3>1. Image(s \ {x}) \subseteq u
      BY <2>2
    <3>2. G(s \ {x}) <= F(u)
      BY <2>2, <2>5, <2>6, <3>1
    <3> HIDE DEF F, G, Bad
    <3> QED
      BY <2>2, <2>7, <2>8, <3>2
  <2>9. CASE g[x] # 0
    <3>1. m[x] \in u /\ g[x] <= f[m[x]] /\ f[m[x]] \in Nat /\ u \ {m[x]} \in SUBSET S
      BY <2>2, <2>4, <2>5, <2>9
    <3>2. Image(s \ {x}) \subseteq u \ {m[x]}
      BY <2>2, <2>3, <2>4, <2>9
    <3>3. G(s \ {x}) <= F(u \ {m[x]})
      BY <2>5, <2>6, <3>1, <3>2
    <3>4. F(u) = f[m[x]] + F(u \ {m[x]}) /\ F(u \ {m[x]}) \in Nat
      BY <1>b, <2>2, <3>1
    <3> HIDE DEF F, G, Bad
    <3> QED
      BY <2>2, <2>5, <2>7, <3>1, <3>3, <3>4
  <2> QED
    BY <2>8, <2>9
<1>2. Image(T) \in SUBSET S /\ T \in SUBSET T
  OBVIOUS
<1> QED
  BY <1>1, <1>2

\* Where no term is more than M larger, only the larger ones make a difference.
LEMMA SumExcess ==
  ASSUME NEW S, IsFiniteSet(S), NEW f, \A x \in S : f[x] \in Nat,
         NEW g, \A x \in S : g[x] \in Nat, NEW M \in Nat,
         \A x \in S : g[x] <= f[x] + M
  PROVE  SumFunctionOnSet(g, S) <=
           SumFunctionOnSet(f, S) + Cardinality({x \in S : g[x] > f[x]}) * M
<1> DEFINE F(s) == SumFunctionOnSet(f, s)
           G(s) == SumFunctionOnSet(g, s)
           More(s) == {x \in s : g[x] > f[x]}
           N(s) == Cardinality(More(s))
           Bad == {s \in SUBSET S : ~ (G(s) <= F(s) + N(s) * M)}
<1>a. ASSUME NEW s \in SUBSET S
      PROVE  /\ G(s) \in Nat /\ F(s) \in Nat /\ N(s) \in Nat
             /\ \A x \in s : /\ G(s) = g[x] + G(s \ {x})
                             /\ F(s) = f[x] + F(s \ {x})
  <2>1. IsFiniteSet(s) /\ \A v \in s : g[v] \in Nat /\ f[v] \in Nat
    BY FS_Subset
  <2>2. N(s) \in Nat
    BY <2>1, FS_Subset, FS_CardinalityType
  <2>3. G(s) \in Nat /\ F(s) \in Nat
    BY <2>1, SumByPick
  <2>4. \A x \in s : G(s) = g[x] + G(s \ {x})
    BY <2>1, SumAny
  <2>5. \A x \in s : F(s) = f[x] + F(s \ {x})
    BY <2>1, SumAny
  <2> QED
    BY <2>2, <2>3, <2>4, <2>5
<1>1. SUFFICES Bad = {}
  BY <1>1
<1> SUFFICES ASSUME Bad # {} PROVE FALSE
  OBVIOUS
<1>2. PICK s \in Bad : \A u \in Bad : ~ (u \subseteq s /\ u # s)
  <2>1. Bad \subseteq SUBSET S /\ Bad # {}
    OBVIOUS
  <2> HIDE DEF Bad
  <2> QED
    BY <2>1, LeastSubset
<1>3. s \in SUBSET S
  OBVIOUS
<1>4. PICK x \in s : TRUE
  <2>1. CASE s = {}
    <3>1. G({}) = 0 /\ F({}) = 0
      BY FS_EmptySet, SumByPick
    <3>2. N({}) = 0
      <4>1. More({}) = {}
        OBVIOUS
      <4> QED
        BY <4>1, FS_EmptySet
    <3>3. 0 <= 0 + 0 * M
      OBVIOUS
    <3>4. G(s) <= F(s) + N(s) * M
      BY <2>1, <3>1, <3>2, <3>3
    <3> QED
      BY <3>4
  <2> QED
    BY <2>1
<1> DEFINE t == s \ {x}
<1>5. t \in SUBSET S /\ x \in S
  BY <1>3
<1>6. G(t) <= F(t) + N(t) * M
  BY <1>2, <1>4, <1>5
<1>7. CASE g[x] > f[x]
  <2>1. More(s) = More(t) \cup {x} /\ x \notin More(t)
    BY <1>4, <1>7
  <2>2. IsFiniteSet(More(t))
    BY <1>5, FS_Subset
  <2>3. N(s) = N(t) + 1
    BY <2>1, <2>2, FS_AddElement
  <2>4. g[x] <= f[x] + M /\ g[x] \in Nat /\ f[x] \in Nat
    BY <1>5
  <2>5. /\ G(t) \in Nat /\ F(t) \in Nat /\ N(t) \in Nat
        /\ G(s) = g[x] + G(t) /\ F(s) = f[x] + F(t)
    BY <1>a, <1>3, <1>4, <1>5
  <2>6. (N(t) + 1) * M = N(t) * M + M /\ N(t) * M \in Nat
    <3> HIDE DEF N, t
    <3> QED
      BY <2>5
  <2>7. G(s) <= F(s) + N(s) * M
    <3> HIDE DEF F, G, N, t
    <3> QED
      BY <1>6, <2>3, <2>4, <2>5, <2>6
  <2> QED
    BY <2>7
<1>8. CASE ~ (g[x] > f[x])
  <2>1. More(s) = More(t)
    BY <1>4, <1>8
  <2>4. g[x] <= f[x] /\ g[x] \in Nat /\ f[x] \in Nat
    BY <1>5, <1>8
  <2>5. /\ G(t) \in Nat /\ F(t) \in Nat /\ N(t) \in Nat
        /\ G(s) = g[x] + G(t) /\ F(s) = f[x] + F(t)
    BY <1>a, <1>3, <1>4, <1>5
  <2>6. N(t) * M \in Nat
    <3> HIDE DEF N, t
    <3> QED
      BY <2>5
  <2>7. G(s) <= F(s) + N(s) * M
    <3>1. N(s) = N(t)
      BY <2>1
    <3> HIDE DEF F, G, N, t
    <3> QED
      BY <1>6, <2>4, <2>5, <2>6, <3>1
  <2> QED
    BY <2>7
<1> QED
  BY <1>7, <1>8

----------------------------------------------------------------------------
(* The quota *)

\* A write that has been admitted and is not in place, and the sizes a document has
\* or may get from one.
Coming(h, p) == Writes(req[h]) /\ pc[h] \in {"parents"} \cup Writing /\ req[h].path = p
Size(p) == IF p \in DOMAIN file THEN file[p].size ELSE 0
Value(p, x) == x = Size(p) \/ \E h \in Handlers : Coming(h, p) /\ x = req[h].size

\* A document the quota speaks of: not one let in as new since the last count.
Weighed(p) == IsDoc(p) /\ p \notin unweighed

Limit == Max({Quota, SumFunction(Files0)}) + (Cardinality(Handlers) - 1) * ClientMaxBodySize

\* Whichever of the writes on their way come to stand, the documents that have been
\* weighed are within the limit: that they are so now would not do, since a write
\* is only counted when it is in place.
QuotaInv ==
    Untroubled /\ Quota # 0 =>
        \A P, v : /\ IsFiniteSet(P) /\ P \subseteq Path
                  /\ \A p \in P : Weighed(p) /\ Value(p, v[p])
                  => SumFunctionOnSet(v, P) <= Limit

\* The tree is finite: its sizes have a sum.
FiniteInv == IsFiniteSet(DOMAIN file)

\* What a document's size and a write on its way can be.
SizesFit ==
    \A p : /\ Size(p) \in Nat
           /\ \A h \in Handlers : Coming(h, p) =>
                  /\ req[h].size \in Nat /\ req[h].size <= ClientMaxBodySize
                  /\ p \in Seq(Names) /\ p \in Path /\ p # <<>> /\ IsDoc(p)
           /\ \A x : Value(p, x) => x \in Nat

\* They are so: every size is a number, and that of a write on its way is within the server's
\* limit on bodies.
LEMMA SizesAre == TypeInv => SizesFit
<1> SUFFICES ASSUME TypeInv, NEW p
             PROVE  /\ Size(p) \in Nat
                    /\ \A h \in Handlers : Coming(h, p) =>
                           /\ req[h].size \in Nat /\ req[h].size <= ClientMaxBodySize
                           /\ p \in Seq(Names) /\ p \in Path /\ p # <<>> /\ IsDoc(p)
                    /\ \A x : Value(p, x) => x \in Nat
  BY DEF SizesFit
<1>1. Size(p) \in Nat
  BY DEF Size, TypeInv, Typed, Content
<1>2. ASSUME NEW h \in Handlers, Coming(h, p)
      PROVE  /\ req[h].size \in Nat /\ req[h].size <= ClientMaxBodySize
             /\ p \in Seq(Names) /\ p \in Path /\ p # <<>> /\ IsDoc(p)
  <2>1. pc[h] # "idle" /\ req[h].path = p /\ req[h].kind # "list" /\ Serving
    BY <1>2 DEF Coming, Writing, Writes, TypeInv
  <2>2. req[h] \in Requests[h]
    BY <2>1 DEF Serving
  <2>3. p \in Seq(Names) /\ p # <<>> /\ p \in Path /\ req[h].size \in Nat /\ req[h].size <= ClientMaxBodySize
    BY <2>1, <2>2, Asked, WorkspaceAssumption DEF WorkspaceAssumption
  <2>4. Last(p) \in Names
    BY <2>3 DEF Last
  <2> QED
    BY <2>3, <2>4, NamesAndHandlers DEF IsDoc, IsTemp
<1> QED
  BY <1>1, <1>2 DEF Value

\* What the limit is made of.
LEMMA LimitIs ==
  /\ Limit \in Nat /\ Quota <= Limit /\ SumFunctionOnSet(Files0, DOMAIN Files0) <= Limit
  /\ Limit = Max({Quota, SumFunction(Files0)}) + (Cardinality(Handlers) - 1) * ClientMaxBodySize
  /\ Quota <= Max({Quota, SumFunction(Files0)}) /\ Max({Quota, SumFunction(Files0)}) \in Nat
  /\ Cardinality(Handlers) \in Nat \ {0} /\ Quota \in Nat /\ ClientMaxBodySize \in Nat
<1> DEFINE F == SumFunctionOnSet(Files0, DOMAIN Files0)
           M == Max({Quota, F})
           N == Cardinality(Handlers)
<1>1. /\ Quota \in Nat /\ ClientMaxBodySize \in Nat /\ IsFiniteSet(Handlers) /\ Handlers # {}
      /\ IsFiniteSet(DOMAIN Files0) /\ \A p \in DOMAIN Files0 : Files0[p] \in Nat
  BY WorkspaceAssumption DEF WorkspaceAssumption
<1>2. F \in Nat /\ SumFunction(Files0) = F
  BY <1>1, SumByPick DEF SumFunction
<1>3. N \in Nat \ {0}
  BY <1>1, FS_CardinalityType, FS_EmptySet
<1>4. M \in Nat /\ Quota <= M /\ F <= M
  <2> HIDE DEF F
  <2>1. \E x \in {Quota, F} : \A y \in {Quota, F} : x >= y
    <3>1. CASE Quota >= F
      BY <1>1, <1>2, <3>1
    <3>2. CASE F >= Quota
      BY <1>1, <1>2, <3>2
    <3> QED
      BY <1>1, <1>2, <3>1, <3>2
  <2>2. M \in {Quota, F} /\ \A y \in {Quota, F} : M >= y
    BY <2>1 DEF Max
  <2> HIDE DEF M
  <2> QED
    BY <1>1, <1>2, <2>2
<1>5. (N - 1) * ClientMaxBodySize \in Nat
  <2>1. N - 1 \in Nat
    BY <1>3
  <2> QED
    BY <1>1, <2>1
<1>6. Limit = M + (N - 1) * ClientMaxBodySize
  BY <1>2 DEF Limit
<1> DEFINE E == (N - 1) * ClientMaxBodySize
<1>7. M + E \in Nat /\ Quota <= M + E /\ F <= M + E
  <2> HIDE DEF M, E, F
  <2> QED
    BY <1>1, <1>2, <1>4, <1>5 DEF E
<1> QED
  BY <1>1, <1>2, <1>3, <1>4, <1>6, <1>7

\* The bound is kept by a step after which every document's size is one that some
\* document, another for each, had or might have got before it.
LEMMA QuotaCarries ==
  ASSUME TypeInv, TypeInv', QuotaInv, Untroubled, Quota # 0, NEW m,
         \A p \in Path : \A x \in Nat :
             Weighed(p)' /\ x # 0 /\ Value(p, x)' =>
                 /\ m[p] \in Path /\ Weighed(m[p])
                 /\ \E y \in Nat : Value(m[p], y) /\ x <= y,
         \A p, q \in Path : \A x, y \in Nat :
             /\ Weighed(p)' /\ Weighed(q)' /\ x # 0 /\ y # 0 /\ Value(p, x)' /\ Value(q, y)'
             /\ m[p] = m[q]
             => p = q
  PROVE  QuotaInv'
<1> SUFFICES ASSUME NEW P, NEW v, IsFiniteSet(P), P \subseteq Path,
                    \A p \in P : Weighed(p)' /\ Value(p, v[p])'
             PROVE  SumFunctionOnSet(v, P) <= Limit
  BY DEF QuotaInv
<1>1. SizesFit /\ SizesFit'
  BY SizesAre, PTL
<1>2. \A p \in P : v[p] \in Nat /\ p \in Path /\ Weighed(p)' /\ Value(p, v[p])'
  BY <1>1 DEF SizesFit
<1> DEFINE T == {p \in P : v[p] # 0}
           S == {m[p] : p \in T}
           Fits(q, y) == y \in Nat /\ Value(q, y) /\ \A p \in T : m[p] = q => v[p] <= y
           f == [q \in S |-> CHOOSE y : Fits(q, y)]
<1>3. \A p \in T : m[p] \in Path /\ Weighed(m[p]) /\ \E y \in Nat : Value(m[p], y) /\ v[p] <= y
  BY <1>2
<1>4. \A p, q \in T : m[p] = m[q] => p = q
  BY <1>2
<1>5. ASSUME NEW q \in S PROVE Fits(q, f[q])
  <2>1. PICK p \in T : q = m[p]
    OBVIOUS
  <2>2. PICK y \in Nat : Value(q, y) /\ v[p] <= y
    BY <1>3, <2>1
  <2>3. Fits(q, y)
    BY <1>4, <2>1, <2>2
  <2> HIDE DEF Fits, S
  <2> QED
    BY <2>3
<1>6. IsFiniteSet(S)
  <2>1. IsFiniteSet(T)
    BY FS_Subset
  <2>2. [p \in T |-> m[p]] \in Surjection(T, S)
    BY DEF Surjection
  <2> HIDE DEF T, S
  <2> QED
    BY <2>1, <2>2, FS_Surjection
<1>7. SumFunctionOnSet(f, S) <= Limit /\ \A q \in S : f[q] \in Nat
  <2>1. S \subseteq Path /\ \A q \in S : Weighed(q)
    BY <1>3
  <2>2. \A q \in S : Value(q, f[q]) /\ f[q] \in Nat
    <3> HIDE DEF f, S
    <3> QED
      BY <1>5
  <2> HIDE DEF S, f
  <2> QED
    BY <1>6, <2>1, <2>2 DEF QuotaInv
<1>8. SumFunctionOnSet(v, P) <= SumFunctionOnSet(f, S)
  <2>1. \A p \in P : v[p] = 0 \/ (m[p] \in S /\ v[p] <= f[m[p]])
    <3> TAKE p \in P
    <3>1. v[p] # 0 => p \in T /\ m[p] \in S
      OBVIOUS
    <3>2. m[p] \in S => Fits(m[p], f[m[p]])
      BY <1>5
    <3> HIDE DEF f, S, T
    <3>3. v[p] # 0 => v[p] <= f[m[p]]
      BY <3>1, <3>2
    <3> QED
      BY <3>1, <3>3
  <2>2. \A p, q \in P : v[p] # 0 /\ v[q] # 0 /\ m[p] = m[q] => p = q
    BY <1>4
  <2> HIDE DEF S, f
  <2> QED
    BY <1>2, <1>6, <1>7, <2>1, <2>2, SumInto
<1>9. SumFunctionOnSet(v, P) \in Nat /\ SumFunctionOnSet(f, S) \in Nat /\ Limit \in Nat
  <2> HIDE DEF S, f
  <2> QED
    BY <1>2, <1>6, <1>7, SumByPick, LimitIs
<1> QED
  BY <1>7, <1>8, <1>9

\* So it is by one after which every document's size is its own from before it.
LEMMA QuotaStays ==
  ASSUME TypeInv, TypeInv', QuotaInv, Untroubled, Quota # 0,
         \A p \in Path : \A x \in Nat :
             Weighed(p)' /\ x # 0 /\ Value(p, x)' =>
                 Weighed(p) /\ \E y \in Nat : Value(p, y) /\ x <= y
  PROVE  QuotaInv'
<1> DEFINE m == [p \in Path |-> p]
<1>1. \A p \in Path : m[p] = p
  OBVIOUS
<1> HIDE DEF m
<1> QED
  BY <1>1, QuotaCarries

\* Who is on his way was so before, or has just been let in.
LEMMA ComingSteps ==
  ASSUME TypeInv, NEW h \in Handlers, HandlerStep(h), Untroubled', NEW g \in Handlers, NEW p, Coming(g, p)'
  PROVE  /\ req'[g] = req[g]
         /\ \/ Coming(g, p)
            \/ g = h /\ pc[h] = "quota" /\ req[h].path = p /\ CheckQuota(h) /\ HasRoom(h)
<1>1. Serving /\ Typed /\ DOMAIN pc = Handlers /\ pc[h] # "idle"
  BY ServingStep DEF TypeInv, Serving
<1>2. pc'[g] # "idle" /\ pc'[g] \in {"parents"} \cup Writing /\ Writes(req'[g]) /\ req'[g].path = p
  BY DEF Coming, Writing
<1>3. req'[g] = req[g]
  BY <1>1, <1>2, RequestSteps
<1>4. CASE g # h
  BY <1>1, <1>2, <1>3, <1>4, OthersStay DEF Coming
<1>5. CASE g = h
  <2>1. Writes(req[h])
    BY <1>2, <1>3, <1>5
  <2>2. CASE CheckQuota(h)
    BY <1>1, <1>2, <1>3, <1>5, <2>2 DEF CheckQuota, Done, At, Writing
  <2>3. CASE CountTorn(h)
    <3>1. unsure' # {}
      BY <2>1, <2>3 DEF CountTorn, Trouble, Roots, Writes
    <3> QED
      BY <3>1 DEF Untroubled
  <2>4. CASE Look(h)
    BY <1>1, <2>1, <2>4, KindAt DEF Look, At, Writes
  <2>5. CASE ~(CheckQuota(h) \/ CountTorn(h) \/ Look(h))
    <3>1. pc[h] \in {"parents"} \cup Writing
      BY <1>1, <1>2, <1>5, <2>5 DEF HandlerStep, Step, Goto, Done, At, Writing, Refused, Exists, Parents,
         OpenTemp, FillTemp, FillFails, DropTemp, Replace, Put, RemoveTarget, ReplaceAgain,
         ClearTombstone, RemoveOne, Collect, RemoveAll, RemoveEntry, Rename, Record, ClearDest,
         Recorded, Folder, Notify, Walk, Listed
    <3> QED
      BY <1>2, <1>3, <1>5, <3>1 DEF Coming
  <2> QED
    BY <2>2, <2>3, <2>4, <2>5
<1> QED
  BY <1>3, <1>4, <1>5

\* What a step leaves of a document's size, where it moves none.
LEMMA SizeSteps ==
  ASSUME TypeInv, WholeInv, NEW h \in Handlers, pc[h] # "idle", Changes(h), ~Renames(h),
         NEW p \in Path, IsDoc(p)
  PROVE  Size(p)' \in {0, Size(p)} \/ (Coming(h, p) /\ Size(p)' = req[h].size)
<1>1. Serving /\ Tree(file, dirs) /\ DOMAIN file \subseteq Path
  BY DEF TypeInv, Typed, Tree
<1>2. Writes(req[h]) => /\ Temp(h) \in Path /\ Temp(h) # <<>> /\ Last(Temp(h)) = h /\ Temp(h) # p
                        /\ req[h].path \in Path
  BY <1>1, TempIsOwn DEF Writes, IsDoc, IsTemp
<1>3. CASE Keeps \/ Makes(h)
  BY <1>3 DEF Keeps, Makes, Size
<1>4. CASE Opens(h)
  BY <1>2, <1>4 DEF Opens, With, Size
<1>5. CASE Fills(h)
  BY <1>5 DEF Fills, Size, IsDoc
<1>6. CASE Drops(h) \/ \E q \in {req[h].path} \cup scan[h] : Removes(h, q)
  BY <1>6 DEF Drops, Removes, Without, Size
<1>7. CASE Puts(h)
  <2> DEFINE t == Temp(h)
             w == req[h].path
  <2>1. /\ t \in DOMAIN file /\ t # w /\ DOMAIN file' = (DOMAIN file \ {t}) \cup {w}
        /\ file' = Renamed(t, w) /\ w \in Path /\ t \in Path /\ t # p
    BY <1>1, <1>2, <1>7, PutsFile DEF Puts
  <2>2. file[t].size = req[h].size /\ Coming(h, w)
    BY <1>2, <1>7, <2>1 DEF Puts, WholeInv, TempsFilled, Filled, Written, Coming, Writing
  <2>3. CASE p = w
    <3>1. file'[w] = file[Moved(w, t, w)] /\ Moved(w, t, w) = t
      <4>1. w \in DOMAIN Renamed(t, w)
        BY <2>1
      <4>2. Renamed(t, w)[w] = file[Moved(w, t, w)]
        BY <4>1 DEF Renamed
      <4> QED
        BY <2>1, <4>2, MovedUnder, PrefixOrder
    <3> QED
      BY <2>1, <2>2, <2>3, <3>1 DEF Size
  <2>4. CASE p # w /\ p \in DOMAIN file
    <3>1. ~IsPrefix(w, p) \/ p = w
      <4>1. w \notin dirs
        BY <1>1, <1>7, PutsFile
      <4> QED
        BY <1>1, <2>1, <2>4, <4>1, Above DEF IsStrictPrefix
    <3>2. p \in DOMAIN Renamed(t, w)
      BY <2>1, <2>4
    <3>3. Renamed(t, w)[p] = file[Moved(w, t, p)] /\ Moved(w, t, p) = p
      BY <2>4, <3>1, <3>2 DEF Renamed, Moved
    <3> QED
      BY <2>1, <2>4, <3>2, <3>3 DEF Size
  <2>5. CASE p # w /\ p \notin DOMAIN file
    BY <2>1, <2>5 DEF Size
  <2> QED
    BY <2>3, <2>4, <2>5
<1> QED
  BY <1>3, <1>4, <1>5, <1>6, <1>7 DEF Changes

\* A move takes the sizes along; no write is on its way to what it moves.
LEMMA QuotaMoves ==
  ASSUME TypeInv, TypeInv', ClashInv, QuotaInv, Untroubled, Quota # 0,
         NEW h \in Handlers, HandlerStep(h), Untroubled', Renames(h)
  PROVE  QuotaInv'
<1> DEFINE a == req[h].path
           b == req[h].to
           m == [p \in Path |-> Moved(b, a, p)]
<1>1. /\ Serving /\ Typed /\ Tree(file, dirs) /\ DOMAIN file \subseteq Path
      /\ pc[h] # "idle" /\ req[h].kind = "move"
  BY TreeKept DEF TypeInv, Typed, Tree, Renames
<1>2. /\ a \in Path /\ b \in Path /\ a \in Seq(Names) /\ b \in Seq(Names) /\ a # <<>> /\ b # <<>>
      /\ file' = Renamed(a, b) /\ Roots(req[h]) = {a, b}
  BY <1>1, Asked DEF Renames, Roots
<1>3. ASSUME NEW g \in Handlers, NEW p, Coming(g, p)'
      PROVE  /\ Coming(g, p) /\ req'[g] = req[g] /\ p \in Path /\ IsDoc(p)
             /\ ~IsPrefix(a, p) /\ ~IsPrefix(b, p)
  <2>1. Coming(g, p) /\ req'[g] = req[g]
    BY <1>3, ComingSteps DEF Renames
  <2>2. g # h /\ pc[g] # "idle" /\ ~Writes(req[h]) /\ p \in Roots(req[g])
    BY <1>1, <2>1 DEF Coming, Writes, Writing, Roots
  <2>3. ~Clash(req[g], req[h])
    BY <1>1, <1>2, <2>2 DEF ClashInv, Active, Untroubled
  <2>4. ~IsPrefix(a, p) /\ ~IsPrefix(b, p)
    BY <1>2, <2>2, <2>3 DEF Clash
  <2> QED
    BY <2>1, <2>4, SizesAre DEF SizesFit
<1>4. ASSUME NEW p \in DOMAIN file', NEW q \in DOMAIN file, IsPrefix(a, q), p = Moved(a, b, q)
      PROVE  /\ IsPrefix(b, p) /\ Moved(b, a, p) = q /\ file'[p] = file[q]
             /\ IsDoc(p) => IsDoc(q)
  <2>1. IsPrefix(b, p) /\ Moved(b, a, p) = q
    BY <1>1, <1>2, <1>4, MovedUnder
  <2>2. file'[p] = file[Moved(b, a, p)]
    BY <1>2 DEF Renamed
  <2>3. ASSUME q = a PROVE IsDoc(q)
    <3>1. Last(a) \in Names
      BY <1>2 DEF Last
    <3> QED
      BY <2>3, <3>1, NamesAndHandlers DEF IsDoc, IsTemp
  <2>4. ASSUME q # a PROVE IsDoc(p) => IsDoc(q)
    <3>1. q # <<>> /\ p # <<>> /\ Last(p) = Last(q)
      BY <1>1, <1>2, <1>4, <2>4, MovedBack DEF Path
    <3> QED
      BY <3>1 DEF IsDoc, IsTemp
  <2> QED
    BY <2>1, <2>2, <2>3, <2>4
<1>5. ASSUME NEW p \in Path, NEW x \in Nat, IsDoc(p), x # 0, Value(p, x)'
      PROVE  /\ m[p] \in Path /\ IsDoc(m[p]) /\ Value(m[p], x)
             /\ \/ IsPrefix(b, p) /\ IsPrefix(a, m[p]) /\ m[p] \in Path
                \/ ~IsPrefix(b, p) /\ ~IsPrefix(a, p) /\ m[p] = p
  <2>1. CASE \E g \in Handlers : Coming(g, p)' /\ x = req'[g].size
    <3>1. PICK g \in Handlers : Coming(g, p)' /\ x = req'[g].size
      BY <2>1
    <3>2. Coming(g, p) /\ req'[g] = req[g] /\ ~IsPrefix(a, p) /\ ~IsPrefix(b, p)
      BY <1>3, <3>1
    <3>3. m[p] = p
      BY <3>2 DEF Moved
    <3> QED
      BY <1>5, <3>1, <3>2, <3>3 DEF Value
  <2>2. CASE x = Size(p)'
    <3>1. p \in DOMAIN file' /\ x = file'[p].size
      BY <1>5, <2>2 DEF Size
    <3>2. CASE \E q \in DOMAIN file : IsPrefix(a, q) /\ p = Moved(a, b, q)
      <4>1. PICK q \in DOMAIN file : IsPrefix(a, q) /\ p = Moved(a, b, q)
        BY <3>2
      <4>2. IsPrefix(b, p) /\ m[p] = q /\ file'[p] = file[q] /\ IsDoc(q) /\ q \in Path
        BY <1>1, <1>4, <1>5, <3>1, <4>1
      <4> QED
        BY <3>1, <4>1, <4>2 DEF Value, Size
    <3>3. CASE p \in DOMAIN file /\ ~IsPrefix(a, p) /\ ~IsPrefix(b, p)
      <4>1. m[p] = p
        BY <3>3 DEF Moved
      <4>2. file'[p] = file[p]
        BY <1>2, <3>1, <3>3 DEF Renamed, Moved
      <4> QED
        BY <1>5, <3>1, <3>3, <4>1, <4>2 DEF Value, Size
    <3> QED
      BY <1>2, <3>1, <3>2, <3>3, RenamedDomain
  <2> QED
    BY <1>5, <2>1, <2>2 DEF Value
<1>6. ASSUME NEW p \in Path, NEW q \in Path, NEW x \in Nat, NEW y \in Nat,
             IsDoc(p), IsDoc(q), x # 0, y # 0, Value(p, x)', Value(q, y)', m[p] = m[q]
      PROVE  p = q
  <2> HIDE DEF m, a, b
  <2>1. /\ \/ IsPrefix(b, p) /\ IsPrefix(a, m[p])
           \/ ~IsPrefix(b, p) /\ ~IsPrefix(a, p) /\ m[p] = p
        /\ \/ IsPrefix(b, q) /\ IsPrefix(a, m[q])
           \/ ~IsPrefix(b, q) /\ ~IsPrefix(a, q) /\ m[q] = q
    BY <1>5, <1>6
  <2>2. CASE IsPrefix(b, p) /\ IsPrefix(b, q)
    <3>1. Moved(a, b, Moved(b, a, p)) = p /\ Moved(a, b, Moved(b, a, q)) = q
      BY <1>2, <2>2, MovedUnder
    <3>2. m[p] = Moved(b, a, p) /\ m[q] = Moved(b, a, q)
      BY DEF m
    <3> QED
      BY <1>6, <3>1, <3>2
  <2> QED
    BY <1>6, <2>1, <2>2
<1>7. unweighed' = {Moved(a, b, q) : q \in Stands(a, b, unweighed)}
  <2>1. DOMAIN pc = Handlers /\ pc[h] = "rename" /\ pc'[h] = "record" /\ CanRename(a, b)
    BY <1>1 DEF Renames, Serving
  <2> HIDE DEF a, b, m
  <2>2. Refused(h) \/ Rename(h)
    BY <2>1 DEF HandlerStep, At, Exists, CheckQuota, CountTorn, Parents, OpenTemp, FillTemp,
       FillFails, Replace, RemoveTarget, ReplaceAgain, ClearTombstone, RemoveOne, Collect,
       RemoveAll, RemoveEntry, Look, Record, ClearDest, Recorded, Folder, Notify, Walk, Listed
  <2>3. ~Refused(h)
    BY <2>1 DEF Refused, Done
  <2> QED
    BY <2>1, <2>2, <2>3 DEF Rename, a, b
<1>8. ASSUME NEW p \in Path, NEW x \in Nat, Weighed(p)', x # 0, Value(p, x)'
      PROVE  m[p] \in Path /\ Weighed(m[p]) /\ Value(m[p], x) /\ x <= x
  <2>1. IsDoc(p) /\ p \notin unweighed'
    BY <1>8 DEF Weighed
  <2>2. /\ m[p] \in Path /\ IsDoc(m[p]) /\ Value(m[p], x)
        /\ \/ IsPrefix(b, p) /\ IsPrefix(a, m[p])
           \/ ~IsPrefix(b, p) /\ ~IsPrefix(a, p) /\ m[p] = p
    BY <1>5, <1>8, <2>1
  <2>3. Moved(a, b, m[p]) = p
    <3>1. m[p] = Moved(b, a, p)
      OBVIOUS
    <3> HIDE DEF m, a, b
    <3>2. CASE IsPrefix(b, p)
      BY <1>2, <3>1, <3>2, MovedUnder
    <3>3. CASE ~IsPrefix(b, p)
      BY <2>2, <3>3 DEF Moved
    <3> QED
      BY <3>2, <3>3
  <2> HIDE DEF m, a, b
  <2>4. m[p] \notin unweighed
    BY <1>7, <2>1, <2>2, <2>3 DEF Stands
  <2> QED
    BY <2>2, <2>4 DEF Weighed
<1> HIDE DEF m
<1>9. \A p \in Path : \A x \in Nat : Weighed(p)' /\ x # 0 /\ Value(p, x)' =>
          m[p] \in Path /\ Weighed(m[p]) /\ \E y \in Nat : Value(m[p], y) /\ x <= y
  BY <1>8
<1>10. \A p, q \in Path : \A x, y \in Nat :
          Weighed(p)' /\ Weighed(q)' /\ x # 0 /\ y # 0 /\ Value(p, x)' /\ Value(q, y)' /\ m[p] = m[q]
          => p = q
  BY <1>6 DEF Weighed
<1> QED
  BY <1>9, <1>10, QuotaCarries

\* A product grows with its factor.
LEMMA ProductGrows ==
  ASSUME NEW i \in Nat, NEW j \in Nat, NEW k \in Nat, i <= j
  PROVE  i * k \in Nat /\ j * k \in Nat /\ i * k <= j * k
<1>1. PICK d \in Nat : j = i + d
  <2>1. j - i \in Nat /\ j = i + (j - i)
    OBVIOUS
  <2> QED
    BY <2>1
<1>2. j * k = i * k + d * k /\ i * k \in Nat /\ d * k \in Nat
  BY <1>1
<1> QED
  BY <1>2

\* A write that grows a file is let in where there is room for it: beside the sizes
\* of now, with the new one for the old or without, there are then those of the
\* other writes on their way.
LEMMA QuotaAdmits ==
  ASSUME TypeInv, FiniteInv, Quota # 0,
         NEW h \in Handlers, pc[h] = "quota", req[h].size > Size(req[h].path),
         fDirSizeBytes + req[h].size - Size(req[h].path) <= Quota,
         \A p : Size(p)' = Size(p),
         \A g \in Handlers : \A p : Coming(g, p)' =>
             /\ req'[g] = req[g]
             /\ Coming(g, p) \/ (g = h /\ p = req[h].path),
         NEW P, NEW v, IsFiniteSet(P), P \subseteq Path,
         \A p \in P : Value(p, v[p])'
  PROVE  SumFunctionOnSet(v, P) <= Limit
<1> DEFINE w == req[h].path
           s == req[h].size
           f == [p \in DOMAIN file |-> file[p].size]
           u == [p \in P |-> IF p = w /\ v[p] = s THEN s ELSE Size(p)]
           M == ClientMaxBodySize
           On(p) == {g \in Handlers : Coming(g, p) /\ v[p] = req[g].size}
           More == {p \in P : v[p] > u[p]}
<1>1. /\ Serving /\ s \in Nat /\ M \in Nat /\ Quota \in Nat /\ IsFiniteSet(Handlers)
      /\ SizesFit
  <2>1. pc[h] # "idle"
    OBVIOUS
  <2> QED
    BY <2>1, Asked, LimitIs, SizesAre, WorkspaceAssumption DEF WorkspaceAssumption, TypeInv
<1>2. \A p \in P : \/ v[p] = Size(p)
                   \/ On(p) # {}
                   \/ p = w /\ v[p] = s
  <2> TAKE p \in P
  <2>1. Value(p, v[p])'
    OBVIOUS
  <2>2. v[p] = Size(p) \/ \E g \in Handlers : Coming(g, p)' /\ v[p] = req[g].size
    BY <2>1 DEF Value
  <2> QED
    BY <2>2
<1>3. \A p \in P : v[p] \in Nat /\ u[p] \in Nat
  BY <1>1, <1>2 DEF SizesFit
<1>4. /\ \A p \in DOMAIN file : f[p] \in Nat /\ f[p] = Size(p)
      /\ DOMAIN f = DOMAIN file /\ IsFiniteSet(DOMAIN file)
      /\ fDirSizeBytes = SumFunctionOnSet(f, DOMAIN file)
  <2>1. fDirSizeBytes = SumFunctionOnSet(f, DOMAIN file)
    BY DEF fDirSizeBytes, SumFunction
  <2> QED
    BY <1>1, <2>1 DEF Size, SizesFit, FiniteInv
<1>5. SumFunctionOnSet(f, DOMAIN file) \in Nat
  <2> HIDE DEF f
  <2> QED
    BY <1>4, SumByPick
<1>6. SumFunctionOnSet(u, P) <= Quota
  <2> DEFINE P1 == P \ {w}
             D1 == DOMAIN file \ {w}
  <2>1. CASE w \in P /\ v[w] = s
    <3>1. IsFiniteSet(P1) /\ IsFiniteSet(D1)
      BY <1>4, FS_RemoveElement
    <3>2. \A p \in P1 : u[p] = Size(p) /\ u[p] \in Nat /\ (u[p] = 0 \/ (p \in D1 /\ u[p] <= f[p]))
      BY <1>1, <1>3, <1>4 DEF Size, SizesFit
    <3>3. SumFunctionOnSet(u, P1) <= SumFunctionOnSet(f, D1)
      <4> DEFINE m == [p \in P1 |-> p]
      <4>1. \A p \in P1 : u[p] = 0 \/ (m[p] \in D1 /\ u[p] <= f[m[p]])
        BY <3>2
      <4>2. \A p, q \in P1 : u[p] # 0 /\ u[q] # 0 /\ m[p] = m[q] => p = q
        OBVIOUS
      <4>3. /\ \A p \in P1 : u[p] \in Nat
            /\ \A p \in D1 : f[p] \in Nat
        BY <1>4, <3>2
      <4> HIDE DEF m, u, f, P1, D1
      <4> QED
        BY <3>1, <4>1, <4>2, <4>3, SumInto
    <3>4. SumFunctionOnSet(f, DOMAIN file) = Size(w) + SumFunctionOnSet(f, D1) /\ SumFunctionOnSet(f, D1) \in Nat
      <4>1. SumFunctionOnSet(f, D1) \in Nat
        <5>1. \A p \in D1 : f[p] \in Nat
          BY <1>4
        <5> HIDE DEF f, D1
        <5> QED
          BY <3>1, <5>1, SumByPick
      <4>2. CASE w \in DOMAIN file
        <5>1. f[w] = Size(w)
          BY <1>4, <4>2
        <5> HIDE DEF f
        <5> QED
          BY <1>4, <4>1, <4>2, <5>1, SumAny
      <4>3. CASE w \notin DOMAIN file
        <5>1. D1 = DOMAIN file /\ Size(w) = 0
          BY <4>3 DEF Size
        <5> HIDE DEF f, D1
        <5> QED
          BY <4>1, <5>1
      <4> QED
        BY <4>2, <4>3
    <3>5. SumFunctionOnSet(u, P) = s + SumFunctionOnSet(u, P1) /\ SumFunctionOnSet(u, P1) \in Nat
      <4>1. u[w] = s /\ w \in P /\ \A p \in P : u[p] \in Nat
        BY <1>3, <2>1
      <4>2. \A p \in P1 : u[p] \in Nat
        BY <4>1
      <4> HIDE DEF u
      <4>3. SumFunctionOnSet(u, P1) \in Nat
        <5> HIDE DEF P1
        <5> QED
          BY <3>1, <4>2, SumByPick
      <4> HIDE DEF w, s
      <4>4. SumFunctionOnSet(u, P) = u[w] + SumFunctionOnSet(u, P \ {w})
        BY <4>1, SumAny
      <4> QED
        BY <4>1, <4>3, <4>4
    <3>6. Size(w) \in Nat /\ SumFunctionOnSet(f, DOMAIN file) + s - Size(w) <= Quota
      BY <1>1, <1>4 DEF SizesFit
    <3> HIDE DEF f, u, w, s, P1, D1
    <3> QED
      BY <1>1, <3>3, <3>4, <3>5, <3>6
  <2>2. CASE ~(w \in P /\ v[w] = s)
    <3> DEFINE m == [p \in P |-> p]
    <3>1. \A p \in P : u[p] = Size(p) /\ (u[p] = 0 \/ (m[p] \in DOMAIN file /\ u[p] <= f[m[p]]))
      BY <1>1, <1>3, <1>4, <2>2 DEF Size, SizesFit
    <3>2. \A p, q \in P : u[p] # 0 /\ u[q] # 0 /\ m[p] = m[q] => p = q
      OBVIOUS
    <3>3. SumFunctionOnSet(u, P) \in Nat
      <4> HIDE DEF u
      <4> QED
        BY <1>3, SumByPick
    <3>4. SumFunctionOnSet(u, P) <= SumFunctionOnSet(f, DOMAIN file)
      <4> HIDE DEF m, u, f
      <4> QED
        BY <1>3, <1>4, <3>1, <3>2, SumInto
    <3>5. Size(w) \in Nat /\ s > Size(w) /\ SumFunctionOnSet(f, DOMAIN file) + s - Size(w) <= Quota
      BY <1>1, <1>4 DEF SizesFit
    <3> HIDE DEF f, u, w, s
    <3> QED
      BY <1>1, <1>5, <3>3, <3>4, <3>5
  <2> QED
    BY <2>1, <2>2
<1>7. \A p \in P : v[p] <= u[p] + M
  <2> TAKE p \in P
  <2>1. CASE p = w /\ v[p] = s
    <3>1. v[p] = s /\ u[p] = s
      BY <2>1
    <3> QED
      BY <1>1, <3>1
  <2>2. CASE ~(p = w /\ v[p] = s) /\ v[p] = Size(p)
    BY <1>1, <1>3, <2>2
  <2>3. CASE On(p) # {}
    <3>1. v[p] <= M
      BY <1>1, <2>3 DEF SizesFit
    <3> QED
      BY <1>1, <1>3, <3>1
  <2> QED
    BY <1>2, <2>1, <2>2, <2>3
<1>8. SumFunctionOnSet(v, P) <= SumFunctionOnSet(u, P) + Cardinality(More) * M
  <2> HIDE DEF u, M
  <2> QED
    BY <1>1, <1>3, <1>7, SumExcess
<1>9. Cardinality(More) \in Nat /\ Cardinality(More) <= Cardinality(Handlers) - 1
  <2> DEFINE k == [p \in More |-> CHOOSE g \in Handlers : Coming(g, p)]
  <2>1. ASSUME NEW p \in More PROVE k[p] \in Handlers /\ Coming(k[p], p) /\ k[p] # h
    <3>1. ~(p = w /\ v[p] = s)
      BY <1>1
    <3>2. On(p) # {}
      BY <1>1, <1>2, <3>1 DEF SizesFit
    <3>3. \E g \in Handlers : Coming(g, p)
      BY <3>2
    <3>4. k[p] \in Handlers /\ Coming(k[p], p)
      BY <3>3
    <3>5. ~Coming(h, p)
      BY DEF Coming, Writing
    <3> QED
      BY <3>4, <3>5
  <2>2. \A p, q \in More : k[p] = k[q] => p = q
    <3> HIDE DEF k, More
    <3> QED
      BY <2>1 DEF Coming
  <2>3. k \in Injection(More, Handlers \ {h})
    <3>1. k = [p \in More |-> k[p]]
      OBVIOUS
    <3>2. k \in [More -> Handlers \ {h}]
      <4> HIDE DEF k, More
      <4> QED
        BY <2>1, <3>1
    <3> HIDE DEF k, More
    <3> QED
      BY <2>2, <3>2 DEF Injection, IsInjective
  <2>4. /\ IsFiniteSet(Handlers \ {h})
        /\ Cardinality(Handlers \ {h}) = Cardinality(Handlers) - 1
    BY <1>1, FS_RemoveElement
  <2>5. IsFiniteSet(More) /\ Cardinality(More) <= Cardinality(Handlers \ {h})
    <3> HIDE DEF k, More
    <3> QED
      BY <2>3, <2>4, FS_Injection
  <2>6. Cardinality(More) \in Nat
    <3> HIDE DEF More
    <3> QED
      BY <2>5, FS_CardinalityType
  <2> QED
    BY <2>4, <2>5, <2>6
<1> DEFINE C == Cardinality(More)
           N == Cardinality(Handlers)
<1>10. N - 1 \in Nat /\ C \in Nat /\ C <= N - 1 /\ M \in Nat
  BY <1>9, LimitIs
<1>11. C * M \in Nat /\ (N - 1) * M \in Nat /\ C * M <= (N - 1) * M
  <2> HIDE DEF C, N, M
  <2> QED
    BY <1>10, ProductGrows
<1>12. SumFunctionOnSet(v, P) \in Nat /\ SumFunctionOnSet(u, P) \in Nat
  <2> HIDE DEF u
  <2> QED
    BY <1>3, SumByPick
<1> DEFINE B == Max({Quota, SumFunction(Files0)})
<1>13. B \in Nat /\ Quota <= B /\ Limit = B + (N - 1) * M
  BY LimitIs
<1> DEFINE X == C * M
           Y == (N - 1) * M
<1>14. SumFunctionOnSet(v, P) <= SumFunctionOnSet(u, P) + X /\ X <= Y /\ X \in Nat /\ Y \in Nat /\ Limit = B + Y
  BY <1>8, <1>11, <1>13
<1> HIDE DEF X, Y, B, C, N, M, u, More
<1> QED
  BY <1>1, <1>6, <1>12, <1>13, <1>14

\* The tree stays finite.
LEMMA FiniteKept == TypeInv /\ FiniteInv /\ [Next]_vars => FiniteInv'
<1> SUFFICES ASSUME TypeInv, FiniteInv, [Next]_vars PROVE FiniteInv'
  OBVIOUS
<1>1. Serving /\ Typed /\ IsFiniteSet(DOMAIN file)
  BY DEF TypeInv, FiniteInv
<1>2. CASE file' = file
  BY <1>1, <1>2 DEF FiniteInv
<1>3. ASSUME NEW a, NEW b, file' = Renamed(a, b) PROVE FiniteInv'
  <2> DEFINE D == DOMAIN file
             others == {q \in D : ~IsPrefix(a, q) /\ ~IsPrefix(b, q)}
             moved == {q \in D : IsPrefix(a, q)}
             image == {Moved(a, b, q) : q \in moved}
  <2>1. DOMAIN file' = image \cup others
    BY <1>3 DEF Renamed
  <2>2. IsFiniteSet(others) /\ IsFiniteSet(moved)
    BY <1>1, FS_Subset
  <2>3. [q \in moved |-> Moved(a, b, q)] \in Surjection(moved, image)
    BY DEF Surjection
  <2>4. IsFiniteSet(image)
    <3> HIDE DEF moved, image
    <3> QED
      BY <2>2, <2>3, FS_Surjection
  <2>5. IsFiniteSet(image \cup others)
    BY <2>2, <2>4, FS_Union
  <2> QED
    BY <2>1, <2>5 DEF FiniteInv
<1>4. ASSUME NEW h \in Handlers, HandlerStep(h) PROVE FiniteInv'
  <2>1. Changes(h)
    BY <1>1, <1>4, TreeKept
  <2>2. CASE Opens(h)
    <3>1. DOMAIN file' = DOMAIN file \cup {Temp(h)}
      BY <2>2 DEF Opens, With
    <3> QED
      BY <1>1, <3>1, FS_AddElement DEF FiniteInv
  <2>3. CASE Fills(h) \/ Drops(h) \/ \E p \in {req[h].path} \cup scan[h] : Removes(h, p)
    <3>1. DOMAIN file' \subseteq DOMAIN file
      BY <2>3 DEF Fills, Drops, Removes, Without
    <3> QED
      BY <1>1, <3>1, FS_Subset DEF FiniteInv
  <2> QED
    BY <1>2, <1>3, <2>1, <2>2, <2>3 DEF Changes, Keeps, Makes, Puts, Renames
<1> QED
  BY <1>2, <1>4 DEF Next, Take, Crash, vars, tree

\* The bound is kept by every step.
LEMMA QuotaKept ==
  TypeInv /\ TypeInv' /\ WholeInv /\ ClashInv /\ FiniteInv /\ QuotaInv /\ [Next]_vars => QuotaInv'
<1> SUFFICES ASSUME TypeInv, TypeInv', WholeInv, ClashInv, FiniteInv, QuotaInv, [Next]_vars,
                    Untroubled', Quota # 0
             PROVE  QuotaInv'
  BY DEF QuotaInv
<1>0. /\ Untroubled /\ Serving /\ Typed /\ SizesFit /\ DOMAIN pc = Handlers /\ DOMAIN req = Handlers
  BY UnsureGrows, SizesAre DEF Untroubled, TypeInv, Serving
<1>1. ASSUME file' = file, unweighed' = unweighed,
             \A g \in Handlers : \A p : Coming(g, p)' => Coming(g, p) /\ req'[g] = req[g]
      PROVE  QuotaInv'
  <2>1. ASSUME NEW p, NEW x \in Nat, Weighed(p)', Value(p, x)' PROVE Weighed(p) /\ Value(p, x) /\ x <= x
    BY <1>1, <2>1 DEF Value, Size, Weighed
  <2> QED
    BY <1>0, <2>1, QuotaStays
<1>2. ASSUME NEW h \in Handlers, HandlerStep(h) PROVE QuotaInv'
  <2>1. pc[h] # "idle" /\ Changes(h)
    BY <1>0, <1>2, TreeKept
  <2>2. \A g \in Handlers : \A p : Coming(g, p)' =>
            /\ req'[g] = req[g]
            /\ \/ Coming(g, p)
               \/ g = h /\ pc[h] = "quota" /\ req[h].path = p /\ CheckQuota(h) /\ HasRoom(h)
    BY <1>2, ComingSteps
  <2>3. CASE Renames(h)
    BY <1>0, <1>2, <2>3, QuotaMoves
  <2>4. CASE ~Renames(h) /\ ~(CheckQuota(h) /\ HasRoom(h))
    <3>0. unweighed' = unweighed
      <4>1. ~Rename(h) \/ UNCHANGED unweighed
        BY <1>0, <2>1, <2>4, KindAt DEF Rename, At, Step, Goto, SetTree, Renames, Follows
      <4> QED
        BY <1>2, <2>4, <4>1 DEF HandlerStep, Untroubled, Refused, Exists, CheckQuota, CountTorn, Parents,
           OpenTemp, FillTemp, FillFails, DropTemp, Replace, RemoveTarget, ReplaceAgain,
           ClearTombstone, Swallowed, Mishap, Trouble, RemoveOne, Collect, RemoveAll, RemoveEntry,
           Look, Record, ClearDest, Recorded, Folder, Notify, Walk, Listed, history, reckoned
    <3>1. ASSUME NEW p \in Path, NEW x \in Nat, Weighed(p)', x # 0, Value(p, x)'
          PROVE  Weighed(p) /\ Value(p, x) /\ x <= x
      <4>0. Weighed(p) /\ IsDoc(p)
        BY <3>0, <3>1 DEF Weighed
      <4>1. CASE x = Size(p)'
        <5>1. x = Size(p) \/ (Coming(h, p) /\ x = req[h].size)
          BY <2>1, <2>4, <3>1, <4>0, <4>1, SizeSteps
        <5> QED
          BY <4>0, <5>1 DEF Value
      <4>2. CASE \E g \in Handlers : Coming(g, p)' /\ x = req'[g].size
        BY <2>2, <2>4, <4>0, <4>2 DEF Value
      <4> QED
        BY <3>1, <4>1, <4>2 DEF Value
    <3> QED
      BY <1>0, <3>1, QuotaStays
  <2>5. CASE CheckQuota(h) /\ HasRoom(h)
    <3> DEFINE w == req[h].path
    <3>1. /\ file' = file /\ pc[h] = "quota"
          /\ unweighed' = IF Grows(h) THEN {} ELSE IF IsNew(h) THEN unweighed \cup {w} ELSE unweighed
      BY <1>0, <2>5 DEF CheckQuota, tree, At
    <3>2. \A p : Size(p)' = Size(p)
      BY <3>1 DEF Size
    <3>3. Existing(h) = Size(w) /\ req[h].size \in Nat /\ Size(w) \in Nat
      BY <1>0, <2>1, Asked DEF Existing, Size, SizesFit
    <3>4. CASE ~Grows(h)
      <4>1. ASSUME NEW p \in Path, NEW x \in Nat, Weighed(p)', x # 0, Value(p, x)'
            PROVE  Weighed(p) /\ \E y \in Nat : Value(p, y) /\ x <= y
        <5>1. \/ Value(p, x)
              \/ p = w /\ x = req[h].size
          BY <2>2, <3>2, <4>1 DEF Value
        <5>2. Size(p) \in Nat /\ Value(p, Size(p))
          BY <1>0 DEF SizesFit, Value
        <5>3. Weighed(p) /\ (p = w => ~IsNew(h))
          BY <3>1, <3>4, <4>1 DEF Weighed
        <5>4. p = w => req[h].size <= Size(w)
          BY <3>3, <3>4, <5>3 DEF Grows
        <5> QED
          BY <5>1, <5>2, <5>3, <5>4
      <4> QED
        BY <1>0, <4>1, QuotaStays
    <3>5. CASE Grows(h)
      <4>1. req[h].size > Size(w) /\ fDirSizeBytes + req[h].size - Size(w) <= Quota
        BY <2>5, <3>3, <3>5 DEF HasRoom, Grows
      <4>2. \A g \in Handlers : \A p : Coming(g, p)' =>
                req'[g] = req[g] /\ (Coming(g, p) \/ (g = h /\ p = w))
        BY <2>2
      <4> SUFFICES ASSUME NEW P, NEW v, IsFiniteSet(P), P \subseteq Path,
                          \A p \in P : Weighed(p)' /\ Value(p, v[p])'
                   PROVE  SumFunctionOnSet(v, P) <= Limit
        BY DEF QuotaInv
      <4> QED
        BY <3>1, <3>2, <4>1, <4>2, QuotaAdmits
    <3> QED
      BY <3>4, <3>5
  <2> QED
    BY <2>3, <2>4, <2>5
<1>3. ASSUME NEW h \in Handlers, NEW r \in Requests[h], Take(h, r) PROVE QuotaInv'
  <2>1. /\ file' = file /\ \A g \in Handlers \ {h} : pc'[g] = pc[g] /\ req'[g] = req[g]
        /\ pc'[h] = FirstPhase[r.kind] /\ r.kind \in Kinds /\ unweighed' = unweighed
    BY <1>0, <1>3, WorkspaceAssumption
    DEF WorkspaceAssumption, Request, Take, Goto, Trouble, Untroubled, tree
  <2>2. FirstPhase[r.kind] \notin {"parents"} \cup Writing
    BY <2>1 DEF FirstPhase, Kinds, Writing
  <2> QED
    BY <1>1, <2>1, <2>2 DEF Coming
<1>4. CASE Crash
  <2>1. file' = file /\ unweighed' = unweighed /\ \A g \in Handlers : pc'[g] = "idle"
    BY <1>4 DEF Crash, Trouble, Untroubled, tree
  <2> QED
    BY <1>1, <2>1 DEF Coming, Writing
<1>5. CASE UNCHANGED vars
  BY <1>1, <1>5 DEF vars, tree, handling, history, reckoned, Coming
<1> QED
  BY <1>2, <1>3, <1>4, <1>5 DEF Next

\* It holds of the tree to begin with.
LEMMA QuotaBegins == Init => FiniteInv /\ QuotaInv
<1> SUFFICES ASSUME Init PROVE FiniteInv /\ QuotaInv
  OBVIOUS
<1>1. IsFiniteSet(DOMAIN Files0) /\ \A p \in DOMAIN Files0 : Files0[p] \in Nat
  BY WorkspaceAssumption DEF WorkspaceAssumption
<1>2. FiniteInv
  BY <1>1 DEF Init, FiniteInv
<1>3. ASSUME NEW P, NEW v, IsFiniteSet(P), \A p \in P : Value(p, v[p])
      PROVE  SumFunctionOnSet(v, P) <= Limit
  <2> DEFINE m == [p \in P |-> p]
  <2>1. \A p \in P : v[p] = IF p \in DOMAIN Files0 THEN Files0[p] ELSE 0
    BY <1>3 DEF Init, Value, Coming, Writing, Size
  <2>2. \A p \in P : v[p] \in Nat /\ (v[p] = 0 \/ (m[p] \in DOMAIN Files0 /\ v[p] <= Files0[m[p]]))
    BY <1>1, <2>1
  <2>3. \A p, q \in P : v[p] # 0 /\ v[q] # 0 /\ m[p] = m[q] => p = q
    OBVIOUS
  <2>4. SumFunctionOnSet(v, P) <= SumFunctionOnSet(Files0, DOMAIN Files0)
    <3> HIDE DEF m
    <3> QED
      BY <1>1, <1>3, <2>2, <2>3, SumInto
  <2>5. SumFunctionOnSet(v, P) \in Nat /\ SumFunctionOnSet(Files0, DOMAIN Files0) \in Nat
    BY <1>1, <1>3, <2>2, SumByPick
  <2> QED
    BY <2>4, <2>5, LimitIs
<1> QED
  BY <1>2, <1>3 DEF QuotaInv

\* With nothing under way and nothing gone amiss the files, but those let in as new
\* since the tree was last counted, are within the quota, or what was there before
\* it, or over it by no more than one body for each other handler: what fCheckQuota
\* admits without reserving it, and no more, for any number of handlers.
THEOREM QuotaHolds == Spec => []WithinQuota
<1>1. ASSUME TypeInv, TempsHaveWriters, FiniteInv, QuotaInv PROVE WithinQuota
  <2> DEFINE P == DOMAIN file \ unweighed
             f == [p \in P |-> file[p].size]
  <2> SUFFICES ASSUME AtRest, Quota # 0, Untroubled PROVE SumFunction(f) <= Limit
    BY DEF WithinQuota, Limit
  <2>1. \A p \in P : p \in Path /\ Weighed(p) /\ Value(p, f[p])
    <3> TAKE p \in P
    <3>1. ~IsTemp(p)
      BY <1>1 DEF AtRest, TempsHaveWriters, IsTemp
    <3> QED
      BY <1>1, <3>1 DEF IsDoc, Weighed, Value, Size, TypeInv, Typed, Tree
  <2>2. SumFunction(f) = SumFunctionOnSet(f, P)
    BY DEF SumFunction
  <2>3. IsFiniteSet(P)
    BY <1>1, FS_Subset DEF FiniteInv
  <2> HIDE DEF f, P
  <2> QED
    BY <1>1, <2>1, <2>2, <2>3 DEF QuotaInv
<1> QED
  BY <1>1, TypesHold, WholeBegins, WholeKept, ClashesBegin, ClashesKept, TempsBegin, TempsKept,
     QuotaBegins, QuotaKept, FiniteKept, PTL DEF Spec
=============================================================================
