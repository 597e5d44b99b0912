------------------------- MODULE RateLimiterProofs -------------------------
(***************************************************************************)
(* Proofs about RateLimiter, for any clients, kinds, limits, windows no    *)
(* longer than cMaxWindow, and any finite number of handlers.              *)
(***************************************************************************)
EXTENDS RateLimiter, FiniteSetTheorems, TLAPS

LEMMA TypeStep == TypeOK /\ [Next]_vars => TypeOK'
<1> SUFFICES ASSUME TypeOK, [Next]_vars PROVE TypeOK'
  OBVIOUS
<1> USE RateLimiterAssumption
<1>1. ASSUME NEW h \in Handlers, NEW k \in Keys, Admit(h, k) PROVE TypeOK'
  BY <1>1 DEF TypeOK, Admit
<1>2. ASSUME NEW h \in Handlers, Succeed(h) PROVE TypeOK'
  BY <1>2 DEF TypeOK, Succeed
<1>3. ASSUME NEW h \in Handlers, Record(h) PROVE TypeOK'
  <2> DEFINE k == doing[h]
  <2>1. k \in Keys
    BY <1>3 DEF TypeOK, Record
  <2>2. buckets' = fRecord(k) /\ doing' \in [Handlers -> Keys \cup {Idle}]
    BY <1>3 DEF TypeOK, Record
  <2>3. DOMAIN buckets' = Kept(k) \cup {k}
    BY <2>2 DEF fRecord
  <2>4. ASSUME NEW j \in Kept(k) \cup {k} PROVE buckets'[j] \in Bucket
    <3>1. j # k => buckets'[j] = buckets[j] /\ j \in DOMAIN buckets
      BY <2>2, <2>4 DEF fRecord, Kept
    <3>2. k \in DOMAIN buckets => [buckets[k] EXCEPT !.count = @ + 1] \in Bucket
      BY DEF TypeOK, Bucket
    <3>3. [count |-> 1, age |-> 0] \in Bucket
      BY DEF Bucket
    <3>4. j = k => \/ k \in DOMAIN buckets /\ buckets'[j] = [buckets[k] EXCEPT !.count = @ + 1]
                   \/ buckets'[j] = [count |-> 1, age |-> 0]
      BY <2>2, <2>4 DEF fRecord, Kept
    <3> QED
      BY <3>1, <3>2, <3>3, <3>4 DEF TypeOK
  <2> QED
    BY <2>1, <2>2, <2>3, <2>4 DEF TypeOK, Kept
<1>4. CASE Tick
  BY <1>4 DEF TypeOK, Tick, Bucket
<1>5. CASE UNCHANGED vars
  BY <1>5 DEF TypeOK, vars
<1> QED
  BY <1>1, <1>2, <1>3, <1>4, <1>5 DEF Next

\* The buckets and the handlers keep their types: no bucket is ever empty or
\* older than the sweep lets it become.
THEOREM TypeCorrect == Spec => []TypeOK
<1>1. Init => TypeOK
  BY RateLimiterAssumption DEF Init, TypeOK
<1> QED
  BY <1>1, TypeStep, PTL DEF Spec
----------------------------------------------------------------------------
(* How a record changes what is current *)

\* The sweep and the count leave every other key's window as it was, because no
\* window is longer than cMaxWindow.
LEMMA RecordCurrent ==
  ASSUME TypeOK, NEW k \in Keys, buckets' = fRecord(k), NEW j \in Keys
  PROVE  /\ j # k => HitsOf(j)' = HitsOf(j) /\ LeftOf(j)' = LeftOf(j)
         /\ HitsOf(k)' = HitsOf(k) + 1
         /\ LeftOf(k)' = IF LeftOf(k) = 0 THEN WindowOf[k[2]] ELSE LeftOf(k)
<1> USE RateLimiterAssumption
<1>0. /\ j[2] \in Kinds /\ WindowOf[j[2]] \in Nat \ {0} /\ WindowOf[j[2]] <= cMaxWindow
      /\ k[2] \in Kinds /\ WindowOf[k[2]] \in Nat \ {0} /\ WindowOf[k[2]] <= cMaxWindow
  BY DEF Keys
<1>1. DOMAIN buckets' = Kept(k) \cup {k}
  BY DEF fRecord
<1>2. \A i \in DOMAIN buckets : buckets[i].age \in Nat /\ buckets[i].count \in Nat \ {0}
  BY DEF TypeOK, Bucket
<1>3. ASSUME j # k PROVE HitsOf(j)' = HitsOf(j) /\ LeftOf(j)' = LeftOf(j)
  <2>1. j \in Kept(k) => j \in DOMAIN buckets /\ j \in DOMAIN buckets' /\ buckets'[j] = buckets[j]
    BY <1>1, <1>3 DEF fRecord, Kept
  <2>2. j \notin Kept(k) => ~Current(j) /\ j \notin DOMAIN buckets'
    BY <1>0, <1>1, <1>2, <1>3 DEF Kept, Current
  <2> QED
    BY <2>1, <2>2 DEF HitsOf, LeftOf, Current
<1>4. CASE Current(k)
  <2>1. k \in Kept(k)
    BY <1>0, <1>2, <1>4 DEF Current, Kept
  <2>2. buckets'[k] = [buckets[k] EXCEPT !.count = @ + 1]
    BY <1>4, <2>1 DEF fRecord, Current
  <2>3. buckets'[k].age = buckets[k].age /\ buckets'[k].count = buckets[k].count + 1
    BY <1>4, <2>2 DEF TypeOK, Bucket, Current
  <2>4. LeftOf(k) # 0
    BY <1>0, <1>2, <1>4 DEF LeftOf, Current
  <2> QED
    BY <1>1, <1>3, <1>4, <2>3, <2>4 DEF HitsOf, LeftOf, Current
<1>5. CASE ~Current(k)
  <2>1. buckets'[k] = [count |-> 1, age |-> 0]
    BY <1>5 DEF fRecord, Current, Kept
  <2> QED
    BY <1>0, <1>1, <1>3, <1>5, <2>1 DEF HitsOf, LeftOf, Current
<1> QED
  BY <1>3, <1>4, <1>5
----------------------------------------------------------------------------
(* The limiter implements fixed windows *)

hitsBar == [k \in Keys |-> HitsOf(k)]
leftBar == [k \in Keys |-> LeftOf(k)]

LEMMA RecordHits ==
  ASSUME TypeOK, NEW k \in Keys, buckets' = fRecord(k)
  PROVE  Windows!Hit(k)
<1>1. hitsBar' = [hitsBar EXCEPT ![k] = @ + 1]
  BY RecordCurrent DEF hitsBar
<1>2. leftBar' = [leftBar EXCEPT ![k] = IF @ = 0 THEN WindowOf[k[2]] ELSE @]
  BY RecordCurrent DEF leftBar
<1> QED
  BY <1>1, <1>2 DEF Windows!Hit, hitsBar, leftBar

LEMMA TickTicks == ASSUME TypeOK, Tick PROVE Windows!Tick
<1> USE RateLimiterAssumption
<1>1. ASSUME NEW k \in Keys
      PROVE  /\ LeftOf(k)' = IF LeftOf(k) > 0 THEN LeftOf(k) - 1 ELSE 0
             /\ HitsOf(k)' = IF LeftOf(k) > 1 THEN HitsOf(k) ELSE 0
  <2>1. WindowOf[k[2]] \in Nat \ {0} /\ WindowOf[k[2]] <= cMaxWindow /\ cMaxWindow \in Nat
    BY DEF Keys
  <2>2. DOMAIN buckets' = DOMAIN buckets
    BY DEF Tick
  <2>3. CASE k \in DOMAIN buckets
    <3>1. buckets[k].age \in 0..cMaxWindow /\ buckets[k].count \in Nat
      BY <2>3 DEF TypeOK, Bucket
    <3>2. /\ buckets'[k].age = IF buckets[k].age < cMaxWindow THEN buckets[k].age + 1
                               ELSE buckets[k].age
          /\ buckets'[k].count = buckets[k].count
      BY <2>3 DEF Tick, TypeOK, Bucket
    <3> QED
      BY <2>1, <2>2, <2>3, <3>1, <3>2 DEF LeftOf, HitsOf, Current
  <2>4. CASE k \notin DOMAIN buckets
    BY <2>2, <2>4 DEF LeftOf, HitsOf, Current
  <2> QED
    BY <2>3, <2>4
<1>2. leftBar' = [k \in Keys |-> IF leftBar[k] > 0 THEN leftBar[k] - 1 ELSE 0]
  BY <1>1 DEF leftBar
<1>3. hitsBar' = [k \in Keys |-> IF leftBar[k] > 1 THEN hitsBar[k] ELSE 0]
  BY <1>1 DEF hitsBar, leftBar
<1> QED
  BY <1>2, <1>3 DEF Windows!Tick, hitsBar, leftBar

\* Every behaviour of the limiter, its lazy sweep included, is one of plain
\* fixed-window counters that forget nothing early (fRecord, cMaxWindow).
THEOREM Implements == Spec => FixedWindows
<1>1. Init => Windows!Init
  BY DEF Init, Windows!Init, HitsOf, LeftOf, Current
<1>2. TypeOK /\ [Next]_vars => [Windows!Next]_<<hitsBar, leftBar>>
  <2> SUFFICES ASSUME TypeOK, [Next]_vars
               PROVE  Windows!Next \/ UNCHANGED <<hitsBar, leftBar>>
    OBVIOUS
  <2>1. ASSUME UNCHANGED buckets PROVE UNCHANGED <<hitsBar, leftBar>>
    BY <2>1 DEF hitsBar, leftBar, HitsOf, LeftOf, Current
  <2>2. ASSUME NEW h \in Handlers, Record(h) PROVE Windows!Next
    <3>1. doing[h] \in Keys /\ buckets' = fRecord(doing[h])
      BY <2>2 DEF TypeOK, Record
    <3> QED
      BY <3>1, RecordHits DEF Windows!Next
  <2>3. CASE Tick
    BY <2>3, TickTicks DEF Windows!Next
  <2> QED
    BY <2>1, <2>2, <2>3 DEF Next, Admit, Succeed, vars
<1> QED
  BY <1>1, <1>2, TypeCorrect, PTL DEF Spec, FixedWindows, Windows!Spec, hitsBar, leftBar
----------------------------------------------------------------------------
(* The overshoot *)

\* The handlers admitted for key k and not yet counted.
Pending(k) == {h \in Handlers : doing[h] = k}

\* Whatever is admitted was admitted below the limit: what the window has
\* counted and what may still be counted stay together under the bound.
Overshoot(k) == HitsOf(k) + Cardinality(Pending(k)) <= Limit[k[2]] + Cardinality(Handlers) - 1

LEMMA PendingCard ==
  ASSUME NEW k
  PROVE  /\ IsFiniteSet(Pending(k)) /\ Cardinality(Pending(k)) \in Nat
         /\ Cardinality(Handlers) \in Nat
         /\ Cardinality(Pending(k)) <= Cardinality(Handlers)
BY RateLimiterAssumption, FS_Subset, FS_CardinalityType DEF Pending

\* A handler that is done is pending no more.
LEMMA PendingLess ==
  ASSUME NEW k, NEW h \in Handlers, doing[h] = k, Pending(k)' = Pending(k) \ {h}
  PROVE  Cardinality(Pending(k)') = Cardinality(Pending(k)) - 1
BY PendingCard, FS_RemoveElement DEF Pending

LEMMA HitsType ==
  ASSUME TypeOK, NEW k \in Keys
  PROVE  HitsOf(k) \in Nat /\ Limit[k[2]] \in Nat \ {0}
BY RateLimiterAssumption DEF TypeOK, Bucket, HitsOf, Current, Keys

LEMMA OvershootStep ==
  ASSUME TypeOK, TypeOK', NEW k \in Keys, Overshoot(k), [Next]_vars
  PROVE  Overshoot(k)'
<1>0. HitsOf(k) \in Nat /\ Limit[k[2]] \in Nat \ {0}
  BY HitsType
<1>1. ASSUME NEW h \in Handlers, NEW j \in Keys, Admit(h, j) PROVE Overshoot(k)'
  <2>1. HitsOf(k)' = HitsOf(k)
    BY <1>1 DEF Admit, HitsOf, Current
  <2>2. CASE j = k
    <3>1. HitsOf(k) <= Limit[k[2]] - 1
      BY <1>0, <1>1, <2>2 DEF Admit, fIsLimited, HitsOf, Current, TypeOK, Bucket
    <3>2. Cardinality(Pending(k)') <= Cardinality(Handlers) /\ Cardinality(Pending(k)') \in Nat
      BY RateLimiterAssumption, FS_Subset, FS_CardinalityType DEF Pending
    <3> QED
      BY <1>0, <2>1, <3>1, <3>2, PendingCard DEF Overshoot
  <2>3. CASE j # k
    <3>1. Pending(k)' = Pending(k) \/ (\E i \in Handlers : i = h /\ doing[h] = k)
      BY <1>1, <2>3 DEF Admit, Pending, TypeOK
    <3>2. doing[h] # k
      BY <1>1 DEF Admit, Idle, Keys
    <3> QED
      BY <2>1, <3>1, <3>2 DEF Overshoot
  <2> QED
    BY <2>2, <2>3
<1>2. ASSUME NEW h \in Handlers, Succeed(h) PROVE Overshoot(k)'
  <2>1. HitsOf(k)' = HitsOf(k)
    BY <1>2 DEF Succeed, HitsOf, Current
  <2>2. Pending(k)' = Pending(k) \ {h}
    BY <1>2 DEF Succeed, Pending, TypeOK, Idle, Keys
  <2>3. Cardinality(Pending(k)') <= Cardinality(Pending(k)) /\ Cardinality(Pending(k)') \in Nat
    BY <2>2, PendingCard, FS_Subset, FS_CardinalityType
  <2> QED
    BY <1>0, <2>1, <2>3, PendingCard DEF Overshoot
<1>3. ASSUME NEW h \in Handlers, Record(h) PROVE Overshoot(k)'
  <2> DEFINE j == doing[h]
  <2>1. j \in Keys /\ buckets' = fRecord(j)
    BY <1>3 DEF TypeOK, Record
  <2>2. Pending(k)' = Pending(k) \ {h}
    BY <1>3 DEF Record, Pending, TypeOK, Idle, Keys
  <2>3. CASE j = k
    <3>1. HitsOf(k)' = HitsOf(k) + 1
      BY <2>1, <2>3, RecordCurrent
    <3>2. Cardinality(Pending(k)') = Cardinality(Pending(k)) - 1
      BY <2>2, <2>3, PendingLess
    <3> QED
      BY <1>0, <3>1, <3>2, PendingCard DEF Overshoot
  <2>4. CASE j # k
    <3>1. HitsOf(k)' = HitsOf(k)
      BY <2>1, <2>4, RecordCurrent
    <3>2. Pending(k)' = Pending(k)
      BY <2>2, <2>4 DEF Pending
    <3> QED
      BY <3>1, <3>2 DEF Overshoot
  <2> QED
    BY <2>3, <2>4
<1>4. CASE Tick
  <2>1. HitsOf(k)' <= HitsOf(k) /\ HitsOf(k)' \in Nat
    <3>1. CASE k \in DOMAIN buckets
      <4>1. WindowOf[k[2]] \in Nat /\ cMaxWindow \in Nat
        BY RateLimiterAssumption DEF Keys
      <4>2. buckets[k].age \in 0..cMaxWindow /\ buckets[k].count \in Nat
        BY <3>1 DEF TypeOK, Bucket
      <4>3. /\ k \in DOMAIN buckets' /\ buckets'[k].count = buckets[k].count
            /\ buckets'[k].age = IF buckets[k].age < cMaxWindow THEN buckets[k].age + 1
                                 ELSE buckets[k].age
        BY <1>4, <3>1 DEF Tick, TypeOK, Bucket
      <4> QED
        BY <3>1, <4>1, <4>2, <4>3 DEF HitsOf, Current
    <3>2. CASE k \notin DOMAIN buckets
      BY <1>4, <3>2 DEF Tick, HitsOf, Current
    <3> QED
      BY <3>1, <3>2
  <2>2. Pending(k)' = Pending(k)
    BY <1>4 DEF Tick, Pending
  <2> QED
    BY <1>0, <2>1, <2>2, PendingCard DEF Overshoot
<1>5. CASE UNCHANGED vars
  BY <1>5 DEF vars, Overshoot, HitsOf, Current, Pending
<1> QED
  BY <1>1, <1>2, <1>3, <1>4, <1>5 DEF Next

OvershootInv == \A k \in Keys : Overshoot(k)

\* However many requests run together, a window counts at most as many hits
\* beyond its limit as there are other handlers (fIsLimited, fRecord).
THEOREM OvershootIsBounded == Spec => []OvershootBounded
<1>1. Init => OvershootInv
  <2> SUFFICES ASSUME Init, NEW k \in Keys PROVE Overshoot(k)
    BY DEF OvershootInv
  <2>1. HitsOf(k) = 0
    BY DEF Init, HitsOf, Current
  <2>2. Limit[k[2]] \in Nat \ {0}
    BY RateLimiterAssumption DEF Keys
  <2> QED
    BY <2>1, <2>2, PendingCard DEF Overshoot
<1>2. TypeOK /\ TypeOK' /\ OvershootInv /\ [Next]_vars => OvershootInv'
  BY OvershootStep DEF OvershootInv
<1>3. TypeOK /\ OvershootInv => OvershootBounded
  <2> SUFFICES ASSUME TypeOK, OvershootInv, NEW k \in Keys, Current(k)
               PROVE  buckets[k].count <= Limit[k[2]] + Cardinality(Handlers) - 1
    BY DEF OvershootBounded
  <2>1. HitsOf(k) = buckets[k].count
    BY DEF HitsOf
  <2> QED
    BY <2>1, HitsType, PendingCard DEF OvershootInv, Overshoot
<1> QED
  BY <1>1, <1>2, <1>3, TypeCorrect, PTL DEF Spec
============================================================================
