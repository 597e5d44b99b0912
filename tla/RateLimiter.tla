---------------------------- MODULE RateLimiter ----------------------------
(***************************************************************************)
(* The rate limiter (src/state.cpp) and the handlers it protects: login,   *)
(* registration and anonymous comments (src/auth.cpp, src/share.cpp).      *)
(*                                                                         *)
(* fIsLimited and fRecord are critical sections of their own: a handler is *)
(* admitted by the one, works, and counts through the other.  Time is kept *)
(* as the age of each bucket (now - start), which stops at cMaxWindow: the *)
(* code compares it with nothing longer.                                   *)
(***************************************************************************)
EXTENDS Naturals, FiniteSets

CONSTANTS
    Ips,          \* client addresses (fClientIp)
    Kinds,        \* the buckets: "login-fail", "register", "anon-comment"
    Limit,        \* how many hits each kind allows in ...
    WindowOf,     \* ... how long a window
    cMaxWindow,   \* the longest window any caller uses
    Handlers      \* requests in progress at once

Keys == Ips \X Kinds

ASSUME RateLimiterAssumption ==
    /\ IsFiniteSet(Handlers)
    /\ Limit \in [Kinds -> Nat \ {0}]
    /\ WindowOf \in [Kinds -> Nat \ {0}]
    /\ cMaxWindow \in Nat
    /\ \A d \in Kinds : WindowOf[d] <= cMaxWindow

VARIABLES
    buckets,   \* from the keys that have one to the count and age of their bucket
    doing      \* what each handler has been admitted for, if anything

vars == <<buckets, doing>>

Idle == <<>>
Bucket == [count : Nat \ {0}, age : 0..cMaxWindow]

TypeOK ==
    /\ DOMAIN buckets \subseteq Keys
    /\ \A k \in DOMAIN buckets : buckets[k] \in Bucket
    /\ doing \in [Handlers -> Keys \cup {Idle}]

Init ==
    /\ buckets = [k \in {} |-> [count |-> 1, age |-> 0]]
    /\ doing = [h \in Handlers |-> Idle]

\* Mutant: the age of the bucket is not looked at.
fIsLimitedForever(k) ==
    /\ k \in DOMAIN buckets
    /\ buckets[k].count >= Limit[k[2]]

\* The bucket has reached the limit within its window.
fIsLimited(k) ==
    /\ k \in DOMAIN buckets
    /\ buckets[k].age < WindowOf[k[2]]
    /\ buckets[k].count >= Limit[k[2]]

\* Mutant: the limiter is not asked.
AdmitAlways(h, k) ==
    /\ doing[h] = Idle
    /\ doing' = [doing EXCEPT ![h] = k]
    /\ UNCHANGED buckets

\* A request comes in and is not over the limit (else it gets a 429).
Admit(h, k) ==
    /\ doing[h] = Idle
    /\ ~fIsLimited(k)
    /\ doing' = [doing EXCEPT ![h] = k]
    /\ UNCHANGED buckets

\* A login with the right password is not counted.
Succeed(h) ==
    /\ doing[h] # Idle
    /\ doing[h][2] = "login-fail"
    /\ doing' = [doing EXCEPT ![h] = Idle]
    /\ UNCHANGED buckets

\* Mutant: the sweep of fRecord drops every bucket as old as this key's window.
KeptByOwnWindow(k) == {j \in DOMAIN buckets : buckets[j].age < WindowOf[k[2]]}

\* fRecord's sweep keeps what is younger than the longest window.
Kept(k) == {j \in DOMAIN buckets : buckets[j].age < cMaxWindow}

\* fRecord: sweep, start a fresh window if there is none, count.
fRecord(k) ==
    [j \in Kept(k) \cup {k} |->
        IF j # k THEN buckets[j]
        ELSE IF k \in Kept(k) /\ buckets[k].age < WindowOf[k[2]]
               THEN [buckets[k] EXCEPT !.count = @ + 1]
               ELSE [count |-> 1, age |-> 0]]

\* A failed login, a registration or an anonymous comment is counted.
Record(h) ==
    /\ doing[h] # Idle
    /\ buckets' = fRecord(doing[h])
    /\ doing' = [doing EXCEPT ![h] = Idle]

\* The steady clock moves on.
Tick ==
    /\ buckets' = [k \in DOMAIN buckets |->
           [buckets[k] EXCEPT !.age = IF @ < cMaxWindow THEN @ + 1 ELSE @]]
    /\ UNCHANGED doing

Next ==
    \/ \E h \in Handlers, k \in Keys : Admit(h, k)
    \/ \E h \in Handlers : Succeed(h) \/ Record(h)
    \/ Tick

Spec == Init /\ [][Next]_vars

\* The clock moves; nothing is assumed of the requests.
LiveSpec == Spec /\ WF_vars(Tick)
----------------------------------------------------------------------------
(* Properties *)

\* A bucket still inside its window.
Current(k) == k \in DOMAIN buckets /\ buckets[k].age < WindowOf[k[2]]

\* Handlers are admitted before they are counted, so those that run together
\* may pass the limit, and by no more than there are of them ("10 failed logins
\* per 15 minutes", auth.cpp).
OvershootBounded ==
    \A k \in Keys : Current(k) =>
        buckets[k].count <= Limit[k[2]] + Cardinality(Handlers) - 1

\* What is left of the map once the buckets past their windows are disregarded.
HitsOf(k) == IF Current(k) THEN buckets[k].count ELSE 0
LeftOf(k) == IF Current(k) THEN WindowOf[k[2]] - buckets[k].age ELSE 0

\* The buckets, swept or not, are fixed windows: no hit of a window still open
\* is forgotten because some other request swept the map, and none is counted
\* in the next one (fRecord, cMaxWindow in state.h).
Windows == INSTANCE FixedWindow WITH
    Window <- [k \in Keys |-> WindowOf[k[2]]],
    hits <- [k \in Keys |-> HitsOf(k)],
    left <- [k \in Keys |-> LeftOf(k)]
FixedWindows == Windows!Spec

\* A client that ran into the limit gets in again once its window has passed,
\* however often it tries in the meantime (a refused request is not counted).
LockoutEnds == \A k \in Keys : fIsLimited(k) ~> ~fIsLimited(k)
============================================================================
