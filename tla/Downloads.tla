----------------------------- MODULE Downloads -----------------------------
(***************************************************************************)
(* The latest release for the download page (src/downloads.cpp): a cached  *)
(* listing with an age, and the detached threads that ask GitHub when it   *)
(* is missing or old, several at once and in any order.                    *)
(*                                                                         *)
(* A listing is known by its lag: 0 while it is the current one, and from  *)
(* then on by the ticks since, the running one included.                   *)
(***************************************************************************)
EXTENDS Naturals

CONSTANTS
    Visitors,    \* requests in progress at once
    cCacheTtl,   \* in ticks, like the timeout of the request to GitHub
    cTimeout

VARIABLES
    cache,       \* cache_ and cached_at_: a listing's lag and age
    visitor      \* where each request is, how long it waits, what it was told

vars == <<cache, visitor>>

NoListing == [age |-> cCacheTtl, lag |-> 0]
Idle == [step |-> "idle", waited |-> 0, lag |-> 0]

Init ==
    /\ cache = NoListing
    /\ visitor = [v \in Visitors |-> Idle]

\* fCached.
Fresh == cache.age < cCacheTtl

\* GET /api/downloads/latest finds no fresh listing (else it is answered) and
\* asks GitHub.
Ask(v) ==
    /\ visitor[v] = Idle
    /\ ~Fresh
    /\ visitor' = [visitor EXCEPT ![v].step = "asked"]
    /\ UNCHANGED cache

\* GitHub (external) looks up its latest release; the answer is under way.
Look(v) ==
    /\ visitor[v].step = "asked"
    /\ visitor' = [visitor EXCEPT ![v].step = "told"]
    /\ UNCHANGED cache

\* fStore, whatever another request has stored meanwhile.
Store(v) ==
    /\ visitor[v].step = "told"
    /\ cache' = [age |-> 0, lag |-> visitor[v].lag]
    /\ visitor' = [visitor EXCEPT ![v] = Idle]

\* Mutant: a lookup that fails renews the listing there is.
GiveUpRenewing(v) ==
    /\ visitor[v].step # "idle"
    /\ cache' = IF Fresh THEN [cache EXCEPT !.age = 0] ELSE cache
    /\ visitor' = [visitor EXCEPT ![v] = Idle]

\* The timeout, a status that is not 2xx or a malformed answer: nothing is
\* stored.
GiveUp(v) ==
    /\ visitor[v].step # "idle"
    /\ visitor' = [visitor EXCEPT ![v] = Idle]
    /\ UNCHANGED cache

\* Everything known of the latest release is from now on, or longer, out of date.
Later(l) == IF l = 0 THEN 0 ELSE l + 1

\* A release is published (external).
Publish ==
    /\ cache' = IF Fresh /\ cache.lag = 0 THEN [cache EXCEPT !.lag = 1] ELSE cache
    /\ visitor' = [v \in Visitors |->
                      IF visitor[v].step = "told" /\ visitor[v].lag = 0
                        THEN [visitor[v] EXCEPT !.lag = 1] ELSE visitor[v]]

\* Time passes; no request to GitHub outlasts its timeout.  An old listing is
\* as good as none.
Tick ==
    /\ \A v \in Visitors : visitor[v].step # "idle" => visitor[v].waited < cTimeout
    /\ cache' = IF cache.age + 1 < cCacheTtl
                  THEN [age |-> cache.age + 1, lag |-> Later(cache.lag)]
                  ELSE NoListing
    /\ visitor' = [v \in Visitors |->
                      IF visitor[v].step = "idle" THEN Idle
                      ELSE [visitor[v] EXCEPT !.waited = @ + 1, !.lag = Later(@)]]

Next ==
    \/ \E v \in Visitors : Ask(v) \/ Look(v) \/ Store(v) \/ GiveUp(v)
    \/ Publish
    \/ Tick
----------------------------------------------------------------------------
(* Properties *)

\* What the page is served was the latest release within the time a listing is
\* kept and the one a request may take, also when an older answer is stored
\* over a newer one (downloads.h, cCacheTtl).
ListingsFresh == Fresh => cache.lag <= cCacheTtl + cTimeout
============================================================================
