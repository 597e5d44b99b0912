---------------------------- MODULE FixedWindow ----------------------------
(***************************************************************************)
(* What the rate limiter promises its callers (src/state.h): per key, how  *)
(* many hits the current window has seen and how long it still lasts.      *)
(***************************************************************************)
EXTENDS Naturals

CONSTANTS
    Keys,      \* what is counted: an IP and a bucket name
    Window     \* the length of each key's window

VARIABLES
    hits,      \* the hits in the current window of each key
    left       \* the time it still lasts, 0 when there is none

Init ==
    /\ hits = [k \in Keys |-> 0]
    /\ left = [k \in Keys |-> 0]

\* A hit opens a window when there is none.
Hit(k) ==
    /\ hits' = [hits EXCEPT ![k] = @ + 1]
    /\ left' = [left EXCEPT ![k] = IF @ = 0 THEN Window[k] ELSE @]

\* Time passes, and the windows that end take their hits with them.
Tick ==
    /\ left' = [k \in Keys |-> IF left[k] > 0 THEN left[k] - 1 ELSE 0]
    /\ hits' = [k \in Keys |-> IF left[k] > 1 THEN hits[k] ELSE 0]

Next == Tick \/ \E k \in Keys : Hit(k)

Spec == Init /\ [][Next]_<<hits, left>>
============================================================================
