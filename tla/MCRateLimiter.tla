--------------------------- MODULE MCRateLimiter ---------------------------
(***************************************************************************)
(* Two buckets of one address: logins with a short window, registrations   *)
(* with the longest one.                                                   *)
(***************************************************************************)
EXTENDS RateLimiter, TLC

CONSTANTS ip, h1, h2

SmallKinds == {"login-fail", "register"}
SmallLimit == ("login-fail" :> 2) @@ ("register" :> 1)
SmallWindow == ("login-fail" :> 2) @@ ("register" :> 4)
============================================================================
