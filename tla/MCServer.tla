----------------------------- MODULE MCServer -----------------------------
(***************************************************************************)
(* A small instance of Server for TLC: a process of an old release, which  *)
(* knows the first three scripts, and two of the present one.              *)
(***************************************************************************)
EXTENDS Server, TLC

CONSTANTS old, new, other

Shipped == (old :> 3) @@ (new :> Scripts) @@ (other :> Scripts)
============================================================================
