----------------------------- MODULE MCAccounts -----------------------------
(***************************************************************************)
(* One account from before the API tokens and one address that two         *)
(* requests may register at once.                                          *)
(***************************************************************************)
EXTENDS Accounts, TLC

CONSTANTS old, new, h1, h2

Symmetry == Permutations({h1, h2})
============================================================================
