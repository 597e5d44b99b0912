------------------------------ MODULE MCFonts ------------------------------
(***************************************************************************)
(* A small instance of Fonts for TLC: ann fills her library, bob has none  *)
(* and tries her ids.                                                      *)
(***************************************************************************)
EXTENDS Fonts, TLC

CONSTANTS ann, bob

AnnUploads == (ann :> Families) @@ (bob :> {})
Symmetry == Permutations(Handlers) \cup Permutations(Families)
============================================================================
