----------------------------- MODULE MCSharing -----------------------------
(***************************************************************************)
(* A small instance of Sharing, and of the rules its paths go by.          *)
(*                                                                         *)
(* One owner with nothing, with a file, or with a folder and a file in it, *)
(* and two accounts the file or the folder may be shared with; every two   *)
(* texts of at most MaxText characters together over the special           *)
(* characters and one ordinary letter.                                     *)
(***************************************************************************)
EXTENDS Sharing, PathRules, TLC

CONSTANTS owner, g1, g2, name, h1, h2

Empty == [p \in Paths |-> "none"]
SmallTrees == {Empty,
               [p \in Paths |-> IF p = <<name>> THEN "file" ELSE "none"],
               [p \in Paths |-> IF p = <<name>> THEN "folder" ELSE "file"]}
SmallShared == {<<name>>}
Characters == {"/", "\\", ".", ":", "nul", "a"}

\* The rules keep no state: the texts are gone through beside an owner who has
\* nothing yet, and while they are empty the requests are.
JointInit == Init /\ PathsInit
Texts == tree[owner] = Empty /\ minted = 0 /\ \A h \in Handlers : doing[h] = Idle
JointNext ==
    \/ Next /\ root = <<>> /\ sub = <<>> /\ UNCHANGED <<root, sub>>
    \/ Texts /\ PathsNext /\ UNCHANGED vars
JointSpec == JointInit /\ [][JointNext]_<<vars, root, sub>>

Symmetry == Permutations({h1, h2}) \cup Permutations({g1, g2})
============================================================================
