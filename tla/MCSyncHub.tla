----------------------------- MODULE MCSyncHub -----------------------------
(***************************************************************************)
(* Small instances of SyncHub for TLC.                                     *)
(***************************************************************************)
EXTENDS SyncHub, TLC

CONSTANTS u, k1, g, t1, t2

\* The workspace of u: a folder "a" with one file, and "ab" beside it.
A  == <<"a">>
AB == <<"a", "b">>
AX == <<"a", "/", "x">>

SmallPaths == {A, AX, AB}

\* A device of u.  What it is told of is changed by others (NoDevice: another
\* browser of u, or a grantee) as well as by itself.
DeviceUserOf == [k \in {k1} |-> u]
DeviceMayFollow == [k \in {k1} |-> {}]

OnePath == {AX}
LiveChanges == {[touched |-> {AX}, told |-> {AX}]}

\* A device of u, and an anonymous viewer g holding a link to the folder "a".
HubUserOf == [k \in {k1, g} |-> IF k = g THEN NoUser ELSE u]
HubMayFollow == [k \in {k1, g} |->
    IF k = g THEN {[owner |-> u, prefix |-> A]} ELSE {}]

\* A change beside the folder "a", in "ab", whose name starts alike; a move from
\* one to the other (two paths told, more than a frame may list here); and a
\* folder change (nothing told).
HubChanges ==
    {[touched |-> {AB}, told |-> {AB}],
     [touched |-> {AX, AB}, told |-> {AX, AB}],
     [touched |-> {AX}, told |-> {}]}

\* Threads are interchangeable.
ThreadSymmetry == Permutations(Threads)
============================================================================
