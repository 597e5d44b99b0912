----------------------------- MODULE PathRules -----------------------------
(***************************************************************************)
(* How a path in a request becomes a key of a workspace: fSafeRelPath of   *)
(* src/workspace.cpp, and the joining of a sub path under a shared folder  *)
(* in src/share.cpp.  Texts are sequences of characters.                   *)
(***************************************************************************)
EXTENDS Naturals, SequencesExt

CONSTANTS
    Char,      \* the characters of the checked texts
    MaxText    \* bound: the length of the two texts together

Slash == "/"
Backslash == "\\"
Dot == "."
Colon == ":"
Nul == "nul"
Separators == {Slash, Backslash}

ASSUME PathRulesAssumption ==
    /\ {Slash, Backslash, Dot, Colon, Nul} \subseteq Char
    /\ MaxText \in Nat

VARIABLES
    root,    \* the path an owner sends, to share or to write it
    sub      \* the path a grantee sends, inside the shared folder

\* What the guard throws on; no key is empty.
Refused == <<>>

\* Mutant: a parent component is dropped like a "." instead of refused.
fFlushParents(s) ==
    IF s.current \in {<<>>, <<Dot>>, <<Dot, Dot>>} THEN [s EXCEPT !.current = <<>>]
    ELSE IF Contains(s.current, Colon) THEN [s EXCEPT !.bad = TRUE]
    ELSE [s EXCEPT !.segments = Append(@, s.current), !.current = <<>>]

\* fFlush: the component just read is skipped, refused or kept.
fFlush(s) ==
    IF s.current \in {<<>>, <<Dot>>} THEN [s EXCEPT !.current = <<>>]
    ELSE IF s.current = <<Dot, Dot>> \/ Contains(s.current, Colon) THEN [s EXCEPT !.bad = TRUE]
    ELSE [s EXCEPT !.segments = Append(@, s.current), !.current = <<>>]

\* Mutant: a backslash is an ordinary character.
ReadSlashOnly(s, c) ==
    IF s.bad THEN s
    ELSE IF c = Slash THEN fFlush(s)
    ELSE IF c = Nul THEN [s EXCEPT !.bad = TRUE]
    ELSE [s EXCEPT !.current = Append(@, c)]

\* The loop's body; once something threw, nothing is read.
Read(s, c) ==
    IF s.bad THEN s
    ELSE IF c \in Separators THEN fFlush(s)
    ELSE IF c = Nul THEN [s EXCEPT !.bad = TRUE]
    ELSE [s EXCEPT !.current = Append(@, c)]

\* The segments, with a slash between two of them.
Join(segments) ==
    FoldLeft(LAMBDA text, s : text \o <<Slash>> \o s, Head(segments), Tail(segments))

fSafeRelPath(text) ==
    LET start == [segments |-> <<>>, current |-> <<>>, bad |-> FALSE]
        end == LET s == FoldLeft(Read, start, text) IN IF s.bad THEN s ELSE fFlush(s)
    IN IF text = <<>> \/ Head(text) \in Separators \/ end.bad \/ end.segments = <<>>
         THEN Refused
         ELSE Join(end.segments)

\* Mutant: the sub path is joined as it came.
fEffectivePathRaw(shared_root, sub_path) ==
    IF sub_path = <<>> THEN shared_root ELSE shared_root \o <<Slash>> \o sub_path

\* fEffectivePath of a folder share or link.
fEffectivePath(shared_root, sub_path) ==
    IF sub_path = <<>> THEN shared_root
    ELSE IF fSafeRelPath(sub_path) = Refused THEN Refused
    ELSE shared_root \o <<Slash>> \o fSafeRelPath(sub_path)

\* fOwnerFullPath: the path is validated once more before it reaches the disk.
fOwnerFullPath(rel) == fSafeRelPath(rel)
----------------------------------------------------------------------------
\* Requests name longer and longer paths.
PathsInit == root = <<>> /\ sub = <<>>

Longer == Len(root) + Len(sub) < MaxText
NameRoot(c) == Longer /\ sub = <<>> /\ root' = Append(root, c) /\ UNCHANGED sub
NameSub(c) == Longer /\ sub' = Append(sub, c) /\ UNCHANGED root

PathsNext == \E c \in Char : NameRoot(c) \/ NameSub(c)

PathsSpec == PathsInit /\ [][PathsNext]_<<root, sub>>
----------------------------------------------------------------------------
(* The reference: what the file system makes of a text *)

\* The pieces of a text that are free of separators and as long as they can be, by
\* their first and last character.
Pieces(text) ==
    {p \in (1..Len(text)) \X (1..Len(text)) :
        /\ p[1] <= p[2]
        /\ \A n \in p[1]..p[2] : text[n] \notin Separators
        /\ p[1] = 1 \/ text[p[1] - 1] \in Separators
        /\ p[2] = Len(text) \/ text[p[2] + 1] \in Separators}
Piece(text, p) == SubSeq(text, p[1], p[2])

\* Pieces in the order of the text: of those up to the nth there are n.
Nth(pieces, n) ==
    LET those == {p \in pieces : Cardinality({q \in pieces : q[1] <= p[1]}) = n}
    IN CHOOSE p \in those : TRUE
InOrder(text, pieces) == [n \in 1..Cardinality(pieces) |-> Piece(text, Nth(pieces, n))]

\* The components of a text, and where a relative one leads from the root, "."
\* staying put.
Components(text) == InOrder(text, Pieces(text))
Leads(text) == InOrder(text, {p \in Pieces(text) : Piece(text, p) # <<Dot>>})

\* A text that leads to something strictly below the root, on every platform.
Safe(text) ==
    /\ text # <<>> /\ text[1] \notin Separators
    /\ ~Contains(text, Nul)
    /\ Leads(text) # <<>>
    /\ \A n \in DOMAIN Leads(text) :
           Leads(text)[n] # <<Dot, Dot>> /\ ~Contains(Leads(text)[n], Colon)

\* The guard accepts exactly the safe paths, and its key leads where the path
\* led: nothing accepted escapes the root and no spelling gets a key of another
\* file (fSafeRelPath, "the guard the whole file API rests on", tests.cpp).
KeysAreExact ==
    LET key == fSafeRelPath(root)
    IN /\ key # Refused <=> Safe(root)
       /\ key # Refused => Components(key) = Leads(root)

\* A key is its own key: what was stored by one request (a share, a tombstone)
\* is found again by another, and validating twice changes nothing
\* (fOwnerFullPath, share.cpp).
KeysAreStable ==
    LET key == fSafeRelPath(root)
    IN key # Refused => fSafeRelPath(key) = key

\* Through a folder share or link a request reaches the shared folder or what
\* is inside it, by the same key the owner uses (fEffectivePath).
SharesStayInside ==
    LET shared == fSafeRelPath(root)
        reached == fEffectivePath(shared, sub)
    IN shared # Refused /\ reached # Refused =>
        /\ fOwnerFullPath(reached) = reached
        /\ IsPrefix(Components(shared), Components(reached))
============================================================================
