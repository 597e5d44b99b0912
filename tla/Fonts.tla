------------------------------- MODULE Fonts -------------------------------
(***************************************************************************)
(* The custom fonts of an account (src/fonts.cpp): a row of custom_fonts   *)
(* and a file under fonts_dir for each, written and removed one after the  *)
(* other by handlers that hold no lock, and read by the PDF export.        *)
(*                                                                         *)
(* Every database statement and file operation is a step, may fail, and    *)
(* may be the last one before the process dies.  An export's lookup or     *)
(* read that fails is swallowed: it embeds less.  Fonts are numbered in    *)
(* the order in which they are minted (fUuidV4).                           *)
(***************************************************************************)
EXTENDS Naturals, FiniteSets

CONSTANTS
    Users, Families,
    Handlers,              \* requests in progress at once
    cMaxFontsPerAccount,
    FamiliesOf,            \* bound: the families each user ever uploads
    MaxFonts,              \* bound: how many font files are ever written
    NoOne                  \* of no request: no user, no family

ASSUME FontsAssumption ==
    /\ IsFiniteSet(Handlers)
    /\ cMaxFontsPerAccount \in Nat \ {0}
    /\ FamiliesOf \in [Users -> SUBSET Families]
    /\ MaxFonts \in Nat
    /\ NoOne \notin Users \cup Families

VARIABLES
    rows,      \* custom_fonts: from ids to owners and family names
    files,     \* the ids whose file is on the disk
    minted,    \* how many ids have been minted
    doing,     \* what each handler does: its step, request and the ids at hand;
               \* of an export also what it was to embed (history)
    kept,      \* ids answered to an upload, and not asked to go since (history)
    served     \* <<user, family>> uploaded, neither deleted nor cut off (history)

disk == <<rows, files, minted>>
vars == <<disk, doing, kept, served>>

Id == 0..MaxFonts            \* 0 is no font
Row == [owner : Users, family : Families]

\* lib are the fonts an export has looked up and not gone through; had are those it
\* looked up that their owner had been answered, but those whose file was there and
\* could not be read (history).
Idle == [step |-> "idle", user |-> NoOne, family |-> NoOne, new |-> 0, old |-> 0,
         lib |-> {}, style |-> {}, had |-> {}]
Steps == {"idle", "write", "find", "unlink", "drop", "insert", "embed", "styled"}
Doing == [step : Steps, user : Users \cup {NoOne}, family : Families \cup {NoOne},
          new : Id, old : Id, lib : SUBSET Id, style : SUBSET Id, had : SUBSET Id]

TypeOK ==
    /\ DOMAIN rows \subseteq 1..minted
    /\ \A i \in DOMAIN rows : rows[i] \in Row
    /\ files \subseteq 1..minted
    /\ minted \in Id
    /\ doing \in [Handlers -> Doing]
    /\ kept \subseteq 1..minted
    /\ served \subseteq Users \X Families

Init ==
    /\ rows = [i \in {} |-> Idle]
    /\ files = {}
    /\ minted = 0
    /\ doing = [h \in Handlers |-> Idle]
    /\ kept = {}
    /\ served = {}

At(h, step) == doing[h].step = step
Goto(h, step) == doing' = [doing EXCEPT ![h].step = step]
Done(h) == doing' = [doing EXCEPT ![h] = Idle]

OwnedBy(u) == {i \in DOMAIN rows : rows[i].owner = u}
Named(u, f) == {i \in OwnedBy(u) : rows[i].family = f}
----------------------------------------------------------------------------
(* POST /api/fonts *)

\* Mutant: the library may be full and take one more.
UploadLate(h, u, f) ==
    /\ At(h, "idle")
    /\ Cardinality(OwnedBy(u)) <= cMaxFontsPerAccount
    /\ doing' = [doing EXCEPT ![h] = [Idle EXCEPT !.step = "write", !.user = u, !.family = f]]
    /\ UNCHANGED <<disk, kept, served>>

\* An upload with a font's extension and a family that CSS can quote; a full
\* library refuses it, also for a family it has.
Upload(h, u, f) ==
    /\ At(h, "idle")
    /\ Cardinality(OwnedBy(u)) < cMaxFontsPerAccount
    /\ doing' = [doing EXCEPT ![h] = [Idle EXCEPT !.step = "write", !.user = u, !.family = f]]
    /\ UNCHANGED <<disk, kept, served>>

\* The file is there, whole, before its row (fWriteFileAtomic).
WriteFont(h) ==
    /\ At(h, "write")
    /\ minted < MaxFonts
    /\ minted' = minted + 1
    /\ files' = files \cup {minted'}
    /\ doing' = [doing EXCEPT ![h].step = "find", ![h].new = minted']
    /\ UNCHANGED <<rows, kept, served>>

\* Mutant: the font to replace is any of the user's.
FindAny(h) ==
    LET any == OwnedBy(doing[h].user)
    IN /\ At(h, "find")
       /\ \/ any = {} /\ Goto(h, "insert") /\ UNCHANGED kept
          \/ \E i \in any :
                /\ doing' = [doing EXCEPT ![h].step = "unlink", ![h].old = i]
                /\ kept' = kept \ {i}
       /\ UNCHANGED <<disk, served>>

\* The font of that name, which the new one is to replace.
FindSame(h) ==
    LET same == Named(doing[h].user, doing[h].family)
    IN /\ At(h, "find")
       /\ \/ same = {} /\ Goto(h, "insert") /\ UNCHANGED kept
          \/ \E i \in same :
                /\ doing' = [doing EXCEPT ![h].step = "unlink", ![h].old = i]
                /\ kept' = kept \ {i}
       /\ UNCHANGED <<disk, served>>

\* Mutant: the row that is in the way is replaced, whatever it is by now.
InsertOrReplace(h) ==
    LET d == doing[h]
    IN /\ At(h, "insert")
       /\ rows' = [i \in (DOMAIN rows \ Named(d.user, d.family)) \cup {d.new} |->
                      IF i = d.new THEN [owner |-> d.user, family |-> d.family] ELSE rows[i]]
       /\ kept' = kept \cup {d.new}
       /\ served' = served \cup {<<d.user, d.family>>}
       /\ Done(h)
       /\ UNCHANGED <<files, minted>>

\* UNIQUE (owner_id, family_name): when another upload of the family has come
\* first, the insert throws and the file stays behind.
Insert(h) ==
    LET d == doing[h]
    IN /\ At(h, "insert")
       /\ \/ Named(d.user, d.family) # {} /\ UNCHANGED <<rows, kept, served>>
          \/ /\ Named(d.user, d.family) = {}
             /\ rows' = [i \in DOMAIN rows \cup {d.new} |->
                            IF i = d.new THEN [owner |-> d.user, family |-> d.family] ELSE rows[i]]
             /\ kept' = kept \cup {d.new}
             /\ served' = served \cup {<<d.user, d.family>>}
       /\ Done(h)
       /\ UNCHANGED <<files, minted>>
----------------------------------------------------------------------------
(* DELETE /api/fonts/{id}, and the replaced font of an upload *)

\* fLoadFontRow; somebody else's font, or none, is not found.
Delete(h, u, i) ==
    /\ At(h, "idle")
    /\ i \in OwnedBy(u)
    /\ doing' = [doing EXCEPT ![h] = [Idle EXCEPT !.step = "unlink", !.user = u, !.old = i]]
    /\ kept' = kept \ {i}
    /\ served' = served \ {<<u, rows[i].family>>}
    /\ UNCHANGED disk

\* The file goes first; that it cannot be removed is ignored.
RemoveFile(h) ==
    /\ At(h, "unlink")
    /\ \/ files' = files \ {doing[h].old}
       \/ UNCHANGED files
    /\ Goto(h, "drop")
    /\ UNCHANGED <<rows, minted, kept, served>>

\* The row by its id; an upload goes on to its own.
DropRow(h) ==
    /\ At(h, "drop")
    /\ rows' = [i \in DOMAIN rows \ {doing[h].old} |-> rows[i]]
    /\ IF doing[h].new = 0 THEN Done(h) ELSE Goto(h, "insert")
    /\ UNCHANGED <<files, minted, kept, served>>
----------------------------------------------------------------------------
(* fEmbedAccountFontsStyle, on the render thread of an export *)

\* The rows are read at once; a lookup that throws is caught, and nothing is
\* embedded.
Export(h, u) ==
    LET lib == OwnedBy(u)
    IN /\ At(h, "idle")
       /\ \/ doing' = [doing EXCEPT ![h] = [Idle EXCEPT !.step = "embed",
                                                      !.lib = lib, !.had = lib \cap kept]]
          \/ doing' = [doing EXCEPT ![h] = [Idle EXCEPT !.step = "styled"]]
       /\ UNCHANGED <<disk, kept, served>>

\* Mutant: a font without a file ends the loop.
EmbedUntilMissing(h, i) ==
    /\ At(h, "embed")
    /\ i \in doing[h].lib
    /\ doing' = IF i \in files
                  THEN [doing EXCEPT ![h].lib = @ \ {i}, ![h].style = @ \cup {i}]
                  ELSE [doing EXCEPT ![h].lib = {}]
    /\ UNCHANGED <<disk, kept, served>>

\* One font is read and embedded; one whose file is gone, or is there and cannot
\* be read, is passed over.
Embed(h, i) ==
    /\ At(h, "embed")
    /\ i \in doing[h].lib
    /\ \/ i \in files /\ doing' = [doing EXCEPT ![h].lib = @ \ {i}, ![h].style = @ \cup {i}]
       \/ i \in files /\ doing' = [doing EXCEPT ![h].lib = @ \ {i}, ![h].had = @ \ {i}]
       \/ i \notin files /\ doing' = [doing EXCEPT ![h].lib = @ \ {i}]
    /\ UNCHANGED <<disk, kept, served>>

\* The style goes into the document.
Embedded(h) ==
    /\ At(h, "embed")
    /\ doing[h].lib = {}
    /\ Goto(h, "styled")
    /\ UNCHANGED <<disk, kept, served>>

Exported(h) ==
    /\ At(h, "styled")
    /\ Done(h)
    /\ UNCHANGED <<disk, kept, served>>
----------------------------------------------------------------------------
\* The uploads among the handlers that have a font to replace, and not done it.
Cut(hs) == {<<doing[h].user, doing[h].family>> :
               h \in {g \in hs : doing[g].new # 0 /\ doing[g].old # 0}}

\* A statement or the write throws: the request ends where it is.
Fail(h) ==
    /\ doing[h].step \in {"write", "find", "drop", "insert"}
    /\ served' = served \ Cut({h})
    /\ Done(h)
    /\ UNCHANGED <<disk, kept>>

\* The process dies; the rows and the files are what the next one finds.
Crash ==
    /\ served' = served \ Cut(Handlers)
    /\ doing' = [h \in Handlers |-> Idle]
    /\ UNCHANGED <<disk, kept>>

HandlerStep(h) ==
    \/ WriteFont(h) \/ FindSame(h) \/ Insert(h)
    \/ RemoveFile(h) \/ DropRow(h)
    \/ Embedded(h) \/ Exported(h) \/ Fail(h)

Next ==
    \/ \E h \in Handlers : HandlerStep(h)
    \/ \E h \in Handlers, u \in Users : \E f \in FamiliesOf[u] : Upload(h, u, f)
    \/ \E h \in Handlers, u \in Users, i \in DOMAIN rows : Delete(h, u, i)
    \/ \E h \in Handlers, u \in Users : Export(h, u)
    \/ \E h \in Handlers, i \in 1..minted : Embed(h, i)
    \/ Crash

Spec == Init /\ [][Next]_vars
----------------------------------------------------------------------------
(* Properties *)

\* A font whose upload was answered has its row and its file until its owner
\* deletes or replaces it, whatever fails or dies in between (fonts.cpp, the
\* order of the writes and removals).
FontsLast == kept \subseteq files \cap DOMAIN rows

\* "Re-uploading an existing family name replaces the file": a family once
\* uploaded stays in the library through any number of re-uploads at once, but
\* for the moment between the old row and the new one, or if the upload is cut
\* off just there.
FamiliesLast ==
    \A p \in served :
        \/ Named(p[1], p[2]) # {}
        \/ \E h \in Handlers : At(h, "insert") /\ doing[h].old # 0
                               /\ p = <<doing[h].user, doing[h].family>>

\* cMaxFontsPerAccount is overshot by no more than the uploads that are counted
\* together.
LibraryBounded ==
    \A u \in Users : Cardinality(OwnedBy(u)) < cMaxFontsPerAccount + Cardinality(Handlers)

\* When an export's style is made up, every font that was answered before the
\* lookup, and has been neither deleted nor replaced since, is in it or could not
\* be read, whatever goes missing meanwhile: the renderer can reach no other
\* (fonts.h; fEmbedAccountFontsStyle).  A lookup that fails promises nothing.
StylesComplete ==
    \A h \in Handlers :
        At(h, "styled") => doing[h].had \cap kept \subseteq doing[h].style
============================================================================
