------------------------------ MODULE Server ------------------------------
(***************************************************************************)
(* Processes that start and die, and what one of them keeps in memory: its *)
(* Releases (module Downloads), served from once it runs and gone with it. *)
(***************************************************************************)
EXTENDS Migrations

CONSTANTS
    Host,                              \* the process that is looked at
    Visitors, cCacheTtl, cTimeout      \* see Downloads

VARIABLES cache, visitor

ASSUME ServerAssumption ==
    /\ Host \in Procs
    /\ cCacheTtl \in Nat \ {0}
    /\ cTimeout \in Nat

Releases == INSTANCE Downloads

serverVars == <<vars, cache, visitor>>

ServerInit == Init /\ Releases!Init

\* A process starts, works or dies; with the host its memory goes.
Process ==
    /\ Next
    /\ IF At(Host, "serving") /\ ~At(Host, "serving")'
         THEN cache' = Releases!NoListing /\ visitor' = [v \in Visitors |-> Releases!Idle]
         ELSE UNCHANGED <<cache, visitor>>

\* The host serves its download page.
Page ==
    /\ At(Host, "serving")
    /\ Releases!Next
    /\ UNCHANGED vars

ServerNext == Process \/ Page

ServerSpec == ServerInit /\ [][ServerNext]_serverVars /\ Fairness
----------------------------------------------------------------------------
(* Properties *)

ListingsFresh == Releases!ListingsFresh
============================================================================
