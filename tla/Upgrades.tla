----------------------------- MODULE Upgrades -----------------------------
(***************************************************************************)
(* What the migration runner promises of the database: the scripts take    *)
(* effect whole, each once and in their order, and a script's effect and   *)
(* its entry in the ledger are one.                                        *)
(***************************************************************************)
EXTENDS Naturals

CONSTANTS
    Scripts,       \* how many scripts there are
    SchemaAfter    \* the schema after the first n scripts, n in 0..Scripts

VARIABLES
    structure,     \* the tables, columns and indexes
    ledger         \* the scripts in _migrations

vars == <<structure, ledger>>

Init == structure = SchemaAfter[0] /\ ledger = {}

Upgrade(n) ==
    /\ ledger = 1..(n - 1)
    /\ ledger' = 1..n
    /\ structure' = SchemaAfter[n]

Next == \E n \in 1..Scripts : Upgrade(n)

Spec == Init /\ [][Next]_vars
============================================================================
