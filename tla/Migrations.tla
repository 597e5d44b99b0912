---------------------------- MODULE Migrations ----------------------------
(***************************************************************************)
(* Start-up (src/main.cpp) and Db::fRunMigrations (src/db.cpp) over the    *)
(* scripts of src/migrations: server processes, of one release or of two,  *)
(* that start on one database file, fail, die and start again.             *)
(*                                                                         *)
(* The database is SQLite in WAL mode: one writer at a time, a transaction *)
(* that nobody else sees before COMMIT and that is gone if its process is. *)
(* It is a set of pairs of a table and something of it: the table itself,  *)
(* a column added later, an index, or a row.                               *)
(***************************************************************************)
EXTENDS Naturals, Sequences

CONSTANTS
    Procs,       \* server processes
    Ships,       \* how many scripts the release of each comes with
    Comments,    \* comments that may be written
    MaxCrashes   \* bound: how often anything goes wrong from outside

Create(t) == [op |-> "create", table |-> t, item |-> "table"]
AddColumn(t, c) == [op |-> "add", table |-> t, item |-> c]
CreateIndex(i, t) == [op |-> "index", table |-> t, item |-> i]
RenameTable(t, u) == [op |-> "rename", table |-> t, item |-> u]
CopyRows(t, u) == [op |-> "copy", table |-> t, item |-> u]
Drop(t) == [op |-> "drop", table |-> t, item |-> "table"]

\* Mutant: the rebuilt table is not filled from the old one.
ShareLinksUnfilled == <<
    Create("share_links"), CreateIndex("idx_share_links_owner", "share_links"),
    RenameTable("comments", "comments_v1"), Create("comments"),
    Drop("comments_v1"), CreateIndex("idx_comments_file", "comments")>>

\* 0004_share_links.sql; a table is rebuilt.
ShareLinks == <<
    Create("share_links"), CreateIndex("idx_share_links_owner", "share_links"),
    RenameTable("comments", "comments_v1"), Create("comments"),
    CopyRows("comments_v1", "comments"), Drop("comments_v1"),
    CreateIndex("idx_comments_file", "comments")>>

\* The others of src/migrations.
Users == <<Create("users")>>
ApiToken == <<AddColumn("users", "api_token"), CreateIndex("idx_users_api_token", "users")>>
SharesComments == <<
    Create("shares"), CreateIndex("idx_shares_grantee", "shares"),
    Create("comments"), CreateIndex("idx_comments_file", "comments")>>
CommentAnchors == <<AddColumn("comments", "anchor")>>
CustomFonts == <<Create("custom_fonts"), CreateIndex("idx_custom_fonts_owner", "custom_fonts")>>
DeletedFiles == <<Create("deleted_files")>>
SessionRows == <<Create("sessions"), CreateIndex("idx_sessions_expiry", "sessions")>>

\* In the order of the file names.
Script == <<Users, ApiToken, SharesComments, ShareLinks, CommentAnchors, CustomFonts,
            DeletedFiles, SessionRows>>
Scripts == Len(Script)

\* A comment is none of the things that statements make.
ASSUME MigrationsAssumption ==
    /\ Ships \in [Procs -> 0..Scripts]
    /\ MaxCrashes \in Nat
    /\ \A n \in 1..Scripts : \A k \in 1..Len(Script[n]) : Script[n][k].item \notin Comments

VARIABLES
    database,   \* what is committed
    ledger,     \* _migrations: the numbers of the scripts recorded
    proc,       \* each process: its step, the script and statement it is at,
                \* and the database as its open transaction sees it
    written,    \* comments that were stored (history)
    crashes     \* how often something has gone wrong (history, for the bound)

vars == <<database, ledger, proc, written, crashes>>

Down == [step |-> "down", script |-> 0, statement |-> 0, work |-> {}]

Init ==
    /\ database = {}
    /\ ledger = {}
    /\ proc = [p \in Procs |-> Down]
    /\ written = {}
    /\ crashes = 0

At(p, step) == proc[p].step = step
Locked == \E p \in Procs : At(p, "transaction")
----------------------------------------------------------------------------
(* SQLite (external): when a statement succeeds on d, and what it leaves *)

Has(d, t) == <<t, "table">> \in d
Rows(d, t) == {e \in d : e[1] = t /\ e[2] \in Comments}
Columns(d, t) == {e[2] : e \in {f \in d : f[1] = t}} \cap {"api_token", "anchor"}

Runs(s, d) ==
    \/ s.op = "create" /\ ~Has(d, s.table)
    \/ s.op = "add" /\ Has(d, s.table) /\ <<s.table, s.item>> \notin d
    \/ s.op = "index" /\ Has(d, s.table) /\ \A e \in d : e[2] # s.item
    \/ s.op = "rename" /\ Has(d, s.table) /\ ~Has(d, s.item)
    \/ s.op = "copy" /\ Has(d, s.table) /\ Has(d, s.item)
                     /\ Columns(d, s.table) = Columns(d, s.item)
    \/ s.op = "drop" /\ Has(d, s.table)

\* An index stays with its table when that is renamed, and goes with it.
Effect(s, d) ==
    CASE s.op \in {"create", "add", "index"} -> d \cup {<<s.table, s.item>>}
      [] s.op = "rename" -> {<<IF e[1] = s.table THEN s.item ELSE e[1], e[2]>> : e \in d}
      [] s.op = "copy" -> d \cup {<<s.item, e[2]>> : e \in Rows(d, s.table)}
      [] s.op = "drop" -> {e \in d : e[1] # s.table}
----------------------------------------------------------------------------
\* The directories, the connection, its pragmas and the ledger's table.
Start(p) ==
    /\ At(p, "down")
    /\ proc' = [proc EXCEPT ![p].step = "check", ![p].script = 1]
    /\ UNCHANGED <<database, ledger, written, crashes>>

\* Mutant: any script that is not recorded comes next.
CheckAny(p) ==
    /\ At(p, "check")
    /\ \E n \in 1..Ships[p] :
         /\ n \notin ledger
         /\ proc' = [proc EXCEPT ![p].step = "begin", ![p].script = n]
    /\ UNCHANGED <<database, ledger, written, crashes>>

\* Is the next script recorded?  Asked outside the transaction.
Check(p) ==
    /\ At(p, "check")
    /\ proc[p].script <= Ships[p]
    /\ proc' = IF proc[p].script \in ledger
                 THEN [proc EXCEPT ![p].script = @ + 1]
                 ELSE [proc EXCEPT ![p].step = "begin"]
    /\ UNCHANGED <<database, ledger, written, crashes>>

\* BEGIN, and the lock the first statement takes, once nobody else has it.
Begin(p) ==
    /\ At(p, "begin")
    /\ ~Locked
    /\ proc' = [proc EXCEPT ![p].step = "transaction", ![p].statement = 1, ![p].work = database]
    /\ UNCHANGED <<database, ledger, written, crashes>>

Statement(p) == Script[proc[p].script][proc[p].statement]
Finished(p) == proc[p].statement > Len(Script[proc[p].script])

\* Mutant: there is no transaction, every statement is for good.
RunForGood(p) ==
    /\ At(p, "transaction")
    /\ ~Finished(p)
    /\ Runs(Statement(p), proc[p].work)
    /\ proc' = [proc EXCEPT ![p].work = Effect(Statement(p), @), ![p].statement = @ + 1]
    /\ database' = Effect(Statement(p), database)
    /\ UNCHANGED <<ledger, written, crashes>>

\* One statement of the script.
Run(p) ==
    /\ At(p, "transaction")
    /\ ~Finished(p)
    /\ Runs(Statement(p), proc[p].work)
    /\ proc' = [proc EXCEPT ![p].work = Effect(Statement(p), @), ![p].statement = @ + 1]
    /\ UNCHANGED <<database, ledger, written, crashes>>

\* The entry in _migrations, whose name must be new, and COMMIT.
Commit(p) ==
    /\ At(p, "transaction")
    /\ Finished(p)
    /\ proc[p].script \notin ledger
    /\ database' = proc[p].work
    /\ ledger' = ledger \cup {proc[p].script}
    /\ proc' = [proc EXCEPT ![p] = [Down EXCEPT !.step = "check", !.script = proc[p].script + 1]]
    /\ UNCHANGED <<written, crashes>>

\* Mutant: the exception is caught too early and the process goes on.
ThrowIntoService(p) ==
    /\ At(p, "transaction")
    /\ IF Finished(p) THEN proc[p].script \in ledger
                      ELSE ~Runs(Statement(p), proc[p].work)
    /\ proc' = [proc EXCEPT ![p] = [Down EXCEPT !.step = "serving"]]
    /\ UNCHANGED <<database, ledger, written, crashes>>

\* A statement cannot run, or the entry is there already: ROLLBACK, the
\* exception leaves main and the process ends.
Throw(p) ==
    /\ At(p, "transaction")
    /\ IF Finished(p) THEN proc[p].script \in ledger
                      ELSE ~Runs(Statement(p), proc[p].work)
    /\ proc' = [proc EXCEPT ![p] = Down]
    /\ UNCHANGED <<database, ledger, written, crashes>>

\* All scripts of the release are there: the routes are registered, drogon runs.
Serve(p) ==
    /\ At(p, "check")
    /\ proc[p].script > Ships[p]
    /\ proc' = [proc EXCEPT ![p] = [Down EXCEPT !.step = "serving"]]
    /\ UNCHANGED <<database, ledger, written, crashes>>

\* A serving process stores a comment, also while another one starts.
Comment(p, c) ==
    /\ At(p, "serving")
    /\ Has(database, "comments")
    /\ ~Locked
    /\ database' = database \cup {<<"comments", c>>}
    /\ written' = written \cup {c}
    /\ UNCHANGED <<ledger, proc, crashes>>

\* The process dies, or throws for a reason from outside: the lock does not
\* come within busy_timeout, the disk is full, a setting is wrong.
Crash(p) ==
    /\ ~At(p, "down")
    /\ crashes < MaxCrashes
    /\ crashes' = crashes + 1
    /\ proc' = [proc EXCEPT ![p] = Down]
    /\ UNCHANGED <<database, ledger, written>>

StartUp(p) == Start(p) \/ Check(p) \/ Begin(p) \/ Run(p) \/ Commit(p) \/ Throw(p) \/ Serve(p)

Next ==
    \E p \in Procs : StartUp(p) \/ Crash(p) \/ \E c \in Comments : Comment(p, c)

\* A process that ends is started again (docker-compose.yml, restart).
Fairness == \A p \in Procs : WF_vars(StartUp(p))

Spec == Init /\ [][Next]_vars /\ Fairness
----------------------------------------------------------------------------
(* Properties *)

\* What the first k statements of a script make of d, for every k.
Made(script, d) ==
    LET made[k \in 0..Len(script)] == IF k = 0 THEN d ELSE Effect(script[k], made[k - 1])
    IN made

\* The schema after the first n scripts.
SchemaAfter[n \in 0..Scripts] ==
    IF n = 0 THEN {} ELSE Made(Script[n], SchemaAfter[n - 1])[Len(Script[n])]

\* What the scripts have made of the database, the rows apart.
Structure == {e \in database : e[2] \notin Comments}

\* The scripts take effect whole, in order, once each, and with their entries
\* (fRunMigrations; README, "Migrations are applied at runtime").
Upgraded == INSTANCE Upgrades WITH structure <- Structure
ImplementsUpgrades == Upgraded!Spec

\* No process serves on a database that lacks a script of its release, whoever
\* else starts on it at the same time (main.cpp).
ServesOnItsSchema == \A p \in Procs : At(p, "serving") => 1..Ships[p] \subseteq ledger

\* No comment is lost to the rebuilding of its table, not even one that an
\* older process stores while a newer one starts (0004_share_links.sql).
CommentsSurvive == \A c \in written : <<"comments", c>> \in database

\* Wherever a start is cut off, and whoever it competed with, the next one
\* gets through: in the end every process serves.
GetsThrough == \A p \in Procs : []<>At(p, "serving")
============================================================================
