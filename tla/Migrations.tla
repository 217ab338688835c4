----------------------------- MODULE Migrations -----------------------------
(***************************************************************************)
(* run_migrations (kernel/infra.py): processes that bring one SQLite       *)
(* database up to date.  executescript runs the statements of a script in  *)
(* autocommit, and the migration is recorded in a transaction of its own   *)
(* after them.                                                             *)
(***************************************************************************)
EXTENDS Naturals

CONSTANTS
    Migrator,    \* the processes
    Migrations,  \* how many migrations the list has
    Statements   \* how many statements each script has

ASSUME MigrationsAssumption == Migrations \in Nat /\ Statements \in Nat \ {0}

VARIABLES
    mstage,     \* where each call is
    applied,    \* the names each call read from the table
    script,     \* the migration each call is at
    statement,  \* the next statement of it
    recorded,   \* the rows of _migrations
    executed,   \* history: the statements that have been executed
    overlapped  \* history: two calls have run at the same time

migrationVars == <<mstage, applied, script, statement, recorded, executed, overlapped>>

Migration == 1 .. Migrations

MigrationsTypeOK ==
    /\ mstage \in [Migrator -> {"idle", "reading", "executing", "recording"}]
    /\ applied \in [Migrator -> SUBSET Migration]
    /\ script \in [Migrator -> 0 .. Migrations]
    /\ statement \in [Migrator -> 1 .. Statements]
    /\ recorded \in SUBSET Migration
    /\ executed \in SUBSET (Migration \X (1 .. Statements))
    /\ overlapped \in BOOLEAN

MigrationsInit ==
    /\ mstage = [p \in Migrator |-> "idle"]
    /\ applied = [p \in Migrator |-> {}]
    /\ script = [p \in Migrator |-> 0]
    /\ statement = [p \in Migrator |-> 1]
    /\ recorded = {} /\ executed = {} /\ overlapped = FALSE

-----------------------------------------------------------------------------
\* The call, up to the CREATE TABLE that does nothing when the table exists.
Migrate(p) ==
    /\ mstage[p] = "idle"
    /\ mstage' = [mstage EXCEPT ![p] = "reading"]
    /\ overlapped' = (overlapped \/ \E q \in Migrator : mstage[q] # "idle")
    /\ UNCHANGED <<applied, script, statement, recorded, executed>>

\* The rest of the `for` loop after migration m: on to the first that is not in
\* `known`, or the call returns.
Proceed(p, m, known) ==
    \/ \E n \in m + 1 .. Migrations :
         /\ n \notin known
         /\ \A k \in m + 1 .. n - 1 : k \in known
         /\ script' = [script EXCEPT ![p] = n]
         /\ statement' = [statement EXCEPT ![p] = 1]
         /\ mstage' = [mstage EXCEPT ![p] = "executing"]
    \/ /\ \A k \in m + 1 .. Migrations : k \in known
       /\ mstage' = [mstage EXCEPT ![p] = "idle"]
       /\ UNCHANGED <<script, statement>>

\* applied = {... SELECT name FROM _migrations}
Read(p) ==
    /\ mstage[p] = "reading"
    /\ applied' = [applied EXCEPT ![p] = recorded]
    /\ Proceed(p, 0, recorded)
    /\ UNCHANGED <<recorded, executed, overlapped>>

\* Bug: the migration is recorded before its script has run to the end.
ExecuteRecorded(p) ==
    /\ mstage[p] = "executing"
    /\ executed' = executed \cup {<<script[p], statement[p]>>}
    /\ recorded' = recorded \cup {script[p]}
    /\ Proceed(p, script[p], applied[p])
    /\ UNCHANGED <<applied, overlapped>>

\* One statement of executescript.
Execute(p) ==
    /\ mstage[p] = "executing"
    /\ executed' = executed \cup {<<script[p], statement[p]>>}
    /\ IF statement[p] < Statements
       THEN statement' = [statement EXCEPT ![p] = @ + 1] /\ UNCHANGED mstage
       ELSE mstage' = [mstage EXCEPT ![p] = "recording"] /\ UNCHANGED statement
    /\ UNCHANGED <<applied, script, recorded, overlapped>>

\* INSERT and commit.
Record(p) ==
    /\ mstage[p] = "recording"
    /\ script[p] \notin recorded
    /\ recorded' = recorded \cup {script[p]}
    /\ Proceed(p, script[p], applied[p])
    /\ UNCHANGED <<applied, executed, overlapped>>

\* A statement fails, the database stays locked, INSERT finds the name already
\* there (IntegrityError), or the process dies: nothing of the current step is
\* kept, everything before it is.
Abort(p) ==
    /\ mstage[p] # "idle"
    /\ mstage' = [mstage EXCEPT ![p] = "idle"]
    /\ UNCHANGED <<applied, script, statement, recorded, executed, overlapped>>

MigrationsNext ==
    \E p \in Migrator : Migrate(p) \/ Read(p) \/ Execute(p) \/ Record(p) \/ Abort(p)

MigrationsSpec == MigrationsInit /\ [][MigrationsNext]_migrationVars

-----------------------------------------------------------------------------
(* Property *)

\* Whatever fails, dies or overlaps: a migration that is recorded has been
\* executed to its end, and none begins before all the earlier ones are recorded.
\* Without overlapping calls, a recorded migration is never executed again.
MigrationsInOrder ==
    /\ \A m \in recorded, s \in 1 .. Statements : <<m, s>> \in executed
    /\ \A m \in Migration, s \in 1 .. Statements :
         <<m, s>> \in executed => \A k \in 1 .. m - 1 : k \in recorded
    /\ ~overlapped =>
         \A p \in Migrator : mstage[p] = "executing" => script[p] \notin recorded
=============================================================================
