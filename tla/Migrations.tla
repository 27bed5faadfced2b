------------------------------ MODULE Migrations ------------------------------
(***************************************************************************)
(* The schema and its ledger (scripts/migrate.py, migrations/versions/).   *)
(* A fresh database is filled by the container's init scripts, statement   *)
(* by statement and without a ledger; later runs of migrate.py apply what  *)
(* the ledger does not name, a transaction for each file.  Runs may        *)
(* overlap, fail or die anywhere, and files may be deployed between them.  *)
(* Of what Postgres locks until a commit only the keys of new objects and  *)
(* rows are modelled.  Left out are the locks on tables (SHARE by CREATE   *)
(* INDEX, also of an index that is there; SHARE ROW EXCLUSIVE on what a    *)
(* new table REFERENCES and by CREATE TRIGGER; ACCESS EXCLUSIVE by DROP    *)
(* TRIGGER and ALTER TABLE): a wait for one is a step that comes later,    *)
(* and a run that is aborted in a deadlock is one of StatementFails, which *)
(* may happen at any statement and to a run that waits.  So every history  *)
(* there is with these locks is one of this module's.  The ledger's        *)
(* checksums, which nothing reads, are left out too.                       *)
(***************************************************************************)
EXTENDS Integers, SequencesExt

CONSTANTS
    Runs,         \* bound: the runs of migrate.py
    Files,        \* bound: 1..n, in the order of their names
    Statements    \* file -> the kinds of its statements, in their order

Kinds == {"create", "insert", "replace", "alter"}

ASSUME MigrationsAssumption ==
    /\ Files \subseteq Nat
    /\ Statements \in [Files -> Seq(Kinds)]

Objects(f) == {<<f, i>> : i \in DOMAIN Statements[f]}
LedgerRow(f) == <<f, 0>>
AllObjects == UNION {Objects(f) : f \in Files}
LedgerRows == {LedgerRow(f) : f \in Files}

VARIABLES
    disk,       \* the files deployed
    boot,       \* the init scripts: "running" or "over"
    committed,  \* the objects and ledger rows that are committed
    hasLedger,  \* whether the ledger's table is
    found,      \* ghost: ledger row -> the files its run had discovered
    runs        \* each run: where it is, and with what

migrationVars == <<disk, boot, committed, hasLedger, found, runs>>

NotStarted == [at |-> "off", files |-> {}, discovered |-> {}, stmt |-> 0, own |-> {}]
Active == {"ledger", "read", "apply", "waiting", "commit"}

MigrationsTypeOK ==
    /\ disk \subseteq Files
    /\ boot \in {"running", "over"}
    /\ committed \subseteq AllObjects \cup LedgerRows
    /\ hasLedger \in BOOLEAN
    /\ \A r \in Runs : /\ runs[r].at \in Active \cup {"off", "done", "failed", "died"}
                       /\ runs[r].own \subseteq AllObjects \cup LedgerRows

MigrationsInit ==
    /\ disk \in SUBSET Files
    /\ boot = "running"
    /\ committed = {} /\ hasLedger = FALSE
    /\ found = [row \in {} |-> {}]
    /\ runs = [r \in Runs |-> NotStarted]

\* A later version of the program brings a file.
Deploy(f) ==
    /\ boot = "over" /\ f \notin disk /\ disk' = disk \cup {f}
    /\ UNCHANGED <<boot, committed, hasLedger, found, runs>>

-----------------------------------------------------------------------------
(* The first boot: no run can connect while the init scripts do their work. *)

DiskObjects == UNION {Objects(f) : f \in disk}
Before(a, b) == a[1] < b[1] \/ (a[1] = b[1] /\ a[2] < b[2])

InitStatement ==
    /\ boot = "running"
    /\ \E o \in DiskObjects \ committed :
          /\ \A p \in DiskObjects \ committed : p = o \/ Before(o, p)
          /\ committed' = committed \cup {o}
    /\ UNCHANGED <<disk, boot, hasLedger, found, runs>>

\* They end, or die on the way and are not started again on a database that
\* is not empty.
InitOver ==
    /\ boot = "running" /\ boot' = "over"
    /\ UNCHANGED <<disk, committed, hasLedger, found, runs>>

-----------------------------------------------------------------------------
(* A run.                                                                  *)

RunGoes(r, to) == runs' = [runs EXCEPT ![r] = to]

\* main, discover_migrations: with no file there is nothing to do.
BeginRun(r) ==
    /\ runs[r].at = "off" /\ boot = "over"
    /\ RunGoes(r, [runs[r] EXCEPT !.at = IF disk = {} THEN "done" ELSE "ledger", !.discovered = disk])
    /\ UNCHANGED <<disk, boot, committed, hasLedger, found>>

\* CREATE TABLE IF NOT EXISTS schema_migrations and its commit.
EnsureLedger(r) ==
    /\ runs[r].at = "ledger"
    /\ hasLedger' = TRUE
    /\ RunGoes(r, [runs[r] EXCEPT !.at = "read"])
    /\ UNCHANGED <<disk, boot, committed, found>>

\* applied_filenames, and what is pending by it.
ReadLedger(r) ==
    LET pending == {f \in runs[r].discovered : LedgerRow(f) \notin committed} IN
    /\ runs[r].at = "read"
    /\ RunGoes(r, [runs[r] EXCEPT !.at = IF pending = {} THEN "done" ELSE "apply",
                               !.files = pending, !.stmt = 1])
    /\ UNCHANGED <<disk, boot, committed, hasLedger, found>>

\* The pending files are applied in the order of their names.
File(r) == Min(runs[r].files)
AtRow(r) == runs[r].stmt > Len(Statements[File(r)])
Kind(r) == Statements[File(r)][runs[r].stmt]
\* What the next statement makes; after the last one, the ledger's row.
Target(r) == IF AtRow(r) THEN LedgerRow(File(r)) ELSE <<File(r), runs[r].stmt>>

Holders(r) == {q \in Runs \ {r} : Target(r) \in runs[q].own}

Advance(r, own) ==
    RunGoes(r, [runs[r] EXCEPT !.at = IF AtRow(r) THEN "commit" ELSE "apply",
                            !.stmt = @ + 1, !.own = own])

\* CREATE ... IF NOT EXISTS of an object that is there, or INSERT ... ON CONFLICT DO
\* NOTHING of rows that are, also if the run had to wait for them: nothing is made.
CreateSeen(r) ==
    /\ runs[r].at \in {"apply", "waiting"} /\ ~AtRow(r)
    /\ Kind(r) = "insert" \/ (Kind(r) = "create" /\ runs[r].at = "apply")
    /\ Target(r) \in committed
    /\ Advance(r, runs[r].own)
    /\ UNCHANGED <<disk, boot, committed, hasLedger, found>>

\* The object is made: one that is not there, or in place of what is (DROP ...
\* IF EXISTS, CREATE OR REPLACE, ADD COLUMN IF NOT EXISTS).  The run has its key
\* from here on, which for a table is before it locks what that REFERENCES.
MakeObject(r) ==
    /\ runs[r].at \in {"apply", "waiting"} /\ ~AtRow(r) /\ Holders(r) = {}
    /\ Kind(r) \notin {"create", "insert"} \/ Target(r) \notin committed
    /\ Advance(r, runs[r].own \cup {Target(r)})
    /\ UNCHANGED <<disk, boot, committed, hasLedger, found>>

InsertRow(r) ==
    /\ runs[r].at \in {"apply", "waiting"} /\ AtRow(r) /\ Holders(r) = {}
    /\ Target(r) \notin committed
    /\ Advance(r, runs[r].own \cup {Target(r)})
    /\ UNCHANGED <<disk, boot, committed, hasLedger, found>>

\* Another run has made the same and not committed yet.
Wait(r) ==
    /\ runs[r].at = "apply" /\ Holders(r) # {}
    /\ RunGoes(r, [runs[r] EXCEPT !.at = "waiting"])
    /\ UNCHANGED <<disk, boot, committed, hasLedger, found>>

\* Mutant of Fail: the loop goes on with the next file.
FailGoesOn(r) ==
    LET rest == runs[r].files \ {File(r)} IN
    RunGoes(r, [runs[r] EXCEPT !.at = IF rest = {} THEN "done" ELSE "apply",
                            !.files = rest, !.stmt = 1, !.own = {}])

\* "return 1", after a rollback.
Fail(r) == RunGoes(r, [runs[r] EXCEPT !.at = "failed", !.own = {}])

\* The row is there, or what the run waited for has been committed by then (CREATE
\* IF NOT EXISTS raises after such a wait), or the statement fails of itself, or it
\* waits in a circle, for keys or for locks on tables, and Postgres aborts it.
StatementFails(r) ==
    /\ runs[r].at \in {"apply", "waiting"}
    /\ Fail(r)
    /\ UNCHANGED <<disk, boot, committed, hasLedger, found>>

CommitFile(r) ==
    LET rest == runs[r].files \ {File(r)} IN
    /\ runs[r].at = "commit"
    /\ committed' = committed \cup runs[r].own
    /\ found' = [row \in DOMAIN found \cup {LedgerRow(File(r))} |->
                    IF row \in DOMAIN found THEN found[row] ELSE runs[r].discovered]
    /\ RunGoes(r, [runs[r] EXCEPT !.at = IF rest = {} THEN "done" ELSE "apply",
                               !.files = rest, !.stmt = 1, !.own = {}])
    /\ UNCHANGED <<disk, boot, hasLedger>>

\* The process dies or loses the database, which rolls back.
Die(r) ==
    /\ runs[r].at \in Active
    /\ RunGoes(r, [runs[r] EXCEPT !.at = "died", !.own = {}])
    /\ UNCHANGED <<disk, boot, committed, hasLedger, found>>

MigrationsNext ==
    \/ \E f \in Files : Deploy(f)
    \/ InitStatement \/ InitOver
    \/ \E r \in Runs : \/ BeginRun(r) \/ EnsureLedger(r) \/ ReadLedger(r)
                       \/ CreateSeen(r) \/ MakeObject(r) \/ InsertRow(r) \/ Wait(r)
                       \/ StatementFails(r) \/ CommitFile(r) \/ Die(r)

MigrationsSpec == MigrationsInit /\ [][MigrationsNext]_migrationVars

-----------------------------------------------------------------------------

\* "Idempotent: a schema_migrations ledger records which files have been applied".
\* Whatever runs overlap, wherever they fail, are aborted or die, the ledger names a
\* file only with all of it in the schema, and with it every earlier file that the
\* run that applied it knew; only the init scripts can leave a file half applied, one
\* at most, and a run that ends well leaves none it knew so, and none unnamed.  No
\* object is being made by two runs.
SchemaWhole ==
    LET named == {f \in Files : LedgerRow(f) \in committed}
        half == {f \in Files : Objects(f) \cap committed \notin {{}, Objects(f)}}
    IN  /\ MigrationsTypeOK
        /\ \A f \in named : /\ Objects(f) \subseteq committed
                            /\ \A g \in found[LedgerRow(f)] : g < f => g \in named
        /\ Cardinality(half) <= 1 /\ half \cap named = {}
        /\ \A r \in Runs : runs[r].at = "done" => runs[r].discovered \subseteq named
        /\ \A q, r \in Runs : q # r => runs[q].own \cap runs[r].own = {}
        /\ named # {} => hasLedger
===============================================================================
