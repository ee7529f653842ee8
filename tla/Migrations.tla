----------------------------- MODULE Migrations -----------------------------
(***************************************************************************)
(* Provisioning of the Postgres schema (internal/migrations): processes    *)
(* that run Up when a replica boots (cmd/pricing-quote/main.go:72-89), and *)
(* Up or Down from cmd/migrate, against one database.                      *)
(*                                                                         *)
(* The embedded list holds one migration, so the loop of Up has one turn.  *)
(* Its script creates three tables, that of Down drops them in the reverse *)
(* order.  Of Postgres, which is external, the model has what these        *)
(* programs depend on: a transaction's changes are seen by others when it  *)
(* commits, a statement waits for a lock that another transaction holds,   *)
(* and a transaction that fails or whose client dies leaves nothing        *)
(* behind.  Only what a statement finds is locked: CREATE TABLE IF NOT     *)
(* EXISTS skips a table that is there, and only the CREATE INDEX after it  *)
(* locks the table (001_init.up.sql:26, 27, 45); DROP TABLE IF EXISTS and  *)
(* DELETE wait for nobody when the table or the row is not there.          *)
(***************************************************************************)
EXTENDS Naturals, Sequences

CONSTANTS Procs,     \* processes that run Up or Down
          MaxRuns    \* bound: how often each is started

ASSUME MigrationsAssumption == MaxRuns \in Nat

VARIABLES tables,     \* tables that exist, as committed
          recorded,   \* schema_migrations has the row of version 1, as committed
          tx,         \* what each process' transaction has done and locked
          proc,       \* where each process is, and what is left of its script
          runs,       \* starts so far
          reverted,   \* history: a Down has been committed
          crossed     \* history: one has been while another was past its check

migrationVars == <<tables, recorded, tx, proc, runs, reverted, crossed>>

initUp == <<"quotes", "fee_schedules", "rate_sources">>

initDown == <<"rate_sources", "fee_schedules", "quotes">>

Tables == {"quotes", "fee_schedules", "rate_sources"}

\* The tables that the script of Up has indexes for.
Indexed == {"quotes", "fee_schedules"}

InTx == {"ddl", "record", "commit"}

Running == {"ensure", "check"} \cup InTx

Process == [op : {"up", "down"}, at : {"ready", "ok", "failed"} \cup Running,
            todo : Seq(Tables)]

Transaction == [creates : SUBSET Tables, drops : SUBSET Tables, shares : SUBSET Tables,
                row : {"none", "inserts", "deletes"}]

NoTx == [creates |-> {}, drops |-> {}, shares |-> {}, row |-> "none"]

\* What a transaction has done and locked is gone when it ends, however it ends.
MigrationsTypeOK ==
    /\ tables \subseteq Tables
    /\ recorded \in BOOLEAN /\ reverted \in BOOLEAN /\ crossed \in BOOLEAN
    /\ tx \in [Procs -> Transaction]
    /\ proc \in [Procs -> Process]
    /\ runs \in [Procs -> 0..MaxRuns]
    /\ \A p \in Procs : tx[p] # NoTx => proc[p].at \in InTx

Ready == [op |-> "up", at |-> "ready", todo |-> <<>>]

\* A new database, or one that was migrated before.
MigrationsInit ==
    /\ recorded \in BOOLEAN
    /\ tables = IF recorded THEN Tables ELSE {}
    /\ tx = [p \in Procs |-> NoTx]
    /\ proc = [p \in Procs |-> Ready]
    /\ runs = [p \in Procs |-> 0]
    /\ reverted = FALSE /\ crossed = FALSE

At(p, l) == proc[p].at = l

Goto(p, l) == proc' = [proc EXCEPT ![p].at = l]

Others(p) == Procs \ {p}

-----------------------------------------------------------------------------

\* A replica boots, or an operator starts cmd/migrate; one that failed is
\* started again.
Start(p, op) ==
    /\ proc[p].at \in {"ready", "ok", "failed"}
    /\ runs[p] < MaxRuns
    /\ runs' = [runs EXCEPT ![p] = @ + 1]
    /\ proc' = [proc EXCEPT ![p] = [Ready EXCEPT !.op = op, !.at = "ensure"]]
    /\ UNCHANGED <<tables, recorded, tx, reverted, crossed>>

\* CREATE TABLE IF NOT EXISTS schema_migrations
Ensure(p) ==
    /\ At(p, "ensure")
    /\ Goto(p, "check")
    /\ UNCHANGED <<tables, recorded, tx, runs, reverted, crossed>>

BeginTx(p, script) == proc' = [proc EXCEPT ![p].at = "ddl", ![p].todo = script]

\* Mutant of CheckUp: an error of the query is taken for a row.
CheckUpIgnoresError(p) ==
    /\ At(p, "check") /\ proc[p].op = "up"
    /\ \/ Goto(p, "ok")
       \/ ~recorded /\ BeginTx(p, initUp)
    /\ UNCHANGED <<tables, recorded, tx, runs, reverted, crossed>>

\* Up: a recorded version is skipped.
CheckUp(p) ==
    /\ At(p, "check") /\ proc[p].op = "up"
    /\ IF recorded THEN Goto(p, "ok") ELSE BeginTx(p, initUp)
    /\ UNCHANGED <<tables, recorded, tx, runs, reverted, crossed>>

\* Down: nothing recorded, nothing to do.
FindLatest(p) ==
    /\ At(p, "check") /\ proc[p].op = "down"
    /\ IF recorded THEN BeginTx(p, initDown) ELSE Goto(p, "ok")
    /\ UNCHANGED <<tables, recorded, tx, runs, reverted, crossed>>

NextStatement(p) ==
    LET rest == Tail(proc[p].todo)
    IN proc' = [proc EXCEPT ![p].todo = rest,
                            ![p].at = IF rest = <<>> THEN "record" ELSE "ddl"]

\* CREATE TABLE IF NOT EXISTS t, and the indexes of t.  A new table waits for one
\* that another transaction is creating; an index waits for one that drops t.
CreateTable(p, t) ==
    \/ /\ t \notin tables
       /\ \A o \in Others(p) : t \notin tx[o].creates
       /\ tx' = [tx EXCEPT ![p].creates = @ \cup {t}]
    \/ /\ t \in tables /\ t \in Indexed
       /\ \A o \in Others(p) : t \notin tx[o].drops
       /\ tx' = [tx EXCEPT ![p].shares = @ \cup {t}]
    \/ /\ t \in tables \ Indexed
       /\ UNCHANGED tx

\* DROP TABLE IF EXISTS t, which waits for those that index or drop t.
DropTable(p, t) ==
    \/ /\ t \in tables
       /\ \A o \in Others(p) : t \notin tx[o].drops \cup tx[o].shares
       /\ tx' = [tx EXCEPT ![p].drops = @ \cup {t}]
    \/ /\ t \notin tables
       /\ UNCHANGED tx

\* Mutant of Exec: the script runs on the database, not in the transaction.
ExecOutsideTx(p) ==
    /\ At(p, "ddl")
    /\ NextStatement(p)
    /\ tables' = IF proc[p].op = "up" THEN tables \cup {Head(proc[p].todo)}
                                      ELSE tables \ {Head(proc[p].todo)}
    /\ UNCHANGED <<recorded, tx, runs, reverted, crossed>>

\* One statement of the script.
Exec(p) ==
    /\ At(p, "ddl")
    /\ IF proc[p].op = "up" THEN CreateTable(p, Head(proc[p].todo))
                            ELSE DropTable(p, Head(proc[p].todo))
    /\ NextStatement(p)
    /\ UNCHANGED <<tables, recorded, runs, reverted, crossed>>

\* INSERT INTO schema_migrations, which waits for another insertion or deletion
\* of the row and fails when the row is there by then.
RecordVersion(p) ==
    /\ At(p, "record") /\ proc[p].op = "up"
    /\ ~recorded
    /\ \A o \in Others(p) : tx[o].row # "inserts"
    /\ tx' = [tx EXCEPT ![p].row = "inserts"]
    /\ Goto(p, "commit")
    /\ UNCHANGED <<tables, recorded, runs, reverted, crossed>>

\* DELETE FROM schema_migrations, which waits for another deletion of the row, and
\* deletes nothing when no row is committed.
DeleteVersion(p) ==
    /\ At(p, "record") /\ proc[p].op = "down"
    /\ \/ /\ recorded
          /\ \A o \in Others(p) : tx[o].row # "deletes"
          /\ tx' = [tx EXCEPT ![p].row = "deletes"]
       \/ ~recorded /\ UNCHANGED tx
    /\ Goto(p, "commit")
    /\ UNCHANGED <<tables, recorded, runs, reverted, crossed>>

\* The transaction takes effect; the caller learns of it, or has lost the
\* connection and gets an error.
Commit(p) ==
    /\ At(p, "commit")
    /\ tables' = (tables \cup tx[p].creates) \ tx[p].drops
    /\ recorded' = (tx[p].row = "inserts" \/ (recorded /\ tx[p].row # "deletes"))
    /\ tx' = [tx EXCEPT ![p] = NoTx]
    /\ reverted' = (reverted \/ proc[p].op = "down")
    /\ crossed' = (crossed \/ /\ proc[p].op = "down"
                              /\ \E o \in Others(p) : proc[o].op = "down" /\ proc[o].at \in InTx)
    /\ \E l \in {"ok", "failed"} : Goto(p, l)
    /\ UNCHANGED runs

\* Mutant of Fail: the script runs without the context, and nothing ends a wait.
FailOutsideScript(p) ==
    /\ proc[p].at \in Running \ {"ddl"}
    /\ tx' = [tx EXCEPT ![p] = NoTx]
    /\ proc' = [proc EXCEPT ![p].at = "failed", ![p].todo = <<>>]
    /\ UNCHANGED <<tables, recorded, runs, reverted, crossed>>

\* Mutant of Fail: the error is returned without a Rollback.
FailWithoutRollback(p) ==
    /\ proc[p].at \in Running
    /\ proc' = [proc EXCEPT ![p].at = "failed", ![p].todo = <<>>]
    /\ UNCHANGED <<tables, recorded, tx, runs, reverted, crossed>>

\* An error of any statement, of Ping, BeginTx or Commit, the 60 s of the context,
\* or the end of the process: the transaction is rolled back.  A statement that
\* Postgres aborts, as one of two that wait for each other, ends here too.
Fail(p) ==
    /\ proc[p].at \in Running
    /\ tx' = [tx EXCEPT ![p] = NoTx]
    /\ proc' = [proc EXCEPT ![p].at = "failed", ![p].todo = <<>>]
    /\ UNCHANGED <<tables, recorded, runs, reverted, crossed>>

Up(p) == Ensure(p) \/ CheckUp(p) \/ Exec(p) \/ RecordVersion(p) \/ Commit(p)

Down(p) == Ensure(p) \/ FindLatest(p) \/ Exec(p) \/ DeleteVersion(p) \/ Commit(p)

Step(p) == Up(p) \/ Down(p) \/ Fail(p)

MigrationsNext == \E p \in Procs : (\E op \in {"up", "down"} : Start(p, op)) \/ Step(p)

MigrationsSpec == MigrationsInit /\ [][MigrationsNext]_migrationVars

\* A process that can go on does: it is scheduled, and its context expires.
FairMigrationsSpec == MigrationsSpec /\ \A p \in Procs : WF_migrationVars(Step(p))

-----------------------------------------------------------------------------
(* Properties. *)

\* The schema and its record never disagree, as anyone else sees them: all three
\* tables with the row or none without it, whichever Ups and Downs overlap, fail or
\* die half way (migrations.go:33-46, 87-103).  The exception is a Down that was
\* past its check (migrations.go:65-74) when another Down was committed: it skips
\* the tables it does not find, and its DELETE removes the row of an Up that has
\* created them anew (001_init.down.sql:1-3, migrations.go:95-96).
SchemaMatchesRecord == crossed \/ tables = IF recorded THEN Tables ELSE {}

\* A replica whose Up returned nil, and which therefore serves
\* (cmd/pricing-quote/main.go:44-48), finds its tables, unless a Down was run.
ServesOnSchema ==
    \A p \in Procs : (At(p, "ok") /\ proc[p].op = "up" /\ ~reverted) => tables = Tables

\* Every run ends, although Up and Down touch the tables in opposite orders and
\* can wait for each other (001_init.up.sql:5-48, 001_init.down.sql:1-3).
MigrationsEnd == \A p \in Procs : proc[p].at \in Running ~> proc[p].at \notin Running
=============================================================================
