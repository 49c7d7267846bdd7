------------------------------ MODULE Migrations ------------------------------
(***************************************************************************)
(* The migration runner: each embedded version has an Up and a Down script, *)
(* and the table schema_migrations records the versions that are applied.  *)
(* A replica runs Up when it opens PostgreSQL, the command migrate runs Up *)
(* or Down.  Nothing locks one runner against another, and the script of a *)
(* version and its record are two statements, each a transaction of its    *)
(* own.  The scripts say IF [NOT] EXISTS, so running one again is harmless.*)
(***************************************************************************)
EXTENDS Naturals

CONSTANTS Runners,   \* processes that migrate: replicas and runs of migrate
          N          \* number of embedded versions

ASSUME MigrationsAssumption == N \in Nat \ {0}

Versions == 1..N

VARIABLES journal,    \* whether the table schema_migrations exists
          recorded,   \* the versions it lists
          applied,    \* the versions whose tables exist
          runner,     \* per process: what it runs, at which version and step
          \* History: a Down ended between a script and its record, or an Up and
          \* a Down ran at the same time.
          spoiled

migrationVars == <<journal, recorded, applied, runner, spoiled>>

-------------------------------------------------------------------------------
Working == {"journal", "query", "script", "record"}
Off == [op |-> "up", v |-> 1, step |-> "off"]

Busy(p) == runner[p].step \in Working
Runs(p, op) == Busy(p) /\ runner[p].op = op
At(p, op, step) == runner[p].op = op /\ runner[p].step = step

GoTo(p, step) == runner' = [runner EXCEPT ![p].step = step]
Beyond(p) == IF runner[p].op = "up" THEN runner[p].v + 1 ELSE runner[p].v - 1

\* Faulty variant of Advance: the loop over the versions never comes to its end.
Repeat(p) ==
    runner' = [runner EXCEPT ![p].v = IF Beyond(p) \in Versions THEN Beyond(p) ELSE @,
                             ![p].step = "query"]

\* On to the next version, in the runner's direction; after the last one the
\* runner returns without an error.
Advance(p) ==
    runner' = [runner EXCEPT ![p].v = Beyond(p),
                             ![p].step = IF Beyond(p) \in Versions THEN "query" ELSE "done"]

Begin(p, op, v, step) ==
    /\ ~Busy(p)
    /\ runner' = [runner EXCEPT ![p] = [op |-> op, v |-> v, step |-> step]]
    /\ spoiled' = (spoiled \/ \E q \in Runners : Busy(q) /\ runner[q].op # op)
    /\ UNCHANGED <<journal, recorded, applied>>

BeginUp(p) == Begin(p, "up", 1, "journal")
BeginDown(p) == Begin(p, "down", N, "query")

\* CREATE TABLE IF NOT EXISTS schema_migrations.
CreateJournal(p) ==
    /\ At(p, "up", "journal")
    /\ journal' = TRUE
    /\ GoTo(p, "query")
    /\ UNCHANGED <<recorded, applied, spoiled>>

\* Faulty variant of Query: the first version to skip ends the run.
QueryUntilSkip(p) ==
    /\ runner[p].step = "query" /\ journal
    /\ GoTo(p, IF (runner[p].op = "up") <=> (runner[p].v \in recorded) THEN "done" ELSE "script")
    /\ UNCHANGED <<journal, recorded, applied, spoiled>>

\* Up skips a version that is recorded, Down one that is not.
Query(p) ==
    /\ runner[p].step = "query" /\ journal
    /\ IF (runner[p].op = "up") <=> (runner[p].v \in recorded)
       THEN Advance(p)
       ELSE GoTo(p, "script")
    /\ UNCHANGED <<journal, recorded, applied, spoiled>>

\* Down does not create schema_migrations: on a new database its query fails.
QueryWithoutJournal(p) ==
    /\ runner[p].step = "query" /\ ~journal
    /\ GoTo(p, "failed")
    /\ UNCHANGED <<journal, recorded, applied, spoiled>>

\* Faulty variant of RunScript: Up records a version before it runs the script.
RecordFirst(p) ==
    /\ runner[p].step = "script"
    /\ applied' = IF runner[p].op = "up" THEN applied ELSE applied \ {runner[p].v}
    /\ recorded' = IF runner[p].op = "up" THEN recorded \cup {runner[p].v} ELSE recorded
    /\ GoTo(p, "record")
    /\ UNCHANGED <<journal, spoiled>>

\* The Up or Down script of one version: several statements sent as one query,
\* which PostgreSQL runs as one transaction.
RunScript(p) ==
    /\ runner[p].step = "script"
    /\ applied' = IF runner[p].op = "up" THEN applied \cup {runner[p].v}
                  ELSE applied \ {runner[p].v}
    /\ GoTo(p, "record")
    /\ UNCHANGED <<journal, recorded, spoiled>>

\* INSERT ... ON CONFLICT DO NOTHING, or DELETE.
Record(p) ==
    /\ runner[p].step = "record"
    /\ recorded' = IF runner[p].op = "up" THEN recorded \cup {runner[p].v}
                   ELSE recorded \ {runner[p].v}
    /\ Advance(p)
    /\ UNCHANGED <<journal, applied, spoiled>>

\* A statement fails, the context expires or the process dies.  A statement
\* whose answer is lost is the statement, followed by this.
Fail(p) ==
    /\ Busy(p)
    /\ GoTo(p, "failed")
    /\ spoiled' = (spoiled \/ At(p, "down", "record"))
    /\ UNCHANGED <<journal, recorded, applied>>

\* One call of a runner that has begun.
Call(p) ==
    \/ CreateJournal(p) \/ Query(p) \/ QueryWithoutJournal(p)
    \/ RunScript(p) \/ Record(p)

MigrationInit ==
    /\ journal = FALSE /\ recorded = {} /\ applied = {}
    /\ runner = [p \in Runners |-> Off]
    /\ spoiled = FALSE

MigrationNext ==
    \E p \in Runners : BeginUp(p) \/ BeginDown(p) \/ Call(p) \/ Fail(p)

MigrationSpec == MigrationInit /\ [][MigrationNext]_migrationVars

-------------------------------------------------------------------------------
MigrationTypeOK ==
    /\ journal \in BOOLEAN /\ spoiled \in BOOLEAN
    /\ recorded \subseteq Versions /\ applied \subseteq Versions
    /\ runner \in [Runners -> [op : {"up", "down"}, v : 0..N + 1,
                               step : Working \cup {"off", "done", "failed"}]]
    /\ \A p \in Runners : Busy(p) => runner[p].v \in Versions
    /\ \A p \in Runners : runner[p].step \in {"script", "record"} => journal
    /\ recorded # {} => journal

\* What is recorded has its tables, but for the version a Down is just between
\* dropping and unrecording.
RecordedMeansApplied ==
    \A v \in recorded \ applied :
        \E p \in Runners : At(p, "down", "record") /\ runner[p].v = v

\* How far each runner has come.
Progress ==
    /\ \A p, q \in Runners : Runs(p, "up") => ~Runs(q, "down")
    /\ \A p \in Runners : At(p, "up", "record") => runner[p].v \in applied
    /\ \A p \in Runners : Runs(p, "up") => 1..(runner[p].v - 1) \subseteq recorded
    /\ \A p \in Runners : Runs(p, "down") => recorded \subseteq 1..runner[p].v

\* A failed Up, at whichever call, and Ups of several replicas at once never
\* make the record run ahead of the tables: only a Down that fails half-way, or
\* that runs beside an Up, does.  Inductive, with the progress of each runner.
RecordIsTrueUnlessSpoiled ==
    MigrationTypeOK /\ (~spoiled => RecordedMeansApplied /\ Progress)

\* A runner that returns without an error has done what its name says: "applies
\* all pending migrations", "reverts all migrations".
Promise(p) ==
    (Busy(p) /\ runner'[p].step = "done") =>
        \/ spoiled'
        \/ runner[p].op = "up" /\ recorded' = Versions /\ applied' = Versions
        \/ runner[p].op = "down" /\ recorded' = {}
RunnersKeepTheirPromise == [][\A p \in Runners : Promise(p)]_migrationVars
===============================================================================
