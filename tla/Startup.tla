-------------------------------- MODULE Startup --------------------------------
(***************************************************************************)
(* How a replica comes to its store.  app.Build opens PostgreSQL, which    *)
(* pings it and runs the migrations; when that fails it logs the error and *)
(* goes on with stores in memory.  Nothing tries PostgreSQL again until the *)
(* process is started anew, and what is in memory ends with the process.   *)
(* The command migrate runs beside the replicas.                           *)
(***************************************************************************)
EXTENDS Migrations

CONSTANTS Replicas,  \* the runners that are replicas of the service
          Events     \* events that a consumer loop may ingest

ASSUME StartupAssumption == Replicas \subseteq Runners

VARIABLES store,     \* per replica: "none", "opening", "postgres" or "memory"
          rows,      \* events in audit_events
          memory,    \* per replica, events in its memory
          \* History: where each event was ingested, and whether a Down has
          \* dropped audit_events.
          ingested, dropped

startupVars == <<migrationVars, store, rows, memory, ingested, dropped>>
storeVars == <<rows, memory, ingested, dropped>>

EventsTable == 1     \* the version that creates audit_events

-------------------------------------------------------------------------------
\* The replica starts: the database answers the ping, and Up begins.
Open(r) ==
    /\ store[r] = "none"
    /\ BeginUp(r)
    /\ store' = [store EXCEPT ![r] = "opening"]
    /\ UNCHANGED storeVars

\* The connection or the ping fails.
OpenFails(r) ==
    /\ store[r] = "none"
    /\ store' = [store EXCEPT ![r] = "memory"]
    /\ UNCHANGED <<migrationVars, storeVars>>

\* Faulty variant of Opened: the error of migrate is not looked at.
OpenedAnyway(r) ==
    /\ store[r] = "opening" /\ runner[r].step \in {"done", "failed"}
    /\ store' = [store EXCEPT ![r] = "postgres"]
    /\ UNCHANGED <<migrationVars, storeVars>>

Opened(r) ==
    /\ store[r] = "opening" /\ runner[r].step = "done"
    /\ store' = [store EXCEPT ![r] = "postgres"]
    /\ UNCHANGED <<migrationVars, storeVars>>

Fallback(r) ==
    /\ store[r] = "opening" /\ runner[r].step = "failed"
    /\ store' = [store EXCEPT ![r] = "memory"]
    /\ UNCHANGED <<migrationVars, storeVars>>

\* A runner's call.  The script of a Down drops the table with its rows.
Migrate(p) ==
    /\ Call(p)
    /\ rows' = IF EventsTable \in applied' THEN rows ELSE {}
    /\ dropped' = (dropped \/ (At(p, "down", "script") /\ runner[p].v = EventsTable))
    /\ UNCHANGED <<store, memory, ingested>>

MigrateFails(p) == Fail(p) /\ UNCHANGED <<store, storeVars>>

\* cmd/migrate, beside the replicas.
Command(p) ==
    /\ p \notin Replicas
    /\ BeginUp(p) \/ BeginDown(p)
    /\ UNCHANGED <<store, storeVars>>

\* The insert into a table that is not there is an error; the offset of the
\* message is committed all the same.
IngestOnPostgres(r, e) ==
    /\ store[r] = "postgres" /\ ingested[e] = "no"
    /\ rows' = IF EventsTable \in applied THEN rows \cup {e} ELSE rows
    /\ ingested' = [ingested EXCEPT ![e] = "postgres"]
    /\ UNCHANGED <<migrationVars, store, memory, dropped>>

IngestInMemory(r, e) ==
    /\ store[r] = "memory" /\ ingested[e] = "no"
    /\ memory' = [memory EXCEPT ![r] = @ \cup {e}]
    /\ ingested' = [ingested EXCEPT ![e] = "memory"]
    /\ UNCHANGED <<migrationVars, store, rows, dropped>>

\* The process ends and may be started again.
Exit(r) ==
    /\ store[r] \in {"postgres", "memory"}
    /\ store' = [store EXCEPT ![r] = "none"]
    /\ memory' = [memory EXCEPT ![r] = {}]
    /\ UNCHANGED <<migrationVars, rows, ingested, dropped>>

StartupInit ==
    /\ MigrationInit
    /\ store = [r \in Replicas |-> "none"]
    /\ rows = {} /\ memory = [r \in Replicas |-> {}]
    /\ ingested = [e \in Events |-> "no"] /\ dropped = FALSE

StartupNext ==
    \/ \E r \in Replicas :
         \/ Open(r) \/ OpenFails(r) \/ Opened(r) \/ Fallback(r) \/ Exit(r)
         \/ \E e \in Events : IngestOnPostgres(r, e) \/ IngestInMemory(r, e)
    \/ \E p \in Runners : Migrate(p) \/ MigrateFails(p) \/ Command(p)

\* A statement returns or fails, and Build goes on.
StartupFairness ==
    \A r \in Replicas :
        WF_startupVars(Migrate(r)) /\ WF_startupVars(Opened(r)) /\ WF_startupVars(Fallback(r))

StartupSpec == StartupInit /\ [][StartupNext]_startupVars /\ StartupFairness

-------------------------------------------------------------------------------
StartupTypeOK ==
    /\ MigrationTypeOK
    /\ store \in [Replicas -> {"none", "opening", "postgres", "memory"}]
    /\ memory \in [Replicas -> SUBSET Events]
    /\ rows \subseteq Events
    /\ ingested \in [Events -> {"no", "postgres", "memory"}]
    /\ dropped \in BOOLEAN

\* Until a Down drops it, the table is there from the first Up that returned on.
TableStands ==
    /\ EventsTable \in recorded => EventsTable \in applied
    /\ \A p \in Runners : runner[p].op = "up" =>
          \/ runner[p].step \in {"off", "failed"}
          \/ runner[p].v = EventsTable /\ runner[p].step \in {"journal", "query", "script"}
          \/ EventsTable \in applied
    /\ \A r \in Replicas : store[r] = "postgres" => EventsTable \in applied

RowsAreKept ==
    /\ \A e \in Events : ingested[e] = "postgres" => e \in rows \/ dropped
    /\ \A r \in Replicas : \A e \in memory[r] : e \notin rows /\ ingested[e] = "memory"
    /\ \A e \in rows : ingested[e] = "postgres"
    /\ \A r \in Replicas : store[r] = "opening" => runner[r].op = "up"
    /\ rows # {} => EventsTable \in applied

\* Whatever else fails: a replica that serves from PostgreSQL has the table, and
\* what was ingested there is there, through all restarts, failed migrations and
\* fallbacks, until somebody runs migrate --down.  What was ingested after a
\* fallback is in the memory of a running replica, or gone.  Inductive.
RowsOutliveRestarts ==
    /\ StartupTypeOK
    /\ ~dropped => TableStands
    /\ RowsAreKept

\* "so the binary still boots": however the database behaves, a replica that has
\* begun to open it gets a store.
AlwaysBoots ==
    \A r \in Replicas : store[r] = "opening" ~> store[r] \in {"postgres", "memory"}
===============================================================================
