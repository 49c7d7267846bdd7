---------------------------- MODULE StartupProofs ----------------------------
(***************************************************************************)
(* Proofs about the migration runner, about how replicas come to their     *)
(* store, and about the redaction policy they apply, for any number of     *)
(* runners, replicas, versions and events, any policy files, any number of *)
(* reloads at once and any number of changes to the file.                  *)
(*                                                                         *)
(* Parse reads a file line by line; that the function it is the last value *)
(* of exists (RoundsExist), and what holds of its values, is shown by      *)
(* induction on the number of lines read (UpTo).  HalfWrittenRedactsLess   *)
(* then follows as each line only adds to the rules before it              *)
(* (RoundsExtend), and OnlyLowerCaseNamesCount as two files that differ in *)
(* lines of no effect give rules alike (RoundsAlike).                      *)
(***************************************************************************)
EXTENDS Startup, Redaction, WellFoundedInduction, TLAPS

-------------------------------------------------------------------------------
\* One step of a runner, in whatever model.
RunnerStep(p) == BeginUp(p) \/ BeginDown(p) \/ Call(p) \/ Fail(p)

\* The first and the last version are versions, and versions are numbers.
LEMMA VersionsFacts == 1 \in Versions /\ N \in Versions /\ \A v \in Versions : v \in Nat
BY MigrationsAssumption DEF Versions

\* Versions reverted from above.
LEMMA WithoutLast ==
    ASSUME NEW n \in Nat, NEW S, S \subseteq 1..n
    PROVE  S \ {n} \subseteq 1..(n - 1)
OBVIOUS

RunnerType == [Runners -> [op : {"up", "down"}, v : 0..N + 1,
                           step : Working \cup {"off", "done", "failed"}]]

\* Where Advance leads.
LEMMA AdvanceType ==
    ASSUME MigrationTypeOK, NEW p \in Runners, Busy(p), Advance(p)
    PROVE  /\ runner' \in RunnerType
           /\ runner'[p].op = runner[p].op
           /\ runner'[p].v = Beyond(p)
           /\ runner'[p].step = IF Beyond(p) \in Versions THEN "query" ELSE "done"
           /\ runner'[p].step # "done" => runner'[p].v \in Versions
           /\ \A q \in Runners \ {p} : runner'[q] = runner[q]
<1>1. runner[p].v \in Versions /\ runner[p].v \in Nat
  BY VersionsFacts DEF MigrationTypeOK
<1>2. Beyond(p) \in 0..N + 1
  BY <1>1, MigrationsAssumption DEF Beyond, Versions
<1>3. runner \in RunnerType
  BY DEF MigrationTypeOK, RunnerType
<1> DEFINE next == IF Beyond(p) \in Versions THEN "query" ELSE "done"
<1>4. next \in Working \cup {"off", "done", "failed"}
  BY DEF Working
<1>5. runner' = [runner EXCEPT ![p].v = Beyond(p), ![p].step = next]
  BY DEF Advance
<1> HIDE DEF next
<1>6. /\ runner' \in RunnerType
      /\ runner'[p].op = runner[p].op
      /\ runner'[p].v = Beyond(p) /\ runner'[p].step = next
      /\ \A q \in Runners \ {p} : runner'[q] = runner[q]
  BY <1>2, <1>3, <1>4, <1>5 DEF RunnerType
<1> QED
  BY <1>6 DEF next

\* A step keeps the types of the runner and the versions.
LEMMA MigrationTypeStep ==
    ASSUME MigrationTypeOK, NEW p \in Runners, RunnerStep(p)
    PROVE  MigrationTypeOK'
<1> USE VersionsFacts DEF Busy, Working
<1>1. CASE BeginUp(p)
  BY <1>1, MigrationsAssumption DEF BeginUp, Begin, MigrationTypeOK
<1>2. CASE BeginDown(p)
  BY <1>2, MigrationsAssumption DEF BeginDown, Begin, MigrationTypeOK, Versions
<1>3. CASE CreateJournal(p)
  BY <1>3 DEF CreateJournal, GoTo, At, MigrationTypeOK
<1>4. CASE Query(p)
  <2>1. CASE Advance(p)
    <3>1. Busy(p)
      BY <1>4 DEF Query
    <3>2. /\ runner' \in RunnerType
          /\ runner'[p].step \in {"query", "done"}
          /\ runner'[p].step # "done" => runner'[p].v \in Versions
          /\ \A q \in Runners \ {p} : runner'[q] = runner[q]
      BY <2>1, <3>1, AdvanceType
    <3> QED
      BY <1>4, <3>2 DEF Query, MigrationTypeOK, RunnerType
  <2>2. CASE GoTo(p, "script")
    BY <1>4, <2>2 DEF Query, GoTo, MigrationTypeOK
  <2> QED BY <1>4, <2>1, <2>2 DEF Query
<1>5. CASE QueryWithoutJournal(p)
  BY <1>5 DEF QueryWithoutJournal, GoTo, MigrationTypeOK
<1>6. CASE RunScript(p)
  BY <1>6 DEF RunScript, GoTo, MigrationTypeOK
<1>7. CASE Record(p)
  <2>1. Busy(p) /\ Advance(p) /\ runner[p].v \in Versions
    BY <1>7 DEF Record, MigrationTypeOK
  <2>2. /\ runner' \in RunnerType
        /\ runner'[p].step \in {"query", "done"}
        /\ runner'[p].step # "done" => runner'[p].v \in Versions
        /\ \A q \in Runners \ {p} : runner'[q] = runner[q]
    BY <2>1, AdvanceType
  <2>3. journal
    BY <1>7 DEF Record, MigrationTypeOK
  <2> QED
    BY <1>7, <2>1, <2>2, <2>3 DEF Record, MigrationTypeOK, RunnerType
<1>8. CASE Fail(p)
  BY <1>8 DEF Fail, GoTo, MigrationTypeOK, At
<1> QED
  BY <1>1, <1>2, <1>3, <1>4, <1>5, <1>6, <1>7, <1>8 DEF RunnerStep, Call

-------------------------------------------------------------------------------
\* RecordIsTrueUnlessSpoiled, without the types: how far the runners have come.
Consistent == ~spoiled => RecordedMeansApplied /\ Progress

\* No call of a runner, made in order or failing, records what was not applied or
\* passes over a version, unless it spoils the record (migrations.go:99-156).
LEMMA ConsistentStep ==
    ASSUME MigrationTypeOK, Consistent, NEW p \in Runners, RunnerStep(p), ~spoiled'
    PROVE  RecordedMeansApplied' /\ Progress'
<1>1. ~spoiled /\ RecordedMeansApplied /\ Progress
  <2>1. spoiled => spoiled'
    BY DEF RunnerStep, BeginUp, BeginDown, Begin, Call, CreateJournal, Query,
           QueryWithoutJournal, RunScript, Record, Fail, MigrationTypeOK
  <2> QED BY <2>1 DEF Consistent
<1>2. /\ runner \in RunnerType
      /\ \A q \in Runners : Busy(q) => runner[q].v \in Versions /\ runner[q].v \in Nat
  BY VersionsFacts DEF MigrationTypeOK, RunnerType
<1> USE DEF RecordedMeansApplied, Progress, Busy, Runs, At, Working, RunnerType
<1>3. CASE BeginUp(p)
  <2>1. /\ runner' = [runner EXCEPT ![p] = [op |-> "up", v |-> 1, step |-> "journal"]]
        /\ ~Busy(p) /\ UNCHANGED <<recorded, applied>>
    BY <1>3 DEF BeginUp, Begin
  <2>2. \A q \in Runners : ~Runs(q, "down")
    BY <1>3 DEF BeginUp, Begin
  <2>3. RecordedMeansApplied'
    BY <1>1, <1>2, <2>1
  <2>4. Progress'
    BY <1>1, <1>2, <2>1, <2>2
  <2> QED BY <2>3, <2>4
<1>4. CASE BeginDown(p)
  <2>1. /\ runner' = [runner EXCEPT ![p] = [op |-> "down", v |-> N, step |-> "query"]]
        /\ ~Busy(p) /\ UNCHANGED <<recorded, applied>>
    BY <1>4 DEF BeginDown, Begin
  <2>2. \A q \in Runners : ~Runs(q, "up")
    BY <1>4 DEF BeginDown, Begin
  <2>3. recorded \subseteq 1..N
    BY DEF MigrationTypeOK, Versions
  <2>4. RecordedMeansApplied'
    BY <1>1, <1>2, <2>1
  <2>5. Progress'
    BY <1>1, <1>2, <2>1, <2>2, <2>3
  <2> QED BY <2>4, <2>5
<1>5. CASE CreateJournal(p)
  BY <1>1, <1>2, <1>5 DEF CreateJournal, GoTo
<1> DEFINE Skips == (runner[p].op = "up") <=> (runner[p].v \in recorded)
<1>6. CASE Query(p) /\ Skips
  <2>1. /\ runner' \in RunnerType
        /\ runner'[p].op = runner[p].op
        /\ runner'[p].v = Beyond(p)
        /\ runner'[p].step \in {"query", "done"}
        /\ \A q \in Runners \ {p} : runner'[q] = runner[q]
    BY <1>6, AdvanceType DEF Query
  <2>2. Busy(p) /\ runner[p].v \in Nat
    BY <1>2, <1>6 DEF Query
  <2>3. RecordedMeansApplied'
    BY <1>1, <1>2, <1>6, <2>1 DEF Query
  <2>4. runner[p].op = "up" => 1..(runner'[p].v - 1) \subseteq recorded
    BY <1>1, <1>2, <1>6, <2>1, <2>2 DEF Query, Beyond
  <2>5. runner[p].op = "down" => recorded \subseteq 1..runner'[p].v
    BY <1>1, <1>2, <1>6, <2>1, <2>2 DEF Query, Beyond
  <2>6. Progress'
    BY <1>1, <1>2, <1>6, <2>1, <2>2, <2>4, <2>5 DEF Query
  <2> QED BY <2>3, <2>6
<1>7. CASE Query(p) /\ ~Skips
  BY <1>1, <1>2, <1>7 DEF Query, GoTo
<1>8. CASE QueryWithoutJournal(p)
  BY <1>1, <1>2, <1>8 DEF QueryWithoutJournal, GoTo
<1>9. CASE RunScript(p)
  <2>1. RecordedMeansApplied'
    BY <1>1, <1>2, <1>9 DEF RunScript, GoTo
  <2>2. Progress'
    BY <1>1, <1>2, <1>9 DEF RunScript, GoTo
  <2> QED BY <2>1, <2>2
<1>10. CASE Record(p)
  <2>1. Busy(p) /\ runner[p].v \in Nat
    BY <1>2, <1>10 DEF Record
  <2>2. /\ runner' \in RunnerType
        /\ runner'[p].op = runner[p].op
        /\ runner'[p].v = Beyond(p)
        /\ runner'[p].step \in {"query", "done"}
        /\ \A q \in Runners \ {p} : runner'[q] = runner[q]
    BY <1>10, <2>1, AdvanceType DEF Record
  <2>3. RecordedMeansApplied'
    BY <1>1, <1>2, <1>10, <2>1, <2>2 DEF Record
  <2>4. runner[p].op = "up" => 1..(runner'[p].v - 1) \subseteq recorded'
    BY <1>1, <1>2, <1>10, <2>1, <2>2 DEF Record, Beyond
  <2>5. ASSUME runner[p].op = "down" PROVE recorded' \subseteq 1..runner'[p].v
    <3>1. recorded \subseteq 1..runner[p].v
      BY <1>1, <2>1, <2>5
    <3>2. runner'[p].v = runner[p].v - 1 /\ recorded' = recorded \ {runner[p].v}
      BY <1>10, <2>2, <2>5 DEF Record, Beyond
    <3>3. recorded \ {runner[p].v} \subseteq 1..(runner[p].v - 1)
      BY <2>1, <3>1, WithoutLast
    <3> QED BY <3>2, <3>3
  <2>6. Progress'
    BY <1>1, <1>2, <1>10, <2>1, <2>2, <2>4, <2>5 DEF Record
  <2> QED BY <2>3, <2>6
<1>11. CASE Fail(p)
  <2>1. /\ ~At(p, "down", "record") /\ UNCHANGED <<recorded, applied>>
        /\ runner' = [runner EXCEPT ![p].step = "failed"]
    BY <1>11 DEF Fail, GoTo
  <2>2. RecordedMeansApplied'
    BY <1>1, <1>2, <2>1
  <2>3. Progress'
    BY <1>1, <1>2, <2>1
  <2> QED BY <2>2, <2>3
<1> QED
  BY <1>3, <1>4, <1>5, <1>6, <1>7, <1>8, <1>9, <1>10, <1>11 DEF RunnerStep, Call
-------------------------------------------------------------------------------
\* Together with the types: a runner's step preserves RecordIsTrueUnlessSpoiled.
LEMMA RecordStep ==
    ASSUME RecordIsTrueUnlessSpoiled, NEW p \in Runners, RunnerStep(p)
    PROVE  RecordIsTrueUnlessSpoiled'
<1>1. MigrationTypeOK'
  BY MigrationTypeStep DEF RecordIsTrueUnlessSpoiled
<1>2. MigrationTypeOK /\ Consistent
  BY DEF RecordIsTrueUnlessSpoiled, Consistent
<1>3. ~spoiled' => RecordedMeansApplied' /\ Progress'
  BY <1>2, ConsistentStep
<1> QED BY <1>1, <1>3 DEF RecordIsTrueUnlessSpoiled

\* A database nobody has migrated has a true record.
LEMMA RecordInit == MigrationInit => RecordIsTrueUnlessSpoiled
<1> SUFFICES ASSUME MigrationInit PROVE RecordIsTrueUnlessSpoiled
  OBVIOUS
<1> USE MigrationsAssumption DEF MigrationInit, Off, Busy, Working
<1>1. MigrationTypeOK
  <2>1. runner \in RunnerType
    BY DEF RunnerType
  <2> QED BY <2>1 DEF MigrationTypeOK, RunnerType
<1>2. RecordedMeansApplied /\ Progress
  BY DEF RecordedMeansApplied, Progress, Runs, At
<1> QED BY <1>1, <1>2 DEF RecordIsTrueUnlessSpoiled

\* A runner that is done has done what its name says.
LEMMA PromiseStep ==
    ASSUME RecordIsTrueUnlessSpoiled, NEW p \in Runners, RunnerStep(p), NEW q \in Runners
    PROVE  Promise(q)
<1> SUFFICES ASSUME Busy(q), runner'[q].step = "done", ~spoiled'
             PROVE  \/ runner[q].op = "up" /\ recorded' = Versions /\ applied' = Versions
                    \/ runner[q].op = "down" /\ recorded' = {}
  BY DEF Promise
<1>1. MigrationTypeOK /\ MigrationTypeOK' /\ RecordedMeansApplied' /\ Progress /\ ~spoiled
  <2>1. spoiled => spoiled'
    BY DEF RunnerStep, BeginUp, BeginDown, Begin, Call, CreateJournal, Query,
           QueryWithoutJournal, RunScript, Record, Fail, RecordIsTrueUnlessSpoiled, MigrationTypeOK
  <2> QED BY <2>1, RecordStep DEF RecordIsTrueUnlessSpoiled
<1>2. /\ runner \in RunnerType /\ runner[q].v \in Nat /\ runner[q].step # "done"
  BY <1>1, VersionsFacts DEF MigrationTypeOK, RunnerType, Busy, Working
<1> USE DEF RunnerType
<1>3. p = q
  <2> SUFFICES ASSUME p # q PROVE FALSE
    OBVIOUS
  <2>1. CASE Advance(p)
    BY <1>2, <2>1 DEF Advance
  <2>2. CASE ~Advance(p)
    BY <1>2, <2>2 DEF RunnerStep, BeginUp, BeginDown, Begin, Call, CreateJournal, Query,
         QueryWithoutJournal, RunScript, Record, Fail, GoTo
  <2> QED BY <2>1, <2>2
<1> DEFINE Skips == (runner[p].op = "up") <=> (runner[p].v \in recorded)
<1>4. CASE (Query(p) /\ Skips) \/ Record(p)
  <2>1. /\ Advance(p) /\ applied' = applied
        /\ runner[p].op = "up" => recorded' = recorded \cup {runner[p].v}
        /\ runner[p].op = "down" => recorded' = recorded \ {runner[p].v}
    BY <1>4 DEF Query, Record
  <2>2. runner[p].v \in Versions /\ Beyond(p) \notin Versions
    <3>1. runner'[p].step = IF Beyond(p) \in Versions THEN "query" ELSE "done"
      BY <1>1, <1>3, <2>1, AdvanceType
    <3> QED BY <1>1, <1>3, <3>1 DEF MigrationTypeOK
  <2>3. \A x \in Runners \ {p} : runner'[x] = runner[x]
    BY <1>2, <2>1 DEF Advance
  <2>4. CASE runner[p].op = "up"
    <3>1. runner[p].v = N
      BY <2>2, <2>4, MigrationsAssumption DEF Beyond, Versions
    <3>2. 1..(N - 1) \subseteq recorded
      BY <1>1, <1>3, <2>4, <3>1 DEF Progress, Runs
    <3>3. Versions \subseteq recorded'
      BY <2>1, <2>4, <3>1, <3>2, MigrationsAssumption DEF Versions
    <3>4. \A x \in Runners : ~Runs(x, "down")
      BY <1>1, <1>3, <2>4 DEF Progress, Runs
    <3>5. \A x \in Runners : ~At(x, "down", "record")'
      BY <1>3, <2>3, <3>4 DEF At, Runs, Busy, Working
    <3>6. recorded' \subseteq applied'
      BY <1>1, <3>5 DEF RecordedMeansApplied
    <3> QED BY <1>1, <1>3, <2>4, <3>3, <3>6 DEF MigrationTypeOK
  <2>5. CASE runner[p].op = "down"
    <3>1. runner[p].v = 1
      BY <2>2, <2>5, MigrationsAssumption DEF Beyond, Versions
    <3>2. recorded \subseteq 1..1
      BY <1>1, <1>3, <2>5, <3>1 DEF Progress, Runs
    <3>3. recorded \ {1} = {}
      BY <3>2
    <3>4. recorded' = {}
      BY <1>3, <2>1, <2>5, <3>1, <3>3
    <3> QED BY <1>3, <2>5, <3>4
  <2> QED BY <1>2, <2>4, <2>5
<1>5. CASE ~(Query(p) /\ Skips) /\ ~Record(p)
  BY <1>2, <1>3, <1>5 DEF RunnerStep, BeginUp, BeginDown, Begin, Call, CreateJournal, Query,
         QueryWithoutJournal, RunScript, Fail, GoTo
<1> QED BY <1>4, <1>5

-------------------------------------------------------------------------------
\* What the steps of replicas do to the migration.
LEMMA StartupStepIsRunnerStep ==
    ASSUME [StartupNext]_startupVars
    PROVE  UNCHANGED migrationVars \/ \E p \in Runners : RunnerStep(p)
BY StartupAssumption
   DEF StartupNext, startupVars, Open, OpenFails, Opened, Fallback, Exit, IngestOnPostgres,
       IngestInMemory, Migrate, MigrateFails, Command, RunnerStep

\* However calls fail and whoever migrates beside whom: the record of a version
\* runs ahead of its tables only after a Down that failed half-way or ran beside
\* an Up (Runner.Up and Runner.Down).
THEOREM RecordIsTrueUnlessSpoiledInvariance == StartupSpec => []RecordIsTrueUnlessSpoiled
<1>1. StartupInit => RecordIsTrueUnlessSpoiled
  BY RecordInit DEF StartupInit
<1>2. RecordIsTrueUnlessSpoiled /\ [StartupNext]_startupVars => RecordIsTrueUnlessSpoiled'
  <2> SUFFICES ASSUME RecordIsTrueUnlessSpoiled, [StartupNext]_startupVars
               PROVE  RecordIsTrueUnlessSpoiled'
    OBVIOUS
  <2>1. CASE UNCHANGED migrationVars
    BY <2>1 DEF migrationVars, RecordIsTrueUnlessSpoiled, MigrationTypeOK, RecordedMeansApplied,
                Progress, Busy, At, Runs
  <2>2. CASE \E p \in Runners : RunnerStep(p)
    BY <2>2, RecordStep
  <2> QED BY <2>1, <2>2, StartupStepIsRunnerStep
<1> QED BY <1>1, <1>2, PTL DEF StartupSpec

\* A runner that returns without an error has applied, or reverted, all versions,
\* unless the record was spoiled before (Runner.Up, Runner.Down).
THEOREM RunnersKeepTheirPromiseSafety == StartupSpec => RunnersKeepTheirPromise
<1>1. RecordIsTrueUnlessSpoiled /\ [StartupNext]_startupVars
        => [\A p \in Runners : Promise(p)]_migrationVars
  <2> SUFFICES ASSUME RecordIsTrueUnlessSpoiled, NEW p \in Runners, RunnerStep(p)
               PROVE  \A q \in Runners : Promise(q)
    BY StartupStepIsRunnerStep
  <2> QED BY PromiseStep
<1> QED BY <1>1, RecordIsTrueUnlessSpoiledInvariance, PTL DEF StartupSpec, RunnersKeepTheirPromise

-------------------------------------------------------------------------------
\* TableStands, without the replicas.
Stands ==
    /\ EventsTable \in recorded => EventsTable \in applied
    /\ \A p \in Runners : runner[p].op = "up" =>
          \/ runner[p].step \in {"off", "failed"}
          \/ runner[p].v = EventsTable /\ runner[p].step \in {"journal", "query", "script"}
          \/ EventsTable \in applied

Drops(p) == At(p, "down", "script") /\ runner[p].v = EventsTable

\* Only the script of a Down takes the table away.
LEMMA StandsStep ==
    ASSUME MigrationTypeOK, Stands, NEW p \in Runners, RunnerStep(p), ~(Drops(p) /\ RunScript(p))
    PROVE  Stands' /\ (EventsTable \in applied => EventsTable \in applied')
<1>1. /\ runner \in RunnerType
      /\ Busy(p) => runner[p].v \in Versions /\ runner[p].v \in Nat
  BY VersionsFacts DEF MigrationTypeOK, RunnerType
<1> USE DEF Stands, EventsTable, RunnerType, Busy, Working, GoTo, At
<1>2. CASE BeginUp(p) \/ BeginDown(p) \/ Fail(p)
  <2>1. CASE BeginUp(p)
    BY <1>1, <2>1 DEF BeginUp, Begin
  <2>2. CASE BeginDown(p)
    BY <1>1, <2>2 DEF BeginDown, Begin
  <2>3. CASE Fail(p)
    BY <1>1, <2>3 DEF Fail
  <2> QED BY <1>2, <2>1, <2>2, <2>3
<1>3. CASE CreateJournal(p) \/ QueryWithoutJournal(p)
  BY <1>1, <1>3 DEF CreateJournal, QueryWithoutJournal
<1>4. CASE RunScript(p)
  BY <1>1, <1>4 DEF RunScript, Drops
<1> DEFINE Skips == (runner[p].op = "up") <=> (runner[p].v \in recorded)
<1>5. CASE Query(p) /\ ~Skips
  BY <1>1, <1>5 DEF Query
<1>6. CASE (Query(p) /\ Skips) \/ Record(p)
  <2>1. /\ Advance(p) /\ Busy(p) /\ UNCHANGED applied
        /\ runner[p].op = "up" => recorded' = recorded \cup {runner[p].v}
        /\ runner[p].op = "down" => recorded' = recorded \ {runner[p].v}
    BY <1>6 DEF Query, Record
  <2>2. /\ runner' \in RunnerType
        /\ runner'[p].op = runner[p].op
        /\ \A q \in Runners \ {p} : runner'[q] = runner[q]
    BY <2>1, AdvanceType
  <2>3. CASE runner[p].op = "up"
    <3>1. EventsTable \in applied
      BY <1>1, <1>6, <2>3 DEF Query, Record
    <3> QED BY <1>1, <2>1, <2>2, <2>3, <3>1
  <2>4. CASE runner[p].op = "down"
    BY <1>1, <2>1, <2>2, <2>4
  <2> QED BY <1>1, <2>3, <2>4
<1> QED BY <1>2, <1>3, <1>4, <1>5, <1>6 DEF RunnerStep, Call

\* StartupTypeOK, without the migration.
StoreTypeOK ==
    /\ store \in [Replicas -> {"none", "opening", "postgres", "memory"}]
    /\ memory \in [Replicas -> SUBSET Events]
    /\ rows \subseteq Events
    /\ ingested \in [Events -> {"no", "postgres", "memory"}]
    /\ dropped \in BOOLEAN

\* Every step of a replica or of a runner keeps the types.
LEMMA StartupTypeStep ==
    ASSUME StartupTypeOK, [StartupNext]_startupVars
    PROVE  StartupTypeOK'
<1>1. MigrationTypeOK'
  <2>1. CASE UNCHANGED migrationVars
    BY <2>1 DEF StartupTypeOK, migrationVars, MigrationTypeOK, Busy
  <2>2. CASE \E p \in Runners : RunnerStep(p)
    BY <2>2, MigrationTypeStep DEF StartupTypeOK
  <2> QED BY <2>1, <2>2, StartupStepIsRunnerStep
<1>2. StoreTypeOK'
  <2> USE DEF StartupTypeOK, StoreTypeOK, storeVars
  <2>1. ASSUME NEW r \in Replicas, Open(r) \/ OpenFails(r) \/ Opened(r) \/ Fallback(r) \/ Exit(r)
        PROVE  StoreTypeOK'
    BY <2>1 DEF Open, OpenFails, Opened, Fallback, Exit
  <2>2. ASSUME NEW r \in Replicas, NEW e \in Events, IngestOnPostgres(r, e) \/ IngestInMemory(r, e)
        PROVE  StoreTypeOK'
    BY <2>2 DEF IngestOnPostgres, IngestInMemory
  <2>3. ASSUME NEW p \in Runners, Migrate(p) \/ MigrateFails(p) \/ Command(p)
        PROVE  StoreTypeOK'
    BY <2>3 DEF Migrate, MigrateFails, Command, At
  <2>4. CASE UNCHANGED startupVars
    BY <2>4 DEF startupVars
  <2> QED BY <2>1, <2>2, <2>3, <2>4 DEF StartupNext
<1> QED BY <1>1, <1>2 DEF StartupTypeOK, StoreTypeOK

\* What each step keeps of TableStands and RowsAreKept.
LEMMA RowsStep ==
    ASSUME RowsOutliveRestarts, [StartupNext]_startupVars
    PROVE  (~dropped' => TableStands') /\ RowsAreKept'
<1> USE StartupAssumption DEF EventsTable
<1>1. StartupTypeOK /\ StoreTypeOK /\ MigrationTypeOK /\ RowsAreKept /\ (~dropped => TableStands)
  BY DEF RowsOutliveRestarts, StartupTypeOK, StoreTypeOK
<1>2. ASSUME NEW p \in Runners, Migrate(p)
      PROVE  (~dropped' => TableStands') /\ RowsAreKept'
  <2>1. RunnerStep(p)
    BY <1>2 DEF Migrate, RunnerStep
  <2>2. runner'[p].op = runner[p].op /\ \A q \in Runners \ {p} : runner'[q] = runner[q]
    BY <1>1, <1>2 DEF Migrate, Call, CreateJournal, Query, QueryWithoutJournal, RunScript, Record,
         Advance, GoTo, MigrationTypeOK
  <2>3. ASSUME ~dropped' PROVE TableStands' /\ (EventsTable \in applied => EventsTable \in applied')
    <3>1. ~Drops(p) /\ Stands /\ UNCHANGED store
      BY <1>1, <1>2, <2>3 DEF Migrate, Drops, TableStands, Stands, StoreTypeOK
    <3>2. Stands' /\ (EventsTable \in applied => EventsTable \in applied')
      BY <1>1, <2>1, <3>1, StandsStep
    <3> QED BY <1>1, <1>2, <2>3, <3>1, <3>2 DEF TableStands, Stands, Migrate, StoreTypeOK
  <2>4. RowsAreKept'
    BY <1>1, <1>2, <2>2, <2>3 DEF Migrate, RowsAreKept, StoreTypeOK
  <2> QED BY <2>3, <2>4
<1>3. ASSUME NEW p \in Runners, MigrateFails(p) \/ Command(p) \/ (p \in Replicas /\ Open(p))
      PROVE  (~dropped' => TableStands') /\ RowsAreKept'
  <2>1. /\ Fail(p) \/ BeginUp(p) \/ BeginDown(p)
        /\ UNCHANGED storeVars /\ applied' = applied
        /\ UNCHANGED store \/ (p \in Replicas /\ Open(p))
    BY <1>3 DEF MigrateFails, Command, Open, Fail, BeginUp, BeginDown, Begin
  <2>2. ~(Drops(p) /\ RunScript(p)) /\ RunnerStep(p)
    BY <1>1, <2>1 DEF RunnerStep, RunScript, Fail, BeginUp, BeginDown, Begin, GoTo, Busy,
         Working, MigrationTypeOK
  <2>3. /\ \A q \in Runners \ {p} : runner'[q] = runner[q]
        /\ p \in Replicas => runner'[p].op = "up" \/ runner'[p].op = runner[p].op
    BY <1>1, <1>3 DEF MigrateFails, Command, Open, Fail, GoTo, BeginUp, BeginDown, Begin,
         MigrationTypeOK
  <2>4. /\ \A q \in Replicas : store'[q] = "opening" /\ store[q] # "opening" => runner'[q].op = "up"
        /\ \A q \in Replicas : store'[q] = "postgres" => store[q] = "postgres"
    BY <1>1, <2>1 DEF Open, BeginUp, Begin, StoreTypeOK, MigrationTypeOK
  <2>5. ~dropped' => TableStands'
    <3> SUFFICES ASSUME ~dropped' PROVE TableStands'
      OBVIOUS
    <3>1. Stands
      BY <1>1, <2>1 DEF storeVars, TableStands, Stands
    <3>2. Stands'
      BY <1>1, <2>2, <3>1, StandsStep
    <3> QED BY <1>1, <2>1, <2>4, <3>2 DEF storeVars, TableStands, Stands
  <2>6. RowsAreKept'
    BY <1>1, <2>1, <2>3, <2>4 DEF storeVars, RowsAreKept, StoreTypeOK
  <2> QED BY <2>5, <2>6
<1>4. ASSUME NEW r \in Replicas, OpenFails(r) \/ Opened(r) \/ Fallback(r) \/ Exit(r)
      PROVE  (~dropped' => TableStands') /\ RowsAreKept'
  <2>1. /\ UNCHANGED <<migrationVars, rows, ingested, dropped>>
        /\ \A q \in Replicas : memory'[q] \subseteq memory[q]
        /\ \A q \in Replicas : store'[q] # "opening" \/ store'[q] = store[q]
    BY <1>1, <1>4 DEF OpenFails, Opened, Fallback, Exit, storeVars, StoreTypeOK
  <2>2. \A q \in Replicas : store'[q] = "postgres" =>
            \/ store[q] = "postgres"
            \/ store[q] = "opening" /\ runner[q].step = "done"
    BY <1>1, <1>4 DEF OpenFails, Opened, Fallback, Exit, StoreTypeOK
  <2>3. ~dropped' => TableStands'
    BY <1>1, <2>1, <2>2 DEF migrationVars, TableStands, RowsAreKept
  <2>4. RowsAreKept'
    BY <1>1, <2>1 DEF migrationVars, RowsAreKept, StoreTypeOK
  <2> QED BY <2>3, <2>4
<1>5. ASSUME NEW r \in Replicas, NEW e \in Events, IngestOnPostgres(r, e) \/ IngestInMemory(r, e)
      PROVE  (~dropped' => TableStands') /\ RowsAreKept'
  <2>1. UNCHANGED <<migrationVars, store, dropped>>
    BY <1>5 DEF IngestOnPostgres, IngestInMemory
  <2>2. ~dropped' => TableStands'
    BY <1>1, <2>1 DEF migrationVars, TableStands
  <2>3. CASE IngestOnPostgres(r, e)
    <3>1. EventsTable \in applied \/ dropped
      BY <1>1, <2>3 DEF IngestOnPostgres, TableStands
    <3> QED BY <1>1, <2>1, <2>2, <2>3, <3>1 DEF IngestOnPostgres, RowsAreKept, StoreTypeOK, migrationVars
  <2>4. CASE IngestInMemory(r, e)
    BY <1>1, <2>1, <2>2, <2>4 DEF IngestInMemory, RowsAreKept, StoreTypeOK, migrationVars
  <2> QED BY <1>5, <2>3, <2>4
<1>6. CASE UNCHANGED startupVars
  BY <1>1, <1>6 DEF startupVars, migrationVars, TableStands, RowsAreKept
<1> QED BY <1>2, <1>3, <1>4, <1>5, <1>6 DEF StartupNext

\* A replica that serves from PostgreSQL has its table, and what was ingested there
\* stays, through failed migrations, fallbacks and restarts, until a Down drops it
\* (openPostgresOrFallback, DB.migrate).
THEOREM RowsOutliveRestartsInvariance == StartupSpec => []RowsOutliveRestarts
<1>1. StartupInit => RowsOutliveRestarts
  <2> SUFFICES ASSUME StartupInit PROVE RowsOutliveRestarts
    OBVIOUS
  <2>1. MigrationTypeOK
    BY RecordInit DEF StartupInit, RecordIsTrueUnlessSpoiled
  <2>2. StartupTypeOK
    BY <2>1 DEF StartupInit, StartupTypeOK
  <2>3. TableStands /\ RowsAreKept
    BY StartupAssumption DEF StartupInit, MigrationInit, Off, TableStands, RowsAreKept
  <2> QED BY <2>2, <2>3 DEF RowsOutliveRestarts
<1>2. RowsOutliveRestarts /\ [StartupNext]_startupVars => RowsOutliveRestarts'
  BY StartupTypeStep, RowsStep DEF RowsOutliveRestarts
<1> QED BY <1>1, <1>2, PTL DEF StartupSpec
-------------------------------------------------------------------------------
(* The live policy.  A reload under way carries a policy no older than the *)
(* one that was live when it began, and no younger than the file.          *)

\* Lengths and ages are numbers.
LEMMA Numbers == MaxSaves \in Nat /\ \A d \in Documents \cup {<<>>} : Len(d) \in Nat
<1>1. MaxSaves \in Nat
  BY RedactionAssumption
<1>2. ASSUME NEW d \in Documents PROVE Len(d) \in Nat
  BY DocumentsAssumption
<1>3. Len(<<>>) \in Nat
  OBVIOUS
<1> QED BY <1>1, <1>2, <1>3

\* What a file is made of.
LEMMA FileFacts ==
    ASSUME NEW f \in Files
    PROVE  /\ f = [doc |-> f.doc, lines |-> f.lines, age |-> f.age]
           /\ f.doc \in Documents \cup {<<>>}
           /\ f.lines \in Nat /\ f.age \in Nat /\ Len(f.doc) \in Nat
           /\ f.lines <= Len(f.doc) /\ f.age <= MaxSaves
<1>1. PICK doc \in Documents \cup {<<>>} : f \in Version(doc)
  BY DEF Files
<1>2. Len(doc) \in Nat
  BY Numbers
<1>3. /\ f \in [doc : {doc}, lines : 0..Len(doc), age : 0..MaxSaves]
      /\ f.doc = doc /\ f.lines \in 0..Len(doc) /\ f.age \in 0..MaxSaves
  BY <1>1 DEF Version
<1> QED BY <1>2, <1>3, Numbers

\* The other way round.
LEMMA IsFile ==
    ASSUME NEW d \in Documents \cup {<<>>}, NEW n \in 0..Len(d), NEW a \in 0..MaxSaves
    PROVE  [doc |-> d, lines |-> n, age |-> a] \in Files
<1>1. [doc |-> d, lines |-> n, age |-> a] \in Version(d)
  BY DEF Version
<1> QED BY <1>1 DEF Files

\* Age is a total preorder on files.
LEMMA AgeOrder ==
    ASSUME NEW f \in Files, NEW g \in Files, NEW h \in Files
    PROVE  /\ AsOld(f, f)
           /\ AsOld(f, g) \/ AsOld(g, f)
           /\ AsOld(f, g) /\ AsOld(g, h) => AsOld(f, h)
BY FileFacts DEF AsOld

\* A change to the file makes it younger.
LEMMA FileAges ==
    ASSUME file \in Files, (\E d \in Documents \cup {<<>>} : Save(d)) \/ WriteLine
    PROVE  file' \in Files /\ AsOld(file, file')
<1>1. /\ file.lines \in Nat /\ file.age \in Nat /\ Len(file.doc) \in Nat
      /\ file.doc \in Documents \cup {<<>>}
      /\ file.lines <= Len(file.doc) /\ file.age <= MaxSaves
      /\ file = [doc |-> file.doc, lines |-> file.lines, age |-> file.age]
  BY FileFacts
<1>2. ASSUME NEW d \in Documents \cup {<<>>}, Save(d)
      PROVE  file' \in Files /\ AsOld(file, file')
  <2>1. Len(d) \in Nat
    BY Numbers
  <2>2. PICK n \in {0, Len(d)} : file' = [doc |-> d, lines |-> n, age |-> file.age + 1]
    BY <1>2 DEF Save
  <2>3. n \in 0..Len(d) /\ file.age + 1 \in 0..MaxSaves
    BY <1>1, <1>2, <2>1, Numbers DEF Save
  <2> QED BY <1>1, <2>2, <2>3, IsFile DEF AsOld
<1>3. ASSUME WriteLine PROVE file' \in Files /\ AsOld(file, file')
  <2>1. file' = [doc |-> file.doc, lines |-> file.lines + 1, age |-> file.age]
    BY <1>1, <1>3 DEF WriteLine
  <2>2. file.lines + 1 \in 0..Len(file.doc) /\ file.age \in 0..MaxSaves
    BY <1>1, <1>3, Numbers DEF WriteLine
  <2> QED BY <1>1, <2>1, <2>2, IsFile DEF AsOld
<1> QED BY <1>2, <1>3

\* Where a reload under way stands.
InOrder(r) ==
    reload[r] # None =>
        /\ reload[r].text \in Files /\ reload[r].since \in Files
        /\ AsOld(reload[r].since, reload[r].text) /\ AsOld(reload[r].text, file)

\* A live policy is never younger than its file, and a reload under way brings one
\* no older than what was live when it began (Reloader.Reload).
THEOREM RedactionTypeInvariance == RedactionSpec => []RedactionTypeOK
<1>1. RedactionInit => RedactionTypeOK
  <2> SUFFICES ASSUME RedactionInit PROVE RedactionTypeOK
    OBVIOUS
  <2>1. PICK d \in Documents \cup {<<>>} : file = [doc |-> d, lines |-> Len(d), age |-> 0]
    BY DEF RedactionInit
  <2>2. Len(d) \in Nat
    BY Numbers
  <2>3. file \in Files
    BY <2>1, <2>2, IsFile, Numbers
  <2> QED BY <2>3, AgeOrder DEF RedactionInit, RedactionTypeOK
<1>2. RedactionTypeOK /\ [RedactionNext]_redactionVars => RedactionTypeOK'
  <2> SUFFICES ASSUME RedactionTypeOK, [RedactionNext]_redactionVars PROVE RedactionTypeOK'
    OBVIOUS
  <2>1. /\ file \in Files /\ live \in Files /\ AsOld(live, file)
        /\ \A r \in Reloaders : InOrder(r)
    BY DEF RedactionTypeOK, InOrder
  <2>2. CASE (\E d \in Documents \cup {<<>>} : Save(d)) \/ WriteLine
    <3>1. file' \in Files /\ AsOld(file, file') /\ UNCHANGED <<live, reload>>
      BY <2>1, <2>2, FileAges DEF Save, WriteLine
    <3>2. AsOld(live, file')
      BY <2>1, <3>1, AgeOrder
    <3>3. ASSUME NEW r \in Reloaders, reload[r] # None PROVE AsOld(reload[r].text, file')
      BY <2>1, <3>1, <3>3, AgeOrder DEF InOrder
    <3> QED BY <2>1, <3>1, <3>2, <3>3 DEF RedactionTypeOK, InOrder
  <2>3. ASSUME NEW r \in Reloaders, BeginReload(r) PROVE RedactionTypeOK'
    <3>1. AsOld(file, file)
      BY <2>1, AgeOrder
    <3> QED BY <2>1, <2>3, <3>1 DEF BeginReload, RedactionTypeOK, InOrder
  <2>4. ASSUME NEW r \in Reloaders, EndReload(r) PROVE RedactionTypeOK'
    BY <2>1, <2>4 DEF EndReload, RedactionTypeOK, InOrder
  <2>5. CASE UNCHANGED redactionVars
    BY <2>5 DEF redactionVars, RedactionTypeOK
  <2> QED BY <2>2, <2>3, <2>4, <2>5 DEF RedactionNext
<1> QED BY <1>1, <1>2, PTL DEF RedactionSpec

\* Reload swaps in an older policy only if it began before the newer one was live.
THEOREM OlderPolicyOnlyFromOverlapSafety == RedactionSpec => OlderPolicyOnlyFromOverlap
<1> DEFINE Overtaken ==
      \E r \in Reloaders :
          /\ reload[r] # None /\ reload'[r] = None /\ live' = reload[r].text
          /\ AsOld(reload[r].since, live') /\ reload[r].since # live
<1>1. RedactionTypeOK /\ [RedactionNext]_redactionVars => [~AsOld(live, live') => Overtaken]_redactionVars
  <2> SUFFICES ASSUME RedactionTypeOK, RedactionNext, ~AsOld(live, live') PROVE Overtaken
    OBVIOUS
  <2>1. live' # live
    BY AgeOrder DEF RedactionTypeOK
  <2>2. PICK r \in Reloaders : EndReload(r)
    BY <2>1 DEF RedactionNext, Save, WriteLine, BeginReload
  <2>3. AsOld(reload[r].since, live') /\ reload[r].since # live
    BY <2>2 DEF EndReload, RedactionTypeOK
  <2> QED BY <2>2, <2>3 DEF EndReload, RedactionTypeOK
<1> QED BY <1>1, RedactionTypeInvariance, PTL DEF RedactionSpec, OlderPolicyOnlyFromOverlap

-------------------------------------------------------------------------------
(* What Parse makes of a file, line by line.                               *)

\* A rule with the fields read so far.
Rule ==
    [service : Services \cup {"*"}, action : Actions \cup {"*", ""},
     fields : UNION {[named -> Transforms] : named \in SUBSET Keys}]

\* What holds of 0 and of each number's successor holds up to m.
LEMMA UpTo ==
    ASSUME NEW m \in Nat, NEW S, 0 \in S, \A n \in 0..m : n \in S /\ n < m => n + 1 \in S
    PROVE  0..m \subseteq S
<1> DEFINE Bad == {n \in 0..m : n \notin S}
<1> SUFFICES ASSUME Bad # {} PROVE FALSE
  OBVIOUS
<1>1. PICK least \in Bad : \A other \in Bad : ~(<<other, least>> \in OpToRel(<, Nat))
  <2>1. Bad \subseteq Nat OBVIOUS
  <2> HIDE DEF Bad
  <2> QED BY <2>1, NatLessThanWellFounded, WFMin
<1>2. least - 1 \in 0..m /\ least - 1 < m /\ least - 1 \notin S
  <2>1. least \in 0..m /\ least \notin S /\ least # 0 BY <1>1
  <2>2. PICK n \in 0..m : n < m /\ least = n + 1 BY <2>1
  <2>3. n \notin S BY <2>1, <2>2
  <2>4. least - 1 = n BY <2>2
  <2> QED BY <2>2, <2>3, <2>4
<1>3. <<least - 1, least>> \in OpToRel(<, Nat)
  BY <1>1, <1>2 DEF OpToRel
<1> QED BY <1>1, <1>2, <1>3

\* The function that Rounds is the choice of.
IsRounds(f, lines, m) ==
    f = [n \in 0..m |-> IF n = 0 THEN <<>> ELSE ParseLine(f[n - 1], lines[n])]

\* There is one, for as many of the lines as one likes.
LEMMA RoundsExist ==
    ASSUME NEW lines, NEW m \in Nat
    PROVE  \E f : IsRounds(f, lines, m)
<1> DEFINE S == {n \in 0..m : \E f : IsRounds(f, lines, n)}
<1>1. 0 \in S
  <2>1. IsRounds([n \in 0..0 |-> <<>>], lines, 0) BY DEF IsRounds
  <2> QED BY <2>1
<1>2. ASSUME NEW n \in 0..m, n \in S, n < m PROVE n + 1 \in S
  <2>1. PICK f : IsRounds(f, lines, n) BY <1>2
  <2> DEFINE g == [i \in 0..(n + 1) |-> IF i = n + 1 THEN ParseLine(f[n], lines[n + 1]) ELSE f[i]]
  <2>2. ASSUME NEW i \in 0..(n + 1)
        PROVE  g[i] = IF i = 0 THEN <<>> ELSE ParseLine(g[i - 1], lines[i])
    <3>1. CASE i = n + 1
      <4>1. i # 0 /\ i - 1 = n /\ g[i - 1] = f[n] BY <1>2, <3>1
      <4> QED BY <3>1, <4>1
    <3>2. CASE i = 0
      <4>1. f[0] = <<>> BY <2>1 DEF IsRounds
      <4> QED BY <3>2, <4>1
    <3>3. CASE i # 0 /\ i # n + 1
      <4>1. g[i] = f[i] /\ g[i - 1] = f[i - 1] /\ i \in 0..n BY <3>3
      <4>2. f[i] = ParseLine(f[i - 1], lines[i]) BY <2>1, <3>3, <4>1 DEF IsRounds
      <4> QED BY <3>3, <4>1, <4>2
    <3> QED BY <3>1, <3>2, <3>3
  <2>3. g = [i \in 0..(n + 1) |-> g[i]] OBVIOUS
  <2> HIDE DEF g
  <2>4. IsRounds(g, lines, n + 1) BY <2>2, <2>3 DEF IsRounds
  <2> QED BY <1>2, <2>4
<1> HIDE DEF S
<1>3. m \in S BY <1>1, <1>2, UpTo
<1> QED BY <1>3 DEF S

\* The rounds of the loop, one line after the other.
LEMMA RoundsFacts ==
    ASSUME NEW lines, Len(lines) \in Nat
    PROVE  /\ Rounds(lines)[0] = <<>>
           /\ \A n \in 1..Len(lines) : Rounds(lines)[n] = ParseLine(Rounds(lines)[n - 1], lines[n])
<1>1. Rounds(lines)
        = CHOOSE f : f = [n \in 0..Len(lines) |-> IF n = 0 THEN <<>> ELSE ParseLine(f[n - 1], lines[n])]
  BY DEF Rounds
<1>2. \E f : f = [n \in 0..Len(lines) |-> IF n = 0 THEN <<>> ELSE ParseLine(f[n - 1], lines[n])]
  BY RoundsExist DEF IsRounds
<1>3. Rounds(lines) = [n \in 0..Len(lines) |-> IF n = 0 THEN <<>>
                                               ELSE ParseLine(Rounds(lines)[n - 1], lines[n])]
  BY <1>1, <1>2
<1>4. ASSUME NEW f, f = [n \in 0..Len(lines) |-> IF n = 0 THEN <<>> ELSE ParseLine(f[n - 1], lines[n])]
      PROVE  f[0] = <<>> /\ \A n \in 1..Len(lines) : f[n] = ParseLine(f[n - 1], lines[n])
  BY <1>4
<1> QED BY <1>3, <1>4

\* A part of the lines has the same rounds as the whole.
LEMMA RoundsOfPart ==
    ASSUME NEW lines \in Seq(Line), NEW m \in 0..Len(lines)
    PROVE  Parse(SubSeq(lines, 1, m)) = Rounds(lines)[m]
<1> DEFINE part == SubSeq(lines, 1, m)
           S == {n \in 0..m : Rounds(part)[n] = Rounds(lines)[n]}
<1>1. Len(lines) \in Nat /\ Len(part) = m /\ m \in Nat /\ \A n \in 1..m : part[n] = lines[n]
  OBVIOUS
<1> HIDE DEF part
<1>2. 0 \in S
  BY <1>1, RoundsFacts
<1>3. ASSUME NEW n \in 0..m, n \in S, n < m PROVE n + 1 \in S
  <2>1. PICK j \in 1..m : j = n + 1 BY <1>3
  <2>2. j - 1 = n /\ j \in 1..Len(lines) BY <1>1, <2>1
  <2>3. Rounds(part)[j] = ParseLine(Rounds(part)[n], part[j]) BY <1>1, <2>1, <2>2, RoundsFacts
  <2>4. Rounds(lines)[j] = ParseLine(Rounds(lines)[n], lines[j]) BY <1>1, <2>2, RoundsFacts
  <2>5. Rounds(part)[j] = Rounds(lines)[j] BY <1>1, <1>3, <2>1, <2>3, <2>4
  <2> QED BY <2>1, <2>5
<1> HIDE DEF S
<1>4. 0..m \subseteq S BY <1>1, <1>2, <1>3, UpTo
<1>5. m \in S BY <1>1, <1>4
<1> QED BY <1>1, <1>5 DEF Parse, S, part

\* One of the rules is replaced by another.
LEMMA RuleReplaced ==
    ASSUME NEW rules \in Seq(Rule), NEW i \in 1..Len(rules), NEW rule \in Rule
    PROVE  /\ [rules EXCEPT ![i] = rule] \in Seq(Rule)
           /\ Len([rules EXCEPT ![i] = rule]) = Len(rules)
  OBVIOUS

\* What one line makes of the rules.
LineAdds(rules, line, next) ==
    /\ next \in Seq(Rule)
    /\ line.kind = "service" =>
         /\ Len(next) = Len(rules) + 1
         /\ \A i \in 1..Len(rules) : next[i] = rules[i]
         /\ next[Len(next)] = NewRule(line.text)
    /\ line.kind # "service" => Len(next) = Len(rules)
    /\ line.kind # "service" => \A i \in 1..Len(rules) : i # Len(rules) => next[i] = rules[i]
    /\ line.kind = "comment" => next = rules
    /\ line.kind = "action" /\ rules # <<>> =>
         next[Len(next)] = [rules[Len(rules)] EXCEPT !.action = line.text]
    /\ line.kind = "field" /\ rules # <<>> =>
         next[Len(next)] = [rules[Len(rules)] EXCEPT
                              !.fields = AddField(@, line.key, line.text)]

\* It makes that of them.
LEMMA ParseLineFacts ==
    ASSUME NEW rules \in Seq(Rule), NEW line \in Line, NEW next, next = ParseLine(rules, line)
    PROVE  LineAdds(rules, line, next)
<1>1. line.kind \in {"service", "action", "field", "comment"}
  BY DEF Line
<1>2. CASE line.kind = "service"
  <2>1. next = Append(rules, NewRule(line.text)) BY <1>2 DEF ParseLine
  <2>2. NewRule(line.text) \in Rule
    <3>1. line.text \in Services \cup {"*"} BY <1>2 DEF Line
    <3>2. <<>> \in [{} -> Transforms] OBVIOUS
    <3> QED BY <3>1, <3>2 DEF NewRule, Rule
  <2>3. PICK r : r = NewRule(line.text) OBVIOUS
  <2>4. next = Append(rules, r) /\ r \in Rule BY <2>1, <2>2, <2>3
  <2>5. next \in Seq(Rule) /\ Len(next) = Len(rules) + 1 BY <2>4
  <2>6. \A i \in 1..Len(rules) : next[i] = rules[i] BY <2>4
  <2>7. next[Len(next)] = r BY <2>4
  <2> QED BY <1>2, <2>3, <2>5, <2>6, <2>7 DEF LineAdds
<1>3. CASE line.kind # "service" /\ (line.kind = "comment" \/ rules = <<>>)
  <2>1. next = rules BY <1>3 DEF ParseLine
  <2> QED BY <1>3, <2>1 DEF LineAdds
<1>4. CASE line.kind \in {"action", "field"} /\ rules # <<>>
  <2> DEFINE n == Len(rules)
  <2>1. n \in 1..Len(rules) /\ rules[n] \in Rule BY <1>4
  <2>2. PICK rule : /\ rule \in Rule
                    /\ next = [rules EXCEPT ![n] = rule]
                    /\ line.kind = "action" => rule = [rules[n] EXCEPT !.action = line.text]
                    /\ line.kind = "field" =>
                         rule = [rules[n] EXCEPT !.fields = AddField(@, line.key, line.text)]
    <3>1. CASE line.kind = "action"
      <4> DEFINE rule == [rules[n] EXCEPT !.action = line.text]
      <4>1. line.text \in Actions \cup {"*"} BY <3>1 DEF Line
      <4>2. rule \in Rule BY <2>1, <4>1 DEF Rule
      <4>3. next = [rules EXCEPT ![n] = rule] BY <1>4, <3>1 DEF ParseLine
      <4> QED BY <3>1, <4>2, <4>3
    <3>2. CASE line.kind = "field"
      <4> DEFINE fields == AddField(rules[n].fields, line.key, line.text)
                 rule == [rules[n] EXCEPT !.fields = fields]
      <4>1. line.key \in Keys /\ line.text \in Transforms BY <3>2 DEF Line
      <4>2. fields \in UNION {[named -> Transforms] : named \in SUBSET Keys}
        <5>1. PICK named \in SUBSET Keys : rules[n].fields \in [named -> Transforms]
          BY <2>1 DEF Rule
        <5>2. fields \in [named -> Transforms] \/ fields \in [named \cup {line.key} -> Transforms]
          BY <4>1, <5>1 DEF AddField
        <5> QED BY <4>1, <5>1, <5>2
      <4> HIDE DEF fields
      <4>3. rule \in Rule BY <2>1, <4>2 DEF Rule
      <4>4. next = [rules EXCEPT ![n] = rule] BY <1>4, <3>2 DEF ParseLine, fields
      <4> QED BY <3>2, <4>3, <4>4 DEF fields
    <3> QED BY <1>4, <3>1, <3>2
  <2>3. next \in Seq(Rule) /\ Len(next) = n
    <3>1. next = [rules EXCEPT ![n] = rule] /\ rule \in Rule BY <2>2, Zenon
    <3>2. [rules EXCEPT ![n] = rule] \in Seq(Rule) BY <2>1, <3>1, RuleReplaced, Zenon
    <3>3. Len([rules EXCEPT ![n] = rule]) = Len(rules) BY <2>1, <3>1, RuleReplaced, Zenon
    <3> QED BY <3>1, <3>2, <3>3, Zenon DEF n
  <2>4. \A i \in 1..n : i # n => next[i] = rules[i] BY <2>2
  <2>5. next[n] = rule BY <2>1, <2>2
  <2> QED BY <1>4, <2>2, <2>3, <2>4, <2>5 DEF LineAdds
<1> QED BY <1>1, <1>2, <1>3, <1>4

\* The rules are rules after each round.
LEMMA RoundsTyped ==
    ASSUME NEW lines \in Seq(Line)
    PROVE  \A n \in 0..Len(lines) : Rounds(lines)[n] \in Seq(Rule)
<1> DEFINE S == {n \in 0..Len(lines) : Rounds(lines)[n] \in Seq(Rule)}
<1>1. Len(lines) \in Nat /\ \A n \in 1..Len(lines) : lines[n] \in Line
  OBVIOUS
<1>2. 0 \in S
  <2>1. \A r : r = <<>> => r \in Seq(Rule) OBVIOUS
  <2>2. Rounds(lines)[0] \in Seq(Rule) BY <1>1, <2>1, RoundsFacts
  <2>3. 0 \in 0..Len(lines) BY <1>1
  <2> QED BY <2>2, <2>3
<1>3. ASSUME NEW n \in 0..Len(lines), n \in S, n < Len(lines) PROVE n + 1 \in S
  <2>1. PICK j \in 1..Len(lines) : j = n + 1 BY <1>1, <1>3
  <2>2. j - 1 = n BY <1>1, <2>1
  <2>3. Rounds(lines)[j] = ParseLine(Rounds(lines)[n], lines[j]) BY <1>1, <2>2, RoundsFacts
  <2>4. LineAdds(Rounds(lines)[n], lines[j], Rounds(lines)[j])
    BY <1>1, <1>3, <2>3, ParseLineFacts
  <2>5. Rounds(lines)[j] \in Seq(Rule) BY <2>4 DEF LineAdds
  <2> QED BY <2>1, <2>5
<1> HIDE DEF S
<1>4. 0..Len(lines) \subseteq S BY <1>1, <1>2, <1>3, UpTo
<1> QED BY <1>4 DEF S

\* A least one of a set of numbers.
LEMMA MinFacts ==
    ASSUME NEW S, S \subseteq Nat, S # {}
    PROVE  Min(S) \in S /\ \A n \in S : Min(S) <= n
<1>1. PICK least \in S : \A other \in S : ~(<<other, least>> \in OpToRel(<, Nat))
  BY NatLessThanWellFounded, WFMin
<1>2. ASSUME NEW n \in S PROVE least <= n
  <2>1. n \in Nat /\ least \in Nat OBVIOUS
  <2>2. ~(n < least) BY <1>1, <2>1 DEF OpToRel
  <2> QED BY <2>1, <2>2
<1> QED BY <1>2 DEF Min

\* A rule that another only adds to: an action, where there was none, and fields.
Keeps(rule, other) ==
    /\ other.service = rule.service
    /\ rule.action # "" => other.action = rule.action
    /\ \A key \in DOMAIN rule.fields :
         key \in DOMAIN other.fields /\ other.fields[key] = rule.fields[key]

\* A policy that another only adds to: rules after the last one, and to that one.
Extends(p, q) ==
    /\ Len(p) <= Len(q)
    /\ \A i \in 1..Len(p) : Keeps(p[i], q[i]) /\ (i # Len(p) => q[i] = p[i])

\* What extends an extension extends the whole.
LEMMA ExtendsTransitive ==
    ASSUME NEW p \in Seq(Rule), NEW q \in Seq(Rule), NEW r \in Seq(Rule),
           Extends(p, q), Extends(q, r)
    PROVE  Extends(p, r)
<1>1. Len(p) \in Nat /\ Len(q) \in Nat /\ Len(r) \in Nat OBVIOUS
<1>2. Len(p) <= Len(q) /\ Len(q) <= Len(r) BY DEF Extends
<1>3. Len(p) <= Len(r) BY <1>1, <1>2
<1>4. ASSUME NEW i \in 1..Len(p)
      PROVE  Keeps(p[i], r[i]) /\ (i # Len(p) => r[i] = p[i])
  <2>1. i \in 1..Len(q) /\ (i = Len(q) => i = Len(p)) BY <1>1, <1>2
  <2>2. Keeps(p[i], q[i]) /\ (i # Len(p) => q[i] = p[i]) BY DEF Extends
  <2>3. Keeps(q[i], r[i]) /\ (i # Len(q) => r[i] = q[i]) BY <2>1 DEF Extends
  <2>4. Keeps(p[i], r[i]) BY <2>2, <2>3 DEF Keeps
  <2> QED BY <2>1, <2>2, <2>3, <2>4
<1> QED BY <1>3, <1>4 DEF Extends

\* Rules can be counted.
LEMMA RulesCounted == \A rules \in Seq(Rule) : Len(rules) \in Nat
  OBVIOUS

\* A number is below itself and the next one.
LEMMA CountedFurther == \A n \in Nat : n <= n /\ n <= n + 1
  OBVIOUS

\* There is nothing in the empty sequence to count.
LEMMA EmptyFacts == Len(<<>>) = 0 /\ 1..0 = {}
  OBVIOUS

\* The last of the rules is one of them.
LEMMA LastRule ==
    ASSUME NEW rules \in Seq(Rule), rules # <<>>
    PROVE  Len(rules) \in 1..Len(rules) /\ rules[Len(rules)] \in Rule
<1>1. Len(rules) \in Nat /\ Len(rules) # 0 OBVIOUS
<1>2. Len(rules) \in 1..Len(rules) BY <1>1
<1> QED BY <1>2

\* A line only adds to the rules, unless it gives one of them another action.
LEMMA LineExtends ==
    ASSUME NEW q \in Seq(Rule), NEW line \in Line,
           line.kind = "action" /\ q # <<>> => q[Len(q)].action = "",
           NEW next, LineAdds(q, line, next)
    PROVE  Extends(q, next)
<1>1. Len(q) \in Nat BY RulesCounted, Zenon
<1>2. next \in Seq(Rule) BY DEF LineAdds
<1>3. Len(q) <= Len(next)
  <2>1. PICK m : m = Len(next) OBVIOUS
  <2>2. m = Len(q) \/ m = Len(q) + 1 BY <2>1 DEF LineAdds
  <2> QED BY <1>1, <2>1, <2>2, CountedFurther, Zenon
<1>4. \A rule : Keeps(rule, rule) BY DEF Keeps
<1>5. CASE line.kind = "service"
  <2>1. \A i \in 1..Len(q) : next[i] = q[i] BY <1>5 DEF LineAdds
  <2> QED BY <1>3, <1>4, <2>1 DEF Extends
<1>6. CASE line.kind = "comment" \/ (line.kind # "service" /\ q = <<>>)
  <2>1. CASE line.kind = "comment"
    <3>1. next = q BY <2>1 DEF LineAdds
    <3> QED BY <1>3, <1>4, <3>1 DEF Extends
  <2>2. CASE q = <<>>
    <3>1. 1..Len(q) = {} BY <2>2
    <3> QED BY <1>3, <3>1 DEF Extends
  <2> QED BY <1>6, <2>1, <2>2
<1>7. CASE line.kind \in {"action", "field"} /\ q # <<>>
  <2>1. Len(q) \in 1..Len(q) /\ q[Len(q)] \in Rule BY <1>7, LastRule
  <2>2. Len(next) = Len(q) /\ \A i \in 1..Len(q) : i # Len(q) => next[i] = q[i]
    BY <1>7 DEF LineAdds
  <2>3. PICK old, new : old = q[Len(q)] /\ new = next[Len(q)] OBVIOUS
  <2>4. Keeps(old, new)
    <3>1. CASE line.kind = "action"
      <4>1. new = [old EXCEPT !.action = line.text]
        BY <1>7, <2>2, <2>3, <3>1 DEF LineAdds
      <4>2. old.action = "" BY <1>7, <2>3, <3>1
      <4>3. old \in Rule BY <2>1, <2>3
      <4>4. new.service = old.service /\ new.fields = old.fields BY <4>1, <4>3 DEF Rule
      <4> QED BY <4>2, <4>4 DEF Keeps
    <3>2. CASE line.kind = "field"
      <4>1. new = [old EXCEPT !.fields = AddField(@, line.key, line.text)]
        BY <1>7, <2>2, <2>3, <3>2 DEF LineAdds
      <4>2. old \in Rule BY <2>1, <2>3
      <4>3. new.service = old.service /\ new.action = old.action BY <4>1, <4>2 DEF Rule
      <4>4. new.fields = AddField(old.fields, line.key, line.text) BY <4>1, <4>2 DEF Rule
      <4>5. \A key \in DOMAIN old.fields :
              key \in DOMAIN new.fields /\ new.fields[key] = old.fields[key]
        BY <4>4 DEF AddField
      <4> QED BY <4>3, <4>5 DEF Keeps
    <3> QED BY <1>7, <3>1, <3>2
  <2>5. ASSUME NEW i \in 1..Len(q)
        PROVE  Keeps(q[i], next[i]) /\ (i # Len(q) => next[i] = q[i])
    <3>1. CASE i = Len(q) BY <2>3, <2>4, <3>1
    <3>2. CASE i # Len(q) BY <1>4, <2>2, <3>2
    <3> QED BY <3>1, <3>2
  <2> QED BY <1>3, <2>5 DEF Extends
<1>8. line.kind \in {"service", "action", "field", "comment"} BY DEF Line
<1> QED BY <1>5, <1>6, <1>7, <1>8

\* Where the last rule has an action after a line, the line gave it the action or
\* is not the line that began it.
LEMMA LineGivesAction ==
    ASSUME NEW q \in Seq(Rule), NEW line \in Line, NEW next, LineAdds(q, line, next),
           next # <<>>, next[Len(next)].action # ""
    PROVE  \/ line.kind = "action"
           \/ line.kind # "service" /\ q # <<>> /\ q[Len(q)].action # ""
<1>1. next \in Seq(Rule) BY DEF LineAdds
<1>2. line.kind # "service"
  <2> SUFFICES ASSUME line.kind = "service" PROVE FALSE OBVIOUS
  <2>1. next[Len(next)] = NewRule(line.text) BY DEF LineAdds
  <2>2. NewRule(line.text).action = "" BY DEF NewRule
  <2> QED BY <2>1, <2>2
<1>3. CASE line.kind = "comment"
  <2>1. next = q BY <1>3 DEF LineAdds
  <2> QED BY <1>2, <2>1
<1>4. CASE line.kind = "field"
  <2>1. Len(next) = Len(q) BY <1>4 DEF LineAdds
  <2>2. q # <<>>
    <3> SUFFICES ASSUME q = <<>> PROVE FALSE OBVIOUS
    <3>1. Len(next) \in 1..Len(next) BY <1>1, LastRule, Zenon
    <3>2. Len(next) = Len(<<>>) BY <2>1, Zenon
    <3>3. Len(<<>>) = 0 /\ 0 \notin 1..0 BY EmptyFacts, Zenon
    <3> QED BY <3>1, <3>2, <3>3, Zenon
  <2>3. PICK old, new : old = q[Len(q)] /\ new = next[Len(next)] OBVIOUS
  <2>4. old \in Rule BY <2>2, <2>3, LastRule
  <2>5. new = [old EXCEPT !.fields = AddField(@, line.key, line.text)]
    BY <1>4, <2>2, <2>3 DEF LineAdds
  <2>6. new.action = old.action BY <2>4, <2>5 DEF Rule
  <2> QED BY <1>4, <2>2, <2>3, <2>6
<1>5. line.kind \in {"service", "action", "field", "comment"} BY DEF Line
<1> QED BY <1>2, <1>3, <1>4, <1>5

\* An action line with no service line after it, up to the n-th.
HasActionLine(lines, n) ==
    \E i \in 1..n : /\ lines[i].kind = "action"
                    /\ \A m \in i..n : lines[m].kind # "service"

\* The last of the rules has an action.
LastHasAction(rules) == rules # <<>> /\ rules[Len(rules)].action # ""

\* A rule that has an action got it from a line of its own.
LEMMA ActionsHaveLines ==
    ASSUME NEW lines \in Seq(Line)
    PROVE  \A n \in 0..Len(lines) :
              LastHasAction(Rounds(lines)[n]) => HasActionLine(lines, n)
<1> DEFINE S == {n \in 0..Len(lines) :
                    LastHasAction(Rounds(lines)[n]) => HasActionLine(lines, n)}
<1>1. Len(lines) \in Nat /\ \A n \in 1..Len(lines) : lines[n] \in Line
  OBVIOUS
<1>2. 0 \in S
  <2>1. Rounds(lines)[0] = <<>> BY <1>1, RoundsFacts
  <2>2. ~LastHasAction(Rounds(lines)[0]) BY <2>1 DEF LastHasAction
  <2> QED BY <1>1, <2>2
<1>3. ASSUME NEW n \in 0..Len(lines), n \in S, n < Len(lines) PROVE n + 1 \in S
  <2>1. PICK j \in 1..Len(lines) : j = n + 1 BY <1>1, <1>3
  <2>2. j - 1 = n BY <1>1, <2>1
  <2>3. PICK rules, next : rules = Rounds(lines)[n] /\ next = Rounds(lines)[j] OBVIOUS
  <2>4. rules \in Seq(Rule) /\ lines[j] \in Line BY <1>1, <2>3, RoundsTyped
  <2>5. next = ParseLine(rules, lines[j]) BY <1>1, <2>2, <2>3, RoundsFacts
  <2>6. LineAdds(rules, lines[j], next) BY <2>4, <2>5, ParseLineFacts
  <2>7. ASSUME LastHasAction(next) PROVE HasActionLine(lines, j)
    <3>1. \/ lines[j].kind = "action"
          \/ lines[j].kind # "service" /\ LastHasAction(rules)
      BY <2>4, <2>6, <2>7, LineGivesAction DEF LastHasAction
    <3>2. CASE lines[j].kind = "action"
      <4>1. j \in 1..j /\ \A m \in j..j : m = j OBVIOUS
      <4>2. \A m \in j..j : lines[m].kind # "service" BY <3>2, <4>1
      <4> QED BY <3>2, <4>1, <4>2 DEF HasActionLine
    <3>3. CASE lines[j].kind # "service" /\ LastHasAction(rules)
      <4>1. PICK i \in 1..n : /\ lines[i].kind = "action"
                              /\ \A m \in i..n : lines[m].kind # "service"
        BY <1>3, <2>3, <3>3 DEF HasActionLine
      <4>2. i \in 1..j BY <1>1, <2>1
      <4>3. ASSUME NEW m \in i..j PROVE lines[m].kind # "service"
        <5>1. m \in i..n \/ m = j BY <1>1, <2>1
        <5> QED BY <3>3, <4>1, <5>1
      <4> QED BY <4>1, <4>2, <4>3 DEF HasActionLine
    <3> QED BY <3>1, <3>2, <3>3
  <2> QED BY <2>1, <2>3, <2>7
<1> HIDE DEF S
<1>4. 0..Len(lines) \subseteq S BY <1>1, <1>2, <1>3, UpTo
<1> QED BY <1>4 DEF S

\* The policy after m lines is extended by the policy after each later one.
LEMMA RoundsExtend ==
    ASSUME NEW lines \in Seq(Line), OneActionPerRule(lines), NEW m \in 0..Len(lines)
    PROVE  Extends(Rounds(lines)[m], Parse(lines))
<1> DEFINE S == {d \in 0..(Len(lines) - m) : Extends(Rounds(lines)[m], Rounds(lines)[m + d])}
<1>1. /\ Len(lines) \in Nat /\ m \in Nat /\ Len(lines) - m \in Nat
      /\ \A n \in 1..Len(lines) : lines[n] \in Line
  OBVIOUS
<1>2. PICK p : p = Rounds(lines)[m] OBVIOUS
<1>3. p \in Seq(Rule) BY <1>2, RoundsTyped
<1>4. 0 \in S
  <2>1. \A rule : Keeps(rule, rule) BY DEF Keeps
  <2>2. Len(p) <= Len(p) BY <1>3
  <2>3. Extends(p, p) BY <2>1, <2>2 DEF Extends
  <2>4. m + 0 = m /\ 0 \in 0..(Len(lines) - m) BY <1>1
  <2> QED BY <1>2, <2>3, <2>4
<1>5. ASSUME NEW d \in 0..(Len(lines) - m), d \in S, d < Len(lines) - m PROVE d + 1 \in S
  <2>1. PICK n \in 0..Len(lines) : n = m + d BY <1>1, <1>5
  <2>2. PICK j \in 1..Len(lines) : j = n + 1 BY <1>1, <1>5, <2>1
  <2>3. j - 1 = n /\ m + (d + 1) = j BY <1>1, <2>1, <2>2
  <2>4. PICK q, next : q = Rounds(lines)[n] /\ next = Rounds(lines)[j] OBVIOUS
  <2>5. q \in Seq(Rule) /\ lines[j] \in Line BY <1>1, <2>4, RoundsTyped
  <2>6. next = ParseLine(q, lines[j]) BY <1>1, <2>3, <2>4, RoundsFacts
  <2>7. LineAdds(q, lines[j], next) BY <2>5, <2>6, ParseLineFacts
  <2>8. ASSUME LastHasAction(q), lines[j].kind = "action" PROVE FALSE
    <3>1. HasActionLine(lines, n) BY <2>4, <2>8, ActionsHaveLines
    <3>2. PICK i \in 1..n : /\ lines[i].kind = "action"
                            /\ \A l \in i..n : lines[l].kind # "service"
      BY <3>1 DEF HasActionLine
    <3>3. i \in 1..Len(lines) /\ i < j BY <1>1, <2>2
    <3>4. PICK l \in i..j : lines[l].kind = "service"
      BY <2>8, <3>2, <3>3 DEF OneActionPerRule
    <3>5. l \in i..n \/ l = j BY <1>1, <2>2
    <3> QED BY <2>8, <3>2, <3>4, <3>5
  <2>9. lines[j].kind = "action" /\ q # <<>> => q[Len(q)].action = ""
    BY <2>8 DEF LastHasAction
  <2>10. Extends(q, next) BY <2>5, <2>7, <2>9, LineExtends
  <2>11. Extends(p, q) BY <1>2, <1>5, <2>1, <2>4
  <2>12. next \in Seq(Rule) BY <2>7 DEF LineAdds
  <2>13. Extends(p, next) BY <1>3, <2>5, <2>10, <2>11, <2>12, ExtendsTransitive
  <2>14. d + 1 \in 0..(Len(lines) - m) BY <1>1, <1>5
  <2> QED BY <1>2, <2>3, <2>4, <2>13, <2>14
<1> HIDE DEF S
<1>6. 0..(Len(lines) - m) \subseteq S BY <1>1, <1>4, <1>5, UpTo
<1>7. Len(lines) - m \in 0..(Len(lines) - m) BY <1>1
<1>8. Len(lines) - m \in S BY <1>6, <1>7
<1>9. m + (Len(lines) - m) = Len(lines) BY <1>1
<1> QED BY <1>8, <1>9 DEF S, Parse

\* What a policy says of a field an extension of it says too.
LEMMA ExtensionSays ==
    ASSUME NEW p \in Seq(Rule), NEW q \in Seq(Rule), Extends(p, q),
           NEW e \in Requests, NEW field
    PROVE  FirstSays(p, e, field) \in {"pass", FirstSays(q, e, field)}
<1>1. CASE Naming(p, e, field) = {}
  BY <1>1 DEF FirstSays
<1>2. CASE Naming(p, e, field) # {}
  <2>1. Len(p) \in Nat /\ Len(q) \in Nat BY RulesCounted, Zenon
  <2>2. Len(p) <= Len(q) BY DEF Extends
  <2>3. Naming(p, e, field) \subseteq 1..Len(p) /\ Naming(q, e, field) \subseteq 1..Len(q)
    BY DEF Naming
  <2>4. Naming(p, e, field) \subseteq Nat /\ Naming(q, e, field) \subseteq Nat
    BY <2>1, <2>3
  <2>5. PICK i : i = Min(Naming(p, e, field)) OBVIOUS
  <2>6. i \in Naming(p, e, field) /\ \A n \in Naming(p, e, field) : i <= n
    BY <1>2, <2>4, <2>5, MinFacts, Zenon
  <2>7. i \in 1..Len(p) BY <2>3, <2>6
  <2>8. Keeps(p[i], q[i]) BY <2>7 DEF Extends
  <2>9. i \in Naming(q, e, field) /\ q[i].fields[field] = p[i].fields[field]
    <3>1. /\ p[i].service \in {"*", e.service} /\ p[i].action \in {"*", e.action}
          /\ field \in DOMAIN p[i].fields
      BY <2>6 DEF Naming
    <3>2. /\ q[i].service = p[i].service /\ q[i].action = p[i].action
          /\ field \in DOMAIN q[i].fields /\ q[i].fields[field] = p[i].fields[field]
      <4>1. e.action # "" BY RedactionAssumption DEF Requests
      <4> QED BY <2>8, <3>1, <4>1 DEF Keeps
    <3>3. i \in 1..Len(q) BY <2>1, <2>2, <2>7
    <3> QED BY <3>1, <3>2, <3>3 DEF Naming
  <2>10. ASSUME NEW n \in Naming(q, e, field), n < i PROVE FALSE
    <3>1. n \in 1..Len(q) BY <2>3
    <3>2. n \in 1..Len(p) /\ n # Len(p) BY <2>1, <2>7, <2>10, <3>1
    <3>3. q[n] = p[n] BY <3>2 DEF Extends
    <3>4. n \in Naming(p, e, field) BY <3>2, <3>3 DEF Naming
    <3>5. i <= n BY <2>6, <3>4
    <3> QED BY <2>1, <2>7, <2>10, <3>1, <3>5
  <2>11. PICK l : l = Min(Naming(q, e, field)) OBVIOUS
  <2>12. l \in Naming(q, e, field) /\ l <= i
    BY <2>4, <2>9, <2>11, MinFacts, Zenon
  <2>13. l = i
    <3>1. l \in Nat /\ i \in Nat /\ ~(l < i) BY <2>4, <2>6, <2>10, <2>12
    <3> QED BY <2>12, <3>1
  <2>14. FirstSays(p, e, field) = p[i].fields[field] BY <1>2, <2>5, Zenon DEF FirstSays
  <2>15. FirstSays(q, e, field) = q[i].fields[field]
    BY <2>9, <2>11, <2>13, Zenon DEF FirstSays
  <2> QED BY <2>9, <2>14, <2>15
<1> QED BY <1>1, <1>2

\* Every policy file is a sequence of lines, and the policy is read from a part of it.
LEMMA LiveIsPart ==
    ASSUME live \in Files
    PROVE  live.doc \in Seq(Line) /\ live.lines \in 0..Len(live.doc)
<1>1. PICK doc \in Documents \cup {<<>>} : live \in Version(doc) BY DEF Files
<1>2. live.doc = doc /\ live.lines \in 0..Len(doc) BY <1>1 DEF Version
<1>3. doc \in Seq(Line)
  <2>1. \A d : d = <<>> => d \in Seq(Line) OBVIOUS
  <2> QED BY <2>1, DocumentsAssumption
<1> QED BY <1>2, <1>3

\* A policy read while the file was being written (Reload's LoadFile takes no lock
\* that a writer would) leaves keys in clear, but treats none in another way than
\* the whole file does, provided no rule of the file has two action lines.
THEOREM HalfWrittenRedactsLessInvariance == RedactionSpec => []HalfWrittenRedactsLess
<1>1. RedactionTypeOK => HalfWrittenRedactsLess
  <2> SUFFICES ASSUME live \in Files, OneActionPerRule(live.doc),
                      NEW e \in Requests, NEW k \in Keys
               PROVE  Decision(LivePolicy, e, k) \in {"pass", Decision(Parse(live.doc), e, k)}
    BY DEF RedactionTypeOK, HalfWrittenRedactsLess
  <2>1. PICK lines, m : lines = live.doc /\ m = live.lines OBVIOUS
  <2>2. lines \in Seq(Line) /\ m \in 0..Len(lines) BY <2>1, LiveIsPart
  <2>3. LivePolicy = Rounds(lines)[m] BY <2>1, <2>2, RoundsOfPart DEF LivePolicy, Text
  <2>4. Len(lines) \in Nat BY <2>2
  <2>5. Len(lines) \in 0..Len(lines) BY <2>4
  <2>6. LivePolicy \in Seq(Rule) /\ Parse(lines) \in Seq(Rule)
    BY <2>2, <2>3, <2>5, RoundsTyped DEF Parse
  <2>7. Extends(LivePolicy, Parse(lines)) BY <2>1, <2>2, <2>3, RoundsExtend
  <2>8. FirstSays(LivePolicy, e, Lower[k]) \in {"pass", FirstSays(Parse(lines), e, Lower[k])}
    BY <2>6, <2>7, ExtensionSays
  <2> QED BY <2>1, <2>8 DEF Decision
<1> QED BY <1>1, RedactionTypeInvariance, PTL

\* Two rules that say the same of every field but those not in lower case.
Alike(rule, other) ==
    /\ other.service = rule.service /\ other.action = rule.action
    /\ \A key \in Keys : Lower[key] = key =>
          /\ key \in DOMAIN other.fields <=> key \in DOMAIN rule.fields
          /\ key \in DOMAIN rule.fields => other.fields[key] = rule.fields[key]
AllAlike(p, q) == Len(q) = Len(p) /\ \A i \in 1..Len(p) : Alike(p[i], q[i])

\* A line of a rule adds to its last rule alone.
LEMMA LineAddsToLast ==
    ASSUME NEW q \in Seq(Rule), q # <<>>, NEW line \in Line, line.kind # "service",
           NEW next, LineAdds(q, line, next)
    PROVE  /\ Len(next) = Len(q) /\ Len(q) \in 1..Len(q) /\ q[Len(q)] \in Rule
           /\ \A i \in 1..Len(q) : i # Len(q) => next[i] = q[i]
           /\ line.kind = "comment" => next[Len(q)] = q[Len(q)]
           /\ line.kind = "action" =>
                next[Len(q)] = [q[Len(q)] EXCEPT !.action = line.text]
           /\ line.kind = "field" =>
                next[Len(q)] = [q[Len(q)] EXCEPT !.fields = AddField(@, line.key, line.text)]
<1>1. Len(q) \in 1..Len(q) /\ q[Len(q)] \in Rule BY LastRule
<1>2. Len(next) = Len(q) BY DEF LineAdds
<1> QED BY <1>1, <1>2 DEF LineAdds

\* Where there is no rule yet, a line that begins none leaves it so.
LEMMA LineAddsToNothing ==
    ASSUME NEW q \in Seq(Rule), q = <<>>, NEW line \in Line, line.kind # "service",
           NEW next, LineAdds(q, line, next)
    PROVE  Len(next) = 0
<1>1. Len(next) = Len(q) BY DEF LineAdds
<1> QED BY <1>1, EmptyFacts, Zenon

\* Lines that say the same of all but those fields keep rules alike.
LEMMA LineAlike ==
    ASSUME NEW p \in Seq(Rule), NEW q \in Seq(Rule), AllAlike(p, q),
           NEW line \in Line, NEW other \in Line,
           IsNamedInLowerCase(line) => other = line,
           ~IsNamedInLowerCase(line) => other = [kind |-> "comment"],
           NEW next, LineAdds(p, line, next), NEW nextOther, LineAdds(q, other, nextOther)
    PROVE  AllAlike(next, nextOther)
<1>1. line.kind \in {"service", "action", "field", "comment"} BY DEF Line
<1>2. CASE line.kind = "service"
  <2>1. other = line BY <1>2 DEF IsNamedInLowerCase
  <2>2. PICK new : new = NewRule(line.text) OBVIOUS
  <2>3. /\ Len(next) = Len(p) + 1 /\ next[Len(next)] = new
        /\ \A i \in 1..Len(p) : next[i] = p[i]
    BY <1>2, <2>2 DEF LineAdds
  <2>4. /\ Len(nextOther) = Len(q) + 1 /\ nextOther[Len(nextOther)] = new
        /\ \A i \in 1..Len(q) : nextOther[i] = q[i]
    BY <1>2, <2>1, <2>2 DEF LineAdds
  <2>5. Len(q) = Len(p) /\ \A i \in 1..Len(p) : Alike(p[i], q[i]) BY DEF AllAlike
  <2>6. Alike(new, new) BY DEF Alike
  <2>7. \A n \in Nat : \A i \in 1..(n + 1) : i \in 1..n \/ i = n + 1 OBVIOUS
  <2>8. Len(p) \in Nat BY RulesCounted, Zenon
  <2>9. ASSUME NEW i \in 1..Len(next) PROVE Alike(next[i], nextOther[i])
    <3>1. i \in 1..Len(p) \/ i = Len(next) BY <2>3, <2>7, <2>8, Zenon
    <3>2. CASE i \in 1..Len(p) BY <2>3, <2>4, <2>5, <3>2, Zenon
    <3>3. CASE i = Len(next) BY <2>3, <2>4, <2>5, <2>6, <3>3, Zenon
    <3> QED BY <3>1, <3>2, <3>3
  <2> QED BY <2>3, <2>4, <2>5, <2>9, Zenon DEF AllAlike
<1>3. ASSUME line.kind # "service" PROVE other.kind # "service"
  BY <1>3
<1>4. CASE line.kind # "service" /\ p = <<>>
  <2>1. Len(q) = Len(p) BY DEF AllAlike
  <2>2. q = <<>>
    <3> SUFFICES ASSUME q # <<>> PROVE FALSE OBVIOUS
    <3>1. Len(q) \in 1..Len(q) BY LastRule, Zenon
    <3>2. Len(q) = 0 BY <1>4, <2>1, EmptyFacts, Zenon
    <3> QED BY <3>1, <3>2, EmptyFacts, Zenon
  <2>3. Len(next) = 0 /\ Len(nextOther) = 0 BY <1>3, <1>4, <2>2, LineAddsToNothing
  <2> QED BY <2>3, EmptyFacts, Zenon DEF AllAlike
<1>5. CASE line.kind # "service" /\ p # <<>>
  <2>1. Len(q) = Len(p) /\ \A i \in 1..Len(p) : Alike(p[i], q[i]) BY DEF AllAlike
  <2>2. PICK n : n = Len(p) OBVIOUS
  <2>3. q # <<>>
    <3> SUFFICES ASSUME q = <<>> PROVE FALSE OBVIOUS
    <3>1. Len(p) \in 1..Len(p) BY <1>5, LastRule, Zenon
    <3>2. Len(p) = 0 BY <2>1, EmptyFacts, Zenon
    <3> QED BY <3>1, <3>2, EmptyFacts, Zenon
  <2>4. PICK a, b, c, d : /\ a = p[n] /\ b = q[n]
                          /\ c = next[n] /\ d = nextOther[n]
    OBVIOUS
  <2>5. /\ Len(next) = n /\ n \in 1..n /\ a \in Rule
        /\ \A i \in 1..n : i # n => next[i] = p[i]
        /\ line.kind = "comment" => c = a
        /\ line.kind = "action" => c = [a EXCEPT !.action = line.text]
        /\ line.kind = "field" => c = [a EXCEPT !.fields = AddField(@, line.key, line.text)]
    BY <1>5, <2>2, <2>4, LineAddsToLast
  <2>6. /\ Len(nextOther) = n /\ b \in Rule
        /\ \A i \in 1..n : i # n => nextOther[i] = q[i]
        /\ other.kind = "comment" => d = b
        /\ other.kind = "action" => d = [b EXCEPT !.action = other.text]
        /\ other.kind = "field" => d = [b EXCEPT !.fields = AddField(@, other.key, other.text)]
    <3>1. other.kind # "service" BY <1>3, <1>5
    <3>2. n = Len(q) BY <2>1, <2>2, Zenon
    <3> QED BY <2>3, <2>4, <3>1, <3>2, LineAddsToLast
  <2>7. Alike(a, b) BY <2>1, <2>2, <2>4, <2>5
  <2>8. Alike(c, d)
    <3>1. CASE line.kind = "comment"
      <4>1. other = line BY <3>1 DEF IsNamedInLowerCase
      <4> QED BY <2>5, <2>6, <2>7, <3>1, <4>1, Zenon
    <3>2. CASE line.kind = "action"
      <4>1. other = line BY <3>2 DEF IsNamedInLowerCase
      <4>2. PICK text : text = line.text OBVIOUS
      <4>3. c = [a EXCEPT !.action = text] /\ d = [b EXCEPT !.action = text]
        BY <2>5, <2>6, <3>2, <4>1, <4>2, Zenon
      <4>4. c.service = a.service /\ c.action = text /\ c.fields = a.fields
        BY <2>5, <4>3 DEF Rule
      <4>5. d.service = b.service /\ d.action = text /\ d.fields = b.fields
        BY <2>6, <4>3 DEF Rule
      <4> QED BY <2>7, <4>4, <4>5 DEF Alike
    <3>3. CASE line.kind = "field"
      <4>1. PICK key, text : key = line.key /\ text = line.text OBVIOUS
      <4>2. c = [a EXCEPT !.fields = AddField(@, key, text)] BY <2>5, <3>3, <4>1, Zenon
      <4>3. /\ c.service = a.service /\ c.action = a.action
            /\ c.fields = AddField(a.fields, key, text)
        BY <2>5, <4>2 DEF Rule
      <4>4. CASE Lower[key] = key
        <5>1. other = line BY <4>1, <4>4 DEF IsNamedInLowerCase
        <5>2. d = [b EXCEPT !.fields = AddField(@, key, text)]
          BY <2>6, <3>3, <4>1, <5>1, Zenon
        <5>3. /\ d.service = b.service /\ d.action = b.action
              /\ d.fields = AddField(b.fields, key, text)
          BY <2>6, <5>2 DEF Rule
        <5> QED BY <2>7, <4>3, <5>3 DEF Alike, AddField
      <4>5. CASE Lower[key] # key
        <5>1. other.kind = "comment" BY <3>3, <4>1, <4>5 DEF IsNamedInLowerCase
        <5>2. d = b BY <2>6, <5>1
        <5>3. ASSUME NEW name \in Keys, Lower[name] = name
              PROVE  /\ name \in DOMAIN c.fields <=> name \in DOMAIN a.fields
                     /\ name \in DOMAIN a.fields => c.fields[name] = a.fields[name]
          <6>1. name # key BY <4>5, <5>3
          <6> QED BY <4>3, <6>1 DEF AddField
        <5> QED BY <2>7, <4>3, <5>2, <5>3 DEF Alike
      <4> QED BY <4>4, <4>5
    <3> QED BY <1>1, <1>5, <3>1, <3>2, <3>3
  <2>9. ASSUME NEW i \in 1..n PROVE Alike(next[i], nextOther[i])
    <3>1. CASE i = n BY <2>4, <2>8, <3>1
    <3>2. CASE i # n BY <2>1, <2>2, <2>5, <2>6, <3>2, Zenon
    <3> QED BY <3>1, <3>2
  <2> QED BY <2>5, <2>6, <2>9, Zenon DEF AllAlike
<1> QED BY <1>1, <1>2, <1>4, <1>5

\* The lines of a file and those of what is left of it are read into rules alike.
LEMMA RoundsAlike ==
    ASSUME NEW lines \in Seq(Line)
    PROVE  AllAlike(Parse(lines), Parse(CommentedOut(lines)))
<1> DEFINE rest == CommentedOut(lines)
           S == {n \in 0..Len(lines) : AllAlike(Rounds(lines)[n], Rounds(rest)[n])}
<1>1. /\ Len(lines) \in Nat /\ \A n \in 1..Len(lines) : lines[n] \in Line
  OBVIOUS
<1>2. PICK comment : comment = [kind |-> "comment"] OBVIOUS
<1>3. comment \in Line BY <1>2 DEF Line
<1>4. /\ rest \in Seq(Line) /\ Len(rest) = Len(lines)
      /\ \A n \in 1..Len(lines) :
            rest[n] = IF IsNamedInLowerCase(lines[n]) THEN lines[n] ELSE comment
  <2> DEFINE line(n) == IF IsNamedInLowerCase(lines[n]) THEN lines[n] ELSE comment
  <2>1. rest = [n \in 1..Len(lines) |-> line(n)] BY <1>2 DEF CommentedOut
  <2>2. \A n \in 1..Len(lines) : line(n) \in Line BY <1>1, <1>3
  <2> HIDE DEF rest, line
  <2>3. rest \in Seq(Line) /\ Len(rest) = Len(lines) /\ \A n \in 1..Len(lines) : rest[n] = line(n)
    BY <1>1, <2>1, <2>2
  <2> QED BY <2>3 DEF line
<1> HIDE DEF rest
<1>5. 0 \in S
  <2>1. Rounds(lines)[0] = <<>> /\ Rounds(rest)[0] = <<>> BY <1>1, <1>4, RoundsFacts
  <2>2. AllAlike(<<>>, <<>>) BY EmptyFacts, Zenon DEF AllAlike
  <2>3. 0 \in 0..Len(lines) BY <1>1
  <2> QED BY <2>1, <2>2, <2>3
<1>6. ASSUME NEW n \in 0..Len(lines), n \in S, n < Len(lines) PROVE n + 1 \in S
  <2>1. PICK j \in 1..Len(lines) : j = n + 1 BY <1>1, <1>6
  <2>2. j - 1 = n BY <1>1, <2>1
  <2>3. PICK p, next : p = Rounds(lines)[n] /\ next = Rounds(lines)[j] OBVIOUS
  <2>4. PICK q, nextRest : q = Rounds(rest)[n] /\ nextRest = Rounds(rest)[j] OBVIOUS
  <2>5. p \in Seq(Rule) /\ lines[j] \in Line BY <1>1, <2>3, RoundsTyped
  <2>6. q \in Seq(Rule) /\ rest[j] \in Line
    <3>1. j \in 1..Len(rest) /\ n \in 0..Len(rest) BY <1>4
    <3> QED BY <1>4, <2>4, <3>1, RoundsTyped
  <2>7. next = ParseLine(p, lines[j]) BY <1>1, <2>2, <2>3, RoundsFacts
  <2>8. nextRest = ParseLine(q, rest[j]) BY <1>1, <1>4, <2>2, <2>4, RoundsFacts
  <2>9. LineAdds(p, lines[j], next) BY <2>5, <2>7, ParseLineFacts
  <2>10. LineAdds(q, rest[j], nextRest) BY <2>6, <2>8, ParseLineFacts
  <2>11. AllAlike(p, q) BY <1>6, <2>3, <2>4
  <2>12. /\ IsNamedInLowerCase(lines[j]) => rest[j] = lines[j]
         /\ ~IsNamedInLowerCase(lines[j]) => rest[j] = [kind |-> "comment"]
    BY <1>2, <1>4
  <2>13. AllAlike(next, nextRest)
    BY <2>5, <2>6, <2>9, <2>10, <2>11, <2>12, LineAlike
  <2> QED BY <2>1, <2>3, <2>4, <2>13
<1> HIDE DEF S
<1>7. 0..Len(lines) \subseteq S BY <1>1, <1>5, <1>6, UpTo
<1>8. Len(lines) \in 0..Len(lines) BY <1>1
<1>9. Len(lines) \in S BY <1>7, <1>8
<1> QED BY <1>4, <1>9 DEF S, rest, Parse

\* Policies alike say the same of a field in lower case.
LEMMA AlikeSay ==
    ASSUME NEW p, NEW q, AllAlike(p, q), NEW e, NEW field \in Keys, Lower[field] = field,
           p \in Seq(Rule)
    PROVE  FirstSays(p, e, field) = FirstSays(q, e, field)
<1>1. Len(q) = Len(p) /\ \A i \in 1..Len(p) : Alike(p[i], q[i]) BY DEF AllAlike
<1>2. Naming(p, e, field) = Naming(q, e, field)
  BY <1>1 DEF Naming, Alike
<1>3. CASE Naming(p, e, field) = {}
  BY <1>2, <1>3 DEF FirstSays
<1>4. CASE Naming(p, e, field) # {}
  <2>1. PICK i : i = Min(Naming(p, e, field)) OBVIOUS
  <2>2. Naming(p, e, field) \subseteq 1..Len(p) BY DEF Naming
  <2>3. Len(p) \in Nat BY RulesCounted, Zenon
  <2>4. Naming(p, e, field) \subseteq Nat BY <2>2, <2>3
  <2>5. i \in Naming(p, e, field) BY <1>4, <2>1, <2>4, MinFacts, Zenon
  <2>6. i \in 1..Len(p) /\ field \in DOMAIN p[i].fields BY <2>5 DEF Naming
  <2>7. q[i].fields[field] = p[i].fields[field] BY <1>1, <2>6 DEF Alike
  <2>8. FirstSays(p, e, field) = p[i].fields[field] BY <1>4, <2>1, Zenon DEF FirstSays
  <2>9. FirstSays(q, e, field) = q[i].fields[field]
    BY <1>2, <1>4, <2>1, Zenon DEF FirstSays
  <2> QED BY <2>7, <2>8, <2>9
<1> QED BY <1>3, <1>4

\* Redaction looks a key up in lower case: neither the spelling of a key of the
\* payload nor a line of the policy that spells its field otherwise has an effect.
THEOREM OnlyLowerCaseNamesCountInvariance == RedactionSpec => []OnlyLowerCaseNamesCount
<1>1. RedactionTypeOK => OnlyLowerCaseNamesCount
  <2> SUFFICES ASSUME live \in Files, NEW e \in Requests, NEW k \in Keys
               PROVE  /\ Decision(LivePolicy, e, k) = Decision(LivePolicy, e, Lower[k])
                      /\ Decision(LivePolicy, e, k)
                           = Decision(Parse(CommentedOut(Text(live))), e, k)
    BY DEF RedactionTypeOK, OnlyLowerCaseNamesCount
  <2>1. Lower[k] \in Keys /\ Lower[Lower[k]] = Lower[k] BY RedactionAssumption
  <2>2. PICK text : text = Text(live) OBVIOUS
  <2>3. text \in Seq(Line)
    <3>1. live.doc \in Seq(Line) /\ live.lines \in 0..Len(live.doc) BY LiveIsPart
    <3>2. PICK doc, m : doc = live.doc /\ m = live.lines OBVIOUS
    <3>3. text = SubSeq(doc, 1, m) /\ doc \in Seq(Line) /\ m \in 0..Len(doc)
      BY <2>2, <3>1, <3>2 DEF Text
    <3>4. \A d \in Seq(Line) : \A l \in 0..Len(d) : SubSeq(d, 1, l) \in Seq(Line)
      OBVIOUS
    <3> QED BY <3>3, <3>4, Zenon
  <2>4. PICK p, q : p = Parse(text) /\ q = Parse(CommentedOut(text)) OBVIOUS
  <2>5. AllAlike(p, q) BY <2>3, <2>4, RoundsAlike
  <2>6. p \in Seq(Rule)
    <3>1. Len(text) \in Nat BY <2>3
    <3>2. Len(text) \in 0..Len(text) BY <3>1
    <3> QED BY <2>3, <2>4, <3>2, RoundsTyped DEF Parse
  <2>7. FirstSays(p, e, Lower[k]) = FirstSays(q, e, Lower[k])
    BY <2>1, <2>5, <2>6, AlikeSay, Zenon
  <2>8. Decision(p, e, k) = Decision(p, e, Lower[k]) BY <2>1, Zenon DEF Decision
  <2>9. Decision(p, e, k) = Decision(q, e, k) BY <2>7, Zenon DEF Decision
  <2> QED BY <2>2, <2>4, <2>8, <2>9, Zenon DEF LivePolicy
<1> QED BY <1>1, RedactionTypeInvariance, PTL

================================================================================
