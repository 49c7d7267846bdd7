----------------------------- MODULE ExportProofs -----------------------------
(***************************************************************************)
(* What an export contains and what its job's row says of it, for any log, *)
(* pages of any size, any filter and any number of runs of a job at once.  *)
(* The argument follows a run: until its list ends, every matching row of  *)
(* the log it began with is listed or after its cursor; from then on what  *)
(* it signs, puts and records is computed from the same list.              *)
(***************************************************************************)
EXTENDS ExportJobs, EventStoreProofs

-------------------------------------------------------------------------------
(* The inductive invariant.                                                *)

Run == [phase : {"list", "sign", "put", "record", "fail"}, job : Exports,
        seen : SUBSET Row, since : SUBSET Row, anchor : ExportAnchor \cup {NoAnchor}]

Version == [job : Exports, since : SUBSET Row, rows : SUBSET Row, result : Result]

\* The table is that of a store, and finite.
LogOK == SpineInv /\ IsFiniteSet(events)

\* What the variables hold; runs and versions are of jobs that exist, and of rows
\* that are in the log.
ExportShape ==
    /\ jobs \in [Exports -> Job \cup {NoJob}]
    /\ runs \in [Runners -> Run \cup {Idle}]
    /\ exported \subseteq ExportAnchor
    /\ artifacts \subseteq Version
    /\ setup \in [uuids : BOOLEAN, retaining : BOOLEAN]
    /\ started \in 0..MaxRuns
    /\ \A r \in Runners : runs[r] # Idle =>
         jobs[runs[r].job] # NoJob /\ runs[r].seen \cup runs[r].since \subseteq events
    /\ \A a \in artifacts : jobs[a.job] # NoJob /\ a.rows \cup a.since \subseteq events

\* The rows that were selected when the run began are listed or after its cursor,
\* and listed once the list has ended.
Listed(run, query, rows) ==
    LET since == Matching(query, run.since)
    IN  /\ run.seen \subseteq Matching(query, rows)
        /\ run.phase = "list" =>
             \A row \in since :
               row \in run.seen \/ run.seen = {} \/ Before(LastRow(run.seen), row)
        /\ run.phase \in {"sign", "put", "record"} => since \subseteq run.seen

\* A run's anchor signs the root of what it listed; there is none before the list
\* has ended, and never one on PostgreSQL.
Signed(run, uuids, known) ==
    run.anchor # NoAnchor =>
        /\ ~uuids /\ run.phase \notin {"list", "sign"}
        /\ run.anchor \in known
        /\ run.anchor.root = ExportRoot(run.seen)

\* What is about to be recorded was put.
WasPut(run, versions) == run.phase = "record" => Artifact(run) \in versions

RunsOK ==
    \A r \in Runners : runs[r] # Idle =>
        /\ Listed(runs[r], jobs[runs[r].job].query, events)
        /\ Signed(runs[r], setup.uuids, exported)
        /\ WasPut(runs[r], artifacts)

\* What was put: all that matched, and the root of it.
ArtifactsOK ==
    \A a \in artifacts :
        /\ Matching(jobs[a.job].query, a.since) \subseteq a.rows
        /\ a.result.root = ExportRoot(a.rows)

\* What was recorded.
JobsOK ==
    \A j \in Exports : jobs[j] # NoJob =>
        /\ setup.uuids => jobs[j].status = "PENDING"
        /\ jobs[j].status = "COMPLETE" =>
             /\ \E a \in artifacts : a.job = j /\ a.result = jobs[j].result
             /\ jobs[j].result.anchor # NoAnchor =>
                  /\ jobs[j].result.anchor \in exported
                  /\ jobs[j].result.anchor.root = jobs[j].result.root

ExportInv == LogOK /\ ExportShape /\ RunsOK /\ ArtifactsOK /\ JobsOK

-------------------------------------------------------------------------------
(* Lists of rows and their roots.                                          *)

\* Rows of the log are finite in number and of distinct ids, and what is signed of
\* them is a digest and a count.
LEMMA ListFacts ==
    ASSUME LogOK, NEW rows, rows \subseteq events
    PROVE  /\ rows \subseteq Row /\ Distinct(rows) /\ IsFiniteSet(rows)
           /\ Cardinality(rows) \in Nat /\ ExportRoot(rows) \in Digest
<1>1. rows \subseteq Row /\ Distinct(rows) /\ IsFiniteSet(rows) /\ Cardinality(rows) \in Nat
  BY FS_Subset, FS_CardinalityType DEF LogOK, SpineInv, TypeOK, OneRowPerId, Distinct
<1>2. HashAfter(rows) \in Digest
  <2>1. CASE rows = {} BY <2>1 DEF HashAfter, ZeroHash, Digest
  <2>2. CASE rows # {}
    <3>1. PICK row \in rows : IsLastRow(row, rows) BY <1>1, <2>2, LastExists
    <3> QED BY <1>1, <3>1, LastRowUnique, RowFacts
  <2> QED BY <2>1, <2>2
<1>3. ExportRoot(rows) \in Digest
  BY <1>2 DEF ExportRoot, ZeroHash, Digest
<1> QED BY <1>1, <1>3

\* A root that is not zero is the digest of a chain, which commits to every row.
LEMMA RootCovers ==
    ASSUME LogOK, NEW rows, rows \subseteq events, ExportRoot(rows) # ZeroHash, NEW row \in rows
    PROVE  ContentOf(row) \in ToSet(ExportRoot(rows))
<1>1. rows \subseteq Row /\ Distinct(rows) /\ IsFiniteSet(rows) BY ListFacts
<1>2. ChainStatus(rows) = "ok" /\ ExportRoot(rows) = HashAfter(rows) BY DEF ExportRoot
<1>3. PICK last \in rows : IsLastRow(last, rows) BY <1>1, LastExists
<1>4. ExportRoot(rows) = last.this BY <1>1, <1>2, <1>3, LastRowUnique
<1>5. /\ row.this = EventHash(row) /\ last.this = EventHash(last)
      /\ row = last \/ CommitsTo(last.this, row.this)
  BY <1>1, <1>2, <1>3, AcceptedWalkIsChain DEF IsLastRow
<1>6. /\ row.this \in Digest /\ last.this \in Digest
      /\ Len(row.prev) \in Nat /\ Len(row.this) = Len(row.prev) + 1
      /\ row.this[Len(row.this)] = ContentOf(row)
  BY <1>1, <1>5, SoundRow
<1>7. CommitsTo(last.this, row.this) BY <1>5, <1>6, CommitsReflexive
<1>8. /\ Len(row.this) \in 1..Len(last.this)
      /\ last.this[Len(row.this)] = ContentOf(row)
  BY <1>6, <1>7, CommitsReflexive DEF CommitsTo
<1>9. DOMAIN last.this = 1..Len(last.this) BY <1>6 DEF Digest
<1> QED BY <1>4, <1>8, <1>9 DEF ToSet

-------------------------------------------------------------------------------
(* The steps.                                                              *)

\* Deliveries only add rows, so what a run and an artifact know stays true.
LEMMA DeliverKeeps ==
    ASSUME ExportInv, NEW c \in Content, Deliver(c)
    PROVE  ExportInv'
<1> USE DEF ExportInv
<1>1. UNCHANGED <<jobs, runs, exported, artifacts, setup, started>> /\ InsertChained(c)
  BY DEF Deliver
<1>2. LogOK' /\ events \subseteq events'
  <2>1. CASE UNCHANGED events BY <2>1, SpineStays DEF LogOK
  <2>2. CASE ~Stored(c.id) /\ events' = events \cup {Chained(c, HeadHash)}
    BY <2>2, InsertPreserves, FS_AddElement DEF LogOK
  <2> QED BY <1>1, <2>1, <2>2 DEF InsertChained
<1>3. ExportShape'
  BY <1>1, <1>2 DEF ExportShape
<1>4. RunsOK'
  BY <1>1, <1>2 DEF RunsOK, Listed, Matching, Signed, WasPut, Before
<1>5. ArtifactsOK' /\ JobsOK'
  BY <1>1 DEF ArtifactsOK, JobsOK, Matching
<1> QED BY <1>2, <1>3, <1>4, <1>5

\* A run that is under way, and what is known of it.
LEMMA RunFacts ==
    ASSUME ExportInv, NEW r \in Runners, runs[r] # Idle
    PROVE  /\ runs[r] \in Run /\ runs[r].job \in Exports
           /\ jobs[runs[r].job] \in Job
           /\ runs[r].seen \subseteq events /\ runs[r].since \subseteq events
           /\ Listed(runs[r], jobs[runs[r].job].query, events)
           /\ Signed(runs[r], setup.uuids, exported)
           /\ WasPut(runs[r], artifacts)
           /\ ResultOf(runs[r]) \in Result /\ Artifact(runs[r]) \in Version
<1>1. /\ runs[r] \in Run /\ runs[r].job \in Exports
      /\ jobs[runs[r].job] \in Job
      /\ runs[r].seen \subseteq events /\ runs[r].since \subseteq events
  BY DEF ExportInv, ExportShape, Run
<1>2. /\ Listed(runs[r], jobs[runs[r].job].query, events)
      /\ Signed(runs[r], setup.uuids, exported)
      /\ WasPut(runs[r], artifacts)
  BY DEF ExportInv, RunsOK
<1>3. ResultOf(runs[r]) \in Result
  <2>1. Cardinality(runs[r].seen) \in Nat /\ ExportRoot(runs[r].seen) \in Digest
    BY <1>1, ListFacts DEF ExportInv
  <2>2. runs[r].anchor \in ExportAnchor \cup {NoAnchor} BY <1>1 DEF Run
  <2> QED BY <2>1, <2>2 DEF ResultOf, Result
<1>4. Artifact(runs[r]) \in Version
  BY <1>1, <1>3 DEF Artifact, Version, Run
<1> QED BY <1>1, <1>2, <1>3, <1>4

\* A step of one run: what it says of the other runs, of the jobs and of what was
\* put before stays true.
LEMMA OneRunKeeps ==
    ASSUME ExportInv, NEW r \in Runners, NEW new,
           UNCHANGED <<events, jobs, setup>>, started' \in 0..MaxRuns,
           exported \subseteq exported', exported' \subseteq ExportAnchor,
           artifacts' \in {artifacts, artifacts \cup {Artifact(runs[r])}},
           artifacts' # artifacts => runs[r] # Idle /\ runs[r].phase = "put",
           runs' = [runs EXCEPT ![r] = new],
           \/ new = Idle
           \/ /\ new \in Run /\ new # Idle
              /\ jobs[new.job] # NoJob /\ new.seen \cup new.since \subseteq events
              /\ Listed(new, jobs[new.job].query, events)
              /\ Signed(new, setup.uuids, exported')
              /\ WasPut(new, artifacts')
    PROVE  ExportInv'
<1> USE DEF ExportInv
<1>1. artifacts \subseteq artifacts' OBVIOUS
<1>2. ASSUME NEW a \in artifacts', a \notin artifacts
      PROVE  /\ a \in Version /\ jobs[a.job] # NoJob /\ a.rows \cup a.since \subseteq events
             /\ Matching(jobs[a.job].query, a.since) \subseteq a.rows
             /\ a.result.root = ExportRoot(a.rows)
  <2>1. a = Artifact(runs[r]) /\ runs[r] # Idle /\ runs[r].phase = "put" BY <1>2
  <2>2. /\ a \in Version /\ runs[r].seen \subseteq events /\ runs[r].since \subseteq events
        /\ Listed(runs[r], jobs[runs[r].job].query, events)
        /\ jobs[runs[r].job] \in Job
    BY <2>1, RunFacts
  <2>3. /\ a.job = runs[r].job /\ a.rows = runs[r].seen /\ a.since = runs[r].since
        /\ a.result.root = ExportRoot(runs[r].seen)
    BY <2>1 DEF Artifact, ResultOf
  <2> QED BY <2>1, <2>2, <2>3, NoJobAssumption DEF Listed
<1>3. LogOK' BY SpineStays DEF LogOK
<1>4. runs' \in [Runners -> Run \cup {Idle}] BY DEF ExportShape
<1>5. ExportShape'
  <2>1. artifacts' \subseteq Version BY <1>2 DEF ExportShape
  <2>2. \A a \in artifacts' : jobs'[a.job] # NoJob /\ a.rows \cup a.since \subseteq events'
    BY <1>2 DEF ExportShape
  <2>3. ASSUME NEW q \in Runners, runs'[q] # Idle
        PROVE  jobs'[runs'[q].job] # NoJob /\ runs'[q].seen \cup runs'[q].since \subseteq events'
    <3>1. CASE q = r BY <2>3, <3>1 DEF ExportShape
    <3>2. CASE q # r BY <2>3, <3>2 DEF ExportShape
    <3> QED BY <3>1, <3>2
  <2> QED BY <1>4, <2>1, <2>2, <2>3 DEF ExportShape
<1>6. RunsOK'
  <2> SUFFICES ASSUME NEW q \in Runners, runs'[q] # Idle
               PROVE  /\ Listed(runs'[q], jobs'[runs'[q].job].query, events')
                      /\ Signed(runs'[q], setup'.uuids, exported')
                      /\ WasPut(runs'[q], artifacts')
    BY DEF RunsOK
  <2>1. CASE q = r
    <3>1. runs'[q] = new BY <2>1 DEF ExportShape
    <3> QED BY <3>1
  <2>2. CASE q # r
    <3>1. runs'[q] = runs[q] BY <2>2 DEF ExportShape
    <3>2. /\ Listed(runs[q], jobs[runs[q].job].query, events)
          /\ Signed(runs[q], setup.uuids, exported)
          /\ WasPut(runs[q], artifacts)
      BY <3>1 DEF RunsOK
    <3>3. Signed(runs[q], setup.uuids, exported') BY <3>2 DEF Signed
    <3>4. WasPut(runs[q], artifacts') BY <1>1, <3>2 DEF WasPut
    <3> QED BY <3>1, <3>2, <3>3, <3>4
  <2> QED BY <2>1, <2>2
<1>7. ArtifactsOK' BY <1>2 DEF ArtifactsOK
<1>8. JobsOK' BY <1>1 DEF JobsOK
<1> QED BY <1>3, <1>5, <1>6, <1>7, <1>8

\* A run begins with an empty list, ahead of which is all that matches.
LEMMA StartKeeps ==
    ASSUME ExportInv, NEW r \in Runners, NEW j \in Exports, StartRun(r, j)
    PROVE  ExportInv'
<1> DEFINE new == [phase |-> "list", job |-> j, seen |-> {}, since |-> events, anchor |-> NoAnchor]
<1>1. /\ UNCHANGED <<events, jobs, exported, artifacts, setup>> /\ jobs[j] # NoJob
      /\ started' = started + 1 /\ started < MaxRuns /\ runs' = [runs EXCEPT ![r] = new]
  BY DEF StartRun
<1>2. started' \in 0..MaxRuns /\ exported \subseteq ExportAnchor
  BY <1>1, ExportAssumption DEF ExportInv, ExportShape
<1>3. new \in Run /\ new.phase # Idle.phase
  BY DEF Run, ExportInv, LogOK, SpineInv, TypeOK, Idle
<1>4. /\ Listed(new, jobs[new.job].query, events)
      /\ Signed(new, setup.uuids, exported')
      /\ WasPut(new, artifacts')
  BY DEF Listed, Signed, WasPut
<1>5. new # Idle /\ jobs[new.job] # NoJob /\ new.seen \cup new.since \subseteq events
  BY <1>1, <1>3
<1> HIDE DEF new
<1> QED BY <1>1, <1>2, <1>3, <1>4, <1>5, OneRunKeeps

\* A page is listed, or the list fails.
LEMMA ListKeeps ==
    ASSUME ExportInv, NEW r \in Runners, ListRows(r) \/ ListFails(r)
    PROVE  ExportInv'
<1> DEFINE query == jobs[runs[r].job].query
           rows == Matching(query, events)
           page == Page(rows, runs[r].seen)
<1>1. runs[r] # Idle /\ runs[r].phase = "list"
  <2>1. runs[r].phase = "list" BY DEF ListRows, ListFails
  <2> QED BY <2>1 DEF Idle
<1>2. /\ UNCHANGED <<events, jobs, exported, artifacts, setup, started>>
      /\ exported \subseteq ExportAnchor /\ started \in 0..MaxRuns
      /\ jobs[runs[r].job] # NoJob
  BY <1>1 DEF ListRows, ListFails, ExportInv, ExportShape
<1>3. /\ runs[r] \in Run /\ runs[r].seen \subseteq events /\ runs[r].since \subseteq events
      /\ Listed(runs[r], query, events) /\ Signed(runs[r], setup.uuids, exported)
  BY <1>1, RunFacts
<1>4. rows \subseteq events /\ rows \subseteq Row /\ Distinct(rows) /\ IsFiniteSet(rows)
  <2>1. rows \subseteq events BY DEF Matching
  <2> HIDE DEF rows
  <2> QED BY <2>1, ListFacts DEF ExportInv
<1>5. runs[r].anchor = NoAnchor BY <1>1, <1>3 DEF Signed
<1>6. CASE ListFails(r)
  <2> DEFINE new == [runs[r] EXCEPT !.phase = "fail"]
  <2>1. runs' = [runs EXCEPT ![r] = new] BY <1>6 DEF ListFails
  <2>2. /\ new \in Run /\ new.phase = "fail" /\ new.job = runs[r].job
        /\ new.seen = runs[r].seen /\ new.since = runs[r].since /\ new.anchor = NoAnchor
    BY <1>3, <1>5 DEF Run
  <2> HIDE DEF new
  <2>3. /\ Listed(new, jobs[new.job].query, events)
        /\ Signed(new, setup.uuids, exported')
        /\ WasPut(new, artifacts')
    BY <1>3, <2>2 DEF Listed, Signed, WasPut
  <2>4. new # Idle BY <2>2 DEF Idle
  <2> QED BY <1>2, <1>3, <2>1, <2>2, <2>3, <2>4, OneRunKeeps
<1>7. CASE ListRows(r)
  <2>1. PICK last \in BOOLEAN :
          /\ last => Rest(rows, runs[r].seen) = page
          /\ runs' = [runs EXCEPT ![r].seen = @ \cup page,
                                  ![r].phase = IF last THEN "sign" ELSE "list"]
    <3>1. Cardinality(page) < PageLimit => Rest(rows, runs[r].seen) = page
      <4>1. Rest(rows, runs[r].seen) # page => Cardinality(page) >= PageLimit
        BY <1>4, PageFacts
      <4>2. page \subseteq rows BY <1>4, PageFacts
      <4>3. Cardinality(page) \in Nat
        <5> HIDE DEF page, rows
        <5> QED BY <1>4, <4>2, FS_Subset, FS_CardinalityType
      <4> HIDE DEF page, rows
      <4> QED BY <4>1, <4>3, PageAssumption
    <3> DEFINE ended == IF setup.uuids THEN Rest(rows, runs[r].seen) = page
                        ELSE Cardinality(page) < PageLimit
    <3>2. runs' = [runs EXCEPT ![r].seen = @ \cup page,
                               ![r].phase = IF ended THEN "sign" ELSE "list"]
      BY <1>7 DEF ListRows
    <3>3. ended => Rest(rows, runs[r].seen) = page BY <3>1
    <3> HIDE DEF page, rows, ended
    <3>4. CASE ended BY <3>2, <3>3, <3>4
    <3>5. CASE ~ended BY <3>2, <3>5
    <3> QED BY <3>4, <3>5
  <2> DEFINE new == [runs[r] EXCEPT !.seen = @ \cup page,
                                    !.phase = IF last THEN "sign" ELSE "list"]
  <2>2. runs' = [runs EXCEPT ![r] = new] BY <2>1 DEF ExportInv, ExportShape
  <2>3. page \subseteq rows BY <1>4, PageFacts
  <2>4. /\ new \in Run /\ new.phase = (IF last THEN "sign" ELSE "list")
        /\ new.job = runs[r].job /\ new.since = runs[r].since /\ new.anchor = NoAnchor
        /\ new.seen = runs[r].seen \cup page /\ new.seen \subseteq rows
    BY <1>3, <1>4, <1>5, <2>3 DEF Run, Listed
  <2> HIDE DEF new
  <2>5. /\ \A row \in Matching(query, runs[r].since) :
             row \in new.seen \/ new.seen = {} \/ Before(LastRow(new.seen), row)
        /\ last => Matching(query, runs[r].since) \subseteq new.seen
    <3>1. Matching(query, runs[r].since) \subseteq rows BY <1>3 DEF Matching
    <3>2. runs[r].seen \subseteq rows BY <1>3 DEF Listed
    <3>3. \A row \in Matching(query, runs[r].since) :
            row \in runs[r].seen \/ runs[r].seen = {} \/ Before(LastRow(runs[r].seen), row)
      BY <1>1, <1>3 DEF Listed
    <3> HIDE DEF rows, query
    <3> QED BY <1>4, <2>1, <2>4, <3>1, <3>2, <3>3, PageAdvances
  <2>6. /\ Listed(new, jobs[new.job].query, events)
        /\ Signed(new, setup.uuids, exported')
        /\ WasPut(new, artifacts')
    BY <2>4, <2>5 DEF Listed, Signed, WasPut
  <2>7. new # Idle BY <2>4 DEF Idle
  <2>8. new.seen \cup new.since \subseteq events BY <1>3, <1>4, <2>4
  <2> QED BY <1>2, <2>2, <2>4, <2>6, <2>7, <2>8, OneRunKeeps
<1> QED BY <1>6, <1>7

\* The anchor is stored or not, the artifact is put or not, or the run is given up.
LEMMA PutKeeps ==
    ASSUME ExportInv, NEW r \in Runners,
           StoreAnchor(r) \/ PutArtifact(r) \/ PutFails(r) \/ AbandonRun(r)
    PROVE  ExportInv'
<1>1. runs[r] # Idle
  <2>1. AbandonRun(r) \/ runs[r].phase \in {"sign", "put"}
    BY DEF StoreAnchor, PutArtifact, PutFails
  <2> QED BY <2>1 DEF AbandonRun, Idle
<1>2. /\ UNCHANGED <<events, jobs, setup, started>>
      /\ exported \subseteq ExportAnchor /\ started \in 0..MaxRuns
      /\ jobs[runs[r].job] # NoJob
  BY <1>1 DEF StoreAnchor, PutArtifact, PutFails, AbandonRun, ExportInv, ExportShape
<1>3. /\ runs[r] \in Run /\ runs[r].seen \subseteq events /\ runs[r].since \subseteq events
      /\ Listed(runs[r], jobs[runs[r].job].query, events)
      /\ Signed(runs[r], setup.uuids, exported)
      /\ ResultOf(runs[r]) \in Result
  BY <1>1, RunFacts
<1>4. CASE AbandonRun(r)
  BY <1>2, <1>4, OneRunKeeps DEF AbandonRun
<1>5. ASSUME NEW phase \in {"put", "record", "fail"},
             NEW anchor \in exported' \cup {NoAnchor},
             runs[r].phase \in {"sign", "put"},
             runs' = [runs EXCEPT ![r] = [runs[r] EXCEPT !.phase = phase, !.anchor = anchor]],
             \/ anchor = runs[r].anchor
             \/ ~setup.uuids /\ phase = "put" /\ anchor.root = ExportRoot(runs[r].seen),
             exported \subseteq exported', exported' \subseteq ExportAnchor,
             artifacts' \in {artifacts, artifacts \cup {Artifact(runs[r])}},
             artifacts' # artifacts => runs[r].phase = "put",
             phase = "record" => /\ runs[r].phase = "put"
                                 /\ artifacts' = artifacts \cup {Artifact(runs[r])}
                                 /\ anchor = runs[r].anchor
      PROVE  ExportInv'
  <2> DEFINE new == [runs[r] EXCEPT !.phase = phase, !.anchor = anchor]
  <2>1. /\ new \in Run /\ new.phase = phase /\ new.anchor = anchor
        /\ new.job = runs[r].job /\ new.seen = runs[r].seen /\ new.since = runs[r].since
    BY <1>3, <1>5 DEF Run
  <2>2. runs' = [runs EXCEPT ![r] = new] BY <1>5
  <2> HIDE DEF new
  <2>3. Listed(new, jobs[new.job].query, events) BY <1>3, <1>5, <2>1 DEF Listed
  <2>4. Signed(new, setup.uuids, exported') BY <1>3, <1>5, <2>1 DEF Signed
  <2>5. WasPut(new, artifacts')
    <3> SUFFICES ASSUME phase = "record" PROVE Artifact(new) \in artifacts'
      BY <2>1 DEF WasPut
    <3>1. Artifact(new) = Artifact(runs[r])
      BY <1>5, <2>1 DEF Artifact, ResultOf
    <3> QED BY <1>5, <3>1
  <2>6. new # Idle BY <2>1 DEF Idle
  <2> QED BY <1>1, <1>2, <1>3, <1>5, <2>1, <2>2, <2>3, <2>4, <2>5, <2>6, OneRunKeeps
<1>6. CASE StoreAnchor(r)
  <2> DEFINE anchor == [root |-> ExportRoot(runs[r].seen), count |-> Cardinality(runs[r].seen)]
  <2>1. anchor \in ExportAnchor BY <1>3 DEF ResultOf, Result, ExportAnchor
  <2>2. anchor.root = ExportRoot(runs[r].seen) OBVIOUS
  <2>3. runs[r].phase = "sign" /\ UNCHANGED artifacts BY <1>6 DEF StoreAnchor
  <2>4. \/ /\ ~setup.uuids
           /\ exported' = exported \cup {anchor}
           /\ runs' = [runs EXCEPT ![r].anchor = anchor, ![r].phase = "put"]
        \/ /\ runs' = [runs EXCEPT ![r].phase = "put"]
           /\ UNCHANGED exported
    BY <1>6 DEF StoreAnchor
  <2> HIDE DEF anchor
  <2>5. CASE /\ ~setup.uuids
             /\ exported' = exported \cup {anchor}
             /\ runs' = [runs EXCEPT ![r].anchor = anchor, ![r].phase = "put"]
    <3>1. runs' = [runs EXCEPT ![r] = [runs[r] EXCEPT !.phase = "put", !.anchor = anchor]]
      BY <1>3, <2>5 DEF ExportInv, ExportShape, Run
    <3> QED BY <1>2, <1>5, <2>1, <2>2, <2>3, <2>5, <3>1
  <2>6. CASE runs' = [runs EXCEPT ![r].phase = "put"] /\ UNCHANGED exported
    <3>1. runs[r].anchor = NoAnchor BY <1>3, <2>3 DEF Signed
    <3>2. runs' = [runs EXCEPT ![r] = [runs[r] EXCEPT !.phase = "put", !.anchor = NoAnchor]]
      BY <1>3, <2>6, <3>1 DEF ExportInv, ExportShape, Run
    <3> QED BY <1>2, <1>5, <2>3, <2>6, <3>1, <3>2
  <2> QED BY <2>4, <2>5, <2>6
<1>7. CASE PutArtifact(r) \/ PutFails(r)
  <2>1. PICK phase \in {"record", "fail"} : runs' = [runs EXCEPT ![r].phase = phase]
                                            /\ (phase = "record" => PutArtifact(r))
    BY <1>7 DEF PutArtifact, PutFails
  <2>2. runs[r].phase = "put" /\ UNCHANGED exported BY <1>7 DEF PutArtifact, PutFails
  <2>3. runs[r].anchor \in exported \cup {NoAnchor} BY <1>3 DEF Signed
  <2>4. runs' = [runs EXCEPT ![r] = [runs[r] EXCEPT !.phase = phase, !.anchor = runs[r].anchor]]
    BY <1>3, <2>1 DEF ExportInv, ExportShape, Run
  <2>5. /\ artifacts' \in {artifacts, artifacts \cup {Artifact(runs[r])}}
        /\ phase = "record" => artifacts' = artifacts \cup {Artifact(runs[r])}
    BY <1>7, <2>1 DEF PutArtifact, PutFails
  <2> QED BY <1>2, <1>5, <2>1, <2>2, <2>3, <2>4, <2>5
<1> QED BY <1>4, <1>6, <1>7

\* A step on the jobs' rows: no job goes and none gets another filter, so what is
\* known of runs and artifacts stays true.
LEMMA JobStepKeeps ==
    ASSUME ExportInv, UNCHANGED <<events, exported, artifacts, setup, started>>,
           jobs' \in [Exports -> Job \cup {NoJob}], JobsOK',
           \A j \in Exports : jobs[j] # NoJob => jobs'[j] # NoJob /\ jobs'[j].query = jobs[j].query,
           \A r \in Runners : runs'[r] \in {runs[r], Idle},
           runs' \in [Runners -> Run \cup {Idle}]
    PROVE  ExportInv'
<1> USE DEF ExportInv
<1>1. LogOK' BY SpineStays DEF LogOK
<1>2. ExportShape'
  <2>1. ASSUME NEW r \in Runners, runs'[r] # Idle
        PROVE  jobs'[runs'[r].job] # NoJob /\ runs'[r].seen \cup runs'[r].since \subseteq events
    <3>1. runs'[r] = runs[r] BY <2>1
    <3> QED BY <2>1, <3>1, RunFacts DEF ExportShape
  <2>2. \A a \in artifacts : jobs'[a.job] # NoJob /\ a.rows \cup a.since \subseteq events
    BY DEF ExportShape, Version
  <2> QED BY <2>1, <2>2 DEF ExportShape
<1>3. RunsOK'
  <2> SUFFICES ASSUME NEW r \in Runners, runs'[r] # Idle
               PROVE  /\ Listed(runs'[r], jobs'[runs'[r].job].query, events')
                      /\ Signed(runs'[r], setup'.uuids, exported')
                      /\ WasPut(runs'[r], artifacts')
    BY DEF RunsOK
  <2>1. runs'[r] = runs[r] OBVIOUS
  <2>2. runs[r].job \in Exports /\ jobs[runs[r].job] # NoJob
    BY <2>1, RunFacts DEF ExportShape
  <2>3. jobs'[runs[r].job].query = jobs[runs[r].job].query BY <2>2
  <2> QED BY <2>1, <2>3 DEF RunsOK
<1>4. ArtifactsOK'
  <2> SUFFICES ASSUME NEW a \in artifacts
               PROVE  /\ Matching(jobs'[a.job].query, a.since) \subseteq a.rows
                      /\ a.result.root = ExportRoot(a.rows)
    BY DEF ArtifactsOK
  <2>1. a.job \in Exports /\ jobs[a.job] # NoJob BY DEF ExportShape, Version
  <2>2. jobs'[a.job].query = jobs[a.job].query BY <2>1
  <2> QED BY <2>2 DEF ArtifactsOK
<1> QED BY <1>1, <1>2, <1>3, <1>4

\* A job is created.
LEMMA CreateKeeps ==
    ASSUME ExportInv, NEW j \in Exports, NEW q \in Queries, CreateExport(j, q)
    PROVE  ExportInv'
<1> DEFINE new == [query |-> q, status |-> "PENDING", result |-> NoResult]
<1>1. /\ jobs[j] = NoJob /\ jobs' = [jobs EXCEPT ![j] = new]
      /\ UNCHANGED <<events, runs, exported, artifacts, setup, started>>
  BY DEF CreateExport
<1>2. new \in Job BY DEF Job
<1>3. /\ jobs \in [Exports -> Job \cup {NoJob}] /\ runs \in [Runners -> Run \cup {Idle}]
      /\ JobsOK
  BY DEF ExportInv, ExportShape
<1>4. JobsOK'
  <2>1. new.status = "PENDING" OBVIOUS
  <2> HIDE DEF new
  <2> SUFFICES ASSUME NEW i \in Exports, jobs'[i] # NoJob
               PROVE  /\ setup.uuids => jobs'[i].status = "PENDING"
                      /\ jobs'[i].status = "COMPLETE" =>
                           /\ \E a \in artifacts : a.job = i /\ a.result = jobs'[i].result
                           /\ jobs'[i].result.anchor # NoAnchor =>
                                /\ jobs'[i].result.anchor \in exported
                                /\ jobs'[i].result.anchor.root = jobs'[i].result.root
    BY <1>1 DEF JobsOK
  <2>2. CASE i = j BY <1>1, <1>3, <2>1, <2>2
  <2>3. CASE i # j
    <3>1. jobs'[i] = jobs[i] BY <1>1, <1>3, <2>3
    <3> QED BY <1>3, <3>1 DEF JobsOK
  <2> QED BY <2>2, <2>3
<1> HIDE DEF new
<1> QED BY <1>1, <1>2, <1>3, <1>4, JobStepKeeps

\* A run ends its job, with the result of the version it put or as failed.
LEMMA RecordKeeps ==
    ASSUME ExportInv, NEW r \in Runners, Complete(r) \/ Fail(r)
    PROVE  ExportInv'
<1> DEFINE j == runs[r].job
<1>1. runs[r].phase \in {"record", "fail"} /\ runs[r] # Idle
  <2>1. runs[r].phase \in {"record", "fail"} BY DEF Complete, Fail
  <2> QED BY <2>1 DEF Idle
<1>2. /\ j \in Exports /\ jobs[j] \in Job
      /\ Signed(runs[r], setup.uuids, exported) /\ WasPut(runs[r], artifacts)
      /\ ResultOf(runs[r]) \in Result
  BY <1>1, RunFacts
<1>3. /\ jobs \in [Exports -> Job \cup {NoJob}] /\ runs \in [Runners -> Run \cup {Idle}]
      /\ JobsOK
  BY DEF ExportInv, ExportShape
<1>4. ~setup.uuids BY <1>2 DEF Complete, Fail, Refuses, Signed
<1>5. PICK status \in {"COMPLETE", "FAILED"}, result \in Result \cup {NoResult} :
        /\ Record(r, status, result)
        /\ status = "COMPLETE" => runs[r].phase = "record" /\ result = ResultOf(runs[r])
  BY <1>2 DEF Complete, Fail
<1> DEFINE new == [jobs[j] EXCEPT !.status = status, !.result = result]
<1>6. /\ jobs' = [jobs EXCEPT ![j] = new] /\ runs' = [runs EXCEPT ![r] = Idle]
      /\ UNCHANGED <<events, exported, artifacts, setup, started>>
  BY <1>2, <1>3, <1>5 DEF Record
<1>7. new \in Job /\ new.query = jobs[j].query /\ new.status = status /\ new.result = result
  BY <1>2 DEF Job
<1>8. status = "COMPLETE" =>
        /\ \E a \in artifacts : a.job = j /\ a.result = result
        /\ result.anchor # NoAnchor =>
             result.anchor \in exported /\ result.anchor.root = result.root
  <2> SUFFICES ASSUME status = "COMPLETE"
               PROVE  /\ \E a \in artifacts : a.job = j /\ a.result = result
                      /\ result.anchor # NoAnchor =>
                           result.anchor \in exported /\ result.anchor.root = result.root
    OBVIOUS
  <2>1. runs[r].phase = "record" /\ result = ResultOf(runs[r]) BY <1>5
  <2>2. /\ Artifact(runs[r]) \in artifacts /\ Artifact(runs[r]).job = j
        /\ Artifact(runs[r]).result = result
    BY <1>2, <2>1 DEF WasPut, Artifact
  <2>3. result.root = ExportRoot(runs[r].seen) /\ result.anchor = runs[r].anchor
    BY <2>1 DEF ResultOf
  <2> QED BY <1>2, <2>2, <2>3 DEF Signed
<1> HIDE DEF new, j
<1>9. JobsOK'
  <2> SUFFICES ASSUME NEW i \in Exports, jobs'[i] # NoJob
               PROVE  jobs'[i].status = "COMPLETE" =>
                           /\ \E a \in artifacts : a.job = i /\ a.result = jobs'[i].result
                           /\ jobs'[i].result.anchor # NoAnchor =>
                                /\ jobs'[i].result.anchor \in exported
                                /\ jobs'[i].result.anchor.root = jobs'[i].result.root
    BY <1>4, <1>6 DEF JobsOK
  <2>2. CASE i = j
    <3>1. jobs'[i] = new BY <1>2, <1>3, <1>6, <2>2
    <3> QED BY <1>7, <1>8, <2>2, <3>1
  <2>3. CASE i # j
    <3>1. jobs'[i] = jobs[i] BY <1>3, <1>6, <2>3
    <3> QED BY <1>3, <3>1 DEF JobsOK
  <2> QED BY <2>2, <2>3
<1>10. \A i \in Exports : jobs[i] # NoJob => jobs'[i] # NoJob /\ jobs'[i].query = jobs[i].query
  BY <1>2, <1>3, <1>6, <1>7, NoJobAssumption
<1> QED BY <1>2, <1>3, <1>6, <1>7, <1>9, <1>10, JobStepKeeps

-------------------------------------------------------------------------------
(* The theorems.                                                           *)

\* Whatever events arrive between two calls of a run, whichever call fails and
\* however many runs of a job overlap, a run that goes on carries a complete list.
THEOREM ExportInvariance == ExportSpec => []ExportInv
<1>1. ExportInit => ExportInv
  <2> SUFFICES ASSUME ExportInit PROVE ExportInv
    OBVIOUS
  <2>1. events = {} /\ artifacts = {} /\ exported = {} /\ started = 0
        /\ jobs = [j \in Exports |-> NoJob] /\ runs = [r \in Runners |-> Idle]
        /\ setup \in [uuids : BOOLEAN, retaining : BOOLEAN]
    BY DEF ExportInit, Init
  <2>2. LogOK
    BY <2>1, FS_EmptySet DEF LogOK, SpineInv, TypeOK, OneRowPerId, HashesSound, HeadExists, HeadHash,
       HashAfter, ZeroHash, SpineSorted, LinksIntoSpine, OnTimeOnSpine, SpineStored
  <2>3. ExportShape BY <2>1, ExportAssumption DEF ExportShape
  <2>4. RunsOK /\ ArtifactsOK /\ JobsOK BY <2>1 DEF RunsOK, ArtifactsOK, JobsOK
  <2> QED BY <2>2, <2>3, <2>4 DEF ExportInv
<1>2. ExportInv /\ [ExportNext]_exportVars => ExportInv'
  <2> SUFFICES ASSUME ExportInv, [ExportNext]_exportVars PROVE ExportInv'
    OBVIOUS
  <2>1. CASE \E c \in Content : Deliver(c) BY <2>1, DeliverKeeps
  <2>2. CASE \E j \in Exports, q \in Queries : CreateExport(j, q) BY <2>2, CreateKeeps
  <2>3. ASSUME NEW r \in Runners, NEW j \in Exports, StartRun(r, j) PROVE ExportInv'
    BY <2>3, StartKeeps
  <2>4. ASSUME NEW r \in Runners, ListRows(r) \/ ListFails(r) PROVE ExportInv'
    BY <2>4, ListKeeps
  <2>5. ASSUME NEW r \in Runners,
               StoreAnchor(r) \/ PutArtifact(r) \/ PutFails(r) \/ AbandonRun(r)
        PROVE  ExportInv'
    BY <2>5, PutKeeps
  <2>6. ASSUME NEW r \in Runners, Complete(r) \/ Fail(r) PROVE ExportInv'
    BY <2>6, RecordKeeps
  <2>7. CASE UNCHANGED exportVars
    BY <2>7, SpineStays DEF exportVars, ExportInv, LogOK, ExportShape, RunsOK, ArtifactsOK, JobsOK
  <2> QED BY <2>1, <2>2, <2>3, <2>4, <2>5, <2>6, <2>7 DEF ExportNext
<1> QED BY <1>1, <1>2, PTL DEF ExportSpec

\* An artifact misses no event that matched and was in the log when its run began,
\* with pages of any size and whatever is delivered between two of them (RunJob).
THEOREM ArtifactMissesNothingInvariance == ExportSpec => []ArtifactMissesNothing
<1>1. ExportInv => ArtifactMissesNothing
  BY DEF ExportInv, ArtifactsOK, ArtifactMissesNothing
<1> QED BY <1>1, ExportInvariance, PTL

\* A root that is not zero commits to every event in its artifact (RunJob signs
\* the last hash of what VerifyChain accepted).
THEOREM RootCoversArtifactInvariance == ExportSpec => []RootCoversArtifact
<1>1. ExportInv => RootCoversArtifact
  <2> SUFFICES ASSUME ExportInv, NEW a \in artifacts, a.result.root # ZeroHash, NEW row \in a.rows
               PROVE  ContentOf(row) \in ToSet(a.result.root)
    BY DEF RootCoversArtifact
  <2>1. a.result.root = ExportRoot(a.rows) /\ a.rows \subseteq events /\ LogOK
    BY DEF ExportInv, ArtifactsOK, ExportShape
  <2> QED BY <2>1, RootCovers
<1> QED BY <1>1, ExportInvariance, PTL

\* A completed job's row describes a version of its artifact that was put, and its
\* anchor signs that version's root, however runs of the job overlap (UpdateJob).
THEOREM RecordHasItsArtifactInvariance == ExportSpec => []RecordHasItsArtifact
<1>1. ExportInv => RecordHasItsArtifact
  <2> SUFFICES ASSUME ExportInv PROVE RecordHasItsArtifact
    OBVIOUS
  <2>1. ASSUME NEW r \in Runners, runs[r] # Idle
        PROVE  /\ runs[r].phase \in {"list", "sign", "put", "record", "fail"}
               /\ runs[r].anchor \in exported \cup {NoAnchor}
    BY <2>1, RunFacts DEF Run, Signed
  <2>2. ExportTypeOK
    BY <2>1 DEF ExportInv, LogOK, SpineInv, ExportShape, ExportTypeOK
  <2> QED BY <2>2 DEF ExportInv, JobsOK, RecordHasItsArtifact
<1> QED BY <1>1, ExportInvariance, PTL

\* On PostgreSQL every job stays PENDING, whatever its runs do: neither an anchor
\* that names no event nor a job's row without an anchor is accepted.
THEOREM PendingOnPostgresInvariance == ExportSpec => []PendingOnPostgres
<1>1. ExportInv => PendingOnPostgres
  BY DEF ExportInv, JobsOK, PendingOnPostgres
<1> QED BY <1>1, ExportInvariance, PTL

\* Exports only read the log: under them the store keeps the promise of AuditLog.
THEOREM ExportsImplementAuditLog == ExportSpec => ImplementsAuditLog
<1>1. ExportInit => Log!LogInit
  BY DEF ExportInit, Init, Log!LogInit, HeadHash, HashAfter, LateLeaves, Log!ZeroHash, ZeroHash
<1>2. ExportInv /\ [ExportNext]_exportVars => [Log!LogNext]_<<HeadHash, LateLeaves, {}>>
  <2> SUFFICES ASSUME ExportInv, [ExportNext]_exportVars
               PROVE  [Log!LogNext]_<<HeadHash, LateLeaves, {}>>
    OBVIOUS
  <2>1. CASE UNCHANGED events BY <2>1, TableStaysIsLogStutter
  <2>2. ASSUME NEW c \in Content, Deliver(c) PROVE [Log!LogNext]_<<HeadHash, LateLeaves, {}>>
    BY <2>2, InsertIsLogStep DEF ExportInv, LogOK, Deliver
  <2>3. (\E c \in Content : Deliver(c)) \/ UNCHANGED events
    BY DEF ExportNext, exportVars, CreateExport, StartRun, ListRows, ListFails, StoreAnchor,
       PutArtifact, PutFails, Complete, Fail, Record, AbandonRun
  <2> QED BY <2>1, <2>2, <2>3
<1> QED BY <1>1, <1>2, ExportInvariance, PTL DEF ExportSpec, ImplementsAuditLog, Log!LogSpec, Log!logVars
===============================================================================
