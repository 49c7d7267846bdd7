------------------------------ MODULE ExportJobs ------------------------------
(***************************************************************************)
(* Regulator exports: a job is created by the API and run by RunJob, which *)
(* lists the matching rows page by page, signs the root of what it listed, *)
(* stores it as an anchor, puts the artifact to S3 and updates the job's   *)
(* row.  Events are inserted between any two of these calls, any of them   *)
(* may fail, and nothing keeps two runs of one job apart.                  *)
(*                                                                         *)
(* Two choices of the deployment matter.  PostgreSQL keeps ids in UUID     *)
(* columns, which refuse the empty string RunJob gives for "none"; and the *)
(* in-memory S3 client refuses to overwrite a retained object, where the   *)
(* AWS client writes another version.                                      *)
(***************************************************************************)
EXTENDS EventStore, ChainVerify

CONSTANTS Exports,   \* ids of export jobs
          Runners,   \* goroutines that run a job
          Queries,   \* the filters a job may have
          NoJob, NoResult, NoAnchor,
          MaxRuns    \* bound: how many runs are started

\* A filter, by window or attributes, is the set of contents it selects.
ASSUME ExportAssumption == Queries \subseteq SUBSET Content /\ MaxRuns \in Nat

VARIABLES jobs,        \* per export id, NoJob or the row of export_jobs
          runs,        \* what each runner is doing
          exported,    \* the anchors that exports stored
          artifacts,   \* what was put to S3, every version
          setup,       \* uuids: ids are UUID columns; retaining: S3 client in memory
          started      \* runs started so far

exportVars == <<events, jobs, runs, exported, artifacts, setup, started>>

\* An anchor stored by an export names no event; its id is what identifies it.
ExportAnchor == [root : Digest, count : Nat]
Result == [root : Digest, count : Nat, anchor : ExportAnchor \cup {NoAnchor}]
Job == [query : Queries, status : {"PENDING", "COMPLETE", "FAILED"},
        result : Result \cup {NoResult}]

ASSUME NoJobAssumption == NoJob \notin Job

Idle == [phase |-> "idle"]

-------------------------------------------------------------------------------
\* List's WHERE clause.
Matching(q, rows) == {row \in rows : ContentOf(row) \in q}

\* Faulty variant of ExportRoot: the last hash, whatever the walk said.
RootRegardless(rows) == HashAfter(rows)

\* The root of the exported rows: the last this_hash if VerifyChain accepts
\* them, and zero otherwise.
ExportRoot(rows) == IF ChainStatus(rows) = "ok" THEN HashAfter(rows) ELSE ZeroHash

\* What a run exports, as its manifest and its job row say it.
ResultOf(run) ==
    [root |-> ExportRoot(run.seen), count |-> Cardinality(run.seen), anchor |-> run.anchor]

ExportInit ==
    /\ Init
    /\ jobs = [j \in Exports |-> NoJob]
    /\ runs = [r \in Runners |-> Idle]
    /\ exported = {} /\ artifacts = {}
    /\ setup \in [uuids : BOOLEAN, retaining : BOOLEAN]
    /\ started = 0

Deliver(c) ==
    /\ InsertChained(c)
    /\ UNCHANGED <<jobs, runs, exported, artifacts, setup, started>>

\* POST /v1/exports
CreateExport(j, q) ==
    /\ jobs[j] = NoJob
    /\ jobs' = [jobs EXCEPT ![j] = [query |-> q, status |-> "PENDING", result |-> NoResult]]
    /\ UNCHANGED <<events, runs, exported, artifacts, setup, started>>

\* RunJob does not look at the status: a job may be run again or by two at once.
StartRun(r, j) ==
    /\ runs[r] = Idle /\ jobs[j] # NoJob /\ started < MaxRuns
    /\ started' = started + 1
    /\ runs' = [runs EXCEPT ![r] =
                  [phase |-> "list", job |-> j, seen |-> {}, since |-> events,
                   anchor |-> NoAnchor]]
    /\ UNCHANGED <<events, jobs, exported, artifacts, setup>>

\* One page of the matching rows.  The memory store goes on after a full page;
\* PostgreSQL, which peeks one row ahead, also stops at a full last page.
ListRows(r) ==
    LET matching == Matching(jobs[runs[r].job].query, events)
        page == Page(matching, runs[r].seen)
        last == IF setup.uuids THEN Rest(matching, runs[r].seen) = page
                ELSE Cardinality(page) < PageLimit
    IN  /\ runs[r].phase = "list"
        /\ runs' = [runs EXCEPT ![r].seen = @ \cup page,
                                ![r].phase = IF last THEN "sign" ELSE "list"]
        /\ UNCHANGED <<events, jobs, exported, artifacts, setup, started>>

\* A query that is no JSON object, or a List that fails.
ListFails(r) ==
    /\ runs[r].phase = "list"
    /\ runs' = [runs EXCEPT ![r].phase = "fail"]
    /\ UNCHANGED <<events, jobs, exported, artifacts, setup, started>>

\* Sign the root and store the anchor.  If either fails, and on PostgreSQL the
\* second always does, the export goes on without.
StoreAnchor(r) ==
    LET anchor == [root |-> ExportRoot(runs[r].seen), count |-> Cardinality(runs[r].seen)]
    IN  /\ runs[r].phase = "sign"
        /\ \/ /\ ~setup.uuids
              /\ exported' = exported \cup {anchor}
              /\ runs' = [runs EXCEPT ![r].anchor = anchor, ![r].phase = "put"]
           \/ /\ runs' = [runs EXCEPT ![r].phase = "put"]
              /\ UNCHANGED exported
        /\ UNCHANGED <<events, jobs, artifacts, setup, started>>

\* The in-memory client keeps a retained object as it is.
Retained(j) == setup.retaining /\ \E a \in artifacts : a.job = j

Artifact(run) ==
    [job |-> run.job, since |-> run.since, rows |-> run.seen, result |-> ResultOf(run)]

PutArtifact(r) ==
    /\ runs[r].phase = "put" /\ ~Retained(runs[r].job)
    /\ artifacts' = artifacts \cup {Artifact(runs[r])}
    /\ runs' = [runs EXCEPT ![r].phase = "record"]
    /\ UNCHANGED <<events, jobs, exported, setup, started>>

\* Faulty variant of PutFails: its error is dropped like that of the anchor.
PutFailsUnnoticed(r) ==
    /\ runs[r].phase = "put"
    /\ runs' = [runs EXCEPT ![r].phase = "record"]
    /\ UNCHANGED <<events, jobs, exported, artifacts, setup, started>>

\* The in-memory client refuses a retained object and does not fail otherwise; a
\* put to AWS fails, or the object is written and the answer is lost.
PutFails(r) ==
    /\ runs[r].phase = "put"
    /\ setup.retaining => Retained(runs[r].job)
    /\ \/ UNCHANGED artifacts
       \/ ~setup.retaining /\ artifacts' = artifacts \cup {Artifact(runs[r])}
    /\ runs' = [runs EXCEPT ![r].phase = "fail"]
    /\ UNCHANGED <<events, jobs, exported, setup, started>>

\* Faulty variant of Refuses: the column takes NULL for the empty string.
RefusesNothing(anchor) == FALSE

\* UpdateJob writes the anchor's id, and without an anchor the empty string.
Refuses(anchor) == setup.uuids /\ anchor = NoAnchor

Record(r, status, result) ==
    /\ jobs' = [jobs EXCEPT ![runs[r].job].status = status, ![runs[r].job].result = result]
    /\ runs' = [runs EXCEPT ![r] = Idle]
    /\ UNCHANGED <<events, exported, artifacts, setup, started>>

Complete(r) ==
    /\ runs[r].phase = "record" /\ ~Refuses(runs[r].anchor)
    /\ Record(r, "COMPLETE", ResultOf(runs[r]))

\* The job's results are wiped, also those of an earlier run.
Fail(r) ==
    /\ runs[r].phase = "fail" /\ ~Refuses(NoAnchor)
    /\ Record(r, "FAILED", NoResult)

\* UpdateJob fails, the context is cancelled, or the process stops.
AbandonRun(r) ==
    /\ runs[r] # Idle
    /\ runs' = [runs EXCEPT ![r] = Idle]
    /\ UNCHANGED <<events, jobs, exported, artifacts, setup, started>>

ExportNext ==
    \/ \E c \in Content : Deliver(c)
    \/ \E j \in Exports, q \in Queries : CreateExport(j, q)
    \/ \E r \in Runners :
         \/ \E j \in Exports : StartRun(r, j)
         \/ ListRows(r) \/ ListFails(r) \/ StoreAnchor(r)
         \/ PutArtifact(r) \/ PutFails(r)
         \/ Complete(r) \/ Fail(r) \/ AbandonRun(r)

ExportSpec == ExportInit /\ [][ExportNext]_exportVars

-------------------------------------------------------------------------------
\* Type invariant; a run that is past its list has an anchor or none.
ExportTypeOK ==
    /\ TypeOK
    /\ jobs \in [Exports -> Job \cup {NoJob}]
    /\ \A r \in Runners : runs[r] # Idle =>
         /\ runs[r].phase \in {"list", "sign", "put", "record", "fail"}
         /\ jobs[runs[r].job] # NoJob
         /\ runs[r].seen \cup runs[r].since \subseteq events
         /\ runs[r].anchor \in exported \cup {NoAnchor}
    /\ exported \subseteq ExportAnchor
    /\ started \in 0..MaxRuns

\* An artifact misses no event that was in the log, and matched, when its run
\* began, whatever was inserted between two pages.
ArtifactMissesNothing ==
    \A a \in artifacts : Matching(jobs[a.job].query, a.since) \subseteq a.rows

\* A root that is not zero covers the whole artifact: the digest commits to
\* every exported event, though the window need not begin at genesis.  With a
\* filter, or with a late event, that leaves the gaps VerifyChain finds, and
\* the root is zero.
RootCoversArtifact ==
    \A a \in artifacts : a.result.root # ZeroHash =>
        \A row \in a.rows : ContentOf(row) \in ToSet(a.result.root)

\* What a completed job's row says is what some version of its artifact says,
\* and its anchor, if it has one, signs that root, also when two runs of the
\* job overlap.
RecordHasItsArtifact ==
    /\ ExportTypeOK
    /\ \A j \in Exports : jobs[j] # NoJob /\ jobs[j].status = "COMPLETE" =>
         LET result == jobs[j].result
         IN  /\ \E a \in artifacts : a.job = j /\ a.result = result
             /\ result.anchor # NoAnchor =>
                  result.anchor \in exported /\ result.anchor.root = result.root

\* On PostgreSQL no run ever ends its job: the anchor is refused because it
\* names no event, and the job's row because it then names no anchor.
PendingOnPostgres ==
    setup.uuids => \A j \in Exports : jobs[j] # NoJob => jobs[j].status = "PENDING"
================================================================================
