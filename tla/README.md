# A verification project for the audit-event-log service

TLA+ modules of the service in `src/`, TLC configurations that check them, and
proofs that TLAPS checks. `PROJECT.json` lists the runs, the theorems, the
hazards and, under `map`, the source lines each definition translates.

The service consumes audit events from Kafka, redacts their payloads, keeps the
payloads in S3 and an index of the events in PostgreSQL, chains the events by
hash, signs the head of the chain periodically, and verifies the chain on demand.

## Inventory

| Part | State | Operations | What is hard | What makes it correct |
|---|---|---|---|---|
| Hash chain (`chain/chain.go`, `event/event.go`) | none | `CanonicalHash`, `EventHash` | the hash covers a timestamp that the database may store differently | a stored row recomputes to its `this_hash` |
| Event store (`store/memstore`, `store/postgres`) | rows of `audit_events` in (ts, id) order | `InsertChained`, `SetLegalHold`, `MarkAnchored`, `ChainHead`, `Get`, `List` | events arrive out of timestamp order; replicas insert at once; the transaction's snapshot is older than its lock | one chain that never forks and is never rewritten; one row per id |
| Anchor job (`chain.AnchorJob`, `app.startLoops`) | rows of `chain_anchors`, the `anchored` column | `Run` on a ticker in every replica | four calls without a lock, inserts and other replicas in between, any call may fail | all roots belong to one history; `anchored` is right; nothing stays unflagged |
| Verifier (`chain.VerifyChain`, `chain.Sweep`) | window, the pages listed so far | `VerifyEvent`, `VerifyChain`, `Sweep` | the table changes between pages and between the walk and the anchor check | no row skipped, no false alarm, every alteration found; what a clean report means |
| Ingest pipeline (`ingest/ingest.go`) | a message in hand | `IngestMessage` | S3 before the index, with failures and stops in between; duplicates; the policy changes under it | nothing is lost without a failure; a row describes an object that exists |
| Kafka consumer (`kafka/kafkaadapter`) | committed offsets | `Run`, `Stop` | when the offset is committed | at-least-once delivery |
| In-memory consumer (`kafka/kafka.go`) | a bounded channel, `stopped` | `Enqueue`, `Run`, `Poll`, `Stop` | the check of `stopped` and the send are two steps; `Stop` closes the channel; `select` chooses at random | what is accepted is handled, once and in order |
| Payload store (`s3`) | objects and their versions, retention | `Put`, `Get`, `Head`, `Delete` | overwriting a retained object, which one client refuses and the other versions | one object per event, in the form the row says |
| Redaction (`redaction`) | the policy file, the live policy | `Parse`, `Apply`, `Reload` | the file is read before the lock, and possibly while it is written; spelling of field names | the rule that decides is the one the file names; an older policy does not come back |
| Export (`export`) | `export_jobs`, artifacts | `RunJob` | pages against inserts; anchors without an event; the runner is never started | an artifact without holes whose root covers it; a job that ends |
| REST API (`api`) | none | search, get, verify, exports, admin | predecessor lookup by timestamp | agrees with the walk |
| Migrations (`store/migrations`, `cmd/migrate`) | `schema_migrations`, the tables | `Up`, `Down` | a failure between a script and its record; several runners at once without a lock | what is recorded is applied; nothing is skipped |
| Wiring (`app`, `cmd/audit-logger`) | which store, the loops, requests in flight | `Build`, `Run`, `Shutdown` | fallback to memory; a listener that fails under the loops; a bounded wait for requests and an unbounded one for loops | rows outlive restarts; nothing is cut off; shutdown ends |
| KMS, auth, config, metrics, CLI | none | | | |

How they interact: `app.Build` wires everything and `app.startLoops` runs two
loops per replica. The consumer loop calls the handler for each Kafka message,
which calls `IngestMessage` and drops its result. The anchor loop calls
`AnchorJob.Run` on each tick. HTTP handlers call the stores, `Sweep` and
`Reload` concurrently with both. Replicas share the database, the bucket and the
topic, and nothing else.

## Plan

Done, in this order: 1 `AuditEvents`, `EventStore`, `AuditLog`; 2 `PgChain`;
3 `AnchorJob`; 4 `ChainVerify`, `Sweep` with windows and the anchors of exports, and
`VerifyEndpoint`; 5 `IngestPipeline`, over either S3 client; 6 `ExportJobs`; 7 `Redaction`;
8 `Migrations` and `Startup`; 9 `KafkaFake` and `ServiceLoops`; 10 the theorems of
`EventStoreProofs`, `PgChainProofs`, `AnchorProofs`, `SweepProofs`, `PipelineProofs`,
`StartupProofs` and `ServiceLoopsProofs`; 11 those of `ExportProofs`, of the reports of a
sweep, of `VerifyEndpoint`, of `NothingVanishes`, and of what `Parse` makes of a file.

Next:

12. `IngestPipeline` over the rules of `Redaction` instead of the one flag `rules`; what an
    export request asks for against what `parseQuery` makes of it (a bound that is no
    RFC 3339 instant is dropped, `export.go:254`).

## Modules

| Module | Models | Extends |
|---|---|---|
| `AuditEvents` | hashed fields, ideal hash, order of the log | |
| `AuditLog` | the abstract specification: a growing spine, late leaves, published roots | `AuditEvents` |
| `EventStore` | the rows and the three operations that change them | `AuditEvents` |
| `EventStoreProofs` | theorems about `EventStore` and `VerifyEndpoint` | `VerifyEndpoint` |
| `PgChain` | `InsertChained` as PostgreSQL transactions of several replicas | `EventStore` |
| `PgChainProofs` | theorems about `PgChain` | `PgChain`, `EventStoreProofs` |
| `AnchorJob` | the anchor loops of several replicas | `EventStore` |
| `AnchorProofs` | theorems about `AnchorJob` | `AnchorJob`, `EventStoreProofs` |
| `ChainVerify` | pages, `VerifyEvent`, `VerifyChain` | `AuditEvents` |
| `VerifyEndpoint` | the single-event `verify-chain` endpoint | `EventStore`, `ChainVerify` |
| `ExportJobs` | export jobs: API, `RunJob`, anchor, artifact, job row | `EventStore`, `ChainVerify` |
| `Sweep` | a sweep over a table in use and possibly damaged | `AnchorJob`, `ChainVerify` |
| `ExportProofs` | theorems about `ExportJobs` | `ExportJobs`, `EventStoreProofs` |
| `SweepProofs` | theorems about `Sweep` and the pages of `ChainVerify` | `Sweep`, `AnchorProofs` |
| `IngestPipeline` | consumer loops, `IngestMessage`, S3 put, dead letters, policy reload | `EventStore` |
| `PipelineProofs` | theorems about `IngestPipeline` | `IngestPipeline`, `EventStoreProofs` |
| `Redaction` | the policy file, `Parse`, the deciding rule, concurrent reloads | |
| `Migrations` | `Up` and `Down` of several runners, failing anywhere | |
| `Startup` | replicas that open PostgreSQL or fall back to memory, ingest and restart | `Migrations` |
| `StartupProofs` | theorems about `Startup`, the migrations in it, and `Redaction` | `Startup`, `Redaction` |
| `KafkaFake` | the in-memory consumer | |
| `ServiceLoops` | a service process from start to exit | `KafkaFake` |
| `ServiceLoopsProofs` | theorems about `ServiceLoops` and the consumer in it | `ServiceLoops` |
| `MC*` | finite sets for TLC | |

Definitions introduced as *faulty variants* replace the definition that follows
them in a test of the properties: each property of a passing run is violated when
one of the mapped definitions is exchanged for its variant (`mutants` in
`PROJECT.json`). No specification uses them.

### The hash and the spine

SHA-256 is taken to be ideal: a digest *is* the sequence of event contents from
genesis up to the hashed event, so `CanonicalHash(c, prev) == Append(prev, c)`, and
"the root covers event c" is a statement about a sequence. What the encoding of a
single field does is outside the model, with one exception: PostgreSQL keeps
microseconds of a timestamp that is hashed in nanoseconds, which is `TsPrecision` in
`PgChain`.

Nothing in the code rejects an event whose timestamp is below that of the head, and
`InsertChained` links every event to the head. An event delivered late is thus
linked to a row that sorts *after* it. The rows form a *spine*, the rows that were
not late, in order, which is what the head's digest commits to; late rows hang off
it as leaves, and nothing is ever linked to a leaf. `SpineInv` says this and is
inductive; everything else about the store follows from it.

### How state and actions correspond to the code

* `events` is the table as a set of rows; the sort after each insert in the
  in-memory store and `ORDER BY ts, id` in SQL are the order `Before`. The store's
  mutex, or a single SQL statement, makes each action of `EventStore` one step.
* `PgChain`: `Begin` is everything up to the wait for the advisory lock, which is
  the statement that takes the transaction's snapshot (`tx[w].sees`); `CommitInsert`,
  `CommitDuplicate` and `SerializationFailure` are the three ways the rest can end,
  and `LoseTransaction` is a cancelled context, a dropped connection or a crash. The
  conditions of serializable snapshot isolation (`Dangerous`) are PostgreSQL's and
  modelled from use: a commit is refused if the transaction read a range that a
  missed row falls into and wrote into a range that a missed transaction read.
* `AnchorJob`: `ReadHead`, `InsertAnchor`, `MarkCovered` are the calls of `Run`;
  `Abandon` is a failure of any of them or a crash. The ticker is that `ReadHead` can
  happen whenever the replica's job is idle. Signature, key id, notary URL and the
  time of an anchor decide nothing and are left out.
* `Sweep`: `ListPage` is one round of the paging loop, `ListAnchors` may fail and is
  then ignored, as in the code; `CheckAnchor` is one `Get` and comparison. A window is
  a set of consecutive timestamps; anchors are selected by the time at which they
  were made, which the model does not have, so a sweep lists any of them. `Export`
  leaves the anchor that a `RunJob` on the in-memory store leaves, one that names no
  event. `Damage` is the environment: it loses a row or changes one hashed column, what
  `TamperForTest` does in the tests. Rows are damaged between two sweeps;
  damage to a page already read would concern the next sweep.
* `IngestPipeline`: `Read` fetches a message and commits its offset, which is what
  `ReadMessage` of kafka-go does for a consumer group; `Accept`/`Reject` cover
  decoding, the payload_hash checks and redaction, `Put` and `Insert` are the two
  stores, and every call has a failing form. `faults` counts failures and stops.
  An S3 put adds a version, as in a bucket with Object Lock, or is refused when the
  object is there (`overwrites`), as by the in-memory client; `PutRefused` is then the
  end of a re-delivered event whose first insert failed.
* `VerifyEndpoint` has no state of its own: `LookedUp` is the handler's `List` call and
  `EndpointStatus` its verdict. Event and page are read by two calls; since no step
  changes the link of a row, what matters is the page.
* `ExportJobs`: `StartRun` to `Complete` are the calls of `RunJob` in order; `Fail` is its
  `UpdateJob(FAILED)`, whose own error is ignored, and `AbandonRun` everything that leaves
  without one. `setup` is the deployment, fixed at the start: UUID columns
  (PostgreSQL) or not (memory), an S3 client that refuses to overwrite (memory) or
  writes versions (AWS). A filter is the set of contents it selects. Who calls
  `RunJob`, and how often, is left open: nothing in the service does, the tests do.
* `Redaction`: a policy file is a sequence of lines, of which any number may have been
  written when it is read. `BeginReload` is `LoadFile`, `EndReload` the swap under the
  lock; the age of a file is a history variable. A transform's effect on a value is
  left out, which transform decides is not.
* `Migrations`: each statement of `Up` and `Down` is a step, and `Fail` can end a runner at
  any of them. One version is embedded today; the number of versions is the
  constant `N`. `spoiled` is history: a `Down` that failed between script and record, or
  that ran beside an `Up`.
* `Startup`: `Open` is the ping and the start of `Up`, `Fallback` is
  `openPostgresOrFallback`. `Exit` ends the process, and with it what is in memory. A
  replica whose table a `migrate --down` dropped goes on and its inserts fail.
* `KafkaFake`: `EnqueueChecks` is the part of `Enqueue` under the lock, and
  `EnqueueSends`, `EnqueueFindsFeedFull` and `EnqueuePanics` are what the `select` after it
  can do. `Run` is `Receive`, `EndOfFeed` and `SeeCancel`.
* `ServiceLoops`: `run` is where `Server.Run` and `Shutdown` are. The anchor job is a run
  that begins and ends; `AnchorJob` has its steps. `Shutdown` never calls the
  consumer's `Stop`, but code that has the consumer may.

## Runs

| Run | Question | Result |
|---|---|---|
| `event_store` | is the chain right for every order of arrival, and does the single-event check agree? | 6 properties hold |
| `pg_chain` | do concurrent transactions keep it right? | 5 hold, one of them liveness |
| `anchor_job` | are roots, flags and anchors consistent across replicas? | 6 hold, one of them liveness |
| `sweep` | what do a clean and a failed report establish? | 4 hold |
| `ingest` | what is lost, and does a row describe its object? | 4 hold |
| `export_jobs` | what do artifact, root, anchor and job row say of each other? | 4 hold |
| `startup` | when do record, tables and rows part? | 4 hold, one of them liveness |
| `redaction` | which policy is live, and what does part of one do? | 3 hold |
| `service_loops` | is what is accepted handled, is anything cut off, does shutdown end? | 4 hold, two of them liveness |
| `pg_timestamp` | PROJECT_PLAN.md:121, recomputed hashes match | violated for a timestamp finer than microseconds |
| `at_least_once` | kafka.go:6-7, commit only after the handler succeeded | violated: read, then a stop |
| `verify_endpoint` | api.go:220, "Look up the preceding event to check prev_hash linkage." | violated: two events at one timestamp, in order |

What the passing runs show beyond the list of names:

* `WalkIsContiguousUnlessLate`: README.md:168 says that `prev_hash` is the `this_hash` of
  the immediately preceding event. That is so exactly for a log without late events.
* `NoStaleLink`: postgres.go:131 says that the locked transaction reads the current
  head. It reads the head of its snapshot. The advisory lock does *not* keep
  the chain from forking, since the head is read in a snapshot from before it was
  granted; serializable isolation does. The price is that an insert that had to
  wait fails, and that `InsertChained` and its caller do not retry.
* `OnlyLateRowsAnchoredUncovered`: `anchored` means "covered by a signed root" for every
  row except the late ones, which are flagged because they sort below the head that
  was signed.
* `RowDescribesAVersion`: a row describes an object that was written before it, but not
  always the current one: after a re-delivery under another policy the object is
  redacted differently from what the `redacted` column (README.md:118) says.
* `AlarmOnlyAfterDamageOrLate`: on an intact log a sweep reports a gap exactly if it
  walked over a late row, however its pages interleave with inserts, and unless that
  row is alone in the window. Every anchor matches except those of exports.
* `CleanReportMissesOnlyAPrefix`: a clean report means that of each anchored history
  everything from some row on, up to the row the anchor names, was walked, or has come
  again since the sweep began: an event that was lost and is delivered anew while the
  sweep is under way. Up to that row the sweep walked nothing else. Rows missing from the
  very front are not noticed, because the first row's `prev_hash` is not compared with
  genesis.
* `LossBoundedByFaults`: without a failure nothing is lost, and each failure or stop
  loses at most one event, with the exception of ids that PostgreSQL refuses.
* `OrderedPartitionIsNeverLate`: one partition in order keeps the log contiguous even
  when handlers fail; late rows need two partitions or a producer out of order.
* `RecordIsTrueUnlessSpoiled`: replicas that run `Up` at once, failing anywhere, never
  record a version without its tables. `migrate --down` beside an `Up`, or failing before
  its record is deleted, can: every later `Up` then skips what is missing.
* `RowsOutliveRestarts`: what went into PostgreSQL stays until a `Down`. What a replica
  ingested after a fallback ends with the process.
* `HalfWrittenRedactsLess`: a policy read while it is written only ever redacts less, if no
  rule has two action lines. The second of two overwrites the first, and then half a file
  redacts for an action that the whole file does not name.
* `OnlyLowerCaseNamesCount`: a line that names a field with a capital may as well be commented
  out: the field is never redacted, although redaction.go:23 says that names match case-insensitively.
* `NothingVanishes`, `AcceptedIsHandled`: kafka.go:69 says that `Enqueue` blocks at a full
  feed; it fails. A send that races `Stop` panics. Neither loses a message that was
  accepted. kafka.go:50-51 says that `Stop` waits for the handler in flight; it does not.
* `NothingIsCutOff`: after a signal, `Run` returns when both loops are at rest. When the
  listener fails, it returns under them.
* `EndpointAgreesWithWalk` and `verify_endpoint` belong together. As long as the preceding
  event is at an earlier timestamp and on the first page, the endpoint is right, and on
  the first event of the log it is stricter than the walk. Otherwise it reports a gap
  in an intact log.
* `RootCoversArtifact`: the root of an export is zero unless the exported rows are
  contiguous in the log, and if it is not zero it covers all of them. A filtered
  export is therefore usually signed over the zero root.
* `PendingOnPostgres`: `RunJob` gives the empty string for "no id", which UUID columns
  refuse, first in the anchor and then in the job row. On PostgreSQL every run writes its
  artifact and none ends its job. In the wired service no run is started at all
  (`app.go:122` drops the runner).

### Bounds

`event_store`: three ids and three timestamps, the smallest in which a late event
lies below, between and above others, ties on the timestamp included; pages of one row,
so that the third event's predecessor is off the first page. `pg_chain`:
three workers and three events, so that one transaction can miss the commits of two
others; events at one timestamp, since only the order of events matters and ids
give all orders. `anchor_job`: two replicas, four events. `sweep`: pages of
two rows over three events at two times, so that full, short and empty pages occur, an
event arrives before or after the cursor and a window cuts the log anywhere; one damaged
row (`MaxDamage`) and one anchor (`MaxAnchors`), signed by a job at any time or left by an
export: each anchor is looked up on its own, so a second one adds no case. `ingest`: two
workers, one event of each of the five kinds, two messages per partition
(`MaxReads`), so that an event is delivered twice to one or both workers, and two
failures (`MaxFaults`). `export_jobs`:
one job and two runs of it (`MaxRuns`), enough for an overlap and for a retry, three
events in pages of two, all four deployments. `startup`: two replicas and a run of
`migrate`, two versions, so that one can be recorded without the other, and one event.
`redaction`: one save of the file (`MaxSaves`) and two reloads, enough for an older policy
to overtake a newer one, and five documents in which a field is named twice, in two
spellings, and by two rules, a line is a comment, and a rule has two action lines. `service_loops`: a feed that holds one message, two callers
and three messages, so that it is full while both send; one request (`MaxRequests`). No
run uses symmetry.

`service_loops` does not check for deadlock: a process that has exited does nothing more.
In all other runs something can always happen.

### Fairness

`PgChain`: a transaction that holds the lock runs on (`WF` of `Finish`), and PostgreSQL
queues lock waiters, so each is granted the lock in the end (`SF` of `AcquireLock`).
`AnchorJob`: the ticker keeps firing (`WF` of `ReadHead`), and a dependency is not down
for ever, so a call that is retried on every tick succeeds some time (`SF` of
`InsertAnchor` and `MarkCovered`). `EveryEventAnchored` then says that an anchor that was
stored but never marked is made good by a later tick.
`Startup`: a statement returns or fails, and `Build` goes on (`WF`).
`ServiceLoops`: handlers and runs of the anchor job return, and the loops go on (`WF`);
that a loop sees the cancelled context although messages or ticks keep coming is `SF` of
`SeeCancel` and `AnchorSeesCancel`, since Go's `select` chooses at random among the cases
that are ready. Requests need not end: the five seconds do. `EventStore`, `Sweep`,
`IngestPipeline`, `ExportJobs` and `Redaction` are checked for safety only.

## Proofs

`EventStoreProofs` proves for every set of ids, timestamps and bodies, and for logs of
any length:

* `SpineInvariance`, the inductive invariant `SpineInv`. It is needed because none of
  the properties is inductive alone: that a new row extends the spine needs that the
  head is the last row (`HeadExists`) and its digest sorted (`SpineSorted`); that a late
  row stays a leaf needs that no stored link leaves the spine (`LinksIntoSpine`,
  `OnTimeOnSpine`) and that each prefix of the spine is some row's hash (`SpineStored`).
  `InsertMovesHead` reduces an insert to the two cases, after the head or below it.
* `TypeCorrectness`, `StoreIsAppendOnly`: the type invariant and the action property.
* `HeadCommitsToSpineInvariance`, `LateRowsAreLeavesInvariance` and `WalkTheorem`, that the
  verifier's walk is contiguous if and only if no event was late. The last one needs
  that each row but the last has a next row in (ts, id) order (`SuccessorExists`).
* `FiniteLog`, and with it `EndpointAgreesWithWalkInvariance`, for pages of any size. If the
  earlier events fit on the page that the endpoint lists (`OnePageIsAll`), the last of them
  is the row before it in the walk; and if there are none, the endpoint looks at the link,
  which the walk does not, and finds it broken exactly if the event was late
  (`FirstRowLate`).
* `StoreImplementsAuditLog`: the refinement. An insert extends the spine or attaches a
  leaf, flags stutter.

`PgChainProofs`, for any number of workers:

* `PgInvariance`, the inductive invariant `PgInv`. `SpineInv` alone is not inductive here,
  since a row is linked to the head of a snapshot. What is added is `Snapshot`: the rows a
  transaction sees are rows of the table, and their hash is a prefix of the spine. If the
  spine has grown since, it grew by a row that the snapshot misses and that falls into the
  range its head query read (`SpineGrewByMissedRow`); so a commit is refused or sees
  the head, or its row is late (`CommitSeesHeadOrIsLate`).
* `PgTypeCorrectness`, `PgSpineInvariance`, `PgWalkTheorem`, `NoStaleLinkSafety` and
  `PgImplementsAuditLog` follow from it. All are for `TsPrecision = 1`: with a timestamp finer than the column's,
  `pg_timestamp` shows that not even `HashesSound` holds.

`AnchorProofs`, for any number of replicas:

* `AnchorInvariance`, the inductive invariant `AnchorInv`. It adds to the properties that
  a job holds a row that was the head once (`JobsSawHead`), that one which has stored has
  its anchor (`StoredHaveAnchor`), and that every root is a prefix of the head's digest
  (`RootsOnSpine`). `Forward` collects what every step keeps, and `ForwardKeeps` says that
  it keeps all of this.
* `AnchorTypeCorrectness`, `AnchorsMatchRowsInvariance`, `RootsNeverForkInvariance`,
  `OnlyLateRowsAnchoredUncoveredInvariance` and `AnchorJobImplementsAuditLog`, in which
  storing an anchor publishes its root.

`SweepProofs`, for pages of any size, any number of events, anchors and damaged rows, and
any windows:

* `PageFacts`: what a page leaves out of the rows after its cursor sorts after all that is
  in it, and a page that is not full leaves out nothing. It rests on the order being total
  over rows of distinct ids (`BeforeTotal`) and on a finite set of rows having a first and
  a last one (`FirstExists`, `LastExists`).
* `SweepInvariance`, the inductive invariant `SweepInv`. The property is not inductive, as
  it speaks of a walk that has ended. `Listing` says what holds between two pages: a row
  that was there at the start is listed or still ahead of the cursor. Its page step is
  `PageKeepsAhead`; inserts and flags preserve it because the log as a sweep looks at it
  only grows (`GrowingLogKeepsListing`). `FiniteTable`, that the table is finite with one
  row per id, replaces `SpineInv`, which does not survive damage.
* `WalkVisitsEveryRowInvariance`, and `AlterationIsFoundInvariance`, which adds that one
  failing row makes the walk fail (`FailingRowFailsChain`).
* `CleanReportMissesOnlyAPrefixInvariance`. A walk that does not fail over what it listed is
  a suffix of the history in the hash of its last row (`AcceptedWalkIsSuffix`). An anchor
  may name a row that came later, so `ArrivalInv` (`ArrivalInvariance`) adds what holds of
  such rows: they are linked to the head of then, and if the walk lists anything between the
  two, which came later still, it lists the row too. A row without the claimed history would have a predecessor
  without it, whose hash is shorter: so there would be a shortest one, and there is none
  (`CleanWalkAccounts`). No invariant of the whole table is used, since damage leaves none.
* `AlarmOnlyAfterDamageOrLateInvariance`. Without damage `AnchorInv` holds, and
  `UndamagedInv` (`UndamagedInvariance`) adds that the walk has missed late rows at most
  before what it has listed (`OnTimeListed`, which inserts preserve because an event on time
  comes last, `OnTimeIsLast`), and that only what an export left mismatches. That a walk over
  rows on time does not fail follows from `OnTimeNeighbours`, as in `WalkTheorem`.

`ExportProofs`, for any log, filter and deployment, pages of any size, and any number of runs
of a job at once:

* `ExportInvariance`, the inductive invariant `ExportInv`. Until the list of a run has ended,
  each matching row of the log it began with is listed or after its cursor (`Listed`, by
  `PageFacts` as in a sweep); what it then signs has the root of what it listed (`Signed`),
  and what it records was put (`WasPut`). The runs of a job share its row, so what is recorded
  is kept in `JobsOK` per job and in `ArtifactsOK` per version.
* `ArtifactMissesNothingInvariance`, `RootCoversArtifactInvariance`,
  `RecordHasItsArtifactInvariance`, `PendingOnPostgresInvariance`, and
  `ExportsImplementAuditLog`.

`PipelineProofs`, for any number of workers, messages, failures and policy reloads, and
events of any kinds:

* `BasicsInvariance`: types, the spine of the log, and that a hand holds the last message
  its worker read (`HandIsLastRead`). Every step fetches a message, returns from a handler,
  or is quiet (`StepKinds`), and only a return makes a message handled (`HandledFacts`).
  `PipelineTypeCorrectness` follows.
* `RowDescribesAVersionInvariance`. The property is not inductive: what is added is that a
  handler which is about to insert has put the object its row will describe
  (`PutBeforeInsert`), and that no step takes a version away (`VersionsStay`).
* `OrderedPartitionTheorem`. What is added is that every row was read (`RowsWereRead`), so
  that the head, to which a new row is linked, precedes it in the partition.
* `LossTheorem`. An event is lost anew only by the return of the handler that had it
  (`LossFacts`), and that return is a failure (`OnlyFaultsLose`). For the S3 client in memory
  this needs `MemoryClient`: an object that is in the way belongs to an event that is
  stored, or lost already.
* `PipelineImplementsAuditLog`: the refinement again, under workers that fail and restart.

`StartupProofs`, for any number of replicas, runners and versions:
`RecordIsTrueUnlessSpoiledInvariance` (inductive with `Progress`, how far each runner has
come), `RunnersKeepTheirPromiseSafety`, and `RowsOutliveRestartsInvariance`, which adds
that the table is there from the first `Up` that returned on (`TableStands`).

Of `Redaction`, in the same module, for any policy files and any number of reloads:

* `RedactionTypeInvariance`, that no policy in flight is older than the one that was live
  when its reload began, and from it `OlderPolicyOnlyFromOverlapSafety`.
* `HalfWrittenRedactsLessInvariance`. `Parse` is the last value of a recursive function; that
  the function exists (`RoundsExist`) and what holds of each of its values is shown by
  induction on the number of lines read (`UpTo`: a first number for which it fails would have
  a predecessor for which it holds). A line only adds to the rules before it, unless it gives
  a rule a second action (`LineExtends`), and a rule that has an action got it from a line
  after its service line (`ActionsHaveLines`). So a part of a file is extended by the whole
  (`RoundsExtend`), and the first rule of the part that names a field is the first one
  of the whole (`ExtensionSays`).
* `OnlyLowerCaseNamesCountInvariance`: line by line the file and what is left of it give rules
  that are alike in all lower-case fields (`LineAlike`, `RoundsAlike`).

`ServiceLoopsProofs`, for any number of callers, messages and requests and any capacity:
`NothingIsCutOffInvariance`; `NothingIsLostInvariance`, that what was accepted is what was
taken followed by the feed; and `NothingVanishesInvariance`. The order of commits is not
inductive alone: it needs that no message is sent twice (`SentOnce`), so that each has one
place among those taken.

The assumptions on the constants are `EventAssumption` (ids and timestamps are natural
numbers, of which only the order is used), `HoldAssumption`, `AnchorAssumption`,
`PageAssumption` (a page has room for a row), `SweepAssumption`, `ExportAssumption`,
`NoJobAssumption`, `IngestAssumption`, `MigrationsAssumption`, `StartupAssumption`,
`RedactionAssumption`, `DocumentsAssumption`, `PgAssumption`, `FakeAssumption` and
`RequestsAssumption`. They say what the constants range over and that values such as `None`
are none of the data; TLC evaluates all of them.

Every safety invariant and action property of a passing run is stated by a theorem.
Model-checked only are the liveness properties, which are out of the prover's reach:
`EveryInsertReturns`, `EveryEventAnchored`, `AlwaysBoots`, `AcceptedIsHandled` and
`ShutdownReturns`. What the three runs that expect a violation show needs no proof.

## Not modelled

`KMS` signing is a call that succeeds or fails. Authentication is a stateless check per
request. Configuration, metrics and tracing have no state the behaviour depends on. The
attribute filters of `List` only select rows. `Insert`, which does not chain, and
`MerkleRoot` have no caller outside tests, and neither have `Delete`, the expiry of a
retention and the lifecycle transitions of the in-memory S3 client. That client's map has
no lock, so that a `Put` beside a `PresignGet` can end the process; `Stop` and `Exit` are
such an end. A legal hold is set on the row and never on the S3 object (`api.go:383`),
which README.md:239-241 of the repository does not say; the lifecycle of the bucket is
outside the code. A UUID that is not in canonical lower-case form, which PostgreSQL would
return in another spelling than the one hashed, is the same effect as `pg_timestamp` and
not modelled again.
