# MobilityFlow in TLA+

This directory holds a TLA+ model of MobilityFlow, a small traffic data
platform: events and snapshots land as Parquet objects in a bronze layer, a
Spark job turns them into silver files and warehouse rows, dbt tests them and
builds marts, and a control API decides whether the last run may be delivered.
Paths below are relative to `src/`.

    tlc -config BronzeToSilver.cfg MCBronzeToSilver.tla      # check a model
    tlapm BronzeToSilverProofs.tla                           # check the proofs

## Inventory

| Component | State it keeps | Operations | Talks to |
| --- | --- | --- | --- |
| Spark job endpoint, `src/mobility_flow/spark_runner.py` | `JOB_LOCK`, the frame of a running job | `POST /jobs/bronze-to-silver`, `GET /bronze/stats` | object store, database |
| Operational database, `database.py` | `raw.traffic_observation`, `ops.object_manifest`, `ops.pipeline_runs` | `processed_object_keys`, `start_pipeline_run`, `finish_pipeline_run`, `load_traffic_rows` | PostgreSQL |
| Object store client, `storage.py` | objects by key | put, list, download | MinIO or S3 |
| Bronze writer, `bronze_writer.py` | `records`, `pending_offsets`, `running`, the consumer's position, the dead letter producer's queue | `handle`, `should_flush`, `flush`, `run`, `stop` | Kafka, object store |
| Event simulator and producer, `simulator.py`, `producer.py` | none that outlives a run | `main` | Kafka |
| Seoul source, `seoul_citydata.py` | raw, bronze, quarantine objects, the latest report | `fetch_area`, `sync_seoul_citydata` | HTTP source, object store |
| Batch ingest, `batch_ingest.py` | none between calls; accepted and rejected objects | `ingest_file` | files, object store |
| Control API, `api.py` | none of its own | `update_run`, `build_delivery_manifest`, `sync_seoul_source`, the queries of the dashboard | database, object store, Seoul source |
| Airflow DAG, `airflow/dags/mobility_flow.py` | task states and their results | five tasks with retries and timeouts | control API, Spark job, dbt |
| dbt warehouse, `dbt/` | incremental fact, dimension, marts | `dbt build`, `dbt source freshness` | PostgreSQL |
| Failure drill, `scripts/failure_drill.sh`, `failure_report.py` | a report | the drill | all of the above |
| Evidence, cloud publishing, runtime checks | none | command line tools | files, S3, HTTP |
| Dashboard, monitoring, infrastructure, CI | none | declarations | |

The Kafka path and the Seoul path meet in the bronze layer, under two
prefixes. The job lists one prefix, consults the manifest by key, downloads
what is not yet processed, keeps the newest row of each event, uploads silver
parts under the run's prefix, and loads rows and manifest in one transaction.
The DAG starts it every fifteen minutes with a run id that is the same for
every retry, then runs dbt, then closes the run as SUCCESS through the API,
which serves the last successful run as the delivery.

### What is hard in it, and what makes it correct

* **Spark job.** Its effects are separate: run row, listing, manifest query,
  downloads, uploads, load, run row. Producers overwrite objects between the
  listing and a download; a client that gives up leaves the job running; an
  effect may raise after it took place; the container may be killed. Correct:
  the manifest and the warehouse agree, every row has a real origin and a
  delivered silver artifact, two jobs never process the same object, a replay
  never turns a row back, a run claims only what is loaded, and every object is
  processed at last.
* **Bronze writer.** Offsets, records and dead letters are three memories that
  must be forgotten and committed together; a rebalance resets the position but
  not the memory; upload and commit are two calls. Correct: no valid message
  below a committed offset is missing in the lake, a stop flushes, the batch is
  bounded, duplicates are bounded by interruptions, invalid messages are
  quarantined before they are passed, and nothing waits for ever.
* **DAG, run row and delivery.** The run row is written by the job and by two
  DAG tasks; retries reuse it; timeouts on either side desynchronise them.
  Correct: a READY delivery has what the runbook says, and belongs to rows that
  passed dbt; no update of a try that was given up clobbers a job in progress;
  every DAG run ends.
* **Seoul source.** One area may fail after others were stored; a request the
  DAG gave up may still run beside its retry. Correct: what is bronze has its
  raw payload; every row of a preserved response is accepted or quarantined; an
  object stored again holds the same events; collecting again within a snapshot
  adds no event; a report names what is stored.
* **dbt.** The nodes of a build read the database one after the other while
  loads commit in between, and the incremental fact selects by `loaded_at`, the
  start of a transaction. Correct: the fact misses no row; marts that passed
  belong together; a gate that failed recovers within the tries of its task.
* **Batch ingest, schemas.** The command is run again, on another day, beside
  itself, or after one of its two uploads failed. Correct: every row is kept
  exactly once, accepted or rejected; what is accepted can be loaded.

## Modules

| Module | What it is |
| --- | --- |
| `LoadOnce` | abstract specification: objects land, a batch of landed objects is recorded and its events enter the table in one step |
| `SparkJob` | the same endpoint as the rest of the platform sees it: landed objects, manifest, run rows, one job |
| `BronzeToSilver` | the Spark job endpoint with the lake and the three tables |
| `MCBronzeToSilver` | two objects that share an event, and the symmetry of runs and threads |
| `BronzeToSilverProofs` | the proofs about it |
| `SparkJobProofs` | the proof that `BronzeToSilver` implements `SparkJob` |
| `Pipeline` | the DAG composed with `SparkJob`, the run row, the late updates, dbt and the delivery |
| `PipelineProofs` | the proofs about it |
| `MCPipeline` | the number of retries, the symmetry of objects and runs |
| `BronzeWriter` | the Kafka consumer with the topic, the dead letter topic and the lake |
| `BronzeWriterProofs` | the proofs about it |
| `SeoulSync` | the source sync with its three prefixes |
| `SeoulSyncProofs` | the proofs about it |
| `MCSeoulSync` | areas, and two versions of what the source answers about each, one without area code |
| `FullRefresh` | abstract specification: every build of the fact copies the raw table |
| `Warehouse` | the raw table with its loads, the five dbt models, the tests that can fail, and the builds |
| `MCWarehouse` | three events of two segments, and what loads may bring |
| `WarehouseProofs` | the proofs about it |
| `RowContract` | the classification of a row and the constraints of the raw table as operators, in three-valued logic |
| `BatchIngest` | the file ingest, on top of them |
| `BatchIngestProofs` | the proofs about both |
| `MCBatchIngest` | three files with rows at and beyond every bound, and two column maps |

### BronzeToSilver

One action per effect of `_run_transform`, in the code's order; `pc` is the
place of a request thread between two of them.

| Action | Code |
| --- | --- |
| `Put` | a producer stores or overwrites an object of the prefix |
| `Request`, `Return` | `JOB_LOCK.acquire`, the `finally` that releases it |
| `StartRun`, `StartRaises` | `start_pipeline_run`, outside the `try` |
| `List`, `Filter`, `NoData` | `list_objects`; `processed_object_keys` unless forced; the early return |
| `Download` | one download of the thread pool, in any order |
| `Deduplicate` | from the last download to `transformed`: the newest row of each event, ties broken freely as `row_number` does |
| `Upload`, `Load`, `Finish` | one silver part; the transaction of `load_traffic_rows`; `finish_pipeline_run` |
| `Raise`, `Fail`, `FailUnrecorded` | an exception, and the `except` clause |
| `CloseRaises` | the call that closes the row raises after it is written |
| `Crash` | the container is killed and restarted |

An effect that raises may have taken place or not: the interleaving of the
effect's action and `Raise` gives both. A row is its object and the instant it
was ingested; the instant stands for the etag too, since an overwrite changes
both. Silver parts are as fine as one event, which subsumes every partition
into files. A 409 is the absence of `Request`. Counts and `dbt_status` are in
`Pipeline`, `loaded_at` is in `Warehouse`.

### SparkJob and Pipeline

`SparkJob` hides the threads, files and rows of `BronzeToSilver`: its `Load` is
all from the first download to the transaction. `BronzeToSilver` implements it
under the mapping `Landed`, `RunOf`, `StatusOf`, `SourcesOf`, `TheJob`
(`ImplementsSparkJob`, checked and proved). `Pipeline` extends `SparkJob`, so that
what the DAG relies on is what the endpoint does.

| Action | Code |
| --- | --- |
| `Schedule` | the schedule or a trigger; `max_active_runs=1` |
| `TryFails` | a try ends without a further effect: a request that cannot be made or times out, `execution_timeout`, an uncaught `TimeoutExpired` of dbt, a worker that dies |
| `Stores` | a sync stores an object: for the try that asked for it, after that try was given up, or by hand |
| `Sync`, `Wait` | `sync_seoul_live_traffic` has its answer; `wait_for_bronze` |
| `Submit`, `Conflict` | `spark_transform` is admitted, or gets 409 |
| `Backfill` | a forced request by hand under a run id of its own (`docs/runbook.md` 48-62) |
| `JobStarts`, `JobDoesNotStart`, `JobWorks`, `JobFindsNothing`, `JobFinishes`, `JobRaisesClosing`, `JobFails` | the actions of `SparkJob` with the columns they write; `Answer` is the HTTP response, which a try that still waits receives or loses |
| `Skip` | `dbt_quality_gate` after `NO_DATA` |
| `Build`, `BuildPasses`, `BuildFails` | `dbt build` and `dbt source freshness`, and the update that marks the run FAILED |
| `PublishNothing`, `Publish` | `publish_success` |
| `Apply`, `GiveUp`, `ApplyLate` | `PATCH /ops/runs/{run_id}`: applied and answered, or the client gives up after 15 seconds and the update is applied soon, late or never |
| `LastSuccessful`, `Ready` | `GET /api/delivery/latest` and the conditions of `build_delivery_manifest` |

A sync stores any number of objects, one after the other, and may go on when the DAG
has given it up: `Stores` is bound to no task, and the try of `sync` ends by `Sync` or
`TryFails` whatever was stored. What a sync does is `SeoulSync`.

Two conditions of READY are not modelled apart: the update that writes
`source_objects` writes the reconciled counts and the artifacts too. dbt is a
pass or a failure, with what was loaded when the build began. `started` orders
the run rows as `started_at` does, reopened rows included. `Retries` is a
CONSTANT.

### BronzeWriter

| Action | Code |
| --- | --- |
| `Handle` | `poll()` returns a message, `handle` tracks its offset and keeps it or routes it to the dead letter producer, `should_flush` for a full batch |
| `FlushByTime` | `should_flush` by the clock; it is enabled whenever offsets are pending, so the clock may be anything |
| `LastFlush` | the `flush` after the loop |
| `Upload`, `DlqFlushed`, `DlqTimesOut`, `Commit` | the body of `flush`, call by call |
| `UploadRaises`, `CommitRaises` | the exception leaves `run`; the call took place or not |
| `DlqDeliver`, `DlqDrop` | the background thread of the dead letter producer |
| `Rebalance` | the position goes back to the committed offset; no callback is registered, so the memory stays |
| `Stop`, `Kill`, `Restart` | SIGTERM or SIGINT, anything harder, `restart: unless-stopped` |

A signal that arrives during `poll()` is served when `poll()` returns, before
`handle`; that is the order `Handle`, `Stop` of the model. A full local queue of
the dead letter producer raises out of `handle` and ends the process, which is
`Kill`.

### SeoulSync

| Action | Code |
| --- | --- |
| `Start` | `POST /ops/sources/seoul-citydata/sync`: `sync_seoul_citydata` begins, and takes the instant |
| `Fetch`, `FetchFails` | `fetch_area`: an answer; or a failed attempt, the third of which raises |
| `UploadRaw`, `UploadBronze`, `UploadQuarantine` | the uploads of one area, in order |
| `FinishArea` | the area joins the report; the next area, or the report is returned |
| `UploadRaises`, `Kill` | an upload raises, before or after it took place; the process is killed |
| `Tick` | time passes |

A payload is an area and a version of the source's answer, which stand for its
SHA-256, and fixes which links `_normalize_road` accepts and rejects, and the area
code (`Code`): `AREA_CD` of that answer, or UNKNOWN when it has none, so that one
area may have two codes and two areas may share one. Two rows of one link in one
payload, and the dates in the keys, which follow from the snapshot, are left out.
Every key carries the snapshot and the digest, so that `KeyFixesEvents` is a
property, and it is the one that `BronzeToSilver` assumes of its `Put`: an
overwritten object keeps its events, only their instant changes.

### Warehouse

| Action | Code |
| --- | --- |
| `BeginLoad`, `CommitLoad`, `AbortLoad` | the transaction of `load_traffic_rows`: `NOW()` is fixed when it begins, the rows appear when it commits. The job holds `JOB_LOCK`, so that there is one at a time. A load that is committed makes dbt due, with three tries, when it is that of the DAG's transform and its answer arrives; the load of a backfill, or one whose answer is lost, does not |
| `StartBuild`, `EndBuild` | a try of `dbt_quality_gate`: `dbt build`, and `dbt source freshness` after it; a node runs once all it depends on has succeeded, and a failure skips what depends on it. After a try that failed the next is due; after the last, or one that passed, nothing builds before the next load that makes dbt due (`mobility_flow.py:102-104`) |
| `RunModel` | a model replaces its table by what it selects now: `Fact`, `Dim`, `LatestTables`, `Alerts`, and the count of the hourly mart |
| `RunTest` | a test passes or fails on what is there now |
| `NodeFails`, `KillBuild` | a statement fails by itself; the timeout of the task, or its worker dies: the try has failed |
| `Tick` | time passes, and data turns stale |

A row is its level and its `loaded_at`; the segment, `observed_at` and source of an
event are fixed, and `ingested_at` may break a tie either way. dbt waits for a test
before it builds a model that depends on all the test reads: `relationships` comes
before the alerts, but not before the latest mart. Left out are the tests that hold
by the select of their model (`unique` after `distinct on`, `row_number`,
`group by`) or by a constraint of the raw table, and the staging view, which
selects everything. A build by hand is left out: it would only add to what the DAG
does. `Materialize` is dbt's `table` and `incremental`; what the models select is in
`Fact`, `Dim`, `LatestTables`, `Alerts`.

### RowContract and BatchIngest

`RowContract` has the `CASE` of `classified` as a sequence of conditions with
their reasons (`Rules`, `RejectReason`), and the constraints of the table
(`MeetsRawConstraints`). A condition on NULL is NULL,
and `CASE` takes a `WHEN` that is true only: that is what the module is about. `Row`
is what `normalized` makes of any file: a text or a quantity that is missing or cannot
be cast is Null, but the vehicle type, which has a default.

| Action | Code |
| --- | --- |
| `Start` | `ingest_file` up to the uploads: the fingerprint, the classification, the date of both keys. Options that do not fit the file are refused; a dry run ends here and is left out |
| `UploadAccepted`, `UploadRejected` | the two uploads, each left out when it has no rows |
| `Report` | the answer |
| `Dies` | an upload raises, having taken place or not, or the process is killed |
| `Midnight` | the next date |

A file stands for its SHA-256. Event ids are the column, when it has a value, or a
digest of the fingerprint and the row number. The timezone is left out, which the
fingerprint does not contain: the rows of a fingerprint are fixed.

## Runs

| Run | Configuration | What it shows |
| --- | --- | --- |
| `bronze_to_silver` | 2 objects sharing an event, 2 runs, 2 threads, 2 instants, 3 puts, 1 fault | the safety properties, the inductive invariant and the refinement of `LoadOnce` |
| `bronze_to_silver_liveness` | the same with 1 run, 2 puts, 2 faults, no symmetry | every landed object is processed |
| `bronze_writer` | 2 partitions, 3 messages, batches of 2, 2 interruptions, 1 dead letter fault, no symmetry | the safety properties, the inductive invariant, and that every message arrives |
| `bronze_writer_dlq` | 1 partition, no interruption, 1 dead letter fault | **violated**: an invalid message is passed before its dead letter is delivered |
| `pipeline` | 2 objects, 3 run ids, one retry of job, dbt and publish | the safety properties of delivery and run row |
| `pipeline_liveness` | the same with 2 run ids, no symmetry | every DAG run ends |
| `pipeline_retry` | 1 object, 1 run id | **violated**: a run all of whose tasks succeeded has loaded an object that no build has tested |
| `seoul_sync` | 2 areas or 1, 2 threads, 3 syncs, 2 versions, 4 instants in 2 snapshots, 1 fault | the three prefixes, the report, keys and event ids over time |
| `warehouse` | 3 events of 2 segments, 2 loads, 3 instants of which data is fresh for 2, 1 fault; builds as loads make them due | the incremental fact, the marts, the refinement of `FullRefresh`, and that the gate recovers |
| `warehouse_unknown` | the same | **violated**: an alert whose action its test does not accept |
| `batch_ingest` | 3 files, 2 column maps, 2 processes, 4 ingests on 2 days, 2 faults; a file with 39 rows | every row once; which of the accepted rows can be loaded |
| `batch_ingest_null` | the same, 1 fault | **violated**: a row without a segment is accepted and cannot be loaded |

Deadlock is not checked in the three `pipeline` runs, where run ids are used up, in
`seoul_sync`, where `MaxSyncs` bounds the requests, in the `batch_ingest` runs,
where `MaxIngests` bounds the calls, and in the `warehouse` runs, where `MaxLoads`
bounds the loads and builds follow loads: no request comes, and the system may stop.

Why the bounds are enough. Two objects that share an event, with one put to
spare, give each of: a duplicate across objects, an overwrite between listing
and download, a tie, an object that lands during a job, a forced replay over an
older one. Two threads and two runs give the contention for the lock and the
retry under the same id; one fault reaches every place, before or after the
effect. For the writer, two partitions and batches of two give batches that mix
partitions and kinds; two interruptions give a rebalance followed by a raised
commit or a kill. For the pipeline, one retry gives every pair of a try that was
given up and the one after it; three run ids give a delivery, a backfill and a
run after them, over objects old and new. For the sync, two threads give the
request that was given up beside its retry, two areas the failure of the second
after the first is stored, two versions an answer that changed or lost its area code
(the two areas then share UNKNOWN and a link), a third sync a collection in a later
snapshot. For the warehouse, two loads are what an overtaking
needs (the mutant without the lock loses a row with two), and the batches let a
segment appear, change its level and be loaded again; one fault falls on any node. Three tries
are the code's: one is lost to the fault, one to the load that comes in between, and the
third passes; with two `GateRecovers` is violated.
For the ingest, four calls give a failed one, its repetition on the next day and two
at once; the rows have each column at its bounds, beyond them and missing, one column
at a time, since the conditions do not combine columns but for the speed index, which
has rows of its own. The proofs remove the bounds for what they cover.

What the properties say:

* `WarehouseExact`: the events with a warehouse row are exactly those of the
  objects recorded as processed. `RowsHaveProvenance`: each row comes from a
  version really stored. `SilverBacked`: the run the manifest names for the
  object of a row delivered that very row. `RunClaimsOnlyLoaded`: a
  `source_manifest` names only loaded objects.
* `ProcessedOnce`: a request that does not force never touches a processed
  object. `ReplayKeepsNewest`: a forced replay never turns a row back, unless its
  own object was overwritten since. For requests that do not force this does not
  hold, and is not claimed: the upsert is unconditional, so an object that lands
  late with an older ingestion of the same event replaces the newer row.
* `ImplementsLoadOnce`, `EveryObjectIsLoaded`: the refinement, and its liveness.
* `NoAcceptedLoss`, `StopLosesNothing`: nothing valid is lost.
  `RecordsBounded`, `CopiesBounded`: memory and duplicates are bounded.
  `QuarantinedUnlessDlqFails`: invalid messages are quarantined as long as the
  dead letter producer neither lags nor drops; `InvalidQuarantined`, without the
  condition, is what the runbook confirms and is violated.
  `EveryMessageArrives`: every message produced is at last in the lake or among
  the dead letters. `NothingHeldBack`: what is consumed does not wait for its commit
  for ever. That the committed offset passes every message for good is not claimed,
  see below.
* `ReadyIsTested`: a READY delivery, and everything loaded by executions started
  no later than it, went through a dbt build that passed. It is the reason why a
  backfill or an interrupted job cannot slip rows behind a delivery: a build tests
  what is loaded, not what its run has loaded. `ReadyIsConsistent`: the columns of
  a READY row, written by several executions and updates, fit each other.
* `RunningRow`: while a job runs, nobody else writes its row. `SuccessSticks`:
  a SUCCESS is taken back only by an update whose client had given up; such an
  update exists (a FAILED of a try given up, applied after the retry's SUCCESS).
* `RetryReplaysBatch` is the claim of `mobility_flow.py:54-55` and is violated.
  `EveryRunEnds`: liveness.
* `Lineage`, `NothingDropped`: what is derived is preserved, and what is
  preserved is accounted for. `NothingDropped` excepts keys at which a sync broke
  off: its retry may get another snapshot and another digest, and the rows in
  between then stay in `landing/` alone. `ReportsHold`: a report is true when it is
  returned and as it grows, beside other syncs.
* `RecollectionDeduplicates`: two collections within a snapshot give a link the same id
  exactly when their answers have the same area code. So what the repository's
  `README.md:119-120` says of `area_code + LINK_ID + snapshot_at` holds, and what
  `docs/data-contract.md:31` says of every recollection does not, see below. In the other
  direction only areas that share UNKNOWN can take each other's rows.
  `KeyFixesEvents`: the same key holds the same events. `ingested_at` may go back when a slow
  sync stores over a faster one, and no property says otherwise.

* `FactMissesNothing`: what is older than the newest row of the fact is in it as it is
  in the raw table. `ImplementsFullRefresh`: so every build leaves what a full refresh
  would. Both rest on the lock of the job: with two loads at a time, one that began
  earlier and commits later is skipped for good (`BeginUnlocked`).
* `PassedMartsAgree`: after a build that passed, the latest rows, the alerts and the
  counts come from one fact; a segment that the dimension has not, which the join of
  the alerts would drop, fails the relationships test first. `GateRecovers`: when
  dbt has become due, it passes within its three tries, whatever earlier builds have left
  behind, if the data stays publishable. It is stated for one load in between and one
  fault: each further one may cost a try, and when the tries are spent the DAG run has
  failed and the next load must make dbt due again.
* `AlertsAccepted` is the test of `mart_congestion_alerts` and is violated.
* `EachRowOnce`: after an ingest has reported, each row of its file is in the
  quarantine or is one event, over repetitions, days, processes and failures, and no
  row of another file has its id unless the file brings ids of its own.
* `AcceptedRowsLoad` is what the schema of the raw table asserts and is violated;
  `NamedRowsLoad` says how far it holds: of the rows that are accepted, exactly those can
  be loaded that have a segment and whose speed index is not rounded to 0
  (`spark_runner.py:197`, `database.py:33`). That they meet the contract of an event
  (`schemas.py`) is not claimed: the ingest asks neither for the lengths of ids nor for
  those of names.

A committed offset may move backwards: after a rebalance the position is reset
but the pending offsets are kept, and a batch committed later may end before
one committed earlier. This is harmless, since what lies between is in the lake
already; it costs copies, which `CopiesBounded` bounds. Such a commit may be the
last one, and then the group starts there again at its next restart.

### Fairness

* `BronzeToSilver!Spec`: weak fairness of the steps of each thread (a job runs
  without waiting for anybody) and of the arrival of requests (the schedule of
  the DAG). No fairness of any fault.
* `BronzeWriter!Spec`: weak fairness of the loop, of the dead letter producer's
  background thread, and of the container's restart. No fairness of rebalances,
  timeouts, stops and kills, whose number is bounded.
* `Pipeline!Spec`: weak fairness of `DagStep`, that is, of Airflow and its
  workers: a task is taken up, and every try ends, at the latest by its timeouts.
  No fairness of the job, of syncs, of late updates, of schedules and backfills:
  `EveryRunEnds` holds although the job may hang.
* `Warehouse!Spec`: weak fairness of `Dbt`, that is, Airflow starts a try that is due
  (its first, or a retry), and a build that has begun goes on. No fairness of loads, which
  alone make dbt due, of the clock and of faults, whose number is bounded; a load that
  never ends does not block a build, which reads what is committed.
* `SeoulSync!Spec` and `BatchIngest!Spec` have no fairness; no liveness is claimed.

## Proofs

For every value of the constants, under `ConstantsAssumption` of the module.

* `BronzeToSilverProofs`: `TypeCorrectness`, `Invariance`, and from them
  `WarehouseIsExact`, `Provenance`, `SilverDelivery`, `RunClaims`,
  `ProcessedOnceHolds`, `ReplayKeepsNewestHolds`, and `Implementation`, that the
  endpoint implements `LoadOnce`. The invariant `IInv` adds to the four state
  properties: that the holder of the lock is the one thread in the job
  (`Frames`); that what is processed is still stored in some version
  (`Stored`); what is selected at each place (`Selections`), which is where the
  lock matters, since a selection disjoint from `Processed` stays so only because
  nobody else loads; what is downloaded (`Fetches`) and about to be loaded
  (`Batches`). A step is first shown to keep types and frames (`StepBase`), then
  the data (`StepData`), where all steps but `Load` and `Put` go through one
  lemma each for what they leave alone (`TablesKept`, `JobsKept`).
* `SparkJobProofs`: `JobImplementation`, that the endpoint implements the coarse
  job. It uses `Invariance`: `Frames` makes the holder of the lock the one job.
  One lemma per action maps it to an action of `SparkJob`; downloads,
  deduplication and uploads stutter.
* `BronzeWriterProofs`: `TypeCorrectness`, `Invariance`, `NothingAcceptedIsLost`,
  `StoppingLosesNothing`, `RecordsAreBounded`, `DeadLettersAreKept`,
  `CopiesAreBounded`. The
  invariant says that a valid message below the position or below a pending
  offset is in the lake or in memory (`Remembered`), the same of dead letters
  (`DeadLetters`), and that only a full batch waits for its flush (`BatchInv`).
  The pending offsets have to be part of it, not the position alone: after a
  rebalance they are ahead of it, and they are what is committed. For the copies of a
  message the invariant is a sum (`CopyInv`): those in the lake, those the batch in
  memory will add, and one if the message is still to be consumed, or will be again
  after a restart, are at most one more than the interruptions. Handling moves one unit
  from the last term to the second, an upload the second into the first, and only an
  interruption adds one (`CopyStep`).
* `PipelineProofs`: `TypeCorrectness`, `Invariance`, `RunningRowHolds`,
  `DeliveryIsConsistent`, `DeliveryIsTested`, `SuccessSticksHolds`. The argument is who
  may still write a row. A run is past its job (`PastJob`) when its job has ended and its
  DAG run, if it goes on, is at `dbt` or `publish`; what the last two tasks and the updates
  that were given up write belongs to such runs only (`Ownership`), from which
  `RunningRow` follows, and a run that is SUCCESS or may become so (`Published`) is past
  its build too. For the tests, the job in progress started last (`Newest`), so that
  what it loads is claimed by an execution later than every published run, and cannot
  slip behind one: `Covers(tested, r)` holds from the build on for ever. It is proved
  for every run that is SUCCESS, not the last one alone. `SuccessSticks` needs that a
  run id is used once.
* `SeoulSyncProofs`: `TypeCorrectness`, `Invariance`, `LineageHolds`,
  `NothingDroppedHolds`, `ReportsHoldAlways`, `RecollectionAddsNothing`,
  `KeyFixesEventsHolds`. A key is made of the digest and the snapshot, and so fixes what
  any thread ever stores under it (`StoreInv`); a thread is at a place only when what it
  stores before is stored (`ThreadInv`), and nothing is ever taken away. `RecollectionAddsNothing` is an equivalence, of ids
  with area codes. The arithmetic of snapshots is in `SnapshotInRange` and
  `SameSnapshot`.
* `BatchIngestProofs`: `TypeCorrectness`, `Invariance`, `EachRowOnceHolds`,
  `NamedRowsLoadHolds`. All objects of a fingerprint hold the same rows, whoever stored
  them and when (`Contents`); an ingest past an upload left its object (`Uploads`), and a
  report finds both (`Reports`). So repetitions bring the same events, and ids differ
  unless rows bring their own (`EventIds`). `AcceptedValues` says for every `Row` what the
  `CASE` leaves of it, one step for each `WHEN`, and `AcceptedRowLoads` that this is what
  the table asks but for the two exceptions of `NamedRowsLoad`.
  It assumes that NULL is no text and that no reason is no reason (`NoValueAssumption`),
  and that the rows of a file are in `Row`.

* `WarehouseProofs`: `TypeCorrectness`, `Invariance`, `NothingIsMissed`, `MartsAgree`,
  `Implementation`. The invariant `IInv` needs, for the fact, that nothing in the raw
  table is later than the load in progress (`LoadsInOrder`, where the lock enters) and
  that the fact is never ahead of the raw table (`FactBehind`); `FactIsRaw` then says
  that the incremental select gives the raw table, and the refinement follows. For the
  marts it needs that what has succeeded in a build depends on what has succeeded, so
  that no table is replaced below another that is done (`BuildInv`).

The assumptions are on the sorts of the constants: bounds are natural numbers, batches
are not empty, `None` and `Null` are told from values. None bounds objects, runs, threads,
retries, messages, files or rows; what is finite is what code counts (the links of an
answer, the rows of a file), and in `PipelineProofs` it is proved that what a job selects
is finite.

Every safety invariant and every action property that a passing run checks is proved.
Model-checked only are the liveness properties (`EveryObjectIsLoaded`,
`EveryMessageArrives`, `NothingHeldBack`, `EveryRunEnds`, `GateRecovers`), which are
outside what the proof system does, and of course the four properties that are violated.
`SparkJob`, `LoadOnce` and `FullRefresh` have no proofs of their own: what they promise is
proved of what implements them.

## Findings

1. `bronze_writer_dlq`: `flush` ignores what `dlq_producer.flush(10)` returns
   (`bronze_writer.py:123`) and commits. An invalid message whose dead letter is
   still queued is passed, and lost when the process then ends. The failure drill of
   the runbook (`docs/runbook.md:72`) says that it verifies that invalid events are
   separated into the dead letter topic; its assertion (`failure_report.py:24`)
   reads a counter of calls to `produce`, not of deliveries.

2. `pipeline_retry`: the DAG says that a retry can safely replay an interrupted
   batch (`airflow/dags/mobility_flow.py:54-55`). When the load has committed and
   the job then dies, or its answer is lost, there is nothing to replay: the
   manifest excludes the objects (`spark_runner.py:121-122`), the retry answers
   NO_DATA, the build is skipped (`mobility_flow.py:102-104`), `publish_success`
   returns (159-160), and the run is green. The rows are in the raw table untested
   until a later run builds. They are never behind a READY delivery: that is
   `ReadyIsTested`.

3. `warehouse_unknown`: `mart_congestion_alerts` gives the action NONE to a segment
   whose latest level is UNKNOWN (`mart_congestion_alerts.sql:23`, 33), and the test
   of the column accepts the three other actions (`marts/schema.yml:44-48`). UNKNOWN is
   what the source says when it has no information (`seoul_citydata.py:34`) and is
   accepted everywhere else. One such segment fails the build of everything, and the run
   is FAILED, until the segment is observed again.

4. `batch_ingest_null`: `NOT regexp_full_match(segment_id, ...)` is NULL for a row
   without segment (`batch_ingest.py:178`), so that the row is accepted, while every
   other column is asked `IS NULL` first. The raw table has `segment_id TEXT NOT NULL`
   (`database.py:18`): the transaction that loads the object raises, in every run that
   lists it.

A divergence that has no run of its own, since it is one half of a property that holds
(`RecollectionDeduplicates`, in `seoul_sync`): the area code comes from the answer, or is
UNKNOWN (`seoul_citydata.py:206`, 252), and is part of the stable key of an event (132).
An area that is collected again within a snapshot, with `AREA_CD` in one of the answers
only, has two event ids for each link, and two rows in the warehouse, while
`docs/data-contract.md:31` says that a recollection of the same snapshot makes the same
`event_id`.

## Not modelled

* The contents the simulator draws: random data without state of interest. The timezone
  of a file ingest, trace ids, trimming, lengths of texts, and with them the fields of the
  event contract (`schemas.py`): a message is valid or invalid.
* The failure drill: a script that polls the platform and keeps no state. Its faults
  (the writer stopped while events arrive, a job repeated) are actions of `BronzeWriter`
  and `BronzeToSilver`. It looks at the default prefix `bronze/seoul_citydata/`, while
  the writer and the file ingest store under `bronze/traffic_observations/`.
* The prefixes apart: a job lists one prefix, and the DAG only ever the one of the Seoul
  source, so that objects of the writer and the file ingest wait for a request that names
  theirs. `BronzeToSilver` models one prefix, the one that is asked for.
* Evidence, cloud publishing and runtime checks: command line tools that read a
  report and print or upload it.
* The dashboard and its queries, monitoring, infrastructure, CI: read-only or
  declarative.
* `ensure_bucket`, which the compose file makes a formality (`minio-init` creates the
  bucket first), logging, metrics endpoints, and `GET /bronze/stats`.

## Plan

What is left, in this order.

1. `BronzeWriter` against an abstract specification of delivery: topic, lake and dead
   letters as sets, a group offset that passes a message only when it is in one of them.
2. `BatchIngest` and `SeoulSync` against one of a store that is written under keys that
   fix their contents, which is what `BronzeToSilver` assumes of its producers.
3. `BronzeWriter` composed with `BronzeToSilver`: a valid message is in the
   warehouse at last. The keys of the writer are new for each flush, so `Put` of
   the composition is the writer's `Upload`.
