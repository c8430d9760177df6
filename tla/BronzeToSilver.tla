--------------------------- MODULE BronzeToSilver ---------------------------
(***************************************************************************)
(* The Spark job endpoint (spark_runner.py) with what it reads and writes: *)
(* the bronze and silver objects in MinIO, and the tables                  *)
(* raw.traffic_observation, ops.object_manifest and ops.pipeline_runs of   *)
(* PostgreSQL (database.py).                                               *)
(*                                                                         *)
(* A request runs as a sequence of separate effects: the run row, the      *)
(* listing, the manifest query, one download per object, one upload per    *)
(* silver part, the loading transaction, the closing of the run row.  In   *)
(* between, producers put new objects and overwrite old ones, other        *)
(* requests arrive, any effect may raise, and the process may be killed.   *)
(*                                                                         *)
(* Data: the key of an object fixes the event ids in it; overwriting it    *)
(* changes only the instant its rows were ingested, which therefore also   *)
(* stands for the etag.  A row is the object it came from and that         *)
(* instant.                                                                *)
(***************************************************************************)
EXTENDS Naturals, FiniteSets

CONSTANTS
  Keys,          \* keys under the requested prefix
  Events,        \* event ids
  EventsOf,      \* the event ids in the rows of an object
  Runs,          \* run ids a client may name
  Threads,       \* request threads of the one uvicorn worker
  MaxInstant,    \* bound: instants at which a producer stamps its rows
  MaxPuts,       \* bound: objects stored, the overwriting ones included
  MaxFaults,     \* bound: exceptions, lost database calls and kills
  None

Instants == 1 .. MaxInstant
Row == [key : Keys, ingested_at : Instants]
ManifestRow == [etag : Instants, run_id : Runs]
TransformRequest == [run_id : Runs, force : BOOLEAN]

ASSUME ConstantsAssumption ==
  /\ EventsOf \in [Keys -> SUBSET Events]
  /\ MaxInstant \in Nat /\ MaxPuts \in Nat /\ MaxFaults \in Nat
  /\ None \notin Row \cup ManifestRow \cup TransformRequest \cup Threads \cup Runs

VARIABLES
  bronze,     \* the instant of the object stored under a key, 0 when absent
  put,        \* history: the versions ever stored
  silver,     \* rows of the silver parts, with the run prefix they lie under
  raw,        \* raw.traffic_observation by event_id
  manifest,   \* ops.object_manifest by object_key
  runs,       \* ops.pipeline_runs: status and details.source_manifest
  lock,       \* JOB_LOCK: the thread that holds it, or None
  pc,         \* where a request thread is in _run_transform
  request,    \* the TransformRequest a thread serves
  objects,    \* the selected ObjectInfos: etag by key, 0 when not selected
  fetched,    \* the version downloaded for a key, 0 before
  batch,      \* the deduplicated rows by event_id
  faults      \* faults so far

lake == <<bronze, put>>
database == <<raw, manifest, runs>>
locals == <<request, objects, fetched, batch>>
vars == <<bronze, put, silver, raw, manifest, runs, lock, pc, request, objects,
          fetched, batch, faults>>

NoObjects == [k \in Keys |-> 0]
NoRows == [e \in Events |-> None]

Selected(o) == {k \in Keys : o[k] # 0}
EventsIn(K) == UNION {EventsOf[k] : k \in K}

Init ==
  /\ bronze = NoObjects /\ put = {} /\ silver = {}
  /\ raw = NoRows
  /\ manifest = [k \in Keys |-> None]
  /\ runs = [r \in Runs |-> [status |-> "absent", sources |-> {}]]
  /\ lock = None
  /\ pc = [t \in Threads |-> "idle"]
  /\ request = [t \in Threads |-> None]
  /\ objects = [t \in Threads |-> NoObjects]
  /\ fetched = [t \in Threads |-> NoObjects]
  /\ batch = [t \in Threads |-> NoRows]
  /\ faults = 0
-----------------------------------------------------------------------------
(* The producers of the bronze layer, seen from here.                      *)

\* A producer stores rows stamped i under k, new or over the previous object.
\* Collection threads may overtake each other, so i need not grow.
Put(k, i) ==
  /\ <<k, i>> \notin put /\ Cardinality(put) < MaxPuts
  /\ put' = put \cup {<<k, i>>}
  /\ bronze' = [bronze EXCEPT ![k] = i]
  /\ UNCHANGED <<silver, database, lock, pc, locals, faults>>
-----------------------------------------------------------------------------
(* The endpoint.                                                           *)

\* Mutant of Request: the endpoint without JOB_LOCK.
RequestWithoutLock(t, r, force) ==
  /\ pc[t] = "idle"
  /\ lock' = t
  /\ pc' = [pc EXCEPT ![t] = "start"]
  /\ request' = [request EXCEPT ![t] = [run_id |-> r, force |-> force]]
  /\ UNCHANGED <<lake, silver, database, objects, fetched, batch, faults>>

\* POST /jobs/bronze-to-silver.  A request that finds the lock taken is
\* answered 409 and changes nothing.
Request(t, r, force) ==
  /\ pc[t] = "idle"
  /\ lock = None
  /\ lock' = t
  /\ pc' = [pc EXCEPT ![t] = "start"]
  /\ request' = [request EXCEPT ![t] = [run_id |-> r, force |-> force]]
  /\ UNCHANGED <<lake, silver, database, objects, fetched, batch, faults>>

\* The handler returns: its frame is gone and the lock is free.
Return(t) ==
  /\ lock' = None
  /\ pc' = [pc EXCEPT ![t] = "idle"]
  /\ request' = [request EXCEPT ![t] = None]
  /\ objects' = [objects EXCEPT ![t] = NoObjects]
  /\ fetched' = [fetched EXCEPT ![t] = NoObjects]
  /\ batch' = [batch EXCEPT ![t] = NoRows]

\* Mutant of Opened: INSERT ... ON CONFLICT DO NOTHING.
OpenedOnce(r) ==
  IF runs[r].status = "absent" THEN [runs EXCEPT ![r].status = "RUNNING"] ELSE runs

\* start_pipeline_run: insert the row or reopen it.  Reopening keeps the
\* details an earlier execution of the same run recorded.
Opened(r) == [runs EXCEPT ![r].status = "RUNNING"]

StartRun(t) ==
  /\ pc[t] = "start"
  /\ runs' = Opened(request[t].run_id)
  /\ pc' = [pc EXCEPT ![t] = "list"]
  /\ UNCHANGED <<lake, silver, raw, manifest, lock, locals, faults>>

\* start_pipeline_run raises, committed or not, outside the try: no row will
\* say FAILED.
StartRaises(t) ==
  /\ pc[t] = "start"
  /\ faults < MaxFaults /\ faults' = faults + 1
  /\ runs' \in {runs, Opened(request[t].run_id)}
  /\ Return(t)
  /\ UNCHANGED <<lake, silver, raw, manifest>>

\* list_objects.
List(t) ==
  /\ pc[t] = "list"
  /\ objects' = [objects EXCEPT ![t] = bronze]
  /\ pc' = [pc EXCEPT ![t] = "filter"]
  /\ UNCHANGED <<lake, silver, database, lock, request, fetched, batch, faults>>

\* Mutants of Unprocessed: an etag comparison, and a watermark in its place.
UnprocessedByEtag(t) ==
  [k \in Keys |-> IF request[t].force \/ manifest[k] = None THEN objects[t][k]
                  ELSE IF manifest[k].etag # objects[t][k] THEN objects[t][k] ELSE 0]
UnprocessedByWatermark(t) ==
  [k \in Keys |-> IF \A j \in Keys : manifest[j] # None => manifest[j].etag < objects[t][k]
                  THEN objects[t][k] ELSE 0]

\* processed_object_keys: the listed objects that have no row in the manifest,
\* whatever their etag; all of them when the request forces a reprocessing.
Unprocessed(t) ==
  [k \in Keys |-> IF request[t].force \/ manifest[k] = None THEN objects[t][k] ELSE 0]

Filter(t) ==
  /\ pc[t] = "filter"
  /\ objects' = [objects EXCEPT ![t] = Unprocessed(t)]
  /\ pc' = [pc EXCEPT ![t] = IF Selected(objects'[t]) = {} THEN "nodata" ELSE "download"]
  /\ UNCHANGED <<lake, silver, database, lock, request, fetched, batch, faults>>

\* Nothing to do: the run closes as NO_DATA.
NoData(t) ==
  /\ pc[t] = "nodata"
  /\ runs' = [runs EXCEPT ![request[t].run_id].status = "NO_DATA"]
  /\ Return(t)
  /\ UNCHANGED <<lake, silver, raw, manifest, faults>>

\* One download of the pool: what is stored now, not what was listed.
Download(t, k) ==
  /\ pc[t] = "download"
  /\ objects[t][k] # 0 /\ fetched[t][k] = 0
  /\ fetched' = [fetched EXCEPT ![t][k] = bronze[k]]
  /\ UNCHANGED <<lake, silver, database, lock, pc, request, objects, batch, faults>>

\* Rows of event e among the downloaded objects, and those row_number() over
\* (partition by event_id order by ingested_at desc) may number 1.
Candidates(f, e) ==
  {[key |-> k, ingested_at |-> f[k]] : k \in {j \in Selected(f) : e \in EventsOf[j]}}
\* Mutant of Newest: the window ordered the other way.
Oldest(C) == {c \in C : \A d \in C : d.ingested_at >= c.ingested_at}

Newest(C) == {c \in C : \A d \in C : d.ingested_at <= c.ingested_at}

Deduplicated(f, b) ==
  \A e \in Events : IF Candidates(f, e) = {} THEN b[e] = None
                                            ELSE b[e] \in Newest(Candidates(f, e))

\* Mutant of Deduplicate: it does not wait for the whole download pool.
DeduplicateEarly(t) ==
  /\ pc[t] = "download"
  /\ \E b \in [Events -> Row \cup {None}] :
       /\ Deduplicated(fetched[t], b)
       /\ batch' = [batch EXCEPT ![t] = b]
  /\ pc' = [pc EXCEPT ![t] = "upload"]
  /\ UNCHANGED <<lake, silver, database, lock, request, objects, fetched, faults>>

Deduplicate(t) ==
  /\ pc[t] = "download"
  /\ \A k \in Keys : objects[t][k] # 0 => fetched[t][k] # 0
  /\ \E b \in [Events -> Row \cup {None}] :
       /\ Deduplicated(fetched[t], b)
       /\ batch' = [batch EXCEPT ![t] = b]
  /\ pc' = [pc EXCEPT ![t] = "upload"]
  /\ UNCHANGED <<lake, silver, database, lock, request, objects, fetched, faults>>

SilverRow(t, e) == [run_id |-> request[t].run_id, event_id |-> e, row |-> batch[t][e]]

\* Mutant of Upload: parts for event ids that have no row.
UploadEveryPart(t, e) ==
  /\ pc[t] = "upload"
  /\ silver' = silver \cup {SilverRow(t, e)}
  /\ UNCHANGED <<lake, database, lock, pc, locals, faults>>

\* A part file holds a hash partition of the event ids; the finest is one event.
\* Part names are fresh, so an earlier execution's parts stay.
Upload(t, e) ==
  /\ pc[t] = "upload"
  /\ batch[t][e] # None /\ SilverRow(t, e) \notin silver
  /\ silver' = silver \cup {SilverRow(t, e)}
  /\ UNCHANGED <<lake, database, lock, pc, locals, faults>>

\* Mutants of Load: before the silver upload; a replay that records nothing; a
\* record of all that is stored.
LoadBeforeUpload(t) ==
  /\ pc[t] = "upload"
  /\ raw' = [e \in Events |-> IF batch[t][e] # None THEN batch[t][e] ELSE raw[e]]
  /\ manifest' = [k \in Keys |->
       IF objects[t][k] # 0 THEN [etag |-> objects[t][k], run_id |-> request[t].run_id]
                            ELSE manifest[k]]
  /\ pc' = [pc EXCEPT ![t] = "finish"]
  /\ UNCHANGED <<lake, silver, runs, lock, locals, faults>>

LoadUnrecordedReplay(t) ==
  /\ pc[t] = "upload"
  /\ \A e \in Events : batch[t][e] # None => SilverRow(t, e) \in silver
  /\ raw' = [e \in Events |-> IF batch[t][e] # None THEN batch[t][e] ELSE raw[e]]
  /\ manifest' = [k \in Keys |->
       IF objects[t][k] # 0 /\ ~request[t].force THEN [etag |-> objects[t][k], run_id |-> request[t].run_id]
                            ELSE manifest[k]]
  /\ pc' = [pc EXCEPT ![t] = "finish"]
  /\ UNCHANGED <<lake, silver, runs, lock, locals, faults>>

LoadRecordingBucket(t) ==
  /\ pc[t] = "upload"
  /\ \A e \in Events : batch[t][e] # None => SilverRow(t, e) \in silver
  /\ raw' = [e \in Events |-> IF batch[t][e] # None THEN batch[t][e] ELSE raw[e]]
  /\ manifest' = [k \in Keys |->
       IF bronze[k] # 0 THEN [etag |-> bronze[k], run_id |-> request[t].run_id]
                            ELSE manifest[k]]
  /\ pc' = [pc EXCEPT ![t] = "finish"]
  /\ UNCHANGED <<lake, silver, runs, lock, locals, faults>>

\* load_traffic_rows: one transaction upserts the rows and, with the etags
\* of the listing, the manifest.
Load(t) ==
  /\ pc[t] = "upload"
  /\ \A e \in Events : batch[t][e] # None => SilverRow(t, e) \in silver
  /\ raw' = [e \in Events |-> IF batch[t][e] # None THEN batch[t][e] ELSE raw[e]]
  /\ manifest' = [k \in Keys |->
       IF objects[t][k] # 0 THEN [etag |-> objects[t][k], run_id |-> request[t].run_id]
                            ELSE manifest[k]]
  /\ pc' = [pc EXCEPT ![t] = "finish"]
  /\ UNCHANGED <<lake, silver, runs, lock, locals, faults>>

\* Mutant of Finish: the source_manifest names everything stored.
FinishClaimingBucket(t) ==
  /\ pc[t] = "finish"
  /\ runs' = [runs EXCEPT ![request[t].run_id] =
                [status |-> "TRANSFORMED", sources |-> Selected(bronze)]]
  /\ Return(t)
  /\ UNCHANGED <<lake, silver, raw, manifest, faults>>

\* finish_pipeline_run TRANSFORMED, with the source_manifest in its details.
Finish(t) ==
  /\ pc[t] = "finish"
  /\ runs' = [runs EXCEPT ![request[t].run_id] =
                [status |-> "TRANSFORMED", sources |-> Selected(objects[t])]]
  /\ Return(t)
  /\ UNCHANGED <<lake, silver, raw, manifest, faults>>
-----------------------------------------------------------------------------
(* Faults.                                                                 *)

\* An effect inside the try raises, whether or not it took place; CloseRaises
\* has the calls that close the row and raise after it is written.
Raise(t) ==
  /\ pc[t] \in {"list", "filter", "nodata", "download", "upload", "finish"}
  /\ faults < MaxFaults /\ faults' = faults + 1
  /\ pc' = [pc EXCEPT ![t] = "except"]
  /\ UNCHANGED <<lake, silver, database, lock, locals>>

CloseRaises(t) ==
  /\ \/ /\ pc[t] = "nodata"
        /\ runs' = [runs EXCEPT ![request[t].run_id].status = "NO_DATA"]
     \/ /\ pc[t] = "finish"
        /\ runs' = [runs EXCEPT ![request[t].run_id] =
                      [status |-> "TRANSFORMED", sources |-> Selected(objects[t])]]
  /\ faults < MaxFaults /\ faults' = faults + 1
  /\ pc' = [pc EXCEPT ![t] = "except"]
  /\ UNCHANGED <<lake, silver, raw, manifest, lock, locals>>

\* The except clause: the run closes as FAILED and the request answers 500.
Fail(t) ==
  /\ pc[t] = "except"
  /\ runs' = [runs EXCEPT ![request[t].run_id].status = "FAILED"]
  /\ Return(t)
  /\ UNCHANGED <<lake, silver, raw, manifest, faults>>

\* finish_pipeline_run raises in the except clause too: the row stays RUNNING.
FailUnrecorded(t) ==
  /\ pc[t] = "except"
  /\ faults < MaxFaults /\ faults' = faults + 1
  /\ Return(t)
  /\ UNCHANGED <<lake, silver, database>>

\* The container is killed and restarted: the lock and every frame are gone.
Crash ==
  /\ lock # None
  /\ faults < MaxFaults /\ faults' = faults + 1
  /\ lock' = None
  /\ pc' = [t \in Threads |-> "idle"]
  /\ request' = [t \in Threads |-> None]
  /\ objects' = [t \in Threads |-> NoObjects]
  /\ fetched' = [t \in Threads |-> NoObjects]
  /\ batch' = [t \in Threads |-> NoRows]
  /\ UNCHANGED <<lake, silver, database>>
-----------------------------------------------------------------------------
\* The steps of a request that the code takes by itself.
Step(t) ==
  \/ StartRun(t) \/ List(t) \/ Filter(t) \/ NoData(t)
  \/ \E k \in Keys : Download(t, k)
  \/ Deduplicate(t)
  \/ \E e \in Events : Upload(t, e)
  \/ Load(t) \/ Finish(t) \/ Fail(t)

Fault(t) == StartRaises(t) \/ Raise(t) \/ CloseRaises(t) \/ FailUnrecorded(t)

AnyRequest == \E t \in Threads, r \in Runs, force \in BOOLEAN : Request(t, r, force)

Next ==
  \/ \E k \in Keys, i \in Instants : Put(k, i)
  \/ AnyRequest
  \/ \E t \in Threads : Step(t) \/ Fault(t)
  \/ Crash

SafeSpec == Init /\ [][Next]_vars

\* A request once accepted runs on, and the DAG asks again every 15 minutes.
Spec ==
  /\ SafeSpec
  /\ \A t \in Threads : WF_vars(Step(t))
  /\ WF_vars(AnyRequest)
-----------------------------------------------------------------------------
(* Properties.                                                             *)

Status == {"absent", "RUNNING", "NO_DATA", "TRANSFORMED", "FAILED"}
Place == {"idle", "start", "list", "filter", "nodata", "download", "upload",
          "finish", "except"}
RunRow == [status : Status, sources : SUBSET Keys]
SilverRows == [run_id : Runs, event_id : Events, row : Row]

\* Every variable has its type: in particular no artifact and no table row is
\* ever built from a missing row or an absent object.
TypeOK ==
  /\ bronze \in [Keys -> 0 .. MaxInstant]
  /\ put \subseteq Keys \X Instants
  /\ silver \subseteq SilverRows
  /\ raw \in [Events -> Row \cup {None}]
  /\ manifest \in [Keys -> ManifestRow \cup {None}]
  /\ runs \in [Runs -> RunRow]
  /\ lock \in Threads \cup {None}
  /\ pc \in [Threads -> Place]
  /\ request \in [Threads -> TransformRequest \cup {None}]
  /\ objects \in [Threads -> [Keys -> 0 .. MaxInstant]]
  /\ fetched \in [Threads -> [Keys -> 0 .. MaxInstant]]
  /\ batch \in [Threads -> [Events -> Row \cup {None}]]
  /\ faults \in 0 .. MaxFaults

Processed == {k \in Keys : manifest[k] # None}
Loaded == {e \in Events : raw[e] # None}

\* The manifest never lies about the warehouse, in either direction: the events
\* with a row are exactly the events of the objects recorded as processed,
\* whatever was listed, overwritten, raised or killed in between.
WarehouseExact == Loaded = EventsIn(Processed)

\* Every warehouse row comes, with its instant, from a version that was really
\* stored under a processed object which contains the event.
RowsHaveProvenance ==
  \A e \in Loaded :
    /\ raw[e].key \in Processed
    /\ e \in EventsOf[raw[e].key]
    /\ <<raw[e].key, raw[e].ingested_at>> \in put

\* The run the manifest names for the object of a warehouse row has delivered
\* that very row as a silver artifact: what dbt publishes can be traced to a
\* delivered file, also after replays and after a crash that followed the load.
SilverBacked ==
  \A e \in Loaded :
    [run_id |-> manifest[raw[e].key].run_id, event_id |-> e, row |-> raw[e]] \in silver

\* No run claims in its source_manifest an object that is not loaded.
RunClaimsOnlyLoaded == \A r \in Runs : runs[r].sources \subseteq Processed

\* A request that does not force never touches an object already in the
\* manifest: two of them never process the same object, which JOB_LOCK owes.
ProcessedOnce ==
  [][\A t \in Threads, k \in Keys :
       lock = t /\ ~request[t].force /\ k \in Processed
         => manifest'[k] = manifest[k]]_vars

\* A forced replay never turns a row back to an older ingestion, unless the
\* object the row came from has itself been overwritten since.
ReplayKeepsNewest ==
  [][\A t \in Threads, e \in Events :
       lock = t /\ request[t].force /\ e \in Loaded /\ raw'[e] # raw[e]
         => \/ raw'[e].ingested_at >= raw[e].ingested_at
            \/ bronze[raw[e].key] # raw[e].ingested_at]_vars

\* The endpoint implements the atomic load: between the transaction that
\* commits and everything that surrounds it nothing else is visible.
Abstract == INSTANCE LoadOnce WITH
  landed <- Selected(bronze), done <- Processed, table <- Loaded
ImplementsLoadOnce == Abstract!Spec

\* The job as SparkJob sees it: the frame of the thread that holds the lock.
JobOf(t) ==
  [pc |-> IF pc[t] \in {"download", "upload"} THEN "load" ELSE pc[t],
   run |-> request[t].run_id, force |-> request[t].force,
   selected |-> Selected(objects[t])]
NoJob == [pc |-> "idle", run |-> None, force |-> FALSE, selected |-> {}]

\* To the rest of the platform the endpoint is the coarse job of SparkJob: one
\* job at a time, which closes its run row with what it loaded or not at all,
\* with the threads, files and rows hidden.
View == INSTANCE SparkJob WITH
  Objects <- Keys,
  landed <- Selected(bronze),
  processed <- [k \in Keys |-> IF manifest[k] = None THEN None ELSE manifest[k].run_id],
  status <- [r \in Runs |-> runs[r].status],
  sources <- [r \in Runs |-> runs[r].sources],
  job <- IF lock = None THEN NoJob ELSE JobOf(lock)
ImplementsSparkJob == View!JobSpec

\* Every object that lands is processed at last, whatever was listed before it
\* and however requests failed.
EveryObjectIsLoaded == Abstract!EveryObjectIsLoaded
-----------------------------------------------------------------------------
(* The inductive invariant behind them.                                    *)

\* JOB_LOCK is held by the one thread that is in the job, which has a request;
\* a thread outside it carries nothing over from an earlier job.
Frames ==
  \A t \in Threads :
    /\ pc[t] # "idle" <=> lock = t
    /\ pc[t] # "idle" => request[t] # None
    /\ pc[t] \in {"idle", "start"} => objects[t] = NoObjects
    /\ pc[t] \in {"idle", "start", "list", "filter"} => fetched[t] = NoObjects

\* What is stored was put, what was put is still there in some version, and
\* what is processed was put.
Stored ==
  /\ \A k \in Keys : bronze[k] # 0 => <<k, bronze[k]>> \in put
  /\ \A k \in Keys, i \in Instants : <<k, i>> \in put => bronze[k] # 0
  /\ Processed \subseteq Selected(bronze)

\* What a job has selected, by how far it is.
Selections ==
  \A t \in Threads :
    /\ Selected(objects[t]) \subseteq Selected(bronze)
    /\ pc[t] \in {"download", "upload"} => Selected(objects[t]) # {}
    /\ pc[t] \in {"download", "upload"} /\ ~request[t].force
         => Selected(objects[t]) \cap Processed = {}
    /\ pc[t] \in {"filter", "download", "upload"} /\ request[t].force
         => Processed \subseteq Selected(objects[t])
    /\ pc[t] = "finish" => Selected(objects[t]) \subseteq Processed

\* What it has downloaded; and the version a row came from, as long as it is
\* still the one stored, is the version downloaded.
Fetches ==
  \A t \in Threads, k \in Keys :
    /\ fetched[t][k] # 0 => objects[t][k] # 0 /\ <<k, fetched[t][k]>> \in put
    /\ pc[t] = "upload" /\ objects[t][k] # 0 => fetched[t][k] # 0
    /\ \A e \in Loaded :
         fetched[t][k] # 0 /\ raw[e].key = k /\ raw[e].ingested_at = bronze[k]
           => fetched[t][k] = bronze[k]

\* What it is about to load.
Batches ==
  \A t \in Threads : pc[t] = "upload" => Deduplicated(fetched[t], batch[t])

IInv ==
  /\ TypeOK /\ Frames
  /\ Stored /\ Selections /\ Fetches /\ Batches
  /\ WarehouseExact /\ RowsHaveProvenance /\ SilverBacked /\ RunClaimsOnlyLoaded
=============================================================================
