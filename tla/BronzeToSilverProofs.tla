------------------------ MODULE BronzeToSilverProofs ------------------------
(***************************************************************************)
(* Proofs about BronzeToSilver, for any objects, events, runs, threads and *)
(* bounds.  The invariant is proved in two layers: types and frames first  *)
(* (who holds the lock, and that a working thread has a request), then the *)
(* relations between the tables, the lake and the job.                     *)
(***************************************************************************)
EXTENDS BronzeToSilver, TLAPS

\* The types and frames, which every other step relies on.
Base == TypeOK /\ Frames

LEMMA InitBase == Init => Base
BY ConstantsAssumption DEF Init, Base, TypeOK, Frames, NoObjects, NoRows, Status, RunRow,
   Place, SilverRows, Instants

\* Setting the status of a run row leaves a table of run rows.
LEMMA StatusUpdate ==
  ASSUME runs \in [Runs -> RunRow], NEW r \in Runs, NEW s \in Status
  PROVE  [runs EXCEPT ![r].status = s] \in [Runs -> RunRow]
<1>1. [runs[r] EXCEPT !.status = s] \in RunRow
  BY DEF RunRow
<1> QED
  BY <1>1

\* An ordinary or a faulty return leaves one thread idle and the lock free.
LEMMA ReturnBase ==
  ASSUME Base, NEW t \in Threads, lock = t, Return(t)
  PROVE  /\ lock' \in Threads \cup {None}
         /\ pc' \in [Threads -> Place]
         /\ request' \in [Threads -> TransformRequest \cup {None}]
         /\ objects' \in [Threads -> [Keys -> 0 .. MaxInstant]]
         /\ fetched' \in [Threads -> [Keys -> 0 .. MaxInstant]]
         /\ batch' \in [Threads -> [Events -> Row \cup {None}]]
         /\ Frames'
<1>1. NoObjects \in [Keys -> 0 .. MaxInstant] /\ NoRows \in [Events -> Row \cup {None}]
  BY ConstantsAssumption DEF NoObjects, NoRows
<1>2. None \notin Threads
  BY ConstantsAssumption
<1> QED
  BY <1>1, <1>2 DEF Base, TypeOK, Frames, Return, Place

LEMMA StepBase == Base /\ [Next]_vars => Base'
<1> SUFFICES ASSUME Base, [Next]_vars PROVE Base'
  OBVIOUS
<1> USE ConstantsAssumption DEF Base
<1>1. ASSUME NEW k \in Keys, NEW i \in Instants, Put(k, i) PROVE Base'
  BY <1>1 DEF Put, TypeOK, Frames, database, locals, Instants
<1>2. ASSUME NEW t \in Threads, NEW r \in Runs, NEW force \in BOOLEAN, Request(t, r, force)
      PROVE  Base'
  BY <1>2 DEF TransformRequest, Request, TypeOK, Frames, lake, database, Place
<1>3. ASSUME NEW t \in Threads, StartRun(t) PROVE Base'
  <2>1. lock = t /\ request[t] \in TransformRequest
    BY <1>3 DEF TransformRequest, StartRun, TypeOK, Frames
  <2>2. runs' \in [Runs -> RunRow]
    BY <1>3, <2>1, StatusUpdate DEF TransformRequest, StartRun, Opened, TypeOK, Status
  <2> QED
    BY <1>3, <2>1, <2>2 DEF StartRun, TypeOK, Frames, lake, locals, Place
<1>4. ASSUME NEW t \in Threads, List(t) PROVE Base'
  BY <1>4 DEF List, TypeOK, Frames, lake, database, Place
<1>5. ASSUME NEW t \in Threads, Filter(t) PROVE Base'
  <2>1. Unprocessed(t) \in [Keys -> 0 .. MaxInstant]
    BY <1>5 DEF Unprocessed, TypeOK
  <2> QED
    BY <1>5, <2>1 DEF Filter, TypeOK, Frames, lake, database, Place
<1>6. ASSUME NEW t \in Threads, NoData(t) PROVE Base'
  <2>1. lock = t /\ request[t] \in TransformRequest
    BY <1>6 DEF TransformRequest, NoData, TypeOK, Frames
  <2>2. runs' \in [Runs -> RunRow]
    BY <1>6, <2>1, StatusUpdate DEF TransformRequest, NoData, TypeOK, Status
  <2> QED
    BY <1>6, <2>1, <2>2, ReturnBase DEF TransformRequest, NoData, TypeOK, lake
<1>7. ASSUME NEW t \in Threads, NEW k \in Keys, Download(t, k) PROVE Base'
  BY <1>7 DEF Download, TypeOK, Frames, lake, database
<1>8. ASSUME NEW t \in Threads, Deduplicate(t) PROVE Base'
  BY <1>8 DEF Deduplicate, TypeOK, Frames, lake, database, Place
<1>9. ASSUME NEW t \in Threads, NEW e \in Events, Upload(t, e) PROVE Base'
  <2>1. SilverRow(t, e) \in SilverRows
    BY <1>9 DEF TransformRequest, Upload, SilverRow, SilverRows, TypeOK, Frames
  <2> QED
    BY <1>9, <2>1 DEF Upload, TypeOK, Frames, lake, database, locals
<1>10. ASSUME NEW t \in Threads, Load(t) PROVE Base'
  <2>1. request[t] \in TransformRequest
    BY <1>10 DEF TransformRequest, Load, TypeOK, Frames
  <2>2. raw' \in [Events -> Row \cup {None}]
    BY <1>10 DEF TransformRequest, Load, TypeOK
  <2>3. \A k \in Keys : objects[t][k] # 0 => objects[t][k] \in Instants
    BY <1>10 DEF TypeOK, Instants
  <2>4. manifest' \in [Keys -> ManifestRow \cup {None}]
    BY <1>10, <2>1, <2>3 DEF TransformRequest, Load, TypeOK, ManifestRow
  <2> QED
    BY <1>10, <2>2, <2>4 DEF TransformRequest, Load, TypeOK, Frames, lake, locals, Place
<1>11. ASSUME NEW t \in Threads, Finish(t) PROVE Base'
  <2>1. lock = t /\ request[t] \in TransformRequest
    BY <1>11 DEF TransformRequest, Finish, TypeOK, Frames
  <2>2. runs' \in [Runs -> RunRow]
    BY <1>11, <2>1 DEF TransformRequest, Finish, TypeOK, Status, RunRow, Selected
  <2> QED
    BY <1>11, <2>1, <2>2, ReturnBase DEF TransformRequest, Finish, TypeOK, lake
<1>12. ASSUME NEW t \in Threads, Fail(t) PROVE Base'
  <2>1. lock = t /\ request[t] \in TransformRequest
    BY <1>12 DEF TransformRequest, Fail, TypeOK, Frames
  <2>2. runs' \in [Runs -> RunRow]
    BY <1>12, <2>1, StatusUpdate DEF TransformRequest, Fail, TypeOK, Status
  <2> QED
    BY <1>12, <2>1, <2>2, ReturnBase DEF TransformRequest, Fail, TypeOK, lake
<1>13. ASSUME NEW t \in Threads, StartRaises(t) PROVE Base'
  <2>1. lock = t /\ request[t] \in TransformRequest
    BY <1>13 DEF TransformRequest, StartRaises, TypeOK, Frames
  <2>2. runs' \in [Runs -> RunRow]
    <3>1. Opened(request[t].run_id) \in [Runs -> RunRow]
      BY <2>1, StatusUpdate DEF TransformRequest, Opened, TypeOK, Status
    <3> QED
      BY <3>1, <1>13 DEF StartRaises, TypeOK
  <2> QED
    BY <1>13, <2>1, <2>2, ReturnBase DEF TransformRequest, StartRaises, TypeOK, lake
<1>14. ASSUME NEW t \in Threads, Raise(t) PROVE Base'
  BY <1>14 DEF Raise, TypeOK, Frames, lake, database, locals, Place
<1>15. ASSUME NEW t \in Threads, FailUnrecorded(t) PROVE Base'
  <2>1. lock = t
    BY <1>15 DEF FailUnrecorded, Frames
  <2> QED
    BY <1>15, <2>1, ReturnBase DEF FailUnrecorded, TypeOK, lake, database
<1>16. CASE Crash
  BY <1>16 DEF Crash, TypeOK, Frames, lake, database, NoObjects, NoRows, Place
<1>17. CASE UNCHANGED vars
  BY <1>17 DEF vars, TypeOK, Frames
<1>18. ASSUME NEW t \in Threads, CloseRaises(t) PROVE Base'
  <2>1. lock = t /\ request[t] \in TransformRequest
    BY <1>18 DEF TransformRequest, CloseRaises, TypeOK, Frames
  <2>2. runs' \in [Runs -> RunRow]
    <3>1. CASE runs' = [runs EXCEPT ![request[t].run_id].status = "NO_DATA"]
      BY <3>1, <2>1, StatusUpdate DEF TransformRequest, TypeOK, Status
    <3>2. CASE runs' = [runs EXCEPT ![request[t].run_id] =
                          [status |-> "TRANSFORMED", sources |-> Selected(objects[t])]]
      BY <3>2, <2>1 DEF TransformRequest, TypeOK, Status, RunRow, Selected
    <3> QED
      BY <1>18, <3>1, <3>2 DEF CloseRaises
  <2> QED
    BY <1>18, <2>2 DEF CloseRaises, TypeOK, Frames, lake, locals, Place
<1> QED
  BY <1>1, <1>2, <1>3, <1>4, <1>5, <1>6, <1>7, <1>8, <1>9, <1>10, <1>11, <1>12, <1>13,
     <1>14, <1>15, <1>16, <1>17, <1>18 DEF Next, AnyRequest, Step, Fault

\* Type correctness, with the exclusion JOB_LOCK gives: every variable of the
\* lake, the database and the job keeps its type, and the job has one thread.
THEOREM TypeCorrectness == SafeSpec => [](TypeOK /\ Frames)
<1>1. Base => TypeOK /\ Frames
  BY DEF Base
<1> QED
  BY <1>1, InitBase, StepBase, PTL DEF SafeSpec
-----------------------------------------------------------------------------
\* The relations between the tables, the lake and the job.
Tables == WarehouseExact /\ RowsHaveProvenance /\ SilverBacked /\ RunClaimsOnlyLoaded
Jobs == Selections /\ Fetches /\ Batches
Data == Stored /\ Tables /\ Jobs

LEMMA InitData == Init => Data
BY ConstantsAssumption DEF Init, Data, Stored, Tables, Jobs, WarehouseExact, RowsHaveProvenance,
   SilverBacked, RunClaimsOnlyLoaded, Selections, Fetches, Batches, Processed, Loaded,
   Selected, EventsIn, NoObjects, NoRows

\* A step that touches neither the lake nor the two loaded tables can disturb
\* only what it changes in the job and in the run rows.
LEMMA TablesKept ==
  ASSUME Data, UNCHANGED <<bronze, put, raw, manifest>>, silver \subseteq silver',
         \A r \in Runs : runs'[r].sources \subseteq Processed
  PROVE  Stored' /\ Tables' /\ Processed' = Processed /\ Loaded' = Loaded
<1>1. Processed' = Processed /\ Loaded' = Loaded
  BY DEF Processed, Loaded
<1>2. Stored'
  BY <1>1 DEF Data, Stored, Selected
<1> QED
  BY <1>1, <1>2 DEF Data, Tables, WarehouseExact, RowsHaveProvenance, SilverBacked,
     RunClaimsOnlyLoaded, EventsIn

\* A thread outside the job satisfies what is said of the job.
LEMMA JobsKept ==
  ASSUME Base', UNCHANGED <<bronze, put>>, Data, NEW t \in Threads,
         UNCHANGED <<raw, manifest>>,
         \A u \in Threads \ {t} : /\ pc'[u] = pc[u] /\ request'[u] = request[u]
                                 /\ objects'[u] = objects[u] /\ fetched'[u] = fetched[u]
                                 /\ batch'[u] = batch[u],
         pc'[t] = "idle"
  PROVE  Jobs'
<1>1. objects'[t] = NoObjects /\ fetched'[t] = NoObjects
  BY DEF Base, Frames
<1>2. Processed' = Processed /\ Loaded' = Loaded
  BY DEF Processed, Loaded
<1>3. Selections'
  BY <1>1, <1>2 DEF Data, Jobs, Selections, Selected, NoObjects
<1>4. Fetches'
  BY <1>1, <1>2 DEF Data, Jobs, Fetches, NoObjects
<1>5. Batches'
  BY DEF Data, Jobs, Batches
<1> QED
  BY <1>3, <1>4, <1>5 DEF Jobs

\* The loading transaction records exactly the selected objects.
LEMMA LoadRecords ==
  ASSUME TypeOK, Frames, NEW t \in Threads, Load(t), pc[t] = "upload"
  PROVE  Processed' = Processed \cup Selected(objects[t])
<1> DEFINE o == objects[t]
<1>1. request[t] \in TransformRequest
  BY DEF TypeOK, Frames
<1>2. \A k \in Keys : o[k] # 0 => o[k] \in Instants
  BY DEF TypeOK, Instants
<1>3. \A k \in Keys : o[k] # 0 => manifest'[k] \in ManifestRow /\ manifest'[k] # None
  BY <1>1, <1>2, ConstantsAssumption DEF Load, ManifestRow, TransformRequest
<1>4. \A k \in Keys : o[k] = 0 => manifest'[k] = manifest[k]
  BY DEF Load
<1> QED
  BY <1>3, <1>4 DEF Processed, Selected

\* The loading transaction, whose batch covers exactly the events selected.
LEMMA LoadData ==
  ASSUME Base, Base', Data, NEW t \in Threads, Load(t)
  PROVE  Data'
<1> DEFINE o == objects[t]  b == batch[t]  S == Selected(o)
<1> USE ConstantsAssumption
<1>1. pc[t] = "upload" /\ lock = t /\ \A u \in Threads \ {t} : pc[u] = "idle"
  BY DEF Load, Base, Frames
<1>2. Deduplicated(fetched[t], b) /\ Selected(fetched[t]) = S
  BY <1>1 DEF Data, Jobs, Batches, Fetches, Selected
<1>3. \A e \in Events : b[e] # None <=> e \in EventsIn(S)
  <2> SUFFICES ASSUME NEW e \in Events PROVE b[e] # None <=> e \in EventsIn(S)
    OBVIOUS
  <2>1. Candidates(fetched[t], e) = {} <=> ~ \E k \in Selected(fetched[t]) : e \in EventsOf[k]
    BY Zenon DEF Candidates
  <2>2. Candidates(fetched[t], e) = {} <=> e \notin EventsIn(S)
    BY <2>1, <1>2 DEF EventsIn
  <2>3. Candidates(fetched[t], e) \subseteq Row
    BY DEF Candidates, Selected, Row, Instants, Base, TypeOK
  <2> QED
    BY <1>2, <2>2, <2>3 DEF Deduplicated, Newest
<1>4. \A e \in Events : b[e] # None =>
        /\ b[e].key \in S /\ e \in EventsOf[b[e].key]
        /\ b[e].ingested_at = fetched[t][b[e].key]
  <2> SUFFICES ASSUME NEW e \in Events, b[e] # None
               PROVE  /\ b[e].key \in S /\ e \in EventsOf[b[e].key]
                      /\ b[e].ingested_at = fetched[t][b[e].key]
    OBVIOUS
  <2>1. b[e] \in Candidates(fetched[t], e)
    BY <1>2 DEF Deduplicated, Newest
  <2> QED
    BY <2>1, <1>2 DEF Candidates
<1>5. Processed' = Processed \cup S
  BY <1>1, LoadRecords DEF Base
<1>6. Loaded' = Loaded \cup EventsIn(S)
  <2>1. EventsIn(S) \subseteq Events
    BY DEF EventsIn, Selected
  <2>2. \A e \in Events : raw'[e] # None <=> b[e] # None \/ raw[e] # None
    BY DEF Load
  <2> QED
    BY <2>1, <2>2, <1>3 DEF Loaded
<1>7. S \subseteq Keys /\ Processed \subseteq Keys
  BY DEF Selected, Processed
<1>8. Stored'
  BY <1>5 DEF Load, lake, Data, Stored, Jobs, Selections, Selected
<1>9. WarehouseExact'
  BY <1>5, <1>6, <1>7 DEF Data, Tables, WarehouseExact, EventsIn
<1>10. RowsHaveProvenance'
  <2> SUFFICES ASSUME NEW e \in Loaded'
               PROVE  /\ raw'[e].key \in Processed' /\ e \in EventsOf[raw'[e].key]
                      /\ <<raw'[e].key, raw'[e].ingested_at>> \in put
    BY DEF RowsHaveProvenance, Load, lake
  <2>1. CASE b[e] # None
    <3>1. raw'[e] = b[e] /\ e \in Events
      BY <2>1 DEF Load, Loaded
    <3> QED
      BY <2>1, <3>1, <1>4, <1>5, <1>2 DEF Data, Jobs, Fetches, Selected
  <2>2. CASE b[e] = None
    <3>1. raw'[e] = raw[e] /\ e \in Loaded
      BY <2>2 DEF Load, Loaded
    <3> QED
      BY <3>1, <1>5 DEF Data, Tables, RowsHaveProvenance
  <2> QED
    BY <2>1, <2>2
<1>11. SilverBacked'
  <2> SUFFICES ASSUME NEW e \in Loaded'
               PROVE  [run_id |-> manifest'[raw'[e].key].run_id, event_id |-> e,
                       row |-> raw'[e]] \in silver
    BY DEF SilverBacked, Load
  <2>1. CASE b[e] # None
    <3>1. raw'[e] = b[e] /\ e \in Events
      BY <2>1 DEF Load, Loaded
    <3>2. manifest'[b[e].key].run_id = request[t].run_id
      BY <2>1, <3>1, <1>4, <1>7 DEF Load, Selected
    <3> QED
      BY <2>1, <3>1, <3>2 DEF Load, SilverRow
  <2>2. CASE b[e] = None
    <3>1. raw'[e] = raw[e] /\ e \in Loaded /\ e \in Events
      BY <2>2 DEF Load, Loaded
    <3>2. raw[e].key \in Processed /\ e \in EventsOf[raw[e].key]
      BY <3>1 DEF Data, Tables, RowsHaveProvenance
    <3>3. raw[e].key \notin S
      BY <3>1, <3>2, <2>2, <1>3, <1>7 DEF EventsIn
    <3>4. manifest'[raw[e].key] = manifest[raw[e].key]
      BY <3>2, <3>3, <1>7 DEF Load, Selected
    <3> QED
      BY <3>1, <3>4 DEF Data, Tables, SilverBacked
  <2> QED
    BY <2>1, <2>2
<1>12. RunClaimsOnlyLoaded'
  BY <1>5 DEF Load, Data, Tables, RunClaimsOnlyLoaded
<1>13. Selections'
  BY <1>1, <1>5 DEF Load, lake, locals, Data, Jobs, Selections, Selected, Base, Frames, NoObjects,
     TypeOK
<1>14. Fetches'
  <2>1. \A u \in Threads, k \in Keys :
          /\ fetched'[u][k] # 0 => objects'[u][k] # 0 /\ <<k, fetched'[u][k]>> \in put'
          /\ pc'[u] = "upload" /\ objects'[u][k] # 0 => fetched'[u][k] # 0
    BY <1>1 DEF Load, lake, locals, Data, Jobs, Fetches, Base, TypeOK
  <2>2. ASSUME NEW u \in Threads, NEW k \in Keys, NEW e \in Loaded', fetched'[u][k] # 0,
               raw'[e].key = k, raw'[e].ingested_at = bronze'[k]
        PROVE  fetched'[u][k] = bronze'[k]
    <3>1. u = t
      BY <1>1, <2>2 DEF Load, locals, Base, Frames, NoObjects
    <3>2. CASE b[e] # None
      BY <2>2, <3>1, <3>2, <1>4 DEF Load, lake, locals, Loaded
    <3>3. CASE b[e] = None
      BY <2>2, <3>1, <3>3 DEF Load, lake, locals, Loaded, Data, Jobs, Fetches
    <3> QED
      BY <3>2, <3>3
  <2> QED
    BY <2>1, <2>2 DEF Fetches
<1>15. Batches'
  BY <1>1 DEF Load, Batches, Base, TypeOK
<1> QED
  BY <1>8, <1>9, <1>10, <1>11, <1>12, <1>13, <1>14, <1>15 DEF Data, Tables, Jobs

\* A put: it adds a version that was never stored before.
LEMMA PutData ==
  ASSUME Base, Base', Data, NEW k \in Keys, NEW i \in Instants, Put(k, i)
  PROVE  Data'
<1>1. Processed' = Processed /\ Loaded' = Loaded
  BY DEF Put, database, Processed, Loaded
<1>2. bronze' \in [Keys -> 0 .. MaxInstant] /\ bronze'[k] = i
      /\ \A j \in Keys \ {k} : bronze'[j] = bronze[j]
  BY DEF Put, Base, TypeOK
<1>3. Selected(bronze') = Selected(bronze) \cup {k}
  BY <1>2 DEF Selected, Instants
<1>4. Stored'
  <2>1. put' = put \cup {<<k, i>>} /\ i # 0
    BY DEF Put, Instants
  <2>2. \A j \in Keys : bronze'[j] # 0 => <<j, bronze'[j]>> \in put'
    BY <1>2, <2>1 DEF Data, Stored
  <2>3. \A j \in Keys, n \in Instants : <<j, n>> \in put' => bronze'[j] # 0
    BY <1>2, <2>1 DEF Data, Stored
  <2> QED
    BY <2>2, <2>3, <1>1, <1>3 DEF Data, Stored
<1>5. Tables'
  BY <1>1 DEF Put, database, Data, Tables, WarehouseExact, RowsHaveProvenance, SilverBacked,
     RunClaimsOnlyLoaded, EventsIn
<1>6. Selections'
  BY <1>1, <1>3 DEF Put, locals, Data, Jobs, Selections, Selected
<1>7. Fetches'
  <2>1. \A e \in Loaded : raw[e].key = k => raw[e].ingested_at # i
    BY DEF Put, Data, Tables, RowsHaveProvenance
  <2> QED
    BY <2>1, <1>1, <1>2 DEF Put, database, locals, Data, Jobs, Fetches
<1>8. Batches'
  BY DEF Put, locals, Data, Jobs, Batches
<1> QED
  BY <1>4, <1>5, <1>6, <1>7, <1>8 DEF Data, Jobs

LEMMA StepData == Base /\ Base' /\ Data /\ [Next]_vars => Data'
<1> SUFFICES ASSUME Base, Base', Data, [Next]_vars PROVE Data'
  OBVIOUS
<1> USE ConstantsAssumption
<1>1. ASSUME NEW k \in Keys, NEW i \in Instants, Put(k, i) PROVE Data'
  BY <1>1, PutData
<1>2. ASSUME NEW t \in Threads, NEW r \in Runs, NEW force \in BOOLEAN, Request(t, r, force)
      PROVE  Data'
  <2>1. Stored' /\ Tables' /\ Processed' = Processed /\ Loaded' = Loaded
    BY <1>2, TablesKept DEF Request, lake, database, Data, Tables, RunClaimsOnlyLoaded
  <2>2. Jobs'
    BY <1>2, <2>1 DEF Request, lake, database, Data, Jobs, Selections, Fetches, Batches,
       Base, TypeOK, Frames
  <2> QED
    BY <2>1, <2>2 DEF Data
<1>3. ASSUME NEW t \in Threads, StartRun(t) PROVE Data'
  <2>0. \A r \in Runs : runs'[r].sources = runs[r].sources
    BY <1>3 DEF StartRun, Opened, Base, TypeOK
  <2>1. Stored' /\ Tables' /\ Processed' = Processed /\ Loaded' = Loaded
    BY <1>3, <2>0, TablesKept DEF StartRun, lake, Data, Tables, RunClaimsOnlyLoaded
  <2>2. Jobs'
    BY <1>3, <2>1 DEF StartRun, lake, locals, Data, Jobs, Selections, Fetches, Batches,
       Base, TypeOK, Frames
  <2> QED
    BY <2>1, <2>2 DEF Data
<1>4. ASSUME NEW t \in Threads, List(t) PROVE Data'
  <2>1. Stored' /\ Tables' /\ Processed' = Processed /\ Loaded' = Loaded
    BY <1>4, TablesKept DEF List, lake, database, Data, Tables, RunClaimsOnlyLoaded
  <2>2. Selections'
    BY <1>4, <2>1 DEF List, lake, database, Data, Stored, Jobs, Selections, Base, TypeOK
  <2>3. Fetches'
    BY <1>4, <2>1 DEF List, lake, database, Data, Jobs, Fetches, Base, TypeOK, Frames, NoObjects
  <2>4. Batches'
    BY <1>4 DEF List, Data, Jobs, Batches, Base, TypeOK
  <2> QED
    BY <2>1, <2>2, <2>3, <2>4 DEF Data, Jobs
<1>5. ASSUME NEW t \in Threads, Filter(t) PROVE Data'
  <2>1. Stored' /\ Tables' /\ Processed' = Processed /\ Loaded' = Loaded
    BY <1>5, TablesKept DEF Filter, lake, database, Data, Tables, RunClaimsOnlyLoaded
  <2>2. objects'[t] = Unprocessed(t) /\ \A u \in Threads \ {t} : objects'[u] = objects[u]
    BY <1>5 DEF Filter, Base, TypeOK
  <2>3. Selected(Unprocessed(t)) = {k \in Selected(objects[t]) : request[t].force \/ k \notin Processed}
    BY DEF Unprocessed, Selected, Processed
  <2>4. Selections'
    BY <1>5, <2>1, <2>2, <2>3 DEF Filter, lake, database, Data, Jobs, Selections, Base, TypeOK
  <2>5. Fetches'
    BY <1>5, <2>1, <2>2 DEF Filter, lake, database, Data, Jobs, Fetches, Base, TypeOK, Frames,
       NoObjects
  <2>6. Batches'
    BY <1>5 DEF Filter, Data, Jobs, Batches, Base, TypeOK
  <2> QED
    BY <2>1, <2>4, <2>5, <2>6 DEF Data, Jobs
<1>6. ASSUME NEW t \in Threads, NoData(t) PROVE Data'
  <2>0. \A r \in Runs : runs'[r].sources = runs[r].sources
    BY <1>6 DEF NoData, Base, TypeOK
  <2>1. Stored' /\ Tables'
    BY <1>6, <2>0, TablesKept DEF NoData, lake, Data, Tables, RunClaimsOnlyLoaded
  <2>2. Jobs'
    BY <1>6, JobsKept DEF NoData, lake, Return, Base, TypeOK
  <2> QED
    BY <2>1, <2>2 DEF Data
<1>7. ASSUME NEW t \in Threads, NEW k \in Keys, Download(t, k) PROVE Data'
  <2>1. Stored' /\ Tables' /\ Processed' = Processed /\ Loaded' = Loaded
    BY <1>7, TablesKept DEF Download, lake, database, Data, Tables, RunClaimsOnlyLoaded
  <2>2. Selections'
    BY <1>7, <2>1 DEF Download, lake, database, Data, Jobs, Selections
  <2>3. <<k, bronze[k]>> \in put
    BY <1>7 DEF Download, Data, Stored, Jobs, Selections, Selected
  <2>4. Fetches'
    <3>1. \A u \in Threads, j \in Keys :
            fetched'[u][j] = IF u = t /\ j = k THEN bronze[k] ELSE fetched[u][j]
      BY <1>7 DEF Download, Base, TypeOK
    <3>2. UNCHANGED <<bronze, put, raw, objects, pc>> /\ objects[t][k] # 0 /\ pc[t] = "download"
      BY <1>7 DEF Download, lake, database
    <3> QED
      BY <3>1, <3>2, <2>1, <2>3 DEF Data, Jobs, Fetches
  <2>5. Batches'
    BY <1>7 DEF Download, Data, Jobs, Batches, Base, TypeOK
  <2> QED
    BY <2>1, <2>2, <2>4, <2>5 DEF Data, Jobs
<1>8. ASSUME NEW t \in Threads, Deduplicate(t) PROVE Data'
  <2>1. Stored' /\ Tables' /\ Processed' = Processed /\ Loaded' = Loaded
    BY <1>8, TablesKept DEF Deduplicate, lake, database, Data, Tables, RunClaimsOnlyLoaded
  <2>2. Selections'
    BY <1>8, <2>1 DEF Deduplicate, lake, database, Data, Jobs, Selections, Base, TypeOK
  <2>3. Fetches'
    BY <1>8, <2>1 DEF Deduplicate, lake, database, Data, Jobs, Fetches, Base, TypeOK
  <2>4. Deduplicated(fetched[t], batch'[t])
    BY <1>8 DEF Deduplicate, Base, TypeOK
  <2>5. Batches'
    BY <1>8, <2>4 DEF Deduplicate, Data, Jobs, Batches, Base, TypeOK
  <2> QED
    BY <2>1, <2>2, <2>3, <2>5 DEF Data, Jobs
<1>9. ASSUME NEW t \in Threads, NEW e \in Events, Upload(t, e) PROVE Data'
  <2>1. Stored' /\ Tables' /\ Processed' = Processed /\ Loaded' = Loaded
    BY <1>9, TablesKept DEF Upload, lake, database, Data, Tables, RunClaimsOnlyLoaded
  <2>2. Jobs'
    BY <1>9, <2>1 DEF Upload, lake, database, locals, Data, Jobs, Selections, Fetches, Batches
  <2> QED
    BY <2>1, <2>2 DEF Data
<1>10. ASSUME NEW t \in Threads, Load(t) PROVE Data'
  BY <1>10, LoadData
<1>11. ASSUME NEW t \in Threads, Finish(t) PROVE Data'
  <2>0. \A r \in Runs : runs'[r].sources \subseteq Processed
    BY <1>11 DEF Finish, Base, TypeOK, Data, Tables, RunClaimsOnlyLoaded, Jobs, Selections
  <2>1. Stored' /\ Tables'
    BY <1>11, <2>0, TablesKept DEF Finish, lake
  <2>2. Jobs'
    BY <1>11, JobsKept DEF Finish, lake, Return, Base, TypeOK
  <2> QED
    BY <2>1, <2>2 DEF Data
<1>12. ASSUME NEW t \in Threads, Fail(t) PROVE Data'
  <2>0. \A r \in Runs : runs'[r].sources = runs[r].sources
    BY <1>12 DEF Fail, Base, TypeOK
  <2>1. Stored' /\ Tables'
    BY <1>12, <2>0, TablesKept DEF Fail, lake, Data, Tables, RunClaimsOnlyLoaded
  <2>2. Jobs'
    BY <1>12, JobsKept DEF Fail, lake, Return, Base, TypeOK
  <2> QED
    BY <2>1, <2>2 DEF Data
<1>13. ASSUME NEW t \in Threads, StartRaises(t) PROVE Data'
  <2>0. \A r \in Runs : runs'[r].sources = runs[r].sources
    <3>1. CASE runs' = runs
      BY <3>1
    <3>2. CASE runs' = Opened(request[t].run_id)
      BY <3>2 DEF Opened, Base, TypeOK
    <3> QED
      BY <1>13, <3>1, <3>2 DEF StartRaises
  <2>1. Stored' /\ Tables'
    BY <1>13, <2>0, TablesKept DEF StartRaises, lake, Data, Tables, RunClaimsOnlyLoaded
  <2>2. Jobs'
    BY <1>13, JobsKept DEF StartRaises, lake, Return, Base, TypeOK
  <2> QED
    BY <2>1, <2>2 DEF Data
<1>14. ASSUME NEW t \in Threads, Raise(t) PROVE Data'
  <2>1. Stored' /\ Tables' /\ Processed' = Processed /\ Loaded' = Loaded
    BY <1>14, TablesKept DEF Raise, lake, database, Data, Tables, RunClaimsOnlyLoaded
  <2>2. Jobs'
    BY <1>14, <2>1 DEF Raise, lake, database, locals, Data, Jobs, Selections, Fetches, Batches,
       Base, TypeOK
  <2> QED
    BY <2>1, <2>2 DEF Data
<1>15. ASSUME NEW t \in Threads, FailUnrecorded(t) PROVE Data'
  <2>1. Stored' /\ Tables'
    BY <1>15, TablesKept DEF FailUnrecorded, lake, database, Data, Tables, RunClaimsOnlyLoaded
  <2>2. Jobs'
    BY <1>15, JobsKept DEF FailUnrecorded, lake, database, Return, Base, TypeOK
  <2> QED
    BY <2>1, <2>2 DEF Data
<1>16. CASE Crash
  <2>1. Stored' /\ Tables' /\ Processed' = Processed /\ Loaded' = Loaded
    BY <1>16, TablesKept DEF Crash, lake, database, Data, Tables, RunClaimsOnlyLoaded
  <2>2. Jobs'
    BY <1>16 DEF Crash, Jobs, Selections, Fetches, Batches, Selected, NoObjects
  <2> QED
    BY <2>1, <2>2 DEF Data
<1>17. CASE UNCHANGED vars
  <2>1. Stored' /\ Tables' /\ Processed' = Processed /\ Loaded' = Loaded
    BY <1>17, TablesKept DEF vars, Data, Tables, RunClaimsOnlyLoaded
  <2>2. Jobs'
    BY <1>17, <2>1 DEF vars, Data, Jobs, Selections, Fetches, Batches
  <2> QED
    BY <2>1, <2>2 DEF Data
<1>18. ASSUME NEW t \in Threads, CloseRaises(t) PROVE Data'
  <2>0. \A r \in Runs : runs'[r].sources \subseteq Processed
    <3>1. CASE runs' = [runs EXCEPT ![request[t].run_id].status = "NO_DATA"]
      BY <3>1 DEF Base, TypeOK, Data, Tables, RunClaimsOnlyLoaded
    <3>2. CASE pc[t] = "finish" /\ runs' = [runs EXCEPT ![request[t].run_id] =
                                    [status |-> "TRANSFORMED", sources |-> Selected(objects[t])]]
      BY <3>2 DEF Base, TypeOK, Data, Tables, RunClaimsOnlyLoaded, Jobs, Selections
    <3> QED
      BY <1>18, <3>1, <3>2 DEF CloseRaises
  <2>1. Stored' /\ Tables' /\ Processed' = Processed /\ Loaded' = Loaded
    BY <1>18, <2>0, TablesKept DEF CloseRaises, lake
  <2>2. Jobs'
    BY <1>18, <2>1 DEF CloseRaises, lake, locals, Data, Jobs, Selections, Fetches, Batches,
       Base, TypeOK
  <2> QED
    BY <2>1, <2>2 DEF Data
<1> QED
  BY <1>1, <1>2, <1>3, <1>4, <1>5, <1>6, <1>7, <1>8, <1>9, <1>10, <1>11, <1>12, <1>13,
     <1>14, <1>15, <1>16, <1>17, <1>18 DEF Next, AnyRequest, Step, Fault
-----------------------------------------------------------------------------
\* The inductive invariant holds in every reachable state.
THEOREM Invariance == SafeSpec => []IInv
<1>1. Init => IInv
  BY InitBase, InitData DEF IInv, Base, Data, Tables, Jobs
<1>2. IInv /\ [Next]_vars => IInv'
  BY StepBase, StepData DEF IInv, Base, Data, Tables, Jobs
<1> QED
  BY <1>1, <1>2, PTL DEF SafeSpec

\* The warehouse holds exactly the events of the processed objects.
THEOREM WarehouseIsExact == SafeSpec => []WarehouseExact
BY Invariance, PTL DEF IInv

\* Every warehouse row comes from a stored version of a processed object.
THEOREM Provenance == SafeSpec => []RowsHaveProvenance
BY Invariance, PTL DEF IInv

\* Every warehouse row lies in the silver delivery of the run its object is
\* recorded under.
THEOREM SilverDelivery == SafeSpec => []SilverBacked
BY Invariance, PTL DEF IInv

\* No run claims an object that is not loaded.
THEOREM RunClaims == SafeSpec => []RunClaimsOnlyLoaded
BY Invariance, PTL DEF IInv
-----------------------------------------------------------------------------
\* Only a load changes the loaded tables, and only the holder of the lock loads.
LEMMA OnlyLoad ==
  ASSUME IInv, [Next]_vars, <<raw, manifest>>' # <<raw, manifest>>
  PROVE  \E t \in Threads : Load(t) /\ lock = t /\ pc[t] = "upload"
<1>1. PICK t \in Threads : Load(t)
  BY DEF Next, AnyRequest, Step, Fault, vars, Put, Request, StartRun, List, Filter, NoData,
     Download, Deduplicate, Upload, Finish, Fail, StartRaises, Raise, CloseRaises, FailUnrecorded, Crash,
     database
<1> QED
  BY <1>1 DEF Load, IInv, Frames

\* A request that does not force leaves the manifest rows of processed objects
\* alone, so no object is processed by two of them.
THEOREM ProcessedOnceHolds == SafeSpec => ProcessedOnce
<1> DEFINE Step1 == \A t \in Threads, k \in Keys :
                      lock = t /\ ~request[t].force /\ k \in Processed
                        => manifest'[k] = manifest[k]
<1>1. IInv /\ [Next]_vars => [Step1]_vars
  <2> SUFFICES ASSUME IInv, [Next]_vars, NEW t \in Threads, NEW k \in Keys,
                      lock = t, ~request[t].force, k \in Processed,
                      manifest' # manifest
               PROVE  manifest'[k] = manifest[k]
    OBVIOUS
  <2>1. Load(t) /\ pc[t] = "upload"
    BY OnlyLoad
  <2>2. k \notin Selected(objects[t])
    BY <2>1 DEF IInv, Selections
  <2> QED
    BY <2>1, <2>2 DEF Load, Selected
<1> QED
  BY <1>1, Invariance, PTL DEF SafeSpec, ProcessedOnce

\* A forced replay moves a row back in time only when the object the row came
\* from has been overwritten.
THEOREM ReplayKeepsNewestHolds == SafeSpec => ReplayKeepsNewest
<1> DEFINE Step1 == \A t \in Threads, e \in Events :
                      lock = t /\ request[t].force /\ e \in Loaded /\ raw'[e] # raw[e]
                        => \/ raw'[e].ingested_at >= raw[e].ingested_at
                           \/ bronze[raw[e].key] # raw[e].ingested_at
<1>1. IInv /\ [Next]_vars => [Step1]_vars
  <2> SUFFICES ASSUME IInv, [Next]_vars, NEW t \in Threads, NEW e \in Events,
                      lock = t, request[t].force, e \in Loaded, raw'[e] # raw[e],
                      bronze[raw[e].key] = raw[e].ingested_at
               PROVE  raw'[e].ingested_at >= raw[e].ingested_at
    OBVIOUS
  <2> DEFINE k == raw[e].key
  <2>1. Load(t) /\ pc[t] = "upload"
    BY OnlyLoad
  <2>2. k \in Keys /\ k \in Processed /\ e \in EventsOf[k]
    BY DEF IInv, RowsHaveProvenance, Processed
  <2>3. fetched[t][k] # 0 /\ fetched[t][k] = bronze[k]
    <3>1. Processed \subseteq Selected(objects[t])
      BY <2>1 DEF IInv, Selections
    <3>2. objects[t][k] # 0
      BY <3>1, <2>2 DEF Selected
    <3>3. fetched[t][k] # 0
      BY <3>2, <2>1, <2>2 DEF IInv, Fetches
    <3> QED
      BY <3>3, <2>2 DEF IInv, Fetches
  <2>4. [key |-> k, ingested_at |-> fetched[t][k]] \in Candidates(fetched[t], e)
    BY <2>2, <2>3 DEF Candidates, Selected
  <2>5. batch[t][e] \in Newest(Candidates(fetched[t], e))
    BY <2>1, <2>4 DEF IInv, Batches, Deduplicated
  <2>6. fetched[t][k] <= batch[t][e].ingested_at
    BY <2>4, <2>5 DEF Newest
  <2>7. raw'[e] = batch[t][e]
    BY <2>1 DEF Load, Loaded
  <2>8. raw[e] \in Row /\ raw'[e] \in Row
    <3>1. Candidates(fetched[t], e) \subseteq Row
      BY DEF Candidates, Selected, Row, Instants, IInv, TypeOK
    <3> QED
      BY <3>1, <2>5, <2>7 DEF Newest, Loaded, IInv, TypeOK
  <2> QED
    BY <2>3, <2>6, <2>7, <2>8 DEF Row, Instants
<1> QED
  BY <1>1, Invariance, PTL DEF SafeSpec, ReplayKeepsNewest

\* The endpoint implements the atomic load.
THEOREM Implementation == SafeSpec => ImplementsLoadOnce
<1>1. Init => Abstract!Init
  BY ConstantsAssumption DEF Init, Abstract!Init, Selected, Processed, Loaded, NoObjects, NoRows
<1>2. IInv /\ IInv' /\ [Next]_vars => [Abstract!Next]_(Abstract!vars)
  <2> SUFFICES ASSUME IInv, IInv', [Next]_vars PROVE [Abstract!Next]_(Abstract!vars)
    OBVIOUS
  <2>1. CASE <<raw, manifest>>' # <<raw, manifest>>
    <3>1. PICK t \in Threads : Load(t) /\ lock = t /\ pc[t] = "upload"
      BY <2>1, OnlyLoad
    <3> DEFINE S == Selected(objects[t])
    <3>2. S # {} /\ S \subseteq Selected(bronze) /\ S \in SUBSET Keys
      BY <3>1 DEF IInv, Selections, Selected
    <3>3. Selected(bronze)' = Selected(bronze)
      BY <3>1 DEF Load, lake, Selected
    <3>4. Processed' = Processed \cup S
      BY <3>1, LoadRecords DEF IInv
    <3>5. Loaded' = Loaded \cup EventsIn(S)
      BY <3>4 DEF IInv, WarehouseExact, EventsIn
    <3>6. Abstract!Load(S)
      BY <3>2, <3>3, <3>4, <3>5 DEF Abstract!Load, EventsIn
    <3> QED
      BY <3>2, <3>6 DEF Abstract!Next
  <2>2. CASE UNCHANGED <<raw, manifest>> /\ bronze' # bronze
    <3>1. PICK k \in Keys, i \in Instants : Put(k, i)
      BY <2>2 DEF Next, AnyRequest, Step, Fault, vars, Request, StartRun, List, Filter, NoData,
         Download, Deduplicate, Upload, Load, Finish, Fail, StartRaises, Raise, CloseRaises,
         FailUnrecorded, Crash, lake
    <3>2. Selected(bronze)' = Selected(bronze) \cup {k}
      BY <3>1 DEF Put, Selected, Instants, IInv, TypeOK
    <3>3. Abstract!Land(k)
      BY <2>2, <3>2 DEF Abstract!Land, Processed, Loaded
    <3> QED
      BY <3>3 DEF Abstract!Next
  <2>3. CASE UNCHANGED <<raw, manifest, bronze>>
    BY <2>3 DEF Abstract!vars, Selected, Processed, Loaded
  <2> QED
    BY <2>1, <2>2, <2>3
<1> QED
  BY <1>1, <1>2, Invariance, PTL DEF SafeSpec, ImplementsLoadOnce, Abstract!Spec
=============================================================================
