---------------------------- MODULE SparkJobProofs ----------------------------
(***************************************************************************)
(* The Spark job endpoint implements the coarse job of SparkJob, which     *)
(* Pipeline composes with the DAG.                                         *)
(***************************************************************************)
EXTENDS BronzeToSilverProofs

\* What SparkJob sees.
Landed == Selected(bronze)
RunOf == [k \in Keys |-> IF manifest[k] = None THEN None ELSE manifest[k].run_id]
StatusOf == [r \in Runs |-> runs[r].status]
SourcesOf == [r \in Runs |-> runs[r].sources]
TheJob == IF lock = None THEN NoJob ELSE JobOf(lock)

\* The tables and the lake look the same when they are the same.
LEMMA SameLake == ASSUME UNCHANGED bronze PROVE UNCHANGED Landed
BY DEF Landed, Selected

LEMMA SameManifest == ASSUME UNCHANGED manifest PROVE UNCHANGED RunOf
BY DEF RunOf

LEMMA SameRuns == ASSUME UNCHANGED runs PROVE UNCHANGED <<StatusOf, SourcesOf>>
BY DEF StatusOf, SourcesOf

\* A request that runs holds the lock, and its run is a run.
LEMMA Running ==
  ASSUME IInv, NEW t \in Threads, pc[t] # "idle"
  PROVE  /\ lock = t /\ lock # None /\ TheJob = JobOf(t)
         /\ request[t] \in TransformRequest /\ request[t].run_id \in Runs
         /\ request[t].run_id # None
BY ConstantsAssumption DEF IInv, Frames, TypeOK, TransformRequest, TheJob

LEMMA AfterReturn == ASSUME NEW t, Return(t) PROVE TheJob' = NoJob
BY DEF Return, TheJob

\* Closing the row of a run.
LEMMA Closed ==
  ASSUME IInv, NEW r \in Runs, NEW s, runs' = [runs EXCEPT ![r].status = s]
  PROVE  StatusOf' = [StatusOf EXCEPT ![r] = s] /\ UNCHANGED SourcesOf
<1>1. \A q \in Runs : runs'[q].status = (IF q = r THEN s ELSE runs[q].status)
                      /\ runs'[q].sources = runs[q].sources
  BY DEF IInv, TypeOK, RunRow
<1> QED
  BY <1>1 DEF StatusOf, SourcesOf

\* The next state of the job in progress: its place, and its objects.
LEMMA NextJob ==
  ASSUME NEW t \in Threads, IInv, pc[t] # "idle", lock' = lock,
         NEW p, p \notin {"download", "upload"}, pc'[t] = p, request'[t] = request[t]
  PROVE  TheJob' = View!At(p, Selected(objects'[t]))
<1>1. TheJob = JobOf(t) /\ TheJob' = JobOf(t)'
  BY Running DEF TheJob, JobOf
<1> QED
  BY <1>1 DEF View!At, TheJob, JobOf
-----------------------------------------------------------------------------
LEMMA InitRefines == Init => View!JobInit
BY ConstantsAssumption DEF Init, View!JobInit, View!Idle, NoJob, Selected, NoObjects

LEMMA ProcessedSeen == ASSUME IInv PROVE View!Processed = Processed
BY ConstantsAssumption DEF View!Processed, Processed, IInv, TypeOK, ManifestRow

LEMMA PutRefines ==
  ASSUME IInv, NEW k \in Keys, NEW i \in Instants, Put(k, i)
  PROVE  View!Land(k)
<1>1. Landed' = Landed \cup {k}
  BY DEF Put, Landed, Selected, Instants, IInv, TypeOK
<1>2. UNCHANGED <<RunOf, StatusOf, SourcesOf, TheJob>>
  BY SameManifest, SameRuns DEF Put, database, locals, TheJob, JobOf
<1> QED
  BY <1>1, <1>2 DEF View!Land, Landed, RunOf, StatusOf, SourcesOf, TheJob

LEMMA RequestRefines ==
  ASSUME IInv, NEW t \in Threads, NEW r \in Runs, NEW force \in BOOLEAN, Request(t, r, force)
  PROVE  View!Accept(r, force)
<1>1. TheJob = NoJob
  BY DEF Request, TheJob
<1>2. TheJob' = [pc |-> "start", run |-> r, force |-> force, selected |-> {}]
  <2>1. lock' = t /\ lock' # None /\ pc'[t] = "start"
        /\ request'[t] = [run_id |-> r, force |-> force] /\ objects'[t] = NoObjects
    BY ConstantsAssumption DEF Request, IInv, TypeOK, Frames
  <2>2. Selected(objects'[t]) = {}
    BY <2>1 DEF Selected, NoObjects
  <2> QED
    BY <2>1, <2>2 DEF TheJob, JobOf
<1>3. UNCHANGED <<Landed, RunOf, StatusOf, SourcesOf>>
  BY SameLake, SameManifest, SameRuns DEF Request, lake, database
<1> QED
  BY <1>1, <1>2, <1>3
  DEF View!Accept, View!Idle, NoJob, Landed, RunOf, StatusOf, SourcesOf, TheJob

LEMMA StartRefines ==
  ASSUME IInv, NEW t \in Threads, StartRun(t)
  PROVE  View!Start
<1>1. pc[t] = "start" /\ pc[t] # "idle"
  BY DEF StartRun
<1>2. TheJob = JobOf(t) /\ JobOf(t).pc = "start" /\ JobOf(t).run = request[t].run_id
      /\ JobOf(t).selected = Selected(objects[t])
  BY <1>1, Running DEF JobOf
<1>3. StatusOf' = [StatusOf EXCEPT ![request[t].run_id] = "RUNNING"] /\ UNCHANGED SourcesOf
  BY <1>1, Running, Closed DEF StartRun, Opened
<1>4. TheJob' = View!At("list", Selected(objects[t]))
  <2>1. pc'[t] = "list" /\ request' = request /\ objects' = objects /\ lock' = lock
    BY DEF StartRun, locals, IInv, TypeOK
  <2> QED
    BY <1>1, <2>1, NextJob
<1>5. UNCHANGED <<Landed, RunOf>>
  BY SameLake, SameManifest DEF StartRun, lake
<1> QED
  BY <1>2, <1>3, <1>4, <1>5 DEF View!Start, Landed, RunOf, StatusOf, SourcesOf, TheJob

LEMMA StartRaisesRefines ==
  ASSUME IInv, NEW t \in Threads, StartRaises(t)
  PROVE  \E isCommitted \in BOOLEAN : View!StartRaises(isCommitted)
<1>1. pc[t] = "start" /\ pc[t] # "idle"
  BY DEF StartRaises
<1>2. TheJob = JobOf(t) /\ JobOf(t).pc = "start" /\ JobOf(t).run = request[t].run_id
  BY <1>1, Running DEF JobOf
<1>3. TheJob' = NoJob
  BY AfterReturn DEF StartRaises
<1>4. UNCHANGED <<Landed, RunOf>>
  BY SameLake, SameManifest DEF StartRaises, lake
<1>5. CASE runs' = runs
  <2>1. View!StartRaises(FALSE)
    BY <1>2, <1>3, <1>4, <1>5, SameRuns
    DEF View!StartRaises, View!Idle, NoJob, Landed, RunOf, StatusOf, SourcesOf, TheJob
  <2> QED
    BY <2>1
<1>6. CASE runs' = Opened(request[t].run_id)
  <2>1. StatusOf' = [StatusOf EXCEPT ![request[t].run_id] = "RUNNING"] /\ UNCHANGED SourcesOf
    BY <1>1, <1>6, Running, Closed DEF Opened
  <2>2. View!StartRaises(TRUE)
    BY <1>2, <1>3, <1>4, <2>1
    DEF View!StartRaises, View!Idle, NoJob, Landed, RunOf, StatusOf, SourcesOf, TheJob
  <2> QED
    BY <2>2
<1> QED
  BY <1>5, <1>6 DEF StartRaises

LEMMA ListRefines ==
  ASSUME IInv, NEW t \in Threads, List(t)
  PROVE  View!List
<1>1. pc[t] = "list" /\ pc[t] # "idle"
  BY DEF List
<1>2. TheJob = JobOf(t) /\ JobOf(t).pc = "list"
  BY <1>1, Running DEF JobOf
<1>3. TheJob' = View!At("filter", Landed)
  <2>1. pc'[t] = "filter" /\ request' = request /\ objects'[t] = bronze /\ lock' = lock
    BY DEF List, IInv, TypeOK
  <2>2. TheJob' = View!At("filter", Selected(objects'[t]))
    BY <1>1, <2>1, NextJob
  <2> QED
    BY <2>1, <2>2 DEF Landed
<1>4. UNCHANGED <<Landed, RunOf, StatusOf, SourcesOf>>
  BY SameLake, SameManifest, SameRuns DEF List, lake, database
<1> QED
  BY <1>2, <1>3, <1>4 DEF View!List, Landed, RunOf, StatusOf, SourcesOf, TheJob

LEMMA FilterRefines ==
  ASSUME IInv, NEW t \in Threads, Filter(t)
  PROVE  View!Filter
<1>1. pc[t] = "filter" /\ pc[t] # "idle"
  BY DEF Filter
<1>2. TheJob = JobOf(t) /\ JobOf(t).pc = "filter"
  BY <1>1, Running DEF JobOf
<1> DEFINE W == IF request[t].force THEN Selected(objects[t]) ELSE Selected(objects[t]) \ Processed
<1>3. View!Wanted = W
  BY <1>2, ProcessedSeen DEF View!Wanted, JobOf, TheJob
<1>4. objects'[t] = Unprocessed(t) /\ Selected(objects[t])' = W
  BY DEF Filter, Unprocessed, Selected, Processed, IInv, TypeOK
<1>5. TheJob' = View!At(IF W = {} THEN "nodata" ELSE "load", W)
  <2>1. pc'[t] = IF W = {} THEN "nodata" ELSE "download"
    BY <1>4 DEF Filter, IInv, TypeOK, Selected
  <2>2. request' = request /\ lock' = lock
    BY DEF Filter
  <2>3. TheJob' = JobOf(t)'
    BY <1>1, <2>2, Running DEF TheJob, JobOf
  <2>4. JobOf(t)' = [pc |-> IF W = {} THEN "nodata" ELSE "load", run |-> request[t].run_id,
                     force |-> request[t].force, selected |-> W]
    BY <1>4, <2>1, <2>2 DEF JobOf
  <2>5. JobOf(t).run = request[t].run_id /\ JobOf(t).force = request[t].force
    BY DEF JobOf
  <2> HIDE DEF W
  <2> QED
    BY <1>2, <2>3, <2>4, <2>5 DEF View!At, TheJob
<1>6. UNCHANGED <<Landed, RunOf, StatusOf, SourcesOf>>
  BY SameLake, SameManifest, SameRuns DEF Filter, lake, database
<1> QED
  BY <1>2, <1>3, <1>5, <1>6 DEF View!Filter, Landed, RunOf, StatusOf, SourcesOf, TheJob
-----------------------------------------------------------------------------
\* The ends of a job, which close its row or leave it.
LEMMA CloseRefines ==
  ASSUME IInv, NEW t \in Threads, NEW s, pc[t] # "idle", Return(t),
         runs' = [runs EXCEPT ![request[t].run_id].status = s]
  PROVE  View!Close(s) /\ UNCHANGED SourcesOf
<1>1. TheJob = JobOf(t) /\ JobOf(t).run = request[t].run_id
  BY Running DEF JobOf
<1>2. TheJob' = NoJob
  BY AfterReturn
<1>3. StatusOf' = [StatusOf EXCEPT ![request[t].run_id] = s] /\ UNCHANGED SourcesOf
  BY Running, Closed
<1> QED
  BY <1>1, <1>2, <1>3 DEF View!Close, View!Idle, NoJob, StatusOf, SourcesOf, TheJob

LEMMA NoDataRefines ==
  ASSUME IInv, NEW t \in Threads, NoData(t)
  PROVE  View!NoData
<1>1. pc[t] = "nodata" /\ pc[t] # "idle"
  BY DEF NoData
<1>2. TheJob.pc = "nodata"
  BY <1>1, Running DEF JobOf
<1>3. View!Close("NO_DATA") /\ UNCHANGED SourcesOf
  BY <1>1, CloseRefines DEF NoData
<1>4. UNCHANGED <<Landed, RunOf>>
  BY SameLake, SameManifest DEF NoData, lake
<1> QED
  BY <1>2, <1>3, <1>4 DEF View!NoData, Landed, RunOf, SourcesOf, TheJob

LEMMA FailRefines ==
  ASSUME IInv, NEW t \in Threads, Fail(t)
  PROVE  View!Fail
<1>1. pc[t] = "except" /\ pc[t] # "idle"
  BY DEF Fail
<1>2. TheJob.pc = "except"
  BY <1>1, Running DEF JobOf
<1>3. View!Close("FAILED") /\ UNCHANGED SourcesOf
  BY <1>1, CloseRefines DEF Fail
<1>4. UNCHANGED <<Landed, RunOf>>
  BY SameLake, SameManifest DEF Fail, lake
<1> QED
  BY <1>2, <1>3, <1>4 DEF View!Fail, Landed, RunOf, SourcesOf, TheJob

LEMMA FinishRefines ==
  ASSUME IInv, NEW t \in Threads, Finish(t)
  PROVE  View!Finish
<1>1. pc[t] = "finish" /\ pc[t] # "idle"
  BY DEF Finish
<1>2. TheJob = JobOf(t) /\ JobOf(t).pc = "finish" /\ JobOf(t).run = request[t].run_id
      /\ JobOf(t).selected = Selected(objects[t])
  BY <1>1, Running DEF JobOf
<1>3. TheJob' = NoJob
  BY AfterReturn DEF Finish
<1>4. /\ StatusOf' = [StatusOf EXCEPT ![request[t].run_id] = "TRANSFORMED"]
      /\ SourcesOf' = [SourcesOf EXCEPT ![request[t].run_id] = Selected(objects[t])]
  BY DEF Finish, StatusOf, SourcesOf, IInv, TypeOK
<1>5. UNCHANGED <<Landed, RunOf>>
  BY SameLake, SameManifest DEF Finish, lake
<1> QED
  BY <1>2, <1>3, <1>4, <1>5
  DEF View!Finish, View!Close, View!Idle, NoJob, Landed, RunOf, StatusOf, SourcesOf, TheJob

LEMMA VanishRefines ==
  ASSUME IInv, lock # None, lock' = None, UNCHANGED <<lake, database>>
  PROVE  View!Vanish
<1>1. lock \in Threads /\ pc[lock] # "idle"
  BY DEF IInv, TypeOK, Frames
<1>2. TheJob = JobOf(lock) /\ TheJob.pc # "idle"
  BY <1>1 DEF TheJob, JobOf
<1>3. TheJob' = NoJob
  BY DEF TheJob
<1>4. UNCHANGED <<Landed, RunOf, StatusOf, SourcesOf>>
  BY SameLake, SameManifest, SameRuns DEF lake, database
<1> QED
  BY <1>2, <1>3, <1>4
  DEF View!Vanish, View!Idle, NoJob, Landed, RunOf, StatusOf, SourcesOf, TheJob
-----------------------------------------------------------------------------
LEMMA LoadRefines ==
  ASSUME IInv, NEW t \in Threads, Load(t)
  PROVE  View!Load
<1>1. pc[t] = "upload" /\ pc[t] # "idle"
  BY DEF Load
<1>2. TheJob = JobOf(t)
  BY <1>1, Running
<1>3. JobOf(t).pc = "load" /\ JobOf(t).run = request[t].run_id
      /\ JobOf(t).selected = Selected(objects[t])
  BY <1>1 DEF JobOf
<1>4. TheJob' = View!At("finish", Selected(objects[t]))
  <2>1. pc'[t] = "finish" /\ request' = request /\ objects' = objects /\ lock' = lock
    BY DEF Load, locals, IInv, TypeOK
  <2> QED
    BY <1>1, <2>1, NextJob
<1>5. RunOf' = [k \in Keys |-> IF k \in Selected(objects[t]) THEN request[t].run_id ELSE RunOf[k]]
  <2>1. ASSUME NEW k \in Keys
        PROVE  RunOf'[k] = IF k \in Selected(objects[t]) THEN request[t].run_id ELSE RunOf[k]
    <3>1. CASE k \in Selected(objects[t])
      <4>1. manifest'[k] = [etag |-> objects[t][k], run_id |-> request[t].run_id]
        BY <3>1 DEF Load, Selected
      <4>2. manifest'[k] # None
        BY <3>1, <4>1, <1>1, Running, ConstantsAssumption
        DEF ManifestRow, Selected, Instants, IInv, TypeOK
      <4> QED
        BY <3>1, <4>1, <4>2 DEF RunOf
    <3>2. CASE k \notin Selected(objects[t])
      BY <3>2 DEF Load, Selected, RunOf
    <3> QED
      BY <3>1, <3>2
  <2> QED
    BY <2>1 DEF RunOf
<1>6. UNCHANGED <<Landed, StatusOf, SourcesOf>>
  BY SameLake, SameRuns DEF Load, lake
<1> QED
  BY <1>2, <1>3, <1>4, <1>5, <1>6 DEF View!Load, Landed, RunOf, StatusOf, SourcesOf, TheJob

LEMMA RaiseRefines ==
  ASSUME IInv, NEW t \in Threads, Raise(t)
  PROVE  View!Raise
<1>1. pc[t] \in {"list", "filter", "nodata", "download", "upload", "finish"} /\ pc[t] # "idle"
  BY DEF Raise
<1>2. TheJob = JobOf(t)
  BY <1>1, Running
<1>3. JobOf(t).pc \in {"list", "filter", "nodata", "load", "finish"}
      /\ JobOf(t).selected = Selected(objects[t])
  BY <1>1 DEF JobOf
<1>4. TheJob' = View!At("except", Selected(objects[t]))
  <2>1. pc'[t] = "except" /\ request' = request /\ objects' = objects /\ lock' = lock
    BY DEF Raise, locals, IInv, TypeOK
  <2> QED
    BY <1>1, <2>1, NextJob
<1>5. UNCHANGED <<Landed, RunOf, StatusOf, SourcesOf>>
  BY SameLake, SameManifest, SameRuns DEF Raise, lake, database
<1> QED
  BY <1>2, <1>3, <1>4, <1>5 DEF View!Raise, Landed, RunOf, StatusOf, SourcesOf, TheJob

LEMMA CloseRaisesRefines ==
  ASSUME IInv, NEW t \in Threads, CloseRaises(t)
  PROVE  View!CloseRaises
<1>1. pc[t] \in {"nodata", "finish"} /\ pc[t] # "idle"
  BY DEF CloseRaises
<1>2. TheJob = JobOf(t) /\ JobOf(t).pc = pc[t] /\ JobOf(t).run = request[t].run_id
      /\ request[t].run_id \in Runs /\ JobOf(t).selected = Selected(objects[t])
  BY <1>1, Running DEF JobOf
<1>3. TheJob' = View!At("except", Selected(objects[t]))
  <2>1. pc'[t] = "except" /\ request' = request /\ objects' = objects /\ lock' = lock
    BY DEF CloseRaises, locals, IInv, TypeOK
  <2> QED
    BY <1>1, <2>1, NextJob
<1>4. UNCHANGED <<Landed, RunOf>>
  BY SameLake, SameManifest DEF CloseRaises, lake
<1>5. CASE pc[t] = "nodata"
  <2>1. StatusOf' = [StatusOf EXCEPT ![request[t].run_id] = "NO_DATA"] /\ UNCHANGED SourcesOf
    BY <1>1, <1>5, Running, Closed DEF CloseRaises
  <2> QED
    BY <1>2, <1>3, <1>4, <1>5, <2>1
    DEF View!CloseRaises, Landed, RunOf, StatusOf, SourcesOf, TheJob
<1>6. CASE pc[t] = "finish"
  <2>1. /\ StatusOf' = [StatusOf EXCEPT ![request[t].run_id] = "TRANSFORMED"]
        /\ SourcesOf' = [SourcesOf EXCEPT ![request[t].run_id] = Selected(objects[t])]
    <3>1. runs' = [runs EXCEPT ![request[t].run_id] =
                    [status |-> "TRANSFORMED", sources |-> Selected(objects[t])]]
      BY <1>6 DEF CloseRaises
    <3> QED
      BY <1>2, <3>1 DEF StatusOf, SourcesOf, IInv, TypeOK
  <2> QED
    BY <1>2, <1>3, <1>4, <1>6, <2>1
    DEF View!CloseRaises, Landed, RunOf, StatusOf, SourcesOf, TheJob
<1> QED
  BY <1>1, <1>5, <1>6

\* Downloads, deduplication and uploads are inside the coarse load.
LEMMA WorkStutters ==
  ASSUME IInv, NEW t \in Threads,
         (\E k \in Keys : Download(t, k)) \/ Deduplicate(t) \/ (\E e \in Events : Upload(t, e))
  PROVE  UNCHANGED View!jobVars
<1>1. pc[t] \in {"download", "upload"} /\ pc'[t] \in {"download", "upload"}
      /\ UNCHANGED <<lake, database, lock, request, objects>>
  BY DEF Download, Deduplicate, Upload, locals, lake, database, IInv, TypeOK
<1>2. TheJob = JobOf(t) /\ TheJob' = JobOf(t)'
  BY <1>1, Running DEF TheJob, JobOf
<1>3. JobOf(t)' = JobOf(t)
  BY <1>1 DEF JobOf
<1>4. UNCHANGED <<Landed, RunOf, StatusOf, SourcesOf>>
  BY <1>1, SameLake, SameManifest, SameRuns DEF lake, database
<1> QED
  BY <1>2, <1>3, <1>4 DEF View!jobVars, Landed, RunOf, StatusOf, SourcesOf, TheJob
-----------------------------------------------------------------------------
\* A step of the endpoint is one of the coarse job, or none of its business.
LEMMA StepRefines == IInv /\ [Next]_vars => [View!JobNext]_(View!jobVars)
<1> SUFFICES ASSUME IInv, [Next]_vars PROVE [View!JobNext]_(View!jobVars)
  OBVIOUS
<1>1. ASSUME NEW k \in Keys, NEW i \in Instants, Put(k, i) PROVE View!JobNext
  BY <1>1, PutRefines DEF View!JobNext
<1>2. ASSUME NEW t \in Threads, NEW r \in Runs, NEW force \in BOOLEAN, Request(t, r, force)
      PROVE  View!JobNext
  BY <1>2, RequestRefines DEF View!JobNext
<1>3. ASSUME NEW t \in Threads, Step(t) PROVE [View!JobNext]_(View!jobVars)
  BY <1>3, StartRefines, ListRefines, FilterRefines, NoDataRefines, WorkStutters, LoadRefines,
     FinishRefines, FailRefines DEF View!JobNext, Step
<1>4. ASSUME NEW t \in Threads, Fault(t) PROVE View!JobNext
  <2>1. ASSUME FailUnrecorded(t) PROVE View!Vanish
    BY <2>1, Running, VanishRefines DEF FailUnrecorded, Return
  <2> QED
    BY <1>4, <2>1, StartRaisesRefines, RaiseRefines, CloseRaisesRefines DEF View!JobNext, Fault
<1>5. ASSUME Crash PROVE View!JobNext
  BY <1>5, VanishRefines DEF Crash, View!JobNext
<1>6. CASE UNCHANGED vars
  BY <1>6, SameLake, SameManifest, SameRuns
  DEF vars, View!jobVars, Landed, RunOf, StatusOf, SourcesOf, JobOf
<1> QED
  BY <1>1, <1>2, <1>3, <1>4, <1>5, <1>6 DEF Next, AnyRequest

\* The endpoint, with its threads, files and rows, implements the coarse job:
\* whatever holds of SparkJob, and of what is composed with it, holds of it.
THEOREM JobImplementation == SafeSpec => ImplementsSparkJob
BY InitRefines, StepRefines, Invariance, PTL
DEF SafeSpec, ImplementsSparkJob, View!JobSpec
===============================================================================
