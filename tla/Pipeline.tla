------------------------------ MODULE Pipeline ------------------------------
(***************************************************************************)
(* The Airflow DAG (airflow/dags/mobility_flow.py) with what it drives:    *)
(* the source sync, the Spark job (SparkJob), dbt, the run row that the    *)
(* job and the DAG write (database.py, api.py), and the delivery manifest  *)
(* the API serves from it.                                                 *)
(*                                                                         *)
(* A task is tried again when a try fails, by an error or by one of its    *)
(* timeouts.  A client that gives up does not stop the server: the job     *)
(* runs on, and an update of the run row may be applied later.             *)
(***************************************************************************)
EXTENDS SparkJob, FiniteSetsExt

CONSTANT Retries   \* retries of a task

Tasks == {"sync", "wait", "spark", "dbt", "publish"}

ASSUME RetriesAssumption == Retries \in [Tasks -> Nat]

VARIABLES
  started,         \* started_at of a run row, 0 before
  source_objects,  \* source_objects of a run row
  dbt_status,      \* dbt_status of a run row, or None
  late,            \* updates whose client gave up, and which may still be applied
  tested,          \* objects loaded before a dbt build that passed began
  dag,             \* the DAG run in progress
  used,            \* run ids that are taken
  succeeded        \* DAG runs all of whose tasks succeeded

columns == <<started, source_objects, dbt_status>>
history == <<used, succeeded>>
vars == <<jobVars, columns, late, tested, dag, history>>

\* running: the try waits for the Spark job or for dbt; result: what the
\* task before returned; seen: the objects loaded when the build began.
NoDag == [task |-> "idle", run |-> None, tries |-> 0, running |-> FALSE,
          result |-> None, seen |-> {}]

Init ==
  /\ JobInit
  /\ started = [r \in Runs |-> 0]
  /\ source_objects = [r \in Runs |-> 0]
  /\ dbt_status = [r \in Runs |-> None]
  /\ late = {} /\ tested = {}
  /\ dag = NoDag
  /\ used = {} /\ succeeded = {}
-----------------------------------------------------------------------------
(* Tasks and their tries.                                                  *)

\* Mutants of Failed: one retry too many, and retries that begin at the job.
FailedOnceMore == IF dag.tries <= Retries[dag.task]
                    THEN [dag EXCEPT !.tries = @ + 1, !.running = FALSE, !.seen = {}]
                    ELSE NoDag

FailedRerunningJob ==
  IF dag.tries < Retries[dag.task]
    THEN [dag EXCEPT !.tries = @ + 1, !.running = FALSE, !.seen = {},
                     !.task = IF @ \in {"dbt", "publish"} THEN "spark" ELSE @]
    ELSE NoDag

\* A try fails: the task is tried again, or the DAG run has failed.
Failed == IF dag.tries < Retries[dag.task]
            THEN [dag EXCEPT !.tries = @ + 1, !.running = FALSE, !.seen = {}]
            ELSE NoDag

Done(next, result) ==
  [dag EXCEPT !.task = next, !.tries = 0, !.running = FALSE, !.result = result]

\* schedule and dags trigger, with max_active_runs = 1.
Schedule(r) ==
  /\ dag = NoDag
  /\ r \notin used /\ used' = used \cup {r}
  /\ dag' = [NoDag EXCEPT !.task = "sync", !.run = r]
  /\ UNCHANGED <<jobVars, columns, late, tested, succeeded>>

\* Mutant of TryFails: the HTTP request for the job has no timeout.
TryFailsUnlessWaiting ==
  /\ dag # NoDag
  /\ ~(dag.task = "spark" /\ dag.running)
  /\ dag' = Failed
  /\ UNCHANGED <<jobVars, columns, late, tested, history>>

\* A try fails and has no effect but those it had: the request cannot be made
\* or times out, the execution_timeout passes, dbt times out (TimeoutExpired is
\* not caught), the worker dies.
TryFails ==
  /\ dag # NoDag
  /\ dag' = Failed
  /\ UNCHANGED <<jobVars, columns, late, tested, history>>

\* A sync stores an object under bronze/: for the try that asked for it, after that
\* try was given up, or by hand.
Stores(o) ==
  /\ Land(o)
  /\ UNCHANGED <<columns, late, tested, dag, history>>

\* sync_seoul_live_traffic has its answer: the sync has stored what it accepted of
\* each area, which may be nothing.
Sync ==
  /\ dag.task = "sync"
  /\ dag' = Done("wait", None)
  /\ UNCHANGED <<jobVars, columns, late, tested, history>>

\* wait_for_bronze.
Wait ==
  /\ dag.task = "wait" /\ landed # {}
  /\ dag' = Done("spark", None)
  /\ UNCHANGED <<jobVars, columns, late, tested, history>>
-----------------------------------------------------------------------------
(* spark_transform, and the job it asks for.                               *)

Submit ==
  /\ dag.task = "spark" /\ ~dag.running
  /\ Accept(dag.run, FALSE)
  /\ dag' = [dag EXCEPT !.running = TRUE]
  /\ UNCHANGED <<columns, late, tested, history>>

\* 409: another job, or the one of an earlier try, is still running.
Conflict ==
  /\ dag.task = "spark" /\ ~dag.running /\ job # Idle
  /\ dag' = Failed
  /\ UNCHANGED <<jobVars, columns, late, tested, history>>

\* Mutant of Backfill: it names a run that has been.
BackfillAgain(r) ==
  /\ r \in used /\ dag.run # r /\ used' = used
  /\ Accept(r, TRUE)
  /\ UNCHANGED <<columns, late, tested, dag, succeeded>>

\* A backfill of the runbook, under a run id of its own.
Backfill(r) ==
  /\ r \notin used /\ used' = used \cup {r}
  /\ Accept(r, TRUE)
  /\ UNCHANGED <<columns, late, tested, dag, succeeded>>

\* The job of the waiting try ends: the answer arrives, or is lost.
Answer(d) ==
  \/ dag.task = "spark" /\ dag.running /\ dag.run = job.run /\ dag' = d
  \/ UNCHANGED dag

StartedNow == [started EXCEPT ![job.run] = 1 + Max({started[r] : r \in Runs})]

\* start_pipeline_run: the columns of an earlier execution remain.
JobStarts ==
  /\ Start
  /\ started' = StartedNow
  /\ UNCHANGED <<source_objects, dbt_status, late, tested, dag, history>>

JobDoesNotStart ==
  /\ \E isCommitted \in BOOLEAN :
       /\ StartRaises(isCommitted)
       /\ started' = IF isCommitted THEN StartedNow ELSE started
  /\ Answer(Failed)
  /\ UNCHANGED <<source_objects, dbt_status, late, tested, history>>

JobWorks ==
  /\ List \/ Filter \/ Load \/ Raise
  /\ UNCHANGED <<columns, late, tested, dag, history>>

JobFindsNothing ==
  /\ NoData
  /\ source_objects' = [source_objects EXCEPT ![job.run] = 0]
  /\ Answer(Done("dbt", "NO_DATA"))
  /\ UNCHANGED <<started, dbt_status, late, tested, history>>

\* Mutant of JobFinishes: it counts all objects there are.
JobFinishesCountingAll ==
  /\ Finish
  /\ source_objects' = [source_objects EXCEPT ![job.run] = Cardinality(landed)]
  /\ Answer(Done("dbt", "TRANSFORMED"))
  /\ UNCHANGED <<started, dbt_status, late, tested, history>>

JobFinishes ==
  /\ Finish
  /\ source_objects' = [source_objects EXCEPT ![job.run] = Cardinality(job.selected)]
  /\ Answer(Done("dbt", "TRANSFORMED"))
  /\ UNCHANGED <<started, dbt_status, late, tested, history>>

\* The row is closed, and the call raises all the same.
JobRaisesClosing ==
  /\ CloseRaises
  /\ source_objects' = [source_objects EXCEPT ![job.run] = Cardinality(job.selected)]
  /\ UNCHANGED <<started, dbt_status, late, tested, dag, history>>

JobFails ==
  /\ Fail \/ Vanish
  /\ Answer(Failed)
  /\ UNCHANGED <<columns, late, tested, history>>
-----------------------------------------------------------------------------
(* PATCH /ops/runs/{run_id}.                                               *)

Update(s, d) == [run |-> dag.run, status |-> s, dbt_status |-> d]

\* finish_pipeline_run as the API calls it; an unknown run id changes nothing.
Apply(u) ==
  /\ IF status[u.run] = "absent"
       THEN UNCHANGED <<status, dbt_status>>
       ELSE /\ status' = [status EXCEPT ![u.run] = u.status]
            /\ dbt_status' = [dbt_status EXCEPT ![u.run] = u.dbt_status]
  /\ UNCHANGED <<landed, processed, sources, job, started, source_objects>>

\* The client gives up; the update may be applied yet, soon, later or never.
GiveUp(u) ==
  /\ late' = late \cup {u}
  /\ dag' = Failed
  /\ UNCHANGED <<jobVars, columns>>

ApplyLate(u) ==
  /\ u \in late /\ late' = late \ {u}
  /\ Apply(u)
  /\ UNCHANGED <<tested, dag, history>>
-----------------------------------------------------------------------------
(* dbt_quality_gate and publish_success.                                   *)

\* Nothing was transformed: the run is closed without a build.
Skip ==
  /\ dag.task = "dbt" /\ dag.result = "NO_DATA"
  /\ LET u == Update("NO_DATA", "SKIPPED")
     IN  \/ Apply(u) /\ dag' = Done("publish", "SKIPPED") /\ UNCHANGED late
         \/ GiveUp(u)
  /\ UNCHANGED <<tested, history>>

Build ==
  /\ dag.task = "dbt" /\ dag.result # "NO_DATA" /\ ~dag.running
  /\ dag' = [dag EXCEPT !.running = TRUE, !.seen = Processed]
  /\ UNCHANGED <<jobVars, columns, late, tested, history>>

\* dbt build and source freshness pass.
BuildPasses ==
  /\ dag.task = "dbt" /\ dag.running
  /\ tested' = tested \cup dag.seen
  /\ dag' = [Done("publish", "PASS") EXCEPT !.seen = {}]
  /\ UNCHANGED <<jobVars, columns, late, history>>

\* Mutant of BuildFails: subprocess.run without check=True.
BuildFailsUnchecked ==
  /\ dag.task = "dbt" /\ dag.running
  /\ dag' = [Done("publish", "PASS") EXCEPT !.seen = {}]
  /\ UNCHANGED <<jobVars, columns, late, tested, history>>

\* One of them fails: the run is marked FAILED, and the try fails.
BuildFails ==
  /\ dag.task = "dbt" /\ dag.running
  /\ LET u == Update("FAILED", "FAIL")
     IN  \/ Apply(u) /\ dag' = Failed /\ UNCHANGED late
         \/ GiveUp(u)
  /\ UNCHANGED <<tested, history>>

\* The last task; it leaves a skipped run as it is.
Succeed == dag' = NoDag /\ succeeded' = succeeded \cup {dag.run}

PublishNothing ==
  /\ dag.task = "publish" /\ dag.result = "SKIPPED"
  /\ Succeed
  /\ UNCHANGED <<jobVars, columns, late, tested, used>>

Publish ==
  /\ dag.task = "publish" /\ dag.result = "PASS"
  /\ LET u == Update("SUCCESS", "PASS")
     IN  \/ Apply(u) /\ Succeed /\ UNCHANGED late
         \/ GiveUp(u) /\ UNCHANGED succeeded
  /\ UNCHANGED <<tested, used>>
-----------------------------------------------------------------------------
\* What Airflow and its workers do by themselves.
DagStep ==
  \/ TryFails
  \/ Sync \/ Wait \/ Submit \/ Conflict
  \/ Skip \/ Build \/ BuildPasses \/ BuildFails
  \/ PublishNothing \/ Publish

JobStep ==
  \/ JobStarts \/ JobDoesNotStart \/ JobWorks
  \/ JobFindsNothing \/ JobFinishes \/ JobRaisesClosing \/ JobFails

Next ==
  \/ \E r \in Runs : Schedule(r) \/ Backfill(r)
  \/ \E o \in Objects : Stores(o)
  \/ DagStep \/ JobStep
  \/ \E u \in late : ApplyLate(u)

SafeSpec == Init /\ [][Next]_vars

\* Airflow goes on, and every try ends by its timeouts; the job need not.
Spec == SafeSpec /\ WF_vars(DagStep)
-----------------------------------------------------------------------------
(* The delivery manifest of GET /api/delivery/latest.                      *)

LastSuccessful ==
  {r \in Runs : /\ status[r] = "SUCCESS"
                /\ \A s \in Runs : status[s] = "SUCCESS" => started[s] <= started[r]}

\* build_delivery_manifest.  Rows reconcile and output_objects counts the
\* artifacts whenever there are artifacts: one update writes the three.
Ready(r) ==
  /\ source_objects[r] > 0
  /\ dbt_status[r] = "PASS"
  /\ sources[r] # {}
-----------------------------------------------------------------------------
(* Properties.                                                             *)

TypeOK ==
  /\ landed \subseteq Objects
  /\ processed \in [Objects -> Runs \cup {None}]
  /\ status \in [Runs -> Status]
  /\ sources \in [Runs -> SUBSET Objects]
  /\ job \in Job
  /\ started \in [Runs -> Nat]
  /\ source_objects \in [Runs -> Nat]
  /\ dbt_status \in [Runs -> {"PASS", "FAIL", "SKIPPED", None}]
  /\ late \subseteq [run : Runs, status : Status, dbt_status : {"PASS", "FAIL", "SKIPPED"}]
  /\ tested \subseteq Objects
  /\ dag \in [task : Tasks \cup {"idle"}, run : Runs \cup {None}, tries : Nat,
              running : BOOLEAN, seen : SUBSET Objects,
              result : {"NO_DATA", "TRANSFORMED", "SKIPPED", "PASS", None}]
  /\ dag.task # "idle" => dag.tries <= Retries[dag.task]
  /\ used \subseteq Runs /\ succeeded \subseteq used

\* A delivery that is READY rests on tested rows only: its own objects, and all
\* that executions started no later than it have loaded, the interrupted ones
\* included, were in the warehouse before a dbt build that passed began.
ReadyIsTested ==
  \A r \in LastSuccessful : Ready(r) =>
    /\ sources[r] \subseteq tested
    /\ \A o \in Processed : started[processed[o]] <= started[r] => o \in tested

\* A READY delivery counts the objects it lists, and has loaded them, whatever
\* mixture of executions, retries and late updates wrote its row.
ReadyIsConsistent ==
  \A r \in LastSuccessful : Ready(r) =>
    /\ source_objects[r] = Cardinality(sources[r])
    /\ sources[r] \subseteq Processed

\* While a job runs its row says RUNNING, until it closes it itself: no update
\* of an earlier try clobbers the row of the job in progress.
RunningRow ==
  job.pc \notin {"idle", "start", "except"} => status[job.run] = "RUNNING"

\* A run that is SUCCESS stays so, and so the delivery never goes back to an
\* older run, unless an update is applied whose client had given up.
SuccessSticks ==
  [][\A r \in Runs :
       status[r] = "SUCCESS" /\ status'[r] # "SUCCESS"
         => \E u \in late : u.run = r /\ u.status = status'[r]]_vars

\* What the documentation of the DAG says of a retry, that it can safely replay
\* an interrupted batch: when all tasks of a run have succeeded, the objects it
\* loaded have been through the quality gate.
RetryReplaysBatch ==
  \A r \in succeeded, o \in Objects : processed[o] = r => o \in tested

\* Every DAG run ends, though the job it waits for may hang: with one active
\* run at a time the pipeline would otherwise stop.
EveryRunEnds == dag # NoDag ~> dag = NoDag
=============================================================================
