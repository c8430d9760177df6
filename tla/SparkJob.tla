------------------------------ MODULE SparkJob ------------------------------
(***************************************************************************)
(* What the rest of the platform sees of the Spark job endpoint            *)
(* (spark_runner.py, database.py): which objects have landed, which run    *)
(* the manifest names for an object, the status and the source_manifest of *)
(* a run row, and the one job that JOB_LOCK admits.  The files, rows and   *)
(* request threads of BronzeToSilver are hidden; BronzeToSilver implements *)
(* this module, and Pipeline composes it with the DAG that calls it.       *)
(***************************************************************************)
EXTENDS Naturals, FiniteSets

CONSTANTS
  Objects,   \* object keys under the prefix
  Runs,      \* run ids
  None

ASSUME NoneAssumption == None \notin Runs

VARIABLES
  landed,      \* the objects stored
  processed,   \* ops.object_manifest: the run_id of an object, or None
  status,      \* the status of a run row
  sources,     \* details.source_manifest of a run row
  job          \* the job in progress

jobVars == <<landed, processed, status, sources, job>>

Idle == [pc |-> "idle", run |-> None, force |-> FALSE, selected |-> {}]

Status == {"absent", "RUNNING", "NO_DATA", "TRANSFORMED", "FAILED", "SUCCESS"}
Job == [pc : {"idle", "start", "list", "filter", "nodata", "load", "finish", "except"},
        run : Runs \cup {None}, force : BOOLEAN, selected : SUBSET Objects]

Processed == {o \in Objects : processed[o] # None}

JobInit ==
  /\ landed = {}
  /\ processed = [o \in Objects |-> None]
  /\ status = [r \in Runs |-> "absent"]
  /\ sources = [r \in Runs |-> {}]
  /\ job = Idle

Land(o) ==
  /\ landed' = landed \cup {o}
  /\ UNCHANGED <<processed, status, sources, job>>

\* The job goes on, with the objects it has selected.
At(place, selected) == [pc |-> place, run |-> job.run, force |-> job.force, selected |-> selected]

\* The endpoint admits a request when JOB_LOCK is free.
Accept(r, force) ==
  /\ job = Idle
  /\ job' = [pc |-> "start", run |-> r, force |-> force, selected |-> {}]
  /\ UNCHANGED <<landed, processed, status, sources>>

\* The row of the run is inserted or reopened.
Start ==
  /\ job.pc = "start"
  /\ status' = [status EXCEPT ![job.run] = "RUNNING"]
  /\ job' = At("list", job.selected)
  /\ UNCHANGED <<landed, processed, sources>>

\* It raises, outside the try, committed or not.
StartRaises(isCommitted) ==
  /\ job.pc = "start"
  /\ status' = IF isCommitted THEN [status EXCEPT ![job.run] = "RUNNING"] ELSE status
  /\ job' = Idle
  /\ UNCHANGED <<landed, processed, sources>>

List ==
  /\ job.pc = "list"
  /\ job' = At("filter", landed)
  /\ UNCHANGED <<landed, processed, status, sources>>

Wanted == IF job.force THEN job.selected ELSE job.selected \ Processed

Filter ==
  /\ job.pc = "filter"
  /\ job' = At(IF Wanted = {} THEN "nodata" ELSE "load", Wanted)
  /\ UNCHANGED <<landed, processed, status, sources>>

Close(s) ==
  /\ status' = [status EXCEPT ![job.run] = s]
  /\ job' = Idle

NoData ==
  /\ job.pc = "nodata"
  /\ Close("NO_DATA")
  /\ UNCHANGED <<landed, processed, sources>>

\* From the downloads to the transaction that records the objects.
Load ==
  /\ job.pc = "load"
  /\ processed' = [o \in Objects |-> IF o \in job.selected THEN job.run ELSE processed[o]]
  /\ job' = At("finish", job.selected)
  /\ UNCHANGED <<landed, status, sources>>

Finish ==
  /\ job.pc = "finish"
  /\ Close("TRANSFORMED")
  /\ sources' = [sources EXCEPT ![job.run] = job.selected]
  /\ UNCHANGED <<landed, processed>>

Raise ==
  /\ job.pc \in {"list", "filter", "nodata", "load", "finish"}
  /\ job' = At("except", job.selected)
  /\ UNCHANGED <<landed, processed, status, sources>>

\* Closing the row raises after it is written.
CloseRaises ==
  /\ \/ /\ job.pc = "nodata"
        /\ status' = [status EXCEPT ![job.run] = "NO_DATA"]
        /\ UNCHANGED sources
     \/ /\ job.pc = "finish"
        /\ status' = [status EXCEPT ![job.run] = "TRANSFORMED"]
        /\ sources' = [sources EXCEPT ![job.run] = job.selected]
  /\ job' = At("except", job.selected)
  /\ UNCHANGED <<landed, processed>>

Fail ==
  /\ job.pc = "except"
  /\ Close("FAILED")
  /\ UNCHANGED <<landed, processed, sources>>

\* The except clause raises itself, or the container is killed.
Vanish ==
  /\ job # Idle
  /\ job' = Idle
  /\ UNCHANGED <<landed, processed, status, sources>>

JobNext ==
  \/ \E o \in Objects : Land(o)
  \/ \E r \in Runs, force \in BOOLEAN : Accept(r, force)
  \/ Start \/ \E isCommitted \in BOOLEAN : StartRaises(isCommitted)
  \/ List \/ Filter \/ NoData \/ Load \/ Finish
  \/ Raise \/ CloseRaises \/ Fail \/ Vanish

JobSpec == JobInit /\ [][JobNext]_jobVars
=============================================================================
