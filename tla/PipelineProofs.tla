--------------------------- MODULE PipelineProofs ---------------------------
(***************************************************************************)
(* Proofs about Pipeline for any objects, runs and retries: the row of the *)
(* job in progress is not clobbered, a run that is SUCCESS stays so, and a *)
(* READY delivery counts what it lists and rests on tested rows only.      *)
(*                                                                         *)
(* The argument is about who may still write a row.  Only the job writes   *)
(* it until the job has answered; from then on only the last two tasks and *)
(* the updates they gave up do, and no run id is ever taken again.         *)
(***************************************************************************)
EXTENDS Pipeline, FiniteSetTheorems, TLAPS

\* What the variables of the job keep: an idle job is blank, another one has a run.
JobType ==
  /\ landed \subseteq Objects /\ IsFiniteSet(landed)
  /\ processed \in [Objects -> Runs \cup {None}]
  /\ status \in [Runs -> Status]
  /\ sources \in [Runs -> SUBSET Objects]
  /\ job \in Job /\ IsFiniteSet(job.selected)
  /\ job.pc = "idle" => job = Idle
  /\ job.pc # "idle" => job.run \in Runs
  /\ job.pc = "nodata" => job.selected = {}

\* The DAG: an idle one is blank, another one has a run.
DagType ==
  /\ dag \in [task : Tasks \cup {"idle"}, run : Runs \cup {None}, tries : Nat,
              running : BOOLEAN, seen : SUBSET Objects,
              result : {"NO_DATA", "TRANSFORMED", "SKIPPED", "PASS", None}]
  /\ dag.task # "idle" => dag.tries <= Retries[dag.task]
  /\ dag.task = "idle" => dag = NoDag
  /\ dag.task # "idle" => dag.run \in used

Updates == [run : Runs, status : Status, dbt_status : {"PASS", "FAIL", "SKIPPED"}]

\* The columns of a run row, and the updates to it that were given up; one run
\* started last.
RowType ==
  /\ started \in [Runs -> Nat]
  /\ \A r \in Runs : \E s \in Runs : \A q \in Runs : started[q] <= started[s]
  /\ source_objects \in [Runs -> Nat]
  /\ dbt_status \in [Runs -> {"PASS", "FAIL", "SKIPPED", None}]
  /\ late \subseteq Updates

HistoryType == tested \subseteq Objects /\ used \subseteq Runs /\ succeeded \subseteq used

Typed ==
  /\ JobType /\ DagType /\ RowType /\ HistoryType
  /\ job.pc # "idle" => job.run \in used

\* The job of a run has ended and will not be asked for again.
PastJob(r) ==
  /\ r \in used
  /\ job.run # r
  /\ dag.run = r => dag.task \in {"dbt", "publish"}

\* The last tasks and the updates they gave up belong to runs past their job.
Ownership ==
  /\ dag.task \in {"dbt", "publish"} => job.run # dag.run
  /\ \A u \in late : PastJob(u.run)

\* A run is published, or may be yet.
Published(r) ==
  \/ status[r] = "SUCCESS"
  \/ \E u \in late : u.run = r /\ u.status = "SUCCESS"
  \/ dag.run = r /\ dag.task = "publish" /\ dag.result = "PASS"

\* Such a run is past its build.
PublishedIsPast ==
  \A r \in Runs : Published(r) =>
    PastJob(r) /\ (dag.run = r => dag.task = "publish" /\ dag.result = "PASS")

\* What the row of a run counts and lists.
Consistent ==
  /\ \A r \in Runs : /\ source_objects[r] \in {0, Cardinality(sources[r])}
                     /\ sources[r] \subseteq Processed
  /\ job.pc = "finish" => job.selected \subseteq Processed

\* The job in progress is the execution that started last.
Newest ==
  job.pc \notin {"idle", "start"} =>
    \A r \in Runs : r # job.run => started[r] < started[job.run]

\* A set holds what a run lists and all that was loaded by then.
Covers(S, r) ==
  /\ sources[r] \subseteq S
  /\ \A o \in Processed : started[processed[o]] <= started[r] => o \in S

\* The build saw it, and then it is tested.
Tested ==
  /\ dag.task = "dbt" /\ dag.running => Covers(dag.seen, dag.run)
  /\ \A r \in Runs : Published(r) => Covers(tested, r)

IInv == Typed /\ Ownership /\ PublishedIsPast /\ RunningRow /\ Consistent /\ Newest /\ Tested
-----------------------------------------------------------------------------
(* Type correctness.                                                       *)

LEMMA IdleTyped == Idle \in Job /\ IsFiniteSet(Idle.selected)
BY FS_EmptySet DEF Idle, Job

\* The job goes to another place with the objects it has.
LEMMA AtTyped ==
  ASSUME JobType, job.pc # "idle", NEW p, NEW S \in SUBSET Objects, IsFiniteSet(S),
         p \in {"list", "filter", "nodata", "load", "finish", "except"}, p = "nodata" => S = {},
         job' = At(p, S)
  PROVE  /\ job' \in Job /\ IsFiniteSet(job'.selected) /\ job'.run = job.run /\ job'.pc = p
         /\ job'.selected = S
BY DEF JobType, At, Job

\* Every step of the job keeps its types, and its run until it ends.
LEMMA JobStepTyped ==
  ASSUME JobType, \/ Start \/ \E c \in BOOLEAN : StartRaises(c)
                  \/ List \/ Filter \/ Load \/ Raise \/ NoData \/ Finish \/ CloseRaises
                  \/ Fail \/ Vanish
  PROVE  JobType' /\ job.pc # "idle" /\ (job'.pc # "idle" => job'.run = job.run)
<1> USE NoneAssumption
<1>0. job.pc # "idle"
  BY DEF JobType, Start, StartRaises, List, Filter, Load, Raise, NoData, Finish, CloseRaises, Fail, Vanish
<1>1. CASE Start
  BY <1>1, AtTyped DEF Start, JobType, Job, Status
<1>2. ASSUME NEW c \in BOOLEAN, StartRaises(c) PROVE JobType' /\ job' = Idle
  BY <1>2, IdleTyped DEF StartRaises, JobType, Status, Idle
<1>3. CASE List
  BY <1>3, AtTyped DEF List, JobType
<1>4. CASE Filter
  <2>1. Wanted \subseteq job.selected /\ job.selected \in SUBSET Objects
    BY DEF Wanted, JobType, Job
  <2>2. IsFiniteSet(Wanted)
    BY <2>1, FS_Subset DEF JobType
  <2> QED
    BY <1>4, <2>1, <2>2, AtTyped DEF Filter, JobType
<1>5. CASE Load
  BY <1>5, AtTyped DEF Load, JobType, Job
<1>6. CASE Raise
  BY <1>6, AtTyped DEF Raise, JobType, Job
<1>7. CASE NoData \/ Finish \/ Fail
  BY <1>7, IdleTyped DEF NoData, Finish, Fail, Close, JobType, Job, Status, Idle
<1>8. CASE CloseRaises
  BY <1>8, AtTyped DEF CloseRaises, JobType, Job, Status
<1>9. CASE Vanish
  BY <1>9, IdleTyped DEF Vanish, JobType, Idle
<1> QED
  BY <1>0, <1>1, <1>2, <1>3, <1>4, <1>5, <1>6, <1>7, <1>8, <1>9 DEF Idle

LEMMA FailedTyped ==
  ASSUME DagType, used \subseteq used', dag.task # "idle", dag' = Failed
  PROVE  DagType' /\ dag'.task \in {dag.task, "idle"}
         /\ (dag'.task # "idle" => dag'.run = dag.run /\ dag'.result = dag.result /\ ~dag'.running)
<1>1. CASE dag.tries < Retries[dag.task]
  <2>1. dag' = [task |-> dag.task, run |-> dag.run, tries |-> dag.tries + 1, running |-> FALSE,
                result |-> dag.result, seen |-> {}]
    BY <1>1 DEF DagType, Failed
  <2>2. dag.tries \in Nat /\ Retries[dag.task] \in Nat
    BY RetriesAssumption DEF DagType
  <2> QED
    BY <1>1, <2>1, <2>2 DEF DagType
<1>2. CASE ~(dag.tries < Retries[dag.task])
  BY <1>2 DEF DagType, Failed, NoDag
<1> QED
  BY <1>1, <1>2

\* A task that has not been tried.
LEMMA FreshTask ==
  ASSUME NEW t \in Tasks, NEW r \in Runs \cup {None}, r \in used', NEW S \in SUBSET Objects,
         NEW x \in {"NO_DATA", "TRANSFORMED", "SKIPPED", "PASS", None},
         dag' = [task |-> t, run |-> r, tries |-> 0, running |-> FALSE, result |-> x, seen |-> S]
  PROVE  DagType'
<1>1. dag' \in [task : Tasks \cup {"idle"}, run : Runs \cup {None}, tries : Nat,
                running : BOOLEAN, seen : SUBSET Objects,
                result : {"NO_DATA", "TRANSFORMED", "SKIPPED", "PASS", None}]
  <2>1. 0 \in Nat
    OBVIOUS
  <2> QED
    BY <2>1, Zenon
<1>2. 0 <= Retries[t] /\ t # "idle"
  BY RetriesAssumption DEF Tasks
<1> QED
  BY <1>1, <1>2 DEF DagType

LEMMA DoneTyped ==
  ASSUME DagType, used \subseteq used', dag.task # "idle", NEW next \in Tasks,
         NEW result \in {"NO_DATA", "TRANSFORMED", "SKIPPED", "PASS", None},
         NEW S \in {{}, dag.seen}, dag' = [Done(next, result) EXCEPT !.seen = S]
  PROVE  /\ DagType' /\ dag'.task = next /\ dag'.run = dag.run /\ dag'.result = result
         /\ ~dag'.running
<1>1. dag' = [task |-> next, run |-> dag.run, tries |-> 0, running |-> FALSE,
              result |-> result, seen |-> S]
  BY DEF DagType, Done
<1>2. DagType'
  <2>1. dag.run \in Runs \cup {None} /\ dag.run \in used' /\ S \in SUBSET Objects
    BY DEF DagType
  <2> QED
    BY <1>1, <2>1, FreshTask, Zenon
<1>3. dag'.task = next /\ dag'.run = dag.run /\ dag'.result = result
  BY <1>1
<1>4. dag'.running = FALSE
  BY <1>1
<1> QED
  BY <1>2, <1>3, <1>4

LEMMA DoneKeepsSeen ==
  ASSUME DagType, NEW next, NEW result
  PROVE  Done(next, result) = [Done(next, result) EXCEPT !.seen = dag.seen]
BY DEF DagType, Done

LEMMA UpdateTyped ==
  ASSUME DagType, HistoryType, dag.task # "idle", NEW s \in Status, NEW d \in {"PASS", "FAIL", "SKIPPED"}
  PROVE  Update(s, d) \in Updates
BY DEF DagType, HistoryType, Update, Updates

LEMMA ApplyTyped ==
  ASSUME JobType, RowType, NEW u \in Updates, Apply(u), late' \subseteq late
  PROVE  JobType' /\ RowType' /\ job' = job
BY DEF JobType, RowType, Apply, Updates, Processed

LEMMA GiveUpTyped ==
  ASSUME JobType, RowType, DagType, NEW u \in Updates, GiveUp(u), used' = used, dag.task # "idle"
  PROVE  JobType' /\ RowType' /\ DagType' /\ job' = job
<1>1. JobType' /\ RowType' /\ job' = job
  BY DEF JobType, RowType, GiveUp, jobVars, columns, Updates
<1> QED
  BY <1>1, FailedTyped DEF GiveUp

LEMMA InitTyped == Init => Typed
BY NoneAssumption, RetriesAssumption, IdleTyped, FS_EmptySet
   DEF Init, JobInit, Typed, JobType, DagType, RowType, HistoryType, Idle, Status, NoDag, Tasks

\* The parts together say what TypeOK says, and more.
LEMMA TypedImpliesTypeOK == Typed => TypeOK
BY DEF Typed, JobType, DagType, RowType, HistoryType, TypeOK, Updates

\* A run that starts has started after all others.
LEMMA StartsLast ==
  ASSUME RowType, job.run \in Runs, started' = StartedNow
  PROVE  /\ started' \in [Runs -> Nat]
         /\ \A r \in Runs : started[r] <= started'[r] /\ started[r] < started'[job.run]
         /\ \A r \in Runs : r # job.run => started'[r] = started[r]
<1> DEFINE S == {started[r] : r \in Runs}
           m == Max(S)
<1>1. \E x \in S : \A y \in S : x >= y
  BY DEF RowType
<1>2. m \in S /\ \A y \in S : m >= y
  BY <1>1 DEF Max
<1>3. m \in Nat /\ \A r \in Runs : started[r] \in Nat /\ started[r] <= m
  BY <1>2 DEF RowType
<1>4. started' = [started EXCEPT ![job.run] = 1 + m]
  BY DEF StartedNow
<1> HIDE DEF m
<1> QED
  BY <1>3, <1>4 DEF RowType

\* A step of the job that the DAG may be waiting for, in the types of the DAG.
LEMMA AnswerTyped ==
  ASSUME DagType, used' = used, NEW d,
         \/ d = Failed
         \/ \E r \in {"NO_DATA", "TRANSFORMED"} : d = Done("dbt", r),
         Answer(d)
  PROVE  DagType'
<1>1. CASE UNCHANGED dag
  BY <1>1 DEF DagType
<1>2. CASE dag.task = "spark" /\ dag' = d
  <2>1. CASE d = Failed
    BY <1>2, <2>1, FailedTyped
  <2>2. ASSUME NEW r \in {"NO_DATA", "TRANSFORMED"}, d = Done("dbt", r) PROVE DagType'
    BY <1>2, <2>2, DoneTyped, DoneKeepsSeen DEF Tasks
  <2> QED
    BY <2>1, <2>2
<1> QED
  BY <1>1, <1>2 DEF Answer

LEMMA JobStepType == Typed /\ JobStep => Typed'
<1> SUFFICES ASSUME Typed, JobStep PROVE Typed'
  OBVIOUS
<1> USE NoneAssumption
<1>1. JobType /\ RowType /\ DagType /\ HistoryType /\ (job.pc # "idle" => job.run \in used)
  BY DEF Typed
<1>2. UNCHANGED <<late, tested, used, succeeded>>
  BY DEF JobStep, JobStarts, JobDoesNotStart, JobWorks, JobFindsNothing, JobFinishes, JobRaisesClosing,
     JobFails, history
<1>3. JobType' /\ job.pc # "idle" /\ (job'.pc # "idle" => job'.run = job.run)
  BY <1>1, JobStepTyped
     DEF JobStep, JobStarts, JobDoesNotStart, JobWorks, JobFindsNothing, JobFinishes, JobRaisesClosing,
     JobFails
<1>4. DagType'
  <2>1. CASE UNCHANGED dag
    BY <1>1, <1>2, <2>1 DEF DagType
  <2>2. CASE Answer(Failed) \/ Answer(Done("dbt", "NO_DATA")) \/ Answer(Done("dbt", "TRANSFORMED"))
    BY <1>1, <1>2, <2>2, AnswerTyped
  <2> QED
    BY <2>1, <2>2
       DEF JobStep, JobStarts, JobDoesNotStart, JobWorks, JobFindsNothing, JobFinishes,
       JobRaisesClosing, JobFails
<1>5. RowType'
  <2>1. CASE JobStarts \/ JobDoesNotStart
    <3>1. started' = started \/ started' = StartedNow
      BY <2>1 DEF JobStarts, JobDoesNotStart
    <3>2. job.run \in Runs
      BY <1>1, <2>1 DEF JobType, JobStarts, JobDoesNotStart, Start, StartRaises
    <3>3. CASE started' = started
      BY <1>1, <1>2, <2>1, <3>3 DEF JobStarts, JobDoesNotStart, RowType
    <3>4. CASE started' = StartedNow
      BY <1>1, <1>2, <2>1, <3>2, <3>4, StartsLast DEF JobStarts, JobDoesNotStart, RowType
    <3> QED
      BY <3>1, <3>3, <3>4
  <2>2. CASE JobWorks \/ JobFails
    BY <1>1, <2>2 DEF JobWorks, JobFails, columns, RowType
  <2>3. CASE JobFindsNothing \/ JobFinishes \/ JobRaisesClosing
    <3>1. Cardinality(job.selected) \in Nat
      BY <1>1, FS_CardinalityType DEF JobType
    <3> QED
      BY <1>1, <2>3, <3>1 DEF JobFindsNothing, JobFinishes, JobRaisesClosing, RowType
  <2> QED
    BY <2>1, <2>2, <2>3 DEF JobStep
<1> QED
  BY <1>1, <1>2, <1>3, <1>4, <1>5 DEF Typed, HistoryType

LEMMA DagStepType == Typed /\ DagStep => Typed'
<1> SUFFICES ASSUME Typed, DagStep PROVE Typed'
  OBVIOUS
<1> USE NoneAssumption
<1>0. JobType /\ RowType /\ DagType /\ HistoryType /\ (job.pc # "idle" => job.run \in used)
  BY DEF Typed
<1>1. used' = used /\ dag.task # "idle"
  BY <1>0 DEF DagStep, TryFails, Sync, Wait, Submit, Conflict, Skip, Build, BuildPasses, BuildFails,
     PublishNothing, Publish, history, DagType
<1>2. HistoryType'
  <2>1. CASE BuildPasses
    BY <1>0, <2>1 DEF BuildPasses, HistoryType, history, DagType
  <2>2. CASE Publish \/ PublishNothing
    BY <1>0, <1>1, <2>2 DEF Publish, PublishNothing, Succeed, HistoryType, DagType
  <2>3. CASE ~(BuildPasses \/ Publish \/ PublishNothing)
    BY <1>0, <2>3 DEF DagStep, TryFails, Sync, Wait, Submit, Conflict, Skip, Build, BuildFails,
       history, HistoryType
  <2> QED
    BY <2>1, <2>2, <2>3
<1>3. CASE TryFails \/ Conflict
  BY <1>0, <1>1, <1>2, <1>3, FailedTyped
     DEF TryFails, Conflict, Typed, JobType, RowType, jobVars, columns
<1>4. CASE Sync
  <2>1. JobType' /\ RowType' /\ job' = job
    BY <1>0, <1>4 DEF Sync, JobType, RowType, columns, jobVars
  <2>2. DagType'
    BY <1>0, <1>1, <1>4, DoneTyped, DoneKeepsSeen DEF Sync, Tasks
  <2> QED
    BY <1>0, <1>1, <1>2, <2>1, <2>2 DEF Typed
<1>5. CASE Wait
  <2>1. JobType' /\ RowType' /\ job' = job
    BY <1>0, <1>5 DEF Wait, JobType, RowType, columns, jobVars
  <2>2. DagType'
    BY <1>0, <1>1, <1>5, DoneTyped, DoneKeepsSeen DEF Wait, Tasks
  <2> QED
    BY <1>0, <1>1, <1>2, <2>1, <2>2 DEF Typed
<1>6. CASE Submit
  <2>1. JobType' /\ job'.run = dag.run
    BY <1>0, <1>1, <1>6, FS_EmptySet DEF Submit, Accept, JobType, Job, DagType, HistoryType
  <2>2. RowType' /\ DagType'
    BY <1>0, <1>1, <1>6 DEF Submit, RowType, columns, DagType, NoDag
  <2> QED
    BY <1>0, <1>1, <1>2, <2>1, <2>2 DEF Typed, DagType
<1>7. CASE Build
  <2>1. JobType' /\ RowType' /\ job' = job
    BY <1>0, <1>7 DEF Build, JobType, RowType, columns, jobVars
  <2>2. DagType'
    BY <1>0, <1>1, <1>7 DEF Build, DagType, NoDag, Processed
  <2> QED
    BY <1>0, <1>1, <1>2, <2>1, <2>2 DEF Typed
<1>8. CASE BuildPasses
  <2>1. JobType' /\ RowType' /\ job' = job
    BY <1>0, <1>8 DEF BuildPasses, JobType, RowType, columns, jobVars
  <2>2. DagType'
    BY <1>0, <1>1, <1>8, DoneTyped DEF BuildPasses, Tasks
  <2> QED
    BY <1>0, <1>1, <1>2, <2>1, <2>2 DEF Typed
<1>9. CASE Skip \/ BuildFails \/ Publish
  <2>1. PICK u \in Updates :
          \/ GiveUp(u)
          \/ Apply(u) /\ late' = late /\ dag' \in {Done("publish", "SKIPPED"), Failed, NoDag}
    <3>1. {"NO_DATA", "FAILED", "SUCCESS"} \subseteq Status
      BY DEF Status
    <3>2. \A s \in {"NO_DATA", "FAILED", "SUCCESS"}, d \in {"PASS", "FAIL", "SKIPPED"} :
            Update(s, d) \in Updates
      BY <1>0, <1>1, <3>1, UpdateTyped
    <3> QED
      BY <1>9, <3>2 DEF Skip, BuildFails, Publish, Succeed
  <2>2. CASE GiveUp(u)
    BY <1>0, <1>1, <1>2, <2>2, GiveUpTyped DEF Typed
  <2>3. CASE Apply(u) /\ late' = late /\ dag' \in {Done("publish", "SKIPPED"), Failed, NoDag}
    <3>1. JobType' /\ RowType' /\ job' = job
      BY <1>0, <2>3, ApplyTyped
    <3>2. DagType'
      <4>1. CASE dag' = Done("publish", "SKIPPED")
        BY <1>0, <1>1, <4>1, DoneTyped, DoneKeepsSeen DEF Tasks
      <4>2. CASE dag' = Failed
        BY <1>0, <1>1, <4>2, FailedTyped
      <4>3. CASE dag' = NoDag
        BY <4>3 DEF NoDag, DagType
      <4> QED
        BY <2>3, <4>1, <4>2, <4>3
    <3> QED
      BY <1>0, <1>1, <1>2, <3>1, <3>2 DEF Typed
  <2> QED
    BY <2>1, <2>2, <2>3
<1>10. CASE PublishNothing
  BY <1>0, <1>1, <1>2, <1>10 DEF PublishNothing, Succeed, Typed, JobType, RowType, columns, jobVars, DagType, NoDag
<1> QED
  BY <1>3, <1>4, <1>5, <1>6, <1>7, <1>8, <1>9, <1>10 DEF DagStep

LEMMA TypedStep == Typed /\ [Next]_vars => Typed'
<1> SUFFICES ASSUME Typed, [Next]_vars PROVE Typed'
  OBVIOUS
<1> USE NoneAssumption
<1>0. JobType /\ RowType /\ DagType /\ HistoryType /\ (job.pc # "idle" => job.run \in used)
  BY DEF Typed
<1>1. ASSUME NEW r \in Runs, Schedule(r) PROVE Typed'
  <2>1. JobType' /\ RowType' /\ HistoryType' /\ job' = job
    BY <1>0, <1>1 DEF Schedule, JobType, RowType, HistoryType, columns, jobVars
  <2>2. dag' = [task |-> "sync", run |-> r, tries |-> 0, running |-> FALSE,
                result |-> None, seen |-> {}]
    BY <1>1 DEF Schedule, NoDag
  <2>3. DagType'
    BY <1>1, <2>2, FreshTask DEF Schedule, Tasks
  <2> QED
    BY <1>0, <1>1, <2>1, <2>3 DEF Typed, Schedule
<1>2. ASSUME NEW r \in Runs, Backfill(r) PROVE Typed'
  <2>1. JobType' /\ job'.run = r
    BY <1>0, <1>2, FS_EmptySet DEF Backfill, Accept, JobType, Job
  <2>2. RowType' /\ HistoryType' /\ DagType' /\ r \in used'
    BY <1>0, <1>2 DEF Backfill, RowType, HistoryType, columns, DagType
  <2> QED
    BY <2>1, <2>2 DEF Typed
<1>3. ASSUME NEW u \in late, ApplyLate(u) PROVE Typed'
  <2>1. JobType' /\ RowType' /\ job' = job
    BY <1>0, <1>3, ApplyTyped DEF ApplyLate, RowType
  <2>2. DagType' /\ HistoryType' /\ used' = used
    BY <1>0, <1>3 DEF ApplyLate, DagType, HistoryType, history
  <2> QED
    BY <1>0, <2>1, <2>2 DEF Typed
<1>4. CASE UNCHANGED vars
  BY <1>4 DEF vars, jobVars, columns, history, Typed, JobType, RowType, DagType, HistoryType
<1>5. ASSUME NEW o \in Objects, Stores(o) PROVE Typed'
  <2>1. JobType' /\ RowType' /\ HistoryType' /\ job' = job /\ used' = used
    BY <1>0, <1>5, FS_AddElement DEF Stores, Land, JobType, RowType, HistoryType, columns, history
  <2>2. DagType'
    BY <1>0, <1>5 DEF Stores, Land, DagType, history
  <2> QED
    BY <1>0, <2>1, <2>2 DEF Typed
<1> QED
  BY <1>1, <1>2, <1>3, <1>4, <1>5, DagStepType, JobStepType DEF Next

\* Every variable has its type, for any objects, runs and retries.
THEOREM TypeCorrectness == SafeSpec => []TypeOK
<1>1. SafeSpec => []Typed
  BY InitTyped, TypedStep, PTL DEF SafeSpec
<1> QED
  BY <1>1, TypedImpliesTypeOK, PTL
-----------------------------------------------------------------------------
(* How the job, the DAG and the rows move.                                 *)

\* What the steps of others leave to the job.
LEMMA OtherSteps ==
  ASSUME [Next]_vars, ~JobStep
  PROVE  /\ UNCHANGED <<processed, sources, started, source_objects>>
         /\ UNCHANGED job \/ (job.pc = "idle" /\ job'.pc = "start")
<1>1. CASE Submit \/ \E r \in Runs : Backfill(r)
  BY <1>1 DEF Submit, Backfill, Accept, columns, Idle
<1>2. CASE UNCHANGED <<processed, sources, started, source_objects, job>>
  BY <1>2
<1> QED
  BY <1>1, <1>2
     DEF Next, DagStep, Schedule, TryFails, Stores, Land, Sync, Wait, Conflict, Skip, Build, BuildPasses,
     BuildFails, PublishNothing, Publish, ApplyLate, Apply, GiveUp, vars, jobVars, columns

\* A job of another run begins only when the DAG asks for it, or under a new id.
LEMMA JobMoves ==
  ASSUME Typed, [Next]_vars
  PROVE  \/ job'.run \in {job.run, None}
         \/ job'.run = dag.run /\ dag.task = "spark"
         \/ job'.run \in Runs \ used
<1>1. CASE JobStep
  BY <1>1, JobStepTyped
     DEF Typed, JobStep, JobStarts, JobDoesNotStart, JobWorks, JobFindsNothing, JobFinishes,
     JobRaisesClosing, JobFails, JobType, Idle
<1>2. CASE Submit
  BY <1>2 DEF Submit, Accept
<1>3. ASSUME NEW r \in Runs, Backfill(r) PROVE job'.run \in Runs \ used
  BY <1>3 DEF Backfill, Accept
<1>4. CASE UNCHANGED job
  BY <1>4
<1> QED
  BY <1>1, <1>2, <1>3, <1>4
     DEF Next, DagStep, Schedule, TryFails, Stores, Land, Sync, Wait, Conflict, Skip, Build, BuildPasses,
     BuildFails, PublishNothing, Publish, ApplyLate, Apply, GiveUp, vars, jobVars

\* A DAG run goes from task to task, and leaves the job's when the job has answered.
LEMMA DagMoves ==
  ASSUME Typed, [Next]_vars
  PROVE  \/ dag'.task = "idle"
         \/ dag'.task = "sync" /\ dag'.run \in Runs \ used
         \/ /\ dag'.run = dag.run /\ dag.task # "idle"
            /\ \/ dag'.task = dag.task /\ dag'.result = dag.result
               \/ dag.task \in {"sync", "wait"} /\ dag'.task \in {"wait", "spark"}
               \/ dag.task = "spark" /\ dag'.task = "dbt" /\ job'.run = None
               \/ /\ dag.task = "dbt" /\ dag'.task = "publish"
                  /\ dag'.result = "PASS" => BuildPasses
<1> USE DEF Typed
<1>1. ASSUME dag.task # "idle", dag' = Failed
      PROVE  \/ dag'.task = "idle"
             \/ dag'.run = dag.run /\ dag'.task = dag.task /\ dag'.result = dag.result
  <2>1. CASE dag.tries < Retries[dag.task]
    BY <1>1, <2>1 DEF Failed, DagType
  <2>2. CASE ~(dag.tries < Retries[dag.task])
    BY <1>1, <2>2 DEF Failed, NoDag
  <2> QED
    BY <2>1, <2>2
<1>2. ASSUME NEW next \in Tasks, NEW result, NEW S, 
             dag' = Done(next, result) \/ dag' = [Done(next, result) EXCEPT !.seen = S]
      PROVE  dag'.run = dag.run /\ dag'.task = next /\ dag'.result = result
  BY <1>2 DEF Done, DagType
<1>3. CASE UNCHANGED dag
  BY <1>3
<1>4. ASSUME NEW r \in Runs, Schedule(r) PROVE dag'.task = "sync" /\ dag'.run \in Runs \ used
  BY <1>4 DEF Schedule, NoDag
<1>5. ASSUME NEW d, JobStep, job' = Idle, Answer(d), ~UNCHANGED dag,
             d \in {Failed, Done("dbt", "NO_DATA"), Done("dbt", "TRANSFORMED")}
      PROVE  \/ dag' = Failed /\ dag.task # "idle"
             \/ dag.task = "spark" /\ dag'.task = "dbt" /\ job'.run = None /\ dag'.run = dag.run
  BY <1>2, <1>5 DEF Answer, Tasks, Idle
<1>6. CASE JobStep
  BY <1>1, <1>3, <1>5, <1>6
     DEF JobStep, JobStarts, JobDoesNotStart, JobWorks, JobFindsNothing, JobFinishes,
     JobRaisesClosing, JobFails, StartRaises, NoData, Finish, Close, Fail, Vanish
<1>7. CASE DagStep
  <2>1. CASE TryFails \/ Conflict
    BY <1>1, <2>1 DEF TryFails, Conflict, DagType
  <2>2. CASE Sync
    BY <1>2, <2>2 DEF Sync, Tasks
  <2>3. CASE Wait \/ BuildPasses
    BY <1>2, <2>3 DEF Wait, BuildPasses, Tasks
  <2>4. CASE Submit \/ Build
    BY <2>4 DEF Submit, Build, DagType
  <2>5. CASE Skip \/ BuildFails \/ Publish \/ PublishNothing
    <3>1. \/ dag' \in {Failed, NoDag}
          \/ dag.task = "dbt" /\ dag' = Done("publish", "SKIPPED")
      BY <2>5 DEF Skip, BuildFails, Publish, PublishNothing, Succeed, GiveUp
    <3>2. CASE dag' \in {Failed, NoDag}
      BY <1>1, <2>5, <3>2 DEF Skip, BuildFails, Publish, PublishNothing, NoDag
    <3>3. CASE dag.task = "dbt" /\ dag' = Done("publish", "SKIPPED")
      BY <3>3 DEF Done, DagType
    <3> QED
      BY <3>1, <3>2, <3>3
  <2> QED
    BY <1>1, <1>7, <2>1, <2>2, <2>3, <2>4, <2>5 DEF DagStep
<1> QED
  BY <1>3, <1>4, <1>6, <1>7 DEF Next, Stores, Backfill, ApplyLate, vars

\* Who writes the status of a row: the job its own, and besides it only the last
\* tasks and the updates they gave up; only the last task, or such an update,
\* makes it SUCCESS.
LEMMA Writers ==
  ASSUME Typed, [Next]_vars, NEW r \in Runs, status'[r] # status[r]
  PROVE  \/ r = job.run /\ JobStep /\ status'[r] # "SUCCESS"
         \/ /\ r = dag.run /\ dag.task \in {"dbt", "publish"}
            /\ status'[r] = "SUCCESS" <=> dag.task = "publish"
            /\ status'[r] = "SUCCESS" => dag.result = "PASS"
         \/ \E u \in late : u.run = r /\ u.status = status'[r]
<1> USE DEF Typed, JobType, RowType
<1>1. ASSUME NEW u \in Updates, Apply(u) PROVE r = u.run /\ status'[r] = u.status
  BY <1>1 DEF Apply
<1>2. CASE JobStep
  BY <1>2 DEF JobStep, JobStarts, JobDoesNotStart, JobWorks, JobFindsNothing, JobFinishes,
     JobRaisesClosing, JobFails, Start, StartRaises, List, Filter, Load, Raise, NoData, Finish,
     CloseRaises, Fail, Vanish, Close
<1>3. CASE Skip \/ BuildFails \/ Publish
  <2>1. {"NO_DATA", "FAILED", "SUCCESS"} \subseteq Status /\ dag.task # "idle"
    BY <1>3 DEF Status, Skip, BuildFails, Publish
  <2>2. \A s \in {"NO_DATA", "FAILED", "SUCCESS"}, d \in {"PASS", "FAIL", "SKIPPED"} :
          Update(s, d) \in Updates
    BY <2>1, UpdateTyped
  <2>3. \A s, d : Update(s, d).run = dag.run /\ Update(s, d).status = s
    BY DEF Update
  <2> QED
    BY <1>1, <1>3, <2>2, <2>3 DEF Skip, BuildFails, Publish, GiveUp, jobVars
<1>4. ASSUME NEW u \in late, ApplyLate(u) PROVE u.run = r /\ u.status = status'[r]
  BY <1>1, <1>4 DEF ApplyLate
<1>5. CASE UNCHANGED status
  BY <1>5
<1> QED
  BY <1>2, <1>3, <1>4, <1>5
     DEF Next, DagStep, Schedule, Backfill, Accept, TryFails, Stores, Land, Sync, Wait, Submit, Conflict,
     Build, BuildPasses, PublishNothing, vars, jobVars

\* Which updates are given up.
LEMMA LateMoves ==
  ASSUME Typed, [Next]_vars, NEW u \in late', u \notin late
  PROVE  /\ u.run = dag.run /\ dag.task \in {"dbt", "publish"}
         /\ u.status = "SUCCESS" => dag.task = "publish" /\ dag.result = "PASS"
<1>1. CASE Skip \/ BuildFails \/ Publish
  <2>1. \A s, d : Update(s, d).run = dag.run /\ Update(s, d).status = s
    BY DEF Update
  <2> QED
    BY <1>1, <2>1 DEF Skip, BuildFails, Publish, GiveUp
<1>2. CASE late' \subseteq late
  BY <1>2
<1> QED
  BY <1>1, <1>2
     DEF Next, DagStep, JobStep, Schedule, Backfill, TryFails, Stores, Sync, Wait, Submit, Conflict,
     Build, BuildPasses, PublishNothing, JobStarts, JobDoesNotStart, JobWorks, JobFindsNothing,
     JobFinishes, JobRaisesClosing, JobFails, ApplyLate, vars

LEMMA UsedGrows == ASSUME [Next]_vars PROVE used \subseteq used'
BY DEF Next, DagStep, JobStep, Schedule, Backfill, TryFails, Stores, Sync, Wait, Submit, Conflict, Skip,
   Build, BuildPasses, BuildFails, PublishNothing, Publish, JobStarts, JobDoesNotStart, JobWorks,
   JobFindsNothing, JobFinishes, JobRaisesClosing, JobFails, ApplyLate, vars, history
-----------------------------------------------------------------------------
(* Who may still write a row.                                              *)

\* Nobody asks again for a job that is past.
LEMMA PastStays ==
  ASSUME Typed, [Next]_vars, NEW r, PastJob(r)
  PROVE  PastJob(r)'
<1>1. r \in used' /\ r \in Runs /\ r # None
  BY UsedGrows, NoneAssumption DEF PastJob, Typed, HistoryType
<1>2. Typed'
  BY TypedStep
<1>3. job'.run # r
  BY <1>1, JobMoves DEF PastJob
<1>4. dag'.run = r => dag'.task \in {"dbt", "publish"}
  BY <1>1, <1>2, DagMoves DEF PastJob, Typed, DagType, NoDag
<1> QED
  BY <1>1, <1>3, <1>4 DEF PastJob

LEMMA OwnershipStep == Typed /\ Ownership /\ [Next]_vars => Ownership'
<1> SUFFICES ASSUME Typed, Ownership, [Next]_vars PROVE Ownership'
  OBVIOUS
<1>1. Typed'
  BY TypedStep
<1>2. ASSUME dag.task \in {"dbt", "publish"} PROVE PastJob(dag.run)
  BY <1>2 DEF Ownership, PastJob, Typed, DagType
<1>3. ASSUME dag'.task \in {"dbt", "publish"} PROVE job'.run # dag'.run
  <2>1. dag'.run \in Runs /\ dag'.run # None
    BY <1>1, <1>3, NoneAssumption DEF Typed, DagType, HistoryType
  <2> QED
    BY <1>2, <1>3, <2>1, PastStays, DagMoves DEF PastJob
<1>4. ASSUME NEW u \in late' PROVE PastJob(u.run)'
  <2>1. PastJob(u.run)
    BY <1>2, LateMoves DEF Ownership
  <2>2. \A r : PastJob(r) => PastJob(r)'
    BY PastStays
  <2> QED
    BY <2>1, <2>2
<1> QED
  BY <1>3, <1>4 DEF Ownership

\* A run that is published was so before, or has just passed its build.
LEMMA PublishedMoves ==
  ASSUME Typed, [Next]_vars, NEW r \in Runs, Published(r)', ~Published(r)
  PROVE  dag.run = r /\ dag.task = "dbt" /\ dag'.run = r /\ BuildPasses /\ dag'.task = "publish"
         /\ dag'.result = "PASS"
<1>1. r # None
  BY NoneAssumption
<1>2. status'[r] # "SUCCESS"
  BY Writers DEF Published
<1>3. ~\E u \in late' : u.run = r /\ u.status = "SUCCESS"
  BY LateMoves DEF Published
<1>4. dag'.run = r /\ dag'.task = "publish" /\ dag'.result = "PASS"
  BY <1>2, <1>3 DEF Published
<1> QED
  BY <1>4, DagMoves DEF Published

LEMMA PublishedStep ==
  Typed /\ Ownership /\ PublishedIsPast /\ [Next]_vars => PublishedIsPast'
<1> SUFFICES ASSUME Typed, Ownership, PublishedIsPast, [Next]_vars, NEW r \in Runs, Published(r)'
             PROVE  PastJob(r)' /\ (dag'.run = r => dag'.task = "publish" /\ dag'.result = "PASS")
  BY DEF PublishedIsPast
<1>1. r # None /\ Typed'
  BY NoneAssumption, TypedStep
<1>2. CASE Published(r)
  <2>1. PastJob(r) /\ (dag.run = r => dag.task = "publish" /\ dag.result = "PASS")
    BY <1>2 DEF PublishedIsPast
  <2>2. ASSUME dag'.run = r PROVE dag'.task = "publish" /\ dag'.result = "PASS"
    <3>1. r \in used /\ dag'.task # "idle"
      BY <1>1, <2>1, <2>2 DEF PastJob, Typed, DagType, NoDag
    <3> QED
      BY <2>1, <2>2, <3>1, DagMoves
  <2> QED
    BY <2>1, <2>2, PastStays
<1>3. CASE ~Published(r)
  <2>1. dag.run = r /\ dag.task = "dbt" /\ dag'.task = "publish" /\ dag'.result = "PASS"
    BY <1>3, PublishedMoves
  <2>2. PastJob(r)
    BY <2>1 DEF Ownership, PastJob, Typed, DagType
  <2> QED
    BY <2>1, <2>2, PastStays
<1> QED
  BY <1>2, <1>3

LEMMA RunningRowStep == Typed /\ Ownership /\ RunningRow /\ [Next]_vars => RunningRow'
<1> SUFFICES ASSUME Typed, Ownership, RunningRow, [Next]_vars,
                    job'.pc \notin {"idle", "start", "except"}
             PROVE  status'[job'.run] = "RUNNING"
  BY DEF RunningRow
<1>1. CASE JobStep
  BY <1>1 DEF JobStep, JobStarts, JobDoesNotStart, JobWorks, JobFindsNothing, JobFinishes,
     JobRaisesClosing, JobFails, Start, StartRaises, List, Filter, Load, Raise, NoData, Finish,
     CloseRaises, Fail, Vanish, Close, At, Idle, RunningRow, Typed, JobType
<1>2. CASE job' = job /\ ~JobStep
  <2>1. job.run \in Runs /\ status[job.run] = "RUNNING"
    BY <1>2 DEF RunningRow, Typed, JobType
  <2>2. status'[job.run] = status[job.run]
    BY <1>2, <2>1, Writers DEF Ownership, PastJob
  <2> QED
    BY <1>2, <2>1, <2>2
<1> QED
  BY <1>1, <1>2, OtherSteps
-----------------------------------------------------------------------------
(* What a row counts and lists, and what is tested.                        *)

\* Whether the step is one of the job or not, what is processed stays so, and
\* only the job that ends writes what a row lists.
LEMMA LoadMoves ==
  ASSUME Typed, [Next]_vars
  PROVE  /\ Processed \subseteq Processed'
         /\ \A o \in Objects : \/ processed'[o] = processed[o]
                               \/ job.pc = "load" /\ processed'[o] = job.run
         /\ \A r \in Runs : r # job.run =>
              sources'[r] = sources[r] /\ source_objects'[r] = source_objects[r]
<1>1. CASE JobStep
  BY <1>1, NoneAssumption
     DEF JobStep, JobStarts, JobDoesNotStart, JobWorks, JobFindsNothing, JobFinishes,
     JobRaisesClosing, JobFails, Start, StartRaises, List, Filter, Load, Raise, NoData, Finish,
     CloseRaises, Fail, Vanish, Typed, JobType, RowType, Processed, columns
<1> QED
  BY <1>1, OtherSteps DEF Processed

LEMMA ConsistentStep == Typed /\ Consistent /\ [Next]_vars => Consistent'
<1> SUFFICES ASSUME Typed, Consistent, [Next]_vars PROVE Consistent'
  OBVIOUS
<1>1. ASSUME NEW r \in Runs, UNCHANGED <<sources, source_objects>>
      PROVE  /\ source_objects'[r] \in {0, Cardinality(sources'[r])}
             /\ sources'[r] \subseteq Processed'
  BY <1>1, LoadMoves DEF Consistent
<1>2. CASE JobStep
  <2>1. CASE JobStarts \/ JobDoesNotStart \/ JobFails
    BY <1>1, <2>1
       DEF JobStarts, JobDoesNotStart, JobFails, Start, StartRaises, Fail, Vanish, Close, At, Idle,
       columns, Consistent
  <2>2. CASE JobWorks
    <3>1. job'.pc = "finish" => job'.selected \subseteq Processed'
      BY <2>2, NoneAssumption
         DEF JobWorks, List, Filter, Load, Raise, At, Processed, Typed, JobType, Job
    <3> QED
      BY <1>1, <2>2, <3>1 DEF JobWorks, List, Filter, Load, Raise, columns, Consistent
  <2>3. CASE JobFindsNothing \/ JobFinishes \/ JobRaisesClosing
    <3>1. job'.pc # "finish" /\ UNCHANGED processed /\ job.run \in Runs
      BY <2>3 DEF JobFindsNothing, JobFinishes, JobRaisesClosing, NoData, Finish, CloseRaises,
         Close, At, Idle, Typed, JobType
    <3>2. ASSUME NEW r \in Runs
          PROVE  /\ source_objects'[r] \in {0, Cardinality(sources'[r])}
                 /\ sources'[r] \subseteq Processed'
      <4>1. CASE r # job.run
        BY <4>1, LoadMoves DEF Consistent
      <4>2. CASE r = job.run /\ JobFindsNothing
        BY <4>2, LoadMoves DEF JobFindsNothing, NoData, Typed, RowType, Consistent
      <4>3. CASE r = job.run /\ (JobFinishes \/ JobRaisesClosing) /\ job.pc = "finish"
        BY <4>3, LoadMoves DEF JobFinishes, JobRaisesClosing, Finish, CloseRaises, Typed, RowType,
           JobType, Consistent
      <4>4. CASE r = job.run /\ JobRaisesClosing /\ job.pc = "nodata"
        BY <4>4, LoadMoves, FS_EmptySet DEF JobRaisesClosing, CloseRaises, Typed, RowType, JobType,
           Consistent
      <4> QED
        BY <2>3, <4>1, <4>2, <4>3, <4>4 DEF JobFinishes, JobRaisesClosing, Finish, CloseRaises
    <3> QED
      BY <3>1, <3>2 DEF Consistent
  <2> QED
    BY <1>2, <2>1, <2>2, <2>3 DEF JobStep
<1>3. CASE ~JobStep
  <2>1. UNCHANGED <<processed, sources, source_objects>>
    BY <1>3, OtherSteps
  <2>2. job'.pc = "finish" => job'.selected \subseteq Processed'
    BY <1>3, OtherSteps, LoadMoves DEF Consistent
  <2> QED
    BY <1>1, <2>1, <2>2 DEF Consistent
<1> QED
  BY <1>2, <1>3

LEMMA NewestStep == Typed /\ Newest /\ [Next]_vars => Newest'
<1> SUFFICES ASSUME Typed, Newest, [Next]_vars, job'.pc \notin {"idle", "start"},
                    NEW r \in Runs, r # job'.run
             PROVE  started'[r] < started'[job'.run]
  BY DEF Newest
<1>1. CASE ~JobStep
  BY <1>1, OtherSteps DEF Newest
<1>2. CASE JobStarts
  <2>1. job.run \in Runs /\ job'.run = job.run
    BY <1>2, JobStepTyped DEF JobStarts, Typed, JobType, Start, At
  <2> QED
    BY <1>2, <2>1, StartsLast DEF JobStarts, Typed
<1>3. CASE JobStep /\ ~JobStarts
  <2>1. UNCHANGED started /\ job.pc \notin {"idle", "start"} /\ job'.run = job.run
    BY <1>3 DEF JobStep, JobDoesNotStart, JobWorks, JobFindsNothing, JobFinishes,
       JobRaisesClosing, JobFails, StartRaises, List, Filter, Load, Raise, NoData, Finish,
       CloseRaises, Fail, Vanish, Close, At, Idle, columns
  <2> QED
    BY <1>3, <2>1 DEF Newest
<1> QED
  BY <1>1, <1>2, <1>3

\* Instants of start only grow, those of other runs than the job's stay.
LEMMA StartedMoves ==
  ASSUME Typed, [Next]_vars
  PROVE  /\ \A r \in Runs : started[r] \in Nat /\ started'[r] \in Nat /\ started[r] <= started'[r]
         /\ \A r \in Runs : r # job.run => started'[r] = started[r]
<1>1. Typed' /\ \A r \in Runs : started[r] \in Nat /\ started'[r] \in Nat
  BY TypedStep DEF Typed, RowType
<1>2. CASE UNCHANGED started
  BY <1>1, <1>2
<1>3. CASE started' = StartedNow /\ job.run \in Runs
  BY <1>1, <1>3, StartsLast DEF Typed
<1>4. CASE JobStep
  BY <1>2, <1>3, <1>4
     DEF JobStep, JobStarts, JobDoesNotStart, JobWorks, JobFindsNothing, JobFinishes,
     JobRaisesClosing, JobFails, Start, StartRaises, columns, Typed, JobType
<1> QED
  BY <1>2, <1>4, OtherSteps

\* What covers a run that is past its job covers it for ever: later jobs start later.
LEMMA CoversStays ==
  ASSUME Typed, Newest, [Next]_vars, NEW r \in Runs, job.run # r, NEW S, NEW T,
         S \subseteq T, Covers(S, r)
  PROVE  Covers(T, r)'
<1>1. sources'[r] = sources[r] /\ started'[r] = started[r]
  BY LoadMoves, StartedMoves
<1>2. ASSUME NEW o \in Processed', started'[processed'[o]] <= started'[r] PROVE o \in T
  <2>1. o \in Objects /\ processed'[o] \in Runs
    BY <1>2, TypedStep, NoneAssumption DEF Processed, Typed, JobType
  <2>2. CASE processed'[o] = processed[o]
    <3>1. o \in Processed /\ started[processed[o]] <= started[r]
      BY <1>1, <1>2, <2>1, <2>2, StartedMoves, NoneAssumption DEF Processed
    <3> QED
      BY <3>1 DEF Covers
  <2>3. CASE job.pc = "load" /\ processed'[o] = job.run
    <3>1. job.run \in Runs /\ started[r] < started[job.run]
      BY <2>1, <2>3 DEF Newest
    <3> QED
      BY <1>1, <1>2, <2>3, <3>1, StartedMoves
  <2> QED
    BY <2>1, <2>2, <2>3, LoadMoves
<1> QED
  BY <1>1, <1>2 DEF Covers

\* A build is waited for only when it begins.
LEMMA BuildMoves ==
  ASSUME Typed, [Next]_vars, dag'.task = "dbt", dag'.running
  PROVE  UNCHANGED dag \/ Build
<1>1. dag' # NoDag
  BY DEF NoDag
<1>2. dag' # Failed
  <2>1. CASE dag.tries < Retries[dag.task]
    BY <2>1 DEF Failed, Typed, DagType
  <2>2. CASE ~(dag.tries < Retries[dag.task])
    BY <1>1, <2>2 DEF Failed
  <2> QED
    BY <2>1, <2>2
<1>3. \A next, result, S : dag' # Done(next, result) /\ dag' # [Done(next, result) EXCEPT !.seen = S]
  BY DEF Done, Typed, DagType
<1>4. ~Submit /\ \A r : ~Schedule(r)
  BY DEF Submit, Schedule, NoDag, Typed, DagType
<1>5. CASE JobStep
  BY <1>2, <1>3, <1>5
     DEF JobStep, JobStarts, JobDoesNotStart, JobWorks, JobFindsNothing, JobFinishes,
     JobRaisesClosing, JobFails, Answer
<1> QED
  BY <1>1, <1>2, <1>3, <1>4, <1>5
     DEF Next, DagStep, Backfill, TryFails, Stores, Sync, Wait, Conflict, Skip, BuildPasses, BuildFails,
     PublishNothing, Publish, Succeed, GiveUp, ApplyLate, vars

LEMMA TestedStep ==
  Typed /\ Ownership /\ PublishedIsPast /\ Consistent /\ Newest /\ Tested /\ [Next]_vars => Tested'
<1> SUFFICES ASSUME Typed, Ownership, PublishedIsPast, Consistent, Newest, Tested, [Next]_vars
             PROVE  Tested'
  OBVIOUS
<1>1. tested \subseteq tested'
  BY DEF Next, DagStep, JobStep, Schedule, Backfill, TryFails, Stores, Sync, Wait, Submit, Conflict, Skip,
     Build, BuildPasses, BuildFails, PublishNothing, Publish, JobStarts, JobDoesNotStart, JobWorks,
     JobFindsNothing, JobFinishes, JobRaisesClosing, JobFails, ApplyLate, vars
<1>2. ASSUME dag'.task = "dbt", dag'.running PROVE Covers(dag.seen, dag.run)'
  <2>1. CASE UNCHANGED dag
    <3>1. Covers(dag.seen, dag.run) /\ job.run # dag.run /\ dag.run \in Runs
      BY <1>2, <2>1 DEF Tested, Ownership, Typed, DagType, HistoryType
    <3> QED
      BY <2>1, <3>1, CoversStays DEF Covers
  <2>2. CASE Build
    <3>1. dag'.run = dag.run /\ dag'.seen = Processed /\ dag.run \in Runs
      BY <2>2 DEF Build, Typed, DagType, HistoryType
    <3>2. UNCHANGED <<processed, sources, started>>
      BY <2>2 DEF Build, jobVars, columns
    <3> QED
      BY <3>1, <3>2 DEF Covers, Consistent, Processed
  <2> QED
    BY <1>2, <2>1, <2>2, BuildMoves
<1>3. ASSUME NEW r \in Runs, Published(r)' PROVE Covers(tested, r)'
  <2>1. CASE Published(r)
    <3>1. Covers(tested, r) /\ job.run # r
      BY <2>1 DEF Tested, PublishedIsPast, PastJob
    <3> QED
      BY <1>1, <3>1, CoversStays
  <2>2. CASE ~Published(r)
    <3>1. dag.run = r /\ dag.task = "dbt" /\ dag.running /\ tested' = tested \cup dag.seen
      <4>1. dag.run = r /\ BuildPasses
        BY <1>3, <2>2, PublishedMoves
      <4> QED
        BY <4>1 DEF BuildPasses
    <3>2. Covers(dag.seen, r) /\ job.run # r
      BY <3>1 DEF Tested, Ownership
    <3> QED
      BY <3>1, <3>2, CoversStays
  <2> QED
    BY <2>1, <2>2
<1> QED
  BY <1>2, <1>3 DEF Tested
-----------------------------------------------------------------------------
(* The theorems.                                                           *)

LEMMA InitInv == Init => IInv
<1> SUFFICES ASSUME Init PROVE IInv
  OBVIOUS
<1>1. Typed
  BY InitTyped
<1>2. dag.run = None /\ dag.task = "idle" /\ job.pc = "idle" /\ late = {}
  BY DEF Init, JobInit, NoDag, Idle
<1>3. \A r \in Runs : ~Published(r)
  BY <1>2, NoneAssumption DEF Published, Init, JobInit
<1>4. Consistent
  BY <1>2 DEF Init, JobInit, Consistent
<1> QED
  BY <1>1, <1>2, <1>3, <1>4 DEF IInv, Ownership, PublishedIsPast, RunningRow, Newest, Tested

LEMMA StepInv == IInv /\ [Next]_vars => IInv'
BY TypedStep, OwnershipStep, PublishedStep, RunningRowStep, ConsistentStep, NewestStep, TestedStep
   DEF IInv

\* The inductive invariant: who may still write a row, and what the objects that
\* a run lists and those loaded before it have been through.
THEOREM Invariance == SafeSpec => []IInv
BY InitInv, StepInv, PTL DEF SafeSpec

\* While a job runs its row says RUNNING: no update of an earlier try clobbers it.
THEOREM RunningRowHolds == SafeSpec => []RunningRow
BY Invariance, PTL DEF IInv

\* A READY delivery counts the objects it lists, and has loaded them.
THEOREM DeliveryIsConsistent == SafeSpec => []ReadyIsConsistent
<1>1. IInv => ReadyIsConsistent
  BY DEF IInv, Consistent, ReadyIsConsistent, LastSuccessful, Ready
<1> QED
  BY <1>1, Invariance, PTL

\* A READY delivery rests on tested rows only: its own objects and all that
\* executions started no later have loaded were there when a build that passed
\* began.
THEOREM DeliveryIsTested == SafeSpec => []ReadyIsTested
<1>1. IInv => ReadyIsTested
  BY DEF IInv, Tested, Covers, Published, ReadyIsTested, LastSuccessful
<1> QED
  BY <1>1, Invariance, PTL

\* A SUCCESS is only taken back by an update whose client had given up.
THEOREM SuccessSticksHolds == SafeSpec => SuccessSticks
<1>1. ASSUME IInv, [Next]_vars, NEW r \in Runs, status[r] = "SUCCESS", status'[r] # "SUCCESS"
      PROVE  \E u \in late : u.run = r /\ u.status = status'[r]
  <2>1. PastJob(r) /\ (dag.run = r => dag.task = "publish")
    BY <1>1 DEF IInv, PublishedIsPast, Published
  <2> QED
    BY <1>1, <2>1, Writers DEF IInv, PastJob
<1>2. IInv /\ [Next]_vars =>
        [\A r \in Runs : status[r] = "SUCCESS" /\ status'[r] # "SUCCESS"
                           => \E u \in late : u.run = r /\ u.status = status'[r]]_vars
  BY <1>1
<1> QED
  BY <1>2, Invariance, PTL DEF SafeSpec, SuccessSticks
=============================================================================
