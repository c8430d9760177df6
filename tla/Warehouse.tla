------------------------------ MODULE Warehouse ------------------------------
(***************************************************************************)
(* The warehouse: the raw table the Spark job loads (load_traffic_rows in  *)
(* database.py), and the dbt project that derives the fact, the dimension  *)
(* and the marts from it and tests them (dbt/), as the DAG runs it: dbt    *)
(* build, and then dbt source freshness.                                   *)
(*                                                                         *)
(* dbt runs a model or a test when all it depends on has succeeded, in any *)
(* order else, and goes on beside a failure: each of them reads the        *)
(* database at an instant of its own, while loads commit in between.  A    *)
(* model replaces its table before it is tested.  A node may fail by       *)
(* itself, and a build may be killed by its timeout.                       *)
(*                                                                         *)
(* The DAG builds only after a transform that has loaded something, and    *)
(* tries its dbt task three times; then it waits for the next such load.   *)
(*                                                                         *)
(* Data: a row is its congestion level and its loaded_at; the segment and  *)
(* observed_at of an event are fixed, ingested_at may order events that    *)
(* are observed at the same time in either way.                            *)
(***************************************************************************)
EXTENDS Naturals, FiniteSets

CONSTANTS
  Events,
  Segments,
  SegmentOf,   \* segment_id of an event
  ObservedAt,  \* its observed_at
  Seoul,       \* the events whose source_system is SEOUL_TOPIS
  Batches,     \* what a load may bring: levels of some events
  FreshFor,    \* thirty minutes
  MaxInstant,  \* bound: the clock
  MaxLoads,    \* bound: loads
  MaxFaults,   \* bound: nodes that fail by themselves and builds that are killed
  None

Levels == {"SEVERE", "CONGESTED", "SLOW", "SMOOTH", "UNKNOWN"}
Actions == {"VERIFY_SOURCE_AND_AGGREGATION", "REVIEW_CONGESTION", "MONITOR_TREND", "NONE"}

ASSUME ConstantsAssumption ==
  /\ IsFiniteSet(Events) /\ Seoul \subseteq Events
  /\ SegmentOf \in [Events -> Segments] /\ ObservedAt \in [Events -> Nat]
  /\ \A b \in Batches : DOMAIN b \subseteq Events /\ \A e \in DOMAIN b : b[e] \in Levels
  /\ {FreshFor, MaxInstant, MaxLoads, MaxFaults} \subseteq Nat
  /\ None \notin Levels \cup Actions /\ None \notin [level : Levels, loaded_at : Nat]

VARIABLES
  clock,    \* of the database server
  raw,      \* raw.traffic_observation: row of an event, or None
  loads,    \* load transactions in progress
  fact,     \* fct_traffic_observation
  dim,      \* dim_road_segment: its segments
  latest,   \* mart_segment_latest: level of a segment, or None
  hourly,   \* mart_hourly_traffic_health: the observations it counts
  alerts,   \* mart_congestion_alerts: recommended_action of a segment, or None
  ok,       \* nodes of the build that have succeeded
  failed,   \* nodes that have failed
  running,  \* a build is in progress
  tries,    \* tries left of the dbt task of the DAG run, 0 when it is not due
  started,  \* loads so far
  faults    \* so far

marts == <<fact, dim, latest, hourly, alerts>>
build == <<ok, failed, running, tries>>
bounds == <<started, faults>>
vars == <<clock, raw, loads, fact, dim, latest, hourly, alerts, ok, failed, running,
          tries, started, faults>>

NoRows == [e \in Events |-> None]

Init ==
  /\ clock = 0
  /\ raw = NoRows /\ loads = {}
  /\ fact = NoRows /\ dim = {} /\ hourly = 0
  /\ latest = [s \in Segments |-> None] /\ alerts = latest
  /\ ok = {} /\ failed = {} /\ running = FALSE /\ tries = 0
  /\ started = 0 /\ faults = 0

Tick ==
  /\ clock < MaxInstant /\ clock' = clock + 1
  /\ UNCHANGED <<raw, loads, marts, build, bounds>>
-----------------------------------------------------------------------------
(* load_traffic_rows.                                                      *)

\* Mutants of BeginLoad: without JOB_LOCK, and with the clock of the client.
BeginUnlocked(batch) ==
  /\ started < MaxLoads /\ started' = started + 1
  /\ loads' = loads \cup {[at |-> clock, batch |-> batch]}
  /\ UNCHANGED <<clock, raw, marts, build, faults>>

BeginAhead(batch) ==
  /\ loads = {}
  /\ started < MaxLoads /\ started' = started + 1
  /\ loads' = {[at |-> clock + 1, batch |-> batch]}
  /\ UNCHANGED <<clock, raw, marts, build, faults>>

\* The transaction begins, and with it NOW() is fixed.  The job holds JOB_LOCK.
BeginLoad(batch) ==
  /\ loads = {}
  /\ started < MaxLoads /\ started' = started + 1
  /\ loads' = {[at |-> clock, batch |-> batch]}
  /\ UNCHANGED <<clock, raw, marts, build, faults>>

\* retries of default_args, and the first try.
Tries == 3

\* It commits: all rows are upserted, and stamped with the instant it began.  When it
\* is the load of the DAG's transform, whose answer the DAG receives, dbt is due.  The
\* load of a request by hand, or one whose answer the DAG has given up, makes nothing
\* due, nor does another while dbt is at work: there is one DAG run at a time.
CommitLoad(l) ==
  /\ l \in loads /\ loads' = loads \ {l}
  /\ raw' = [e \in Events |->
               IF e \in DOMAIN l.batch THEN [level |-> l.batch[e], loaded_at |-> l.at]
                                       ELSE raw[e]]
  /\ tries' \in IF running \/ tries > 0 THEN {tries} ELSE {0, Tries}
  /\ UNCHANGED <<clock, marts, ok, failed, running, bounds>>

\* It is rolled back, by an error or with the death of the job.
AbortLoad(l) ==
  /\ l \in loads /\ loads' = loads \ {l}
  /\ UNCHANGED <<clock, raw, marts, build, bounds>>
-----------------------------------------------------------------------------
(* The nodes of the dbt project.                                           *)

Models == {"dim", "fct", "latest", "hourly", "alerts"}
Tests == {"source", "relationships", "alert_values", "freshness"}
Nodes == Models \cup Tests

\* What a node waits for: the models it refers to, the tests of the source, and
\* a test that refers to nothing but what it depends on as well.  The freshness
\* of the source is a command of its own, after a build without failures.
Before ==
  [n \in Nodes |->
     CASE n = "source" -> {}
       [] n \in {"dim", "fct"} -> {"source"}
       [] n = "relationships" -> {"dim", "fct"}
       [] n \in {"latest", "hourly"} -> {"fct"}
       [] n = "alerts" -> {"dim", "latest", "relationships"}
       [] n = "alert_values" -> {"alerts"}
       [] n = "freshness" -> Nodes \ {"freshness"}]

Ready(n) == running /\ n \notin ok \cup failed /\ Before[n] \subseteq ok

Present(rows) == {e \in Events : rows[e] # None}

\* Mutant of IsNew: a strict comparison.
IsNewer(e) == \A f \in Present(fact) : raw[e].loaded_at > fact[f].loaded_at

\* loaded_at >= (select coalesce(max(loaded_at), ...) from this).
IsNew(e) == \A f \in Present(fact) : raw[e].loaded_at >= fact[f].loaded_at

\* The incremental fact: new rows replace those of the same event_id.
Fact == [e \in Events |-> IF e \in Present(raw) /\ IsNew(e) THEN raw[e] ELSE fact[e]]

Dim == {SegmentOf[e] : e \in Present(raw)}

\* The events of a segment that row_number may rank first.
Newest(rows, s) ==
  {e \in Present(rows) : SegmentOf[e] = s
     /\ \A f \in Present(rows) : SegmentOf[f] = s => ObservedAt[f] <= ObservedAt[e]}

IsLatest(table) ==
  /\ DOMAIN table = Segments
  /\ \A s \in Segments :
       IF Newest(fact, s) = {} THEN table[s] = None
                               ELSE \E e \in Newest(fact, s) : table[s] = fact[e].level

LatestTables == {t \in [Segments -> Levels \cup {None}] : IsLatest(t)}

RecommendedAction(level) ==
  CASE level = "SEVERE" -> "VERIFY_SOURCE_AND_AGGREGATION"
    [] level = "CONGESTED" -> "REVIEW_CONGESTION"
    [] level = "SLOW" -> "MONITOR_TREND"
    [] OTHER -> "NONE"

\* The latest rows that are not SMOOTH, joined with the dimension.
Alerts == [s \in Segments |-> IF s \in dim /\ latest[s] \notin {"SMOOTH", None}
                                THEN RecommendedAction(latest[s]) ELSE None]

IsFresh(events) ==
  \E e \in events \cap Present(raw) : raw[e].loaded_at + FreshFor >= clock

\* A model replaces its table by what it selects now.
Materialize(n) ==
  /\ fact' = IF n = "fct" THEN Fact ELSE fact
  /\ dim' = IF n = "dim" THEN Dim ELSE dim
  /\ latest' \in IF n = "latest" THEN LatestTables ELSE {latest}
  /\ hourly' = IF n = "hourly" THEN Cardinality(Present(fact)) ELSE hourly
  /\ alerts' = IF n = "alerts" THEN Alerts ELSE alerts

\* Mutant of Holds: without the relationships test.
HoldsUnrelated(n) ==
  CASE n = "source" -> IsFresh(Seoul)
    [] n = "relationships" -> TRUE
    [] n = "alert_values" -> \A s \in Segments : alerts[s] # "NONE"
    [] n = "freshness" -> IsFresh(Events)

\* What a test asks.  (The tests that are left out hold by a constraint of the
\* raw table or by the select of their model.)
Holds(n) ==
  CASE n = "source" -> IsFresh(Seoul)
    [] n = "relationships" -> \A e \in Present(fact) : SegmentOf[e] \in dim
    [] n = "alert_values" -> \A s \in Segments : alerts[s] # "NONE"
    [] n = "freshness" -> IsFresh(Events)
-----------------------------------------------------------------------------
(* A build.                                                                *)

\* Mutant of StartBuild: what has failed once is not run again.
ResumeBuild ==
  /\ ~running
  /\ tries > 0 /\ tries' = tries - 1
  /\ running' = TRUE /\ ok' = {}
  /\ UNCHANGED <<clock, raw, loads, marts, failed, bounds>>

\* A try of dbt_quality_gate, whose transform was not NO_DATA.
StartBuild ==
  /\ ~running
  /\ tries > 0 /\ tries' = tries - 1
  /\ running' = TRUE /\ ok' = {} /\ failed' = {}
  /\ UNCHANGED <<clock, raw, loads, marts, bounds>>

RunModel(n) ==
  /\ n \in Models /\ Ready(n)
  /\ Materialize(n)
  /\ ok' = ok \cup {n}
  /\ UNCHANGED <<clock, raw, loads, failed, running, tries, bounds>>

RunTest(n) ==
  /\ n \in Tests /\ Ready(n)
  /\ IF Holds(n) THEN ok' = ok \cup {n} /\ UNCHANGED failed
                 ELSE failed' = failed \cup {n} /\ UNCHANGED ok
  /\ UNCHANGED <<clock, raw, loads, marts, running, tries, bounds>>

\* A statement fails, and leaves the table as it was.
NodeFails(n) ==
  /\ Ready(n)
  /\ faults < MaxFaults /\ faults' = faults + 1
  /\ failed' = failed \cup {n}
  /\ UNCHANGED <<clock, raw, loads, marts, ok, running, tries, started>>

\* Nothing is left to do: the rest is skipped.  A try that fails is followed by the next.
EndBuild ==
  /\ running /\ \A n \in Nodes : ~Ready(n)
  /\ running' = FALSE
  /\ tries' = IF ok = Nodes THEN 0 ELSE tries
  /\ UNCHANGED <<clock, raw, loads, marts, ok, failed, bounds>>

\* The timeout of the task, or the end of its worker: the try has failed.
KillBuild ==
  /\ running
  /\ faults < MaxFaults /\ faults' = faults + 1
  /\ running' = FALSE /\ ok' = {} /\ failed' = {}
  /\ UNCHANGED <<clock, raw, loads, marts, tries, started>>

Passed == ~running /\ ok = Nodes
-----------------------------------------------------------------------------
Load ==
  \/ \E batch \in Batches : BeginLoad(batch)
  \/ \E l \in loads : CommitLoad(l) \/ AbortLoad(l)

Dbt == StartBuild \/ EndBuild \/ \E n \in Nodes : RunModel(n) \/ RunTest(n)

Next ==
  \/ Tick
  \/ Load
  \/ Dbt
  \/ \E n \in Nodes : NodeFails(n)
  \/ KillBuild

SafeSpec == Init /\ [][Next]_vars

\* Airflow starts a try that is due, and a build goes on.
Spec == SafeSpec /\ WF_vars(Dbt)
-----------------------------------------------------------------------------
(* Properties.                                                             *)

Row == [level : Levels, loaded_at : 0 .. MaxInstant]
Table == [Events -> Row \cup {None}]

\* Every variable has its type, and no row comes from the future.
TypeOK ==
  /\ clock \in 0 .. MaxInstant
  /\ raw \in Table /\ fact \in Table
  /\ loads \subseteq [at : 0 .. clock, batch : Batches]
  /\ dim \subseteq Segments
  /\ latest \in [Segments -> Levels \cup {None}]
  /\ hourly \in Nat
  /\ alerts \in [Segments -> Actions \cup {None}]
  /\ ok \subseteq Nodes /\ failed \subseteq (Nodes \ ok) /\ running \in BOOLEAN
  /\ tries \in 0 .. Tries
  /\ started \in 0 .. MaxLoads /\ faults \in 0 .. MaxFaults

\* No row is left behind by the incremental fact: what is older than the newest
\* row of the fact is in it as it is in the raw table, so that the next build,
\* which does not look at it, need not.
FactMissesNothing ==
  \A e \in Present(raw), f \in Present(fact) :
    raw[e].loaded_at < fact[f].loaded_at => fact[e] = raw[e]

FullRefreshed ==
  INSTANCE FullRefresh WITH Instants <- 0 .. MaxInstant, built <- "fct" \in ok

\* The incremental model implements the full refresh: through loads that begin
\* before a build and commit after it, rows stamped with the same instant, events
\* loaded again, and builds that fail, each build leaves what a new one would.
ImplementsFullRefresh == FullRefreshed!Spec

\* Marts that have passed belong together, whatever was loaded while they were
\* built: every segment of the fact has its latest row, every latest row that is
\* not SMOOTH has its alert, which the join with the dimension would drop without
\* a failure, and the hourly mart counts all.
PassedMartsAgree ==
  Passed =>
    /\ IsLatest(latest)
    /\ \A s \in Segments : latest[s] \notin {"SMOOTH", None} <=> alerts[s] # None
    /\ hourly = Cardinality(Present(fact))

\* The test of mart_congestion_alerts in schema.yml: an alert recommends one of
\* three actions.
AlertsAccepted ==
  \A s \in Segments : alerts[s] \in (Actions \ {"NONE"}) \cup {None}

\* The raw table is such that a build should pass.
Publishable ==
  /\ IsFresh(Seoul)
  /\ \A s \in Segments, e \in Events :
       e \in Newest(raw, s) => raw[e].level # "UNKNOWN"

\* The quality gate recovers within its tries: dbt that has become due passes,
\* whatever earlier builds have left behind, and although one try is lost to a fault or
\* a kill and one to a load in between, if the data stays publishable.
GateRecovers == (tries = Tries) ~> ((Passed /\ tries = 0) \/ ~Publishable)
-----------------------------------------------------------------------------
(* The inductive invariant.                                                *)

\* One load is in progress, and nothing in the raw table is later than its
\* instant, or than the clock.
LoadsInOrder ==
  /\ \A l, k \in loads : l = k
  /\ \A l \in loads : \A e \in Present(raw) : raw[e].loaded_at <= l.at
  /\ \A e \in Present(raw) : raw[e].loaded_at <= clock

\* The fact has nothing that the raw table has not, in this version or a later one.
FactBehind ==
  \A e \in Present(fact) : e \in Present(raw) /\ fact[e].loaded_at <= raw[e].loaded_at

\* What has succeeded depends on what has succeeded, and is still what was built
\* or tested.
BuildInv ==
  /\ \A n \in ok : Before[n] \subseteq ok
  /\ "relationships" \in ok => Holds("relationships")
  /\ "latest" \in ok => IsLatest(latest)
  /\ "hourly" \in ok => hourly = Cardinality(Present(fact))
  /\ "alerts" \in ok => alerts = Alerts

IInv == TypeOK /\ LoadsInOrder /\ FactBehind /\ FactMissesNothing /\ BuildInv
=============================================================================
