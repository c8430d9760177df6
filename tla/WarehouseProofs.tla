---------------------------- MODULE WarehouseProofs ----------------------------
(***************************************************************************)
(* Proofs about the warehouse: its inductive invariant, what follows from  *)
(* it about the incremental fact and the marts, and that the incremental   *)
(* fact implements the full refresh.                                       *)
(***************************************************************************)
EXTENDS Warehouse, FiniteSetTheorems, TLAPS

\* The present rows of a table are finitely many.
LEMMA PresentFinite ==
  ASSUME NEW rows
  PROVE  Cardinality(Present(rows)) \in Nat
<1>1. IsFiniteSet(Events)
  BY ConstantsAssumption
<1>2. IsFiniteSet(Present(rows))
  BY <1>1, FS_Subset DEF Present
<1> QED
  BY <1>2, FS_CardinalityType

\* A row of a table that is present is a row.
LEMMA PresentRows ==
  ASSUME NEW rows \in Table, NEW e \in Present(rows)
  PROVE  /\ e \in Events /\ rows[e] \in Row
         /\ rows[e].level \in Levels /\ rows[e].loaded_at \in Nat
         /\ rows[e].loaded_at <= MaxInstant
<1>1. e \in Events /\ rows[e] \in Row
  BY DEF Table, Present
<1> QED
  BY <1>1, ConstantsAssumption DEF Row

\* What is not an instant is not a row: None is none.
LEMMA NoneIsNoRow == None \notin Row
  BY ConstantsAssumption DEF Row
-----------------------------------------------------------------------------
(* The selects of the models.                                              *)

\* The incremental select gives the raw table, since what it skips is in the fact.
LEMMA FactIsRaw ==
  ASSUME TypeOK, FactBehind, FactMissesNothing
  PROVE  Fact = raw
<1>1. \A e \in Events : Fact[e] = raw[e]
  <2> SUFFICES ASSUME NEW e \in Events PROVE Fact[e] = raw[e]
    OBVIOUS
  <2>1. CASE e \in Present(raw) /\ ~IsNew(e)
    <3>1. PICK f \in Present(fact) : ~(raw[e].loaded_at >= fact[f].loaded_at)
      BY <2>1 DEF IsNew
    <3>2. raw[e].loaded_at \in Nat /\ fact[f].loaded_at \in Nat
      BY <2>1, PresentRows DEF TypeOK
    <3>3. fact[e] = raw[e]
      BY <2>1, <3>1, <3>2 DEF FactMissesNothing
    <3> QED
      BY <2>1, <3>3 DEF Fact
  <2>2. CASE e \notin Present(raw)
    <3>1. raw[e] = None /\ fact[e] = None
      BY <2>2 DEF Present, FactBehind
    <3> QED
      BY <2>2, <3>1 DEF Fact
  <2>3. CASE e \in Present(raw) /\ IsNew(e)
    BY <2>3 DEF Fact
  <2> QED
    BY <2>1, <2>2, <2>3
<1> QED
  BY <1>1 DEF Fact, TypeOK, Table

\* The alerts are of the type of their table.
LEMMA AlertsType ==
  ASSUME TypeOK
  PROVE  Alerts \in [Segments -> Actions \cup {None}]
<1>1. ASSUME NEW s \in Segments
      PROVE  RecommendedAction(latest[s]) \in Actions
  BY DEF RecommendedAction, Actions
<1> QED
  BY <1>1 DEF Alerts

LEMMA DimType == Dim \subseteq Segments
  BY ConstantsAssumption DEF Dim, Present
-----------------------------------------------------------------------------
(* Type correctness.                                                       *)

LEMMA TypeInit ==
  ASSUME Init
  PROVE  TypeOK
<1>1. clock \in 0 .. MaxInstant /\ started \in 0 .. MaxLoads /\ faults \in 0 .. MaxFaults
  BY ConstantsAssumption DEF Init
<1>2. raw \in Table /\ fact \in Table
  BY DEF Init, NoRows, Table
<1>3. latest \in [Segments -> Levels \cup {None}] /\ alerts \in [Segments -> Actions \cup {None}]
  BY DEF Init
<1>4. tries \in 0 .. Tries
  BY DEF Init, Tries
<1> QED
  BY <1>1, <1>2, <1>3, <1>4 DEF Init, TypeOK

LEMMA TypeTick ==
  ASSUME TypeOK, Tick
  PROVE  TypeOK'
<1> USE ConstantsAssumption DEF TypeOK, Tick, marts, build, bounds
<1>1. clock' \in 0 .. MaxInstant
  OBVIOUS
<1>2. loads' \subseteq [at : 0 .. clock', batch : Batches]
  <2> SUFFICES ASSUME NEW l \in loads
               PROVE  l \in [at : 0 .. clock', batch : Batches]
    OBVIOUS
  <2>1. l \in [at : 0 .. clock, batch : Batches]
    OBVIOUS
  <2>2. 0 .. clock \subseteq 0 .. clock'
    OBVIOUS
  <2> QED
    BY <2>1, <2>2
<1> QED
  BY <1>1, <1>2

LEMMA TypeBeginLoad ==
  ASSUME TypeOK, NEW batch \in Batches, BeginLoad(batch)
  PROVE  TypeOK'
<1> USE ConstantsAssumption DEF TypeOK, BeginLoad, marts, build
<1>1. loads' \subseteq [at : 0 .. clock', batch : Batches]
  OBVIOUS
<1>2. started' \in 0 .. MaxLoads
  OBVIOUS
<1> QED
  BY <1>1, <1>2

\* A load that is in progress brings rows.
LEMMA LoadBrings ==
  ASSUME TypeOK, NEW l \in loads
  PROVE  /\ l.at \in 0 .. clock /\ l.at \in 0 .. MaxInstant /\ l.batch \in Batches
         /\ \A e \in DOMAIN l.batch : [level |-> l.batch[e], loaded_at |-> l.at] \in Row
<1>1. l.at \in 0 .. clock /\ l.batch \in Batches
  BY DEF TypeOK
<1>2. l.at \in 0 .. MaxInstant
  BY <1>1, ConstantsAssumption DEF TypeOK
<1>3. \A e \in DOMAIN l.batch : l.batch[e] \in Levels
  BY <1>1, ConstantsAssumption
<1> QED
  BY <1>1, <1>2, <1>3 DEF Row

LEMMA TypeCommitLoad ==
  ASSUME TypeOK, NEW l \in loads, CommitLoad(l)
  PROVE  TypeOK'
<1>1. raw' \in Table
  BY LoadBrings DEF CommitLoad, Table, TypeOK
<1>2. tries' \in 0 .. Tries
  BY DEF CommitLoad, TypeOK, Tries
<1> QED
  BY <1>1, <1>2 DEF CommitLoad, TypeOK, marts, bounds

LEMMA TypeAbortLoad ==
  ASSUME TypeOK, NEW l \in loads, AbortLoad(l)
  PROVE  TypeOK'
  BY DEF AbortLoad, TypeOK, marts, build, bounds

LEMMA TypeRunModel ==
  ASSUME TypeOK, NEW n \in Nodes, RunModel(n)
  PROVE  TypeOK'
<1>1. fact' \in Table
  <2>1. Fact \in Table
    BY DEF Fact, Table, TypeOK
  <2> QED
    BY <2>1 DEF RunModel, Materialize, TypeOK
<1>2. dim' \subseteq Segments
  BY DimType DEF RunModel, Materialize, TypeOK
<1>3. latest' \in [Segments -> Levels \cup {None}]
  BY DEF RunModel, Materialize, LatestTables, TypeOK
<1>4. hourly' \in Nat
  BY PresentFinite DEF RunModel, Materialize, TypeOK
<1>5. alerts' \in [Segments -> Actions \cup {None}]
  BY AlertsType DEF RunModel, Materialize, TypeOK
<1>6. ok' \subseteq Nodes /\ failed' \subseteq Nodes \ ok'
  BY DEF RunModel, Ready, Nodes, TypeOK
<1> QED
  BY <1>1, <1>2, <1>3, <1>4, <1>5, <1>6 DEF RunModel, TypeOK, bounds

LEMMA TypeRunTest ==
  ASSUME TypeOK, NEW n \in Nodes, RunTest(n)
  PROVE  TypeOK'
<1>1. ok' \subseteq Nodes /\ failed' \subseteq Nodes \ ok'
  BY DEF RunTest, Ready, TypeOK
<1> QED
  BY <1>1 DEF RunTest, TypeOK, marts, bounds

LEMMA TypeNodeFails ==
  ASSUME TypeOK, NEW n \in Nodes, NodeFails(n)
  PROVE  TypeOK'
<1>1. failed' \subseteq Nodes \ ok'
  BY DEF NodeFails, Ready, TypeOK
<1>2. faults' \in 0 .. MaxFaults
  BY ConstantsAssumption DEF NodeFails, TypeOK
<1> QED
  BY <1>1, <1>2 DEF NodeFails, TypeOK, marts

LEMMA TypeBuild ==
  ASSUME TypeOK, StartBuild \/ EndBuild \/ KillBuild
  PROVE  TypeOK'
<1>1. CASE StartBuild
  <2>1. tries' \in 0 .. Tries
    BY <1>1 DEF StartBuild, TypeOK, Tries
  <2> QED
    BY <1>1, <2>1 DEF StartBuild, TypeOK, marts, bounds
<1>2. CASE EndBuild
  <2>1. tries' \in 0 .. Tries
    BY <1>2 DEF EndBuild, TypeOK, Tries
  <2> QED
    BY <1>2, <2>1 DEF EndBuild, TypeOK, marts, bounds
<1>3. CASE KillBuild
  <2>1. faults' \in 0 .. MaxFaults
    BY <1>3, ConstantsAssumption DEF KillBuild, TypeOK
  <2> QED
    BY <1>3, <2>1 DEF KillBuild, TypeOK, marts
<1> QED
  BY <1>1, <1>2, <1>3

LEMMA TypeNext ==
  ASSUME TypeOK, [Next]_vars
  PROVE  TypeOK'
<1>1. CASE UNCHANGED vars
  BY <1>1 DEF vars, TypeOK
<1>2. CASE Tick
  BY <1>2, TypeTick
<1>3. CASE Load
  BY <1>3, TypeBeginLoad, TypeCommitLoad, TypeAbortLoad DEF Load
<1>4. CASE Dbt
  BY <1>4, TypeBuild, TypeRunModel, TypeRunTest DEF Dbt
<1>5. CASE \E n \in Nodes : NodeFails(n)
  BY <1>5, TypeNodeFails
<1>6. CASE KillBuild
  BY <1>6, TypeBuild
<1> QED
  BY <1>1, <1>2, <1>3, <1>4, <1>5, <1>6 DEF Next

\* Type correctness, for every number of events, segments and loads: no row and
\* no load comes from the future of the database's clock.
THEOREM TypeCorrectness == Spec => []TypeOK
<1>1. Init => TypeOK
  BY TypeInit
<1>2. TypeOK /\ [Next]_vars => TypeOK'
  BY TypeNext
<1> QED
  BY <1>1, <1>2, PTL DEF Spec, SafeSpec
-----------------------------------------------------------------------------
(* The inductive invariant: the loads and the fact.                        *)

FactInv == LoadsInOrder /\ FactBehind /\ FactMissesNothing

LEMMA FactInvInit ==
  ASSUME Init
  PROVE  FactInv
<1>1. Present(raw) = {} /\ Present(fact) = {} /\ loads = {}
  BY DEF Init, NoRows, Present
<1> QED
  BY <1>1 DEF FactInv, LoadsInOrder, FactBehind, FactMissesNothing

\* A load that begins, begins at the clock, which no row is ahead of.
LEMMA FactInvBeginLoad ==
  ASSUME TypeOK, FactInv, NEW batch \in Batches, BeginLoad(batch)
  PROVE  FactInv'
<1> USE DEF FactInv, BeginLoad, marts, build, Present
<1>1. LoadsInOrder'
  BY DEF LoadsInOrder
<1>2. (FactBehind /\ FactMissesNothing)'
  BY DEF FactBehind, FactMissesNothing
<1> QED
  BY <1>1, <1>2

\* Rows that are committed are not older than any row before them.
LEMMA FactInvCommitLoad ==
  ASSUME TypeOK, FactInv, NEW l \in loads, CommitLoad(l)
  PROVE  FactInv'
<1> DEFINE batch == DOMAIN l.batch
<1>0. fact' = fact /\ clock' = clock /\ loads' = {} /\ l.at \in 0 .. clock
  BY LoadBrings DEF CommitLoad, marts, FactInv, LoadsInOrder
<1>1. \A e \in Events : raw'[e] = IF e \in batch THEN [level |-> l.batch[e], loaded_at |-> l.at]
                                               ELSE raw[e]
  BY DEF CommitLoad
<1>2. \A e \in batch : e \in Events /\ raw'[e].loaded_at = l.at /\ raw'[e] # None
  <2>1. batch \subseteq Events
    BY LoadBrings, ConstantsAssumption
  <2>2. ASSUME NEW e \in batch PROVE e \in Events /\ raw'[e].loaded_at = l.at /\ raw'[e] # None
    <3>1. raw'[e] = [level |-> l.batch[e], loaded_at |-> l.at]
      BY <2>1, <1>1
    <3>2. raw'[e] \in Row
      BY <3>1, LoadBrings
    <3> QED
      BY <2>1, <3>1, <3>2, NoneIsNoRow
  <2> QED
    BY <2>2
<1>3. Present(raw)' = Present(raw) \cup batch
  BY <1>1, <1>2 DEF Present
<1>4. \A e \in Present(raw)' \ batch : e \in Present(raw) /\ raw'[e] = raw[e]
  BY <1>1, <1>3 DEF Present
<1>5. \A e \in Present(raw) : raw[e].loaded_at \in Nat /\ raw[e].loaded_at <= l.at
  BY PresentRows DEF FactInv, LoadsInOrder, TypeOK
<1>6. \A e \in Present(raw) : raw'[e].loaded_at \in Nat /\ raw[e].loaded_at <= raw'[e].loaded_at
  BY <1>0, <1>2, <1>3, <1>4, <1>5
<1>7. Present(fact)' = Present(fact)
  BY <1>0 DEF Present
<1>8. LoadsInOrder'
  <2>1. ASSUME NEW e \in Present(raw)' PROVE raw'[e].loaded_at <= clock
    <3>1. clock \in Nat
      BY ConstantsAssumption DEF TypeOK
    <3>2. CASE e \in batch
      BY <3>1, <3>2, <1>0, <1>2
    <3>3. CASE e \notin batch
      BY <3>3, <1>4 DEF FactInv, LoadsInOrder
    <3> QED
      BY <3>2, <3>3
  <2> QED
    BY <2>1, <1>0 DEF LoadsInOrder
<1>9. FactBehind'
  <2> SUFFICES ASSUME NEW e \in Present(fact)
               PROVE  e \in Present(raw)' /\ fact[e].loaded_at <= raw'[e].loaded_at
    BY <1>0, <1>7 DEF FactBehind
  <2>1. e \in Present(raw) /\ fact[e].loaded_at <= raw[e].loaded_at
    BY DEF FactInv, FactBehind
  <2>2. fact[e].loaded_at \in Nat
    BY PresentRows DEF TypeOK
  <2> QED
    BY <2>1, <2>2, <1>3, <1>5, <1>6
<1>10. FactMissesNothing'
  <2> SUFFICES ASSUME NEW e \in Present(raw)', NEW f \in Present(fact),
                      raw'[e].loaded_at < fact[f].loaded_at
               PROVE  fact[e] = raw'[e]
    BY <1>0, <1>7 DEF FactMissesNothing
  <2>1. f \in Present(raw) /\ fact[f].loaded_at <= raw[f].loaded_at
    BY DEF FactInv, FactBehind
  <2>2. fact[f].loaded_at \in Nat /\ fact[f].loaded_at <= l.at
    BY <2>1, <1>0, <1>5, PresentRows DEF TypeOK
  <2>3. e \notin batch
    BY <2>2, <1>0, <1>2
  <2>4. e \in Present(raw) /\ raw'[e] = raw[e]
    BY <2>3, <1>4
  <2> QED
    BY <2>4 DEF FactInv, FactMissesNothing
<1> QED
  BY <1>8, <1>9, <1>10 DEF FactInv

\* A new fact is the raw table; every other node leaves the fact alone.
LEMMA FactInvRunModel ==
  ASSUME TypeOK, FactInv, NEW n \in Nodes, RunModel(n)
  PROVE  FactInv'
<1>1. UNCHANGED <<clock, raw, loads>>
  BY DEF RunModel
<1>2. LoadsInOrder'
  BY <1>1 DEF FactInv, LoadsInOrder, Present
<1>3. CASE n = "fct"
  <2>1. fact' = raw /\ raw' = raw
    BY <1>1, <1>3, FactIsRaw DEF RunModel, Materialize, FactInv
  <2>2. \A e \in Present(raw) : raw[e].loaded_at \in Nat
    BY PresentRows DEF TypeOK
  <2>3. FactBehind'
    BY <2>1, <2>2 DEF FactBehind, Present
  <2>4. FactMissesNothing'
    BY <2>1 DEF FactMissesNothing
  <2> QED
    BY <1>2, <2>3, <2>4 DEF FactInv
<1>4. CASE n # "fct"
  <2>1. fact' = fact
    BY <1>4 DEF RunModel, Materialize
  <2> QED
    BY <1>1, <1>2, <2>1 DEF FactInv, FactBehind, FactMissesNothing, Present
<1> QED
  BY <1>3, <1>4

\* A step that leaves both tables alone, begins no load and turns no clock back.
LEMMA FactInvKept ==
  ASSUME TypeOK, FactInv, UNCHANGED <<raw, fact>>, loads' \subseteq loads,
         clock' \in Nat, clock <= clock'
  PROVE  FactInv'
<1>1. LoadsInOrder'
  <2>1. \A e \in Present(raw) : raw[e].loaded_at \in Nat /\ clock \in Nat
    BY PresentRows, ConstantsAssumption DEF TypeOK
  <2>2. \A e \in Present(raw) : raw[e].loaded_at <= clock'
    BY <2>1 DEF FactInv, LoadsInOrder
  <2> QED
    BY <2>2 DEF FactInv, LoadsInOrder, Present
<1>2. (FactBehind /\ FactMissesNothing)'
  BY DEF FactInv, FactBehind, FactMissesNothing, Present
<1> QED
  BY <1>1, <1>2 DEF FactInv

LEMMA FactInvNext ==
  ASSUME TypeOK, FactInv, [Next]_vars
  PROVE  FactInv'
<1>0. clock \in Nat
  BY ConstantsAssumption DEF TypeOK
<1>1. CASE UNCHANGED vars
  BY <1>0, <1>1, FactInvKept DEF vars
<1>2. CASE Tick
  BY <1>0, <1>2, FactInvKept DEF Tick, marts
<1>3. CASE Load
  <2>1. ASSUME NEW l \in loads, AbortLoad(l) PROVE FactInv'
    BY <1>0, <2>1, FactInvKept DEF AbortLoad, marts
  <2> QED
    BY <1>3, <2>1, FactInvBeginLoad, FactInvCommitLoad DEF Load
<1>4. CASE Dbt
  <2>1. CASE StartBuild \/ EndBuild
    BY <1>0, <2>1, FactInvKept DEF StartBuild, EndBuild, marts
  <2>2. ASSUME NEW n \in Nodes, RunTest(n) PROVE FactInv'
    BY <1>0, <2>2, FactInvKept DEF RunTest, marts
  <2> QED
    BY <1>4, <2>1, <2>2, FactInvRunModel DEF Dbt
<1>5. ASSUME NEW n \in Nodes, NodeFails(n) PROVE FactInv'
  BY <1>0, <1>5, FactInvKept DEF NodeFails, marts
<1>6. CASE KillBuild
  BY <1>0, <1>6, FactInvKept DEF KillBuild, marts
<1> QED
  BY <1>1, <1>2, <1>3, <1>4, <1>5, <1>6 DEF Next
-----------------------------------------------------------------------------
(* The inductive invariant: the build.                                     *)

\* What depends on the tables of a build does not change while they do not.
LEMMA BuildInvKept ==
  ASSUME TypeOK, BuildInv, UNCHANGED marts, ok' \subseteq ok,
         \A n \in ok' : Before[n] \subseteq ok'
  PROVE  BuildInv'
  BY DEF BuildInv, marts, Holds, IsLatest, Newest, Alerts, RecommendedAction, Present

LEMMA BuildInvRunModel ==
  ASSUME TypeOK, BuildInv, NEW n \in Nodes, RunModel(n)
  PROVE  BuildInv'
<1>1. ok' = ok \cup {n} /\ n \notin ok /\ Before[n] \subseteq ok /\ n \in Models
  BY DEF RunModel, Ready
<1>2. \A m \in ok' : Before[m] \subseteq ok'
  BY <1>1 DEF BuildInv
<1>3. \A m \in Nodes : m \in ok => n \notin Before[m]
  BY <1>1 DEF BuildInv
<1>4. (n = "fct" => fact' = Fact) /\ (n # "fct" => fact' = fact)
  BY DEF RunModel, Materialize
<1>5. n # "dim" => dim' = dim
  BY DEF RunModel, Materialize
<1>6. ("relationships" \in ok => Holds("relationships"))'
  <2> SUFFICES ASSUME "relationships" \in ok' PROVE Holds("relationships")'
    OBVIOUS
  <2>1. "relationships" \in ok /\ "relationships" \in Nodes
    BY <1>1 DEF Models, Nodes, Tests
  <2>2. n \notin Before["relationships"]
    BY <2>1, <1>3
  <2>3. n \notin {"dim", "fct"}
    BY <2>1, <2>2 DEF Before
  <2>4. fact' = fact /\ dim' = dim
    BY <2>3, <1>4, <1>5
  <2> QED
    BY <2>1, <2>4 DEF BuildInv, Holds, Present
<1>7. ("latest" \in ok => IsLatest(latest))'
  <2>1. CASE n = "latest"
    <3>1. IsLatest(latest') /\ fact' = fact
      BY <2>1 DEF RunModel, Materialize, LatestTables
    <3> QED
      BY <3>1 DEF IsLatest, Newest, Present
  <2>2. CASE n # "latest" /\ "latest" \in ok
    <3>1. n \notin Before["latest"]
      BY <2>2, <1>3 DEF Nodes, Models
    <3>2. n # "fct"
      BY <3>1 DEF Before, Nodes, Models
    <3>3. fact' = fact /\ latest' = latest
      BY <3>2, <2>2, <1>4 DEF RunModel, Materialize
    <3> QED
      BY <2>2, <3>3 DEF BuildInv, IsLatest, Newest, Present
  <2>3. CASE n # "latest" /\ "latest" \notin ok
    BY <2>3, <1>1
  <2> QED
    BY <2>1, <2>2, <2>3
<1>8. ("hourly" \in ok => hourly = Cardinality(Present(fact)))'
  <2>1. CASE n = "hourly"
    BY <2>1 DEF RunModel, Materialize, Present
  <2>2. CASE n # "hourly" /\ "hourly" \in ok
    <3>1. n \notin Before["hourly"]
      BY <2>2, <1>3 DEF Nodes, Models
    <3>2. n # "fct"
      BY <3>1 DEF Before, Nodes, Models
    <3>3. fact' = fact /\ hourly' = hourly
      BY <3>2, <2>2, <1>4 DEF RunModel, Materialize
    <3> QED
      BY <2>2, <3>3 DEF BuildInv, Present
  <2>3. CASE n # "hourly" /\ "hourly" \notin ok
    BY <2>3, <1>1
  <2> QED
    BY <2>1, <2>2, <2>3
<1>9. ("alerts" \in ok => alerts = Alerts)'
  <2>1. CASE n = "alerts"
    <3>1. alerts' = Alerts /\ dim' = dim /\ latest' = latest
      BY <2>1 DEF RunModel, Materialize
    <3> QED
      BY <3>1 DEF Alerts, RecommendedAction
  <2>2. CASE n # "alerts" /\ "alerts" \in ok
    <3>1. n \notin Before["alerts"]
      BY <2>2, <1>3 DEF Nodes, Models
    <3>2. n \notin {"dim", "latest"}
      BY <3>1 DEF Before, Nodes, Models
    <3>3. dim' = dim /\ latest' = latest /\ alerts' = alerts
      BY <3>2, <2>2, <1>5 DEF RunModel, Materialize
    <3> QED
      BY <2>2, <3>3 DEF BuildInv, Alerts, RecommendedAction
  <2>3. CASE n # "alerts" /\ "alerts" \notin ok
    BY <2>3, <1>1
  <2> QED
    BY <2>1, <2>2, <2>3
<1> QED
  BY <1>2, <1>6, <1>7, <1>8, <1>9 DEF BuildInv

LEMMA BuildInvRunTest ==
  ASSUME TypeOK, BuildInv, NEW n \in Nodes, RunTest(n)
  PROVE  BuildInv'
<1>1. UNCHANGED marts /\ n \in Tests
  BY DEF RunTest
<1>2. CASE ~Holds(n)
  BY <1>1, <1>2, BuildInvKept DEF RunTest, BuildInv
<1>3. CASE Holds(n)
  <2>1. ok' = ok \cup {n} /\ Before[n] \subseteq ok
    BY <1>3 DEF RunTest, Ready
  <2>2. \A m \in ok' : Before[m] \subseteq ok'
    BY <2>1 DEF BuildInv
  <2>3. ("relationships" \in ok => Holds("relationships"))'
    BY <1>1, <1>3, <2>1 DEF BuildInv, Holds, marts, Present
  <2>4. n \notin {"latest", "hourly", "alerts"}
    BY <1>1 DEF Tests
  <2>5. ("latest" \in ok => IsLatest(latest))'
    BY <1>1, <2>1, <2>4 DEF BuildInv, marts, IsLatest, Newest, Present
  <2>6. ("hourly" \in ok => hourly = Cardinality(Present(fact)))'
    BY <1>1, <2>1, <2>4 DEF BuildInv, marts, Present
  <2>7. ("alerts" \in ok => alerts = Alerts)'
    BY <1>1, <2>1, <2>4 DEF BuildInv, marts, Alerts, RecommendedAction
  <2> QED
    BY <2>2, <2>3, <2>5, <2>6, <2>7 DEF BuildInv
<1> QED
  BY <1>2, <1>3

LEMMA BuildInvNext ==
  ASSUME TypeOK, BuildInv, [Next]_vars
  PROVE  BuildInv'
<1>0. \A n \in ok : Before[n] \subseteq ok
  BY DEF BuildInv
<1>1. CASE UNCHANGED vars
  BY <1>0, <1>1, BuildInvKept DEF vars, marts
<1>2. CASE Tick
  BY <1>0, <1>2, BuildInvKept DEF Tick, build
<1>3. CASE Load
  <2>1. UNCHANGED <<marts, ok>>
    BY <1>3 DEF Load, BeginLoad, CommitLoad, AbortLoad, build
  <2> QED
    BY <1>0, <2>1, BuildInvKept
<1>4. CASE Dbt
  <2>1. CASE StartBuild \/ EndBuild
    BY <1>0, <2>1, BuildInvKept DEF StartBuild, EndBuild
  <2> QED
    BY <1>4, <2>1, BuildInvRunModel, BuildInvRunTest DEF Dbt
<1>5. ASSUME NEW n \in Nodes, NodeFails(n) PROVE BuildInv'
  BY <1>0, <1>5, BuildInvKept DEF NodeFails
<1>6. CASE KillBuild
  BY <1>0, <1>6, BuildInvKept DEF KillBuild
<1> QED
  BY <1>1, <1>2, <1>3, <1>4, <1>5, <1>6 DEF Next
-----------------------------------------------------------------------------
(* The theorems.                                                           *)

\* The inductive invariant holds in every reachable state.
THEOREM Invariance == Spec => []IInv
<1>1. Init => IInv
  BY TypeInit, FactInvInit DEF IInv, FactInv, BuildInv, Init
<1>2. IInv /\ [Next]_vars => IInv'
  BY TypeNext, FactInvNext, BuildInvNext DEF IInv, FactInv
<1> QED
  BY <1>1, <1>2, PTL DEF Spec, SafeSpec

\* The incremental fact leaves no row behind, for every number of events, loads and
\* builds: what its next build skips is in it already.
THEOREM NothingIsMissed == Spec => []FactMissesNothing
<1>1. IInv => FactMissesNothing
  BY DEF IInv
<1> QED
  BY <1>1, Invariance, PTL

\* A build that has passed has all its tables and tests from the same fact.
LEMMA PassedAgrees ==
  ASSUME TypeOK, BuildInv
  PROVE  PassedMartsAgree
<1> SUFFICES ASSUME Passed
             PROVE  /\ IsLatest(latest)
                    /\ \A s \in Segments : latest[s] \notin {"SMOOTH", None} <=> alerts[s] # None
                    /\ hourly = Cardinality(Present(fact))
  BY DEF PassedMartsAgree
<1>1. {"relationships", "latest", "hourly", "alerts"} \subseteq ok
  BY DEF Passed, Nodes, Models, Tests
<1>2. IsLatest(latest) /\ hourly = Cardinality(Present(fact)) /\ alerts = Alerts
  BY <1>1 DEF BuildInv
<1>3. \A e \in Present(fact) : SegmentOf[e] \in dim
  BY <1>1 DEF BuildInv, Holds
<1>4. ASSUME NEW s \in Segments
      PROVE  latest[s] \notin {"SMOOTH", None} <=> alerts[s] # None
  <2>1. latest[s] # None => s \in dim
    <3> SUFFICES ASSUME latest[s] # None PROVE s \in dim
      OBVIOUS
    <3>1. PICK e \in Newest(fact, s) : TRUE
      BY <1>2 DEF IsLatest
    <3>2. e \in Present(fact) /\ SegmentOf[e] = s
      BY <3>1 DEF Newest
    <3> QED
      BY <3>2, <1>3
  <2>2. RecommendedAction(latest[s]) # None
    <3>1. RecommendedAction(latest[s]) \in Actions
      BY DEF RecommendedAction, Actions
    <3> QED
      BY <3>1, ConstantsAssumption
  <2>3. alerts[s] = IF s \in dim /\ latest[s] \notin {"SMOOTH", None}
                    THEN RecommendedAction(latest[s]) ELSE None
    BY <1>2 DEF Alerts
  <2> QED
    BY <2>1, <2>2, <2>3
<1> QED
  BY <1>2, <1>4

\* Marts that have passed the gate belong together, whatever loads came between the
\* nodes of the build, for every number of events and segments.
THEOREM MartsAgree == Spec => []PassedMartsAgree
<1>1. IInv => PassedMartsAgree
  BY PassedAgrees DEF IInv
<1> QED
  BY <1>1, Invariance, PTL
-----------------------------------------------------------------------------
(* The refinement.                                                         *)

LEMMA RefinesLoad ==
  ASSUME TypeOK, NEW l \in loads, CommitLoad(l)
  PROVE  FullRefreshed!Load
<1>1. l.batch \in Batches /\ l.at \in 0 .. MaxInstant
  BY LoadBrings
<1>2. raw' = FullRefreshed!Upserted(l.batch, l.at)
  BY DEF CommitLoad, FullRefreshed!Upserted
<1>3. UNCHANGED <<fact, "fct" \in ok>>
  BY DEF CommitLoad, marts
<1> QED
  BY <1>1, <1>2, <1>3 DEF FullRefreshed!Load

LEMMA RefinesRunModel ==
  ASSUME IInv, NEW n \in Nodes, RunModel(n)
  PROVE  FullRefreshed!Rebuild \/ UNCHANGED <<raw, fact, "fct" \in ok>>
<1>1. CASE n = "fct"
  <2>1. fact' = raw /\ raw' = raw
    BY <1>1, FactIsRaw DEF RunModel, Materialize, IInv
  <2>2. ("fct" \in ok)' = TRUE
    BY <1>1 DEF RunModel
  <2> QED
    BY <2>1, <2>2 DEF FullRefreshed!Rebuild
<1>2. CASE n # "fct"
  BY <1>2 DEF RunModel, Materialize
<1> QED
  BY <1>1, <1>2

LEMMA RefinesNext ==
  ASSUME IInv, [Next]_vars
  PROVE  [FullRefreshed!Next]_<<raw, fact, "fct" \in ok>>
<1>1. CASE UNCHANGED vars
  BY <1>1 DEF vars
<1>2. CASE Tick
  BY <1>2 DEF Tick, marts, build
<1>3. CASE Load
  <2>1. ASSUME NEW batch \in Batches, BeginLoad(batch)
        PROVE  UNCHANGED <<raw, fact, "fct" \in ok>>
    BY <2>1 DEF BeginLoad, marts, build
  <2>2. ASSUME NEW l \in loads, AbortLoad(l)
        PROVE  UNCHANGED <<raw, fact, "fct" \in ok>>
    BY <2>2 DEF AbortLoad, marts, build
  <2> QED
    BY <1>3, <2>1, <2>2, RefinesLoad DEF Load, FullRefreshed!Next, IInv
<1>4. CASE Dbt
  <2>1. CASE StartBuild
    BY <2>1 DEF StartBuild, marts, FullRefreshed!Next, FullRefreshed!Begin
  <2>2. CASE EndBuild
    BY <2>2 DEF EndBuild, marts
  <2>3. ASSUME NEW n \in Nodes, RunTest(n)
        PROVE  UNCHANGED <<raw, fact, "fct" \in ok>>
    BY <2>3 DEF RunTest, marts, Tests
  <2> QED
    BY <1>4, <2>1, <2>2, <2>3, RefinesRunModel DEF Dbt, FullRefreshed!Next
<1>5. ASSUME NEW n \in Nodes, NodeFails(n)
      PROVE  UNCHANGED <<raw, fact, "fct" \in ok>>
  BY <1>5 DEF NodeFails, marts
<1>6. CASE KillBuild
  BY <1>6 DEF KillBuild, marts, FullRefreshed!Next, FullRefreshed!Begin
<1> QED
  BY <1>1, <1>2, <1>3, <1>4, <1>5, <1>6 DEF Next

\* The incremental fact implements the full refresh, for every number of events and
\* whatever loads, failures and kills come between its builds.
THEOREM Implementation == Spec => ImplementsFullRefresh
<1>1. Init => FullRefreshed!Init
  BY DEF Init, NoRows, FullRefreshed!Init
<1>2. IInv /\ [Next]_vars => [FullRefreshed!Next]_<<raw, fact, "fct" \in ok>>
  BY RefinesNext
<1> QED
  BY <1>1, <1>2, Invariance, PTL DEF Spec, SafeSpec, ImplementsFullRefresh, FullRefreshed!Spec
=============================================================================
