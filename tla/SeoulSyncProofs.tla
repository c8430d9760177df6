--------------------------- MODULE SeoulSyncProofs ---------------------------
(***************************************************************************)
(* Proofs about SeoulSync for any areas, answers, threads and bounds: what *)
(* is derived has its response preserved, no row of a response is dropped, *)
(* a report counts and names what is stored, a key fixes the events of its *)
(* object, and collecting again adds none when the area code is the same.  *)
(*                                                                         *)
(* The argument: a key holds the digest of the payload and the snapshot,   *)
(* and so it determines what any thread ever stores under it; and a thread *)
(* passes a place only when the object before it is stored.                *)
(***************************************************************************)
EXTENDS SeoulSync, FiniteSetTheorems, TLAPS

\* The key of a payload that is retrieved at an instant, and the events under a key.
KeyOf(v, i) == [area_code |-> Code[v], snapshot_at |-> SnapshotTime(i), digest |-> v]

EventsOf(k) ==
  {[area_code |-> k.area_code, link |-> l, snapshot_at |-> k.snapshot_at] : l \in Accepted[k.digest]}

Has(objects, k) == \E o \in objects : o.key = k

\* Objects hold what their keys determine.
StoreInv ==
  /\ \A r \in landing : r.key.digest = r.payload
  /\ \A o \in bronze : o.key = KeyOf(o.payload, o.ingested_at) /\ o.event_ids = EventsOf(o.key)
  /\ \A q \in quarantine : q.links = Rejected[q.key.digest]

\* A thread stores objects that have rows.
Due ==
  \A t \in Threads : /\ pc[t] = "bronze" => Accepted[payload[t]] # {}
                     /\ pc[t] = "quarantine" => Rejected[payload[t]] # {}

\* A thread has stored what comes before the place where it is.
ThreadInv ==
  \A t \in Threads :
    /\ pc[t] \in {"bronze", "quarantine", "area"} => RawObject(t) \in landing
    /\ pc[t] \in {"quarantine", "area"} /\ Accepted[payload[t]] # {} => Has(bronze, Key(t))
    /\ pc[t] = "area" /\ Rejected[payload[t]] # {} => Has(quarantine, Key(t))

IInv == TypeOK /\ Due /\ StoreInv /\ ThreadInv /\ Lineage /\ NothingDropped /\ ReportsHold
-----------------------------------------------------------------------------
(* Names.                                                                  *)

LEMMA SnapshotInRange ==
  ASSUME NEW i \in 0 .. MaxInstant
  PROVE  SnapshotTime(i) \in 0 .. MaxInstant
<1>1. i \in Nat /\ SnapshotLength \in Nat \ {0} /\ MaxInstant \in Nat
  BY ConstantsAssumption
<1>2. i % SnapshotLength \in Nat /\ i % SnapshotLength <= i
  BY <1>1
<1> QED
  BY <1>1, <1>2 DEF SnapshotTime

\* Instants within one snapshot have the same time.
LEMMA SameSnapshot ==
  ASSUME NEW i \in 0 .. MaxInstant, NEW j \in 0 .. MaxInstant,
         i \div SnapshotLength = j \div SnapshotLength
  PROVE  SnapshotTime(i) = SnapshotTime(j)
<1>1. i \in Nat /\ j \in Nat /\ SnapshotLength \in Nat \ {0}
  BY ConstantsAssumption
<1>2. /\ i = SnapshotLength * (i \div SnapshotLength) + (i % SnapshotLength)
      /\ j = SnapshotLength * (j \div SnapshotLength) + (j % SnapshotLength)
  BY <1>1
<1> QED
  BY <1>1, <1>2 DEF SnapshotTime

LEMMA KeyTyped ==
  ASSUME TypeOK, NEW t \in Threads, payload[t] # None
  PROVE  /\ payload[t] \in Payloads /\ Key(t) = KeyOf(payload[t], retrieved_at[t])
         /\ Key(t) \in Keys /\ EventIds(t) = EventsOf(Key(t)) /\ EventIds(t) \subseteq Events
         /\ Accepted[payload[t]] \in SUBSET Links /\ Rejected[payload[t]] \in SUBSET Links
<1>1. payload[t] \in Payloads /\ retrieved_at[t] \in 0 .. MaxInstant
  BY DEF TypeOK
<1>2. Code[payload[t]] \in Codes /\ SnapshotTime(retrieved_at[t]) \in 0 .. MaxInstant
  BY <1>1, SnapshotInRange DEF Codes
<1>3. Accepted[payload[t]] \in SUBSET Links /\ Rejected[payload[t]] \in SUBSET Links
  BY <1>1, ConstantsAssumption
<1>4. Key(t) = KeyOf(payload[t], retrieved_at[t]) /\ Key(t) \in Keys
  BY <1>1, <1>2 DEF Key, KeyOf, Keys
<1>5. EventIds(t) = EventsOf(Key(t)) /\ EventIds(t) \subseteq Events
  BY <1>2, <1>3 DEF EventIds, EventsOf, Key, Events
<1> QED
  BY <1>1, <1>3, <1>4, <1>5

\* The links of a payload can be counted.
LEMMA LinksCounted ==
  ASSUME NEW S \in SUBSET Links
  PROVE  Cardinality(S) \in Nat /\ (Cardinality(S) > 0 <=> S # {})
<1>1. IsFiniteSet(S)
  BY ConstantsAssumption, FS_Subset
<1> QED
  BY <1>1, FS_CardinalityType, FS_EmptySet

\* An object that is stored is there, and no key is lost.
LEMMA PutAdds ==
  ASSUME NEW objects, NEW o
  PROVE  /\ Has(Put(objects, o), o.key)
         /\ \A k : Has(objects, k) => Has(Put(objects, o), k)
         /\ \A p \in Put(objects, o) : p \in objects \/ p = o
BY DEF Put, Has
-----------------------------------------------------------------------------
(* Type correctness.                                                       *)

LEMMA InitType == Init => TypeOK
BY ConstantsAssumption DEF Init, TypeOK, NoReport, Place

\* The types of the store, of the threads and of the counters.
Reports == [raw_objects : SUBSET Keys, bronze_objects : SUBSET Keys,
            input_rows : Nat, accepted_rows : Nat, rejected_rows : Nat]

StoreType ==
  /\ landing \subseteq [key : Keys, payload : Payloads]
  /\ bronze \subseteq [key : Keys, payload : Payloads, event_ids : (SUBSET Events) \ {{}},
                       ingested_at : 0 .. MaxInstant]
  /\ quarantine \subseteq [key : Keys, links : (SUBSET Links) \ {{}}]
  /\ abandoned \subseteq Keys

LocalType ==
  /\ pc \in [Threads -> Place]
  /\ todo \in [Threads -> Seq(Areas)]
  /\ retrieved_at \in [Threads -> 0 .. MaxInstant]
  /\ attempt \in [Threads -> 0 .. 2]
  /\ payload \in [Threads -> Payloads \cup {None}]
  /\ report \in [Threads -> Reports]
  /\ \A t \in Threads : /\ pc[t] # "idle" => todo[t] # <<>>
                        /\ pc[t] \in {"raw", "bronze", "quarantine", "area"} <=> payload[t] # None

CountType == clock \in 0 .. MaxInstant /\ syncs \in 0 .. MaxSyncs /\ faults \in 0 .. MaxFaults

LEMMA TypeParts == TypeOK <=> StoreType /\ LocalType /\ CountType
BY DEF TypeOK, StoreType, LocalType, CountType, Reports

LEMMA RaisedType == ASSUME LocalType, NEW t \in Threads, Raised(t) PROVE LocalType'
BY ConstantsAssumption DEF LocalType, Raised, NoReport, Place, Reports

\* Where a sync breaks off is a key.
LEMMA BrokenOffType ==
  ASSUME TypeOK, NEW T \in SUBSET Threads
  PROVE  BrokenOff(T) \subseteq Keys
BY KeyTyped DEF BrokenOff, TypeOK

\* A thread goes to another place with what it has.
LEMMA PlaceType ==
  ASSUME LocalType, NEW t \in Threads, NEW p \in {"raw", "bronze", "quarantine", "area"},
         payload[t] # None, pc' = [pc EXCEPT ![t] = p], UNCHANGED locals
  PROVE  LocalType'
BY DEF LocalType, locals, Place

\* A report that an area is added to.
LEMMA ReportedType ==
  ASSUME TypeOK, NEW t \in Threads, payload[t] # None
  PROVE  Reported(t) \in Reports
<1>1. report[t] \in Reports
  BY DEF TypeOK, Reports
<1>2. Cardinality(Accepted[payload[t]]) \in Nat /\ Cardinality(Rejected[payload[t]]) \in Nat
  BY KeyTyped, LinksCounted
<1> QED
  BY <1>1, <1>2, KeyTyped DEF Reported, Reports

\* What a step does to the place and the payload of a thread.
LEMMA Steps ==
  ASSUME TypeOK, [Next]_vars, NEW t \in Threads
  PROVE  \/ pc'[t] = pc[t] /\ payload'[t] = payload[t] /\ retrieved_at'[t] = retrieved_at[t]
         \/ pc'[t] \in {"idle", "fetch", "raw"}
         \/ /\ payload'[t] = payload[t] /\ retrieved_at'[t] = retrieved_at[t]
            /\ UploadRaw(t) \/ UploadBronze(t) \/ UploadQuarantine(t)
<1> USE DEF TypeOK
<1>1. ASSUME NEW u \in Threads, \/ \E l \in AreaLists : Start(u, l)
                                \/ \E v \in Versions : Fetch(u, v)
                                \/ FetchFails(u) \/ FinishArea(u) \/ UploadRaises(u)
      PROVE  \/ pc'[t] = pc[t] /\ payload'[t] = payload[t] /\ retrieved_at'[t] = retrieved_at[t]
             \/ pc'[t] \in {"idle", "fetch", "raw"}
  BY <1>1 DEF Start, Fetch, FetchFails, FinishArea, UploadRaises, Raised
<1>2. ASSUME NEW u \in Threads, UploadRaw(u) \/ UploadBronze(u) \/ UploadQuarantine(u), u # t
      PROVE  pc'[t] = pc[t] /\ payload'[t] = payload[t] /\ retrieved_at'[t] = retrieved_at[t]
  BY <1>2 DEF UploadRaw, UploadBronze, UploadQuarantine, locals
<1>3. ASSUME UploadRaw(t) \/ UploadBronze(t) \/ UploadQuarantine(t)
      PROVE  payload'[t] = payload[t] /\ retrieved_at'[t] = retrieved_at[t]
  BY <1>3 DEF UploadRaw, UploadBronze, UploadQuarantine, locals
<1>4. CASE Kill
  BY <1>4 DEF Kill
<1>5. CASE Tick \/ UNCHANGED vars
  BY <1>5 DEF Tick, vars, locals
<1> QED
  BY <1>1, <1>2, <1>3, <1>4, <1>5 DEF Next, Sync

LEMMA DueStep == TypeOK /\ Due /\ [Next]_vars => Due'
<1> SUFFICES ASSUME TypeOK, Due, [Next]_vars, NEW t \in Threads
             PROVE  /\ pc'[t] = "bronze" => Accepted[payload'[t]] # {}
                    /\ pc'[t] = "quarantine" => Rejected[payload'[t]] # {}
  BY DEF Due
<1> QED
  BY Steps DEF Due, UploadRaw, UploadBronze, UploadQuarantine, AfterBronze, TypeOK

\* The list of areas without the first one.
LEMMA TailOf ==
  ASSUME NEW S, NEW s \in Seq(S), s # <<>>
  PROVE  Tail(s) \in Seq(S) /\ (Len(s) # 1 => Tail(s) # <<>>)
<1>1. Len(s) \in Nat \ {0}
  OBVIOUS
<1>2. Tail(s) \in Seq(S) /\ Len(Tail(s)) = Len(s) - 1
  BY <1>1
<1>3. Len(<<>>) = 0
  OBVIOUS
<1>4. Len(s) # 1 => Len(Tail(s)) # Len(<<>>)
  BY <1>1, <1>2, <1>3
<1> QED
  BY <1>2, <1>4

LEMMA TypeStep == TypeOK /\ Due /\ [Next]_vars => TypeOK'
<1> SUFFICES ASSUME TypeOK, Due, [Next]_vars PROVE StoreType' /\ LocalType' /\ CountType'
  BY DEF TypeOK, StoreType, LocalType, CountType, Reports
<1> USE ConstantsAssumption
<1>0. StoreType /\ LocalType /\ CountType
  BY TypeParts
<1>1. CASE Tick
  BY <1>0, <1>1 DEF Tick, StoreType, LocalType, CountType, store, locals
<1>2. ASSUME NEW t \in Threads, NEW l \in AreaLists, Start(t, l)
      PROVE  StoreType' /\ LocalType' /\ CountType'
  <2>1. l \in Seq(Areas) /\ l # <<>> /\ NoReport \in Reports
    BY DEF NoReport, Reports
  <2>2. StoreType' /\ CountType'
    BY <1>0, <1>2 DEF Start, StoreType, CountType, store
  <2>3. LocalType'
    BY <1>0, <1>2, <2>1 DEF Start, LocalType, CountType, Place
  <2> QED
    BY <2>2, <2>3
<1>3. ASSUME NEW t \in Threads, NEW v \in Versions, Fetch(t, v)
      PROVE  StoreType' /\ LocalType' /\ CountType'
  <2>1. Head(todo[t]) \in Areas
    BY <1>0, <1>3 DEF Fetch, LocalType
  <2>2. [area |-> Head(todo[t]), version |-> v] \in Payloads
    BY <2>1 DEF Payloads
  <2>3. StoreType' /\ CountType'
    BY <1>0, <1>3 DEF Fetch, StoreType, CountType, store
  <2>4. LocalType'
    BY <1>0, <1>3, <2>2 DEF Fetch, LocalType, Place
  <2> QED
    BY <2>3, <2>4
<1>4. ASSUME NEW t \in Threads, FetchFails(t) PROVE StoreType' /\ LocalType' /\ CountType'
  <2>1. StoreType' /\ CountType'
    BY <1>0, <1>4 DEF FetchFails, StoreType, CountType, store
  <2>2. CASE attempt[t] < 2
    <3>1. attempt[t] + 1 \in 0 .. 2
      <4>1. attempt[t] \in 0 .. 2
        BY <1>0 DEF LocalType
      <4> QED
        BY <2>2, <4>1
    <3> QED
      BY <1>0, <1>4, <2>1, <2>2, <3>1 DEF FetchFails, LocalType
  <2>3. CASE ~(attempt[t] < 2)
    BY <1>0, <1>4, <2>1, <2>3, RaisedType DEF FetchFails
  <2> QED
    BY <2>2, <2>3
<1>5. ASSUME NEW t \in Threads, UploadRaw(t) PROVE StoreType' /\ LocalType' /\ CountType'
  <2>1. payload[t] # None
    BY <1>0, <1>5 DEF UploadRaw, LocalType
  <2>2. RawObject(t) \in [key : Keys, payload : Payloads]
    BY <2>1, KeyTyped DEF RawObject
  <2>3. LocalType'
    BY <1>0, <1>5, <2>1, PlaceType DEF UploadRaw
  <2> QED
    BY <1>0, <1>5, <2>2, <2>3 DEF UploadRaw, Put, StoreType, CountType
<1>6. ASSUME NEW t \in Threads, UploadBronze(t) PROVE StoreType' /\ LocalType' /\ CountType'
  <2>1. payload[t] # None
    BY <1>0, <1>6 DEF UploadBronze, LocalType
  <2>2. BronzeObject(t) \in [key : Keys, payload : Payloads, event_ids : (SUBSET Events) \ {{}},
                       ingested_at : 0 .. MaxInstant]
    <3>1. EventIds(t) # {} /\ EventIds(t) \subseteq Events
      <4>1. PICK l : l \in Accepted[payload[t]]
        BY <1>6 DEF UploadBronze, Due
      <4>2. EventIds(t) # {}
        BY <4>1 DEF EventIds
      <4> QED
        BY <2>1, <4>2, KeyTyped
    <3>2. retrieved_at[t] \in 0 .. MaxInstant
      BY <1>0 DEF LocalType
    <3> QED
      BY <2>1, <3>1, <3>2, KeyTyped DEF BronzeObject
  <2>3. LocalType'
    BY <1>0, <1>6, <2>1, PlaceType DEF UploadBronze, AfterBronze
  <2> QED
    BY <1>0, <1>6, <2>2, <2>3 DEF UploadBronze, Put, StoreType, CountType
<1>7. ASSUME NEW t \in Threads, UploadQuarantine(t) PROVE StoreType' /\ LocalType' /\ CountType'
  <2>1. payload[t] # None
    BY <1>0, <1>7 DEF UploadQuarantine, LocalType
  <2>2. QuarantineObject(t) \in [key : Keys, links : (SUBSET Links) \ {{}}]
    BY <1>7, <2>1, KeyTyped DEF UploadQuarantine, Due, QuarantineObject
  <2>3. LocalType'
    BY <1>0, <1>7, <2>1, PlaceType DEF UploadQuarantine
  <2> QED
    BY <1>0, <1>7, <2>2, <2>3 DEF UploadQuarantine, Put, StoreType, CountType
<1>8. ASSUME NEW t \in Threads, FinishArea(t) PROVE StoreType' /\ LocalType' /\ CountType'
  <2>1. payload[t] # None
    BY <1>0, <1>8 DEF FinishArea, LocalType
  <2>2. Reported(t) \in Reports
    BY <1>0, <2>1, ReportedType
  <2>3. Tail(todo[t]) \in Seq(Areas) /\ (Len(todo[t]) # 1 => Tail(todo[t]) # <<>>)
    <3>1. todo[t] \in Seq(Areas) /\ todo[t] # <<>>
      BY <1>0, <1>8 DEF FinishArea, LocalType
    <3> QED
      BY <3>1, TailOf
  <2>4. StoreType' /\ CountType'
    BY <1>0, <1>8 DEF FinishArea, StoreType, CountType, store
  <2>5. /\ todo' \in [Threads -> Seq(Areas)] /\ report' \in [Threads -> Reports]
        /\ payload' \in [Threads -> Payloads \cup {None}] /\ attempt' \in [Threads -> 0 .. 2]
    BY <1>0, <1>8, <2>2, <2>3 DEF FinishArea, LocalType
  <2>6. pc' \in [Threads -> Place] /\ retrieved_at' \in [Threads -> 0 .. MaxInstant]
    <3>1. CASE Len(todo[t]) = 1
      <4>1. 0 \in 0 .. MaxInstant
        OBVIOUS
      <4>2. pc' = [pc EXCEPT ![t] = "idle"] /\ retrieved_at' = [retrieved_at EXCEPT ![t] = 0]
        BY <1>8, <3>1 DEF FinishArea
      <4> QED
        BY <1>0, <4>1, <4>2 DEF LocalType, Place
    <3>2. CASE Len(todo[t]) # 1
      BY <1>0, <1>8, <3>2 DEF FinishArea, LocalType, Place
    <3> QED
      BY <3>1, <3>2
  <2>7. ASSUME NEW u \in Threads
        PROVE  /\ pc'[u] # "idle" => todo'[u] # <<>>
               /\ pc'[u] \in {"raw", "bronze", "quarantine", "area"} <=> payload'[u] # None
    <3>1. CASE u = t
      BY <1>0, <1>8, <2>3, <3>1 DEF FinishArea, LocalType
    <3>2. CASE u # t
      <4>1. pc'[u] = pc[u] /\ todo'[u] = todo[u] /\ payload'[u] = payload[u]
        BY <1>0, <1>8, <3>2 DEF FinishArea, LocalType
      <4> QED
        BY <1>0, <4>1 DEF LocalType
    <3> QED
      BY <3>1, <3>2
  <2>8. LocalType'
    BY <2>5, <2>6, <2>7 DEF LocalType
  <2> QED
    BY <2>4, <2>8
<1>9. ASSUME NEW t \in Threads, UploadRaises(t) PROVE StoreType' /\ LocalType' /\ CountType'
  <2>1. BrokenOff({t}) \subseteq Keys
    BY BrokenOffType
  <2>2. LocalType'
    BY <1>0, <1>9, RaisedType DEF UploadRaises
  <2>3. StoreType'
    BY <1>0, <1>9, <2>1 DEF UploadRaises, StoreType, store
  <2>4. CountType'
    BY <1>0, <1>9 DEF UploadRaises, CountType
  <2> QED
    BY <2>2, <2>3, <2>4
<1>10. CASE Kill
  <2>1. BrokenOff(Threads) \subseteq Keys
    BY BrokenOffType
  <2>2. LocalType'
    BY <1>10 DEF Kill, LocalType, NoReport, Place, Reports
  <2> QED
    BY <1>0, <1>10, <2>1, <2>2 DEF Kill, StoreType, CountType, store
<1>11. CASE UNCHANGED vars
  BY <1>0, <1>11 DEF vars, StoreType, LocalType, CountType
<1> QED
  BY <1>1, <1>2, <1>3, <1>4, <1>5, <1>6, <1>7, <1>8, <1>9, <1>10, <1>11 DEF Next, Sync
-----------------------------------------------------------------------------
(* What is stored.                                                         *)

\* Nothing is deleted, and keys keep what they determine.
LEMMA StoreGrows ==
  ASSUME TypeOK, StoreInv, [Next]_vars
  PROVE  /\ landing \subseteq landing'
         /\ \A k : Has(bronze, k) => Has(bronze', k)
         /\ \A k : Has(quarantine, k) => Has(quarantine', k)
<1>1. CASE UNCHANGED store
  BY <1>1 DEF store
<1>2. ASSUME NEW t \in Threads, UploadRaw(t)
      PROVE  landing \subseteq landing' /\ bronze' = bronze /\ quarantine' = quarantine
  <2>1. ASSUME NEW r \in landing, r.key = Key(t) PROVE r = RawObject(t)
    <3>1. r.payload = payload[t] /\ r \in [key : Keys, payload : Payloads]
      BY <2>1 DEF StoreInv, Key, TypeOK
    <3> QED
      BY <2>1, <3>1 DEF RawObject
  <2>2. landing' = Put(landing, RawObject(t)) /\ RawObject(t).key = Key(t)
    BY <1>2 DEF UploadRaw, RawObject
  <2> QED
    BY <1>2, <2>1, <2>2 DEF UploadRaw, Put
<1>3. ASSUME NEW t \in Threads, UploadBronze(t)
      PROVE  landing' = landing /\ (\A k : Has(bronze, k) => Has(bronze', k)) /\ quarantine' = quarantine
  BY <1>3, PutAdds DEF UploadBronze
<1>4. ASSUME NEW t \in Threads, UploadQuarantine(t)
      PROVE  landing' = landing /\ bronze' = bronze /\ \A k : Has(quarantine, k) => Has(quarantine', k)
  BY <1>4, PutAdds DEF UploadQuarantine
<1> QED
  BY <1>1, <1>2, <1>3, <1>4
     DEF Next, Sync, Tick, Start, Fetch, FetchFails, FinishArea, UploadRaises, Kill, vars, store

\* The objects of a step that stores.
LEMMA Stored ==
  ASSUME TypeOK, [Next]_vars
  PROVE  /\ \A r \in landing' : r \in landing \/ \E t \in Threads : UploadRaw(t) /\ r = RawObject(t)
         /\ \A o \in bronze' : o \in bronze \/ \E t \in Threads : UploadBronze(t) /\ o = BronzeObject(t)
         /\ \A q \in quarantine' :
              q \in quarantine \/ \E t \in Threads : UploadQuarantine(t) /\ q = QuarantineObject(t)
BY PutAdds DEF Next, Sync, UploadRaw, UploadBronze, UploadQuarantine, Tick, Start, Fetch, FetchFails,
   FinishArea, UploadRaises, Kill, vars, store

\* The objects of a thread hold what their key determines.
LEMMA ObjectsOf ==
  ASSUME TypeOK, NEW t \in Threads, payload[t] # None
  PROVE  /\ RawObject(t).key = Key(t) /\ RawObject(t).payload = payload[t]
         /\ Key(t).digest = payload[t]
         /\ BronzeObject(t).key = Key(t) /\ BronzeObject(t).payload = payload[t]
         /\ Key(t) = KeyOf(BronzeObject(t).payload, BronzeObject(t).ingested_at)
         /\ BronzeObject(t).event_ids = EventsOf(Key(t))
         /\ QuarantineObject(t).key = Key(t) /\ QuarantineObject(t).links = Rejected[payload[t]]
BY KeyTyped DEF RawObject, BronzeObject, QuarantineObject, Key

LEMMA StoreInvStep == TypeOK /\ StoreInv /\ [Next]_vars => StoreInv'
<1> SUFFICES ASSUME TypeOK, StoreInv, [Next]_vars PROVE StoreInv'
  OBVIOUS
<1>1. \A t \in Threads : UploadRaw(t) \/ UploadBronze(t) \/ UploadQuarantine(t) => payload[t] # None
  BY DEF TypeOK, UploadRaw, UploadBronze, UploadQuarantine
<1>2. \A r \in landing' : r.key.digest = r.payload
  BY <1>1, Stored, ObjectsOf DEF StoreInv
<1>3. \A o \in bronze' : o.key = KeyOf(o.payload, o.ingested_at) /\ o.event_ids = EventsOf(o.key)
  BY <1>1, Stored, ObjectsOf DEF StoreInv
<1>4. \A q \in quarantine' : q.links = Rejected[q.key.digest]
  BY <1>1, Stored, ObjectsOf DEF StoreInv
<1> QED
  BY <1>2, <1>3, <1>4 DEF StoreInv

LEMMA ThreadInvStep == TypeOK /\ StoreInv /\ ThreadInv /\ [Next]_vars => ThreadInv'
<1> SUFFICES ASSUME TypeOK, StoreInv, ThreadInv, [Next]_vars, NEW t \in Threads
    PROVE  /\ pc'[t] \in {"bronze", "quarantine", "area"} => RawObject(t)' \in landing'
           /\ pc'[t] \in {"quarantine", "area"} /\ Accepted[payload'[t]] # {} => Has(bronze', Key(t)')
           /\ pc'[t] = "area" /\ Rejected[payload'[t]] # {} => Has(quarantine', Key(t)')
  BY DEF ThreadInv, Has
<1>1. ASSUME payload'[t] = payload[t], retrieved_at'[t] = retrieved_at[t]
      PROVE  Key(t)' = Key(t) /\ RawObject(t)' = RawObject(t)
  BY <1>1 DEF Key, RawObject
<1>2. CASE pc'[t] = pc[t] /\ payload'[t] = payload[t] /\ retrieved_at'[t] = retrieved_at[t]
  BY <1>1, <1>2, StoreGrows DEF ThreadInv
<1>3. CASE pc'[t] \in {"idle", "fetch", "raw"}
  BY <1>3
<1>4. CASE /\ payload'[t] = payload[t] /\ retrieved_at'[t] = retrieved_at[t]
           /\ UploadRaw(t) \/ UploadBronze(t) \/ UploadQuarantine(t)
  <2>1. payload[t] # None
    BY <1>4 DEF TypeOK, UploadRaw, UploadBronze, UploadQuarantine
  <2>2. CASE UploadRaw(t)
    <3>1. RawObject(t) \in landing'
      BY <2>2 DEF UploadRaw, Put
    <3> QED
      BY <1>1, <1>4, <2>2, <3>1 DEF UploadRaw, TypeOK
  <2>3. CASE UploadBronze(t)
    <3>1. Has(bronze', Key(t)) /\ RawObject(t) \in landing'
      BY <2>1, <2>3, PutAdds, ObjectsOf, StoreGrows DEF UploadBronze, ThreadInv
    <3> QED
      BY <1>1, <1>4, <2>3, <3>1 DEF UploadBronze, AfterBronze, TypeOK
  <2>4. CASE UploadQuarantine(t)
    <3>1. Has(quarantine', Key(t)) /\ RawObject(t) \in landing'
      BY <2>1, <2>4, PutAdds, ObjectsOf, StoreGrows DEF UploadQuarantine, ThreadInv
    <3>2. Accepted[payload[t]] # {} => Has(bronze', Key(t))
      BY <2>4, StoreGrows DEF UploadQuarantine, ThreadInv
    <3> QED
      BY <1>1, <1>4, <2>4, <3>1, <3>2 DEF UploadQuarantine, TypeOK
  <2> QED
    BY <1>4, <2>2, <2>3, <2>4
<1> QED
  BY <1>2, <1>3, <1>4, Steps

LEMMA LineageStep == TypeOK /\ StoreInv /\ ThreadInv /\ Lineage /\ [Next]_vars => Lineage'
<1> SUFFICES ASSUME TypeOK, StoreInv, ThreadInv, Lineage, [Next]_vars, NEW o \in bronze'
             PROVE  \E r \in landing' : r.payload = o.payload /\ r.key = o.key
  BY DEF Lineage
<1>1. CASE o \in bronze
  BY <1>1, StoreGrows DEF Lineage
<1>2. ASSUME NEW t \in Threads, UploadBronze(t), o = BronzeObject(t)
      PROVE  RawObject(t) \in landing' /\ RawObject(t).payload = o.payload /\ RawObject(t).key = o.key
  <2>1. payload[t] # None /\ RawObject(t) \in landing
    BY <1>2 DEF UploadBronze, ThreadInv, TypeOK
  <2> QED
    BY <1>2, <2>1, ObjectsOf, StoreGrows
<1> QED
  BY <1>1, <1>2, Stored

\* A thread that leaves a response before its rows are stored leaves its key behind.
LEMMA LeavesKey ==
  ASSUME TypeOK, [Next]_vars
  PROVE  /\ abandoned \subseteq abandoned'
         /\ \A t \in Threads :
              pc[t] \in {"bronze", "quarantine"} /\ pc'[t] \in {"idle", "fetch", "raw"}
                => Key(t) \in abandoned'
<1>1. CASE Kill
  BY <1>1 DEF Kill, BrokenOff
<1>2. ASSUME NEW u \in Threads, UploadRaises(u)
      PROVE  /\ abandoned \subseteq abandoned'
             /\ \A t \in Threads :
                  pc[t] \in {"bronze", "quarantine"} /\ pc'[t] \in {"idle", "fetch", "raw"}
                    => Key(t) \in abandoned'
  BY <1>2 DEF UploadRaises, Raised, BrokenOff, TypeOK
<1>3. ASSUME NEW u \in Threads, \/ \E l \in AreaLists : Start(u, l)
                                \/ \E v \in Versions : Fetch(u, v)
                                \/ FetchFails(u) \/ FinishArea(u)
                                \/ UploadRaw(u) \/ UploadBronze(u) \/ UploadQuarantine(u)
      PROVE  /\ abandoned' = abandoned
             /\ \A t \in Threads :
                  pc[t] \in {"bronze", "quarantine"} => pc'[t] \notin {"idle", "fetch", "raw"}
  BY <1>3 DEF Start, Fetch, FetchFails, Raised, FinishArea, UploadRaw, UploadBronze, AfterBronze,
     UploadQuarantine, TypeOK
<1>4. CASE Tick \/ UNCHANGED vars
  BY <1>4 DEF Tick, vars
<1> QED
  BY <1>1, <1>2, <1>3, <1>4 DEF Next, Sync

\* All rows of a response are stored.
Kept(r) ==
  /\ Accepted[r.payload] # {} => Has(bronze, r.key)
  /\ Rejected[r.payload] # {} => \E q \in quarantine : q.key = r.key /\ q.links = Rejected[r.payload]

\* A key that has its rows rejected has them in quarantine.
LEMMA Quarantined ==
  ASSUME StoreInv, NEW r, r.key.digest = r.payload, Has(quarantine, r.key)
  PROVE  \E q \in quarantine : q.key = r.key /\ q.links = Rejected[r.payload]
BY DEF StoreInv, Has

LEMMA KeptStays ==
  ASSUME TypeOK, StoreInv, [Next]_vars, NEW r \in landing, Kept(r)
  PROVE  Kept(r)'
<1>1. StoreInv'
  BY StoreInvStep
<1>2. \A q \in quarantine' : q.key = r.key => q.links = Rejected[r.payload]
  BY <1>1 DEF StoreInv
<1>3. Rejected[r.payload] # {} => Has(quarantine', r.key)
  BY StoreGrows DEF Kept, Has
<1> QED
  BY <1>2, <1>3, StoreGrows DEF Kept, Has

LEMMA NothingDroppedStep ==
  TypeOK /\ StoreInv /\ ThreadInv /\ NothingDropped /\ [Next]_vars => NothingDropped'
<1> SUFFICES ASSUME TypeOK, StoreInv, ThreadInv, NothingDropped, [Next]_vars, NEW r \in landing'
             PROVE  \/ \E t \in Threads : pc'[t] \in {"bronze", "quarantine"} /\ Key(t)' = r.key
                    \/ r.key \in abandoned'
                    \/ Kept(r)'
  BY DEF NothingDropped, Kept, Has
<1>1. ASSUME NEW t \in Threads, payload'[t] = payload[t], retrieved_at'[t] = retrieved_at[t]
      PROVE  Key(t)' = Key(t)
  BY <1>1 DEF Key
<1>2. \A q \in quarantine' : q.key = r.key => q.links = Rejected[r.payload]
  BY StoreInvStep DEF StoreInv
<1>3. ASSUME NEW t \in Threads, UploadRaw(t), r = RawObject(t)
      PROVE  (pc'[t] \in {"bronze", "quarantine"} /\ Key(t)' = r.key) \/ Kept(r)'
  <2>1. payload[t] # None /\ payload'[t] = payload[t] /\ retrieved_at'[t] = retrieved_at[t]
    BY <1>3 DEF UploadRaw, TypeOK, locals
  <2>2. r.payload = payload[t] /\ Key(t)' = r.key
    BY <1>1, <1>3, <2>1, ObjectsOf
  <2> QED
    BY <1>3, <2>2 DEF UploadRaw, TypeOK, Kept
<1>4. ASSUME r \in landing, NEW t \in Threads, pc[t] \in {"bronze", "quarantine"}, Key(t) = r.key
      PROVE  \/ pc'[t] \in {"bronze", "quarantine"} /\ Key(t)' = r.key
             \/ r.key \in abandoned'
             \/ Kept(r)'
  <2>1. payload[t] # None /\ r.payload = payload[t]
    <3>1. payload[t] # None
      BY <1>4 DEF TypeOK
    <3> QED
      BY <1>4, <3>1 DEF StoreInv, Key
  <2>2. CASE pc'[t] \in {"idle", "fetch", "raw"}
    BY <1>4, <2>2, LeavesKey
  <2>3. CASE pc'[t] = pc[t] /\ payload'[t] = payload[t] /\ retrieved_at'[t] = retrieved_at[t]
    BY <1>1, <1>4, <2>3
  <2>4. CASE payload'[t] = payload[t] /\ retrieved_at'[t] = retrieved_at[t] /\ UploadBronze(t)
    <3>1. Has(bronze', r.key)
      BY <1>4, <2>1, <2>4, PutAdds, ObjectsOf DEF UploadBronze
    <3> QED
      BY <1>1, <1>4, <2>1, <2>4, <3>1 DEF UploadBronze, AfterBronze, TypeOK, Kept
  <2>5. CASE payload'[t] = payload[t] /\ retrieved_at'[t] = retrieved_at[t] /\ UploadQuarantine(t)
    <3>1. Has(quarantine', r.key)
      BY <1>4, <2>1, <2>5, PutAdds, ObjectsOf DEF UploadQuarantine
    <3>2. Accepted[r.payload] # {} => Has(bronze', r.key)
      BY <1>4, <2>1, <2>5, StoreGrows DEF UploadQuarantine, ThreadInv
    <3> QED
      BY <1>2, <3>1, <3>2 DEF Kept, Has
  <2> QED
    BY <1>4, <2>2, <2>3, <2>4, <2>5, Steps DEF UploadRaw
<1>5. CASE r \in landing /\ Kept(r)
  BY <1>5, KeptStays
<1>6. CASE r.key \in abandoned
  BY <1>6, LeavesKey
<1>7. CASE r \in landing
  <2>1. \/ \E t \in Threads : pc[t] \in {"bronze", "quarantine"} /\ Key(t) = r.key
        \/ r.key \in abandoned
        \/ Kept(r)
    BY <1>7 DEF NothingDropped, Kept, Has
  <2> QED
    BY <1>4, <1>5, <1>6, <1>7, <2>1
<1> QED
  BY <1>3, <1>7, Stored

\* The report of a thread grows by an area, or is given up.
LEMMA ReportMoves ==
  ASSUME TypeOK, [Next]_vars, NEW t \in Threads
  PROVE  report'[t] \in {report[t], NoReport} \/ (pc[t] = "area" /\ report'[t] = Reported(t))
<1>1. ASSUME NEW u \in Threads, Sync(u), u # t PROVE report'[t] = report[t]
  BY <1>1 DEF Sync, Start, Fetch, FetchFails, Raised, UploadRaw, UploadBronze, UploadQuarantine,
     FinishArea, UploadRaises, locals, TypeOK
<1>2. CASE FinishArea(t)
  BY <1>2 DEF FinishArea, TypeOK
<1>3. ASSUME Sync(t), ~FinishArea(t) PROVE report'[t] \in {report[t], NoReport}
  BY <1>3 DEF Sync, Start, Fetch, FetchFails, Raised, UploadRaw, UploadBronze, UploadQuarantine,
     UploadRaises, locals, TypeOK
<1>4. CASE Kill \/ Tick \/ UNCHANGED vars
  BY <1>4 DEF Kill, Tick, vars, locals
<1> QED
  BY <1>1, <1>2, <1>3, <1>4 DEF Next

LEMMA ReportsStep == TypeOK /\ StoreInv /\ ThreadInv /\ ReportsHold /\ [Next]_vars => ReportsHold'
<1> SUFFICES ASSUME TypeOK, StoreInv, ThreadInv, ReportsHold, [Next]_vars, NEW t \in Threads
    PROVE  /\ \A k \in report'[t].raw_objects : Has(landing', k)
           /\ \A k \in report'[t].bronze_objects : Has(bronze', k)
           /\ report'[t].accepted_rows > 0 <=> report'[t].bronze_objects # {}
           /\ report'[t].input_rows = report'[t].accepted_rows + report'[t].rejected_rows
  BY DEF ReportsHold, Has
<1>1. /\ \A k \in report[t].raw_objects : Has(landing', k)
      /\ \A k \in report[t].bronze_objects : Has(bronze', k)
      /\ report[t].accepted_rows > 0 <=> report[t].bronze_objects # {}
      /\ report[t].input_rows = report[t].accepted_rows + report[t].rejected_rows
  BY StoreGrows DEF ReportsHold, Has
<1>2. CASE report'[t] = report[t]
  BY <1>1, <1>2
<1>3. CASE report'[t] = NoReport
  BY <1>3 DEF NoReport
<1>4. CASE pc[t] = "area" /\ report'[t] = Reported(t)
  <2> DEFINE a == Cardinality(Accepted[payload[t]])
             b == Cardinality(Rejected[payload[t]])
  <2>1. payload[t] # None
    BY <1>4 DEF TypeOK
  <2>2. a \in Nat /\ b \in Nat /\ (a > 0 <=> Accepted[payload[t]] # {})
    BY <2>1, KeyTyped, LinksCounted
  <2>3. report[t].input_rows \in Nat /\ report[t].accepted_rows \in Nat /\ report[t].rejected_rows \in Nat
    BY DEF TypeOK
  <2>4. Has(landing', Key(t)) /\ (Accepted[payload[t]] # {} => Has(bronze', Key(t)))
    BY <1>4, <2>1, ObjectsOf, StoreGrows DEF ThreadInv, Has
  <2>5. /\ report'[t].raw_objects = report[t].raw_objects \cup {Key(t)}
        /\ report'[t].bronze_objects = report[t].bronze_objects
                                         \cup (IF Accepted[payload[t]] # {} THEN {Key(t)} ELSE {})
        /\ report'[t].input_rows = report[t].input_rows + a + b
        /\ report'[t].accepted_rows = report[t].accepted_rows + a
        /\ report'[t].rejected_rows = report[t].rejected_rows + b
    BY <1>4 DEF Reported
  <2> HIDE DEF a, b
  <2>6. report'[t].accepted_rows > 0 <=> report'[t].bronze_objects # {}
    <3>1. CASE Accepted[payload[t]] = {}
      <4>1. a = 0
        BY <2>2, <3>1
      <4> QED
        BY <1>1, <2>3, <2>5, <3>1, <4>1
    <3>2. CASE Accepted[payload[t]] # {}
      <4>1. report[t].accepted_rows + a > 0
        BY <2>2, <2>3, <3>2
      <4>2. Key(t) \in report'[t].bronze_objects
        BY <2>5, <3>2
      <4> QED
        BY <2>5, <4>1, <4>2
    <3> QED
      BY <3>1, <3>2
  <2>7. report'[t].input_rows = report'[t].accepted_rows + report'[t].rejected_rows
    BY <1>1, <2>2, <2>3, <2>5
  <2> QED
    BY <1>1, <2>4, <2>5, <2>6, <2>7
<1> QED
  BY <1>2, <1>3, <1>4, ReportMoves
-----------------------------------------------------------------------------
(* The theorems.                                                           *)

LEMMA InitInv == Init => IInv
<1> SUFFICES ASSUME Init PROVE IInv
  OBVIOUS
<1>1. TypeOK
  BY InitType
<1>2. StoreInv /\ ThreadInv /\ Due /\ Lineage /\ NothingDropped /\ ReportsHold
  BY DEF Init, StoreInv, ThreadInv, Due, Lineage, NothingDropped, ReportsHold, NoReport
<1> QED
  BY <1>1, <1>2 DEF IInv

LEMMA StepInv == IInv /\ [Next]_vars => IInv'
BY TypeStep, DueStep, StoreInvStep, ThreadInvStep, LineageStep, NothingDroppedStep, ReportsStep
   DEF IInv

\* The inductive invariant: what the objects hold, and what a thread has stored
\* when it is at a place.
THEOREM Invariance == Spec => []IInv
BY InitInv, StepInv, PTL DEF Spec

\* Every variable has its type; no object is stored without rows.
THEOREM TypeCorrectness == Spec => []TypeOK
BY Invariance, PTL DEF IInv

\* The payload whose digest the rows carry lies under landing/ for ever.
THEOREM LineageHolds == Spec => []Lineage
BY Invariance, PTL DEF IInv

\* Every row of a preserved response is accepted or quarantined, unless a sync is
\* at it or has broken off at it.
THEOREM NothingDroppedHolds == Spec => []NothingDropped
BY Invariance, PTL DEF IInv

\* A report counts and names what is stored.
THEOREM ReportsHoldAlways == Spec => []ReportsHold
BY Invariance, PTL DEF IInv

\* Two collections within one snapshot give a link the same event id exactly when their
\* answers have the same area code.
THEOREM RecollectionAddsNothing == Spec => []RecollectionDeduplicates
<1>1. ASSUME IInv, NEW o \in bronze, NEW p \in bronze, Recollected(o, p),
             NEW e \in o.event_ids, NEW f \in p.event_ids, e.link = f.link
      PROVE  e = f <=> Code[o.payload] = Code[p.payload]
  <2>1. SnapshotTime(o.ingested_at) = SnapshotTime(p.ingested_at)
    BY <1>1, SameSnapshot DEF IInv, TypeOK, Recollected
  <2>2. o.key.snapshot_at = p.key.snapshot_at
        /\ o.key.area_code = Code[o.payload] /\ p.key.area_code = Code[p.payload]
    <3>1. o.key = KeyOf(o.payload, o.ingested_at) /\ p.key = KeyOf(p.payload, p.ingested_at)
      BY <1>1 DEF IInv, StoreInv
    <3> QED
      BY <2>1, <3>1 DEF KeyOf
  <2>3. o.event_ids = EventsOf(o.key) /\ p.event_ids = EventsOf(p.key)
    BY <1>1 DEF IInv, StoreInv
  <2>4. PICK k : e = [area_code |-> o.key.area_code, link |-> k, snapshot_at |-> o.key.snapshot_at]
    BY <1>1, <2>3 DEF EventsOf
  <2>5. PICK l : f = [area_code |-> p.key.area_code, link |-> l, snapshot_at |-> p.key.snapshot_at]
    BY <1>1, <2>3 DEF EventsOf
  <2> QED
    BY <1>1, <2>2, <2>4, <2>5
<1>2. IInv => RecollectionDeduplicates
  BY <1>1 DEF RecollectionDeduplicates
<1> QED
  BY <1>2, Invariance, PTL

\* An object that is stored again holds the same events.
THEOREM KeyFixesEventsHolds == Spec => KeyFixesEvents
<1>1. IInv /\ IInv' => \A o \in bronze, p \in bronze' : o.key = p.key => o.event_ids = p.event_ids
  BY DEF IInv, StoreInv
<1>2. IInv /\ IInv' /\ [Next]_vars =>
        [\A o \in bronze, p \in bronze' : o.key = p.key => o.event_ids = p.event_ids]_vars
  BY <1>1
<1> QED
  BY <1>2, Invariance, PTL DEF Spec, KeyFixesEvents
=============================================================================
