-------------------------- MODULE BatchIngestProofs --------------------------
(***************************************************************************)
(* Proofs about the file ingest, for any files, options, rows and number   *)
(* of processes.  The objects of a fingerprint all hold the same rows,     *)
(* whoever stored them and when (Contents), and an ingest that is past an  *)
(* upload left its object there (Uploads), so that a report finds both.    *)
(* That what is accepted can be loaded is a fact about the CASE alone.     *)
(***************************************************************************)
EXTENDS BatchIngest, FiniteSetTheorems, WellFoundedInduction, TLAPS

Positions == {"idle", "accepted", "rejected", "report"}

Typed ==
  /\ day \in 0 .. MaxDay
  /\ pc \in [Processes -> Positions]
  /\ input \in [Processes -> Fingerprints \cup {None}]
  /\ \A p \in Processes : pc[p] # "idle" => input[p] \in Readable
  /\ date \in [Processes -> 0 .. day]
  /\ ingests \in 0 .. MaxIngests /\ faults \in 0 .. MaxFaults

\* The events of the object under bronze/ of any ingest of the fingerprint.
EventRows(f) == {<<EventId(f, n), n>> : n \in AcceptedRows[f]}

ReadKeys == [ingest_date : 0 .. MaxDay, fingerprint : Readable]

Contents ==
  /\ \A o \in bronze : o.key \in ReadKeys /\ o.rows = EventRows(o.key.fingerprint)
  /\ \A o \in quarantine : o.key \in ReadKeys /\ o.rows = RejectedRows[o.key.fingerprint]

InBronze(k) == AcceptedRows[k.fingerprint] # {} => \E o \in bronze : o.key = k
InQuarantine(k) == RejectedRows[k.fingerprint] # {} => \E o \in quarantine : o.key = k

Uploads ==
  \A p \in Processes :
    /\ pc[p] \in {"rejected", "report"} => InBronze(Key(p))
    /\ pc[p] = "report" => InQuarantine(Key(p))

ReportOf(k) ==
  [key |-> k,
   input_rows |-> Cardinality(Numbers[k.fingerprint]),
   accepted_rows |-> Cardinality(AcceptedRows[k.fingerprint]),
   rejected_rows |-> Cardinality(RejectedRows[k.fingerprint])]

Reports ==
  \A r \in reports :
    /\ r.key \in ReadKeys /\ r = ReportOf(r.key)
    /\ InBronze(r.key) /\ InQuarantine(r.key)

IInv == Typed /\ Contents /\ Uploads /\ Reports
-----------------------------------------------------------------------------
(* The conditions and the CASE.                                            *)

Within(v, low, high) == v # Null /\ low <= v /\ v <= high

LEMMA OutsideRange ==
  ASSUME NEW v \in Int \cup {Null}, NEW low \in Int, NEW high \in Int,
         Outside(v, low, high) # "true"
  PROVE  v \in Int /\ Within(v, low, high)
BY DEF Outside, Either, IsNull, Known, Not, Between, Within

LEMMA NotMember ==
  ASSUME NEW v, NEW S, Not(Member(v, S)) # "true"
  PROVE  v = Null \/ v \in S
BY DEF Not, Member, Known

LEMMA NotMissing ==
  ASSUME NEW v, Either(IsNull(v), Member(v, {NoText})) # "true"
  PROVE  v \notin {NoText, Null}
BY DEF Either, IsNull, Member, Known

LEMMA RulesShape ==
  ASSUME NEW row
  PROVE  /\ DOMAIN Rules(row) = 1 .. 11
         /\ \A i \in 1 .. 11 : Rules(row)[i].reason \in Reasons
<1>1. Rules(row)[1].reason = "INVALID_SEGMENT_ID"
  BY DEF Rules
<1>2. Rules(row)[2].reason = "MISSING_ROAD_NAME"
  BY DEF Rules
<1>3. Rules(row)[3].reason = "INVALID_LATITUDE"
  BY DEF Rules
<1>4. Rules(row)[4].reason = "INVALID_LONGITUDE"
  BY DEF Rules
<1>5. Rules(row)[5].reason = "INVALID_OBSERVED_AT"
  BY DEF Rules
<1>6. Rules(row)[6].reason = "INVALID_VEHICLE_TYPE"
  BY DEF Rules
<1>7. Rules(row)[7].reason = "INVALID_SEGMENT_LENGTH"
  BY DEF Rules
<1>8. Rules(row)[8].reason = "INVALID_SPEED"
  BY DEF Rules
<1>9. Rules(row)[9].reason = "INVALID_REFERENCE_SPEED"
  BY DEF Rules
<1>10. Rules(row)[10].reason = "INVALID_TRAFFIC_VOLUME"
  BY DEF Rules
<1>11. Rules(row)[11].reason = "INVALID_TRAVEL_TIME"
  BY DEF Rules
<1>12. DOMAIN Rules(row) = 1 .. 11
  BY DEF Rules
<1>13. ASSUME NEW i \in 1 .. 11
       PROVE  Rules(row)[i].reason \in Reasons
  <2>1. \/ i = 1 \/ i = 2 \/ i = 3 \/ i = 4 \/ i = 5 \/ i = 6
        \/ i = 7 \/ i = 8 \/ i = 9 \/ i = 10 \/ i = 11
    BY <1>13
  <2> QED
    BY <1>1, <1>2, <1>3, <1>4, <1>5, <1>6, <1>7, <1>8, <1>9, <1>10, <1>11, <2>1 DEF Reasons
<1> QED
  BY <1>12, <1>13

\* A nonempty set of positions has a first one.
LEMMA FirstOf ==
  ASSUME NEW T \in SUBSET Nat, T # {}
  PROVE  \E i \in T : \A j \in T : i <= j
<1>1. PICK i \in T : \A j \in T : ~ (<<j, i>> \in OpToRel(<, Nat))
  BY NatLessThanWellFounded, WFMin, Zenon
<1>2. ASSUME NEW j \in T
      PROVE  i <= j
  <2>1. <<j, i>> \notin {ss \in Nat \X Nat : ss[1] < ss[2]}
    BY <1>1 DEF OpToRel
  <2>2. ~ (j < i)
    BY <2>1
  <2> QED
    BY <2>2
<1> QED
  BY <1>2

\* A row is accepted only when no WHEN is taken.
LEMMA NoneTaken ==
  ASSUME NEW row, IsAccepted(row), NEW i \in 1 .. 11
  PROVE  Rules(row)[i].when # "true"
<1> DEFINE taken == {j \in DOMAIN Rules(row) : Rules(row)[j].when = "true"}
           first == CHOOSE j \in taken : \A k \in taken : j <= k
<1>1. SUFFICES taken = {}
  BY <1>1, RulesShape
<1>2. SUFFICES ASSUME taken # {} PROVE FALSE
  OBVIOUS
<1>3. taken \in SUBSET (1 .. 11)
  BY RulesShape
<1>4. \E j \in taken : \A k \in taken : j <= k
  <2>1. taken \in SUBSET Nat
    BY <1>3
  <2> QED
    BY <1>2, <2>1, FirstOf
<1>5. first \in taken
  BY <1>4
<1>6. Rules(row)[first].reason \in Reasons
  BY <1>3, <1>5, RulesShape
<1>7. Rules(row)[first].reason = None
  BY <1>2 DEF IsAccepted, RejectReason
<1> QED
  BY <1>6, <1>7, NoValueAssumption

\* What the CASE leaves of a row that it accepts.
LEMMA AcceptedValues ==
  ASSUME NEW row \in Row, IsAccepted(row)
  PROVE  /\ row.segment_id = Null \/ row.segment_id \in SegmentIds
         /\ row.road_name \notin {NoText, Null}
         /\ Within(row.latitude, -90, 90) /\ Within(row.longitude, -180, 180)
         /\ row.observed_at # Null
         /\ row.vehicle_type = Null \/ row.vehicle_type \in VehicleTypes
         /\ Within(row.segment_length_km, 1, 100 * Unit)
         /\ Within(row.speed_kph, 1, 180 * Unit)
         /\ Within(row.reference_speed_kph, 1, 180 * Unit)
         /\ Within(row.traffic_volume, 0, 20000)
         /\ Within(row.travel_time_seconds, 1, 7200)
<1>1. Not(Member(row.segment_id, SegmentIds)) # "true"
  <2>1. Rules(row)[1].when = Not(Member(row.segment_id, SegmentIds))
    BY DEF Rules
  <2> QED
    BY <2>1, NoneTaken
<1>2. Either(IsNull(row.road_name), Member(row.road_name, {NoText})) # "true"
  <2>1. Rules(row)[2].when = Either(IsNull(row.road_name), Member(row.road_name, {NoText}))
    BY DEF Rules
  <2> QED
    BY <2>1, NoneTaken
<1>3. Outside(row.latitude, -90, 90) # "true"
  <2>1. Rules(row)[3].when = Outside(row.latitude, -90, 90)
    BY DEF Rules
  <2> QED
    BY <2>1, NoneTaken
<1>4. Outside(row.longitude, -180, 180) # "true"
  <2>1. Rules(row)[4].when = Outside(row.longitude, -180, 180)
    BY DEF Rules
  <2> QED
    BY <2>1, NoneTaken
<1>5. IsNull(row.observed_at) # "true"
  <2>1. Rules(row)[5].when = IsNull(row.observed_at)
    BY DEF Rules
  <2> QED
    BY <2>1, NoneTaken
<1>6. Not(Member(row.vehicle_type, VehicleTypes)) # "true"
  <2>1. Rules(row)[6].when = Not(Member(row.vehicle_type, VehicleTypes))
    BY DEF Rules
  <2> QED
    BY <2>1, NoneTaken
<1>7. Outside(row.segment_length_km, 1, 100 * Unit) # "true"
  <2>1. Rules(row)[7].when = Outside(row.segment_length_km, 1, 100 * Unit)
    BY DEF Rules
  <2> QED
    BY <2>1, NoneTaken
<1>8. Outside(row.speed_kph, 1, 180 * Unit) # "true"
  <2>1. Rules(row)[8].when = Outside(row.speed_kph, 1, 180 * Unit)
    BY DEF Rules
  <2> QED
    BY <2>1, NoneTaken
<1>9. Outside(row.reference_speed_kph, 1, 180 * Unit) # "true"
  <2>1. Rules(row)[9].when = Outside(row.reference_speed_kph, 1, 180 * Unit)
    BY DEF Rules
  <2> QED
    BY <2>1, NoneTaken
<1>10. Outside(row.traffic_volume, 0, 20000) # "true"
  <2>1. Rules(row)[10].when = Outside(row.traffic_volume, 0, 20000)
    BY DEF Rules
  <2> QED
    BY <2>1, NoneTaken
<1>11. Outside(row.travel_time_seconds, 1, 7200) # "true"
  <2>1. Rules(row)[11].when = Outside(row.travel_time_seconds, 1, 7200)
    BY DEF Rules
  <2> QED
    BY <2>1, NoneTaken
<1>12. Within(row.latitude, -90, 90)
  <2>1. row.latitude \in Int \cup {Null}
    BY DEF Row
  <2>2. -90 \in Int /\ 90 \in Int
    OBVIOUS
  <2> QED
    BY <1>3, <2>1, <2>2, OutsideRange, Zenon
<1>13. Within(row.longitude, -180, 180)
  <2>1. row.longitude \in Int \cup {Null}
    BY DEF Row
  <2>2. -180 \in Int /\ 180 \in Int
    OBVIOUS
  <2> QED
    BY <1>4, <2>1, <2>2, OutsideRange, Zenon
<1>14. Within(row.segment_length_km, 1, 100 * Unit)
  <2>1. row.segment_length_km \in Int \cup {Null}
    BY DEF Row
  <2>2. 1 \in Int /\ 100 * Unit \in Int
    BY DEF Unit
  <2> QED
    BY <1>7, <2>1, <2>2, OutsideRange, Zenon
<1>15. Within(row.speed_kph, 1, 180 * Unit)
  <2>1. row.speed_kph \in Int \cup {Null}
    BY DEF Row
  <2>2. 1 \in Int /\ 180 * Unit \in Int
    BY DEF Unit
  <2> QED
    BY <1>8, <2>1, <2>2, OutsideRange, Zenon
<1>16. Within(row.reference_speed_kph, 1, 180 * Unit)
  <2>1. row.reference_speed_kph \in Int \cup {Null}
    BY DEF Row
  <2>2. 1 \in Int /\ 180 * Unit \in Int
    BY DEF Unit
  <2> QED
    BY <1>9, <2>1, <2>2, OutsideRange, Zenon
<1>17. Within(row.traffic_volume, 0, 20000)
  <2>1. row.traffic_volume \in Int \cup {Null}
    BY DEF Row
  <2>2. PICK high \in Int : high = 20000
    OBVIOUS
  <2>3. 0 \in Int /\ Outside(row.traffic_volume, 0, high) # "true"
    BY <1>10, <2>2
  <2>4. Within(row.traffic_volume, 0, high)
    BY <2>1, <2>3, OutsideRange, Zenon
  <2> QED
    BY <2>2, <2>4
<1>18. Within(row.travel_time_seconds, 1, 7200)
  <2>1. row.travel_time_seconds \in Int \cup {Null}
    BY DEF Row
  <2>2. PICK high \in Int : high = 7200
    OBVIOUS
  <2>3. 1 \in Int /\ Outside(row.travel_time_seconds, 1, high) # "true"
    BY <1>11, <2>2
  <2>4. Within(row.travel_time_seconds, 1, high)
    BY <2>1, <2>3, OutsideRange, Zenon
  <2> QED
    BY <2>2, <2>4
<1>19. row.observed_at # Null
  BY <1>5 DEF IsNull, Known
<1> QED
  BY <1>1, <1>2, <1>6, <1>12, <1>13, <1>14, <1>15, <1>16, <1>17, <1>18, <1>19,
     NotMember, NotMissing

\* The contract of the file ingest is that of the raw table, but for a segment id that
\* is missing and a speed that vanishes beside the reference speed.
LEMMA AcceptedRowLoads ==
  ASSUME NEW row \in Row, IsAccepted(row)
  PROVE  MeetsRawConstraints(row) <=> row.segment_id # Null /\ HasSpeedIndex(row)
<1>1. /\ row.segment_length_km # Null /\ row.segment_length_km > 0
      /\ row.speed_kph # Null /\ row.speed_kph > 0
      /\ row.travel_time_seconds # Null /\ row.travel_time_seconds > 0
      /\ row.traffic_volume >= 0
      /\ row.reference_speed_kph # Null /\ row.reference_speed_kph > 0
  BY AcceptedValues DEF Within, Row
<1>2. /\ row.latitude # Null /\ row.longitude # Null /\ row.observed_at # Null
      /\ row.road_name # Null
  BY AcceptedValues DEF Within
<1>3. row.vehicle_type # Null
  BY NoValueAssumption DEF Row
<1>4. ASSUME row.segment_id # Null, HasSpeedIndex(row)
      PROVE  MeetsRawConstraints(row)
  BY <1>1, <1>2, <1>3, <1>4 DEF MeetsRawConstraints
<1>5. ASSUME MeetsRawConstraints(row)
      PROVE  row.segment_id # Null /\ HasSpeedIndex(row)
  BY <1>1, <1>5 DEF MeetsRawConstraints
<1> QED
  BY <1>4, <1>5
-----------------------------------------------------------------------------
(* What a file holds.                                                      *)

LEMMA Rows ==
  ASSUME NEW f \in Readable
  PROVE  /\ f \in Fingerprints
         /\ Numbers[f] = DOMAIN RowsOf[f]
         /\ AcceptedRows[f] = {n \in Numbers[f] : IsAccepted(RowsOf[f][n])}
         /\ RejectedRows[f] = Numbers[f] \ AcceptedRows[f]
         /\ \A n \in Numbers[f] : RowsOf[f][n] \in Row
<1>1. f \in Fingerprints /\ RowsOf[f] # None
  BY DEF Readable
<1>2. RowsOf[f] \in Seq(Row)
  BY <1>1, ConstantsAssumption
<1>3. Numbers[f] = DOMAIN RowsOf[f]
  BY DEF Numbers
<1>4. \A n \in Numbers[f] : RowsOf[f][n] \in Row
  BY <1>2, <1>3
<1> QED
  BY <1>1, <1>3, <1>4 DEF AcceptedRows, RejectedRows

\* The counts of a report are those of finite sets, and add up.
LEMMA Counts ==
  ASSUME NEW f \in Readable
  PROVE  /\ Cardinality(Numbers[f]) \in Nat
         /\ Cardinality(AcceptedRows[f]) \in Nat
         /\ Cardinality(RejectedRows[f]) \in Nat
         /\ Cardinality(Numbers[f]) = Cardinality(AcceptedRows[f]) + Cardinality(RejectedRows[f])
         /\ Cardinality(RejectedRows[f]) > 0 => RejectedRows[f] # {}
<1> DEFINE A == AcceptedRows[f]
           R == RejectedRows[f]
<1>1. RowsOf[f] \in Seq(Row)
  BY ConstantsAssumption DEF Readable
<1>2. Numbers[f] = 1 .. Len(RowsOf[f]) /\ Len(RowsOf[f]) \in Nat
  BY <1>1, Rows
<1>3. IsFiniteSet(Numbers[f])
  BY <1>2, FS_Interval
<1>4. A \in SUBSET Numbers[f] /\ R \in SUBSET Numbers[f]
  BY Rows
<1>5. A \cup R = Numbers[f] /\ A \cap R = {}
  BY <1>4, Rows
<1>6. IsFiniteSet(A) /\ IsFiniteSet(R)
  BY <1>3, <1>4, FS_Subset
<1>7. Cardinality(A \cup R) = Cardinality(A) + Cardinality(R) - Cardinality(A \cap R)
  BY <1>6, FS_Union
<1>8. /\ Cardinality(Numbers[f]) \in Nat /\ Cardinality(A) \in Nat
      /\ Cardinality(R) \in Nat /\ Cardinality({}) = 0
  BY <1>3, <1>6, FS_CardinalityType, FS_EmptySet
<1>9. R = {} => Cardinality(R) = 0
  BY FS_EmptySet
<1>10. Cardinality(A \cup R) = Cardinality(Numbers[f]) /\ Cardinality(A \cap R) = 0
  BY <1>5, <1>8
<1> HIDE DEF A, R
<1>11. Cardinality(Numbers[f]) = Cardinality(A) + Cardinality(R)
  BY <1>7, <1>8, <1>10
<1>12. Cardinality(R) > 0 => R # {}
  BY <1>8, <1>9
<1> QED
  BY <1>8, <1>11, <1>12 DEF A, R
-----------------------------------------------------------------------------
(* The invariant.                                                          *)

LEMMA Initially == Init => IInv
<1> SUFFICES ASSUME Init PROVE IInv
  OBVIOUS
<1>1. Typed
  BY ConstantsAssumption DEF Init, Typed, Positions
<1>2. Contents /\ Uploads /\ Reports
  BY DEF Init, Contents, Uploads, Reports
<1> QED
  BY <1>1, <1>2 DEF IInv

\* The key of an ingest that has started.
LEMMA KeyTyped ==
  ASSUME Typed, NEW p \in Processes, pc[p] # "idle"
  PROVE  /\ Key(p) \in ReadKeys /\ Key(p).fingerprint = input[p]
         /\ input[p] \in Readable
<1>1. input[p] \in Readable
  BY DEF Typed
<1>2. day \in 0 .. MaxDay /\ date[p] \in 0 .. day
  BY DEF Typed
<1>3. date[p] \in 0 .. MaxDay
  BY <1>2, ConstantsAssumption
<1> QED
  BY <1>1, <1>3 DEF Key, ReadKeys

LEMMA TypedStays ==
  ASSUME Typed, [Next]_vars
  PROVE  Typed'
<1> USE DEF Typed, Positions
<1>1. CASE UNCHANGED vars
  BY <1>1 DEF vars
<1>2. CASE Midnight
  <2>1. day' \in 0 .. MaxDay /\ date' = date /\ day <= day'
    BY <1>2, ConstantsAssumption DEF Midnight
  <2>2. date' \in [Processes -> 0 .. day']
    BY <2>1
  <2> QED
    BY <1>2, <2>1, <2>2 DEF Midnight, bounds
<1>3. ASSUME NEW p \in Processes, NEW f \in Fingerprints, Start(p, f)
      PROVE  Typed'
  <2>1. /\ f \in Readable /\ ingests' \in 0 .. MaxIngests
        /\ UNCHANGED <<day, faults>> /\ day \in 0 .. day
    BY <1>3, ConstantsAssumption DEF Start
  <2>2. /\ pc' \in [Processes -> Positions] /\ date' \in [Processes -> 0 .. day']
        /\ input' \in [Processes -> Fingerprints \cup {None}]
    BY <1>3, <2>1 DEF Start
  <2>3. \A q \in Processes : pc'[q] # "idle" => input'[q] \in Readable
    BY <1>3, <2>1 DEF Start
  <2> QED
    BY <2>1, <2>2, <2>3
<1>4. ASSUME NEW p \in Processes, UploadAccepted(p) \/ UploadRejected(p)
      PROVE  Typed'
  BY <1>4 DEF UploadAccepted, UploadRejected, bounds
<1>5. ASSUME NEW p \in Processes, Ended(p), UNCHANGED <<day, ingests>>,
             faults' \in 0 .. MaxFaults
      PROVE  Typed'
  BY <1>5 DEF Ended
<1>6. ASSUME NEW p \in Processes, Report(p) \/ Dies(p)
      PROVE  Typed'
  <2>1. Ended(p) /\ UNCHANGED <<day, ingests>>
    BY <1>6 DEF Report, Dies, bounds
  <2>2. faults' \in 0 .. MaxFaults
    BY <1>6, ConstantsAssumption DEF Report, Dies, bounds
  <2> QED
    BY <1>5, <2>1, <2>2
<1> QED
  BY <1>1, <1>2, <1>3, <1>4, <1>6 DEF Next, Ingest

\* No object is taken away, and what is put holds what Contents says.
LEMMA BronzeStep ==
  ASSUME Typed, Contents, [Next]_vars
  PROVE  /\ \A o \in bronze' : o.key \in ReadKeys /\ o.rows = EventRows(o.key.fingerprint)
         /\ \A k : (\E o \in bronze : o.key = k) => \E o \in bronze' : o.key = k
<1>1. CASE UNCHANGED bronze
  BY <1>1 DEF Contents
<1>2. ASSUME NEW p \in Processes, UploadAccepted(p), bronze' # bronze
      PROVE  /\ \A o \in bronze' : o.key \in ReadKeys /\ o.rows = EventRows(o.key.fingerprint)
             /\ \A k : (\E o \in bronze : o.key = k) => \E o \in bronze' : o.key = k
  <2> DEFINE new == [key |-> Key(p), rows |-> EventRows(input[p])]
  <2>1. bronze' = Put(bronze, new)
    BY <1>2 DEF UploadAccepted, EventRows
  <2>2. Key(p) \in ReadKeys /\ Key(p).fingerprint = input[p]
    BY <1>2, KeyTyped DEF UploadAccepted
  <2>3. new.key = Key(p) /\ new.rows = EventRows(input[p])
    OBVIOUS
  <2> HIDE DEF new
  <2> QED
    BY <2>1, <2>2, <2>3 DEF Put, Contents
<1>3. CASE bronze' # bronze
  <2>1. PICK p \in Processes : UploadAccepted(p)
    BY <1>3 DEF Next, Midnight, Ingest, Start, UploadRejected, Report, Dies, store, vars
  <2> QED
    BY <1>2, <1>3, <2>1
<1> QED
  BY <1>1, <1>3

LEMMA QuarantineStep ==
  ASSUME Typed, Contents, [Next]_vars
  PROVE  /\ \A o \in quarantine' :
               o.key \in ReadKeys /\ o.rows = RejectedRows[o.key.fingerprint]
         /\ \A k : (\E o \in quarantine : o.key = k) => \E o \in quarantine' : o.key = k
<1>1. CASE UNCHANGED quarantine
  BY <1>1 DEF Contents
<1>2. ASSUME NEW p \in Processes, UploadRejected(p), quarantine' # quarantine
      PROVE  /\ \A o \in quarantine' :
                   o.key \in ReadKeys /\ o.rows = RejectedRows[o.key.fingerprint]
             /\ \A k : (\E o \in quarantine : o.key = k) => \E o \in quarantine' : o.key = k
  <2> DEFINE new == [key |-> Key(p), rows |-> RejectedRows[input[p]]]
  <2>1. quarantine' = Put(quarantine, new)
    BY <1>2 DEF UploadRejected
  <2>2. Key(p) \in ReadKeys /\ Key(p).fingerprint = input[p]
    BY <1>2, KeyTyped DEF UploadRejected
  <2>3. new.key = Key(p) /\ new.rows = RejectedRows[input[p]]
    OBVIOUS
  <2> HIDE DEF new
  <2> QED
    BY <2>1, <2>2, <2>3 DEF Put, Contents
<1>3. CASE quarantine' # quarantine
  <2>1. PICK p \in Processes : UploadRejected(p)
    BY <1>3 DEF Next, Midnight, Ingest, Start, UploadAccepted, Report, Dies, store, vars
  <2> QED
    BY <1>2, <1>3, <2>1
<1> QED
  BY <1>1, <1>3

\* What is stored stays stored.
LEMMA StoredStays ==
  ASSUME Typed, Contents, [Next]_vars, NEW k
  PROVE  (InBronze(k) => InBronze(k)') /\ (InQuarantine(k) => InQuarantine(k)')
BY BronzeStep, QuarantineStep DEF InBronze, InQuarantine

\* An upload leaves the object of its key.
LEMMA UploadsStay ==
  ASSUME Typed, Contents, Uploads, [Next]_vars
  PROVE  Uploads'
<1> SUFFICES ASSUME NEW q \in Processes
             PROVE  /\ (pc[q] \in {"rejected", "report"} => InBronze(Key(q)))'
                    /\ (pc[q] = "report" => InQuarantine(Key(q)))'
  BY DEF Uploads
<1>1. CASE pc'[q] = pc[q] /\ input'[q] = input[q] /\ date'[q] = date[q]
  <2>1. Key(q)' = Key(q)
    BY <1>1 DEF Key
  <2> QED
    BY <1>1, <2>1, StoredStays DEF Uploads
<1>2. CASE pc'[q] \in {"idle", "accepted"}
  BY <1>2
<1>3. CASE UploadAccepted(q)
  <2>1. pc[q] = "accepted" /\ pc'[q] = "rejected" /\ Key(q)' = Key(q)
    BY <1>3 DEF UploadAccepted, Key, Typed
  <2>2. Key(q).fingerprint = input[q]
    BY DEF Key
  <2>3. ASSUME AcceptedRows[input[q]] # {}
        PROVE  \E o \in bronze' : o.key = Key(q)
    <3> DEFINE new == [key |-> Key(q), rows |-> EventRows(input[q])]
    <3>1. bronze' = Put(bronze, new) /\ new.key = Key(q)
      BY <1>3, <2>3 DEF UploadAccepted, EventRows
    <3> HIDE DEF new
    <3> QED
      BY <3>1 DEF Put
  <2> QED
    BY <2>1, <2>2, <2>3 DEF InBronze
<1>4. CASE UploadRejected(q)
  <2>1. pc[q] = "rejected" /\ pc'[q] = "report" /\ Key(q)' = Key(q)
    BY <1>4 DEF UploadRejected, Key, Typed
  <2>2. Key(q).fingerprint = input[q]
    BY DEF Key
  <2>3. ASSUME RejectedRows[input[q]] # {}
        PROVE  \E o \in quarantine' : o.key = Key(q)
    <3>1. PICK o : quarantine' = Put(quarantine, o) /\ o.key = Key(q)
      BY <1>4, <2>3 DEF UploadRejected
    <3> QED
      BY <3>1 DEF Put
  <2>4. InQuarantine(Key(q))'
    BY <2>1, <2>2, <2>3 DEF InQuarantine
  <2>5. InBronze(Key(q))'
    BY <2>1, StoredStays DEF Uploads
  <2> QED
    BY <2>1, <2>4, <2>5
<1>5. \/ pc'[q] = pc[q] /\ input'[q] = input[q] /\ date'[q] = date[q]
      \/ pc'[q] \in {"idle", "accepted"}
      \/ UploadAccepted(q) \/ UploadRejected(q)
  <2>1. CASE UNCHANGED <<pc, input, date>>
    BY <2>1
  <2>2. ASSUME NEW p \in Processes,
               \/ \E f \in Fingerprints : Start(p, f)
               \/ Ended(p)
        PROVE  \/ pc'[q] = pc[q] /\ input'[q] = input[q] /\ date'[q] = date[q]
               \/ pc'[q] \in {"idle", "accepted"}
    BY <2>2 DEF Start, Ended, Typed
  <2>3. ASSUME NEW p \in Processes, UploadAccepted(p) \/ UploadRejected(p), p # q
        PROVE  pc'[q] = pc[q] /\ input'[q] = input[q] /\ date'[q] = date[q]
    BY <2>3 DEF UploadAccepted, UploadRejected, Typed
  <2>4. \/ UNCHANGED <<pc, input, date>>
        \/ \E p \in Processes : \/ \E f \in Fingerprints : Start(p, f)
                               \/ Ended(p)
                               \/ UploadAccepted(p) \/ UploadRejected(p)
    BY DEF Next, Ingest, Midnight, Report, Dies, vars
  <2> QED
    BY <2>1, <2>2, <2>3, <2>4
<1> QED
  BY <1>1, <1>2, <1>3, <1>4, <1>5

LEMMA ReportsStay ==
  ASSUME Typed, Contents, Uploads, Reports, [Next]_vars
  PROVE  Reports'
<1>1. ASSUME NEW r \in reports
      PROVE  /\ r.key \in ReadKeys /\ r = ReportOf(r.key)
             /\ InBronze(r.key)' /\ InQuarantine(r.key)'
  BY <1>1, StoredStays DEF Reports
<1>2. CASE UNCHANGED reports
  BY <1>1, <1>2 DEF Reports
<1>3. ASSUME NEW p \in Processes, Report(p)
      PROVE  Reports'
  <2>1. Key(p) \in ReadKeys /\ Key(p).fingerprint = input[p]
    BY <1>3, KeyTyped DEF Report
  <2>2. reports' = reports \cup {ReportOf(Key(p))}
    BY <1>3, <2>1 DEF Report, ReportOf
  <2>3. ReportOf(Key(p)).key = Key(p)
    BY DEF ReportOf
  <2> DEFINE k == Key(p)
  <2>4. InBronze(k) /\ InQuarantine(k)
    BY <1>3 DEF Report, Uploads
  <2>5. k \in ReadKeys /\ reports' = reports \cup {ReportOf(k)} /\ ReportOf(k).key = k
    BY <2>1, <2>2, <2>3
  <2>6. bronze' = bronze /\ quarantine' = quarantine
    BY <1>3 DEF Report, store
  <2>7. ASSUME NEW r \in reports'
        PROVE  /\ r.key \in ReadKeys /\ r = ReportOf(r.key)
               /\ InBronze(r.key) /\ InQuarantine(r.key)
    <3> HIDE DEF k
    <3> QED
      BY <2>4, <2>5, <2>7 DEF Reports
  <2> QED
    BY <2>6, <2>7 DEF Reports, InBronze, InQuarantine
<1>4. UNCHANGED reports \/ \E p \in Processes : Report(p)
  BY DEF Next, Ingest, Midnight, Start, UploadAccepted, UploadRejected, Dies, vars
<1> QED
  BY <1>2, <1>3, <1>4

\* The inductive invariant holds: the objects of a fingerprint hold the rows of its file,
\* and an ingest that is past an upload, or has reported, left its objects.
THEOREM Invariance == Spec => []IInv
<1>1. Init => IInv
  BY Initially
<1>2. IInv /\ [Next]_vars => IInv'
  <2> SUFFICES ASSUME IInv, [Next]_vars PROVE IInv'
    OBVIOUS
  <2>1. Contents'
    BY BronzeStep, QuarantineStep DEF Contents, IInv
  <2> QED
    BY <2>1, TypedStays, UploadsStay, ReportsStay DEF IInv
<1> QED
  BY <1>1, <1>2, PTL DEF Spec
-----------------------------------------------------------------------------
(* The properties.                                                         *)

\* Every variable has its type, and nobody ingests with options that are refused.
THEOREM TypeCorrectness == Spec => []TypeOK
<1>1. IInv => TypeOK
  <2> SUFFICES ASSUME IInv PROVE TypeOK
    OBVIOUS
  <2>1. ASSUME NEW k \in ReadKeys
        PROVE  k \in KeyType /\ k.fingerprint \in Readable
    BY <2>1 DEF ReadKeys, KeyType, Readable
  <2>2. ASSUME NEW o \in bronze
        PROVE  o.key \in KeyType /\ \A r \in o.rows : r[2] \in Numbers[o.key.fingerprint]
    <3>1. o.key \in KeyType /\ o.key.fingerprint \in Readable
      BY <2>1, <2>2 DEF IInv, Contents
    <3>2. o.rows = EventRows(o.key.fingerprint)
      BY <2>2 DEF IInv, Contents
    <3>3. AcceptedRows[o.key.fingerprint] \subseteq Numbers[o.key.fingerprint]
      BY <3>1, Rows
    <3> QED
      BY <3>1, <3>2, <3>3 DEF EventRows
  <2>3. ASSUME NEW o \in quarantine
        PROVE  o.key \in KeyType /\ o.rows \subseteq Numbers[o.key.fingerprint]
    <3>1. o.key \in KeyType /\ o.key.fingerprint \in Readable
      BY <2>1, <2>3 DEF IInv, Contents
    <3> QED
      BY <2>3, <3>1, Rows DEF IInv, Contents
  <2>4. ASSUME NEW r \in reports
        PROVE  r \in [key : KeyType, input_rows : Nat, accepted_rows : Nat, rejected_rows : Nat]
    <3> DEFINE k == r.key
    <3>1. k \in ReadKeys /\ r = ReportOf(k)
      BY <2>4 DEF IInv, Reports
    <3> HIDE DEF k
    <3>2. k \in KeyType /\ k.fingerprint \in Readable
      BY <2>1, <3>1
    <3> QED
      BY <3>1, <3>2, Counts DEF ReportOf
  <2> QED
    BY <2>2, <2>3, <2>4 DEF TypeOK, IInv, Typed, Positions
<1> QED
  BY <1>1, Invariance, PTL

\* Two event ids are the same only for the same row, or for rows that bring their own.
LEMMA EventIds ==
  ASSUME NEW f, NEW g, NEW n, NEW m, EventId(f, n) = EventId(g, m)
  PROVE  (f = g /\ n = m) \/ (HasOwnId(f, n) /\ HasOwnId(g, m))
<1>1. CASE HasOwnId(f, n) /\ HasOwnId(g, m)
  BY <1>1
<1>2. CASE ~ HasOwnId(f, n) /\ ~ HasOwnId(g, m)
  BY <1>2 DEF EventId, HasOwnId
<1>3. ASSUME NEW a, NEW b
      PROVE  [column |-> a] # [digest |-> b]
  <2>1. DOMAIN [column |-> a] = {"column"} /\ DOMAIN [digest |-> b] = {"digest"}
    OBVIOUS
  <2> QED
    BY <2>1
<1>4. CASE HasOwnId(f, n) /\ ~ HasOwnId(g, m)
  BY <1>3, <1>4, Zenon DEF EventId, HasOwnId
<1>5. CASE ~ HasOwnId(f, n) /\ HasOwnId(g, m)
  BY <1>3, <1>5, Zenon DEF EventId, HasOwnId
<1> QED
  BY <1>1, <1>2, <1>4, <1>5

\* What ingests of a fingerprint have brought are rows of its file, and all those that
\* are accepted once an ingest has reported.
LEMMA BroughtRows ==
  ASSUME IInv, NEW f
  PROVE  /\ \A x \in Brought(f) :
              f \in Readable /\ \E n \in AcceptedRows[f] : x = <<EventId(f, n), n>>
         /\ \A r \in reports : r.key.fingerprint = f => Brought(f) = EventRows(f)
<1>1. ASSUME NEW o \in bronze, o.key.fingerprint = f
      PROVE  f \in Readable /\ o.rows = EventRows(f)
  BY <1>1 DEF IInv, Contents, ReadKeys
<1>2. ASSUME NEW x \in Brought(f)
      PROVE  f \in Readable /\ x \in EventRows(f)
  <2>1. PICK o \in bronze : o.key.fingerprint = f /\ x \in o.rows
    BY <1>2 DEF Brought
  <2> QED
    BY <1>1, <2>1
<1>3. ASSUME NEW r \in reports, r.key.fingerprint = f, NEW x \in EventRows(f)
      PROVE  x \in Brought(f)
  <2>1. AcceptedRows[f] # {}
    BY <1>3 DEF EventRows
  <2>2. PICK o \in bronze : o.key = r.key
    BY <1>3, <2>1 DEF IInv, Reports, InBronze
  <2> QED
    BY <1>1, <1>3, <2>2 DEF Brought
<1> QED
  BY <1>2, <1>3 DEF EventRows

\* Once an ingest has reported, each row of the file is there exactly once, however
\* often it is ingested: in the quarantine object of the report, or as one event that no
\* other row is, unless it brings an id of its own.
THEOREM EachRowOnceHolds == Spec => []EachRowOnce
<1>1. IInv => EachRowOnce
  <2> SUFFICES ASSUME IInv, NEW r \in reports
               PROVE  LET f == r.key.fingerprint
                      IN  /\ r.input_rows = r.accepted_rows + r.rejected_rows
                          /\ r.rejected_rows > 0 =>
                               \E o \in quarantine :
                                 o.key = r.key /\ Cardinality(o.rows) = r.rejected_rows
                          /\ Cardinality({x[2] : x \in Brought(f)}) = r.accepted_rows
                          /\ \A x, y \in Brought(f) : x[2] = y[2] => x[1] = y[1]
                          /\ \A g \in Fingerprints : \A x \in Brought(f), y \in Brought(g) :
                               x[1] = y[1] => \/ f = g /\ x[2] = y[2]
                                              \/ HasOwnId(f, x[2]) /\ HasOwnId(g, y[2])
    BY DEF EachRowOnce
  <2> DEFINE f == r.key.fingerprint
  <2>1. f \in Readable
    BY DEF IInv, Reports, ReadKeys
  <2>2. /\ r.input_rows = Cardinality(Numbers[f])
        /\ r.accepted_rows = Cardinality(AcceptedRows[f])
        /\ r.rejected_rows = Cardinality(RejectedRows[f])
    <3>1. r = ReportOf(r.key)
      BY DEF IInv, Reports
    <3> QED
      BY <3>1 DEF ReportOf
  <2>3. r.input_rows = r.accepted_rows + r.rejected_rows
    BY <2>1, <2>2, Counts
  <2>4. ASSUME r.rejected_rows > 0
        PROVE  \E o \in quarantine : o.key = r.key /\ Cardinality(o.rows) = r.rejected_rows
    <3>1. RejectedRows[f] # {}
      BY <2>1, <2>2, <2>4, Counts
    <3>2. PICK o \in quarantine : o.key = r.key
      BY <3>1 DEF IInv, Reports, InQuarantine
    <3>3. o.rows = RejectedRows[f]
      BY <3>2 DEF IInv, Contents
    <3> QED
      BY <2>2, <3>2, <3>3
  <2>5. {x[2] : x \in Brought(f)} = AcceptedRows[f]
    <3>1. Brought(f) = EventRows(f)
      BY BroughtRows
    <3>2. ASSUME NEW n \in AcceptedRows[f]
          PROVE  \E x \in Brought(f) : x[2] = n
      <4>1. <<EventId(f, n), n>> \in Brought(f)
        BY <3>1 DEF EventRows
      <4> QED
        BY <4>1
    <3>3. ASSUME NEW x \in Brought(f)
          PROVE  x[2] \in AcceptedRows[f]
      BY BroughtRows
    <3> QED
      BY <3>2, <3>3
  <2>6. \A x, y \in Brought(f) : x[2] = y[2] => x[1] = y[1]
    BY BroughtRows
  <2>7. ASSUME NEW g \in Fingerprints, NEW x \in Brought(f), NEW y \in Brought(g), x[1] = y[1]
        PROVE  \/ f = g /\ x[2] = y[2]
               \/ HasOwnId(f, x[2]) /\ HasOwnId(g, y[2])
    <3>1. PICK n : x = <<EventId(f, n), n>>
      BY BroughtRows
    <3>2. PICK m : y = <<EventId(g, m), m>>
      BY BroughtRows
    <3>3. EventId(f, n) = EventId(g, m) /\ x[2] = n /\ y[2] = m
      BY <2>7, <3>1, <3>2
    <3> QED
      BY <3>3, EventIds
  <2> QED
    BY <2>2, <2>3, <2>4, <2>5, <2>6, <2>7
<1> QED
  BY <1>1, Invariance, PTL

\* Of the rows that are accepted, exactly those can be loaded that have a segment id and
\* a speed that does not vanish beside the reference speed.
THEOREM NamedRowsLoadHolds == Spec => []NamedRowsLoad
<1>1. IInv => NamedRowsLoad
  <2> SUFFICES ASSUME IInv, NEW row \in BronzeRows
               PROVE  MeetsRawConstraints(row) <=> row.segment_id # Null /\ HasSpeedIndex(row)
    BY DEF NamedRowsLoad
  <2>1. PICK o \in bronze : \E x \in o.rows : row = RowsOf[o.key.fingerprint][x[2]]
    BY DEF BronzeRows
  <2> DEFINE f == o.key.fingerprint
  <2>2. f \in Readable /\ o.rows = EventRows(f)
    BY DEF IInv, Contents, ReadKeys
  <2>3. PICK x \in o.rows : row = RowsOf[f][x[2]]
    BY <2>1
  <2>4. x[2] \in AcceptedRows[f]
    BY <2>2 DEF EventRows
  <2>5. row \in Row /\ IsAccepted(row)
    BY <2>2, <2>3, <2>4, Rows
  <2> QED
    BY <2>5, AcceptedRowLoads
<1> QED
  BY <1>1, Invariance, PTL
=============================================================================
