----------------------------- MODULE RowContract -----------------------------
(***************************************************************************)
(* The contracts of a row: that of the file ingest, which classifies rows  *)
(* in SQL (view classified in batch_ingest.py), and the constraints of the *)
(* raw table, which a row meets in the end (database.py).                  *)
(*                                                                         *)
(* Conditions are three-valued: a comparison with NULL is NULL, and a WHEN *)
(* is taken only when its condition is true.  Quantities are integers:     *)
(* speeds and lengths in units of 0.00001, volumes and times in their own. *)
(***************************************************************************)
EXTENDS Integers, Sequences

CONSTANTS Null, None

Reasons ==
  {"INVALID_SEGMENT_ID", "MISSING_ROAD_NAME", "INVALID_LATITUDE", "INVALID_LONGITUDE",
   "INVALID_OBSERVED_AT", "INVALID_VEHICLE_TYPE", "INVALID_SEGMENT_LENGTH", "INVALID_SPEED",
   "INVALID_REFERENCE_SPEED", "INVALID_TRAFFIC_VOLUME", "INVALID_TRAVEL_TIME"}

\* NULL is told from every text, and no reject reason from every reason.
ASSUME NoValueAssumption == Null \notin STRING /\ None \notin Reasons

\* A normalized row, but for the columns with a default that no condition reads: texts
\* and quantities that are missing or cannot be cast are Null, and the vehicle type is
\* that of the options then.
Row ==
  [event_id : STRING \cup {Null}, segment_id : STRING \cup {Null},
   road_name : STRING \cup {Null}, vehicle_type : STRING,
   latitude : Int \cup {Null}, longitude : Int \cup {Null}, observed_at : Int \cup {Null},
   segment_length_km : Int \cup {Null}, speed_kph : Int \cup {Null},
   reference_speed_kph : Int \cup {Null}, traffic_volume : Int \cup {Null},
   travel_time_seconds : Int \cup {Null}]

SegmentIds == {"SEG-001"}  \* stands for what matches SEG-[0-9]{3}
NoText == ""
VehicleTypes == {"PASSENGER", "BUS", "TRUCK", "ALL"}
Unit == 100000
-----------------------------------------------------------------------------
(* Three-valued logic.                                                     *)

Known(b) == IF b THEN "true" ELSE "false"

IsNull(v) == Known(v = Null)

Member(v, S) == IF v = Null THEN "null" ELSE Known(v \in S)

Between(v, low, high) == IF v = Null THEN "null" ELSE Known(low <= v /\ v <= high)

Not(c) == CASE c = "true" -> "false" [] c = "false" -> "true" [] c = "null" -> "null"

Either(c, d) == IF "true" \in {c, d} THEN "true"
                ELSE IF "null" \in {c, d} THEN "null" ELSE "false"
-----------------------------------------------------------------------------
\* Mutant of Outside: without IS NULL.
NotBetween(v, low, high) == Not(Between(v, low, high))

\* IS NULL OR NOT BETWEEN
Outside(v, low, high) == Either(IsNull(v), Not(Between(v, low, high)))

\* The WHENs of the CASE, in their order.
Rules(row) ==
  <<[when |-> Not(Member(row.segment_id, SegmentIds)),         reason |-> "INVALID_SEGMENT_ID"],
    [when |-> Either(IsNull(row.road_name), Member(row.road_name, {NoText})),
                                                               reason |-> "MISSING_ROAD_NAME"],
    [when |-> Outside(row.latitude, -90, 90),                reason |-> "INVALID_LATITUDE"],
    [when |-> Outside(row.longitude, -180, 180),             reason |-> "INVALID_LONGITUDE"],
    [when |-> IsNull(row.observed_at),                         reason |-> "INVALID_OBSERVED_AT"],
    [when |-> Not(Member(row.vehicle_type, VehicleTypes)),     reason |-> "INVALID_VEHICLE_TYPE"],
    [when |-> Outside(row.segment_length_km, 1, 100 * Unit), reason |-> "INVALID_SEGMENT_LENGTH"],
    [when |-> Outside(row.speed_kph, 1, 180 * Unit),         reason |-> "INVALID_SPEED"],
    [when |-> Outside(row.reference_speed_kph, 1, 180 * Unit),
                                                               reason |-> "INVALID_REFERENCE_SPEED"],
    [when |-> Outside(row.traffic_volume, 0, 20000),         reason |-> "INVALID_TRAFFIC_VOLUME"],
    [when |-> Outside(row.travel_time_seconds, 1, 7200),     reason |-> "INVALID_TRAVEL_TIME"]>>

\* reject_reason: that of the first WHEN that is taken.
RejectReason(row) ==
  LET rules == Rules(row)
      taken == {i \in DOMAIN rules : rules[i].when = "true"}
  IN  IF taken = {} THEN None ELSE rules[CHOOSE i \in taken : \A j \in taken : i <= j].reason

IsAccepted(row) == RejectReason(row) = None
-----------------------------------------------------------------------------
\* The speed index of the job is rounded to six digits: it is positive when the
\* quotient is at least half of the last digit.
HasSpeedIndex(row) ==
  /\ Null \notin {row.speed_kph, row.reference_speed_kph}
  /\ row.speed_kph >= (row.reference_speed_kph + 1999999) \div 2000000

\* NOT NULL and CHECK.
MeetsRawConstraints(row) ==
  /\ \A column \in {"segment_id", "road_name", "latitude", "longitude", "observed_at",
                    "vehicle_type", "segment_length_km", "speed_kph", "travel_time_seconds"} :
       row[column] # Null
  /\ row.segment_length_km > 0 /\ row.speed_kph > 0 /\ row.travel_time_seconds > 0
  /\ row.traffic_volume # Null => row.traffic_volume >= 0
  /\ row.reference_speed_kph # Null => row.reference_speed_kph > 0 /\ HasSpeedIndex(row)
=============================================================================
