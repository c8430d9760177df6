---------------------------- MODULE MCBatchIngest ----------------------------
(* Rows with the value of a column at a bound, beyond it, or missing, as it   *)
(* is when it cannot be cast.                                                *)
EXTENDS BatchIngest, SequencesExt

CONSTANTS f1, f2, f3, m1, m2

Good == [event_id |-> Null, segment_id |-> "SEG-001", road_name |-> "road", latitude |-> 37,
         longitude |-> 127, observed_at |-> 0, vehicle_type |-> "ALL",
         segment_length_km |-> Unit, speed_kph |-> 30 * Unit, reference_speed_kph |-> 60 * Unit,
         traffic_volume |-> 100, travel_time_seconds |-> 120]

\* Values at the bounds of a column and beyond them.
Edges ==
  [segment_id          |-> {"SEG-1", Null},
   road_name           |-> {"", Null},
   latitude            |-> {-91, -90, 90, 91, Null},
   longitude           |-> {-181, 180, Null},
   observed_at         |-> {Null},
   vehicle_type        |-> {"BICYCLE"},
   segment_length_km   |-> {0, 1, 100 * Unit + 1, Null},
   speed_kph           |-> {-1, 0, 1, 180 * Unit, 180 * Unit + 1, Null},
   reference_speed_kph |-> {0, 1, 180 * Unit, Null},
   traffic_volume      |-> {-1, 0, 20001, Null},
   travel_time_seconds |-> {0, 7200, 7201, Null}]

OneOff == UNION {{[Good EXCEPT ![c] = v] : v \in Edges[c]} : c \in DOMAIN Edges}

\* Speeds that vanish, or just do not, beside the reference speed.
Speeds == {[Good EXCEPT !.speed_kph = v, !.reference_speed_kph = 180 * Unit] : v \in {1, 8, 9}}

Named == [Good EXCEPT !.event_id = "event-1"]
Slow == [Good EXCEPT !.speed_kph = 0]
AllRows == FoldSet(LAMBDA row, rows : Append(rows, row), <<>>, OneOff \cup Speeds)

\* One file has all rows, one a row with an id of its own and rows without, and of
\* one all rows are rejected; the second column map fits the second file only.
MCRowsOf ==
  [f \in Files \X Options |->
     CASE f = <<f1, m1>> -> AllRows
       [] f = <<f2, m1>> -> <<Good, Named, Named>>
       [] f = <<f2, m2>> -> <<Good, Named, Slow>>
       [] f = <<f3, m1>> -> <<Slow>>
       [] OTHER -> None]

Symmetry == Permutations(Processes)
=============================================================================
