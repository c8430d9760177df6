---------------------------- MODULE MCWarehouse ----------------------------
(* Two segments, one of them observed twice, and batches with which a       *)
(* segment appears, changes its level and is loaded again.                  *)
EXTENDS Warehouse, TLC

CONSTANTS e1, e2, e3, s1, s2

MCSegmentOf == e1 :> s1 @@ e2 :> s1 @@ e3 :> s2
MCObservedAt == e1 :> 1 @@ e2 :> 2 @@ e3 :> 1
MCBatches == {e1 :> "SMOOTH", e2 :> "SEVERE", e3 :> "SLOW", e2 :> "UNKNOWN",
              e1 :> "SLOW" @@ e3 :> "SMOOTH"}
=============================================================================
