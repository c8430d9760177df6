----------------------------- MODULE FullRefresh -----------------------------
(***************************************************************************)
(* What the incremental fact of the warehouse promises: every build of it  *)
(* leaves a copy of the raw table as it is at one instant, as if it were   *)
(* built anew.                                                             *)
(***************************************************************************)
CONSTANTS Events, Batches, Instants, None

VARIABLES
  raw, fact,
  built     \* the fact has been built since a build was begun

\* The raw table after a batch is upserted at an instant.
Upserted(batch, at) ==
  [e \in Events |-> IF e \in DOMAIN batch THEN [level |-> batch[e], loaded_at |-> at]
                                          ELSE raw[e]]

Init == raw = [e \in Events |-> None] /\ fact = raw /\ built = FALSE

Load == \E batch \in Batches, at \in Instants :
  raw' = Upserted(batch, at) /\ UNCHANGED <<fact, built>>

Begin == built' = FALSE /\ UNCHANGED <<raw, fact>>

Rebuild == fact' = raw /\ built' = TRUE /\ UNCHANGED raw

Next == Load \/ Begin \/ Rebuild

Spec == Init /\ [][Next]_<<raw, fact, built>>
=============================================================================
