---------------------------- MODULE MCPipeline ----------------------------
(* One retry of the tasks that matter here, and the symmetry of objects and *)
(* runs for the runs without liveness.                                      *)
EXTENDS Pipeline, TLC

MCRetries == [t \in Tasks |-> IF t \in {"spark", "dbt", "publish"} THEN 1 ELSE 0]

Symmetry == Permutations(Objects) \cup Permutations(Runs)
=============================================================================
