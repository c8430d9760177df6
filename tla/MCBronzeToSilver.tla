-------------------------- MODULE MCBronzeToSilver --------------------------
(* Two objects that share an event, as when a snapshot is collected twice. *)
EXTENDS BronzeToSilver, TLC

CONSTANTS k1, k2, e1, e2

MCEventsOf == k1 :> {e1, e2} @@ k2 :> {e2}

Symmetry == Permutations(Runs) \cup Permutations(Threads)
=============================================================================
