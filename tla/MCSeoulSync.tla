---------------------------- MODULE MCSeoulSync ----------------------------
(* What the source answers about the first area holds rows of both kinds or *)
(* more accepted rows, about the second one rejected rows only or both.  The*)
(* second answers lack AREA_CD and share a link.                            *)
EXTENDS SeoulSync, TLC

CONSTANTS a1, a2, v1, v2, l1, l2, t1, t2

Answer(a, v) == [area |-> a, version |-> v]

MCAreaLists == {<<a1, a2>>, <<a1>>}
MCCode == Answer(a1, v1) :> "POI009" @@ Answer(a1, v2) :> "UNKNOWN"
          @@ Answer(a2, v1) :> "POI010" @@ Answer(a2, v2) :> "UNKNOWN"
MCAccepted == Answer(a1, v1) :> {l1} @@ Answer(a1, v2) :> {l1, l2}
              @@ Answer(a2, v1) :> {} @@ Answer(a2, v2) :> {l1}
MCRejected == Answer(a1, v1) :> {l2} @@ Answer(a1, v2) :> {}
              @@ Answer(a2, v1) :> {l1} @@ Answer(a2, v2) :> {l2}
Symmetry == Permutations(Threads)
=============================================================================
