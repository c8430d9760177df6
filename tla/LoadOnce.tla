------------------------------ MODULE LoadOnce ------------------------------
(***************************************************************************)
(* What the bronze-to-silver load promises, without its steps.  Objects    *)
(* land in the lake; from time to time a set of landed objects is loaded:  *)
(* in one step they are recorded as done and every event they contain is   *)
(* in the warehouse table.  Nothing is ever half loaded, and nothing is    *)
(* taken back.  README.md of the repository states it as: the upsert of    *)
(* the observations and the record of the completed files are settled in   *)
(* the same PostgreSQL transaction.                                        *)
(***************************************************************************)
CONSTANTS
  Keys,       \* object keys
  EventsOf    \* the event ids in the rows of an object

VARIABLES
  landed,     \* objects in the lake
  done,       \* objects recorded as completely processed
  table       \* event ids that have a row in the warehouse

vars == <<landed, done, table>>

Init == landed = {} /\ done = {} /\ table = {}

Land(k) ==
  /\ landed' = landed \cup {k}
  /\ UNCHANGED <<done, table>>

Load(S) ==
  /\ S # {} /\ S \subseteq landed
  /\ done' = done \cup S
  /\ table' = table \cup UNION {EventsOf[k] : k \in S}
  /\ UNCHANGED landed

Next ==
  \/ \E k \in Keys : Land(k)
  \/ \E S \in SUBSET Keys : Load(S)

Spec == Init /\ [][Next]_vars

\* The promise over time: no landed object waits for ever.  The module that
\* implements this one owes it under its own fairness.
EveryObjectIsLoaded == \A k \in Keys : (k \in landed) ~> (k \in done)
=============================================================================
