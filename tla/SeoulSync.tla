------------------------------ MODULE SeoulSync ------------------------------
(***************************************************************************)
(* The source sync (seoul_citydata.py), which the control API runs on      *)
(* request: for one area after the other it fetches the road traffic of    *)
(* the Seoul citydata API, preserves the response under landing/, and      *)
(* stores the rows it accepts under bronze/ and those it rejects under     *)
(* quarantine/.                                                            *)
(*                                                                         *)
(* The DAG asks every 15 minutes, gives up after 120 seconds and asks      *)
(* again while the first sync may still run; an operator may ask as well.  *)
(* Fetches and uploads fail, and the process may be killed.                *)
(*                                                                         *)
(* Data: a payload is an area and a version, which stand for its SHA-256;  *)
(* the dates in the keys are those of the snapshot and left out.           *)
(***************************************************************************)
EXTENDS Naturals, Sequences, FiniteSets

CONSTANTS
  Areas,           \* areas of the source
  AreaLists,       \* the lists of areas a request may name, the default among them
  Code,            \* AREA_CD of an answer, or UNKNOWN when it has none
  Versions,        \* what the source may answer about an area
  Links,           \* LINK_IDs
  Accepted,        \* the links _normalize_road accepts in a payload
  Rejected,        \* the links it rejects
  Threads,         \* request threads of the control API
  SnapshotLength,  \* five minutes
  MaxInstant,      \* bound: the clock
  MaxSyncs,        \* bound: requests
  MaxFaults,       \* bound: uploads that raise and kills
  None

Payloads == [area : Areas, version : Versions]

ASSUME ConstantsAssumption ==
  /\ AreaLists \subseteq Seq(Areas) \ {<<>>}
  /\ Accepted \in [Payloads -> SUBSET Links] /\ Rejected \in [Payloads -> SUBSET Links]
  /\ IsFiniteSet(Links)
  /\ SnapshotLength \in Nat \ {0} /\ MaxInstant \in Nat /\ MaxSyncs \in Nat /\ MaxFaults \in Nat
  /\ None \notin Payloads

VARIABLES
  clock,
  landing,       \* objects under landing/: key and payload
  bronze,        \* objects under bronze/: key, payload and event ids of the rows, instant
  quarantine,    \* objects under quarantine/: key and rejected links
  pc,            \* where a thread is in sync_seoul_citydata
  todo,          \* its areas left
  retrieved_at,  \* the instant it began
  attempt,       \* failed attempts of fetch_area
  payload,       \* the payload of the area in progress
  report,        \* the report so far, complete when the thread is idle
  abandoned,     \* history: keys at which a sync broke off
  syncs,         \* requests so far
  faults         \* faults so far

store == <<landing, bronze, quarantine>>
locals == <<todo, retrieved_at, attempt, payload, report>>
vars == <<clock, landing, bronze, quarantine, pc, todo, retrieved_at, attempt,
          payload, report, abandoned, syncs, faults>>

NoReport == [raw_objects |-> {}, bronze_objects |-> {},
             input_rows |-> 0, accepted_rows |-> 0, rejected_rows |-> 0]

Init ==
  /\ clock = 0
  /\ landing = {} /\ bronze = {} /\ quarantine = {}
  /\ pc = [t \in Threads |-> "idle"]
  /\ todo = [t \in Threads |-> <<>>]
  /\ retrieved_at = [t \in Threads |-> 0]
  /\ attempt = [t \in Threads |-> 0]
  /\ payload = [t \in Threads |-> None]
  /\ report = [t \in Threads |-> NoReport]
  /\ abandoned = {} /\ syncs = 0 /\ faults = 0
-----------------------------------------------------------------------------
(* Names.                                                                  *)

\* Mutant of SnapshotTime: the instant itself.
SnapshotTimeExact(i) == i

\* The instant, floored to five minutes.
SnapshotTime(i) == i - (i % SnapshotLength)

\* Mutant of Key: without the digest of the payload.
KeyWithoutDigest(t) ==
  [area_code |-> Code[payload[t]], snapshot_at |-> SnapshotTime(retrieved_at[t]),
   digest |-> None]

\* raw_key, bronze_key and quarantine_key, but for their prefix.
Key(t) ==
  [area_code |-> Code[payload[t]], snapshot_at |-> SnapshotTime(retrieved_at[t]),
   digest |-> payload[t]]

\* The ids of the events a payload holds.
EventIds(t) ==
  {[area_code |-> Code[payload[t]], link |-> l, snapshot_at |-> SnapshotTime(retrieved_at[t])] :
     l \in Accepted[payload[t]]}

\* Storing an object replaces the one of its key.
Put(objects, o) == {p \in objects : p.key # o.key} \cup {o}
-----------------------------------------------------------------------------
Tick ==
  /\ clock < MaxInstant /\ clock' = clock + 1
  /\ UNCHANGED <<store, pc, locals, abandoned, faults, syncs>>

Start(t, areas) ==
  /\ pc[t] = "idle"
  /\ syncs < MaxSyncs /\ syncs' = syncs + 1
  /\ pc' = [pc EXCEPT ![t] = "fetch"]
  /\ todo' = [todo EXCEPT ![t] = areas]
  /\ retrieved_at' = [retrieved_at EXCEPT ![t] = clock]
  /\ report' = [report EXCEPT ![t] = NoReport]
  /\ UNCHANGED <<clock, store, attempt, payload, abandoned, faults>>

\* The sync raises: the endpoint answers 502 or 500.
Raised(t) ==
  /\ pc' = [pc EXCEPT ![t] = "idle"]
  /\ todo' = [todo EXCEPT ![t] = <<>>]
  /\ attempt' = [attempt EXCEPT ![t] = 0]
  /\ payload' = [payload EXCEPT ![t] = None]
  /\ report' = [report EXCEPT ![t] = NoReport]
  /\ retrieved_at' = [retrieved_at EXCEPT ![t] = 0]

\* Mutant of FetchFails: one attempt too many.
FetchFailsOnceMore(t) ==
  /\ pc[t] = "fetch"
  /\ IF attempt[t] <= 2
       THEN /\ attempt' = [attempt EXCEPT ![t] = @ + 1]
            /\ UNCHANGED <<pc, todo, retrieved_at, payload, report>>
       ELSE Raised(t)
  /\ UNCHANGED <<clock, store, abandoned, faults, syncs>>

\* fetch_area: no answer, no JSON, or no roads in it; three attempts.
FetchFails(t) ==
  /\ pc[t] = "fetch"
  /\ IF attempt[t] < 2
       THEN /\ attempt' = [attempt EXCEPT ![t] = @ + 1]
            /\ UNCHANGED <<pc, todo, retrieved_at, payload, report>>
       ELSE Raised(t)
  /\ UNCHANGED <<clock, store, abandoned, faults, syncs>>

\* The source answers anything at any time.
Fetch(t, v) ==
  /\ pc[t] = "fetch"
  /\ payload' = [payload EXCEPT ![t] = [area |-> Head(todo[t]), version |-> v]]
  /\ attempt' = [attempt EXCEPT ![t] = 0]
  /\ pc' = [pc EXCEPT ![t] = "raw"]
  /\ UNCHANGED <<clock, store, todo, retrieved_at, report, abandoned, faults, syncs>>

RawObject(t) == [key |-> Key(t), payload |-> payload[t]]
BronzeObject(t) == [key |-> Key(t), payload |-> payload[t], event_ids |-> EventIds(t),
                    ingested_at |-> retrieved_at[t]]
QuarantineObject(t) == [key |-> Key(t), links |-> Rejected[payload[t]]]

\* Mutant of AfterBronze: elif area_rejects.
AfterBronzeElse(t) == "area"

AfterBronze(t) == IF Rejected[payload[t]] # {} THEN "quarantine" ELSE "area"

\* The response is preserved before anything is derived from it.
UploadRaw(t) ==
  /\ pc[t] = "raw"
  /\ landing' = Put(landing, RawObject(t))
  /\ pc' = [pc EXCEPT ![t] = IF Accepted[payload[t]] # {} THEN "bronze"
                             ELSE IF Rejected[payload[t]] # {} THEN "quarantine"
                             ELSE "area"]
  /\ UNCHANGED <<clock, bronze, quarantine, locals, abandoned, faults, syncs>>

UploadBronze(t) ==
  /\ pc[t] = "bronze"
  /\ bronze' = Put(bronze, BronzeObject(t))
  /\ pc' = [pc EXCEPT ![t] = AfterBronze(t)]
  /\ UNCHANGED <<clock, landing, quarantine, locals, abandoned, faults, syncs>>

UploadQuarantine(t) ==
  /\ pc[t] = "quarantine"
  /\ quarantine' = Put(quarantine, QuarantineObject(t))
  /\ pc' = [pc EXCEPT ![t] = "area"]
  /\ UNCHANGED <<clock, landing, bronze, locals, abandoned, faults, syncs>>

\* Mutant of Reported: a bronze object is reported for every area.
ReportedAlways(t) ==
  LET v == payload[t]
  IN  [raw_objects    |-> report[t].raw_objects \cup {Key(t)},
       bronze_objects |-> report[t].bronze_objects \cup {Key(t)},
       input_rows     |-> report[t].input_rows + Cardinality(Accepted[v]) + Cardinality(Rejected[v]),
       accepted_rows  |-> report[t].accepted_rows + Cardinality(Accepted[v]),
       rejected_rows  |-> report[t].rejected_rows + Cardinality(Rejected[v])]

\* What the area adds to the report.
Reported(t) ==
  LET v == payload[t]
  IN  [raw_objects    |-> report[t].raw_objects \cup {Key(t)},
       bronze_objects |-> report[t].bronze_objects
                            \cup (IF Accepted[v] # {} THEN {Key(t)} ELSE {}),
       input_rows     |-> report[t].input_rows + Cardinality(Accepted[v]) + Cardinality(Rejected[v]),
       accepted_rows  |-> report[t].accepted_rows + Cardinality(Accepted[v]),
       rejected_rows  |-> report[t].rejected_rows + Cardinality(Rejected[v])]

\* The area is done: the next one, or the sync returns its report.
FinishArea(t) ==
  /\ pc[t] = "area"
  /\ report' = [report EXCEPT ![t] = Reported(t)]
  /\ todo' = [todo EXCEPT ![t] = Tail(todo[t])]
  /\ payload' = [payload EXCEPT ![t] = None]
  /\ IF Len(todo[t]) = 1
       THEN /\ pc' = [pc EXCEPT ![t] = "idle"]
            /\ retrieved_at' = [retrieved_at EXCEPT ![t] = 0]
       ELSE /\ pc' = [pc EXCEPT ![t] = "fetch"]
            /\ UNCHANGED retrieved_at
  /\ UNCHANGED <<clock, store, attempt, abandoned, faults, syncs>>
-----------------------------------------------------------------------------
(* Faults.                                                                 *)

BrokenOff(T) == {Key(t) : t \in {u \in T : pc[u] \in {"bronze", "quarantine"}}}

\* Mutant of UploadRaises: the exception of an upload is swallowed.
UploadSwallowed(t) ==
  /\ pc[t] \in {"raw", "bronze", "quarantine", "area"}
  /\ faults < MaxFaults /\ faults' = faults + 1
  /\ pc' = [pc EXCEPT ![t] = IF pc[t] = "raw" THEN "bronze" ELSE "area"]
  /\ abandoned' = abandoned \cup BrokenOff({t})
  /\ UNCHANGED <<clock, store, locals, syncs>>

\* An upload raises: the one at hand, which has not taken place, or the one
\* before, which has.
UploadRaises(t) ==
  /\ pc[t] \in {"raw", "bronze", "quarantine", "area"}
  /\ faults < MaxFaults /\ faults' = faults + 1
  /\ Raised(t)
  /\ abandoned' = abandoned \cup BrokenOff({t})
  /\ UNCHANGED <<clock, store, syncs>>

\* The container is killed: every sync is gone.
Kill ==
  /\ faults < MaxFaults /\ faults' = faults + 1
  /\ pc' = [t \in Threads |-> "idle"]
  /\ todo' = [t \in Threads |-> <<>>]
  /\ attempt' = [t \in Threads |-> 0]
  /\ payload' = [t \in Threads |-> None]
  /\ report' = [t \in Threads |-> NoReport]
  /\ retrieved_at' = [t \in Threads |-> 0]
  /\ abandoned' = abandoned \cup BrokenOff(Threads)
  /\ UNCHANGED <<clock, store, syncs>>
-----------------------------------------------------------------------------
Sync(t) ==
  \/ \E l \in AreaLists : Start(t, l)
  \/ \E v \in Versions : Fetch(t, v)
  \/ FetchFails(t)
  \/ UploadRaw(t) \/ UploadBronze(t) \/ UploadQuarantine(t) \/ FinishArea(t)
  \/ UploadRaises(t)

Next ==
  \/ Tick
  \/ \E t \in Threads : Sync(t)
  \/ Kill

Spec == Init /\ [][Next]_vars
-----------------------------------------------------------------------------
(* Properties.                                                             *)

Codes == {Code[v] : v \in Payloads}
Keys == [area_code : Codes, snapshot_at : 0 .. MaxInstant, digest : Payloads]
Events == [area_code : Codes, link : Links, snapshot_at : 0 .. MaxInstant]
Place == {"idle", "fetch", "raw", "bronze", "quarantine", "area"}

TypeOK ==
  /\ clock \in 0 .. MaxInstant
  /\ landing \subseteq [key : Keys, payload : Payloads]
  /\ bronze \subseteq [key : Keys, payload : Payloads, event_ids : (SUBSET Events) \ {{}},
                       ingested_at : 0 .. MaxInstant]
  /\ quarantine \subseteq [key : Keys, links : (SUBSET Links) \ {{}}]
  /\ pc \in [Threads -> Place]
  /\ todo \in [Threads -> Seq(Areas)]
  /\ retrieved_at \in [Threads -> 0 .. MaxInstant]
  /\ attempt \in [Threads -> 0 .. 2]
  /\ payload \in [Threads -> Payloads \cup {None}]
  /\ report \in [Threads -> [raw_objects : SUBSET Keys, bronze_objects : SUBSET Keys,
                             input_rows : Nat, accepted_rows : Nat, rejected_rows : Nat]]
  /\ abandoned \subseteq Keys /\ syncs \in 0 .. MaxSyncs /\ faults \in 0 .. MaxFaults
  /\ \A t \in Threads : /\ pc[t] # "idle" => todo[t] # <<>>
                        /\ pc[t] \in {"raw", "bronze", "quarantine", "area"} <=> payload[t] # None

\* What the Spark job relies on when it consults the manifest by key alone: an
\* object that is stored again, by a retry or by a sync that runs at the same
\* time, holds the same events, and only their instant may differ.
KeyFixesEvents ==
  [][\A o \in bronze, p \in bronze' : o.key = p.key => o.event_ids = p.event_ids]_vars

\* Nothing is derived from a response that is not preserved: the payload whose
\* digest the rows of a bronze object carry lies under landing/ for ever, after
\* failures, retries and other answers within the same snapshot too.
Lineage == \A o \in bronze : \E r \in landing : r.payload = o.payload /\ r.key = o.key

\* Every row of a preserved response is accepted or quarantined, unless a sync
\* is still at it or has broken off at it.
NothingDropped ==
  \A r \in landing :
    \/ \E t \in Threads : pc[t] \in {"bronze", "quarantine"} /\ Key(t) = r.key
    \/ r.key \in abandoned
    \/ LET v == r.payload
       IN  /\ Accepted[v] # {} => \E o \in bronze : o.key = r.key
           /\ Rejected[v] # {} => \E q \in quarantine : q.key = r.key /\ q.links = Rejected[v]

Recollected(o, p) == o.ingested_at \div SnapshotLength = p.ingested_at \div SnapshotLength

\* Two collections within one snapshot give a link the same event id exactly when
\* their answers have the same area code.  So collecting again adds no row to the
\* warehouse unless an answer lacks its AREA_CD and falls back to UNKNOWN: then the
\* link has a second id, whatever docs/data-contract.md says of every recollection.
\* And only answers about different areas that share a code, which is UNKNOWN then,
\* can take each other's rows.
RecollectionDeduplicates ==
  \A o, p \in bronze :
    Recollected(o, p) =>
      \A e \in o.event_ids, f \in p.event_ids :
        e.link = f.link => (e = f <=> Code[o.payload] = Code[p.payload])

\* A report counts and names what is stored, also while other syncs store.
ReportsHold ==
  \A t \in Threads :
    /\ \A k \in report[t].raw_objects : \E r \in landing : r.key = k
    /\ \A k \in report[t].bronze_objects : \E o \in bronze : o.key = k
    /\ report[t].accepted_rows > 0 <=> report[t].bronze_objects # {}
    /\ report[t].input_rows = report[t].accepted_rows + report[t].rejected_rows
=============================================================================
