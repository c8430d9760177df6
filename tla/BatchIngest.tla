----------------------------- MODULE BatchIngest -----------------------------
(***************************************************************************)
(* The ingest of a file (batch_ingest.py): it classifies the rows, stores  *)
(* the accepted ones as an object under bronze/ and those it rejects as    *)
(* one under quarantine/, and reports.  The command may be run again with  *)
(* the same file, by several operators at once, on another day, after an   *)
(* upload that raised, or after the process was killed between its uploads.*)
(*                                                                         *)
(* Data: a file stands for its SHA-256; options are the source system, the *)
(* vehicle type and the column map together.                               *)
(***************************************************************************)
EXTENDS RowContract, FiniteSets

CONSTANTS
  Files,
  Options,
  RowsOf,      \* the normalized rows of a file under options, None if they are refused
  Processes,
  MaxDay,      \* bound: the calendar
  MaxIngests,  \* bound: calls of ingest_file
  MaxFaults    \* bound: uploads that raise and kills

Fingerprints == Files \X Options

ASSUME ConstantsAssumption ==
  /\ \A f \in Fingerprints : RowsOf[f] # None => RowsOf[f] \in Seq(Row)
  /\ MaxDay \in Nat /\ MaxIngests \in Nat /\ MaxFaults \in Nat

VARIABLES
  day,
  bronze,      \* objects: key, and the numbered rows with their event ids
  quarantine,  \* objects: key, and the numbers of the rows
  pc,          \* where ingest_file is
  input,       \* its fingerprint
  date,        \* its ingest_date
  reports,     \* what has been reported, but for dry runs
  ingests,     \* so far
  faults       \* so far

store == <<bronze, quarantine>>
bounds == <<ingests, faults>>
vars == <<day, bronze, quarantine, pc, input, date, reports, ingests, faults>>

Init ==
  /\ day = 0
  /\ bronze = {} /\ quarantine = {}
  /\ pc = [p \in Processes |-> "idle"]
  /\ input = [p \in Processes |-> None]
  /\ date = [p \in Processes |-> 0]
  /\ reports = {}
  /\ ingests = 0 /\ faults = 0
-----------------------------------------------------------------------------
(* What a file holds.                                                      *)

Readable == {f \in Fingerprints : RowsOf[f] # None}

Numbers == [f \in Readable |-> DOMAIN RowsOf[f]]
AcceptedRows == [f \in Readable |-> {n \in Numbers[f] : IsAccepted(RowsOf[f][n])}]
RejectedRows == [f \in Readable |-> Numbers[f] \ AcceptedRows[f]]

\* Mutant of EventId: the row number alone.
EventIdByNumber(f, n) ==
  IF RowsOf[f][n].event_id # Null THEN [column |-> RowsOf[f][n].event_id]
                                  ELSE [digest |-> n]

\* The column, or a digest of the fingerprint and the row number.
EventId(f, n) ==
  IF RowsOf[f][n].event_id # Null THEN [column |-> RowsOf[f][n].event_id]
                                  ELSE [digest |-> <<f, n>>]

\* accepted_key and rejected_key, but for their prefix.
Key(p) == [ingest_date |-> date[p], fingerprint |-> input[p]]

Put(objects, o) == {x \in objects : x.key # o.key} \cup {o}
-----------------------------------------------------------------------------
(* ingest_file.                                                            *)

Midnight ==
  /\ day < MaxDay /\ day' = day + 1
  /\ UNCHANGED <<store, pc, input, date, reports, bounds>>

\* Mutant of Start: with options that do not fit the file.
StartUnchecked(p, f) ==
  /\ pc[p] = "idle"
  /\ ingests < MaxIngests /\ ingests' = ingests + 1
  /\ pc' = [pc EXCEPT ![p] = "accepted"]
  /\ input' = [input EXCEPT ![p] = f]
  /\ date' = [date EXCEPT ![p] = day]
  /\ UNCHANGED <<day, store, reports, faults>>

\* The file is read and classified; options that do not fit it are refused, and
\* a dry run ends here.  The date of both keys is fixed.
Start(p, f) ==
  /\ pc[p] = "idle"
  /\ f \in Readable
  /\ ingests < MaxIngests /\ ingests' = ingests + 1
  /\ pc' = [pc EXCEPT ![p] = "accepted"]
  /\ input' = [input EXCEPT ![p] = f]
  /\ date' = [date EXCEPT ![p] = day]
  /\ UNCHANGED <<day, store, reports, faults>>

UploadAccepted(p) ==
  /\ pc[p] = "accepted"
  /\ LET f == input[p]
     IN  bronze' = IF AcceptedRows[f] = {} THEN bronze
                   ELSE Put(bronze, [key |-> Key(p),
                                     rows |-> {<<EventId(f, n), n>> : n \in AcceptedRows[f]}])
  /\ pc' = [pc EXCEPT ![p] = "rejected"]
  /\ UNCHANGED <<day, quarantine, input, date, reports, bounds>>

UploadRejected(p) ==
  /\ pc[p] = "rejected"
  /\ LET f == input[p]
     IN  quarantine' = IF RejectedRows[f] = {} THEN quarantine
                       ELSE Put(quarantine, [key |-> Key(p), rows |-> RejectedRows[f]])
  /\ pc' = [pc EXCEPT ![p] = "report"]
  /\ UNCHANGED <<day, bronze, input, date, reports, bounds>>

Ended(p) ==
  /\ pc' = [pc EXCEPT ![p] = "idle"]
  /\ input' = [input EXCEPT ![p] = None]
  /\ date' = [date EXCEPT ![p] = 0]

Report(p) ==
  /\ pc[p] = "report"
  /\ reports' = reports \cup {[key |-> Key(p),
                               input_rows |-> Cardinality(Numbers[input[p]]),
                               accepted_rows |-> Cardinality(AcceptedRows[input[p]]),
                               rejected_rows |-> Cardinality(RejectedRows[input[p]])]}
  /\ Ended(p)
  /\ UNCHANGED <<day, store, bounds>>

\* The process is killed, or an upload raises, whether or not it has taken place.
Dies(p) ==
  /\ pc[p] # "idle"
  /\ faults < MaxFaults /\ faults' = faults + 1
  /\ Ended(p)
  /\ UNCHANGED <<day, store, reports, ingests>>
-----------------------------------------------------------------------------
Ingest(p) ==
  \/ \E f \in Fingerprints : Start(p, f)
  \/ UploadAccepted(p) \/ UploadRejected(p) \/ Report(p)
  \/ Dies(p)

Next == Midnight \/ \E p \in Processes : Ingest(p)

Spec == Init /\ [][Next]_vars
-----------------------------------------------------------------------------
(* Properties.                                                             *)

KeyType == [ingest_date : 0 .. MaxDay, fingerprint : Fingerprints]

\* Every variable has its type, and nobody ingests with options that are refused.
TypeOK ==
  /\ day \in 0 .. MaxDay
  /\ \A o \in bronze : /\ o.key \in KeyType
                      /\ \A r \in o.rows : r[2] \in Numbers[o.key.fingerprint]
  /\ \A o \in quarantine : /\ o.key \in KeyType
                          /\ o.rows \subseteq Numbers[o.key.fingerprint]
  /\ pc \in [Processes -> {"idle", "accepted", "rejected", "report"}]
  /\ input \in [Processes -> Fingerprints \cup {None}]
  /\ \A p \in Processes : pc[p] # "idle" => input[p] \in Readable
  /\ date \in [Processes -> 0 .. day]
  /\ reports \subseteq [key : KeyType, input_rows : Nat, accepted_rows : Nat, rejected_rows : Nat]
  /\ ingests \in 0 .. MaxIngests /\ faults \in 0 .. MaxFaults

\* The events that ingests of a fingerprint have brought, and the rows they come from.
Brought(f) == UNION {o.rows : o \in {x \in bronze : x.key.fingerprint = f}}

HasOwnId(f, n) == RowsOf[f][n].event_id # Null

\* Once an ingest has reported, each row of the file is there exactly once, however
\* often and on however many days it is ingested, by whom and with which failures:
\* it is in the quarantine object of the report, or it is one event that no other
\* row is, unless it brings an id of its own.  And the report adds up.
EachRowOnce ==
  \A r \in reports :
    LET f == r.key.fingerprint
    IN  /\ r.input_rows = r.accepted_rows + r.rejected_rows
        /\ r.rejected_rows > 0 =>
             \E o \in quarantine : o.key = r.key /\ Cardinality(o.rows) = r.rejected_rows
        /\ Cardinality({x[2] : x \in Brought(f)}) = r.accepted_rows
        /\ \A x, y \in Brought(f) : x[2] = y[2] => x[1] = y[1]
        /\ \A g \in Fingerprints : \A x \in Brought(f), y \in Brought(g) :
             x[1] = y[1] => \/ f = g /\ x[2] = y[2]
                            \/ HasOwnId(f, x[2]) /\ HasOwnId(g, y[2])

\* The rows of the objects under bronze/.
BronzeRows == UNION {{RowsOf[o.key.fingerprint][x[2]] : x \in o.rows} : o \in bronze}

\* What the schema of the raw table asserts: every row that is accepted can be
\* loaded, else the load of its whole object fails, now and at every retry.
AcceptedRowsLoad == \A row \in BronzeRows : MeetsRawConstraints(row)

\* How far that holds: of the rows that the classification accepts, exactly those can
\* be loaded that have a segment id and a speed that does not vanish beside the
\* reference speed.
NamedRowsLoad ==
  \A row \in BronzeRows :
    MeetsRawConstraints(row) <=> row.segment_id # Null /\ HasSpeedIndex(row)
=============================================================================
