---------------------------- MODULE BronzeWriter ----------------------------
(***************************************************************************)
(* The Kafka consumer that writes bronze objects (bronze_writer.py): it    *)
(* polls the observation topic, keeps valid messages in memory, routes     *)
(* invalid ones to the dead letter topic, and on a full batch or after a   *)
(* while uploads the batch, flushes the dead letter producer and commits   *)
(* the offsets.                                                            *)
(*                                                                         *)
(* The consumer group may be rebalanced, which puts the position back to   *)
(* the committed offset while the memory stays; the dead letter producer   *)
(* delivers in the background and may be slow or drop a message; uploads   *)
(* and commits may raise, which ends the process; and it may be stopped or *)
(* killed.  Kafka and the object store themselves lose nothing.            *)
(***************************************************************************)
EXTENDS Integers, Sequences, FiniteSets

CONSTANTS
  Partitions,
  BatchSize,         \* bronze_batch_size
  MaxMessages,       \* bound: messages in the topic
  MaxInterruptions,  \* bound: rebalances, raised effects, stops and kills
  MaxDlqFaults       \* bound: slow or dropped dead letters

ASSUME ConstantsAssumption ==
  /\ BatchSize \in Nat \ {0}
  /\ MaxMessages \in Nat /\ MaxInterruptions \in Nat /\ MaxDlqFaults \in Nat

Kinds == {"valid", "invalid"}

\* A message is the partition and the offset Kafka gave it.
Messages == Partitions \X Nat

VARIABLES
  log,            \* the topic: kinds of the messages of a partition, by offset + 1
  committed,      \* the consumer group's offsets
  position,       \* the offset poll() delivers next
  records,        \* self.records: the messages of the batch in memory
  pending,        \* self.pending_offsets: 0 for a partition not in the dict
  dlqBuffer,      \* messages produced to the dead letter topic, not yet delivered
  dlq,            \* the dead letter topic
  bronze,         \* the uploaded batches
  running,        \* self.running
  pc,             \* where run() is, "closed" after a stop, "dead" after the rest
  interruptions,  \* so far
  dlqFaults       \* so far

memory == <<records, pending, dlqBuffer>>
faults == <<interruptions, dlqFaults>>
vars == <<log, committed, position, records, pending, dlqBuffer, dlq, bronze,
          running, pc, interruptions, dlqFaults>>

Zero == [p \in Partitions |-> 0]
KindOf(m) == log[m[1]][m[2] + 1]
InSeq(m, s) == \E i \in 1 .. Len(s) : s[i] = m

Init ==
  /\ log = [p \in Partitions |-> <<>>]
  /\ committed = Zero /\ position = Zero
  /\ records = <<>> /\ pending = Zero
  /\ dlqBuffer = {} /\ dlq = {} /\ bronze = <<>>
  /\ running = TRUE /\ pc = "poll"
  /\ interruptions = 0 /\ dlqFaults = 0

Interrupt == interruptions < MaxInterruptions /\ interruptions' = interruptions + 1
-----------------------------------------------------------------------------
(* The producer of the topic.                                              *)

Produce(p, kind) ==
  /\ Cardinality(UNION {{q} \X (1 .. Len(log[q])) : q \in Partitions}) < MaxMessages
  /\ log' = [log EXCEPT ![p] = Append(@, kind)]
  /\ UNCHANGED <<committed, position, memory, dlq, bronze, running, pc, faults>>
-----------------------------------------------------------------------------
(* The loop of run().                                                      *)

\* Mutant of BatchFull: off by one.
BatchOverfull(recs) == Len(recs) > BatchSize

\* should_flush but for the clock: the batch is full.
BatchFull(recs) == Len(recs) >= BatchSize

\* Mutant of Tracked: one too far.
TrackedTooFar(p) ==
  [pending EXCEPT ![p] = IF @ > position[p] + 2 THEN @ ELSE position[p] + 2]

\* _track_offset.
Tracked(p) ==
  [pending EXCEPT ![p] = IF @ > position[p] + 1 THEN @ ELSE position[p] + 1]

\* poll() returns a message and handle() takes it.
Handle(p) ==
  /\ pc = "poll" /\ running
  /\ position[p] < Len(log[p])
  /\ pending' = Tracked(p)
  /\ IF KindOf(<<p, position[p]>>) = "valid"
       THEN records' = Append(records, <<p, position[p]>>) /\ UNCHANGED dlqBuffer
       ELSE dlqBuffer' = dlqBuffer \cup {<<p, position[p]>>} /\ UNCHANGED records
  /\ position' = [position EXCEPT ![p] = @ + 1]
  /\ pc' = IF BatchFull(records') THEN "flush" ELSE "poll"
  /\ UNCHANGED <<log, committed, dlq, bronze, running, faults>>

\* poll() returns nothing, or a Kafka error that is only logged, and no flush is
\* due: the loop goes round.
PollNothing == pc = "poll" /\ running /\ UNCHANGED vars

\* Mutant of FlushByTime: it looks at the records, not at the offsets.
FlushRecordsByTime ==
  /\ pc = "poll" /\ running
  /\ records # <<>>
  /\ pc' = "flush"
  /\ UNCHANGED <<log, committed, position, memory, dlq, bronze, running, faults>>

\* Mutant of FlushByTime: only a full batch is flushed.
FlushOnlyFull ==
  /\ pc = "poll" /\ running
  /\ BatchFull(records)
  /\ pc' = "flush"
  /\ UNCHANGED <<log, committed, position, memory, dlq, bronze, running, faults>>

\* poll() returns nothing, and the batch has waited long enough.
FlushByTime ==
  /\ pc = "poll" /\ running
  /\ pending # Zero
  /\ pc' = "flush"
  /\ UNCHANGED <<log, committed, position, memory, dlq, bronze, running, faults>>

\* Mutant of LastFlush: close() at once.
CloseAtOnce ==
  /\ pc = "poll" /\ ~running
  /\ pc' = "closed"
  /\ UNCHANGED <<log, committed, position, memory, dlq, bronze, running, faults>>

\* The loop ends: a last flush of what is pending, else close().
LastFlush ==
  /\ pc = "poll" /\ ~running
  /\ pc' = IF pending = Zero THEN "closed" ELSE "flush"
  /\ UNCHANGED <<log, committed, position, memory, dlq, bronze, running, faults>>
-----------------------------------------------------------------------------
(* flush().                                                                *)

Upload ==
  /\ pc = "flush"
  /\ bronze' = IF records = <<>> THEN bronze ELSE Append(bronze, records)
  /\ pc' = "dlq"
  /\ UNCHANGED <<log, committed, position, memory, dlq, running, faults>>

\* Mutant of DlqFlushed: no flush before the commit.
DlqNotFlushed ==
  /\ pc = "dlq"
  /\ pc' = "commit"
  /\ UNCHANGED <<log, committed, position, memory, dlq, bronze, running, faults>>

\* dlq_producer.flush(10) returns with everything delivered...
DlqFlushed ==
  /\ pc = "dlq" /\ dlqBuffer = {}
  /\ pc' = "commit"
  /\ UNCHANGED <<log, committed, position, memory, dlq, bronze, running, faults>>

\* ... or after ten seconds with some left, which nobody looks at.
DlqTimesOut ==
  /\ pc = "dlq" /\ dlqBuffer # {}
  /\ dlqFaults < MaxDlqFaults /\ dlqFaults' = dlqFaults + 1
  /\ pc' = "commit"
  /\ UNCHANGED <<log, committed, position, memory, dlq, bronze, running, interruptions>>

Committed ==
  [p \in Partitions |-> IF pending[p] = 0 THEN committed[p] ELSE pending[p]]

\* Mutant of Commit: the batch is not cleared.
CommitKeepingRecords ==
  /\ pc = "commit"
  /\ committed' = Committed
  /\ pending' = Zero
  /\ pc' = "poll"
  /\ UNCHANGED <<log, position, records, dlqBuffer, dlq, bronze, running, faults>>

\* The synchronous commit, and the clearing of the memory.
Commit ==
  /\ pc = "commit"
  /\ committed' = Committed
  /\ records' = <<>> /\ pending' = Zero
  /\ pc' = "poll"
  /\ UNCHANGED <<log, position, dlqBuffer, dlq, bronze, running, faults>>
-----------------------------------------------------------------------------
(* The client libraries' own threads.                                      *)

DlqDeliver(m) ==
  /\ m \in dlqBuffer
  /\ dlqBuffer' = dlqBuffer \ {m} /\ dlq' = dlq \cup {m}
  /\ UNCHANGED <<log, committed, position, records, pending, bronze, running, pc, faults>>

\* The producer gives a message up; no delivery callback is registered.
DlqDrop(m) ==
  /\ m \in dlqBuffer
  /\ dlqFaults < MaxDlqFaults /\ dlqFaults' = dlqFaults + 1
  /\ dlqBuffer' = dlqBuffer \ {m}
  /\ UNCHANGED <<log, committed, position, records, pending, dlq, bronze, running, pc,
                 interruptions>>

\* Mutant of Rebalance: a callback that clears the records but not the offsets.
RebalanceClearingRecords(p) ==
  /\ pc = "poll" /\ running
  /\ position[p] # committed[p]
  /\ Interrupt
  /\ position' = [position EXCEPT ![p] = committed[p]]
  /\ records' = <<>>
  /\ UNCHANGED <<log, committed, pending, dlqBuffer, dlq, bronze, running, pc, dlqFaults>>

\* The group is rebalanced and the partition comes back: consumption resumes
\* from the committed offset, and no callback clears the memory.
Rebalance(p) ==
  /\ pc = "poll" /\ running
  /\ position[p] # committed[p]
  /\ Interrupt
  /\ position' = [position EXCEPT ![p] = committed[p]]
  /\ UNCHANGED <<log, committed, memory, dlq, bronze, running, pc, dlqFaults>>
-----------------------------------------------------------------------------
(* The end of the process, and the next one.                               *)

Alive == pc \notin {"closed", "dead"}

\* The process ends; what the dead letter producer still holds is gone.
Die ==
  /\ pc' = "dead"
  /\ records' = <<>> /\ pending' = Zero /\ dlqBuffer' = {}

\* Mutant of UploadRaises: the exception is logged and swallowed.
UploadSwallowed ==
  /\ pc = "flush" /\ records # <<>>
  /\ Interrupt
  /\ pc' = "dlq"
  /\ UNCHANGED <<log, committed, position, memory, dlq, bronze, running, dlqFaults>>

\* The upload or the commit raises, having taken place or not, and the
\* exception leaves run().
UploadRaises ==
  /\ pc = "flush" /\ records # <<>>
  /\ Interrupt /\ Die
  /\ bronze' \in {bronze, Append(bronze, records)}
  /\ UNCHANGED <<log, committed, position, dlq, running, dlqFaults>>

CommitRaises ==
  /\ pc = "commit"
  /\ Interrupt /\ Die
  /\ committed' \in {committed, Committed}
  /\ UNCHANGED <<log, position, dlq, bronze, running, dlqFaults>>

Kill ==
  /\ Alive
  /\ Interrupt /\ Die
  /\ UNCHANGED <<log, committed, position, dlq, bronze, running, dlqFaults>>

\* SIGTERM or SIGINT.
Stop ==
  /\ Alive /\ running
  /\ Interrupt
  /\ running' = FALSE
  /\ UNCHANGED <<log, committed, position, memory, dlq, bronze, pc, dlqFaults>>

\* The container starts again, from the committed offsets.
Restart ==
  /\ ~Alive
  /\ running' = TRUE /\ pc' = "poll"
  /\ position' = committed
  /\ records' = <<>> /\ pending' = Zero /\ dlqBuffer' = {}
  /\ UNCHANGED <<log, committed, dlq, bronze, faults>>
-----------------------------------------------------------------------------
Loop ==
  \/ \E p \in Partitions : Handle(p)
  \/ FlushByTime \/ LastFlush
  \/ Upload \/ DlqFlushed \/ Commit

Deliver == \E m \in dlqBuffer : DlqDeliver(m)

Next ==
  \/ \E p \in Partitions, kind \in Kinds : Produce(p, kind)
  \/ Loop \/ PollNothing
  \/ Deliver
  \/ DlqTimesOut \/ \E m \in dlqBuffer : DlqDrop(m)
  \/ \E p \in Partitions : Rebalance(p)
  \/ UploadRaises \/ CommitRaises \/ Kill \/ Stop
  \/ Restart

SafeSpec == Init /\ [][Next]_vars

\* The loop and the producer's thread run on, and the container is restarted.
Spec == SafeSpec /\ WF_vars(Loop) /\ WF_vars(Deliver) /\ WF_vars(Restart)
-----------------------------------------------------------------------------
(* Properties.                                                             *)

InBronze(m) == \E i \in 1 .. Len(bronze) : InSeq(m, bronze[i])

\* The offsets of a partition below n that hold a message of a kind.
Below(p, n, kind) == {o \in 0 .. n - 1 : KindOf(<<p, o>>) = kind}

\* Every variable has its type, and no offset points beyond the log: a commit
\* past the last message would skip the next one.
TypeOK ==
  /\ log \in [Partitions -> Seq(Kinds)]
  /\ \A f \in {committed, position, pending} :
       f \in [Partitions -> Nat] /\ \A p \in Partitions : f[p] <= Len(log[p])
  /\ records \in Seq(Messages)
  /\ dlqBuffer \subseteq Messages /\ dlq \subseteq Messages
  /\ bronze \in Seq(Seq(Messages))
  /\ running \in BOOLEAN
  /\ pc \in {"poll", "flush", "dlq", "commit", "closed", "dead"}
  /\ interruptions \in 0 .. MaxInterruptions /\ dlqFaults \in 0 .. MaxDlqFaults

\* A valid message whose offset is committed is in the lake, through every
\* rebalance, raised upload, commit whose answer is lost, stop and kill.
NoAcceptedLoss ==
  \A p \in Partitions : \A o \in Below(p, committed[p], "valid") : InBronze(<<p, o>>)

\* A writer that was stopped, rather than killed, has uploaded all it consumed.
StopLosesNothing ==
  pc = "closed" =>
    \A p \in Partitions : \A o \in Below(p, position[p], "valid") : InBronze(<<p, o>>)

\* The batch in memory never outgrows the configured size, even when a
\* rebalance makes the writer consume the same messages again.
RecordsBounded == Len(records) <= BatchSize

\* How often a message is in the lake.
Copies(m) ==
  Cardinality({b \in (1 .. Len(bronze)) \X (1 .. BatchSize) :
                 b[2] <= Len(bronze[b[1]]) /\ bronze[b[1]][b[2]] = m})

\* Without interruption a message is uploaded once, and each interruption can
\* add one copy at most: nothing in the loop itself duplicates.
CopiesBounded ==
  \A p \in Partitions : \A o \in 0 .. Len(log[p]) - 1 :
    Copies(<<p, o>>) <= 1 + interruptions

\* What the failure drill of the runbook confirms: an invalid event is
\* separated into the dead letter topic once the writer has moved past it.
InvalidQuarantined ==
  \A p \in Partitions : \A o \in Below(p, committed[p], "invalid") : <<p, o>> \in dlq

\* It holds as long as the dead letter producer neither lags nor drops.
QuarantinedUnlessDlqFails == dlqFaults = 0 => InvalidQuarantined

\* Where a message belongs: in the lake, or among the dead letters unless their
\* producer has failed.
Arrived(m) == IF KindOf(m) = "valid" THEN InBronze(m) ELSE m \in dlq \/ dlqFaults > 0

\* Every message produced arrives where it belongs, through every rebalance, raised
\* effect, stop and kill.  (Its offset need not stay committed: after a rebalance
\* a later commit may take the group back for good.)
EveryMessageArrives ==
  \A p \in Partitions : \A n \in 1 .. MaxMessages :
    Len(log[p]) >= n ~> (Len(log[p]) >= n /\ Arrived(<<p, n - 1>>))

\* Nothing consumed waits for its commit for ever, a batch of invalid messages
\* alone, which has offsets but no records, included.
NothingHeldBack == pending # Zero ~> pending = Zero
-----------------------------------------------------------------------------
(* The inductive invariant behind them.                                    *)

\* Nothing consumed is forgotten: a valid message below the position or below
\* a pending offset is in the lake or in memory, and after the upload all that
\* is in memory is in the lake.
Remembered ==
  /\ pc # "dead" =>
       \A p \in Partitions :
         \A o \in Below(p, position[p], "valid") \cup Below(p, pending[p], "valid") :
           InBronze(<<p, o>>) \/ InSeq(<<p, o>>, records)
  /\ pc \in {"dlq", "commit"} => \A i \in 1 .. Len(records) : InBronze(records[i])
  /\ pending = Zero => records = <<>>
  /\ pc = "closed" => pending = Zero
  /\ pc = "dead" => dlqBuffer = {}

\* The same of the invalid messages, the dead letters and their producer.
DeadLetters ==
  dlqFaults = 0 =>
    /\ pc # "dead" =>
         \A p \in Partitions :
           Below(p, position[p], "invalid") \cup Below(p, pending[p], "invalid")
             \subseteq {o \in 0 .. Len(log[p]) - 1 : <<p, o>> \in dlq \cup dlqBuffer}
    /\ pc = "commit" => dlqBuffer = {}

\* Only a full batch waits for its flush with BatchSize records.
BatchInv == Len(records) <= BatchSize /\ (pc = "poll" => Len(records) < BatchSize)

IInv ==
  /\ TypeOK /\ Remembered /\ DeadLetters /\ BatchInv
  /\ NoAcceptedLoss /\ QuarantinedUnlessDlqFails
=============================================================================
