------------------------- MODULE BronzeWriterProofs -------------------------
(***************************************************************************)
(* Proofs about BronzeWriter for any partitions, batch size and bounds:    *)
(* nothing accepted is lost, a stop loses nothing, the batch is bounded,   *)
(* and invalid messages are lost only when the dead letter producer fails. *)
(* And a message is uploaded once, and once more for every interruption.   *)
(***************************************************************************)
EXTENDS BronzeWriter, FiniteSetTheorems, TLAPS

\* Membership in a sequence that grows by one element.
LEMMA InAppend ==
  ASSUME NEW S, NEW s \in Seq(S), NEW x \in S, NEW m
  PROVE  InSeq(m, Append(s, x)) <=> InSeq(m, s) \/ m = x
<1>1. Len(Append(s, x)) = Len(s) + 1 /\ Append(s, x)[Len(s) + 1] = x
      /\ \A i \in 1 .. Len(s) : Append(s, x)[i] = s[i]
  OBVIOUS
<1>2. Len(s) \in Nat
  OBVIOUS
<1> QED
  BY <1>1, <1>2 DEF InSeq

\* An upload keeps what is in the lake and adds the batch.
LEMMA InUploaded ==
  ASSUME TypeOK, bronze' = Append(bronze, records), NEW m
  PROVE  InBronze(m)' <=> InBronze(m) \/ InSeq(m, records)
<1>1. Len(bronze') = Len(bronze) + 1 /\ bronze'[Len(bronze) + 1] = records
      /\ \A i \in 1 .. Len(bronze) : bronze'[i] = bronze[i]
  BY DEF TypeOK
<1>2. Len(bronze) \in Nat
  BY DEF TypeOK
<1> QED
  BY <1>1, <1>2 DEF InBronze, InSeq

\* The lake only grows.
LEMMA LakeGrows ==
  ASSUME TypeOK, bronze' = bronze \/ bronze' = Append(bronze, records), NEW m, InBronze(m)
  PROVE  InBronze(m)'
<1>1. CASE bronze' = bronze
  BY <1>1 DEF InBronze
<1>2. CASE bronze' = Append(bronze, records)
  BY <1>2, InUploaded
<1> QED
  BY <1>1, <1>2

LEMMA InitInv == Init => IInv
<1> SUFFICES ASSUME Init PROVE IInv
  OBVIOUS
<1>1. TypeOK
  BY ConstantsAssumption DEF Init, TypeOK, Zero, Messages
<1>2. \A p \in Partitions, kind \in Kinds : Below(p, 0, kind) = {}
  BY DEF Below
<1> QED
  BY <1>1, <1>2, ConstantsAssumption DEF Init, IInv, Remembered, DeadLetters, BatchInv, NoAcceptedLoss,
     QuarantinedUnlessDlqFails, InvalidQuarantined, Zero, Kinds
-----------------------------------------------------------------------------
(* Type correctness of each step.                                          *)

\* The memory of a process that ended.
LEMMA EmptyMemory ==
  ASSUME TypeOK
  PROVE  /\ <<>> \in Seq(Messages) /\ {} \subseteq Messages
         /\ Zero \in [Partitions -> Nat] /\ \A p \in Partitions : Zero[p] <= Len(log[p])
BY DEF Zero, TypeOK

LEMMA StepType == IInv /\ [Next]_vars => TypeOK'
<1> SUFFICES ASSUME IInv, [Next]_vars PROVE TypeOK'
  OBVIOUS
<1> USE ConstantsAssumption DEF Interrupt, memory, faults
<1>0. TypeOK
  BY DEF IInv
<1>1. ASSUME NEW p \in Partitions, NEW kind \in Kinds, Produce(p, kind) PROVE TypeOK'
  <2>1. log' \in [Partitions -> Seq(Kinds)] /\ \A q \in Partitions : Len(log[q]) <= Len(log'[q])
    BY <1>0, <1>1 DEF Produce, TypeOK
  <2>2. \A q \in Partitions : Len(log[q]) \in Nat /\ Len(log'[q]) \in Nat
    BY <1>0, <2>1 DEF TypeOK
  <2> QED
    BY <1>0, <1>1, <2>1, <2>2 DEF Produce, TypeOK
<1>2. ASSUME NEW p \in Partitions, Handle(p) PROVE TypeOK'
  <2>1. position[p] \in Nat /\ Len(log[p]) \in Nat /\ <<p, position[p]>> \in Messages
    BY <1>0 DEF TypeOK, Messages
  <2>2. /\ position' \in [Partitions -> Nat] /\ pending' \in [Partitions -> Nat]
        /\ \A q \in Partitions : position'[q] <= Len(log[q]) /\ pending'[q] <= Len(log[q])
    BY <1>0, <1>2, <2>1 DEF Handle, Tracked, TypeOK
  <2>3. records' \in Seq(Messages) /\ dlqBuffer' \subseteq Messages
    <3>1. Append(records, <<p, position[p]>>) \in Seq(Messages)
      BY <1>0, <2>1 DEF TypeOK
    <3>2. dlqBuffer \cup {<<p, position[p]>>} \subseteq Messages
      BY <1>0, <2>1 DEF TypeOK
    <3> QED
      BY <1>0, <1>2, <3>1, <3>2 DEF Handle, TypeOK
  <2> QED
    BY <1>0, <1>2, <2>2, <2>3 DEF Handle, TypeOK
<1>3. CASE PollNothing \/ UNCHANGED vars
  BY <1>0, <1>3 DEF PollNothing, vars, TypeOK
<1>4. CASE FlushByTime \/ LastFlush \/ DlqFlushed
  BY <1>0, <1>4 DEF FlushByTime, LastFlush, DlqFlushed, TypeOK
<1>5. CASE Upload
  BY <1>0, <1>5 DEF Upload, TypeOK
<1>6. CASE DlqTimesOut
  BY <1>0, <1>6 DEF DlqTimesOut, TypeOK
<1>7. CASE Commit
  BY <1>0, <1>7 DEF Commit, Committed, Zero, TypeOK
<1>8. ASSUME NEW m \in dlqBuffer, DlqDeliver(m) \/ DlqDrop(m) PROVE TypeOK'
  BY <1>0, <1>8 DEF DlqDeliver, DlqDrop, TypeOK
<1>9. ASSUME NEW p \in Partitions, Rebalance(p) PROVE TypeOK'
  BY <1>0, <1>9 DEF Rebalance, TypeOK
<1>10. CASE UploadRaises
  <2>1. Append(bronze, records) \in Seq(Seq(Messages))
    BY <1>0 DEF TypeOK
  <2>2. bronze' \in Seq(Seq(Messages))
    BY <1>0, <1>10, <2>1 DEF UploadRaises, TypeOK
  <2> QED
    BY <1>0, <1>10, <2>2, EmptyMemory DEF UploadRaises, Die, TypeOK
<1>11. CASE CommitRaises
  <2>1. Committed \in [Partitions -> Nat] /\ \A p \in Partitions : Committed[p] <= Len(log[p])
    BY <1>0 DEF Committed, TypeOK
  <2>2. committed' \in [Partitions -> Nat] /\ \A p \in Partitions : committed'[p] <= Len(log[p])
    BY <1>0, <1>11, <2>1 DEF CommitRaises, TypeOK
  <2> QED
    BY <1>0, <1>11, <2>2, EmptyMemory DEF CommitRaises, Die, TypeOK
<1>12. CASE Kill
  BY <1>0, <1>12, EmptyMemory DEF Kill, Die, TypeOK
<1>14. CASE Stop
  <2>1. running' \in BOOLEAN
    BY <1>14, Zenon DEF Stop
  <2>2. UNCHANGED <<log, committed, position, records, pending, dlqBuffer, dlq, bronze, pc, dlqFaults>>
        /\ interruptions < MaxInterruptions /\ interruptions' = interruptions + 1
    BY <1>14 DEF Stop
  <2> QED
    BY <1>0, <2>1, <2>2 DEF TypeOK
<1>13. CASE Restart
  BY <1>0, <1>13 DEF Restart, Zero, TypeOK
<1> QED
  BY <1>1, <1>2, <1>3, <1>4, <1>5, <1>6, <1>7, <1>8, <1>9, <1>10, <1>11, <1>12, <1>13,
     <1>14 DEF Next, Loop, Deliver
-----------------------------------------------------------------------------
(* The rest of the invariant, step by step.                                *)

Facts == Remembered /\ DeadLetters /\ BatchInv /\ NoAcceptedLoss /\ QuarantinedUnlessDlqFails

\* A new message does not disturb what lies below the offsets of the old ones.
LEMMA ProduceFacts ==
  ASSUME TypeOK, Facts, NEW p \in Partitions, NEW kind \in Kinds, Produce(p, kind)
  PROVE  Facts'
<1>1. \A q \in Partitions, n \in Nat, k \in Kinds :
        n <= Len(log[q]) => Below(q, n, k)' = Below(q, n, k)
  <2> SUFFICES ASSUME NEW q \in Partitions, NEW n \in Nat, NEW k \in Kinds, n <= Len(log[q]),
                      NEW o \in 0 .. n - 1
               PROVE  log'[q][o + 1] = log[q][o + 1]
    BY DEF Below, KindOf
  <2>1. log[q] \in Seq(Kinds) /\ log[p] \in Seq(Kinds)
    BY DEF TypeOK
  <2>2. log'[q] = IF q = p THEN Append(log[q], kind) ELSE log[q]
    BY DEF Produce, TypeOK
  <2> QED
    BY <2>1, <2>2
<1>2. \A q \in Partitions : Len(log[q]) \in Nat /\ Len(log'[q]) \in Nat /\ Len(log[q]) <= Len(log'[q])
  BY DEF Produce, TypeOK
<1>3. UNCHANGED <<committed, position, records, pending, dlqBuffer, dlq, bronze, running, pc,
                  interruptions, dlqFaults>>
  BY DEF Produce, memory, faults
<1>4. \A m : InBronze(m)' = InBronze(m)
  BY <1>3 DEF InBronze
<1>5. Remembered'
  BY <1>1, <1>3, <1>4 DEF Facts, Remembered, TypeOK, Kinds
<1>6. DeadLetters'
  <2>1. \A q \in Partitions : 0 .. Len(log[q]) - 1 \subseteq 0 .. Len(log'[q]) - 1
    BY <1>2
  <2> QED
    BY <1>1, <1>3, <2>1 DEF Facts, DeadLetters, TypeOK, Kinds
<1>7. NoAcceptedLoss'
  BY <1>1, <1>3, <1>4 DEF Facts, NoAcceptedLoss, TypeOK, Kinds
<1>8. QuarantinedUnlessDlqFails'
  BY <1>1, <1>3 DEF Facts, QuarantinedUnlessDlqFails, InvalidQuarantined, TypeOK, Kinds
<1>9. BatchInv'
  BY <1>3 DEF Facts, BatchInv
<1> QED
  BY <1>5, <1>6, <1>7, <1>8, <1>9 DEF Facts

\* What the steps that leave the topic alone need to know about offsets.
LEMMA BelowSame ==
  ASSUME log' = log, NEW p, NEW n \in Nat, NEW kind, NEW o
  PROVE  /\ o \in Below(p, n, kind) <=> o \in Nat /\ o < n /\ KindOf(<<p, o>>) = kind
         /\ KindOf(<<p, o>>)' = KindOf(<<p, o>>)
BY DEF Below, KindOf

\* A consumed message goes to the batch or to the dead letter producer.
LEMMA HandleFacts ==
  ASSUME TypeOK, Facts, NEW p \in Partitions, Handle(p)
  PROVE  Facts'
<1> DEFINE m == <<p, position[p]>>
<1> USE ConstantsAssumption
<1>1. position[p] \in Nat /\ m \in Messages /\ pc = "poll"
  BY DEF TypeOK, Messages, Handle
<1>2. UNCHANGED <<log, committed, dlq, bronze, dlqFaults>>
  BY DEF Handle, faults
<1>3. \A q \in Partitions :
        /\ position'[q] = IF q = p THEN position[p] + 1 ELSE position[q]
        /\ pending'[q] = IF q = p THEN IF pending[p] > position[p] + 1 THEN pending[p] ELSE position[p] + 1
                                  ELSE pending[q]
  BY DEF Handle, Tracked, TypeOK
<1>4. \A x : InBronze(x)' = InBronze(x)
  BY <1>2 DEF InBronze
<1>5. \A x : InSeq(x, records') <=> InSeq(x, records) \/ (x = m /\ KindOf(m) = "valid")
  <2>1. CASE KindOf(m) = "valid"
    <3>1. records' = Append(records, m)
      BY <2>1 DEF Handle
    <3>2. records \in Seq(Messages)
      BY DEF TypeOK
    <3>3. \A x : InSeq(x, Append(records, m)) <=> InSeq(x, records) \/ x = m
      BY <3>2, <1>1, InAppend
    <3> QED
      BY <2>1, <3>1, <3>3
  <2>2. CASE KindOf(m) # "valid"
    BY <2>2 DEF Handle
  <2> QED
    BY <2>1, <2>2
<1>6. dlqBuffer' = IF KindOf(m) = "valid" THEN dlqBuffer ELSE dlqBuffer \cup {m}
  BY DEF Handle
<1>7. pc' \in {"poll", "flush"} /\ pending' # Zero
  <2>1. pending'[p] # 0
    BY <1>1, <1>3 DEF TypeOK
  <2> QED
    BY <2>1 DEF Handle, Zero
<1>8. \A q \in Partitions : position[q] \in Nat /\ pending[q] \in Nat
  BY DEF TypeOK
<1>9. \A q \in Partitions, k \in Kinds : \A o \in Below(q, position'[q], k) \cup Below(q, pending'[q], k) :
         /\ o \in Nat /\ KindOf(<<q, o>>) = k
         /\ <<q, o>> # m => o < position[q] \/ o < pending[q]
  <2> SUFFICES ASSUME NEW q \in Partitions, NEW k \in Kinds,
                      NEW o \in Below(q, position'[q], k) \cup Below(q, pending'[q], k)
               PROVE  /\ o \in Nat /\ KindOf(<<q, o>>) = k
                      /\ <<q, o>> # m => o < position[q] \/ o < pending[q]
    OBVIOUS
  <2>1. position'[q] \in Nat /\ pending'[q] \in Nat
    BY <1>1, <1>3, <1>8
  <2>2. o \in Nat /\ KindOf(<<q, o>>) = k /\ (o < position'[q] \/ o < pending'[q])
    BY <2>1 DEF Below
  <2>3. <<q, o>> # m => q # p \/ o # position[p]
    OBVIOUS
  <2> QED
    BY <2>2, <2>3, <1>1, <1>3, <1>8
<1>10. Remembered'
  <2>1. ASSUME NEW q \in Partitions,
               NEW o \in Below(q, position'[q], "valid") \cup Below(q, pending'[q], "valid")
        PROVE  InBronze(<<q, o>>)' \/ InSeq(<<q, o>>, records')
    <3>1. CASE <<q, o>> = m
      BY <3>1, <2>1, <1>5 DEF Below
    <3>2. CASE <<q, o>> # m
      <4>0. o \in Nat /\ KindOf(<<q, o>>) = "valid" /\ (o < position[q] \/ o < pending[q])
        BY <2>1, <3>2, <1>9 DEF Kinds
      <4>1. o \in Below(q, position[q], "valid") \cup Below(q, pending[q], "valid")
        BY <4>0, <1>8 DEF Below
      <4> QED
        BY <4>1, <1>1, <1>4, <1>5 DEF Facts, Remembered
    <3> QED
      BY <3>1, <3>2
  <2> QED
    BY <2>1, <1>2, <1>7 DEF Remembered, Below, KindOf
<1>11. DeadLetters'
  <2>1. ASSUME dlqFaults = 0, NEW q \in Partitions,
               NEW o \in Below(q, position'[q], "invalid") \cup Below(q, pending'[q], "invalid")
        PROVE  o \in 0 .. Len(log[q]) - 1 /\ <<q, o>> \in dlq \cup dlqBuffer'
    <3>1. CASE <<q, o>> = m
      <4>1. o = position[p] /\ q = p /\ KindOf(m) = "invalid"
        BY <3>1, <2>1 DEF Below
      <4> QED
        BY <4>1, <1>1, <1>6 DEF Handle, TypeOK
    <3>2. CASE <<q, o>> # m
      <4>0. o \in Nat /\ KindOf(<<q, o>>) = "invalid" /\ (o < position[q] \/ o < pending[q])
        BY <2>1, <3>2, <1>9 DEF Kinds
      <4>1. o \in Below(q, position[q], "invalid") \cup Below(q, pending[q], "invalid")
        BY <4>0, <1>8 DEF Below
      <4> QED
        BY <4>1, <2>1, <1>1, <1>6 DEF Facts, DeadLetters
    <3> QED
      BY <3>1, <3>2
  <2> QED
    BY <2>1, <1>2, <1>7 DEF DeadLetters, Below, KindOf
<1>12. NoAcceptedLoss' /\ QuarantinedUnlessDlqFails'
  BY <1>2, <1>4 DEF Facts, NoAcceptedLoss, QuarantinedUnlessDlqFails, InvalidQuarantined, Below, KindOf
<1>13. BatchInv'
  <2>1. Len(records) \in Nat /\ Len(records') \in Nat /\ Len(records') <= Len(records) + 1
    BY <1>1 DEF Handle, TypeOK
  <2>2. pc' = "poll" => Len(records') < BatchSize
    BY <2>1 DEF Handle, BatchFull
  <2> QED
    BY <2>1, <2>2, <1>1 DEF Facts, BatchInv
<1> QED
  BY <1>10, <1>11, <1>12, <1>13 DEF Facts

\* The upload puts the batch into the lake.
LEMMA UploadFacts ==
  ASSUME TypeOK, Facts, Upload
  PROVE  Facts'
<1>1. UNCHANGED <<log, committed, position, records, pending, dlqBuffer, dlq, dlqFaults>>
      /\ pc = "flush" /\ pc' = "dlq"
  BY DEF Upload, memory, faults
<1>2. \A x : InBronze(x) => InBronze(x)'
  BY LakeGrows DEF Upload
<1>3. \A x : InSeq(x, records) => InBronze(x)'
  <2>1. CASE records = <<>>
    BY <2>1 DEF InSeq
  <2>2. CASE records # <<>>
    BY <2>2, InUploaded DEF Upload
  <2> QED
    BY <2>1, <2>2
<1>4. Remembered'
  BY <1>1, <1>2, <1>3 DEF Facts, Remembered, Below, KindOf, InSeq
<1>5. DeadLetters' /\ BatchInv' /\ QuarantinedUnlessDlqFails'
  BY <1>1 DEF Facts, DeadLetters, BatchInv, QuarantinedUnlessDlqFails, InvalidQuarantined, Below, KindOf
<1>6. NoAcceptedLoss'
  BY <1>1, <1>2 DEF Facts, NoAcceptedLoss, Below, KindOf
<1> QED
  BY <1>4, <1>5, <1>6 DEF Facts

\* At the commit every pending message is safe, and it alone moves the offsets.
LEMMA CommittedSafe ==
  ASSUME TypeOK, Facts, pc = "commit", NEW p \in Partitions
  PROVE  /\ \A o \in Below(p, Committed[p], "valid") : InBronze(<<p, o>>)
         /\ dlqFaults = 0 => \A o \in Below(p, Committed[p], "invalid") : <<p, o>> \in dlq
<1>1. \A o \in Below(p, pending[p], "valid") : InBronze(<<p, o>>)
  BY DEF Facts, Remembered, InSeq
<1>2. dlqFaults = 0 => \A o \in Below(p, pending[p], "invalid") : <<p, o>> \in dlq
  BY DEF Facts, DeadLetters
<1> QED
  BY <1>1, <1>2 DEF Committed, Facts, NoAcceptedLoss, QuarantinedUnlessDlqFails, InvalidQuarantined

\* The end of a process, when the offsets committed are safe.
LEMMA DieFacts ==
  ASSUME TypeOK, Facts, Die, UNCHANGED <<log, dlq, dlqFaults>>,
         \A x : InBronze(x) => InBronze(x)',
         \A p \in Partitions :
           /\ \A o \in Below(p, committed'[p], "valid") : InBronze(<<p, o>>)
           /\ dlqFaults = 0 => \A o \in Below(p, committed'[p], "invalid") : <<p, o>> \in dlq
  PROVE  Facts'
<1>1. NoAcceptedLoss' /\ QuarantinedUnlessDlqFails'
  BY DEF NoAcceptedLoss, QuarantinedUnlessDlqFails, InvalidQuarantined, Below, KindOf
<1>2. Remembered' /\ DeadLetters'
  BY DEF Die, Remembered, DeadLetters
<1>3. BatchInv'
  BY ConstantsAssumption DEF Die, BatchInv
<1> QED
  BY <1>1, <1>2, <1>3 DEF Facts

\* The dead letter producer's thread touches only dead letters.
LEMMA BackgroundFacts ==
  ASSUME TypeOK, Facts, pc # "dead", dlqBuffer' \subseteq dlqBuffer,
         UNCHANGED <<log, committed, position, records, pending, bronze, pc>>,
         dlqFaults' = 0 => /\ dlqFaults = 0 /\ dlq \subseteq dlq'
                           /\ dlq \cup dlqBuffer = dlq' \cup dlqBuffer'
  PROVE  Facts'
<1>1. /\ \A x : InBronze(x)' = InBronze(x)
      /\ \A x : KindOf(x)' = KindOf(x)
  BY DEF InBronze, KindOf
<1>2. Remembered'
  BY <1>1 DEF Facts, Remembered, Below
<1>3. DeadLetters'
  BY <1>1 DEF Facts, DeadLetters, Below
<1>4. BatchInv' /\ NoAcceptedLoss' /\ QuarantinedUnlessDlqFails'
  BY <1>1 DEF Facts, BatchInv, NoAcceptedLoss, QuarantinedUnlessDlqFails, InvalidQuarantined, Below
<1> QED
  BY <1>2, <1>3, <1>4 DEF Facts

LEMMA StepFacts == TypeOK /\ TypeOK' /\ Facts /\ [Next]_vars => Facts'
<1> SUFFICES ASSUME TypeOK, TypeOK', Facts, [Next]_vars PROVE Facts'
  OBVIOUS
<1> USE DEF memory, faults, Interrupt
<1>1. ASSUME NEW p \in Partitions, NEW kind \in Kinds, Produce(p, kind) PROVE Facts'
  BY <1>1, ProduceFacts
<1>2. ASSUME NEW p \in Partitions, Handle(p) PROVE Facts'
  BY <1>2, HandleFacts
<1>3. ASSUME UNCHANGED <<log, committed, position, records, pending, dlq, bronze>>,
             dlqFaults' = 0 => dlqFaults = 0 /\ dlq \cup dlqBuffer = dlq \cup dlqBuffer',
             dlqFaults' = 0 => pc' # "commit" \/ dlqBuffer' = {},
             pc' = "poll" => pc = "poll", pc # "dead", pc' # "dead",
             pc' \in {"dlq", "commit"} => pc \in {"dlq", "commit"},
             pc' = "closed" => pc = "closed" \/ pending = Zero
      PROVE  Facts'
  <2>0. /\ \A x : InBronze(x)' = InBronze(x)
        /\ \A x : KindOf(x)' = KindOf(x)
    BY <1>3 DEF InBronze, KindOf
  <2>1. Remembered'
    BY <1>3, <2>0 DEF Facts, Remembered, Below
  <2>2. DeadLetters'
    BY <1>3 DEF Facts, DeadLetters, Below, KindOf
  <2>3. BatchInv' /\ NoAcceptedLoss' /\ QuarantinedUnlessDlqFails'
    BY <1>3 DEF Facts, BatchInv, NoAcceptedLoss, QuarantinedUnlessDlqFails, InvalidQuarantined,
       InBronze, Below, KindOf
  <2> QED
    BY <2>1, <2>2, <2>3 DEF Facts
<1>4. CASE FlushByTime \/ LastFlush \/ DlqFlushed \/ DlqTimesOut
  BY <1>3, <1>4 DEF FlushByTime, LastFlush, DlqFlushed, DlqTimesOut, TypeOK
<1>5. CASE Upload
  BY <1>5, UploadFacts
<1>6. CASE Commit
  <2>1. pc = "commit" /\ UNCHANGED <<log, position, dlqBuffer, dlq, bronze, dlqFaults>>
        /\ pc' = "poll" /\ committed' = Committed /\ records' = <<>> /\ pending' = Zero
    BY <1>6 DEF Commit
  <2>2. \A x : InBronze(x)' = InBronze(x)
    BY <2>1 DEF InBronze
  <2>3. \A p \in Partitions :
          /\ \A o \in Below(p, Committed[p], "valid") : InBronze(<<p, o>>)
          /\ dlqFaults = 0 => \A o \in Below(p, Committed[p], "invalid") : <<p, o>> \in dlq
    BY <2>1, CommittedSafe
  <2>4. NoAcceptedLoss' /\ QuarantinedUnlessDlqFails'
    BY <2>1, <2>2, <2>3 DEF NoAcceptedLoss, QuarantinedUnlessDlqFails, InvalidQuarantined, Below, KindOf
  <2>5. \A p \in Partitions, k \in Kinds : Below(p, Zero[p], k) = {}
    BY DEF Zero, Below
  <2>6. Remembered'
    <3>1. ASSUME NEW p \in Partitions, NEW o \in Below(p, position[p], "valid")
          PROVE  InBronze(<<p, o>>)
      BY <2>1, <3>1 DEF Facts, Remembered, InSeq
    <3> QED
      BY <2>1, <2>2, <2>5, <3>1 DEF Remembered, Below, KindOf, Kinds
  <2>7. DeadLetters'
    BY <2>1, <2>5 DEF Facts, DeadLetters, Below, KindOf, Kinds
  <2>8. BatchInv'
    BY <2>1, ConstantsAssumption DEF BatchInv
  <2> QED
    BY <2>4, <2>6, <2>7, <2>8 DEF Facts
<1>7. ASSUME NEW m \in dlqBuffer, DlqDeliver(m) \/ DlqDrop(m) PROVE Facts'
  <2>1. pc # "dead"
    BY <1>7 DEF Facts, Remembered
  <2>2. CASE DlqDeliver(m)
    <3>1. dlq \cup dlqBuffer = dlq' \cup dlqBuffer'
      BY <1>7, <2>2 DEF DlqDeliver
    <3>2. \A x : x \in dlq => x \in dlq'
      BY <2>2 DEF DlqDeliver
    <3> QED
      BY <2>1, <2>2, <3>1, <3>2, BackgroundFacts DEF DlqDeliver
  <2>3. CASE DlqDrop(m)
    <3>1. dlqFaults' # 0
      BY <2>3 DEF DlqDrop, TypeOK
    <3> QED
      BY <2>1, <2>3, <3>1, BackgroundFacts DEF DlqDrop
  <2> QED
    BY <1>7, <2>2, <2>3
<1>8. ASSUME NEW p \in Partitions, Rebalance(p) PROVE Facts'
  <2>1. UNCHANGED <<log, committed, records, pending, dlqBuffer, dlq, bronze, dlqFaults, pc>>
        /\ pc = "poll" /\ \A q \in Partitions : position'[q] \in {position[q], committed[q]}
    BY <1>8 DEF Rebalance, TypeOK
  <2>2. \A x : InBronze(x)' = InBronze(x)
    BY <2>1 DEF InBronze
  <2>3. Remembered'
    BY <2>1, <2>2 DEF Facts, Remembered, NoAcceptedLoss, InSeq, Below, KindOf
  <2>4. DeadLetters'
    <3>1. \A q \in Partitions : committed[q] \in Nat /\ Len(log[q]) \in Nat /\ committed[q] <= Len(log[q])
      BY DEF TypeOK
    <3>2. ASSUME dlqFaults = 0, NEW q \in Partitions, NEW o \in Below(q, committed[q], "invalid")
          PROVE  o \in 0 .. Len(log[q]) - 1 /\ <<q, o>> \in dlq
      BY <3>1, <3>2 DEF Facts, QuarantinedUnlessDlqFails, InvalidQuarantined, Below
    <3>3. ASSUME dlqFaults = 0, NEW q \in Partitions,
                 NEW o \in Below(q, position'[q], "invalid") \cup Below(q, pending[q], "invalid")
          PROVE  o \in 0 .. Len(log[q]) - 1 /\ <<q, o>> \in dlq \cup dlqBuffer
      <4>1. CASE position'[q] = position[q]
        BY <2>1, <3>3, <4>1 DEF Facts, DeadLetters
      <4>2. CASE position'[q] = committed[q]
        BY <2>1, <3>2, <3>3, <4>2 DEF Facts, DeadLetters
      <4> QED
        BY <2>1, <4>1, <4>2
    <3> QED
      BY <2>1, <3>3 DEF DeadLetters, Below, KindOf
  <2>5. BatchInv' /\ NoAcceptedLoss' /\ QuarantinedUnlessDlqFails'
    BY <2>1, <2>2 DEF Facts, BatchInv, NoAcceptedLoss, QuarantinedUnlessDlqFails, InvalidQuarantined,
       Below, KindOf
  <2> QED
    BY <2>3, <2>4, <2>5 DEF Facts
<1>9. CASE UploadRaises
  <2>1. \A x : InBronze(x) => InBronze(x)'
    BY <1>9, LakeGrows DEF UploadRaises
  <2> QED
    BY <1>9, <2>1, DieFacts DEF UploadRaises, Facts, NoAcceptedLoss, QuarantinedUnlessDlqFails,
       InvalidQuarantined
<1>10. CASE CommitRaises
  <2>1. \A x : InBronze(x) => InBronze(x)'
    BY <1>10 DEF CommitRaises, InBronze
  <2>2. CASE committed' = committed
    BY <1>10, <2>1, <2>2, DieFacts DEF CommitRaises, Facts, NoAcceptedLoss, QuarantinedUnlessDlqFails,
       InvalidQuarantined
  <2>3. CASE committed' = Committed
    BY <1>10, <2>1, <2>3, CommittedSafe, DieFacts DEF CommitRaises
  <2> QED
    BY <1>10, <2>2, <2>3 DEF CommitRaises
<1>11. CASE Kill
  <2>1. \A x : InBronze(x) => InBronze(x)'
    BY <1>11 DEF Kill, InBronze
  <2> QED
    BY <1>11, <2>1, DieFacts DEF Kill, Facts, NoAcceptedLoss, QuarantinedUnlessDlqFails,
       InvalidQuarantined
<1>12. CASE Stop
  BY <1>3, <1>12 DEF Stop, Alive, Facts, DeadLetters
<1>13. CASE Restart
  <2>1. UNCHANGED <<log, committed, dlq, bronze, dlqFaults>>
        /\ pc' = "poll" /\ position' = committed /\ records' = <<>> /\ pending' = Zero
    BY <1>13 DEF Restart
  <2>2. \A x : InBronze(x)' = InBronze(x)
    BY <2>1 DEF InBronze
  <2>3. \A p \in Partitions, k \in Kinds : Below(p, Zero[p], k) = {}
    BY DEF Zero, Below
  <2>4. NoAcceptedLoss' /\ QuarantinedUnlessDlqFails'
    BY <2>1, <2>2 DEF Facts, NoAcceptedLoss, QuarantinedUnlessDlqFails, InvalidQuarantined, Below, KindOf
  <2>5. Remembered'
    <3>1. ASSUME NEW p \in Partitions, NEW o \in Below(p, committed[p], "valid")
          PROVE  InBronze(<<p, o>>)
      BY <3>1 DEF Facts, NoAcceptedLoss
    <3> QED
      BY <2>1, <2>2, <2>3, <3>1 DEF Remembered, Below, KindOf, Kinds
  <2>6. DeadLetters'
    BY <2>1, <2>3 DEF Facts, DeadLetters, QuarantinedUnlessDlqFails, InvalidQuarantined, TypeOK,
       Below, KindOf, Kinds
  <2>7. BatchInv'
    BY <2>1, ConstantsAssumption DEF BatchInv
  <2> QED
    BY <2>4, <2>5, <2>6, <2>7 DEF Facts
<1>14. CASE PollNothing \/ UNCHANGED vars
  <2>1. UNCHANGED vars
    BY <1>14 DEF PollNothing
  <2>0. /\ \A x : InBronze(x)' = InBronze(x)
        /\ \A x : KindOf(x)' = KindOf(x)
    BY <2>1 DEF vars, InBronze, KindOf
  <2>2. Remembered'
    BY <2>1, <2>0 DEF vars, Facts, Remembered, Below
  <2>3. DeadLetters'
    BY <2>1 DEF vars, Facts, DeadLetters, Below, KindOf
  <2>4. BatchInv' /\ NoAcceptedLoss' /\ QuarantinedUnlessDlqFails'
    BY <2>1 DEF vars, Facts, BatchInv, NoAcceptedLoss, QuarantinedUnlessDlqFails, InvalidQuarantined,
       InBronze, InSeq, Below, KindOf
  <2> QED
    BY <2>2, <2>3, <2>4 DEF Facts
<1> QED
  BY <1>1, <1>2, <1>4, <1>5, <1>6, <1>7, <1>8, <1>9, <1>10, <1>11, <1>12, <1>13, <1>14
     DEF Next, Loop, Deliver
-----------------------------------------------------------------------------
\* The inductive invariant holds in every reachable state.
THEOREM Invariance == SafeSpec => []IInv
<1>1. IInv /\ [Next]_vars => IInv'
  BY StepType, StepFacts DEF IInv, Facts
<1> QED
  BY <1>1, InitInv, PTL DEF SafeSpec

\* Types, and no offset beyond the log.
THEOREM TypeCorrectness == SafeSpec => []TypeOK
BY Invariance, PTL DEF IInv

\* A valid message whose offset is committed is in the lake.
THEOREM NothingAcceptedIsLost == SafeSpec => []NoAcceptedLoss
BY Invariance, PTL DEF IInv

\* A stopped writer has uploaded everything it consumed.
THEOREM StoppingLosesNothing == SafeSpec => []StopLosesNothing
<1>1. IInv => StopLosesNothing
  <2> SUFFICES ASSUME IInv, pc = "closed", NEW p \in Partitions,
                      NEW o \in Below(p, position[p], "valid")
               PROVE  InBronze(<<p, o>>)
    BY DEF StopLosesNothing
  <2>1. records = <<>>
    BY DEF IInv, Remembered
  <2>2. ~InSeq(<<p, o>>, records)
    BY <2>1 DEF InSeq
  <2> QED
    BY <2>2 DEF IInv, Remembered
<1> QED
  BY <1>1, Invariance, PTL

\* The batch in memory keeps within its size.
THEOREM RecordsAreBounded == SafeSpec => []RecordsBounded
<1>1. IInv => RecordsBounded
  BY DEF IInv, BatchInv, RecordsBounded
<1> QED
  BY <1>1, Invariance, PTL

\* Invalid messages below the committed offset are dead letters unless the dead
\* letter producer failed.
THEOREM DeadLettersAreKept == SafeSpec => []QuarantinedUnlessDlqFails
BY Invariance, PTL DEF IInv
-----------------------------------------------------------------------------
(* How often a message is uploaded: the copies in the lake, those that the *)
(* batch in memory will add, and one that is still to be consumed, or will *)
(* be again after a restart, are paid for by the interruptions.            *)

Uploaded(m) == {b \in (1 .. Len(bronze)) \X (1 .. BatchSize) :
                  b[2] <= Len(bronze[b[1]]) /\ bronze[b[1]][b[2]] = m}

Held(m) == {i \in 1 .. Len(records) : records[i] = m}

ToUpload(m) == IF pc \in {"poll", "flush"} THEN Cardinality(Held(m)) ELSE 0

ToConsume(m) == IF running /\ Alive /\ m[2] < position[m[1]] THEN 0 ELSE 1

CopyInv ==
  \A m \in Messages : Copies(m) + ToUpload(m) + ToConsume(m) <= 1 + interruptions

LEMMA Sizes ==
  ASSUME TypeOK, NEW m
  PROVE  /\ IsFiniteSet(Uploaded(m)) /\ Copies(m) = Cardinality(Uploaded(m)) /\ Copies(m) \in Nat
         /\ IsFiniteSet(Held(m)) /\ Cardinality(Held(m)) \in Nat
         /\ ToUpload(m) \in Nat /\ ToConsume(m) \in {0, 1} /\ interruptions \in Nat
<1> DEFINE I == 1 .. Len(bronze)
           J == 1 .. BatchSize
<1>1. Len(bronze) \in Nat /\ Len(records) \in Nat /\ BatchSize \in Nat /\ interruptions \in Nat
  BY ConstantsAssumption DEF TypeOK
<1>2. IsFiniteSet(I) /\ IsFiniteSet(J) /\ IsFiniteSet(1 .. Len(records))
  BY <1>1, FS_Interval
<1>3. IsFiniteSet(I \X J)
  BY <1>2, FS_Product
<1>4. Uploaded(m) \in SUBSET (I \X J) /\ Held(m) \in SUBSET (1 .. Len(records))
  BY DEF Uploaded, Held
<1>5. IsFiniteSet(Uploaded(m)) /\ IsFiniteSet(Held(m))
  BY <1>2, <1>3, <1>4, FS_Subset
<1>6. Cardinality(Uploaded(m)) \in Nat /\ Cardinality(Held(m)) \in Nat
  BY <1>5, FS_CardinalityType
<1>7. Copies(m) = Cardinality(Uploaded(m))
  BY DEF Copies, Uploaded
<1>8. ToUpload(m) \in Nat /\ ToConsume(m) \in {0, 1}
  BY <1>6 DEF ToUpload, ToConsume
<1> QED
  BY <1>1, <1>5, <1>6, <1>7, <1>8

\* An upload adds at most the copies that the batch holds.
LEMMA UploadCounts ==
  ASSUME TypeOK, bronze' = Append(bronze, records), NEW m
  PROVE  Copies(m)' \in Nat /\ Copies(m)' <= Copies(m) + Cardinality(Held(m))
<1> DEFINE n == Len(bronze) + 1
           U == Uploaded(m)
           H == Held(m)
           F == {<<n, i>> : i \in H}
           f == [i \in H |-> <<n, i>>]
<1>1. f \in Surjection(H, F)
  BY DEF Surjection
<1>2. IsFiniteSet(U) /\ IsFiniteSet(H) /\ Cardinality(U) \in Nat /\ Cardinality(H) \in Nat
      /\ Copies(m) = Cardinality(U)
  BY Sizes
<1>3. IsFiniteSet(F) /\ Cardinality(F) <= Cardinality(H)
  <2> HIDE DEF f, H, F
  <2> QED
    BY <1>1, <1>2, FS_Surjection
<1>4. Uploaded(m)' \in SUBSET (U \cup F)
  <2>1. Len(bronze') = n /\ bronze'[n] = records /\ Len(bronze) \in Nat /\ Len(records) \in Nat
    BY DEF TypeOK
  <2>2. \A i \in 1 .. Len(bronze) : bronze'[i] = bronze[i]
    BY DEF TypeOK
  <2>3. ASSUME NEW b \in (1 .. Len(bronze')) \X (1 .. BatchSize),
               b[2] <= Len(bronze'[b[1]]), bronze'[b[1]][b[2]] = m
        PROVE  b \in U \cup F
    <3>1. PICK i \in 1 .. n, j \in 1 .. BatchSize : b = <<i, j>>
      BY <2>1, <2>3
    <3>2. CASE i = n
      <4>1. j \in H
        BY <2>1, <2>3, <3>1, <3>2, ConstantsAssumption DEF Held
      <4> QED
        BY <3>1, <3>2, <4>1
    <3>3. CASE i # n
      <4>1. i \in 1 .. Len(bronze)
        BY <2>1, <3>3
      <4>2. j <= Len(bronze[i]) /\ bronze[i][j] = m
        BY <2>2, <2>3, <3>1, <4>1
      <4> QED
        BY <3>1, <4>1, <4>2 DEF Uploaded
    <3> QED
      BY <3>2, <3>3
  <2> QED
    BY <2>3 DEF Uploaded
<1> HIDE DEF U, H, F, f
<1>5. IsFiniteSet(U \cup F) /\ Cardinality(F) \in Nat /\ Cardinality(U \cap F) \in Nat
      /\ Cardinality(U \cup F) = Cardinality(U) + Cardinality(F) - Cardinality(U \cap F)
  <2>1. U \cap F \in SUBSET U
    OBVIOUS
  <2>2. IsFiniteSet(U \cap F)
    BY <1>2, <2>1, FS_Subset
  <2> QED
    BY <1>2, <1>3, <2>2, FS_Union, FS_CardinalityType
<1>6. /\ IsFiniteSet(Uploaded(m)') /\ Cardinality(Uploaded(m)') \in Nat
      /\ Cardinality(Uploaded(m)') <= Cardinality(U \cup F)
  BY <1>4, <1>5, FS_Subset, FS_CardinalityType
<1>7. Copies(m)' = Cardinality(Uploaded(m)')
  BY DEF Copies, Uploaded
<1>8. Cardinality(U \cup F) <= Cardinality(U) + Cardinality(H) /\ Cardinality(U \cup F) \in Nat
  BY <1>2, <1>3, <1>5, FS_CardinalityType
<1> QED
  BY <1>2, <1>6, <1>7, <1>8 DEF H

\* Consuming a message adds one to what the batch holds of it, and nothing of another.
LEMMA HandleCounts ==
  ASSUME TypeOK, NEW x \in Messages, records' = Append(records, x), NEW m
  PROVE  Cardinality(Held(m)') = Cardinality(Held(m)) + (IF x = m THEN 1 ELSE 0)
<1> DEFINE n == Len(records) + 1
<1>1. /\ Len(records') = n /\ records'[n] = x /\ Len(records) \in Nat
      /\ \A i \in 1 .. Len(records) : records'[i] = records[i]
  BY DEF TypeOK
<1>2. n \notin Held(m) /\ IsFiniteSet(Held(m)) /\ Cardinality(Held(m)) \in Nat
  <2>1. n \notin Held(m)
    BY <1>1 DEF Held
  <2> QED
    BY <2>1, Sizes
<1>3. CASE x = m
  <2>1. Held(m)' = Held(m) \cup {n}
    BY <1>1, <1>3 DEF Held
  <2> QED
    BY <1>2, <1>3, <2>1, FS_AddElement
<1>4. CASE x # m
  <2>1. Held(m)' = Held(m)
    BY <1>1, <1>4 DEF Held
  <2> QED
    BY <1>2, <1>4, <2>1
<1> QED
  BY <1>3, <1>4

LEMMA NothingHeld ==
  ASSUME NEW m, records = <<>>
  PROVE  Cardinality(Held(m)) = 0
<1>1. Held(m) = {}
  BY DEF Held
<1> QED
  BY <1>1, FS_EmptySet

LEMMA SizesNext ==
  ASSUME NEW m
  PROVE  (TypeOK => Copies(m) \in Nat /\ ToUpload(m) \in Nat /\ ToConsume(m) \in {0, 1}
                    /\ interruptions \in Nat)'
<1>1. TypeOK => Copies(m) \in Nat /\ ToUpload(m) \in Nat /\ ToConsume(m) \in {0, 1}
                /\ interruptions \in Nat
  BY Sizes
<1> QED
  BY <1>1, PTL

\* No step makes the sum grow by more than it interrupts.
LEMMA CopyStep ==
  ASSUME IInv, [Next]_vars, NEW m \in Messages,
         Copies(m) + ToUpload(m) + ToConsume(m) <= 1 + interruptions
  PROVE  (Copies(m) + ToUpload(m) + ToConsume(m) <= 1 + interruptions)'
<1> USE DEF memory, faults
<1>0. TypeOK /\ TypeOK'
  BY StepType DEF IInv
<1>1. /\ Copies(m) \in Nat /\ ToUpload(m) \in Nat /\ ToConsume(m) \in {0, 1}
      /\ interruptions \in Nat /\ Cardinality(Held(m)) \in Nat
  BY <1>0, Sizes
<1>2. /\ Copies(m)' \in Nat /\ ToUpload(m)' \in Nat /\ ToConsume(m)' \in {0, 1}
      /\ interruptions' \in Nat
  BY <1>0, SizesNext
<1>3. ASSUME bronze' = bronze
      PROVE  Copies(m)' = Copies(m)
  BY <1>3 DEF Copies
<1>4. ASSUME records' = records
      PROVE  Cardinality(Held(m)') = Cardinality(Held(m))
  BY <1>4 DEF Held
<1>5. ASSUME records' = <<>>
      PROVE  ToUpload(m)' = 0
  <2>1. Held(m)' = {}
    BY <1>5 DEF Held
  <2> QED
    BY <2>1, FS_EmptySet DEF ToUpload
<1>6. ASSUME UNCHANGED <<position, running, records, bronze, interruptions>>,
             Alive => Alive', pc' \in {"poll", "flush"} => pc \in {"poll", "flush"}
      PROVE  (Copies(m) + ToUpload(m) + ToConsume(m) <= 1 + interruptions)'
  <2>1. Copies(m)' = Copies(m) /\ Cardinality(Held(m)') = Cardinality(Held(m))
    BY <1>3, <1>4, <1>6
  <2>2. ToUpload(m)' <= ToUpload(m)
    BY <1>1, <1>6, <2>1 DEF ToUpload
  <2>3. ToConsume(m)' <= ToConsume(m)
    BY <1>1, <1>6 DEF ToConsume
  <2> QED
    BY <1>1, <1>2, <1>6, <2>1, <2>2, <2>3
<1>7. ASSUME NEW p \in Partitions, Handle(p)
      PROVE  (Copies(m) + ToUpload(m) + ToConsume(m) <= 1 + interruptions)'
  <2> DEFINE x == <<p, position[p]>>
  <2>1. /\ pc = "poll" /\ running /\ pc' \in {"poll", "flush"}
        /\ UNCHANGED <<bronze, running, interruptions>>
        /\ position[p] \in Nat /\ position' = [position EXCEPT ![p] = position[p] + 1]
    BY <1>0, <1>7 DEF Handle, TypeOK
  <2>2. x \in Messages
    BY <2>1 DEF Messages
  <2>3. Cardinality(Held(m)') <= Cardinality(Held(m)) + (IF x = m THEN 1 ELSE 0)
    <3>1. CASE records' = Append(records, x)
      <4> HIDE DEF x
      <4> QED
        BY <1>0, <1>1, <2>2, <3>1, HandleCounts
    <3>2. CASE records' = records
      BY <1>1, <1>4, <3>2
    <3> QED
      BY <1>7, <3>1, <3>2 DEF Handle
  <2>4. m[1] \in Partitions /\ m[2] \in Nat /\ m = <<m[1], m[2]>>
    BY DEF Messages
  <2>5. ToConsume(m)' <= ToConsume(m) - (IF x = m THEN 1 ELSE 0)
    <3>1. Alive /\ Alive'
      BY <2>1 DEF Alive
    <3>2. CASE x = m
      <4>1. m[1] = p /\ m[2] = position[p]
        BY <3>2
      <4>2. ~ (m[2] < position[m[1]])
        BY <2>1, <4>1
      <4>3. position'[p] = position[p] + 1
        BY <1>0, <2>1 DEF TypeOK
      <4>4. m[2] < position'[m[1]]
        BY <2>1, <4>1, <4>3
      <4> QED
        BY <2>1, <3>1, <3>2, <4>2, <4>4 DEF ToConsume
    <3>3. CASE x # m
      <4>1. position'[m[1]] >= position[m[1]] /\ position[m[1]] \in Nat
        <5>1. position \in [Partitions -> Nat] /\ position[m[1]] \in Nat
          BY <1>0, <2>4 DEF TypeOK
        <5>2. position'[m[1]] = IF m[1] = p THEN position[p] + 1 ELSE position[m[1]]
          BY <2>1, <2>4, <5>1
        <5> QED
          BY <2>1, <5>1, <5>2
      <4>2. position'[m[1]] \in Nat
        BY <1>0, <2>4 DEF TypeOK
      <4> QED
        BY <2>1, <2>4, <3>1, <3>3, <4>1, <4>2 DEF ToConsume
    <3> QED
      BY <3>2, <3>3
  <2>6. ToUpload(m) = Cardinality(Held(m)) /\ ToUpload(m)' = Cardinality(Held(m)')
    BY <2>1 DEF ToUpload
  <2>7. Copies(m)' = Copies(m)
    BY <1>3, <2>1
  <2> HIDE DEF x
  <2> QED
    BY <1>1, <1>2, <2>1, <2>3, <2>5, <2>6, <2>7
<1>8. CASE Upload
  <2>1. /\ pc = "flush" /\ pc' = "dlq"
        /\ UNCHANGED <<position, records, running, interruptions>>
        /\ bronze' = IF records = <<>> THEN bronze ELSE Append(bronze, records)
    BY <1>8 DEF Upload
  <2>2. Copies(m)' <= Copies(m) + Cardinality(Held(m))
    BY <1>0, <1>1, <1>3, <2>1, UploadCounts
  <2>3. ToUpload(m) = Cardinality(Held(m)) /\ ToUpload(m)' = 0
    BY <2>1 DEF ToUpload
  <2>4. ToConsume(m)' = ToConsume(m)
    BY <2>1 DEF ToConsume, Alive
  <2> QED
    BY <1>1, <1>2, <2>1, <2>2, <2>3, <2>4
<1>9. CASE Commit
  <2>1. /\ pc = "commit" /\ pc' = "poll" /\ records' = <<>>
        /\ UNCHANGED <<position, bronze, running, interruptions>>
    BY <1>9 DEF Commit
  <2>2. Copies(m)' = Copies(m) /\ ToUpload(m)' = 0 /\ ToConsume(m)' = ToConsume(m)
    BY <1>3, <1>5, <2>1 DEF ToConsume, Alive
  <2> QED
    BY <1>1, <2>1, <2>2
<1>10. ASSUME UNCHANGED <<records, bronze, pc>>, interruptions' = interruptions + 1
       PROVE  (Copies(m) + ToUpload(m) + ToConsume(m) <= 1 + interruptions)'
  <2>1. Copies(m)' = Copies(m) /\ Cardinality(Held(m)') = Cardinality(Held(m))
    BY <1>3, <1>4, <1>10
  <2>2. ToUpload(m)' = ToUpload(m)
    BY <1>10, <2>1 DEF ToUpload
  <2>3. ToConsume(m)' <= ToConsume(m) + 1
    BY <1>1, <1>2
  <2> QED
    BY <1>1, <1>2, <1>10, <2>1, <2>2, <2>3
<1>11. ASSUME Die, interruptions' = interruptions + 1,
              \/ bronze' = bronze
              \/ bronze' = Append(bronze, records) /\ pc = "flush"
       PROVE  (Copies(m) + ToUpload(m) + ToConsume(m) <= 1 + interruptions)'
  <2>1. ToUpload(m)' = 0
    BY <1>5, <1>11 DEF Die
  <2>2. Copies(m)' <= Copies(m) + ToUpload(m)
    <3>1. CASE bronze' = bronze
      BY <1>1, <1>3, <3>1
    <3>2. CASE bronze' = Append(bronze, records) /\ pc = "flush"
      BY <1>0, <3>2, UploadCounts DEF ToUpload
    <3> QED
      BY <1>11, <3>1, <3>2
  <2>3. ToConsume(m)' <= ToConsume(m) + 1
    BY <1>1, <1>2
  <2> QED
    BY <1>1, <1>2, <1>11, <2>1, <2>2, <2>3
<1>12. CASE Restart
  <2>1. ~Alive /\ records' = <<>> /\ UNCHANGED <<bronze, interruptions>>
    BY <1>12 DEF Restart
  <2>2. Copies(m)' = Copies(m) /\ ToUpload(m)' = 0 /\ ToConsume(m) = 1
    BY <1>3, <1>5, <2>1 DEF ToConsume
  <2> QED
    BY <1>1, <1>2, <2>1, <2>2
<1>13. CASE LastFlush
  <2>1. /\ pc = "poll" /\ ~running /\ pc' \in {"closed", "flush"}
        /\ UNCHANGED <<position, running, records, bronze, interruptions>>
    BY <1>13 DEF LastFlush
  <2>2. Copies(m)' = Copies(m) /\ Cardinality(Held(m)') = Cardinality(Held(m))
    BY <1>3, <1>4, <2>1
  <2>3. ToUpload(m)' <= ToUpload(m)
    BY <1>1, <2>1, <2>2 DEF ToUpload
  <2>4. ToConsume(m) = 1
    BY <2>1 DEF ToConsume
  <2> QED
    BY <1>1, <1>2, <2>1, <2>2, <2>3, <2>4
<1>14. CASE \/ \E p \in Partitions, kind \in Kinds : Produce(p, kind)
            \/ FlushByTime \/ DlqFlushed \/ DlqTimesOut
            \/ \E x \in dlqBuffer : DlqDeliver(x) \/ DlqDrop(x)
            \/ PollNothing \/ UNCHANGED vars
  BY <1>6, <1>14 DEF Produce, FlushByTime, DlqFlushed, DlqTimesOut, DlqDeliver, DlqDrop,
     PollNothing, vars, Alive
<1>15. CASE Stop \/ \E p \in Partitions : Rebalance(p)
  BY <1>10, <1>15 DEF Stop, Rebalance, Interrupt
<1>16. CASE UploadRaises \/ CommitRaises \/ Kill
  BY <1>11, <1>16 DEF UploadRaises, CommitRaises, Kill, Interrupt
<1> QED
  BY <1>7, <1>8, <1>9, <1>12, <1>13, <1>14, <1>15, <1>16 DEF Next, Loop, Deliver

\* Nothing in the loop itself duplicates: a message is in the lake once, and at most
\* once more for every rebalance, raised effect, stop and kill.
THEOREM CopiesAreBounded == SafeSpec => []CopiesBounded
<1>1. Init => CopyInv
  <2> SUFFICES ASSUME Init, NEW m \in Messages
               PROVE  Copies(m) + ToUpload(m) + ToConsume(m) <= 1 + interruptions
    BY DEF CopyInv
  <2>1. TypeOK /\ bronze = <<>> /\ records = <<>> /\ interruptions = 0
    BY InitInv DEF Init, IInv
  <2>2. Uploaded(m) = {} /\ Held(m) = {}
    BY <2>1 DEF Uploaded, Held
  <2>3. Copies(m) = 0 /\ Cardinality(Held(m)) = 0
    BY <2>1, <2>2, Sizes, FS_EmptySet
  <2>4. ToUpload(m) = 0 /\ ToConsume(m) <= 1
    BY <2>1, <2>3, Sizes DEF ToUpload
  <2> QED
    BY <2>1, <2>3, <2>4, Sizes
<1>2. IInv /\ CopyInv /\ [Next]_vars => CopyInv'
  <2> SUFFICES ASSUME IInv, CopyInv, [Next]_vars, NEW m \in Messages
               PROVE  (Copies(m) + ToUpload(m) + ToConsume(m) <= 1 + interruptions)'
    BY DEF CopyInv
  <2>1. Copies(m) + ToUpload(m) + ToConsume(m) <= 1 + interruptions
    BY DEF CopyInv
  <2> QED
    BY <2>1, CopyStep
<1>3. IInv /\ CopyInv => CopiesBounded
  <2> SUFFICES ASSUME IInv, CopyInv, NEW p \in Partitions, NEW o \in 0 .. Len(log[p]) - 1
               PROVE  Copies(<<p, o>>) <= 1 + interruptions
    BY DEF CopiesBounded
  <2>1. <<p, o>> \in Messages
    BY DEF Messages
  <2> DEFINE m == <<p, o>>
  <2>2. Copies(m) + ToUpload(m) + ToConsume(m) <= 1 + interruptions
    BY <2>1 DEF CopyInv
  <2>3. /\ Copies(m) \in Nat /\ ToUpload(m) \in Nat /\ ToConsume(m) \in {0, 1}
        /\ interruptions \in Nat
    BY Sizes DEF IInv
  <2> HIDE DEF m
  <2>4. Copies(m) <= 1 + interruptions
    BY <2>2, <2>3
  <2> QED
    BY <2>4 DEF m
<1> QED
  BY <1>1, <1>2, <1>3, Invariance, PTL DEF SafeSpec
=============================================================================
