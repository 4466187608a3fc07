------------------------- MODULE IngestWorkerProofs -------------------------
(***************************************************************************)
(* Proofs about the ingest worker, for any topic, any number of partitions *)
(* and events, any batch size and any number of faults.                    *)
(***************************************************************************)
EXTENDS IngestWorker, FiniteSetTheorems, TLAPS

Busy == pc \in {"handle", "publish", "commit"}

\* The positions and the committed offsets stay within the topic.
PositionsInLog ==
  \A p \in Partitions : committed[p] <= Len(log[p]) /\ position[p] <= Len(log[p])

\* Between two batches the positions are the committed offsets.
PollsFromCommitted == pc = "poll" => position = committed

\* Without a batch in hand there is no batch.
NoBatch == pc \in {"down", "poll", "closing"} => batch = {}

\* A record between the committed offset and the position is in the batch.
FetchedInBatch ==
  Busy =>
    /\ \A p \in Partitions : committed[p] <= position[p]
    /\ \A l \in Location :
         committed[l[1]] <= l[2] /\ l[2] < position[l[1]] => l \in batch

BatchInLog == \A l \in batch : InLog(l)

\* Once the transaction of the record in hand is through, it is recorded.
HandledRecorded ==
  pc \in {"publish", "commit"} =>
    Recorded(at) /\ (pc = "publish" => \E i \in DOMAIN dlq : dlq[i] = at)

\* A batch some of which is committed already has lost its first record.
BatchSize ==
  /\ Cardinality(batch) <= MaxPollRecords
  /\ (\E l \in batch : l[2] < committed[l[1]]) => Cardinality(batch) < MaxPollRecords

IInv ==
  /\ TypeOK
  /\ PositionsInLog
  /\ PollsFromCommitted
  /\ NoBatch
  /\ FetchedInBatch
  /\ BatchInLog
  /\ HandledRecorded
  /\ BatchSize

-----------------------------------------------------------------------------
LEMMA LocationFinite == IsFiniteSet(Location)
<1>1. IsFiniteSet(0..MaxLog - 1)
  BY ConstantsAssumption, FS_Interval
<1>2. IsFiniteSet(Partitions)
  BY ConstantsAssumption
<1> QED
  BY <1>1, <1>2, FS_Product DEF Location

\* What the type of log says in terms of sequences.
LEMMA LogIsSeq ==
  ASSUME log \in [Partitions -> UNION {[1..n -> Record] : n \in 0..MaxLog}],
         NEW p \in Partitions
  PROVE  log[p] \in Seq(Record) /\ Len(log[p]) \in 0..MaxLog
<1>1. PICK n \in 0..MaxLog : log[p] \in [1..n -> Record]
  OBVIOUS
<1>2. n \in Nat
  BY <1>1, ConstantsAssumption
<1>3. log[p] \in Seq(Record) /\ Len(log[p]) = n
  BY <1>1, <1>2
<1> QED
  BY <1>3

\* Every step keeps the types.
LEMMA TypeStep == TypeOK /\ [Next]_vars => TypeOK'
<1> SUFFICES ASSUME TypeOK, [Next]_vars PROVE TypeOK'
  OBVIOUS
<1> USE ConstantsAssumption DEF TypeOK
<1>1. CASE Start
  BY <1>1 DEF Start, StartPosition, broker, postgres
<1>2. CASE Poll
  BY <1>2 DEF Poll, PollBatch, Fetched, postgres
<1>3. ASSUME NEW l \in batch, Handle(l) PROVE TypeOK'
  <2>1. l \in Location /\ l[1] \in Partitions /\ l[2] \in 0..MaxLog - 1
    BY <1>3 DEF Location
  <2>2. metrics.accepted + 1 \in Nat /\ metrics.rejected + 1 \in Nat
    OBVIOUS
  <2>3. CASE RecordLanding(l)
    <3>1. landing' \in [EventIds -> Location \cup {None}]
      BY <2>1, <2>3 DEF RecordLanding
    <3>2. checkpoint' \in [Partitions -> -1..MaxLog - 1]
      BY <2>1, <2>3, SMTT(30) DEF RecordLanding, Upserts
    <3>3. metrics' \in [accepted : Nat, rejected : Nat, last : Location \cup {None}]
      BY <2>1, <2>2, <2>3 DEF RecordLanding, Upserts
    <3> QED
      BY <1>3, <2>1, <2>3, <3>1, <3>2, <3>3 DEF Handle, RecordLanding, broker
  <2>4. CASE RecordDlq(l)
    <3>1. dlq' \in Seq(Location)
      BY <2>1, <2>4 DEF RecordDlq
    <3>2. checkpoint' \in [Partitions -> -1..MaxLog - 1]
      BY <2>1, <2>4, SMTT(30) DEF RecordDlq, Upserts
    <3>3. metrics' \in [accepted : Nat, rejected : Nat, last : Location \cup {None}]
      BY <2>1, <2>2, <2>4 DEF RecordDlq, Upserts
    <3> QED
      BY <1>3, <2>1, <2>4, <3>1, <3>2, <3>3 DEF Handle, RecordDlq, broker
  <2> QED
    BY <1>3, <2>3, <2>4 DEF Handle
<1>4. ASSUME NEW l \in batch, HandleRefused(l) PROVE TypeOK'
  BY <1>4 DEF HandleRefused, Refused, Leave, broker
<1>5. CASE PublishDlqMetadata
  BY <1>5 DEF PublishDlqMetadata, broker, postgres
<1>6. CASE CommitOffsets
  BY <1>6 DEF CommitOffsets, OffsetsToCommit, Leave, postgres
<1>7. CASE Close \/ CloseTimeout \/ Kill
  BY <1>7 DEF Close, CloseTimeout, Kill, Exit, Fault, broker, postgres
<1>8. CASE PollNothing \/ UNCHANGED vars
  BY <1>8 DEF PollNothing, vars, broker, postgres, process
<1>9. CASE IdleStop \/ Raise
  BY <1>9 DEF IdleStop, Raise, Leave, Fault, broker, postgres
<1>10. ASSUME NEW l \in outbox, Deliver(l) \/ Expire(l) PROVE TypeOK'
  BY <1>10 DEF Deliver, Expire, Fault, broker, postgres
<1> QED
  BY <1>1, <1>2, <1>3, <1>4, <1>5, <1>6, <1>7, <1>8, <1>9, <1>10 DEF Next, WorkerStep

LEMMA TypeInit == Init => TypeOK
  BY ConstantsAssumption DEF Init, TypeOK

\* The variables keep their types, whatever the topic holds.
THEOREM TypeCorrect == Spec => []TypeOK
  BY TypeInit, TypeStep, PTL DEF Spec

-----------------------------------------------------------------------------
\* A location names a partition and an offset.
LEMMA LocationParts ==
  \A l \in Location : l[1] \in Partitions /\ l[2] \in 0..MaxLog - 1 /\ l = <<l[1], l[2]>>
  BY DEF Location

\* A record of the log is one of Record.
LEMMA LogRecord ==
  ASSUME log \in [Partitions -> UNION {[1..n -> Record] : n \in 0..MaxLog}],
         NEW l \in Location, InLog(l)
  PROVE  /\ RecordAt(l) \in Record
         /\ RecordAt(l).kind \in {"valid", "invalid", "empty", "unstorable"}
         /\ RecordAt(l).kind = "valid" => RecordAt(l).id \in EventIds
<1>1. l[1] \in Partitions /\ l[2] \in 0..MaxLog - 1
  BY LocationParts
<1>2. log[l[1]] \in Seq(Record) /\ Len(log[l[1]]) \in 0..MaxLog
  BY <1>1, LogIsSeq
<1>3. l[2] + 1 \in 1..Len(log[l[1]])
  BY <1>1, <1>2 DEF InLog
<1>4. RecordAt(l) \in Record
  BY <1>2, <1>3 DEF RecordAt
<1> QED
  BY <1>4 DEF Record

LEMMA RecordInLog ==
  ASSUME TypeOK, NEW l \in Location, InLog(l)
  PROVE  /\ RecordAt(l) \in Record
         /\ RecordAt(l).kind \in {"valid", "invalid", "empty", "unstorable"}
         /\ RecordAt(l).kind = "valid" => RecordAt(l).id \in EventIds
  BY LogRecord DEF TypeOK

\* No step changes the topic, replaces a landing row or removes a DLQ row.
LEMMA TablesGrow ==
  ASSUME TypeOK, [Next]_vars
  PROVE  /\ log' = log
         /\ \A e \in EventIds : landing[e] # None => landing'[e] = landing[e]
         /\ \A i \in DOMAIN dlq : i \in DOMAIN dlq' /\ dlq'[i] = dlq[i]
<1> USE DEF TypeOK
<1>1. CASE Start
  BY <1>1 DEF Start, broker, postgres
<1>2. CASE Poll
  BY <1>2 DEF Poll, PollBatch, postgres
<1>3. ASSUME NEW l \in batch, Handle(l)
      PROVE  /\ log' = log
             /\ \A e \in EventIds : landing[e] # None => landing'[e] = landing[e]
             /\ \A i \in DOMAIN dlq : i \in DOMAIN dlq' /\ dlq'[i] = dlq[i]
  <2>1. CASE RecordLanding(l)
    BY <1>3, <2>1 DEF Handle, RecordLanding, broker
  <2>2. CASE RecordDlq(l)
    BY <1>3, <2>2 DEF Handle, RecordDlq, broker
  <2> QED
    BY <1>3, <2>1, <2>2 DEF Handle
<1>4. ASSUME NEW l \in batch, HandleRefused(l)
      PROVE  log' = log /\ landing' = landing /\ dlq' = dlq
  BY <1>4 DEF HandleRefused, Refused, broker
<1>5. CASE PublishDlqMetadata
  BY <1>5 DEF PublishDlqMetadata, broker, postgres
<1>6. CASE CommitOffsets
  BY <1>6 DEF CommitOffsets, postgres
<1>7. CASE Close \/ CloseTimeout \/ Kill
  BY <1>7 DEF Close, CloseTimeout, Kill, Exit, broker, postgres
<1>8. CASE PollNothing \/ UNCHANGED vars
  BY <1>8 DEF PollNothing, vars, broker, postgres
<1>9. CASE IdleStop \/ Raise
  BY <1>9 DEF IdleStop, Raise, broker, postgres
<1>10. ASSUME NEW l \in outbox, Deliver(l) \/ Expire(l)
       PROVE  log' = log /\ landing' = landing /\ dlq' = dlq
  BY <1>10 DEF Deliver, Expire, broker, postgres
<1> QED
  BY <1>1, <1>2, <1>3, <1>4, <1>5, <1>6, <1>7, <1>8, <1>9, <1>10 DEF Next, WorkerStep

\* What is recorded stays recorded.
LEMMA RecordedStays ==
  ASSUME TypeOK, [Next]_vars, NEW l \in Location, InLog(l), Recorded(l)
  PROVE  InLog(l)' /\ Recorded(l)'
<1>1. log' = log /\ InLog(l)'
  BY TablesGrow DEF InLog
<1>2. CASE RecordAt(l).kind = "valid"
  <2>1. RecordAt(l).id \in EventIds
    BY <1>2, RecordInLog
  <2>2. landing'[RecordAt(l).id] # None
    BY <1>2, <2>1, TablesGrow DEF Recorded
  <2> QED
    BY <1>1, <1>2, <2>2 DEF Recorded, RecordAt
<1>3. CASE RecordAt(l).kind # "valid"
  <2>1. PICK i \in DOMAIN dlq : dlq[i] = l
    BY <1>3 DEF Recorded
  <2>2. i \in DOMAIN dlq' /\ dlq'[i] = l
    BY <2>1, TablesGrow
  <2> QED
    BY <1>1, <1>3, <2>2 DEF Recorded, RecordAt
<1> QED
  BY <1>2, <1>3

-----------------------------------------------------------------------------
LEMMA BatchFinite ==
  ASSUME TypeOK
  PROVE  IsFiniteSet(batch) /\ Cardinality(batch) \in Nat
  BY LocationFinite, FS_Subset, FS_CardinalityType DEF TypeOK

LEMMA IInvInit == Init => IInv
<1> SUFFICES ASSUME Init PROVE IInv
  OBVIOUS
<1>1. TypeOK
  BY TypeInit
<1>2. \A p \in Partitions : Len(log[p]) \in 0..MaxLog
  BY LogIsSeq, <1>1 DEF TypeOK
<1>3. PositionsInLog
  BY <1>2 DEF Init, PositionsInLog
<1>4. BatchSize
  BY FS_EmptySet, ConstantsAssumption DEF Init, BatchSize
<1> QED
  BY <1>1, <1>3, <1>4 DEF Init, IInv, PollsFromCommitted, NoBatch, FetchedInBatch,
     BatchInLog, HandledRecorded, Busy

\* A step that empties the batch and leaves the broker alone.
LEMMA IInvStopped ==
  ASSUME IInv, [Next]_vars, batch' = {}, pc' \in {"down", "closing"},
         committed' = committed, position' = position
  PROVE  IInv'
<1>1. TypeOK' /\ log' = log
  BY TypeStep, TablesGrow DEF IInv
<1>2. BatchSize'
  BY FS_EmptySet, ConstantsAssumption DEF BatchSize
<1> QED
  BY <1>1, <1>2 DEF IInv, PositionsInLog, PollsFromCommitted, NoBatch, FetchedInBatch,
     BatchInLog, HandledRecorded, Busy

\* A step that keeps the place in the batch: at most the tables grow.
LEMMA IInvQuiet ==
  ASSUME IInv, [Next]_vars,
         UNCHANGED <<pc, batch, at, committed, position>>
  PROVE  IInv'
<1>1. TypeOK' /\ log' = log
  BY TypeStep, TablesGrow DEF IInv
<1>2. HandledRecorded'
  <2> SUFFICES ASSUME pc \in {"publish", "commit"}
               PROVE  Recorded(at)' /\ (pc = "publish" => \E i \in DOMAIN dlq' : dlq'[i] = at)
    BY DEF HandledRecorded
  <2>1. at \in Location /\ InLog(at) /\ Recorded(at)
    BY DEF IInv, TypeOK, HandledRecorded, BatchInLog
  <2>2. Recorded(at)'
    BY <2>1, RecordedStays DEF IInv, Recorded, RecordAt
  <2> QED
    BY <2>2, TablesGrow DEF IInv, HandledRecorded
<1> QED
  BY <1>1, <1>2 DEF IInv, PositionsInLog, PollsFromCommitted, NoBatch, FetchedInBatch,
     BatchInLog, BatchSize, Busy, InLog

LEMMA IInvPoll ==
  ASSUME IInv, Poll
  PROVE  IInv'
<1> USE DEF IInv
<1>0. [Next]_vars
  BY DEF Next, WorkerStep
<1>1. TypeOK' /\ log' = log
  BY <1>0, TypeStep, TablesGrow
<1>2. PICK pos \in [Partitions -> 0..MaxLog] :
        /\ \A p \in Partitions : position[p] <= pos[p] /\ pos[p] <= Len(log[p])
        /\ Cardinality(Fetched(pos)) \in 1..MaxPollRecords
        /\ position' = pos
        /\ batch' = Fetched(pos)
  BY DEF Poll, PollBatch
<1>3. pc = "poll" /\ pc' = "handle" /\ committed' = committed /\ position = committed
  BY DEF Poll, PollBatch, PollsFromCommitted
<1>4. PositionsInLog'
  BY <1>1, <1>2, <1>3 DEF PositionsInLog
<1>5. FetchedInBatch'
  BY <1>2, <1>3 DEF FetchedInBatch, Fetched
<1>6. BatchInLog'
  <2> SUFFICES ASSUME NEW l \in batch' PROVE l[2] < Len(log[l[1]])
    BY <1>1 DEF BatchInLog, InLog
  <2>1. l \in Location /\ l[2] < pos[l[1]] /\ l[1] \in Partitions /\ l[2] \in 0..MaxLog - 1
    BY <1>2, LocationParts DEF Fetched
  <2>2. Len(log[l[1]]) \in 0..MaxLog
    BY <2>1, LogIsSeq DEF TypeOK
  <2> QED
    BY <1>2, <2>1, <2>2
<1>7. BatchSize'
  <2>1. \A l \in batch' : ~(l[2] < committed'[l[1]])
    <3> SUFFICES ASSUME NEW l \in batch' PROVE ~(l[2] < committed[l[1]])
      BY <1>3
    <3>1. l[1] \in Partitions /\ l[2] \in 0..MaxLog - 1 /\ committed[l[1]] <= l[2]
      BY <1>2, <1>3, LocationParts DEF Fetched
    <3> QED
      BY <3>1 DEF TypeOK
  <2> QED
    BY <1>2, <2>1, ConstantsAssumption DEF BatchSize
<1> QED
  BY <1>1, <1>3, <1>4, <1>5, <1>6, <1>7
     DEF PollsFromCommitted, NoBatch, HandledRecorded

LEMMA IInvHandle ==
  ASSUME IInv, NEW l \in batch, Handle(l)
  PROVE  IInv'
<1> USE DEF IInv
<1>0. [Next]_vars
  BY DEF Next, WorkerStep
<1>1. TypeOK' /\ log' = log
  BY <1>0, TypeStep, TablesGrow
<1>2. /\ pc = "handle" /\ pc' \in {"publish", "commit"} /\ at' = l
      /\ UNCHANGED <<committed, position, batch>>
  BY DEF Handle, RecordLanding, RecordDlq, broker
<1>3. l \in Location /\ InLog(l)
  BY DEF TypeOK, BatchInLog
<1>4. Recorded(l)' /\ (pc' = "publish" => \E i \in DOMAIN dlq' : dlq'[i] = l)
  <2>1. CASE RecordLanding(l)
    <3>1. RecordAt(l)' = RecordAt(l) /\ RecordAt(l).kind = "valid" /\ RecordAt(l).id \in EventIds
      BY <1>1, <1>3, <2>1, RecordInLog DEF RecordLanding, RecordAt
    <3>2. landing'[RecordAt(l).id] # None
      BY <1>3, <2>1, <3>1, NoneAssumption DEF RecordLanding, TypeOK
    <3> QED
      BY <2>1, <3>1, <3>2 DEF Recorded, RecordLanding
  <2>2. CASE RecordDlq(l)
    <3>1. RecordAt(l)' = RecordAt(l) /\ RecordAt(l).kind # "valid"
      BY <1>1, <2>2 DEF RecordDlq, RecordAt
    <3>2. Len(dlq) + 1 \in DOMAIN dlq' /\ dlq'[Len(dlq) + 1] = l
      BY <1>3, <2>2 DEF RecordDlq, TypeOK
    <3> QED
      BY <3>1, <3>2 DEF Recorded
  <2> QED
    BY <2>1, <2>2 DEF Handle
<1>5. HandledRecorded'
  BY <1>2, <1>4 DEF HandledRecorded, Recorded, RecordAt
<1> QED
  BY <1>1, <1>2, <1>5 DEF PositionsInLog, PollsFromCommitted, NoBatch, FetchedInBatch,
     BatchInLog, BatchSize, Busy, InLog

LEMMA IInvCommit ==
  ASSUME IInv, CommitOffsets
  PROVE  IInv'
<1> USE DEF IInv
<1>0. [Next]_vars
  BY DEF Next, WorkerStep
<1>1. TypeOK' /\ log' = log
  BY <1>0, TypeStep, TablesGrow
<1>2. /\ pc = "commit" /\ at \in batch
      /\ committed' = position /\ position' = position
      /\ pc' \in {"poll", "handle", "closing"}
      /\ batch' = {} \/ batch' = batch \ {at}
      /\ pc' \in {"poll", "closing"} => batch' = {}
  BY DEF CommitOffsets, OffsetsToCommit, Leave, TypeOK
<1>3. BatchSize'
  <2>1. IsFiniteSet(batch) /\ Cardinality(batch) \in Nat
    BY BatchFinite
  <2>2. Cardinality(batch \ {at}) = Cardinality(batch) - 1
    BY <1>2, <2>1, FS_RemoveElement
  <2>3. Cardinality(batch') < MaxPollRecords
    <3>1. MaxPollRecords \in Nat \ {0} /\ Cardinality(batch) <= MaxPollRecords
      BY ConstantsAssumption DEF BatchSize
    <3>2. CASE batch' = {}
      <4>1. Cardinality(batch') = 0
        BY <3>2, FS_EmptySet
      <4> QED
        BY <3>1, <4>1
    <3>3. CASE batch' = batch \ {at}
      BY <2>1, <2>2, <3>1, <3>3
    <3> QED
      BY <1>2, <3>2, <3>3
  <2>4. Cardinality(batch') \in Nat
    BY <1>1, LocationFinite, FS_Subset, FS_CardinalityType DEF TypeOK
  <2> QED
    BY <2>3, <2>4, ConstantsAssumption DEF BatchSize
<1>4. FetchedInBatch'
  <2> SUFFICES ASSUME NEW l \in Location PROVE ~(position[l[1]] <= l[2] /\ l[2] < position[l[1]])
    BY <1>1, <1>2, SMTT(30) DEF FetchedInBatch, TypeOK
  <2>1. l[1] \in Partitions /\ l[2] \in 0..MaxLog - 1
    BY LocationParts
  <2> QED
    BY <2>1 DEF TypeOK
<1>5. PositionsInLog' /\ PollsFromCommitted'
  BY <1>1, <1>2 DEF PositionsInLog, PollsFromCommitted
<1>6. NoBatch' /\ BatchInLog' /\ HandledRecorded'
  BY <1>1, <1>2 DEF NoBatch, BatchInLog, HandledRecorded, InLog
<1> QED
  BY <1>1, <1>3, <1>4, <1>5, <1>6

LEMMA IInvStep == IInv /\ [Next]_vars => IInv'
<1> SUFFICES ASSUME IInv, [Next]_vars PROVE IInv'
  OBVIOUS
<1>1. CASE Start
  <2>1. TypeOK' /\ log' = log
    BY TypeStep, TablesGrow DEF IInv
  <2> QED
    BY <1>1, <2>1 DEF Start, StartPosition, broker, postgres, IInv, PositionsInLog,
       PollsFromCommitted, NoBatch, FetchedInBatch, BatchInLog, HandledRecorded, BatchSize,
       Busy, InLog
<1>2. CASE Poll
  BY <1>2, IInvPoll
<1>3. CASE \E l \in batch : Handle(l)
  BY <1>3, IInvHandle
<1>4. CASE \E l \in batch : HandleRefused(l)
  BY <1>4, IInvStopped DEF HandleRefused, Refused, Leave, broker
<1>5. CASE PublishDlqMetadata
  <2>1. /\ pc = "publish" /\ pc' = "commit"
        /\ UNCHANGED <<log, landing, dlq, at, batch, committed, position>>
    BY <1>5 DEF PublishDlqMetadata, broker, postgres
  <2>2. TypeOK'
    BY TypeStep DEF IInv
  <2> QED
    BY <2>1, <2>2 DEF IInv, PositionsInLog, PollsFromCommitted, NoBatch, FetchedInBatch,
       BatchInLog, HandledRecorded, BatchSize, Busy, InLog, Recorded, RecordAt
<1>6. CASE CommitOffsets
  BY <1>6, IInvCommit
<1>7. CASE Close \/ CloseTimeout \/ Kill
  BY <1>7, IInvStopped DEF Close, CloseTimeout, Kill, Exit, broker
<1>8. CASE PollNothing \/ UNCHANGED vars
  BY <1>8, IInvQuiet DEF PollNothing, vars, broker, process
<1>9. CASE IdleStop \/ Raise
  BY <1>9, IInvStopped DEF IdleStop, Raise, Leave, broker
<1>10. CASE \E l \in outbox : Deliver(l) \/ Expire(l)
  BY <1>10, IInvQuiet DEF Deliver, Expire, broker
<1> QED
  BY <1>1, <1>2, <1>3, <1>4, <1>5, <1>6, <1>7, <1>8, <1>9, <1>10 DEF Next, WorkerStep

THEOREM InductiveInvariant == Spec => []IInv
  BY IInvInit, IInvStep, PTL DEF Spec

-----------------------------------------------------------------------------
\* What a step does to the batch and the committed offsets.
LEMMA BatchStep ==
  ASSUME IInv, [Next]_vars
  PROVE  \/ committed' = committed /\ batch \subseteq batch'
         \/ committed' = committed /\ batch' = {} /\ pc' \in {"closing", "down"}
         \/ /\ pc = "commit" /\ committed' = position
            /\ batch' = batch \ {at} \/ (batch' = {} /\ pc' = "closing")
<1> USE DEF IInv
<1>1. CASE Start
  BY <1>1 DEF Start, broker
<1>2. CASE Poll
  BY <1>2 DEF Poll, PollBatch, NoBatch
<1>3. CASE \E l \in batch : Handle(l)
  BY <1>3 DEF Handle, broker
<1>4. CASE \E l \in batch : HandleRefused(l)
  BY <1>4 DEF HandleRefused, Refused, Leave, broker
<1>5. CASE PublishDlqMetadata
  BY <1>5 DEF PublishDlqMetadata, broker
<1>6. CASE CommitOffsets
  BY <1>6 DEF CommitOffsets, OffsetsToCommit, Leave
<1>7. CASE Close \/ CloseTimeout \/ Kill
  BY <1>7 DEF Close, CloseTimeout, Kill, Exit, broker
<1>8. CASE PollNothing \/ UNCHANGED vars
  BY <1>8 DEF PollNothing, vars, broker, process
<1>9. CASE IdleStop \/ Raise
  BY <1>9 DEF IdleStop, Raise, Leave, broker
<1>10. CASE \E l \in outbox : Deliver(l) \/ Expire(l)
  BY <1>10 DEF Deliver, Expire, broker
<1> QED
  BY <1>1, <1>2, <1>3, <1>4, <1>5, <1>6, <1>7, <1>8, <1>9, <1>10 DEF Next, WorkerStep

\* A record that a step loses was in the batch, was not recorded, and leaves
\* the batch in that step.
LEMMA LostFromBatch ==
  ASSUME IInv, [Next]_vars, NEW l \in Lost' \ Lost
  PROVE  /\ l \in Location /\ l \in batch \ batch' /\ ~Recorded(l)
         /\ l[2] < committed'[l[1]]
<1> USE DEF IInv
<1>1. l \in Location /\ l[2] < committed'[l[1]] /\ l \notin batch' /\ ~Recorded(l)'
  BY DEF Lost
<1>2. l[1] \in Partitions /\ l[2] \in 0..MaxLog - 1
  BY <1>1, LocationParts
<1>3. log' = log /\ IInv'
  BY TablesGrow, IInvStep
<1>4. InLog(l)
  <2>1. committed'[l[1]] \in 0..MaxLog /\ committed'[l[1]] <= Len(log[l[1]])
    BY <1>2, <1>3 DEF TypeOK, PositionsInLog
  <2>2. Len(log[l[1]]) \in 0..MaxLog
    BY <1>2, LogIsSeq DEF TypeOK
  <2> QED
    BY <1>1, <1>2, <2>1, <2>2 DEF InLog
<1>5. ~Recorded(l)
  BY <1>1, <1>4, RecordedStays
<1>6. l \in batch
  <2>1. l \in batch \/ ~(l[2] < committed[l[1]])
    BY <1>1, <1>5 DEF Lost
  <2>2. CASE committed' = committed
    BY <1>1, <2>1, <2>2
  <2>3. CASE pc = "commit" /\ committed' = position
    <3>1. l[2] < position[l[1]]
      BY <1>1, <2>3
    <3>2. committed[l[1]] <= l[2] => l \in batch
      BY <1>1, <2>3, <3>1 DEF FetchedInBatch, Busy
    <3>3. committed[l[1]] \in 0..MaxLog
      BY <1>2 DEF TypeOK
    <3> QED
      BY <1>2, <2>1, <3>2, <3>3, ConstantsAssumption
  <2> QED
    BY <2>2, <2>3, BatchStep
<1> QED
  BY <1>1, <1>5, <1>6

LEMMA LossStep ==
  ASSUME IInv, [Next]_vars
  PROVE  /\ Cardinality(Lost' \ Lost) <= MaxPollRecords - 1
         /\ Lost' \ Lost # {} => pc' \in {"closing", "down"}
<1> USE DEF IInv
<1>0. MaxPollRecords \in Nat \ {0} /\ IsFiniteSet(batch) /\ Cardinality(batch) \in Nat
  BY ConstantsAssumption, BatchFinite
<1>1. CASE Lost' \ Lost = {}
  BY <1>0, <1>1, FS_EmptySet
<1>2. CASE Lost' \ Lost # {}
  <2>1. PICK l \in Lost' \ Lost : TRUE
    BY <1>2
  <2>2. l \in batch \ batch' /\ l[2] < committed'[l[1]] /\ ~Recorded(l)
    BY <2>1, LostFromBatch
  <2>3. Lost' \ Lost \subseteq batch
    BY LostFromBatch
  <2>4. CASE committed' = committed /\ batch' = {} /\ pc' \in {"closing", "down"}
    <3>1. Cardinality(batch) < MaxPollRecords
      BY <2>2, <2>4 DEF BatchSize
    <3>2. Cardinality(Lost' \ Lost) \in Nat /\ Cardinality(Lost' \ Lost) <= Cardinality(batch)
      BY <1>0, <2>3, FS_Subset, FS_CardinalityType
    <3> QED
      BY <1>0, <2>4, <3>1, <3>2
  <2>5. CASE pc = "commit" /\ (batch' = batch \ {at} \/ (batch' = {} /\ pc' = "closing"))
    <3>1. at \in batch /\ Recorded(at)
      BY <2>5 DEF TypeOK, HandledRecorded
    <3>2. Lost' \ Lost \subseteq batch \ {at}
      BY <2>3, <3>1, LostFromBatch
    <3>3. IsFiniteSet(batch \ {at}) /\ Cardinality(batch \ {at}) = Cardinality(batch) - 1
      BY <1>0, <3>1, FS_RemoveElement
    <3>4. /\ Cardinality(Lost' \ Lost) \in Nat
          /\ Cardinality(Lost' \ Lost) <= Cardinality(batch \ {at})
      BY <3>2, <3>3, FS_Subset, FS_CardinalityType
    <3>5. pc' = "closing"
      BY <2>2, <2>5, <3>1
    <3> QED
      BY <1>0, <3>3, <3>4, <3>5 DEF BatchSize
  <2> QED
    BY <2>2, <2>4, <2>5, BatchStep
<1> QED
  BY <1>1, <1>2

\* Only a stop loses records, and at most the rest of one batch.
THEOREM LossBounded == Spec => LossPerStop
<1>1. IInv /\ [Next]_vars
        => [/\ Cardinality(Lost' \ Lost) <= MaxPollRecords - 1
            /\ Lost' \ Lost # {} => pc' \in {"closing", "down"}]_vars
  BY LossStep
<1> QED
  BY <1>1, InductiveInvariant, PTL DEF Spec, LossPerStop
=============================================================================
