------------------------- MODULE IngestContractProofs -------------------------
(***************************************************************************)
(* What the ingest worker promises the readers of the warehouse, for any   *)
(* topic, any number of partitions and events and any number of faults:    *)
(* for any batch size, that it implements IngestContract, and what its     *)
(* tables and its DLQ topic say of each other after any stop; for          *)
(* INGEST_MAX_POLL_RECORDS = 1, that it loses nothing, and how the tables  *)
(* follow the committed offsets.                                           *)
(***************************************************************************)
EXTENDS IngestWorkerProofs

\* A batch of one is the record in hand.
LEMMA BatchOfOne ==
  ASSUME MaxPollRecords = 1, IInv, NEW l \in batch, NEW m \in batch
  PROVE  l = m
<1>1. IsFiniteSet(batch) /\ Cardinality(batch) \in Nat /\ Cardinality(batch) <= 1
  BY BatchFinite DEF IInv, BatchSize
<1>2. IsFiniteSet(batch \ {l}) /\ Cardinality(batch \ {l}) = Cardinality(batch) - 1
  BY <1>1, FS_RemoveElement
<1>3. Cardinality(batch \ {l}) \in Nat
  BY <1>2, FS_CardinalityType
<1>4. Cardinality(batch \ {l}) = 0
  BY <1>1, <1>2, <1>3
<1>5. batch \ {l} = {}
  BY <1>2, <1>4, FS_EmptySet
<1> QED
  BY <1>5

-----------------------------------------------------------------------------
\* The worker implements the contract, for any batch size.

LEMMA ContractInit == Init => Contract!Init
<1> SUFFICES ASSUME Init PROVE Contract!Init
  OBVIOUS
<1>1. dlq = << >> /\ DOMAIN dlq = {}
  BY DEF Init
<1> QED
  BY <1>1 DEF Init, Contract!Init, Owed

LEMMA ContractCardinality == \A S : Contract!Cardinality(S) = Cardinality(S)
  BY DEF Contract!Cardinality, Cardinality

\* A record of the batch is one of the contract's source, and what the worker
\* calls recorded is settled there.
LEMMA BatchInSource ==
  ASSUME IInv, NEW l \in batch
  PROVE  /\ l \in Location /\ l[1] \in Partitions /\ l[2] \in 0..MaxLog - 1
         /\ l \in Contract!Source /\ Contract!Event(l) = RecordAt(l)
         /\ Contract!Settled(l) <=> Recorded(l)
<1>1. l \in Location /\ InLog(l)
  BY DEF IInv, TypeOK, BatchInLog
<1>2. l \in Contract!Source /\ Contract!Event(l) = RecordAt(l)
  BY <1>1 DEF Contract!Source, Contract!Event, Location, InLog, RecordAt
<1> QED
  BY <1>1, <1>2, LocationParts DEF Contract!Settled, Recorded

\* What is owed is a part of the batch, and never the whole of a full one.
LEMMA OwedIsPart ==
  ASSUME IInv
  PROVE  /\ Owed \subseteq batch /\ IsFiniteSet(Owed)
         /\ Cardinality(Owed) <= MaxPollRecords - 1
<1>1. IsFiniteSet(batch) /\ Cardinality(batch) \in Nat /\ MaxPollRecords \in Nat \ {0}
  BY BatchFinite, ConstantsAssumption DEF IInv
<1>2. Owed \subseteq batch
  BY DEF Owed
<1>3. IsFiniteSet(Owed) /\ Cardinality(Owed) \in Nat /\ Cardinality(Owed) <= Cardinality(batch)
  BY <1>1, <1>2, FS_Subset, FS_CardinalityType
<1>4. CASE Owed = {}
  BY <1>1, <1>2, <1>3, <1>4, FS_EmptySet
<1>5. CASE Owed # {}
  <2>1. Cardinality(batch) < MaxPollRecords
    BY <1>5 DEF Owed, IInv, BatchSize
  <2> QED
    BY <1>1, <1>2, <1>3, <2>1
<1> QED
  BY <1>4, <1>5

\* A step that stores something settles some of what is owed.
LEMMA OwedSettles ==
  ASSUME IInv, [Next]_vars, batch' = batch, committed' = committed
  PROVE  Contract!StillOwed
<1>1. log' = log
  BY TablesGrow DEF IInv
<1>2. ASSUME NEW l \in batch
      PROVE  /\ Contract!Settled(l)' <=> Recorded(l)'
             /\ Recorded(l) => Recorded(l)'
  <2>1. l \in Location /\ InLog(l)
    BY DEF IInv, TypeOK, BatchInLog
  <2>2. Contract!Settled(l)' <=> Recorded(l)'
    BY DEF Contract!Settled, Contract!Event, Recorded, RecordAt
  <2> QED
    BY <2>1, <2>2, RecordedStays DEF IInv, Recorded, RecordAt
<1>3. Owed' = {l \in Owed : ~Recorded(l)'}
  BY <1>2 DEF Owed
<1>4. \A l \in Owed : Contract!Settled(l)' <=> Recorded(l)'
  BY <1>2, OwedIsPart
<1> QED
  BY <1>3, <1>4 DEF Contract!StillOwed

LEMMA HandleSettles ==
  ASSUME IInv, NEW l \in batch, Handle(l)
  PROVE  [Contract!Next]_Contract!vars
<1>1. l \in Location /\ InLog(l)
  BY DEF IInv, TypeOK, BatchInLog
<1>2. l \in Contract!Source /\ Contract!Event(l) = RecordAt(l)
  BY <1>1 DEF Contract!Source, Contract!Event, Location, InLog, RecordAt
<1>3. log' = log /\ committed' = committed /\ batch' = batch
  BY DEF Handle, broker
<1>4. Contract!StillOwed
  BY <1>3, OwedSettles DEF Next, WorkerStep
<1>5. CASE RecordLanding(l)
  <2>1. RecordAt(l).kind = "valid" /\ RecordAt(l).id \in EventIds /\ dlq' = dlq
    BY <1>1, <1>5, RecordInLog DEF RecordLanding, IInv
  <2>2. CASE landing[RecordAt(l).id] = None
    <3>1. landing' = [landing EXCEPT ![RecordAt(l).id] = l]
      BY <1>5, <2>2 DEF RecordLanding
    <3>2. Contract!Land(l)
      BY <1>2, <1>3, <1>4, <2>1, <2>2, <3>1 DEF Contract!Land
    <3> QED
      BY <1>2, <3>2 DEF Contract!Next
  <2>3. CASE landing[RecordAt(l).id] # None
    <3>1. landing' = landing
      BY <1>5, <2>1, <2>3 DEF RecordLanding, IInv, TypeOK
    <3>2. Owed' = Owed
      BY <1>3, <2>1, <3>1 DEF Owed, Recorded, RecordAt
    <3> QED
      BY <1>3, <2>1, <3>1, <3>2 DEF Contract!vars
  <2> QED
    BY <2>2, <2>3
<1>6. CASE RecordDlq(l)
  <2>1. RecordAt(l).kind = "invalid" /\ dlq' = Append(dlq, l) /\ landing' = landing
    BY <1>6 DEF RecordDlq
  <2>2. {dlq'[i] : i \in DOMAIN dlq'} = {dlq[i] : i \in DOMAIN dlq} \cup {l}
    <3>1. dlq \in Seq(Location) /\ dlq' \in Seq(Location) /\ Len(dlq') = Len(dlq) + 1
      BY <1>1, <2>1 DEF IInv, TypeOK
    <3>2. \A i \in DOMAIN dlq : i \in DOMAIN dlq' /\ dlq'[i] = dlq[i]
      BY <2>1, <3>1
    <3>3. Len(dlq) + 1 \in DOMAIN dlq' /\ dlq'[Len(dlq) + 1] = l
      BY <1>1, <2>1, <3>1
    <3>4. \A i \in DOMAIN dlq' : i \in DOMAIN dlq \/ i = Len(dlq) + 1
      BY <3>1
    <3> QED
      BY <3>2, <3>3, <3>4
  <2>3. Contract!Reject(l)
    BY <1>2, <1>3, <1>4, <2>1, <2>2 DEF Contract!Reject
  <2> QED
    BY <1>2, <2>3 DEF Contract!Next
<1> QED
  BY <1>5, <1>6 DEF Handle

\* What a commit passes is in the batch, behind the record in hand.
LEMMA PassedInBatch ==
  ASSUME IInv, CommitOffsets
  PROVE  /\ Contract!Passed = {l \in batch : committed[l[1]] <= l[2] /\ l[2] < position[l[1]] /\ ~Recorded(l)}
         /\ at \in batch /\ Recorded(at)
<1>1. pc = "commit" /\ committed' = position
  BY DEF CommitOffsets, OffsetsToCommit
<1>2. at \in batch /\ Recorded(at)
  BY <1>1 DEF IInv, TypeOK, HandledRecorded
<1>3. ASSUME NEW l \in Contract!Source, committed[l[1]] <= l[2], l[2] < position[l[1]]
      PROVE  l \in batch
  BY <1>1, <1>3 DEF IInv, FetchedInBatch, Busy, Contract!Source, Location
<1> QED
  BY <1>1, <1>2, <1>3, BatchInSource DEF Contract!Passed

LEMMA CommitAcknowledges ==
  ASSUME IInv, IInv', CommitOffsets
  PROVE  Contract!Acknowledge
<1> DEFINE Passed == Contract!Passed
           Held   == Owed \cup Passed
<1>1. /\ pc = "commit" /\ committed' = position
      /\ UNCHANGED <<log, landing, dlq>>
      /\ batch' = {} \/ batch' = batch \ {at}
  BY DEF CommitOffsets, OffsetsToCommit, Leave, postgres
<1>2. committed' \in [Partitions -> 0..MaxLog]
      /\ \A p \in Partitions : committed[p] <= committed'[p] /\ committed'[p] <= Len(log[p])
  BY <1>1 DEF IInv, TypeOK, FetchedInBatch, Busy, PositionsInLog
<1>3. Passed = {l \in batch : committed[l[1]] <= l[2] /\ l[2] < position[l[1]] /\ ~Recorded(l)}
      /\ at \in batch /\ Recorded(at)
  BY PassedInBatch
<1>4. Held \subseteq batch \ {at} /\ Passed \subseteq batch \ {at}
  BY <1>3 DEF Owed
<1>5. ASSUME NEW S, S \subseteq batch \ {at}
      PROVE  Cardinality(S) <= MaxPollRecords - 1
  <2>1. IsFiniteSet(batch) /\ Cardinality(batch) \in Nat /\ Cardinality(batch) <= MaxPollRecords
    BY BatchFinite DEF IInv, BatchSize
  <2>2. IsFiniteSet(batch \ {at}) /\ Cardinality(batch \ {at}) = Cardinality(batch) - 1
    BY <1>3, <2>1, FS_RemoveElement
  <2>3. Cardinality(S) \in Nat /\ Cardinality(S) <= Cardinality(batch \ {at})
    BY <1>5, <2>2, FS_Subset, FS_CardinalityType
  <2> QED
    BY <2>1, <2>2, <2>3, ConstantsAssumption
<1>6. Contract!LeaveBehind(Held)
  <2>1. CASE batch' = {}
    <3>1. Owed' = Held \ Held
      BY <2>1 DEF Owed
    <3>2. Cardinality(Held) <= MaxPollRecords - 1
      BY <1>4, <1>5
    <3> QED
      BY <3>1, <3>2, ContractCardinality DEF Contract!LeaveBehind
  <2>2. CASE batch' = batch \ {at}
    <3>1. \A l \in batch : Recorded(l)' <=> Recorded(l)
      BY <1>1 DEF Recorded, RecordAt
    <3>2. Owed' = {l \in batch \ {at} : l[2] < position[l[1]] /\ ~Recorded(l)}
      BY <1>1, <2>2, <3>1 DEF Owed
    <3>3. \A l \in batch : l[2] < position[l[1]] <=>
             l[2] < committed[l[1]] \/ (committed[l[1]] <= l[2] /\ l[2] < position[l[1]])
      <4> SUFFICES ASSUME NEW l \in batch
                   PROVE  l[2] < position[l[1]] <=>
                            l[2] < committed[l[1]] \/ (committed[l[1]] <= l[2] /\ l[2] < position[l[1]])
        OBVIOUS
      <4>1. l[1] \in Partitions /\ l[2] \in 0..MaxLog - 1
        BY BatchInSource
      <4>2. committed[l[1]] \in 0..MaxLog /\ position[l[1]] \in 0..MaxLog
        BY <4>1 DEF IInv, TypeOK
      <4>3. committed[l[1]] <= position[l[1]]
        BY <1>1, <1>2, <4>1
      <4> QED
        BY <4>1, <4>2, <4>3
    <3>4. Owed' = Held
      BY <1>3, <3>2, <3>3 DEF Owed
    <3>5. Owed' = Held \ {} /\ {} \in SUBSET Held /\ Cardinality({}) <= MaxPollRecords - 1
      BY <1>5, <3>4
    <3> QED
      BY <3>5, ContractCardinality DEF Contract!LeaveBehind
  <2> QED
    BY <1>1, <2>1, <2>2
<1>7. Cardinality(Passed) <= MaxPollRecords - 1
  BY <1>4, <1>5
<1> QED
  BY <1>1, <1>2, <1>6, <1>7, ContractCardinality DEF Contract!Acknowledge

\* A step that forgets the batch leaves behind what was owed.
LEMMA StopDrops ==
  ASSUME IInv, batch' = {}, UNCHANGED <<log, landing, dlq, committed>>
  PROVE  Contract!Drop
<1>1. Owed' = Owed \ Owed
  BY DEF Owed
<1>2. Contract!LeaveBehind(Owed)
  BY <1>1, OwedIsPart, ContractCardinality DEF Contract!LeaveBehind
<1> QED
  BY <1>2 DEF Contract!Drop

\* A step that the contract does not see.
LEMMA Invisible ==
  ASSUME UNCHANGED <<log, landing, dlq, committed, batch>>
  PROVE  UNCHANGED Contract!vars
<1>1. Owed' = Owed
  BY DEF Owed, Recorded, RecordAt
<1> QED
  BY <1>1 DEF Contract!vars

LEMMA ContractStep ==
  ASSUME IInv, IInv', [Next]_vars
  PROVE  [Contract!Next]_Contract!vars
<1>1. CASE Start
  BY <1>1, Invisible DEF Start, broker, postgres
<1>2. CASE Poll
  <2>1. batch = {} /\ position = committed
    BY <1>2 DEF Poll, PollBatch, IInv, NoBatch, PollsFromCommitted
  <2>2. PICK pos \in [Partitions -> 0..MaxLog] : batch' = Fetched(pos)
    BY <1>2 DEF Poll, PollBatch
  <2>3. UNCHANGED <<log, landing, dlq, committed>>
    BY <1>2 DEF Poll, PollBatch, postgres
  <2>4. \A l \in batch' : ~(l[2] < committed[l[1]])
    <3> SUFFICES ASSUME NEW l \in batch' PROVE ~(l[2] < committed[l[1]])
      OBVIOUS
    <3>1. l[1] \in Partitions /\ l[2] \in 0..MaxLog - 1 /\ committed[l[1]] <= l[2]
      BY <2>1, <2>2, LocationParts DEF Fetched
    <3>2. committed[l[1]] \in 0..MaxLog
      BY <3>1 DEF IInv, TypeOK
    <3> QED
      BY <3>1, <3>2
  <2>5. Owed = {} /\ Owed' = {}
    BY <2>1, <2>3, <2>4 DEF Owed
  <2> QED
    BY <2>3, <2>5 DEF Contract!vars
<1>3. CASE \E l \in batch : Handle(l)
  BY <1>3, HandleSettles
<1>4. CASE \E l \in batch : HandleRefused(l)
  BY <1>4, StopDrops DEF HandleRefused, Refused, Leave, broker, Contract!Next
<1>5. CASE PublishDlqMetadata
  BY <1>5, Invisible DEF PublishDlqMetadata, broker, postgres
<1>6. CASE CommitOffsets
  BY <1>6, CommitAcknowledges DEF Contract!Next
<1>7. CASE Close \/ CloseTimeout \/ Kill
  BY <1>7, StopDrops DEF Close, CloseTimeout, Kill, Exit, broker, postgres, Contract!Next
<1>8. CASE PollNothing \/ UNCHANGED vars
  BY <1>8, Invisible DEF PollNothing, vars, broker, postgres, process
<1>9. CASE IdleStop \/ Raise
  BY <1>9, StopDrops DEF IdleStop, Raise, Leave, broker, postgres, Contract!Next
<1>10. CASE \E l \in outbox : Deliver(l) \/ Expire(l)
  BY <1>10, Invisible DEF Deliver, Expire, broker, postgres
<1> QED
  BY <1>1, <1>2, <1>3, <1>4, <1>5, <1>6, <1>7, <1>8, <1>9, <1>10 DEF Next, WorkerStep

\* The worker implements what event-streams.md says, but for what a stop may
\* cost: less than a batch, which with one record per poll is nothing. A step of
\* it is a step of the contract or invisible to its readers.
THEOREM WorkerImplementsContract == Spec => ImplementsContract
<1>1. IInv /\ IInv' /\ [Next]_vars => [Contract!Next]_Contract!vars
  BY ContractStep
<1> QED
  BY <1>1, ContractInit, InductiveInvariant, PTL DEF Spec, ImplementsContract, Contract!Spec
-----------------------------------------------------------------------------
\* What the contract says of itself: without a record that may be left behind,
\* whatever is acknowledged is settled. Of the worker it needs no more than the
\* topic it starts with.

Kept ==
  /\ log \in [Partitions -> UNION {[1..n -> Record] : n \in 0..MaxLog}]
  /\ committed \in [Partitions -> 0..MaxLog]
  /\ landing \in [EventIds -> Location \cup {None}]
  /\ Owed = {}
  /\ NoCommittedLoss

LEMMA KeptInit == Init => Kept
<1> SUFFICES ASSUME Init PROVE NoCommittedLoss
  BY ConstantsAssumption DEF Init, Kept, Owed
<1>1. ASSUME NEW l \in Location PROVE ~(l[2] < committed[l[1]])
  <2>1. l[1] \in Partitions /\ l[2] \in 0..MaxLog - 1
    BY LocationParts
  <2> QED
    BY <2>1 DEF Init
<1> QED
  BY <1>1 DEF NoCommittedLoss

\* What is recorded stays so if nothing is taken out of the tables.
LEMMA KeptGrows ==
  ASSUME Kept, log' = log, NEW l \in Location, InLog(l), Recorded(l),
         \A e \in EventIds : landing[e] # None => landing'[e] # None,
         {dlq[i] : i \in DOMAIN dlq} \subseteq {dlq'[i] : i \in DOMAIN dlq'}
  PROVE  InLog(l)' /\ Recorded(l)'
<1>1. RecordAt(l)' = RecordAt(l) /\ InLog(l)'
  BY DEF RecordAt, InLog
<1>2. CASE RecordAt(l).kind = "valid"
  <2>1. RecordAt(l).id \in EventIds
    BY <1>2, LogRecord DEF Kept
  <2> QED
    BY <1>1, <1>2, <2>1 DEF Recorded
<1>3. CASE RecordAt(l).kind # "valid"
  <2>1. l \in {dlq[i] : i \in DOMAIN dlq}
    BY <1>3 DEF Recorded
  <2>2. l \in {dlq'[i] : i \in DOMAIN dlq'}
    BY <2>1
  <2> QED
    BY <1>1, <1>3, <2>2 DEF Recorded
<1> QED
  BY <1>2, <1>3

LEMMA KeptStep ==
  ASSUME MaxPollRecords = 1, Kept, [Contract!Next]_Contract!vars
  PROVE  Kept'
<1>1. CASE UNCHANGED Contract!vars
  <2>1. UNCHANGED <<log, landing, committed>> /\ Owed' = Owed
        /\ {dlq'[i] : i \in DOMAIN dlq'} = {dlq[i] : i \in DOMAIN dlq}
    BY <1>1 DEF Contract!vars
  <2>2. NoCommittedLoss'
    BY <2>1, KeptGrows DEF Kept, NoCommittedLoss
  <2> QED
    BY <2>1, <2>2 DEF Kept
<1>2. ASSUME NEW l \in Contract!Source, Contract!Land(l) \/ Contract!Reject(l)
      PROVE  Kept'
  <2>1. l \in Location /\ InLog(l) /\ Contract!Event(l) = RecordAt(l) /\ l # None
    BY NoneAssumption DEF Contract!Source, Location, InLog, Contract!Event, RecordAt
  <2>2. log' = log /\ committed' = committed
        /\ {dlq[i] : i \in DOMAIN dlq} \subseteq {dlq'[i] : i \in DOMAIN dlq'}
    BY <1>2 DEF Contract!Land, Contract!Reject
  <2>3. landing' \in [EventIds -> Location \cup {None}]
        /\ \A e \in EventIds : landing[e] # None => landing'[e] # None
    BY <1>2, <2>1 DEF Contract!Land, Contract!Reject, Kept
  <2>4. Owed' = {}
    BY <1>2 DEF Contract!Land, Contract!Reject, Contract!StillOwed, Kept
  <2>5. NoCommittedLoss'
    BY <2>2, <2>3, KeptGrows DEF Kept, NoCommittedLoss
  <2> QED
    BY <2>2, <2>3, <2>4, <2>5 DEF Kept
<1>3. CASE Contract!Drop
  <2>1. UNCHANGED <<log, landing, committed>>
        /\ {dlq'[i] : i \in DOMAIN dlq'} = {dlq[i] : i \in DOMAIN dlq}
    BY <1>3 DEF Contract!Drop
  <2>2. Owed' = {}
    BY <1>3 DEF Contract!Drop, Contract!LeaveBehind, Kept
  <2>3. NoCommittedLoss'
    BY <2>1, KeptGrows DEF Kept, NoCommittedLoss
  <2> QED
    BY <2>1, <2>2, <2>3 DEF Kept
<1>4. CASE Contract!Acknowledge
  <2>1. UNCHANGED <<log, landing>> /\ committed' \in [Partitions -> 0..MaxLog]
        /\ {dlq'[i] : i \in DOMAIN dlq'} = {dlq[i] : i \in DOMAIN dlq}
        /\ \A p \in Partitions : committed'[p] \in 0..MaxLog /\ committed'[p] <= Len(log[p])
    BY <1>4 DEF Contract!Acknowledge
  <2>2. Contract!Passed = {}
    <3>1. Contract!Passed \subseteq Location
      BY DEF Contract!Passed, Contract!Source, Location
    <3>2. IsFiniteSet(Contract!Passed) /\ Cardinality(Contract!Passed) \in Nat
      BY <3>1, LocationFinite, FS_Subset, FS_CardinalityType
    <3>3. Cardinality(Contract!Passed) <= 0
      BY <1>4, ContractCardinality DEF Contract!Acknowledge
    <3> QED
      BY <3>2, <3>3, FS_EmptySet
  <2>3. Owed' = {}
    BY <1>4, <2>2 DEF Contract!Acknowledge, Contract!LeaveBehind, Kept
  <2>4. ASSUME NEW l \in Location, l[2] < committed'[l[1]]
        PROVE  InLog(l) /\ Recorded(l)
    <3>1. l[1] \in Partitions /\ l[2] \in 0..MaxLog - 1
      BY LocationParts
    <3>2. Len(log[l[1]]) \in 0..MaxLog
      BY <3>1, LogIsSeq DEF Kept
    <3>3. InLog(l)
      BY <2>1, <2>4, <3>1, <3>2 DEF InLog
    <3>4. CASE l[2] < committed[l[1]]
      BY <3>4 DEF Kept, NoCommittedLoss
    <3>5. CASE ~(l[2] < committed[l[1]])
      <4>1. committed[l[1]] <= l[2]
        BY <3>1, <3>5 DEF Kept
      <4>2. l \in Contract!Source
        BY <3>3 DEF Contract!Source, Location, InLog
      <4>3. Contract!Settled(l)
        BY <2>2, <2>4, <4>1, <4>2 DEF Contract!Passed
      <4> QED
        BY <3>3, <4>3 DEF Contract!Settled, Contract!Event, Recorded, RecordAt
    <3> QED
      BY <3>3, <3>4, <3>5
  <2>5. NoCommittedLoss'
    BY <2>1, <2>4, KeptGrows DEF NoCommittedLoss
  <2> QED
    BY <2>1, <2>3, <2>5 DEF Kept
<1> QED
  BY <1>1, <1>2, <1>3, <1>4 DEF Contract!Next

\* With one record per poll the contract is the promise of event-streams.md.
THEOREM ContractKeepsAll ==
  ASSUME MaxPollRecords = 1
  PROVE  Init /\ ImplementsContract => []NoCommittedLoss
<1>1. Kept /\ [Contract!Next]_Contract!vars => Kept'
  BY KeptStep
<1>2. Kept => NoCommittedLoss
  BY DEF Kept
<1> QED
  BY <1>1, <1>2, KeptInit, PTL DEF ImplementsContract, Contract!Spec

\* What the offsets committed to the broker have passed is in PostgreSQL, so
\* that a stop at any point only repeats work.
THEOREM CommittedIsRecorded ==
  ASSUME MaxPollRecords = 1
  PROVE  Spec => []NoCommittedLoss
<1>1. Spec => Init
  BY DEF Spec
<1> QED
  BY <1>1, WorkerImplementsContract, ContractKeepsAll, PTL
-----------------------------------------------------------------------------
\* The checkpoint never passes the committed offset.
CheckpointBehind == \A p \in Partitions : checkpoint[p] <= committed[p]

\* The batch in hand lies from the checkpoint on and before the positions.
BatchAhead == \A l \in batch : checkpoint[l[1]] <= l[2] /\ l[2] < position[l[1]]

CInv == CheckpointBehind /\ BatchAhead /\ MetricsLastIsCheckpoint

LEMMA CInvInit == Init => CInv
  BY DEF Init, CInv, CheckpointBehind, BatchAhead, MetricsLastIsCheckpoint

\* The record whose turn it is starts at or below the committed offset: it is
\* the first of its partition in the batch.
LEMMA TurnAtCommitted ==
  ASSUME IInv, CInv, pc = "handle", NEW l \in batch, Turn(l)
  PROVE  l[2] <= committed[l[1]]
<1>1. l \in Location /\ l[1] \in Partitions /\ l[2] \in 0..MaxLog - 1
  BY LocationParts DEF IInv, TypeOK
<1>2. committed[l[1]] \in 0..MaxLog /\ position[l[1]] \in 0..MaxLog
  BY <1>1 DEF IInv, TypeOK
<1> SUFFICES ASSUME ~(l[2] <= committed[l[1]]) PROVE FALSE
  OBVIOUS
<1> DEFINE m == <<l[1], committed[l[1]]>>
<1>3. m \in Location
  BY <1>1, <1>2, ConstantsAssumption DEF Location
<1>4. l[2] < position[l[1]]
  BY DEF CInv, BatchAhead
<1>5. m \in batch
  BY <1>1, <1>2, <1>3, <1>4 DEF IInv, FetchedInBatch, Busy
<1>6. l[2] <= m[2]
  BY <1>5 DEF Turn
<1> QED
  BY <1>1, <1>2, <1>6

\* What a step that handles no record leaves of the checkpoint and the batch.
LEMMA OtherSteps ==
  ASSUME IInv, [Next]_vars, ~(\E l \in batch : Handle(l))
  PROVE  /\ UNCHANGED <<landing, dlq, checkpoint, metrics>>
         /\ \A p \in Partitions : committed[p] <= committed'[p]
         /\ \/ \E pos \in [Partitions -> 0..MaxLog] :
                 pc = "poll" /\ position' = pos /\ batch' = Fetched(pos)
            \/ batch' \subseteq batch /\ (batch' = {} \/ position' = position)
<1> USE DEF IInv, TypeOK
<1>1. CASE Start
  BY <1>1 DEF Start, StartPosition, broker, postgres, NoBatch
<1>2. CASE Poll
  BY <1>2 DEF Poll, PollBatch, postgres
<1>3. CASE \E l \in batch : HandleRefused(l)
  BY <1>3 DEF HandleRefused, Refused, Leave, broker
<1>4. CASE PublishDlqMetadata
  BY <1>4 DEF PublishDlqMetadata, broker, postgres
<1>5. CASE CommitOffsets
  BY <1>5 DEF CommitOffsets, OffsetsToCommit, Leave, postgres, FetchedInBatch, Busy
<1>6. CASE Close \/ CloseTimeout \/ Kill
  BY <1>6 DEF Close, CloseTimeout, Kill, Exit, broker, postgres
<1>7. CASE PollNothing \/ UNCHANGED vars
  BY <1>7 DEF PollNothing, vars, broker, postgres, process
<1>8. CASE IdleStop \/ Raise
  BY <1>8 DEF IdleStop, Raise, Leave, broker, postgres
<1>9. CASE \E l \in outbox : Deliver(l) \/ Expire(l)
  BY <1>9 DEF Deliver, Expire, broker, postgres
<1> QED
  BY <1>1, <1>2, <1>3, <1>4, <1>5, <1>6, <1>7, <1>8, <1>9 DEF Next, WorkerStep

\* What handling a record does to the checkpoint and the metrics row.
LEMMA HandleStep ==
  ASSUME IInv, CInv, NEW l \in batch, Handle(l)
  PROVE  /\ checkpoint' = [checkpoint EXCEPT ![l[1]] = l[2]]
         /\ metrics'.last = l
         /\ pc = "handle" /\ pc' \in {"publish", "commit"} /\ at' = l /\ Turn(l)
         /\ UNCHANGED <<committed, position, batch, outbox, dlqTopic>>
<1>1. l[1] \in Partitions /\ l[2] \in 0..MaxLog - 1
  BY LocationParts DEF IInv, TypeOK
<1>2. Upserts(l, 1, 0) \/ Upserts(l, 0, 1)
  BY DEF Handle, RecordLanding, RecordDlq
<1>3. checkpoint[l[1]] <= l[2] /\ checkpoint[l[1]] \in -1..MaxLog - 1
  BY <1>1 DEF CInv, BatchAhead, IInv, TypeOK
<1>4. checkpoint' = [checkpoint EXCEPT ![l[1]] = IF l[2] > @ THEN l[2] ELSE @]
      /\ metrics'.last = l
  BY <1>2 DEF Upserts
<1>5. (IF l[2] > checkpoint[l[1]] THEN l[2] ELSE checkpoint[l[1]]) = l[2]
  BY <1>1, <1>3
<1>6. checkpoint' = [checkpoint EXCEPT ![l[1]] = l[2]]
  BY <1>4, <1>5
<1> QED
  BY <1>4, <1>6 DEF Handle, RecordLanding, RecordDlq, broker

LEMMA CInvStep ==
  ASSUME IInv, IInv', CInv, [Next]_vars
  PROVE  CInv'
<1>1. CASE \E l \in batch : Handle(l)
  <2>1. PICK l \in batch : Handle(l)
    BY <1>1
  <2>2. l \in Location /\ l[1] \in Partitions /\ l[2] \in 0..MaxLog - 1
    BY LocationParts DEF IInv, TypeOK
  <2>3. \A m \in batch : m[1] \in Partitions /\ m[2] \in 0..MaxLog - 1
    BY LocationParts DEF IInv, TypeOK
  <2>4. checkpoint \in [Partitions -> -1..MaxLog - 1]
    BY DEF IInv, TypeOK
  <2>5. checkpoint' = [checkpoint EXCEPT ![l[1]] = l[2]]
        /\ UNCHANGED <<committed, position, batch>>
        /\ metrics'.last = l
        /\ l[2] <= committed[l[1]]
        /\ \A m \in batch : m[1] = l[1] => l[2] <= m[2]
    BY <2>1, HandleStep, TurnAtCommitted DEF Turn
  <2>6. CheckpointBehind'
    BY <2>2, <2>4, <2>5 DEF CInv, CheckpointBehind
  <2>7. BatchAhead'
    BY <2>2, <2>3, <2>4, <2>5 DEF CInv, BatchAhead
  <2>8. MetricsLastIsCheckpoint'
    BY <2>2, <2>4, <2>5 DEF MetricsLastIsCheckpoint
  <2> QED
    BY <2>6, <2>7, <2>8 DEF CInv
<1>2. CASE ~(\E l \in batch : Handle(l))
  <2>1. checkpoint' = checkpoint /\ metrics' = metrics
        /\ \A p \in Partitions : committed[p] <= committed'[p]
    BY <1>2, OtherSteps
  <2>2. \A p \in Partitions : checkpoint[p] \in -1..MaxLog - 1
          /\ committed[p] \in 0..MaxLog /\ committed'[p] \in 0..MaxLog
    BY DEF IInv, TypeOK
  <2>3. CheckpointBehind'
    BY <2>1, <2>2 DEF CInv, CheckpointBehind
  <2>4. ASSUME NEW pos \in [Partitions -> 0..MaxLog],
               pc = "poll", position' = pos, batch' = Fetched(pos)
        PROVE  BatchAhead'
    <3> SUFFICES ASSUME NEW l \in batch'
                 PROVE  checkpoint[l[1]] <= l[2] /\ l[2] < pos[l[1]]
      BY <2>1, <2>4 DEF BatchAhead
    <3>1. l \in Location /\ position[l[1]] <= l[2] /\ l[2] < pos[l[1]]
      BY <2>4 DEF Fetched
    <3>2. position = committed
      BY <2>4 DEF IInv, PollsFromCommitted
    <3>3. l[1] \in Partitions /\ l[2] \in 0..MaxLog - 1
      BY <3>1, LocationParts
    <3>4. checkpoint[l[1]] <= committed[l[1]]
      BY <3>3 DEF CInv, CheckpointBehind
    <3> QED
      BY <2>2, <3>1, <3>2, <3>3, <3>4
  <2>5. ASSUME batch' \subseteq batch, batch' = {} \/ position' = position
        PROVE  BatchAhead'
    <3>1. CASE batch' = {}
      BY <3>1 DEF BatchAhead
    <3>2. CASE position' = position
      BY <2>1, <2>5, <3>2 DEF CInv, BatchAhead
    <3> QED
      BY <2>5, <3>1, <3>2
  <2>6. BatchAhead'
    <3>1. \/ \E pos \in [Partitions -> 0..MaxLog] :
               pc = "poll" /\ position' = pos /\ batch' = Fetched(pos)
          \/ batch' \subseteq batch /\ (batch' = {} \/ position' = position)
      BY <1>2, OtherSteps
    <3> QED
      BY <2>4, <2>5, <3>1
  <2> QED
    BY <2>1, <2>3, <2>6 DEF CInv, MetricsLastIsCheckpoint
<1> QED
  BY <1>1, <1>2

\* The metrics row, which is overwritten, and the checkpoint row, which only
\* grows, name the same record whatever is delivered again.
THEOREM MetricsNameCheckpoint == Spec => []MetricsLastIsCheckpoint
<1>1. IInv /\ IInv' /\ CInv /\ [Next]_vars => CInv'
  BY CInvStep
<1>2. CInv => MetricsLastIsCheckpoint
  BY DEF CInv
<1> QED
  BY <1>1, <1>2, CInvInit, InductiveInvariant, PTL DEF Spec

-----------------------------------------------------------------------------
\* The checkpoint is a place in the topic, and its record is stored.
CheckpointInLog ==
  \A p \in Partitions :
    checkpoint[p] >= 0 => InLog(<<p, checkpoint[p]>>) /\ Recorded(<<p, checkpoint[p]>>)

LEMMA CheckpointInLogInit == Init => CheckpointInLog
  BY DEF Init, CheckpointInLog

LEMMA CheckpointInLogStep ==
  ASSUME IInv, IInv', CInv, CheckpointInLog, [Next]_vars
  PROVE  CheckpointInLog'
<1>1. ASSUME NEW p \in Partitions, checkpoint'[p] >= 0, NEW c, c = <<p, checkpoint'[p]>>
      PROVE  InLog(c)' /\ Recorded(c)'
  <2>1. checkpoint[p] \in -1..MaxLog - 1 /\ checkpoint'[p] \in -1..MaxLog - 1
    BY DEF IInv, TypeOK
  <2>2. CASE checkpoint'[p] = checkpoint[p]
    <3>1. c \in Location
      BY <1>1, <2>1 DEF Location
    <3>2. InLog(c) /\ Recorded(c)
      BY <1>1, <2>2 DEF CheckpointInLog
    <3> QED
      BY <3>1, <3>2, RecordedStays DEF IInv
  <2>3. CASE checkpoint'[p] # checkpoint[p]
    <3>1. PICK l \in batch : Handle(l)
      BY <2>3, OtherSteps
    <3>2. checkpoint' = [checkpoint EXCEPT ![l[1]] = l[2]]
          /\ pc' \in {"publish", "commit"} /\ at' = l /\ batch' = batch
      BY <3>1, HandleStep
    <3>3. l = <<l[1], l[2]>>
      BY LocationParts DEF IInv, TypeOK
    <3>4. c = l
      BY <1>1, <2>3, <3>2, <3>3 DEF IInv, TypeOK
    <3>5. InLog(l)' /\ Recorded(l)'
      BY <3>2 DEF IInv, BatchInLog, HandledRecorded, InLog, Recorded, RecordAt
    <3> QED
      BY <3>4, <3>5
  <2> QED
    BY <2>2, <2>3
<1> QED
  BY <1>1 DEF CheckpointInLog, InLog, Recorded, RecordAt

\* The checkpoint row names a record that is stored, whatever a stop undoes.
THEOREM CheckpointNamesStored == Spec => []CheckpointRecorded
<1>1. IInv /\ IInv' /\ CInv /\ CheckpointInLog /\ [Next]_vars => CheckpointInLog'
  BY CheckpointInLogStep
<1>2. IInv /\ IInv' /\ CInv /\ [Next]_vars => CInv'
  BY CInvStep
<1>3. CheckpointInLog => CheckpointRecorded
  BY DEF CheckpointInLog, CheckpointRecorded
<1> QED
  BY <1>1, <1>2, <1>3, CInvInit, CheckpointInLogInit, InductiveInvariant, PTL DEF Spec

-----------------------------------------------------------------------------
\* Only PublishDlqMetadata hands a message to the producer.
LEMMA MessagesStep ==
  ASSUME IInv, [Next]_vars
  PROVE  \/ dlqTopic' \cup outbox' \subseteq dlqTopic \cup outbox
         \/ pc = "publish" /\ dlqTopic' \cup outbox' = dlqTopic \cup outbox \cup {at}
<1>1. CASE Start
  BY <1>1 DEF Start, broker
<1>2. CASE Poll
  BY <1>2 DEF Poll, PollBatch
<1>3. CASE \E l \in batch : Handle(l)
  BY <1>3 DEF Handle, broker
<1>4. CASE \E l \in batch : HandleRefused(l)
  BY <1>4 DEF HandleRefused, Refused, broker
<1>5. CASE PublishDlqMetadata
  BY <1>5 DEF PublishDlqMetadata, broker
<1>6. CASE CommitOffsets
  BY <1>6 DEF CommitOffsets
<1>7. CASE Close \/ CloseTimeout \/ Kill
  BY <1>7 DEF Close, CloseTimeout, Kill, Exit, broker
<1>8. CASE PollNothing \/ UNCHANGED vars
  BY <1>8 DEF PollNothing, vars, broker, process
<1>9. CASE IdleStop \/ Raise
  BY <1>9 DEF IdleStop, Raise, broker
<1>10. CASE \E l \in outbox : Deliver(l) \/ Expire(l)
  BY <1>10 DEF Deliver, Expire, broker
<1> QED
  BY <1>1, <1>2, <1>3, <1>4, <1>5, <1>6, <1>7, <1>8, <1>9, <1>10 DEF Next, WorkerStep

LEMMA DlqTopicBackedStep ==
  ASSUME IInv, DlqTopicBacked, [Next]_vars
  PROVE  DlqTopicBacked'
<1>1. \A i \in DOMAIN dlq : i \in DOMAIN dlq' /\ dlq'[i] = dlq[i]
  BY TablesGrow DEF IInv
<1>2. {dlq[i] : i \in DOMAIN dlq} \subseteq {dlq'[i] : i \in DOMAIN dlq'}
  BY <1>1
<1>3. pc = "publish" => at \in {dlq[i] : i \in DOMAIN dlq}
  BY DEF IInv, HandledRecorded
<1> QED
  BY <1>2, <1>3, MessagesStep DEF DlqTopicBacked

\* The DLQ topic announces only rejections that the DLQ table holds.
THEOREM DlqTopicIsBacked == Spec => []DlqTopicBacked
<1>1. Init => DlqTopicBacked
  BY DEF Init, DlqTopicBacked
<1>2. IInv /\ DlqTopicBacked /\ [Next]_vars => DlqTopicBacked'
  BY DlqTopicBackedStep
<1> QED
  BY <1>1, <1>2, InductiveInvariant, PTL DEF Spec

-----------------------------------------------------------------------------
\* The events that have a landing row.
Landed == {e \in EventIds : landing[e] # None}

LEMMA LandedFinite == IsFiniteSet(Landed) /\ Cardinality(Landed) \in Nat
  BY ConstantsAssumption, FS_Subset, FS_CardinalityType DEF Landed

LEMMA AddOne ==
  ASSUME NEW S, IsFiniteSet(S), NEW x
  PROVE  /\ IsFiniteSet(S \cup {x}) /\ Cardinality(S \cup {x}) \in Nat
         /\ Cardinality(S \cup {x}) <= Cardinality(S) + 1
<1>1. Cardinality(S) \in Nat
  BY FS_CardinalityType
<1>2. IsFiniteSet(S \cup {x})
  BY FS_AddElement
<1>3. Cardinality(S \cup {x}) = Cardinality(S) \/ Cardinality(S \cup {x}) = Cardinality(S) + 1
  BY FS_AddElement
<1> QED
  BY <1>1, <1>2, <1>3

LEMMA MetricsMatchTablesStep ==
  ASSUME IInv, MetricsMatchTables, [Next]_vars
  PROVE  MetricsMatchTables'
<1> USE DEF IInv, TypeOK
<1>1. IsFiniteSet(Landed) /\ Cardinality(Landed) \in Nat
      /\ metrics.rejected = Len(dlq) /\ metrics.accepted >= Cardinality(Landed)
  BY LandedFinite DEF MetricsMatchTables, Landed
<1>2. ASSUME NEW l \in batch, Handle(l), RecordLanding(l)
      PROVE  MetricsMatchTables'
  <2>1. PICK id \in EventIds : landing' = [landing EXCEPT ![id] = IF @ = None THEN l ELSE @]
    BY <1>2, RecordInLog DEF BatchInLog, RecordLanding
  <2>2. metrics'.accepted = metrics.accepted + 1 /\ metrics'.rejected = metrics.rejected /\ dlq' = dlq
    BY <1>2 DEF RecordLanding, Upserts
  <2>3. Landed' \subseteq Landed \cup {id}
    BY <2>1 DEF Landed
  <2>4. IsFiniteSet(Landed \cup {id}) /\ Cardinality(Landed \cup {id}) \in Nat
        /\ Cardinality(Landed \cup {id}) <= Cardinality(Landed) + 1
    BY <1>1, AddOne
  <2>5. Cardinality(Landed') \in Nat /\ Cardinality(Landed') <= Cardinality(Landed \cup {id})
    BY <2>3, <2>4, FS_Subset, FS_CardinalityType
  <2>6. metrics'.accepted >= Cardinality(Landed')
    BY <1>1, <2>2, <2>4, <2>5
  <2> QED
    BY <1>1, <2>2, <2>6 DEF MetricsMatchTables, Landed
<1>3. ASSUME NEW l \in batch, Handle(l), RecordDlq(l)
      PROVE  MetricsMatchTables'
  <2>1. metrics'.accepted = metrics.accepted /\ metrics'.rejected = metrics.rejected + 1
        /\ landing' = landing /\ dlq' = Append(dlq, l)
    BY <1>3 DEF RecordDlq, Upserts
  <2>2. Len(dlq') = Len(dlq) + 1
    BY <2>1
  <2> QED
    BY <1>1, <2>1, <2>2 DEF MetricsMatchTables, Landed
<1>4. CASE ~(\E l \in batch : Handle(l))
  BY <1>1, <1>4, OtherSteps DEF MetricsMatchTables, Landed
<1> QED
  BY <1>2, <1>3, <1>4 DEF Handle

\* The counters of the metrics row cover the tables: every DLQ row was counted
\* once, and no landing row is without its acceptance.
THEOREM MetricsCoverTables == Spec => []MetricsMatchTables
<1>1. Init => MetricsMatchTables
  <2>1. Init => Landed = {}
    BY DEF Init, Landed
  <2>2. Cardinality({}) = 0
    BY FS_EmptySet
  <2>3. Init => metrics.accepted = 0 /\ metrics.rejected = 0 /\ Len(dlq) = 0
    BY DEF Init
  <2>4. Init => metrics.accepted >= Cardinality(Landed)
    BY <2>1, <2>2, <2>3
  <2> QED
    BY <2>3, <2>4 DEF MetricsMatchTables, Landed
<1>2. IInv /\ MetricsMatchTables /\ [Next]_vars => MetricsMatchTables'
  BY MetricsMatchTablesStep
<1> QED
  BY <1>1, <1>2, InductiveInvariant, PTL DEF Spec

-----------------------------------------------------------------------------
\* The checkpoint is at most one record behind the committed offset, and names
\* the record in hand once its transaction is through.
CheckpointClose ==
  /\ \A p \in Partitions : committed[p] - 1 <= checkpoint[p]
  /\ pc \in {"publish", "commit"} => checkpoint[at[1]] = at[2]

\* A batch of one record moves the position of its partition by one.
LEMMA PositionOneAhead ==
  ASSUME MaxPollRecords = 1, IInv, pc = "commit", NEW p \in Partitions, position[p] # committed[p]
  PROVE  position[p] = committed[p] + 1 /\ at = <<p, committed[p]>>
<1> USE DEF IInv, TypeOK
<1>1. committed[p] \in 0..MaxLog /\ position[p] \in 0..MaxLog /\ committed[p] < position[p]
  BY DEF FetchedInBatch, Busy
<1>2. ASSUME NEW o \in {committed[p], position[p] - 1}
      PROVE  <<p, o>> \in batch
  <2>1. o \in 0..MaxLog - 1 /\ committed[p] <= o /\ o < position[p]
    BY <1>1, ConstantsAssumption
  <2>2. <<p, o>> \in Location
    BY <2>1 DEF Location
  <2> QED
    BY <2>1, <2>2 DEF FetchedInBatch, Busy
<1>3. <<p, committed[p]>> \in batch /\ <<p, position[p] - 1>> \in batch
  BY <1>2
<1>4. <<p, committed[p]>> = <<p, position[p] - 1>> /\ at = <<p, committed[p]>>
  BY <1>3, BatchOfOne
<1> QED
  BY <1>1, <1>4

LEMMA CheckpointCloseStep ==
  ASSUME MaxPollRecords = 1, IInv, IInv', CInv, CheckpointClose, [Next]_vars
  PROVE  CheckpointClose'
<1> USE DEF IInv, TypeOK
<1>1. CASE \E l \in batch : Handle(l)
  <2>1. PICK l \in batch : Handle(l)
    BY <1>1
  <2>2. l[1] \in Partitions /\ l[2] \in 0..MaxLog - 1
    BY LocationParts
  <2>3. checkpoint' = [checkpoint EXCEPT ![l[1]] = l[2]] /\ committed' = committed /\ at' = l
    BY <2>1, HandleStep
  <2>4. checkpoint[l[1]] <= l[2] /\ checkpoint[l[1]] \in -1..MaxLog - 1
    BY <2>2 DEF CInv, BatchAhead
  <2>5. checkpoint'[l[1]] = l[2] /\ \A p \in Partitions : p # l[1] => checkpoint'[p] = checkpoint[p]
    BY <2>2, <2>3
  <2>6. ASSUME NEW p \in Partitions PROVE committed[p] - 1 <= checkpoint'[p]
    <3>1. committed[p] \in 0..MaxLog /\ committed[p] - 1 <= checkpoint[p]
      BY DEF CheckpointClose
    <3>2. CASE p = l[1]
      <4>1. checkpoint[p] <= checkpoint'[p] /\ checkpoint'[p] \in Int
        BY <2>2, <2>4, <2>5, <3>2
      <4>2. checkpoint[p] \in Int /\ committed[p] \in Int
        BY <2>4, <3>1, <3>2
      <4> HIDE DEF IInv, TypeOK
      <4> QED
        BY <3>1, <4>1, <4>2
    <3>3. CASE p # l[1]
      BY <2>5, <3>1, <3>3
    <3> QED
      BY <3>2, <3>3
  <2>7. \A p \in Partitions : committed'[p] - 1 <= checkpoint'[p]
    BY <2>3, <2>6
  <2> QED
    BY <2>3, <2>5, <2>7 DEF CheckpointClose
<1>2. CASE pc = "commit" /\ committed' = position /\ checkpoint' = checkpoint
           /\ pc' \notin {"publish", "commit"}
  <2>1. ASSUME NEW p \in Partitions PROVE position[p] - 1 <= checkpoint[p]
    <3>1. CASE position[p] = committed[p]
      BY <3>1 DEF CheckpointClose
    <3>2. CASE position[p] # committed[p]
      <4>1. position[p] = committed[p] + 1 /\ at = <<p, committed[p]>>
        BY <1>2, <3>2, PositionOneAhead
      <4>2. checkpoint[p] = committed[p] /\ committed[p] \in 0..MaxLog
        BY <1>2, <4>1 DEF CheckpointClose
      <4>3. position[p] - 1 = checkpoint[p] /\ checkpoint[p] \in Int
        BY <4>1, <4>2
      <4> QED
        BY <4>3
    <3> QED
      BY <3>1, <3>2
  <2> QED
    BY <1>2, <2>1 DEF CheckpointClose
<1>3. CASE /\ checkpoint' = checkpoint /\ committed' = committed
           /\ pc' \in {"publish", "commit"} => pc \in {"publish", "commit"} /\ at' = at
  BY <1>3 DEF CheckpointClose
<1>4. CASE Next /\ ~(\E l \in batch : Handle(l))
  <2>1. checkpoint' = checkpoint
    BY <1>4, OtherSteps
  <2>2. CASE CommitOffsets
    BY <1>2, <2>1, <2>2 DEF CommitOffsets, OffsetsToCommit, Leave
  <2>3. CASE Start \/ Poll
    BY <1>3, <2>1, <2>3 DEF Start, Poll, PollBatch, broker
  <2>4. CASE \E l \in batch : HandleRefused(l)
    BY <1>3, <2>1, <2>4 DEF HandleRefused, Refused, Leave, broker
  <2>5. CASE PublishDlqMetadata
    BY <1>3, <2>1, <2>5 DEF PublishDlqMetadata, broker
  <2>6. CASE Close \/ CloseTimeout \/ Kill
    BY <1>3, <2>1, <2>6 DEF Close, CloseTimeout, Kill, Exit, broker
  <2>7. CASE PollNothing
    BY <1>3, <2>1, <2>7 DEF PollNothing, vars, broker, process
  <2>8. CASE IdleStop \/ Raise
    BY <1>3, <2>1, <2>8 DEF IdleStop, Raise, Leave, broker
  <2>9. CASE \E l \in outbox : Deliver(l) \/ Expire(l)
    BY <1>3, <2>1, <2>9 DEF Deliver, Expire, broker
  <2> QED
    BY <1>4, <2>2, <2>3, <2>4, <2>5, <2>6, <2>7, <2>8, <2>9 DEF Next, WorkerStep
<1>5. CASE UNCHANGED vars
  BY <1>3, <1>5 DEF vars, broker, postgres, process
<1> QED
  BY <1>1, <1>4, <1>5

\* With one record per poll the checkpoint table and the offsets committed to
\* the broker are at most one record apart.
THEOREM CheckpointTracks ==
  ASSUME MaxPollRecords = 1
  PROVE  Spec => []CheckpointTracksCommit
<1>1. Init => CheckpointClose
  BY DEF Init, CheckpointClose
<1>2. IInv /\ IInv' /\ CInv /\ CheckpointClose /\ [Next]_vars => CheckpointClose'
  BY CheckpointCloseStep
<1>3. IInv /\ IInv' /\ CInv /\ [Next]_vars => CInv'
  BY CInvStep
<1>4. IInv /\ CInv /\ CheckpointClose => CheckpointTracksCommit
  BY DEF IInv, TypeOK, CInv, CheckpointBehind, CheckpointClose, CheckpointTracksCommit
<1> QED
  BY <1>1, <1>2, <1>3, <1>4, CInvInit, InductiveInvariant, PTL DEF Spec

-----------------------------------------------------------------------------
LEMMA EarliestStep ==
  ASSUME MaxPollRecords = 1, IInv, CInv, NoCommittedLoss, EarliestCopyLands, [Next]_vars
  PROVE  EarliestCopyLands'
<1> USE DEF IInv, TypeOK
<1> SUFFICES ASSUME NEW e \in EventIds, NEW l \in Location, landing'[e] = l, NEW o \in 0..l[2] - 1
             PROVE  log'[l[1]][o + 1] # [kind |-> "valid", id |-> e]
  BY DEF EarliestCopyLands, RecordAt
<1>1. log' = log
  BY TablesGrow
<1>2. CASE landing[e] = l
  BY <1>1, <1>2 DEF EarliestCopyLands, RecordAt
<1>3. CASE landing[e] # l
  <2>1. PICK m \in batch : Handle(m)
    BY <1>3, OtherSteps
  <2>2. landing[e] = None /\ m = l
    <3>1. RecordLanding(m)
      BY <1>3, <2>1 DEF Handle, RecordDlq
    <3>2. landing' = [landing EXCEPT ![RecordAt(m).id] = IF @ = None THEN m ELSE @]
      BY <3>1 DEF RecordLanding
    <3> QED
      BY <1>3, <3>2
  <2>3. l[1] \in Partitions /\ l[2] \in 0..MaxLog - 1
    BY LocationParts
  <2>4. l[2] <= committed[l[1]] /\ committed[l[1]] \in 0..MaxLog
    BY <2>1, <2>2, <2>3, TurnAtCommitted DEF Handle
  <2>5. <<l[1], o>> \in Location /\ o < committed[l[1]]
    <3>1. o \in 0..MaxLog - 1 /\ o < l[2]
      BY <2>3, ConstantsAssumption
    <3>2. <<l[1], o>> \in Location
      BY <2>3, <3>1 DEF Location
    <3>3. l[2] \in Int /\ o \in Int /\ committed[l[1]] \in Int
      BY <2>3, <2>4
    <3> HIDE DEF IInv, TypeOK
    <3> QED
      BY <2>4, <3>1, <3>2, <3>3
  <2>6. Recorded(<<l[1], o>>)
    BY <2>5 DEF NoCommittedLoss
  <2>7. RecordAt(<<l[1], o>>) # [kind |-> "valid", id |-> e]
    BY <2>2, <2>6 DEF Recorded
  <2> QED
    BY <1>1, <2>7 DEF RecordAt
<1> QED
  BY <1>2, <1>3

\* With one record per poll the copy of an event that lands is the first one in
\* its partition: a later copy is handled only once the earlier is recorded.
THEOREM EarliestLands ==
  ASSUME MaxPollRecords = 1
  PROVE  Spec => []EarliestCopyLands
<1>1. Init => EarliestCopyLands
  BY NoneAssumption DEF Init, EarliestCopyLands
<1>2. IInv /\ CInv /\ NoCommittedLoss /\ EarliestCopyLands /\ [Next]_vars => EarliestCopyLands'
  BY EarliestStep
<1>3. IInv /\ IInv' /\ CInv /\ [Next]_vars => CInv'
  BY CInvStep
<1> QED
  BY <1>1, <1>2, <1>3, CInvInit, InductiveInvariant, CommittedIsRecorded, PTL DEF Spec
=============================================================================
