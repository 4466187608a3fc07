-------------------------- MODULE IngestGroupProofs --------------------------
(***************************************************************************)
(* Proofs about a group of ingest workers, for any number of workers,      *)
(* partitions and events, any topic, any batch size and any number of      *)
(* faults. What a rebalance, an expelled worker or the end of a member can *)
(* cost is in the batch of one member: only members move the committed     *)
(* offsets, each in partitions of its own, and nobody, expelled or not,    *)
(* has read past them without holding what lies between.                   *)
(***************************************************************************)
EXTENDS IngestGroup, FiniteSetTheorems, TLAPS

\* A worker has a batch in hand from its poll to the last commit.
Busy(w) == (pc[w] \in {"handle", "commit"}) <=> batch[w] # {}

\* Its records are of partitions it was given, behind its positions.
Holds(w) ==
  /\ \A l \in batch[w] : InLog(l) /\ l[1] \in assigned[w] /\ l[2] < position[w][l[1]]
  /\ Cardinality(batch[w]) <= MaxPollRecords
  /\ \A p \in Partitions : position[w][p] <= Len(log[p])

\* What it has read beyond the committed offset is in the batch.
ReadOn(w) ==
  \A p \in assigned[w] : \A o \in 0..MaxLog - 1 :
    committed[p] <= o /\ o < position[w][p] => <<p, o>> \in batch[w]

\* A record is stored before its offset is committed.
Stored(w) ==
  pc[w] = "commit" => Recorded(at[w]) /\ at[w][2] <= checkpoint[at[w][1]]

WorkerInv(w) == Busy(w) /\ Holds(w) /\ ReadOn(w) /\ Stored(w)

\* A member knows the committed offsets of its partitions, and of a full batch
\* nothing is committed yet.
Knows(w) ==
  /\ pc[w] # "down"
  /\ \A p \in assigned[w] : committed[p] <= position[w][p]
  /\ \/ \A l \in batch[w] : committed[l[1]] <= l[2]
     \/ Cardinality(batch[w]) < MaxPollRecords

\* No partition has two owners.
OneOwner ==
  \A v \in members, w \in members : v # w => assigned[v] \cap assigned[w] = {}

CommittedInLog == \A p \in Partitions : committed[p] <= Len(log[p])

LastBehind == last # None => last[2] <= committed[last[1]]

\* An expelled worker is not beyond what a member has in hand, or holds
\* something of that partition that is not beyond it.
NotBeyond ==
  \A v \in Workers \ members, w \in members : \A l \in batch[w] :
    l[1] \in assigned[v] =>
      position[v][l[1]] <= l[2] \/ \E m \in batch[v] : m[1] = l[1] /\ m[2] <= l[2]

\* Nobody has written an offset beyond what a member has in hand.
LastNotBeyond ==
  \A w \in members : \A l \in batch[w] : last # None /\ last[1] = l[1] => last[2] <= l[2]

IInv ==
  /\ TypeOK
  /\ \A w \in Workers : WorkerInv(w)
  /\ \A w \in members : Knows(w)
  /\ OneOwner
  /\ CommittedInLog
  /\ CheckpointCovers
  /\ LastBehind
  /\ NotBeyond
  /\ LastNotBeyond

-----------------------------------------------------------------------------
\* A location names a partition and an offset.
LEMMA LocationParts ==
  \A l \in Location : l[1] \in Partitions /\ l[2] \in 0..MaxLog - 1 /\ l = <<l[1], l[2]>>
  BY DEF Location

LEMMA LocationFinite == IsFiniteSet(Location)
<1>1. IsFiniteSet(0..MaxLog - 1)
  BY ConstantsAssumption, FS_Interval
<1>2. IsFiniteSet(Partitions)
  BY ConstantsAssumption
<1> QED
  BY <1>1, <1>2, FS_Product DEF Location

\* What the type of log says in terms of sequences.
LEMMA LogIsSeq ==
  ASSUME TypeOK, NEW p \in Partitions
  PROVE  log[p] \in Seq(Record) /\ Len(log[p]) \in 0..MaxLog
<1>. log \in [Partitions -> UNION {[1..n -> Record] : n \in 0..MaxLog}]
  BY DEF TypeOK
<1>1. PICK n \in 0..MaxLog : log[p] \in [1..n -> Record]
  OBVIOUS
<1>2. n \in Nat
  BY <1>1, ConstantsAssumption
<1>3. log[p] \in Seq(Record) /\ Len(log[p]) = n
  BY <1>1, <1>2
<1> QED
  BY <1>3

\* A record of the log is one of Record.
LEMMA RecordInLog ==
  ASSUME TypeOK, NEW l \in Location, InLog(l)
  PROVE  /\ RecordAt(l).kind \in {"valid", "invalid"}
         /\ RecordAt(l).kind = "valid" => RecordAt(l).id \in EventIds
<1>1. l[1] \in Partitions /\ l[2] \in 0..MaxLog - 1
  BY LocationParts
<1>2. log[l[1]] \in Seq(Record) /\ Len(log[l[1]]) \in 0..MaxLog
  BY <1>1, LogIsSeq
<1>3. l[2] + 1 \in 1..Len(log[l[1]])
  BY <1>1, <1>2 DEF InLog
<1>4. RecordAt(l) \in Record
  BY <1>2, <1>3 DEF RecordAt
<1> QED
  BY <1>4 DEF Record

-----------------------------------------------------------------------------
\* The type invariant, for any batch size.
LEMMA TypeStep == TypeOK /\ [Next]_vars => TypeOK'
<1> SUFFICES ASSUME TypeOK, [Next]_vars PROVE TypeOK'
  OBVIOUS
<1> USE ConstantsAssumption DEF TypeOK
<1>1. ASSUME NEW w \in Workers, Start(w) PROVE TypeOK'
  BY <1>1 DEF Start, broker, postgres
<1>2. ASSUME NEW w \in Workers, Poll(w) PROVE TypeOK'
  BY <1>2 DEF Poll, Fetched, broker, postgres
<1>3. ASSUME NEW w \in Workers, NEW l \in batch[w], Handle(w, l) PROVE TypeOK'
  <2>1. l \in Location /\ l[1] \in Partitions /\ l[2] \in 0..MaxLog - 1
    BY <1>3 DEF Location
  <2>2. landing' \in [EventIds -> Location \cup {None}] /\ dlq' \subseteq Location
    BY <1>3, <2>1 DEF Handle
  <2>3. checkpoint' \in [Partitions -> -1..MaxLog - 1] /\ last' \in Location \cup {None}
    BY <1>3, <2>1 DEF Handle, Upserts
  <2>4. /\ pc' \in [Workers -> {"down", "poll", "handle", "commit"}]
        /\ at' \in [Workers -> Location \cup {None}]
        /\ \A v \in Workers : pc'[v] = "commit" => at'[v] \in batch[v]
    BY <1>3, <2>1 DEF Handle
  <2> QED
    BY <1>3, <2>2, <2>3, <2>4 DEF Handle, broker
<1>4. ASSUME NEW w \in Workers, Commit(w) PROVE TypeOK'
  <2>1. committed' \in [Partitions -> 0..MaxLog]
    BY <1>4 DEF Commit, Offsets
  <2>2. batch' \in [Workers -> SUBSET Location]
    BY <1>4 DEF Commit
  <2>3. /\ pc' \in [Workers -> {"down", "poll", "handle", "commit"}]
        /\ \A v \in Workers : pc'[v] = "commit" => at'[v] \in batch'[v]
    BY <1>4 DEF Commit
  <2> QED
    BY <1>4, <2>1, <2>2, <2>3 DEF Commit, postgres
<1>5. ASSUME NEW w \in Workers, CommitRefused(w) \/ Stop(w) PROVE TypeOK'
  <2>1. Exit(w) /\ faults' \in 0..MaxFaults
    BY <1>5 DEF CommitRefused, Stop, Fault
  <2>2. /\ pc' \in [Workers -> {"down", "poll", "handle", "commit"}]
        /\ batch' \in [Workers -> SUBSET Location]
        /\ \A v \in Workers : pc'[v] = "commit" => v # w /\ pc[v] = "commit"
    BY <2>1 DEF Exit
  <2>3. \A v \in Workers : pc'[v] = "commit" => at'[v] \in batch'[v]
    BY <2>1, <2>2 DEF Exit
  <2> QED
    BY <2>1, <2>2, <2>3 DEF Exit, postgres
<1>6. ASSUME NEW w \in Workers, Expel(w) PROVE TypeOK'
  BY <1>6 DEF Expel, Fault, postgres, workers
<1>7. CASE Rebalance
  BY <1>7 DEF Rebalance, postgres
<1>8. CASE (\E w \in Workers : PollNothing(w)) \/ UNCHANGED vars
  BY <1>8 DEF PollNothing, vars, broker, postgres, workers
<1> QED
  BY <1>1, <1>2, <1>3, <1>4, <1>5, <1>6, <1>7, <1>8 DEF Next, WorkerStep

LEMMA TypeInit == Init => TypeOK
  BY ConstantsAssumption DEF Init, TypeOK

\* The variables keep their types, whatever the topic holds and however many
\* records a poll returns.
THEOREM TypeCorrect == Spec => []TypeOK
  BY TypeInit, TypeStep, PTL DEF Spec

-----------------------------------------------------------------------------
\* No step changes the topic, replaces a landing row, removes a DLQ row or
\* moves a checkpoint back.
LEMMA TablesGrow ==
  ASSUME TypeOK, [Next]_vars
  PROVE  /\ log' = log
         /\ \A e \in EventIds : landing[e] # None => landing'[e] # None
         /\ dlq \subseteq dlq'
         /\ \A p \in Partitions : checkpoint[p] <= checkpoint'[p]
<1> USE DEF TypeOK
<1>1. ASSUME NEW w \in Workers, Start(w) \/ Poll(w) \/ Commit(w) \/ Expel(w) \/ PollNothing(w)
      PROVE  UNCHANGED <<log, landing, dlq, checkpoint>>
  BY <1>1 DEF Start, Poll, Commit, Expel, PollNothing, vars, broker, postgres
<1>2. ASSUME NEW w \in Workers, CommitRefused(w) \/ Stop(w)
      PROVE  UNCHANGED <<log, landing, dlq, checkpoint>>
  BY <1>2 DEF CommitRefused, Stop, Exit, postgres
<1>3. CASE Rebalance \/ UNCHANGED vars
  BY <1>3 DEF Rebalance, vars, broker, postgres
<1>4. ASSUME NEW w \in Workers, NEW l \in batch[w], Handle(w, l)
      PROVE  /\ log' = log
             /\ \A e \in EventIds : landing[e] # None => landing'[e] # None
             /\ dlq \subseteq dlq'
             /\ \A p \in Partitions : checkpoint[p] <= checkpoint'[p]
  <2>1. l \in Location /\ l # None
    BY <1>4, NoneAssumption
  <2>2. l[1] \in Partitions /\ l[2] \in Int
    BY <2>1, LocationParts
  <2>3. ASSUME NEW e \in EventIds, landing[e] # None PROVE landing'[e] # None
    <3>1. CASE landing' = landing
      BY <2>3, <3>1
    <3>2. CASE landing' = [landing EXCEPT ![RecordAt(l).id] = IF @ = None THEN l ELSE @]
      BY <2>1, <2>3, <3>2
    <3> QED
      BY <1>4, <3>1, <3>2 DEF Handle
  <2>4. \A p \in Partitions : checkpoint[p] <= checkpoint'[p]
    BY <1>4, <2>2, SMTT(30) DEF Handle, Upserts
  <2> QED
    BY <1>4, <2>3, <2>4 DEF Handle, broker
<1> QED
  BY <1>1, <1>2, <1>3, <1>4 DEF Next, WorkerStep

\* What is recorded stays recorded.
LEMMA RecordedStays ==
  ASSUME TypeOK, [Next]_vars, NEW l \in Location, InLog(l), Recorded(l)
  PROVE  InLog(l)' /\ Recorded(l)'
<1>1. log' = log /\ InLog(l)' /\ RecordAt(l)' = RecordAt(l)
  BY TablesGrow DEF InLog, RecordAt
<1>2. CASE RecordAt(l).kind = "valid"
  <2>1. RecordAt(l).id \in EventIds
    BY <1>2, RecordInLog
  <2>2. landing'[RecordAt(l).id] # None
    BY <1>2, <2>1, TablesGrow DEF Recorded
  <2> QED
    BY <1>1, <1>2, <2>2 DEF Recorded
<1>3. CASE RecordAt(l).kind # "valid"
  BY <1>1, <1>3, TablesGrow DEF Recorded
<1> QED
  BY <1>2, <1>3

\* The record in turn is the first of its partition that the worker has in hand,
\* and not beyond the committed offset.
LEMMA TurnAtCommitted ==
  ASSUME IInv, NEW w \in Workers, NEW l \in batch[w], Turn(w, l)
  PROVE  /\ l \in Location /\ l[1] \in Partitions /\ l[2] \in 0..MaxLog - 1 /\ InLog(l)
         /\ l[2] <= committed[l[1]]
<1>1. l \in Location /\ l[1] \in Partitions /\ l[2] \in 0..MaxLog - 1
  BY LocationParts DEF IInv, TypeOK
<1>2. InLog(l) /\ l[1] \in assigned[w] /\ l[2] < position[w][l[1]]
  BY DEF IInv, WorkerInv, Holds
<1>3. committed[l[1]] \in 0..MaxLog /\ position[w][l[1]] \in 0..MaxLog
  BY <1>1 DEF IInv, TypeOK
<1>4. ASSUME committed[l[1]] < l[2] PROVE FALSE
  <2> DEFINE o == committed[l[1]]
  <2>1. o \in 0..MaxLog - 1 /\ o < position[w][l[1]] /\ committed[l[1]] <= o
    BY <1>1, <1>2, <1>3, <1>4, ConstantsAssumption
  <2>2. <<l[1], o>> \in batch[w]
    BY <1>2, <2>1 DEF IInv, WorkerInv, ReadOn
  <2>3. l[2] <= o
    BY <2>2 DEF Turn
  <2> QED
    BY <1>1, <1>3, <1>4, <2>3
<1> QED
  BY <1>1, <1>2, <1>3, <1>4

\* The invariant of a worker that takes no part in a step.
LEMMA Bystander ==
  ASSUME IInv, [Next]_vars, NEW w \in Workers,
         pc'[w] = pc[w], assigned'[w] = assigned[w], position'[w] = position[w],
         batch'[w] = batch[w], at'[w] = at[w],
         \A p \in Partitions : committed[p] <= committed'[p]
  PROVE  WorkerInv(w)'
<1>0. TypeOK /\ TypeOK' /\ log' = log /\ WorkerInv(w)
  BY TypeStep, TablesGrow DEF IInv
<1>1. Busy(w)'
  BY <1>0 DEF WorkerInv, Busy
<1>2. Holds(w)'
  BY <1>0 DEF WorkerInv, Holds, InLog
<1>3. ReadOn(w)'
  <2> SUFFICES ASSUME NEW p \in assigned[w], NEW o \in 0..MaxLog - 1,
                      committed'[p] <= o, o < position[w][p]
               PROVE  <<p, o>> \in batch[w]
    BY DEF ReadOn
  <2>1. p \in Partitions /\ committed[p] \in 0..MaxLog /\ committed'[p] \in 0..MaxLog
    BY <1>0 DEF TypeOK
  <2>2. committed[p] <= o
    BY <2>1
  <2> QED
    BY <1>0, <2>2 DEF WorkerInv, ReadOn
<1>4. Stored(w)'
  <2> SUFFICES ASSUME pc[w] = "commit"
               PROVE  Recorded(at[w])' /\ at[w][2] <= checkpoint'[at[w][1]]
    BY DEF Stored, Recorded, RecordAt
  <2>1. at[w] \in batch[w] /\ Recorded(at[w]) /\ at[w][2] <= checkpoint[at[w][1]]
    BY <1>0 DEF TypeOK, WorkerInv, Stored
  <2>2. at[w] \in Location /\ at[w][1] \in Partitions /\ at[w][2] \in 0..MaxLog - 1 /\ InLog(at[w])
    BY <1>0, <2>1, LocationParts DEF TypeOK, WorkerInv, Holds
  <2>3. Recorded(at[w])'
    <3>1. ASSUME NEW l \in Location, InLog(l), Recorded(l) PROVE Recorded(l)'
      BY <1>0, <3>1, RecordedStays
    <3>2. \A l \in Location : InLog(l) /\ Recorded(l) =>
             IF log'[l[1]][l[2] + 1].kind = "valid" THEN landing'[log'[l[1]][l[2] + 1].id] # None
                                                    ELSE l \in dlq'
      BY <3>1 DEF Recorded, RecordAt
    <3> QED
      BY <2>1, <2>2, <3>2 DEF Recorded, RecordAt
  <2>4. checkpoint[at[w][1]] \in -1..MaxLog - 1 /\ checkpoint'[at[w][1]] \in -1..MaxLog - 1
    BY <1>0, <2>2 DEF TypeOK
  <2>5. checkpoint[at[w][1]] <= checkpoint'[at[w][1]]
    BY <1>0, <2>2, TablesGrow
  <2> QED
    BY <2>1, <2>2, <2>3, <2>4, <2>5
<1> QED
  BY <1>1, <1>2, <1>3, <1>4 DEF WorkerInv

\* A step that leaves the offsets and the tables alone.
LEMMA OffsetsStay ==
  ASSUME IInv, log' = log, UNCHANGED <<committed, landing, dlq, checkpoint, last>>
  PROVE  /\ CommittedInLog' /\ CheckpointCovers' /\ LastBehind'
         /\ \A p \in Partitions : committed[p] <= committed'[p]
<1>1. CommittedInLog' /\ CheckpointCovers' /\ LastBehind'
  BY DEF IInv, CommittedInLog, CheckpointCovers, LastBehind
<1>2. \A p \in Partitions : committed[p] <= committed'[p]
  BY DEF IInv, TypeOK
<1> QED
  BY <1>1, <1>2

\* A step by which at most the group gets smaller.
LEMMA GroupShrinks ==
  ASSUME IInv, members' \subseteq members, UNCHANGED <<committed, last, position>>,
         \A v \in members' : pc'[v] = pc[v] /\ assigned'[v] = assigned[v] /\ batch'[v] = batch[v],
         \A v \in Workers : \/ assigned'[v] = {}
                            \/ assigned'[v] = assigned[v] /\ batch'[v] = batch[v]
  PROVE  (\A w \in members' : Knows(w)') /\ OneOwner' /\ NotBeyond' /\ LastNotBeyond'
<1>1. \A w \in members' : Knows(w)'
  BY DEF IInv, Knows
<1>2. OneOwner'
  BY DEF IInv, OneOwner
<1>3. LastNotBeyond'
  BY DEF IInv, LastNotBeyond
<1>4. NotBeyond'
  <2> SUFFICES ASSUME NEW v \in Workers \ members', NEW w \in members', NEW l \in batch'[w],
                      l[1] \in assigned'[v]
               PROVE  \/ position'[v][l[1]] <= l[2]
                      \/ \E m \in batch'[v] : m[1] = l[1] /\ m[2] <= l[2]
    BY DEF NotBeyond
  <2>1. assigned'[v] = assigned[v] /\ batch'[v] = batch[v] /\ w \in members /\ l \in batch[w]
    OBVIOUS
  <2>2. CASE v \in members
    <3>1. w \in Workers /\ l[1] \in assigned[w]
      BY <2>1 DEF IInv, TypeOK, WorkerInv, Holds
    <3> QED
      BY <2>1, <2>2, <3>1 DEF IInv, OneOwner
  <2>3. CASE v \notin members
    BY <2>1, <2>3 DEF IInv, NotBeyond
  <2> QED
    BY <2>2, <2>3
<1> QED
  BY <1>1, <1>2, <1>3, <1>4

-----------------------------------------------------------------------------
\* One lemma for every action.

LEMMA StartInv ==
  ASSUME IInv, [Next]_vars, NEW w \in Workers, Start(w)
  PROVE  IInv'
<1>0. TypeOK' /\ log' = log
  BY TypeStep, TablesGrow DEF IInv
<1>1. /\ pc[w] = "down" /\ pc' = [pc EXCEPT ![w] = "poll"]
      /\ UNCHANGED <<members, committed, landing, dlq, checkpoint, last, assigned, position, batch, at>>
  BY DEF Start, broker, postgres
<1>2. w \notin members
  BY <1>1 DEF IInv, Knows
<1>3. \A v \in Workers : v # w => pc'[v] = pc[v]
  BY <1>1 DEF IInv, TypeOK
<1>4. CommittedInLog' /\ CheckpointCovers' /\ LastBehind'
      /\ \A p \in Partitions : committed[p] <= committed'[p]
  BY <1>0, <1>1, OffsetsStay
<1>5. ASSUME NEW v \in Workers PROVE WorkerInv(v)'
  <2>1. CASE v = w
    <3>1. pc'[w] = "poll" /\ batch[w] = {}
      BY <1>1 DEF IInv, TypeOK, WorkerInv, Busy
    <3> QED
      BY <1>0, <1>1, <2>1, <3>1 DEF IInv, WorkerInv, Busy, Holds, ReadOn, Stored
  <2>2. CASE v # w
    BY <1>1, <1>3, <1>4, <2>2, Bystander
  <2> QED
    BY <2>1, <2>2
<1>6. (\A v \in members' : Knows(v)') /\ OneOwner' /\ NotBeyond' /\ LastNotBeyond'
  <2>1. \A v \in members' : v \in Workers /\ v # w /\ pc'[v] = pc[v]
    BY <1>1, <1>2, <1>3 DEF IInv, TypeOK
  <2> QED
    BY <1>1, <2>1, GroupShrinks
<1> QED
  BY <1>0, <1>4, <1>5, <1>6 DEF IInv

\* A worker is expelled, polls in vain, or nothing happens.
LEMMA QuietInv ==
  ASSUME IInv, [Next]_vars, members' \subseteq members,
         UNCHANGED <<committed, landing, dlq, checkpoint, last, pc, assigned, position, batch, at>>
  PROVE  IInv'
<1>0. TypeOK' /\ log' = log
  BY TypeStep, TablesGrow DEF IInv
<1>1. CommittedInLog' /\ CheckpointCovers' /\ LastBehind'
      /\ \A p \in Partitions : committed[p] <= committed'[p]
  BY <1>0, OffsetsStay
<1>2. ASSUME NEW w \in Workers PROVE WorkerInv(w)'
  BY <1>1, Bystander
<1>3. (\A v \in members' : Knows(v)') /\ OneOwner' /\ NotBeyond' /\ LastNotBeyond'
  BY GroupShrinks
<1> QED
  BY <1>0, <1>1, <1>2, <1>3 DEF IInv

LEMMA ExitInv ==
  ASSUME IInv, [Next]_vars, NEW w \in Workers, CommitRefused(w) \/ Stop(w)
  PROVE  IInv'
<1>0. TypeOK' /\ log' = log
  BY TypeStep, TablesGrow DEF IInv
<1>1. /\ pc' = [pc EXCEPT ![w] = "down"] /\ members' = members \ {w}
      /\ assigned' = [assigned EXCEPT ![w] = {}]
      /\ batch' = [batch EXCEPT ![w] = {}] /\ at' = [at EXCEPT ![w] = None]
      /\ UNCHANGED <<committed, landing, dlq, checkpoint, last, position>>
  BY DEF CommitRefused, Stop, Exit, postgres
<1>2. pc'[w] = "down" /\ assigned'[w] = {} /\ batch'[w] = {}
  BY <1>1 DEF IInv, TypeOK
<1>3. ASSUME NEW v \in Workers, v # w
      PROVE  pc'[v] = pc[v] /\ assigned'[v] = assigned[v] /\ batch'[v] = batch[v] /\ at'[v] = at[v]
  BY <1>1, <1>3 DEF IInv, TypeOK
<1>4. CommittedInLog' /\ CheckpointCovers' /\ LastBehind'
      /\ \A p \in Partitions : committed[p] <= committed'[p]
  BY <1>0, <1>1, OffsetsStay
<1>5. ASSUME NEW v \in Workers PROVE WorkerInv(v)'
  <2>1. CASE v = w
    <3>1. Cardinality(batch'[w]) <= MaxPollRecords
      BY <1>2, FS_EmptySet, ConstantsAssumption
    <3>2. Holds(w)'
      BY <1>0, <1>1, <1>2, <3>1 DEF IInv, WorkerInv, Holds
    <3> QED
      BY <1>2, <2>1, <3>2 DEF WorkerInv, Busy, ReadOn, Stored
  <2>2. CASE v # w
    BY <1>1, <1>3, <1>4, <2>2, Bystander
  <2> QED
    BY <2>1, <2>2
<1>6. (\A v \in members' : Knows(v)') /\ OneOwner' /\ NotBeyond' /\ LastNotBeyond'
  <2>1. \A v \in members' : v \in Workers /\ v # w
    BY <1>1 DEF IInv, TypeOK
  <2> QED
    BY <1>1, <1>2, <1>3, <2>1, GroupShrinks
<1> QED
  BY <1>0, <1>4, <1>5, <1>6 DEF IInv

LEMMA PollInv ==
  ASSUME IInv, [Next]_vars, NEW w \in Workers, Poll(w)
  PROVE  IInv'
<1>0. TypeOK /\ TypeOK' /\ log' = log /\ WorkerInv(w)
  BY TypeStep, TablesGrow DEF IInv
<1>1. PICK pos \in [Partitions -> 0..MaxLog] :
        /\ \A p \in Partitions :
             IF p \in assigned[w] THEN position[w][p] <= pos[p] /\ pos[p] <= Len(log[p])
                                  ELSE pos[p] = position[w][p]
        /\ Cardinality(Fetched(w, pos)) \in 1..MaxPollRecords
        /\ position' = [position EXCEPT ![w] = pos]
        /\ batch' = [batch EXCEPT ![w] = Fetched(w, pos)]
  BY DEF Poll
<1>2. /\ pc[w] = "poll" /\ pc' = [pc EXCEPT ![w] = "handle"]
      /\ at' = [at EXCEPT ![w] = None]
      /\ UNCHANGED <<members, committed, landing, dlq, checkpoint, last, assigned>>
  BY DEF Poll, broker, postgres
<1>3. /\ pc'[w] = "handle" /\ position'[w] = pos /\ batch'[w] = Fetched(w, pos)
      /\ batch[w] = {}
  BY <1>0, <1>1, <1>2 DEF TypeOK, WorkerInv, Busy
<1>4. ASSUME NEW v \in Workers, v # w
      PROVE  pc'[v] = pc[v] /\ position'[v] = position[v] /\ batch'[v] = batch[v] /\ at'[v] = at[v]
  BY <1>0, <1>1, <1>2, <1>4 DEF TypeOK
<1>5. CommittedInLog' /\ CheckpointCovers' /\ LastBehind'
      /\ \A p \in Partitions : committed[p] <= committed'[p]
  BY <1>0, <1>2, OffsetsStay
<1>6. \A p \in Partitions : /\ position[w][p] \in 0..MaxLog /\ pos[p] \in 0..MaxLog
                            /\ committed[p] \in 0..MaxLog /\ position[w][p] <= pos[p]
  BY <1>0, <1>1 DEF TypeOK
<1>7. ASSUME NEW l \in Fetched(w, pos)
      PROVE  /\ l \in Location /\ l[1] \in assigned[w] /\ l[1] \in Partitions
             /\ l[2] \in 0..MaxLog - 1 /\ l = <<l[1], l[2]>>
             /\ position[w][l[1]] <= l[2] /\ l[2] < pos[l[1]] /\ InLog(l)
  <2>1. l \in Location /\ position[w][l[1]] <= l[2] /\ l[2] < pos[l[1]]
    BY DEF Fetched
  <2>2. l[1] \in Partitions /\ l[2] \in 0..MaxLog - 1 /\ l = <<l[1], l[2]>>
    BY <2>1, LocationParts
  <2>3. pos[l[1]] # position[w][l[1]]
    BY <1>6, <2>1, <2>2
  <2>4. l[1] \in assigned[w] /\ pos[l[1]] <= Len(log[l[1]])
    BY <1>1, <2>2, <2>3
  <2>5. Len(log[l[1]]) \in 0..MaxLog
    BY <1>0, <2>2, LogIsSeq
  <2>6. InLog(l)
    BY <1>6, <2>1, <2>2, <2>4, <2>5 DEF InLog
  <2> QED
    BY <2>1, <2>2, <2>4, <2>6
<1>8. \A p \in assigned[w] : \A o \in 0..MaxLog - 1 :
        committed[p] <= o /\ o < pos[p] => <<p, o>> \in Fetched(w, pos)
  <2> SUFFICES ASSUME NEW p \in assigned[w], NEW o \in 0..MaxLog - 1, committed[p] <= o, o < pos[p]
               PROVE  <<p, o>> \in Fetched(w, pos)
    OBVIOUS
  <2>1. p \in Partitions
    BY <1>0 DEF TypeOK
  <2>2. ~(o < position[w][p])
    BY <1>0, <1>3 DEF WorkerInv, ReadOn
  <2>3. position[w][p] <= o
    BY <1>6, <2>1, <2>2
  <2> QED
    BY <2>1, <2>3 DEF Fetched, Location
<1>9. ASSUME NEW v \in Workers PROVE WorkerInv(v)'
  <2>1. CASE v = w
    <3>1. Holds(w)'
      <4>1. Cardinality(Fetched(w, pos)) <= MaxPollRecords
        BY <1>1, ConstantsAssumption
      <4>2. \A p \in Partitions : pos[p] <= Len(log[p])
        BY <1>0, <1>1 DEF WorkerInv, Holds
      <4> QED
        BY <1>0, <1>2, <1>3, <1>7, <4>1, <4>2 DEF Holds, InLog
    <3>2. Busy(w)'
      <4>1. Cardinality({}) = 0
        BY FS_EmptySet
      <4>2. Cardinality(Fetched(w, pos)) # 0
        BY <1>1, ConstantsAssumption
      <4> QED
        BY <1>3, <4>1, <4>2 DEF Busy
    <3>3. ReadOn(w)' /\ Stored(w)'
      BY <1>2, <1>3, <1>8 DEF ReadOn, Stored
    <3> QED
      BY <2>1, <3>1, <3>2, <3>3 DEF WorkerInv
  <2>2. CASE v # w
    BY <1>2, <1>4, <1>5, <2>2, Bystander
  <2> QED
    BY <2>1, <2>2
<1>10. \A v \in members' : Knows(v)'
  <2> SUFFICES ASSUME NEW v \in members PROVE Knows(v)'
    BY <1>2
  <2>1. v \in Workers /\ Knows(v)
    BY DEF IInv, TypeOK
  <2>2. CASE v = w
    <3>1. \A p \in assigned[w] : committed[p] <= pos[p]
      <4> SUFFICES ASSUME NEW p \in assigned[w] PROVE committed[p] <= pos[p]
        OBVIOUS
      <4>1. p \in Partitions /\ committed[p] <= position[w][p]
        BY <1>0, <2>1, <2>2 DEF TypeOK, Knows
      <4> QED
        BY <1>6, <4>1
    <3>2. \A l \in Fetched(w, pos) : committed[l[1]] <= l[2]
      <4> SUFFICES ASSUME NEW l \in Fetched(w, pos) PROVE committed[l[1]] <= l[2]
        OBVIOUS
      <4>1. committed[l[1]] <= position[w][l[1]]
        BY <1>7, <2>1, <2>2 DEF Knows
      <4> QED
        BY <1>6, <1>7, <4>1
    <3> QED
      BY <1>2, <1>3, <2>2, <3>1, <3>2 DEF Knows
  <2>3. CASE v # w
    BY <1>2, <1>4, <2>1, <2>3 DEF Knows
  <2> QED
    BY <2>2, <2>3
<1>11. OneOwner'
  BY <1>2 DEF IInv, OneOwner
<1>12. NotBeyond'
  <2> SUFFICES ASSUME NEW v \in Workers \ members, NEW u \in members, NEW l \in batch'[u],
                      l[1] \in assigned[v]
               PROVE  \/ position'[v][l[1]] <= l[2]
                      \/ \E m \in batch'[v] : m[1] = l[1] /\ m[2] <= l[2]
    BY <1>2 DEF NotBeyond
  <2>1. u \in Workers /\ u # v
    BY <1>0 DEF TypeOK
  <2>2. CASE v = w
    <3>1. l \in batch[u] /\ l \in Location
      BY <1>0, <1>4, <2>1, <2>2 DEF TypeOK
    <3>2. position[w][l[1]] <= l[2]
      BY <1>3, <2>2, <3>1 DEF IInv, NotBeyond
    <3>3. l[1] \in Partitions /\ l[2] \in 0..MaxLog - 1
      BY <3>1, LocationParts
    <3>4. CASE l[2] < pos[l[1]]
      <4>1. l \in Fetched(w, pos)
        BY <3>1, <3>2, <3>4 DEF Fetched
      <4> QED
        BY <1>3, <2>2, <3>3, <4>1
    <3>5. CASE ~(l[2] < pos[l[1]])
      BY <1>3, <1>6, <2>2, <3>3, <3>5
    <3> QED
      BY <3>4, <3>5
  <2>3. CASE u = w
    <3>1. l \in Fetched(w, pos)
      BY <1>3, <2>3
    <3>2. committed[l[1]] <= l[2]
      <4>1. committed[l[1]] <= position[w][l[1]]
        BY <1>7, <2>3, <3>1 DEF IInv, Knows
      <4> QED
        BY <1>6, <1>7, <3>1, <4>1
    <3>3. CASE l[2] < position[v][l[1]]
      <4>1. <<l[1], l[2]>> \in batch[v]
        BY <1>7, <3>1, <3>2, <3>3 DEF IInv, WorkerInv, ReadOn
      <4>2. l \in batch'[v] /\ l[2] <= l[2]
        BY <1>4, <1>7, <2>1, <2>3, <3>1, <4>1
      <4> QED
        BY <4>2
    <3>4. CASE ~(l[2] < position[v][l[1]])
      <4>1. position[v][l[1]] \in 0..MaxLog /\ l[2] \in 0..MaxLog - 1
        BY <1>0, <1>7, <3>1 DEF TypeOK
      <4> QED
        BY <1>4, <2>1, <2>3, <3>4, <4>1
    <3> QED
      BY <3>3, <3>4
  <2>4. CASE v # w /\ u # w
    BY <1>4, <2>1, <2>4 DEF IInv, NotBeyond
  <2> QED
    BY <2>2, <2>3, <2>4
<1>13. LastNotBeyond'
  <2> SUFFICES ASSUME NEW u \in members, NEW l \in batch'[u], last # None, last[1] = l[1]
               PROVE  last[2] <= l[2]
    BY <1>2 DEF LastNotBeyond
  <2>1. u \in Workers
    BY <1>0 DEF TypeOK
  <2>2. CASE u = w
    <3>1. l \in Fetched(w, pos)
      BY <1>3, <2>2
    <3>2. committed[l[1]] <= position[w][l[1]]
      BY <1>7, <2>2, <3>1 DEF IInv, Knows
    <3>3. last \in Location /\ last[2] <= committed[l[1]]
      BY <1>0 DEF IInv, TypeOK, LastBehind
    <3>4. last[2] \in 0..MaxLog - 1
      BY <3>3, LocationParts
    <3> QED
      BY <1>6, <1>7, <3>1, <3>2, <3>3, <3>4
  <2>3. CASE u # w
    BY <1>4, <2>1, <2>3 DEF IInv, LastNotBeyond
  <2> QED
    BY <2>2, <2>3
<1> QED
  BY <1>0, <1>5, <1>9, <1>10, <1>11, <1>12, <1>13 DEF IInv

LEMMA HandleInv ==
  ASSUME IInv, [Next]_vars, NEW w \in Workers, NEW l \in batch[w], Handle(w, l)
  PROVE  IInv'
<1>0. TypeOK /\ TypeOK' /\ log' = log /\ WorkerInv(w)
  BY TypeStep, TablesGrow DEF IInv
<1>1. /\ pc[w] = "handle" /\ pc' = [pc EXCEPT ![w] = "commit"] /\ at' = [at EXCEPT ![w] = l]
      /\ Turn(w, l)
      /\ UNCHANGED <<members, committed, assigned, position, batch>>
  BY DEF Handle, broker
<1>2. /\ checkpoint' = [checkpoint EXCEPT ![l[1]] = IF l[2] > @ THEN l[2] ELSE @]
      /\ last' = l
  BY DEF Handle, Upserts
<1>3. /\ l \in Location /\ l[1] \in Partitions /\ l[2] \in 0..MaxLog - 1 /\ InLog(l)
      /\ l[2] <= committed[l[1]] /\ l # None
  BY <1>1, TurnAtCommitted, NoneAssumption
<1>4. checkpoint[l[1]] \in -1..MaxLog - 1 /\ committed[l[1]] \in 0..MaxLog
      /\ checkpoint[l[1]] <= committed[l[1]]
  BY <1>0, <1>3 DEF TypeOK, IInv, CheckpointCovers
<1>5. /\ l[2] <= checkpoint'[l[1]] /\ checkpoint'[l[1]] <= committed[l[1]]
      /\ \A p \in Partitions : p # l[1] => checkpoint'[p] = checkpoint[p]
  BY <1>0, <1>2, <1>3, <1>4 DEF TypeOK
<1>6. Recorded(l)'
  <2>1. RecordAt(l)' = RecordAt(l)
    BY <1>0 DEF RecordAt
  <2>2. CASE RecordAt(l).kind = "valid"
    <3>1. RecordAt(l).id \in EventIds
      BY <1>0, <1>3, <2>2, RecordInLog
    <3>2. landing' = [landing EXCEPT ![RecordAt(l).id] = IF @ = None THEN l ELSE @]
      BY <2>2 DEF Handle
    <3>3. landing'[RecordAt(l).id] # None
      BY <1>0, <1>3, <3>1, <3>2 DEF TypeOK
    <3> QED
      BY <2>1, <2>2, <3>3 DEF Recorded
  <2>3. CASE RecordAt(l).kind # "valid"
    BY <2>1, <2>3 DEF Handle, Recorded
  <2> QED
    BY <2>2, <2>3
<1>7. \A p \in Partitions : committed[p] <= committed'[p]
  BY <1>0, <1>1 DEF TypeOK
<1>8. ASSUME NEW v \in Workers PROVE WorkerInv(v)'
  <2>1. CASE v = w
    <3>1. pc'[w] = "commit" /\ at'[w] = l
      BY <1>0, <1>1 DEF TypeOK
    <3>2. Stored(w)'
      BY <1>5, <1>6, <3>1 DEF Stored, Recorded, RecordAt
    <3>3. Busy(w)' /\ Holds(w)' /\ ReadOn(w)'
      BY <1>0, <1>1, <3>1 DEF WorkerInv, Busy, Holds, ReadOn, InLog
    <3> QED
      BY <2>1, <3>2, <3>3 DEF WorkerInv
  <2>2. CASE v # w
    <3>1. pc'[v] = pc[v] /\ at'[v] = at[v]
      BY <1>0, <1>1, <2>2 DEF TypeOK
    <3> QED
      BY <1>1, <1>7, <3>1, Bystander
  <2> QED
    BY <2>1, <2>2
<1>9. \A v \in members' : Knows(v)'
  <2> SUFFICES ASSUME NEW v \in members PROVE pc'[v] # "down"
    BY <1>1 DEF IInv, Knows
  <2> QED
    BY <1>0, <1>1 DEF IInv, TypeOK, Knows
<1>10. OneOwner' /\ NotBeyond' /\ CommittedInLog'
  BY <1>0, <1>1 DEF IInv, OneOwner, NotBeyond, CommittedInLog
<1>11. LastBehind'
  BY <1>1, <1>2, <1>3 DEF LastBehind
<1>12. CheckpointCovers'
  <2>1. ASSUME NEW k \in Location, k[2] <= checkpoint[k[1]] PROVE k[2] <= checkpoint'[k[1]]
    <3>1. k[1] \in Partitions /\ k[2] \in 0..MaxLog - 1
      BY LocationParts
    <3>2. checkpoint[k[1]] <= checkpoint'[k[1]] /\ checkpoint[k[1]] \in -1..MaxLog - 1
          /\ checkpoint'[k[1]] \in -1..MaxLog - 1
      BY <1>0, <3>1, TablesGrow DEF TypeOK
    <3> QED
      BY <2>1, <3>1, <3>2
  <2>2. \A e \in EventIds : landing'[e] # None => landing'[e][2] <= checkpoint'[landing'[e][1]]
    <3> SUFFICES ASSUME NEW e \in EventIds, landing'[e] # None
                 PROVE  landing'[e][2] <= checkpoint'[landing'[e][1]]
      OBVIOUS
    <3>1. landing'[e] = landing[e] \/ landing'[e] = l
      BY <1>0 DEF Handle, TypeOK
    <3>2. CASE landing'[e] = l
      BY <1>5, <3>2
    <3>3. CASE landing'[e] = landing[e]
      <4>1. landing[e] \in Location /\ landing[e][2] <= checkpoint[landing[e][1]]
        BY <1>0, <3>3 DEF IInv, TypeOK, CheckpointCovers
      <4> QED
        BY <2>1, <3>3, <4>1
    <3> QED
      BY <3>1, <3>2, <3>3
  <2>3. \A k \in dlq' : k[2] <= checkpoint'[k[1]]
    <3> SUFFICES ASSUME NEW k \in dlq' PROVE k[2] <= checkpoint'[k[1]]
      OBVIOUS
    <3>1. k \in dlq \/ k = l
      BY DEF Handle
    <3>2. CASE k \in dlq
      BY <1>0, <2>1, <3>2 DEF IInv, TypeOK, CheckpointCovers
    <3> QED
      BY <1>5, <3>1, <3>2
  <2>4. \A p \in Partitions : checkpoint'[p] <= committed'[p]
    BY <1>1, <1>5 DEF IInv, CheckpointCovers
  <2> QED
    BY <2>2, <2>3, <2>4 DEF CheckpointCovers
<1>13. LastNotBeyond'
  <2> SUFFICES ASSUME NEW u \in members, NEW k \in batch[u], l[1] = k[1]
               PROVE  l[2] <= k[2]
    BY <1>1, <1>2 DEF LastNotBeyond
  <2>1. u \in Workers /\ k \in Location /\ k[1] \in assigned[u] /\ l[1] \in assigned[w]
    BY <1>0 DEF IInv, TypeOK, WorkerInv, Holds
  <2>2. CASE u = w
    BY <1>1, <2>2 DEF Turn
  <2>3. CASE u # w /\ w \in members
    BY <2>1, <2>3 DEF IInv, OneOwner
  <2>4. CASE w \notin members
    <3>1. k[2] \in 0..MaxLog - 1 /\ position[w][l[1]] \in 0..MaxLog /\ l[2] < position[w][l[1]]
      BY <1>0, <1>3, <2>1, LocationParts DEF TypeOK, WorkerInv, Holds
    <3>2. CASE position[w][k[1]] <= k[2]
      BY <1>3, <3>1, <3>2
    <3>3. CASE \E m \in batch[w] : m[1] = k[1] /\ m[2] <= k[2]
      <4>1. PICK m \in batch[w] : m[1] = k[1] /\ m[2] <= k[2]
        BY <3>3
      <4>2. m[2] \in 0..MaxLog - 1 /\ l[2] <= m[2]
        BY <1>0, <1>1, <4>1, LocationParts DEF TypeOK, Turn
      <4> QED
        BY <1>3, <3>1, <4>1, <4>2
    <3> QED
      BY <2>1, <2>4, <3>2, <3>3 DEF IInv, NotBeyond
  <2> QED
    BY <2>2, <2>3, <2>4
<1> QED
  BY <1>0, <1>8, <1>9, <1>10, <1>11, <1>12, <1>13 DEF IInv

\* What the commit of a member does.
LEMMA CommitStep ==
  ASSUME IInv, NEW w \in Workers, Commit(w)
  PROVE  /\ w \in members /\ pc[w] = "commit" /\ at[w] \in batch[w] /\ at[w] \in Location
         /\ Recorded(at[w]) /\ at[w][2] <= checkpoint[at[w][1]]
         /\ committed' \in [Partitions -> 0..MaxLog]
         /\ \A p \in Partitions :
              /\ committed[p] <= committed'[p] /\ committed'[p] <= Len(log[p])
              /\ committed'[p] = IF p \in assigned[w] THEN position[w][p] ELSE committed[p]
         /\ batch' = [batch EXCEPT ![w] = batch[w] \ {at[w]}]
         /\ batch'[w] = batch[w] \ {at[w]}
         /\ \A v \in Workers : v # w => batch'[v] = batch[v] /\ pc'[v] = pc[v]
         /\ pc'[w] = IF batch'[w] = {} THEN "poll" ELSE "handle"
         /\ UNCHANGED <<log, members, landing, dlq, checkpoint, last, assigned, position, at, faults>>
<1>1. TypeOK /\ WorkerInv(w) /\ w \in members /\ pc[w] = "commit"
  BY DEF IInv, Commit
<1>2. /\ at[w] \in batch[w] /\ at[w] \in Location
      /\ Recorded(at[w]) /\ at[w][2] <= checkpoint[at[w][1]]
  BY <1>1 DEF TypeOK, WorkerInv, Stored
<1>3. committed' = [p \in Partitions |-> IF p \in assigned[w] THEN position[w][p] ELSE committed[p]]
  BY DEF Commit, Offsets
<1>4. committed' \in [Partitions -> 0..MaxLog]
  BY <1>1, <1>3 DEF TypeOK
<1>5. \A p \in Partitions :
        /\ committed[p] <= committed'[p] /\ committed'[p] <= Len(log[p])
        /\ committed'[p] = IF p \in assigned[w] THEN position[w][p] ELSE committed[p]
  BY <1>1, <1>3 DEF IInv, TypeOK, Knows, WorkerInv, Holds, CommittedInLog
<1>6. /\ batch' = [batch EXCEPT ![w] = batch[w] \ {at[w]}]
      /\ batch'[w] = batch[w] \ {at[w]}
      /\ \A v \in Workers : v # w => batch'[v] = batch[v] /\ pc'[v] = pc[v]
      /\ pc'[w] = IF batch'[w] = {} THEN "poll" ELSE "handle"
  BY <1>1 DEF Commit, TypeOK
<1> QED
  BY <1>1, <1>2, <1>4, <1>5, <1>6 DEF Commit, postgres

LEMMA CommitInv ==
  ASSUME IInv, [Next]_vars, NEW w \in Workers, Commit(w)
  PROVE  IInv'
<1>0. TypeOK /\ TypeOK' /\ WorkerInv(w) /\ Knows(w)
  BY TypeStep, CommitStep DEF IInv
<1>1. /\ UNCHANGED <<log, members, landing, dlq, checkpoint, last, assigned, position, at>>
      /\ w \in members /\ at[w] \in batch[w]
      /\ batch'[w] = batch[w] \ {at[w]} /\ pc'[w] = IF batch'[w] = {} THEN "poll" ELSE "handle"
      /\ \A v \in Workers : v # w => batch'[v] = batch[v] /\ pc'[v] = pc[v]
  BY CommitStep
<1>2. \A p \in Partitions :
        /\ committed[p] <= committed'[p] /\ committed'[p] <= Len(log[p])
        /\ committed'[p] = IF p \in assigned[w] THEN position[w][p] ELSE committed[p]
        /\ committed[p] \in 0..MaxLog /\ committed'[p] \in 0..MaxLog /\ position[w][p] \in 0..MaxLog
  BY <1>0, CommitStep DEF TypeOK
<1>3. /\ IsFiniteSet(batch[w]) /\ Cardinality(batch'[w]) \in Nat
      /\ Cardinality(batch'[w]) < MaxPollRecords
  <2>1. IsFiniteSet(batch[w]) /\ Cardinality(batch[w]) \in Nat
    BY <1>0, LocationFinite, FS_Subset, FS_CardinalityType DEF TypeOK
  <2>2. IsFiniteSet(batch'[w]) /\ Cardinality(batch'[w]) = Cardinality(batch[w]) - 1
    BY <1>1, <2>1, FS_RemoveElement
  <2>3. Cardinality(batch[w]) <= MaxPollRecords /\ Cardinality(batch'[w]) \in Nat
    BY <1>0, <2>2, FS_CardinalityType DEF WorkerInv, Holds
  <2> QED
    BY <2>1, <2>2, <2>3, ConstantsAssumption
<1>4. ASSUME NEW v \in Workers PROVE WorkerInv(v)'
  <2>1. CASE v = w
    <3>1. Busy(w)' /\ Stored(w)'
      BY <1>1 DEF Busy, Stored
    <3>2. Holds(w)'
      BY <1>0, <1>1, <1>3, ConstantsAssumption DEF WorkerInv, Holds, InLog
    <3>3. ReadOn(w)'
      <4> SUFFICES ASSUME NEW p \in assigned[w], NEW o \in 0..MaxLog - 1, committed'[p] <= o, o < position[w][p]
                   PROVE  FALSE
        BY <1>1 DEF ReadOn
      <4>1. p \in Partitions /\ committed'[p] = position[w][p]
        BY <1>0, <1>2 DEF TypeOK
      <4> QED
        BY <1>2, <4>1
    <3> QED
      BY <2>1, <3>1, <3>2, <3>3 DEF WorkerInv
  <2>2. CASE v # w
    BY <1>1, <1>2, <2>2, Bystander
  <2> QED
    BY <2>1, <2>2
<1>5. \A v \in members' : Knows(v)'
  <2> SUFFICES ASSUME NEW v \in members PROVE Knows(v)'
    BY <1>1
  <2>1. v \in Workers /\ Knows(v) /\ WorkerInv(v)
    BY DEF IInv, TypeOK
  <2>2. CASE v = w
    <3>1. \A p \in assigned[w] : p \in Partitions /\ committed'[p] <= position[w][p]
      BY <1>0, <1>2 DEF TypeOK
    <3> QED
      BY <1>1, <1>3, <2>2, <3>1 DEF Knows
  <2>3. CASE v # w
    <3>1. \A p \in assigned[v] : p \in Partitions /\ p \notin assigned[w] /\ committed'[p] = committed[p]
      BY <1>0, <1>1, <1>2, <2>1, <2>3 DEF IInv, TypeOK, OneOwner
    <3>2. \A l \in batch[v] : l[1] \in assigned[v]
      BY <2>1 DEF WorkerInv, Holds
    <3> QED
      BY <1>1, <2>1, <2>3, <3>1, <3>2 DEF Knows
  <2> QED
    BY <2>2, <2>3
<1>6. OneOwner' /\ CommittedInLog'
  BY <1>1, <1>2 DEF IInv, OneOwner, CommittedInLog
<1>7. CheckpointCovers'
  <2>1. \A p \in Partitions : checkpoint[p] <= committed'[p]
    BY <1>0, <1>2 DEF IInv, TypeOK, CheckpointCovers
  <2> QED
    BY <1>1, <2>1 DEF IInv, CheckpointCovers
<1>8. LastBehind'
  <2> SUFFICES ASSUME last # None PROVE last[2] <= committed'[last[1]]
    BY <1>1 DEF LastBehind
  <2>1. last \in Location /\ last[2] <= committed[last[1]]
    BY <1>0 DEF IInv, TypeOK, LastBehind
  <2>2. last[1] \in Partitions /\ last[2] \in 0..MaxLog - 1
    BY <2>1, LocationParts
  <2> QED
    BY <1>2, <2>1, <2>2
<1>9. \A u \in members : u \in Workers /\ batch'[u] \subseteq batch[u]
  BY <1>0, <1>1 DEF TypeOK
<1>10. LastNotBeyond'
  BY <1>1, <1>9 DEF IInv, LastNotBeyond
<1>11. NotBeyond'
  <2>1. \A v \in Workers \ members : batch'[v] = batch[v]
    BY <1>1
  <2> QED
    BY <1>1, <1>9, <2>1 DEF IInv, NotBeyond
<1> QED
  BY <1>0, <1>4, <1>5, <1>6, <1>7, <1>8, <1>10, <1>11 DEF IInv

LEMMA RebalanceInv ==
  ASSUME IInv, [Next]_vars, Rebalance
  PROVE  IInv'
<1>0. TypeOK /\ TypeOK' /\ log' = log
  BY TypeStep, TablesGrow DEF IInv
<1>1. PICK owner \in [Partitions -> members'] :
        assigned' = [w \in Workers |-> IF w \in members' THEN {p \in Partitions : owner[p] = w}
                                                         ELSE assigned[w]]
  BY DEF Rebalance
<1>2. /\ members' = {w \in Workers : pc[w] = "poll"}
      /\ members \subseteq members'
      /\ position' = [w \in Workers |-> IF w \in members' THEN committed ELSE position[w]]
      /\ UNCHANGED <<committed, landing, dlq, checkpoint, last, pc, batch, at>>
  BY <1>0 DEF Rebalance, postgres, TypeOK
<1>3. ASSUME NEW w \in members'
      PROVE  /\ w \in Workers /\ pc[w] = "poll" /\ batch[w] = {}
             /\ assigned'[w] = {p \in Partitions : owner[p] = w} /\ position'[w] = committed
  BY <1>1, <1>2, <1>3 DEF IInv, WorkerInv, Busy
<1>4. ASSUME NEW w \in Workers \ members'
      PROVE  assigned'[w] = assigned[w] /\ position'[w] = position[w]
  BY <1>1, <1>2
<1>5. CommittedInLog' /\ CheckpointCovers' /\ LastBehind'
      /\ \A p \in Partitions : committed[p] <= committed'[p]
  BY <1>0, <1>2, OffsetsStay
<1>6. ASSUME NEW w \in Workers PROVE WorkerInv(w)'
  <2>1. CASE w \in members'
    <3>1. Holds(w)'
      <4>1. Cardinality(batch[w]) <= MaxPollRecords
        BY DEF IInv, WorkerInv, Holds
      <4>2. \A p \in Partitions : position'[w][p] <= Len(log[p])
        BY <1>3, <2>1 DEF IInv, CommittedInLog
      <4> QED
        BY <1>0, <1>2, <1>3, <2>1, <4>1, <4>2 DEF Holds
    <3>2. ReadOn(w)'
      <4> SUFFICES ASSUME NEW p \in assigned'[w], NEW o \in 0..MaxLog - 1, committed[p] <= o, o < committed[p]
                   PROVE  FALSE
        BY <1>2, <1>3, <2>1 DEF ReadOn
      <4>1. committed[p] \in 0..MaxLog
        BY <1>0, <1>3, <2>1 DEF TypeOK
      <4> QED
        BY <4>1
    <3> QED
      BY <1>2, <1>3, <2>1, <3>1, <3>2 DEF WorkerInv, Busy, Stored
  <2>2. CASE w \notin members'
    BY <1>2, <1>4, <1>5, <2>2, Bystander
  <2> QED
    BY <2>1, <2>2
<1>7. \A w \in members' : Knows(w)'
  <2> SUFFICES ASSUME NEW w \in members' PROVE Knows(w)'
    OBVIOUS
  <2>1. \A p \in assigned'[w] : p \in Partitions /\ committed'[p] <= position'[w][p]
    BY <1>0, <1>2, <1>3 DEF TypeOK
  <2> QED
    BY <1>2, <1>3, <2>1 DEF Knows
<1>8. OneOwner'
  BY <1>3 DEF OneOwner
<1>9. NotBeyond' /\ LastNotBeyond'
  BY <1>2, <1>3 DEF NotBeyond, LastNotBeyond
<1> QED
  BY <1>0, <1>5, <1>6, <1>7, <1>8, <1>9 DEF IInv

-----------------------------------------------------------------------------
LEMMA IInvInit == Init => IInv
<1> SUFFICES ASSUME Init PROVE IInv
  OBVIOUS
<1>1. TypeOK
  BY TypeInit
<1>2. \A p \in Partitions : Len(log[p]) \in 0..MaxLog
  BY <1>1, LogIsSeq
<1>3. \A w \in Workers : WorkerInv(w)
  <2>1. Cardinality({}) <= MaxPollRecords
    BY FS_EmptySet, ConstantsAssumption
  <2> QED
    BY <1>2, <2>1 DEF Init, WorkerInv, Busy, Holds, ReadOn, Stored
<1>4. CommittedInLog /\ CheckpointCovers
  BY <1>2 DEF Init, CommittedInLog, CheckpointCovers
<1>5. (\A w \in members : Knows(w)) /\ OneOwner /\ LastBehind /\ NotBeyond /\ LastNotBeyond
  BY DEF Init, OneOwner, LastBehind, NotBeyond, LastNotBeyond
<1> QED
  BY <1>1, <1>3, <1>4, <1>5 DEF IInv

LEMMA IInvStep == IInv /\ [Next]_vars => IInv'
<1> SUFFICES ASSUME IInv, [Next]_vars PROVE IInv'
  OBVIOUS
<1>1. ASSUME NEW w \in Workers, Expel(w) PROVE IInv'
  BY <1>1, QuietInv DEF Expel, postgres, workers
<1>2. ASSUME NEW w \in Workers, PollNothing(w) PROVE IInv'
  BY <1>2, QuietInv DEF PollNothing, vars, broker, postgres, workers
<1>3. CASE UNCHANGED vars
  BY <1>3, QuietInv DEF vars, broker, postgres, workers
<1> QED
  BY <1>1, <1>2, <1>3, StartInv, PollInv, HandleInv, CommitInv, ExitInv, RebalanceInv
     DEF Next, WorkerStep

\* What the members, the expelled workers, the broker and PostgreSQL know of
\* each other in every state.
THEOREM InductiveInvariant == Spec => []IInv
  BY IInvInit, IInvStep, PTL DEF Spec

\* No stored record is above its checkpoint and no checkpoint above its
\* committed offset, whichever workers, expelled or not, write them.
THEOREM CheckpointsCover == Spec => []CheckpointCovers
<1>1. IInv => CheckpointCovers
  BY DEF IInv
<1> QED
  BY <1>1, InductiveInvariant, PTL

-----------------------------------------------------------------------------
\* Only the transaction of a record writes to PostgreSQL.
LEMMA OtherSteps ==
  ASSUME TypeOK, [Next]_vars, ~(\E w \in Workers : \E l \in batch[w] : Handle(w, l))
  PROVE  UNCHANGED postgres
<1>1. ASSUME NEW w \in Workers, Start(w) \/ Poll(w) \/ Commit(w) \/ Expel(w) \/ PollNothing(w)
      PROVE  UNCHANGED postgres
  BY <1>1 DEF Start, Poll, Commit, Expel, PollNothing, vars, broker, postgres
<1>2. ASSUME NEW w \in Workers, CommitRefused(w) \/ Stop(w)
      PROVE  UNCHANGED postgres
  BY <1>2 DEF CommitRefused, Stop, Exit, postgres
<1>3. Rebalance \/ UNCHANGED vars => UNCHANGED postgres
  BY DEF Rebalance, vars, postgres
<1> QED
  BY <1>1, <1>2, <1>3 DEF Next, WorkerStep

LEMMA GoBackStep ==
  ASSUME IInv, [Next]_vars, last # None, last' # last, last'[1] = last[1], last'[2] < last[2]
  PROVE  \E w \in Workers \ members : pc[w] = "handle" /\ at'[w] = last'
<1>1. PICK w \in Workers : \E l \in batch[w] : Handle(w, l)
  BY OtherSteps DEF IInv, postgres
<1>2. PICK l \in batch[w] : Handle(w, l)
  BY <1>1
<1>3. pc[w] = "handle" /\ last' = l /\ at'[w] = l
  BY <1>2 DEF Handle, Upserts, IInv, TypeOK
<1>4. w \notin members
  <2> SUFFICES ASSUME w \in members PROVE FALSE
    OBVIOUS
  <2>1. last \in Location /\ l \in Location /\ last[2] <= l[2]
    BY <1>3 DEF IInv, TypeOK, LastNotBeyond
  <2> QED
    BY <1>3, <2>1, LocationParts
<1> QED
  BY <1>3, <1>4

\* The last offset in the metrics row, which nothing guards, goes back only in
\* the transaction of an expelled worker.
THEOREM ExpelledGoBack == Spec => OnlyExpelledGoBack
<1>1. IInv /\ [Next]_vars
        => [last # None /\ last' # last /\ last'[1] = last[1] /\ last'[2] < last[2]
              => \E w \in Workers \ members : pc[w] = "handle" /\ at'[w] = last']_vars
  BY GoBackStep
<1> QED
  BY <1>1, InductiveInvariant, PTL DEF Spec, OnlyExpelledGoBack

-----------------------------------------------------------------------------
\* What members have in hand, and what of it is at risk.

\* Of a member's batch less than a full one is behind the committed offsets: the
\* commit that passes it takes a record out of it.
LEMMA AtRisk ==
  ASSUME IInv, NEW w \in members, NEW S, S \subseteq batch[w],
         \A l \in S : l[2] < committed[l[1]]
  PROVE  IsFiniteSet(S) /\ Cardinality(S) \in Nat /\ Cardinality(S) <= MaxPollRecords - 1
<1>1. w \in Workers /\ batch[w] \subseteq Location /\ Knows(w)
  BY DEF IInv, TypeOK
<1>2. IsFiniteSet(batch[w]) /\ Cardinality(batch[w]) \in Nat
  BY <1>1, LocationFinite, FS_Subset, FS_CardinalityType
<1>3. IsFiniteSet(S) /\ Cardinality(S) \in Nat /\ Cardinality(S) <= Cardinality(batch[w])
  BY <1>2, FS_Subset, FS_CardinalityType
<1>4. CASE S = {}
  BY <1>3, <1>4, FS_EmptySet, ConstantsAssumption
<1>5. CASE S # {}
  <2>1. PICK l \in S : TRUE
    BY <1>5
  <2>2. l[1] \in Partitions /\ l[2] \in 0..MaxLog - 1 /\ committed[l[1]] \in 0..MaxLog
    BY <1>1, LocationParts DEF IInv, TypeOK
  <2>3. ~(committed[l[1]] <= l[2])
    BY <2>2
  <2>4. Cardinality(batch[w]) < MaxPollRecords
    BY <1>1, <2>3 DEF Knows
  <2> QED
    BY <1>2, <1>3, <2>4, ConstantsAssumption
<1> QED
  BY <1>4, <1>5

\* Members only take up more, and nothing that is committed.
HandsGrow ==
  /\ committed' = committed
  /\ InHands \subseteq InHands'
  /\ \A l \in InHands' \ InHands : committed[l[1]] <= l[2]
  /\ faults' \in {faults, faults + 1}

\* One member and its batch are gone, at the cost of a fault.
HandsFall(w) ==
  /\ UNCHANGED <<log, committed, landing, dlq, checkpoint>>
  /\ InHands' \subseteq InHands /\ InHands \ batch[w] \subseteq InHands'
  /\ faults' = faults + 1

\* One member commits.
HandsCommit(w) ==
  /\ Commit(w)
  /\ InHands' \subseteq InHands /\ InHands \ {at[w]} \subseteq InHands'
  /\ batch'[w] \subseteq InHands'

LEMMA SameHands ==
  ASSUME IInv, committed' = committed, faults' \in {faults, faults + 1}, InHands' = InHands
  PROVE  HandsGrow
  BY DEF HandsGrow

LEMMA HandsStep ==
  ASSUME IInv, [Next]_vars
  PROVE  \/ HandsGrow
         \/ \E w \in members : HandsFall(w) \/ HandsCommit(w)
<1>0. TypeOK /\ faults \in 0..MaxFaults
  BY DEF IInv, TypeOK
<1>1. ASSUME UNCHANGED <<committed, members, batch, faults>> PROVE HandsGrow
  BY <1>0, <1>1, SameHands DEF InHands
<1>2. ASSUME NEW w \in Workers, Poll(w) PROVE HandsGrow
  <2>1. PICK pos : batch' = [batch EXCEPT ![w] = Fetched(w, pos)]
    BY <1>2 DEF Poll
  <2>2. UNCHANGED <<committed, members, faults>> /\ pc[w] = "poll"
    BY <1>2 DEF Poll, broker
  <2>3. batch[w] = {} /\ batch'[w] = Fetched(w, pos)
        /\ \A v \in Workers : v # w => batch'[v] = batch[v]
    BY <1>0, <2>1, <2>2 DEF IInv, TypeOK, WorkerInv, Busy
  <2>4. \A v \in members : v \in Workers
    BY <1>0 DEF TypeOK
  <2>5. InHands \subseteq InHands'
    BY <2>2, <2>3, <2>4 DEF InHands
  <2>6. ASSUME NEW l \in InHands' \ InHands PROVE committed[l[1]] <= l[2]
    <3>1. w \in members /\ l \in Fetched(w, pos)
      BY <2>2, <2>3, <2>4, <2>6 DEF InHands
    <3>2. l[1] \in Partitions /\ l[2] \in 0..MaxLog - 1 /\ position[w][l[1]] <= l[2]
          /\ l \in batch'[w]
      BY <2>3, <3>1, LocationParts DEF Fetched
    <3>3. IInv'
      BY <1>2, PollInv DEF Next, WorkerStep
    <3>4. l[1] \in assigned[w]
      <4>1. assigned' = assigned
        BY <1>2 DEF Poll
      <4> QED
        BY <3>2, <3>3, <4>1 DEF IInv, WorkerInv, Holds
    <3>5. committed[l[1]] <= position[w][l[1]]
      BY <3>1, <3>4 DEF IInv, Knows
    <3>6. committed[l[1]] \in 0..MaxLog /\ position[w][l[1]] \in 0..MaxLog
      BY <1>0, <3>2 DEF TypeOK
    <3> QED
      BY <3>2, <3>5, <3>6
  <2> QED
    BY <2>2, <2>5, <2>6 DEF HandsGrow
<1>3. ASSUME NEW w \in Workers, CommitRefused(w) \/ Stop(w)
      PROVE  HandsGrow \/ (w \in members /\ HandsFall(w))
  <2>1. /\ members' = members \ {w} /\ batch' = [batch EXCEPT ![w] = {}]
        /\ UNCHANGED <<log, committed, landing, dlq, checkpoint>>
        /\ faults' \in {faults, faults + 1}
        /\ w \in members => faults' = faults + 1
    BY <1>3 DEF CommitRefused, Stop, Fault, Exit, postgres
  <2>2. \A v \in members : v \in Workers
    BY <1>0 DEF TypeOK
  <2>3. \A v \in Workers : v # w => batch'[v] = batch[v]
    BY <1>0, <2>1 DEF TypeOK
  <2>4. CASE w \in members
    <3>1. InHands' \subseteq InHands /\ InHands \ batch[w] \subseteq InHands'
      BY <2>1, <2>2, <2>3 DEF InHands
    <3> QED
      BY <2>1, <2>4, <3>1 DEF HandsFall
  <2>5. CASE w \notin members
    <3>1. members' = members /\ \A v \in members : batch'[v] = batch[v]
      BY <2>1, <2>2, <2>3, <2>5
    <3>2. InHands' = InHands
      BY <3>1 DEF InHands
    <3> QED
      BY <2>1, <3>2, SameHands
  <2> QED
    BY <2>4, <2>5
<1>4. ASSUME NEW w \in Workers, Expel(w) PROVE w \in members /\ HandsFall(w)
  <2>1. /\ w \in members /\ members' = members \ {w} /\ faults' = faults + 1
        /\ UNCHANGED <<log, committed, landing, dlq, checkpoint, batch>>
    BY <1>4 DEF Expel, Fault, postgres, workers
  <2>2. InHands' \subseteq InHands /\ InHands \ batch[w] \subseteq InHands'
    BY <2>1 DEF InHands
  <2> QED
    BY <2>1, <2>2 DEF HandsFall
<1>5. ASSUME NEW w \in Workers, Commit(w) PROVE w \in members /\ HandsCommit(w)
  <2>1. /\ w \in members /\ members' = members /\ batch'[w] = batch[w] \ {at[w]}
        /\ \A v \in Workers : v # w => batch'[v] = batch[v]
    BY <1>5, CommitStep
  <2>2. \A v \in members : v \in Workers
    BY <1>0 DEF TypeOK
  <2>3. /\ InHands' \subseteq InHands /\ InHands \ {at[w]} \subseteq InHands'
        /\ batch'[w] \subseteq InHands'
    BY <2>1, <2>2 DEF InHands
  <2> QED
    BY <1>5, <2>1, <2>3 DEF HandsCommit
<1>6. CASE Rebalance
  <2>1. /\ UNCHANGED <<committed, batch, faults>>
        /\ members' = {w \in Workers : pc[w] = "poll"}
        /\ \A w \in members : pc[w] = "poll"
    BY <1>6 DEF Rebalance
  <2>2. members \subseteq members' /\ \A w \in members' : batch[w] = {}
    BY <1>0, <2>1 DEF IInv, TypeOK, WorkerInv, Busy
  <2>3. InHands' = InHands
    BY <2>1, <2>2 DEF InHands
  <2> QED
    BY <2>1, <2>3, SameHands
<1>7. ASSUME NEW w \in Workers, Start(w) \/ PollNothing(w) PROVE HandsGrow
  BY <1>1, <1>7 DEF Start, PollNothing, vars, broker, workers
<1>8. ASSUME NEW w \in Workers, NEW l \in batch[w], Handle(w, l) PROVE HandsGrow
  BY <1>1, <1>8 DEF Handle, broker
<1>9. CASE UNCHANGED vars
  BY <1>1, <1>9 DEF vars, broker, workers
<1> QED
  BY <1>2, <1>3, <1>4, <1>5, <1>6, <1>7, <1>8, <1>9 DEF Next, WorkerStep

-----------------------------------------------------------------------------
\* What the faults cost.

\* Committed, not finished, and in no member's hands.
Abandoned == Unfinished \ InHands

LEMMA AbandonedFinite ==
  IsFiniteSet(Abandoned) /\ Cardinality(Abandoned) \in Nat
<1>1. Abandoned \subseteq Location
  BY DEF Abandoned, Unfinished
<1> QED
  BY <1>1, LocationFinite, FS_Subset, FS_CardinalityType

\* What is committed and finished stays finished.
LEMMA FinishedStays ==
  ASSUME IInv, [Next]_vars, NEW l \in Unfinished', l[2] < committed[l[1]]
  PROVE  l \in Unfinished
<1>1. l \in Location /\ (~Recorded(l)' \/ checkpoint'[l[1]] < l[2])
  BY DEF Unfinished, Recorded, RecordAt
<1>2. l[1] \in Partitions /\ l[2] \in 0..MaxLog - 1
  BY <1>1, LocationParts
<1>3. InLog(l)
  <2>1. committed[l[1]] \in 0..MaxLog /\ committed[l[1]] <= Len(log[l[1]])
    BY <1>2 DEF IInv, TypeOK, CommittedInLog
  <2>2. Len(log[l[1]]) \in 0..MaxLog
    BY <1>2, LogIsSeq DEF IInv
  <2> QED
    BY <1>2, <2>1, <2>2 DEF InLog
<1>4. CASE ~Recorded(l)'
  <2>1. ~Recorded(l)
    BY <1>1, <1>3, <1>4, RecordedStays DEF IInv
  <2> QED
    BY <1>1, <2>1 DEF Unfinished
<1>5. CASE checkpoint'[l[1]] < l[2]
  <2>1. checkpoint[l[1]] \in -1..MaxLog - 1 /\ checkpoint'[l[1]] \in -1..MaxLog - 1
    BY <1>2, TypeStep DEF IInv, TypeOK
  <2>2. checkpoint[l[1]] < l[2]
    BY <1>2, <1>5, <2>1, TablesGrow DEF IInv
  <2> QED
    BY <1>1, <2>2 DEF Unfinished
<1> QED
  BY <1>1, <1>4, <1>5

\* What a commit passes is still in the hands of the worker that commits.
LEMMA PassedInHand ==
  ASSUME IInv, NEW w \in Workers, Commit(w),
         NEW l \in Location, committed[l[1]] <= l[2], l[2] < committed'[l[1]]
  PROVE  l \in batch[w]
<1>1. l[1] \in Partitions /\ l[2] \in 0..MaxLog - 1 /\ l = <<l[1], l[2]>>
  BY LocationParts
<1>2. committed'[l[1]] = IF l[1] \in assigned[w] THEN position[w][l[1]] ELSE committed[l[1]]
  BY <1>1, CommitStep
<1>3. committed[l[1]] \in 0..MaxLog
  BY <1>1 DEF IInv, TypeOK
<1>4. l[1] \in assigned[w] /\ l[2] < position[w][l[1]]
  BY <1>1, <1>2, <1>3
<1> QED
  BY <1>1, <1>4 DEF IInv, WorkerInv, ReadOn

\* A step abandons what was in the hands of one member, at the cost of a fault,
\* or nothing.
LEMMA AbandonedStep ==
  ASSUME IInv, [Next]_vars
  PROVE  \/ Abandoned' \subseteq Abandoned /\ faults' \in {faults, faults + 1}
         \/ /\ faults' = faults + 1
            /\ \E w \in members : Abandoned' \subseteq Abandoned \cup (Unfinished \cap batch[w])
<1>1. CASE HandsGrow
  <2>1. \A l \in Unfinished' : l[2] < committed[l[1]]
    BY <1>1 DEF HandsGrow, Unfinished
  <2>2. Unfinished' \subseteq Unfinished
    BY <2>1, FinishedStays
  <2> QED
    BY <1>1, <2>2 DEF HandsGrow, Abandoned
<1>2. ASSUME NEW w \in members, HandsFall(w)
      PROVE  faults' = faults + 1 /\ Abandoned' \subseteq Abandoned \cup (Unfinished \cap batch[w])
  <2>1. Unfinished' = Unfinished
    BY <1>2 DEF HandsFall, Unfinished, Recorded, RecordAt
  <2> QED
    BY <1>2, <2>1 DEF HandsFall, Abandoned
<1>3. ASSUME NEW w \in members, HandsCommit(w)
      PROVE  Abandoned' \subseteq Abandoned /\ faults' = faults
  <2>1. /\ w \in Workers /\ Commit(w) /\ at[w] \in Location
        /\ Recorded(at[w]) /\ at[w][2] <= checkpoint[at[w][1]]
        /\ UNCHANGED <<log, landing, dlq, checkpoint, faults>>
        /\ batch'[w] = batch[w] \ {at[w]}
    BY <1>3, CommitStep DEF IInv, TypeOK, HandsCommit
  <2>2. at[w] \notin Unfinished'
    <3>1. at[w][2] \in 0..MaxLog - 1 /\ checkpoint[at[w][1]] \in -1..MaxLog - 1
      BY <2>1, LocationParts DEF IInv, TypeOK
    <3>2. ~(checkpoint[at[w][1]] < at[w][2])
      BY <2>1, <3>1
    <3> QED
      BY <2>1, <3>2 DEF Unfinished, Recorded, RecordAt
  <2>3. ASSUME NEW l \in Abandoned' PROVE l \in Abandoned
    <3>1. l \in Unfinished' /\ l \notin InHands' /\ l # at[w] /\ l \in Location
          /\ l[2] < committed'[l[1]]
      BY <2>2, <2>3 DEF Abandoned, Unfinished
    <3>2. CASE l[2] < committed[l[1]]
      <4>1. l \in Unfinished
        BY <3>1, <3>2, FinishedStays
      <4> QED
        BY <1>3, <3>1, <4>1 DEF HandsCommit, Abandoned
    <3>3. CASE ~(l[2] < committed[l[1]])
      <4>1. l[2] \in 0..MaxLog - 1 /\ committed[l[1]] \in 0..MaxLog
        BY <3>1, LocationParts DEF IInv, TypeOK
      <4>2. l \in batch[w]
        BY <2>1, <3>1, <3>3, <4>1, PassedInHand
      <4> QED
        BY <1>3, <2>1, <3>1, <4>2 DEF HandsCommit
    <3> QED
      BY <3>2, <3>3
  <2> QED
    BY <2>1, <2>3
<1> QED
  BY <1>1, <1>2, <1>3, HandsStep DEF IInv, TypeOK

\* The bound, with one fault more.
LEMMA OneMoreFault ==
  ASSUME NEW k \in Nat, NEW f \in Nat
  PROVE  k * (f + 1) = k * f + k /\ k * f \in Nat
  OBVIOUS

LEMMA LossBoundedStep ==
  ASSUME IInv, LossBounded, [Next]_vars
  PROVE  LossBounded'
<1> DEFINE k == MaxPollRecords - 1
<1>1. k \in Nat /\ faults \in Nat /\ faults' \in Nat
  BY TypeStep, ConstantsAssumption DEF IInv, TypeOK
<1>2. k * (faults + 1) = k * faults + k /\ k * faults \in Nat
  BY <1>1, OneMoreFault
<1>3. /\ IsFiniteSet(Abandoned) /\ Cardinality(Abandoned) \in Nat
      /\ Cardinality(Abandoned) <= k * faults
  BY AbandonedFinite DEF LossBounded, Abandoned
<1>4. CASE Abandoned' \subseteq Abandoned /\ faults' \in {faults, faults + 1}
  <2>1. Cardinality(Abandoned') \in Nat /\ Cardinality(Abandoned') <= Cardinality(Abandoned)
    BY <1>3, <1>4, FS_Subset, FS_CardinalityType
  <2>2. k * faults' = k * faults \/ k * faults' = k * faults + k
    BY <1>2, <1>4
  <2>3. Cardinality(Abandoned') <= k * faults'
    BY <1>1, <1>2, <1>3, <2>1, <2>2
  <2> QED
    BY <2>3 DEF LossBounded, Abandoned
<1>5. CASE /\ faults' = faults + 1
           /\ \E w \in members : Abandoned' \subseteq Abandoned \cup (Unfinished \cap batch[w])
  <2>1. PICK w \in members : Abandoned' \subseteq Abandoned \cup (Unfinished \cap batch[w])
    BY <1>5
  <2> DEFINE S == Unfinished \cap batch[w]
  <2>2. IsFiniteSet(S) /\ Cardinality(S) \in Nat /\ Cardinality(S) <= k
    <3>1. S \subseteq batch[w] /\ \A l \in S : l[2] < committed[l[1]]
      BY DEF Unfinished
    <3> HIDE DEF S
    <3> QED
      BY <3>1, AtRisk
  <2>3. /\ IsFiniteSet(Abandoned \cup S) /\ Cardinality(Abandoned \cup S) \in Nat
        /\ Cardinality(Abandoned \cup S) <= Cardinality(Abandoned) + Cardinality(S)
    <3> HIDE DEF S
    <3>1. /\ IsFiniteSet(Abandoned \cup S) /\ IsFiniteSet(Abandoned \cap S)
          /\ Cardinality(Abandoned \cup S)
               = Cardinality(Abandoned) + Cardinality(S) - Cardinality(Abandoned \cap S)
      BY <1>3, <2>2, FS_Union, FS_Intersection
    <3>2. Cardinality(Abandoned \cap S) \in Nat /\ Cardinality(Abandoned \cup S) \in Nat
      BY <3>1, FS_CardinalityType
    <3> QED
      BY <1>3, <2>2, <3>1, <3>2
  <2>4. Cardinality(Abandoned') \in Nat /\ Cardinality(Abandoned') <= Cardinality(Abandoned \cup S)
    BY <2>1, <2>3, FS_Subset, FS_CardinalityType
  <2>5. Cardinality(Abandoned') <= k * faults + k
    BY <1>1, <1>2, <1>3, <2>2, <2>3, <2>4
  <2> QED
    BY <1>2, <1>5, <2>5 DEF LossBounded, Abandoned
<1> QED
  BY <1>4, <1>5, AbandonedStep

\* Whatever a group does, a rebalance loses nothing, and the expulsion or the
\* end of a member loses less than a batch.
THEOREM LossIsBounded == Spec => []LossBounded
<1>1. Init => LossBounded
  <2> SUFFICES ASSUME Init PROVE LossBounded
    OBVIOUS
  <2>1. ASSUME NEW l \in Location PROVE ~(l[2] < committed[l[1]])
    <3>1. l[1] \in Partitions /\ l[2] \in 0..MaxLog - 1
      BY LocationParts
    <3> QED
      BY <3>1 DEF Init
  <2>2. Unfinished \ InHands = {} /\ faults = 0
    BY <2>1 DEF Unfinished, Init
  <2>3. Cardinality(Unfinished \ InHands) = 0
    BY <2>2, FS_EmptySet
  <2>4. (MaxPollRecords - 1) * faults = 0
    BY <2>2, ConstantsAssumption
  <2> QED
    BY <2>3, <2>4 DEF LossBounded
<1>2. IInv /\ LossBounded /\ [Next]_vars => LossBounded'
  BY LossBoundedStep
<1> QED
  BY <1>1, <1>2, InductiveInvariant, PTL DEF Spec

-----------------------------------------------------------------------------
\* With one record per poll nothing is at risk.
LEMMA NothingUnfinished ==
  ASSUME MaxPollRecords = 1, IInv, LossBounded
  PROVE  Unfinished = {}
<1>1. Unfinished \subseteq InHands
  <2>1. IsFiniteSet(Abandoned) /\ Cardinality(Abandoned) \in Nat
    BY AbandonedFinite
  <2>2. (MaxPollRecords - 1) * faults = 0
    BY DEF IInv, TypeOK
  <2>3. Cardinality(Abandoned) = 0
    BY <2>1, <2>2 DEF LossBounded, Abandoned
  <2>4. Abandoned = {}
    BY <2>1, <2>3, FS_EmptySet
  <2> QED
    BY <2>4 DEF Abandoned
<1>2. ASSUME NEW l \in Unfinished PROVE FALSE
  <2>1. PICK w \in members : l \in batch[w]
    BY <1>1 DEF InHands
  <2>2. IsFiniteSet({l}) /\ Cardinality({l}) = 1
    BY FS_Singleton
  <2>3. Cardinality({l}) <= MaxPollRecords - 1
    <3>1. {l} \subseteq batch[w] /\ \A m \in {l} : m[2] < committed[m[1]]
      BY <2>1 DEF Unfinished
    <3> QED
      BY <3>1, AtRisk
  <2> QED
    BY <2>2, <2>3
<1> QED
  BY <1>2

\* The checkpoint table and the committed offsets are at most a record apart.
CheckpointTracksCommit ==
  \A p \in Partitions : checkpoint[p] \in committed[p] - 1 .. committed[p]

LEMMA CheckpointClose ==
  ASSUME IInv, Unfinished = {}
  PROVE  CheckpointTracksCommit
<1> SUFFICES ASSUME NEW p \in Partitions PROVE checkpoint[p] \in committed[p] - 1 .. committed[p]
  BY DEF CheckpointTracksCommit
<1>1. /\ checkpoint[p] \in -1..MaxLog - 1 /\ committed[p] \in 0..MaxLog
      /\ checkpoint[p] <= committed[p]
  BY DEF IInv, TypeOK, CheckpointCovers
<1>2. CASE committed[p] = 0
  BY <1>1, <1>2
<1>3. CASE committed[p] # 0
  <2>1. committed[p] - 1 \in 0..MaxLog - 1 /\ committed[p] - 1 < committed[p]
    BY <1>1, <1>3, ConstantsAssumption
  <2>2. \A l \in Location : l[2] < committed[l[1]] => ~(checkpoint[l[1]] < l[2])
    BY DEF Unfinished
  <2>3. <<p, committed[p] - 1>> \in Location
    BY <2>1 DEF Location
  <2>4. ~(checkpoint[p] < committed[p] - 1)
    BY <2>1, <2>2, <2>3
  <2> QED
    BY <1>1, <2>4
<1> QED
  BY <1>2, <1>3

\* With one record per poll nothing is ever lost, whatever a rebalance and the
\* expelled workers do: what is committed is recorded and covered by its
\* checkpoint, which keeps within a record of the committed offset.
THEOREM OneRecordLosesNothing ==
  ASSUME MaxPollRecords = 1
  PROVE  Spec => [](Unfinished = {} /\ CheckpointTracksCommit)
<1>1. IInv /\ LossBounded => Unfinished = {} /\ CheckpointTracksCommit
  BY NothingUnfinished, CheckpointClose
<1> QED
  BY <1>1, InductiveInvariant, LossIsBounded, PTL

-----------------------------------------------------------------------------
\* The group implements the contract.

LEMMA ContractCardinality == \A S : Contract!Cardinality(S) = Cardinality(S)
  BY DEF Contract!Cardinality, Cardinality

\* A record of the topic is one of the contract's source, and what the group
\* calls recorded is settled there.
LEMMA InSource ==
  /\ \A l : l \in Contract!Source <=> l \in Location /\ InLog(l)
  /\ \A l : Contract!Event(l) = RecordAt(l)
  /\ \A l : Contract!Settled(l) <=> Recorded(l)
<1>1. \A l : Contract!Event(l) = RecordAt(l)
  BY DEF Contract!Event, RecordAt
<1> QED
  BY <1>1 DEF Contract!Source, Contract!Settled, Location, InLog, Recorded

LEMMA ContractInit == Init => Contract!Init
<1> SUFFICES ASSUME Init PROVE Contract!Init
  OBVIOUS
<1>1. InHands = {}
  BY DEF Init, InHands
<1> QED
  BY <1>1 DEF Init, Contract!Init

\* A transaction stores a record that was not stored, whoever holds it, or adds
\* nothing.
LEMMA HandleSettles ==
  ASSUME IInv, NEW w \in Workers, NEW l \in batch[w], Handle(w, l)
  PROVE  [Contract!Next]_Contract!vars
<1>1. l \in Location /\ InLog(l)
  BY DEF IInv, TypeOK, WorkerInv, Holds
<1>2. l \in Contract!Source /\ Contract!Event(l) = RecordAt(l)
  BY <1>1, InSource
<1>3. UNCHANGED <<log, committed, members, batch>>
  BY DEF Handle, broker
<1>4. InHands' = InHands
  BY <1>3 DEF InHands
<1>5. Contract!StillOwed
  <2>1. ASSUME NEW k \in Location, InLog(k), Recorded(k) PROVE Recorded(k)'
    <3>1. [Next]_vars
      BY DEF Next, WorkerStep
    <3> QED
      BY <2>1, <3>1, RecordedStays DEF IInv
  <2>2. \A k : Contract!Settled(k)' <=> Recorded(k)'
    BY DEF Contract!Settled, Contract!Event, Recorded, RecordAt
  <2>3. Missing' = {k \in Missing : ~Recorded(k)'}
    BY <1>3, <2>1 DEF Missing, InLog, Recorded, RecordAt
  <2>4. (Missing \cap InHands)' = {k \in Missing \cap InHands : ~Recorded(k)'}
    BY <1>4, <2>3
  <2> QED
    BY <2>2, <2>4 DEF Contract!StillOwed
<1>6. CASE RecordAt(l).kind = "valid"
  <2>1. RecordAt(l).id \in EventIds /\ dlq' = dlq
        /\ landing' = [landing EXCEPT ![RecordAt(l).id] = IF @ = None THEN l ELSE @]
    BY <1>1, <1>6, RecordInLog DEF Handle, IInv
  <2>2. CASE landing[RecordAt(l).id] = None
    <3>1. landing' = [landing EXCEPT ![RecordAt(l).id] = l]
      BY <2>1, <2>2
    <3>2. Contract!Land(l)
      BY <1>2, <1>3, <1>5, <1>6, <2>1, <2>2, <3>1 DEF Contract!Land
    <3> QED
      BY <1>2, <3>2 DEF Contract!Next
  <2>3. CASE landing[RecordAt(l).id] # None
    <3>1. landing' = landing
      BY <2>1, <2>3 DEF IInv, TypeOK
    <3>2. (Missing \cap InHands)' = Missing \cap InHands
      BY <1>3, <1>4, <2>1, <3>1 DEF Missing, InLog, Recorded, RecordAt
    <3> QED
      BY <1>3, <2>1, <3>1, <3>2 DEF Contract!vars
  <2> QED
    BY <2>2, <2>3
<1>7. CASE RecordAt(l).kind # "valid"
  <2>1. dlq' = dlq \cup {l} /\ landing' = landing
    BY <1>7 DEF Handle
  <2>2. Contract!Reject(l)
    BY <1>2, <1>3, <1>5, <1>7, <2>1 DEF Contract!Reject
  <2> QED
    BY <1>2, <2>2 DEF Contract!Next
<1> QED
  BY <1>6, <1>7

\* What a member leaves behind is owed no longer.
LEMMA FallDrops ==
  ASSUME IInv, NEW w \in members, HandsFall(w)
  PROVE  Contract!Drop
<1> DEFINE Held == Missing \cap InHands
           Left == Held \ Held'
<1>1. Missing' = Missing
  BY DEF HandsFall, Missing, InLog, Recorded, RecordAt
<1>2. Held' \subseteq Held /\ Left \subseteq batch[w]
  BY <1>1 DEF HandsFall
<1>3. \A l \in Left : l[2] < committed[l[1]]
  BY DEF Missing
<1>4. Cardinality(Left) <= MaxPollRecords - 1
  <2> HIDE DEF Left
  <2> QED
    BY <1>2, <1>3, AtRisk
<1>5. Left \in SUBSET Held /\ Held' = Held \ Left
  BY <1>2
<1>6. Contract!LeaveBehind(Held)
  BY <1>4, <1>5, ContractCardinality DEF Contract!LeaveBehind
<1> QED
  BY <1>6 DEF Contract!Drop, HandsFall

LEMMA CommitAcknowledges ==
  ASSUME IInv, NEW w \in members, HandsCommit(w)
  PROVE  Contract!Acknowledge
<1> DEFINE Held   == Missing \cap InHands
           Passed == {l \in Location : /\ InLog(l) /\ ~Recorded(l)
                                       /\ committed[l[1]] <= l[2] /\ l[2] < committed'[l[1]]}
<1>1. /\ w \in Workers /\ Commit(w) /\ at[w] \in batch[w] /\ Recorded(at[w])
      /\ UNCHANGED <<log, landing, dlq>>
      /\ batch'[w] = batch[w] \ {at[w]}
      /\ committed' \in [Partitions -> 0..MaxLog]
      /\ \A p \in Partitions : committed[p] <= committed'[p] /\ committed'[p] <= Len(log[p])
  BY CommitStep DEF IInv, TypeOK, HandsCommit
<1>2. Passed \subseteq batch'[w]
  <2> SUFFICES ASSUME NEW l \in Passed PROVE l \in batch'[w]
    OBVIOUS
  <2>1. l \in batch[w] /\ l # at[w]
    BY <1>1, PassedInHand
  <2> QED
    BY <1>1, <2>1
<1>3. Cardinality(Passed) <= MaxPollRecords - 1
  <2>1. IsFiniteSet(batch[w]) /\ Cardinality(batch[w]) \in Nat /\ Cardinality(batch[w]) <= MaxPollRecords
    BY <1>1, LocationFinite, FS_Subset, FS_CardinalityType DEF IInv, TypeOK, WorkerInv, Holds
  <2> HIDE DEF Passed
  <2>2. IsFiniteSet(batch'[w]) /\ Cardinality(batch'[w]) = Cardinality(batch[w]) - 1
    <3>1. at[w] \in batch[w] /\ batch'[w] = batch[w] \ {at[w]}
      BY <1>1
    <3>2. /\ IsFiniteSet(batch[w] \ {at[w]})
          /\ Cardinality(batch[w] \ {at[w]}) = Cardinality(batch[w]) - 1
      BY <2>1, <3>1, FS_RemoveElement
    <3> QED
      BY <3>1, <3>2
  <2>3. Cardinality(Passed) \in Nat /\ Cardinality(Passed) <= Cardinality(batch'[w])
    BY <1>2, <2>2, FS_Subset, FS_CardinalityType
  <2> QED
    BY <2>1, <2>2, <2>3, ConstantsAssumption
<1>4. Missing' = {l \in Location : InLog(l) /\ l[2] < committed'[l[1]] /\ ~Recorded(l)}
  BY <1>1 DEF Missing, InLog, Recorded, RecordAt
<1>5. ASSUME NEW l \in Location
      PROVE  l[2] < committed'[l[1]] <=>
               l[2] < committed[l[1]] \/ (committed[l[1]] <= l[2] /\ l[2] < committed'[l[1]])
  <2>1. l[1] \in Partitions /\ l[2] \in 0..MaxLog - 1
    BY LocationParts
  <2>2. committed[l[1]] \in 0..MaxLog /\ committed'[l[1]] \in 0..MaxLog
        /\ committed[l[1]] <= committed'[l[1]]
    BY <1>1, <2>1 DEF IInv, TypeOK
  <2> QED
    BY <2>1, <2>2
<1>6. Missing' = Missing \cup Passed
  BY <1>4, <1>5 DEF Missing
<1>7. Held' = Held \cup Passed
  <2>1. Passed \subseteq InHands'
    BY <1>2 DEF HandsCommit
  <2>2. at[w] \notin Missing
    BY <1>1 DEF Missing
  <2>3. Missing \cap InHands' = Missing \cap InHands
    BY <2>2 DEF HandsCommit
  <2> HIDE DEF Passed
  <2> QED
    BY <1>6, <2>1, <2>3
<1>8. Contract!Passed = Passed
  BY InSource DEF Contract!Passed
<1>9. Contract!LeaveBehind(Held \cup Contract!Passed)
  <2>1. Cardinality({}) = 0
    BY FS_EmptySet
  <2>2. /\ {} \in SUBSET (Held \cup Passed) /\ Cardinality({}) <= MaxPollRecords - 1
        /\ Held' = (Held \cup Passed) \ {}
    BY <1>7, <2>1, ConstantsAssumption
  <2> QED
    BY <1>8, <2>2, ContractCardinality DEF Contract!LeaveBehind
<1> QED
  BY <1>1, <1>3, <1>8, <1>9, ContractCardinality DEF Contract!Acknowledge

LEMMA ContractStep ==
  ASSUME IInv, [Next]_vars
  PROVE  [Contract!Next]_Contract!vars
<1>1. CASE \E w \in Workers : \E l \in batch[w] : Handle(w, l)
  BY <1>1, HandleSettles
<1>2. CASE ~(\E w \in Workers : \E l \in batch[w] : Handle(w, l))
  <2>1. UNCHANGED <<log, landing, dlq>>
    BY <1>2, OtherSteps, TablesGrow DEF IInv, postgres
  <2>2. CASE HandsGrow
    <3>1. Missing' = Missing /\ committed' = committed
      BY <2>1, <2>2 DEF HandsGrow, Missing, InLog, Recorded, RecordAt
    <3>2. ASSUME NEW l \in InHands', l \in Missing PROVE l \in InHands
      <4>1. l \in Location /\ l[2] < committed[l[1]]
        BY <3>2 DEF Missing
      <4>2. l[2] \in 0..MaxLog - 1 /\ committed[l[1]] \in 0..MaxLog
        BY <4>1, LocationParts DEF IInv, TypeOK
      <4>3. ~(committed[l[1]] <= l[2])
        BY <4>1, <4>2
      <4> QED
        BY <2>2, <4>3 DEF HandsGrow
    <3>3. (Missing \cap InHands)' = Missing \cap InHands
      BY <2>2, <3>1, <3>2 DEF HandsGrow
    <3> QED
      BY <2>1, <3>1, <3>3 DEF Contract!vars
  <2> QED
    BY <2>2, HandsStep, FallDrops, CommitAcknowledges DEF Contract!Next
<1> QED
  BY <1>1, <1>2

\* The group, its expelled workers included, implements what event-streams.md
\* says of one worker, but for what the end or the expulsion of a member may
\* cost: less than a batch, which with one record per poll is nothing.
THEOREM GroupImplementsContract == Spec => ImplementsContract
<1>1. IInv /\ [Next]_vars => [Contract!Next]_Contract!vars
  BY ContractStep
<1> QED
  BY <1>1, ContractInit, InductiveInvariant, PTL DEF Spec, ImplementsContract, Contract!Spec

=============================================================================
