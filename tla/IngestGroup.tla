---------------------------- MODULE IngestGroup ----------------------------
(***************************************************************************)
(* Several ingest workers in one consumer group (ingest_worker/worker.py   *)
(* run more than once with the same INGEST_CONSUMER_GROUP). The broker     *)
(* gives every partition to one member of the group; a worker that is slow *)
(* or paused is expelled without being told, and goes on with the record   *)
(* it has in hand until its next commit is refused. PostgreSQL takes the   *)
(* writes of any worker, expelled or not.                                  *)
(*                                                                         *)
(* IngestWorker has one worker in full; left out here are the DLQ topic,   *)
(* records that PostgreSQL refuses and the counters of the metrics row.    *)
(***************************************************************************)
EXTENDS Integers, Sequences, FiniteSets

CONSTANTS
  Workers,         \* processes that run worker.py with the same group
  Partitions,      \* partitions of the event topic
  EventIds,        \* event_id values
  MaxPollRecords,  \* INGEST_MAX_POLL_RECORDS (50 by default)
  MaxLog,          \* bound: records in a partition
  MaxFaults,       \* bound: workers that are expelled or stopped
  None

ASSUME ConstantsAssumption ==
  /\ IsFiniteSet(Partitions)
  /\ MaxPollRecords \in Nat \ {0}
  /\ MaxLog \in Nat
  /\ MaxFaults \in Nat

\* A place in the topic: a partition and an offset, counted from 0.
Location == Partitions \X (0..MaxLog - 1)

ASSUME NoneAssumption ==
  None \notin Location /\ None \notin EventIds /\ None \notin Workers

Record == [kind : {"valid"}, id : EventIds] \cup [kind : {"invalid"}, id : {None}]

VARIABLES
  log,        \* broker: the event topic
  committed,  \* broker: the group's committed offset (next to read)
  members,    \* broker: the workers of the current generation
  landing,    \* PostgreSQL: raw_event_landing, event_id -> source location
  dlq,        \* PostgreSQL: raw_event_dlq, the locations that have a row
  checkpoint, \* PostgreSQL: event_ingest_checkpoints.last_offset, -1 no row
  last,       \* PostgreSQL: last_processed_* of event_ingest_metrics
  pc,         \* worker: where main() is, "down" when there is no process
  assigned,   \* worker: the partitions its consumer was given
  position,   \* worker: its consumer's positions
  batch,      \* worker: records poll() returned, not yet finished with
  at,         \* worker: the last record of this batch taken up
  faults      \* bound: how many workers were expelled or stopped so far

broker   == <<log, committed, members>>
postgres == <<landing, dlq, checkpoint, last>>
workers  == <<pc, assigned, position, batch, at>>
vars     == <<broker, postgres, workers, faults>>

InLog(l) == l[2] < Len(log[l[1]])
RecordAt(l) == log[l[1]][l[2] + 1]

\* Storing the record leaves a durable trace.
Recorded(l) ==
  IF RecordAt(l).kind = "valid" THEN landing[RecordAt(l).id] # None ELSE l \in dlq

Init ==
  /\ log \in [Partitions -> UNION {[1..n -> Record] : n \in 0..MaxLog}]
  /\ committed = [p \in Partitions |-> 0]
  /\ members = {}
  /\ landing = [e \in EventIds |-> None]
  /\ dlq = {}
  /\ checkpoint = [p \in Partitions |-> -1]
  /\ last = None
  /\ pc = [w \in Workers |-> "down"]
  /\ assigned = [w \in Workers |-> {}]
  /\ position = [w \in Workers |-> [p \in Partitions |-> 0]]
  /\ batch = [w \in Workers |-> {}]
  /\ at = [w \in Workers |-> None]
  /\ faults = 0

Fault == faults < MaxFaults /\ faults' = faults + 1

-----------------------------------------------------------------------------
\* main() up to its first poll(), in which the worker asks to join the group.
Start(w) ==
  /\ pc[w] = "down"
  /\ pc' = [pc EXCEPT ![w] = "poll"]
  /\ UNCHANGED <<broker, postgres, assigned, position, batch, at, faults>>

\* A worker asks to join, or a partition has lost its owner.
Unbalanced ==
  \/ \E w \in Workers \ members : pc[w] = "poll"
  \/ UNION {assigned[w] : w \in members} # Partitions

\* The coordinator has all members in poll(), the rest is expelled: every
\* worker that polls is a member of the next generation and begins at the
\* committed offsets of the partitions it is given.
Rebalance ==
  /\ Unbalanced
  /\ \A w \in members : pc[w] = "poll"
  /\ members' = {w \in Workers : pc[w] = "poll"}
  /\ members' # {}
  /\ \E owner \in [Partitions -> members'] :
       assigned' = [w \in Workers |-> IF w \in members' THEN {p \in Partitions : owner[p] = w}
                                                        ELSE assigned[w]]
  /\ position' = [w \in Workers |-> IF w \in members' THEN committed ELSE position[w]]
  /\ UNCHANGED <<log, committed, postgres, pc, batch, at, faults>>

\* The session or the poll interval of a worker runs out, because it is slow,
\* paused or cut off: the group goes on without it, and it does not know.
Expel(w) ==
  /\ w \in members
  /\ Fault
  /\ members' = members \ {w}
  /\ UNCHANGED <<log, committed, postgres, workers>>

\* The locations that a poll which moves the positions to pos returns.
Fetched(w, pos) ==
  {l \in Location : position[w][l[1]] <= l[2] /\ l[2] < pos[l[1]]}

\* A poll() that returns records, of the partitions the consumer was given: an
\* expelled worker that has not heard of it reads on, fetches name no group.
Poll(w) ==
  /\ pc[w] = "poll"
  /\ \E pos \in [Partitions -> 0..MaxLog] :
       /\ \A p \in Partitions :
            IF p \in assigned[w] THEN position[w][p] <= pos[p] /\ pos[p] <= Len(log[p])
                                 ELSE pos[p] = position[w][p]
       /\ Cardinality(Fetched(w, pos)) \in 1..MaxPollRecords
       /\ position' = [position EXCEPT ![w] = pos]
       /\ batch' = [batch EXCEPT ![w] = Fetched(w, pos)]
  /\ pc' = [pc EXCEPT ![w] = "handle"]
  /\ at' = [at EXCEPT ![w] = None]
  /\ UNCHANGED <<broker, postgres, assigned, faults>>

\* The two loops over a batch: partition by partition, in offset order.
Turn(w, l) ==
  /\ l \in batch[w]
  /\ \A m \in batch[w] : m[1] = l[1] => l[2] <= m[2]
  /\ at[w] # None => at[w][1] = l[1] \/ \A m \in batch[w] : m[1] # at[w][1]

\* Mutant of Upserts: the checkpoint is overwritten, as the metrics row is.
UpsertsOverwrite(l) ==
  /\ checkpoint' = [checkpoint EXCEPT ![l[1]] = l[2]]
  /\ last' = l

\* upsert_checkpoint keeps the greater offset, upsert_metrics the latest.
Upserts(l) ==
  /\ checkpoint' = [checkpoint EXCEPT ![l[1]] = IF l[2] > @ THEN l[2] ELSE @]
  /\ last' = l

\* process_message: the transaction of an accepted or of a rejected record.
Handle(w, l) ==
  /\ pc[w] = "handle"
  /\ Turn(w, l)
  /\ IF RecordAt(l).kind = "valid"
     THEN /\ landing' = [landing EXCEPT ![RecordAt(l).id] = IF @ = None THEN l ELSE @]
          /\ UNCHANGED dlq
     ELSE /\ dlq' = dlq \cup {l}
          /\ UNCHANGED landing
  /\ Upserts(l)
  /\ pc' = [pc EXCEPT ![w] = "commit"]
  /\ at' = [at EXCEPT ![w] = l]
  /\ UNCHANGED <<broker, assigned, position, batch, faults>>

\* Mutants of Offsets: the worker commits what it has read further than it has
\* stored; it commits when it is through with a batch.
OffsetsAhead(w) ==
  [p \in Partitions |-> IF p \notin assigned[w] THEN committed[p]
                        ELSE IF position[w][p] < Len(log[p]) THEN position[w][p] + 1
                        ELSE position[w][p]]

OffsetsKept(w) == committed

\* commit() without arguments: the positions of all partitions it was given.
Offsets(w) ==
  [p \in Partitions |-> IF p \in assigned[w] THEN position[w][p] ELSE committed[p]]

\* The commit of a member, and the next turn of the loops.
Commit(w) ==
  /\ pc[w] = "commit"
  /\ w \in members
  /\ committed' = Offsets(w)
  /\ batch' = [batch EXCEPT ![w] = @ \ {at[w]}]
  /\ pc' = [pc EXCEPT ![w] = IF batch'[w] = {} THEN "poll" ELSE "handle"]
  /\ UNCHANGED <<log, members, postgres, assigned, position, at, faults>>

\* The process ends, and leaves the group.
Exit(w) ==
  /\ pc' = [pc EXCEPT ![w] = "down"]
  /\ members' = members \ {w}
  /\ assigned' = [assigned EXCEPT ![w] = {}]
  /\ batch' = [batch EXCEPT ![w] = {}]
  /\ at' = [at EXCEPT ![w] = None]
  /\ UNCHANGED <<log, committed, postgres, position>>

\* The commit of an expelled worker raises CommitFailedError, which leaves
\* main().
CommitRefused(w) ==
  /\ pc[w] = "commit"
  /\ w \notin members
  /\ Exit(w)
  /\ UNCHANGED faults

\* Every other end: an exception, a signal, a limit.
Stop(w) ==
  /\ pc[w] # "down"
  /\ Fault
  /\ Exit(w)

\* poll() returns nothing, and the loop goes on.
PollNothing(w) == pc[w] = "poll" /\ UNCHANGED vars

-----------------------------------------------------------------------------
WorkerStep(w) ==
  \/ Poll(w)
  \/ \E l \in batch[w] : Handle(w, l)
  \/ Commit(w)
  \/ CommitRefused(w)

Next ==
  \/ Rebalance
  \/ \E w \in Workers : Start(w) \/ WorkerStep(w) \/ PollNothing(w) \/ Expel(w) \/ Stop(w)

Spec == Init /\ [][Next]_vars

(***************************************************************************)
(* Workers are scheduled and started again. A member that polls while the  *)
(* coordinator waits for it learns so from its next heartbeat, so that the *)
(* members are not between two polls each time: SF for Rebalance.          *)
(***************************************************************************)
Fairness ==
  /\ \A w \in Workers : WF_vars(WorkerStep(w)) /\ WF_vars(Start(w))
  /\ SF_vars(Rebalance)

FairSpec == Spec /\ Fairness

-----------------------------------------------------------------------------
\* The types of the variables; a worker that commits has a record in hand.
TypeOK ==
  /\ log \in [Partitions -> UNION {[1..n -> Record] : n \in 0..MaxLog}]
  /\ committed \in [Partitions -> 0..MaxLog]
  /\ members \subseteq Workers
  /\ landing \in [EventIds -> Location \cup {None}]
  /\ dlq \subseteq Location
  /\ checkpoint \in [Partitions -> -1..MaxLog - 1]
  /\ last \in Location \cup {None}
  /\ pc \in [Workers -> {"down", "poll", "handle", "commit"}]
  /\ assigned \in [Workers -> SUBSET Partitions]
  /\ position \in [Workers -> [Partitions -> 0..MaxLog]]
  /\ batch \in [Workers -> SUBSET Location]
  /\ at \in [Workers -> Location \cup {None}]
  /\ \A w \in Workers : pc[w] = "commit" => at[w] \in batch[w]
  /\ faults \in 0..MaxFaults

\* A checkpoint is at or above every record that was stored from its partition
\* and not above the committed offset, although an expelled worker may write an
\* offset that its successors have left behind: GREATEST keeps it from moving
\* the checkpoint back.
CheckpointCovers ==
  /\ \A e \in EventIds : landing[e] # None => landing[e][2] <= checkpoint[landing[e][1]]
  /\ \A l \in dlq : l[2] <= checkpoint[l[1]]
  /\ \A p \in Partitions : checkpoint[p] <= committed[p]

\* The metrics row has no such guard: its offset goes back, but only in the
\* transaction of a worker that is expelled.
OnlyExpelledGoBack ==
  [][last # None /\ last' # last /\ last'[1] = last[1] /\ last'[2] < last[2]
       => \E w \in Workers \ members : pc[w] = "handle" /\ at'[w] = last']_vars

\* The records that the committed offsets have passed and that left no trace.
Missing == {l \in Location : InLog(l) /\ l[2] < committed[l[1]] /\ ~Recorded(l)}

\* ... or that no checkpoint covers yet.
Unfinished ==
  {l \in Location : l[2] < committed[l[1]] /\ (~Recorded(l) \/ checkpoint[l[1]] < l[2])}

\* The records that members have in hand.
InHands == UNION {batch[w] : w \in members}

\* A rebalance costs nothing; the end or the expulsion of a member costs less
\* than a batch, whichever workers, expelled or not, write or commit next.
LossBounded ==
  Cardinality(Unfinished \ InHands) <= (MaxPollRecords - 1) * faults

\* The group as a whole, expelled workers included, keeps the contract of the
\* single worker.
Contract ==
  INSTANCE IngestContract
    WITH landed <- landing, rejected <- dlq, acked <- committed,
         owed <- Missing \cap InHands, MaxDrop <- MaxPollRecords - 1

ImplementsContract == Contract!Spec

\* Every record but what the faults cost is stored in the end: the partitions
\* of a worker that is gone or expelled find another one, and the expelled
\* worker finds its way back.
AllButLost ==
  <>(Cardinality({l \in Location : InLog(l) /\ ~Recorded(l)})
       <= (MaxPollRecords - 1) * faults)
=============================================================================
