---------------------------- MODULE IngestWorker ----------------------------
(***************************************************************************)
(* The analytics ingest worker (ingest_worker/worker.py): one process that *)
(* polls the event topic in batches, stores each record in PostgreSQL in   *)
(* one transaction, hands the metadata of rejected records to an           *)
(* asynchronous producer of the DLQ topic and commits its offsets to the   *)
(* broker after every record.                                              *)
(*                                                                         *)
(* State is in three places that fail apart: the broker (log, committed,   *)
(* dlqTopic), PostgreSQL (landing, dlq, checkpoint, metrics) and the       *)
(* memory of the process (the other variables), which a stop erases.       *)
(***************************************************************************)
EXTENDS Integers, Sequences, FiniteSets

CONSTANTS
  Partitions,      \* partitions of the event topic
  EventIds,        \* event_id values
  MaxPollRecords,  \* INGEST_MAX_POLL_RECORDS (50 by default)
  MaxMessages,     \* INGEST_MAX_MESSAGES, 0 is no limit
  IdleTimeout,     \* INGEST_IDLE_TIMEOUT_SECONDS > 0
  MaxLog,          \* bound: records in a partition
  MaxFaults,       \* bound: faults of the environment in one behaviour
  None

ASSUME ConstantsAssumption ==
  /\ IsFiniteSet(Partitions)
  /\ IsFiniteSet(EventIds)
  /\ MaxPollRecords \in Nat \ {0}
  /\ MaxMessages \in Nat
  /\ IdleTimeout \in BOOLEAN
  /\ MaxLog \in Nat
  /\ MaxFaults \in Nat

\* A place in the topic: a partition and an offset, counted from 0.
Location == Partitions \X (0..MaxLog - 1)

ASSUME NoneAssumption == None \notin Location /\ None \notin EventIds

(***************************************************************************)
(* What the worker can tell apart in a record: validate_event accepts it   *)
(* ("valid"), rejects it ("invalid"), or one of two cases that leave by an *)
(* exception which is not a ValidationError: an "empty" value is rejected  *)
(* by validate_event but refused by CHECK (raw_record_bytes > 0) on the    *)
(* DLQ table; an "unstorable" one is outside a column's type (a boolean or *)
(* too large event_version, \u0000 in the JSON) or stops validate_event    *)
(* itself (a timestamp that has no UTC form).                              *)
(***************************************************************************)
Record == [kind : {"valid"}, id : EventIds]
            \cup [kind : {"invalid", "empty", "unstorable"}, id : {None}]

VARIABLES
  log,        \* broker: the event topic
  committed,  \* broker: the consumer group's committed offset (next to read)
  dlqTopic,   \* broker: locations published on the DLQ topic
  landing,    \* PostgreSQL: raw_event_landing, event_id -> source location
  dlq,        \* PostgreSQL: raw_event_dlq, the locations in dlq_id order
  checkpoint, \* PostgreSQL: event_ingest_checkpoints.last_offset, -1 no row
  metrics,    \* PostgreSQL: the row of event_ingest_metrics
  pc,         \* process: where main() is, "down" when there is no process
  position,   \* process: the consumer's position, what commit() commits
  batch,      \* process: records poll() returned, not yet finished with
  at,         \* process: the last record of this batch taken up
  processed,  \* process: the count compared with MaxMessages
  outbox,     \* process: sent to the DLQ producer, not yet acknowledged
  faults      \* bound: how often the environment failed so far

broker   == <<log, committed, dlqTopic>>
postgres == <<landing, dlq, checkpoint, metrics>>
process  == <<pc, position, batch, at, processed, outbox>>
vars     == <<broker, postgres, process, faults>>

-----------------------------------------------------------------------------
InLog(l) == l[2] < Len(log[l[1]])
RecordAt(l) == log[l[1]][l[2] + 1]

\* Storing the record leaves a durable trace: a landing row of its event id,
\* or a DLQ row of its location.
Recorded(l) ==
  IF RecordAt(l).kind = "valid"
  THEN landing[RecordAt(l).id] # None
  ELSE \E i \in DOMAIN dlq : dlq[i] = l

\* The topic's content is arbitrary. A poll may return any part of what is
\* left, so records that are produced later need no action of their own.
Init ==
  /\ log \in [Partitions -> UNION {[1..n -> Record] : n \in 0..MaxLog}]
  /\ committed = [p \in Partitions |-> 0]
  /\ dlqTopic = {}
  /\ landing = [e \in EventIds |-> None]
  /\ dlq = << >>
  /\ checkpoint = [p \in Partitions |-> -1]
  /\ metrics = [accepted |-> 0, rejected |-> 0, last |-> None]
  /\ pc = "down"
  /\ position = [p \in Partitions |-> 0]
  /\ batch = {}
  /\ at = None
  /\ processed = 0
  /\ outbox = {}
  /\ faults = 0

\* The finally block of main() begins: the batch in hand is forgotten.
Leave ==
  /\ pc' = "closing"
  /\ batch' = {}
  /\ at' = None

Fault == faults < MaxFaults /\ faults' = faults + 1

-----------------------------------------------------------------------------
\* Mutant of StartPosition: a group without offsets begins at the topic's end.
StartPositionLatest ==
  [p \in Partitions |-> IF committed[p] = 0 THEN Len(log[p]) ELSE committed[p]]

\* The committed offsets, or the earliest one when there are none.
StartPosition == committed

\* main() connects, applies the schema (idempotent) and joins the group.
Start ==
  /\ pc = "down"
  /\ pc' = "poll"
  /\ position' = StartPosition
  /\ processed' = 0
  /\ UNCHANGED <<broker, postgres, batch, at, outbox, faults>>

\* The locations a poll that moves the positions to pos returns.
Fetched(pos) ==
  {l \in Location : position[l[1]] <= l[2] /\ l[2] < pos[l[1]]}

\* A poll() that returns records: at most MaxPollRecords of them, of any of
\* the partitions; it moves the consumer's positions past all of them.
PollBatch ==
  /\ pc = "poll"
  /\ \E pos \in [Partitions -> 0..MaxLog] :
       /\ \A p \in Partitions : position[p] <= pos[p] /\ pos[p] <= Len(log[p])
       /\ Cardinality(Fetched(pos)) \in 1..MaxPollRecords
       /\ position' = pos
       /\ batch' = Fetched(pos)
  /\ pc' = "handle"
  /\ at' = None
  /\ UNCHANGED <<log, dlqTopic, postgres, processed, outbox, faults>>

\* Mutant of Poll: the consumer commits what it fetches (enable_auto_commit).
PollAutoCommit == PollBatch /\ committed' = position'

Poll == PollBatch /\ UNCHANGED committed

\* poll() returns nothing: the loop goes on, or breaks at the idle timeout.
PollNothing == pc = "poll" /\ UNCHANGED vars

IdleStop ==
  /\ pc = "poll"
  /\ IdleTimeout
  /\ Leave
  /\ UNCHANGED <<broker, postgres, position, processed, outbox, faults>>

\* The two loops over a batch: one partition after the other, in any order of
\* the partitions, and in offset order within each.
Turn(l) ==
  /\ \A m \in batch : m[1] = l[1] => l[2] <= m[2]
  /\ at # None => at[1] = l[1] \/ \A m \in batch : m[1] # at[1]

\* Mutant of Upserts: a rejected record does not move the checkpoint.
UpsertsAccepted(l, accepted, rejected) ==
  /\ checkpoint' = IF accepted = 1 THEN [checkpoint EXCEPT ![l[1]] = l[2]] ELSE checkpoint
  /\ metrics' = [accepted |-> metrics.accepted + accepted,
                 rejected |-> metrics.rejected + rejected,
                 last     |-> l]

\* upsert_checkpoint and upsert_metrics, part of either transaction.
Upserts(l, accepted, rejected) ==
  /\ checkpoint' = [checkpoint EXCEPT ![l[1]] = IF l[2] > @ THEN l[2] ELSE @]
  /\ metrics' = [accepted |-> metrics.accepted + accepted,
                 rejected |-> metrics.rejected + rejected,
                 last     |-> l]

\* Mutant of RecordLanding: ON CONFLICT DO UPDATE.
RecordLandingOverwrite(l) ==
  /\ RecordAt(l).kind = "valid"
  /\ landing' = [landing EXCEPT ![RecordAt(l).id] = l]
  /\ Upserts(l, 1, 0)
  /\ pc' = "commit"
  /\ UNCHANGED dlq

\* record_landing: one transaction, which keeps the row an event id has.
RecordLanding(l) ==
  /\ RecordAt(l).kind = "valid"
  /\ landing' = [landing EXCEPT ![RecordAt(l).id] = IF @ = None THEN l ELSE @]
  /\ Upserts(l, 1, 0)
  /\ pc' = "commit"
  /\ UNCHANGED dlq

\* Mutant of RecordDlq: a redelivered record adds no row but is counted.
RecordDlqOnce(l) ==
  /\ RecordAt(l).kind = "invalid"
  /\ dlq' = IF Recorded(l) THEN dlq ELSE Append(dlq, l)
  /\ Upserts(l, 0, 1)
  /\ pc' = "publish"
  /\ UNCHANGED landing

\* record_dlq: one transaction, which always adds a row.
RecordDlq(l) ==
  /\ RecordAt(l).kind = "invalid"
  /\ dlq' = Append(dlq, l)
  /\ Upserts(l, 0, 1)
  /\ pc' = "publish"
  /\ UNCHANGED landing

\* process_message up to the end of its transaction.
Handle(l) ==
  /\ pc = "handle"
  /\ Turn(l)
  /\ RecordLanding(l) \/ RecordDlq(l)
  /\ at' = l
  /\ UNCHANGED <<broker, position, batch, processed, outbox, faults>>

\* PostgreSQL refuses the row of this record, or validate_event fails on it.
Refused(l) ==
  /\ pc = "handle"
  /\ Turn(l)
  /\ RecordAt(l).kind \in {"empty", "unstorable"}
  /\ UNCHANGED <<broker, landing, dlq, position, processed, faults>>

\* Mutants of HandleRefused: the exception is swallowed and the record is
\* skipped, or tried again at once; the upserts are committed on their own; the
\* metadata is sent before the row is stored.
RefusedSkips(l) ==
  /\ Refused(l)
  /\ pc' = "commit"
  /\ at' = l
  /\ UNCHANGED <<checkpoint, metrics, batch, outbox>>

RefusedRetries(l) ==
  Refused(l) /\ UNCHANGED <<checkpoint, metrics, pc, batch, at, outbox>>

RefusedUpserts(l) ==
  Refused(l) /\ Leave /\ Upserts(l, 0, 0) /\ UNCHANGED outbox

RefusedPublishes(l) ==
  /\ Refused(l)
  /\ Leave
  /\ outbox' = outbox \cup {l}
  /\ UNCHANGED <<checkpoint, metrics>>

\* The transaction rolls back, and the exception, which is not a
\* ValidationError, ends main().
HandleRefused(l) ==
  Refused(l) /\ Leave /\ UNCHANGED <<checkpoint, metrics, outbox>>

\* publish_dlq_metadata: send() buffers and the returned future is dropped.
PublishDlqMetadata ==
  /\ pc = "publish"
  /\ outbox' = outbox \cup {at}
  /\ pc' = "commit"
  /\ UNCHANGED <<broker, postgres, position, batch, at, processed, faults>>

LimitReached == MaxMessages > 0 /\ processed + 1 >= MaxMessages

\* Mutant of OffsetsToCommit: offsets are committed once per batch.
OffsetsToCommitLate == IF batch = {at} THEN position ELSE committed

\* commit() without arguments commits the positions, which poll() moved past
\* the whole batch.
OffsetsToCommit == position

\* After the commit the loops go on, or main() returns at MaxMessages,
\* whatever is left of the batch.
CommitOffsets ==
  /\ pc = "commit"
  /\ committed' = OffsetsToCommit
  /\ processed' = IF MaxMessages > 0 THEN processed + 1 ELSE processed
  /\ \/ LimitReached /\ Leave
     \/ /\ ~LimitReached
        /\ batch' = batch \ {at}
        /\ pc' = IF batch' = {} THEN "poll" ELSE "handle"
        /\ at' = at
  /\ UNCHANGED <<log, dlqTopic, postgres, position, outbox, faults>>

\* A call to PostgreSQL or to the broker raises: lost connection,
\* CommitFailedError, no metadata for send().
Raise ==
  /\ pc \in {"poll", "handle", "publish", "commit"}
  /\ Fault
  /\ Leave
  /\ UNCHANGED <<broker, postgres, position, processed, outbox>>

\* The process ends; what the DLQ producer still buffers goes with it.
Exit ==
  /\ pc' = "down"
  /\ batch' = {}
  /\ at' = None
  /\ outbox' = {}
  /\ UNCHANGED <<broker, postgres, position, processed>>

\* flush(timeout=10) and the three close() calls.
Close == pc = "closing" /\ outbox = {} /\ Exit /\ UNCHANGED faults

\* flush() times out and raises: the process ends without the messages.
CloseTimeout == pc = "closing" /\ outbox # {} /\ Exit /\ Fault

\* The process is killed. SIGTERM does the same as SIGKILL: main() installs no
\* handler, so the finally block does not run.
Kill == pc # "down" /\ Exit /\ Fault

\* The producer's sender thread: the broker acknowledges a buffered message.
Deliver(l) ==
  /\ l \in outbox
  /\ outbox' = outbox \ {l}
  /\ dlqTopic' = dlqTopic \cup {l}
  /\ UNCHANGED <<log, committed, postgres, pc, position, batch, at, processed, faults>>

\* ... or delivery fails for good, and nobody looks at the future.
Expire(l) ==
  /\ l \in outbox
  /\ Fault
  /\ outbox' = outbox \ {l}
  /\ UNCHANGED <<broker, postgres, pc, position, batch, at, processed>>

-----------------------------------------------------------------------------
WorkerStep ==
  \/ Poll
  \/ \E l \in batch : Handle(l) \/ HandleRefused(l)
  \/ PublishDlqMetadata
  \/ CommitOffsets
  \/ Close

Next ==
  \/ Start
  \/ WorkerStep
  \/ PollNothing
  \/ IdleStop
  \/ \E l \in outbox : Deliver(l) \/ Expire(l)
  \/ Raise
  \/ CloseTimeout
  \/ Kill

Spec == Init /\ [][Next]_vars

(***************************************************************************)
(* The process and its sender thread are scheduled, and poll() returns     *)
(* what the broker holds: that is all the code gives. Nothing restarts the *)
(* worker (docker-compose.yml sets no restart policy): FairSpec leaves it  *)
(* down, OperatedSpec has an operator who starts it again.                 *)
(***************************************************************************)
FairSpec ==
  /\ Spec
  /\ WF_vars(WorkerStep)
  /\ WF_vars(\E l \in outbox : Deliver(l))

OperatedSpec == FairSpec /\ WF_vars(Start)

-----------------------------------------------------------------------------
\* The types of the variables; a transaction was for a record of the batch.
TypeOK ==
  /\ log \in [Partitions -> UNION {[1..n -> Record] : n \in 0..MaxLog}]
  /\ committed \in [Partitions -> 0..MaxLog]
  /\ dlqTopic \subseteq Location
  /\ landing \in [EventIds -> Location \cup {None}]
  /\ dlq \in Seq(Location)
  /\ checkpoint \in [Partitions -> -1..MaxLog - 1]
  /\ metrics \in [accepted : Nat, rejected : Nat, last : Location \cup {None}]
  /\ pc \in {"down", "poll", "handle", "publish", "commit", "closing"}
  /\ position \in [Partitions -> 0..MaxLog]
  /\ batch \subseteq Location
  /\ at \in Location \cup {None}
  /\ pc \in {"publish", "commit"} => at \in batch
  /\ processed \in Nat
  /\ outbox \subseteq Location
  /\ faults \in 0..MaxFaults

\* The committed offset of the group never passes a record that left no trace
\* in PostgreSQL: what is not recorded is delivered again. It takes
\* MaxPollRecords = 1; with the default of 50 the commit after the first
\* record of a batch covers the whole batch.
NoCommittedLoss ==
  \A l \in Location :
    l[2] < committed[l[1]] => InLog(l) /\ Recorded(l)

\* With one record per poll the offset committed to the broker and the
\* checkpoint row in PostgreSQL, written by two systems, differ by one record
\* at most: the one whose transaction is not yet followed by its commit.
CheckpointTracksCommit ==
  \A p \in Partitions : checkpoint[p] \in committed[p] - 1 .. committed[p]

\* With one record per poll the landing row of an event id comes from the
\* first of its copies in that partition, however often the worker stopped.
EarliestCopyLands ==
  \A e \in EventIds, l \in Location :
    landing[e] = l =>
      \A o \in 0..l[2] - 1 : RecordAt(<<l[1], o>>) # [kind |-> "valid", id |-> e]

\* The records the group's offsets have passed, that nothing in memory still
\* stands for and that left no trace.
Lost ==
  {l \in Location :
     l[2] < committed[l[1]] /\ l \notin batch /\ ~Recorded(l)}

\* docs/contracts/event-streams.md: the worker "lands accepted records in
\* analytics.raw_event_landing". A record that the offsets have passed while
\* its batch was left behind is never delivered again.
NothingLost == Lost = {}

\* Records are lost only when the process leaves a batch behind, and then at
\* most MaxPollRecords - 1 of them: none of the batches before it is at risk.
LossPerStop ==
  [][LET more == Lost' \ Lost
     IN  /\ Cardinality(more) <= MaxPollRecords - 1
         /\ more # {} => pc' \in {"closing", "down"}]_vars

\* The last record handled in a partition left its trace in the transaction
\* that moved the checkpoint to it: the checkpoint row names a stored record.
CheckpointRecorded ==
  \A p \in Partitions :
    checkpoint[p] >= 0 => Recorded(<<p, checkpoint[p]>>)

\* The counters of the metrics row against the tables they count: every DLQ
\* row is a rejection, every landing row an acceptance; duplicates of an event
\* and redelivered records are counted again and land no row.
MetricsMatchTables ==
  /\ metrics.rejected = Len(dlq)
  /\ metrics.accepted >= Cardinality({e \in EventIds : landing[e] # None})

\* The DLQ topic never announces a rejection that the DLQ table does not hold,
\* whatever stop or lost delivery comes between the two.
DlqTopicBacked ==
  dlqTopic \cup outbox \subseteq {dlq[i] : i \in DOMAIN dlq}

\* The last processed offset in the metrics row, which is overwritten, is the
\* checkpoint of its partition, which only grows: a commit after every record
\* leaves at most one stored record to be delivered again, the latest.
MetricsLastIsCheckpoint ==
  metrics.last # None => checkpoint[metrics.last[1]] = metrics.last[2]

\* The acknowledged records in hand that left no trace yet.
Owed == {l \in batch : l[2] < committed[l[1]] /\ ~Recorded(l)}

\* The worker implements the contract: a step lands one event, records one
\* rejection, moves the acknowledged offsets, ends a batch or changes nothing
\* that a reader of the warehouse sees; and what an end of the process costs is
\* less than a batch, nothing with one record per poll.
Contract ==
  INSTANCE IngestContract
    WITH landed <- landing, rejected <- {dlq[i] : i \in DOMAIN dlq}, acked <- committed,
         owed <- Owed, MaxDrop <- MaxPollRecords - 1

ImplementsContract == Contract!Spec

Drained == \A p \in Partitions : committed[p] = Len(log[p])

\* A worker that runs commits its way to the end of the topic or stops; it
\* never spins or hangs on a record, a refused one included.
DrainsOrStops == (pc # "down") ~> (Drained \/ pc = "down")

Storable(l) == RecordAt(l).kind \in {"valid", "invalid"}

\* With an operator who starts it again, every record is stored in the end if
\* the topic holds none that PostgreSQL refuses and polls return one record.
AllRecorded ==
  (\A l \in Location : InLog(l) => Storable(l))
    ~> (\A l \in Location : InLog(l) => Recorded(l))

\* docs/contracts/event-streams.md: "Invalid events are recorded in
\* analytics.raw_event_dlq". The value that is empty never is.
InvalidEventsRecorded ==
  \A l \in Location :
    (InLog(l) /\ RecordAt(l).kind \in {"invalid", "empty"}) ~> (InLog(l) /\ Recorded(l))

\* docs/contracts/event-streams.md: "... and published to
\* emsi.analytics.events.dlq.v1". Once the topic is drained and nothing is
\* buffered, a DLQ row whose message is not in the DLQ topic stays without it.
InvalidEventsPublished ==
  Drained /\ outbox = {} /\ pc = "poll" => {dlq[i] : i \in DOMAIN dlq} \subseteq dlqTopic
=============================================================================
