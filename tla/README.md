# EMSI data platform: TLA+ verification

TLA+ specifications of the EMSI data platform (`src/`), checked with TLC and
proved with TLAPS. Everything is translated from the code. Where a document of
the repository says something else and the model covers it, a violation run shows the
difference; local DSNs (section 2, the captures) are only described, and no passing
property speaks of them.

## 1. Inventory

The platform moves analytics events from a Kafka API topic into PostgreSQL,
builds Data Vault views and marts over them with dbt, and guards what it
publishes with Soda contracts, Dagster assets and a few stand-alone programs.

| Component | Code | State it keeps | Operations |
|---|---|---|---|
| Ingest worker | `ingest_worker/worker.py`, `sql/analytics-postgres-init/010_event_ingest.sql` | broker: topic, committed offsets of the group, DLQ topic; PostgreSQL: landing, DLQ, checkpoint and metrics tables; process: consumer position, polled batch, DLQ producer buffer | start, join the group, poll, store or reject one record, publish the rejection, commit, be expelled, stop |
| Event validation | `worker.py:316-375, 572-696` | none | ordered checks of one record, first failure names the error code |
| Quality gate | `dagster_project/definitions.py:1056-1126`, `soda_quality_gate.py`, `quality_persistence.py` | `ops.data_quality_runs`, `ops.data_quality_findings` | verify seven contracts in order, compare check counts, write an audit row per contract, fail closed |
| Partition trust state | `dbt/models/raw_vault/product_reporting_partition_trust_state.sql` | none (a view over load times and counts) | freshness, completeness, trust and complete-through date per asset and day (not modelled, section 5) |
| Stage reconciliation | `dbt/models/raw_vault/product_reporting_stage_reconciliation.sql` | none (a view) | accepted = rows + excluded + unexplained (not modelled, section 5) |
| Privacy lifecycle runtime | `ingest_worker/privacy_lifecycle_runtime.py` | none (packet to report) | retention candidates, anonymisation checks, purge and cleanup lists, audit receipts |
| Privacy request sensor | `dagster_project/definitions.py:1630-1678` | the JSONL inbox, Dagster's run keys | read the whole inbox each tick, one run request per supported line; two jobs whose assets read the packet one by one |
| ClickHouse candidate | `ingest_worker/clickhouse_candidate_smoke.py`, `scripts/run_clickhouse_candidate_smoke.sh` | candidate event and aggregate tables, report files, the owners' manifest | read landing rows, truncate, insert, aggregate, compare, promotion gate |
| Required-analytics and iOS canary capture | `required_analytics_capture.py`, `ios_limited_canary_capture.py` | two evidence files | check the inputs, read landing rows, count DLQ rows, judge, write the files, exit code |
| Dagster job launcher | `scripts/launch_dagster_job.sh` | a Dagster run | launch, poll until terminal, unreadable or deadline; exit code |
| dbt models, Dagster asset declarations, smoke drivers, deployment | `dbt/models`, `dagster_project/definitions.py`, `smoke_*.py`, `docker-compose.yml` | none of their own | stateless SELECTs, metadata, fixed test data, configuration |

**How they interact.** The worker is the only writer of
`analytics.raw_event_landing` and `raw_event_dlq`; the views, the Soda
contracts, the capture programs and the ClickHouse reload read those tables
while it writes. They rely on landing rows that never change (`Land` of `IngestContract`).
The quality gate reads the marts through Soda and writes its own tables. Two jobs
hold its asset (`product_reporting_phase3_pl_job`, daily at 06:35, and
`product_reporting_phase5_quality_job`, daily at 06:45, weekly and monthly), people
launch them by hand, and nothing limits concurrent runs, so several gates can
persist at the same time; they meet at PostgreSQL's table locks. The launcher
script turns one of these runs into an exit code. The sensor turns inbox lines into
runs of the lifecycle job, whose assets each read the packet file for themselves while
its owners may replace it. The capture programs judge, from two queries at two times,
what the worker made of a run of events that may still be going on.

**What is hard.** Three places keep the worker's state and fail apart: the
broker, PostgreSQL and the process. One record passes through four systems in
four steps (transaction, DLQ message, offset commit, acknowledgement of the
message) and the process can end between any two; offsets are committed per
record, but for the whole polled batch; nothing restarts the worker and no
handler catches SIGTERM. The worker joins a consumer group whose name has a
default, so that any second process works beside the first: a slow one is expelled without
being told, and PostgreSQL takes its writes all the same. The audit transactions of the quality gate begin with
DDL whose locks conflict with the inserts of every other one, so that concurrent
gates deadlock. A reload of the ClickHouse candidate is seven queries without a
transaction, by a client that may be gone while the server still carries one out,
and any number of reloads may overlap. The sensor
reads a file that is written meanwhile, from its first line on every tick, with
nothing but Dagster's run keys between a request and a second run; the captures
write two files over those of an earlier run and can be killed between them.
`PROJECT.json` lists each hazard
at its line.

**What makes the components correct.**

- Ingest: an offset is committed only for records that left a trace; an event
  lands once and its row never changes; DLQ table, DLQ topic, checkpoint and
  metrics agree; every record is stored in the end; the worker never hangs. A group of workers
  keeps the same contract, expelled members included.
- Quality gate: passed only if every contract passed with its exact number of
  checks; a failure leaves one failed row with one open finding.
- Launcher: exit code 0 stands for a complete record of the launched run.
- Captures: evidence that says passed accounts for the run's events; later rejections
  do not overturn it, but for one already under way; the files are those of the last run.
- Privacy lifecycle: what fails a check is never published, what is due is purged
  and nothing else, every purge has its receipt; the assets of a run tell of one packet.
- Sensor: every supported request gets exactly one run, its line permitting.
- ClickHouse: a reload that nobody overlaps rebuilds both tables and fails its comparison
  only for an event that comes back as another; the promotion gate opens for complete
  manifests only (it does not: `schemaVersion`).

## 2. Modules

| Module | What it is |
|---|---|
| `IngestContract` | abstract specification: what readers of the warehouse are promised. No process, no broker protocol: `Land`, `Reject`, `Acknowledge`, and `Drop`, the end of a process that has acknowledged up to `MaxDrop` records it still owes. `MaxDrop = 0` is the promise as `docs/contracts/event-streams.md` has it; the code keeps it with `MaxDrop = MaxPollRecords - 1`. |
| `IngestWorker` | the worker in detail: one action per step of `main()`. |
| `MCIngestWorker` | adds the symmetry sets for TLC. |
| `IngestWorkerProofs` | the inductive invariant, the type theorem and the bound on losses. |
| `IngestContractProofs` | for any batch size the refinement of `IngestContract`, and what the tables and the DLQ topic say of each other; for one record per poll that nothing is lost, the checkpoint and the earliest copy. |
| `IngestGroup` | several workers of one consumer group, rebalances, workers that go on after they were expelled. Refines `IngestContract`, too. |
| `MCIngestGroup` | a small topic for it. |
| `IngestGroupProofs` | its inductive invariant, the bound on what rebalances and faults cost, the refinement, for any number of workers and any batch size. |
| `EventValidation` | `validate_event`: the ordered checks over classes of fields, keys and values. |
| `QualityAudit` | abstract specification: what a reader of the audit tables is promised. No transactions, no locks: `Record`, `Pass`, `Fail`. |
| `QualityGate` | concurrent gates in detail: one action per statement of the audit transaction, with PostgreSQL's table locks. |
| `JobLauncher` | `QualityGate` with the script that has launched one of the gates and turns it into an exit code. |
| `MCQualityGate`, `MCJobLauncher` | the contracts of the runs. |
| `QualityGateProofs` | the inductive invariant, its invariants, the refinement of `QualityAudit`, the launcher's exit code, and why gates cannot wait or work for ever. |
| `ClickHouseCandidate` | overlapping reloads in detail: one action per query, with what the server does for clients that are gone. |
| `MCClickHouseCandidate` | three events in two aggregate rows: one that both databases count alike, one they do not, one whose name takes the answer apart. |
| `CandidateProofs` | its inductive invariant, its invariants and the bound on the work of a run. |
| `PromotionGate` | the gate as operators over a manifest, and owners who edit it. |
| `MCPromotionGate` | the symmetry of the evidence. |
| `PromotionGateProofs` | what opens it and what it says when it does not, for any set of evidence and owners. |
| `WarehouseDsn` | a DSN, and how much of it the capture programs see. |
| `RequiredAnalytics`, `IosCanary` | the rules of the two capture programs as operators over their environment and rows. |
| `EvidenceCapture` | the control flow of both, beside the events, the worker and time. Uses the three modules above and `EventValidation`. |
| `MCEvidenceCapture` | the environments and runs of events for TLC. |
| `EvidenceCaptureProofs` | its inductive invariant and all its properties. |
| `PrivacyLifecycle` | the lifecycle report as operators over a packet. |
| `PrivacyRequests` | inbox, sensor, schedules and the runs whose assets read the packet. |
| `MCPrivacyRequests` | the packets and inboxes for TLC. |
| `PrivacyProofs` | its inductive invariant and its safety properties. |

The modules in detail also hold the mutants of their definitions (marked as such):
plausible bugs, each of which breaks the property it stands for.

### The worker's state and the code

| Variable | Code |
|---|---|
| `log` | `emsi.analytics.events.v1`; arbitrary and fixed. A poll may return any part of what is left, which covers records that arrive later. |
| `committed` | offsets of the consumer group in the broker |
| `dlqTopic` | `emsi.analytics.events.dlq.v1` |
| `landing`, `dlq` | `raw_event_landing` (event id to source location), `raw_event_dlq` (rows in `dlq_id` order) |
| `checkpoint`, `metrics` | `event_ingest_checkpoints.last_offset`, the one row of `event_ingest_metrics` (the lag is left out) |
| `pc` | `poll` (line 184), `handle` (195), `publish` (283), `commit` (196), `closing` (200), `down` |
| `position`, `batch`, `at`, `processed` | the consumer's positions, the rest of `records`, `message`, `processed` |
| `outbox` | messages in the DLQ producer's buffer |
| `faults` | bound on what the environment does wrong |

| Action | Code |
|---|---|
| `Start` | `main()` to line 181: connect, schema, join the group at the committed offsets, or at the earliest one |
| `Poll`, `PollNothing`, `IdleStop` | lines 184-191; `poll()` moves the positions past everything it returns |
| `Handle` | `process_message` through the end of its transaction: `RecordLanding` or `RecordDlq`, both with `Upserts` |
| `HandleRefused` | the transaction rolls back, or `validate_event` raises another exception; the exception leaves `main()` |
| `PublishDlqMetadata` | lines 283-292: `send()` buffers |
| `CommitOffsets` | lines 196-199, with the return at `INGEST_MAX_MESSAGES` |
| `Raise` | any other call raises; nothing of the step in hand is kept |
| `Close`, `CloseTimeout` | lines 200-204; `flush(timeout=10)` succeeds or raises |
| `Kill` | the process ends at any point. `docker compose restart` does this too: no SIGTERM handler is installed, so `finally` does not run. |
| `Deliver`, `Expire` | the producer's sender thread: the broker acknowledges, or the message is given up |

A record has a *kind*: `valid` (accepted), `invalid` (rejected with a
`ValidationError`), `empty` (rejected, but its DLQ row is refused by
`CHECK (raw_record_bytes > 0)`), `unstorable` (accepted but outside a column's
type, or `validate_event` itself raises something else). Contents, hashes, error
codes and lags are left out: no property depends on them.

Modelled as external, from the way the worker uses it: kafka-python 3.0.2's
`poll()` (positions move past the whole result), `commit()` without arguments
(commits the positions) and producer buffer; PostgreSQL transactions (a `with
conn:` block happens or does not).

### The group's state and the code

`IngestGroup` has the worker's variables per worker (`pc`, `assigned`, `position`,
`batch`, `at`), the tables once, and in the broker `members`, the workers of the
current generation. `last` is `last_processed_*` of the metrics row, which every
worker overwrites; `checkpoint` is kept from going back by `GREATEST`.

| Action | Code |
|---|---|
| `Start` | `main()` up to its first `poll()`, which asks to join |
| `Rebalance` | external, the coordinator: it waits until all members are in `poll()`, expels the rest, and hands out the partitions; positions are set to the committed offsets |
| `Expel` | external: session or poll interval run out; the worker is not told |
| `Poll`, `PollNothing`, `Handle` | as in `IngestWorker`, per worker. A fetch names no group, so that an expelled worker reads on; PostgreSQL does not know who is a member |
| `Commit`, `CommitRefused` | line 196: a commit of an older generation raises `CommitFailedError`, which nothing catches before `main()` ends |
| `Stop` | any other end: an exception, a signal, a limit |

Left out here, because `IngestWorker` has them: the DLQ topic, refused records, the
counters and what makes one worker stop.

### The quality gate's state and the code

| Variable | Code |
|---|---|
| `runs`, `findings` | committed rows of `ops.data_quality_runs` (status by run id and contract) and of `ops.data_quality_findings` |
| `held` | table locks of the open transactions |
| `waiting`, `ahead` | the gates whose lock request is queued, and who is before whom in the queue of its table |
| `pc` | what the gate does next: `verify` (definitions.py:1066), the four statements of `persist_quality_run_result`, `commit` (end of `with connect()`), or how it ended |
| `contract`, `verdict`, `observed` | `contract_path`, the `status` to be persisted, `observed_check_counts` |
| `faults` | bound on what the environment does wrong |

| Action | Code |
|---|---|
| `Verify` | one turn of the loop up to the call of `persist_quality_run_result`: the soda command, `assert_soda_contract_gate`, and the handler's choice of the status |
| `Finish` | lines 1106-1126: the total is compared again |
| `RunsDdl`, `FindingsDdl` | `ensure_quality_tables`: `CREATE INDEX IF NOT EXISTS` takes SHARE on the existing table before it looks for the index |
| `UpsertRun`, `UpsertFinding` | `write_quality_run_result`: ROW EXCLUSIVE |
| `Commit` | end of `with connect()`, then the next contract or the `raise` of the handler |
| `CommitUnanswered` | the commit takes effect and its answer is lost |
| `Wait` | external: a request that is not granted joins the queue of its table, at the end or before the first one that waits for a lock of the same transaction |
| `DeadlockVictim` | PostgreSQL ends one of two transactions that hold what the other asks for |
| `Interrupt` | any other failure in a verification or transaction: connection, server, contract file, termination of the run |

An output of soda is its exit code, whether a check was not evaluated, and the
count that `observed_soda_check_count` reads from it (or none); the regular
expressions are left out. Nothing reads back the rows, and the ids of a row
contain the run id and the contract, so that gates never write the same row.
External: PostgreSQL's lock modes, their conflicts, its wait queues and its deadlock
detection. A request is `Blocked` by a lock that is held against it (`Holds`) and by a
conflicting request before it in the queue (`Precedes`): a gate that asks for SHARE, which
every holder would let it have, waits behind one that waits for ROW EXCLUSIVE. The
tables exist before the first gate runs
(`sql/analytics-postgres-init/020_ops_data_quality.sql`).

`JobLauncher` adds one variable, `launcher`: polling, or the exit it has taken. `Shown`
is external: what Dagster may answer about the run, which is `SUCCESS` only after the
gate passed, `FAILURE` or `CANCELED` only after it ended, and `CANCELING` at any time,
because anybody may terminate the run. `Probe` is one turn of the loop with a terminal
status (`ExitOf`: lines 88-89), `GiveUp` every other exit: the deadline, an answer that
is no run, one that cannot be read. A probe that does not reach Dagster changes
nothing. The exit code 1 says nothing about the run, which may go on and pass, while a
second launch starts another gate beside it: the two other gates of the run.

### The ClickHouse candidate's state and the code

| Variable | Code |
|---|---|
| `landing` | `raw_event_landing` in the order of `landed_at` |
| `events`, `counts` | the two candidate tables. Each row carries the run that inserted it: the tables have no key, so that a row inserted twice is there twice; `sum(event_count)` adds up what several runs aggregated |
| `late` | queries the server still carries out for a program that has ended |
| `pc` | the next query or step of a run, or how it ended |
| `rows`, `expected`, `tries` | `rows`, `postgres_aggregate` and `attempt` of the program |
| `json`, `md` | which run wrote the report files |
| `last`, `alone` | history: the run that was started last, and those that no other has overlapped |

| Action | Code |
|---|---|
| `Land` | the worker's `record_landing` |
| `Start` | the script: `--force-recreate clickhouse` ends every query and keeps the volume; then the program |
| `ReadRows` | `read_landing_rows`, and the return if it is empty |
| `Write` | one query of `ensure_clickhouse_schema` (one step for its three, none of which changes anything) or `load_clickhouse_candidate`; what it does is `Effect` |
| `PgAggregate`, `ChAggregate` | the two aggregates; the second also compares |
| `WriteJson`, `WriteMarkdown` | `write_promotion_gate_reports` |
| `Unreachable` | `URLError` in `query_clickhouse`: another attempt, or the end |
| `Unanswered` | the request was sent and `urlopen` or `read` raises `TimeoutError` or `ConnectionError`: neither is a `URLError` at that point, so that nothing retries it or catches it |
| `LateEffect`, `LateEnd` | the server finishes such a query, or gives it up |
| `Stop` | every other end: an HTTP error, a database error, an unreadable manifest, a report that cannot be written, a signal |

An event is its id; hour, name and privacy class are the aggregate row it counts in:
`CellOf` in PostgreSQL, `CellBack` as the program reads it from ClickHouse. The two are
arbitrary, because they do differ: `event_hour` is a `DateTime`, 1970 to 2106, while the
worker lands any year; `FORMAT TabSeparated` escapes a backslash, a quote, a tab and a
newline in an event name, which may be any text that is not blank, and the program
does not undo it; and `str.splitlines()` breaks a line at U+2028, which is not escaped,
so that the line cannot be taken apart (`Unreadable`, an exception). Times are cut to
milliseconds on the way, which never crosses an hour. External: the ClickHouse server, whose queries take
effect as a whole. It splits an insert by month; a failure between two months is
left out. So is the script before line 18, which is the worker's smoke run.

`PromotionGate` tells apart what the code tells apart in a value of the manifest:
absent, a safe evidence id, another text, anything else; for a flag absent, true,
false, anything else.

### The captures' state and the code

| Variable | Code |
|---|---|
| `input` | arguments and environment of all runs, with the events there will be |
| `clock` | before the window, in it, in the five minutes after its end, later |
| `occurred`, `handled` | when each event happened, and when the worker began the transaction that lands or rejects it (`Verdict` of `EventValidation`); `created_at` of a DLQ row is `DEFAULT now()`, the time the transaction began |
| `stored` | how many of these transactions are committed; the rows of the others nobody sees |
| `pc`, `rows`, `evidence` | where `main()` is, the landing rows it read, the evidence it composed |
| `json`, `markdown`, `exit` | the two files (the canary writes one) and the exit code of the last run |

| Action | Code |
|---|---|
| `Occur`, `Tick` | the seeded client, time |
| `Begin`, `Commit`, `Rollback` | the transaction of `record_landing` or `record_dlq`, which may wait for the rows of the checkpoint and the metrics before it commits; one that fails is begun anew when the worker is started again |
| `Start` | `collect_evidence` up to the warehouse: access errors, capture errors, preflight warnings |
| `ReadLanding`, `CountDlq` | the two queries of `read_required_rows` and `read_canary_rows`, two statements at READ COMMITTED; the second one also judges (`SuccessCriteria`) |
| `WarehouseError` | the connection or a query fails |
| `WriteJson`, `WriteMarkdown`, `Kill` | the files, one after the other, each emptied before it is filled. `Kill` is every end before that: a kill, or an exception that nothing catches (`urlparse` on a bracket in a password, a file that cannot be written), with exit code 1; `FilesAreOfLastRun` says nothing after either |

Texts are classes: a reference is absent, malformed, a placeholder or in order; a DSN
is its form, the hosts in its authority and in its `host` parameter or keyword (one, both
or neither), `hostaddr`, `sslmode` and what its secret looks like. `Hostname`, `Hostaddr`
and `Marked` of `WarehouseDsn` are what the programs see of it. What the model makes
visible and no property forbids:

- required analytics does not see the host of a DSN in keyword form or in a `host`
  parameter, nor that libpq takes the parameter before the authority and the local socket
  when there is neither, nor `127.0.0.2`: it takes such a warehouse for an external one.
  `src/README.md:295` and `:365` say local/dev markers are rejected. The canary looks for
  its markers anywhere in the text, but accepts `postgres`, the compose service, in the
  authority of a URI with `sslmode=require`, and no host at all. A property that says so and holds
  would only list what the programs look for, so there is none; the hazard is listed.
- the canary's preflight does not warn of missing artifacts, and takes checks that
  failed for configured ones until it judges; `PreflightWarns` is about required
  analytics only.
- nothing makes a capture wait for the end of its window or for the worker:
  `PassedAccounts` is about what was stored when it looked. `LateCountsStand` says from
  when on a capture is final: after the grace time, but for the one event whose
  transaction began in time and was still open.

### The privacy jobs' state and the code

`PrivacyLifecycle` is `build_runtime_report` as operators over a packet:
`ValidPacket` (`validate_source_binding` and `load_records`), `Candidates`, `Passes`, `Published`,
`Cleanups`, `Purged`, `Receipts`, and `RuntimeInvariants` (`assert_runtime_invariants`).

| Variable | Code |
|---|---|
| `script` | what is still to come from outside: lines, packets, scheduled runs |
| `inbox`, `packet` | the JSONL inbox and the packet file; a line or a packet may be half written, a line also up to the middle of a character (`torn`) |
| `runs` | Dagster's runs: job, run key, and what each asset has read |
| `replaced`, `edits` | how often the packet was written, how many lines were removed |

| Action | Code |
|---|---|
| `BeginLine`, `EndLine`, `RemoveLine`, `BeginPacket`, `EndPacket` | applications and owners, who write while sensor and assets read |
| `Tick` | `privacy_request_sensor`: every line from the first on, one run request per supported one; Dagster (external) starts one run per key, ever. A tick that raises starts none (`Poisoned`): only `JSONDecodeError` is caught, not the exceptions for JSON that is no object or nested too deep, for an integer too long, or for bytes that are not UTF-8 |
| `Schedule` | the hourly, daily and monthly schedules of the two jobs; the group `privacy_quality` is in both |
| `Materialize` | one of the three assets that build the report; each takes the path from the environment and parses the file |

Facts of the code the properties are worded around: a purge is only reported; a record
with the action `delete` is neither a candidate nor purged without a request;
`kvkk_deletion_request` is a type the sensor accepts and a packet may not hold; the key
of a request without an id is the one the id `line-N` gives, so that the two can take each
other's run (`TakenBy`); the
sensor has no `default_status`, so that it is off until somebody turns it on; a run does
not depend on the request it is for, and the key of a run that failed is spent.

## 3. Runs

| Run | Instance | What it shows |
|---|---|---|
| `ingest_single` | 2 partitions of up to 2 records, 1 event id, `MaxPollRecords = 1`, `MaxMessages = 2`, 2 faults, `OperatedSpec` | `ImplementsContract`, `NoCommittedLoss`, `CheckpointTracksCommit`, `EarliestCopyLands`: with one record per poll the worker keeps its contract through two faults, any number of clean stops and restarts. `AllRecorded`: everything is stored in the end if PostgreSQL refuses no record. `DrainsOrStops`: no spinning, no hanging |
| `ingest_batch` | 2 partitions of up to 2 records, 2 event ids, `MaxPollRecords = 3`, idle stop, 1 fault | `ImplementsContract`: with batches the worker keeps the contract but for what a stop may drop; `LossPerStop`, `CheckpointRecorded`, `MetricsMatchTables`, `DlqTopicBacked`, `MetricsLastIsCheckpoint`: what holds for batches of several partitions |
| `ingest_group` | 2 workers, 2 partitions with up to 3 records together, 1 event id, `MaxPollRecords = 2`, 2 faults, `Fairness` | `ImplementsContract`: a group keeps the contract of the single worker, whichever workers write; `LossBounded`: an expulsion or an end costs less than one batch, a rebalance nothing; `CheckpointCovers`: no worker moves a checkpoint back, above the committed offset, or away from a stored record; `OnlyExpelledGoBack`: the metrics row goes back only by the hand of an expelled worker; `AllButLost`: through rebalances and refused commits everything else is stored in the end |
| `ingest_loss` (violation) | 1 partition, `MaxPollRecords = 2` | `NothingLost` fails: poll two records, store and commit the first (the commit covers both), stop, restart after the second |
| `ingest_poison` (violation) | 1 partition, no faults, `OperatedSpec` | `InvalidEventsRecorded` fails: an empty value stops the worker on every restart |
| `ingest_dlq_topic` (violation) | 1 partition, 1 fault | `InvalidEventsPublished` fails: the message expires after its row and offset are committed |
| `quality_gates` | 3 gates, one of them launched by hand, 2 contracts with different counts, 2 faults, `LauncherFairSpec` | `WriterAlone`, `PassedIsComplete`, `ImplementsAudit`: under deadlocks and faults the audit tables are as `QualityAudit` says, and a deadlock never comes between a row and its finding; `WaitsEnd`: a line of waiting gates is two steps long at most and ends at one that goes on or at a pair that holds what the other asks for; `ExitZeroIsRecorded`: exit code 0 of the launcher stands for a complete record; `GatesEnd`: gates that wait for each other still end |
| `quality_finding` (violation) | 2 gates, no fault | `FailedContractHasFinding` fails: both take SHARE, both wait to insert, the victim's failed contract leaves nothing behind |
| `candidate_runs` | 2 runs, 3 events in 2 aggregate rows, a window of 1 row, 2 attempts, 2 faults, `FairSpec` | `PassedIsRebuilt`, `NoFalseMismatch`: a reload that nobody overlaps rebuilds both tables, whatever earlier ones left behind, and reports a mismatch only if one of its own rows comes back from ClickHouse as another; `RunsEnd`: every reload ends, also if ClickHouse stays away |
| `promotion_gate` (violation) | manifests with 2 kinds of evidence and 1 owner | `ReadyIffComplete` fails: with all evidence, the approval and both flags the gate says ready, and there is no `schemaVersion` |
| `capture` | 778 environments and runs of up to 5 events, up to 2 program runs, 1 fault | `PassedAccounts`, `FilesAreOfLastRun`, `LateCountsStand`, `PreflightWarns`: what evidence says is true of the run it was taken from, whenever it is taken and wherever the program stops; `WorkerAndCaptureAgree`: the two copies of the rules for fields differ in four places |
| `privacy` | 1177 packets, 81 inboxes of up to 3 lines, a packet replaced up to 2 times, 1 line removed, `FairSpec` | `OneRunPerRequest`, `RequestsServed`: a request has one run, its line permitting; `PublishedIsAnonymous`, `PurgeIsDue`: what reports publish and purge; `AssetsAgree`: assets of one run tell of one packet unless it was replaced meanwhile |

**Bounds.** Two partitions and two records each are the least at which a poll
can return a batch across partitions, a batch can be half done, an event id can
be duplicated inside and across partitions, and a record can be redelivered
while another is behind it. `MaxPollRecords = 3` leaves a batch with two records
after its first commit, so that the bound of `LossPerStop` is met exactly. One
fault is enough for every single failure point; the run with `MaxPollRecords = 1`
has two, so that a failure can meet the recovery from another one, and a single event
id, whose copies meet in one partition and across both. Clean stops
(message limit, idle timeout) and refused records are not counted as faults.
`CHECK_DEADLOCK` is on in every ingest run: `Start` and `PollNothing` are always
there to be taken.

Two workers are the least at which a partition changes hands while its earlier owner is
still at work on it, and three records let it be one record behind in one partition
while the other moves on; two expulsions or stops let the worker that took over be
expelled in turn. Batches of two are the least at which a commit passes a record that is
still in hand, so that an expulsion can cost one. More workers and larger batches are
left to the proof.

Three gates are the least at which a third one takes its locks while two others
wait for each other; two contracts are enough for a gate to fail before, at or
after a row it has written, and their counts differ so that the wrong one is told
apart. Deadlock victims are not counted as faults. A gate ends and nothing starts
another one, so these runs switch `CHECK_DEADLOCK` off; `GatesEnd` shows that no
gate stops short of its end.

Two reloads are the least at which one finds what another left behind, in the tables
or, as a late query, in the server; that a third one clears up after two that
overlapped is left to the proof, which is for any number. A window of one row over
two events lets a row leave the window between the two reads of PostgreSQL, and
gives the earlier run other rows than the current one; a third event is the one that
cannot be read. Two attempts, one that is tried again and the last, stand for the 20 of
`query_clickhouse`. Reloads end and
no further one is started, so `CHECK_DEADLOCK` is off there too. Two reloads that
overlap may both pass over tables with the rows of each: nothing in the repository says they may not, and the properties are about
runs that nobody overlaps. The promotion gate's keys are alike, and one step short of a
complete manifest needs no more of them.

The environments of `capture` are one in order with one thing wrong with it, for
everything the programs look at, and every host and `hostaddr` in every form of a DSN with
the tunnels and classes of evidence that let it through.
Its runs of events have an odd event beside or without those asked for; checks are made event by event, so that one
odd event shows what several would; one pair of rejected events tells the one whose
transaction is open from those that are rejected later. Two runs of the program are the least at which one
leaves files to the other. The packets of `privacy` are one in order with any one
further record, or with one record or one part of the binding wrong or gone; the inboxes
hold two lines of every class, and three of those that interact (requests with and
without an id or with the id `line-2`, repeated ones, removed ones). Both systems may simply stop, so these runs
switch `CHECK_DEADLOCK` off.

**Symmetry.** Partitions and event ids are never told apart by the worker, nor the
keys of the evidence by the promotion gate: `ingest_batch` and `promotion_gate`
use their permutations. Runs with a liveness property use none.

**Fairness.** `FairSpec` has weak fairness of the worker's own steps together
and of the sender thread: a process that is scheduled takes its next step, and a
consumer that polls gets what the broker holds. `Poll` is part of it, `PollNothing`
is not: an empty poll with records left does not go on for ever. `Start` is not
part of it (`docker-compose.yml` sets no restart policy), so under `FairSpec` a
worker that stops stays down. `OperatedSpec` adds `WF(Start)`: somebody runs it
again, as `scripts/run_ingest_smoke.sh` does. The gate's `FairSpec` has weak
fairness of each gate's own steps: its process is scheduled, PostgreSQL grants a
free lock and resolves a deadlock, and the soda command ends. The code sets no
timeout for it (`subprocess.run` in `run_command`): a command that hangs keeps its
gate, but no lock, for ever. The reload's has weak fairness of each program's own
steps (its process is scheduled, and every request has a timeout), and none of the
server's: ClickHouse may refuse every connection.

The group's has weak fairness of each worker's own steps and of `Start`, and strong
fairness of `Rebalance`: a member that polls learns of a rebalance from its next
heartbeat and joins, so that the moments at which all are in `poll()` are not missed
for ever. `PollNothing` is not fair, and expulsions are bounded. The privacy jobs' has
weak fairness of `EndLine` (a writer ends the line it began) and of `Tick` (the daemon
ticks, once the sensor is turned on); nothing else has to happen. The launcher's run
takes over the gates' fairness and adds none: the gates do not need the launcher.

**One record per poll.** `NoCommittedLoss`, `CheckpointTracksCommit`, `EarliestCopyLands` and
`AllRecorded` of `ingest_single` hold for `INGEST_MAX_POLL_RECORDS=1`. The default is 50, and
there the code does lose records: `ingest_loss` is the shortest example, `LossPerStop` the exact
extent (at most the rest of one batch per stop, never in a step that goes on), `LossBounded` the
same for a group, and `ImplementsContract` with its `MaxDrop` what is left of the promise.

## 4. Proofs

The proofs hold for every value of the constants the modules' assumptions allow:
every finite set of partitions, event ids and workers, every topic, any number of gates,
contracts and reloads, any packets, inboxes and environments, and every bound. TLC
evaluates these assumptions for the instances of the runs.

| Module | Theorem | Statement | Assumptions |
|---|---|---|---|
| `IngestWorkerProofs` | `TypeCorrect` | `Spec => []TypeOK` | `ConstantsAssumption`, `NoneAssumption`; any batch size |
| | `InductiveInvariant` | `Spec => []IInv` | the same |
| | `LossBounded` | `Spec => LossPerStop` | the same |
| `IngestContractProofs` | `MetricsNameCheckpoint` | `Spec => []MetricsLastIsCheckpoint` | the same |
| | `MetricsCoverTables` | `Spec => []MetricsMatchTables` | the same |
| | `CheckpointNamesStored` | `Spec => []CheckpointRecorded` | the same |
| | `DlqTopicIsBacked` | `Spec => []DlqTopicBacked` | the same |
| | `WorkerImplementsContract` | `Spec => ImplementsContract` | the same |
| | `ContractKeepsAll` | `Init /\ ImplementsContract => []NoCommittedLoss` | and `MaxPollRecords = 1` |
| | `CommittedIsRecorded` | `Spec => []NoCommittedLoss` | and `MaxPollRecords = 1` |
| | `CheckpointTracks` | `Spec => []CheckpointTracksCommit` | and `MaxPollRecords = 1` |
| | `EarliestLands` | `Spec => []EarliestCopyLands` | and `MaxPollRecords = 1` |
| `IngestGroupProofs` | `TypeCorrect` | `Spec => []TypeOK` | `ConstantsAssumption`, `NoneAssumption`; any batch size |
| | `InductiveInvariant` | `Spec => []IInv` | the same |
| | `CheckpointsCover` | `Spec => []CheckpointCovers` | the same |
| | `ExpelledGoBack` | `Spec => OnlyExpelledGoBack` | the same |
| | `LossIsBounded` | `Spec => []LossBounded` | the same |
| | `GroupImplementsContract` | `Spec => ImplementsContract` | the same |
| | `OneRecordLosesNothing` | `Spec => [](Unfinished = {} /\ CheckpointTracksCommit)` | and `MaxPollRecords = 1` |
| `QualityGateProofs` | `InductiveInvariant` | `Spec => []IInv` | `ConstantsAssumption` |
| | `TypeCorrect` | `Spec => []TypeOK` | the same |
| | `WriterIsAlone` | `Spec => []WriterAlone` | the same |
| | `LinesAreShort` | `Spec => []WaitsEnd` | the same |
| | `StepsAdvance` | `Spec => [][Advances]_vars` | the same |
| | `PassedHasAllRows` | `Spec => []PassedIsComplete` | the same |
| | `GateImplementsAudit` | `Spec => ImplementsAudit` | the same |
| | `ExitZeroRecorded` | `LauncherSpec => []ExitZeroIsRecorded` | and `LaunchedAssumption` |
| `CandidateProofs` | `InductiveInvariant` | `Spec => []IInv` | `ConstantsAssumption` |
| | `TypeCorrect` | `Spec => []TypeOK` | the same |
| | `PassedRebuilds` | `Spec => []PassedIsRebuilt` | the same |
| | `MismatchHasCause` | `Spec => []NoFalseMismatch` | the same |
| | `WorkIsBounded` | `Spec => [][UsesUp]_vars` | the same |
| `PromotionGateProofs` | `ReadyOnlyIfSupplied` | `Spec => []ReadyIffSupplied` | none |
| | `BlockedHasCause` | `Spec => []BlockedIsExplained` | `Evidence # {}` |
| `EvidenceCaptureProofs` | `InductiveInvariant` | `Spec => []IInv` | `InputsTyped`, `FaultsBounded`, `NoneIsNothingElse` |
| | `TypeCorrect` | `Spec => []TypeOK` | the same |
| | `FilesAreOwn` | `Spec => []FilesAreOfLastRun` | the same |
| | `PassedAccountsForRun` | `Spec => []PassedAccounts` | the same |
| | `LateCountsAreFinal` | `Spec => LateCountsStand` | the same |
| | `PreflightHasWarned` | `Spec => PreflightWarns` | the same |
| | `AgreeButForFour` | `Spec => []WorkerAndCaptureAgree` | the same |
| `PrivacyProofs` | `InductiveInvariant` | `Spec => []IInv` | `LinesTyped`, `PacketsTyped`, `NoneIsNoKey`, `EditsBounded` |
| | `TypeCorrect` | `Spec => []TypeOK` | the same |
| | `AnonymousIsPublished` | `Spec => []PublishedIsAnonymous` | the same |
| | `DueIsPurged` | `Spec => []PurgeIsDue` | the same |
| | `AssetsTellOne` | `Spec => []AssetsAgree` | the same |
| | `RequestsRunOnce` | `Spec => []OneRunPerRequest` | the same |

The type invariants and the theorems of `PromotionGateProofs` are proved and in no run.

**The worker.** `LossPerStop` compares the committed offsets with the
records in memory, and neither says where the other is. `IInv` adds: positions
and committed offsets stay within the log; between batches the positions *are*
the committed offsets (`PollsFromCommitted`); whatever lies between the committed
offset and the position is still in the batch (`FetchedInBatch`); the record in
hand is recorded once its transaction is through (`HandledRecorded`); and a batch
part of which is committed has already lost its first record (`BatchSize`), which
is where the `- 1` in the bound comes from. A lost record can then only be one
that left the batch in this step without a trace, and the batch loses several
records only when it is abandoned.

**The tables.** `MetricsLastIsCheckpoint` compares a row that is overwritten with
one that only grows, so it needs that no record is handled below the checkpoint.
`CInv` supplies it: the checkpoint is never above the committed offset, the
batch in hand never below the checkpoint, and the record whose turn it is is at
most at the committed offset (`TurnAtCommitted`: otherwise the record *at* that
offset would be in the batch, by `FetchedInBatch`, and its turn would be earlier).
The existing rows never change (`TablesGrow`), which carries `CheckpointRecorded`
and `DlqTopicBacked` through all the steps that are not about them.
`MetricsMatchTables` counts: a transaction adds one to a counter and one row to its
table, or none to either (`AddOne`).

**The contract, with batches.** A commit acknowledges the records of the batch that are
still to come. `Owed` is what the worker then owes the contract: the committed records of its
batch without a row. Every record a commit passes is in the batch (`FetchedInBatch`),
the one in hand has its row (`HandledRecorded`), so that less than a batch is
owed, and the step is the contract's `Acknowledge`. `Handle` is `Land` (first of its event
id), `Reject` or a stutter (a duplicate), and settles what it stores; every end of the
worker is `Drop`; every other action leaves the contract's variables alone.

**One record at a time.** With `MaxPollRecords = 1` nothing is ever owed, and
`ContractKeepsAll` shows that the contract alone then implies that every committed record has
its row. `NoCommittedLoss` follows from it and the refinement, without another look at
the worker. `CheckpointClose` is what `CheckpointTracksCommit` needs beside `CInv`: the checkpoint
is at most one behind the committed offset, and names the record in hand once its
transaction is through (a batch is then that record, `BatchOfOne`). No copy is passed
over, so that the first to be stored is the earliest of its partition (`EarliestCopyLands`).

**The group.** A worker that was expelled still writes, and the tables do not ask
who it is; so the invariant speaks of all workers, and says more of members.
Whatever a worker, expelled or not, has read beyond the committed offset of a partition
is in its batch (`ReadOn`); otherwise a commit could pass records nobody has in hand.
A member is nowhere behind its committed offsets, and nothing of a full batch is committed yet
(`Knows`): that is where the `- 1` comes from. Two members never share a
partition (`OneOwner`), so that a commit of one changes nothing the other relies on.
For the metrics row this is not enough: a member that handles the older of its records
would write a smaller offset if an expelled worker had written beyond it. `NotBeyond` and
`LastNotBeyond` say that it has not: an expelled worker stopped reading at the committed
offset of its time, or holds an earlier record of that partition, which it writes first.
If the row goes back, the worker that wrote it was expelled (`OnlyExpelledGoBack`).

The losses are counted by who holds what. `HandsStep` says what each step does to the
records in members' hands: more of them (`HandsGrow`), one batch less for one fault
(`HandsFall`), or the committed record less (`HandsCommit`). `Abandoned` records are committed,
not finished and in no hand. What is committed and finished stays so (`FinishedStays`),
what a commit passes is in hand (`PassedInHand`), so that the set grows only with
`HandsFall`, by what was at risk in one batch: less than the batch (`AtRisk`). That is
`LossBounded`; the same three facts make each step of the group one of the contract's. With one
record per poll the bound is 0, and `OneRecordLosesNothing` follows from it.

**The gate.** `WriterAlone` speaks of locks, and what a gate may do next depends on
where it stands, so `LocksHeld` ties the two together: the locks of a gate are those
of the statements behind it. Then `OneWriter` is inductive: a gate gets ROW
EXCLUSIVE on the first table only when no other gate is past its first DDL, and no
other gate gets past it until the first has ended. `RowsBehind` says the same of rows: a
passed one with its exact count for each contract before the one in turn, none from
there on unless the gate has ended. With `VerdictInHand` a commit is then the
abstract `Record` of the contract in turn, `Finish` is `Pass` or `Fail`, an abort is
`Fail`, and every statement before the commit is invisible. The launcher adds
`SuccessIsPassed`: a gate that has passed stays so, and `SUCCESS` is shown of no other.

`WaitsEnd` is about PostgreSQL's queue as well as its locks. Only the lock on the table of
audit rows is ever waited for, by a new transaction (SHARE) or by an upsert (ROW
EXCLUSIVE); whoever gets beyond it finds the table of findings free. `QueueOrder` adds how
such requests stand in the queue: a new transaction that is before an upsert has no
upsert before it. Then whatever waits behind a new transaction can count on it
(`NewcomerGoesOn`: the writer that would hold it up would be a second one beside the
transaction that waits), and an upsert waits only for holders that are no further than
itself (`UpsertBlocked`): one that is blocked asks for the same upsert, and each of the two
holds the SHARE lock the other waits for. A longer line would have a new transaction
behind an upsert behind a new transaction that waits, which `QueueOrder` excludes.

`GatesEnd` needs fairness and is left to TLC. Its well-founded part is proved,
`StepsAdvance`: each step, a fault or a deadlock
included, takes one gate forward in a well-founded order (`Remaining`: the statements left, two
steps for each, the first of them into the queue) and leaves the others where they are. Every fair gate has a step that is enabled or
waits for one that has, so that all end: TLC checks this last step for three gates.

**The reload.** `PassedIsRebuilt` is about the end of a run; `Progress` says how far
the tables are at each of its queries (the event table empty after the first
truncate, the aggregate after the second, then filled one after the other), for the
run *in charge*: the last one started, alone, at work or passed. `Undisturbed` is
why nobody else touches the tables meanwhile: no other run is at work, and no query
is left over in the server, because the start of the run ended them all and only its
own could become late, which ends it. The comparison can go wrong in two ways only: the
tables hold something else than the rows read, which `Progress` excludes, or one of these
rows comes back from ClickHouse in another cell than PostgreSQL counts it in. Without
such a row it succeeds, because the rows that were read stay landing rows (`RowsLanded`,
`Comparable`), and because counting the pairs of the aggregate table is counting the
rows, by a bijection between them (`Matching`). `CellOf` and `CellBack` are arbitrary, so
that the theorem holds whatever the server does to a cell. Of `RunsEnd` the safety part is proved: `Attempts` is what a run has left, and
each step of its program uses one up (`UsesUp`), because a query that was answered has
used less than `MaxTries` of them (`TriesLeft`).

**The promotion gate.** Every state is a manifest (`ManifestOK`). `ReadySupplied` compares
the program's condition with what is supplied: all evidence, all approvals, both flags
false, which is all the document asks for but the `schemaVersion`. `Unexplained` finds
the one kind of manifest that is blocked for no named cause: a `clickhouseProductionEnabled`
that is no boolean. If no evidence were required, an empty manifest would be another
(hence `Evidence # {}`; the code requires eight kinds). Both are about properties no
run checks: the run of this component shows what the document says and the program
does not do.

**The captures.** Evidence is written long after it was read, and stays. `Sound` says
what it must remain true of: the inputs and the first `stored` events, those whose
transactions were committed. It is kept because those events do not change and later
ones only add rows (`SelectedKept`, `CountedKept`, both from `Prefix`), and it holds of the
evidence in hand and of both files. `World` says that one transaction at most is open
beyond the stored ones, so that after the grace time every event but the one in that
transaction is stamped later than what is counted. `Later` says that a run reads no fewer
rows than the run before it. `LateCountsStand` follows by `CountedLate`: two late counts
are the same, or differ by the rows of that one event.

`WorkerAndCaptureAgree` is about operators, in every state: the worker's verdict is that of the
first check that fails, so that an accepted event fails none (`AcceptedFailsNone`). That there
is a first one is an induction over the position of the check. The library's induction
theorems cannot be used here, but its well-founded orders can: `LeastNumber` takes the
least element of a set of numbers from `NatLessThanWellFounded`.

**The privacy jobs.** That a report publishes only what passes and purges only what is due
are lemmas about the operators, for any packet (`ReportedIsAnonymous`, with the threshold
of each kind of record, and `ReportedPurgeIsDue`); the invariant adds that whatever an asset has told is of a packet
that could be reported on (`SoundReads`). For `AssetsAgree` it says more: what was
read since the last replacement is the packet there is. `OneRunPerRequest` needs the way
back from a key to a request: a key is that of a line of its request (`SoundKey`). Two
requests may share a key (an id can look like a line number), but then one of them
has no run, and a request with an id has one key. A request without an id has one key per
line it is in: the key of its run names that line as long as no line was removed
(`SoundPlace`), and it is in one line only (`OneLine`), with the line just being written,
half or whole (`OneBegun`).

TLC checks the same properties on the instances of section 3. The inductive invariants of the
detailed modules, `Advances` and `UsesUp` hold there too: this was checked with a module that
extends the MC module and the proofs, all but the sets of all keys and packets in `Types` and
`SoundKey` of `PrivacyProofs`, which are too large for TLC to enumerate, and for the captures
on the environments without the longer runs of events. Only model-checked are the
liveness properties `DrainsOrStops`, `AllRecorded`, `AllButLost`, `GatesEnd`, `RunsEnd` and
`RequestsServed`: fairness and ENABLED are outside the prover.

## 5. What is not modelled

Of the components of section 1:

- **Partition trust state** and **stage reconciliation**. `dbt_project.yml` materialises every
  model as a view, so that both are functions of one snapshot of
  `raw_event_landing` and of the clock, without a state and without an action. Source
  and target of an asset are computed from the same rows: the statuses for missing,
  partial and late targets cannot be reached, and `unexplained_delta` is 0
  by construction, since accepted and excluded rows are selected by a condition and its
  negation. What is left compares load times with the clock. Two things a reader should know
  are listed as hazards: an implausibly large `position` makes every feed view fail, and
  `complete_through` is a latest date, not the end of an unbroken period.
- **dbt models** that select, **Dagster's** asset declarations and scheduler, dashboards and
  reports (Superset, Grafana, Evidence), object storage, roles and credentials: declarations
  and other programs.
- **Smoke drivers**: fixed data, no state of their own. The contracts they test are those
  of the modules above.

Within the modelled components:

- Worker: the lag in the metrics row (computed before the record is stored and never
  read), hashes, error texts. The topic is never created again, and PostgreSQL never
  loses a committed transaction. In `IngestGroup` the coordinator is one step.
- Quality gate: the text of the soda output; contracts that pass one after the other over
  views that change in between, so that they never all held at one time: the views are not modelled.
- Launcher: the launch itself, and containers that fail before there is a run.
- ClickHouse: an insert that fails between two monthly parts; the schema script at
  the server's start.
- Captures: an event without a usable id belongs to no run of events, in the warehouse
  and in the model. Exceptions that nothing catches are one step with a kill, and end like it.
- Privacy: a failed run of the lifecycle job. Dagster spends the key whether or not the run
  succeeds, and nothing in the code asks again; `RequestsServed` promises the run, not its success. A
  `retentionDays` beyond what `timedelta` holds raises `OverflowError` and fails the asset; the
  model has no such packet.
