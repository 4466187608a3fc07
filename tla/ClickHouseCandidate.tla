------------------------- MODULE ClickHouseCandidate -------------------------
(***************************************************************************)
(* The ClickHouse candidate: runs of run_clickhouse_candidate_smoke.sh and *)
(* of the program it starts (ingest_worker/clickhouse_candidate_smoke.py), *)
(* which reload two ClickHouse tables from the newest landing rows and     *)
(* compare an hourly aggregate of both databases, while the ingest worker  *)
(* goes on landing rows.                                                   *)
(*                                                                         *)
(* A query that cannot be sent is sent again. A query whose answer does    *)
(* not come (a timeout, a lost connection) ends the program, but not the   *)
(* query: the server goes on with it, and it may take effect when another  *)
(* run is at work.                                                         *)
(***************************************************************************)
EXTENDS Integers, Sequences, FiniteSets

CONSTANTS
  Runs,       \* runs of the script
  EventIds,
  Cells,      \* event_hour, event_name and privacy_class of an aggregate row
  CellOf,     \* the aggregate row an event counts in, in PostgreSQL
  CellBack,   \* the one that the program reads for it from ClickHouse
  Limit,      \* CLICKHOUSE_EXPORT_LIMIT
  MaxTries,   \* the attempts of query_clickhouse (20 in the code)
  MaxFaults,  \* bound: faults of the environment in one behaviour
  None

ASSUME ConstantsAssumption ==
  /\ IsFiniteSet(EventIds)
  /\ CellOf \in [EventIds -> Cells]
  /\ CellBack \in [EventIds -> Cells \cup {None}]
  /\ Limit \in Nat \ {0}
  /\ MaxTries \in Nat \ {0}
  /\ MaxFaults \in Nat
  /\ None \notin Runs \cup Cells

VARIABLES
  landing,   \* PostgreSQL: raw_event_landing in the order of landed_at
  events,    \* ClickHouse: event table, as (inserting run, event id)
  counts,    \* ClickHouse: aggregate table, as (aggregating run, event row)
  late,      \* ClickHouse: queries whose client is gone, as (run, query)
  pc,        \* run: its next query or step
  rows,      \* run: the event ids it has read
  expected,  \* run: postgres_aggregate
  tries,     \* run: failed attempts of the query in hand
  json, md,  \* report files: the run that wrote them
  faults,    \* bound: how often the environment failed so far
  last,      \* history: the run that was started last
  alone      \* history: the runs that no other one has overlapped so far

vars == <<landing, events, counts, late, pc, rows, expected, tries, json, md, faults, last, alone>>

server  == <<events, counts, late>>
reports == <<json, md>>
history == <<last, alone>>

Ended == {"passed", "failed", "mismatch"}
Live(p) == pc[p] \notin Ended \cup {"idle"}

Init ==
  /\ landing = <<>> /\ events = {} /\ counts = {} /\ late = {}
  /\ pc = [p \in Runs |-> "idle"]
  /\ rows = [p \in Runs |-> {}]
  /\ expected = [p \in Runs |-> [c \in Cells |-> 0]]
  /\ tries = [p \in Runs |-> 0]
  /\ json = None /\ md = None
  /\ faults = 0
  /\ last = None /\ alone = Runs

Fault == faults < MaxFaults /\ faults' = faults + 1

Goto(p, label) == pc' = [pc EXCEPT ![p] = label]

-----------------------------------------------------------------------------
\* The ingest worker lands an event: once, and for ever.
Land(e) ==
  /\ \A i \in DOMAIN landing : landing[i] # e
  /\ landing' = Append(landing, e)
  /\ UNCHANGED <<server, pc, rows, expected, tries, reports, faults, history>>

\* Who overlaps whom (history).
Overlaps(p) ==
  LET others == {q \in Runs : Live(q)}
  IN  alone' = IF others = {} THEN alone ELSE alone \ (others \cup {p})

\* Mutant of Start: the server is left as it runs.
StartWarm(p) ==
  /\ pc[p] = "idle"
  /\ Goto(p, "read")
  /\ last' = p
  /\ Overlaps(p)
  /\ UNCHANGED <<landing, server, rows, expected, tries, reports, faults>>

\* The script recreates the ClickHouse container, which ends all that the
\* server is at, and keeps its volume; then it starts the program.
Start(p) ==
  /\ pc[p] = "idle"
  /\ late' = {}
  /\ Goto(p, "read")
  /\ last' = p
  /\ Overlaps(p)
  /\ UNCHANGED <<landing, events, counts, rows, expected, tries, reports, faults>>

\* The newest landing rows, at most Limit of them.
Newest == {landing[i] : i \in {j \in DOMAIN landing : j > Len(landing) - Limit}}

\* read_landing_rows, and the end if the table is empty.
ReadRows(p) ==
  /\ pc[p] = "read"
  /\ rows' = [rows EXCEPT ![p] = Newest]
  /\ Goto(p, IF Newest = {} THEN "failed" ELSE "schema")
  /\ UNCHANGED <<landing, server, expected, tries, reports, faults, history>>

-----------------------------------------------------------------------------
\* The writing queries in their order. The schema is there already.
After ==
  [schema          |-> "truncate_events",
   truncate_events |-> "truncate_counts",
   truncate_counts |-> "insert_events",
   insert_events   |-> "insert_counts",
   insert_counts   |-> "pg_aggregate"]

Writes == DOMAIN After
Queries == Writes \cup {"ch_aggregate"}

\* What the server does for a query of run p.
Effect(p, query) ==
  \/ query = "schema" /\ UNCHANGED <<events, counts>>
  \/ query = "truncate_events" /\ events' = {} /\ UNCHANGED counts
  \/ query = "truncate_counts" /\ counts' = {} /\ UNCHANGED events
  \/ query = "insert_events" /\ events' = events \cup ({p} \X rows[p]) /\ UNCHANGED counts
  \/ query = "insert_counts" /\ counts' = counts \cup ({p} \X events) /\ UNCHANGED events

\* ensure_clickhouse_schema and load_clickhouse_candidate, query by query.
Write(p) ==
  /\ pc[p] \in Writes
  /\ Effect(p, pc[p])
  /\ Goto(p, After[pc[p]])
  /\ tries' = [tries EXCEPT ![p] = 0]
  /\ UNCHANGED <<landing, late, rows, expected, reports, faults, history>>

\* The aggregate of a set of events, as PostgreSQL answers it.
CountEvents(S) == [c \in Cells |-> Cardinality({e \in S : CellOf[e] = c})]

\* The aggregate table, as the program reads it. The two sides differ in an hour
\* outside 1970 to 2106, which event_hour (DateTime) cannot hold, and in an
\* event name with a character that FORMAT TabSeparated escapes (a backslash, a
\* quote, a tab, a newline), which the program does not undo. Both lists are
\* sorted by bytes: PostgreSQL's image knows no other collation.
SumCounts(T) == [c \in Cells |-> Cardinality({x \in T : CellBack[x[2][2]] = c})]

\* A line break of str.splitlines() that is not escaped (U+2028) takes a line of
\* the answer apart: ValueError, which leaves main().
Unreadable(T) == \E x \in T : CellBack[x[2][2]] = None

Landed == {landing[i] : i \in DOMAIN landing}

\* Mutant of PgAggregate: the newest rows are asked for again.
PgAggregateNewest(p) ==
  /\ pc[p] = "pg_aggregate"
  /\ expected' = [expected EXCEPT ![p] = CountEvents(Newest)]
  /\ Goto(p, "ch_aggregate")
  /\ UNCHANGED <<landing, server, rows, tries, reports, faults, history>>

\* read_postgres_hourly_aggregate: the landing rows with the ids that were read.
PgAggregate(p) ==
  /\ pc[p] = "pg_aggregate"
  /\ expected' = [expected EXCEPT ![p] = CountEvents(rows[p] \cap Landed)]
  /\ Goto(p, "ch_aggregate")
  /\ UNCHANGED <<landing, server, rows, tries, reports, faults, history>>

\* read_clickhouse_hourly_aggregate, and the comparison.
ChAggregate(p) ==
  /\ pc[p] = "ch_aggregate"
  /\ Goto(p, IF Unreadable(counts) THEN "failed"
             ELSE IF SumCounts(counts) = expected[p] THEN "json" ELSE "mismatch")
  /\ tries' = [tries EXCEPT ![p] = 0]
  /\ UNCHANGED <<landing, server, rows, expected, reports, faults, history>>

WriteJson(p) ==
  /\ pc[p] = "json"
  /\ json' = p
  /\ Goto(p, "md")
  /\ UNCHANGED <<landing, server, rows, expected, tries, md, faults, history>>

WriteMarkdown(p) ==
  /\ pc[p] = "md"
  /\ md' = p
  /\ Goto(p, "passed")
  /\ UNCHANGED <<landing, server, rows, expected, tries, json, faults, history>>

\* Mutant of Unreachable: it is tried for ever.
UnreachableRetries(p) ==
  /\ pc[p] \in Queries
  /\ tries' = [tries EXCEPT ![p] = 1 - @]
  /\ UNCHANGED <<landing, server, pc, rows, expected, reports, faults, history>>

\* A query cannot be sent (URLError): query_clickhouse tries again, or gives up.
Unreachable(p) ==
  /\ pc[p] \in Queries
  /\ tries' = [tries EXCEPT ![p] = @ + 1]
  /\ IF tries[p] + 1 < MaxTries THEN UNCHANGED pc ELSE Goto(p, "failed")
  /\ UNCHANGED <<landing, server, rows, expected, reports, faults, history>>

-----------------------------------------------------------------------------
\* The answer to a query that was sent does not come. TimeoutError and
\* ConnectionError are no URLError here: they leave main().
Unanswered(p) ==
  /\ pc[p] \in Writes
  /\ Fault
  /\ late' = late \cup {<<p, pc[p]>>}
  /\ Goto(p, "failed")
  /\ UNCHANGED <<landing, events, counts, rows, expected, tries, reports, history>>

\* The server comes to the end of a query that nobody waits for,
LateEffect(p, query) ==
  /\ <<p, query>> \in late
  /\ Effect(p, query)
  /\ late' = late \ {<<p, query>>}
  /\ UNCHANGED <<landing, pc, rows, expected, tries, reports, faults, history>>

\* or gives it up.
LateEnd(p, query) ==
  /\ <<p, query>> \in late
  /\ late' = late \ {<<p, query>>}
  /\ UNCHANGED <<landing, events, counts, pc, rows, expected, tries, reports, faults, history>>

\* The program ends between two queries or with a query that was refused or
\* only reads: a database error, an unreadable manifest, a report that cannot
\* be written, or a signal.
Stop(p) ==
  /\ Live(p)
  /\ Fault
  /\ Goto(p, "failed")
  /\ UNCHANGED <<landing, server, rows, expected, tries, reports, history>>

-----------------------------------------------------------------------------
Program(p) ==
  \/ ReadRows(p)
  \/ Write(p)
  \/ PgAggregate(p)
  \/ ChAggregate(p)
  \/ WriteJson(p)
  \/ WriteMarkdown(p)
  \/ Unreachable(p)

Next ==
  \/ \E e \in EventIds : Land(e)
  \/ \E p \in Runs :
       \/ Start(p)
       \/ Program(p)
       \/ Unanswered(p)
       \/ Stop(p)
       \/ \E query \in Writes : LateEffect(p, query) \/ LateEnd(p, query)

Spec == Init /\ [][Next]_vars

\* A program that was started goes on; ClickHouse may stay away for ever.
FairSpec == Spec /\ \A p \in Runs : WF_vars(Program(p))

-----------------------------------------------------------------------------
\* The types of the variables; a query is late for a failed run only.
TypeOK ==
  /\ landing \in Seq(EventIds)
  /\ events \subseteq Runs \X EventIds
  /\ counts \subseteq Runs \X (Runs \X EventIds)
  /\ late \subseteq Runs \X Writes
  /\ pc \in [Runs -> {"idle", "read", "pg_aggregate", "json", "md"} \cup Queries \cup Ended]
  /\ rows \in [Runs -> SUBSET EventIds]
  /\ expected \in [Runs -> [Cells -> Nat]]
  /\ tries \in [Runs -> 0..MaxTries]
  /\ json \in Runs \cup {None} /\ md \in Runs \cup {None}
  /\ faults \in 0..MaxFaults
  /\ last \in Runs \cup {None}
  /\ alone \subseteq Runs

\* A run that passed and was overlapped by no other leaves what it reports,
\* until the next one starts: in the event table its rows, each of them once,
\* in the aggregate these and no other, and both report files its own;
\* whatever earlier runs left behind, in the tables or in the server.
PassedIsRebuilt ==
  \A p \in alone :
    pc[p] = "passed" /\ last = p =>
      /\ events = {p} \X rows[p]
      /\ counts = {p} \X events
      /\ json = p /\ md = p

\* The comparison fails for one reason only, a row of the run whose hour or name
\* comes back from ClickHouse as another: not because rows were landed between
\* the two reads of PostgreSQL, and not because of an earlier run.
NoFalseMismatch ==
  \A p \in alone : pc[p] = "mismatch" => \E e \in rows[p] : CellBack[e] # CellOf[e]

\* Every run ends, also if ClickHouse is never reached.
RunsEnd == \A p \in Runs : Live(p) ~> ~Live(p)
=============================================================================
