--------------------------- MODULE IngestContract ---------------------------
(***************************************************************************)
(* What docs/contracts/event-streams.md promises of the ingest worker to   *)
(* the readers of the warehouse, without its processes: accepted events    *)
(* land once per event_id, invalid ones are recorded in the DLQ table, and *)
(* what the offsets acknowledged to the broker do not cover is delivered   *)
(* again.                                                                  *)
(*                                                                         *)
(* MaxDrop = 0 is the promise as the document has it: whatever is          *)
(* acknowledged is settled. Otherwise a process may acknowledge up to      *)
(* MaxDrop records that it still holds, and owes them until they are       *)
(* settled; if it ends before that, they are gone.                         *)
(***************************************************************************)
EXTENDS Integers, Sequences, FiniteSets

CONSTANTS
  Partitions, EventIds, MaxLog, None,
  MaxDrop    \* records that one end of a process may cost

VARIABLES
  log,       \* the topic, one sequence of records per partition
  landed,    \* event id -> the source location of its one landing row
  rejected,  \* locations with a row in the DLQ table
  acked,     \* partition -> offset up to which the group is done
  owed       \* acknowledged, not settled, and in the hands of a process

vars == <<log, landed, rejected, acked, owed>>

Source == {l \in Partitions \X (0..MaxLog - 1) : l[2] < Len(log[l[1]])}
Event(l) == log[l[1]][l[2] + 1]

Settled(l) ==
  IF Event(l).kind = "valid" THEN landed[Event(l).id] # None ELSE l \in rejected

Init ==
  /\ landed = [e \in EventIds |-> None]
  /\ rejected = {}
  /\ acked = [p \in Partitions |-> 0]
  /\ owed = {}

\* What was owed, but for the records the step settles.
StillOwed == owed' = {l \in owed : ~Settled(l)'}

\* One accepted record lands, the first of its event id.
Land(l) ==
  /\ Event(l).kind = "valid"
  /\ landed[Event(l).id] = None
  /\ landed' = [landed EXCEPT ![Event(l).id] = l]
  /\ StillOwed
  /\ UNCHANGED <<log, rejected, acked>>

\* One invalid record is recorded.
Reject(l) ==
  /\ Event(l).kind # "valid"
  /\ rejected' = rejected \cup {l}
  /\ StillOwed
  /\ UNCHANGED <<log, landed, acked>>

\* Of the records held, those that a process leaves behind are owed no longer.
LeaveBehind(held) ==
  \E left \in SUBSET held : Cardinality(left) <= MaxDrop /\ owed' = held \ left

\* The unsettled records that a step acknowledges.
Passed == {l \in Source : acked[l[1]] <= l[2] /\ l[2] < acked'[l[1]] /\ ~Settled(l)}

\* The group moves on, over few records that are not settled.
Acknowledge ==
  /\ acked' \in [Partitions -> 0..MaxLog]
  /\ \A p \in Partitions : acked[p] <= acked'[p] /\ acked'[p] <= Len(log[p])
  /\ Cardinality(Passed) <= MaxDrop
  /\ LeaveBehind(owed \cup Passed)
  /\ UNCHANGED <<log, landed, rejected>>

\* A process ends.
Drop ==
  /\ LeaveBehind(owed)
  /\ UNCHANGED <<log, landed, rejected, acked>>

Next == Acknowledge \/ Drop \/ \E l \in Source : Land(l) \/ Reject(l)

Spec == Init /\ [][Next]_vars
=============================================================================
