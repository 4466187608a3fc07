----------------------------- MODULE QualityGate -----------------------------
(***************************************************************************)
(* The Product Reporting quality gate: Dagster runs (gates) of the asset   *)
(* product_reporting_soda_mart_contracts, which verify the Soda contracts  *)
(* in order and persist an audit row for each in a transaction of its own  *)
(* (dagster_project/definitions.py, quality_persistence.py).               *)
(*                                                                         *)
(* Several gates run at once: the asset is part of two jobs, with four     *)
(* schedules, and jobs are launched by hand. Their transactions meet at    *)
(* PostgreSQL's table locks. Each begins with the DDL of both tables, and  *)
(* CREATE INDEX IF NOT EXISTS takes the SHARE lock of an existing table    *)
(* and keeps it; the upserts need ROW EXCLUSIVE, which conflicts with the  *)
(* SHARE lock of every other transaction. A request waits for the locks of *)
(* others and behind the requests that wait already.                       *)
(***************************************************************************)
EXTENDS Integers, FiniteSetsExt

CONSTANTS
  Gates,         \* Dagster runs (pipeline_run_id)
  NumContracts,  \* the contracts, in the order they are verified
  Expected,      \* PRODUCT_REPORTING_SODA_EXPECTED_CHECK_COUNTS
  Counts,        \* check counts a Soda output can show
  MaxFaults,     \* bound: faults of the environment in one behaviour
  None

Contracts == 1..NumContracts

ASSUME ConstantsAssumption ==
  /\ NumContracts \in Nat \ {0}
  /\ Expected \in [Contracts -> Counts]
  /\ Counts \subseteq Nat \ {0}
  /\ MaxFaults \in Nat
  /\ None \notin Counts

VARIABLES
  runs,      \* PostgreSQL: status of the audit row of a gate and contract
  findings,  \* PostgreSQL: the open critical findings
  held,      \* PostgreSQL: the table locks, as (gate, table, mode)
  waiting,   \* PostgreSQL: the gates whose request is queued
  ahead,     \* PostgreSQL: who is before whom in the queue of their table
  pc,        \* gate: the next statement of the asset
  contract,  \* gate: the contract in turn
  verdict,   \* gate: the status to be persisted for it
  observed,  \* gate: observed_check_counts
  faults     \* bound: how often the environment failed so far

vars == <<runs, findings, held, waiting, ahead, pc, contract, verdict, observed, faults>>

tables == <<runs, findings>>
queue  == <<waiting, ahead>>
memory == <<contract, verdict, observed>>

Ended == {"passed", "failed"}

Init ==
  /\ runs = [g \in Gates |-> [c \in Contracts |-> "none"]]
  /\ findings = {}
  /\ held = {}
  /\ waiting = {}
  /\ ahead = {}
  /\ pc = [g \in Gates |-> "verify"]
  /\ contract = [g \in Gates |-> 1]
  /\ verdict = [g \in Gates |-> "none"]
  /\ observed = [g \in Gates |-> [c \in Contracts |-> None]]
  /\ faults = 0

Fault == faults < MaxFaults /\ faults' = faults + 1

Goto(g, label) == pc' = [pc EXCEPT ![g] = label]

-----------------------------------------------------------------------------
\* What the gate tells apart in the output of "soda contract verify".
Output == [exit : {0, 1}, notEvaluated : BOOLEAN, count : Counts \cup {None}]

\* Mutant of Accepts: any check count will do.
AcceptsAnyCount(out, expected) ==
  out.exit = 0 /\ ~out.notEvaluated /\ out.count # None

\* run_command raises unless the exit code is 0, assert_soda_contract_gate
\* unless all checks were evaluated and their number is the expected one.
Accepts(out, expected) ==
  /\ out.exit = 0
  /\ ~out.notEvaluated
  /\ out.count = expected

Verdict(out, expected) == IF Accepts(out, expected) THEN "passed" ELSE "failed"

\* One turn of the loop up to the call of persist_quality_run_result.
Verify(g) ==
  /\ pc[g] = "verify"
  /\ contract[g] \in Contracts
  /\ \E out \in Output :
       LET c      == contract[g]
           status == Verdict(out, Expected[c])
       IN  /\ verdict' = [verdict EXCEPT ![g] = status]
           /\ observed' =
                [observed EXCEPT ![g][c] = IF status = "passed" THEN out.count ELSE None]
  /\ Goto(g, "runs_ddl")
  /\ UNCHANGED <<tables, held, queue, contract, faults>>

Total(count) == MapThenSumSet(LAMBDA c : count[c], Contracts)

\* After the loop: the total is compared once more.
Finish(g) ==
  /\ pc[g] = "verify"
  /\ contract[g] \notin Contracts
  /\ Goto(g, IF Total(observed[g]) = Total(Expected) THEN "passed" ELSE "failed")
  /\ UNCHANGED <<tables, held, queue, memory, faults>>

-----------------------------------------------------------------------------
\* The locks the statements of a transaction take, in their order.
LockOf ==
  [runs_ddl       |-> <<"runs", "share">>,
   findings_ddl   |-> <<"findings", "share">>,
   upsert_run     |-> <<"runs", "write">>,
   upsert_finding |-> <<"findings", "write">>]

Table(g) == LockOf[pc[g]][1]
Mode(g)  == LockOf[pc[g]][2]

\* The next statement of g asks for a lock that h holds against it: SHARE
\* conflicts with ROW EXCLUSIVE, neither conflicts with itself.
Holds(h, g) ==
  /\ h # g
  /\ pc[g] \in DOMAIN LockOf
  /\ \E k \in held : k[1] = h /\ k[2] = Table(g) /\ k[3] # Mode(g)

\* The place of a request in the queue of its table: at the end, but before the
\* first that waits for a lock that g itself holds on the table.
Before(g) ==
  {h \in waiting :
     /\ Table(h) = Table(g)
     /\ ~Holds(g, h)
     /\ \A k \in waiting : <<k, h>> \in ahead => ~Holds(g, k)}

\* The request of h waits before the one of g and conflicts with it.
Precedes(h, g) ==
  /\ pc[g] \in DOMAIN LockOf
  /\ IF g \in waiting THEN <<h, g>> \in ahead ELSE h \in Before(g)
  /\ Mode(h) # Mode(g)

Blocks(h, g) == Holds(h, g) \/ Precedes(h, g)

Blocked(g) == \E h \in Gates : Blocks(h, g)

\* A request that is not granted joins the queue.
Wait(g) ==
  /\ pc[g] \in DOMAIN LockOf
  /\ g \notin waiting
  /\ Blocked(g)
  /\ waiting' = waiting \cup {g}
  /\ LET behind == {k \in waiting \ Before(g) : Table(k) = Table(g)}
     IN  ahead' = ahead \cup (Before(g) \X {g}) \cup ({g} \X behind)
  /\ UNCHANGED <<tables, memory, held, pc, faults>>

\* A request that is granted, or given up, leaves the queue.
Leave(g) ==
  /\ waiting' = waiting \ {g}
  /\ ahead' = {p \in ahead : p[1] # g /\ p[2] # g}

\* Mutant of Lock: the DDL is committed before the upserts begin.
LockWrites(g) ==
  /\ pc[g] \in DOMAIN LockOf
  /\ ~Blocked(g)
  /\ held' = IF Mode(g) = "share" THEN held ELSE held \cup {<<g, Table(g), "write">>}
  /\ Leave(g)

\* A statement runs once its lock is granted; the lock is kept.
Lock(g) ==
  /\ pc[g] \in DOMAIN LockOf
  /\ ~Blocked(g)
  /\ held' = held \cup {<<g, Table(g), Mode(g)>>}
  /\ Leave(g)

RunsDdl(g) ==
  /\ pc[g] = "runs_ddl"
  /\ Lock(g)
  /\ Goto(g, "findings_ddl")
  /\ UNCHANGED <<tables, memory, faults>>

FindingsDdl(g) ==
  /\ pc[g] = "findings_ddl"
  /\ Lock(g)
  /\ Goto(g, "upsert_run")
  /\ UNCHANGED <<tables, memory, faults>>

\* Mutant of UpsertRun: the row is visible before the transaction commits.
UpsertRunAutocommit(g) ==
  /\ pc[g] = "upsert_run"
  /\ Lock(g)
  /\ runs' = [runs EXCEPT ![g][contract[g]] = verdict[g]]
  /\ Goto(g, IF verdict[g] = "failed" THEN "upsert_finding" ELSE "commit")
  /\ UNCHANGED <<findings, memory, faults>>

\* A failed result has one finding, a passed one none.
UpsertRun(g) ==
  /\ pc[g] = "upsert_run"
  /\ Lock(g)
  /\ Goto(g, IF verdict[g] = "failed" THEN "upsert_finding" ELSE "commit")
  /\ UNCHANGED <<tables, memory, faults>>

UpsertFinding(g) ==
  /\ pc[g] = "upsert_finding"
  /\ Lock(g)
  /\ Goto(g, "commit")
  /\ UNCHANGED <<tables, memory, faults>>

\* The end of a transaction gives its locks back.
Release(g) == held' = {k \in held : k[1] # g}

\* The rows of the transaction become visible together.
Written(g) ==
  /\ runs' = [runs EXCEPT ![g][contract[g]] = verdict[g]]
  /\ findings' = IF verdict[g] = "failed" THEN findings \cup {<<g, contract[g]>>} ELSE findings

\* The loop goes on, or the error of the contract is raised again.
AfterCommit(g) ==
  IF verdict[g] = "passed"
  THEN Goto(g, "verify") /\ contract' = [contract EXCEPT ![g] = @ + 1]
  ELSE Goto(g, "failed") /\ UNCHANGED contract

Commit(g) ==
  /\ pc[g] = "commit"
  /\ Written(g)
  /\ Release(g)
  /\ AfterCommit(g)
  /\ UNCHANGED <<queue, verdict, observed, faults>>

\* The commit takes effect, but its answer is lost.
CommitUnanswered(g) ==
  /\ pc[g] = "commit"
  /\ Fault
  /\ Written(g)
  /\ Release(g)
  /\ Goto(g, "failed")
  /\ UNCHANGED <<queue, memory>>

\* Mutant of Abort: the connection is left open in its transaction.
AbortKeepsLocks(g) ==
  Goto(g, "failed") /\ Leave(g) /\ UNCHANGED <<tables, memory, held>>

\* persist_quality_run_result raises: the transaction rolls back, and the
\* asset fails with this error, in the place of the contract's if it had one.
Abort(g) ==
  Goto(g, "failed") /\ Release(g) /\ Leave(g) /\ UNCHANGED <<tables, memory>>

\* PostgreSQL ends one of two transactions that hold what the other asks for:
\* at once when the second is about to wait, or later. Which one is left open.
DeadlockVictim(g) ==
  /\ \E h \in waiting : Holds(h, g) /\ Holds(g, h)
  /\ Abort(g)
  /\ UNCHANGED faults

\* Any statement or the connection fails, the contract file cannot be read,
\* or the run is terminated: from a transaction or from a verification.
Interrupt(g) == pc[g] \notin Ended /\ Fault /\ Abort(g)

-----------------------------------------------------------------------------
GateStep(g) ==
  \/ Verify(g)
  \/ Finish(g)
  \/ Wait(g)
  \/ RunsDdl(g)
  \/ FindingsDdl(g)
  \/ UpsertRun(g)
  \/ UpsertFinding(g)
  \/ Commit(g)
  \/ DeadlockVictim(g)

Next == \E g \in Gates : GateStep(g) \/ CommitUnanswered(g) \/ Interrupt(g)

Spec == Init /\ [][Next]_vars

\* The process of a run is scheduled, the soda command ends (no timeout makes
\* it), and PostgreSQL grants locks and resolves deadlocks.
FairSpec == Spec /\ \A g \in Gates : WF_vars(GateStep(g))

-----------------------------------------------------------------------------
InTransaction == {"runs_ddl", "findings_ddl", "upsert_run", "upsert_finding", "commit"}

\* The types of the variables.
TypeOK ==
  /\ runs \in [Gates -> [Contracts -> {"none", "passed", "failed"}]]
  /\ findings \subseteq Gates \X Contracts
  /\ held \subseteq Gates \X {"runs", "findings"} \X {"share", "write"}
  /\ waiting \subseteq Gates
  /\ ahead \subseteq Gates \X Gates
  /\ pc \in [Gates -> {"verify"} \cup InTransaction \cup Ended]
  /\ contract \in [Gates -> 1..NumContracts + 1]
  /\ verdict \in [Gates -> {"none", "passed", "failed"}]
  /\ observed \in [Gates -> [Contracts -> Counts \cup {None}]]
  /\ faults \in 0..MaxFaults

\* A transaction that has written its audit row is alone: no other holds a
\* lock on either table, so that it is neither blocked by the finding nor a
\* deadlock victim. A deadlock costs a gate its whole audit row, never half.
WriterAlone ==
  \A g \in Gates :
    <<g, "runs", "write">> \in held => (\A k \in held : k[1] = g) /\ ~Blocked(g)

\* Breaking up pairs is all that PostgreSQL has to do. Who blocks a gate is in
\* its transaction, and who blocks that one in turn can go on, or is half of a
\* deadlock with it: a line of waiting gates has two steps at most (a new
\* transaction, the writer it queues behind, a transaction that can go on), there
\* is no longer cycle and no abandoned lock, however many gates there are.
WaitsEnd ==
  \A a, b \in Gates : Blocks(b, a) =>
    /\ pc[b] \in InTransaction
    /\ \A c \in Gates : Blocks(c, b) => ~Blocked(c) \/ (Holds(b, c) /\ Holds(c, b))

\* A gate that ends passed has a passed audit row with exactly the expected
\* number of checks for every contract, and no finding.
PassedIsComplete ==
  \A g \in Gates : pc[g] = "passed" =>
    \A c \in Contracts :
      /\ runs[g][c] = "passed"
      /\ observed[g][c] = Expected[c]
      /\ <<g, c>> \notin findings

\* The tables under concurrent gates, deadlocks and faults are what
\* QualityAudit says: rows in order, a failed one last and with its finding.
Audit ==
  INSTANCE QualityAudit
    WITH rows <- runs, open <- findings,
         outcome <- [g \in Gates |-> IF pc[g] \in Ended THEN pc[g] ELSE "running"]

ImplementsAudit == Audit!Spec

\* Every gate ends: transactions that wait for each other do not wait for ever.
GatesEnd == <>(\A g \in Gates : pc[g] \in Ended)

\* README.md: "failed or errored contract runs also persist one open critical
\* row in ops.data_quality_findings before the Dagster asset fails closed".
FailedContractHasFinding ==
  \A g \in Gates :
    pc[g] = "failed" /\ verdict[g] = "failed" => <<g, contract[g]>> \in findings
=============================================================================
