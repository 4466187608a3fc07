-------------------------- MODULE QualityGateProofs --------------------------
(***************************************************************************)
(* Proofs about the quality gate, for any number of concurrent gates and   *)
(* contracts and any number of faults.                                     *)
(***************************************************************************)
EXTENDS JobLauncher, TLAPS

LEMMA TypeInit == Init => TypeOK
  BY ConstantsAssumption DEF Init, TypeOK, Contracts, Ended, InTransaction

\* A verification passes only with the expected count.
LEMMA VerifyResult ==
  ASSUME TypeOK, NEW g \in Gates, Verify(g)
  PROVE  /\ contract[g] \in Contracts /\ pc[g] = "verify"
         /\ pc' = [pc EXCEPT ![g] = "runs_ddl"]
         /\ UNCHANGED <<runs, findings, held, queue, contract, faults>>
         /\ \E status \in {"passed", "failed"}, count \in Counts \cup {None} :
              /\ verdict' = [verdict EXCEPT ![g] = status]
              /\ observed' = [observed EXCEPT ![g][contract[g]] = count]
              /\ status = "passed" => count = Expected[contract[g]]
<1>1. PICK out \in Output :
        /\ verdict' = [verdict EXCEPT ![g] = Verdict(out, Expected[contract[g]])]
        /\ observed' = [observed EXCEPT ![g][contract[g]] =
                          IF Verdict(out, Expected[contract[g]]) = "passed"
                          THEN out.count ELSE None]
  BY DEF Verify
<1> DEFINE status == Verdict(out, Expected[contract[g]])
           count  == IF status = "passed" THEN out.count ELSE None
<1>2. status \in {"passed", "failed"} /\ count \in Counts \cup {None}
  BY DEF Verdict, Output
<1>3. status = "passed" => count = Expected[contract[g]]
  BY DEF Verdict, Accepts
<1>4. contract[g] \in Contracts /\ pc[g] = "verify"
      /\ pc' = [pc EXCEPT ![g] = "runs_ddl"]
      /\ UNCHANGED <<runs, findings, held, queue, contract, faults>>
  BY DEF Verify, Goto, tables, queue
<1> QED
  BY <1>1, <1>2, <1>3, <1>4

\* The other steps in which a gate does not end its transaction.
LEMMA StatementResult ==
  ASSUME TypeOK, NEW g \in Gates,
         RunsDdl(g) \/ FindingsDdl(g) \/ UpsertRun(g) \/ UpsertFinding(g)
  PROVE  /\ UNCHANGED <<runs, findings, contract, verdict, observed, faults>>
         /\ ~Blocked(g) /\ Leave(g)
         /\ \/ pc[g] = "runs_ddl" /\ pc' = [pc EXCEPT ![g] = "findings_ddl"]
                 /\ held' = held \cup {<<g, "runs", "share">>}
            \/ pc[g] = "findings_ddl" /\ pc' = [pc EXCEPT ![g] = "upsert_run"]
                 /\ held' = held \cup {<<g, "findings", "share">>}
            \/ pc[g] = "upsert_run"
                 /\ (pc' = [pc EXCEPT ![g] = "upsert_finding"] \/ pc' = [pc EXCEPT ![g] = "commit"])
                 /\ held' = held \cup {<<g, "runs", "write">>}
            \/ pc[g] = "upsert_finding" /\ pc' = [pc EXCEPT ![g] = "commit"]
                 /\ held' = held \cup {<<g, "findings", "write">>}
  BY DEF RunsDdl, FindingsDdl, UpsertRun, UpsertFinding, Lock, Table, Mode, LockOf, Goto,
     tables, memory

\* A step that ends a gate without an audit row.
LEMMA AbortResult ==
  ASSUME NEW g \in Gates, DeadlockVictim(g) \/ Interrupt(g)
  PROVE  /\ pc' = [pc EXCEPT ![g] = "failed"] /\ pc[g] \notin Ended
         /\ held' = {k \in held : k[1] # g} /\ Leave(g)
         /\ UNCHANGED <<runs, findings, contract, verdict, observed>>
         /\ faults' = faults \/ (faults < MaxFaults /\ faults' = faults + 1)
  BY DEF DeadlockVictim, Interrupt, Abort, Release, Goto, Fault, Holds, LockOf, Ended,
     tables, memory

LEMMA CommitResult ==
  ASSUME NEW g \in Gates, Commit(g) \/ CommitUnanswered(g)
  PROVE  /\ pc[g] = "commit" /\ Written(g)
         /\ held' = {k \in held : k[1] # g}
         /\ UNCHANGED <<queue, verdict, observed>>
         /\ \/ pc' = [pc EXCEPT ![g] = "failed"] /\ contract' = contract
            \/ /\ verdict[g] = "passed" /\ pc' = [pc EXCEPT ![g] = "verify"]
               /\ contract' = [contract EXCEPT ![g] = contract[g] + 1]
         /\ faults' = faults \/ (faults < MaxFaults /\ faults' = faults + 1)
  BY DEF Commit, CommitUnanswered, AfterCommit, Release, Goto, Fault, queue, memory

LEMMA FinishResult ==
  ASSUME NEW g \in Gates, Finish(g)
  PROVE  /\ pc[g] = "verify" /\ contract[g] \notin Contracts
         /\ pc' = [pc EXCEPT ![g] = "passed"] \/ pc' = [pc EXCEPT ![g] = "failed"]
         /\ UNCHANGED <<runs, findings, held, queue, contract, verdict, observed, faults>>
  BY DEF Finish, Goto, tables, queue, memory

LEMMA WaitResult ==
  ASSUME NEW g \in Gates, Wait(g)
  PROVE  /\ pc[g] \in DOMAIN LockOf /\ g \notin waiting /\ Blocked(g)
         /\ waiting' = waiting \cup {g}
         /\ UNCHANGED <<runs, findings, held, pc, contract, verdict, observed, faults>>
  BY DEF Wait, tables, memory

\* The steps of Next, by what they do.
LEMMA Steps ==
  ASSUME [Next]_vars
  PROVE  \/ UNCHANGED vars
         \/ \E g \in Gates :
              \/ Verify(g)
              \/ Finish(g)
              \/ Wait(g)
              \/ RunsDdl(g) \/ FindingsDdl(g) \/ UpsertRun(g) \/ UpsertFinding(g)
              \/ Commit(g) \/ CommitUnanswered(g)
              \/ DeadlockVictim(g) \/ Interrupt(g)
  BY DEF Next, GateStep

-----------------------------------------------------------------------------
\* Who is in its transaction beyond the first statement, and who has written.
Locking(g) == pc[g] \in {"findings_ddl", "upsert_run", "upsert_finding", "commit"}
Writing(g) == pc[g] \in {"upsert_finding", "commit"}

\* The locks of a gate are those of the statements behind it.
LocksHeld ==
  /\ \A k \in held :
       Locking(k[1]) /\ (k[3] = "write" => Writing(k[1]))
  /\ \A g \in Gates : Locking(g) => <<g, "runs", "share">> \in held
  /\ \A g \in Gates : Writing(g) => <<g, "runs", "write">> \in held

OneWriter ==
  \A g, h \in Gates : g # h /\ Writing(g) => ~Locking(h)

\* Only the lock of the audit rows is ever waited for; and a new transaction
\* that is before an upsert in the queue has no upsert before it.
QueueOrder ==
  /\ \A g \in waiting : pc[g] \in {"runs_ddl", "upsert_run"}
  /\ \A p \in ahead : p[1] \in waiting /\ p[2] \in waiting
  /\ \A a, b, c \in waiting :
       /\ pc[a] = "upsert_run" /\ pc[b] = "runs_ddl" /\ pc[c] = "upsert_run"
       /\ <<b, a>> \in ahead
       => <<c, b>> \notin ahead

\* The audit rows of a gate are those of the contracts behind it.
RowsBehind ==
  \A g \in Gates, c \in Contracts :
    /\ c < contract[g] => runs[g][c] = "passed" /\ observed[g][c] = Expected[c]
    /\ c >= contract[g] /\ pc[g] \notin Ended => runs[g][c] = "none"
    /\ pc[g] # "failed" => <<g, c>> \notin findings

VerdictInHand ==
  \A g \in Gates :
    /\ pc[g] \in InTransaction =>
         /\ contract[g] \in Contracts
         /\ verdict[g] \in {"passed", "failed"}
         /\ verdict[g] = "passed" => observed[g][contract[g]] = Expected[contract[g]]
    /\ pc[g] = "passed" => contract[g] \notin Contracts

IInv == TypeOK /\ LocksHeld /\ OneWriter /\ QueueOrder /\ RowsBehind /\ VerdictInHand

LEMMA IInvInit == Init => IInv
<1> SUFFICES ASSUME Init PROVE IInv
  OBVIOUS
<1>1. TypeOK
  BY TypeInit
<1> QED
  BY <1>1 DEF Init, IInv, LocksHeld, OneWriter, QueueOrder, RowsBehind, VerdictInHand, Locking, Writing,
     Contracts, InTransaction, Ended

LEMMA TypeStep ==
  ASSUME TypeOK, VerdictInHand, [Next]_vars
  PROVE  TypeOK'
<1>1. CASE UNCHANGED vars
  BY <1>1 DEF vars, TypeOK
<1>2. ASSUME NEW g \in Gates, Verify(g) PROVE TypeOK'
  <2>1. pc' = [pc EXCEPT ![g] = "runs_ddl"]
        /\ UNCHANGED <<runs, findings, held, waiting, ahead, contract, faults>>
    BY <1>2, VerifyResult DEF queue
  <2>2. PICK status \in {"passed", "failed"}, count \in Counts \cup {None} :
          /\ verdict' = [verdict EXCEPT ![g] = status]
          /\ observed' = [observed EXCEPT ![g][contract[g]] = count]
    BY <1>2, VerifyResult
  <2> QED
    BY <2>1, <2>2 DEF TypeOK, InTransaction
<1>3. ASSUME NEW g \in Gates, Finish(g) PROVE TypeOK'
  <2>1. pc' = [pc EXCEPT ![g] = "passed"] \/ pc' = [pc EXCEPT ![g] = "failed"]
    BY <1>3, FinishResult
  <2>2. UNCHANGED <<runs, findings, held, waiting, ahead, contract, verdict, observed, faults>>
    BY <1>3, FinishResult DEF queue
  <2> QED
    BY <2>1, <2>2 DEF TypeOK, Ended
<1>4. ASSUME NEW g \in Gates, RunsDdl(g) \/ FindingsDdl(g) \/ UpsertRun(g) \/ UpsertFinding(g)
      PROVE  TypeOK'
  <2>1. UNCHANGED <<runs, findings, contract, verdict, observed, faults>>
    BY <1>4, StatementResult
  <2>2. PICK next \in InTransaction : pc' = [pc EXCEPT ![g] = next]
    BY <1>4, StatementResult DEF InTransaction
  <2>3. PICK t \in {"runs", "findings"}, m \in {"share", "write"} :
          held' = held \cup {<<g, t, m>>}
    BY <1>4, StatementResult
  <2>4. waiting' \subseteq waiting /\ ahead' \subseteq ahead
    BY <1>4, StatementResult DEF Leave
  <2> QED
    BY <2>1, <2>2, <2>3, <2>4 DEF TypeOK
<1>5. ASSUME NEW g \in Gates, Commit(g) \/ CommitUnanswered(g) PROVE TypeOK'
  <2>1. contract[g] \in Contracts /\ verdict[g] \in {"passed", "failed"}
    BY <1>5, CommitResult DEF VerdictInHand, InTransaction
  <2>2. runs' \in [Gates -> [Contracts -> {"none", "passed", "failed"}]]
        /\ findings' \subseteq Gates \X Contracts
    <3>1. Written(g)
      BY <1>5, CommitResult
    <3> QED
      BY <2>1, <3>1 DEF Written, TypeOK
  <2>3. contract' \in [Gates -> 1..NumContracts + 1]
    BY <1>5, <2>1, CommitResult, ConstantsAssumption DEF TypeOK, Contracts
  <2>4. pc' \in [Gates -> {"verify"} \cup InTransaction \cup Ended]
    BY <1>5, CommitResult DEF TypeOK, Ended
  <2>5. /\ held' \subseteq held /\ UNCHANGED <<waiting, ahead, verdict, observed>>
        /\ faults' = faults \/ (faults < MaxFaults /\ faults' = faults + 1)
    BY <1>5, CommitResult DEF queue
  <2>6. faults' \in 0..MaxFaults
    BY <2>5, ConstantsAssumption DEF TypeOK
  <2> QED
    BY <2>2, <2>3, <2>4, <2>5, <2>6 DEF TypeOK
<1>6. ASSUME NEW g \in Gates, DeadlockVictim(g) \/ Interrupt(g) PROVE TypeOK'
  <2>1. /\ pc' = [pc EXCEPT ![g] = "failed"] /\ held' \subseteq held
        /\ waiting' \subseteq waiting /\ ahead' \subseteq ahead
        /\ UNCHANGED <<runs, findings, contract, verdict, observed>>
        /\ faults' = faults \/ (faults < MaxFaults /\ faults' = faults + 1)
    BY <1>6, AbortResult DEF Leave
  <2>2. faults' \in 0..MaxFaults
    BY <2>1, ConstantsAssumption DEF TypeOK
  <2> QED
    BY <2>1, <2>2 DEF TypeOK, Ended
<1>7. ASSUME NEW g \in Gates, Wait(g) PROVE TypeOK'
  <2>1. /\ waiting' = waiting \cup {g}
        /\ UNCHANGED <<runs, findings, held, pc, contract, verdict, observed, faults>>
    BY <1>7, WaitResult
  <2>2. /\ Before(g) \subseteq waiting
        /\ \E behind \in SUBSET waiting :
             ahead' = ahead \cup (Before(g) \X {g}) \cup ({g} \X behind)
    BY <1>7 DEF Wait, Before
  <2>3. ahead' \subseteq Gates \X Gates
    BY <2>2 DEF TypeOK
  <2> QED
    BY <2>1, <2>3 DEF TypeOK
<1> QED
  BY <1>1, <1>2, <1>3, <1>4, <1>5, <1>6, <1>7, Steps

LEMMA LocksStep ==
  ASSUME IInv, [Next]_vars
  PROVE  LocksHeld' /\ OneWriter'
<1> USE DEF IInv, LocksHeld, OneWriter, Locking, Writing
<1>0. pc \in [Gates -> {"verify"} \cup InTransaction \cup Ended]
      /\ \A k \in held : k[1] \in Gates
  BY DEF TypeOK
<1>1. CASE UNCHANGED vars
  BY <1>1 DEF vars
<1>2. ASSUME NEW g \in Gates, pc[g] \notin InTransaction, held' = held,
             NEW next \in {"runs_ddl", "passed", "failed"}, pc' = [pc EXCEPT ![g] = next]
      PROVE  LocksHeld' /\ OneWriter'
  BY <1>0, <1>2 DEF InTransaction
<1>3. ASSUME NEW g \in Gates, RunsDdl(g) \/ FindingsDdl(g) \/ UpsertRun(g) \/ UpsertFinding(g)
      PROVE  LocksHeld' /\ OneWriter'
  <2>1. ~Blocked(g)
    BY <1>3, StatementResult DEF IInv
  <2>2. pc[g] = "runs_ddl" => \A h \in Gates \ {g} : ~Writing(h)
    <3> SUFFICES ASSUME pc[g] = "runs_ddl", NEW h \in Gates \ {g}, Writing(h) PROVE FALSE
      OBVIOUS
    <3>1. <<h, "runs", "write">> \in held
      OBVIOUS
    <3> QED
      BY <2>1, <3>1 DEF Blocked, Blocks, Holds, Table, Mode, LockOf
  <2>3. pc[g] = "upsert_run" => \A h \in Gates \ {g} : ~Locking(h)
    <3> SUFFICES ASSUME pc[g] = "upsert_run", NEW h \in Gates \ {g}, Locking(h) PROVE FALSE
      OBVIOUS
    <3>1. <<h, "runs", "share">> \in held
      OBVIOUS
    <3> QED
      BY <2>1, <3>1 DEF Blocked, Blocks, Holds, Table, Mode, LockOf
  <2>4. CASE pc[g] = "runs_ddl" /\ pc' = [pc EXCEPT ![g] = "findings_ddl"]
               /\ held' = held \cup {<<g, "runs", "share">>}
    BY <1>0, <2>2, <2>4
  <2>5. CASE pc[g] = "findings_ddl" /\ pc' = [pc EXCEPT ![g] = "upsert_run"]
               /\ held' = held \cup {<<g, "findings", "share">>}
    BY <1>0, <2>5
  <2>6. CASE pc[g] = "upsert_run"
               /\ (pc' = [pc EXCEPT ![g] = "upsert_finding"] \/ pc' = [pc EXCEPT ![g] = "commit"])
               /\ held' = held \cup {<<g, "runs", "write">>}
    BY <1>0, <2>3, <2>6
  <2>7. CASE pc[g] = "upsert_finding" /\ pc' = [pc EXCEPT ![g] = "commit"]
               /\ held' = held \cup {<<g, "findings", "write">>}
    BY <1>0, <2>7
  <2> QED
    BY <1>3, <2>4, <2>5, <2>6, <2>7, StatementResult
<1>4. ASSUME NEW g \in Gates, held' = {k \in held : k[1] # g},
             NEW next \in {"verify", "failed"}, pc' = [pc EXCEPT ![g] = next]
      PROVE  LocksHeld' /\ OneWriter'
  BY <1>0, <1>4
<1>5. ASSUME NEW g \in Gates, Verify(g) \/ Finish(g) PROVE LocksHeld' /\ OneWriter'
  BY <1>2, <1>5, VerifyResult, FinishResult DEF InTransaction
<1>6. ASSUME NEW g \in Gates,
             Commit(g) \/ CommitUnanswered(g) \/ DeadlockVictim(g) \/ Interrupt(g)
      PROVE  LocksHeld' /\ OneWriter'
  BY <1>4, <1>6, CommitResult, AbortResult
<1>7. ASSUME NEW g \in Gates, Wait(g) PROVE LocksHeld' /\ OneWriter'
  BY <1>7, WaitResult
<1> QED
  BY <1>1, <1>3, <1>5, <1>6, <1>7, Steps

\* What the statements ask for, and who stands against it: a writer against a
\* new transaction, anybody against an upsert of the audit row, and nobody
\* against the rest.
LEMMA Requests ==
  ASSUME NEW g \in Gates
  PROVE  /\ pc[g] \in DOMAIN LockOf <=>
              pc[g] \in {"runs_ddl", "findings_ddl", "upsert_run", "upsert_finding"}
         /\ pc[g] = "runs_ddl" => Table(g) = "runs" /\ Mode(g) = "share"
         /\ pc[g] = "findings_ddl" => Table(g) = "findings" /\ Mode(g) = "share"
         /\ pc[g] = "upsert_run" => Table(g) = "runs" /\ Mode(g) = "write"
         /\ pc[g] = "upsert_finding" => Table(g) = "findings" /\ Mode(g) = "write"
  BY DEF LockOf, Table, Mode

LEMMA Holders ==
  ASSUME TypeOK, LocksHeld, OneWriter, NEW g \in Gates, NEW h \in Gates
  PROVE  Holds(h, g) <=>
           /\ h # g
           /\ \/ pc[g] = "runs_ddl" /\ Writing(h)
              \/ pc[g] = "upsert_run" /\ Locking(h)
<1>1. \A k \in held : /\ Locking(k[1]) /\ (k[3] = "write" => Writing(k[1]))
                      /\ k[3] \in {"share", "write"}
  BY DEF TypeOK, LocksHeld
<1>2. ASSUME Holds(h, g)
      PROVE  /\ h # g
             /\ \/ pc[g] = "runs_ddl" /\ Writing(h)
                \/ pc[g] = "upsert_run" /\ Locking(h)
  <2>1. PICK k \in held : k[1] = h /\ k[2] = Table(g) /\ k[3] # Mode(g)
    BY <1>2 DEF Holds
  <2>2. h # g /\ pc[g] \in {"runs_ddl", "findings_ddl", "upsert_run", "upsert_finding"}
    BY <1>2, Requests DEF Holds
  <2>3. Locking(h) /\ (Mode(g) = "share" => Writing(h))
    BY <1>1, <2>1
  <2>4. pc[g] # "findings_ddl"
    BY <2>2, <2>3, Requests DEF OneWriter, Locking
  <2>5. pc[g] # "upsert_finding"
    BY <2>2, <2>3 DEF OneWriter, Writing
  <2> QED
    BY <2>2, <2>3, <2>4, <2>5, Requests
<1>3. ASSUME h # g, pc[g] = "runs_ddl", Writing(h) PROVE Holds(h, g)
  <2>1. <<h, "runs", "write">> \in held
    BY <1>3 DEF LocksHeld
  <2> QED
    BY <1>3, <2>1, Requests DEF Holds
<1>4. ASSUME h # g, pc[g] = "upsert_run", Locking(h) PROVE Holds(h, g)
  <2>1. <<h, "runs", "share">> \in held
    BY <1>4 DEF LocksHeld
  <2> QED
    BY <1>4, <2>1, Requests DEF Holds
<1> QED
  BY <1>2, <1>3, <1>4

\* What stands before a request of g in the queue conflicts with it only if one
\* of the two is a new transaction and the other an upsert.
LEMMA Predecessors ==
  ASSUME TypeOK, QueueOrder, NEW g \in Gates, NEW h \in Gates, Precedes(h, g)
  PROVE  /\ h \in waiting
         /\ \/ pc[g] = "runs_ddl" /\ pc[h] = "upsert_run"
            \/ pc[g] = "upsert_run" /\ pc[h] = "runs_ddl"
<1>1. h \in waiting /\ pc[h] \in {"runs_ddl", "upsert_run"}
  BY DEF Precedes, Before, QueueOrder
<1>2. Mode(h) # Mode(g)
  BY DEF Precedes
<1>3. pc[g] \in {"runs_ddl", "upsert_run"}
  <2>1. CASE g \in waiting
    BY <2>1 DEF QueueOrder
  <2>2. CASE g \notin waiting
    <3>1. Table(h) = Table(g) /\ pc[g] \in DOMAIN LockOf
      BY <2>2 DEF Precedes, Before
    <3> QED
      BY <1>1, <3>1, Requests
  <2> QED
    BY <2>1, <2>2
<1> QED
  BY <1>1, <1>2, <1>3, Requests

\* The statements after the lock of the audit row is taken, or on the table of
\* the findings, never wait.
LEMMA OnlyRunsBlock ==
  ASSUME TypeOK, LocksHeld, OneWriter, QueueOrder, NEW g \in Gates, Blocked(g)
  PROVE  pc[g] \in {"runs_ddl", "upsert_run"}
<1>1. PICK h \in Gates : Holds(h, g) \/ Precedes(h, g)
  BY DEF Blocked, Blocks
<1> QED
  BY <1>1, Holders, Predecessors

\* The place of a request for the lock of the audit rows.
LEMMA Placed ==
  ASSUME TypeOK, QueueOrder, NEW g \in Gates, pc[g] \in {"runs_ddl", "upsert_run"},
         NEW h \in waiting
  PROVE  h \in Before(g) <=>
           ~Holds(g, h) /\ \A k \in waiting : <<k, h>> \in ahead => ~Holds(g, k)
<1>1. pc[h] \in {"runs_ddl", "upsert_run"} /\ h \in Gates
  BY DEF QueueOrder, TypeOK
<1>2. Table(h) = Table(g)
  BY <1>1, Requests
<1> QED
  BY <1>2 DEF Before

LEMMA QueueStep ==
  ASSUME IInv, [Next]_vars
  PROVE  QueueOrder'
<1>0. /\ pc \in [Gates -> {"verify"} \cup InTransaction \cup Ended]
      /\ waiting \subseteq Gates /\ ahead \subseteq Gates \X Gates
      /\ TypeOK /\ LocksHeld /\ OneWriter /\ QueueOrder
  BY DEF IInv, TypeOK
<1>1. CASE UNCHANGED vars
  BY <1>0, <1>1 DEF vars, QueueOrder
<1>2. ASSUME NEW g \in Gates, UNCHANGED queue, pc[g] \notin {"runs_ddl", "upsert_run"},
             NEW label, pc' = [pc EXCEPT ![g] = label]
      PROVE  QueueOrder'
  <2>1. g \notin waiting
    BY <1>0, <1>2 DEF QueueOrder
  <2>2. \A h \in waiting : pc'[h] = pc[h]
    BY <1>0, <1>2, <2>1
  <2> QED
    BY <1>0, <1>2, <2>2 DEF QueueOrder, queue
<1>3. ASSUME NEW g \in Gates, Leave(g), NEW label, pc' = [pc EXCEPT ![g] = label]
      PROVE  QueueOrder'
  <2>1. \A h \in waiting' : h \in waiting /\ pc'[h] = pc[h]
    BY <1>0, <1>3 DEF Leave
  <2>2. \A p \in ahead' : p \in ahead /\ p[1] \in waiting' /\ p[2] \in waiting'
    BY <1>0, <1>3 DEF Leave, QueueOrder
  <2> QED
    BY <1>0, <2>1, <2>2 DEF QueueOrder
<1>4. ASSUME NEW g \in Gates, Wait(g) PROVE QueueOrder'
  <2>1. /\ g \notin waiting /\ waiting' = waiting \cup {g} /\ pc' = pc
        /\ pc[g] \in {"runs_ddl", "upsert_run"}
    BY <1>0, <1>4, WaitResult, OnlyRunsBlock
  <2>2. \A h, k : <<h, k>> \in ahead' =>
          \/ <<h, k>> \in ahead /\ h # g /\ k # g
          \/ k = g /\ h \in waiting /\ h \in Before(g)
          \/ h = g /\ k \in waiting /\ k \notin Before(g)
    BY <1>0, <1>4, <2>1 DEF Wait, QueueOrder, Before
  <2>3. \A p \in ahead' : p[1] \in waiting' /\ p[2] \in waiting'
    BY <1>0, <1>4, <2>1 DEF Wait, QueueOrder, Before
  <2>4. \A h \in waiting : h \in Before(g) <=>
          ~Holds(g, h) /\ \A k \in waiting : <<k, h>> \in ahead => ~Holds(g, k)
    BY <1>0, <2>1, Placed
  <2>5. \A h \in waiting : Holds(g, h) <=> pc[g] = "upsert_run" /\ pc[h] = "upsert_run"
    <3>1. ~Writing(g) /\ (Locking(g) <=> pc[g] = "upsert_run")
      BY <2>1 DEF Writing, Locking
    <3> QED
      BY <1>0, <2>1, <3>1, Holders
  <2>6. \A a, b, c \in waiting' :
          /\ pc[a] = "upsert_run" /\ pc[b] = "runs_ddl" /\ pc[c] = "upsert_run"
          /\ <<b, a>> \in ahead'
          => <<c, b>> \notin ahead'
    <3> SUFFICES ASSUME NEW a \in waiting', NEW b \in waiting', NEW c \in waiting',
                        pc[a] = "upsert_run", pc[b] = "runs_ddl", pc[c] = "upsert_run",
                        <<b, a>> \in ahead', <<c, b>> \in ahead'
                 PROVE  FALSE
      OBVIOUS
    <3>1. a # b /\ c # b
      OBVIOUS
    <3>2. CASE b = g
      BY <2>1, <2>2, <2>4, <2>5, <3>1, <3>2
    <3>3. CASE b # g /\ a = g
      BY <2>1, <2>2, <2>4, <2>5, <3>1, <3>3
    <3>4. CASE b # g /\ a # g /\ c = g
      <4>1. b \in waiting /\ b \notin Before(g) /\ a \in waiting /\ <<b, a>> \in ahead
        BY <2>1, <2>2, <3>4
      <4>2. PICK k \in waiting : <<k, b>> \in ahead /\ pc[k] = "upsert_run"
        BY <2>4, <2>5, <4>1
      <4> QED
        BY <1>0, <4>1, <4>2 DEF QueueOrder
    <3>5. CASE b # g /\ a # g /\ c # g
      BY <1>0, <2>1, <2>2, <3>5 DEF QueueOrder
    <3> QED
      BY <3>2, <3>3, <3>4, <3>5
  <2>7. \A h \in waiting' : pc'[h] \in {"runs_ddl", "upsert_run"}
    BY <1>0, <2>1 DEF QueueOrder
  <2> QED
    BY <2>1, <2>3, <2>6, <2>7 DEF QueueOrder
<1>5. ASSUME NEW g \in Gates, Verify(g) \/ Finish(g) PROVE QueueOrder'
  BY <1>0, <1>2, <1>5, VerifyResult, FinishResult
<1>6. ASSUME NEW g \in Gates, RunsDdl(g) \/ FindingsDdl(g) \/ UpsertRun(g) \/ UpsertFinding(g)
      PROVE  QueueOrder'
  BY <1>0, <1>3, <1>6, StatementResult
<1>7. ASSUME NEW g \in Gates, Commit(g) \/ CommitUnanswered(g) PROVE QueueOrder'
  BY <1>0, <1>2, <1>7, CommitResult
<1>8. ASSUME NEW g \in Gates, DeadlockVictim(g) \/ Interrupt(g) PROVE QueueOrder'
  BY <1>3, <1>8, AbortResult
<1> QED
  BY <1>1, <1>4, <1>5, <1>6, <1>7, <1>8, Steps

LEMMA RowsStep ==
  ASSUME IInv, [Next]_vars
  PROVE  RowsBehind' /\ VerdictInHand'
<1> USE DEF IInv, RowsBehind, VerdictInHand, InTransaction, Ended
<1>0. /\ pc \in [Gates -> {"verify"} \cup InTransaction \cup Ended]
      /\ contract \in [Gates -> 1..NumContracts + 1]
      /\ verdict \in [Gates -> {"none", "passed", "failed"}]
      /\ observed \in [Gates -> [Contracts -> Counts \cup {None}]]
      /\ runs \in [Gates -> [Contracts -> {"none", "passed", "failed"}]]
  BY DEF TypeOK
<1>1. CASE UNCHANGED vars
  BY <1>1 DEF vars
<1>2. ASSUME NEW g \in Gates, Verify(g) PROVE RowsBehind' /\ VerdictInHand'
  <2>1. contract[g] \in Contracts /\ pc[g] = "verify"
        /\ pc' = [pc EXCEPT ![g] = "runs_ddl"]
        /\ UNCHANGED <<runs, findings, contract>>
    BY <1>2, VerifyResult
  <2>2. PICK status \in {"passed", "failed"}, count \in Counts \cup {None} :
          /\ verdict' = [verdict EXCEPT ![g] = status]
          /\ observed' = [observed EXCEPT ![g][contract[g]] = count]
          /\ status = "passed" => count = Expected[contract[g]]
    BY <1>2, VerifyResult
  <2>3. RowsBehind'
    <3>1. ASSUME NEW h \in Gates, NEW c \in Contracts, c < contract[h]
          PROVE  observed'[h][c] = observed[h][c]
      <4>1. h = g => c # contract[g]
        BY <1>0, <3>1, ConstantsAssumption DEF Contracts
      <4> QED
        BY <1>0, <2>2, <4>1
    <3>2. \A h \in Gates : pc'[h] \notin Ended => pc[h] \notin Ended
      BY <1>0, <2>1
    <3>3. \A h \in Gates : pc'[h] # "failed" => pc[h] # "failed"
      BY <1>0, <2>1
    <3> SUFFICES ASSUME NEW h \in Gates, NEW c \in Contracts
                 PROVE  /\ c < contract[h] => runs[h][c] = "passed" /\ observed'[h][c] = Expected[c]
                        /\ c >= contract[h] /\ pc'[h] \notin Ended => runs[h][c] = "none"
                        /\ pc'[h] # "failed" => <<h, c>> \notin findings
      BY <2>1
    <3>4. /\ c < contract[h] => runs[h][c] = "passed" /\ observed[h][c] = Expected[c]
          /\ c >= contract[h] /\ pc[h] \notin Ended => runs[h][c] = "none"
          /\ pc[h] # "failed" => <<h, c>> \notin findings
      OBVIOUS
    <3> QED
      BY <3>1, <3>2, <3>3, <3>4
  <2>4. VerdictInHand'
    BY <1>0, <2>1, <2>2
  <2> QED
    BY <2>3, <2>4
<1>3. ASSUME NEW g \in Gates, Finish(g) PROVE RowsBehind' /\ VerdictInHand'
  <2>1. /\ pc[g] = "verify" /\ contract[g] \notin Contracts
        /\ pc' = [pc EXCEPT ![g] = "passed"] \/ pc' = [pc EXCEPT ![g] = "failed"]
        /\ UNCHANGED <<runs, findings, contract, verdict, observed>>
    BY <1>3, FinishResult
  <2> QED
    BY <1>0, <2>1
<1>4. ASSUME NEW g \in Gates, RunsDdl(g) \/ FindingsDdl(g) \/ UpsertRun(g) \/ UpsertFinding(g)
      PROVE  RowsBehind' /\ VerdictInHand'
  <2>1. UNCHANGED <<runs, findings, contract, verdict, observed>>
    BY <1>4, StatementResult
  <2>2. pc[g] \in InTransaction
        /\ \E next \in InTransaction : pc' = [pc EXCEPT ![g] = next]
    BY <1>4, StatementResult
  <2> QED
    BY <1>0, <2>1, <2>2
<1>5. ASSUME NEW g \in Gates, Commit(g) \/ CommitUnanswered(g)
      PROVE  RowsBehind' /\ VerdictInHand'
  <2>1. /\ pc[g] = "commit" /\ Written(g)
        /\ UNCHANGED <<verdict, observed>>
        /\ \/ pc' = [pc EXCEPT ![g] = "failed"] /\ contract' = contract
           \/ /\ verdict[g] = "passed" /\ pc' = [pc EXCEPT ![g] = "verify"]
              /\ contract' = [contract EXCEPT ![g] = contract[g] + 1]
    BY <1>5, CommitResult
  <2>2. contract[g] \in Contracts /\ verdict[g] \in {"passed", "failed"}
        /\ (verdict[g] = "passed" => observed[g][contract[g]] = Expected[contract[g]])
    BY <2>1
  <2>3. \A h \in Gates, c \in Contracts :
          runs'[h][c] = IF h = g /\ c = contract[g] THEN verdict[g] ELSE runs[h][c]
    BY <1>0, <2>1, <2>2 DEF Written
  <2>4. \A h \in Gates, c \in Contracts :
          <<h, c>> \in findings' =>
            <<h, c>> \in findings \/ (h = g /\ verdict[g] = "failed")
    BY <2>1 DEF Written
  <2>5. ASSUME NEW h \in Gates, NEW c \in Contracts, h # g
        PROVE  /\ c < contract'[h] => runs'[h][c] = "passed" /\ observed'[h][c] = Expected[c]
               /\ c >= contract'[h] /\ pc'[h] \notin Ended => runs'[h][c] = "none"
               /\ pc'[h] # "failed" => <<h, c>> \notin findings'
    BY <1>0, <2>1, <2>3, <2>4, <2>5
  <2>6. ASSUME NEW c \in Contracts
        PROVE  /\ c < contract'[g] => runs'[g][c] = "passed" /\ observed'[g][c] = Expected[c]
               /\ c >= contract'[g] /\ pc'[g] \notin Ended => runs'[g][c] = "none"
               /\ pc'[g] # "failed" => <<g, c>> \notin findings'
    <3>1. /\ c < contract[g] => runs[g][c] = "passed" /\ observed[g][c] = Expected[c]
          /\ c >= contract[g] => runs[g][c] = "none"
          /\ <<g, c>> \notin findings
      BY <2>1
    <3>2. c \in Int /\ contract[g] \in Int /\ observed'[g][c] = observed[g][c]
      BY <1>0, <2>1, ConstantsAssumption DEF Contracts
    <3>3. CASE pc' = [pc EXCEPT ![g] = "failed"] /\ contract' = contract
      <4>1. pc'[g] = "failed" /\ contract'[g] = contract[g]
        BY <1>0, <3>3
      <4>2. c < contract[g] => runs'[g][c] = runs[g][c]
        BY <2>3, <3>2
      <4> QED
        BY <3>1, <3>2, <4>1, <4>2
    <3>4. CASE /\ verdict[g] = "passed" /\ pc' = [pc EXCEPT ![g] = "verify"]
               /\ contract' = [contract EXCEPT ![g] = contract[g] + 1]
      <4>1. pc'[g] = "verify" /\ contract'[g] = contract[g] + 1
        BY <1>0, <3>4
      <4>2. runs'[g][c] = IF c = contract[g] THEN "passed" ELSE runs[g][c]
        BY <2>3, <3>4
      <4>3. c = contract[g] => observed[g][c] = Expected[c]
        BY <2>2, <3>4
      <4>4. c < contract[g] + 1 => runs'[g][c] = "passed" /\ observed'[g][c] = Expected[c]
        BY <3>1, <3>2, <4>2, <4>3
      <4>5. c >= contract[g] + 1 => runs'[g][c] = "none"
        BY <3>1, <3>2, <4>2
      <4>6. <<g, c>> \notin findings'
        BY <2>4, <3>1, <3>4
      <4> QED
        BY <4>1, <4>4, <4>5, <4>6
    <3> QED
      BY <2>1, <3>3, <3>4
  <2>7. RowsBehind'
    <3> SUFFICES ASSUME NEW h \in Gates, NEW c \in Contracts
                 PROVE  /\ c < contract'[h] => runs'[h][c] = "passed" /\ observed'[h][c] = Expected[c]
                        /\ c >= contract'[h] /\ pc'[h] \notin Ended => runs'[h][c] = "none"
                        /\ pc'[h] # "failed" => <<h, c>> \notin findings'
      OBVIOUS
    <3>1. CASE h # g
      BY <3>1, <2>5
    <3>2. CASE h = g
      BY <3>2, <2>6
    <3> QED
      BY <3>1, <3>2
  <2>8. VerdictInHand'
    <3>1. pc'[g] \in {"verify", "failed"}
      BY <1>0, <2>1
    <3>2. \A h \in Gates \ {g} : pc'[h] = pc[h] /\ contract'[h] = contract[h]
      BY <1>0, <2>1
    <3>3. ASSUME NEW h \in Gates \ {g}
          PROVE  /\ pc'[h] \in InTransaction =>
                      /\ contract'[h] \in Contracts
                      /\ verdict'[h] \in {"passed", "failed"}
                      /\ verdict'[h] = "passed" => observed'[h][contract'[h]] = Expected[contract'[h]]
                 /\ pc'[h] = "passed" => contract'[h] \notin Contracts
      BY <2>1, <3>2
    <3> QED
      BY <3>1, <3>3
  <2> QED
    BY <2>7, <2>8
<1>6. ASSUME NEW g \in Gates, DeadlockVictim(g) \/ Interrupt(g)
      PROVE  RowsBehind' /\ VerdictInHand'
  <2>1. /\ pc' = [pc EXCEPT ![g] = "failed"]
        /\ UNCHANGED <<runs, findings, contract, verdict, observed>>
    BY <1>6, AbortResult
  <2> QED
    BY <1>0, <2>1
<1>7. ASSUME NEW g \in Gates, Wait(g) PROVE RowsBehind' /\ VerdictInHand'
  <2>1. UNCHANGED <<runs, findings, pc, contract, verdict, observed>>
    BY <1>7, WaitResult
  <2> QED
    BY <2>1
<1> QED
  BY <1>1, <1>2, <1>3, <1>4, <1>5, <1>6, <1>7, Steps

\* The locks and rows of every gate are those of the statements and contracts
\* behind it.
THEOREM InductiveInvariant == Spec => []IInv
<1>1. IInv /\ [Next]_vars => IInv'
  BY TypeStep, LocksStep, QueueStep, RowsStep DEF IInv
<1> QED
  BY IInvInit, <1>1, PTL DEF Spec

\* The variables keep their types, whatever soda prints and PostgreSQL refuses.
THEOREM TypeCorrect == Spec => []TypeOK
<1>1. IInv => TypeOK
  BY DEF IInv
<1> QED
  BY <1>1, InductiveInvariant, PTL

\* A transaction that has written its row shares the tables with no other: a
\* deadlock always comes before anything is written.
THEOREM WriterIsAlone == Spec => []WriterAlone
<1>1. IInv => WriterAlone
  <2> SUFFICES ASSUME IInv, NEW g \in Gates, <<g, "runs", "write">> \in held
               PROVE  (\A k \in held : k[1] = g) /\ ~Blocked(g)
    BY DEF WriterAlone
  <2>1. Writing(g)
    BY DEF IInv, LocksHeld
  <2>2. \A k \in held : k[1] \in Gates /\ Locking(k[1])
    BY DEF IInv, LocksHeld, TypeOK
  <2>3. \A k \in held : k[1] = g
    BY <2>1, <2>2 DEF IInv, OneWriter
  <2>4. pc[g] \notin {"runs_ddl", "upsert_run"}
    BY <2>1 DEF Writing
  <2> QED
    BY <2>3, <2>4, OnlyRunsBlock DEF IInv
<1> QED
  BY <1>1, InductiveInvariant, PTL

\* A blocked transaction that holds a lock waits for its like only: what blocks
\* it can go on, or is blocked by it in turn.
LEMMA UpsertBlocked ==
  ASSUME IInv, NEW b \in Gates, NEW c \in Gates, pc[b] = "upsert_run", Holds(c, b)
  PROVE  ~Blocked(c) \/ Holds(b, c)
<1>1. Locking(c) /\ c # b
  BY Holders DEF IInv
<1>2. Blocked(c) => pc[c] = "upsert_run"
  BY <1>1, OnlyRunsBlock DEF IInv, Locking
<1> QED
  BY <1>1, <1>2, Holders DEF IInv, Locking

\* A new transaction that others wait behind can go on.
LEMMA NewcomerGoesOn ==
  ASSUME IInv, NEW a \in Gates, NEW b \in Gates, pc[b] = "runs_ddl", Blocks(b, a)
  PROVE  ~Blocked(b)
<1>1. ~Locking(b) /\ ~Writing(b)
  BY DEF Locking, Writing
<1>2. Precedes(b, a)
  BY <1>1, Holders DEF IInv, Blocks
<1>3. b \in waiting /\ pc[a] = "upsert_run"
  BY <1>2, Predecessors DEF IInv
<1>4. Locking(a) /\ a # b
  BY <1>3 DEF Locking
<1> SUFFICES ASSUME NEW c \in Gates, Blocks(c, b) PROVE FALSE
  BY DEF Blocked
<1>5. CASE Holds(c, b)
  <2>1. Writing(c)
    BY <1>5, Holders DEF IInv
  <2> QED
    BY <1>3, <1>4, <2>1 DEF IInv, OneWriter, Writing
<1>6. CASE Precedes(c, b)
  <2>1. c \in waiting /\ pc[c] = "upsert_run" /\ <<c, b>> \in ahead
    BY <1>3, <1>6, Predecessors DEF IInv, Precedes
  <2>2. CASE a \in waiting
    <3>1. <<b, a>> \in ahead
      BY <1>2, <2>2 DEF Precedes
    <3> QED
      BY <1>3, <2>1, <2>2, <3>1 DEF IInv, QueueOrder
  <2>3. CASE a \notin waiting
    <3>1. b \in Before(a)
      BY <1>2, <2>3 DEF Precedes
    <3>2. ~Holds(a, c)
      BY <2>1, <3>1 DEF Before
    <3>3. a # c
      BY <2>1, <2>3
    <3> QED
      BY <1>4, <2>1, <3>2, <3>3, Holders DEF IInv
  <2> QED
    BY <2>2, <2>3
<1> QED
  BY <1>5, <1>6 DEF Blocks

\* A line of waiting gates is two steps long at most, and ends at a gate that
\* goes on or at a pair that holds what the other asks for: breaking up pairs is
\* all that PostgreSQL has to do, with its queue of requests as well.
THEOREM LinesAreShort == Spec => []WaitsEnd
<1>1. IInv => WaitsEnd
  <2> SUFFICES ASSUME IInv, NEW a \in Gates, NEW b \in Gates, Blocks(b, a)
               PROVE  /\ pc[b] \in InTransaction
                      /\ \A c \in Gates :
                           Blocks(c, b) => ~Blocked(c) \/ (Holds(b, c) /\ Holds(c, b))
    BY DEF WaitsEnd
  <2>1. pc[b] \in InTransaction
    <3>1. Holds(b, a) => Locking(b)
      BY Holders DEF IInv, Writing, Locking
    <3>2. Precedes(b, a) => pc[b] \in {"runs_ddl", "upsert_run"}
      BY Predecessors DEF IInv
    <3> QED
      BY <3>1, <3>2 DEF Blocks, Locking, InTransaction
  <2>2. ASSUME NEW c \in Gates, Blocks(c, b)
        PROVE  ~Blocked(c) \/ (Holds(b, c) /\ Holds(c, b))
    <3>1. Blocked(b)
      BY <2>2 DEF Blocked
    <3>2. pc[b] = "upsert_run"
      BY <3>1, OnlyRunsBlock, NewcomerGoesOn DEF IInv
    <3>3. CASE Holds(c, b)
      BY <3>2, <3>3, UpsertBlocked
    <3>4. CASE Precedes(c, b)
      <4>1. pc[c] = "runs_ddl"
        BY <3>2, <3>4, Predecessors DEF IInv
      <4> QED
        BY <2>2, <4>1, NewcomerGoesOn
    <3> QED
      BY <2>2, <3>3, <3>4 DEF Blocks
  <2> QED
    BY <2>1, <2>2
<1> QED
  BY <1>1, InductiveInvariant, PTL

-----------------------------------------------------------------------------
\* Every step takes one gate forward.

\* The statements a gate has before it, at most, in the turn it is in.
Left(label) ==
  CASE label = "verify" -> 6
    [] label = "runs_ddl" -> 5
    [] label = "findings_ddl" -> 4
    [] label = "upsert_run" -> 3
    [] label = "upsert_finding" -> 2
    [] label = "commit" -> 1
    [] OTHER -> 0

\* The same for the whole of its run.
Statements(g) == 6 * (NumContracts + 1 - contract[g]) + Left(pc[g])

\* Each statement may take two steps, the first one into the queue.
Remaining(g) ==
  IF pc[g] \in Ended THEN 0
  ELSE 2 * Statements(g) - IF g \in waiting THEN 1 ELSE 0

\* A step brings one gate nearer to its end and leaves the others where they
\* are; nothing, a deadlock or a fault included, sets a gate back or starts its
\* transaction again.
Advances ==
  \E g \in Gates :
    /\ Remaining(g)' < Remaining(g)
    /\ \A h \in Gates \ {g} : Remaining(h)' = Remaining(h)

LEMMA RemainingNat ==
  ASSUME IInv, NEW g \in Gates
  PROVE  /\ Remaining(g) \in Nat
         /\ pc[g] \notin Ended => Remaining(g) > 0
<1>1. contract[g] \in 1..NumContracts + 1 /\ NumContracts \in Nat
  BY ConstantsAssumption DEF IInv, TypeOK
<1>2. pc[g] \in {"verify"} \cup InTransaction \cup Ended
  BY DEF IInv, TypeOK
<1>3. Left(pc[g]) \in 0..6 /\ (pc[g] \notin Ended => Left(pc[g]) \in 1..6)
  BY <1>2 DEF Left, InTransaction, Ended
<1>4. Statements(g) \in Nat /\ (pc[g] \notin Ended => Statements(g) > 0)
  <2> HIDE DEF Left
  <2> QED
    BY <1>1, <1>3 DEF Statements
<1> HIDE DEF Statements
<1> QED
  BY <1>4 DEF Remaining

\* A step of one gate that goes down.
LEMMA Forward ==
  ASSUME IInv, NEW g \in Gates, pc[g] \notin Ended,
         \A h \in Gates \ {g} : h \in waiting' <=> h \in waiting,
         NEW label, pc' = [pc EXCEPT ![g] = label],
         \/ label \in Ended /\ contract' = contract
         \/ label \notin Ended /\ contract' = contract /\ Left(label) < Left(pc[g])
         \/ /\ label = "verify" /\ pc[g] = "commit"
            /\ contract' = [contract EXCEPT ![g] = contract[g] + 1]
  PROVE  Advances
<1>1. /\ pc \in [Gates -> {"verify"} \cup InTransaction \cup Ended]
      /\ contract \in [Gates -> 1..NumContracts + 1]
  BY DEF IInv, TypeOK
<1>2. \A h \in Gates \ {g} : pc'[h] = pc[h] /\ contract'[h] = contract[h]
  BY <1>1
<1>3. \A h \in Gates \ {g} : Remaining(h)' = Remaining(h)
  BY <1>2 DEF Remaining, Statements, Left
<1>4. pc'[g] = label
  BY <1>1
<1>5. Remaining(g)' < Remaining(g)
  <2>1. contract[g] \in 1..NumContracts + 1 /\ NumContracts \in Nat
    BY <1>1, ConstantsAssumption
  <2>2. CASE label \in Ended
    <3>1. Remaining(g)' = 0
      BY <1>4, <2>2 DEF Remaining
    <3> QED
      BY <3>1, RemainingNat
  <2>3. CASE label \notin Ended
    <3>1. Statements(g)' < Statements(g)
      <4>1. Statements(g) = 6 * (NumContracts + 1 - contract[g]) + Left(pc[g])
        BY DEF Statements
      <4>2. Statements(g)' = 6 * (NumContracts + 1 - contract'[g]) + Left(label)
        BY <1>4 DEF Statements, Left
      <4>3. Left(label) \in Int /\ Left(pc[g]) \in Int
        BY DEF Left
      <4>4. CASE contract' = contract /\ Left(label) < Left(pc[g])
        BY <2>1, <4>1, <4>2, <4>3, <4>4
      <4>5. CASE /\ label = "verify" /\ pc[g] = "commit"
                 /\ contract' = [contract EXCEPT ![g] = contract[g] + 1]
        <5>1. contract'[g] = contract[g] + 1 /\ Left(label) = 6 /\ Left(pc[g]) = 1
          BY <1>1, <4>5 DEF Left
        <5> QED
          BY <2>1, <4>1, <4>2, <5>1
      <4> QED
        BY <2>3, <4>4, <4>5
    <3>2. Statements(g) \in Int /\ Statements(g)' \in Int
      <4>1. contract'[g] \in Int
        BY <1>1, <2>1
      <4>2. Left(pc[g]) \in Int /\ Left(label) \in Int
        BY DEF Left
      <4>3. Statements(g)' = 6 * (NumContracts + 1 - contract'[g]) + Left(label)
        BY <1>4 DEF Statements, Left
      <4> QED
        BY <2>1, <4>1, <4>2, <4>3 DEF Statements
    <3> HIDE DEF Statements
    <3> QED
      BY <1>4, <2>3, <3>1, <3>2 DEF Remaining
  <2> QED
    BY <2>2, <2>3
<1> QED
  BY <1>3, <1>5 DEF Advances

\* No gate is ever set back: with LinesAreShort, and the fairness of
\* FairSpec, this is why every gate ends, however many there are.
THEOREM StepsAdvance == Spec => [][Advances]_vars
<1>1. ASSUME IInv, [Next]_vars PROVE [Advances]_vars
  <2>1. ASSUME NEW g \in Gates, Verify(g) PROVE Advances
    <3>1. /\ pc[g] = "verify" /\ pc' = [pc EXCEPT ![g] = "runs_ddl"]
          /\ contract' = contract /\ waiting' = waiting
      BY <1>1, <2>1, VerifyResult DEF IInv, queue
    <3>2. "verify" \notin Ended /\ "runs_ddl" \notin Ended /\ Left("runs_ddl") < Left("verify")
      BY DEF Ended, Left
    <3> QED
      BY <1>1, <3>1, <3>2, Forward
  <2>2. ASSUME NEW g \in Gates, RunsDdl(g) \/ FindingsDdl(g) \/ UpsertRun(g) \/ UpsertFinding(g)
        PROVE  Advances
    <3>1. PICK label \in InTransaction :
            /\ pc' = [pc EXCEPT ![g] = label]
            /\ \/ pc[g] = "runs_ddl" /\ label = "findings_ddl"
               \/ pc[g] = "findings_ddl" /\ label = "upsert_run"
               \/ pc[g] = "upsert_run" /\ label \in {"upsert_finding", "commit"}
               \/ pc[g] = "upsert_finding" /\ label = "commit"
      BY <1>1, <2>2, StatementResult DEF IInv, InTransaction
    <3>2. label \notin Ended /\ pc[g] \notin Ended /\ Left(label) < Left(pc[g])
      BY <3>1 DEF Ended, Left
    <3>3. contract' = contract /\ waiting' = waiting \ {g}
      BY <1>1, <2>2, StatementResult DEF IInv, Leave
    <3> QED
      BY <1>1, <3>1, <3>2, <3>3, Forward
  <2>3. ASSUME NEW g \in Gates, Commit(g) \/ CommitUnanswered(g) PROVE Advances
    <3>1. /\ pc[g] = "commit" /\ waiting' = waiting
          /\ \/ pc' = [pc EXCEPT ![g] = "failed"] /\ contract' = contract
             \/ /\ pc' = [pc EXCEPT ![g] = "verify"]
                /\ contract' = [contract EXCEPT ![g] = contract[g] + 1]
      BY <2>3, CommitResult DEF queue
    <3>2. pc[g] \notin Ended /\ "failed" \in Ended
      BY <3>1 DEF Ended
    <3> QED
      BY <1>1, <3>1, <3>2, Forward
  <2>4. ASSUME NEW g \in Gates, Finish(g) PROVE Advances
    <3>1. /\ pc[g] = "verify" /\ contract' = contract /\ waiting' = waiting
          /\ pc' = [pc EXCEPT ![g] = "passed"] \/ pc' = [pc EXCEPT ![g] = "failed"]
      BY <2>4, FinishResult DEF queue
    <3>2. pc[g] \notin Ended /\ "passed" \in Ended /\ "failed" \in Ended
      BY <3>1 DEF Ended
    <3> QED
      BY <1>1, <3>1, <3>2, Forward
  <2>5. ASSUME NEW g \in Gates, DeadlockVictim(g) \/ Interrupt(g) PROVE Advances
    <3>1. /\ pc[g] \notin Ended /\ pc' = [pc EXCEPT ![g] = "failed"]
          /\ contract' = contract /\ waiting' = waiting \ {g}
      BY <2>5, AbortResult DEF Leave
    <3>2. "failed" \in Ended
      BY DEF Ended
    <3> QED
      BY <1>1, <3>1, <3>2, Forward
  <2>6. ASSUME NEW g \in Gates, Wait(g) PROVE Advances
    <3>1. /\ g \notin waiting /\ waiting' = waiting \cup {g}
          /\ pc' = pc /\ contract' = contract /\ Blocked(g)
      BY <2>6, WaitResult
    <3>2. \A h \in Gates : Statements(h)' = Statements(h)
      BY <3>1 DEF Statements, Left
    <3>3. pc[g] \notin Ended
      BY <1>1, <3>1, OnlyRunsBlock DEF IInv, Ended
    <3>4. 2 * Statements(g) \in Int
      <4>1. contract[g] \in Int /\ NumContracts \in Int /\ Left(pc[g]) \in Int
        BY <1>1, ConstantsAssumption DEF IInv, TypeOK, Left
      <4> QED
        BY <4>1 DEF Statements
    <3>5. Remaining(g)' < Remaining(g)
      <4> HIDE DEF Statements
      <4> QED
        BY <3>1, <3>2, <3>3, <3>4 DEF Remaining
    <3>6. \A h \in Gates \ {g} : Remaining(h)' = Remaining(h)
      BY <3>1, <3>2 DEF Remaining
    <3> QED
      BY <3>5, <3>6 DEF Advances
  <2> QED
    BY <1>1, <2>1, <2>2, <2>3, <2>4, <2>5, <2>6, Steps
<1>2. IInv /\ [Next]_vars => [Advances]_vars
  BY <1>1
<1> QED
  BY <1>2, InductiveInvariant, PTL DEF Spec

-----------------------------------------------------------------------------
\* A passed gate has its complete and clean audit record.
THEOREM PassedHasAllRows == Spec => []PassedIsComplete
<1>1. IInv => PassedIsComplete
  BY ConstantsAssumption DEF IInv, TypeOK, RowsBehind, VerdictInHand, PassedIsComplete, Contracts
<1> QED
  BY <1>1, InductiveInvariant, PTL

-----------------------------------------------------------------------------
\* How a gate looks to QualityAudit.
Outcome(label) == IF label \in Ended THEN label ELSE "running"
Outcomes == [g \in Gates |-> IF pc[g] \in Ended THEN pc[g] ELSE "running"]

\* Moving one gate to another label changes its outcome at most.
LEMMA OutcomeStep ==
  ASSUME TypeOK, NEW g \in Gates, NEW label, pc' = [pc EXCEPT ![g] = label]
  PROVE  Outcomes' = [Outcomes EXCEPT ![g] = Outcome(label)] /\ Outcomes[g] = Outcome(pc[g])
  BY DEF Outcomes, Outcome, TypeOK

LEMMA AuditInit == Init => Audit!Init
  BY DEF Init, Audit!Init, Contracts, Audit!Contracts, Ended

\* A statement in the middle of a turn is invisible.
LEMMA QuietStep ==
  ASSUME TypeOK, NEW g \in Gates, NEW label,
         pc' = [pc EXCEPT ![g] = label], label \notin Ended, pc[g] \notin Ended,
         UNCHANGED <<runs, findings>>
  PROVE  UNCHANGED Audit!vars
<1>1. Outcomes' = [Outcomes EXCEPT ![g] = "running"] /\ Outcomes[g] = "running"
  BY OutcomeStep DEF Outcome
<1>2. Outcomes' = Outcomes
  BY <1>1 DEF Outcomes
<1> QED
  BY <1>2 DEF Audit!vars, Outcomes

\* A gate that ends without an audit row fails.
LEMMA FailStep ==
  ASSUME TypeOK, NEW g \in Gates, pc' = [pc EXCEPT ![g] = "failed"], pc[g] \notin Ended,
         UNCHANGED <<runs, findings>>
  PROVE  Audit!Fail(g)
<1>1. Outcomes' = [Outcomes EXCEPT ![g] = "failed"] /\ Outcomes[g] = "running"
  BY OutcomeStep DEF Outcome, Ended
<1> QED
  BY <1>1 DEF Audit!Fail, Outcomes

\* The rows of a gate before the contract in turn and from it on.
LEMMA RowsAt ==
  ASSUME IInv, NEW g \in Gates, NEW c \in Contracts
  PROVE  /\ c \in Nat /\ contract[g] \in Nat /\ contract[g] <= NumContracts + 1
         /\ c <= NumContracts
         /\ c < contract[g] => runs[g][c] = "passed"
         /\ c >= contract[g] /\ pc[g] \notin Ended => runs[g][c] = "none"
<1>1. contract[g] \in 1..NumContracts + 1
  BY DEF IInv, TypeOK
<1>2. c \in 1..NumContracts
  BY DEF Contracts
<1>3. /\ c < contract[g] => runs[g][c] = "passed"
      /\ c >= contract[g] /\ pc[g] \notin Ended => runs[g][c] = "none"
  BY DEF IInv, RowsBehind
<1> QED
  BY <1>1, <1>2, <1>3, ConstantsAssumption

LEMMA FinishStep ==
  ASSUME IInv, NEW g \in Gates, Finish(g)
  PROVE  Audit!Pass(g) \/ Audit!Fail(g)
<1>1. /\ pc[g] = "verify" /\ contract[g] \notin Contracts
      /\ pc' = [pc EXCEPT ![g] = "passed"] \/ pc' = [pc EXCEPT ![g] = "failed"]
      /\ UNCHANGED <<runs, findings>>
  BY FinishResult
<1>2. CASE pc' = [pc EXCEPT ![g] = "failed"]
  BY <1>1, <1>2, FailStep DEF Ended, IInv
<1>3. CASE pc' = [pc EXCEPT ![g] = "passed"]
  <2>1. Outcomes' = [Outcomes EXCEPT ![g] = "passed"] /\ Outcomes[g] = "running"
    BY <1>1, <1>3, OutcomeStep DEF Outcome, Ended, IInv
  <2>2. contract[g] = NumContracts + 1
    BY <1>1, ConstantsAssumption DEF IInv, TypeOK, Contracts
  <2>3. \A c \in Contracts : runs[g][c] = "passed"
    <3> SUFFICES ASSUME NEW c \in Contracts PROVE runs[g][c] = "passed"
      OBVIOUS
    <3>1. c \in Nat /\ c <= NumContracts /\ (c < contract[g] => runs[g][c] = "passed")
      BY RowsAt
    <3> QED
      BY <2>2, <3>1, ConstantsAssumption
  <2> QED
    BY <1>1, <2>1, <2>3 DEF Audit!Pass, Audit!Contracts, Contracts, Outcomes
<1> QED
  BY <1>1, <1>2, <1>3

LEMMA CommitStep ==
  ASSUME IInv, NEW g \in Gates, Commit(g) \/ CommitUnanswered(g)
  PROVE  \E c \in Audit!Contracts, status \in {"passed", "failed"} : Audit!Record(g, c, status)
<1>1. pc[g] = "commit" /\ Written(g)
      /\ (pc' = [pc EXCEPT ![g] = "failed"]
            \/ (verdict[g] = "passed" /\ pc' = [pc EXCEPT ![g] = "verify"]))
  BY CommitResult
<1>2. contract[g] \in Contracts /\ verdict[g] \in {"passed", "failed"}
  BY <1>1 DEF IInv, VerdictInHand, InTransaction
<1>3. runs[g][contract[g]] = "none"
  <2>1. contract[g] \in Nat
        /\ (contract[g] >= contract[g] /\ pc[g] \notin Ended => runs[g][contract[g]] = "none")
    BY <1>2, RowsAt
  <2>2. pc[g] \notin Ended
    BY <1>1 DEF Ended
  <2> QED
    BY <2>1, <2>2
<1>4. \A b \in 1..contract[g] - 1 : runs[g][b] = "passed"
  <2> SUFFICES ASSUME NEW b \in 1..contract[g] - 1 PROVE runs[g][b] = "passed"
    OBVIOUS
  <2>1. contract[g] \in 1..NumContracts
    BY <1>2 DEF Contracts
  <2>2. b \in Contracts /\ b < contract[g]
    BY <2>1, ConstantsAssumption DEF Contracts
  <2> QED
    BY <2>2, RowsAt
<1>5. Outcomes[g] = "running"
      /\ (Outcomes' = [Outcomes EXCEPT ![g] = "failed"]
            \/ (verdict[g] = "passed" /\ Outcomes' = [Outcomes EXCEPT ![g] = "running"]))
  BY <1>1, OutcomeStep DEF Outcome, Ended, IInv
<1>6. Outcomes' = [Outcomes EXCEPT ![g] = "failed"] \/ (verdict[g] = "passed" /\ Outcomes' = Outcomes)
  BY <1>5 DEF Outcomes
<1>7. PICK c \in Contracts, status \in {"passed", "failed"} : c = contract[g] /\ status = verdict[g]
  BY <1>2
<1>8. Audit!Record(g, c, status)
  BY <1>1, <1>3, <1>4, <1>5, <1>6, <1>7 DEF Audit!Record, Written, Outcomes
<1>9. c \in Audit!Contracts
  BY DEF Contracts, Audit!Contracts
<1> QED
  BY <1>8, <1>9

LEMMA AuditStep ==
  ASSUME IInv, [Next]_vars
  PROVE  [Audit!Next]_Audit!vars
<1> USE DEF IInv
<1>1. CASE UNCHANGED vars
  BY <1>1 DEF vars, Audit!vars
<1>2. ASSUME NEW g \in Gates, Verify(g) PROVE UNCHANGED Audit!vars
  <2>1. pc[g] = "verify" /\ pc' = [pc EXCEPT ![g] = "runs_ddl"] /\ UNCHANGED <<runs, findings>>
    BY <1>2, VerifyResult
  <2>2. "runs_ddl" \notin Ended /\ pc[g] \notin Ended
    BY <2>1 DEF Ended
  <2> QED
    BY <2>1, <2>2, QuietStep
<1>3. ASSUME NEW g \in Gates, Finish(g) PROVE Audit!Next
  BY <1>3, FinishStep DEF Audit!Next
<1>4. ASSUME NEW g \in Gates, RunsDdl(g) \/ FindingsDdl(g) \/ UpsertRun(g) \/ UpsertFinding(g)
      PROVE  UNCHANGED Audit!vars
  <2>1. PICK label \in InTransaction : pc' = [pc EXCEPT ![g] = label]
    BY <1>4, StatementResult DEF InTransaction
  <2>2. pc[g] \in InTransaction /\ UNCHANGED <<runs, findings>>
    BY <1>4, StatementResult DEF InTransaction
  <2>3. label \notin Ended /\ pc[g] \notin Ended
    BY <2>1, <2>2 DEF InTransaction, Ended
  <2> QED
    BY <2>1, <2>2, <2>3, QuietStep
<1>5. ASSUME NEW g \in Gates, Commit(g) \/ CommitUnanswered(g) PROVE Audit!Next
  BY <1>5, CommitStep DEF Audit!Next
<1>6. ASSUME NEW g \in Gates, DeadlockVictim(g) \/ Interrupt(g) PROVE Audit!Next
  BY <1>6, AbortResult, FailStep DEF Audit!Next
<1>7. ASSUME NEW g \in Gates, Wait(g) PROVE UNCHANGED Audit!vars
  BY <1>7, WaitResult DEF Audit!vars
<1> QED
  BY <1>1, <1>2, <1>3, <1>4, <1>5, <1>6, <1>7, Steps

\* The audit tables are what QualityAudit says: rows in the order of the
\* contracts, the failed one last and together with its finding.
THEOREM GateImplementsAudit == Spec => ImplementsAudit
<1>1. IInv /\ [Next]_vars => [Audit!Next]_Audit!vars
  BY AuditStep
<1> QED
  BY <1>1, AuditInit, InductiveInvariant, PTL DEF Spec, ImplementsAudit, Audit!Spec

-----------------------------------------------------------------------------
\* A launcher that has seen SUCCESS has seen a gate that is passed for good.
SuccessIsPassed == launcher = "succeeded" => pc[Launched] = "passed"

LEMMA PassedStays ==
  ASSUME TypeOK, NEW h \in Gates, pc[h] = "passed", [Next]_vars
  PROVE  pc'[h] = "passed"
<1>1. CASE UNCHANGED vars
  BY <1>1 DEF vars
<1>2. ASSUME NEW g \in Gates, pc[g] \notin Ended, NEW label, pc' = [pc EXCEPT ![g] = label]
      PROVE  pc'[h] = "passed"
  BY <1>2 DEF TypeOK, Ended
<1>3. ASSUME NEW g \in Gates, Verify(g) \/ Finish(g) PROVE pc'[h] = "passed"
  BY <1>2, <1>3 DEF Verify, Finish, Goto, Ended
<1>4. ASSUME NEW g \in Gates, RunsDdl(g) \/ FindingsDdl(g) \/ UpsertRun(g) \/ UpsertFinding(g)
      PROVE  pc'[h] = "passed"
  BY <1>2, <1>4 DEF RunsDdl, FindingsDdl, UpsertRun, UpsertFinding, Goto, Ended
<1>5. ASSUME NEW g \in Gates, Commit(g) \/ CommitUnanswered(g) PROVE pc'[h] = "passed"
  BY <1>2, <1>5, CommitResult DEF Ended
<1>6. ASSUME NEW g \in Gates, DeadlockVictim(g) \/ Interrupt(g) PROVE pc'[h] = "passed"
  BY <1>2, <1>6, AbortResult
<1>7. ASSUME NEW g \in Gates, Wait(g) PROVE pc'[h] = "passed"
  BY <1>7, WaitResult
<1> QED
  BY <1>1, <1>3, <1>4, <1>5, <1>6, <1>7, Steps

\* Exit code 0 of the launcher stands for the audit rows of the launched run,
\* whatever other gates, terminations and its own deadline do.
THEOREM ExitZeroRecorded == LauncherSpec => []ExitZeroIsRecorded
<1> DEFINE LInv == IInv /\ SuccessIsPassed
<1>1. LauncherInit => LInv
  BY IInvInit DEF LauncherInit, SuccessIsPassed
<1>2. LInv /\ [LauncherNext]_launcherVars => LInv'
  <2> SUFFICES ASSUME LInv, [LauncherNext]_launcherVars PROVE LInv'
    OBVIOUS
  <2>1. [Next]_vars
    BY DEF LauncherNext, Probe, GiveUp, launcherVars
  <2>2. IInv'
    BY <2>1, TypeStep, LocksStep, QueueStep, RowsStep DEF IInv
  <2>3. launcher' = "succeeded" => pc[Launched] = "passed"
    <3>1. CASE Probe
      BY <3>1 DEF Probe, Shown, ExitOf, Ended
    <3>2. CASE GiveUp
      BY <3>2 DEF GiveUp
    <3>3. CASE UNCHANGED launcher
      BY <3>3 DEF SuccessIsPassed
    <3> QED
      BY <3>1, <3>2, <3>3 DEF LauncherNext, launcherVars
  <2>4. SuccessIsPassed'
    BY <2>1, <2>3, PassedStays, LaunchedAssumption DEF IInv, SuccessIsPassed
  <2> QED
    BY <2>2, <2>4
<1>3. LInv => ExitZeroIsRecorded
  <2>1. IInv => PassedIsComplete
    BY ConstantsAssumption DEF IInv, TypeOK, RowsBehind, VerdictInHand, PassedIsComplete, Contracts
  <2> QED
    BY <2>1, LaunchedAssumption DEF PassedIsComplete, SuccessIsPassed, ExitZeroIsRecorded
<1> QED
  BY <1>1, <1>2, <1>3, PTL DEF LauncherSpec
=============================================================================
