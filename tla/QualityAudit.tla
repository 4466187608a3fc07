---------------------------- MODULE QualityAudit ----------------------------
(***************************************************************************)
(* What a reader of ops.data_quality_runs and ops.data_quality_findings    *)
(* may rely on, without transactions and locks: a gate writes its audit    *)
(* rows in the order of the contracts, stops at the first failed one, which *)
(* appears together with its open finding, and passes only with a passed    *)
(* row for every contract.                                                 *)
(***************************************************************************)
EXTENDS Integers

CONSTANTS Gates, NumContracts

VARIABLES
  rows,    \* gate -> contract -> status of its audit row, "none" is no row
  open,    \* (gate, contract) pairs with an open critical finding
  outcome  \* gate -> how its Dagster run stands

vars == <<rows, open, outcome>>

Contracts == 1..NumContracts

Init ==
  /\ rows = [g \in Gates |-> [c \in Contracts |-> "none"]]
  /\ open = {}
  /\ outcome = [g \in Gates |-> "running"]

\* The next row of a running gate, which may end with it.
Record(g, c, status) ==
  /\ outcome[g] = "running"
  /\ rows[g][c] = "none"
  /\ \A b \in 1..c - 1 : rows[g][b] = "passed"
  /\ rows' = [rows EXCEPT ![g][c] = status]
  /\ open' = IF status = "failed" THEN open \cup {<<g, c>>} ELSE open
  /\ \/ outcome' = [outcome EXCEPT ![g] = "failed"]
     \/ status = "passed" /\ outcome' = outcome

Pass(g) ==
  /\ outcome[g] = "running"
  /\ \A c \in Contracts : rows[g][c] = "passed"
  /\ outcome' = [outcome EXCEPT ![g] = "passed"]
  /\ UNCHANGED <<rows, open>>

Fail(g) ==
  /\ outcome[g] = "running"
  /\ outcome' = [outcome EXCEPT ![g] = "failed"]
  /\ UNCHANGED <<rows, open>>

Next ==
  \E g \in Gates :
    \/ \E c \in Contracts, status \in {"passed", "failed"} : Record(g, c, status)
    \/ Pass(g)
    \/ Fail(g)

Spec == Init /\ [][Next]_vars
=============================================================================
