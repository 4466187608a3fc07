----------------------------- MODULE JobLauncher -----------------------------
(***************************************************************************)
(* A quality gate that is launched by hand, among others that schedules    *)
(* start: scripts/launch_dagster_job.sh launches the job, asks Dagster for *)
(* the status of the run every two seconds, and turns it into an exit      *)
(* code, which is all that its caller sees.                                *)
(*                                                                         *)
(* The launcher and the run know nothing of each other: the launcher may   *)
(* be at its deadline, or read a lookup that fails, while the run goes on, *)
(* and a run that is being cancelled may still write or even succeed.      *)
(***************************************************************************)
EXTENDS QualityGate

CONSTANT Launched  \* the gate whose run the launcher has launched

ASSUME LaunchedAssumption == Launched \in Gates

VARIABLE launcher  \* launcher: "polling", or the exit it has taken

launcherVars == <<launcher, vars>>

LauncherInit == Init /\ launcher = "polling"

-----------------------------------------------------------------------------
\* What Dagster may answer. A run succeeds only if each of its assets did; the
\* other assets of the job may fail where the gate passed. Somebody may
\* terminate the run at any time: its process is interrupted later, or too late.
Shown ==
  {"STARTED", "CANCELING"}
    \cup (IF pc[Launched] \in Ended THEN {"FAILURE", "CANCELED"} ELSE {})
    \cup (IF pc[Launched] = "passed" THEN {"SUCCESS"} ELSE {})

\* Mutant of ExitOf: a run that is being cancelled counts as done.
ExitOfTerminal(s) ==
  [SUCCESS |-> "succeeded", FAILURE |-> "failed",
   CANCELING |-> "succeeded", CANCELED |-> "failed"][s]

\* terminal_success is exit code 0; a run that is only being cancelled fails.
ExitOf(s) ==
  [SUCCESS |-> "succeeded", FAILURE |-> "failed",
   CANCELING |-> "failed", CANCELED |-> "failed"][s]

\* A status that is not terminal, and a probe that does not reach Dagster,
\* lead to the next probe.
Probe ==
  /\ launcher = "polling"
  /\ \E s \in Shown \ {"STARTED"} : launcher' = ExitOf(s)
  /\ UNCHANGED vars

\* Exit code 1 whatever the run is about: DAGSTER_LAUNCH_TIMEOUT_SECONDS have
\* passed, or the answer is no Run, or nothing that can be read.
GiveUp ==
  /\ launcher = "polling"
  /\ launcher' = "failed"
  /\ UNCHANGED vars

LauncherNext ==
  \/ Next /\ UNCHANGED launcher
  \/ Probe
  \/ GiveUp

LauncherSpec == LauncherInit /\ [][LauncherNext]_launcherVars

\* The gates as in FairSpec; neither the launcher nor Dagster is needed for
\* them to end.
LauncherFairSpec == LauncherSpec /\ \A g \in Gates : WF_vars(GateStep(g))

-----------------------------------------------------------------------------
\* Exit code 0 stands for the database, across Dagster, the gate and other
\* gates that wait and deadlock beside it: every contract of the launched run
\* has its passed audit row, and none a finding.
ExitZeroIsRecorded ==
  launcher = "succeeded" =>
    \A c \in Contracts :
      runs[Launched][c] = "passed" /\ <<Launched, c>> \notin findings
=============================================================================
