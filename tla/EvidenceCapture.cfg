SPECIFICATION Spec
CONSTANTS
  Inputs <- MCInputs
  MaxFaults = 1
  None = None
INVARIANTS PassedAccounts FilesAreOfLastRun WorkerAndCaptureAgree
PROPERTIES LateCountsStand PreflightWarns
CHECK_DEADLOCK FALSE
