\* Three gates at once, one of them launched by hand, two faults, under fairness.
SPECIFICATION LauncherFairSpec
CONSTANTS
  Gates = {g1, g2, g3}
  NumContracts = 2
  Expected <- TwoContracts
  Counts = {1, 2, 3, 4}
  MaxFaults = 2
  None = None
  Launched = g1
INVARIANTS WriterAlone WaitsEnd PassedIsComplete ExitZeroIsRecorded
PROPERTIES ImplementsAudit GatesEnd
\* Every gate ends, and nothing starts another one.
CHECK_DEADLOCK FALSE
