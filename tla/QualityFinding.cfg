\* Two concurrent gates and no fault at all.
SPECIFICATION Spec
CONSTANTS
  Gates = {g1, g2}
  NumContracts = 2
  Expected <- TwoContracts
  Counts = {2, 3}
  MaxFaults = 0
  None = None
INVARIANTS
  FailedContractHasFinding
\* Every gate ends, and nothing starts another one.
CHECK_DEADLOCK FALSE
