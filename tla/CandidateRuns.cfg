\* Two runs in any overlap, three events, a window of one row, under fairness.
SPECIFICATION FairSpec
CONSTANTS
  Runs = {r1, r2}
  EventIds = {e1, e2, e3}
  e1 = e1
  e2 = e2
  e3 = e3
  hourA = hourA
  hourB = hourB
  Cells = {hourA, hourB}
  CellOf <- Asked
  CellBack <- Answered
  Limit = 1
  MaxTries = 2
  MaxFaults = 2
  None = None
INVARIANTS
  PassedIsRebuilt
  NoFalseMismatch
PROPERTIES
  RunsEnd
\* Every run ends, and no further one is started.
CHECK_DEADLOCK FALSE
