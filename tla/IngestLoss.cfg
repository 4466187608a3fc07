SPECIFICATION Spec
CONSTANTS
  Partitions = {p1}
  EventIds = {e1, e2}
  MaxPollRecords = 2
  MaxMessages = 0
  IdleTimeout = FALSE
  MaxLog = 2
  MaxFaults = 1
  None = None
INVARIANTS
  NothingLost
