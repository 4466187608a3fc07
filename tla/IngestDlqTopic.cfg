SPECIFICATION Spec
CONSTANTS
  Partitions = {p1}
  EventIds = {e1}
  MaxPollRecords = 1
  MaxMessages = 0
  IdleTimeout = FALSE
  MaxLog = 2
  MaxFaults = 1
  None = None
INVARIANTS
  InvalidEventsPublished
