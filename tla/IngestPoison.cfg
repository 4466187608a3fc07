SPECIFICATION OperatedSpec
CONSTANTS
  Partitions = {p1}
  EventIds = {e1}
  MaxPollRecords = 1
  MaxMessages = 0
  IdleTimeout = FALSE
  MaxLog = 2
  MaxFaults = 0
  None = None
PROPERTIES
  InvalidEventsRecorded
