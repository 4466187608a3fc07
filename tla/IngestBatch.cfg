SPECIFICATION Spec
SYMMETRY Symmetry
CONSTANTS
  Partitions = {p1, p2}
  EventIds = {e1, e2}
  MaxPollRecords = 3
  MaxMessages = 0
  IdleTimeout = TRUE
  MaxLog = 2
  MaxFaults = 1
  None = None
INVARIANTS
  CheckpointRecorded
  MetricsMatchTables
  DlqTopicBacked
  MetricsLastIsCheckpoint
PROPERTIES
  LossPerStop
  ImplementsContract
