\* One record per poll, started again after every stop: what is promised, and
\* that it comes about.
SPECIFICATION OperatedSpec
CONSTANTS
  Partitions = {p1, p2}
  EventIds = {e1}
  MaxPollRecords = 1
  MaxMessages = 2
  IdleTimeout = FALSE
  MaxLog = 2
  MaxFaults = 2
  None = None
INVARIANTS NoCommittedLoss CheckpointTracksCommit EarliestCopyLands
PROPERTIES ImplementsContract AllRecorded DrainsOrStops
