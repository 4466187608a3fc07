SPECIFICATION SmallSpec
CONSTANTS
  Workers = {w1, w2}
  Partitions = {p1, p2}
  EventIds = {e1}
  MaxPollRecords = 2
  MaxLog = 2
  MaxRecords = 3
  MaxFaults = 2
  None = None
INVARIANTS CheckpointCovers LossBounded
PROPERTIES OnlyExpelledGoBack ImplementsContract AllButLost
