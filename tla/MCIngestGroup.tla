--------------------------- MODULE MCIngestGroup ---------------------------
(***************************************************************************)
(* The group on a small topic: two partitions that hold three records      *)
(* together, so that either the partitions are shared or one is long.      *)
(***************************************************************************)
EXTENDS IngestGroup, Functions

CONSTANT MaxRecords  \* bound: records in all partitions together

SmallTopic == FoldFunction(LAMBDA records, n : n + Len(records), 0, log) <= MaxRecords

SmallInit == Init /\ SmallTopic
SmallSpec == SmallInit /\ [][Next]_vars /\ Fairness
=============================================================================
