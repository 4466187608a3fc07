--------------------------- MODULE MCIngestWorker ---------------------------
(***************************************************************************)
(* The ingest worker for TLC: partitions and event ids are model values    *)
(* that nothing in the worker tells apart, so that the runs of safety      *)
(* properties may take one state for all its permutations.                 *)
(***************************************************************************)
EXTENDS IngestWorker, TLC

Symmetry == Permutations(Partitions) \cup Permutations(EventIds)
=============================================================================
