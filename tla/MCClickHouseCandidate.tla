------------------------ MODULE MCClickHouseCandidate ------------------------
(***************************************************************************)
(* Instances of ClickHouseCandidate for TLC: an event that both databases  *)
(* count alike, one before 1970, which ClickHouse counts in another hour,  *)
(* and one with a name that takes the answer apart.                        *)
(***************************************************************************)
EXTENDS ClickHouseCandidate, TLC

CONSTANTS e1, e2, e3, hourA, hourB

Asked    == (e1 :> hourA) @@ (e2 :> hourB) @@ (e3 :> hourA)
Answered == (e1 :> hourA) @@ (e2 :> hourA) @@ (e3 :> None)
=============================================================================
