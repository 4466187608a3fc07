---------------------------- MODULE MCJobLauncher ----------------------------
(***************************************************************************)
(* Instances of JobLauncher for TLC: two contracts with different counts.  *)
(***************************************************************************)
EXTENDS JobLauncher, TLC

TwoContracts == <<2, 3>>
=============================================================================
