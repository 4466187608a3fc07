---------------------------- MODULE MCQualityGate ----------------------------
(***************************************************************************)
(* Instances of QualityGate for TLC: two contracts with different counts.  *)
(***************************************************************************)
EXTENDS QualityGate, TLC

TwoContracts == <<2, 3>>
=============================================================================
