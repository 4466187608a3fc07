--------------------------- MODULE MCPromotionGate ---------------------------
(***************************************************************************)
(* Instances of PromotionGate for TLC: two kinds of evidence, one owner.   *)
(***************************************************************************)
EXTENDS PromotionGate, TLC

Symmetry == Permutations(Evidence)
=============================================================================
