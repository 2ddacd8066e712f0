--------------------------- MODULE MCCountersign ---------------------------
(***************************************************************************)
(* Model checking of the countersignature chain: a member of the claim's   *)
(* group and an outsider, who does not see the group's rows.               *)
(***************************************************************************)
EXTENDS Countersign, TLC

Symmetry == Permutations(Sigs)
=============================================================================
