----------------------------- MODULE MCWorklist -----------------------------
(***************************************************************************)
(* Model checking of the owner worklist: two failing items may stand       *)
(* before a healthy one in every order, with one slot per period.          *)
(***************************************************************************)
EXTENDS Worklist
=============================================================================
