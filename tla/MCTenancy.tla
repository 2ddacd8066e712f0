------------------------------ MODULE MCTenancy ------------------------------
(***************************************************************************)
(* Model checking of the tenancy guards: a claim of the owner group and    *)
(* one of another group, and syntheses built on one another.               *)
(***************************************************************************)
EXTENDS Tenancy
=============================================================================
