------------------------------ MODULE MCOutbox ------------------------------
(***************************************************************************)
(* Model checking of the outbox: claims of the owner group, of a group the *)
(* principal reads, and of a group it does not.                            *)
(***************************************************************************)
EXTENDS Outbox
=============================================================================
