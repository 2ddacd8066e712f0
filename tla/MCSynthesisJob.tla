--------------------------- MODULE MCSynthesisJob ---------------------------
(***************************************************************************)
(* Model checking of the synthesis handler over the queue and its workers. *)
(***************************************************************************)
EXTENDS SynthesisJob, TLC

Symmetry == Permutations(Workers) \cup Permutations(Jobs)
=============================================================================
