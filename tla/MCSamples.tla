----------------------------- MODULE MCSamples -----------------------------
(***************************************************************************)
(* Model checking of samples: two groups, three samples in a line or a     *)
(* tree, one claim, and two requests beside any number of ticks.           *)
(***************************************************************************)
EXTENDS Samples, TLC

\* Requests are interchangeable, and so are the two groups.
Symmetry == Permutations(Requests) \cup Permutations(Groups)
=============================================================================
