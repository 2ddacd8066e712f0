------------------------------ MODULE MCWorker ------------------------------
(***************************************************************************)
(* Model checking of the queue and its workers on small instances.         *)
(***************************************************************************)
EXTENDS WorkerLease, TLC

\* Jobs and workers are interchangeable: sound for the runs without liveness.
Symmetry == Permutations(Workers) \cup Permutations(Jobs)
=============================================================================
