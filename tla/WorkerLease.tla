---------------------------- MODULE WorkerLease -----------------------------
(***************************************************************************)
(* The worker loop implements the lease of JobLease while no reply of the  *)
(* database is lost.                                                       *)
(***************************************************************************)
EXTENDS Worker

HolderSet(j) == {w \in Workers : Holds(w, j)}

LeasePhase(j) ==
  CASE state[j] \in Waiting -> "waiting"
    [] state[j] = "running" -> IF HolderSet(j) = {} THEN "stranded" ELSE "held"
    [] OTHER -> state[j]

Lease == INSTANCE JobLease WITH
  phase   <- [j \in Jobs |-> LeasePhase(j)],
  holders <- [j \in Jobs |-> HolderSet(j)],
  taken   <- attempts,
  allowed <- [j \in Jobs |-> MaxAttempts + putBacks[j]]

\* The queue keeps its promise: one holder per job, ended once and by its
\* holder, taken at most max_attempts times (worker.rs on the 5037 definers).
LeaseKept == Lease!LeaseSpec
=============================================================================
