------------------------------ MODULE JobQueue ------------------------------
(***************************************************************************)
(* The table synthesis_jobs and the statements that move its rows: the     *)
(* enqueue of the request path and the three queue definers of migration   *)
(* 5037.  Every definer is one statement of one transaction, so each is    *)
(* one action here.  A job's clock is abstracted to one bit: j \in due     *)
(* says scheduled_at <= now().  The claim takes the earliest due row;      *)
(* SKIP LOCKED lets it pass over a row another session holds, and no       *)
(* property here distinguishes the order, so any due row may be taken.     *)
(***************************************************************************)
EXTENDS Integers

CONSTANTS
  Jobs,          (* job ids; a job id IS its synthesis id (foreign key)     *)
  MaxAttempts    (* the column max_attempts, 3 by default                   *)

ASSUME MaxAttemptsAssumption == MaxAttempts \in Nat \ {0}

VARIABLES
  state,         (* [Jobs -> JobStates], "none" while the row is absent     *)
  attempts,      (* [Jobs -> Nat], the column attempts                      *)
  due            (* the waiting jobs whose scheduled_at has passed          *)

queueVars == <<state, attempts, due>>

\* The states the claim may take.  Nothing writes "retry" any more; it is a
\* legal value of the column and the claim still accepts it.
Waiting == {"queued", "retry"}
Ended   == {"complete", "failed"}
JobStates == {"none", "running"} \cup Waiting \cup Ended

QueueInit ==
  /\ state    = [j \in Jobs |-> "none"]
  /\ attempts = [j \in Jobs |-> 0]
  /\ due      = {}

-----------------------------------------------------------------------------
\* enqueue_tx: one row per synthesis id, ON CONFLICT DO NOTHING.
Enqueue(j) ==
  /\ state[j] = "none"
  /\ state' = [state EXCEPT ![j] = "queued"]
  /\ due'   = due \cup {j}
  /\ UNCHANGED attempts

\* The retry delay of a waiting job passes.
DelayElapses(j) ==
  /\ state[j] \in Waiting
  /\ j \notin due
  /\ due' = due \cup {j}
  /\ UNCHANGED <<state, attempts>>

\* Deviations of the claim that the model must be able to tell from it: the
\* row is not marked; the attempt is not counted.
ClaimUnmarked(j) ==
  /\ state[j] \in Waiting /\ j \in due
  /\ attempts' = [attempts EXCEPT ![j] = @ + 1]
  /\ UNCHANGED <<state, due>>

ClaimUncounted(j) ==
  /\ state[j] \in Waiting /\ j \in due
  /\ state' = [state EXCEPT ![j] = "running"]
  /\ due'   = due \ {j}
  /\ UNCHANGED attempts

\* episcience_queue_claim: one due waiting row becomes running, one more
\* attempt.  The claim itself does not look at max_attempts.
QueueClaim(j) ==
  /\ state[j] \in Waiting
  /\ j \in due
  /\ state'    = [state EXCEPT ![j] = "running"]
  /\ attempts' = [attempts EXCEPT ![j] = @ + 1]
  /\ due'      = due \ {j}

\* episcience_queue_finish refuses a job that is not running.
FinishAllowed(j) == state[j] = "running"

QueueFinish(j, s) ==
  /\ FinishAllowed(j)
  /\ state' = [state EXCEPT ![j] = s]
  /\ UNCHANGED <<attempts, due>>

\* Deviation: an off-by-one at the limit.
RetryOneMore(j) == state[j] = "running" /\ attempts[j] <= MaxAttempts

\* episcience_queue_retry refuses a job that is not running or has used its
\* attempts; otherwise the row waits again, due only after the delay.
RetryAllowed(j) == state[j] = "running" /\ attempts[j] < MaxAttempts

QueueRetry(j) ==
  /\ RetryAllowed(j)
  /\ state' = [state EXCEPT ![j] = "queued"]
  /\ UNCHANGED <<attempts, due>>

\* The privileged running -> queued of docs/tenancy-contract.md (stranded
\* running jobs): the operator's hand repair, no definer does it.
OperatorPutsBack(j) ==
  /\ state[j] = "running"
  /\ state' = [state EXCEPT ![j] = "queued"]
  /\ due'   = due \cup {j}
  /\ UNCHANGED attempts
=============================================================================
