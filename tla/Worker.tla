------------------------------- MODULE Worker -------------------------------
(***************************************************************************)
(* episcience-worker's queue loop (jobs/worker.rs): several worker         *)
(* processes claim jobs, run the handler and report its result through the *)
(* queue definers.  A definer call may fail transiently: the worker makes  *)
(* it again up to QueueCallTries times and then gives up, leaving the job  *)
(* `running`.  With LoseReplies the database may have committed the call   *)
(* whose failure the worker sees (the connection died before the reply).   *)
(***************************************************************************)
EXTENDS JobQueue

CONSTANTS
  Workers,         (* worker processes                                      *)
  QueueCallTries,  (* QUEUE_CALL_TRIES, first try included                  *)
  LoseReplies,     (* BOOLEAN: a committed call may look failed             *)
  MaxFaults,       (* bound: failed calls, crashes and stops together       *)
  MaxPutBacks,     (* bound: operator repairs of one job                    *)
  NoJob            (* cur of a worker that holds nothing                    *)

ASSUME WorkerAssumption ==
  /\ QueueCallTries \in Nat \ {0}
  /\ LoseReplies \in BOOLEAN
  /\ MaxFaults \in Nat
  /\ MaxPutBacks \in Nat
  /\ NoJob \notin Jobs

VARIABLES
  pc,        (* [Workers -> WorkerStates]: where run_once is                *)
  cur,       (* [Workers -> Jobs \cup {NoJob}]: the claimed job             *)
  verdict,   (* [Workers -> Ended]: the state a finish call will store      *)
  tries,     (* [Workers -> Nat]: failed tries of the current queue call    *)
  faults,    (* faults so far (bound only)                                  *)
  putBacks   (* [Jobs -> Nat]: operator repairs of the job                  *)

workerVars == <<pc, cur, verdict, tries, faults, putBacks>>
vars == <<queueVars, workerVars>>

Busy == {"claimed", "running", "finish", "retry"}
WorkerStates == Busy \cup {"idle", "stopped"}

\* How SynthesisJobHandler::run ends: Ok, RunError::Authority, a
\* PayloadError, or any other RunError::Failed.
Outcomes == {"ok", "authority", "payload", "failed"}

Holds(w, j) == pc[w] \in Busy /\ cur[w] = j
Stranded(j) == state[j] = "running" /\ \A w \in Workers : ~Holds(w, j)

Init ==
  /\ QueueInit
  /\ pc       = [w \in Workers |-> "idle"]
  /\ cur      = [w \in Workers |-> NoJob]
  /\ verdict  = [w \in Workers |-> "failed"]
  /\ tries    = [w \in Workers |-> 0]
  /\ faults   = 0
  /\ putBacks = [j \in Jobs |-> 0]

-----------------------------------------------------------------------------
\* w starts a finish call that stores s, or a retry call.
ToFinish(w, s) ==
  /\ pc'      = [pc EXCEPT ![w] = "finish"]
  /\ verdict' = [verdict EXCEPT ![w] = s]
  /\ tries'   = [tries EXCEPT ![w] = 0]
  /\ UNCHANGED <<cur, faults, putBacks>>

ToRetry(w) ==
  /\ pc'    = [pc EXCEPT ![w] = "retry"]
  /\ tries' = [tries EXCEPT ![w] = 0]
  /\ UNCHANGED <<cur, verdict, faults, putBacks>>

\* run_once returns, with Ok or Err: w holds no job any more.
Release(w) ==
  /\ pc'    = [pc EXCEPT ![w] = "idle"]
  /\ cur'   = [cur EXCEPT ![w] = NoJob]
  /\ tries' = [tries EXCEPT ![w] = 0]
  /\ UNCHANGED <<verdict, putBacks>>

Fault == faults < MaxFaults /\ faults' = faults + 1

Claim(w, j) ==
  /\ pc[w] = "idle"
  /\ QueueClaim(j)
  /\ pc'  = [pc EXCEPT ![w] = "claimed"]
  /\ cur' = [cur EXCEPT ![w] = j]
  /\ UNCHANGED <<verdict, tries, faults, putBacks>>

\* The claim committed but its reply never came: run_once returns the error
\* and nobody runs the job.
ClaimReplyLost(w, j) ==
  /\ LoseReplies
  /\ pc[w] = "idle"
  /\ QueueClaim(j)
  /\ UNCHANGED <<pc, cur, verdict, tries, putBacks>>

\* Refused before the handler: the job is older than JOB_MAX_AGE, has an
\* unknown type, its principal is refused (authorize, fail closed) or its
\* payload is invalid or names another synthesis.
Refuse(w) ==
  /\ pc[w] = "claimed"
  /\ ToFinish(w, "failed")
  /\ UNCHANGED queueVars

\* authorize met a transient database failure.
AuthorizeTransient(w) ==
  /\ pc[w] = "claimed"
  /\ ToRetry(w)
  /\ UNCHANGED queueVars

StartHandler(w) ==
  /\ pc[w] = "claimed"
  /\ pc' = [pc EXCEPT ![w] = "running"]
  /\ UNCHANGED <<queueVars, cur, verdict, tries, faults, putBacks>>

\* run_once's match on the handler's result.
Report(w, o) ==
  /\ pc[w] = "running"
  /\ \/ o = "ok" /\ ToFinish(w, "complete")
     \/ o \in {"authority", "payload"} /\ ToFinish(w, "failed")
     \/ o = "failed" /\ ToRetry(w)

HandlerReturns(w, o) == Report(w, o) /\ UNCHANGED queueVars

-----------------------------------------------------------------------------
\* queue_call answers: the definer did it, or refused it (a RAISE is
\* deterministic and is returned at once).
FinishCall(w) ==
  /\ pc[w] = "finish"
  /\ \/ QueueFinish(cur[w], verdict[w])
     \/ ~FinishAllowed(cur[w]) /\ UNCHANGED queueVars
  /\ Release(w)
  /\ UNCHANGED faults

\* retry_or_fail: a refused retry (attempts used up) finishes the job failed.
RetryCall(w) ==
  /\ pc[w] = "retry"
  /\ \/ QueueRetry(cur[w]) /\ Release(w) /\ UNCHANGED faults
     \/ ~RetryAllowed(cur[w]) /\ ToFinish(w, "failed") /\ UNCHANGED queueVars

\* What a call does in the database when it commits although w sees it fail.
CommittedUnseen(w) ==
  \/ pc[w] = "finish" /\ QueueFinish(cur[w], verdict[w])
  \/ pc[w] = "retry"  /\ QueueRetry(cur[w])

MayTryAgain(w) == tries[w] + 1 < QueueCallTries

\* A queue call fails transiently: made again while tries remain, otherwise
\* the error ends run_once and the worker forgets the job.
QueueCallFails(w) ==
  /\ pc[w] \in {"finish", "retry"}
  /\ \/ UNCHANGED queueVars
     \/ LoseReplies /\ CommittedUnseen(w)
  /\ IF MayTryAgain(w)
       THEN /\ tries' = [tries EXCEPT ![w] = @ + 1]
            /\ UNCHANGED <<pc, cur, verdict, putBacks>>
       ELSE Release(w)

-----------------------------------------------------------------------------
\* The process dies with a job in hand (kill, crash, stop timeout), or stops
\* between jobs on SIGTERM; the service manager starts it again.
Crash(w) ==
  /\ pc[w] \in Busy
  /\ Fault
  /\ pc'    = [pc EXCEPT ![w] = "stopped"]
  /\ cur'   = [cur EXCEPT ![w] = NoJob]
  /\ tries' = [tries EXCEPT ![w] = 0]
  /\ UNCHANGED <<queueVars, verdict, putBacks>>

Stop(w) ==
  /\ pc[w] = "idle"
  /\ Fault
  /\ pc' = [pc EXCEPT ![w] = "stopped"]
  /\ UNCHANGED <<queueVars, cur, verdict, tries, putBacks>>

Restart(w) ==
  /\ pc[w] = "stopped"
  /\ pc' = [pc EXCEPT ![w] = "idle"]
  /\ UNCHANGED <<queueVars, cur, verdict, tries, faults, putBacks>>

\* The operator repairs a job that no live worker holds.
PutBack(j) ==
  /\ Stranded(j)
  /\ putBacks[j] < MaxPutBacks
  /\ OperatorPutsBack(j)
  /\ putBacks' = [putBacks EXCEPT ![j] = @ + 1]
  /\ UNCHANGED <<pc, cur, verdict, tries, faults>>

-----------------------------------------------------------------------------
\* Everything but the creation of jobs and the run of the handler: shared
\* with the modules that refine the handler into its stages.
QueueCalls(w) ==
  \/ \E j \in Jobs : Claim(w, j)
  \/ Refuse(w)
  \/ AuthorizeTransient(w)
  \/ FinishCall(w)
  \/ RetryCall(w)

Restarts(w) == Stop(w) \/ Restart(w)

Faults(w) ==
  /\ Fault
  /\ QueueCallFails(w) \/ \E j \in Jobs : ClaimReplyLost(w, j)

WorkerStep(w) ==
  \/ QueueCalls(w)
  \/ StartHandler(w)
  \/ \E o \in Outcomes : HandlerReturns(w, o)

Next ==
  \/ \E j \in Jobs : Enqueue(j) /\ UNCHANGED workerVars
  \/ \E j \in Jobs : DelayElapses(j) /\ UNCHANGED workerVars
  \/ \E j \in Jobs : PutBack(j)
  \/ \E w \in Workers : WorkerStep(w) \/ Faults(w) \/ Crash(w) \/ Restarts(w)

Spec == Init /\ [][Next]_vars

\* The loop of run_until never waits on anything but the job in hand, the
\* delay of a retried job is a timestamp, and the service manager restarts a
\* stopped worker.
Fairness ==
  /\ \A w \in Workers : WF_vars(WorkerStep(w)) /\ WF_vars(Restart(w))
  /\ \A j \in Jobs : WF_vars(DelayElapses(j) /\ UNCHANGED workerVars)

FairSpec == Spec /\ Fairness

-----------------------------------------------------------------------------
\* Every variable keeps its type.  In particular a queue call is never
\* counted past QUEUE_CALL_TRIES (queue_call, worker.rs).
TypeOK ==
  /\ state \in [Jobs -> JobStates]
  /\ attempts \in [Jobs -> Nat]
  /\ due \subseteq Jobs
  /\ pc \in [Workers -> WorkerStates]
  /\ cur \in [Workers -> Jobs \cup {NoJob}]
  /\ verdict \in [Workers -> Ended]
  /\ tries \in [Workers -> 0 .. QueueCallTries - 1]
  /\ faults \in 0 .. MaxFaults
  /\ putBacks \in [Jobs -> 0 .. MaxPutBacks]

\* A job is claimed at most max_attempts times, plus once for each time an
\* operator put it back, although the claim definer never looks at
\* max_attempts: only the retry definer's guard keeps the bound (5037).
AttemptsBounded ==
  \A j \in Jobs : attempts[j] <= MaxAttempts + putBacks[j]

\* Two workers never run the same job, and the job a worker runs is
\* `running` in the table, so no finish or retry of a holder is refused for
\* a state somebody else changed (the queue row names no claimant: nothing
\* but this protocol keeps the workers apart).
OneRunner ==
  \A w \in Workers, j \in Jobs :
    Holds(w, j) => /\ state[j] = "running"
                   /\ \A v \in Workers \ {w} : ~Holds(v, j)

\* However replies are lost and calls repeated, a job that ended stays ended
\* with the result it ended with: a late finish or retry is refused (5037).
EndedStays == [][\A j \in Jobs : state[j] \in Ended => state'[j] = state[j]]_vars

\* Every enqueued job ends, or is left `running` with nobody running it
\* (a worker died or gave up its queue call): it is never lost in the queue.
EveryJobSettles ==
  \A j \in Jobs :
    state[j] \in Waiting ~> (state[j] \in Ended \/ Stranded(j))
=============================================================================
