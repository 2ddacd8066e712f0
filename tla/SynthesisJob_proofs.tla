------------------------ MODULE SynthesisJob_proofs -------------------------
(***************************************************************************)
(* The proofs about jobs, for every number of jobs, workers, attempts and  *)
(* refinement levels.                                                      *)
(*                                                                         *)
(* First the worker loop.  TypeOK, BusyHasJob and AttemptsInv hold         *)
(* whatever calls fail and replies are lost; OneRunner holds while no      *)
(* reply is lost; SoleRunner is what is left of it for a lone worker when  *)
(* replies are lost.  With them the loop keeps the lease of JobLease.      *)
(*                                                                         *)
(* Then the handler in stages.  It implements the loop's handler, so that  *)
(* all of this holds of it too; what a job may never do to a row the user  *)
(* deleted or an attempt completed; and, while a job has one runner, what  *)
(* the end of a job says of its row and the end of a row of its pieces,    *)
(* its children and its job.                                               *)
(***************************************************************************)
EXTENDS SynthesisJob, WorkerLease, TLAPS

-----------------------------------------------------------------------------
(* The worker loop.                                                        *)

\* Every variable keeps its type in every execution of the worker loop.
THEOREM TypeCorrect == Spec => []TypeOK
<1>1. Init => TypeOK
  BY MaxAttemptsAssumption, WorkerAssumption
     DEF Init, QueueInit, TypeOK, JobStates, WorkerStates, Ended
<1>2. TypeOK /\ [Next]_vars => TypeOK'
  <2> SUFFICES ASSUME TypeOK, [Next]_vars PROVE TypeOK'
    OBVIOUS
  <2> USE MaxAttemptsAssumption, WorkerAssumption
          DEF TypeOK, JobStates, WorkerStates, Ended, Busy, Waiting
  <2>1. ASSUME NEW j \in Jobs, Enqueue(j) /\ UNCHANGED workerVars
        PROVE TypeOK'
    BY <2>1 DEF Enqueue, workerVars
  <2>2. ASSUME NEW j \in Jobs, DelayElapses(j) /\ UNCHANGED workerVars
        PROVE TypeOK'
    BY <2>2 DEF DelayElapses, workerVars
  <2>3. ASSUME NEW j \in Jobs, PutBack(j)
        PROVE TypeOK'
    BY <2>3 DEF PutBack, OperatorPutsBack
  <2>4. ASSUME NEW w \in Workers, NEW j \in Jobs, Claim(w, j)
        PROVE TypeOK'
    BY <2>4 DEF Claim, QueueClaim
  <2>5. ASSUME NEW w \in Workers, NEW j \in Jobs, Fault, ClaimReplyLost(w, j)
        PROVE TypeOK'
    BY <2>5 DEF ClaimReplyLost, QueueClaim, Fault
  <2>6. ASSUME NEW w \in Workers, Refuse(w) \/ AuthorizeTransient(w) \/ StartHandler(w)
        PROVE TypeOK'
    BY <2>6 DEF Refuse, AuthorizeTransient, StartHandler, ToFinish, ToRetry,
                queueVars
  <2>7. ASSUME NEW w \in Workers, NEW o \in Outcomes, HandlerReturns(w, o)
        PROVE TypeOK'
    BY <2>7 DEF HandlerReturns, Report, Outcomes, ToFinish, ToRetry, queueVars
  <2>8. ASSUME NEW w \in Workers, FinishCall(w)
        PROVE TypeOK'
    <3>1. cur[w] \in Jobs \cup {NoJob}
      OBVIOUS
    <3>2. QED
      BY <2>8, <3>1 DEF FinishCall, QueueFinish, FinishAllowed, Release, queueVars
  <2>9. ASSUME NEW w \in Workers, RetryCall(w)
        PROVE TypeOK'
    BY <2>9 DEF RetryCall, QueueRetry, RetryAllowed, Release, ToFinish, queueVars
  <2>10. ASSUME NEW w \in Workers, Fault, QueueCallFails(w)
         PROVE TypeOK'
    <3>1. state' \in [Jobs -> JobStates] /\ attempts' = attempts /\ due' = due
      BY <2>10 DEF QueueCallFails, CommittedUnseen, QueueFinish, QueueRetry,
                   queueVars
    <3>2. /\ pc' \in [Workers -> WorkerStates]
          /\ cur' \in [Workers -> Jobs \cup {NoJob}]
          /\ verdict' = verdict /\ putBacks' = putBacks
      BY <2>10 DEF QueueCallFails, Release
    <3>3. tries' \in [Workers -> 0 .. QueueCallTries - 1]
      BY <2>10 DEF QueueCallFails, Release, MayTryAgain
    <3>4. faults' \in 0 .. MaxFaults
      BY <2>10 DEF Fault
    <3>5. QED
      BY <3>1, <3>2, <3>3, <3>4
  <2>11. ASSUME NEW w \in Workers, Crash(w) \/ Restarts(w)
         PROVE TypeOK'
    BY <2>11 DEF Crash, Restarts, Stop, Restart, Fault, queueVars
  <2>12. CASE UNCHANGED vars
    BY <2>12 DEF vars, queueVars, workerVars
  <2>13. QED
    BY <2>1, <2>2, <2>3, <2>4, <2>5, <2>6, <2>7, <2>8, <2>9, <2>10, <2>11,
       <2>12
       DEF Next, WorkerStep, QueueCalls, Faults
<1>3. QED
  BY <1>1, <1>2, PTL DEF Spec

-----------------------------------------------------------------------------
\* A job that has not been claimed yet, or waits, has an attempt left.
AttemptLeft ==
  \A j \in Jobs : state[j] \in Waiting \cup {"none"} =>
                    attempts[j] < MaxAttempts + putBacks[j]

AttemptsInv == AttemptLeft /\ AttemptsBounded

\* What a claim, a retry and a repair do to the strengthened bound.
LEMMA QueueKeepsAttempts ==
  ASSUME TypeOK, AttemptsInv, NEW j \in Jobs,
         \/ QueueClaim(j) /\ putBacks' = putBacks
         \/ QueueRetry(j) /\ putBacks' = putBacks
         \/ PutBack(j)
         \/ (Enqueue(j) \/ DelayElapses(j)) /\ putBacks' = putBacks
         \/ (\E s \in Ended : QueueFinish(j, s)) /\ putBacks' = putBacks
         \/ UNCHANGED <<state, attempts, putBacks>>
  PROVE  AttemptsInv'
<1> USE MaxAttemptsAssumption, WorkerAssumption
<1>1. CASE QueueClaim(j) /\ putBacks' = putBacks
  BY <1>1 DEF QueueClaim, TypeOK, AttemptsInv, AttemptLeft, AttemptsBounded,
              Waiting
<1>2. CASE QueueRetry(j) /\ putBacks' = putBacks
  BY <1>2 DEF QueueRetry, RetryAllowed, TypeOK, AttemptsInv, AttemptLeft,
              AttemptsBounded, Waiting
<1>3. CASE PutBack(j)
  BY <1>3 DEF PutBack, OperatorPutsBack, TypeOK, AttemptsInv, AttemptLeft,
              AttemptsBounded, Waiting
<1>4. CASE (Enqueue(j) \/ DelayElapses(j)) /\ putBacks' = putBacks
  BY <1>4 DEF Enqueue, DelayElapses, TypeOK, AttemptsInv, AttemptLeft,
              AttemptsBounded, Waiting
<1>5. CASE (\E s \in Ended : QueueFinish(j, s)) /\ putBacks' = putBacks
  BY <1>5 DEF QueueFinish, TypeOK, AttemptsInv, AttemptLeft, AttemptsBounded,
              Waiting, Ended
<1>6. CASE UNCHANGED <<state, attempts, putBacks>>
  BY <1>6 DEF AttemptsInv, AttemptLeft, AttemptsBounded
<1>7. QED
  BY <1>1, <1>2, <1>3, <1>4, <1>5, <1>6

\* No step touches the queue but through the statements of the lemma above,
\* and each of them on a job.
LEMMA StepOnQueue ==
  ASSUME TypeOK, [Next]_vars, 
         \A w \in Workers : pc[w] \in {"finish", "retry"} => cur[w] \in Jobs
  PROVE  \/ \E j \in Jobs :
              \/ QueueClaim(j) /\ putBacks' = putBacks
              \/ QueueRetry(j) /\ putBacks' = putBacks
              \/ PutBack(j)
              \/ (Enqueue(j) \/ DelayElapses(j)) /\ putBacks' = putBacks
              \/ (\E s \in Ended : QueueFinish(j, s)) /\ putBacks' = putBacks
         \/ UNCHANGED <<state, attempts, putBacks>>
<1>1. ASSUME NEW j \in Jobs,
             (Enqueue(j) \/ DelayElapses(j)) /\ UNCHANGED workerVars
      PROVE  (Enqueue(j) \/ DelayElapses(j)) /\ putBacks' = putBacks
  BY <1>1 DEF workerVars
<1>2. ASSUME NEW w \in Workers, NEW j \in Jobs,
             Claim(w, j) \/ ClaimReplyLost(w, j)
      PROVE  QueueClaim(j) /\ putBacks' = putBacks
  BY <1>2 DEF Claim, ClaimReplyLost
<1>3. ASSUME NEW w \in Workers,
             \/ Refuse(w) \/ AuthorizeTransient(w) \/ StartHandler(w)
             \/ Crash(w) \/ Restarts(w)
             \/ \E o \in Outcomes : HandlerReturns(w, o)
      PROVE  UNCHANGED <<state, attempts, putBacks>>
  BY <1>3 DEF Refuse, AuthorizeTransient, StartHandler, Crash, Restarts, Stop,
              Restart, HandlerReturns, Report, ToFinish, ToRetry, queueVars
<1>4. ASSUME NEW w \in Workers, FinishCall(w) \/ RetryCall(w) \/ QueueCallFails(w)
      PROVE  /\ cur[w] \in Jobs
             /\ putBacks' = putBacks
             /\ \/ QueueRetry(cur[w])
                \/ \E s \in Ended : QueueFinish(cur[w], s)
                \/ UNCHANGED <<state, attempts>>
  <2>1. cur[w] \in Jobs /\ verdict[w] \in Ended
    BY <1>4 DEF FinishCall, RetryCall, QueueCallFails, TypeOK
  <2>2. putBacks' = putBacks
    BY <1>4 DEF FinishCall, RetryCall, QueueCallFails, Release, ToFinish
  <2>3. QED
    BY <1>4, <2>1, <2>2 DEF FinishCall, RetryCall, QueueCallFails,
                            CommittedUnseen, queueVars
<1>5. CASE UNCHANGED vars
  BY <1>5 DEF vars, queueVars, workerVars
<1>6. QED
  BY <1>1, <1>2, <1>3, <1>4, <1>5 DEF Next, WorkerStep, QueueCalls, Faults

\* A worker that calls the queue about a job holds one.
BusyHasJob == \A w \in Workers : pc[w] \in Busy => cur[w] \in Jobs

LEMMA BusyWorkersHoldJobs == Spec => []BusyHasJob
<1>1. Init => BusyHasJob
  BY DEF Init, BusyHasJob, Busy
<1>2. TypeOK /\ BusyHasJob /\ [Next]_vars => BusyHasJob'
  <2> SUFFICES ASSUME TypeOK, BusyHasJob, [Next]_vars PROVE BusyHasJob'
    OBVIOUS
  <2> USE DEF TypeOK, BusyHasJob, Busy
  <2>1. ASSUME NEW w \in Workers, NEW j \in Jobs, Claim(w, j)
        PROVE BusyHasJob'
    BY <2>1 DEF Claim
  <2>2. ASSUME NEW w \in Workers,
               \/ Refuse(w) \/ AuthorizeTransient(w) \/ StartHandler(w)
               \/ \E o \in Outcomes : HandlerReturns(w, o)
        PROVE BusyHasJob'
    BY <2>2 DEF Refuse, AuthorizeTransient, StartHandler, HandlerReturns,
                Report, ToFinish, ToRetry
  <2>3. ASSUME NEW w \in Workers,
               \/ FinishCall(w) \/ RetryCall(w) \/ QueueCallFails(w)
               \/ Crash(w) \/ Restarts(w)
        PROVE BusyHasJob'
    BY <2>3 DEF FinishCall, RetryCall, QueueCallFails, Crash, Restarts, Stop,
                Restart, Release, ToFinish
  <2>4. ASSUME pc' = pc, cur' = cur
        PROVE BusyHasJob'
    BY <2>4
  <2>5. QED
    BY <2>1, <2>2, <2>3, <2>4
       DEF Next, WorkerStep, QueueCalls, Faults, vars, workerVars, PutBack,
           ClaimReplyLost
<1>3. QED
  BY <1>1, <1>2, TypeCorrect, PTL DEF Spec

LEMMA AttemptsInvHolds == Spec => []AttemptsInv
<1>1. Init => AttemptsInv
  BY MaxAttemptsAssumption, WorkerAssumption
     DEF Init, QueueInit, AttemptsInv, AttemptLeft, AttemptsBounded
<1>2. TypeOK /\ BusyHasJob /\ AttemptsInv /\ [Next]_vars => AttemptsInv'
  <2> SUFFICES ASSUME TypeOK, BusyHasJob, AttemptsInv, [Next]_vars
               PROVE  AttemptsInv'
    OBVIOUS
  <2>1. \A w \in Workers : pc[w] \in {"finish", "retry"} => cur[w] \in Jobs
    BY DEF BusyHasJob, Busy
  <2>2. QED
    BY <2>1, StepOnQueue, QueueKeepsAttempts
       DEF AttemptsInv, AttemptLeft, AttemptsBounded
<1>3. QED
  BY <1>1, <1>2, TypeCorrect, BusyWorkersHoldJobs, PTL DEF Spec

\* No job is claimed more than max_attempts times plus its repairs, for any
\* number of workers and whatever calls fail or replies are lost.
THEOREM AttemptsAreBounded == Spec => []AttemptsBounded
  BY AttemptsInvHolds, PTL DEF AttemptsInv

\* For any number of workers, and although replies are lost and calls made
\* again, no step changes the result of a job that has ended: the claim takes
\* waiting rows only, and the finish and retry definers running ones.
THEOREM EndedJobsStay == Spec => EndedStays
<1>1. ASSUME TypeOK, [Next]_vars
      PROVE  \A j \in Jobs : state[j] \in Ended => state'[j] = state[j]
  <2> SUFFICES ASSUME NEW j \in Jobs, state[j] \in Ended
               PROVE  state'[j] = state[j]
    OBVIOUS
  <2> USE DEF Ended, Waiting
  <2>t. DOMAIN state = Jobs
    BY <1>1 DEF TypeOK
  <2>1. ASSUME NEW k \in Jobs, Enqueue(k) \/ DelayElapses(k) PROVE state'[j] = state[j]
    BY <2>t, <2>1 DEF Enqueue, DelayElapses
  <2>2. ASSUME NEW k \in Jobs, PutBack(k) PROVE state'[j] = state[j]
    BY <2>t, <2>2 DEF PutBack, Stranded, OperatorPutsBack
  <2>3. ASSUME NEW k, QueueClaim(k) PROVE state'[j] = state[j]
    BY <2>t, <2>3 DEF QueueClaim
  <2>4. ASSUME NEW k, NEW r, QueueFinish(k, r) PROVE state'[j] = state[j]
    BY <2>t, <2>4 DEF QueueFinish, FinishAllowed
  <2>5. ASSUME NEW k, QueueRetry(k) PROVE state'[j] = state[j]
    BY <2>t, <2>5 DEF QueueRetry, RetryAllowed
  <2>6. ASSUME NEW w \in Workers, WorkerStep(w) PROVE state'[j] = state[j]
    BY <2>3, <2>4, <2>5, <2>6
       DEF WorkerStep, QueueCalls, Claim, Refuse, AuthorizeTransient, FinishCall,
           RetryCall, StartHandler, HandlerReturns, queueVars
  <2>7. ASSUME NEW w \in Workers, Faults(w) \/ Crash(w) \/ Restarts(w)
        PROVE state'[j] = state[j]
    BY <2>3, <2>4, <2>5, <2>7
       DEF Faults, QueueCallFails, CommittedUnseen, ClaimReplyLost, Crash,
           Restarts, Stop, Restart, queueVars
  <2>8. CASE UNCHANGED vars
    BY <2>8 DEF vars, queueVars
  <2>9. QED
    BY <1>1, <2>1, <2>2, <2>6, <2>7, <2>8 DEF Next
<1>2. QED
  BY <1>1, TypeCorrect, PTL DEF Spec, EndedStays

-----------------------------------------------------------------------------
\* While no reply is lost, a job has one runner and is `running` for as long
\* as it has one, for any number of workers.
THEOREM OneRunnerHolds == ASSUME ~LoseReplies PROVE Spec => []OneRunner
<1>1. Init => OneRunner
  BY DEF Init, OneRunner, Holds, Busy
<1>2. TypeOK /\ OneRunner /\ [Next]_vars => OneRunner'
  <2> SUFFICES ASSUME TypeOK, OneRunner, [Next]_vars PROVE OneRunner'
    OBVIOUS
  <2> USE DEF TypeOK, OneRunner, Holds, Busy
  <2>1. ASSUME NEW j \in Jobs, Enqueue(j) \/ DelayElapses(j),
               UNCHANGED workerVars
        PROVE OneRunner'
    BY <2>1 DEF Enqueue, DelayElapses, workerVars
  <2>2. ASSUME NEW j \in Jobs, PutBack(j)
        PROVE OneRunner'
    BY <2>2 DEF PutBack, OperatorPutsBack, Stranded
  <2>3. ASSUME NEW w \in Workers, NEW j \in Jobs, Claim(w, j)
        PROVE OneRunner'
    <3>1. \A v \in Workers : ~Holds(v, j)
      BY <2>3 DEF Claim, QueueClaim, Waiting
    <3>2. QED
      BY <2>3, <3>1 DEF Claim, QueueClaim
  <2>4. ASSUME NEW w \in Workers,
               \/ Refuse(w) \/ AuthorizeTransient(w) \/ StartHandler(w)
               \/ \E o \in Outcomes : HandlerReturns(w, o)
        PROVE OneRunner'
    BY <2>4 DEF Refuse, AuthorizeTransient, StartHandler, HandlerReturns,
                Report, ToFinish, ToRetry, queueVars
  <2>5. ASSUME NEW w \in Workers, FinishCall(w)
        PROVE OneRunner'
    BY <2>5 DEF FinishCall, QueueFinish, Release, queueVars
  <2>6. ASSUME NEW w \in Workers, RetryCall(w)
        PROVE OneRunner'
    BY <2>6 DEF RetryCall, QueueRetry, Release, ToFinish, queueVars
  <2>7. ASSUME NEW w \in Workers, QueueCallFails(w)
        PROVE OneRunner'
    BY <2>7 DEF QueueCallFails, Release, queueVars
  <2>8. ASSUME NEW w \in Workers, Crash(w) \/ Restarts(w)
        PROVE OneRunner'
    BY <2>8 DEF Crash, Restarts, Stop, Restart, queueVars
  <2>9. CASE UNCHANGED vars
    BY <2>9 DEF vars, queueVars, workerVars
  <2>10. QED
    BY <2>1, <2>2, <2>3, <2>4, <2>5, <2>6, <2>7, <2>8, <2>9
       DEF Next, WorkerStep, QueueCalls, Faults, ClaimReplyLost
<1>3. QED
  BY <1>1, <1>2, TypeCorrect, PTL DEF Spec

\* Either no reply is lost or there is one worker: what keeps two workers
\* off one job.
OneHolder == ~LoseReplies \/ \A v, w \in Workers : v = w

\* The holder of a job is alone, and the job is `running` until its holder
\* reports.
SoleRunner ==
  \A w \in Workers, j \in Jobs :
    Holds(w, j) =>
      /\ \A v \in Workers \ {w} : ~Holds(v, j)
      /\ pc[w] \in {"claimed", "running"} => state[j] = "running"

\* A lone worker keeps its job to itself even when replies are lost: what it
\* repeats meets only its own earlier call.
LEMMA SoleRunnerHolds == ASSUME OneHolder PROVE Spec => []SoleRunner
<1>1. CASE ~LoseReplies
  <2>1. OneRunner => SoleRunner
    BY DEF OneRunner, SoleRunner
  <2>2. QED
    BY <1>1, <2>1, OneRunnerHolds, PTL
<1>2. CASE \A v, w \in Workers : v = w
  <2>1. Init => SoleRunner
    BY DEF Init, SoleRunner, Holds, Busy
  <2>2. TypeOK /\ SoleRunner /\ [Next]_vars => SoleRunner'
    <3> SUFFICES ASSUME TypeOK, SoleRunner, [Next]_vars PROVE SoleRunner'
      OBVIOUS
    <3> USE <1>2 DEF TypeOK, SoleRunner, Holds, Busy
    <3>1. ASSUME NEW j \in Jobs, Enqueue(j) \/ DelayElapses(j),
                 UNCHANGED workerVars
          PROVE  SoleRunner'
      BY <3>1 DEF Enqueue, DelayElapses, workerVars
    <3>2. ASSUME NEW j \in Jobs, PutBack(j)
          PROVE  SoleRunner'
      BY <3>2 DEF PutBack, OperatorPutsBack, Stranded
    <3>3. ASSUME NEW w \in Workers, NEW j \in Jobs,
                 Claim(w, j) \/ ClaimReplyLost(w, j)
          PROVE  SoleRunner'
      BY <3>3 DEF Claim, ClaimReplyLost, QueueClaim
    <3>4. ASSUME NEW w \in Workers,
                 \/ Refuse(w) \/ AuthorizeTransient(w) \/ StartHandler(w)
                 \/ \E o \in Outcomes : HandlerReturns(w, o)
          PROVE  SoleRunner'
      BY <3>4 DEF Refuse, AuthorizeTransient, StartHandler, HandlerReturns,
                  Report, ToFinish, ToRetry, queueVars
    <3>5. ASSUME NEW w \in Workers, FinishCall(w) \/ RetryCall(w) \/ QueueCallFails(w)
          PROVE  SoleRunner'
      BY <3>5 DEF FinishCall, RetryCall, QueueCallFails, Release, ToFinish, MayTryAgain
    <3>6. ASSUME NEW w \in Workers, Crash(w) \/ Restarts(w)
          PROVE  SoleRunner'
      BY <3>6 DEF Crash, Restarts, Stop, Restart, queueVars
    <3>7. CASE UNCHANGED vars
      BY <3>7 DEF vars, queueVars, workerVars
    <3>8. QED
      BY <3>1, <3>2, <3>3, <3>4, <3>5, <3>6, <3>7
         DEF Next, WorkerStep, QueueCalls, Faults
  <2>3. QED
    BY <2>1, <2>2, TypeCorrect, PTL DEF Spec
<1>3. QED
  BY <1>1, <1>2 DEF OneHolder

-----------------------------------------------------------------------------
\* The holder of a job is alone: in the terms of the lease the job is "held"
\* by exactly that worker.
LEMMA SoleHolder ==
  ASSUME OneRunner, NEW w \in Workers, NEW j \in Jobs, Holds(w, j)
  PROVE  HolderSet(j) = {w} /\ LeasePhase(j) = "held"
<1>1. state[j] = "running" /\ \A v \in Workers \ {w} : ~Holds(v, j)
  BY DEF OneRunner
<1>2. HolderSet(j) = {w}
  BY <1>1 DEF HolderSet
<1>3. QED
  BY <1>1, <1>2 DEF LeasePhase, Waiting

\* What a step leaves of the lease of a job it does not touch.
LEMMA SameLease ==
  ASSUME NEW j \in Jobs, state'[j] = state[j],
         \A v \in Workers : Holds(v, j)' = Holds(v, j)
  PROVE  HolderSet(j)' = HolderSet(j) /\ LeasePhase(j)' = LeasePhase(j)
<1>1. HolderSet(j)' = HolderSet(j)
  BY DEF HolderSet
<1>2. QED
  BY <1>1 DEF LeasePhase

\* Nothing of the lease changes in a step that leaves the queue's states and
\* attempts alone and keeps every holder.
LEMMA StutterOnLease ==
  ASSUME UNCHANGED <<state, attempts, putBacks>>,
         \A v \in Workers, j \in Jobs : Holds(v, j)' = Holds(v, j)
  PROVE  UNCHANGED Lease!leaseVars
<1>1. \A j \in Jobs : HolderSet(j)' = HolderSet(j) /\ LeasePhase(j)' = LeasePhase(j)
  BY SameLease
<1>2. QED
  BY <1>1 DEF Lease!leaseVars

\* A holder that lets go of a job performs LetGo, into the phase the queue
\* row is left in.
LEMMA LettingGo ==
  ASSUME TypeOK, OneRunner, NEW w \in Workers, NEW j \in Jobs, Holds(w, j),
         NEW p \in Lease!Results \cup {"waiting", "stranded"},
         p = "waiting" => attempts[j] < MaxAttempts + putBacks[j],
         UNCHANGED <<attempts, putBacks>>,
         \A i \in Jobs \ {j} : state'[i] = state[i],
         \A i \in Jobs \ {j} : \A v \in Workers : Holds(v, i)' = Holds(v, i),
         \A v \in Workers : ~Holds(v, j)',
         LeasePhase(j)' = p
  PROVE  Lease!LetGo(j, w, p)
<1>1. HolderSet(j) = {w} /\ LeasePhase(j) = "held"
  BY SoleHolder
<1>2. HolderSet(j)' = {}
  BY DEF HolderSet
<1>3. \A i \in Jobs \ {j} :
        HolderSet(i)' = HolderSet(i) /\ LeasePhase(i)' = LeasePhase(i)
  BY SameLease
<1>4. [i \in Jobs |-> LeasePhase(i)]'
        = [[i \in Jobs |-> LeasePhase(i)] EXCEPT ![j] = p]
  BY <1>3
<1>5. [i \in Jobs |-> HolderSet(i)]'
        = [[i \in Jobs |-> HolderSet(i)] EXCEPT ![j] = {}]
  BY <1>2, <1>3
<1>6. QED
  BY <1>1, <1>4, <1>5 DEF Lease!LetGo

\* A worker that takes a waiting job performs Take.
LEMMA Claiming ==
  ASSUME TypeOK, OneRunner, AttemptsInv, NEW w \in Workers, NEW j \in Jobs,
         Claim(w, j)
  PROVE  Lease!Take(j, w)
<1>1. /\ state[j] \in Waiting /\ pc[w] = "idle"
      /\ state' = [state EXCEPT ![j] = "running"]
      /\ attempts' = [attempts EXCEPT ![j] = @ + 1]
      /\ putBacks' = putBacks
      /\ pc' = [pc EXCEPT ![w] = "claimed"] /\ cur' = [cur EXCEPT ![w] = j]
  BY DEF Claim, QueueClaim
<1>2. \A v \in Workers : ~Holds(v, j)
  BY <1>1 DEF OneRunner, Waiting
<1>3. \A i \in Jobs \ {j} : \A v \in Workers : Holds(v, i)' = Holds(v, i)
  BY <1>1 DEF Holds, Busy, TypeOK
<1>4. \A v \in Workers : Holds(v, j)' <=> v = w
  BY <1>1, <1>2 DEF Holds, Busy, TypeOK
<1>5. HolderSet(j) = {} /\ LeasePhase(j) = "waiting"
  BY <1>1, <1>2 DEF HolderSet, LeasePhase, Waiting
<1>6. HolderSet(j)' = {w}
  BY <1>4 DEF HolderSet
<1>7. LeasePhase(j)' = "held"
  BY <1>1, <1>6 DEF LeasePhase, Waiting, TypeOK
<1>8. \A i \in Jobs \ {j} :
        HolderSet(i)' = HolderSet(i) /\ LeasePhase(i)' = LeasePhase(i)
  <2>1. \A i \in Jobs \ {j} : state'[i] = state[i]
    BY <1>1 DEF TypeOK
  <2>2. QED
    BY <2>1, <1>3, SameLease
<1>9. [i \in Jobs |-> LeasePhase(i)]'
        = [[i \in Jobs |-> LeasePhase(i)] EXCEPT ![j] = "held"]
  BY <1>7, <1>8
<1>10. [i \in Jobs |-> HolderSet(i)]'
         = [[i \in Jobs |-> HolderSet(i)] EXCEPT ![j] = {w}]
  BY <1>6, <1>8
<1>11. attempts[j] < MaxAttempts + putBacks[j]
  BY <1>1 DEF AttemptsInv, AttemptLeft
<1>12. QED
  BY <1>1, <1>5, <1>9, <1>10, <1>11 DEF Lease!Take

\* A job is submitted, and put back, under no holder.
LEMMA Submitting ==
  ASSUME TypeOK, NEW j \in Jobs, Enqueue(j), UNCHANGED workerVars
  PROVE  Lease!Submit(j)
<1>1. /\ state[j] = "none" /\ state' = [state EXCEPT ![j] = "queued"]
      /\ UNCHANGED <<attempts, putBacks>>
  BY DEF Enqueue, workerVars
<1>2. \A v \in Workers, i \in Jobs : Holds(v, i)' = Holds(v, i)
  BY DEF Holds, workerVars
<1>3. \A i \in Jobs : HolderSet(i)' = HolderSet(i)
  BY <1>2 DEF HolderSet
<1>4. LeasePhase(j) = "none" /\ LeasePhase(j)' = "waiting"
  BY <1>1 DEF LeasePhase, Waiting, TypeOK
<1>5. \A i \in Jobs \ {j} : LeasePhase(i)' = LeasePhase(i)
  BY <1>1, <1>2, SameLease DEF TypeOK
<1>6. [i \in Jobs |-> LeasePhase(i)]'
        = [[i \in Jobs |-> LeasePhase(i)] EXCEPT ![j] = "waiting"]
  BY <1>4, <1>5
<1>7. QED
  BY <1>1, <1>3, <1>4, <1>6 DEF Lease!Submit

LEMMA PuttingBack ==
  ASSUME TypeOK, NEW j \in Jobs, PutBack(j)
  PROVE  Lease!PutBackLease(j)
<1>1. /\ state[j] = "running" /\ state' = [state EXCEPT ![j] = "queued"]
      /\ putBacks' = [putBacks EXCEPT ![j] = @ + 1]
      /\ UNCHANGED <<attempts, pc, cur>>
      /\ \A v \in Workers : ~Holds(v, j)
  BY DEF PutBack, OperatorPutsBack, Stranded
<1>2. \A v \in Workers, i \in Jobs : Holds(v, i)' = Holds(v, i)
  BY <1>1 DEF Holds
<1>3. \A i \in Jobs : HolderSet(i)' = HolderSet(i)
  BY <1>2 DEF HolderSet
<1>4. HolderSet(j) = {}
  BY <1>1 DEF HolderSet
<1>5. LeasePhase(j) = "stranded" /\ LeasePhase(j)' = "waiting"
  BY <1>1, <1>4 DEF LeasePhase, Waiting, TypeOK
<1>6. \A i \in Jobs \ {j} : LeasePhase(i)' = LeasePhase(i)
  BY <1>1, <1>2, SameLease DEF TypeOK
<1>7. [i \in Jobs |-> LeasePhase(i)]'
        = [[i \in Jobs |-> LeasePhase(i)] EXCEPT ![j] = "waiting"]
  BY <1>5, <1>6
<1>8. [i \in Jobs |-> MaxAttempts + putBacks[i]]'
        = [[i \in Jobs |-> MaxAttempts + putBacks[i]] EXCEPT ![j] = @ + 1]
  <2>1. putBacks \in [Jobs -> Int] /\ MaxAttempts \in Int
    BY MaxAttemptsAssumption DEF TypeOK
  <2>2. \A i \in Jobs : putBacks'[i] = IF i = j THEN putBacks[i] + 1 ELSE putBacks[i]
    BY <1>1, <2>1
  <2>3. \A i \in Jobs : MaxAttempts + putBacks'[i]
           = IF i = j THEN MaxAttempts + putBacks[i] + 1 ELSE MaxAttempts + putBacks[i]
    BY <2>1, <2>2
  <2>4. QED
    BY <2>3
<1>9. QED
  BY <1>1, <1>3, <1>5, <1>7, <1>8 DEF Lease!PutBackLease

-----------------------------------------------------------------------------
\* Every initial state of the worker loop is one of the lease.
LEMMA LeaseInitially == Init => Lease!LeaseInit
<1> SUFFICES ASSUME Init PROVE Lease!LeaseInit
  OBVIOUS
<1>1. \A j \in Jobs : HolderSet(j) = {}
  BY DEF Init, HolderSet, Holds, Busy
<1>2. \A j \in Jobs : LeasePhase(j) = "none"
  BY DEF Init, QueueInit, LeasePhase, Waiting
<1>3. \A j \in Jobs : attempts[j] = 0 /\ putBacks[j] = 0
  BY DEF Init, QueueInit
<1>4. [j \in Jobs |-> MaxAttempts + putBacks[j]] = [j \in Jobs |-> MaxAttempts]
  BY <1>3, MaxAttemptsAssumption
<1>5. attempts = [j \in Jobs |-> 0]
  BY DEF Init, QueueInit
<1>6. QED
  BY <1>1, <1>2, <1>4, <1>5 DEF Lease!LeaseInit

\* Every step of the worker loop is a step of the lease or leaves it alone.
LEMMA LeaseStep ==
  ASSUME ~LoseReplies, TypeOK, OneRunner, AttemptsInv, BusyHasJob, [Next]_vars
  PROVE  [Lease!LeaseNext]_(Lease!leaseVars)
<1>1. ASSUME NEW j \in Jobs, Enqueue(j), UNCHANGED workerVars
      PROVE  Lease!LeaseNext
  BY <1>1, Submitting DEF Lease!LeaseNext
<1>2. ASSUME NEW j \in Jobs, PutBack(j)
      PROVE  Lease!LeaseNext
  BY <1>2, PuttingBack DEF Lease!LeaseNext
<1>3. ASSUME NEW w \in Workers, NEW j \in Jobs, Claim(w, j)
      PROVE  Lease!LeaseNext
  BY <1>3, Claiming DEF Lease!LeaseNext
<1>4. ASSUME NEW w \in Workers,
             \/ Refuse(w) \/ AuthorizeTransient(w) \/ StartHandler(w)
             \/ \E o \in Outcomes : HandlerReturns(w, o)
             \/ Restarts(w)
      PROVE  UNCHANGED Lease!leaseVars
  <2>1. UNCHANGED <<state, attempts, putBacks>>
    BY <1>4 DEF Refuse, AuthorizeTransient, StartHandler, HandlerReturns,
                Report, ToFinish, ToRetry, Restarts, Stop, Restart, queueVars
  <2>2. \A v \in Workers, j \in Jobs : Holds(v, j)' = Holds(v, j)
    BY <1>4 DEF Refuse, AuthorizeTransient, StartHandler, HandlerReturns,
                Report, ToFinish, ToRetry, Restarts, Stop, Restart, Holds,
                Busy, TypeOK
  <2>3. QED
    BY <2>1, <2>2, StutterOnLease
<1>5. ASSUME NEW j \in Jobs, DelayElapses(j), UNCHANGED workerVars
      PROVE  UNCHANGED Lease!leaseVars
  <2>1. UNCHANGED <<state, attempts, putBacks>>
    BY <1>5 DEF DelayElapses, workerVars
  <2>2. \A v \in Workers, i \in Jobs : Holds(v, i)' = Holds(v, i)
    BY <1>5 DEF Holds, workerVars
  <2>3. QED
    BY <2>1, <2>2, StutterOnLease
<1>6. ASSUME NEW w \in Workers, pc[w] \in Busy, pc'[w] \notin Busy,
             \A v \in Workers \ {w} : pc'[v] = pc[v] /\ cur'[v] = cur[v]
      PROVE  \E j \in Jobs :
               /\ cur[w] = j /\ Holds(w, j) /\ state[j] = "running"
               /\ \A v \in Workers : ~Holds(v, j)'
               /\ \A i \in Jobs \ {j} :
                    \A v \in Workers : Holds(v, i)' = Holds(v, i)
  <2>1. PICK j \in Jobs : cur[w] = j
    BY <1>6 DEF BusyHasJob
  <2>2. Holds(w, j)
    BY <1>6, <2>1 DEF Holds
  <2>3. state[j] = "running" /\ \A v \in Workers \ {w} : ~Holds(v, j)
    BY <2>2 DEF OneRunner
  <2>4. \A i \in Jobs \ {j} : ~Holds(w, i)
    BY <2>1 DEF Holds
  <2>5. \A i \in Jobs : ~Holds(w, i)'
    BY <1>6 DEF Holds
  <2>6. \A v \in Workers \ {w} : \A i \in Jobs : Holds(v, i)' = Holds(v, i)
    BY <1>6 DEF Holds
  <2>7. \A i \in Jobs \ {j} : Holds(w, i)' = Holds(w, i)
    BY <2>4, <2>5 DEF Holds
  <2>8. \A i \in Jobs \ {j} : \A v \in Workers : Holds(v, i)' = Holds(v, i)
    BY <2>6, <2>7
  <2>9. \A v \in Workers : ~Holds(v, j)'
    BY <2>3, <2>5, <2>6
  <2>10. QED
    BY <2>1, <2>2, <2>3, <2>8, <2>9
<1>7. ASSUME NEW w \in Workers, FinishCall(w)
      PROVE  Lease!LeaseNext
  <2>1. /\ pc[w] \in Busy /\ pc'[w] \notin Busy
        /\ \A v \in Workers \ {w} : pc'[v] = pc[v] /\ cur'[v] = cur[v]
    BY <1>7 DEF FinishCall, Release, Busy, TypeOK
  <2>2. PICK j \in Jobs :
         /\ cur[w] = j /\ Holds(w, j) /\ state[j] = "running"
         /\ \A v \in Workers : ~Holds(v, j)'
         /\ \A i \in Jobs \ {j} : \A v \in Workers : Holds(v, i)' = Holds(v, i)
    BY <2>1, <1>6
  <2>3. QueueFinish(j, verdict[w]) /\ UNCHANGED <<attempts, putBacks>>
    BY <1>7, <2>2 DEF FinishCall, FinishAllowed, QueueFinish, Release
  <2>4. \A i \in Jobs \ {j} : state'[i] = state[i]
    BY <2>3 DEF QueueFinish, TypeOK
  <2>5. verdict[w] \in Lease!Results
    BY DEF TypeOK, Ended, Lease!Results
  <2>6. LeasePhase(j)' = verdict[w]
    BY <2>2, <2>3, <2>5 DEF QueueFinish, LeasePhase, Waiting, TypeOK, Lease!Results
  <2>7. Lease!LetGo(j, w, verdict[w])
    <3>1. verdict[w] # "waiting"
      BY <2>5 DEF Lease!Results
    <3>2. QED
      BY <2>2, <2>3, <2>4, <2>5, <2>6, <3>1, LettingGo
  <2>8. QED
    BY <2>2, <2>5, <2>7 DEF Lease!LeaseNext
<1>8. ASSUME NEW w \in Workers, pc[w] = "retry", QueueRetry(cur[w]), Release(w)
      PROVE  Lease!LeaseNext
  <2>1. /\ pc[w] \in Busy /\ pc'[w] \notin Busy
        /\ \A v \in Workers \ {w} : pc'[v] = pc[v] /\ cur'[v] = cur[v]
    BY <1>8 DEF Release, Busy, TypeOK
  <2>2. PICK j \in Jobs :
         /\ cur[w] = j /\ Holds(w, j) /\ state[j] = "running"
         /\ \A v \in Workers : ~Holds(v, j)'
         /\ \A i \in Jobs \ {j} : \A v \in Workers : Holds(v, i)' = Holds(v, i)
    BY <2>1, <1>6
  <2>3. /\ state' = [state EXCEPT ![j] = "queued"]
        /\ UNCHANGED <<attempts, putBacks>>
        /\ attempts[j] < MaxAttempts
    BY <1>8, <2>2 DEF QueueRetry, RetryAllowed, Release
  <2>4. \A i \in Jobs \ {j} : state'[i] = state[i]
    BY <2>3 DEF TypeOK
  <2>5. LeasePhase(j)' = "waiting"
    BY <2>2, <2>3 DEF LeasePhase, Waiting, TypeOK
  <2>6. attempts[j] < MaxAttempts + putBacks[j]
    BY <2>2, <2>3, MaxAttemptsAssumption DEF TypeOK
  <2>7. Lease!LetGo(j, w, "waiting")
    BY <2>2, <2>3, <2>4, <2>5, <2>6, LettingGo
  <2>8. QED
    BY <2>2, <2>7 DEF Lease!LeaseNext
<1>9. ASSUME NEW w \in Workers, pc[w] \in Busy, pc'[w] \notin Busy,
             UNCHANGED <<state, attempts, putBacks>>,
             \A v \in Workers \ {w} : pc'[v] = pc[v] /\ cur'[v] = cur[v]
      PROVE  Lease!LeaseNext
  <2>1. PICK j \in Jobs :
         /\ cur[w] = j /\ Holds(w, j) /\ state[j] = "running"
         /\ \A v \in Workers : ~Holds(v, j)'
         /\ \A i \in Jobs \ {j} : \A v \in Workers : Holds(v, i)' = Holds(v, i)
    BY <1>6, <1>9
  <2>2. HolderSet(j)' = {}
    BY <2>1 DEF HolderSet
  <2>3. LeasePhase(j)' = "stranded"
    BY <1>9, <2>1, <2>2 DEF LeasePhase, Waiting
  <2>4. Lease!LetGo(j, w, "stranded")
    BY <1>9, <2>1, <2>3, LettingGo
  <2>5. QED
    BY <2>1, <2>4 DEF Lease!LeaseNext
<1>10. ASSUME NEW w \in Workers, RetryCall(w)
       PROVE  Lease!LeaseNext \/ UNCHANGED Lease!leaseVars
  <2>1. CASE QueueRetry(cur[w]) /\ Release(w)
    BY <1>10, <2>1, <1>8 DEF RetryCall
  <2>2. CASE ToFinish(w, "failed") /\ UNCHANGED queueVars
    <3>1. \A v \in Workers, i \in Jobs : Holds(v, i)' = Holds(v, i)
      BY <1>10, <2>2 DEF RetryCall, ToFinish, Holds, Busy, TypeOK
    <3>2. QED
      BY <2>2, <3>1, StutterOnLease DEF ToFinish, queueVars
  <2>3. QED
    BY <1>10, <2>1, <2>2 DEF RetryCall
<1>11. ASSUME NEW w \in Workers, QueueCallFails(w)
       PROVE  Lease!LeaseNext \/ UNCHANGED Lease!leaseVars
  <2>1. UNCHANGED <<state, attempts, putBacks>>
    BY <1>11 DEF QueueCallFails, Release, queueVars
  <2>2. CASE UNCHANGED <<pc, cur>>
    <3>1. \A v \in Workers, i \in Jobs : Holds(v, i)' = Holds(v, i)
      BY <2>2 DEF Holds
    <3>2. QED
      BY <2>1, <3>1, StutterOnLease
  <2>3. CASE Release(w)
    <3>1. /\ pc[w] \in Busy /\ pc'[w] \notin Busy
          /\ \A v \in Workers \ {w} : pc'[v] = pc[v] /\ cur'[v] = cur[v]
      BY <1>11, <2>3 DEF QueueCallFails, Release, Busy, TypeOK
    <3>2. QED
      BY <2>1, <3>1, <1>9
  <2>4. QED
    BY <1>11, <2>2, <2>3 DEF QueueCallFails
<1>12. ASSUME NEW w \in Workers, Crash(w)
       PROVE  Lease!LeaseNext
  <2>1. /\ pc[w] \in Busy /\ pc'[w] \notin Busy
        /\ UNCHANGED <<state, attempts, putBacks>>
        /\ \A v \in Workers \ {w} : pc'[v] = pc[v] /\ cur'[v] = cur[v]
    BY <1>12 DEF Crash, Busy, TypeOK, queueVars
  <2>2. QED
    BY <2>1, <1>9
<1>13. CASE UNCHANGED vars
  <2>1. \A v \in Workers, i \in Jobs : Holds(v, i)' = Holds(v, i)
    BY <1>13 DEF Holds, vars, workerVars
  <2>2. QED
    BY <1>13, <2>1, StutterOnLease DEF vars, queueVars, workerVars
<1>14. QED
  BY <1>1, <1>2, <1>3, <1>4, <1>5, <1>7, <1>10, <1>11, <1>12, <1>13
     DEF Next, WorkerStep, QueueCalls, Faults, ClaimReplyLost

\* The queue keeps the promise of the lease: one holder, ended once and by
\* its holder, taken no more often than allowed.
THEOREM LeaseIsKept == ASSUME ~LoseReplies PROVE Spec => LeaseKept
<1>1. TypeOK /\ OneRunner /\ AttemptsInv /\ BusyHasJob /\ [Next]_vars
        => [Lease!LeaseNext]_(Lease!leaseVars)
  BY LeaseStep
<1>2. Spec => [](TypeOK /\ OneRunner /\ AttemptsInv /\ BusyHasJob)
  BY TypeCorrect, OneRunnerHolds, AttemptsInvHolds, BusyWorkersHoldJobs, PTL
<1>3. QED
  BY <1>1, <1>2, LeaseInitially, PTL DEF Spec, LeaseKept, Lease!LeaseSpec

-----------------------------------------------------------------------------
(* The handler in stages.                                                  *)


\* Where a step of the handler leads, as far as Worker can see.
LEMMA HandlerStep ==
  ASSUME NEW w \in Workers, StageStep(w)
  PROVE  \/ \E o \in Outcomes : HandlerReturns(w, o)
         \/ \E c \in Jobs : Enqueue(c) /\ UNCHANGED workerVars
         \/ UNCHANGED vars
<1>1. CASE StageCommits(w)
  <2>1. UNCHANGED workerVars
    BY <1>1 DEF StageCommits, GoTo
  <2>2. UNCHANGED queueVars \/ \E c \in Jobs : Enqueue(c)
    BY <1>1 DEF StageCommits, Effect, SpawnChild, Fresh
  <2>3. QED
    BY <2>1, <2>2 DEF vars
<1>2. CASE StageFails(w)
  <2>1. UNCHANGED workerVars
    BY <1>2 DEF StageFails, GoTo
  <2>2. UNCHANGED queueVars \/ \E c \in Jobs : Enqueue(c)
    BY <1>2 DEF StageFails, Effect, SpawnChild, Fresh, Nothing
  <2>3. QED
    BY <2>1, <2>2 DEF vars
<1>3. CASE StageRefused(w)
  BY <1>3 DEF StageRefused, GoTo, Returns, HandlerReturns, Nothing, Outcomes, vars
<1>4. CASE StageNotLive(w)
  BY <1>4 DEF StageNotLive, NotLiveOutcome, Returns, HandlerReturns, Nothing,
              Outcomes
<1>5. CASE EdgeRefused(w)
  BY <1>5 DEF EdgeRefused, GoTo, vars
<1>6. CASE Fails(w) \/ Done(w)
  BY <1>6 DEF Fails, Done, Returns, HandlerReturns, Nothing, Outcomes
<1>7. QED
  BY <1>1, <1>2, <1>3, <1>4, <1>5, <1>6 DEF StageStep

\* The handler of the code, run in stages, is a handler of the worker loop:
\* every behaviour of the whole is one of Worker.
THEOREM StagesRefineWorker == SynSpec => StagesAreAHandler
<1>1. SynInit => Init
  BY DEF SynInit
<1>2. [SynNext]_allVars => [Next]_vars
  <2> SUFFICES ASSUME [SynNext]_allVars PROVE Next \/ UNCHANGED vars
    OBVIOUS
  <2>1. ASSUME NEW j \in Jobs, UserCreates(j)
        PROVE  Next
    BY <2>1 DEF UserCreates, Next
  <2>2. ASSUME NEW j \in Jobs, UserDeletes(j)
        PROVE  UNCHANGED vars
    BY <2>2 DEF UserDeletes
  <2>3. CASE RevokeOrGrant
    BY <2>3 DEF RevokeOrGrant
  <2>4. ASSUME NEW j \in Jobs, Delay(j) \/ PutBack(j)
        PROVE  Next
    BY <2>4 DEF Delay, Next
  <2>5. ASSUME NEW w \in Workers, StageStep(w)
        PROVE  Next \/ UNCHANGED vars
    BY <2>5, HandlerStep DEF Next, WorkerStep
  <2>6. ASSUME NEW w \in Workers,
               \/ QueueCalls(w) \/ Starts(w) \/ CrashInStage(w)
               \/ Faults(w) \/ Restarts(w)
        PROVE  Next
    BY <2>6 DEF Next, WorkerStep, Starts, CrashInStage
  <2>7. CASE UNCHANGED allVars
    BY <2>7 DEF allVars
  <2>8. QED
    BY <2>1, <2>2, <2>3, <2>4, <2>5, <2>6, <2>7 DEF SynNext, WorkerMoves
<1>3. QED
  BY <1>1, <1>2, PTL DEF SynSpec, StagesAreAHandler, Spec

\* The worker's invariants hold of the whole: the bound on attempts always,
\* and the single runner while no reply is lost.
THEOREM SynthesisAttemptsBounded == SynSpec => []AttemptsBounded
  BY StagesRefineWorker, AttemptsAreBounded, PTL DEF StagesAreAHandler

THEOREM SynthesisOneRunner == ASSUME ~LoseReplies PROVE SynSpec => []OneRunner
  BY StagesRefineWorker, OneRunnerHolds, PTL DEF StagesAreAHandler

\* And with it the lease: what the queue, the worker and the staged handler
\* do to a job is what JobLease promises of it.
THEOREM SynthesisKeepsLease == ASSUME ~LoseReplies PROVE SynSpec => LeaseKept
  BY StagesRefineWorker, LeaseIsKept, PTL DEF StagesAreAHandler

-----------------------------------------------------------------------------
\* The shape of the rows: what the EXCEPTs below need of it.
RowShape ==
  /\ status \in [Jobs -> Statuses]
  /\ made \in [Jobs -> [Pieces -> Nat]]
  /\ refines \in [Jobs -> Jobs \cup {NoJob}]

\* Which rows a stage's transaction writes: its own status, its own pieces,
\* and a row that did not exist.
LEMMA EffectOnRows ==
  ASSUME RowShape, attempts \in [Jobs -> Nat],
         NEW i \in Jobs, NEW s \in DOMAIN After, Effect(i, s)
  PROVE  /\ RowShape'
         /\ \A j \in Jobs \ {i} : made'[j] = made[j]
         /\ \A j \in Jobs \ {i} : status'[j] = status[j] \/ status[j] = "none"
         /\ s \notin {"start", "publish", "reject"} => status' = status
         /\ \A p \in Pieces : made'[i][p] # made[i][p] =>
              \/ s = p
              \/ s \in {"failed_usage", "publish", "reject"}
         /\ \A c \in Jobs : refines'[c] # refines[c] => s = "reject" /\ refines'[c] = i
<1> USE DEF RowShape, Statuses
<1>1. CASE s \in {"seed", "contents", "novelty"}
  BY <1>1 DEF Effect, rowVars, EarlyPieces
<1>2. CASE s = "start"
  BY <1>2 DEF Effect, SetStatus, EarlyPieces
<1>3. CASE s \in EarlyPieces \cup {"usage", "outcome", "plan", "embedding"}
  <2>1. Make(i, {s}) /\ status' = status /\ refines' = refines
    BY <1>3 DEF Effect, EarlyPieces
  <2>2. /\ made' \in [Jobs -> [Pieces -> Nat]]
        /\ \A j \in Jobs \ {i} : made'[j] = made[j]
        /\ \A p \in Pieces : p # s => made'[i][p] = made[i][p]
    BY <2>1 DEF Make
  <2>3. s \notin {"start", "publish", "reject"}
    BY <1>3 DEF EarlyPieces
  <2>4. QED
    BY <2>1, <2>2, <2>3
<1>4. CASE s = "failed_usage"
  BY <1>4 DEF Effect, Make, EarlyPieces
<1>5. CASE s = "publish"
  <2>1. /\ status' = [status EXCEPT ![i] = "complete"] /\ refines' = refines
        /\ \E ps : Make(i, ps)
    BY <1>5 DEF Effect, SetStatus, EarlyPieces
  <2>2. /\ made' \in [Jobs -> [Pieces -> Nat]]
        /\ \A j \in Jobs \ {i} : made'[j] = made[j]
    BY <2>1 DEF Make
  <2>3. QED
    BY <1>5, <2>1, <2>2
<1>6. CASE s = "reject"
  <2>1. Make(i, {"outcome"})
    BY <1>6 DEF Effect, EarlyPieces
  <2>2. CASE SetStatus(i, "rejected") /\ UNCHANGED <<refines, temp, queueVars>>
    BY <1>6, <2>1, <2>2 DEF Make, SetStatus
  <2>3. CASE SpawnChild(i)
    <3>1. PICK c \in Jobs :
            /\ status[c] = "none"
            /\ status'  = [status EXCEPT ![i] = "rejected", ![c] = "pending"]
            /\ refines' = [refines EXCEPT ![c] = i]
      BY <2>3 DEF SpawnChild, Fresh
    <3>2. QED
      BY <1>6, <2>1, <3>1 DEF Make
  <2>4. QED
    BY <1>6, <2>2, <2>3 DEF Effect, EarlyPieces
<1>7. QED
  BY <1>1, <1>2, <1>3, <1>4, <1>5, <1>6 DEF After, EarlyPieces

\* One step of a handler, seen from the row it works on and from the others.
LEMMA StageOnRows ==
  ASSUME RowShape, attempts \in [Jobs -> Nat], NEW w \in Workers,
         cur[w] \in Jobs, StageStep(w)
  PROVE  /\ RowShape'
         /\ \A j \in Jobs : ~Live(j) => status'[j] = status[j]
         /\ \A j \in Jobs : status[j] = "deleted" =>
              /\ \A p \in LatePieces : made'[j][p] = made[j][p]
              /\ \A c \in Jobs : refines'[c] = j => refines[c] = j
<1> DEFINE i == cur[w]
<1>1. ASSUME NEW s \in DOMAIN After, MayWrite(i, s), Effect(i, s)
      PROVE  /\ RowShape'
             /\ \A j \in Jobs : ~Live(j) => status'[j] = status[j]
             /\ \A j \in Jobs : status[j] = "deleted" =>
                  /\ \A p \in LatePieces : made'[j][p] = made[j][p]
                  /\ \A c \in Jobs : refines'[c] = j => refines[c] = j
  <2>1. s \in LiveStages => Live(i)
    BY <1>1 DEF MayWrite
  <2>2. \A p \in LatePieces : s = p => s \in LiveStages \/ p \in {"edges", "narrative", "event"}
    BY DEF LatePieces, LiveStages
  <2>3. s \notin {"edges", "narrative", "event"}
    BY DEF After
  <2>4. LatePieces \subseteq Pieces
    BY DEF Pieces
  <2>5. QED
    BY <1>1, <2>1, <2>2, <2>3, <2>4, EffectOnRows DEF Live, LiveStages
<1>2. ASSUME UNCHANGED rowVars
      PROVE  /\ RowShape' /\ status' = status /\ made' = made /\ refines' = refines
  BY <1>2 DEF rowVars, RowShape
<1>3. CASE StageCommits(w)
  BY <1>1, <1>3 DEF StageCommits, At
<1>4. CASE StageFails(w)
  BY <1>1, <1>2, <1>4 DEF StageFails, Nothing, At
<1>5. CASE StageRefused(w) \/ StageNotLive(w) \/ Done(w)
  BY <1>2, <1>5 DEF StageRefused, StageNotLive, Done, Nothing
<1>6. CASE EdgeRefused(w)
  <2>1. Live(i)
    BY <1>6 DEF EdgeRefused, MayWrite, LiveStages
  <2>2. Make(i, {"edges"}) /\ status' = status /\ refines' = refines
    BY <1>6 DEF EdgeRefused
  <2>3. made' \in [Jobs -> [Pieces -> Nat]] /\ \A j \in Jobs \ {i} : made'[j] = made[j]
    BY <2>2 DEF Make, RowShape
  <2>4. QED
    BY <2>1, <2>2, <2>3 DEF Live, RowShape
<1>7. CASE Fails(w)
  <2>1. CASE UNCHANGED rowVars
    BY <1>2, <2>1
  <2>2. CASE MarkFailed(i)
    <3>1. /\ refines' = refines
          /\ \/ status' = status
             \/ Live(i) /\ status' = [status EXCEPT ![i] = "failed"]
      BY <2>2 DEF MarkFailed
    <3>2. PICK e \in EventOf(i) : Make(i, e)
      BY <2>2 DEF MarkFailed
    <3>3. status[i] = "deleted" => e = {}
      BY <3>2 DEF EventOf
    <3>4. /\ made' \in [Jobs -> [Pieces -> Nat]]
          /\ \A j \in Jobs \ {i} : made'[j] = made[j]
          /\ e = {} => made' = made
      BY <3>2 DEF Make, RowShape
    <3>5. QED
      BY <3>1, <3>3, <3>4 DEF RowShape, Statuses, Live
  <2>3. QED
    BY <1>7, <2>1, <2>2 DEF Fails
<1>8. QED
  BY <1>3, <1>4, <1>5, <1>6, <1>7 DEF StageStep

\* The same of every step of the system.
LEMMA StepOnRows ==
  ASSUME RowShape, TypeOK, BusyHasJob, [SynNext]_allVars
  PROVE  /\ RowShape'
         /\ \A j \in Jobs : ~Live(j) => status'[j] = status[j]
         /\ \A j \in Jobs : status[j] = "deleted" =>
              /\ \A p \in LatePieces : made'[j][p] = made[j][p]
              /\ \A c \in Jobs : refines'[c] = j => refines[c] = j
<1>1. ASSUME NEW i \in Jobs, UserCreates(i) \/ UserDeletes(i)
      PROVE  /\ status' \in [Jobs -> Statuses] /\ made' = made /\ refines' = refines
             /\ \A j \in Jobs : ~Live(j) => status'[j] = status[j]
  BY <1>1 DEF UserCreates, UserDeletes, SetStatus, Fresh, RowShape, Statuses, Live
<1>2. ASSUME NEW w \in Workers, StageStep(w)
      PROVE  cur[w] \in Jobs /\ attempts \in [Jobs -> Nat]
  BY <1>2 DEF StageStep, StageCommits, StageRefused, StageNotLive, StageFails,
              EdgeRefused, Fails, Done, At, BusyHasJob, Busy, TypeOK
<1>3. CASE UNCHANGED rowVars
  BY <1>3 DEF rowVars, RowShape
<1>4. QED
  BY <1>1, <1>2, <1>3, StageOnRows
     DEF SynNext, WorkerMoves, RevokeOrGrant, CrashInStage, synVars, allVars,
         RowShape

LEMMA RowShapeHolds == SynSpec => [](RowShape /\ TypeOK /\ BusyHasJob)
<1>1. SynInit => RowShape
  BY DEF SynInit, RowShape, Statuses
<1>2. RowShape /\ TypeOK /\ BusyHasJob /\ [SynNext]_allVars => RowShape'
  BY StepOnRows
<1>3. SynSpec => [](TypeOK /\ BusyHasJob)
  BY StagesRefineWorker, TypeCorrect, BusyWorkersHoldJobs, PTL
     DEF StagesAreAHandler
<1>4. QED
  BY <1>1, <1>2, <1>3, PTL DEF SynSpec

-----------------------------------------------------------------------------
\* The annealing of a child stays within the ceiling, because a row at the
\* ceiling spawns none.
LEMMA EffectOnTemp ==
  ASSUME temp \in [Jobs -> 0 .. Ceiling], NEW i \in Jobs, NEW s, Effect(i, s)
  PROVE  temp' \in [Jobs -> 0 .. Ceiling]
<1>1. CASE temp' = temp
  BY <1>1
<1>2. CASE ~AtCeiling(i) /\ SpawnChild(i)
  <2>1. PICK c \in Jobs : temp' = [temp EXCEPT ![c] = temp[i] + 1]
    BY <1>2 DEF SpawnChild, Fresh
  <2>2. temp[i] + 1 \in 0 .. Ceiling
    BY <1>2, SynthesisAssumption DEF AtCeiling
  <2>3. QED
    BY <2>1, <2>2
<1>3. QED
  BY <1>1, <1>2 DEF Effect, rowVars

\* What a step of a handler leaves of the other variables' types.
LEMMA StageOnRest ==
  ASSUME SynTypeOK, NEW w \in Workers, cur[w] \in Jobs, StageStep(w)
  PROVE  /\ temp' \in [Jobs -> 0 .. Ceiling]
         /\ stage' \in [Workers -> Stages]
         /\ UNCHANGED envVars
<1> USE DEF SynTypeOK
<1>1. ASSUME NEW n \in Stages, stage' = [stage EXCEPT ![w] = n]
      PROVE  stage' \in [Workers -> Stages]
  BY <1>1
<1>2. /\ "start" \in Stages
      /\ \A s \in DOMAIN After : After[s] \subseteq Stages /\ OnError[s] \in Stages
  <2>1. \A s \in DOMAIN After : After[s] \subseteq Stages
    BY DEF Stages, LiveStages, After, EarlyPieces
  <2>2. \A s \in DOMAIN After : OnError[s] \in {"fail", "done", "failed_usage"}
    BY DEF OnError
  <2>3. QED
    BY <2>1, <2>2 DEF Stages, LiveStages
<1>3. CASE StageCommits(w)
  BY <1>1, <1>2, <1>3, EffectOnTemp DEF StageCommits, GoTo, At
<1>4. CASE StageFails(w)
  <2>1. temp' \in [Jobs -> 0 .. Ceiling]
    BY <1>4, EffectOnTemp DEF StageFails, Nothing, rowVars
  <2>2. QED
    BY <1>1, <1>2, <1>4, <2>1 DEF StageFails, GoTo, At
<1>5. CASE StageRefused(w)
  BY <1>1, <1>2, <1>5 DEF StageRefused, GoTo, Returns, Nothing, rowVars, At
<1>6. CASE StageNotLive(w) \/ Done(w)
  BY <1>1, <1>2, <1>6 DEF StageNotLive, Done, Returns, Nothing, rowVars
<1>7. CASE EdgeRefused(w)
  <2>1. "publish" \in DOMAIN After
    BY DEF After
  <2>2. QED
    BY <1>1, <1>2, <1>7, <2>1 DEF EdgeRefused, GoTo
<1>8. CASE Fails(w)
  BY <1>1, <1>2, <1>8 DEF Fails, MarkFailed, Returns, rowVars
<1>9. QED
  BY <1>3, <1>4, <1>5, <1>6, <1>7, <1>8 DEF StageStep

\* Type correctness of the handler, with the refinement depth within its
\* ceiling: no chain of automatic refinements is longer, and none ends early
\* by an off-by-one of the guard (reject_and_refine).
THEOREM SynTypeCorrect == SynSpec => []SynTypeOK
<1>1. SynInit => SynTypeOK
  BY SynthesisAssumption DEF SynInit, SynTypeOK, Statuses, Stages, LiveStages
<1>2. SynTypeOK /\ TypeOK /\ BusyHasJob /\ [SynNext]_allVars => SynTypeOK'
  <2> SUFFICES ASSUME SynTypeOK, TypeOK, BusyHasJob, [SynNext]_allVars
               PROVE  SynTypeOK'
    OBVIOUS
  <2>1. RowShape'
    BY StepOnRows DEF SynTypeOK, RowShape
  <2>2. ASSUME NEW w \in Workers, StageStep(w)
        PROVE  cur[w] \in Jobs
    BY <2>2 DEF StageStep, StageCommits, StageRefused, StageNotLive, StageFails,
                EdgeRefused, Fails, Done, At, BusyHasJob, Busy
  <2>3. CASE RevokeOrGrant
    BY <2>1, <2>3, SynthesisAssumption
       DEF RevokeOrGrant, SynTypeOK, RowShape, rowVars
  <2>4. ASSUME NEW w \in Workers, StageStep(w)
        PROVE  SynTypeOK'
    BY <2>1, <2>2, <2>4, StageOnRest DEF SynTypeOK, RowShape, envVars
  <2>5. ASSUME NEW w \in Workers, CrashInStage(w)
        PROVE  SynTypeOK'
    <3>1. "start" \in Stages
      BY DEF Stages, LiveStages
    <3>2. QED
      BY <2>1, <2>5, <3>1 DEF CrashInStage, SynTypeOK, RowShape, rowVars, envVars
  <2>6. CASE UNCHANGED <<temp, stage, envVars>>
    BY <2>1, <2>6 DEF SynTypeOK, RowShape, envVars
  <2>7. QED
    BY <2>3, <2>4, <2>5, <2>6
       DEF SynNext, WorkerMoves, UserCreates, UserDeletes, synVars, rowVars,
           allVars
<1>3. QED
  BY <1>1, <1>2, RowShapeHolds, PTL DEF SynSpec

\* No retry, late failure, redelivery or lost commit ever takes a synthesis
\* out of `complete` or `deleted`.
THEOREM EndedRowsStay == SynSpec => EndsAreFinal
<1>1. RowShape /\ TypeOK /\ BusyHasJob /\ [SynNext]_allVars
        => [\A j \in Jobs : ~Live(j) => status'[j] = status[j]]_allVars
  BY StepOnRows
<1>2. QED
  BY <1>1, RowShapeHolds, PTL DEF SynSpec, EndsAreFinal

\* A deleted synthesis gets no late piece and no refinement child, whatever
\* the job still running on it does.
THEOREM DeletedRowsGetNothing == SynSpec => NothingAfterDelete
<1>1. RowShape /\ TypeOK /\ BusyHasJob /\ [SynNext]_allVars
        => [\A j \in Jobs : status[j] = "deleted" =>
              /\ \A p \in LatePieces : made'[j][p] = made[j][p]
              /\ \A c \in Jobs : refines'[c] = j => refines[c] = j]_allVars
  BY StepOnRows
<1>2. QED
  BY <1>1, RowShapeHolds, PTL DEF SynSpec, NothingAfterDelete

-----------------------------------------------------------------------------
(* What a row's end says of its job, and the reverse, while a job has one  *)
(* runner (OneHolder).                                                     *)

EndedRow(j) == status[j] \in {"complete", "rejected", "deleted"}
OpenRow(j)  == status[j] \notin {"complete", "rejected"}

\* Every job has a row, and a worker outside the handler is at its start.
HandlerAtStart ==
  /\ \A w \in Workers : pc[w] # "running" => stage[w] = "start"
  /\ \A j \in Jobs : status[j] = "none" => state[j] = "none"

\* Success is reported, called in or about to be only for an ended row.
SuccessInv ==
  \A j \in Jobs :
    /\ state[j] = "complete" => EndedRow(j)
    /\ \A w \in Workers : cur[w] = j =>
         /\ pc[w] = "finish" /\ verdict[w] = "complete" => EndedRow(j)
         /\ pc[w] = "running" /\ stage[w] \in {"novelty", "done"} => EndedRow(j)

\* Until the handler is past publish or reject, and in every job that waits,
\* is retried or fails, the row is neither complete nor rejected.
FailureInv ==
  \A j \in Jobs : putBacks[j] = 0 =>
    /\ state[j] \in {"none", "queued", "retry", "failed"} => OpenRow(j)
    /\ \A w \in Workers : cur[w] = j =>
         /\ \/ pc[w] \in {"claimed", "retry"}
            \/ pc[w] = "finish" /\ verdict[w] = "failed"
            \/ pc[w] = "running" /\ stage[w] \notin {"novelty", "done"}
            => OpenRow(j)

\* The parent of an automatic child has been rejected for good.
ChildInv ==
  /\ OneRefinementChild
  /\ \A c \in Jobs : refines[c] # NoJob =>
       putBacks[refines[c]] > 0 \/ status[refines[c]] \in {"rejected", "deleted"}

\* What the handler has written when it comes to a stage.
WrittenBefore ==
  [seed |-> {}, snapshot |-> {}, clusters |-> {"snapshot"},
   contents |-> {"snapshot", "clusters"}, summaries |-> {"snapshot", "clusters"},
   usage |-> EarlyPieces, outcome |-> EarlyPieces \cup {"usage"},
   reject |-> EarlyPieces \cup {"usage"},
   plan |-> EarlyPieces \cup {"usage", "outcome"},
   embedding |-> EarlyPieces \cup {"usage", "outcome", "plan"},
   publish |-> EarlyPieces \cup {"usage", "outcome", "plan", "embedding"}]

\* The pieces so far are all of the attempt at work, and no early piece is
\* written to a complete row.
WholeInv ==
  /\ CompleteIsWhole
  /\ \A w \in Workers, j \in Jobs :
       cur[w] = j /\ pc[w] = "running" /\ stage[w] \in DOMAIN WrittenBefore =>
         /\ stage[w] \notin LiveStages => status[j] # "complete"
         /\ \A p \in WrittenBefore[stage[w]] : made[j][p] = attempts[j]

Shapes ==
  TypeOK /\ RowShape /\ stage \in [Workers -> Stages] /\ BusyHasJob /\ SoleRunner

\* What a stage's transaction does to the rows, in the terms of the
\* invariants: the row of a new child is the only other one touched.
LEMMA EffectOnStatus ==
  ASSUME Shapes, HandlerAtStart, NEW i \in Jobs, state[i] = "running",
         NEW s \in DOMAIN After, Effect(i, s)
  PROVE  /\ attempts' = attempts
         /\ \A j \in Jobs : \/ state'[j] = state[j]
                            \/ /\ status[j] = "none" /\ state[j] = "none" /\ j # i
                               /\ state'[j] = "queued" /\ status'[j] = "pending"
         /\ \A j \in Jobs \ {i} : \/ status'[j] = status[j]
                                  \/ status[j] = "none" /\ status'[j] = "pending"
         /\ status'[i] = CASE s = "start"   -> "running"
                           [] s = "publish" -> "complete"
                           [] s = "reject"  -> "rejected"
                           [] OTHER         -> status[i]
<1> USE DEF Shapes, RowShape, TypeOK, Statuses, HandlerAtStart
<1>i. status[i] # "none" /\ i \in DOMAIN status
  OBVIOUS
<1>1. CASE s \in {"seed", "contents", "novelty"}
  BY <1>1 DEF Effect, rowVars, queueVars, EarlyPieces
<1>2. CASE s = "start"
  BY <1>2 DEF Effect, SetStatus, queueVars, EarlyPieces
<1>3. CASE s \in EarlyPieces \cup {"usage", "outcome", "plan", "embedding", "failed_usage"}
  BY <1>3 DEF Effect, queueVars, EarlyPieces
<1>4. CASE s = "publish"
  BY <1>4 DEF Effect, SetStatus, queueVars, EarlyPieces
<1>5. CASE s = "reject"
  <2>1. CASE SetStatus(i, "rejected") /\ UNCHANGED <<refines, temp, queueVars>>
    BY <1>5, <2>1 DEF SetStatus, queueVars
  <2>2. CASE SpawnChild(i)
    <3>1. PICK c \in Jobs :
            /\ status[c] = "none" /\ Enqueue(c)
            /\ status' = [status EXCEPT ![i] = "rejected", ![c] = "pending"]
      BY <2>2 DEF SpawnChild, Fresh
    <3>2. c # i
      BY <1>i, <3>1
    <3>3. QED
      BY <1>5, <3>1, <3>2 DEF Enqueue
  <2>3. QED
    BY <1>5, <2>1, <2>2 DEF Effect, EarlyPieces
<1>6. QED
  BY <1>1, <1>2, <1>3, <1>4, <1>5 DEF After, EarlyPieces

\* The forms a step of the handler takes: its stage commits, seen or unseen;
\* it fails; the kernel refuses an edge; the handler returns an end; or it
\* marks the row failed and asks for a retry.
Committed(w, n) ==
  /\ stage[w] \in DOMAIN After
  /\ MayWrite(cur[w], stage[w]) /\ Effect(cur[w], stage[w])
  /\ UNCHANGED <<pc, verdict>> /\ stage' = [stage EXCEPT ![w] = n]

Errs(w) ==
  /\ stage[w] \in DOMAIN After /\ Nothing
  /\ UNCHANGED <<pc, verdict>> /\ stage' = [stage EXCEPT ![w] = OnError[stage[w]]]

EdgesOnly(w) ==
  /\ stage[w] = "publish" /\ Live(cur[w]) /\ Make(cur[w], {"edges"})
  /\ UNCHANGED <<status, refines, temp, queueVars>>
  /\ UNCHANGED <<pc, verdict>> /\ stage' = [stage EXCEPT ![w] = "failed_usage"]

Finishing(w, r) ==
  /\ Nothing
  /\ pc' = [pc EXCEPT ![w] = "finish"] /\ verdict' = [verdict EXCEPT ![w] = r]
  /\ stage' = [stage EXCEPT ![w] = "start"]

Failing(w) ==
  /\ stage[w] = "fail" /\ (MarkFailed(cur[w]) \/ UNCHANGED rowVars)
  /\ UNCHANGED queueVars
  /\ pc' = [pc EXCEPT ![w] = "retry"] /\ verdict' = verdict
  /\ stage' = [stage EXCEPT ![w] = "start"]

LEMMA StageForms ==
  ASSUME Shapes, NEW w \in Workers, StageStep(w)
  PROVE  /\ cur[w] \in Jobs /\ pc[w] = "running" /\ Holds(w, cur[w])
         /\ state[cur[w]] = "running"
         /\ UNCHANGED <<cur, putBacks>>
         /\ \/ \E n \in After[stage[w]] : Committed(w, n)
            \/ LoseCommits /\ Committed(w, OnError[stage[w]])
            \/ Errs(w)
            \/ EdgesOnly(w)
            \/ stage[w] \notin {"novelty", "done"} /\ Finishing(w, "failed")
            \/ /\ stage[w] = "done" \/ status[cur[w]] = "complete"
               /\ Finishing(w, "complete")
            \/ Failing(w)
<1>1. /\ pc[w] = "running" /\ cur[w] \in Jobs /\ Holds(w, cur[w])
      /\ state[cur[w]] = "running"
  BY DEF StageStep, StageCommits, StageRefused, StageNotLive, StageFails,
         EdgeRefused, Fails, Done, At, Shapes, BusyHasJob, SoleRunner, Holds, Busy
<1>2. UNCHANGED <<cur, putBacks>>
  BY DEF StageStep, StageCommits, StageRefused, StageNotLive, StageFails,
         EdgeRefused, Fails, Done, GoTo, Returns, Report, ToFinish, ToRetry, workerVars
<1>3. CASE StageCommits(w)
  <2>1. PICK n \in After[stage[w]] : GoTo(w, n)
    BY <1>3 DEF StageCommits
  <2>2. Committed(w, n)
    BY <1>3, <2>1 DEF StageCommits, At, GoTo, workerVars, Committed
  <2>3. QED
    BY <1>1, <1>2, <2>2
<1>4. CASE StageFails(w)
  BY <1>1, <1>2, <1>4 DEF StageFails, At, GoTo, workerVars, Committed, Errs
<1>5. CASE StageRefused(w)
  <2>1. CASE stage[w] \in {"failed_usage", "novelty"}
    BY <1>1, <1>2, <1>5, <2>1 DEF StageRefused, At, GoTo, workerVars, Errs
  <2>2. CASE stage[w] \notin {"failed_usage", "novelty"}
    <3>1. stage[w] # "done"
      BY <1>5 DEF StageRefused, At, After
    <3>2. QED
      BY <1>1, <1>2, <1>5, <2>2, <3>1
         DEF StageRefused, Returns, Report, ToFinish, Finishing
  <2>3. QED
    BY <2>1, <2>2
<1>6. CASE StageNotLive(w)
  <2>1. stage[w] \notin {"novelty", "done"}
    BY <1>6 DEF StageNotLive, MayWrite, LiveStages
  <2>2. QED
    BY <1>1, <1>2, <1>6, <2>1
       DEF StageNotLive, NotLiveOutcome, Returns, Report, ToFinish, Finishing
<1>7. CASE EdgeRefused(w)
  BY <1>1, <1>2, <1>7
     DEF EdgeRefused, At, MayWrite, LiveStages, GoTo, workerVars, OnError, After, EdgesOnly
<1>8. CASE Fails(w)
  BY <1>1, <1>2, <1>8 DEF Fails, At, Returns, Report, ToRetry, Failing
<1>9. CASE Done(w)
  BY <1>1, <1>2, <1>9 DEF Done, At, Returns, Report, ToFinish, Finishing
<1>10. QED
  BY <1>3, <1>4, <1>5, <1>6, <1>7, <1>8, <1>9 DEF StageStep

\* What a step of w's handler leaves alone: the other workers, the other rows
\* but a new child's, and the state of its own job.
LEMMA StageFrame ==
  ASSUME Shapes, HandlerAtStart, NEW w \in Workers, StageStep(w)
  PROVE  /\ attempts' = attempts
         /\ \A j \in Jobs : \/ state'[j] = state[j]
                            \/ /\ status[j] = "none" /\ state[j] = "none" /\ j # cur[w]
                               /\ state'[j] = "queued" /\ status'[j] = "pending"
         /\ \A j \in Jobs \ {cur[w]} : \/ status'[j] = status[j]
                                       \/ status[j] = "none" /\ status'[j] = "pending"
         /\ \A v \in Workers \ {w} :
              /\ pc'[v] = pc[v] /\ verdict'[v] = verdict[v] /\ stage'[v] = stage[v]
              /\ pc[v] \in Busy => cur[v] # cur[w]
         /\ status[cur[w]] # "none" /\ status'[cur[w]] # "none"
<1>1. \A v \in Workers \ {w} :
        /\ pc'[v] = pc[v] /\ verdict'[v] = verdict[v]
        /\ pc[v] \in Busy => cur[v] # cur[w]
  BY StageForms DEF Committed, Errs, EdgesOnly, Finishing, Failing, SoleRunner, Holds, Shapes, TypeOK
<1>2. \A v \in Workers \ {w} : stage'[v] = stage[v]
  BY DEF StageStep, StageCommits, StageRefused, StageNotLive, StageFails,
         EdgeRefused, Fails, Done, GoTo, Returns, Shapes
<1>3. status[cur[w]] # "none"
  BY StageForms DEF HandlerAtStart
<1>4. ASSUME NEW n, Committed(w, n)
      PROVE  /\ attempts' = attempts
             /\ \A j \in Jobs : \/ state'[j] = state[j]
                                \/ /\ status[j] = "none" /\ state[j] = "none" /\ j # cur[w]
                                   /\ state'[j] = "queued" /\ status'[j] = "pending"
             /\ \A j \in Jobs \ {cur[w]} : \/ status'[j] = status[j]
                                           \/ status[j] = "none" /\ status'[j] = "pending"
             /\ status'[cur[w]] # "none"
  <2>1. /\ cur[w] \in Jobs /\ state[cur[w]] = "running"
        /\ stage[w] \in DOMAIN After /\ Effect(cur[w], stage[w])
    BY <1>4, StageForms DEF Committed
  <2>2. QED
    BY <1>3, <2>1, EffectOnStatus
<1>5. CASE Errs(w) \/ EdgesOnly(w) \/ (\E r \in Ended : Finishing(w, r))
  BY <1>1, <1>2, <1>3, <1>5 DEF Errs, EdgesOnly, Finishing, Nothing, rowVars, queueVars
<1>6. CASE Failing(w)
  BY <1>1, <1>2, <1>3, <1>6 DEF Failing, MarkFailed, rowVars, queueVars, Shapes, RowShape
<1>7. QED
  BY <1>1, <1>2, <1>3, <1>4, <1>5, <1>6, StageForms DEF Ended

LEMMA StageKeepsStart ==
  ASSUME Shapes, HandlerAtStart, NEW w \in Workers, StageStep(w)
  PROVE  HandlerAtStart'
<1>1. \A j \in Jobs : status'[j] = "none" => state'[j] = "none"
  BY StageFrame, StageForms DEF HandlerAtStart
<1>2. pc'[w] # "running" => stage'[w] = "start"
  BY StageForms DEF Committed, Errs, EdgesOnly, Finishing, Failing, Shapes
<1>3. QED
  BY <1>1, <1>2, StageFrame DEF HandlerAtStart

\* What a committed stage does to its own row.
LEMMA CommittedStatus ==
  ASSUME Shapes, HandlerAtStart, NEW w \in Workers, StageStep(w), NEW n, Committed(w, n)
  PROVE  /\ status'[cur[w]] = CASE stage[w] = "start"   -> "running"
                                [] stage[w] = "publish" -> "complete"
                                [] stage[w] = "reject"  -> "rejected"
                                [] OTHER                -> status[cur[w]]
         /\ stage'[w] = n /\ UNCHANGED <<pc, verdict>>
<1>1. /\ cur[w] \in Jobs /\ state[cur[w]] = "running"
      /\ stage[w] \in DOMAIN After /\ Effect(cur[w], stage[w])
  BY StageForms DEF Committed
<1>2. QED
  BY <1>1, EffectOnStatus DEF Committed, Shapes

LEMMA StageKeepsSuccess ==
  ASSUME Shapes, HandlerAtStart, SuccessInv, NEW w \in Workers, StageStep(w)
  PROVE  SuccessInv'
<1>1. PICK i \in Jobs : /\ i = cur[w] /\ pc[w] = "running" /\ state[i] = "running"
                       /\ cur' = cur
  BY StageForms
<1>2. ASSUME NEW j \in Jobs, j # i
      PROVE  /\ state'[j] = "complete" => EndedRow(j)'
             /\ \A v \in Workers : cur'[v] = j =>
                  /\ pc'[v] = "finish" /\ verdict'[v] = "complete" => EndedRow(j)'
                  /\ pc'[v] = "running" /\ stage'[v] \in {"novelty", "done"} => EndedRow(j)'
  <2>1. EndedRow(j) => EndedRow(j)'
    BY <1>1, <1>2, StageFrame DEF EndedRow
  <2>2. state'[j] = "complete" => state[j] = "complete"
    BY StageFrame
  <2>3. ASSUME NEW v \in Workers, cur'[v] = j
        PROVE  pc'[v] = pc[v] /\ verdict'[v] = verdict[v] /\ stage'[v] = stage[v] /\ cur[v] = j
    BY <1>1, <1>2, <2>3, StageFrame
  <2>4. QED
    BY <2>1, <2>2, <2>3 DEF SuccessInv
<1>3. /\ pc'[w] = "finish" /\ verdict'[w] = "complete" => EndedRow(i)'
      /\ pc'[w] = "running" /\ stage'[w] \in {"novelty", "done"} => EndedRow(i)'
  <2>1. stage[w] \in {"novelty", "done"} => EndedRow(i)
    BY <1>1 DEF SuccessInv
  <2>2. ASSUME NEW n \in After[stage[w]], Committed(w, n)
        PROVE  /\ pc'[w] = "running" /\ (n \in {"novelty", "done"} => EndedRow(i)')
    <3>1. stage[w] \in DOMAIN After
      BY <2>2 DEF Committed
    <3>2. n \in {"novelty", "done"} => stage[w] \in {"publish", "novelty", "reject"}
      BY <2>2, <3>1 DEF After, EarlyPieces
    <3>3. QED
      BY <1>1, <2>1, <2>2, <3>2, CommittedStatus DEF EndedRow
  <2>3. stage[w] \in DOMAIN After =>
          /\ OnError[stage[w]] # "novelty"
          /\ OnError[stage[w]] = "done" => stage[w] = "novelty"
    BY DEF OnError
  <2>4. CASE Committed(w, OnError[stage[w]])
    <3>1. /\ stage'[w] = OnError[stage[w]] /\ UNCHANGED <<pc, verdict>>
          /\ stage[w] = "novelty" => status'[i] = status[i]
      BY <1>1, <2>4, CommittedStatus
    <3>2. stage[w] \in DOMAIN After
      BY <2>4 DEF Committed
    <3>3. QED
      BY <1>1, <2>1, <2>3, <3>1, <3>2 DEF EndedRow
  <2>5. CASE Errs(w)
    <3>1. /\ stage'[w] = OnError[stage[w]] /\ UNCHANGED <<pc, verdict, status>>
          /\ stage[w] \in DOMAIN After
      BY <2>5 DEF Errs, Nothing, rowVars, Shapes
    <3>2. QED
      BY <1>1, <2>1, <2>3, <3>1 DEF EndedRow
  <2>6. CASE EdgesOnly(w) \/ Failing(w) \/ Finishing(w, "failed")
    BY <1>1, <2>6 DEF EdgesOnly, Failing, Finishing, Shapes, TypeOK
  <2>7. CASE (stage[w] = "done" \/ status[i] = "complete") /\ Finishing(w, "complete")
    <3>1. status' = status /\ pc'[w] = "finish"
      BY <2>7 DEF Finishing, Nothing, rowVars, Shapes, TypeOK
    <3>2. QED
      BY <2>1, <2>7, <3>1 DEF EndedRow
  <2>8. QED
    BY <1>1, <2>2, <2>4, <2>5, <2>6, <2>7, StageForms, CommittedStatus
<1>4. state'[i] = "running"
  BY <1>1, StageFrame
<1>5. \A v \in Workers \ {w} : cur'[v] = i => pc'[v] \notin {"finish", "running"}
  BY <1>1, StageFrame DEF Busy
<1>6. QED
  BY <1>2, <1>3, <1>4, <1>5 DEF SuccessInv

LEMMA StageKeepsFailure ==
  ASSUME ~LoseCommits, Shapes, HandlerAtStart, FailureInv, NEW w \in Workers, StageStep(w)
  PROVE  FailureInv'
<1>1. PICK i \in Jobs : /\ i = cur[w] /\ pc[w] = "running" /\ state[i] = "running"
                       /\ cur' = cur /\ putBacks' = putBacks
  BY StageForms
<1>2. ASSUME NEW j \in Jobs, j # i, putBacks'[j] = 0
      PROVE  /\ state'[j] \in {"none", "queued", "retry", "failed"} => OpenRow(j)'
             /\ \A v \in Workers : cur'[v] = j =>
                  /\ \/ pc'[v] \in {"claimed", "retry"}
                     \/ pc'[v] = "finish" /\ verdict'[v] = "failed"
                     \/ pc'[v] = "running" /\ stage'[v] \notin {"novelty", "done"}
                     => OpenRow(j)'
  <2>1. OpenRow(j) => OpenRow(j)'
    BY <1>1, <1>2, StageFrame DEF OpenRow
  <2>2. /\ state'[j] \in {"none", "queued", "retry", "failed"}
           => state[j] \in {"none", "queued", "retry", "failed"}
    BY StageFrame
  <2>3. ASSUME NEW v \in Workers, cur'[v] = j
        PROVE  pc'[v] = pc[v] /\ verdict'[v] = verdict[v] /\ stage'[v] = stage[v] /\ cur[v] = j
    BY <1>1, <1>2, <2>3, StageFrame
  <2>4. QED
    BY <1>1, <1>2, <2>1, <2>2, <2>3 DEF FailureInv
<1>3. ASSUME putBacks[i] = 0
      PROVE  \/ pc'[w] \in {"claimed", "retry"}
             \/ pc'[w] = "finish" /\ verdict'[w] = "failed"
             \/ pc'[w] = "running" /\ stage'[w] \notin {"novelty", "done"}
             => OpenRow(i)'
  <2>1. stage[w] \notin {"novelty", "done"} => OpenRow(i)
    BY <1>1, <1>3 DEF FailureInv
  <2>2. ASSUME NEW n \in After[stage[w]], Committed(w, n), n \notin {"novelty", "done"}
        PROVE  OpenRow(i)'
    <3>1. stage[w] \in DOMAIN After
      BY <2>2 DEF Committed
    <3>2. stage[w] \notin {"publish", "reject", "novelty", "done"}
      BY <2>2, <3>1 DEF After, EarlyPieces
    <3>3. QED
      BY <1>1, <2>1, <2>2, <3>2, CommittedStatus DEF OpenRow
  <2>3. CASE Errs(w)
    <3>1. /\ stage'[w] = OnError[stage[w]] /\ UNCHANGED <<pc, verdict, status>>
          /\ stage[w] \in DOMAIN After
      BY <2>3 DEF Errs, Nothing, rowVars, Shapes
    <3>2. stage[w] = "novelty" => OnError[stage[w]] = "done"
      BY <3>1 DEF OnError
    <3>3. "done" \notin DOMAIN After
      BY DEF After
    <3>4. QED
      BY <1>1, <2>1, <3>1, <3>2, <3>3 DEF OpenRow
  <2>4. CASE EdgesOnly(w)
    BY <2>1, <2>4 DEF OpenRow, EdgesOnly
  <2>5. CASE Failing(w)
    BY <1>1, <2>1, <2>5 DEF OpenRow, Failing, MarkFailed, rowVars, Shapes, RowShape
  <2>6. CASE stage[w] \notin {"novelty", "done"} /\ Finishing(w, "failed")
    BY <2>1, <2>6 DEF OpenRow, Finishing, Nothing, rowVars
  <2>7. CASE Finishing(w, "complete")
    BY <2>7 DEF Finishing, Shapes, TypeOK
  <2>8. QED
    BY <1>1, <2>2, <2>3, <2>4, <2>5, <2>6, <2>7, StageForms, CommittedStatus
<1>4. state'[i] = "running"
  BY <1>1, StageFrame
<1>5. \A v \in Workers \ {w} : cur'[v] = i => pc'[v] \notin {"claimed", "retry", "finish", "running"}
  BY <1>1, StageFrame DEF Busy
<1>6. QED
  BY <1>1, <1>2, <1>3, <1>4, <1>5 DEF FailureInv

\* The two stages past publish or reject leave the rows as they are.
LEMMA LastStagesWriteNothing ==
  ASSUME Shapes, HandlerAtStart, NEW w \in Workers, StageStep(w),
         stage[w] \in {"novelty", "done"}
  PROVE  status'[cur[w]] = status[cur[w]]
<1>1. ASSUME NEW n, Committed(w, n)
      PROVE  status'[cur[w]] = status[cur[w]]
  BY <1>1, CommittedStatus
<1>2. CASE Errs(w) \/ EdgesOnly(w) \/ Failing(w) \/ (\E r : Finishing(w, r))
  BY <1>2 DEF Errs, EdgesOnly, Failing, Finishing, Nothing, rowVars
<1>3. QED
  BY <1>1, <1>2, StageForms

\* A step of a handler makes at most one row the child of its own, when it
\* rejects it.
LEMMA StageOnRefines ==
  ASSUME Shapes, NEW w \in Workers, StageStep(w)
  PROVE  \/ refines' = refines
         \/ /\ stage[w] = "reject" /\ Live(cur[w])
            /\ \E c \in Jobs : refines' = [refines EXCEPT ![c] = cur[w]]
<1>1. ASSUME NEW n, Committed(w, n)
      PROVE  \/ refines' = refines
             \/ /\ stage[w] = "reject" /\ Live(cur[w])
                /\ \E c \in Jobs : refines' = [refines EXCEPT ![c] = cur[w]]
  BY <1>1 DEF Committed, Effect, SpawnChild, Fresh, MayWrite, LiveStages, rowVars
<1>2. CASE Errs(w) \/ EdgesOnly(w) \/ Failing(w) \/ (\E r : Finishing(w, r))
  BY <1>2 DEF Errs, EdgesOnly, Failing, MarkFailed, Finishing, Nothing, rowVars
<1>3. QED
  BY <1>1, <1>2, StageForms

\* A second child would need a parent that is still to be rejected, and the
\* first one's parent is past that.
LEMMA StageKeepsChild ==
  ASSUME ~LoseCommits, Shapes, HandlerAtStart, FailureInv, ChildInv,
         NEW w \in Workers, StageStep(w)
  PROVE  ChildInv'
<1>1. PICK i \in Jobs : /\ i = cur[w] /\ pc[w] = "running" /\ putBacks' = putBacks
                       /\ cur \in [Workers -> Jobs \cup {NoJob}]
  BY StageForms DEF Shapes, TypeOK
<1>2. putBacks[i] = 0 /\ stage[w] \notin {"novelty", "done"} => OpenRow(i)
  BY <1>1 DEF FailureInv
<1>3. /\ refines \in [Jobs -> Jobs \cup {NoJob}] /\ putBacks \in [Jobs -> Nat]
      /\ NoJob \notin Jobs
  BY WorkerAssumption DEF Shapes, RowShape, TypeOK
<1>4. ASSUME NEW k \in Jobs, putBacks[k] = 0, status[k] \in {"rejected", "deleted"}
      PROVE  status'[k] \in {"rejected", "deleted"}
  <2>1. CASE k # i
    BY <1>1, <1>4, <2>1, StageFrame
  <2>2. CASE k = i /\ stage[w] \in {"novelty", "done"}
    BY <1>1, <1>4, <2>2, LastStagesWriteNothing
  <2>3. CASE k = i /\ stage[w] \notin {"novelty", "done"}
    <3>1. status[k] = "deleted"
      BY <1>2, <1>4, <2>3 DEF OpenRow
    <3>2. ~Live(k) /\ cur[w] \in Jobs /\ attempts \in [Jobs -> Nat] /\ RowShape
      BY <1>1, <3>1 DEF Live, Shapes, TypeOK
    <3>3. QED
      BY <3>1, <3>2, StageOnRows
  <2>4. QED
    BY <2>1, <2>2, <2>3
<1>5. CASE refines' = refines
  BY <1>1, <1>3, <1>4, <1>5 DEF ChildInv, OneRefinementChild
<1>6. CASE /\ stage[w] = "reject" /\ Live(i)
           /\ \E c \in Jobs : refines' = [refines EXCEPT ![c] = i]
  <2>1. PICK c \in Jobs : refines' = [refines EXCEPT ![c] = i]
    BY <1>6
  <2>2. status'[i] = "rejected" \/ putBacks[i] > 0
    <3>1. CASE \E n : Committed(w, n)
      BY <1>1, <1>6, <3>1, CommittedStatus
    <3>2. CASE Errs(w) \/ EdgesOnly(w) \/ Failing(w) \/ (\E r : Finishing(w, r))
      <4>1. refines' = refines
        BY <3>2 DEF Errs, EdgesOnly, Failing, MarkFailed, Finishing, Nothing, rowVars
      <4>2. refines[c] = i
        BY <1>3, <2>1, <4>1
      <4>3. putBacks[i] > 0 \/ status[i] \in {"rejected", "deleted"}
        BY <1>3, <4>2 DEF ChildInv
      <4>4. QED
        BY <1>2, <1>3, <1>6, <4>3 DEF OpenRow, Live
    <3>3. QED
      BY <3>1, <3>2, StageForms
  <2>3. ASSUME NEW d \in Jobs, refines[d] = i
        PROVE  putBacks[i] > 0
    <3>1. putBacks[i] > 0 \/ status[i] \in {"rejected", "deleted"}
      BY <1>3, <2>3 DEF ChildInv
    <3>2. QED
      BY <1>2, <1>3, <1>6, <3>1 DEF OpenRow, Live
  <2>4. QED
    BY <1>1, <1>3, <1>4, <2>1, <2>2, <2>3 DEF ChildInv, OneRefinementChild
<1>7. QED
  BY <1>1, <1>5, <1>6, StageOnRefines

\* The pieces a committed stage leaves on its own row: a stage named for a
\* piece writes that one, publish the edges and the narrative.
LEMMA EffectOnMade ==
  ASSUME RowShape, attempts \in [Jobs -> Nat],
         NEW i \in Jobs, NEW s \in DOMAIN After, Effect(i, s)
  PROVE  /\ \A p \in Pieces : p = s => made'[i][p] = attempts[i]
         /\ s = "publish" =>
              /\ \A p \in {"edges", "narrative"} : made'[i][p] = attempts[i]
              /\ \A p \in Pieces \ {"edges", "narrative", "event"} :
                   made'[i][p] = made[i][p]
<1>1. ASSUME NEW p \in Pieces, p = s
      PROVE  made'[i][p] = attempts[i]
  <2>1. s \in EarlyPieces \cup {"usage", "outcome", "plan", "embedding"}
    BY <1>1 DEF Pieces, EarlyPieces, LatePieces, After
  <2>2. Make(i, {s})
    BY <2>1 DEF Effect, EarlyPieces
  <2>3. QED
    BY <1>1, <2>2 DEF Make, RowShape
<1>2. ASSUME s = "publish"
      PROVE  /\ \A p \in {"edges", "narrative"} : made'[i][p] = attempts[i]
             /\ \A p \in Pieces \ {"edges", "narrative", "event"} :
                  made'[i][p] = made[i][p]
  <2>1. PICK e \in EventOf(i) : Make(i, {"edges", "narrative"} \cup e)
    BY <1>2 DEF Effect, EarlyPieces
  <2>2. e \subseteq {"event"}
    BY <2>1 DEF EventOf
  <2>3. "edges" \in Pieces /\ "narrative" \in Pieces
    BY DEF Pieces, LatePieces
  <2>4. QED
    BY <2>1, <2>2, <2>3 DEF Make, RowShape
<1>3. QED
  BY <1>1, <1>2

\* A committed stage keeps its row's pieces together, and leads to a stage
\* whose pieces are all there.
LEMMA CommittedKeepsWhole ==
  ASSUME Shapes, HandlerAtStart, WholeInv, NEW w \in Workers, StageStep(w),
         NEW n, n \in After[stage[w]] \/ n = OnError[stage[w]], Committed(w, n),
         NEW i \in Jobs, i = cur[w]
  PROVE  /\ status'[i] = "complete" =>
              \A p, q \in Pieces \ {"event"} : made'[i][p] = made'[i][q]
         /\ n \in DOMAIN WrittenBefore =>
              /\ n \notin LiveStages => status'[i] # "complete"
              /\ \A p \in WrittenBefore[n] : made'[i][p] = attempts[i]
<1> DEFINE s == stage[w]
<1>1. /\ s \in DOMAIN After /\ MayWrite(i, s) /\ Effect(i, s)
      /\ pc[w] = "running"
      /\ RowShape /\ attempts \in [Jobs -> Nat]
  BY StageForms DEF Committed, Shapes, TypeOK
<1>2. /\ s \in DOMAIN WrittenBefore =>
           /\ s \notin LiveStages => status[i] # "complete"
           /\ \A p \in WrittenBefore[s] : made[i][p] = attempts[i]
      /\ status[i] = "complete" =>
           \A p, q \in Pieces \ {"event"} : made[i][p] = made[i][q]
      /\ s \in LiveStages => status[i] # "complete"
  BY <1>1 DEF WholeInv, CompleteIsWhole, MayWrite, Live
<1>3. status'[i] = CASE s = "start"   -> "running"
                     [] s = "publish" -> "complete"
                     [] s = "reject"  -> "rejected"
                     [] OTHER         -> status[i]
  BY CommittedStatus
<1>4. /\ \A p \in Pieces : p = s => made'[i][p] = attempts[i]
      /\ \A p \in Pieces : p # s /\ s \notin {"failed_usage", "publish", "reject"}
           => made'[i][p] = made[i][p]
      /\ s = "publish" =>
           /\ \A p \in {"edges", "narrative"} : made'[i][p] = attempts[i]
           /\ \A p \in Pieces \ {"edges", "narrative", "event"} :
                made'[i][p] = made[i][p]
  BY <1>1, EffectOnMade, EffectOnRows
<1>5. CASE s = "publish"
  <2>1. n \notin DOMAIN WrittenBefore
    BY <1>5 DEF After, OnError, WrittenBefore
  <2>2. \A p \in Pieces \ {"event"} :
          p \in {"edges", "narrative"} \/ p \in WrittenBefore[s]
    BY <1>5 DEF WrittenBefore, Pieces, LatePieces
  <2>3. s \in DOMAIN WrittenBefore /\ WrittenBefore[s] \subseteq Pieces \ {"edges", "narrative", "event"}
    BY <1>5 DEF WrittenBefore, Pieces, LatePieces, EarlyPieces
  <2>4. \A p \in Pieces \ {"event"} : made'[i][p] = attempts[i]
    BY <1>2, <1>4, <1>5, <2>2, <2>3
  <2>5. QED
    BY <2>1, <2>4
<1>6. CASE s # "publish"
  <2>1. ASSUME status'[i] = "complete"
        PROVE  s \in {"novelty"} \/ s \in DOMAIN WrittenBefore \ LiveStages
    BY <1>1, <1>2, <1>3, <1>6, <2>1 DEF After, WrittenBefore, LiveStages
  <2>2. status'[i] = "complete" => s = "novelty" /\ status[i] = "complete"
    BY <1>2, <1>3, <1>6, <2>1
  <2>3. s = "novelty" => \A p \in Pieces : made'[i][p] = made[i][p]
    BY <1>4 DEF Pieces, EarlyPieces, LatePieces
  <2>4. status'[i] = "complete" =>
          \A p, q \in Pieces \ {"event"} : made'[i][p] = made'[i][q]
    BY <1>2, <2>2, <2>3
  <2>5. ASSUME n \in DOMAIN WrittenBefore
        PROVE  /\ n \notin LiveStages => status'[i] # "complete"
               /\ \A p \in WrittenBefore[n] : made'[i][p] = attempts[i]
    <3>1. n \in After[s]
      BY <1>1, <2>5 DEF OnError, WrittenBefore
    <3>2. s \in {"start", "seed", "snapshot", "clusters", "contents", "summaries",
                 "usage", "outcome", "plan", "embedding"}
      BY <1>1, <1>6, <2>5, <3>1 DEF After, WrittenBefore, EarlyPieces
    <3>3. WrittenBefore[n] \subseteq Pieces
      BY <2>5 DEF WrittenBefore, Pieces, EarlyPieces, LatePieces
    <3>4. \A p \in WrittenBefore[n] :
            p = s \/ (s \in DOMAIN WrittenBefore /\ p \in WrittenBefore[s])
      BY <3>1, <3>2 DEF After, WrittenBefore, EarlyPieces
    <3>5. \A p \in WrittenBefore[n] : made'[i][p] = attempts[i]
      BY <1>2, <1>4, <3>2, <3>3, <3>4
    <3>6. n \notin LiveStages => status'[i] # "complete"
      BY <2>2, <3>2
    <3>7. QED
      BY <3>5, <3>6
  <2>6. QED
    BY <2>4, <2>5
<1>7. QED
  BY <1>5, <1>6

\* What the steps of a handler that commit no stage do to its row's pieces.
LEMMA OtherFormsKeepWhole ==
  ASSUME Shapes, WholeInv, NEW w \in Workers, NEW i \in Jobs, i = cur[w],
         Errs(w) \/ EdgesOnly(w) \/ Failing(w) \/ (\E r : Finishing(w, r))
  PROVE  /\ status'[i] = "complete" =>
              \A p, q \in Pieces \ {"event"} : made'[i][p] = made'[i][q]
         /\ pc'[w] = "running" => stage'[w] \notin DOMAIN WrittenBefore
         /\ \A j \in Jobs \ {i} : made'[j] = made[j]
<1> USE DEF Shapes, TypeOK, RowShape
<1>1. status[i] = "complete" =>
        \A p, q \in Pieces \ {"event"} : made[i][p] = made[i][q]
  BY DEF WholeInv, CompleteIsWhole
<1>2. CASE Errs(w)
  <2>1. OnError[stage[w]] \notin DOMAIN WrittenBefore
    BY <1>2 DEF Errs, OnError, WrittenBefore
  <2>2. stage'[w] = OnError[stage[w]] /\ status' = status /\ made' = made
    BY <1>2 DEF Errs, Nothing, rowVars
  <2>3. QED
    BY <1>1, <2>1, <2>2
<1>3. CASE EdgesOnly(w)
  <2>1. stage'[w] = "failed_usage" /\ status'[i] # "complete"
    BY <1>3 DEF EdgesOnly, Live
  <2>2. \A j \in Jobs \ {i} : made'[j] = made[j]
    BY <1>3 DEF EdgesOnly, Make
  <2>3. QED
    BY <2>1, <2>2 DEF WrittenBefore
<1>4. CASE Failing(w)
  <2>1. pc'[w] # "running"
    BY <1>4 DEF Failing
  <2>2. CASE UNCHANGED rowVars
    BY <1>1, <2>1, <2>2 DEF rowVars
  <2>3. CASE MarkFailed(i)
    <3>1. PICK e \in EventOf(i) : Make(i, e)
      BY <2>3 DEF MarkFailed
    <3>2. e \subseteq {"event"}
      BY <3>1 DEF EventOf
    <3>3. /\ \A p \in Pieces \ {"event"} : made'[i][p] = made[i][p]
          /\ \A j \in Jobs \ {i} : made'[j] = made[j]
      BY <3>1, <3>2 DEF Make
    <3>4. status'[i] = "complete" => status[i] = "complete"
      BY <2>3 DEF MarkFailed, Live
    <3>5. QED
      BY <1>1, <2>1, <3>3, <3>4
  <2>4. QED
    BY <1>4, <2>2, <2>3 DEF Failing
<1>5. CASE \E r : Finishing(w, r)
  BY <1>1, <1>5 DEF Finishing, Nothing, rowVars
<1>6. QED
  BY <1>2, <1>3, <1>4, <1>5

LEMMA StageKeepsWhole ==
  ASSUME Shapes, HandlerAtStart, WholeInv, NEW w \in Workers, StageStep(w)
  PROVE  WholeInv'
<1>1. PICK i \in Jobs : /\ i = cur[w] /\ pc[w] = "running" /\ cur' = cur
                       /\ RowShape /\ attempts \in [Jobs -> Nat]
  BY StageForms DEF Shapes, TypeOK
<1>2. \/ \E n : (n \in After[stage[w]] \/ n = OnError[stage[w]]) /\ Committed(w, n)
      \/ Errs(w) \/ EdgesOnly(w) \/ Failing(w) \/ (\E r : Finishing(w, r))
  BY StageForms
<1>3. /\ status'[i] = "complete" =>
           \A p, q \in Pieces \ {"event"} : made'[i][p] = made'[i][q]
      /\ pc'[w] = "running" /\ stage'[w] \in DOMAIN WrittenBefore =>
           /\ stage'[w] \notin LiveStages => status'[i] # "complete"
           /\ \A p \in WrittenBefore[stage'[w]] : made'[i][p] = attempts[i]
      /\ \A j \in Jobs \ {i} : made'[j] = made[j]
  <2>1. CASE \E n : (n \in After[stage[w]] \/ n = OnError[stage[w]]) /\ Committed(w, n)
    <3>1. PICK n : (n \in After[stage[w]] \/ n = OnError[stage[w]]) /\ Committed(w, n)
      BY <2>1
    <3>2. stage'[w] = n
      BY <3>1, CommittedStatus
    <3>3. \A j \in Jobs \ {i} : made'[j] = made[j]
      BY <1>1, <3>1, EffectOnRows DEF Committed
    <3>4. QED
      BY <1>1, <3>1, <3>2, <3>3, CommittedKeepsWhole
  <2>2. CASE Errs(w) \/ EdgesOnly(w) \/ Failing(w) \/ (\E r : Finishing(w, r))
    BY <1>1, <2>2, OtherFormsKeepWhole
  <2>3. QED
    BY <1>2, <2>1, <2>2
<1>4. /\ attempts' = attempts
      /\ \A j \in Jobs \ {i} : status'[j] = "complete" => status[j] = "complete"
      /\ \A v \in Workers \ {w} : /\ pc'[v] = pc[v] /\ stage'[v] = stage[v]
                                  /\ pc[v] = "running" => cur[v] # i
  BY <1>1, StageFrame DEF Busy
<1>5. CompleteIsWhole'
  BY <1>3, <1>4 DEF WholeInv, CompleteIsWhole
<1>6. ASSUME NEW v \in Workers, NEW j \in Jobs, cur'[v] = j, pc'[v] = "running",
             stage'[v] \in DOMAIN WrittenBefore
      PROVE  /\ stage'[v] \notin LiveStages => status'[j] # "complete"
             /\ \A p \in WrittenBefore[stage'[v]] : made'[j][p] = attempts'[j]
  <2>1. CASE v = w
    BY <1>1, <1>3, <1>4, <1>6, <2>1
  <2>2. CASE v # w
    <3>1. /\ pc[v] = "running" /\ stage'[v] = stage[v] /\ cur[v] = j /\ j # i
          /\ made'[j] = made[j]
      BY <1>1, <1>3, <1>4, <1>6, <2>2
    <3>2. QED
      BY <1>4, <1>6, <3>1 DEF WholeInv
  <2>3. QED
    BY <2>1, <2>2
<1>7. QED
  BY <1>5, <1>6 DEF WholeInv

-----------------------------------------------------------------------------
(* The steps outside the handler: what the users, the queue, the worker    *)
(* loop and the operator do to the rows, a worker and a job.               *)

RowsOutside ==
  /\ made' = made /\ refines' = refines
  /\ \A j \in Jobs :
       \/ status'[j] = status[j]
       \/ status[j] = "none" /\ status'[j] = "pending"
       \/ status[j] \notin {"none", "complete"} /\ status'[j] = "deleted"

WorkerOutside(v) ==
  \/ UNCHANGED <<pc[v], cur[v], verdict[v], stage[v]>>
  \/ /\ pc'[v] = "claimed" /\ stage'[v] = "start"
     /\ cur'[v] \in Jobs /\ state[cur'[v]] \in Waiting
  \/ /\ pc[v] = "claimed" /\ cur'[v] = cur[v] /\ stage'[v] = "start"
     /\ \/ pc'[v] \in {"running", "retry"}
        \/ pc'[v] = "finish" /\ verdict'[v] = "failed"
  \/ /\ pc[v] = "retry" /\ cur'[v] = cur[v] /\ stage'[v] = "start"
     /\ pc'[v] = "finish" /\ verdict'[v] = "failed"
  \/ pc'[v] \in {"idle", "stopped"} /\ stage'[v] = "start"

JobOutside(j) ==
  /\ putBacks'[j] \in {putBacks[j], putBacks[j] + 1}
  /\ attempts'[j] = attempts[j] \/ state[j] \in Waiting
  /\ \/ state'[j] = state[j]
     \/ state[j] = "none" /\ state'[j] = "queued" /\ status'[j] = "pending"
     \/ state[j] \in Waiting /\ state'[j] = "running"
     \/ /\ state[j] = "running"
        /\ \/ \E v \in Workers : cur[v] = j /\ pc[v] = "finish" /\ state'[j] = verdict[v]
           \/ \E v \in Workers : cur[v] = j /\ pc[v] = "retry" /\ state'[j] = "queued"
           \/ putBacks'[j] > 0 /\ state'[j] = "queued"

Outside ==
  /\ RowsOutside
  /\ \A v \in Workers : WorkerOutside(v)
  /\ \A j \in Jobs : JobOutside(j)

\* The queue's and the worker loop's own calls.
LEMMA QueueCallsAreOutside ==
  ASSUME Shapes, HandlerAtStart, NEW w \in Workers,
         \/ QueueCalls(w) \/ Starts(w) \/ Faults(w) \/ Restarts(w),
         UNCHANGED synVars
  PROVE  Outside
<1> USE DEF Shapes, TypeOK, RowShape
<1>1. RowsOutside /\ stage' = stage
  BY DEF RowsOutside, synVars, rowVars
<1>2. \A v \in Workers : pc[v] # "running" => stage'[v] = "start"
  BY <1>1 DEF HandlerAtStart
<1>3. pc[w] # "running"
  BY DEF QueueCalls, Claim, Refuse, AuthorizeTransient, FinishCall, RetryCall,
         Starts, StartHandler, Faults, QueueCallFails, ClaimReplyLost, Restarts,
         Stop, Restart
<1>4. ASSUME NEW j \in Jobs, Claim(w, j) \/ ClaimReplyLost(w, j)
      PROVE  Outside
  <2>1. \A v \in Workers : WorkerOutside(v)
    BY <1>1, <1>2, <1>3, <1>4 DEF Claim, ClaimReplyLost, QueueClaim, WorkerOutside
  <2>2. \A k \in Jobs : JobOutside(k)
    BY <1>4 DEF Claim, ClaimReplyLost, QueueClaim, JobOutside
  <2>3. QED
    BY <1>1, <2>1, <2>2 DEF Outside
<1>5. CASE Refuse(w) \/ AuthorizeTransient(w) \/ Starts(w) \/ Restarts(w)
  <2>1. \A v \in Workers : WorkerOutside(v)
    <3>1. \A v \in Workers \ {w} : UNCHANGED <<pc[v], cur[v], verdict[v]>>
      BY <1>5 DEF Refuse, AuthorizeTransient, Starts, StartHandler, Restarts, Stop,
                  Restart, ToFinish, ToRetry
    <3>2. stage'[w] = "start"
      BY <1>1, <1>2, <1>3
    <3>3. ASSUME Refuse(w) \/ AuthorizeTransient(w) \/ Starts(w)
          PROVE  WorkerOutside(w)
      <4>1. /\ pc[w] = "claimed" /\ cur'[w] = cur[w]
            /\ \/ pc'[w] \in {"running", "retry"}
               \/ pc'[w] = "finish" /\ verdict'[w] = "failed"
        BY <3>3 DEF Refuse, AuthorizeTransient, Starts, StartHandler,
                          ToFinish, ToRetry
      <4>2. QED
        BY <3>2, <4>1 DEF WorkerOutside
    <3>4. ASSUME Restarts(w)
          PROVE  WorkerOutside(w)
      BY <3>2, <3>4 DEF Restarts, Stop, Restart, WorkerOutside
    <3>5. WorkerOutside(w)
      BY <1>5, <3>3, <3>4
    <3>6. QED
      BY <1>1, <3>1, <3>5 DEF WorkerOutside
  <2>2. \A k \in Jobs : JobOutside(k)
    BY <1>5 DEF Refuse, AuthorizeTransient, Starts, StartHandler, Restarts, Stop,
           Restart, ToFinish, ToRetry, queueVars, JobOutside
  <2>3. QED
    BY <1>1, <2>1, <2>2 DEF Outside
<1>6. CASE FinishCall(w) \/ RetryCall(w) \/ QueueCallFails(w)
  <2>1. \A v \in Workers : WorkerOutside(v)
    BY <1>1, <1>2, <1>3, <1>6
       DEF FinishCall, RetryCall, QueueCallFails, Release, ToFinish, WorkerOutside
  <2>2. putBacks' = putBacks /\ attempts' = attempts
    BY <1>6 DEF FinishCall, RetryCall, QueueCallFails, Release, ToFinish,
                QueueFinish, QueueRetry, CommittedUnseen, queueVars
  <2>3. \/ state' = state
        \/ /\ state[cur[w]] = "running"
           /\ \/ pc[w] = "finish" /\ state' = [state EXCEPT ![cur[w]] = verdict[w]]
              \/ pc[w] = "retry" /\ state' = [state EXCEPT ![cur[w]] = "queued"]
    BY <1>6 DEF FinishAllowed, RetryAllowed, FinishCall, RetryCall, QueueCallFails, QueueFinish, QueueRetry,
                CommittedUnseen, queueVars
  <2>4. \A k \in Jobs : JobOutside(k)
    BY <2>2, <2>3 DEF JobOutside
  <2>5. QED
    BY <1>1, <2>1, <2>4 DEF Outside
<1>7. QED
  BY <1>4, <1>5, <1>6 DEF QueueCalls, Faults

\* Every step is one of a handler, or is outside it.
LEMMA StepsInOrOut ==
  ASSUME Shapes, HandlerAtStart, [SynNext]_allVars
  PROVE  Outside \/ \E w \in Workers : StageStep(w)
<1> USE DEF Shapes, TypeOK, RowShape
<1>1. ASSUME NEW j \in Jobs, UserCreates(j)
      PROVE  Outside
  <2>1. status[j] = "none" /\ status' = [status EXCEPT ![j] = "pending"]
    BY <1>1 DEF UserCreates, Fresh, SetStatus
  <2>2. QED
    BY <1>1, <2>1
       DEF UserCreates, Enqueue, workerVars, Outside, RowsOutside, WorkerOutside, JobOutside
<1>2. ASSUME NEW j \in Jobs, UserDeletes(j)
      PROVE  Outside
  BY <1>2 DEF UserDeletes, SetStatus, vars, queueVars, workerVars, Outside,
              RowsOutside, WorkerOutside, JobOutside
<1>3. CASE RevokeOrGrant \/ UNCHANGED allVars
  BY <1>3 DEF RevokeOrGrant, allVars, synVars, rowVars, vars, queueVars, workerVars,
              Outside, RowsOutside, WorkerOutside, JobOutside
<1>4. ASSUME NEW j \in Jobs, Delay(j) \/ PutBack(j), UNCHANGED synVars
      PROVE  Outside
  BY <1>4 DEF Delay, DelayElapses, PutBack, OperatorPutsBack, workerVars, synVars,
              rowVars, Outside, RowsOutside, WorkerOutside, JobOutside
<1>5. ASSUME NEW w \in Workers, CrashInStage(w)
      PROVE  Outside
  BY <1>5 DEF CrashInStage, Crash, queueVars, rowVars, Outside, RowsOutside,
              WorkerOutside, JobOutside
<1>6. QED
  BY <1>1, <1>2, <1>3, <1>4, <1>5, QueueCallsAreOutside DEF SynNext, WorkerMoves

LEMMA OutsideKeepsStart ==
  ASSUME Shapes, HandlerAtStart, Outside
  PROVE  HandlerAtStart'
<1>1. \A v \in Workers : pc'[v] # "running" => stage'[v] = "start"
  BY DEF Outside, WorkerOutside, HandlerAtStart
<1>2. ASSUME NEW j \in Jobs, status'[j] = "none"
      PROVE  state'[j] = "none"
  <2>1. status[j] = "none" /\ state[j] = "none"
    BY <1>2 DEF Outside, RowsOutside, HandlerAtStart
  <2>2. QED
    BY <1>2, <2>1 DEF Outside, JobOutside, Waiting
<1>3. QED
  BY <1>1, <1>2 DEF HandlerAtStart

LEMMA OutsideKeepsSuccess ==
  ASSUME Shapes, SuccessInv, Outside
  PROVE  SuccessInv'
<1> USE DEF Outside, EndedRow
<1>1. \A j \in Jobs : EndedRow(j) => EndedRow(j)'
  BY DEF RowsOutside
<1>2. ASSUME NEW j \in Jobs, state'[j] = "complete"
      PROVE  EndedRow(j)'
  <2>1. \/ state[j] = "complete"
        \/ \E v \in Workers : cur[v] = j /\ pc[v] = "finish" /\ verdict[v] = "complete"
    BY <1>2 DEF JobOutside
  <2>2. EndedRow(j)
    BY <2>1 DEF SuccessInv
  <2>3. QED
    BY <1>1, <2>2
<1>3. ASSUME NEW v \in Workers, NEW j \in Jobs, cur'[v] = j,
             \/ pc'[v] = "finish" /\ verdict'[v] = "complete"
             \/ pc'[v] = "running" /\ stage'[v] \in {"novelty", "done"}
      PROVE  EndedRow(j)'
  <2>1. UNCHANGED <<pc[v], cur[v], verdict[v], stage[v]>>
    BY <1>3 DEF WorkerOutside
  <2>2. EndedRow(j)
    BY <1>3, <2>1 DEF SuccessInv
  <2>3. QED
    BY <1>1, <2>2
<1>4. QED
  BY <1>2, <1>3 DEF SuccessInv

LEMMA OutsideKeepsFailure ==
  ASSUME Shapes, FailureInv, Outside
  PROVE  FailureInv'
<1> USE DEF Outside
<1>1. \A j \in Jobs : OpenRow(j) => OpenRow(j)'
  BY DEF RowsOutside, OpenRow
<1>2. \A j \in Jobs : putBacks'[j] = 0 => putBacks[j] = 0
  BY DEF JobOutside, Shapes, TypeOK
<1>3. ASSUME NEW j \in Jobs, putBacks'[j] = 0,
             state'[j] \in {"none", "queued", "retry", "failed"}
      PROVE  OpenRow(j)'
  <2>1. \/ state[j] \in {"none", "queued", "retry", "failed"}
        \/ \E v \in Workers : /\ cur[v] = j
                              /\ \/ pc[v] = "finish" /\ verdict[v] = "failed"
                                 \/ pc[v] = "retry"
    BY <1>3 DEF JobOutside, Shapes, TypeOK, Ended
  <2>2. OpenRow(j)
    BY <1>2, <1>3, <2>1 DEF FailureInv
  <2>3. QED
    BY <1>1, <2>2
<1>4. ASSUME NEW v \in Workers, NEW j \in Jobs, putBacks'[j] = 0, cur'[v] = j,
             \/ pc'[v] \in {"claimed", "retry"}
             \/ pc'[v] = "finish" /\ verdict'[v] = "failed"
             \/ pc'[v] = "running" /\ stage'[v] \notin {"novelty", "done"}
      PROVE  OpenRow(j)'
  <2>1. \/ state[j] \in Waiting
        \/ /\ cur[v] = j
           /\ \/ pc[v] \in {"claimed", "retry"}
              \/ pc[v] = "finish" /\ verdict[v] = "failed"
              \/ pc[v] = "running" /\ stage[v] \notin {"novelty", "done"}
    BY <1>4 DEF WorkerOutside
  <2>2. OpenRow(j)
    BY <1>2, <1>4, <2>1 DEF FailureInv, Waiting
  <2>3. QED
    BY <1>1, <2>2
<1>5. QED
  BY <1>3, <1>4 DEF FailureInv

LEMMA OutsideKeepsChild ==
  ASSUME Shapes, ChildInv, Outside
  PROVE  ChildInv'
<1>1. refines' = refines /\ refines \in [Jobs -> Jobs \cup {NoJob}]
  BY DEF Outside, RowsOutside, Shapes, RowShape
<1>2. \A j \in Jobs : putBacks[j] > 0 => putBacks'[j] > 0
  BY DEF Outside, JobOutside, Shapes, TypeOK
<1>3. \A j \in Jobs : status[j] \in {"rejected", "deleted"}
                        => status'[j] \in {"rejected", "deleted"}
  BY DEF Outside, RowsOutside
<1>4. QED
  BY <1>1, <1>2, <1>3 DEF ChildInv, OneRefinementChild

\* Only a waiting job gets another attempt, and no handler runs that one.
LEMMA OutsideKeepsWhole ==
  ASSUME Shapes, WholeInv, Outside
  PROVE  WholeInv'
<1>1. /\ made' = made
      /\ \A j \in Jobs : status'[j] = "complete" => status[j] = "complete"
  BY DEF Outside, RowsOutside
<1>2. CompleteIsWhole'
  BY <1>1 DEF WholeInv, CompleteIsWhole
<1>3. ASSUME NEW v \in Workers, NEW j \in Jobs, cur'[v] = j, pc'[v] = "running",
             stage'[v] \in DOMAIN WrittenBefore
      PROVE  /\ stage'[v] \notin LiveStages => status'[j] # "complete"
             /\ \A p \in WrittenBefore[stage'[v]] : made'[j][p] = attempts'[j]
  <2>1. "start" \notin DOMAIN WrittenBefore
    BY DEF WrittenBefore
  <2>2. UNCHANGED <<pc[v], cur[v], stage[v]>>
    BY <1>3, <2>1 DEF Outside, WorkerOutside
  <2>3. Holds(v, j)
    BY <1>3, <2>2 DEF Holds, Busy
  <2>4. state[j] \notin Waiting
    BY <1>3, <2>2, <2>3 DEF Shapes, SoleRunner, Waiting
  <2>5. attempts'[j] = attempts[j]
    BY <2>4 DEF Outside, JobOutside
  <2>6. QED
    BY <1>1, <1>3, <2>2, <2>5 DEF WholeInv
<1>4. QED
  BY <1>2, <1>3 DEF WholeInv

-----------------------------------------------------------------------------
\* What the invariants build on holds of the handler in stages.
LEMMA ShapesHold == ASSUME OneHolder PROVE SynSpec => [](Shapes /\ HandlerAtStart)
<1>1. SynSpec => []Shapes
  <2>1. SynTypeOK => stage \in [Workers -> Stages]
    BY DEF SynTypeOK
  <2>2. SynSpec => []SoleRunner
    BY StagesRefineWorker, SoleRunnerHolds, PTL DEF StagesAreAHandler
  <2>3. QED
    BY <2>1, <2>2, RowShapeHolds, SynTypeCorrect, PTL DEF Shapes
<1>2. SynInit => HandlerAtStart
  BY DEF SynInit, Init, QueueInit, HandlerAtStart
<1>3. Shapes /\ HandlerAtStart /\ [SynNext]_allVars => HandlerAtStart'
  BY StepsInOrOut, StageKeepsStart, OutsideKeepsStart
<1>4. QED
  BY <1>1, <1>2, <1>3, PTL DEF SynSpec

\* A job that reports success has an ended row: while a job has one runner,
\* neither a lost commit, nor a redelivery, nor a repair makes the queue say
\* `complete` of a synthesis still in work.
THEOREM SuccessIsTrue == ASSUME OneHolder PROVE SynSpec => []SuccessMeansEnded
<1>1. SynInit => SuccessInv
  BY DEF SynInit, Init, QueueInit, SuccessInv
<1>2. Shapes /\ HandlerAtStart /\ SuccessInv /\ [SynNext]_allVars => SuccessInv'
  BY StepsInOrOut, StageKeepsSuccess, OutsideKeepsSuccess
<1>3. SuccessInv => SuccessMeansEnded
  BY DEF SuccessInv, SuccessMeansEnded, EndedRow
<1>4. QED
  BY <1>1, <1>2, <1>3, ShapesHold, PTL DEF SynSpec

\* A completed synthesis is the work of one attempt, for every number of
\* attempts, crashes, lost commits and repairs.
THEOREM CompletedInOnePiece == ASSUME OneHolder PROVE SynSpec => []CompleteIsWhole
<1>1. SynInit => WholeInv
  BY DEF SynInit, Init, WholeInv, CompleteIsWhole
<1>2. Shapes /\ HandlerAtStart /\ WholeInv /\ [SynNext]_allVars => WholeInv'
  BY StepsInOrOut, StageKeepsWhole, OutsideKeepsWhole
<1>3. WholeInv => CompleteIsWhole
  BY DEF WholeInv
<1>4. QED
  BY <1>1, <1>2, <1>3, ShapesHold, PTL DEF SynSpec

\* Without lost commits the rows of jobs that wait, are retried or fail are
\* still open.
LEMMA FailureHolds ==
  ASSUME OneHolder, ~LoseCommits
  PROVE  SynSpec => [](Shapes /\ HandlerAtStart /\ FailureInv)
<1>1. SynInit => FailureInv
  BY DEF SynInit, Init, FailureInv, OpenRow
<1>2. Shapes /\ HandlerAtStart /\ FailureInv /\ [SynNext]_allVars => FailureInv'
  BY StepsInOrOut, StageKeepsFailure, OutsideKeepsFailure
<1>3. QED
  BY <1>1, <1>2, ShapesHold, PTL DEF SynSpec

\* A row's end and its job's end agree, both ways, as long as every commit is
\* seen by the worker that made it.
THEOREM JobAndRowAgree ==
  ASSUME OneHolder, ~LoseCommits
  PROVE  SynSpec => []JobAgreesWithRow
<1>1. FailureInv /\ SuccessMeansEnded => JobAgreesWithRow
  BY DEF FailureInv, SuccessMeansEnded, JobAgreesWithRow, OpenRow
<1>2. QED
  BY <1>1, FailureHolds, SuccessIsTrue, PTL

\* However often a job is retried or redelivered, its rejected synthesis is
\* refined into one automatic child, unless an operator put the job back.
THEOREM OneChildPerRejection ==
  ASSUME OneHolder, ~LoseCommits
  PROVE  SynSpec => []OneRefinementChild
<1>1. SynInit => ChildInv
  BY DEF SynInit, ChildInv, OneRefinementChild
<1>2. Shapes /\ HandlerAtStart /\ FailureInv /\ ChildInv /\ [SynNext]_allVars => ChildInv'
  BY StepsInOrOut, StageKeepsChild, OutsideKeepsChild
<1>3. ChildInv => OneRefinementChild
  BY DEF ChildInv
<1>4. QED
  BY <1>1, <1>2, <1>3, FailureHolds, PTL DEF SynSpec
=============================================================================
