---------------------------- MODULE SynthesisJob ----------------------------
(***************************************************************************)
(* The synthesis rows and the handler that runs a job on one of them,      *)
(* stage by stage (jobs/synthesis_job.rs), on top of the queue and its     *)
(* workers.  Each stage writes in ONE transaction that re-checks the       *)
(* acting principal's authority (StageSession::begin); after stage 9b it   *)
(* also holds the live row (begin_live).  Between two transactions the     *)
(* user may delete the row, the principal may lose its authority, and the  *)
(* worker may die.  With LoseCommits a transaction may commit although the *)
(* worker sees its commit fail.                                            *)
(*                                                                         *)
(* made[j] says which attempt last wrote each piece of synthesis j (0 when *)
(* none did): the content itself is abstracted to its attempt.  Attempts   *)
(* are told apart by the queue row's counter, so the module is meant for   *)
(* instances where a job has one runner: LoseReplies = FALSE               *)
(* (Worker!OneRunner) or a single worker.                                  *)
(***************************************************************************)
EXTENDS Worker, FiniteSets

CONSTANTS
  Ceiling,       (* depth_delta at which refinement stops: 3 in the code    *)
  LoseCommits,   (* BOOLEAN: a committed stage may look failed              *)
  PublishEvents, (* BOOLEAN: the handler's publish_events                   *)
  MaxRoots,      (* bound: syntheses the users create                       *)
  MaxDeletes,    (* bound: syntheses the users delete                       *)
  MaxRevokes     (* bound: changes of the principal's authority             *)

ASSUME SynthesisAssumption ==
  /\ Ceiling \in Nat \ {0}
  /\ LoseCommits \in BOOLEAN /\ PublishEvents \in BOOLEAN
  /\ MaxRoots \in Nat /\ MaxDeletes \in Nat /\ MaxRevokes \in Nat

VARIABLES
  status,      (* [Jobs -> Statuses]: syntheses.status                      *)
  made,        (* [Jobs -> [Pieces -> Nat]]                                 *)
  refines,     (* [Jobs -> Jobs \cup {NoJob}]: the rejected row an          *)
               (* automatic child refines (a user's own refinement is a     *)
               (* root here: its parent pointer moves nothing)              *)
  temp,        (* [Jobs -> Nat]: refinement_temperature.depth_delta         *)
  stage,       (* [Workers -> Stages]: the stage w is about to run          *)
  authorized,  (* BOOLEAN: the acting principal may write the owner group   *)
  revokes      (* changes of authorized so far (bound only)                 *)

rowVars == <<status, made, refines, temp>>
envVars == <<authorized, revokes>>
synVars == <<rowVars, stage, envVars>>
allVars == <<vars, synVars>>

Statuses == {"none", "pending", "running", "complete", "failed", "rejected",
             "deleted"}

EarlyPieces == {"snapshot", "clusters", "summaries"}
LatePieces  == {"usage", "outcome", "plan", "embedding", "edges", "narrative",
                "event"}
Pieces == EarlyPieces \cup LatePieces

\* The write transactions of the handler, in order; "done" is the return
\* after the last one.  LiveStages open with begin_live or are UPDATEs that
\* name live rows only (mark_running, record_llm_usage).
LiveStages == {"start", "usage", "outcome", "plan", "embedding", "publish",
               "reject", "failed_usage"}
Stages == LiveStages \cup EarlyPieces \cup
          {"seed", "contents", "novelty", "fail", "done"}

\* Deviations of the order of stages: a retry reuses the snapshot it finds; a
\* rejection is reported as a failure.
AfterReusing ==
  [start |-> {"seed"}, seed |-> {"snapshot", "clusters"},
   snapshot |-> {"clusters"}, clusters |-> {"contents"},
   contents |-> {"summaries"}, summaries |-> {"usage"},
   usage |-> {"outcome", "reject"}, outcome |-> {"plan"},
   plan |-> {"embedding"}, embedding |-> {"publish"}, publish |-> {"novelty"},
   novelty |-> {"done"}, reject |-> {"done"}, failed_usage |-> {"fail"}]

AfterRejectFails == [AfterReusing EXCEPT !.seed = {"snapshot"},
                                         !.reject = {"failed_usage"}]

After ==
  [start |-> {"seed"}, seed |-> {"snapshot"}, snapshot |-> {"clusters"},
   clusters |-> {"contents"}, contents |-> {"summaries"},
   summaries |-> {"usage"}, usage |-> {"outcome", "reject"},
   outcome |-> {"plan"}, plan |-> {"embedding"}, embedding |-> {"publish"},
   publish |-> {"novelty"}, novelty |-> {"done"}, reject |-> {"done"},
   failed_usage |-> {"fail"}]

\* Deviations: a novelty error fails the job; a publish error is only logged.
OnErrorNoveltyFatal ==
  [s \in DOMAIN After |->
     IF s \in {"start", "failed_usage"} THEN "fail" ELSE "failed_usage"]

OnErrorPublishLogged ==
  [s \in DOMAIN After |->
     CASE s \in {"start", "failed_usage"}  -> "fail"
       [] s \in {"publish", "novelty"}     -> "done"
       [] OTHER                            -> "failed_usage"]

\* Where an error of stage s leads: `fail` at once while no pipeline exists,
\* through record_llm_usage afterwards; novelty's errors are only logged.
OnError ==
  [s \in DOMAIN After |->
     CASE s \in {"start", "failed_usage"} -> "fail"
       [] s = "novelty"                   -> "done"
       [] OTHER                           -> "failed_usage"]

SynInit ==
  /\ Init
  /\ status     = [j \in Jobs |-> "none"]
  /\ made       = [j \in Jobs |-> [p \in Pieces |-> 0]]
  /\ refines    = [j \in Jobs |-> NoJob]
  /\ temp       = [j \in Jobs |-> 0]
  /\ stage      = [w \in Workers |-> "start"]
  /\ authorized = TRUE
  /\ revokes    = 0

-----------------------------------------------------------------------------
\* RowLiveness: neither deleted nor complete.
Live(j) == status[j] \notin {"complete", "deleted"}

\* Ids not used yet.  That they are finitely many is a bound of the model.
Fresh == {j \in Jobs : status[j] = "none"}

SetStatus(j, s) == status' = [status EXCEPT ![j] = s]

Make(j, ps) ==
  made' = [made EXCEPT ![j] =
             [p \in Pieces |-> IF p \in ps THEN attempts[j] ELSE @[p]]]

\* publish_synthesis_event_conn withholds the event of a deleted row, and of
\* any row that is not public and publishable (left open here).
EventOf(j) ==
  {{}} \cup IF PublishEvents /\ status[j] # "deleted" THEN {{"event"}} ELSE {}

AtCeiling(j) == temp[j] >= Ceiling

\* Deviation: the child row is inserted without its job.
SpawnRowOnly(j) ==
  \E c \in Fresh :
    /\ status'  = [status EXCEPT ![j] = "rejected", ![c] = "pending"]
    /\ refines' = [refines EXCEPT ![c] = j]
    /\ temp'    = [temp EXCEPT ![c] = temp[j] + 1]
    /\ UNCHANGED queueVars

\* reject_and_refine below the ceiling: the child row, annealed, and its job.
SpawnChild(j) ==
  \E c \in Fresh :
    /\ status'  = [status EXCEPT ![j] = "rejected", ![c] = "pending"]
    /\ refines' = [refines EXCEPT ![c] = j]
    /\ temp'    = [temp EXCEPT ![c] = temp[j] + 1]
    /\ Enqueue(c)

\* Deviation: only mark_running looks at the row.
MayWriteUnlocked(j, s) == s = "start" => Live(j)

\* Does the transaction of stage s find a row it may write?
MayWrite(j, s) == s \in LiveStages => Live(j)

\* What the transaction of stage s commits for synthesis j.
Effect(j, s) ==
  \/ /\ s \in {"seed", "contents", "novelty"}
     /\ UNCHANGED <<rowVars, queueVars>>
  \/ /\ s = "start" /\ SetStatus(j, "running")
     /\ UNCHANGED <<made, refines, temp, queueVars>>
  \/ /\ s \in EarlyPieces \cup {"usage", "outcome", "plan", "embedding"}
     /\ Make(j, {s})
     /\ UNCHANGED <<status, refines, temp, queueVars>>
  \/ /\ s = "failed_usage" /\ Make(j, {"usage"})
     /\ UNCHANGED <<status, refines, temp, queueVars>>
  \/ /\ s = "publish" /\ SetStatus(j, "complete")
     /\ \E e \in EventOf(j) : Make(j, {"edges", "narrative"} \cup e)
     /\ UNCHANGED <<refines, temp, queueVars>>
  \/ /\ s = "reject" /\ Make(j, {"outcome"})
     /\ \/ /\ AtCeiling(j) /\ SetStatus(j, "rejected")
           /\ UNCHANGED <<refines, temp, queueVars>>
        \/ ~AtCeiling(j) /\ SpawnChild(j)

\* mark_failed spares a complete or deleted row; the event is withheld from
\* a deleted one.
MarkFailed(j) ==
  /\ status' = IF Live(j) THEN [status EXCEPT ![j] = "failed"] ELSE status
  /\ \E e \in EventOf(j) : Make(j, e)
  /\ UNCHANGED <<refines, temp>>

GoTo(w, s) == stage' = [stage EXCEPT ![w] = s] /\ UNCHANGED workerVars

\* The handler returns o to run_once.
Returns(w, o) == Report(w, o) /\ stage' = [stage EXCEPT ![w] = "start"]

At(w, ss) == pc[w] = "running" /\ stage[w] \in ss

Nothing == UNCHANGED <<rowVars, queueVars>>

\* The stage's transaction opens and commits.  (Stage `reject` can only be
\* chosen, in this finite model, while an id is left for the child.)
StageCommits(w) ==
  LET j == cur[w]  s == stage[w] IN
  /\ At(w, DOMAIN After)
  /\ authorized
  /\ MayWrite(j, s)
  /\ Effect(j, s)
  /\ \E n \in After[s] :
       /\ n = "reject" => AtCeiling(j) \/ Fresh # {}
       /\ GoTo(w, n)
  /\ UNCHANGED envVars

\* session.begin refuses: the principal may no longer write the owner group,
\* or its resolution met a database error that is not transient and fails
\* closed.  Terminal, except for what is best effort (the failed attempt's
\* usage, novelty).
StageRefused(w) ==
  /\ At(w, DOMAIN After)
  /\ IF stage[w] \in {"failed_usage", "novelty"}
       THEN GoTo(w, OnError[stage[w]])
       ELSE Returns(w, "authority")
  /\ Nothing
  /\ UNCHANGED envVars

\* The row is no longer live: stop terminally, or report success when a
\* redelivered job finds its row complete (mark_running's Complete).
NotLiveOutcome(j, s) ==
  IF s = "start" /\ status[j] = "complete" THEN "ok" ELSE "authority"

StageNotLive(w) ==
  LET j == cur[w]  s == stage[w] IN
  /\ At(w, DOMAIN After)
  /\ authorized
  /\ ~MayWrite(j, s)
  /\ Returns(w, NotLiveOutcome(j, s))
  /\ Nothing
  /\ UNCHANGED envVars

\* The stage fails: a model, embedding, verifier or database error, with
\* nothing written, or with its commit gone through unseen.
StageFails(w) ==
  LET j == cur[w]  s == stage[w] IN
  /\ At(w, DOMAIN After)
  /\ \/ Nothing
     \/ LoseCommits /\ authorized /\ MayWrite(j, s) /\ Effect(j, s)
  /\ GoTo(w, OnError[s])
  /\ UNCHANGED envVars

\* The kernel refuses an edge at publish: what was written is committed, the
\* synthesis is not completed, and the stage fails.
EdgeRefused(w) ==
  /\ At(w, {"publish"})
  /\ authorized
  /\ MayWrite(cur[w], "publish")
  /\ Make(cur[w], {"edges"})
  /\ GoTo(w, OnError["publish"])
  /\ UNCHANGED <<status, refines, temp, queueVars, envVars>>

\* SynthesisJobHandler::fail, best effort: its own failure is only logged.
Fails(w) ==
  /\ At(w, {"fail"})
  /\ \/ authorized /\ MarkFailed(cur[w])
     \/ UNCHANGED rowVars
  /\ Returns(w, "failed")
  /\ UNCHANGED <<queueVars, envVars>>

Done(w) ==
  /\ At(w, {"done"})
  /\ Returns(w, "ok")
  /\ Nothing
  /\ UNCHANGED envVars

StageStep(w) ==
  \/ StageCommits(w) \/ StageRefused(w) \/ StageNotLive(w)
  \/ StageFails(w) \/ EdgeRefused(w) \/ Fails(w) \/ Done(w)

-----------------------------------------------------------------------------
\* POST /syntheses and /refine: the row and its job, in one transaction.
UserCreates(j) ==
  /\ j \in Fresh
  /\ Cardinality({i \in Jobs \ Fresh : refines[i] = NoJob}) < MaxRoots
  /\ SetStatus(j, "pending")
  /\ Enqueue(j)
  /\ UNCHANGED <<workerVars, made, refines, temp, stage, envVars>>

\* DELETE /syntheses/{id}: any status but `complete`, which the table's
\* status/narrative constraint refuses.
UserDeletes(j) ==
  /\ status[j] \notin {"none", "complete", "deleted"}
  /\ Cardinality({i \in Jobs : status[i] = "deleted"}) < MaxDeletes
  /\ SetStatus(j, "deleted")
  /\ UNCHANGED <<vars, made, refines, temp, stage, envVars>>

\* The principal leaves or rejoins the owner group.
RevokeOrGrant ==
  /\ revokes < MaxRevokes
  /\ revokes' = revokes + 1
  /\ authorized' = ~authorized
  /\ UNCHANGED <<vars, rowVars, stage>>

CrashInStage(w) ==
  /\ Crash(w)
  /\ stage' = [stage EXCEPT ![w] = "start"]
  /\ UNCHANGED <<rowVars, envVars>>

\* authorize lets the handler start only for a principal that may write.
Starts(w) == authorized /\ StartHandler(w)

WorkerMoves(w) == StageStep(w) \/ ((QueueCalls(w) \/ Starts(w)) /\ UNCHANGED synVars)

Delay(j) == DelayElapses(j) /\ UNCHANGED workerVars

SynNext ==
  \/ \E j \in Jobs : UserCreates(j) \/ UserDeletes(j)
  \/ RevokeOrGrant
  \/ \E j \in Jobs : (Delay(j) \/ PutBack(j)) /\ UNCHANGED synVars
  \/ \E w \in Workers :
       \/ WorkerMoves(w)
       \/ CrashInStage(w)
       \/ (Faults(w) \/ Restarts(w)) /\ UNCHANGED synVars

SynSpec == SynInit /\ [][SynNext]_allVars

\* As in Worker: the loop waits on nothing but the job in hand, every model
\* and database call ends, and a stopped worker is started again.
SynFairness ==
  /\ \A w \in Workers :
       /\ WF_allVars(WorkerMoves(w))
       /\ WF_allVars(Restart(w) /\ UNCHANGED synVars)
  /\ \A j \in Jobs :
       WF_allVars(Delay(j) /\ UNCHANGED synVars)

FairSynSpec == SynSpec /\ SynFairness

-----------------------------------------------------------------------------
\* Every variable of the rows and the handler keeps its type.
SynTypeOK ==
  /\ status \in [Jobs -> Statuses]
  /\ made \in [Jobs -> [Pieces -> Nat]]
  /\ refines \in [Jobs -> Jobs \cup {NoJob}]
  /\ temp \in [Jobs -> 0 .. Ceiling]
  /\ stage \in [Workers -> Stages]
  /\ authorized \in BOOLEAN
  /\ revokes \in 0 .. MaxRevokes

\* The handler run in stages is a handler of the worker loop: every step of
\* it is a step of Worker, or leaves Worker's variables alone, so what the
\* queue promises holds of the whole (run_once calling run).
StagesAreAHandler == Spec

\* Once the user deleted a synthesis, a job still running on it writes no
\* verifier outcome, outbox row, embedding, edge, completion or event for it
\* and refines it into no child (run_on_pipeline, stage 9b).
NothingAfterDelete ==
  [][\A j \in Jobs : status[j] = "deleted" =>
       /\ \A p \in LatePieces : made'[j][p] = made[j][p]
       /\ \A c \in Jobs : refines'[c] = j => refines[c] = j]_allVars

\* No retry, late failure or redelivery ever takes a synthesis out of
\* `complete` or `deleted` (mark_running, mark_failed, save_narrative).
EndsAreFinal ==
  [][\A j \in Jobs : ~Live(j) => status'[j] = status[j]]_allVars

\* A completed synthesis is the work of ONE attempt: nothing a failed or
\* crashed attempt left behind is published with the pieces of another.
CompleteIsWhole ==
  \A j \in Jobs : status[j] = "complete" =>
    \A p, q \in Pieces \ {"event"} : made[j][p] = made[j][q]

\* A rejected synthesis is refined into at most one automatic child, over
\* all the attempts the queue gives its job (reject_and_refine); an operator
\* who puts the job back may get a second one.
OneRefinementChild ==
  \A c, d \in Jobs : refines[c] # NoJob /\ refines[c] = refines[d] =>
    c = d \/ putBacks[refines[c]] > 0

\* A row's end and its job's end agree: a complete job has an ended row, and
\* a failed job has no complete or rejected row, unless an operator put it
\* back (a put-back job may be refused, for its age, before its handler runs).
JobAgreesWithRow ==
  \A j \in Jobs :
    /\ state[j] = "complete" => status[j] \in {"complete", "rejected", "deleted"}
    /\ state[j] = "failed" /\ putBacks[j] = 0
         => status[j] \notin {"complete", "rejected"}

\* A job never reports success for a synthesis that is still being worked
\* on, even with commits lost and jobs put back.
SuccessMeansEnded ==
  \A j \in Jobs :
    state[j] = "complete" => status[j] \in {"complete", "rejected", "deleted"}

\* Every synthesis, refinement children included, reaches an end, or its job
\* fails, or its job is stranded `running` for the operator.
SynthesisSettles ==
  \A j \in Jobs : status[j] = "pending" ~>
    \/ status[j] \in {"complete", "rejected", "deleted"}
    \/ state[j] = "failed" \/ Stranded(j)
=============================================================================
