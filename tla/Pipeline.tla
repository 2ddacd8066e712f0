------------------------------ MODULE Pipeline ------------------------------
(***************************************************************************)
(* One pass of SynthesisPipeline over a synthesis: seeds, traversal,       *)
(* clusters, one narration a cluster, the composition, the verifier.  Each *)
(* step is one read, one round of an algorithm or one model call.          *)
(*                                                                         *)
(* A claim is cited by its full id.  A citation of Outsider is one of a    *)
(* claim outside the synthesis.                                            *)
(***************************************************************************)
EXTENDS Clustering, ModelReply

CONSTANTS
  Worlds,      (* the worlds a synthesis may run in; besides what the stages *)
               (* read they give the edges of stage 3, the cost budget and   *)
               (* whether the skill is code_review                           *)
  MaxRetries,  (* 1 in the code                                              *)
  Outsider     (* a claim outside the synthesis                              *)

ASSUME PipelineAssumption ==
  /\ MaxRetries \in Nat /\ Outsider \notin Claims
  /\ \A w \in Worlds :
       /\ w.found \in Seq(Claims) /\ w.allowed \subseteq Claims
       /\ w.next \in [Claims -> Seq(Claims)] /\ w.relevant \subseteq Claims
       /\ w.hops \in Nat /\ w.size \in Nat /\ w.budget \in Nat

VARIABLES
  stage,     (* which stage runs, or how the pass ended                      *)
  clusters,  (* the clusters in the order of their smallest claim            *)
  cites,     (* the claims each accepted summary cites                       *)
  calls,     (* llm_call_count                                               *)
  attempt,   (* attempts made at the current prompt                          *)
  own,       (* what the composed narrative cites outside the summaries      *)
  bare,      (* the narrative names a PR without a citation near it          *)
  last,      (* the outcome of the last model call                           *)
  model,     (* resolved_model: the model the provider last recorded         *)
  reason     (* why the pass failed or was rejected                          *)

writingVars == <<clusters, cites, calls, attempt, own, bare, last, model>>
vars == <<world, seedingVars, clusteringVars, stage, writingVars, reason>>

Stages == {"seeding", "traversing", "clustering", "narrating", "composing", "verifying"}
Ends == {"accepted", "rejected", "failed"}

NoCall == [kind |-> "none", value |-> "none", stop |-> FALSE, model |-> {}]

Init ==
  /\ world \in Worlds
  /\ pool = IF world.theme THEN Usable(world.found) ELSE <<>>
  /\ picked = IF world.theme THEN <<>> ELSE world.found
  /\ seeds = <<>> /\ visited = {} /\ frontier = <<>>
  /\ adj = <<>> /\ foes = {} /\ strength = <<>> /\ comm = <<>>
  /\ todo = {} /\ improved = FALSE /\ louvain = {} /\ parts = {}
  /\ stage = "seeding" /\ clusters = <<>> /\ cites = <<>> /\ own = {} /\ bare = FALSE
  /\ calls = 0 /\ attempt = 0 /\ last = NoCall /\ model = {} /\ reason = "none"

Ended(how, why) == stage' = how /\ reason' = why
Goes(to) == stage' = to /\ UNCHANGED reason
-----------------------------------------------------------------------------
\* A read of stage 1 or 2 fails: the query embedding, the kernel, the filter.
ReadFails ==
  /\ stage \in {"seeding", "traversing"}
  /\ Ended("failed", "read")
  /\ UNCHANGED <<world, seedingVars, clusteringVars, writingVars>>

Seed ==
  /\ stage = "seeding" /\ world.theme /\ PickSeed
  /\ UNCHANGED <<world, clusteringVars, stage, writingVars, reason>>

\* No seed found, or none left by the filter, ends the pass.
SeedsAreFiltered ==
  /\ stage = "seeding" /\ (world.theme => PicksAreOver)
  /\ IF SeedFilter(picked) = <<>>
     THEN Ended("failed", "empty") /\ UNCHANGED seedingVars
     ELSE Goes("traversing") /\ StartTraversal(picked)
  /\ UNCHANGED <<world, clusteringVars, writingVars>>

Traverse ==
  /\ stage = "traversing" /\ VisitFrontier
  /\ UNCHANGED <<world, clusteringVars, stage, writingVars, reason>>

\* Stage 2 ends with the beliefs of the claims found, read as the principal.
SnapshotIsTaken ==
  /\ stage = "traversing" /\ TraversalIsOver
  /\ IF BeliefsAreReadable
     THEN Goes("clustering") /\ StartClusters(world.edges)
     ELSE Ended("failed", "unreadable") /\ UNCHANGED clusteringVars
  /\ UNCHANGED <<world, seedingVars, writingVars>>

Cluster ==
  /\ stage = "clustering" /\ ClusteringStep
  /\ UNCHANGED <<world, seedingVars, stage, writingVars, reason>>

\* The clusters in the order of their smallest claims.
ByFirst(C) ==
  LET rank(c) == Cardinality({d \in C : Min(d) <= Min(c)})
  IN [i \in 1..Cardinality(C) |-> CHOOSE c \in C : rank(c) = i]

\* Stage 3 ends; what it worked on is gone.
ClustersAreKept ==
  /\ stage = "clustering" /\ ClustersAreReady
  /\ clusters' = ByFirst(parts)
  /\ Goes("narrating")
  /\ adj' = <<>> /\ foes' = {} /\ strength' = <<>> /\ comm' = <<>>
  /\ todo' = {} /\ improved' = FALSE /\ louvain' = {} /\ parts' = {}
  /\ UNCHANGED <<world, seedingVars, cites, calls, attempt, own, bare, last, model>>
-----------------------------------------------------------------------------
\* call_llm_with_schema_retry, one attempt a step.  The budget is checked and
\* the call counted before the call; a malformed answer and a refused one have
\* a retry, every other error ends the pass.
OutOfBudget ==
  /\ stage \in {"narrating", "composing"} /\ calls >= world.budget
  /\ Ended("failed", "budget")
  /\ UNCHANGED <<world, seedingVars, clusteringVars, writingVars>>

\* Mutant: the call is counted when it answers.
CallCountsAnswers(o) ==
  /\ calls < world.budget
  /\ calls' = IF o.kind = "ok" THEN calls + 1 ELSE calls
  /\ last' = o
  /\ model' = IF o.model = {} THEN model ELSE o.model

Call(o) ==
  /\ calls < world.budget
  /\ calls' = calls + 1
  /\ last' = o
  /\ model' = IF o.model = {} THEN model ELSE o.model

TryAgain(why) ==
  IF attempt < MaxRetries
  THEN attempt' = attempt + 1 /\ UNCHANGED <<stage, reason>>
  ELSE attempt' = attempt /\ Ended("failed", why)

CallFails(o) ==
  IF o.kind = "malformed" THEN TryAgain("malformed")
  ELSE attempt' = attempt /\ Ended("failed", o.kind)

\* A call that brings no answer, or JSON that is not the answer asked for.
NoAnswer ==
  /\ stage \in {"narrating", "composing"}
  /\ \E o \in Outcomes :
       /\ Call(o)
       /\ IF o.kind = "ok" THEN o.value # "answer" /\ TryAgain("refused") ELSE CallFails(o)
  /\ UNCHANGED <<world, seedingVars, clusteringVars, clusters, cites, own, bare>>

Answers == {o \in Outcomes : o.value = "answer"}

\* A narration as its checks see it: the title, whether the summary is blank,
\* the claims its full ids name, and whether it shortens a member's id or holds
\* 36 characters that are no id.
Narrations ==
  [title : {"fit", "blank", "long"}, blank : BOOLEAN,
   cited : SUBSET (Claims \cup {Outsider}), short : BOOLEAN, garbled : BOOLEAN]

\* Mutant: the rubric is left to stage 6.
NarrationFitsLoosely(a, members) ==
  /\ a.title = "fit" /\ ~a.blank
  /\ ~a.garbled /\ a.cited \subseteq members
  /\ ~a.short

NarrationFits(a, members) ==
  /\ a.title = "fit" /\ ~a.blank
  /\ ~a.garbled /\ a.cited \subseteq members
  /\ ~a.short
  /\ members \subseteq a.cited

\* narrate_cluster for the next cluster.
Narrate ==
  /\ stage = "narrating" /\ Len(cites) < Len(clusters)
  /\ \E o \in Answers, a \in Narrations :
       /\ Call(o)
       /\ IF NarrationFits(a, clusters[Len(cites) + 1])
          THEN /\ cites' = Append(cites, a.cited) /\ attempt' = 0
               /\ UNCHANGED reason
               /\ stage' = IF Len(cites') = Len(clusters) THEN "composing" ELSE "narrating"
          ELSE TryAgain("refused") /\ UNCHANGED cites
  /\ UNCHANGED <<world, seedingVars, clusteringVars, clusters, own, bare>>

\* A composition: how often each placeholder stands in it, one that names no
\* cluster, the claims its own text cites, a PR with no citation near.
CompositionFits(places, unknown) == ~unknown /\ \A i \in DOMAIN places : places[i] = 1

\* stage5_compose: each placeholder gives way to its summary.
Compose ==
  /\ stage = "composing"
  /\ \E o \in Answers, places \in [DOMAIN clusters -> 0..2], unknown \in BOOLEAN :
       /\ Call(o)
       /\ IF CompositionFits(places, unknown)
          THEN /\ own' \in SUBSET (Claims \cup {Outsider}) /\ bare' \in BOOLEAN
               /\ attempt' = 0 /\ Goes("verifying")
          ELSE TryAgain("refused") /\ UNCHANGED <<own, bare>>
  /\ UNCHANGED <<world, seedingVars, clusteringVars, clusters, cites>>
-----------------------------------------------------------------------------
MembersOf(C) == UNION ToSet(C)
Cited == own \cup UNION ToSet(cites)

\* default_citation_rubric, then the PR check of code_review.
Verdict ==
  IF ~(MembersOf(clusters) \subseteq Cited) THEN "uncited"
  ELSE IF ~(Cited \subseteq MembersOf(clusters)) THEN "outsider"
  ELSE IF world.review /\ bare THEN "bare PR" ELSE "fit"

Verify ==
  /\ stage = "verifying"
  /\ IF Verdict = "fit" THEN Ended("accepted", "none") ELSE Ended("rejected", Verdict)
  /\ UNCHANGED <<world, seedingVars, clusteringVars, writingVars>>

\* The PR check cuts the narrative 120 bytes around the number, and panics when
\* a cut falls inside a character.
VerifyPanics ==
  /\ stage = "verifying" /\ world.review /\ Verdict \in {"fit", "bare PR"}
  /\ Ended("failed", "panic")
  /\ UNCHANGED <<world, seedingVars, clusteringVars, writingVars>>

Step ==
  \/ ReadFails \/ Seed \/ SeedsAreFiltered \/ Traverse \/ SnapshotIsTaken
  \/ Cluster \/ ClustersAreKept
  \/ OutOfBudget \/ NoAnswer \/ Narrate \/ Compose \/ Verify \/ VerifyPanics
Rest == stage \in Ends /\ UNCHANGED vars
Next == Step \/ Rest

Spec == Init /\ [][Next]_vars /\ WF_vars(Step)
-----------------------------------------------------------------------------
\* What the synthesis stores as clusters is a partition of the snapshot, within
\* the cap: separation and merging lose no claim and count none twice.
ClustersPartition ==
  clusters # <<>> =>
    /\ Len(clusters) <= MaxClusters
    /\ UNION ToSet(clusters) = visited
    /\ \A i \in DOMAIN clusters : clusters[i] # {}
    /\ \A i, j \in DOMAIN clusters : i < j =>
         clusters[i] \cap clusters[j] = {} /\ Min(clusters[i]) < Min(clusters[j])

\* The calls are within the budget, whatever mixture of malformed and refused
\* answers spent them; every prompt had one call and at most its retries, each
\* counted; and
\* the budget ends the pass only when it is spent.
CallsAreAccounted ==
  /\ calls <= world.budget
  /\ LET answered == Len(cites) + IF stage \in {"verifying", "accepted", "rejected"} THEN 1 ELSE 0
     IN /\ answered + attempt <= calls
        /\ calls <= (MaxRetries + 1) * (answered + 1)
  /\ reason = "budget" => calls = world.budget /\ stage = "failed"

\* A reply that shows a classifier stop ends the pass under that name: it is
\* no answer, it is not retried as malformed, and its model is not recorded.
StopsAreTerminal ==
  [][(calls' # calls /\ last'.stop) =>
       stage' = "failed" /\ reason' = "stopped" /\ model' = model]_vars

\* After accepted narrations the verifier never misses a member, and what it
\* finds outside the clusters is the composer's own text.
OnlyTheComposerIsRejected ==
  stage = "rejected" =>
    /\ reason # "uncited"
    /\ reason = "outsider" => own \ MembersOf(clusters) # {}

\* Louvain settles, merging stops and the retries are bounded: the pass ends.
PassEnds == <>(stage \in Ends)

\* A traversal is looked at when it is over and its seeds are still known.
TraversalIsExact == stage \in {"traversing", "clustering"} => SnapshotIsNear
=============================================================================
