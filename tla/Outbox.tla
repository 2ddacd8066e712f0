------------------------------- MODULE Outbox -------------------------------
(***************************************************************************)
(* The stage-6 outbox of ONE synthesis: the rows of synthesis_provo_edges  *)
(* that plan its PROV edges, the job that plans and writes them, the       *)
(* worker's stage6_pending worklist that writes what is left over, and the *)
(* changes of visibility that race with both: of the cited claims (kernel  *)
(* side), of the synthesis (its owner, the narrowing sweep, the row        *)
(* guards of migration 5035) and of its parent and prerequisites.          *)
(*                                                                         *)
(* The sessions are row-secured: a statement sees the outbox and the       *)
(* membership rows of the claims it can read, and no others.  They run at  *)
(* READ COMMITTED, so each STATEMENT of the writing transaction sees what  *)
(* other sessions committed before it: discard, publishability check,      *)
(* deferral or write loop, and completion are separate steps here, and     *)
(* what the transaction did takes effect when it commits.                  *)
(***************************************************************************)
EXTENDS Integers, FiniteSets

CONSTANTS
  Claims,        (* kernel claims the synthesis may come to cite            *)
  OwnClaims,     (* those owned by the synthesis' owner group               *)
  Readable,      (* those the acting principal reads even when not public   *)
  Agent,         (* the row that names no claim: ATTRIBUTED_TO the agent    *)
  Refused,       (* claims whose edge the kernel refuses to insert          *)
  RetryCap,      (* attempt_count under which the worklist offers: 10       *)
  MaxAttempts,   (* bound: attempts at the job                              *)
  MaxTurns,      (* bound: changes of visibility, of anything, by anyone    *)
  MaxAborts      (* bound: worklist transactions that roll back             *)

ASSUME OutboxAssumption ==
  /\ OwnClaims \subseteq Readable /\ Readable \subseteq Claims
  /\ Agent \notin Claims
  /\ Refused \subseteq Claims
  /\ RetryCap \in Nat \ {0}
  /\ MaxAttempts \in Nat /\ MaxTurns \in Nat /\ MaxAborts \in Nat

Targets == Claims \cup {Agent}

VARIABLES
  pub,         (* the claims that are public now                            *)
  inputs,      (* BOOLEAN: the parent and every prerequisite are public     *)
  status,      (* syntheses.status                                          *)
  visibility,  (* syntheses.visibility                                      *)
  members,     (* synthesis_claim_membership                                *)
  cited,       (* the claims listed by some cluster                         *)
  row,         (* [Targets -> RowStates]: synthesis_provo_edges             *)
  tries,       (* [Targets -> Nat]: attempt_count, up to RetryCap + 1       *)
  step,        (* what the worker does next on this synthesis               *)
  by,          (* who runs the writing transaction: "job" or "worklist"     *)
  snap,        (* the claims the running attempt recalled                   *)
  buf,         (* [Targets -> Effects]: the transaction's uncommitted rows  *)
  turned,      (* whose visibility turned since the transaction began       *)
  attempts, turns, aborts   (* counters of the bounds                       *)

synthesisVars == <<status, visibility, members, cited>>
outboxVars    == <<row, tries>>
workerVars    == <<step, by, snap, buf, attempts, aborts>>
worldVars     == <<pub, inputs, turned, turns>>
vars == <<synthesisVars, outboxVars, workerVars, worldVars>>

RowStates == {"absent", "pending", "deferred", "written"}
Effects   == {"keep", "drop", "defer", "write"}
Statuses  == {"pending", "running", "complete", "failed", "deleted"}
StageSteps == {"attach", "cluster", "plan", "publish"}
WriteSteps == {"check", "defer", "write", "complete"}
Steps == {"idle", "offered"} \cup StageSteps \cup WriteSteps

-----------------------------------------------------------------------------
\* What the principal's session can read now.
Sees(t)     == t \in pub \cup Readable \cup {Agent}
Unwritten   == {t \in Targets : row[t] \in {"pending", "deferred"}}
Undeferred  == {t \in Targets : row[t] = "pending"}
Live        == status \notin {"complete", "deleted"}

\* episcience_synthesis_is_publishable: over ALL membership rows (5037).
Publishable == inputs /\ members \subseteq pub

\* Deviation: the gate answers for completed rows only.
GateCompleteOnly == visibility = "public" /\ status = "complete" /\ Publishable

\* is_publishable (publish.rs): may the synthesis be named in public?
Gate == visibility = "public" /\ status # "deleted" /\ Publishable

\* Deviations: nothing is discarded; every claim row the session sees is.
StaleNone == {}
StaleAll  == {t \in Claims \cap Unwritten : Sees(t)}

\* discard_uncited_unwritten: what no cluster cites, among what it sees.
Stale == {t \in Claims \cap Unwritten : Sees(t) /\ t \notin cited}

\* replace_unwritten: the unwritten rows it sees make way for the new plan.
Replanned ==
  [t \in Targets |-> IF row[t] = "written" \/ ~Sees(t) THEN row[t]
                     ELSE IF t \in snap \cup {Agent} THEN "pending"
                     ELSE "absent"]

\* Deviation: only rows that were tried before are offered.
OfferedRetries ==
  /\ status = "complete" /\ visibility = "public"
  /\ \E t \in Undeferred : tries[t] \in 1 .. RetryCap - 1

\* episcience_owner_worklist('stage6_pending'), which reads with the bypass.
Offered ==
  /\ status = "complete" /\ visibility = "public"
  /\ \E t \in Undeferred : tries[t] < RetryCap

Committed(b) ==
  [t \in Targets |-> CASE b[t] = "keep"  -> row[t]
                       [] b[t] = "drop"  -> "absent"
                       [] b[t] = "defer" -> "deferred"
                       [] b[t] = "write" -> "written"]

Empty == [t \in Targets |-> "keep"]

\* buf with effect e on the rows ts.
With(ts, e) == [t \in Targets |-> IF t \in ts THEN e ELSE buf[t]]

\* list_pending and count_pending, inside the transaction.
Listed == {t \in Undeferred : Sees(t) /\ buf[t] = "keep"}

\* tenancy_45_publish_rule: a status change narrows what is not publishable.
SetStatus(s) ==
  /\ status' = s
  /\ visibility' = IF s # status /\ ~Publishable THEN "group" ELSE visibility

Init ==
  /\ pub = Claims /\ inputs = TRUE
  /\ status = "pending" /\ visibility \in {"public", "group"}
  /\ members = {} /\ cited = {}
  /\ row = [t \in Targets |-> "absent"] /\ tries = [t \in Targets |-> 0]
  /\ step = "idle" /\ by = "job" /\ snap = {} /\ buf = Empty
  /\ turned = {} /\ attempts = 0 /\ turns = 0 /\ aborts = 0

-----------------------------------------------------------------------------
(* The stages of an attempt that come before the writing transaction.      *)

GoTo(s) == step' = s /\ UNCHANGED <<by, snap, buf, attempts, aborts>>

\* mark_running, then recall: the attempt's claims, read as the principal.
Recall ==
  /\ step = "idle" /\ Live /\ attempts < MaxAttempts
  /\ attempts' = attempts + 1
  /\ SetStatus("running")
  /\ \E s \in SUBSET {c \in Claims : Sees(c)} \ {{}} : snap' = s
  /\ step' = "attach"
  /\ UNCHANGED <<members, cited, outboxVars, by, buf, aborts, worldVars>>

\* stage2_persist: replace the membership rows the session sees.  A claim
\* that is neither public nor the owner group's refuses the whole set; one
\* that is not public narrows the synthesis as it attaches.
AttachMembers ==
  /\ step = "attach"
  /\ snap \subseteq pub \cup OwnClaims
  /\ members' = {c \in members : ~Sees(c)} \cup snap
  /\ visibility' = IF snap \subseteq pub THEN visibility ELSE "group"
  /\ GoTo("cluster")
  /\ UNCHANGED <<status, cited, outboxVars, worldVars>>

\* stage3_persist: the clusters partition the snapshot.
ReplaceClusters ==
  /\ step = "cluster"
  /\ cited' = snap
  /\ GoTo("plan")
  /\ UNCHANGED <<status, visibility, members, outboxVars, worldVars>>

\* stage6_plan_edges_conn, on the live row.  A claim that left the session's
\* reach refuses the insert of its row.
PlanEdges ==
  /\ step = "plan" /\ Live
  /\ \A c \in snap : Sees(c)
  /\ row' = Replanned
  /\ tries' = [t \in Targets |->
                 IF t \in snap \cup {Agent} /\ row[t] # "written" THEN 0
                 ELSE tries[t]]
  /\ GoTo("publish")
  /\ UNCHANGED <<synthesisVars, worldVars>>

\* The attempt fails (or its worker dies) anywhere: its open transaction is
\* rolled back, and the row may be marked failed.
AttemptFails ==
  /\ step \in StageSteps \/ (step \in WriteSteps /\ by = "job")
  /\ step' = "idle" /\ buf' = Empty
  /\ \/ UNCHANGED <<status, visibility>>
     \/ Live /\ SetStatus("failed")
  /\ UNCHANGED <<members, cited, outboxVars, by, snap, attempts, aborts, worldVars>>

-----------------------------------------------------------------------------
(* The writing transaction: stage6_write_edges_conn, called by the job     *)
(* (which holds the live row) or by the worklist (which does not).         *)

OfferItem ==
  /\ step = "idle" /\ Offered
  /\ GoTo("offered")
  /\ UNCHANGED <<synthesisVars, outboxVars, worldVars>>

Discard(who) ==
  /\ \/ who = "job" /\ step = "publish" /\ Live
     \/ who = "worklist" /\ step = "offered"
  /\ buf' = [t \in Targets |-> IF t \in Stale THEN "drop" ELSE "keep"]
  /\ by' = who /\ step' = "check" /\ turned' = {}
  /\ UNCHANGED <<synthesisVars, outboxVars, snap, attempts, aborts, pub, inputs, turns>>

Check ==
  /\ step = "check"
  /\ GoTo(IF Gate THEN "write" ELSE "defer")
  /\ UNCHANGED <<synthesisVars, outboxVars, worldVars>>

\* The rows are as b says; the job goes on to complete the synthesis in the
\* same transaction, the worklist commits.
Carries(b) ==
  \/ /\ by = "job" /\ buf' = b /\ step' = "complete"
     /\ UNCHANGED row
  \/ /\ by = "worklist" /\ row' = Committed(b) /\ buf' = Empty /\ step' = "idle"

Defer ==
  /\ step = "defer"
  /\ Carries(With(Listed, "defer"))
  /\ UNCHANGED <<synthesisVars, tries, by, snap, attempts, aborts, worldVars>>

WriteAll ==
  /\ step = "write"
  /\ Listed \cap Refused = {}
  /\ Carries(With(Listed, "write"))
  /\ UNCHANGED <<synthesisVars, tries, by, snap, attempts, aborts, worldVars>>

\* The kernel refuses an edge: the rows before it (in the listed order, the
\* agent's first) are written, its attempt is counted, and all of that is
\* committed; the job's attempt fails, the worklist skips the item.
WriteRefused ==
  /\ step = "write"
  /\ \E t \in Listed \cap Refused, before \in SUBSET (Listed \ Refused) :
       /\ Agent \in Listed => Agent \in before
       /\ row' = Committed(With(before, "write"))
       /\ tries' = [tries EXCEPT ![t] = IF @ > RetryCap THEN @ ELSE @ + 1]
  /\ buf' = Empty /\ step' = "idle"
  /\ UNCHANGED <<synthesisVars, by, snap, attempts, aborts, worldVars>>

\* stage6_mark_complete_conn: refused while it sees a pending row.
Complete ==
  /\ step = "complete" /\ Listed = {}
  /\ SetStatus("complete")
  /\ row' = Committed(buf) /\ buf' = Empty /\ step' = "idle"
  /\ UNCHANGED <<members, cited, tries, by, snap, attempts, aborts, worldVars>>

WorklistAborts ==
  /\ by = "worklist" /\ step \in WriteSteps
  /\ aborts < MaxAborts /\ aborts' = aborts + 1
  /\ buf' = Empty /\ step' = "idle"
  /\ UNCHANGED <<synthesisVars, outboxVars, by, snap, attempts, worldVars>>

-----------------------------------------------------------------------------
(* The rest of the world.                                                  *)

Turn(what) ==
  /\ turns < MaxTurns /\ turns' = turns + 1
  /\ turned' = turned \cup {what}

\* The job's transaction holds the synthesis row (lock_live).
Locked == by = "job" /\ step \in WriteSteps

ClaimTurns(c) ==
  /\ Turn(c)
  /\ pub' = IF c \in pub THEN pub \ {c} ELSE pub \cup {c}
  /\ UNCHANGED <<inputs, synthesisVars, outboxVars, workerVars>>

InputsTurn ==
  /\ Turn("inputs") /\ inputs' = ~inputs
  /\ UNCHANGED <<pub, synthesisVars, outboxVars, workerVars>>

\* PATCH /syntheses/{id}/visibility.
UserNarrows ==
  /\ ~Locked /\ visibility = "public"
  /\ Turn("synthesis") /\ visibility' = "group"
  /\ UNCHANGED <<pub, inputs, status, members, cited, outboxVars, workerVars>>

\* Widening (or asking for `public` again) needs public inputs: the members
\* the session sees, and all of them when the row is not public yet.  It
\* releases the deferred rows the session sees.
UserWidens ==
  /\ ~Locked
  /\ inputs /\ \A c \in members : Sees(c) \/ visibility = "group" => c \in pub
  /\ Turn("synthesis") /\ visibility' = "public"
  /\ row' = [t \in Targets |-> IF row[t] = "deferred" /\ Sees(t) THEN "pending"
                               ELSE row[t]]
  /\ UNCHANGED <<pub, inputs, status, members, cited, tries, workerVars>>

\* episcience_maint_sweep_narrowed, on this row.
Sweep ==
  /\ ~Locked /\ visibility = "public" /\ ~Publishable
  /\ visibility' = "group" /\ turned' = turned \cup {"synthesis"}
  /\ UNCHANGED <<pub, inputs, turns, status, members, cited, outboxVars, workerVars>>

UserDeletes ==
  /\ ~Locked /\ Live
  /\ SetStatus("deleted")
  /\ UNCHANGED <<members, cited, outboxVars, workerVars, worldVars>>

Stage == Recall \/ AttachMembers \/ ReplaceClusters \/ PlanEdges

Writes ==
  \/ OfferItem
  \/ \E who \in {"job", "worklist"} : Discard(who)
  \/ Check \/ Defer \/ WriteAll \/ WriteRefused \/ Complete

World ==
  \/ \E c \in Claims : ClaimTurns(c)
  \/ InputsTurn \/ UserNarrows \/ UserWidens \/ Sweep \/ UserDeletes

Next == Stage \/ Writes \/ AttemptFails \/ WorklistAborts \/ World

Spec == Init /\ [][Next]_vars

\* run_until runs the worklist every period and each transaction ends; a
\* retried or redelivered job is not assumed.
FairSpec == Spec /\ WF_vars(Writes)

-----------------------------------------------------------------------------
\* Every variable keeps its type.  An attempt's stages run on a `running` row
\* that only the user may end (by deleting it), and the job's writing
\* transaction on one that stays `running` under its lock (begin_live).
OutboxTypeOK ==
  /\ pub \subseteq Claims /\ inputs \in BOOLEAN
  /\ status \in Statuses /\ visibility \in {"public", "group"}
  /\ members \subseteq Claims /\ cited \subseteq Claims /\ snap \subseteq Claims
  /\ row \in [Targets -> RowStates]
  /\ tries \in [Targets -> 0 .. RetryCap + 1]
  /\ step \in Steps /\ by \in {"job", "worklist"}
  /\ buf \in [Targets -> Effects]
  /\ turned \subseteq Claims \cup {"inputs", "synthesis"}
  /\ attempts \in 0 .. MaxAttempts /\ turns \in 0 .. MaxTurns /\ aborts \in 0 .. MaxAborts
  /\ step \in StageSteps => status \in {"running", "deleted"}
  /\ by = "job" /\ step \in WriteSteps => status = "running"

\* The targets a step turns into kernel edges.
NewEdges == {t \in Targets : row'[t] = "written" /\ row[t] # "written"}

\* A kernel edge is written only for a public and publishable synthesis and
\* only to a claim some cluster of it cites, whatever attempt planned the
\* row; unless a visibility turned while the transaction ran, between two of
\* its statements (stage6_write_edges_conn, with the replan and the discard).
EdgesAreJustified ==
  [][NewEdges # {} =>
       /\ turned = {} => visibility = "public" /\ Publishable
       /\ \A t \in NewEdges : t \in cited \cup {Agent} \cup turned]_vars

\* A written row names a kernel edge that exists: no replan, discard or
\* deferral ever takes it back (replace_unwritten and its siblings).
WrittenIsForever ==
  [][\A t \in Targets : row[t] = "written" => row'[t] = "written"]_vars

\* A completed synthesis has an outbox row, waiting or written, for every
\* claim it cites and for its author: over failed attempts, hidden rows and
\* discards, no provenance is lost.
CompleteHasProvenance ==
  status = "complete" => \A t \in cited \cup {Agent} : row[t] # "absent"

\* A synthesis that completes public has all its edges in the kernel at that
\* moment, unless a visibility turned under the transaction (run_on_pipeline,
\* 10d and 10e).
CompletionPublishes ==
  [][status' = "complete" /\ status # "complete" /\ visibility' = "public"
       => turned # {} \/ \A t \in cited \cup {Agent} : row'[t] = "written"]_vars

\* The worklist writes what is pending on a completed public synthesis
\* (after a widening, docs/tenancy-contract.md "Deferred PROV edges"),
\* unless something is narrowed first or an edge the kernel refuses is in the
\* way.
PendingIsWritten ==
  \A t \in Targets :
    status = "complete" /\ visibility = "public" /\ Publishable
      /\ row[t] = "pending" /\ t \in cited \cup {Agent}
    ~> \/ row[t] \in {"written", "deferred"}
       \/ ~(visibility = "public" /\ Publishable)
       \/ Undeferred \cap Refused # {}
=============================================================================
