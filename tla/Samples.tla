------------------------------ MODULE Samples ------------------------------
(***************************************************************************)
(* Samples, their observations and blobs, and who may read them: the       *)
(* requests of routes/samples.rs, the row guards of migration 5035 and the *)
(* maintenance tick that narrows a public sample once a claim on it or its *)
(* parent is no longer public (5037, 5039).                                *)
(*                                                                         *)
(* Requests run at READ COMMITTED: the handler reads and checks (Ask...),  *)
(* one statement writes and its triggers read what is committed then       *)
(* (Write), and the commit comes later.  The tick's sweep is one           *)
(* transaction that tries a row at a time.                                 *)
(***************************************************************************)
EXTENDS Integers

CONSTANTS
  Groups,    (* owner groups                                                *)
  Callers,   (* for each kind of caller, the groups it may write            *)
  Claims,    (* claims of the kernel, by content                            *)
  N,         (* samples are 1..N, created in this order                     *)
  Old,       (* how many of them are there from the start                   *)
  Requests,  (* the requests made                                           *)
  Targets,   (* the statuses that requests ask for                          *)
  None,      (* nothing there                                               *)
  Done       (* a request that has been answered                            *)

ASSUME SamplesAssumption ==
  /\ Callers \subseteq SUBSET Groups /\ {} \notin Callers
  /\ N \in Nat \ {0} /\ Old \in 0..N
  /\ Targets \subseteq {"prepared", "in_use", "consumed", "disposed", "archived"}
  /\ None \notin Claims

VARIABLES
  claims,   (* [Claims -> Pairs, or None: not written yet]                  *)
  sample,   (* [Samples -> a row, or None: not created]                     *)
  rows,     (* sample_claims and blobs rows on a sample (claim None: blob)  *)
  open,     (* [Requests -> the request at work, None before, Done after]   *)
  tick,     (* the maintenance tick at work, or None                        *)
  strays    (* history: samples inserted while their parent was narrowed    *)

vars == <<claims, sample, rows, open, tick, strays>>

Samples  == 1..N
Pair(g, v) == [owner |-> g, vis |-> v]
Pairs    == [owner : Groups, vis : {"public", "group"}]
Statuses == {"prepared", "in_use", "consumed", "disposed", "archived"}

SampleRows  == [parent : 0..N, pair : Pairs, status : Statuses]
DerivedRows == [on : Samples, claim : Claims \cup {None}, pair : Pairs, missed : BOOLEAN]

\* The requests at work, by what they do, and the tick, by how far it is.
Creating  == [op : {"create"}, by : Callers, at : 0..N, pair : Pairs,
              written : BOOLEAN, missed : BOOLEAN]
Observing == [op : {"observe"}, by : Callers, at : Samples, claim : Claims,
              claimPair : Pairs, pair : Pairs, written : BOOLEAN, missed : BOOLEAN]
Storing   == [op : {"blob"}, by : Callers, at : Samples, claim : {None},
              pair : Pairs, written : BOOLEAN, missed : BOOLEAN]
Setting   == [op : {"status"}, by : Callers, at : Samples, to : Targets, written : {FALSE}]
Work      == Creating \cup Observing \cup Storing \cup Setting

Sweep  == [at : {"sweep"}, narrowed : SUBSET Samples, rows : SUBSET DerivedRows,
           blocked : SUBSET Samples, disturbed : BOOLEAN]
Checks == [at : {"check"}, blocked : SUBSET Samples, disturbed : BOOLEAN]
Told   == [at : {"told"}, blocked : SUBSET Samples, disturbed : BOOLEAN,
           alerts : SUBSET Samples]

\* Every variable keeps its type.
SamplesTypeOK ==
  /\ claims \in [Claims -> Pairs \cup {None}]
  /\ sample \in [Samples -> SampleRows \cup {None}]
  /\ rows \in SUBSET DerivedRows
  /\ open \in [Requests -> Work \cup {None, Done}]
  /\ tick \in Sweep \cup Checks \cup Told \cup {None}
  /\ strays \in SUBSET Samples

ASSUME NoneIsNoRecord == None \notin SampleRows \cup Pairs \cup Sweep

Row(p, pair, status) == [parent |-> p, pair |-> pair, status |-> status]

\* Worlds that earlier requests have left: children of group samples carry
\* their pair.  Links and blobs come with the requests.
Init ==
  /\ claims \in [Claims -> Pairs \cup {None}]
  /\ \E parent \in [1..Old -> 0..Old], pair \in [1..Old -> Pairs] :
       /\ \A s \in 1..Old :
            /\ parent[s] < s
            /\ parent[s] # 0 /\ pair[parent[s]].vis = "group" => pair[s] = pair[parent[s]]
       /\ sample = [s \in Samples |->
            IF s \in 1..Old THEN Row(parent[s], pair[s], "prepared") ELSE None]
  /\ rows   = {}
  /\ open   = [r \in Requests |-> None]
  /\ tick   = None
  /\ strays = {}

-----------------------------------------------------------------------------
\* What handlers and triggers read.
There == {s \in Samples : sample[s] # None}

Readable(W, pair) == pair.vis = "public" \/ pair.owner \in W

\* SampleStatus::can_transition_to
CanTransition(from, to) ==
  \/ from = "prepared" /\ to \in {"in_use", "disposed", "archived"}
  \/ from = "in_use"   /\ to \in {"consumed", "disposed", "archived"}
  \/ from \in {"consumed", "disposed"} /\ to = "archived"

\* root_ownership: a group the caller may write, named or its default one.
RootOwnership(W) == [owner : W, vis : {"public", "group"}]

\* The pairs create_sample may declare for a child of p (0: no parent): a
\* child of a group sample stays in the parent's group.
DeclaredPairs(W, p) ==
  IF p = 0 \/ sample[p].pair.vis = "public" THEN RootOwnership(W)
  ELSE {sample[p].pair} \cap RootOwnership(W)

\* observation_decl: as private as the sample, else public in a group of the
\* caller.
ObservationDecls(W, s) ==
  IF sample[s].pair.vis = "group" THEN {sample[s].pair}
  ELSE {Pair(g, "public") : g \in W}

\* A slip: the trigger trusts the pair the handler declared.
ParentUnchecked(W, p, pair) == p # 0 => Readable(W, sample[p].pair)

\* tenancy_10_require, samples arm: the parent, as committed now, is visible
\* and a child of a group sample carries its pair.
ParentAllows(W, p, pair) ==
  p # 0 => /\ Readable(W, sample[p].pair)
           /\ sample[p].pair.vis = "group" => pair = sample[p].pair

\* tenancy_20_claim_guard on sample_claims, and the same rule in
\* add_observation: a claim that is not public attaches to a group sample of
\* its own group.
ClaimAttaches(W, claim, on) ==
  /\ Readable(W, claim)
  /\ claim.vis = "public" \/ claim = on

\* episcience_sample_is_publishable
Publishable(s) ==
  /\ \A x \in rows : x.on = s /\ x.claim # None => claims[x.claim].vis = "public"
  /\ sample[s].parent # 0 => sample[sample[s].parent].pair.vis = "public"

-----------------------------------------------------------------------------
\* The tick's view: what is committed, with the rows its sweep has narrowed.
Sweeping == tick # None /\ tick.at = "sweep"
Narrowed == IF Sweeping THEN tick.narrowed ELSE {}
SweepPair(s) ==
  IF s \in Narrowed THEN Pair(sample[s].pair.owner, "group") ELSE sample[s].pair

SweepPublishable(s) ==
  /\ \A x \in rows : x.on = s /\ x.claim # None => claims[x.claim].vis = "public"
  /\ sample[s].parent # 0 => SweepPair(sample[s].parent).vis = "public"

\* tenancy_90_propagate: s, and in turn the children that carry their
\* parent's old pair.
Follows(x, L) ==
  /\ sample[x].parent \in L
  /\ SweepPair(x) = SweepPair(sample[x].parent)

Line(s) ==
  {x \in There : \A L \in SUBSET There :
     s \in L /\ (\A y \in There : Follows(y, L) => y \in L) => x \in L}

\* A slip: a child its own claim has narrowed already is taken for foreign.
BlockedByAny(s) ==
  \E x \in There : x \notin Line(s) /\ sample[x].parent \in Line(s)

\* Narrowing s is refused if a child would sit under a narrowed sample in
\* another pair.
Blocked(s) ==
  \E x \in There : /\ x \notin Line(s) /\ sample[x].parent \in Line(s)
                   /\ SweepPair(x) # Pair(sample[sample[x].parent].pair.owner, "group")

\* The derived rows a change of these samples reaches.
Reached(line) == {x \in rows : x.on \in line}

-----------------------------------------------------------------------------
\* The requests.  `at` is the sample (for create the parent) they are about.
Asks(r, req) ==
  /\ open[r] = None
  /\ open' = [open EXCEPT ![r] = req]
  /\ UNCHANGED <<claims, sample, rows, tick, strays>>

Writable(W) == {s \in There : sample[s].pair.owner \in W}

\* POST /samples, and POST /workflow_runs for a public sample with no parent.
AskCreate(r) ==
  \E W \in Callers, p \in {0} \cup There :
    /\ p # 0 => Readable(W, sample[p].pair)
    /\ \E pair \in DeclaredPairs(W, p) :
         Asks(r, [op |-> "create", by |-> W, at |-> p, pair |-> pair,
                  written |-> FALSE, missed |-> FALSE])

\* POST /samples/:id/observations and the MCP tool add_observation.  The
\* kernel keeps one claim per content, whoever wrote it.
AskObserve(r) ==
  \E W \in Callers, s \in There, c \in Claims :
    /\ s \in Writable(W)
    /\ \E decl \in ObservationDecls(W, s) :
         Asks(r, [op |-> "observe", by |-> W, at |-> s, claim |-> c, claimPair |-> decl,
                  pair |-> sample[s].pair, written |-> FALSE, missed |-> FALSE])

\* An upload to a sample: blob_ownership declares the sample's pair.
AskBlob(r) ==
  \E W \in Callers, s \in There :
    /\ s \in Writable(W)
    /\ Asks(r, [op |-> "blob", by |-> W, at |-> s, claim |-> None,
                pair |-> sample[s].pair, written |-> FALSE, missed |-> FALSE])

\* PATCH /samples/:id/status: the handler judges the status it has read.
AskStatus(r) ==
  \E W \in Callers, s \in There, to \in Targets :
    /\ s \in Writable(W) /\ CanTransition(sample[s].status, to)
    /\ Asks(r, [op |-> "status", by |-> W, at |-> s, to |-> to, written |-> FALSE])

Ends(r) == open' = [open EXCEPT ![r] = Done]

AtWork(r) == open[r] \notin {None, Done}

\* A statement refused, a check failed or the connection lost: nothing stays.
Drop(r) ==
  /\ AtWork(r)
  /\ Ends(r)
  /\ UNCHANGED <<claims, sample, rows, tick, strays>>

\* The insert has run as req; a narrowing that is not committed was not seen.
Writes(r, req) ==
  open' = [open EXCEPT ![r] = [req EXCEPT !.written = TRUE, !.missed = @ \/ req.at \in Narrowed]]

\* SampleRepository::create
WriteSample(r) ==
  /\ AtWork(r) /\ open[r].op = "create" /\ ~open[r].written
  /\ ParentAllows(open[r].by, open[r].at, open[r].pair)
  /\ Writes(r, open[r])
  /\ UNCHANGED <<claims, sample, rows, tick, strays>>

\* A slip: the row keeps the pair the handler declared.
PairDeclared(r) == open[r].pair

\* tenancy_10_inherit: the sample's pair, as committed now.
PairInherited(r) == sample[open[r].at].pair

\* add_observation: the claim is written, or found, and linked.
WriteObservation(r) ==
  /\ AtWork(r) /\ open[r].op = "observe" /\ ~open[r].written
  /\ LET c    == open[r].claim
         pair == IF claims[c] = None THEN open[r].claimPair ELSE claims[c]
     IN  /\ \A q \in Requests : \* the kernel's unique content: one writer at a time
              AtWork(q) /\ open[q].op = "observe" /\ open[q].written => open[q].claim # c
         /\ ClaimAttaches(open[r].by, pair, PairInherited(r))
         /\ Writes(r, [open[r] EXCEPT !.claimPair = pair, !.pair = PairInherited(r)])
  /\ UNCHANGED <<claims, sample, rows, tick, strays>>

WriteBlob(r) ==
  /\ AtWork(r) /\ open[r].op = "blob" /\ ~open[r].written
  /\ Writes(r, [open[r] EXCEPT !.pair = PairInherited(r)])
  /\ UNCHANGED <<claims, sample, rows, tick, strays>>

\* Something committed while a tick is at work.
Disturbs == tick' = IF tick = None THEN None ELSE [tick EXCEPT !.disturbed = TRUE]

CommitSample(r) ==
  /\ AtWork(r) /\ open[r].op = "create" /\ open[r].written
  /\ \E s \in Samples \ There :
         /\ \A t \in Samples : t < s => t \in There
         /\ sample' = [sample EXCEPT ![s] = Row(open[r].at, open[r].pair, "prepared")]
         /\ strays' = IF open[r].missed THEN strays \cup {s} ELSE strays
  /\ Ends(r) /\ Disturbs
  /\ UNCHANGED <<claims, rows>>

\* The link is kept once per claim (ON CONFLICT DO NOTHING).
CommitRow(r) ==
  /\ AtWork(r) /\ open[r].op \in {"observe", "blob"} /\ open[r].written
  /\ LET row == [on |-> open[r].at, claim |-> open[r].claim, pair |-> open[r].pair,
                 missed |-> open[r].missed]
         linked == \E x \in rows : x.on = row.on /\ x.claim = row.claim /\ row.claim # None
     IN  rows' = IF linked THEN rows ELSE rows \cup {row}
  /\ claims' = IF open[r].op = "observe" /\ claims[open[r].claim] = None
               THEN [claims EXCEPT ![open[r].claim] = open[r].claimPair] ELSE claims
  /\ Ends(r) /\ Disturbs
  /\ UNCHANGED <<sample, strays>>

\* update_status_as: the row is not compared with the status that was judged.
\* It waits for a sweep that has narrowed the row.
SetStatus(r) ==
  /\ AtWork(r) /\ open[r].op = "status"
  /\ open[r].at \notin Narrowed
  /\ sample' = [sample EXCEPT ![open[r].at].status = open[r].to]
  /\ Ends(r)
  /\ UNCHANGED <<claims, rows, tick, strays>>

\* The kernel changes who may read a claim.
ClaimTurns(c) ==
  /\ claims[c] # None
  /\ \E v \in {"public", "group"} \ {claims[c].vis} : claims' = [claims EXCEPT ![c].vis = v]
  /\ Disturbs
  /\ UNCHANGED <<sample, rows, open, strays>>

-----------------------------------------------------------------------------
\* The maintenance tick: the sweep, then the check for rows it left public.
TickStarts ==
  /\ tick = None
  /\ tick' = [at |-> "sweep", narrowed |-> {}, rows |-> {}, blocked |-> {}, disturbed |-> FALSE]
  /\ UNCHANGED <<claims, sample, rows, open, strays>>

Candidates == {s \in There \ tick.blocked : SweepPair(s).vis = "public" /\ ~SweepPublishable(s)}

\* One row, in a sub-transaction of its own: a refusal is noted and the sweep
\* goes on.  Rows that are not committed yet are not seen.
TryNarrow(s) ==
  /\ Sweeping /\ s \in Candidates
  /\ IF Blocked(s)
     THEN /\ tick' = [tick EXCEPT !.blocked = @ \cup {s}]
          /\ UNCHANGED open
     ELSE /\ tick' = [tick EXCEPT !.narrowed = @ \cup Line(s),
                                  !.rows = @ \cup Reached(Line(s))]
          /\ open' = [r \in Requests |->
               IF AtWork(r) /\ open[r].written /\ open[r].at \in Line(s)
               THEN [open[r] EXCEPT !.missed = TRUE] ELSE open[r]]
  /\ UNCHANGED <<claims, sample, rows, strays>>

\* The loop ends with a pass that narrows nothing, and the call commits.  What
\* others commit behind that pass is left for the next tick.
SweepCommits ==
  /\ Sweeping
  /\ Candidates = {} \/ tick.disturbed
  /\ sample' = [s \in Samples |->
       IF s \in tick.narrowed THEN [sample[s] EXCEPT !.pair = SweepPair(s)] ELSE sample[s]]
  /\ rows' = {IF x \in tick.rows THEN [x EXCEPT !.pair = SweepPair(x.on)] ELSE x : x \in rows}
  /\ tick' = [at |-> "check", blocked |-> tick.blocked, disturbed |-> tick.disturbed]
  /\ UNCHANGED <<claims, open, strays>>

\* episcience_maint_unpublishable_public, and the exit code it decides.
TickChecks ==
  /\ tick # None /\ tick.at = "check"
  /\ tick' = [at |-> "told", blocked |-> tick.blocked, disturbed |-> tick.disturbed,
              alerts |-> {s \in There : sample[s].pair.vis = "public" /\ ~Publishable(s)}]
  /\ UNCHANGED <<claims, sample, rows, open, strays>>

\* The process exits, or loses its connection and its open transaction.
TickEnds ==
  /\ tick # None
  /\ tick' = None
  /\ UNCHANGED <<claims, sample, rows, open, strays>>

Next ==
  \/ \E r \in Requests :
       \/ AskCreate(r) \/ AskObserve(r) \/ AskBlob(r) \/ AskStatus(r)
       \/ WriteSample(r) \/ WriteObservation(r) \/ WriteBlob(r) \/ SetStatus(r)
       \/ CommitSample(r) \/ CommitRow(r) \/ Drop(r)
  \/ \E c \in Claims : ClaimTurns(c)
  \/ \E s \in Samples : TryNarrow(s)
  \/ TickStarts \/ SweepCommits \/ TickChecks \/ TickEnds

Spec == Init /\ [][Next]_vars

-----------------------------------------------------------------------------
\* The sample and its children never drift apart: a child of a group sample
\* carries its parent's pair, so nobody reads a part of what they may not
\* read.  The one gap is a child inserted while the narrowing of its parent
\* was not committed: the trigger saw the parent public and the propagation
\* did not see the child (5035:371-385, 840-866).
ChildrenOfGroupFollow ==
  \A s \in There \ strays :
    LET p == sample[s].parent
    IN  p # 0 /\ sample[p].pair.vis = "group" => sample[s].pair = sample[p].pair

\* The links and blobs of a sample carry its pair, whatever the handler read
\* before it wrote them, with the same gap (5035:447-462, 806-838).
DerivedFollowSample ==
  \A x \in rows : x.missed \/ x.pair = sample[x.on].pair

\* A sample of another owner below s, under those that carry its pair.
Foreign(s) ==
  \E x \in There : /\ x \notin Line(s) /\ sample[x].parent \in Line(s)
                   /\ sample[x].pair.owner # sample[s].pair.owner

\* The tick's alert is exact: unless something committed in between, the rows
\* it names are the rows the sweep refused, and each of those really has a
\* sample of another group below it (5037:480-511, 5039:35-49).
AlertsAreTheBlocked ==
  tick # None /\ tick.at = "told" /\ ~tick.disturbed =>
    /\ tick.alerts = tick.blocked
    /\ \A s \in tick.alerts : Foreign(s)
=============================================================================
