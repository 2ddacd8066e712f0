# Episcience in TLA+

Episcience turns claims of an epistemic knowledge base (the *kernel*) into
written syntheses. A user asks for a synthesis, a worker process recalls claims,
clusters them, has a language model narrate and check them, and publishes the
result together with provenance edges in the kernel. Around this core are
samples, protocols, countersignatures and a tenancy layer that decides who may
read what. The program is a set of Rust crates over one PostgreSQL database that
it shares with the kernel. The database carries much of the logic: queue
definers, guard triggers, propagation triggers and row security.

This directory holds TLA+ modules of the parts where processes, transactions and
users interleave, TLC configurations that check them on small instances, and
TLAPS proofs of the properties that matter most. `PROJECT.json` maps every
definition to the source lines it models and lists the runs, the mutants, the
hazards, the findings and the theorems. All paths below are relative to `src/`.

- [Inventory](#inventory)
- [Modules and the code they model](#modules-and-the-code-they-model)
- [Runs, bounds and what they show](#runs-bounds-and-what-they-show)
- [Fairness](#fairness)
- [Proofs](#proofs)
- [Findings and observations](#findings-and-observations)
- [What is only model-checked, what is not modelled](#what-is-only-model-checked-what-is-not-modelled)
- [Plan](#plan)
- [How to run](#how-to-run)

## Inventory

### The parts and how they interact

    users --HTTP / MCP--> episcience-api ----+
                                             |  syntheses row + job row,
                                             v  one transaction
      synthesis_jobs <--claim/finish/retry-- episcience-worker (1..n processes)
            |                                |        |
            |                     run_once --+        +-- run_worklist (timer)
            v                                v                 v
      syntheses, membership, clusters,   stages 0..10e     stage6_pending, stale
      summaries, narrative, provo_edges <----+-----------------+
            ^                                                  |
            |  guard, propagation, publish triggers            v
      claims (kernel; visibility changes out of band)   edges (kernel)
            ^
            +-- episcience_maint_sweep_narrowed (maintenance timer)

Everything is shared through the database. Queue definers are single statements
that run with the definer's rights. The stages of a job run as the principal
that asked for it, in READ COMMITTED transactions under row security. Nothing
else connects the processes: no leases, no leader, no heartbeat.

| component | state it keeps | operations | hard behaviour | what makes it correct |
|---|---|---|---|---|
| job queue | `synthesis_jobs`: state, attempts, scheduled_at | enqueue, claim, finish, retry, operator repair | concurrent claims, calls repeated after a lost reply, no lease expiry | one runner, bounded attempts, ends are final, no job lost |
| worker loop | the job in hand, tries of the current call | `run_once`, `queue_call`, `retry_or_fail`, stop | crash at any point, transient failures, lost replies | implements the abstract lease; every job ends or is visibly stranded |
| synthesis handler | `syntheses.status` and the rows of each stage | ten stage transactions, failure path, reject and refine, creation, deletion | user deletes between stages, authority revoked between stages, retries over an earlier attempt's rows | nothing after delete, one attempt's work per completion, one child per rejection, row and job agree |
| stage-6 outbox | `synthesis_provo_edges`: planned, deferred, written; attempt_count | plan, discard, gate, defer, write, complete; worklist retry | statement-level visibility changes, hidden rows, replanning, refused edges | edges only for public and cited, none lost, none taken back, none stuck |
| owner worklist | backoff records in the worker's memory | one period: ask, attempt, hold back | permanently failing items, a limited answer | no item starves |
| tenancy of syntheses | visibility, derived rows' visibility, membership | insert/attach/status/widen guards, propagation, sweep | write skew between open transactions, claims turning out of band | no public row with private inputs after the sweep, derived rows follow their parent |
| samples, observations | sample trees with owner pairs, sample status, links and blobs on a sample | create, observe, upload, change status; sweep and alert | a narrowing meets inserts that are not committed; refusals deep in a tree | no child drifts from a group parent, derived rows carry the sample's pair, the alert names the refused rows |
| countersignatures | rows chained by hashes, per claim | append, verify, backfill | concurrent writers blind to each other's rows, older rows without a hash, clock order | the chain is the order of the commits, no link dangles, a refused writer is refused for a time only |
| blob store | content-addressed files, temporary files, `blobs` rows | store, read, verify | uploads of one content share two paths; dropped requests leave files | a committed row has a file; only a cut write tears one |
| LLM stages | what a pipeline has read, cost and retries | recall, traverse, cluster, narrate, compose, verify | malformed answers, budget boundary | budget and retries bounded, only the composer's own text is rejected |
| claude CLI client | child process, pipes, timer | spawn, feed, collect, kill | a classifier's stop behind an answer | a stop is neither retried nor taken for an answer |
| clustering, traversal, verifier | none (pure) | move, split, merge, walk, judge | ties, boundaries, termination | partition, cap, exact neighbourhood |
| skills | none | configuration, prompts | - | - |
| novelty, staleness | similarity and belief readings | search, recheck | stale reads | a stale row is marked |
| protocols | versions | create, supersede | two versions at once | versions are a chain |
| wiki, notebook, search, export | none | read | - | - |
| authentication, MCP | session settings | stamp, check scope | - | scope before effect |
| migration ledger, boot | applied migrations and checksums, advisory lock | run, adopt, verify, undo, boot | reads before the lock, scripts that take none, crash half-way | built on known histories only, owned after the contract, boots on a whole schema |
| catalog model | policies, grants, definers, flags, guards | render, compare | edits by hand | what verify accepts admits exactly the entitled |
| maintenance commands | manifests of the re-own | backfill, reverse, tick | reverse after other writes, undo in between | a reverse restores, no more and no less |
| row security | about ninety policies | - | policy gaps | what a session may see |

`PROJECT.json` `components` lists the same parts with their sources, their status
and the reason where a part is not modelled. Its `hazards` list is the
working list of what is hard to test in this code, each at its line with the
properties that would catch it, or with the reason why none does yet.

## Modules and the code they model

    JobQueue <-EXTENDS- Worker <-EXTENDS- WorkerLease ==INSTANCE==> JobLease
                          ^
                          +---EXTENDS- SynthesisJob   (StagesAreAHandler: Worker!Spec)
    Outbox        one synthesis, stage 6 seen statement by statement
    Worklist      the timer that calls Outbox's worklist transaction
    Tenancy       several syntheses, their guards and the sweep
    Samples       sample trees, their rows, the sweep and its alert
    Countersign   the countersignatures of one claim and their hash chain
    Blobs         uploads of one content and the two paths they share

    Seeding <-EXTENDS- Clustering <-EXTENDS- Pipeline -EXTENDS-> ModelReply
    Catalog <-EXTENDS- Ledger -EXTENDS-> Reown

`Pipeline` is what `SynthesisJob` sees as stages that succeed or fail; `Blobs` says
how a blob's row gets its file, `Samples` whose row it is; `Ledger` says when the
tables, guards and policies the others rely on are there.

### JobQueue, Worker: `jobs/worker.rs`, migration 5037, `repos/synthesis_jobs.rs`

`JobQueue` is the table. Each queue definer is one statement, so it is one
action: `Enqueue` (`ON CONFLICT DO NOTHING`), `QueueClaim`, `QueueFinish`,
`QueueRetry`, and the operator's hand repair `OperatorPutsBack`, which no code
does but which `docs/tenancy-contract.md` prescribes. `scheduled_at` is one bit
(`due`): the definer takes the earliest due row, SKIP LOCKED lets it pass over a
locked one, and no property distinguishes the order.

`Worker` adds any number of worker processes. `pc` follows `run_once`: idle,
claimed, running (the handler), finish or retry (the reporting call). `tries`
counts `queue_call`'s repeated calls. Two faults need care. A call may fail with
nothing done, or (`LoseReplies`) fail after it was committed, which is what a
connection that dies before the reply looks like; `ClaimReplyLost` is the same
for the claim. A worker may crash with a job in hand or stop between jobs. What
`authorize` and the payload check decide is left open (`Refuse`,
`AuthorizeTransient`), because nothing in the queue depends on it.

`JobLease` is the abstract specification: a job is held by at most one worker,
only its holder lets it go, it ends once, it is taken at most `allowed` times,
and it is stranded when its holder dies, until an operator puts it back.
`WorkerLease` gives the refinement mapping; a job is `stranded` when the table
says `running` and no worker holds it.

### SynthesisJob: `jobs/synthesis_job.rs`, `jobs/session.rs`, `repos/synthesis.rs`

The handler replaces Worker's one-step handler by its stage transactions. `After`
is their order, `OnError` where an error of each leads, `Effect` what each
commits. `MayWrite` is the liveness check: stages after 9b hold the live row
(`begin_live`) or name live rows in their UPDATE (`mark_running`,
`record_llm_usage`); the early stages look at nothing but the authority. What a
stage writes is abstracted to the attempt that wrote it (`made`), which is
exactly what is needed to say that a completed synthesis is one attempt's work.
`StageFails` covers every error of a model, the database or the engine;
`LoseCommits` lets the commit go through unseen. `EdgeRefused` commits the edges
written before the refused one. `SpawnChild` is reject-and-refine below the
ceiling: row, annealed temperature and job in one transaction. `EventOf` leaves
open whether an event is public enough to be published, but never for a deleted
row.

### Outbox: `synthesis/publish.rs`, `repos/synthesis_provo_edges.rs`

One synthesis, several attempts. The writing transaction of stage 6 runs at READ
COMMITTED, so its statements are separate steps: discard what no cluster cites,
ask whether the synthesis is publishable, list, then defer or write, then
complete. `buf` holds the uncommitted effects. Between any two steps `World` may turn a claim's
visibility, narrow or widen the synthesis, or sweep it; `turned` remembers what
turned while the transaction was open, so that the properties can say exactly
which races they except. Row security decides what each statement sees (`Sees`).

Abstractions: one writer at a time, because the job and the worklist run in the
same process and a synthesis has one runner (`OneRunner`); parent and
prerequisites are one bit (`inputs`); the list and the loop over it are one step
in `Defer` and `WriteAll`, so a row that becomes visible between the list and the count
of what is left (which fails the stage and commits the edges written) is not seen; the
row lock of the live row is `Locked`; authority is abstracted (it is in SynthesisJob).

### Worklist: `run_worklist`, `WorklistBackoff` and `episcience_owner_worklist`

One period asks the definer for each kind's due items, drops the held ones,
attempts at most `Limit` and records skips and successes in the backoff, which
stores how long an item is held and for how long it is remembered. Times are
kept relative to the current period, so the state is finite although the code
counts periods for ever. Users make items due, take them off the list, break and
mend them at any time; breaking is bounded by `MaxBroken` because the code
accepts a capacity (see below).

### Tenancy: migrations 5035 and 5037 with their callers

Several syntheses that build on one another, and the claims they cite. Any
operation may run at once, and one transaction at a time may stay open (`tx`)
while others begin and commit: the triggers judge what is committed when their
statement runs, the effect appears at commit. `Waits` says which operations queue
behind the open transaction's row locks; stage 2 holds the synthesis row (it
updates it), stage 3 does not. `Refused` is the propagation's row count check
against a concurrent replacement.

Abstractions: one owner group, so a pair is a visibility; two of the six derived
tables, `membership` (replaced while the row is held) and `clusters` (replaced
while it is not), stand for the others; one open transaction at a time, hence
races of two transactions but not of three; the sweep is one step, the fixpoint
of its passes, although its passes are statements of one transaction.

### Countersign: `repos/countersign.rs`, migrations 5035, 5037, 5038, `countersign_links.rs`

One claim. A writer's request is three steps: `Check` (read the claim, verify the
signature, fix the row's pair), `ReadHead` (the volatile definer takes the claim's
advisory lock and then sees every commit, hidden rows included) and `Record` (insert
under the claim guard, commit, release the lock). `GivesUp` stands for every refusal
or error before the commit. Between the steps the claim's visibility turns, the
operator's `Backfill` fills missing hashes, and the wall clock may step back. Rows of
older binaries exist in `Init` only: they lack the hash the next row chains on and
were stamped when their transaction began, so their order is any.

Abstractions: a signature stands for its hash and always verifies; the same
signature may be recorded by two principals, which the unique key allows; ids do not
order rows; members read and write; two appends are never stamped alike, because the
first commits before the lock lets the second be stamped.

### Samples: `routes/samples.rs`, `repos/sample.rs`, migrations 5035, 5037, 5039

A request is three steps. `Ask...` is what the handler reads and checks, `Write...`
the insert, whose triggers read what is committed at that moment, `Commit...` the
commit; `AskStatus` and `SetStatus` are the read and the UPDATE of a status change.
The sweep is a transaction of its own: `TryNarrow` narrows one sample in a
sub-transaction, with the `Line` of descendants that carry their parent's old pair,
or is refused when a child in another pair would remain under a group sample
(`Blocked`); `SweepCommits` makes it visible. `TickChecks` is the alert query of 5039.
`missed` and `strays` mark the rows that were inserted while a narrowing of their
sample was open, which neither the trigger nor the propagation could see.

Abstractions: claims are contents, one kernel claim per content; a caller is the set
of groups it may write; one tick at a time (the timer does not overlap itself); link
ids and protocols are left out. `link_claim` has no caller and no action.

### Blobs: `repos/blob.rs`

`store` call by call: `OpenTmp` (create_new, or go on when the file is there),
`WriteAll`, `Insert` with its nested transaction, `Place` (the exists check), `Rename`,
and the route's `Commit`. A file is named by the upload that created it; `tmp` and
`final` say which file each path names, `whole` which files hold all their bytes. `Drop` is a request whose connection ends,
`WriteFails` and `BeginFails` are the error paths. A crash of the process is a drop of
every upload.

### Seeding, Clustering, ModelReply, Pipeline: `synthesis/pipeline.rs` and what it calls

`Pipeline` runs stages 1 to 6 once: recall or theme and MMR seeds (`PickSeed`), the
seed filter, the breadth-first walk one claim a step (`VisitFrontier`), the snapshot,
Louvain one node a step (`VisitNode`, `NextPass`), `SeparateOnContradicts`,
`MergeSmallest`, a narration per cluster, the composition and the rubric. A model call
takes any member of `Replies`, all the ways a `claude -p` call can end, through `Parse`
and `Outcome`. A world fixes what the stages read. The deployed job passes no edges to
stage 3 (`synthesis_job.rs` gives it an empty list), so the worlds with edges check the
functions, not the deployment.

Abstractions: similarities are percentages and Louvain's weights are scaled to whole
numbers; self-loops and float rounding are left out; a text is the
claims it cites; the process behind `claude -p` is one step.

### Catalog, Reown, Ledger: `ledger.rs`, `catalog.rs`, `maint.rs`, migrations 5032 to 5042, `docs/runbooks`

`Ledger` has the sessions of `episcience-migrate` (run, run to a version, adopt, verify)
with their reads before sqlx's lock and their steps under it; each migration is one
transaction that decides under its locks. A script of the runbooks is two steps: it first
looks whether it may run (`Undo5042` to `RowSecurityOn`, the DO block at its head) and
changes the catalog and the ledger later, at its commit (`ScriptCommits`), or not at all
(`ScriptFails`); it takes none of sqlx's locks. A server boots by separate
probes. `boot` remembers whether the process connected behind the back of a script that
had looked already.

`Reown` gives the rows the backfill, its reverse, the contract's data step and the writers
of both binaries change. A derived row stands for the clusters: stage 3 inserts them in a
transaction of its own that does not hold the synthesis (`DerivedBegins`, `DerivedEnds`),
so the trigger reads the pair the synthesis has committed, and a narrowing carries to
committed rows only. `drafts` are the rows inserted and not committed, `raced` marks the
syntheses that were narrowed meanwhile.

`Catalog` says what the migrations install, what `verify` reports, and, independently of
policies, who is `Entitled` to what. The parts of a verification are read one after
another (`CheckAfter`, `FindingsOf`) and the catalog may change in between; `stirred`
marks the sessions that happened to. `CatalogValues` is every catalog that may be read,
over the constant `Names`: what functions, roles, policies and the arms of an expression
may be called. Migrations and scripts grant to and revoke from the roles they name
(`OnGrants`, `OffGrants`), so that a grant made by hand to another role survives them.

Abstractions: table classes instead of tables, policy shapes instead of SQL text; the
kernel's ledger is one bit; a checksum is right or wrong; each of the seven checks of
`catalog::findings` is one step, although two of them, the grants' and the sentinels',
make several queries; the operator runs one script at a time; a derived row is inserted
once, its replacement by a later attempt is in Tenancy.

## Runs, bounds and what they show

Every passing run is exhaustive within its bounds. Each property has a mutant of a
mapped definition that its run must refute: a dropped lock, a missing guard, an
off-by-one, a swapped order.

| run | bounds | shows |
|---|---|---|
| `worker_safe` | 2 workers, 2 jobs, 2 attempts, 2 tries per call, 3 faults, 1 repair per job | one runner, the lease (with its bound on attempts) is implemented, every waiting job ends or is stranded |
| `synthesis_safe` | 3 ids (one root and room for two children), 2 workers, 2 attempts, 1 fault, 1 deletion, ceiling 1, events published | completion is one attempt's work, one child per rejection, row and job agree, nothing after delete |
| `synthesis_faults` | 2 ids, 1 worker, 1 attempt, 2 tries per call, 2 faults, lost commits and lost replies, 1 repair per job, 1 deletion, 1 change of authority | what is completed is still whole, success is never told of an unfinished synthesis, the attempt bound survives repeated calls, every synthesis, children included, reaches an end or a visible job end |
| `outbox_safe` | 3 claims (own, readable, foreign), one refused edge, 2 attempts, 3 visibility changes, cap 2, 1 aborted worklist item | edges are justified, provenance is complete, public completion publishes, released rows are written |
| `worklist` | 3 items, 1 slot per kind, longest hold 2, 2 failing items, 1 upset | no due item starves |
| `tenancy` | 3 syntheses, 2 claims, 5 operations, sweep unbounded | guards and sweep keep private inputs out of public rows up to the races named, exposure ends |
| `samples` | 2 groups with a caller each, 1 claim, 3 samples of which 2 are there from the start in every lawful tree and pair, 2 requests, any number of ticks and of turns of the claim | lineage and derived rows keep to the sample's pair but for the inserts a narrowing could not see; the alert is exact |
| `countersign` | a member and an outsider, 2 signatures, up to 2 older rows, 3 rows, 1 turn of the claim, 1 step of the clock back | the chain is the order of the commits, its links resolve, a lockout ends with the next link |
| `blobs` | 4 uploads of one content, 2 of them cut | a committed row has a file; a torn file is the fault of its own writer |
| `blobs_torn` (violation) | 2 uploads, 1 of them cut | the half-written file of one upload becomes the file of the other one's committed row |
| `pipeline` | 5 claims, 2 seeds, 2 clusters, 1 retry, 3 pieces of text, every budget up to one more than the retries can spend | traversal exact, conflicts halved, clusters a partition, calls accounted, stops terminal, only the composer rejected, the pass ends |
| `ledger` | four kinds of database, see below | runs build on known histories only, owned after the contract but for derived rows raced, a reverse restores, verified means tenant unless the catalog changed meanwhile, boots on a whole schema unless overtaken by a script that had looked before |

Why the bounds are enough. Two workers and two jobs give every pair of actors;
two attempts and two tries put both the first and the last try on either side of
their limit; three faults allow a crash during the second attempt after a failed
call. A third id in `synthesis_safe` is needed for a wrong second child to exist. The
ceiling is 1 instead of 3, so one generation is below it and one at it.
Changes of authority are left to `synthesis_faults`: for safety they add nothing,
because `StageRefused` may refuse any transaction at any time anyway. There a single
worker is enough, because what is lost concerns one job's calls, and necessary,
because two runners of a job, which lost replies allow, would share an attempt number;
one attempt makes the first try also the last. In
`outbox_safe` the three claims are the three kinds the row policies distinguish,
and three changes allow narrowing, widening and narrowing again while a
transaction is open. `Worklist`: the definer's maximum is `Limit * (MaxHold + 1)`,
room for all the items that can be on hold, as 1000 is in the code for a limit of 50
under normal load; two failing items can fill the single slot in turn, and one upset
may come in any state (the invariant also holds with two, over three million
states). `Tenancy`: a chain of three is the shortest one that
one sweep pass does not finish; five operations suffice to build it and turn its
root, and also to build one synthesis and race two transactions. `Countersign`: one
writer that sees everything and one that does not are the two kinds there are; two older
rows can disagree with their stamps; with four rows the properties also hold (ten
million states), and the proofs need no bound. `samples`: two samples give every parent
and child pair in every combination of groups, the third is the child a request adds;
one request writes or links and one races it, and nothing else is bounded. `blobs`: two uploads race for both paths
while two more meet what these leave; the proofs need no bound. `pipeline`: five claims
leave one that a seed reaches in two hops and another seed in one; the graphs are over
four claims, every one with an edge a pair and those of three with edges both ways; two clusters
make merging happen. `ledger`: each kind of database has the steps
that matter to it, because their product is out of reach: `Deploys` (two overlapping
sessions on an empty, a legacy and a drifted database), `Reowns` (two legacy rows of
every kind with two backfills or reverses, two writes and two undos; the same with one
derived row inserted beside a backfill, a write, a contract and its undo; and two derived
rows inserted beside two writes and narrowings, with the contract undone and applied
again), `Boots` (a boot, a run and three scripts from three versions on) and `ByHand` (a
migrated database and every single hand edit of its catalog, verified while two scripts
may change it).

Symmetry is used in runs without liveness only: over jobs and workers in
`synthesis_safe`, over signatures in `countersign`, over uploads in `blobs`, over
requests and groups in `samples`, over sessions in `ledger`. Deadlock is checked in `worklist`, `countersign`,
`tenancy` and `pipeline`. The other configurations say `CHECK_DEADLOCK FALSE`, because
there the system really may come to rest: all jobs ended or stranded, all uploads done,
or every step of a budget taken.

## Fairness

- Worker: weak fairness of a worker's own steps (`run_until` never waits on
  anything but the job in hand; the model client has a timeout, and database calls
  are assumed to return, with an error if need be), of its restart (the service manager), and of the retry delay (a timestamp passes).
  Nothing is assumed of operators: a stranded job may stay stranded, which is why the
  liveness properties name it as an outcome. Nothing is assumed of claiming a
  *particular* job; with finitely many claims per job none is needed.
- SynthesisJob: the same for the stage steps. Users, revocations and crashes are
  never fair.
- Outbox: weak fairness of the writing steps together: the worklist runs every
  period and each of its transactions ends. The job's own retries are not
  assumed.
- Worklist: weak fairness of the period. Only the period, never the success of
  an item.
- Countersign, Samples, Blobs, Ledger: none; their properties are safety.
- Pipeline: weak fairness of its next step. One task runs it, each of its awaits ends
  (the model call has a timeout), and `PassEnds` asks what the loops do with that.
- Tenancy: an open transaction ends (commits or rolls back, the scheduler chooses),
  and the maintenance timer runs the sweep again and again.

## Proofs

The proofs hold for all finite or infinite sets of jobs, workers, claims, writers,
signatures, samples, syntheses, uploads, legacy rows and migrating sessions and for all
limits, under the named ASSUMEs of the modules (limits are positive naturals, `NoJob` is
not a job, `Agent` is not a claim, own claims are readable, members are writers, `None` is
not a row, the database a deploy starts from is one of this history, the worlds of the
pipeline speak of claims and their limits are naturals).
They need no bound: the counters of the bounds are variables like any other.

Three hypotheses stand in the theorems' own statements, because the properties need them:

- `~LoseReplies` (`OneRunnerHolds`, `LeaseIsKept`, `SynthesisKeepsLease`): with two workers
  and a lost reply the queue really does hand a job out twice.
- `OneHolder`, "no reply is lost, or there is one worker" (the theorems on completions and
  success). The first case covers any number of workers, the second the single
  `episcience-worker.service` that `docs/deploy.md` installs.
- `~LoseCommits` (`JobAndRowAgree`, `OneChildPerRejection`): a `publish` that committed
  unseen is retried and fails on a row that is complete, and TLC shows it.

| theorem | module | argument |
|---|---|---|
| `TypeCorrect` | SynthesisJob_proofs | inductive; `MayTryAgain` keeps `tries` below the limit |
| `AttemptsAreBounded` | SynthesisJob_proofs | see below; also with lost replies |
| `EndedJobsStay` | SynthesisJob_proofs | the claim takes waiting rows, finish and retry running ones; also with lost replies |
| `OneRunnerHolds` | SynthesisJob_proofs | assumes `~LoseReplies`; inductive with the type invariant and `BusyHasJob` |
| `LeaseIsKept` | SynthesisJob_proofs | refinement: one lemma per kind of step (claiming, letting go, submitting, putting back, stuttering); assumes `~LoseReplies` |
| `StagesRefineWorker` | SynthesisJob_proofs | each stage step is a return of the handler, an enqueue of a child, or a stutter |
| `SynthesisAttemptsBounded`, `SynthesisOneRunner`, `SynthesisKeepsLease` | SynthesisJob_proofs | carried over by the refinement |
| `SynTypeCorrect` | SynthesisJob_proofs | inductive; bounds the chain of automatic refinements by the ceiling, for every ceiling |
| `EndedRowsStay`, `DeletedRowsGetNothing` | SynthesisJob_proofs | action properties from `RowShape`: which rows a stage's transaction writes |
| `SuccessIsTrue` | SynthesisJob_proofs | assumes `OneHolder`; from `SuccessInv` |
| `CompletedInOnePiece` | SynthesisJob_proofs | assumes `OneHolder`; from `WholeInv` |
| `JobAndRowAgree` | SynthesisJob_proofs | assumes `OneHolder` and `~LoseCommits`; from `SuccessInv` and `FailureInv` |
| `OneChildPerRejection` | SynthesisJob_proofs | the same assumptions; from `ChildInv` on top of `FailureInv` |
| `OutboxTypeCorrect` | Outbox_proofs | inductive, with the row lock as a conjunct |
| `ProvenanceIsKept`, `WrittenRowsStay` | Outbox_proofs | from `RowsInv` |
| `EdgesAreAlwaysJustified` | Outbox_proofs | from `RowsInv` and `WriteInv` |
| `CompletionIsPublished` | Outbox_proofs | from `RowsInv` and `PublishInv` |
| `CountersignTypeCorrect` | Countersign_proofs | inductive; the lock's holder is the linked writer |
| `ChainOrderHolds`, `LinksStayWhole`, `LockoutsEnd` | Countersign_proofs | from `IInv`: stamps, links, chain and the drafts in hand |
| `SamplesTypeCorrect`, `LineageStaysTogether`, `DerivedRowsFollow` | Samples_proofs | from `SamplesInv`, one lemma per kind of step |
| `AlertsAreExact` | Samples_proofs | from `AlertInv` and lemmas on the lines a sweep narrows |
| `TenancyTypeCorrect`, `DerivedRowsAgree`, `OnlyLaterTurnsExpose` | Tenancy_proofs | from `TenancyInv`: what the open transaction has read still holds, or is marked |
| `SweepIsThorough` | Tenancy_proofs | from the definition of a sweep as the least set its passes add nothing to (`SweptIsSwept`) |
| `LedgerTypeCorrect`, `ContractKeepsOwners` | Ledger_proofs | inductive together, from `OwnedInv`: the contract's refusals make its rows whole, and no writer or script unmakes them; a derived row raced by a narrowing may stay public |
| `KnownHistory` | Ledger_proofs | from `HistoryInv` |
| `WholeSchemaServes` | Ledger_proofs | from `BootInv`; excepts a process that e1f-undo.sql had not seen and has overtaken |
| `ReverseIsExact` | Ledger_proofs | from `RestoreInv` |
| `VerifiedCatalogIsTenant` | Ledger_proofs | from `VerifyInv`; a catalog without findings is the installed one (`CleanCatalog`); its policies, a class of tables at a time, admit the entitled (`AdmitsWhoIsEntitled`) |
| `StoredClustersPartition`, `CallsAddUp`, `ComposerAloneIsRejected` | Pipeline_proofs | from `PassInv`, a conjunct for each, and lemmas on what splits, merges and orders clusters |
| `SnapshotsAreExact` | Pipeline_proofs | from `TraversalInv`: every claim visited has the hop it was met at (`LevelledIsNear`) |
| `SplitsHalveConflicts` | Pipeline_proofs | `GreedyHalves`: each claim adds to its side at most half the contradictions it has with those before it |
| `StopsEndThePass` | Pipeline_proofs | from what every reply that shows a stop is parsed to (`ShownStopIsAStop`) |
| `BlobsTypeCorrect`, `RowsHaveFiles`, `TornFilesWereCut`, `LeftoversAccounted` | Blobs_proofs | inductive; the file each path names is whole, in its creator's hands, or cut short (`FileAccounted`) |

The inductive invariants and why they are needed:

- `AttemptsInv`. The bound itself is not inductive: a *waiting* job at the bound
  would be claimed once more, because the claim definer never looks at
  `max_attempts`. The strengthening says that a waiting job has an attempt left,
  which the retry definer's guard and the counted repair establish.
- `BusyHasJob`. `OneRunner` quantifies over jobs; that a busy worker's `cur` is a
  job at all is needed for the queue call to be about a row.
- `SoleRunner` is the single runner with what a lone worker keeps of it when replies are
  lost: it meets its own earlier call only, and its job stays `running` until it reports.
  All of the handler's invariants rest on it.
- `SuccessInv` and `FailureInv` follow a verdict to where it is recorded. A `finish` call is
  made several steps after the stage that ended the row, so the goals, which speak of the
  recorded state, are strengthened to the worker that is about to report (`pc`, `verdict`)
  and the stage it is at: from `novelty` on the row has ended, before it the row is open.
  `FailureInv` also says it of waiting jobs, since a retry must find an open row.
- `ChildInv`: a row with an automatic child has been rejected or deleted, and never runs again
  but by an operator's hand. That there is one child alone is not inductive.
- `WholeInv` says, stage by stage (`WrittenBefore`), which pieces the attempt at work has
  already replaced. Publishing requires them all, so what it completes is that attempt's; and
  no early piece is written to a complete row, because an early stage, which looks at
  nothing, is never reached with one.
- `RowsInv` is the outbox's. `BufferInv` says the open transaction touches only rows
  that were unwritten; `PlannedInv` that from the plan on, everything cited and the
  author have rows the transaction does not drop; `CompleteInv` is the goal. The plan
  comes two transactions before completion, so the goal alone is far from inductive.
- `WriteInv`. At every writing step an unwritten row the session sees is cited,
  dropped in the buffer, or has turned; and past the gate the synthesis is
  publishable unless something turned. This is where the discard, the gate and the
  listing, three statements with the world between them, are tied together.

- `PublishInv`. That the transaction leaves nothing pending is not enough for everything to be
  *written*: it may have deferred. The invariant says that a planned attempt leaves no cited
  row deferred (it saw them all, or its plan was refused), that a row is deferred only while
  the synthesis may not be named, and that what is cited is among the members, so that a
  publishable synthesis hides none of its rows from the completing session.

- Countersign's `IInv`. That every row chains on the one before it says nothing of the
  row about to be inserted. `StampInv` makes the latest stamp the latest commit, so the
  head a writer reads is the last row; `DraftInv` says that the one writer past the
  read still has that row in hand, because the lock keeps `rows` from growing under it.
  `LinkInv` makes a stored hash and a hashed signature the same answer, so a backfill
  between read and insert changes nothing.

- `SamplesInv`. A sweep can commit or die at any step, so what is said of the committed
  rows is also said of the rows as the sweep has narrowed them (`SweepFollows`,
  `SweepReaches`), and `InsertsAgree` says what is known of an insert that has run:
  it agrees with the committed sample or is marked as missed. That a narrowing leaves no
  child behind (`LineNarrows`) needs two facts about the line of a sample, the smallest
  set closed under following one's parent: each of its members but the first does follow
  (`LineFollows`), and none is older than the first (`LineIsYounger`), since a parent
  always has the smaller id (`LineageOK`).

- `AlertInv`. The alert is asked after the sweep has committed, one statement later. While
  nothing commits beside the tick, what it noted as refused is still blocked and whatever
  still wants narrowing has been noted. The first half needs that narrowing one line takes
  no descendant of another refused sample out of its way: the lines of samples in different
  groups are apart (`LinesApart`), and a line only shrinks when another is narrowed
  (`LineShrinks`).

- `TenancyInv`. A commit applies what was judged when its statements ran. `Fresh` says
  that while nothing else has happened the open transaction is one a session could begin
  now, so it is still judged rightly (`OnlyLaterTurnsExpose`, case of a commit);
  afterwards `TxInv` keeps what the derived rows need: the row is there, and the tables
  the transaction does not reach already carry the visibility it sets (`Sound`), unless the
  synthesis is a stray. The row lock (`Waits`) is what makes `TxInv` inductive.

- `SweepIsThorough`. That repeated passes reach a fixpoint is an induction over data. `Swept`
  is therefore stated as what the passes compute, the smallest set a pass adds nothing to;
  that the intersection of all such sets is one of them (`SweptIsSwept`) needs only that a
  pass over more narrowed rows narrows no fewer.

- `HistoryInv`. A run reads the ledger before the lock and again under it. Of a run that
  applies it says that it holds the lock, that nothing it has pending is recorded and that
  everything recorded is of its target (`AtWork`); scripts take no lock, but they only remove
  versions, and so keep all three.
- `PassInv`. A verdict on the finished synthesis must follow from checks made a cluster at a
  time. `CitesInv` keeps that each accepted summary cites exactly its cluster's members, so
  the verifier can miss none of them; `CallsInv` adds to the totals the attempts of the prompt
  that is open, `PartsInv` says of every step of stage 3 what the goal says of its result.
  That merging has two smallest clusters to take (`SmallestIsOne`) and that sorting by the
  first claim loses none (`ByFirstOrders`, ranks are an injection into as many places) rest on
  the parts being disjoint and finite.
- `TraversalInv`. That a snapshot is exact when the queue is empty says nothing of the walk
  before. The invariant gives each visited claim a level `lev`, the hop it was met at, which no
  variable keeps: a claim lies within as many steps as its level (`Met`), the queue is in
  the order of the levels and spans two of them at most (`InLine`), and what stands behind a
  claim that left the queue has been met, at most a level later (`LookedBehind`). A queue that
  were not first in, first out would break `InLine`, and with it exactness at the hop limit: a
  claim first met on a long way would not be looked behind.
- `GreedyHalves` counts the contradictions among the first claims of a cluster and those cut by
  the two sides, and adds one claim at a time (`OneClaimMore`, `OneSideMore`). `LouvainInv`
  only says that what is split are claims, and conflicts edges between them.
- Both need what a recursive function computes: `Within`, how far a claim is, and `Bipartition`,
  the side of a claim. The library's induction theorems take an operator, which no prover here
  can instantiate, so each induction is made on a set: were the claim false, the numbers at which
  it fails would have a least one (`MinIsLeast`, from the well-founded order of the naturals),
  and the one before it, or the first, refutes it. That the recursive function exists at all is
  shown likewise, by extending it one number at a time (`ReachExists`, `SidesExist`).
- `StopsEndThePass` needs that what is cut from around a notice is never the notice: a fence,
  or a span of brackets that is one piece (`ExtractedIsNoNotice`).

- `OwnedInv`. That committed rows are whole says nothing of a derived row about to be
  committed. `Drafted` says of it that it is the only one of its synthesis and carries its
  pair, or the public one of the same owner if the synthesis was narrowed since. 5035 and
  its undo wait for it (`NoDrafts`), so none is carried across a change of the triggers.
- `BootInv`. Each probe's answer must last until the pools are open. No script takes away
  what the first two found. The guard is taken by e1f-undo.sql only, which asks for no
  connected process but asks before it commits: the invariant therefore says of a script
  that has looked and of a process at work that the process is one it had not seen.
- `VerifyInv`. A verification is read check by check, so the goal, which speaks of the whole
  catalog, is strengthened to what each place of the reading has behind it (`Earlier`): no
  finding in the parts read, as they are now, unless the catalog changed under the reader.
  The rest are the types, which say that a catalog is made of parts `verify` reads
  completely: a definer or a policy is determined by its fields (`WorldsAssumption`). TLC
  tries every single edit by hand; the theorem allows any number of edits, any
  tables in the classes and any names. A row has one of two owners and a session one of
  the kinds in `Viewers`, in both.
- `RestoreInv`. A reverse decides by comparing a row with what the manifest says the backfill
  made of it. A row that was changed and changed back looks untouched, and manifests of
  several backfills overlap, so an invariant about the row and one manifest is not
  inductive. `Kin` relates any two of the row's states, the present one and those before each
  backfill, all with all: jobs come into being in one way only (`JobsAgree`), and a root that
  was ownerless once never carries the backfill's pair without its job (`PairsAgree`). Every
  step adds one state that is kin to the one it comes from (`OwnedJoins` and its siblings).
  `WorldsAssumption` starts this: no job of an ownerless synthesis carries a pair, which holds
  because the columns are created empty by 5034.

Liveness under fairness, and anything about ENABLED, is beyond the prover and
stays with TLC.

## Findings and observations

One run checks a sentence of the code and refutes it:

- `blobs_torn`: an upload meets the temporary file of another one of the same content
  (`create_new` answers AlreadyExists, "treat as non-fatal"), does not write, inserts its
  row, renames that file into place and commits, although row and file are meant to "stay
  in sync". If the first upload is dropped while it writes, `verify_integrity` answers
  false for that row from then on. It makes no difference whether the drop comes before
  the second upload looks (it then finds a leftover) or while or after it renames the file
  of a live one; the traces are of one length, and TLC shows one of them. What holds
  instead is proved: a torn file is one whose own write was cut (`TornFilesWereCut`).

Disagreements between a text and the code that the models reach and that have no run:

1. Stage 6 discards, asks and lists in separate statements. A stale row that the session
   cannot see is not discarded; if its claim is made public before the listing, the row is
   listed and written, while `publish.rs:303` says no kernel edge ever names a claim the
   synthesis does not cite. `EdgesAreJustified` excepts exactly the claims that turned.
2. An input narrowed and widened again while the synthesis row stays public leaves rows
   deferred, and only a request for `public` releases them; `publish.rs:276` says they
   wait until the synthesis is public and publishable.
3. Clusters inserted while their synthesis is being narrowed keep the public pair, and
   nothing repairs them; migration 5035 (426-427) says the row's pair is always its
   parent's. `DerivedFollowParent`, `DerivedFollowSample` and `OwnedAfterContract` except
   the rows raced.
4. `update_status` judges the status it read and its UPDATE does not compare it
   (`routes/samples.rs:183`, `repos/sample.rs:184`). Two requests on a prepared sample may
   take it from archived to in use; `docs/intro/02-concepts-science.md:98` says illegal
   jumps are rejected. With `Targets = {"in_use", "archived"}` TLC shows it in eight steps.
   The same page says an archived sample was consumed or disposed of first, while
   `SampleStatus` allows prepared to archived.
5. A finish or retry that committed and whose reply is lost on the last try makes
   `run_once` return an error although the job is no longer `running`, while its
   "# Errors" section (`jobs/worker.rs:449`) says it stays so. The head of
   `countersign_links.rs` speaks of `created_at` as the transaction's start, which holds of
   older rows only.

Observed, and no text claims otherwise:

- Jobs. A rejected row whose job is put back after a crash runs again and may get a second
  child (`OneRefinementChild` excepts put-back jobs). A job put back more than a day after
  its creation is failed as expired although its synthesis may be complete
  (`JobAgreesWithRow` excepts them). A principal refused between two stages ends the job
  and leaves the row `running`.
- Outbox. A refused row stops the loop at itself and is retried past the cap of 10 for as
  long as another row of the same synthesis keeps the item on offer.
- Countersignatures. A clock set back makes an older row the head again and forks a chain
  (so `ChainIsCommitOrder` and `LockoutEnds` say `steps = 0`).
- Samples. A child, link or blob inserted while a narrowing of its sample is uncommitted
  keeps the old pair for good. The alert says "could not narrow" of rows that became
  unpublishable after the sweep, too.
- Pipeline. The PR check cuts the narrative at byte offsets and panics inside a character
  (`skills/code_review.rs:73`). A retry that exhausts its attempts has spent its calls for
  nothing. The model recorded for a synthesis is the one the process saw last.
- Ledger. Undo scripts take no sqlx lock, so one that commits in the middle of a run
  leaves a gap in the ledger. A row narrowed in the window and then reversed loses its
  job's principal and makes 5035 refuse from then on. A run that reads the ledger before
  and the tables after another run's 5032 is refused as a legacy database. `verify` does
  not notice a missing propagation trigger, a row guard or a changed function body, and
  its reads are not one snapshot: a change between two of them may pass unseen, or be
  seen in part (`VerifiedIsTenant` excepts these). An idle server holds no connection, so
  the scripts' check for connected processes does not see it. The check of e1f-undo.sql
  (24-42) and its drop and commit (45-51) have no lock in common with a boot: a process
  that connects in between passes its probes on the old catalog and serves without the
  signature-hash guard (`BootsOnAWholeSchema` excepts it).

## What is only model-checked, what is not modelled

Only model-checked: liveness (`EveryJobSettles`, `SynthesisSettles`, `PendingIsWritten`,
`EveryDueItemIsServed`, `ExposureEnds`, `PassEnds`), which rests on fairness and ENABLED.
Every other property of the passing runs, safety and action properties alike, is stated by
a theorem.

Abstracted inside modelled parts: the age of a job (a refusal before the handler may come
at any time); the order of claims; the content of snapshots, clusters and narratives as the
job sees them; the kernel's edge rules (a fixed set of refused claims); the owner pairs of
several groups in Tenancy; the worklist's capacity. The definer answers at most 1000 items, so at most
950 held ones can be asked for on top of the limit of 50; beyond that, or with more
permanently failing items than `Limit * (MaxHold + 1)`, items behind them wait. The source
accepts this and the run stays below it.

Not modelled: the parts marked `not_modelled` in `PROJECT.json`. Reading and rendering
(wiki, notebook, search, export) keep no state, the MCP server is another front end of the
operations modelled. Novelty and staleness are floating-point searches. The pipes, the
process group and the timeout of the CLI client are operating-system behaviour; how each
of its ends is read is in ModelReply. Row security appears as what a session sees, and in
Catalog as what its policies admit. Protocol versions are planned.

## Plan

Done, in this order: JobQueue and Worker with the lease; SynthesisJob as a refinement of
Worker; Outbox; Worklist; Tenancy; Countersign; Blobs; Seeding, Clustering, ModelReply and
Pipeline; Catalog, Reown and Ledger; Samples.

Next:

1. *Protocols*: versions are a chain. A supersede reads the version under a row lock; two
   supersedes of one protocol both get the next number.
2. *Owner pairs of several groups* in Tenancy, as Samples has them.
3. *Compositions*: Outbox with SynthesisJob through a shared abstraction of the writing
   transaction of a live row; Worklist with Outbox through the offered item; Pipeline as the
   refinement of SynthesisJob's early stages.
4. *Proofs* of what these add.

The project asks one run per question. A new question joins the run of the module it is
about, or of a module composed with it.

## How to run

    tlc -config MCWorkerSafe.cfg MCWorker.tla       # likewise the other runs
    tlapm Pipeline_proofs.tla                       # likewise the other proofs

`MC*.tla` are the model-checking modules; a configuration is named after its
module and its run. `*_proofs.tla` hold the theorems of the module they extend.
