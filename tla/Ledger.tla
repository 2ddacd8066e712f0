-------------------------------- MODULE Ledger --------------------------------
(***************************************************************************)
(* The migration ledger and a deploy around it: `episcience-migrate run`,  *)
(* `run --to`, `adopt-baseline` and `verify`                               *)
(* (crates/episcience-db/src/ledger.rs), the migrations 5032 to 5042 and   *)
(* the undo scripts of docs/runbooks, the re-own of the legacy rows        *)
(* (module Reown), the tenancy catalog (module Catalog) and the probes a   *)
(* process makes before it serves (crates/episcience-db/src/tenancy.rs).   *)
(*                                                                         *)
(* A run and an adoption hold sqlx's advisory lock while they decide and   *)
(* apply; their first reads, the verification, the scripts and the probes  *)
(* take no lock.  A migration is one transaction that decides under locks. *)
(* A script is one that first looks whether it may run and commits later;  *)
(* the operator runs one script at a time.                                 *)
(***************************************************************************)
EXTENDS Catalog, Reown

CONSTANTS Sessions,   \* the runs of episcience-migrate that may overlap
          Targets,    \* the versions a run may be stopped at
          Worlds      \* the databases a deploy starts from

Versions == 5032..5042
Embedded(last) == 5032..last

ASSUME LedgerAssumption == Targets \subseteq Versions /\ "none" \notin Sessions

\* A database a deploy starts from is one of this history: it records versions
\* of the range, no job of an ownerless synthesis carries a pair, and the rows
\* of a contracted one are owned.
ASSUME WorldsAssumption ==
  \A w \in Worlds :
    /\ w.ledger \subseteq Versions /\ w.binaries \subseteq Versions
    /\ w.rows \subseteq [Rows -> RowValues] /\ w.raced \subseteq Rows
    /\ \A data \in w.rows, r \in Rows : data[r].here => Sane(data[r])
    /\ 5035 \in w.ledger =>
         \A data \in w.rows, r \in Rows : data[r].here => Whole(r, data[r], r \in w.raced)
    /\ w.catalogs \subseteq CatalogValues

VARIABLES
  ledger,    \* the versions episcience_meta._sqlx_migrations records
  altered,   \* the 5032 row has a checksum other than the file's
  tables,    \* the EpiScience tables: none, baseline, drifted or migrated
  kernel,    \* the kernel's ledger holds an EpiScience-range version
  lock,      \* the session that holds sqlx's advisory lock
  sess,      \* the sessions of episcience-migrate
  server,    \* where a serving process is
  script,    \* the operator's script that has looked and not yet committed
  boot,      \* whether the process connected behind the back of such a
             \* script (unseen), which has then removed the guard (overtaken)
  catalog,   \* the tenancy catalog
  stirred,   \* the verifications under which the catalog has changed
  budget     \* how often each kind of step may still happen

ledgerVars == <<ledger, altered, tables, kernel>>
deployVars == <<server, script, boot>>
catalogVars == <<catalog, stirred>>
vars == <<rowVars, ledgerVars, lock, sess, deployVars, catalogVars, budget>>

\* A session runs one binary, which embeds the versions up to its last.
Idle(last) == [pc |-> "idle", cmd |-> "none", last |-> last, to |-> last, pending |-> {}]

Ended == {"idle", "ok", "refused"}

Goto(s, pc) == sess' = [sess EXCEPT ![s].pc = pc]

Without(roles) == {g \in catalog.grants : g[2] \notin roles}

\* Row security and its grants on and off, as 5036, its undo and the two
\* scripts of row security set them: what they name, and no grant of another
\* role.
OnGrants == Without({"public", "app", "rw", "queue", "maint_ops"}) \cup ExpectedGrants
OffGrants == Without({"rw", "queue", "maint_ops"}) \cup EarlierGrants
Flags(set) == [t \in Tables |-> set]

\* The catalog when the recorded versions become vs: a migration and its undo
\* make and drop the objects they name.
Recatalog(vs) ==
  LET changed(v) == v \in (ledger \ vs) \cup (vs \ ledger)
      new == Installed(vs)
      sigs == {sig \in DOMAIN CreatedBy : changed(CreatedBy[sig])}
      kinds == {<<q.table, q.kind>> : q \in ExpectedPolicies}
  IN [catalog EXCEPT
        !.definers = {d \in @ : d.sig \notin sigs} \cup {d \in new.definers : d.sig \in sigs},
        !.triggers = IF changed(5035) THEN {g \in @ : g.fn # "propagate"} \cup new.triggers
                     ELSE @,
        !.rls = IF changed(5036) THEN new.rls ELSE @,
        !.grants = IF changed(5036) THEN IF 5036 \in vs THEN OnGrants ELSE OffGrants
                   ELSE IF changed(5034) THEN @ \cup EarlierGrants ELSE @,
        !.policies = IF changed(5036)
                     THEN {p \in @ : <<p.table, p.kind>> \notin kinds} \cup new.policies ELSE @,
        !.guards = IF changed(5036) THEN new.guards ELSE @,
        !.hashGuard = IF changed(5038) THEN new.hashGuard ELSE @]

\* The verifications that have read a part of the catalog see it change.
Reading == {s \in Sessions : sess[s].pc \in DOMAIN CheckAfter \ {"definers"}}
Stirs == stirred' = IF catalog' = catalog THEN stirred ELSE stirred \cup Reading

Spend(kind) == budget[kind] > 0 /\ budget' = [budget EXCEPT ![kind] = @ - 1]

-----------------------------------------------------------------------------
(* episcience-migrate.                                                     *)

Start(s) ==
  /\ sess[s].pc \in Ended
  /\ \E cmd \in {"run", "adopt", "verify"}, to \in Targets \cup {sess[s].last} :
       /\ cmd # "run" => to = sess[s].last
       /\ Spend(cmd)
       /\ sess' = [sess EXCEPT ![s] =
            [pc |-> "started", cmd |-> cmd, last |-> @.last, to |-> to, pending |-> {}]]
  /\ UNCHANGED <<rowVars, ledgerVars, lock, deployVars, catalogVars>>

\* Reads outside the lock.
Reads(s, cmd, from) == sess[s].pc = from /\ sess[s].cmd = cmd

\* An unknown target and a foreign version are refused.
RunBegins(s) ==
  /\ Reads(s, "run", "started")
  /\ Goto(s, IF sess[s].to \notin Embedded(sess[s].last) \/ kernel THEN "refused" ELSE "ledger")

\* Only an empty ledger makes the run look for tables.
RunReadsLedger(s) ==
  /\ Reads(s, "run", "ledger")
  /\ Goto(s, IF ledger = {} THEN "tables" ELSE "lock")

RunReadsTables(s) ==
  /\ Reads(s, "run", "tables")
  /\ Goto(s, IF tables = "none" THEN "lock" ELSE "refused")

\* A verification checks the ledger, then the kernel's ledger and contract,
\* then the catalog, one read after another that share no snapshot, and the
\* countersignature links (which may be broken).
VerifyReadsLedger(s) ==
  /\ Reads(s, "verify", "started")
  /\ Goto(s, IF ledger = Embedded(sess[s].last) /\ ~altered THEN "kernel" ELSE "refused")

VerifyReadsKernel(s) ==
  /\ Reads(s, "verify", "kernel")
  /\ \/ ~kernel /\ 5033 \in ledger /\ Goto(s, "definers")
     \/ Goto(s, "refused")

VerifyReadsCatalog(s) ==
  \E check \in DOMAIN CheckAfter :
    /\ Reads(s, "verify", check)
    /\ stirred' = IF check = "definers" THEN stirred \ {s} ELSE stirred
    /\ \/ FindingsOf(check, catalog) = {} /\ Goto(s, CheckAfter[check])
       \/ Goto(s, "refused")

AdoptBegins(s) ==
  /\ Reads(s, "adopt", "started")
  /\ Goto(s, IF kernel THEN "refused" ELSE "lock")

ReadsOnly(s) ==
  /\ \/ /\ \/ RunBegins(s) \/ RunReadsLedger(s) \/ RunReadsTables(s) \/ AdoptBegins(s)
           \/ VerifyReadsLedger(s) \/ VerifyReadsKernel(s)
        /\ UNCHANGED stirred
     \/ VerifyReadsCatalog(s)
  /\ UNCHANGED <<rowVars, ledgerVars, lock, deployVars, catalog, budget>>

\* Mutant: a migrator with `locking = false`.
RunLocksNothing(s) ==
  /\ Reads(s, "run", "lock")
  /\ lock' = s
  /\ sess' = [sess EXCEPT ![s].pc = "apply", ![s].pending = Embedded(sess[s].to) \ ledger]
  /\ UNCHANGED <<rowVars, ledgerVars, deployVars, catalogVars, budget>>

\* sqlx under its lock: every recorded version must be one of the restricted
\* set, with the file's checksum; what is missing is pending.
RunLocks(s) ==
  /\ Reads(s, "run", "lock") /\ lock = "none"
  /\ IF ledger \subseteq Embedded(sess[s].to) /\ ~altered
     THEN /\ lock' = s
          /\ sess' = [sess EXCEPT ![s].pc = "apply",
                                  ![s].pending = Embedded(sess[s].to) \ ledger]
     ELSE lock' = lock /\ Goto(s, "refused")
  /\ UNCHANGED <<rowVars, ledgerVars, deployVars, catalogVars, budget>>

Next1(vs) == CHOOSE v \in vs : \A w \in vs : v <= w

\* The next pending migration, in one transaction with its row in the ledger.
\* 5036 and 5037 change tables which 5035-undo.sql has read, and wait for it.
Applies(s) ==
  /\ sess[s].pc = "apply" /\ sess[s].pending # {}
  /\ LET v == Next1(sess[s].pending)
     IN /\ v = 5032 => tables = "none"
        /\ v = 5035 => Contractible /\ NoDrafts
        /\ v \in {5036, 5037} => script # "u5035"
        /\ ledger' = ledger \cup {v}
        /\ tables' = IF v = 5032 THEN "baseline"
                     ELSE IF v = 5034 THEN "migrated" ELSE tables
        /\ rows' = IF v = 5035 THEN Contracted ELSE rows
        /\ raced' = IF v = 5035 THEN {} ELSE raced
        /\ catalog' = Recatalog(ledger \cup {v}) /\ Stirs
        /\ sess' = [sess EXCEPT ![s].pending = @ \ {v}]
  /\ UNCHANGED <<manifests, drafts, altered, kernel, lock, deployVars, budget>>

\* The migration is refused or fails, and with it the run; what it applied
\* before stays.
ApplyFails(s) ==
  /\ sess[s].pc = "apply" /\ sess[s].pending # {}
  /\ lock' = "none" /\ Goto(s, "refused")
  /\ UNCHANGED <<rowVars, ledgerVars, deployVars, catalogVars, budget>>

Finishes(s) ==
  /\ sess[s].pc = "apply" /\ sess[s].pending = {}
  /\ lock' = "none"
  /\ Goto(s, IF kernel THEN "refused" ELSE "ok")
  /\ UNCHANGED <<rowVars, ledgerVars, deployVars, catalogVars, budget>>

\* The live tables render, line by line, to the committed fingerprint.
MatchesFingerprint == tables = "baseline"

\* The locked part of an adoption: an empty ledger and tables equal to the
\* fingerprint, of which 5032 is then recorded and not run.
AdoptLocked(s) ==
  /\ Reads(s, "adopt", "lock") /\ lock = "none"
  /\ \/ /\ ledger = {} /\ MatchesFingerprint
        /\ ledger' = {5032} /\ Goto(s, "ok")
     \/ /\ ledger = {5032} /\ ~altered
        /\ ledger' = ledger /\ Goto(s, "ok")
     \/ /\ ledger \notin {{}, {5032}} \/ altered \/ (ledger = {} /\ ~MatchesFingerprint)
        /\ ledger' = ledger /\ Goto(s, "refused")
  /\ UNCHANGED <<rowVars, altered, tables, kernel, lock, deployVars, catalogVars, budget>>

\* The process dies: its connection closes, which releases the lock.
Dies(s) ==
  /\ sess[s].pc \notin Ended /\ Spend("death")
  /\ sess' = [sess EXCEPT ![s] = Idle(@.last)]
  /\ lock' = IF lock = s THEN "none" ELSE lock
  /\ UNCHANGED <<rowVars, ledgerVars, deployVars, catalogVars>>

-----------------------------------------------------------------------------
(* The operator's scripts: no lock of sqlx, one transaction each, whose     *)
(* first statement looks whether it may run (read committed).              *)

\* What each script removes from the ledger.
Removes ==
  [u5042 |-> {5042}, u5041 |-> {5041}, u5040 |-> {5040}, e1f |-> {5038, 5039},
   e1e |-> {5036, 5037}, u5035 |-> {5035}, rls_off |-> {}, rls_on |-> {}]

\* A process of EpiScience that holds a connection, as pg_stat_activity has it.
Connected == server \notin {"down", "quiet"}

Looks(name) ==
  /\ script = "none" /\ Spend("undo")
  /\ script' = name
  /\ UNCHANGED <<rowVars, ledgerVars, lock, sess, server, boot, catalogVars>>

\* Of the versions it removes one must be recorded, none being later.
Undoes(name) ==
  /\ Removes[name] \cap ledger # {}
  /\ \A v \in ledger : \E w \in Removes[name] : v <= w
  /\ Looks(name)

Undo5042 == Undoes("u5042")

\* Refused while a wiki article exists.
Undo5041 == Undoes("u5041")

Undo5040 == Undoes("u5040")

\* Mutant: the connected processes are not looked for.
UndoE1fConnected == Undoes("e1f")

\* e1f-undo.sql.
UndoE1f == ~Connected /\ Undoes("e1f")

\* e1e-undo.sql.
UndoE1e == 5036 \in ledger /\ ~Connected /\ Undoes("e1e")

\* 5035-undo.sql: it asks for 5036 and 5037 only.
Undo5035 == 5035 \in ledger /\ {5036, 5037} \cap ledger = {} /\ Looks("u5035")

\* episcience-rls-undo.sql and episcience-rls-redo.sql.
RowSecurityOff == 5036 \in ledger /\ ~Connected /\ Looks("rls_off")

RowSecurityOn ==
  /\ 5036 \in ledger /\ Cardinality(catalog.policies) = Cardinality(ModelPolicies)
  /\ Looks("rls_on")

\* What a script changes it changes at its commit, whatever has happened since
\* it looked.
ScriptCommits ==
  /\ script # "none"
  /\ script = "u5035" => NoDrafts
  /\ ledger' = ledger \ Removes[script]
  /\ catalog' =
       CASE script = "rls_off" ->
              [catalog EXCEPT !.rls = Flags({}), !.grants = OffGrants]
         [] script = "rls_on" ->
              [catalog EXCEPT !.rls = Flags({"enabled", "forced"}), !.grants = OnGrants]
         [] OTHER -> Recatalog(ledger')
  /\ Stirs
  /\ boot' = IF script = "e1f" /\ boot = "unseen" THEN "overtaken" ELSE boot
  /\ script' = "none"
  /\ UNCHANGED <<rowVars, altered, tables, kernel, lock, sess, server, budget>>

\* It waits too long for a lock, or is cut off, and changes nothing.
ScriptFails ==
  /\ script # "none"
  /\ script' = "none"
  /\ boot' = IF boot = "unseen" THEN "apart" ELSE boot
  /\ UNCHANGED <<rowVars, ledgerVars, lock, sess, server, catalogVars, budget>>

Scripts == Undo5042 \/ Undo5041 \/ Undo5040 \/ UndoE1f \/ UndoE1e \/ Undo5035
             \/ RowSecurityOff \/ RowSecurityOn \/ ScriptCommits \/ ScriptFails

\* A kernel-range version is written by something else.
KernelRecords ==
  /\ ~kernel /\ Spend("foreign")
  /\ kernel' = TRUE
  /\ UNCHANGED <<rowVars, ledger, altered, tables, lock, sess, deployVars, catalogVars>>

-----------------------------------------------------------------------------
(* The rows (module Reown).                                                *)

Contracted35 == 5035 \in ledger

Writes ==
  /\ tables # "none" /\ Spend("write")
  /\ \E r \in Rows : \/ ~Contracted35 /\ OldWrites(r)
                     \/ 5034 \in ledger /\ NewWrites(r, Contracted35)
                     \/ 5034 \in ledger /\ Narrows(r, Contracted35)
  /\ UNCHANGED <<ledgerVars, lock, sess, deployVars, catalogVars>>

\* The stages of the worker insert the derived row after the root and its job.
DerivedWrites ==
  \/ /\ 5034 \in ledger /\ Spend("derive")
     /\ \E r \in Rows : DerivedBegins(r, Contracted35)
     /\ UNCHANGED <<ledgerVars, lock, sess, deployVars, catalogVars>>
  \/ /\ \E r \in Rows : DerivedEnds(r)
     /\ UNCHANGED <<ledgerVars, lock, sess, deployVars, catalogVars, budget>>

\* episcience-maint backfill-owners --apply; a dry run changes nothing.
Backfills ==
  /\ 5034 \in ledger /\ Spend("backfill")
  /\ BackfillOwners
  /\ UNCHANGED <<ledgerVars, lock, sess, deployVars, catalogVars>>

Reverse(m) == 5034 \in ledger /\ ~Contracted35 /\ BackfillReverse(m)

Reverses ==
  /\ Spend("backfill")
  /\ \E m \in manifests : Reverse(m)
  /\ UNCHANGED <<ledgerVars, lock, sess, deployVars, catalogVars>>

\* One step: had 5035 come after the script's look, its check of the words
\* would refuse the update.
RollsBackVocabulary ==
  /\ script = "none" /\ tables # "none" /\ ~Contracted35 /\ Spend("undo")
  /\ RollBackVocabulary
  /\ UNCHANGED <<ledgerVars, lock, sess, deployVars, catalogVars>>

-----------------------------------------------------------------------------
(* A process that serves: on one connection it checks its own session and  *)
(* the kernel contract, the tenancy columns and the signature-hash guard,  *)
(* then opens its pools.                                                   *)

Connects ==
  /\ server = "down" /\ Spend("boot")
  /\ server' = "contract"
  /\ boot' = IF script = "none" THEN "apart" ELSE "unseen"

\* Of the items of the contract only S1 is EpiScience's own; those of the
\* kernel and of the login may fail at any boot.
S1 == 5033 \in ledger
TenancyColumns == 5034 \in ledger

\* A privileged session and a failed item are refused.
Probes ==
  \/ server = "contract" /\ S1 /\ server' = "columns"
  \/ server = "columns" /\ TenancyColumns /\ server' = "guard"
  \/ server = "guard" /\ SignatureHashGuardFindings(catalog) = {} /\ server' = "ready"
  \/ server \in {"contract", "columns", "guard"} /\ server' = "down"

Serves == server \in {"ready", "quiet"} /\ server' = "serving"

\* The pools close their idle connections.
FallsQuiet == server = "serving" /\ server' = "quiet"

Stops == server \in {"serving", "quiet"} /\ server' = "down"

Boot ==
  /\ \/ Connects
     \/ (Probes \/ Serves \/ FallsQuiet \/ Stops) /\ UNCHANGED <<boot, budget>>
  /\ UNCHANGED <<rowVars, ledgerVars, lock, sess, script, catalogVars>>

-----------------------------------------------------------------------------
Init ==
  \E w \in Worlds :
    /\ ledger = w.ledger /\ altered = w.altered /\ tables = w.tables
    /\ rows \in w.rows /\ manifests = {} /\ raced = w.raced
    /\ drafts = [r \in Rows |-> NoPart]
    /\ catalog \in w.catalogs
    /\ budget = w.budget
    /\ kernel = FALSE /\ lock = "none" /\ stirred = {}
    /\ server = "down" /\ script = "none" /\ boot = "apart"
    /\ sess \in [Sessions -> {Idle(last) : last \in w.binaries}]

Next ==
  \/ \E s \in Sessions :
       \/ Start(s) \/ ReadsOnly(s) \/ RunLocks(s) \/ Applies(s) \/ ApplyFails(s)
       \/ Finishes(s) \/ AdoptLocked(s) \/ Dies(s)
  \/ Scripts \/ KernelRecords
  \/ Writes \/ DerivedWrites \/ Backfills \/ Reverses \/ RollsBackVocabulary
  \/ Boot

Spec == Init /\ [][Next]_vars

-----------------------------------------------------------------------------
(* Properties.                                                             *)

\* A run applies a migration only while it holds the lock, only once, and only
\* on a history it knows: every recorded version is one it embeds, up to its
\* target, and 5032 is recorded with the file's checksum (run_to, whose first
\* reads are not under the lock, and sqlx's check, which is).
OnlyKnownHistoryIsBuiltOn ==
  [][\A s \in Sessions :
       sess[s].pc = "apply" /\ sess'[s].pending # sess[s].pending =>
         /\ lock = s
         /\ sess[s].pending \cap ledger = {}
         /\ ledger \subseteq Embedded(sess[s].to) /\ ~altered]_vars

\* While 5035 is recorded every synthesis is wholly owned, whatever was
\* written, narrowed, re-owned, reversed or rolled back before it, and however
\* often it was undone and applied again (its data step and its triggers).
\* Its derived row carries its pair, but for a row inserted while it was being
\* narrowed: that one may stay public, with the owner's group
\* (episcience_inherit_from_synthesis reads the committed root, and the
\* propagation does not see the row).
OwnedAfterContract == 5035 \in ledger => WhollyOwned

\* A reverse gives every row its backfill has left untouched since exactly the
\* state before it, and takes nothing from a root that was changed since
\* (episcience_maint_backfill_reverse, whose comparison is per column).
ReverseRestores == [][\A m \in manifests : Reverse(m) => Restores(m)]_vars

Viewers ==
  [bypass : {FALSE}, groups : {{}, {"G"}}, writable : {{}}, principal : {"P"}]
    \cup [bypass : BOOLEAN, groups : {{"G"}}, writable : {{"G"}}, principal : {"P"}]

RowsOf(t) ==
  [owner : {"G", "H"}, public : BOOLEAN, by : {"P", "Q"},
   claim : {"readable", "hidden"} \cup IF t = EdgeTable THEN {"none"} ELSE {}]

\* The catalog in which only the definers of the model run with the owner's
\* rights, only its grants are given, and every session may do to every row
\* exactly what the contract says.
IsTenant(c) ==
  /\ [c EXCEPT !.triggers = {}] = [Installed(Versions) EXCEPT !.triggers = {}]
  /\ \A t \in Tables : \A cmd \in {"r", "a", "w", "d"}, v \in Viewers, row \in RowsOf(t) :
       Admits(c, t, cmd, v, row) <=> Entitled(t, cmd, v, row)

\* A verification that ends well leaves such a catalog behind its reads, unless
\* the catalog changed between two of them (catalog::findings; a missing
\* propagation trigger is not a finding).
VerifiedIsTenant ==
  [][\A s \in Sessions : sess[s].pc = "hash_guard" /\ sess'[s].pc = "ok" /\ s \notin stirred =>
       IsTenant(catalog)]_vars

\* A process starts to serve only on a database with the kernel contract, the
\* tenancy columns and the signature-hash guard, though its probes are three
\* reads apart from each other and the undo scripts take no lock
\* (TenancyDb::connect; e1f-undo.sql asks for no connected process).  The guard
\* may be gone again when the process connected after e1f-undo.sql had looked
\* for connections and that script committed behind its probes.
BootsOnAWholeSchema ==
  [][server = "ready" /\ server' = "serving" =>
       /\ {5033, 5034} \subseteq ledger
       /\ SignatureHashGuardFindings(catalog) = {} \/ boot = "overtaken"]_vars
=============================================================================
