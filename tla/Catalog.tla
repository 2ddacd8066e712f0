------------------------------- MODULE Catalog -------------------------------
(***************************************************************************)
(* The tenancy catalog and the checks `episcience-migrate verify` and the  *)
(* boot probe make of it (crates/episcience-db/src/catalog.rs): the closed *)
(* set of SECURITY DEFINER functions, row security, the grant matrix, the  *)
(* policies and the statement guards, as the migrations leave them, the    *)
(* findings a live catalog yields, and what the policies then let a        *)
(* session do to a row.                                                    *)
(*                                                                         *)
(* A policy expression is the set of its arms, an absent one is {}.  The   *)
(* renderings of Postgres are not modelled.                                *)
(***************************************************************************)
EXTENDS Integers, FiniteSets

CONSTANTS Ownership, Append, Frozen, ClaimVisible, \* the table classes
          JobTable, EdgeTable,                     \* the two special tables
          Kept,                                    \* named by entity_types
          Names  \* what functions, roles, policies and arms may be called

TenancyTables == Ownership \cup Append
Tables == TenancyTables \cup Frozen

Privileges == {"S", "I", "U", "D"}
Maintenance == "epigraph_maintenance"

\* The one EpiScience role that may execute each definer; "nobody" for the
\* trigger function.
Execute ==
  [backfill_owners |-> "maint_ops", backfill_reverse |-> "maint_ops",
   sweep_narrowed |-> "maint_ops", unpublishable_public |-> "maint_ops",
   propagate |-> "nobody", queue_claim |-> "queue", queue_finish |-> "queue",
   queue_retry |-> "queue", owner_worklist |-> "queue",
   members_all_public |-> "rw", chain_head |-> "rw"]

\* The migration that creates each definer.
CreatedBy ==
  [backfill_owners |-> 5034, backfill_reverse |-> 5034, propagate |-> 5035,
   queue_claim |-> 5037, queue_finish |-> 5037, queue_retry |-> 5037,
   owner_worklist |-> 5037, members_all_public |-> 5037, chain_head |-> 5037,
   sweep_narrowed |-> 5037, unpublishable_public |-> 5039]

Executors(sig) == {Execute[sig]} \ {"nobody"}

Definer(sig) == [sig |-> sig, owner |-> Maintenance, pinned |-> TRUE,
                 revoked |-> TRUE, execs |-> Executors(sig)]

ModelNames ==
  DOMAIN Execute \cup {"maint_ops", "queue", "rw", "app", Maintenance}
    \cup {"tenancy", "update_owner", "delete_owner", "read", "insert", "bypass_update",
          "bypass_delete", "bypass_all", "claim_visible"}
    \cup {"bypass", "public", "groups", "writable", "writer", "claim", "not_claim"}

ASSUME CatalogAssumption ==
  /\ Ownership \cap Append = {} /\ Frozen \cap (Ownership \cup Append) = {}
  /\ ClaimVisible \subseteq Ownership \cup Append
  /\ JobTable \in Append /\ EdgeTable \in ClaimVisible
  /\ Kept \subseteq Ownership
  /\ ModelNames \subseteq Names

-----------------------------------------------------------------------------
(* The model: grants and policies.                                         *)

ExpectedGrants ==
  (Tables \X {Maintenance} \X Privileges)
    \cup (Ownership \X {"rw"} \X Privileges)
    \cup (Append \X {"rw"} \X {"S", "I"})
    \cup (Kept \X {"app"} \X {"S"})

\* What 5034 and the undo of 5036 grant.
EarlierGrants == Tables \X {Maintenance, "app"} \X Privileges

Policy(t, kind, cmd, permissive) ==
  [table |-> t, kind |-> kind, cmd |-> cmd, permissive |-> permissive]

ExpectedPolicies ==
  (UNION {{Policy(t, "tenancy", "*", TRUE), Policy(t, "update_owner", "w", FALSE),
           Policy(t, "delete_owner", "d", FALSE)} : t \in Ownership})
    \cup (UNION {{Policy(t, "read", "r", TRUE), Policy(t, "insert", "a", TRUE),
                  Policy(t, "bypass_update", "w", TRUE),
                  Policy(t, "bypass_delete", "d", TRUE)} : t \in Append})
    \cup {Policy(t, "bypass_all", "*", TRUE) : t \in Frozen}
    \cup {Policy(t, "claim_visible", "*", FALSE) : t \in ClaimVisible}

ReadShape(t) == {"bypass", "groups"} \cup IF t = JobTable THEN {} ELSE {"public"}
WriteShape(t) == {"bypass", IF t = JobTable THEN "writer" ELSE "writable"}
ClaimShape(t) == {"bypass", "claim"} \cup IF t = EdgeTable THEN {"not_claim"} ELSE {}

\* The expressions of each policy of the model.
Shape(t, kind) ==
  CASE kind = "tenancy" -> [using |-> ReadShape(t), check |-> WriteShape(t)]
    [] kind = "update_owner" -> [using |-> WriteShape(t), check |-> WriteShape(t)]
    [] kind = "delete_owner" -> [using |-> WriteShape(t), check |-> {}]
    [] kind = "read" -> [using |-> ReadShape(t), check |-> {}]
    [] kind = "insert" -> [using |-> {}, check |-> WriteShape(t)]
    [] kind \in {"bypass_update", "bypass_all"} ->
         [using |-> {"bypass"}, check |-> {"bypass"}]
    [] kind = "bypass_delete" -> [using |-> {"bypass"}, check |-> {}]
    [] kind = "claim_visible" -> [using |-> ClaimShape(t), check |-> ClaimShape(t)]

Rendered(q, shape) ==
  [table |-> q.table, kind |-> q.kind, cmd |-> q.cmd, permissive |-> q.permissive,
   public |-> TRUE, using |-> shape.using, check |-> shape.check]

ModelPolicies == {Rendered(q, Shape(q.table, q.kind)) : q \in ExpectedPolicies}

\* What may be read of a live catalog.
CatalogValues ==
  [definers : SUBSET [sig : Names, owner : Names, pinned : BOOLEAN,
                      revoked : BOOLEAN, execs : SUBSET Names],
   triggers : SUBSET [fn : Names, row : BOOLEAN, before : BOOLEAN],
   rls : [Tables -> SUBSET {"enabled", "forced"}],
   grants : SUBSET (Tables \X Names \X Privileges),
   schema : SUBSET Names,
   sentinels : SUBSET Tables,
   policies : SUBSET [table : Tables, kind : Names, cmd : {"*", "r", "a", "w", "d"},
                      permissive : BOOLEAN, public : BOOLEAN,
                      using : SUBSET Names, check : SUBSET Names],
   guards : SUBSET TenancyTables,
   hashGuard : {"installed", "absent"}]

\* The catalog after the migrations of vs.
Installed(vs) ==
  LET has(v) == v \in vs
  IN [definers |-> {Definer(sig) : sig \in {s \in DOMAIN CreatedBy : has(CreatedBy[s])}},
      triggers |-> IF has(5035) THEN {[fn |-> "propagate", row |-> FALSE, before |-> FALSE]}
                   ELSE {},
      rls |-> [t \in Tables |-> IF has(5036) THEN {"enabled", "forced"} ELSE {}],
      grants |-> IF has(5036) THEN ExpectedGrants
                 ELSE IF has(5034) THEN EarlierGrants ELSE Tables \X {"app"} \X Privileges,
      schema |-> {},
      sentinels |-> {},
      policies |-> IF has(5036) THEN ModelPolicies ELSE {},
      guards |-> IF has(5036) THEN TenancyTables ELSE {},
      hashGuard |-> IF has(5038) THEN "installed" ELSE "absent"]

-----------------------------------------------------------------------------
(* The findings.                                                           *)

DefinerFindings(c) ==
  LET listed == {d \in c.definers : d.sig \in DOMAIN Execute}
  IN {<<"unlisted definer", d.sig>> : d \in c.definers \ listed}
       \cup {<<"owner", d.sig>> : d \in {x \in listed : x.owner # Maintenance}}
       \cup {<<"path", d.sig>> : d \in {x \in listed : ~x.pinned}}
       \cup {<<"execute", d.sig>> :
               d \in {x \in listed : ~x.revoked \/ x.execs # Executors(x.sig)}}
       \cup {<<"missing definer", sig>> :
               sig \in DOMAIN Execute \ {d.sig : d \in listed}}
       \cup {<<"trigger", g.fn>> :
               g \in {x \in c.triggers : x.fn # "propagate" \/ x.row \/ x.before}}

RowSecurityFindings(c) ==
  {<<"rls", t>> : t \in {x \in Tables : c.rls[x] # {"enabled", "forced"}}}

GrantFindings(c) ==
  {<<"grants", g>> : g \in (ExpectedGrants \ c.grants) \cup (c.grants \ ExpectedGrants)}
    \cup {<<"ledger schema", g>> : g \in c.schema}

SentinelFindings(c) == {<<"sentinel", t>> : t \in c.sentinels}

\* Mutant: the heuristics without the shapes.
PolicyFindingsByName(c) ==
  LET key(p) == Policy(p.table, p.kind, p.cmd, p.permissive)
      suspect(p) == key(p) \notin ExpectedPolicies \/ ~p.public \/ "bypass" \notin p.using \cup p.check
  IN {<<"policy", key(p)>> : p \in {x \in c.policies : suspect(x)}}
       \cup {<<"missing policy", q>> : q \in ExpectedPolicies \ {key(p) : p \in c.policies}}

PolicyFindings(c) ==
  LET key(p) == Policy(p.table, p.kind, p.cmd, p.permissive)
      sides(p) == {p.using, p.check} \ {{}}
      named == {<<p.table, p.kind>> : p \in ExpectedPolicies}
      suspect(p) ==
        \/ key(p) \notin ExpectedPolicies
        \/ ~p.public
        \/ sides(p) = {}
        \/ \E e \in sides(p) :
             "bypass" \notin e \/ e \cap {"true", "sentinel", "foreign call"} # {}
        \/ /\ <<p.table, p.kind>> \in named
           /\ [using |-> p.using, check |-> p.check] # Shape(p.table, p.kind)
        \/ /\ p.kind \in {"bypass_update", "bypass_delete", "bypass_all"}
           /\ sides(p) # {{"bypass"}}
        \/ /\ p.kind \in {"update_owner", "delete_owner"}
           /\ \E e \in sides(p) : e \cap {"writable", "writer"} = {}
  IN {<<"policy", key(p)>> : p \in {x \in c.policies : suspect(x)}}
       \cup {<<"missing policy", q>> : q \in ExpectedPolicies \ {key(p) : p \in c.policies}}

GuardFindings(c) == {<<"principal guard", t>> : t \in TenancyTables \ c.guards}

SignatureHashGuardFindings(c) == IF c.hashGuard = "installed" THEN {} ELSE {<<"hash guard">>}

\* They are looked for by one read of the catalog after another, in this order.
CheckAfter ==
  [definers |-> "rls", rls |-> "grants", grants |-> "sentinels", sentinels |-> "policies",
   policies |-> "guards", guards |-> "hash_guard", hash_guard |-> "ok"]

FindingsOf(check, c) ==
  CASE check = "definers" -> DefinerFindings(c)
    [] check = "rls" -> RowSecurityFindings(c)
    [] check = "grants" -> GrantFindings(c)
    [] check = "sentinels" -> SentinelFindings(c)
    [] check = "policies" -> PolicyFindings(c)
    [] check = "guards" -> GuardFindings(c)
    [] check = "hash_guard" -> SignatureHashGuardFindings(c)

-----------------------------------------------------------------------------
(* What the policies let a session do (Postgres: one permissive policy and *)
(* every restrictive one; a changed row must be readable too).             *)

ArmHolds(arm, s, row) ==
  CASE arm = "bypass" -> s.bypass
    [] arm = "public" -> row.public
    [] arm = "groups" -> row.owner \in s.groups
    [] arm = "writable" -> row.owner \in s.writable
    [] arm = "writer" -> row.owner \in s.writable /\ row.by = s.principal
    [] arm = "claim" -> row.claim = "readable"
    [] arm = "not_claim" -> row.claim = "none"
    [] OTHER -> TRUE

Passes(c, t, cmd, s, row, side) ==
  LET applies == {p \in c.policies : p.table = t /\ p.cmd \in {cmd, "*"}}
      expr(p) == IF side = "check" /\ p.check # {} THEN p.check ELSE p.using
      holds(p) == \E arm \in expr(p) : ArmHolds(arm, s, row)
  IN /\ \E p \in applies : p.permissive /\ holds(p)
     /\ \A p \in applies : p.permissive \/ holds(p)

Admits(c, t, cmd, s, row) ==
  \/ "enabled" \notin c.rls[t]
  \/ /\ cmd # "a" => Passes(c, t, "r", s, row, "using")
     /\ cmd \in {"w", "d"} => Passes(c, t, cmd, s, row, "using")
     /\ cmd \in {"a", "w"} => Passes(c, t, cmd, s, row, "check")

\* What docs/tenancy-contract.md entitles a session to (its table of the
\* classes T-PUB, T-PRIV, T-APPEND, T-CTRL and the restriction R).
Entitled(t, cmd, s, row) ==
  LET member == row.owner \in s.groups
      writer == row.owner \in s.writable
  IN \/ s.bypass
     \/ /\ t \notin Frozen
        /\ t \in ClaimVisible => row.claim # "hidden"
        /\ CASE cmd = "r" -> member \/ (row.public /\ t # JobTable)
             [] cmd = "a" -> writer /\ (t = JobTable => row.by = s.principal)
             [] OTHER -> writer /\ t \in Ownership

-----------------------------------------------------------------------------
(* One change of the catalog by hand: what an operator's psql session, a   *)
(* later migration of the kernel or a restored dump may leave.             *)

DefinerEdits(d) ==
  {{}, {[d EXCEPT !.owner = "migrator"]}, {[d EXCEPT !.pinned = FALSE]},
   {[d EXCEPT !.revoked = FALSE]}, {[d EXCEPT !.execs = @ \cup {"app"}]},
   {d, [d EXCEPT !.sig = "foreign"]}}

PolicyEdits(p) ==
  {{}, {[p EXCEPT !.permissive = ~@]}, {[p EXCEPT !.public = FALSE]},
   {p, [p EXCEPT !.kind = "by_hand", !.permissive = TRUE]}}
    \cup {{[p EXCEPT !.using = @ \cup {arm}]} :
             arm \in {"true", "public", "groups", "foreign call"} \ p.using}
    \cup {{[p EXCEPT !.using = @ \ {arm}]} : arm \in p.using}
    \cup {{[p EXCEPT !.check = @ \ {arm}]} : arm \in p.check}

HandEdits(c) ==
  LET Flipped(set, x) == IF x \in set THEN set \ {x} ELSE set \cup {x}
  IN (UNION {{[c EXCEPT !.definers = (@ \ {d}) \cup e] : e \in DefinerEdits(d)} :
               d \in c.definers})
       \cup {[c EXCEPT !.triggers = @ \cup {[fn |-> fn, row |-> row, before |-> ~row]}] :
               fn \in {"propagate", "queue_claim"}, row \in BOOLEAN}
       \cup {[c EXCEPT !.rls[t] = @ \ {flag}] : t \in Tables, flag \in {"enabled", "forced"}}
       \cup {[c EXCEPT !.grants = Flipped(@, g)] :
               g \in Tables \X {"rw", "app", "reader"} \X Privileges}
       \cup {[c EXCEPT !.schema = {"app"}]}
       \cup {[c EXCEPT !.sentinels = {t}] : t \in TenancyTables}
       \cup (UNION {{[c EXCEPT !.policies = (@ \ {p}) \cup e] : e \in PolicyEdits(p)} :
                      p \in c.policies})
       \cup {[c EXCEPT !.guards = @ \ {t}] : t \in TenancyTables}
       \cup {[c EXCEPT !.hashGuard = "absent"]}
=============================================================================
