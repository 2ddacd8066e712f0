------------------------------ MODULE Tenancy ------------------------------
(***************************************************************************)
(* Who may read a synthesis: the row guards, the propagation to derived    *)
(* rows and the narrowing sweep (migrations 5035 and 5037).  A public      *)
(* synthesis may cite only public claims and build only on public          *)
(* syntheses; claims change visibility out of band, in the kernel.         *)
(*                                                                         *)
(* Transactions are READ COMMITTED: the triggers judge what is committed   *)
(* when their statement runs and the commit comes later.  Any operation    *)
(* may run in one step, and one transaction at a time may stay open (tx)   *)
(* while others begin and commit.  The rows here have one owner group.     *)
(***************************************************************************)
EXTENDS Integers, FiniteSets

CONSTANTS
  Claims,     (* claims that may be attached                                *)
  OwnClaims,  (* those of the owner group; others attach only while public  *)
  N,          (* syntheses are 1..N, created in this order                  *)
  MaxOps,     (* bound: operations of users, workers and the kernel         *)
  NoTx        (* no transaction is open                                     *)

ASSUME TenancyAssumption ==
  /\ OwnClaims \subseteq Claims
  /\ N \in Nat \ {0} /\ MaxOps \in Nat

VARIABLES
  pub,      (* SUBSET Claims: claims public now                             *)
  there,    (* SUBSET Syntheses: rows inserted                              *)
  vis,      (* [Syntheses -> Visibility]                                    *)
  inputs,   (* [Syntheses -> SUBSET Syntheses]: parent and prerequisites    *)
  members,  (* [Syntheses -> SUBSET Claims]: synthesis_claim_membership     *)
  ended,    (* SUBSET Syntheses: rows with a final status                   *)
  rows,     (* [Syntheses -> [Tables -> Visibility or "none"]]: the         *)
            (* visibility the derived rows of a table carry                 *)
  tx,       (* the open transaction: an operation, or NoTx                  *)
  raced,    (* history: visibility or members changed while tx was open     *)
  strays,   (* history: syntheses whose derived rows came from a raced tx   *)
  ops       (* operations so far (bound only)                               *)

vars == <<pub, there, vis, inputs, members, ended, rows, tx, raced, strays, ops>>

Syntheses  == 1..N
Visibility == {"public", "group"}
\* Two of the six derived tables; the others behave as one of these.
Tables == {"membership", "clusters"}

\* tables: the tables whose rows a change of visibility reaches.
Operations ==
  [op : {"create"}, s : Syntheses, vis : Visibility, inputs : SUBSET Syntheses]
  \cup [op : {"attach"}, s : Syntheses, vis : Visibility, members : SUBSET Claims,
        tables : SUBSET Tables]
  \cup [op : {"cluster"}, s : Syntheses, vis : Visibility]
  \cup [op : {"end", "turn"}, s : Syntheses, vis : Visibility, tables : SUBSET Tables]

Init ==
  /\ pub     \in SUBSET Claims
  /\ there   = {}
  /\ vis     = [s \in Syntheses |-> "group"]
  /\ inputs  = [s \in Syntheses |-> {}]
  /\ members = [s \in Syntheses |-> {}]
  /\ ended   = {}
  /\ rows    = [s \in Syntheses |-> [t \in Tables |-> "none"]]
  /\ tx      = NoTx
  /\ raced   = FALSE
  /\ strays  = {}
  /\ ops     = 0

-----------------------------------------------------------------------------
\* What the triggers read.
PublicRow(p) == p \in there /\ vis[p] = "public"

\* episcience_synthesis_is_publishable
Publishable(s) == members[s] \subseteq pub /\ \A p \in inputs[s] : PublicRow(p)

\* tenancy_10_require: a row whose inputs are not public is born `group`.
BornAs(v, ins) == IF \A p \in ins : PublicRow(p) THEN v ELSE "group"

\* The transactions a session may run, with what their triggers read:
\* POST /syntheses, and the refinement of a rejected synthesis.
Create(s, v, ins) ==
  [op |-> "create", s |-> s, vis |-> BornAs(v, ins), inputs |-> ins]

\* A slip: derived rows keep the pair they were born with.
ReachedNone(s, v) == {}

\* tenancy_90_propagate: the tables whose committed rows must change to v.
Reached(s, v) == {t \in Tables : v # vis[s] /\ rows[s][t] \notin {"none", v}}

\* A slip: a private member narrows nothing.
AttachedUnjudged(s, M) == vis[s]

\* tenancy_50_narrow_parent: a private member narrows the row as it attaches.
AttachedAs(s, M) == IF M \subseteq pub THEN vis[s] ELSE "group"

\* Stage 2 saves the snapshot on the synthesis row, deletes the old membership
\* and inserts the new one.
Attach(s, M) ==
  [op |-> "attach", s |-> s, vis |-> AttachedAs(s, M), members |-> M,
   tables |-> Reached(s, AttachedAs(s, M))]

\* Stage 3 replaces the clusters; they take the pair their trigger reads
\* (tenancy_10_inherit) and nothing holds the synthesis row.
Cluster(s) == [op |-> "cluster", s |-> s, vis |-> vis[s]]

\* tenancy_45_publish_rule: a status change narrows what is not publishable.
End(s) ==
  LET v == IF Publishable(s) THEN vis[s] ELSE "group"
  IN  [op |-> "end", s |-> s, vis |-> v, tables |-> Reached(s, v)]

Turn(s, v) == [op |-> "turn", s |-> s, vis |-> v, tables |-> Reached(s, v)]

\* tenancy_40_widening_guard: set_visibility_as always raises the interlock.
WideningAllowed(s) == Publishable(s)

Offered ==
  {Create(Cardinality(there) + 1, v, ins) :
     v \in Visibility, ins \in IF Cardinality(there) < N THEN SUBSET there ELSE {}}
  \cup {Attach(s, M) : s \in there \ ended, M \in SUBSET (OwnClaims \cup pub)}
  \cup {Cluster(s) : s \in there \ ended}
  \cup {End(s) : s \in there \ ended}
  \cup {Turn(s, "group") : s \in {r \in there : vis[r] = "public"}}
  \cup {Turn(s, "public") : s \in {r \in there : vis[r] = "group" /\ WideningAllowed(r)}}

-----------------------------------------------------------------------------
HoldsRow(o) == o.op \in {"attach", "end", "turn"}
\* Whether o writes clusters or changes the visibility they must carry.
Affects(o)  == o.op = "cluster" \/ o.vis # vis[o.s]

\* What makes o wait for the open transaction: the synthesis row, the clusters
\* that transaction has changed, or the job's own earlier stage.
Waits(o) ==
  /\ tx # NoTx /\ tx.s = o.s
  /\ \/ tx.op = "create"
     \/ HoldsRow(tx) /\ HoldsRow(o)
     \/ o.op = "cluster" /\ (tx.op \in {"attach", "cluster"} \/ "clusters" \in tx.tables)
     \/ tx.op = "cluster" /\ o.op = "attach"

\* The open transaction has deleted the clusters of s: a propagation to them
\* waits for it, then finds fewer rows than it counted and refuses.
Refused(s, v) ==
  tx # NoTx /\ tx.s = s /\ tx.op = "cluster" /\ "clusters" \in Reached(s, v)

\* What committing o does.
Apply(o) ==
  \/ /\ o.op = "create"
     /\ there'  = there \cup {o.s}
     /\ vis'    = [vis EXCEPT ![o.s] = o.vis]
     /\ inputs' = [inputs EXCEPT ![o.s] = o.inputs]
     /\ UNCHANGED <<members, ended, rows>>
  \/ /\ o.op = "cluster"
     /\ rows' = [rows EXCEPT ![o.s]["clusters"] = o.vis]
     /\ UNCHANGED <<there, vis, inputs, members, ended>>
  \/ /\ HoldsRow(o)
     /\ vis'  = [vis EXCEPT ![o.s] = o.vis]
     /\ rows' = [rows EXCEPT ![o.s] = [t \in Tables |->
                   IF o.op = "attach" /\ t = "membership"
                   THEN IF o.members = {} THEN "none" ELSE o.vis
                   ELSE IF t \in o.tables THEN o.vis ELSE @[t]]]
     /\ members' = IF o.op = "attach" THEN [members EXCEPT ![o.s] = o.members] ELSE members
     /\ ended'   = IF o.op = "end" THEN ended \cup {o.s} ELSE ended
     /\ UNCHANGED <<there, inputs>>

Counted == ops < MaxOps /\ ops' = ops + 1
\* Bookkeeping of a step that changes something, the synthesis rows S among
\* it, while tx stays open.
Meanwhile(S) ==
  /\ raced'  = (tx # NoTx)
  /\ strays' = IF tx # NoTx /\ tx.s \in S /\ Affects(tx) THEN strays \cup {tx.s} ELSE strays
  /\ UNCHANGED tx

\* A transaction begins and commits with nothing in between.
AtOnce(o) ==
  /\ Counted
  /\ ~Waits(o) /\ ~Refused(o.s, o.vis)
  /\ Apply(o)
  /\ Meanwhile(IF Affects(o) THEN {o.s} ELSE {})
  /\ UNCHANGED pub

Begin(o) ==
  /\ Counted
  /\ tx = NoTx /\ tx' = o
  /\ UNCHANGED <<pub, there, vis, inputs, members, ended, rows, raced, strays>>

Commit ==
  /\ tx # NoTx
  /\ Apply(tx)
  /\ tx' = NoTx /\ raced' = FALSE
  /\ UNCHANGED <<pub, strays, ops>>

Rollback ==
  /\ tx # NoTx
  /\ tx' = NoTx /\ raced' = FALSE
  /\ UNCHANGED <<pub, there, vis, inputs, members, ended, rows, strays, ops>>

\* The kernel changes a claim's visibility.
ClaimTurns(c) ==
  /\ Counted
  /\ pub' = IF c \in pub THEN pub \ {c} ELSE pub \cup {c}
  /\ Meanwhile({})
  /\ UNCHANGED <<there, vis, inputs, members, ended, rows>>

\* A slip: only what a row is built on counts.
ToNarrowOrphans(X) ==
  {s \in there \ X : /\ vis[s] = "public" /\ ~Refused(s, "group")
                     /\ \E p \in inputs[s] : ~PublicRow(p) \/ p \in X}

\* Public rows of one pass of the sweep, after the earlier ones narrowed X.
ToNarrow(X) ==
  {s \in there \ X : /\ vis[s] = "public" /\ ~Refused(s, "group")
                     /\ (~Publishable(s) \/ inputs[s] \cap X # {})}

\* A slip: one pass.
SweptInOnePass == ToNarrow({})

\* The passes repeat until one narrows nothing.  As a larger X narrows no less,
\* that leaves the smallest set that such a pass adds nothing to.
Swept == {s \in there : \A X \in SUBSET there : ToNarrow(X) \subseteq X => s \in X}

\* episcience_maint_sweep_narrowed, as one step.
Sweep ==
  /\ UNCHANGED <<pub, there, inputs, members, ended, tx, ops>>
  /\ tx # NoTx => ~HoldsRow(tx)
  /\ vis'  = [s \in Syntheses |-> IF s \in Swept THEN "group" ELSE vis[s]]
  /\ rows' = [s \in Syntheses |-> [t \in Tables |->
                IF s \in Swept /\ t \in Reached(s, "group") THEN "group" ELSE rows[s][t]]]
  /\ Meanwhile(Swept)

Sessions == (\E o \in Offered : AtOnce(o) \/ Begin(o)) \/ Commit \/ Rollback
World    == \E c \in Claims : ClaimTurns(c)
Next     == Sessions \/ World \/ Sweep

Spec == Init /\ [][Next]_vars
\* Transactions end; the maintenance timer runs the sweep again and again.
FairSpec == Spec /\ WF_vars(Commit \/ Rollback) /\ WF_vars(Sweep)

-----------------------------------------------------------------------------
\* Types, and what pins the shape of the graph: a synthesis builds only on
\* rows that were there before it.
TenancyTypeOK ==
  /\ pub \subseteq Claims
  /\ there = 1..Cardinality(there) /\ there \subseteq Syntheses
  /\ vis \in [Syntheses -> Visibility]
  /\ inputs \in [Syntheses -> SUBSET Syntheses]
  /\ \A s \in Syntheses : inputs[s] \subseteq 1..(s - 1)
  /\ members \in [Syntheses -> SUBSET Claims]
  /\ ended \subseteq there
  /\ rows \in [Syntheses -> [Tables -> Visibility \cup {"none"}]]
  /\ tx \in Operations \cup {NoTx}
  /\ raced \in BOOLEAN /\ strays \subseteq Syntheses
  /\ ops \in 0..MaxOps

Exposed(s) ==
  /\ s \in there /\ vis[s] = "public"
  /\ members[s] \ pub # {} \/ \E p \in inputs[s] : vis[p] # "public"

\* An input of s turns private, or a transaction commits over such a change.
InputTurns(s) ==
  \/ \E c \in members[s] : c \in pub /\ c \notin pub'
  \/ \E p \in inputs[s] : vis[p] = "public" /\ vis'[p] = "group"
  \/ tx # NoTx /\ tx' = NoTx /\ raced

\* The guards leave one way to a public synthesis with a private input: the
\* input itself turns private after the row was judged (5035, 6b: born,
\* attached, ended and widened rows are all judged), out of band or while the
\* judging transaction is still open.
OnlyTurnsExpose ==
  [][\A s \in Syntheses : Exposed(s)' /\ ~Exposed(s) => InputTurns(s)]_vars

\* A derived row carries its parent's pair (5035: tenancy_10_inherit and
\* tenancy_90_propagate), except where its insert and a change of the parent
\* ran at the same time.
DerivedFollowParent ==
  \A s \in there \ strays, t \in Tables : rows[s][t] \in {"none", vis[s]}

\* A sweep leaves no public synthesis with a private input, however long the
\* chain of syntheses built on it, but one whose narrowing is refused.
SweepLeavesNone ==
  [][Sweep => \A s \in Syntheses :
       Exposed(s)' => Refused(s, "group")]_vars

\* Once users and the kernel stop changing things, every public synthesis has
\* public inputs only, whatever raced before.
ExposureEnds == <>[](\A s \in Syntheses : ~Exposed(s))
=============================================================================
