--------------------------- MODULE Tenancy_proofs ---------------------------
(***************************************************************************)
(* What holds of the visibility of syntheses for any number of syntheses,  *)
(* claims and operations.  Until something else happens an open            *)
(* transaction is one a session could still begin (Fresh); afterwards      *)
(* TxInv says what is left of what it read.  Neither needs to know which   *)
(* rows a sweep narrows.                                                   *)
(***************************************************************************)
EXTENDS Tenancy, FiniteSetTheorems, TLAPS

\* A transaction creates the next synthesis, or is about one that is there.
Placed(o) ==
  /\ o.op = "create" => o.s = Cardinality(there) + 1 /\ o.inputs \subseteq there
  /\ o.op # "create" => o.s \in there

\* The derived rows it leaves carry the visibility it leaves.
Sound(o) ==
  /\ o.op = "cluster" => o.vis = vis[o.s]
  /\ HoldsRow(o) => \A t \in Tables \ o.tables : rows[o.s][t] \in {"none", o.vis}

\* Both hold of the open transaction until its commit, unless a concurrent
\* change has made its synthesis a stray.
TxInv == tx # NoTx => Placed(tx) /\ (tx.s \notin strays => Sound(tx))

\* A synthesis that is not there has no members and no derived rows.
NoRowsBefore ==
  \A s \in Syntheses \ there : members[s] = {} /\ \A t \in Tables : rows[s][t] = "none"

\* While nothing else has happened, the open transaction is what a session
\* could begin now.
Fresh == tx # NoTx /\ ~raced => tx \in Offered

TenancyInv == TenancyTypeOK /\ TxInv /\ NoRowsBefore /\ DerivedFollowParent /\ Fresh

-----------------------------------------------------------------------------
\* Ids are handed out in order.
LEMMA NextIsNew ==
  ASSUME TenancyTypeOK
  PROVE  /\ Cardinality(there) \in 0..N /\ Cardinality(there) + 1 \notin there
         /\ there \in SUBSET Syntheses
<1>1. there \subseteq Syntheses /\ there = 1..Cardinality(there)
  BY DEF TenancyTypeOK
<1>2. IsFiniteSet(Syntheses) /\ Cardinality(Syntheses) = N
  BY FS_Interval, TenancyAssumption DEF Syntheses
<1>3. IsFiniteSet(there) /\ Cardinality(there) <= N /\ Cardinality(there) \in Nat
  BY <1>1, <1>2, FS_Subset, FS_CardinalityType
<1>4. QED
  BY <1>1, <1>3, TenancyAssumption

\* What the triggers have judged of a transaction as it is offered.
Judged(o) ==
  /\ o \in Operations
  /\ o.op = "create" =>
       /\ o.s = Cardinality(there) + 1 /\ o.s \notin there
       /\ o.inputs \subseteq there
       /\ o.vis = "public" => \A p \in o.inputs : PublicRow(p)
  /\ o.op # "create" => o.s \in there
  /\ o.op = "cluster" => o.vis = vis[o.s]
  /\ HoldsRow(o) => o.tables = Reached(o.s, o.vis)
  /\ o.op = "attach" /\ o.vis = "public" => vis[o.s] = "public" /\ o.members \subseteq pub
  /\ o.op \in {"end", "turn"} /\ o.vis = "public" => Publishable(o.s)

LEMMA OffersAreJudged ==
  ASSUME TenancyTypeOK, NEW o \in Offered
  PROVE  Judged(o)
<1> USE DEF Operations
<1>t. /\ there \in SUBSET Syntheses /\ \A s \in there : vis[s] \in Visibility
      /\ pub \cup OwnClaims \subseteq Claims
  BY NextIsNew, TenancyAssumption DEF TenancyTypeOK
<1>r. \A s, v : Reached(s, v) \in SUBSET Tables
  BY DEF Reached
<1>1. CASE \E v \in Visibility : \E ins \in SUBSET there :
             o = Create(Cardinality(there) + 1, v, ins) /\ Cardinality(there) < N
  <2>1. PICK v \in Visibility, ins \in SUBSET there :
          o = Create(Cardinality(there) + 1, v, ins) /\ Cardinality(there) < N
    BY <1>1
  <2>2. Cardinality(there) + 1 \in Syntheses /\ Cardinality(there) + 1 \notin there
    BY <2>1, NextIsNew, TenancyAssumption DEF Syntheses
  <2>3. BornAs(v, ins) \in Visibility /\ (BornAs(v, ins) = "public" => \A p \in ins : PublicRow(p))
    BY DEF BornAs, Visibility
  <2>4. QED
    BY <1>t, <2>1, <2>2, <2>3 DEF Create, Judged, HoldsRow
<1>2. CASE \E s \in there \ ended : \E M \in SUBSET (OwnClaims \cup pub) : o = Attach(s, M)
  <2>1. PICK s \in there \ ended, M \in SUBSET (OwnClaims \cup pub) : o = Attach(s, M)
    BY <1>2
  <2>2. AttachedAs(s, M) \in Visibility
    BY <1>t DEF AttachedAs, Visibility
  <2>3. AttachedAs(s, M) = "public" => vis[s] = "public" /\ M \subseteq pub
    BY DEF AttachedAs
  <2>4. QED
    BY <1>t, <1>r, <2>1, <2>2, <2>3 DEF Attach, Judged, HoldsRow
<1>3. CASE \E s \in there : o = Cluster(s)
  BY <1>t, <1>3 DEF Cluster, Judged, HoldsRow
<1>4. CASE \E s \in there : o = End(s)
  <2>1. PICK s \in there : o = End(s)
    BY <1>4
  <2> DEFINE v == IF Publishable(s) THEN vis[s] ELSE "group"
  <2>2. v \in Visibility /\ (v = "public" => Publishable(s))
    BY <1>t DEF Visibility
  <2>3. o = [op |-> "end", s |-> s, vis |-> v, tables |-> Reached(s, v)]
    BY <2>1 DEF End
  <2> HIDE DEF v
  <2>4. QED
    BY <1>t, <1>r, <2>1, <2>2, <2>3 DEF Judged, HoldsRow
<1>5. CASE \E s \in there : o = Turn(s, "group") \/ (o = Turn(s, "public") /\ Publishable(s))
  BY <1>t, <1>r, <1>5 DEF Turn, Judged, HoldsRow, Visibility
<1>6. QED
  BY <1>1, <1>2, <1>3, <1>4, <1>5 DEF Offered, WideningAllowed

LEMMA JudgedIsSound ==
  ASSUME TenancyTypeOK, DerivedFollowParent, NEW o, Judged(o)
  PROVE  Placed(o) /\ (o.s \notin strays => Sound(o))
<1>1. Placed(o)
  BY DEF Judged, Placed
<1>2. ASSUME o.s \notin strays, HoldsRow(o), NEW t \in Tables \ o.tables
      PROVE  rows[o.s][t] \in {"none", o.vis}
  <2>1. o.s \in there /\ t \notin Reached(o.s, o.vis)
    BY <1>2 DEF Judged, HoldsRow
  <2>2. rows[o.s][t] \in {"none", vis[o.s]}
    BY <1>2, <2>1 DEF DerivedFollowParent
  <2>3. QED
    BY <2>1, <2>2 DEF Reached
<1>3. QED
  BY <1>1, <1>2 DEF Sound, Judged

\* What a commit does to the synthesis it is about, and to the others.
LEMMA Applying ==
  ASSUME TenancyTypeOK, NoRowsBefore, NEW o \in Operations, Placed(o), Apply(o)
  PROVE  /\ there' = 1..Cardinality(there') /\ there' \subseteq Syntheses
         /\ vis' \in [Syntheses -> Visibility]
         /\ inputs' \in [Syntheses -> SUBSET Syntheses]
         /\ \A s \in Syntheses : inputs'[s] \subseteq 1..(s - 1)
         /\ members' \in [Syntheses -> SUBSET Claims] /\ ended' \subseteq there'
         /\ rows' \in [Syntheses -> [Tables -> Visibility \cup {"none"}]]
         /\ NoRowsBefore' /\ there \subseteq there'
         /\ o.op # "create" => there' = there
         /\ \A s \in Syntheses \ {o.s} :
              /\ vis'[s] = vis[s] /\ rows'[s] = rows[s] /\ (s \in there' => s \in there)
              /\ inputs'[s] = inputs[s] /\ members'[s] = members[s]
         /\ Sound(o) /\ (\A t \in Tables : rows[o.s][t] \in {"none", vis[o.s]}) =>
              \A t \in Tables : rows'[o.s][t] \in {"none", vis'[o.s]}
<1> USE DEF TenancyTypeOK
<1>t. o.s \in Syntheses /\ o.vis \in Visibility
  BY DEF Operations
<1>n. Cardinality(there) \in 0..N /\ Cardinality(there) + 1 \notin there /\ there \subseteq Syntheses
  BY NextIsNew
<1>1. CASE o.op = "create"
  <2>1. /\ there' = there \cup {o.s}
        /\ vis' = [vis EXCEPT ![o.s] = o.vis] /\ inputs' = [inputs EXCEPT ![o.s] = o.inputs]
        /\ UNCHANGED <<members, ended, rows>>
    BY <1>1 DEF Apply, HoldsRow
  <2>2. o.s = Cardinality(there) + 1 /\ o.s \notin there /\ o.inputs \subseteq there
    BY <1>1, <1>n DEF Placed
  <2>3. there' = 1..o.s /\ Cardinality(there') = o.s
    <3>1. there' = 1..o.s
      BY <1>n, <2>1, <2>2
    <3>2. QED
      BY <1>n, <2>2, <3>1, FS_Interval
  <2>4. /\ inputs' \in [Syntheses -> SUBSET Syntheses]
        /\ \A s \in Syntheses : inputs'[s] \subseteq 1..(s - 1)
    <3>1. there = 1..(o.s - 1)
      BY <1>n, <2>2
    <3>2. QED
      BY <1>n, <1>t, <2>1, <2>2, <3>1
  <2>5. QED
    BY <1>1, <1>t, <2>1, <2>2, <2>3, <2>4 DEF NoRowsBefore
<1>2. CASE o.op = "cluster"
  <2>1. /\ rows' = [rows EXCEPT ![o.s]["clusters"] = o.vis]
        /\ UNCHANGED <<there, vis, inputs, members, ended>>
    BY <1>2 DEF Apply, HoldsRow
  <2>2. o.s \in there
    BY <1>2 DEF Placed
  <2>3. rows' = [rows EXCEPT ![o.s] = [rows[o.s] EXCEPT !["clusters"] = o.vis]]
    BY <2>1
  <2>4. [rows[o.s] EXCEPT !["clusters"] = o.vis] \in [Tables -> Visibility \cup {"none"}]
    BY <1>t DEF Tables
  <2>5. /\ rows' \in [Syntheses -> [Tables -> Visibility \cup {"none"}]]
        /\ \A s \in Syntheses \ {o.s} : rows'[s] = rows[s]
    BY <1>t, <2>3, <2>4
  <2>6. NoRowsBefore'
    BY <2>1, <2>2, <2>5 DEF NoRowsBefore
  <2>7. ASSUME Sound(o), \A t \in Tables : rows[o.s][t] \in {"none", vis[o.s]}
        PROVE  \A t \in Tables : rows'[o.s][t] \in {"none", vis'[o.s]}
    <3>1. o.vis = vis[o.s]
      BY <1>2, <2>7 DEF Sound
    <3>2. rows'[o.s] = [rows[o.s] EXCEPT !["clusters"] = o.vis]
      BY <1>t, <2>3
    <3>3. QED
      BY <1>t, <2>1, <2>7, <3>1, <3>2
  <2>8. QED
    BY <1>2, <1>n, <2>1, <2>5, <2>6, <2>7
<1>3. CASE HoldsRow(o)
  <2> DEFINE row == [t \in Tables |->
                   IF o.op = "attach" /\ t = "membership"
                   THEN IF o.members = {} THEN "none" ELSE o.vis
                   ELSE IF t \in o.tables THEN o.vis ELSE rows[o.s][t]]
  <2>1. /\ vis' = [vis EXCEPT ![o.s] = o.vis]
        /\ rows' = [rows EXCEPT ![o.s] = row]
        /\ members' = IF o.op = "attach" THEN [members EXCEPT ![o.s] = o.members] ELSE members
        /\ ended'   = IF o.op = "end" THEN ended \cup {o.s} ELSE ended
        /\ UNCHANGED <<there, inputs>>
    BY <1>3 DEF Apply, HoldsRow
  <2>2. o.s \in there /\ o.op # "create"
    BY <1>3 DEF Placed, HoldsRow
  <2>3. row \in [Tables -> Visibility \cup {"none"}]
    BY <1>t
  <2>4. Sound(o) => \A t \in Tables : row[t] \in {"none", o.vis}
    BY <1>3 DEF Sound
  <2>5. o.op = "attach" => o.members \in SUBSET Claims
    BY DEF Operations
  <2> HIDE DEF row
  <2>6. /\ rows' \in [Syntheses -> [Tables -> Visibility \cup {"none"}]]
        /\ rows'[o.s] = row /\ vis'[o.s] = o.vis
        /\ \A s \in Syntheses \ {o.s} : rows'[s] = rows[s]
    BY <1>t, <2>1, <2>3
  <2>7. /\ members' \in [Syntheses -> SUBSET Claims]
        /\ \A s \in Syntheses \ {o.s} : members'[s] = members[s] /\ vis'[s] = vis[s]
    BY <1>t, <2>1, <2>5
  <2>8. NoRowsBefore'
    BY <2>1, <2>2, <2>6, <2>7 DEF NoRowsBefore
  <2>9. QED
    BY <1>n, <1>t, <2>1, <2>2, <2>4, <2>6, <2>7, <2>8
<1>4. QED
  BY <1>1, <1>2, <1>3 DEF Apply

-----------------------------------------------------------------------------
\* A transaction that commits at once.
LEMMA CommittingAtOnce ==
  ASSUME TenancyInv, NEW o \in Offered, AtOnce(o)
  PROVE  TenancyInv'
<1>1. Judged(o) /\ Placed(o) /\ (o.s \notin strays => Sound(o)) /\ o \in Operations
  BY OffersAreJudged, JudgedIsSound DEF TenancyInv, Judged
<1>2. /\ ~Waits(o) /\ Apply(o) /\ UNCHANGED <<pub, tx>> /\ raced' = (tx # NoTx)
      /\ ops' \in 0..MaxOps
      /\ strays' = IF tx # NoTx /\ Affects(o) /\ tx.s = o.s /\ Affects(tx)
                   THEN strays \cup {tx.s} ELSE strays
  BY TenancyAssumption DEF AtOnce, Meanwhile, Counted, TenancyInv, TenancyTypeOK
<1> DEFINE Kept(s) == /\ vis'[s] = vis[s] /\ rows'[s] = rows[s] /\ (s \in there' => s \in there)
                      /\ inputs'[s] = inputs[s] /\ members'[s] = members[s]
<1>3. /\ there' = 1..Cardinality(there') /\ there' \subseteq Syntheses
      /\ vis' \in [Syntheses -> Visibility]
      /\ inputs' \in [Syntheses -> SUBSET Syntheses]
      /\ \A s \in Syntheses : inputs'[s] \subseteq 1..(s - 1)
      /\ members' \in [Syntheses -> SUBSET Claims] /\ ended' \subseteq there'
      /\ rows' \in [Syntheses -> [Tables -> Visibility \cup {"none"}]]
      /\ NoRowsBefore' /\ there \subseteq there'
      /\ o.op # "create" => there' = there
      /\ \A s \in Syntheses \ {o.s} : Kept(s)
      /\ Sound(o) /\ (\A t \in Tables : rows[o.s][t] \in {"none", vis[o.s]}) =>
           \A t \in Tables : rows'[o.s][t] \in {"none", vis'[o.s]}
  BY <1>1, <1>2, Applying DEF TenancyInv
<1>4. tx # NoTx => tx \in Operations /\ tx.s \in Syntheses
  BY DEF TenancyInv, TenancyTypeOK, Operations
<1>5. TenancyTypeOK'
  BY <1>2, <1>3, <1>4 DEF TenancyInv, TenancyTypeOK
<1>6. DerivedFollowParent'
  <2> SUFFICES ASSUME NEW s \in there' \ strays', NEW t \in Tables
               PROVE  rows'[s][t] \in {"none", vis'[s]}
    BY DEF DerivedFollowParent
  <2>1. s \in Syntheses /\ s \notin strays
    BY <1>2, <1>3
  <2>2. CASE s # o.s
    BY <1>3, <2>1, <2>2 DEF TenancyInv, DerivedFollowParent
  <2>3. CASE s = o.s
    <3>1. \A u \in Tables : rows[s][u] \in {"none", vis[s]}
      BY <2>1 DEF TenancyInv, DerivedFollowParent, NoRowsBefore
    <3>2. QED
      BY <1>1, <1>3, <2>1, <2>3, <3>1
  <2>4. QED
    BY <2>2, <2>3
<1>7. TxInv'
  <2> SUFFICES ASSUME tx # NoTx
               PROVE  Placed(tx)' /\ (tx.s \notin strays' => Sound(tx)')
    BY <1>2 DEF TxInv
  <2>1. Placed(tx) /\ (tx.s \notin strays => Sound(tx))
    BY DEF TenancyInv, TxInv
  <2>2. tx.op = "create" => o.op # "create"
    BY <1>1, <1>2, <2>1 DEF Waits, Placed
  <2>3. Placed(tx)'
    BY <1>2, <1>3, <2>1, <2>2 DEF Placed
  <2>4. ASSUME tx.s \notin strays' PROVE Sound(tx)'
    <3>1. Sound(tx)
      BY <1>2, <2>1, <2>4
    <3>2. CASE tx.s # o.s
      <4>1. vis'[tx.s] = vis[tx.s] /\ rows'[tx.s] = rows[tx.s]
        BY <1>3, <1>4, <3>2
      <4>2. QED
        BY <1>2, <3>1, <4>1 DEF Sound, HoldsRow
    <3>3. CASE tx.s = o.s /\ tx.op = "cluster"
      <4>1. ~Affects(o)
        BY <1>2, <2>4, <3>3 DEF Affects
      <4>2. o.op # "create"
        BY <1>1, <2>1, <3>3, NextIsNew DEF Placed, TenancyInv
      <4>3. vis' = [vis EXCEPT ![o.s] = o.vis] /\ o.vis = vis[o.s]
        BY <1>2, <4>1, <4>2 DEF Apply, Affects
      <4>4. vis'[tx.s] = vis[tx.s]
        BY <1>4, <3>3, <4>3 DEF TenancyInv, TenancyTypeOK
      <4>5. QED
        BY <1>2, <3>1, <3>3, <4>4 DEF Sound, HoldsRow
    <3>4. CASE tx.s = o.s /\ HoldsRow(tx)
      <4>1. o.op = "cluster" /\ o.vis = vis[o.s]
        <5>1. ~HoldsRow(o)
          BY <1>2, <3>4 DEF Waits
        <5>2. o.op # "create"
          BY <1>1, <2>1, <3>4, NextIsNew DEF Placed, HoldsRow, TenancyInv
        <5>3. QED
          BY <1>1, <1>2, <5>1, <5>2 DEF Apply, Judged
      <4>2. tx.vis = vis[tx.s]
        BY <1>2, <2>4, <3>4, <4>1 DEF Affects
      <4>3. rows' = [rows EXCEPT ![o.s]["clusters"] = o.vis] /\ vis' = vis
        BY <1>2, <4>1 DEF Apply, HoldsRow
      <4>4. \A t \in Tables : rows'[tx.s][t] \in {rows[tx.s][t], tx.vis}
        BY <1>4, <3>4, <4>1, <4>2, <4>3 DEF TenancyInv, TenancyTypeOK, Tables
      <4>5. QED
        BY <1>2, <3>1, <3>4, <4>4 DEF Sound, HoldsRow
    <3>5. CASE tx.op = "create"
      BY <1>2, <3>5 DEF Sound, HoldsRow
    <3>6. QED
      BY <1>4, <3>2, <3>3, <3>4, <3>5 DEF Operations, HoldsRow
  <2>5. QED
    BY <2>3, <2>4
<1>8. Fresh'
  BY <1>2 DEF Fresh
<1>9. QED
  BY <1>3, <1>5, <1>6, <1>7, <1>8 DEF TenancyInv

\* The open transaction commits, whatever has happened since it began.
LEMMA CommittingTx ==
  ASSUME TenancyInv, Commit
  PROVE  TenancyInv'
<1>1. /\ tx # NoTx /\ Apply(tx) /\ tx' = NoTx /\ raced' = FALSE /\ UNCHANGED <<pub, strays, ops>>
      /\ tx \in Operations /\ Placed(tx) /\ (tx.s \notin strays => Sound(tx))
  BY DEF Commit, TenancyInv, TenancyTypeOK, TxInv
<1>2. /\ there' = 1..Cardinality(there') /\ there' \subseteq Syntheses
      /\ vis' \in [Syntheses -> Visibility]
      /\ inputs' \in [Syntheses -> SUBSET Syntheses]
      /\ \A s \in Syntheses : inputs'[s] \subseteq 1..(s - 1)
      /\ members' \in [Syntheses -> SUBSET Claims] /\ ended' \subseteq there'
      /\ rows' \in [Syntheses -> [Tables -> Visibility \cup {"none"}]]
      /\ NoRowsBefore'
      /\ \A s \in Syntheses \ {tx.s} :
           vis'[s] = vis[s] /\ rows'[s] = rows[s] /\ (s \in there' => s \in there)
      /\ Sound(tx) /\ (\A t \in Tables : rows[tx.s][t] \in {"none", vis[tx.s]}) =>
           \A t \in Tables : rows'[tx.s][t] \in {"none", vis'[tx.s]}
  BY <1>1, Applying DEF TenancyInv
<1>3. TenancyTypeOK'
  BY <1>1, <1>2 DEF TenancyInv, TenancyTypeOK
<1>4. DerivedFollowParent'
  <2> SUFFICES ASSUME NEW s \in there' \ strays, NEW t \in Tables
               PROVE  rows'[s][t] \in {"none", vis'[s]}
    BY <1>1 DEF DerivedFollowParent
  <2>1. CASE s # tx.s
    BY <1>2, <2>1 DEF TenancyInv, DerivedFollowParent
  <2>2. CASE s = tx.s
    <3>1. \A u \in Tables : rows[s][u] \in {"none", vis[s]}
      BY <1>2 DEF TenancyInv, DerivedFollowParent, NoRowsBefore
    <3>2. QED
      BY <1>1, <1>2, <2>2, <3>1
  <2>3. QED
    BY <2>1, <2>2
<1>5. TxInv' /\ Fresh'
  BY <1>1 DEF TxInv, Fresh
<1>6. QED
  BY <1>2, <1>3, <1>4, <1>5 DEF TenancyInv

\* A transaction begins or is rolled back: nothing is committed.
LEMMA Opening ==
  ASSUME TenancyInv, (\E o \in Offered : Begin(o)) \/ Rollback
  PROVE  TenancyInv'
<1>1. CASE \E o \in Offered : Begin(o)
  <2>1. PICK o \in Offered : Begin(o)
    BY <1>1
  <2>2. /\ tx' = o /\ UNCHANGED <<pub, there, vis, inputs, members, ended, rows, raced, strays>>
        /\ ops' \in 0..MaxOps
    BY <2>1, TenancyAssumption DEF Begin, Counted, TenancyInv, TenancyTypeOK
  <2>3. o \in Operations /\ Placed(o) /\ (o.s \notin strays => Sound(o))
    BY OffersAreJudged, JudgedIsSound DEF TenancyInv, Judged
  <2>4. TenancyTypeOK' /\ NoRowsBefore' /\ DerivedFollowParent'
    BY <2>2, <2>3 DEF TenancyInv, TenancyTypeOK, NoRowsBefore, DerivedFollowParent
  <2>5. TxInv'
    BY <2>2, <2>3 DEF TxInv, Placed, Sound, HoldsRow
  <2>6. Offered' = Offered
    BY <2>2 DEF Offered, Create, BornAs, PublicRow, Attach, AttachedAs, Reached, Cluster, End,
                Publishable, Turn, WideningAllowed
  <2>7. QED
    BY <2>2, <2>4, <2>5, <2>6 DEF TenancyInv, Fresh
<1>2. CASE Rollback
  BY <1>2 DEF Rollback, TenancyInv, TenancyTypeOK, TxInv, NoRowsBefore, DerivedFollowParent, Fresh
<1>3. QED
  BY <1>1, <1>2

LEMMA Turning ==
  ASSUME TenancyInv, NEW c \in Claims, ClaimTurns(c)
  PROVE  TenancyInv'
<1>1. /\ UNCHANGED <<there, vis, inputs, members, ended, rows, tx, strays>>
      /\ raced' = (tx # NoTx) /\ ops' \in 0..MaxOps /\ pub' \subseteq Claims
  BY TenancyAssumption DEF ClaimTurns, Meanwhile, Counted, TenancyInv, TenancyTypeOK
<1>2. TenancyTypeOK' /\ NoRowsBefore' /\ DerivedFollowParent' /\ Fresh'
  BY <1>1 DEF TenancyInv, TenancyTypeOK, NoRowsBefore, DerivedFollowParent, Fresh
<1>3. TxInv'
  BY <1>1 DEF TenancyInv, TxInv, Placed, Sound, HoldsRow
<1>4. QED
  BY <1>2, <1>3 DEF TenancyInv

\* Whatever the sweep narrows: the rows that must change do, the others are
\* narrow already.
LEMMA Sweeping ==
  ASSUME TenancyInv, Sweep
  PROVE  TenancyInv'
<1>1. /\ UNCHANGED <<pub, there, inputs, members, ended, tx, ops>>
      /\ tx # NoTx => ~HoldsRow(tx)
      /\ vis'  = [s \in Syntheses |-> IF s \in Swept THEN "group" ELSE vis[s]]
      /\ rows' = [s \in Syntheses |-> [t \in Tables |->
                    IF s \in Swept /\ t \in Reached(s, "group") THEN "group" ELSE rows[s][t]]]
      /\ raced' = (tx # NoTx)
      /\ strays' = IF tx # NoTx /\ tx.s \in Swept /\ Affects(tx) THEN strays \cup {tx.s} ELSE strays
  BY DEF Sweep, Meanwhile
<1>2. tx # NoTx => tx \in Operations /\ tx.s \in Syntheses
  BY DEF TenancyInv, TenancyTypeOK, Operations
<1>3. TenancyTypeOK'
  BY <1>1, <1>2 DEF TenancyInv, TenancyTypeOK, Visibility
<1>4. NoRowsBefore'
  BY <1>1 DEF TenancyInv, NoRowsBefore, Reached
<1>5. DerivedFollowParent'
  <2> SUFFICES ASSUME NEW s \in there \ strays, NEW t \in Tables, s \in Syntheses
               PROVE  rows'[s][t] \in {"none", vis'[s]}
    BY <1>1 DEF DerivedFollowParent, TenancyInv, TenancyTypeOK
  <2>1. rows[s][t] \in {"none", vis[s]}
    BY DEF TenancyInv, DerivedFollowParent
  <2>2. QED
    BY <1>1, <2>1 DEF Reached
<1>6. TxInv'
  <2> SUFFICES ASSUME tx # NoTx PROVE Placed(tx)' /\ (tx.s \notin strays' => Sound(tx)')
    BY <1>1 DEF TxInv
  <2>1. Placed(tx)' /\ ~HoldsRow(tx)
    BY <1>1 DEF TenancyInv, TxInv, Placed
  <2>2. ASSUME tx.s \notin strays', tx.op = "cluster" PROVE tx.vis = vis'[tx.s]
    <3>1. tx.s \notin Swept /\ tx.s \notin strays
      BY <1>1, <2>2 DEF Affects
    <3>2. QED
      BY <1>1, <1>2, <2>2, <3>1 DEF TenancyInv, TxInv, Sound
  <2>3. QED
    BY <1>1, <2>1, <2>2 DEF Sound, HoldsRow
<1>7. Fresh'
  BY <1>1 DEF Fresh
<1>8. QED
  BY <1>3, <1>4, <1>5, <1>6, <1>7 DEF TenancyInv

-----------------------------------------------------------------------------
LEMMA TenancyInvHolds == Spec => []TenancyInv
<1>1. Init => TenancyInv
  <2> SUFFICES ASSUME Init PROVE TenancyInv
    OBVIOUS
  <2>1. there = 1..Cardinality(there) /\ there = {}
    BY FS_EmptySet DEF Init
  <2>2. TenancyTypeOK
    <3>1. there \subseteq Syntheses /\ ended \subseteq there /\ pub \subseteq Claims
      BY DEF Init
    <3>2. vis \in [Syntheses -> Visibility] /\ inputs \in [Syntheses -> SUBSET Syntheses]
      BY DEF Init, Visibility
    <3>3. members \in [Syntheses -> SUBSET Claims]
      BY DEF Init
    <3>4. rows \in [Syntheses -> [Tables -> Visibility \cup {"none"}]]
      BY DEF Init
    <3>5. \A s \in Syntheses : inputs[s] \subseteq 1..(s - 1)
      BY DEF Init
    <3>6. tx \in Operations \cup {NoTx} /\ raced \in BOOLEAN /\ strays \subseteq Syntheses
      BY DEF Init
    <3>7. ops \in 0..MaxOps
      BY TenancyAssumption DEF Init
    <3>8. QED
      BY <2>1, <3>1, <3>2, <3>3, <3>4, <3>5, <3>6, <3>7 DEF TenancyTypeOK
  <2>3. QED
    BY <2>2 DEF Init, TenancyInv, TxInv, NoRowsBefore, DerivedFollowParent, Fresh
<1>2. TenancyInv /\ [Next]_vars => TenancyInv'
  <2> SUFFICES ASSUME TenancyInv, [Next]_vars PROVE TenancyInv'
    OBVIOUS
  <2>1. ASSUME NEW o \in Offered, AtOnce(o) PROVE TenancyInv'
    BY <2>1, CommittingAtOnce
  <2>2. CASE Commit
    BY <2>2, CommittingTx
  <2>3. CASE (\E o \in Offered : Begin(o)) \/ Rollback
    BY <2>3, Opening
  <2>4. CASE World
    BY <2>4, Turning DEF World
  <2>5. CASE Sweep
    BY <2>5, Sweeping
  <2>6. CASE UNCHANGED vars
    <3>1. UNCHANGED <<pub, there, vis, inputs, members, ended, rows, tx, raced, strays, ops>>
      BY <2>6 DEF vars
    <3>2. TenancyTypeOK' /\ NoRowsBefore' /\ DerivedFollowParent'
      BY <3>1 DEF TenancyInv, TenancyTypeOK, NoRowsBefore, DerivedFollowParent
    <3>3. TxInv'
      BY <3>1 DEF TenancyInv, TxInv, Placed, Sound, HoldsRow
    <3>4. Offered' = Offered
      BY <3>1 DEF Offered, Create, BornAs, PublicRow, Attach, AttachedAs, Reached, Cluster, End,
                  Publishable, Turn, WideningAllowed
    <3>5. QED
      BY <3>1, <3>2, <3>3, <3>4 DEF TenancyInv, Fresh
  <2>7. QED
    BY <2>1, <2>2, <2>3, <2>4, <2>5, <2>6 DEF Next, Sessions
<1>3. QED
  BY <1>1, <1>2, PTL DEF Spec

\* Every variable keeps its type, and a synthesis builds on older ones only.
THEOREM TenancyTypeCorrect == Spec => []TenancyTypeOK
BY TenancyInvHolds, PTL DEF TenancyInv

\* Derived rows carry their synthesis's visibility, whatever was open beside
\* what, except where an insert and a change of the synthesis overlapped.
THEOREM DerivedRowsAgree == Spec => []DerivedFollowParent
BY TenancyInvHolds, PTL DEF TenancyInv

-----------------------------------------------------------------------------
\* Committing what the triggers judged just now exposes a synthesis only by
\* making an input of it private.
LEMMA JudgedExposesByTurning ==
  ASSUME TenancyInv, NEW o \in Operations, Judged(o), Placed(o), Apply(o), UNCHANGED pub,
         NEW s \in Syntheses, Exposed(s)', ~Exposed(s)
  PROVE  \E p \in inputs[s] : vis[p] = "public" /\ vis'[p] = "group"
<1> USE DEF TenancyInv, TenancyTypeOK
<1>1. /\ vis' \in [Syntheses -> Visibility]
      /\ o.op # "create" => there' = there
      /\ \A r \in Syntheses \ {o.s} :
           /\ vis'[r] = vis[r] /\ (r \in there' => r \in there)
           /\ inputs'[r] = inputs[r] /\ members'[r] = members[r]
  BY Applying
<1>g. \A r \in Syntheses : inputs'[r] \subseteq 1..(r - 1)
  BY Applying
<1>2. o.s \in Syntheses
  BY DEF Operations
<1>3. s \in there' /\ vis'[s] = "public"
  BY DEF Exposed
<1>4. CASE s # o.s
  BY <1>1, <1>4 DEF Exposed, Visibility
<1>5. CASE s = o.s
  <2>1. \A p \in inputs'[s] : p \in Syntheses /\ p # s /\ vis'[p] = vis[p]
    <3>1. inputs'[s] \subseteq 1..(s - 1) /\ s \in 1..N
      BY <1>g DEF Syntheses
    <3>2. \A p \in inputs'[s] : p \in 1..N /\ p # s
      BY <3>1, TenancyAssumption
    <3>3. QED
      BY <1>1, <1>5, <3>2 DEF Syntheses
  <2>2. CASE o.op = "create"
    <3>1. vis'[s] = o.vis /\ inputs'[s] = o.inputs /\ members'[s] = members[s] /\ s \notin there
      BY <1>2, <1>5, <2>2 DEF Apply, HoldsRow, Judged
    <3>2. members[s] = {} /\ \A p \in o.inputs : vis[p] = "public"
      BY <1>3, <2>2, <3>1 DEF NoRowsBefore, Judged, PublicRow
    <3>3. QED
      BY <2>1, <3>1, <3>2 DEF Exposed
  <2>3. CASE o.op = "cluster"
    BY <2>3 DEF Apply, HoldsRow, Exposed
  <2>4. CASE o.op = "attach"
    <3>1. vis'[s] = o.vis /\ inputs'[s] = inputs[s] /\ members'[s] = o.members
      BY <1>2, <1>5, <2>4 DEF Apply, HoldsRow
    <3>2. s \in there /\ vis[s] = "public" /\ o.members \subseteq pub
      BY <1>3, <1>5, <2>4, <3>1 DEF Judged
    <3>3. QED
      BY <2>1, <3>1, <3>2 DEF Exposed
  <2>5. CASE o.op \in {"end", "turn"}
    <3>1. vis'[s] = o.vis /\ inputs'[s] = inputs[s] /\ members'[s] = members[s]
      BY <1>2, <1>5, <2>5 DEF Apply, HoldsRow
    <3>2. Publishable(s)
      BY <1>3, <1>5, <2>5, <3>1 DEF Judged
    <3>3. QED
      BY <2>1, <3>1, <3>2 DEF Exposed, Publishable, PublicRow
  <2>6. QED
    BY <2>2, <2>3, <2>4, <2>5 DEF Operations
<1>6. QED
  BY <1>4, <1>5

\* The same of every step: only an input that turns private, out of band or
\* under an open transaction, leaves a public synthesis with a private input.
LEMMA StepExposesByTurning ==
  ASSUME TenancyInv, Next, NEW s \in Syntheses, Exposed(s)', ~Exposed(s)
  PROVE  InputTurns(s)
<1>1. ASSUME NEW o \in Offered, AtOnce(o) PROVE InputTurns(s)
  <2>1. Judged(o) /\ o \in Operations /\ Placed(o)
    BY OffersAreJudged, JudgedIsSound DEF TenancyInv, Judged
  <2>2. QED
    BY <1>1, <2>1, JudgedExposesByTurning DEF AtOnce, InputTurns
<1>2. CASE Commit
  <2>1. tx # NoTx /\ tx' = NoTx /\ Apply(tx) /\ UNCHANGED pub
    BY <1>2 DEF Commit
  <2>2. CASE raced
    BY <2>1, <2>2 DEF InputTurns
  <2>3. CASE ~raced
    <3>1. tx \in Offered
      BY <2>1, <2>3 DEF TenancyInv, Fresh
    <3>2. Judged(tx) /\ tx \in Operations /\ Placed(tx)
      BY <3>1, OffersAreJudged, JudgedIsSound DEF TenancyInv, Judged
    <3>3. QED
      BY <2>1, <3>2, JudgedExposesByTurning DEF InputTurns
  <2>4. QED
    BY <2>2, <2>3
<1>3. CASE (\E o \in Offered : Begin(o)) \/ Rollback
  BY <1>3 DEF Begin, Rollback, Exposed
<1>4. CASE World
  BY <1>4 DEF World, ClaimTurns, Exposed, InputTurns
<1>5. CASE Sweep
  <2>1. /\ UNCHANGED <<pub, there, inputs, members>>
        /\ vis' = [r \in Syntheses |-> IF r \in Swept THEN "group" ELSE vis[r]]
    BY <1>5 DEF Sweep
  <2>2. inputs[s] \subseteq Syntheses
    BY DEF TenancyInv, TenancyTypeOK
  <2>3. QED
    BY <2>1, <2>2 DEF Exposed, InputTurns
<1>6. QED
  BY <1>1, <1>2, <1>3, <1>4, <1>5 DEF Next, Sessions

\* A public synthesis comes to have a private input only because that input
\* turns private after the synthesis was judged: born, attached, ended and
\* widened rows never start out that way.
THEOREM OnlyLaterTurnsExpose == Spec => OnlyTurnsExpose
<1> DEFINE ByTurning == \A s \in Syntheses : Exposed(s)' /\ ~Exposed(s) => InputTurns(s)
<1>1. TenancyInv /\ [Next]_vars => [ByTurning]_vars
  BY StepExposesByTurning
<1>2. OnlyTurnsExpose <=> [][ByTurning]_vars
  BY PTL DEF OnlyTurnsExpose
<1> HIDE DEF ByTurning
<1>3. QED
  BY <1>1, <1>2, TenancyInvHolds, PTL DEF Spec

-----------------------------------------------------------------------------
\* A further pass would narrow nothing: whatever it found would be in every
\* set a pass adds nothing to.
LEMMA SweptIsSwept == ToNarrow(Swept) = {}
<1> SUFFICES ASSUME NEW s \in ToNarrow(Swept) PROVE FALSE
  OBVIOUS
<1>1. s \in there /\ s \notin Swept
  BY DEF ToNarrow
<1>2. PICK X \in SUBSET there : ToNarrow(X) \subseteq X /\ s \notin X
  BY <1>1 DEF Swept
<1>3. Swept \subseteq X
  BY <1>2 DEF Swept
<1>4. s \in ToNarrow(X)
  BY <1>1, <1>2, <1>3 DEF ToNarrow
<1>5. QED
  BY <1>2, <1>4

\* A sweep leaves no public synthesis with a private input, however long the
\* chain it is built on, but one whose narrowing is refused.
THEOREM SweepIsThorough == Spec => SweepLeavesNone
<1>1. TenancyInv /\ [Next]_vars =>
        [Sweep => \A s \in Syntheses : Exposed(s)' => Refused(s, "group")]_vars
  <2> SUFFICES ASSUME TenancyInv, Sweep, NEW s \in Syntheses, Exposed(s)', ~Refused(s, "group")
               PROVE  FALSE
    OBVIOUS
  <2>1. /\ s \in there /\ inputs[s] \subseteq Syntheses
        /\ pub' = pub /\ there' = there /\ inputs' = inputs /\ members' = members
        /\ \A t \in Syntheses : vis'[t] = IF t \in Swept THEN "group" ELSE vis[t]
    BY DEF Sweep, Exposed, TenancyInv, TenancyTypeOK
  <2>2. s \notin Swept /\ vis[s] = "public"
    BY <2>1 DEF Exposed
  <2>3. ~Publishable(s) \/ inputs[s] \cap Swept # {}
    BY <2>1 DEF Exposed, Publishable, PublicRow
  <2>4. s \in ToNarrow(Swept)
    BY <2>1, <2>2, <2>3 DEF ToNarrow
  <2>5. QED
    BY <2>4, SweptIsSwept
<1>2. QED
  BY <1>1, TenancyInvHolds, PTL DEF Spec, SweepLeavesNone
=============================================================================
