---------------------------- MODULE Ledger_proofs -----------------------------
(***************************************************************************)
(* What the migration ledger keeps for every number of overlapping runs,   *)
(* every set of rows, and every database a deploy may start from: owned    *)
(* rows while the contract is recorded, a known history under a migration, *)
(* a whole schema under a process that starts to serve, a reverse that     *)
(* gives back what its backfill took, and a verified catalog that admits   *)
(* exactly the entitled.                                                   *)
(***************************************************************************)
EXTENDS Ledger, TLAPS

-----------------------------------------------------------------------------
(* The rows.                                                               *)

RowsTyped == rows \in [Rows -> RowValues]
DraftsTyped == drafts \in [Rows -> Pairs \cup {NoPart}] /\ raced \subseteq Rows
ManifestsTyped == \A m \in manifests : /\ m.before \in [Rows -> RowValues]
                                       /\ m.after \in [Rows -> RowValues]

LEMMA PairParts ==
  ASSUME NEW p \in Pairs
  PROVE  p[1] \in {"none", "G", "H"} /\ p[2] \in Words \cup {"none"} /\ p = <<p[1], p[2]>>
  BY DEF Pairs

LEMMA MadePair ==
  ASSUME NEW o \in {"none", "G", "H"}, NEW v \in Words \cup {"none"}
  PROVE  <<o, v>> \in Pairs
  BY DEF Pairs

LEMMA NoPairs == NoPair \in Pairs /\ Absent \in RowValues /\ NoPart # NoPair
  BY DEF NoPair, NoPart, Pairs, Absent, NoJob, RowValues

\* Each of the changes a row goes through leaves a row.
LEMMA ReownedRowTyped ==
  ASSUME NEW x \in RowValues
  PROVE  ReownedRow(x) \in RowValues
<1> DEFINE pair == IF ~Owned(x) THEN <<"G", IF Word(x) = "public" THEN "public" ELSE "group">>
                   ELSE x.pair
<1>1. pair \in Pairs
  BY MadePair DEF Words, RowValues
<1>2. [x.job EXCEPT !.pair = IF @ = NoPair THEN pair ELSE @,
                    !.by = IF @ = "none" /\ ~Owned(x) THEN "P" ELSE @]
        \in [has : BOOLEAN, pair : Pairs, by : {"none", "P", "Q"}]
  BY <1>1 DEF RowValues
<1>3. Job(pair, "P") \in [has : BOOLEAN, pair : Pairs, by : {"none", "P", "Q"}]
  BY <1>1 DEF Job
<1>4. NoJob \in [has : BOOLEAN, pair : Pairs, by : {"none", "P", "Q"}]
  BY NoPairs DEF NoJob
<1>5. QED
  BY <1>1, <1>2, <1>3, <1>4 DEF ReownedRow, RowValues

LEMMA ReversedRowTyped ==
  ASSUME NEW x \in RowValues, NEW before \in RowValues, NEW after \in RowValues
  PROVE  ReversedRow(x, before, after) \in RowValues
<1>1. NoJob \in [has : BOOLEAN, pair : Pairs, by : {"none", "P", "Q"}] /\ NoPair \in Pairs
  BY NoPairs DEF NoJob
<1>2. QED
  BY <1>1 DEF ReversedRow, RowValues

LEMMA ContractedRowTyped ==
  ASSUME RowsTyped, NEW r \in Rows
  PROVE  ContractedRow(r) \in RowValues
<1> DEFINE x == rows[r]
           word == IF Word(x) = "public" /\ r \notin Unpublishable THEN "public" ELSE "group"
<1>1. x \in RowValues
  BY DEF RowsTyped
<1>2. Owner(x) \in {"none", "G", "H"} /\ word \in Words \cup {"none"}
  BY <1>1, PairParts DEF Owner, RowValues, Words
<1>3. <<Owner(x), word>> \in Pairs
  BY <1>2, MadePair
<1>4. QED
  BY <1>1, <1>3 DEF ContractedRow, RowValues

\* The data step of 5035 makes a row whole, if it does not refuse it.
LEMMA ContractedRowIsWhole ==
  ASSUME RowsTyped, NEW r \in Rows, Owned(rows[r]),
         rows[r].job.has => rows[r].job.by # "none"
  PROVE  Whole(r, ContractedRow(r), FALSE)
<1> DEFINE x == rows[r]
           word == IF Word(x) = "public" /\ r \notin Unpublishable THEN "public" ELSE "group"
           pair == <<Owner(x), word>>
           y == ContractedRow(r)
<1>1. x \in RowValues
  BY DEF RowsTyped
<1>2. y.pair = pair /\ y.part \in {NoPart, pair}
  BY <1>1 DEF ContractedRow, RowValues
<1>3. y.job.has => y.job.pair = pair /\ y.job.by # "none"
  BY <1>1 DEF ContractedRow, RowValues
<1>4. Owner(y) = Owner(x) /\ Word(y) = word
  BY <1>2 DEF Owner, Word
<1>5. QED
  BY <1>2, <1>3, <1>4 DEF Whole, Owned

\* A whole row is none the backfill would touch.
LEMMA WholeRowsAreReowned ==
  ASSUME NEW r \in Rows, NEW x \in RowValues, NEW late \in BOOLEAN, Whole(r, x, late)
  PROVE  Whole(r, ReownedRow(x), late) /\ ReownedRow(x).part = x.part
                                      /\ ReownedRow(x).pair = x.pair
<1>1. x.pair # NoPair /\ <<Owner(x), "public">> # NoPair
  BY DEF Whole, Owned, Owner, NoPair
<1>2. x.part # NoPair
  BY <1>1, NoPairs DEF Whole
<1>3. /\ ReownedRow(x).pair = x.pair /\ ReownedRow(x).part = x.part
      /\ x.job.has => ReownedRow(x).job = x.job
      /\ ~x.job.has => ReownedRow(x).job = NoJob
  BY <1>1, <1>2 DEF ReownedRow, RowValues, Whole
<1>4. QED
  BY <1>3 DEF Whole, Owned, Owner, Word, NoJob

\* Under the contract a derived row that is not committed is the only one, and
\* carries the root's pair, or the public one of a root narrowed since.
Drafted(r) ==
  drafts[r] # NoPart =>
    /\ rows[r].here /\ rows[r].part = NoPart
    /\ drafts[r] \in {rows[r].pair}
                      \cup IF r \in raced THEN {<<Owner(rows[r]), "public">>} ELSE {}

OwnedRow(r) == /\ rows[r].here => Whole(r, rows[r], r \in raced)
               /\ Drafted(r)

\* The writers.
WritesRow(r, contracted) ==
  \/ ~contracted /\ OldWrites(r)
  \/ NewWrites(r, contracted) \/ Narrows(r, contracted)
  \/ DerivedBegins(r, contracted) \/ DerivedEnds(r)

\* Each changes one row, and keeps the types.
LEMMA WritersChangeOne ==
  ASSUME RowsTyped, DraftsTyped, NEW r \in Rows, NEW contracted \in BOOLEAN,
         WritesRow(r, contracted)
  PROVE  /\ RowsTyped' /\ DraftsTyped' /\ manifests' = manifests
         /\ \A t \in Rows \ {r} : /\ rows'[t] = rows[t] /\ drafts'[t] = drafts[t]
                                  /\ t \in raced' <=> t \in raced
<1> USE DEF RowsTyped, DraftsTyped
<1>1. CASE ~contracted /\ OldWrites(r)
  <2>1. PICK word \in {"private", "public"} :
          /\ rows' = [rows EXCEPT ![r] = LegacyRow(word, FALSE, TRUE)]
          /\ UNCHANGED <<manifests, drafts, raced>>
    BY <1>1 DEF OldWrites
  <2>2. LegacyRow(word, FALSE, TRUE) \in RowValues
    BY NoPairs, MadePair DEF LegacyRow, RowValues, Job, Words
  <2>3. QED
    BY <2>1, <2>2
<1>2. CASE NewWrites(r, contracted)
  <2>1. PICK word \in {"group", "public"} :
          /\ rows' = [rows EXCEPT ![r] =
               [here |-> TRUE, pair |-> <<"H", word>>, done |-> FALSE, part |-> NoPart,
                job |-> Job(IF contracted THEN <<"H", word>> ELSE NoPair, "Q")]]
          /\ UNCHANGED <<manifests, drafts, raced>>
    BY <1>2 DEF NewWrites
  <2> DEFINE dependent == IF contracted THEN <<"H", word>> ELSE NoPair
             x == [here |-> TRUE, pair |-> <<"H", word>>, done |-> FALSE, part |-> NoPart,
                   job |-> Job(dependent, "Q")]
  <2>2. <<"H", word>> \in Pairs /\ dependent \in Pairs
    BY NoPairs, MadePair DEF Words
  <2>3. x \in RowValues
    BY <2>2 DEF RowValues, Job
  <2>4. QED
    BY <2>1, <2>3
<1>3. CASE Narrows(r, contracted)
  <2> DEFINE pair == <<Owner(rows[r]), "group">>
             x == [rows[r] EXCEPT !.pair = pair,
                     !.part = IF contracted /\ @ # NoPart THEN pair ELSE @,
                     !.job = IF contracted /\ @.has THEN [@ EXCEPT !.pair = pair] ELSE @]
  <2>1. /\ rows' = [rows EXCEPT ![r] = x]
        /\ raced' \in {raced, raced \cup {r}} /\ UNCHANGED <<manifests, drafts>>
    BY <1>3 DEF Narrows, RowValues
  <2>2. rows[r] \in RowValues
    OBVIOUS
  <2>3. pair \in Pairs
    BY <2>2, PairParts, MadePair DEF Owner, RowValues, Words
  <2>4. x \in RowValues
    BY <2>2, <2>3 DEF RowValues
  <2>5. QED
    BY <2>1, <2>4
<1>4. CASE DerivedBegins(r, contracted)
  <2>1. rows[r].pair \in Pairs /\ NoPair \in Pairs
    BY NoPairs DEF RowValues
  <2>2. QED
    BY <1>4, <2>1 DEF DerivedBegins
<1>5. CASE DerivedEnds(r)
  <2>1. [rows[r] EXCEPT !.part = drafts[r]] \in RowValues
    BY DEF RowValues
  <2>2. rows' = rows \/ rows' = [rows EXCEPT ![r] = [rows[r] EXCEPT !.part = drafts[r]]]
    BY <1>5 DEF DerivedEnds
  <2>3. rows' \in [Rows -> RowValues] /\ \A t \in Rows \ {r} : rows'[t] = rows[t]
    BY <2>1, <2>2
  <2>4. QED
    BY <1>5, <2>3 DEF DerivedEnds
<1>6. QED
  BY <1>1, <1>2, <1>3, <1>4, <1>5 DEF WritesRow

\* Under the contract each keeps its row owned.
LEMMA WritersKeepRow ==
  ASSUME RowsTyped, DraftsTyped, NEW r \in Rows, NEW contracted \in BOOLEAN,
         contracted = TRUE, WritesRow(r, contracted), OwnedRow(r)
  PROVE  OwnedRow(r)'
<1> USE DEF RowsTyped, DraftsTyped
<1>1. CASE NewWrites(r, contracted)
  <2>1. PICK word \in {"group"} \cup (IF r \in Unpublishable THEN {} ELSE {"public"}) :
          /\ rows' = [rows EXCEPT ![r] =
               [here |-> TRUE, pair |-> <<"H", word>>, done |-> FALSE, part |-> NoPart,
                job |-> Job(<<"H", word>>, "Q")]]
          /\ UNCHANGED <<manifests, drafts, raced>> /\ ~rows[r].here
    BY <1>1 DEF NewWrites
  <2>2. Whole(r, rows'[r], r \in raced')
    BY <2>1 DEF Whole, Owned, Owner, Word, Job
  <2>3. drafts'[r] = NoPart
    BY <2>1 DEF OwnedRow, Drafted
  <2>4. QED
    BY <2>2, <2>3 DEF OwnedRow, Drafted
<1>2. CASE Narrows(r, contracted)
  <2> DEFINE x == rows[r]
             pair == <<Owner(x), "group">>
             y == [x EXCEPT !.pair = pair, !.part = IF @ # NoPart THEN pair ELSE @,
                            !.job = IF @.has THEN [@ EXCEPT !.pair = pair] ELSE @]
  <2>1. /\ rows'[r] = y /\ x.here /\ Owned(x) /\ x.pair = <<Owner(x), "public">>
        /\ drafts' = drafts /\ raced' = IF drafts[r] # NoPart THEN raced \cup {r} ELSE raced
    <3>1. x \in RowValues
      OBVIOUS
    <3>2. x.pair = <<Owner(x), Word(x)>>
      BY <3>1, PairParts DEF Owner, Word, RowValues
    <3>3. QED
      BY <1>2, <3>1, <3>2 DEF Narrows, RowValues
  <2>2. x \in RowValues
    OBVIOUS
  <2>3. Owner(y) = Owner(x) /\ Word(y) = "group" /\ y.pair = pair /\ y.here = x.here
    BY <2>2 DEF Owner, Word, RowValues
  <2>4. Whole(r, y, r \in raced')
    <3>1. y.part \in {NoPart, pair}
      BY <2>2 DEF RowValues
    <3>2. y.job.has => y.job.pair = pair /\ y.job.by # "none"
      BY <2>1, <2>2 DEF OwnedRow, Whole, RowValues
    <3>3. QED
      BY <2>1, <2>3, <3>1, <3>2 DEF Whole, Owned
  <2>5. drafts'[r] # NoPart =>
          /\ y.part = NoPart /\ r \in raced' /\ drafts'[r] = <<Owner(y), "public">>
    BY <2>1, <2>2, <2>3 DEF OwnedRow, Drafted, RowValues
  <2>6. QED
    BY <2>1, <2>3, <2>4, <2>5 DEF OwnedRow, Drafted
<1>3. CASE DerivedBegins(r, contracted)
  BY <1>3 DEF DerivedBegins, OwnedRow, Drafted
<1>4. CASE DerivedEnds(r)
  <2>1. /\ drafts'[r] = NoPart /\ drafts[r] # NoPart /\ rows[r].here /\ rows[r].part = NoPart
        /\ drafts[r] \in {rows[r].pair}
                      \cup IF r \in raced THEN {<<Owner(rows[r]), "public">>} ELSE {}
        /\ Whole(r, rows[r], r \in raced)
    BY <1>4 DEF DerivedEnds, OwnedRow, Drafted
  <2>2. CASE rows' = [rows EXCEPT ![r].part = drafts[r]] /\ raced' = raced
    <3> DEFINE y == [rows[r] EXCEPT !.part = drafts[r]]
    <3>1. rows'[r] = y
      BY <2>2
    <3>2. y.part = drafts[r] /\ y.pair = rows[r].pair /\ y.job = rows[r].job
      BY DEF RowValues
    <3>3. Whole(r, y, r \in raced)
      BY <2>1, <3>2 DEF Whole, Owned, Owner, Word
    <3>4. QED
      BY <2>1, <2>2, <3>1, <3>3 DEF OwnedRow, Drafted
  <2>3. CASE rows' = rows
    <3>1. Whole(r, rows[r], r \in raced')
      BY <2>1 DEF Whole
    <3>2. QED
      BY <2>1, <2>3, <3>1 DEF OwnedRow, Drafted
  <2>4. QED
    BY <1>4, <2>2, <2>3 DEF DerivedEnds
<1>5. QED
  BY <1>1, <1>2, <1>3, <1>4 DEF WritesRow

LEMMA WritersKeepRows ==
  ASSUME RowsTyped, DraftsTyped, NEW r \in Rows, NEW contracted \in BOOLEAN,
         contracted = TRUE, WritesRow(r, contracted), NEW t \in Rows, OwnedRow(t)
  PROVE  OwnedRow(t)'
<1>1. CASE t = r
  <2>1. OwnedRow(r)
    BY <1>1 DEF OwnedRow, Drafted, Whole
  <2>2. OwnedRow(r)'
    BY <2>1, WritersKeepRow
  <2>3. QED
    BY <1>1, <2>2 DEF OwnedRow, Drafted, Whole
<1>2. CASE t # r
  BY <1>2, WritersChangeOne DEF OwnedRow, Drafted, Whole
<1>3. QED
  BY <1>1, <1>2

-----------------------------------------------------------------------------
(* The catalogs.                                                           *)

\* Every policy of the model is one of a table's class.
LEMMA PolicyOfSomeTable ==
  ASSUME NEW q
  PROVE  q \in ExpectedPolicies <=>
           \/ \E u \in Ownership :
                q \in {Policy(u, "tenancy", "*", TRUE), Policy(u, "update_owner", "w", FALSE),
                      Policy(u, "delete_owner", "d", FALSE)}
           \/ \E u \in Append :
                q \in {Policy(u, "read", "r", TRUE), Policy(u, "insert", "a", TRUE),
                      Policy(u, "bypass_update", "w", TRUE),
                      Policy(u, "bypass_delete", "d", TRUE)}
           \/ \E u \in Frozen : q = Policy(u, "bypass_all", "*", TRUE)
           \/ \E u \in ClaimVisible : q = Policy(u, "claim_visible", "*", FALSE)
  BY Zenon DEF ExpectedPolicies

\* A policy of the model, with its expressions, is made of names.
LEMMA ShapeTyped ==
  ASSUME NEW q \in ExpectedPolicies
  PROVE  /\ q.table \in Tables /\ q.kind \in Names /\ q.cmd \in {"*", "r", "a", "w", "d"}
         /\ q.permissive \in BOOLEAN
         /\ Shape(q.table, q.kind).using \in SUBSET Names
         /\ Shape(q.table, q.kind).check \in SUBSET Names
<1> DEFINE t == q.table
           Kinds == {"tenancy", "update_owner", "delete_owner", "read", "insert",
                     "bypass_update", "bypass_delete", "bypass_all", "claim_visible"}
           Typed == [table : Tables, kind : Kinds, cmd : {"*", "r", "a", "w", "d"},
                     permissive : BOOLEAN]
<1>1. q \in Typed
  <2>1. \A u \in Ownership : {Policy(u, "tenancy", "*", TRUE),
                             Policy(u, "update_owner", "w", FALSE),
                             Policy(u, "delete_owner", "d", FALSE)} \subseteq Typed
    BY DEF Policy, Tables, TenancyTables
  <2>2. \A u \in Append : {Policy(u, "read", "r", TRUE), Policy(u, "insert", "a", TRUE),
                          Policy(u, "bypass_update", "w", TRUE),
                          Policy(u, "bypass_delete", "d", TRUE)} \subseteq Typed
    BY DEF Policy, Tables, TenancyTables
  <2>3. /\ \A u \in Frozen : Policy(u, "bypass_all", "*", TRUE) \in Typed
        /\ \A u \in ClaimVisible : Policy(u, "claim_visible", "*", FALSE) \in Typed
    BY CatalogAssumption DEF Policy, Tables, TenancyTables
  <2> HIDE DEF Typed
  <2>4. QED
    BY <2>1, <2>2, <2>3, PolicyOfSomeTable, Zenon
<1>2. /\ ReadShape(t) \in SUBSET Names /\ WriteShape(t) \in SUBSET Names
      /\ ClaimShape(t) \in SUBSET Names /\ {"bypass"} \in SUBSET Names
      /\ {} \in SUBSET Names
  BY CatalogAssumption DEF ReadShape, WriteShape, ClaimShape, ModelNames
<1>3. /\ Shape(t, q.kind).using \in SUBSET Names
      /\ Shape(t, q.kind).check \in SUBSET Names
  BY <1>1, <1>2 DEF Shape
<1>4. QED
  BY <1>1, <1>3, CatalogAssumption DEF ModelNames

\* So are the grants, before and after 5036.
LEMMA GrantsTyped ==
  /\ ExpectedGrants \in SUBSET (Tables \X Names \X Privileges)
  /\ EarlierGrants \in SUBSET (Tables \X Names \X Privileges)
  /\ Tables \X {"app"} \X Privileges \in SUBSET (Tables \X Names \X Privileges)
<1>1. ASSUME NEW S \in SUBSET Tables, NEW R \in SUBSET Names, NEW P \in SUBSET Privileges
      PROVE  S \X R \X P \in SUBSET (Tables \X Names \X Privileges)
  OBVIOUS
<1>2. /\ Ownership \in SUBSET Tables /\ Append \in SUBSET Tables /\ Kept \in SUBSET Tables
      /\ Tables \in SUBSET Tables
  BY CatalogAssumption DEF Tables, TenancyTables
<1>3. /\ {Maintenance} \in SUBSET Names /\ {"rw"} \in SUBSET Names
      /\ {"app"} \in SUBSET Names /\ {Maintenance, "app"} \in SUBSET Names
  BY CatalogAssumption DEF ModelNames
<1>4. /\ {"S", "I"} \in SUBSET Privileges /\ {"S"} \in SUBSET Privileges
      /\ Privileges \in SUBSET Privileges
  BY DEF Privileges
<1>5. ExpectedGrants \in SUBSET (Tables \X Names \X Privileges)
  BY <1>1, <1>2, <1>3, <1>4 DEF ExpectedGrants
<1>6. QED
  BY <1>1, <1>2, <1>3, <1>4, <1>5 DEF EarlierGrants

\* What any set of migrations installs is a catalog.
LEMMA InstalledTyped ==
  ASSUME NEW vs
  PROVE  Installed(vs) \in CatalogValues
<1>1. {Definer(sig) : sig \in {s \in DOMAIN CreatedBy : CreatedBy[s] \in vs}}
        \in SUBSET [sig : Names, owner : Names, pinned : BOOLEAN,
                    revoked : BOOLEAN, execs : SUBSET Names]
  <2>1. \A sig \in DOMAIN CreatedBy :
          sig \in DOMAIN Execute /\ Execute[sig] \in {"maint_ops", "queue", "rw", "nobody"}
    BY DEF CreatedBy, Execute
  <2>2. \A sig \in DOMAIN CreatedBy :
          Definer(sig) \in [sig : Names, owner : Names, pinned : BOOLEAN,
                            revoked : BOOLEAN, execs : SUBSET Names]
    BY <2>1, CatalogAssumption DEF Definer, Executors, ModelNames
  <2>3. QED
    BY <2>2
<1>2. [t \in Tables |-> IF 5036 \in vs THEN {"enabled", "forced"} ELSE {}]
        \in [Tables -> SUBSET {"enabled", "forced"}]
  OBVIOUS
<1>3. /\ ExpectedGrants \in SUBSET (Tables \X Names \X Privileges)
      /\ EarlierGrants \in SUBSET (Tables \X Names \X Privileges)
      /\ Tables \X {"app"} \X Privileges \in SUBSET (Tables \X Names \X Privileges)
  BY GrantsTyped
<1>4. ModelPolicies \in SUBSET [table : Tables, kind : Names, cmd : {"*", "r", "a", "w", "d"},
                                permissive : BOOLEAN, public : BOOLEAN,
                                using : SUBSET Names, check : SUBSET Names]
  <2>1. \A q \in ExpectedPolicies :
          Rendered(q, Shape(q.table, q.kind))
            \in [table : Tables, kind : Names, cmd : {"*", "r", "a", "w", "d"},
                 permissive : BOOLEAN, public : BOOLEAN,
                 using : SUBSET Names, check : SUBSET Names]
    BY ShapeTyped DEF Rendered
  <2>2. QED
    BY <2>1 DEF ModelPolicies
<1>5. {[fn |-> "propagate", row |-> FALSE, before |-> FALSE]}
        \in SUBSET [fn : Names, row : BOOLEAN, before : BOOLEAN]
  <2>1. "propagate" \in Names
    BY CatalogAssumption DEF ModelNames, Execute
  <2>2. QED
    BY <2>1
<1>6. QED
  BY <1>1, <1>2, <1>3, <1>4, <1>5 DEF Installed, CatalogValues

-----------------------------------------------------------------------------
(* The types.                                                              *)

Places == {"idle", "started", "ledger", "tables", "lock", "kernel", "apply", "ok", "refused"}
            \cup DOMAIN CheckAfter
SessionStates ==
  [pc : Places, cmd : {"none", "run", "adopt", "verify"},
   last : Versions, to : Versions, pending : SUBSET Versions]

CatalogTyped == catalog \in CatalogValues

LedgerTypeOK ==
  /\ ledger \subseteq Versions
  /\ sess \in [Sessions -> SessionStates]
  /\ lock \in Sessions \cup {"none"}
  /\ server \in {"down", "contract", "columns", "guard", "ready", "serving", "quiet"}
  /\ script \in DOMAIN Removes \cup {"none"}
  /\ boot \in {"apart", "unseen", "overtaken"}
  /\ CatalogTyped /\ stirred \subseteq Sessions
  /\ RowsTyped /\ ManifestsTyped /\ DraftsTyped

\* The grants of row security on and off are grants.
LEMMA OnAndOffTyped ==
  ASSUME CatalogTyped
  PROVE  /\ OnGrants \in SUBSET (Tables \X Names \X Privileges)
         /\ OffGrants \in SUBSET (Tables \X Names \X Privileges)
<1>1. catalog.grants \in SUBSET (Tables \X Names \X Privileges)
  BY DEF CatalogTyped, CatalogValues
<1>2. \A roles : Without(roles) \subseteq catalog.grants
  BY DEF Without
<1>3. QED
  BY <1>1, <1>2, GrantsTyped DEF OnGrants, OffGrants

\* A migration or its undo leaves a catalog, and only 5038 and its undo touch
\* the signature-hash guard.
LEMMA Recataloged ==
  ASSUME CatalogTyped, NEW vs
  PROVE  /\ Recatalog(vs) \in CatalogValues
         /\ (5038 \in vs <=> 5038 \in ledger)
              => Recatalog(vs).hashGuard = catalog.hashGuard
         /\ 5038 \in vs => Recatalog(vs).hashGuard \in {"installed", catalog.hashGuard}
<1> DEFINE new == Installed(vs)
           changed(v) == v \in (ledger \ vs) \cup (vs \ ledger)
           sigs == {sig \in DOMAIN CreatedBy : changed(CreatedBy[sig])}
           kinds == {<<q.table, q.kind>> : q \in ExpectedPolicies}
           definers == {d \in catalog.definers : d.sig \notin sigs}
                         \cup {d \in new.definers : d.sig \in sigs}
           triggers == IF changed(5035)
                       THEN {g \in catalog.triggers : g.fn # "propagate"} \cup new.triggers
                       ELSE catalog.triggers
           grants == IF changed(5036) THEN IF 5036 \in vs THEN OnGrants ELSE OffGrants
                     ELSE IF changed(5034) THEN catalog.grants \cup EarlierGrants
                     ELSE catalog.grants
           policies == IF changed(5036)
                       THEN {p \in catalog.policies : <<p.table, p.kind>> \notin kinds}
                              \cup new.policies
                       ELSE catalog.policies
           rls == IF changed(5036) THEN new.rls ELSE catalog.rls
           guards == IF changed(5036) THEN new.guards ELSE catalog.guards
           hashGuard == IF changed(5038) THEN new.hashGuard ELSE catalog.hashGuard
<1>1. new \in CatalogValues /\ catalog \in CatalogValues
  BY InstalledTyped DEF CatalogTyped
<1>2. Recatalog(vs) = [catalog EXCEPT !.definers = definers, !.triggers = triggers, !.rls = rls,
                         !.grants = grants, !.policies = policies, !.guards = guards,
                         !.hashGuard = hashGuard]
  <2> HIDE DEF new, kinds, sigs
  <2>1. QED
    BY <1>1 DEF Recatalog, CatalogValues, new, kinds, sigs
<1>3. /\ new.hashGuard \in {"installed", "absent"}
      /\ 5038 \in vs => new.hashGuard = "installed"
  BY DEF Installed
<1> HIDE DEF new
<1>4. grants \in SUBSET (Tables \X Names \X Privileges)
  <2>1. catalog.grants \in SUBSET (Tables \X Names \X Privileges)
    BY <1>1 DEF CatalogValues
  <2>2. QED
    BY <2>1, OnAndOffTyped, GrantsTyped
<1>5. definers \in SUBSET [sig : Names, owner : Names, pinned : BOOLEAN,
                           revoked : BOOLEAN, execs : SUBSET Names]
  BY <1>1 DEF CatalogValues
<1>6. /\ triggers \in SUBSET [fn : Names, row : BOOLEAN, before : BOOLEAN]
      /\ policies \in SUBSET [table : Tables, kind : Names, cmd : {"*", "r", "a", "w", "d"},
                              permissive : BOOLEAN, public : BOOLEAN,
                              using : SUBSET Names, check : SUBSET Names]
  BY <1>1 DEF CatalogValues
<1>7. /\ rls \in [Tables -> SUBSET {"enabled", "forced"}] /\ guards \in SUBSET TenancyTables
      /\ hashGuard \in {"installed", "absent"}
  BY <1>1, <1>3 DEF CatalogValues
<1>8. /\ (5038 \in vs <=> 5038 \in ledger) => hashGuard = catalog.hashGuard
      /\ 5038 \in vs => hashGuard \in {"installed", catalog.hashGuard}
  BY <1>3
<1> HIDE DEF definers, triggers, rls, grants, policies, guards, hashGuard
<1>9. Recatalog(vs) \in CatalogValues /\ Recatalog(vs).hashGuard = hashGuard
  <2>1. Recatalog(vs) = [definers |-> definers, triggers |-> triggers, rls |-> rls,
                         grants |-> grants, schema |-> catalog.schema,
                         sentinels |-> catalog.sentinels, policies |-> policies,
                         guards |-> guards, hashGuard |-> hashGuard]
    BY <1>1, <1>2 DEF CatalogValues
  <2>2. catalog.schema \in SUBSET Names /\ catalog.sentinels \in SUBSET Tables
    BY <1>1 DEF CatalogValues
  <2>3. QED
    BY <2>1, <2>2, <1>4, <1>5, <1>6, <1>7 DEF CatalogValues
<1>10. QED
  BY <1>8, <1>9

\* Row security and the grants are fields of their own.
LEMMA OtherFields ==
  ASSUME CatalogTyped, NEW a \in [Tables -> SUBSET {"enabled", "forced"}],
         NEW b \in {OffGrants, OnGrants},
         catalog' = [catalog EXCEPT !.rls = a, !.grants = b]
  PROVE  CatalogTyped' /\ catalog'.hashGuard = catalog.hashGuard
<1>1. b \in SUBSET (Tables \X Names \X Privileges)
  BY OnAndOffTyped
<1>2. QED
  BY <1>1 DEF CatalogTyped, CatalogValues

\* A pending migration is one of those pending.
LEMMA NextIsPending ==
  ASSUME NEW vs \in SUBSET Versions, vs # {}
  PROVE  Next1(vs) \in vs
<1>1. \E v \in vs : \A w \in vs : v <= w
  <2>1. ASSUME NEW k \in Versions, k \in vs, \A w \in vs : w >= k
        PROVE  \E v \in vs : \A w \in vs : v <= w
    BY <2>1 DEF Versions
  <2> DEFINE From(k) == \A w \in vs : w >= k
  <2>2. From(5032)
    BY DEF Versions
  <2>3. From(5033) \/ \E v \in vs : \A w \in vs : v <= w
    BY <2>2, <2>1 DEF Versions
  <2>4. From(5034) \/ \E v \in vs : \A w \in vs : v <= w
    BY <2>3, <2>1 DEF Versions
  <2>5. From(5035) \/ \E v \in vs : \A w \in vs : v <= w
    BY <2>4, <2>1 DEF Versions
  <2>6. From(5036) \/ \E v \in vs : \A w \in vs : v <= w
    BY <2>5, <2>1 DEF Versions
  <2>7. From(5037) \/ \E v \in vs : \A w \in vs : v <= w
    BY <2>6, <2>1 DEF Versions
  <2>8. From(5038) \/ \E v \in vs : \A w \in vs : v <= w
    BY <2>7, <2>1 DEF Versions
  <2>9. From(5039) \/ \E v \in vs : \A w \in vs : v <= w
    BY <2>8, <2>1 DEF Versions
  <2>10. From(5040) \/ \E v \in vs : \A w \in vs : v <= w
    BY <2>9, <2>1 DEF Versions
  <2>11. From(5041) \/ \E v \in vs : \A w \in vs : v <= w
    BY <2>10, <2>1 DEF Versions
  <2>12. From(5042) \/ \E v \in vs : \A w \in vs : v <= w
    BY <2>11, <2>1 DEF Versions
  <2>13. PICK x \in vs : x \in Versions
    OBVIOUS
  <2>14. From(5042) => x = 5042 /\ \A w \in vs : x <= w
    BY <2>13 DEF Versions
  <2>15. QED
    BY <2>12, <2>14
<1>2. QED
  BY <1>1 DEF Next1

\* The variables start in their types.
LEMMA LedgerInitTypes == Init => LedgerTypeOK
<1> SUFFICES ASSUME Init PROVE LedgerTypeOK
  OBVIOUS
<1>1. PICK w \in Worlds :
        /\ ledger = w.ledger /\ rows \in w.rows /\ manifests = {}
        /\ catalog \in w.catalogs /\ lock = "none" /\ server = "down"
        /\ script = "none" /\ boot = "apart" /\ stirred = {}
        /\ raced = w.raced /\ drafts = [r \in Rows |-> NoPart]
        /\ sess \in [Sessions -> {Idle(last) : last \in w.binaries}]
  BY DEF Init
<1>2. /\ w.ledger \subseteq Versions /\ w.binaries \subseteq Versions
      /\ w.rows \subseteq [Rows -> RowValues] /\ w.raced \subseteq Rows
      /\ w.catalogs \subseteq CatalogValues
  BY <1>1, WorldsAssumption
<1>3. \A last \in Versions : Idle(last) \in SessionStates
  BY DEF Idle, SessionStates, Places
<1>4. sess \in [Sessions -> SessionStates]
  BY <1>1, <1>2, <1>3
<1>5. CatalogTyped
  BY <1>1, <1>2 DEF CatalogTyped
<1>6. QED
  BY <1>1, <1>2, <1>4, <1>5 DEF LedgerTypeOK, RowsTyped, ManifestsTyped, DraftsTyped

\* A session's step leaves a session.
LEMMA GotoTyped ==
  ASSUME sess \in [Sessions -> SessionStates], NEW s \in Sessions,
         NEW pc \in Places, Goto(s, pc)
  PROVE  sess' \in [Sessions -> SessionStates]
  BY DEF Goto, SessionStates

LEMMA SessionsTyped ==
  ASSUME LedgerTypeOK, NEW s \in Sessions,
         \/ Start(s) \/ ReadsOnly(s) \/ RunLocks(s) \/ Applies(s) \/ ApplyFails(s)
         \/ Finishes(s) \/ AdoptLocked(s) \/ Dies(s)
  PROVE  sess' \in [Sessions -> SessionStates]
<1> USE DEF LedgerTypeOK
<1>1. CASE Start(s)
  <2>1. PICK cmd \in {"run", "adopt", "verify"}, to \in Targets \cup {sess[s].last} :
          sess' = [sess EXCEPT ![s] =
            [pc |-> "started", cmd |-> cmd, last |-> @.last, to |-> to, pending |-> {}]]
    BY <1>1 DEF Start
  <2>2. to \in Versions /\ sess[s].last \in Versions
    BY LedgerAssumption DEF SessionStates
  <2>3. [pc |-> "started", cmd |-> cmd, last |-> sess[s].last, to |-> to, pending |-> {}]
          \in SessionStates
    BY <2>2 DEF SessionStates, Places
  <2>4. QED
    BY <2>1, <2>3
<1>2. CASE ReadsOnly(s)
  <2>1. CASE VerifyReadsCatalog(s)
    <3>1. PICK check \in DOMAIN CheckAfter : Goto(s, CheckAfter[check]) \/ Goto(s, "refused")
      BY <2>1 DEF VerifyReadsCatalog
    <3>2. CheckAfter[check] \in Places
      BY DEF CheckAfter, Places
    <3>3. QED
      BY <3>1, <3>2, GotoTyped DEF Places
  <2>2. CASE \/ RunBegins(s) \/ RunReadsLedger(s) \/ RunReadsTables(s) \/ AdoptBegins(s)
             \/ VerifyReadsLedger(s) \/ VerifyReadsKernel(s)
    <3>1. \E pc \in Places : Goto(s, pc)
      BY <2>2 DEF RunBegins, RunReadsLedger, RunReadsTables, AdoptBegins,
                  VerifyReadsLedger, VerifyReadsKernel, Places, CheckAfter
    <3>2. QED
      BY <3>1, GotoTyped
  <2>3. QED
    BY <1>2, <2>1, <2>2 DEF ReadsOnly
<1>3. CASE RunLocks(s)
  <2>0. sess[s] \in SessionStates /\ sess[s].to \in Versions
    BY DEF SessionStates
  <2>1. Embedded(sess[s].to) \ ledger \in SUBSET Versions
    BY <2>0 DEF Embedded, Versions
  <2>2. CASE Goto(s, "refused")
    BY <2>2, GotoTyped DEF Places
  <2>3. CASE sess' = [sess EXCEPT ![s].pc = "apply",
                                  ![s].pending = Embedded(sess[s].to) \ ledger]
    <3> DEFINE missing == Embedded(sess[s].to) \ ledger
    <3>1. [sess[s] EXCEPT !.pc = "apply", !.pending = missing] \in SessionStates
      BY <2>0, <2>1 DEF SessionStates, Places
    <3>2. sess' = [sess EXCEPT ![s] = [sess[s] EXCEPT !.pc = "apply", !.pending = missing]]
      BY <2>3
    <3>3. QED
      BY <3>1, <3>2
  <2>4. QED
    BY <1>3, <2>2, <2>3 DEF RunLocks
<1>4. CASE Applies(s)
  <2>1. sess' = [sess EXCEPT ![s].pending = @ \ {Next1(sess[s].pending)}]
    BY <1>4 DEF Applies
  <2>2. QED
    BY <2>1 DEF SessionStates
<1>5. CASE ApplyFails(s) \/ Finishes(s) \/ AdoptLocked(s)
  <2>1. \E pc \in Places : Goto(s, pc)
    BY <1>5 DEF ApplyFails, Finishes, AdoptLocked, Places
  <2>2. QED
    BY <2>1, GotoTyped
<1>6. CASE Dies(s)
  BY <1>6 DEF Dies, Idle, SessionStates, Places
<1>7. QED
  BY <1>1, <1>2, <1>3, <1>4, <1>5, <1>6

-----------------------------------------------------------------------------
(* What the operator's scripts do, and what the rows' steps do.            *)

ScriptLooks == Undo5042 \/ Undo5041 \/ Undo5040 \/ UndoE1f \/ UndoE1e \/ Undo5035
                 \/ RowSecurityOff \/ RowSecurityOn

\* A script that looks changes nothing, and e1f-undo.sql only goes on while no
\* process is connected.
LEMMA ScriptsLook ==
  ASSUME ScriptLooks
  PROVE  /\ script = "none" /\ script' \in DOMAIN Removes
         /\ script' = "e1f" => ~Connected
         /\ UNCHANGED <<rowVars, ledgerVars, lock, sess, server, boot, catalogVars>>
<1>1. \A name : Looks(name) =>
         /\ script = "none" /\ script' = name
         /\ UNCHANGED <<rowVars, ledgerVars, lock, sess, server, boot, catalogVars>>
  BY DEF Looks
<1>2. PICK name \in DOMAIN Removes : Looks(name) /\ (name = "e1f" => ~Connected)
  BY DEF ScriptLooks, Undo5042, Undo5041, Undo5040, UndoE1f, UndoE1e, Undo5035, Undoes,
         RowSecurityOff, RowSecurityOn, Removes
<1>3. QED
  BY <1>1, <1>2

\* One that commits removes versions, never 5033 or 5034, and only e1f-undo.sql
\* the signature-hash guard.
LEMMA ScriptsUndo ==
  ASSUME CatalogTyped, script \in DOMAIN Removes \cup {"none"}, ScriptCommits
  PROVE  /\ ledger' = ledger \ Removes[script]
         /\ {5033, 5034} \cap ledger \subseteq ledger'
         /\ UNCHANGED <<rowVars, altered, tables, kernel, lock, sess, server>>
         /\ CatalogTyped' /\ script # "none" /\ script' = "none"
         /\ script # "e1f" => catalog'.hashGuard = catalog.hashGuard
<1>1. /\ ledger' = ledger \ Removes[script] /\ script # "none" /\ script' = "none"
      /\ UNCHANGED <<rowVars, altered, tables, kernel, lock, sess, server>>
  BY DEF ScriptCommits
<1>2. /\ Removes[script] \cap {5033, 5034} = {}
      /\ script # "e1f" => 5038 \notin Removes[script]
  BY <1>1 DEF Removes
<1>3. CatalogTyped' /\ (script # "e1f" => catalog'.hashGuard = catalog.hashGuard)
  <2>1. CASE script \in {"rls_off", "rls_on"}
    <3>1. \A set \in SUBSET {"enabled", "forced"} :
            Flags(set) \in [Tables -> SUBSET {"enabled", "forced"}]
      BY DEF Flags
    <3>2. PICK a \in [Tables -> SUBSET {"enabled", "forced"}], b \in {OffGrants, OnGrants} :
            catalog' = [catalog EXCEPT !.rls = a, !.grants = b]
      <4>1. CASE script = "rls_off"
        <5>1. catalog' = [catalog EXCEPT !.rls = Flags({}), !.grants = OffGrants]
          BY <4>1 DEF ScriptCommits
        <5>2. QED
          BY <3>1, <5>1
      <4>2. CASE script = "rls_on"
        <5>1. catalog' = [catalog EXCEPT !.rls = Flags({"enabled", "forced"}),
                                         !.grants = OnGrants]
          BY <4>2 DEF ScriptCommits
        <5>2. QED
          BY <3>1, <5>1
      <4>3. QED
        BY <2>1, <4>1, <4>2
    <3>3. QED
      BY <3>2, OtherFields
  <2>2. CASE script \notin {"rls_off", "rls_on"}
    <3>1. catalog' = Recatalog(ledger')
      BY <2>2 DEF ScriptCommits
    <3> DEFINE now == ledger'
    <3>2. /\ Recatalog(now) \in CatalogValues
          /\ (5038 \in now <=> 5038 \in ledger) => Recatalog(now).hashGuard = catalog.hashGuard
      BY Recataloged
    <3>3. QED
      BY <1>1, <1>2, <3>1, <3>2 DEF CatalogTyped
  <2>3. QED
    BY <2>1, <2>2
<1>4. QED
  BY <1>1, <1>2, <1>3

RowSteps == Writes \/ DerivedWrites \/ Backfills \/ Reverses \/ RollsBackVocabulary

\* The writers, the backfill, its reverse and the rollback keep the types;
\* while 5035 is recorded they keep the rows owned.
LEMMA RowStepsKeepRows ==
  ASSUME RowsTyped, ManifestsTyped, DraftsTyped, RowSteps
  PROVE  /\ RowsTyped' /\ ManifestsTyped' /\ DraftsTyped'
         /\ 5035 \in ledger /\ (\A r \in Rows : OwnedRow(r)) => \A r \in Rows : OwnedRow(r)'
         /\ UNCHANGED <<ledgerVars, lock, sess, deployVars, catalogVars>>
<1>1. CASE Writes \/ DerivedWrites
  <2>1. PICK r \in Rows : WritesRow(r, Contracted35)
    BY <1>1 DEF Writes, DerivedWrites, WritesRow
  <2>0. Contracted35 \in BOOLEAN /\ (5035 \in ledger => Contracted35 = TRUE)
    BY DEF Contracted35
  <2>2. /\ RowsTyped' /\ DraftsTyped' /\ manifests' = manifests
        /\ \A t \in Rows \ {r} : /\ rows'[t] = rows[t] /\ drafts'[t] = drafts[t]
                                 /\ t \in raced' <=> t \in raced
    BY <2>0, <2>1, WritersChangeOne
  <2>3. ASSUME Contracted35 = TRUE, NEW t \in Rows, OwnedRow(t)
        PROVE  OwnedRow(t)'
    BY <2>0, <2>1, <2>3, WritersKeepRows
  <2>4. 5035 \in ledger /\ (\A t \in Rows : OwnedRow(t)) => \A t \in Rows : OwnedRow(t)'
    BY <2>0, <2>3
  <2>5. UNCHANGED <<ledgerVars, lock, sess, deployVars, catalogVars>>
    BY <1>1 DEF Writes, DerivedWrites
  <2>6. QED
    BY <2>2, <2>4, <2>5 DEF ManifestsTyped
<1>2. CASE Backfills
  <2>1. /\ rows' = Reowned /\ UNCHANGED <<drafts, raced>>
        /\ manifests' = manifests \cup {[before |-> rows, after |-> Reowned]}
    BY <1>2 DEF Backfills, BackfillOwners
  <2>2. Reowned \in [Rows -> RowValues]
    BY ReownedRowTyped DEF Reowned, RowsTyped
  <2>3. ASSUME NEW r \in Rows, OwnedRow(r)
        PROVE  OwnedRow(r)'
    <3>1. rows[r] \in RowValues
      BY DEF RowsTyped
    <3>2. CASE rows[r].here
      <4>1. rows'[r] = ReownedRow(rows[r]) /\ rows'[r].here
        BY <2>1, <3>1, <3>2 DEF Reowned, ReownedRow, RowValues
      <4>2. Whole(r, rows[r], r \in raced)
        BY <2>3, <3>2 DEF OwnedRow
      <4> DEFINE x == rows[r]
                 late == r \in raced
      <4>a. x \in RowValues /\ late \in BOOLEAN /\ Whole(r, x, late)
        BY <3>1, <4>2
      <4>b. /\ Whole(r, ReownedRow(x), late) /\ ReownedRow(x).part = x.part
            /\ ReownedRow(x).pair = x.pair
        <5> HIDE DEF x, late
        <5>1. QED
          BY <4>a, WholeRowsAreReowned
      <4>3. /\ Whole(r, rows'[r], r \in raced) /\ rows'[r].part = rows[r].part
            /\ rows'[r].pair = rows[r].pair
        BY <4>1, <4>b
      <4>4. QED
        BY <2>1, <2>3, <3>2, <4>1, <4>3 DEF OwnedRow, Drafted, Owner
    <3>3. CASE ~rows[r].here
      BY <2>1, <2>3, <3>3 DEF Reowned, OwnedRow, Drafted
    <3>4. QED
      BY <3>2, <3>3
  <2>4. QED
    BY <1>2, <2>1, <2>2, <2>3 DEF Backfills, RowsTyped, ManifestsTyped, DraftsTyped
<1>3. CASE Reverses
  <2>1. PICK m \in manifests : Reverse(m)
    BY <1>3 DEF Reverses
  <2>2. /\ rows' = [r \in Rows |-> IF m.before[r].here
                     THEN ReversedRow(rows[r], m.before[r], m.after[r]) ELSE rows[r]]
        /\ UNCHANGED <<manifests, drafts, raced>> /\ 5035 \notin ledger
    BY <2>1 DEF Reverse, BackfillReverse, Contracted35
  <2>3. RowsTyped'
    BY <2>2, ReversedRowTyped DEF RowsTyped, ManifestsTyped
  <2>4. QED
    BY <1>3, <2>2, <2>3 DEF Reverses, ManifestsTyped, DraftsTyped
<1>4. CASE RollsBackVocabulary
  <2>1. /\ rows' = [r \in Rows |-> IF rows[r].here /\ Word(rows[r]) = "group"
                                   THEN [rows[r] EXCEPT !.pair = <<@[1], "private">>]
                                   ELSE rows[r]]
        /\ UNCHANGED <<manifests, drafts, raced>> /\ 5035 \notin ledger
    BY <1>4 DEF RollsBackVocabulary, RollBackVocabulary, Contracted35
  <2>2. \A r \in Rows : <<rows[r].pair[1], "private">> \in Pairs
    BY PairParts, MadePair DEF RowsTyped, RowValues, Words
  <2>3. RowsTyped'
    BY <2>1, <2>2 DEF RowsTyped, RowValues
  <2>4. QED
    BY <1>4, <2>1, <2>3 DEF RollsBackVocabulary, ManifestsTyped, DraftsTyped
<1>5. QED
  BY <1>1, <1>2, <1>3, <1>4 DEF RowSteps

OwnedInv == 5035 \in ledger => \A r \in Rows : OwnedRow(r)

\* One migration: the ledger records one pending version more, 5035 makes the
\* rows whole, and the signature-hash guard, once installed, stays.
LEMMA AppliesOne ==
  ASSUME LedgerTypeOK, OwnedInv, NEW s \in Sessions, Applies(s)
  PROVE  LET v == Next1(sess[s].pending)
         IN /\ v \in sess[s].pending /\ v \in Versions
            /\ ledger' = ledger \cup {v}
            /\ sess' = [sess EXCEPT ![s].pending = @ \ {v}]
            /\ UNCHANGED <<manifests, drafts, altered, lock, deployVars>>
            /\ RowsTyped' /\ DraftsTyped' /\ OwnedInv'
            /\ CatalogTyped' /\ Stirs
            /\ catalog'.hashGuard \in {"installed", catalog.hashGuard}
<1> DEFINE v == Next1(sess[s].pending)
<1> USE DEF LedgerTypeOK
<1>1. /\ v = 5035 => Contractible /\ NoDrafts
      /\ ledger' = ledger \cup {v}
      /\ rows' = IF v = 5035 THEN Contracted ELSE rows
      /\ raced' = IF v = 5035 THEN {} ELSE raced
      /\ catalog' = Recatalog(ledger \cup {v}) /\ Stirs
      /\ sess' = [sess EXCEPT ![s].pending = @ \ {v}]
      /\ UNCHANGED <<manifests, drafts, altered, lock, deployVars>>
  BY DEF Applies
<1>2. v \in sess[s].pending /\ v \in Versions
  BY NextIsPending DEF Applies, SessionStates
<1>3. RowsTyped' /\ DraftsTyped' /\ OwnedInv'
  <2>1. CASE v = 5035
    <3>1. \A r \in Rows : rows'[r] = IF rows[r].here THEN ContractedRow(r) ELSE rows[r]
      BY <1>1, <2>1 DEF Contracted
    <3>2. RowsTyped'
      BY <1>1, <2>1, ContractedRowTyped DEF Contracted, RowsTyped
    <3>3. ASSUME NEW r \in Rows, rows'[r].here
          PROVE  Whole(r, rows'[r], FALSE)
      <4>1. rows[r].here
        BY <3>1, <3>3
      <4>2. Owned(rows[r]) /\ (rows[r].job.has => rows[r].job.by # "none")
        BY <1>1, <2>1, <4>1 DEF Contractible, Present
      <4>3. QED
        BY <3>1, <4>1, <4>2, ContractedRowIsWhole
    <3>4. raced' = {} /\ drafts' = drafts /\ \A r \in Rows : drafts[r] = NoPart
      BY <1>1, <2>1 DEF NoDrafts
    <3>5. ASSUME NEW r \in Rows
          PROVE  OwnedRow(r)'
      BY <3>3, <3>4 DEF OwnedRow, Drafted, Whole
    <3>6. QED
      BY <3>2, <3>4, <3>5 DEF OwnedInv, DraftsTyped
  <2>2. CASE v # 5035
    <3>1. rows' = rows /\ drafts' = drafts /\ raced' = raced
          /\ (5035 \in ledger' => 5035 \in ledger)
      BY <1>1, <2>2
    <3>2. QED
      BY <3>1 DEF RowsTyped, DraftsTyped, OwnedInv, OwnedRow, Drafted
  <2>3. QED
    BY <2>1, <2>2
<1>4. CatalogTyped' /\ (catalog'.hashGuard \in {"installed", catalog.hashGuard})
  <2> DEFINE vs == ledger \cup {v}
  <2>0. 5038 \in vs \/ (5038 \in vs <=> 5038 \in ledger)
    OBVIOUS
  <2>1. /\ Recatalog(vs) \in CatalogValues
        /\ Recatalog(vs).hashGuard \in {"installed", catalog.hashGuard}
    <3> HIDE DEF vs
    <3>1. QED
      BY <2>0, Recataloged
  <2>2. QED
    BY <1>1, <2>1 DEF CatalogTyped
<1>5. QED
  BY <1>1, <1>2, <1>3, <1>4

\* The other steps of a session leave the rows and the catalog alone.
LEMMA SessionsElse ==
  ASSUME NEW s \in Sessions,
         \/ Start(s) \/ ReadsOnly(s) \/ RunLocks(s) \/ ApplyFails(s) \/ Finishes(s)
         \/ AdoptLocked(s) \/ Dies(s)
  PROVE  /\ UNCHANGED <<rowVars, altered, catalog, deployVars>>
         /\ \/ ledger' = ledger
            \/ ledger = {} /\ ledger' = {5032} /\ lock = "none"
         /\ lock' \in {lock, s, "none"}
         /\ stirred' \subseteq stirred
<1>1. CASE ReadsOnly(s)
  <2>1. stirred' \subseteq stirred
    BY <1>1 DEF ReadsOnly, VerifyReadsCatalog
  <2>2. QED
    BY <1>1, <2>1 DEF ReadsOnly, ledgerVars
<1>2. CASE Start(s) \/ RunLocks(s) \/ ApplyFails(s) \/ Finishes(s) \/ AdoptLocked(s) \/ Dies(s)
  BY <1>2 DEF Start, RunLocks, ApplyFails, Finishes, AdoptLocked, Dies, ledgerVars, catalogVars
<1>3. QED
  BY <1>1, <1>2

\* What neither writes a row nor records 5035 keeps the rows.
LEMMA SameRows ==
  ASSUME RowsTyped, ManifestsTyped, DraftsTyped, OwnedInv,
         UNCHANGED rowVars, 5035 \in ledger' => 5035 \in ledger
  PROVE  RowsTyped' /\ ManifestsTyped' /\ DraftsTyped' /\ OwnedInv'
<1>1. rows' = rows /\ manifests' = manifests /\ drafts' = drafts /\ raced' = raced
  BY DEF rowVars
<1>2. QED
  BY <1>1 DEF RowsTyped, ManifestsTyped, DraftsTyped, OwnedInv, OwnedRow, Drafted

\* The types, and the owned rows with those not yet committed.
LEMMA LedgerInvariant == Spec => [](LedgerTypeOK /\ OwnedInv)
<1>1. Init => OwnedInv
  <2> SUFFICES ASSUME Init PROVE OwnedInv
    OBVIOUS
  <2>1. PICK w \in Worlds : /\ ledger = w.ledger /\ rows \in w.rows /\ raced = w.raced
                            /\ drafts = [r \in Rows |-> NoPart]
    BY DEF Init
  <2>2. 5035 \in ledger => \A r \in Rows : rows[r].here => Whole(r, rows[r], r \in raced)
    BY <2>1, WorldsAssumption
  <2>3. QED
    BY <2>1, <2>2 DEF OwnedInv, OwnedRow, Drafted
<1>2. ASSUME LedgerTypeOK, OwnedInv, [Next]_vars
      PROVE  LedgerTypeOK' /\ OwnedInv'
  <2> USE <1>2 DEF LedgerTypeOK, CatalogTyped
  <2>1. ASSUME NEW s \in Sessions, Applies(s)
        PROVE  LedgerTypeOK' /\ OwnedInv'
    <3>1. sess' \in [Sessions -> SessionStates]
      BY <2>1, SessionsTyped
    <3>2. ManifestsTyped' /\ stirred' \subseteq Sessions
      BY <2>1, AppliesOne DEF ManifestsTyped, Stirs, Reading
    <3>3. QED
      BY <2>1, <3>1, <3>2, AppliesOne DEF deployVars
  <2>2. ASSUME NEW s \in Sessions,
               \/ Start(s) \/ ReadsOnly(s) \/ RunLocks(s) \/ ApplyFails(s) \/ Finishes(s)
               \/ AdoptLocked(s) \/ Dies(s)
        PROVE  LedgerTypeOK' /\ OwnedInv'
    <3>1. sess' \in [Sessions -> SessionStates]
      BY <2>2, SessionsTyped
    <3>2. /\ UNCHANGED <<rowVars, catalog, deployVars>> /\ lock' \in {lock, s, "none"}
          /\ ledger' = ledger \/ ledger' = {5032}
          /\ stirred' \subseteq stirred
      BY <2>2, SessionsElse
    <3>3. ledger' \subseteq Versions /\ (5035 \in ledger' => 5035 \in ledger)
      <4>1. 5032 \in Versions /\ 5035 # 5032
        BY DEF Versions
      <4>2. QED
        BY <3>2, <4>1
    <3>4. RowsTyped' /\ ManifestsTyped' /\ DraftsTyped' /\ OwnedInv'
      BY <3>2, <3>3, SameRows
    <3>5. QED
      BY <3>1, <3>2, <3>3, <3>4 DEF deployVars
  <2>3. CASE Scripts
    <3>1. CASE ScriptLooks
      <4>1. /\ script' \in DOMAIN Removes
            /\ UNCHANGED <<rowVars, ledgerVars, lock, sess, server, boot, catalogVars>>
        BY <3>1, ScriptsLook
      <4>2. RowsTyped' /\ ManifestsTyped' /\ DraftsTyped' /\ OwnedInv'
        BY <4>1, SameRows DEF ledgerVars
      <4>3. QED
        BY <4>1, <4>2 DEF ledgerVars, catalogVars
    <3>2. CASE ScriptCommits
      <4>1. /\ ledger' \subseteq ledger /\ script' = "none" /\ CatalogTyped'
            /\ UNCHANGED <<rowVars, lock, sess, server>>
        BY <3>2, ScriptsUndo
      <4>2. boot' \in {boot, "overtaken"} /\ stirred' \subseteq Sessions
        BY <3>2 DEF ScriptCommits, Stirs, Reading
      <4>3. RowsTyped' /\ ManifestsTyped' /\ DraftsTyped' /\ OwnedInv'
        BY <4>1, SameRows
      <4>4. QED
        BY <4>1, <4>2, <4>3
    <3>3. CASE ScriptFails
      <4>1. /\ script' = "none" /\ boot' \in {boot, "apart"}
            /\ UNCHANGED <<rowVars, ledgerVars, lock, sess, server, catalogVars>>
        BY <3>3 DEF ScriptFails
      <4>2. RowsTyped' /\ ManifestsTyped' /\ DraftsTyped' /\ OwnedInv'
        BY <4>1, SameRows DEF ledgerVars
      <4>3. QED
        BY <4>1, <4>2 DEF ledgerVars, catalogVars
    <3>4. QED
      BY <2>3, <3>1, <3>2, <3>3 DEF Scripts, ScriptLooks
  <2>4. CASE RowSteps
    <3>1. /\ RowsTyped' /\ ManifestsTyped' /\ DraftsTyped'
          /\ 5035 \in ledger /\ (\A r \in Rows : OwnedRow(r)) => \A r \in Rows : OwnedRow(r)'
          /\ UNCHANGED <<ledgerVars, lock, sess, deployVars, catalogVars>>
      BY <2>4, RowStepsKeepRows
    <3>2. OwnedInv'
      BY <3>1 DEF OwnedInv, ledgerVars
    <3>3. QED
      BY <3>1, <3>2 DEF ledgerVars, deployVars, catalogVars
  <2>5. CASE KernelRecords \/ UNCHANGED vars
    <3>1. UNCHANGED <<rowVars, ledger, lock, sess, deployVars, catalogVars>>
      BY <2>5 DEF KernelRecords, vars, ledgerVars
    <3>2. RowsTyped' /\ ManifestsTyped' /\ DraftsTyped' /\ OwnedInv'
      BY <3>1, SameRows
    <3>3. QED
      BY <3>1, <3>2 DEF deployVars, catalogVars
  <2>6. CASE Boot
    <3>1. server' \in {"down", "contract", "columns", "guard", "ready", "serving", "quiet"}
      BY <2>6 DEF Boot, Connects, Probes, Serves, FallsQuiet, Stops
    <3>2. /\ boot' \in {boot, "apart", "unseen"}
          /\ UNCHANGED <<rowVars, ledgerVars, lock, sess, script, catalogVars>>
      BY <2>6 DEF Boot, Connects
    <3>3. RowsTyped' /\ ManifestsTyped' /\ DraftsTyped' /\ OwnedInv'
      BY <3>2, SameRows DEF ledgerVars
    <3>4. QED
      BY <3>1, <3>2, <3>3 DEF ledgerVars, catalogVars
  <2>7. QED
    BY <2>1, <2>2, <2>3, <2>4, <2>5, <2>6 DEF Next, RowSteps
<1>3. QED
  BY <1>1, <1>2, LedgerInitTypes, PTL DEF Spec

\* Every variable keeps its type: a session never comes to a place, a version
\* or a pending migration outside the range, and a row stays a row.
THEOREM LedgerTypeCorrect == Spec => []LedgerTypeOK
  BY LedgerInvariant, PTL

\* While 5035 is recorded every synthesis is wholly owned, but for the derived
\* row of one narrowed beside its insert, for every set of syntheses and however
\* often it was undone, re-owned and applied again.
THEOREM ContractKeepsOwners == Spec => []OwnedAfterContract
<1>1. OwnedInv => OwnedAfterContract
  BY DEF OwnedInv, OwnedRow, OwnedAfterContract, WhollyOwned, Present
<1>2. QED
  BY <1>1, LedgerInvariant, PTL

-----------------------------------------------------------------------------
(* The migrations.                                                         *)

\* A session that applies holds the lock, has nothing pending that is
\* recorded, and finds in the ledger only what its target embeds.
AtWork(s) ==
  /\ lock = s /\ ~altered
  /\ sess[s].pending \subseteq Embedded(sess[s].to) \ ledger
  /\ ledger \subseteq Embedded(sess[s].to)

HistoryInv == \A s \in Sessions : sess[s].pc = "apply" => AtWork(s)

\* A step that leaves the lock, the ledger's versions or fewer of them, and
\* the session alone leaves the session at work.
LEMMA StaysAtWork ==
  ASSUME NEW s \in Sessions, AtWork(s), lock' = lock, altered' = altered,
         ledger' \subseteq ledger, sess'[s] = sess[s]
  PROVE  AtWork(s)'
  BY DEF AtWork

LEMMA SessionKeepsHistory ==
  ASSUME LedgerTypeOK, HistoryInv, NEW s \in Sessions,
         \/ Start(s) \/ ReadsOnly(s) \/ RunLocks(s) \/ Applies(s) \/ ApplyFails(s)
         \/ Finishes(s) \/ AdoptLocked(s) \/ Dies(s)
  PROVE  HistoryInv'
<1> USE LedgerAssumption DEF LedgerTypeOK
<1>1. sess' \in [Sessions -> SessionStates]
  BY SessionsTyped
<1>2. \A t \in Sessions \ {s} : sess'[t] = sess[t]
  BY DEF Start, ReadsOnly, RunLocks, Applies, ApplyFails, Finishes, AdoptLocked, Dies,
         RunBegins, RunReadsLedger, RunReadsTables, AdoptBegins, VerifyReadsLedger,
         VerifyReadsKernel, VerifyReadsCatalog, Goto
<1>3. \A t \in Sessions : sess[t].pc = "apply" => AtWork(t)
  BY DEF HistoryInv
<1>4. CASE Start(s) \/ ReadsOnly(s)
  <2>1. sess'[s].pc # "apply"
    <3>1. CASE VerifyReadsCatalog(s)
      <4>1. PICK check \in DOMAIN CheckAfter : Goto(s, CheckAfter[check]) \/ Goto(s, "refused")
        BY <3>1 DEF VerifyReadsCatalog
      <4>2. CheckAfter[check] # "apply"
        BY DEF CheckAfter
      <4>3. QED
        BY <4>1, <4>2 DEF Goto, SessionStates
    <3>2. CASE \/ Start(s) \/ RunBegins(s) \/ RunReadsLedger(s) \/ RunReadsTables(s)
               \/ AdoptBegins(s) \/ VerifyReadsLedger(s) \/ VerifyReadsKernel(s)
      BY <3>2 DEF Start, RunBegins, RunReadsLedger, RunReadsTables, AdoptBegins,
                  VerifyReadsLedger, VerifyReadsKernel, Goto, SessionStates
    <3>3. QED
      BY <1>4, <3>1, <3>2 DEF ReadsOnly
  <2>2. lock' = lock /\ altered' = altered /\ ledger' = ledger
    BY <1>4 DEF Start, ReadsOnly, ledgerVars
  <2>3. QED
    BY <1>2, <1>3, <2>1, <2>2, StaysAtWork DEF HistoryInv
<1>5. CASE RunLocks(s)
  <2>1. lock = "none" /\ ledger' = ledger /\ altered' = altered
    BY <1>5 DEF RunLocks, ledgerVars
  <2>2. \A t \in Sessions : sess[t].pc # "apply"
    BY <1>3, <2>1 DEF AtWork
  <2>3. CASE Goto(s, "refused")
    BY <1>2, <2>2, <2>3 DEF Goto, SessionStates, HistoryInv
  <2>4. CASE /\ ledger \subseteq Embedded(sess[s].to) /\ ~altered /\ lock' = s
             /\ sess' = [sess EXCEPT ![s].pc = "apply",
                                     ![s].pending = Embedded(sess[s].to) \ ledger]
    <3>1. sess'[s].to = sess[s].to /\ sess'[s].pending = Embedded(sess[s].to) \ ledger
      BY <2>4 DEF SessionStates
    <3>2. AtWork(s)'
      BY <2>1, <2>4, <3>1 DEF AtWork
    <3>3. QED
      BY <1>2, <2>2, <3>2 DEF HistoryInv
  <2>5. QED
    BY <1>5, <2>3, <2>4 DEF RunLocks
<1>6. CASE Applies(s)
  <2> DEFINE v == Next1(sess[s].pending)
  <2>1. AtWork(s)
    BY <1>3, <1>6 DEF Applies
  <2>2. /\ ledger' = ledger \cup {v} /\ sess' = [sess EXCEPT ![s].pending = @ \ {v}]
        /\ altered' = altered /\ lock' = lock
    BY <1>6 DEF Applies
  <2>3. v \in sess[s].pending
    BY <1>6, NextIsPending DEF Applies, SessionStates
  <2>4. sess'[s].to = sess[s].to /\ sess'[s].pending = sess[s].pending \ {v}
    BY <2>2 DEF SessionStates
  <2>5. AtWork(s)'
    BY <2>1, <2>2, <2>3, <2>4 DEF AtWork
  <2>6. \A t \in Sessions \ {s} : sess[t].pc # "apply"
    BY <1>3, <2>1 DEF AtWork
  <2>7. QED
    BY <1>2, <2>5, <2>6 DEF HistoryInv
<1>7. CASE ApplyFails(s) \/ Finishes(s)
  <2>1. sess[s].pc = "apply" /\ sess'[s].pc # "apply"
    BY <1>7 DEF ApplyFails, Finishes, Goto, SessionStates
  <2>2. \A t \in Sessions \ {s} : sess[t].pc # "apply"
    BY <1>3, <2>1 DEF AtWork
  <2>3. QED
    BY <1>2, <2>1, <2>2 DEF HistoryInv
<1>8. CASE AdoptLocked(s)
  <2>1. lock = "none" /\ sess'[s].pc # "apply"
    BY <1>8 DEF AdoptLocked, Goto, SessionStates
  <2>2. QED
    BY <1>2, <1>3, <2>1 DEF HistoryInv, AtWork
<1>9. CASE Dies(s)
  <2>1. /\ sess'[s].pc # "apply" /\ ledger' = ledger /\ altered' = altered
        /\ lock # s => lock' = lock
    BY <1>9 DEF Dies, Idle, ledgerVars
  <2>2. ASSUME NEW t \in Sessions, sess'[t].pc = "apply"
        PROVE  AtWork(t)'
    <3>1. t # s /\ sess'[t] = sess[t] /\ AtWork(t)
      BY <1>2, <1>3, <2>1, <2>2
    <3>2. lock # s
      BY <3>1 DEF AtWork
    <3>3. QED
      BY <2>1, <3>1, <3>2, StaysAtWork
  <2>3. QED
    BY <2>2 DEF HistoryInv
<1>10. QED
  BY <1>4, <1>5, <1>6, <1>7, <1>8, <1>9

LEMMA HistoryHolds == Spec => [](LedgerTypeOK /\ HistoryInv)
<1>1. Init => HistoryInv
  <2> SUFFICES ASSUME Init, NEW s \in Sessions PROVE sess[s].pc = "idle"
    BY DEF HistoryInv
  <2>1. PICK w \in Worlds : sess \in [Sessions -> {Idle(last) : last \in w.binaries}]
    BY DEF Init
  <2>2. QED
    BY <2>1 DEF Idle
<1>2. ASSUME LedgerTypeOK, HistoryInv, [Next]_vars
      PROVE  HistoryInv'
  <2>1. CASE \E s \in Sessions :
               \/ Start(s) \/ ReadsOnly(s) \/ RunLocks(s) \/ Applies(s) \/ ApplyFails(s)
               \/ Finishes(s) \/ AdoptLocked(s) \/ Dies(s)
    BY <1>2, <2>1, SessionKeepsHistory
  <2>2. CASE \/ Scripts \/ KernelRecords \/ RowSteps \/ Boot \/ UNCHANGED vars
    <3>1. lock' = lock /\ altered' = altered /\ ledger' \subseteq ledger /\ sess' = sess
      <4>1. CASE Scripts
        <5>1. CASE ScriptLooks
          BY <5>1, ScriptsLook DEF ledgerVars
        <5>2. CASE ScriptCommits
          BY <1>2, <5>2, ScriptsUndo DEF LedgerTypeOK
        <5>3. CASE ScriptFails
          BY <5>3 DEF ScriptFails, ledgerVars
        <5>4. QED
          BY <4>1, <5>1, <5>2, <5>3 DEF Scripts, ScriptLooks
      <4>2. CASE RowSteps
        BY <1>2, <4>2, RowStepsKeepRows DEF LedgerTypeOK, ledgerVars
      <4>3. CASE KernelRecords \/ Boot \/ UNCHANGED vars
        BY <4>3 DEF KernelRecords, Boot, vars, ledgerVars
      <4>4. QED
        BY <2>2, <4>1, <4>2, <4>3
    <3>2. QED
      BY <1>2, <3>1, StaysAtWork DEF HistoryInv
  <2>3. QED
    BY <1>2, <2>1, <2>2 DEF Next, RowSteps
<1>3. QED
  BY <1>1, <1>2, LedgerTypeCorrect, PTL DEF Spec

\* A run migrates under the lock, nothing twice, and only on a history it
\* knows, however many runs overlap and die, and whatever the scripts, which
\* take no lock, undo meanwhile.
THEOREM KnownHistory == Spec => OnlyKnownHistoryIsBuiltOn
<1>1. LedgerTypeOK /\ HistoryInv /\ [Next]_vars =>
        [\A s \in Sessions :
           sess[s].pc = "apply" /\ sess'[s].pending # sess[s].pending =>
             /\ lock = s
             /\ sess[s].pending \cap ledger = {}
             /\ ledger \subseteq Embedded(sess[s].to) /\ ~altered]_vars
  BY DEF HistoryInv, AtWork
<1>2. QED
  BY <1>1, HistoryHolds, PTL DEF Spec, OnlyKnownHistoryIsBuiltOn

-----------------------------------------------------------------------------
(* A process that boots.                                                   *)

\* What a booting process has probed is still there when it probes the next,
\* but for the guard a script takes away that had not seen the process connect.
BootInv ==
  /\ server \in {"columns", "guard", "ready"} => 5033 \in ledger
  /\ server \in {"guard", "ready"} => 5034 \in ledger
  /\ server = "ready" /\ boot # "overtaken" => catalog.hashGuard = "installed"
  /\ script = "e1f" /\ server \in {"contract", "columns", "guard", "ready"} => boot = "unseen"

LEMMA GuardFound == SignatureHashGuardFindings(catalog) = {} <=> catalog.hashGuard = "installed"
<1>1. {<<"hash guard">>} # {}
  OBVIOUS
<1>2. QED
  BY <1>1, Zenon DEF SignatureHashGuardFindings

LEMMA BootHolds == Spec => [](LedgerTypeOK /\ BootInv)
<1>1. Init => BootInv
  BY DEF Init, BootInv
<1>2. ASSUME LedgerTypeOK, OwnedInv, BootInv, [Next]_vars
      PROVE  BootInv'
  <2>1. ASSUME NEW s \in Sessions, Applies(s)
        PROVE  BootInv'
    <3>1. ledger \subseteq ledger' /\ UNCHANGED <<server, script, boot>>
      BY <2>1 DEF Applies, deployVars
    <3>2. catalog'.hashGuard \in {"installed", catalog.hashGuard}
      BY <1>2, <2>1, AppliesOne
    <3>3. QED
      BY <1>2, <3>1, <3>2 DEF BootInv
  <2>2. ASSUME NEW s \in Sessions,
               \/ Start(s) \/ ReadsOnly(s) \/ RunLocks(s) \/ ApplyFails(s) \/ Finishes(s)
               \/ AdoptLocked(s) \/ Dies(s)
        PROVE  BootInv'
    <3>1. ledger \subseteq ledger' /\ UNCHANGED <<server, script, boot, catalog>>
      BY <2>2, SessionsElse DEF deployVars
    <3>2. QED
      BY <1>2, <3>1 DEF BootInv
  <2>3. CASE Scripts
    <3>1. CASE ScriptLooks
      <4>1. /\ UNCHANGED <<ledger, catalog, server, boot>>
            /\ script' = "e1f" => server \in {"down", "quiet"}
        BY <3>1, ScriptsLook DEF ledgerVars, catalogVars, Connected
      <4>2. QED
        BY <1>2, <4>1 DEF BootInv
    <3>2. CASE ScriptCommits
      <4>1. /\ {5033, 5034} \cap ledger \subseteq ledger' /\ server' = server
            /\ script' = "none" /\ script # "none"
            /\ script # "e1f" => catalog'.hashGuard = catalog.hashGuard
        BY <1>2, <3>2, ScriptsUndo DEF LedgerTypeOK
      <4>2. boot' = IF script = "e1f" /\ boot = "unseen" THEN "overtaken" ELSE boot
        BY <3>2 DEF ScriptCommits
      <4>3. QED
        BY <1>2, <4>1, <4>2 DEF BootInv
    <3>3. CASE ScriptFails
      <4>1. /\ UNCHANGED <<ledger, catalog, server>> /\ script' = "none"
            /\ boot' = IF boot = "unseen" THEN "apart" ELSE boot
        BY <3>3 DEF ScriptFails, ledgerVars, catalogVars
      <4>2. QED
        BY <1>2, <4>1 DEF BootInv
    <3>4. QED
      BY <2>3, <3>1, <3>2, <3>3 DEF Scripts, ScriptLooks
  <2>4. CASE Boot
    <3>1. ledger' = ledger /\ catalog' = catalog /\ script' = script
      BY <2>4 DEF Boot, ledgerVars, catalogVars
    <3>2. CASE Probes /\ boot' = boot
      <4>1. CASE server = "guard" /\ SignatureHashGuardFindings(catalog) = {} /\ server' = "ready"
        BY <1>2, <3>1, <3>2, <4>1, GuardFound DEF BootInv
      <4>2. CASE \/ server = "contract" /\ S1 /\ server' = "columns"
                 \/ server = "columns" /\ TenancyColumns /\ server' = "guard"
                 \/ server \in {"contract", "columns", "guard"} /\ server' = "down"
        BY <1>2, <3>1, <3>2, <4>2 DEF S1, TenancyColumns, BootInv
      <4>3. QED
        BY <3>2, <4>1, <4>2 DEF Probes
    <3>3. CASE Connects
      BY <3>1, <3>3 DEF Connects, BootInv
    <3>4. CASE Serves \/ FallsQuiet \/ Stops
      BY <3>1, <3>4 DEF Serves, FallsQuiet, Stops, BootInv
    <3>5. QED
      BY <2>4, <3>2, <3>3, <3>4 DEF Boot
  <2>5. CASE RowSteps
    BY <1>2, <2>5, RowStepsKeepRows DEF LedgerTypeOK, BootInv, ledgerVars, deployVars, catalogVars
  <2>6. CASE KernelRecords \/ UNCHANGED vars
    BY <1>2, <2>6 DEF KernelRecords, vars, ledgerVars, deployVars, catalogVars, BootInv
  <2>7. QED
    BY <1>2, <2>1, <2>2, <2>3, <2>4, <2>5, <2>6 DEF Next, RowSteps
<1>3. QED
  BY <1>1, <1>2, LedgerInvariant, PTL DEF Spec

\* A process starts to serve only on a schema that is whole: no undo script
\* takes from under it what an earlier probe found, but for the one that had
\* looked for connections before this process made its own.
THEOREM WholeSchemaServes == Spec => BootsOnAWholeSchema
<1>1. LedgerTypeOK /\ BootInv /\ [Next]_vars =>
        [server = "ready" /\ server' = "serving" =>
           /\ {5033, 5034} \subseteq ledger
           /\ SignatureHashGuardFindings(catalog) = {} \/ boot = "overtaken"]_vars
  BY GuardFound DEF BootInv
<1>2. QED
  BY <1>1, BootHolds, PTL DEF Spec, BootsOnAWholeSchema

-----------------------------------------------------------------------------
(* The re-own and its reverse.  A reverse may come long after its backfill, *)
(* after others, after narrowings, rollbacks and a contract that was undone, *)
(* so what has to hold relates a row as it is to the row as every manifest  *)
(* has it.                                                                  *)

\* The pair a backfill gives an ownerless root.
Gave(x) == <<"G", IF Word(x) = "public" THEN "public" ELSE "group">>

\* A job that is missing at one time is one the backfill inserts.
JobsAgree(x, y) ==
  /\ x.done <=> y.done
  /\ ~y.job.has /\ x.job.has => x.job.by = "P" /\ x.done

\* Of a row that was ownerless as y, nothing is public that y was not, and
\* while the root carries the pair the backfill gives y its job does.
PairsAgree(x, y) ==
  ~Owned(y) => /\ Word(x) = "public" => Word(y) = "public"
               /\ x.pair = Gave(y) /\ x.job.has => x.job.pair = x.pair

Kin(S) == \A x, y \in S : Sane(x) /\ JobsAgree(x, y) /\ PairsAgree(x, y)

\* The row as it is, and as the manifests have it.
States(r) == {x \in {rows[r]} \cup {m.before[r] : m \in manifests} : x.here}

Made(m) == \A r \in Rows :
  m.after[r] = IF m.before[r].here THEN ReownedRow(m.before[r]) ELSE m.before[r]

RestoreInv ==
  /\ \A m \in manifests : Made(m) /\ \A r \in Rows : m.before[r].here => rows[r].here
  /\ \A r \in Rows : Kin(States(r))

LEMMA KinJoins ==
  ASSUME NEW S, Kin(S), NEW y, Sane(y), JobsAgree(y, y), PairsAgree(y, y),
         \A u \in S : /\ JobsAgree(u, y) /\ JobsAgree(y, u)
                      /\ PairsAgree(u, y) /\ PairsAgree(y, u)
  PROVE  Kin(S \cup {y})
  BY DEF Kin

\* A row whose root stays or becomes owned, and whose job is the same but for
\* its pair: a narrowing, the contract, the rollback.
LEMMA OwnedJoins ==
  ASSUME NEW S \in SUBSET RowValues, Kin(S), NEW x \in S, NEW y \in RowValues, Owned(y),
         y.done <=> x.done, y.job.has <=> x.job.has, y.job.by = x.job.by,
         ~y.job.has => y.job = NoJob,
         Word(y) = "public" => Word(x) = "public",
         \/ y.job.has => y.job.pair = y.pair
         \/ Word(y) = "private"
         \/ Word(x) = "public" /\ Word(y) = "group"
  PROVE  Kin(S \cup {y})
<1>1. Sane(y) /\ JobsAgree(y, y) /\ PairsAgree(y, y)
  BY DEF Sane, JobsAgree, PairsAgree
<1>2. ASSUME NEW u \in S
      PROVE  JobsAgree(u, y) /\ JobsAgree(y, u) /\ PairsAgree(u, y) /\ PairsAgree(y, u)
  <2>1. JobsAgree(u, x) /\ JobsAgree(x, u) /\ PairsAgree(u, x) /\ PairsAgree(x, u)
    BY DEF Kin
  <2>2. JobsAgree(u, y) /\ JobsAgree(y, u)
    BY <2>1 DEF JobsAgree
  <2>3. PairsAgree(u, y)
    BY DEF PairsAgree
  <2>4. PairsAgree(y, u)
    <3> SUFFICES ASSUME ~Owned(u)
                 PROVE  /\ Word(y) = "public" => Word(u) = "public"
                        /\ y.pair = Gave(u) /\ y.job.has => y.job.pair = y.pair
      BY DEF PairsAgree
    <3>1. Word(x) = "public" => Word(u) = "public"
      BY <2>1 DEF PairsAgree
    <3>2. y.pair = Gave(u) => Word(y) = IF Word(u) = "public" THEN "public" ELSE "group"
      BY DEF Gave, Word
    <3>3. QED
      BY <3>1, <3>2
  <2>5. QED
    BY <2>2, <2>3, <2>4
<1>3. QED
  BY <1>1, <1>2, KinJoins

\* The rollback of an ownerless root.
LEMMA RolledBackJoins ==
  ASSUME NEW S \in SUBSET RowValues, Kin(S), NEW x \in S, ~Owned(x), Word(x) = "group",
         NEW y \in RowValues, y = [x EXCEPT !.pair = <<"none", "private">>]
  PROVE  Kin(S \cup {y})
<1>1. /\ y.job = x.job /\ (y.done <=> x.done) /\ y.pair = <<"none", "private">>
      /\ ~Owned(y) /\ Word(y) = "private" /\ Gave(y) = Gave(x)
  BY DEF RowValues, Owned, Owner, Word, Gave
<1>2. \A u : y.pair # Gave(u)
  BY <1>1 DEF Gave
<1>3. Sane(y) /\ JobsAgree(y, y) /\ PairsAgree(y, y)
  BY <1>1, <1>2 DEF Kin, Sane, JobsAgree, PairsAgree
<1>4. ASSUME NEW u \in S
      PROVE  JobsAgree(u, y) /\ JobsAgree(y, u) /\ PairsAgree(u, y) /\ PairsAgree(y, u)
  <2>1. JobsAgree(u, x) /\ JobsAgree(x, u) /\ PairsAgree(u, x)
    BY DEF Kin
  <2>2. QED
    BY <1>1, <1>2, <2>1 DEF JobsAgree, PairsAgree
<1>5. QED
  BY <1>3, <1>4, KinJoins

\* What the backfill makes of a row, field by field.
LEMMA ReownedFields ==
  ASSUME NEW x \in RowValues
  PROVE  LET y == ReownedRow(x) IN
         /\ (y.here <=> x.here) /\ (y.done <=> x.done)
         /\ y.pair = IF Owned(x) THEN x.pair ELSE Gave(x)
         /\ y.part = IF x.part = NoPair THEN y.pair ELSE x.part
         /\ x.job.has => /\ y.job.has
                         /\ y.job.pair = IF x.job.pair = NoPair THEN y.pair ELSE x.job.pair
                         /\ y.job.by = IF x.job.by = "none" /\ ~Owned(x) THEN "P" ELSE x.job.by
         /\ ~x.job.has => y.job = IF ~Owned(x) /\ x.done THEN Job(y.pair, "P") ELSE NoJob
<1> DEFINE pair == IF ~Owned(x) THEN Gave(x) ELSE x.pair
           job == [x.job EXCEPT !.pair = IF @ = NoPair THEN pair ELSE @,
                                !.by = IF @ = "none" /\ ~Owned(x) THEN "P" ELSE @]
           z == IF x.job.has THEN job
                ELSE IF ~Owned(x) /\ x.done THEN Job(pair, "P") ELSE NoJob
<1>1. ReownedRow(x) = [x EXCEPT !.pair = pair, !.job = z,
                                !.part = IF @ = NoPair THEN pair ELSE @]
  BY DEF ReownedRow, Gave
<1>2. /\ job.has = x.job.has
      /\ job.pair = IF x.job.pair = NoPair THEN pair ELSE x.job.pair
      /\ job.by = IF x.job.by = "none" /\ ~Owned(x) THEN "P" ELSE x.job.by
  BY DEF RowValues
<1> HIDE DEF pair, job
<1>3. /\ ReownedRow(x).pair = pair /\ ReownedRow(x).job = z
      /\ ReownedRow(x).here = x.here /\ ReownedRow(x).done = x.done
      /\ ReownedRow(x).part = IF x.part = NoPair THEN pair ELSE x.part
  BY <1>1 DEF RowValues
<1>4. QED
  BY <1>2, <1>3 DEF pair

LEMMA ReownedJoins ==
  ASSUME NEW S \in SUBSET RowValues, Kin(S), NEW x \in S
  PROVE  Kin(S \cup {ReownedRow(x)})
<1> DEFINE y == ReownedRow(x)
<1>1. /\ (y.done <=> x.done)
      /\ y.pair = IF Owned(x) THEN x.pair ELSE Gave(x)
      /\ x.job.has => /\ y.job.has
                      /\ y.job.pair = IF x.job.pair = NoPair THEN y.pair ELSE x.job.pair
                      /\ y.job.by = IF x.job.by = "none" /\ ~Owned(x) THEN "P" ELSE x.job.by
      /\ ~x.job.has => y.job = IF ~Owned(x) /\ x.done THEN Job(y.pair, "P") ELSE NoJob
  BY ReownedFields
<1>2. /\ ~NoJob.has
      /\ Job(y.pair, "P").has /\ Job(y.pair, "P").by = "P" /\ Job(y.pair, "P").pair = y.pair
  BY DEF NoJob, Job
<1> HIDE DEF y
<1>3. Owned(y) /\ y.pair # NoPair /\ (Word(y) = "public" => Word(x) = "public")
  BY <1>1 DEF Owned, Owner, Word, Gave, NoPair
<1>4. Sane(y) /\ JobsAgree(y, y) /\ PairsAgree(y, y)
  BY <1>1, <1>2, <1>3 DEF Sane, JobsAgree, PairsAgree
<1>5. ASSUME NEW u \in S
      PROVE  JobsAgree(u, y) /\ JobsAgree(y, u) /\ PairsAgree(u, y) /\ PairsAgree(y, u)
  <2>1. /\ JobsAgree(u, x) /\ JobsAgree(x, u) /\ PairsAgree(u, x) /\ PairsAgree(x, u)
        /\ Sane(x)
    BY DEF Kin
  <2>2. JobsAgree(u, y) /\ JobsAgree(y, u)
    BY <1>1, <1>2, <2>1 DEF JobsAgree
  <2>3. PairsAgree(u, y)
    BY <1>3 DEF PairsAgree
  <2>4. PairsAgree(y, u)
    <3> SUFFICES ASSUME ~Owned(u), y.pair = Gave(u), y.job.has
                 PROVE  y.job.pair = y.pair
      BY <1>3, <2>1 DEF PairsAgree
    <3>1. CASE ~Owned(x)
      BY <1>1, <1>2, <2>1, <3>1 DEF Sane
    <3>2. CASE Owned(x)
      BY <1>1, <1>2, <1>3, <2>1, <3>2 DEF PairsAgree
    <3>3. QED
      BY <3>1, <3>2
  <2>5. QED
    BY <2>2, <2>3, <2>4
<1>6. QED
  BY <1>4, <1>5, KinJoins DEF y

JobValues == [has : BOOLEAN, pair : Pairs, by : {"none", "P", "Q"}]

LEMMA SameJob ==
  ASSUME NEW j \in JobValues, NEW k \in JobValues,
         j.has <=> k.has, j.pair = k.pair, j.by = k.by
  PROVE  j = k
  BY DEF JobValues

LEMMA SameRow ==
  ASSUME NEW x \in RowValues, NEW y \in RowValues, x.here <=> y.here, x.done <=> y.done,
         x.pair = y.pair, x.part = y.part, x.job = y.job
  PROVE  x = y
  BY DEF RowValues

LEMMA ReversedFields ==
  ASSUME NEW x \in RowValues, NEW b \in RowValues, NEW a \in RowValues
  PROVE  LET y == ReversedRow(x, b, a)
             taken == b.job # a.job /\ x.job.has /\ x.job.pair = a.job.pair IN
         /\ (y.here <=> x.here) /\ (y.done <=> x.done)
         /\ y.pair = IF b.pair # a.pair /\ x.pair = a.pair THEN b.pair ELSE x.pair
         /\ y.part = IF b.part # a.part /\ x.part = a.part THEN b.part ELSE x.part
         /\ ~taken => y.job = x.job
         /\ taken /\ ~b.job.has /\ a.job.has =>
              y.job = IF x.job.by = a.job.by THEN NoJob ELSE x.job
         /\ taken /\ ~(~b.job.has /\ a.job.has) =>
              /\ y.job.has /\ y.job.pair = NoPair
              /\ y.job.by = IF x.job.by = a.job.by THEN b.job.by ELSE x.job.by
<1> DEFINE taken == b.job # a.job /\ x.job.has /\ x.job.pair = a.job.pair
           job == [x.job EXCEPT !.pair = NoPair, !.by = IF @ = a.job.by THEN b.job.by ELSE @]
           z == IF taken
                THEN IF ~b.job.has /\ a.job.has
                     THEN IF x.job.by = a.job.by THEN NoJob ELSE x.job
                     ELSE job
                ELSE x.job
           pair == IF b.pair # a.pair /\ x.pair = a.pair THEN b.pair ELSE x.pair
           part == IF b.part # a.part /\ x.part = a.part THEN b.part ELSE x.part
<1>1. ReversedRow(x, b, a) = [x EXCEPT !.pair = pair, !.part = part, !.job = z]
  BY DEF ReversedRow
<1>2. /\ job.has = x.job.has /\ job.pair = NoPair
      /\ job.by = IF x.job.by = a.job.by THEN b.job.by ELSE x.job.by
  BY DEF RowValues
<1> HIDE DEF job, pair, part
<1>3. /\ ReversedRow(x, b, a).pair = pair /\ ReversedRow(x, b, a).part = part
      /\ ReversedRow(x, b, a).job = z
      /\ ReversedRow(x, b, a).here = x.here /\ ReversedRow(x, b, a).done = x.done
  BY <1>1 DEF RowValues
<1>4. QED
  BY <1>2, <1>3 DEF pair, part

\* What a backfill lists of a sane row's job: one that had no pair, or none.
LEMMA Listed ==
  ASSUME NEW b \in RowValues, Sane(b), b.job # ReownedRow(b).job
  PROVE  /\ ReownedRow(b).job.has /\ b.job.pair = NoPair
         /\ b.job.has => ReownedRow(b).job.pair = ReownedRow(b).pair
         /\ ~b.job.has => ~Owned(b) /\ ReownedRow(b).job = Job(ReownedRow(b).pair, "P")
<1> DEFINE a == ReownedRow(b)
<1>1. /\ b.job.has => /\ a.job.has
                      /\ a.job.pair = IF b.job.pair = NoPair THEN a.pair ELSE b.job.pair
                      /\ a.job.by = IF b.job.by = "none" /\ ~Owned(b) THEN "P" ELSE b.job.by
      /\ ~b.job.has => a.job = IF ~Owned(b) /\ b.done THEN Job(a.pair, "P") ELSE NoJob
  BY ReownedFields
<1>2. a.job \in JobValues /\ b.job \in JobValues
  BY ReownedRowTyped DEF RowValues, JobValues
<1>3. NoJob.pair = NoPair /\ Job(a.pair, "P").has
  BY DEF NoJob, Job
<1> HIDE DEF a
<1>4. CASE b.job.has
  <2>1. b.job.pair = NoPair
    <3> SUFFICES ASSUME b.job.pair # NoPair PROVE FALSE
      OBVIOUS
    <3>1. Owned(b)
      BY DEF Sane
    <3>2. a.job.pair = b.job.pair /\ a.job.by = b.job.by
      BY <1>1, <1>4, <3>1
    <3>3. a.job = b.job
      BY <1>1, <1>2, <1>4, <3>2, SameJob
    <3>4. QED
      BY <3>3 DEF a
  <2>2. QED
    BY <1>1, <1>4, <2>1 DEF a
<1>5. CASE ~b.job.has
  <2>1. b.job = NoJob
    BY <1>5 DEF Sane
  <2>2. ~Owned(b) /\ a.job = Job(a.pair, "P")
    BY <1>1, <1>5, <2>1 DEF a
  <2>3. QED
    BY <1>3, <1>5, <2>1, <2>2 DEF a
<1>6. QED
  BY <1>4, <1>5

\* The reverse gives a row that is none of the manifest's a place among them.
LEMMA ReversedJoins ==
  ASSUME NEW S \in SUBSET RowValues, Kin(S), NEW x \in S, NEW b \in S
  PROVE  Kin(S \cup {ReversedRow(x, b, ReownedRow(b))})
<1> DEFINE a == ReownedRow(b)
           y == ReversedRow(x, b, a)
           taken == b.job # a.job /\ x.job.has /\ x.job.pair = a.job.pair
           back == b.pair # a.pair /\ x.pair = a.pair
<1>1. a \in RowValues /\ Sane(b) /\ Sane(x)
  BY ReownedRowTyped DEF Kin
<1>2. /\ (y.done <=> x.done)
      /\ y.pair = IF back THEN b.pair ELSE x.pair
      /\ ~taken => y.job = x.job
      /\ taken /\ ~b.job.has /\ a.job.has =>
           y.job = IF x.job.by = a.job.by THEN NoJob ELSE x.job
      /\ taken /\ ~(~b.job.has /\ a.job.has) =>
           /\ y.job.has /\ y.job.pair = NoPair
           /\ y.job.by = IF x.job.by = a.job.by THEN b.job.by ELSE x.job.by
  BY <1>1, ReversedFields
<1>3. a.pair = IF Owned(b) THEN b.pair ELSE Gave(b)
  BY ReownedFields
<1>4. b.job # a.job =>
        /\ a.job.has /\ b.job.pair = NoPair
        /\ b.job.has => a.job.pair = a.pair
        /\ ~b.job.has => ~Owned(b) /\ a.job = Job(a.pair, "P")
  BY <1>1, Listed
<1>5. /\ ~NoJob.has /\ NoJob.pair = NoPair
      /\ Job(a.pair, "P").has /\ Job(a.pair, "P").by = "P" /\ Job(a.pair, "P").pair = a.pair
      /\ \A u : Gave(u) # NoPair
  BY DEF NoJob, Job, Gave, NoPair
<1> HIDE DEF a, y
<1>6. \/ y.job = x.job
      \/ y.job = NoJob /\ ~b.job.has
      \/ /\ y.job.has /\ x.job.has /\ b.job.has
         /\ y.job.pair = NoPair /\ y.job.by \in {x.job.by, b.job.by}
  BY <1>2, <1>4
<1>7. back => ~Owned(b) /\ x.pair = Gave(b)
  BY <1>3
<1>8. back => y.job.pair = NoPair
  <2> SUFFICES ASSUME back PROVE y.job.pair = NoPair
    OBVIOUS
  <2>1. CASE ~x.job.has
    BY <1>1, <1>2, <1>5, <2>1 DEF Sane
  <2>2. CASE x.job.has
    <3>1. x.job.pair = a.pair /\ a.pair # NoPair
      BY <1>3, <1>5, <1>7, <2>2 DEF Kin, PairsAgree
    <3>2. CASE b.job.has
      <4>1. b.job.pair = NoPair
        BY <1>1, <1>7 DEF Sane
      <4>2. a.job.pair = a.pair
        BY <1>7, <3>2, <4>1, ReownedFields DEF a
      <4>3. taken
        BY <2>2, <3>1, <4>1, <4>2
      <4>4. QED
        BY <1>2, <3>2, <4>3
    <3>3. CASE ~b.job.has
      <4>1. x.job.by = "P" /\ x.done /\ b.done
        BY <2>2, <3>3 DEF Kin, JobsAgree
      <4>2. a.job = Job(a.pair, "P")
        BY <1>7, <3>3, <4>1, ReownedFields DEF a
      <4>3. taken
        BY <1>5, <2>2, <3>1, <3>3, <4>2
      <4>4. y.job = NoJob
        BY <1>2, <1>5, <3>3, <4>1, <4>2, <4>3
      <4>5. QED
        BY <1>5, <4>4
    <3>4. QED
      BY <3>2, <3>3
  <2>3. QED
    BY <2>1, <2>2
<1>9. Sane(y)
  <2>1. ~y.job.has => y.job = NoJob
    BY <1>1, <1>6 DEF Sane
  <2>2. ~Owned(y) => y.job.pair = NoPair
    <3>1. ~back /\ ~Owned(y) => ~Owned(x)
      BY <1>2 DEF Owned, Owner
    <3>2. QED
      BY <1>1, <1>5, <1>6, <1>8, <3>1 DEF Sane
  <2>3. QED
    BY <2>1, <2>2 DEF Sane
<1>10. \A u : ~Owned(y) => y.pair # Gave(u)
  BY DEF Owned, Owner, Gave
<1>11. JobsAgree(y, y) /\ PairsAgree(y, y)
  BY <1>10 DEF JobsAgree, PairsAgree
<1>12. ASSUME NEW u \in S
       PROVE  JobsAgree(u, y) /\ JobsAgree(y, u) /\ PairsAgree(u, y) /\ PairsAgree(y, u)
  <2>1. /\ JobsAgree(u, x) /\ JobsAgree(x, u) /\ JobsAgree(u, b) /\ JobsAgree(b, u)
        /\ PairsAgree(u, x) /\ PairsAgree(x, u) /\ PairsAgree(u, b) /\ PairsAgree(b, u)
        /\ JobsAgree(x, b)
    BY DEF Kin
  <2>2. JobsAgree(u, y) /\ JobsAgree(y, u)
    BY <1>2, <1>5, <1>6, <2>1 DEF JobsAgree
  <2>3. PairsAgree(u, y)
    BY <1>2, <2>1 DEF PairsAgree, Owned, Owner, Gave, Word
  <2>4. ~Owned(u) /\ Word(y) = "public" => Word(u) = "public"
    BY <1>2, <2>1 DEF PairsAgree, Word
  <2>5. ASSUME ~Owned(u), y.pair = Gave(u), y.job.has
        PROVE  y.job.pair = y.pair
    <3>1. ~back /\ y.pair = x.pair
      BY <1>2, <1>7, <1>10, <2>5 DEF Owned, Owner, Gave
    <3>2. x.job.has
      BY <1>5, <1>6, <2>5
    <3>3. x.job.pair = x.pair
      BY <2>1, <2>5, <3>1, <3>2 DEF PairsAgree
    <3>4. ~taken
      <4> SUFFICES ASSUME taken PROVE FALSE
        OBVIOUS
      <4>1. a.job.pair = Gave(u)
        BY <2>5, <3>1, <3>3
      <4>2. CASE ~Owned(b)
        <5>1. Gave(b) = Gave(u)
          BY <2>1, <2>5, <4>2 DEF PairsAgree, Gave
        <5>2. a.pair = x.pair /\ b.pair # a.pair
          BY <1>3, <2>5, <3>1, <4>2, <5>1 DEF Owned, Owner, Gave
        <5>3. QED
          BY <3>1, <5>2
      <4>3. CASE Owned(b)
        <5>1. b.job.has /\ b.job.pair = NoPair /\ a.job.pair = b.pair
          BY <1>3, <1>4, <4>3
        <5>2. b.job.pair = b.pair
          BY <2>1, <2>5, <4>1, <5>1 DEF PairsAgree
        <5>3. QED
          BY <1>5, <4>1, <5>1, <5>2
      <4>4. QED
        BY <4>2, <4>3
    <3>5. QED
      BY <1>2, <3>1, <3>3, <3>4
  <2>6. QED
    BY <2>2, <2>3, <2>4, <2>5 DEF PairsAgree
<1>13. QED
  BY <1>9, <1>11, <1>12, KinJoins DEF a, y

\* A row nothing has touched since its backfill is what it was before.
LEMMA ReversedIsBefore ==
  ASSUME NEW b \in RowValues, Sane(b)
  PROVE  ReversedRow(ReownedRow(b), b, ReownedRow(b)) = b
<1> DEFINE a == ReownedRow(b)
           y == ReversedRow(a, b, a)
<1>1. a \in RowValues /\ y \in RowValues
  BY ReownedRowTyped, ReversedRowTyped
<1>2. (a.here <=> b.here) /\ (a.done <=> b.done)
  BY ReownedFields
<1>3. /\ (y.here <=> a.here) /\ (y.done <=> a.done)
      /\ y.pair = b.pair /\ y.part = b.part
      /\ ~(b.job # a.job /\ a.job.has) => y.job = a.job
      /\ b.job # a.job /\ ~b.job.has /\ a.job.has => y.job = NoJob
      /\ b.job # a.job /\ b.job.has /\ a.job.has =>
           y.job.has /\ y.job.pair = NoPair /\ y.job.by = b.job.by
  BY <1>1, ReversedFields
<1>4. b.job # a.job => a.job.has /\ b.job.pair = NoPair
  BY Listed
<1> HIDE DEF a, y
<1>5. y.job = b.job
  <2>1. CASE b.job = a.job
    BY <1>3, <2>1
  <2>2. CASE b.job # a.job /\ ~b.job.has
    BY <1>3, <1>4, <2>2 DEF Sane
  <2>3. CASE b.job # a.job /\ b.job.has
    <3>1. y.job \in JobValues /\ b.job \in JobValues
      BY <1>1 DEF RowValues, JobValues
    <3>2. y.job.has /\ y.job.pair = b.job.pair /\ y.job.by = b.job.by
      BY <1>3, <1>4, <2>3
    <3>3. QED
      BY <2>3, <3>1, <3>2, SameJob
  <2>4. QED
    BY <2>1, <2>2, <2>3
<1>6. QED
  BY <1>1, <1>2, <1>3, <1>5, SameRow DEF a, y

\* A step keeps all that if every row it leaves joins the row's earlier states.
LEMMA Joined ==
  ASSUME RestoreInv,
         \A m \in manifests' : Made(m) /\ (m \in manifests \/ m.before = rows),
         \A r \in Rows : rows[r].here => rows'[r].here,
         \A r \in Rows : rows'[r].here => Kin(States(r) \cup {rows'[r]})
  PROVE  RestoreInv'
<1>1. \A m \in manifests' : Made(m)' /\ \A r \in Rows : m.before[r].here => rows'[r].here
  BY DEF RestoreInv, Made
<1>2. ASSUME NEW r \in Rows PROVE Kin(States(r))'
  <2>1. States(r)' \subseteq States(r) \cup {x \in {rows'[r]} : x.here}
    BY DEF States
  <2>2. CASE rows'[r].here
    <3>1. Kin(States(r) \cup {rows'[r]})
      BY <2>2
    <3>2. QED
      BY <2>1, <3>1 DEF Kin
  <2>3. CASE ~rows'[r].here
    <3>1. States(r)' \subseteq States(r) /\ Kin(States(r))
      BY <2>1, <2>3 DEF RestoreInv
    <3>2. QED
      BY <3>1 DEF Kin
  <2>4. QED
    BY <2>2, <2>3
<1>3. QED
  BY <1>1, <1>2 DEF RestoreInv

LEMMA StatesTyped ==
  ASSUME RowsTyped, ManifestsTyped, NEW r \in Rows
  PROVE  States(r) \in SUBSET RowValues /\ (rows[r].here => rows[r] \in States(r))
  BY DEF States, RowsTyped, ManifestsTyped

LEMMA ContractJoins ==
  ASSUME RowsTyped, ManifestsTyped, RestoreInv, Contractible,
         rows' = Contracted, manifests' = manifests
  PROVE  RestoreInv'
<1>1. ASSUME NEW r \in Rows, rows'[r].here
      PROVE  Kin(States(r) \cup {rows'[r]})
  <2> DEFINE x == rows[r]
             word == IF Word(x) = "public" /\ r \notin Unpublishable THEN "public" ELSE "group"
             pair == <<Owner(x), word>>
  <2>1. x.here /\ rows'[r] = ContractedRow(r)
    BY <1>1 DEF Contracted
  <2>2. x \in RowValues /\ x \in States(r) /\ Owned(x) /\ Kin(States(r)) /\ Sane(x)
    BY <2>1, StatesTyped DEF RowsTyped, Contractible, Present, RestoreInv, Kin
  <2>3. /\ rows'[r].pair = pair /\ (rows'[r].done <=> x.done)
        /\ rows'[r].job = IF x.job.has THEN [x.job EXCEPT !.pair = pair] ELSE x.job
    BY <2>1, <2>2 DEF ContractedRow, RowValues
  <2>4. /\ rows'[r].job.has <=> x.job.has
        /\ rows'[r].job.by = x.job.by
        /\ rows'[r].job.has => rows'[r].job.pair = pair
        /\ ~rows'[r].job.has => rows'[r].job = NoJob
    BY <2>2, <2>3 DEF RowValues, Sane
  <2>5. Owned(rows'[r]) /\ (Word(rows'[r]) = "public" => Word(x) = "public")
    BY <2>2, <2>3 DEF Owned, Owner, Word
  <2>6. rows'[r] \in RowValues
    BY <2>1, ContractedRowTyped
  <2>7. QED
    BY <2>2, <2>3, <2>4, <2>5, <2>6, StatesTyped, OwnedJoins
<1>2. \A r \in Rows : rows[r].here => rows'[r].here
  BY DEF Contracted, ContractedRow, RowsTyped, RowValues
<1>3. \A m \in manifests' : Made(m) /\ (m \in manifests \/ m.before = rows)
  BY DEF RestoreInv
<1>4. QED
  BY <1>1, <1>2, <1>3, Joined

\* A row that is the same but for its derived row.
LEMMA PartJoins ==
  ASSUME NEW S, Kin(S), NEW x \in S, NEW y, y.pair = x.pair, y.done = x.done, y.job = x.job
  PROVE  Kin(S \cup {y})
<1>1. Owned(y) = Owned(x) /\ Word(y) = Word(x) /\ Gave(y) = Gave(x)
  BY DEF Owned, Owner, Word, Gave
<1>2. \A u \in S \cup {x} : /\ Sane(x) /\ JobsAgree(u, x) /\ JobsAgree(x, u)
                            /\ PairsAgree(u, x) /\ PairsAgree(x, u)
  BY DEF Kin
<1>3. Sane(y) /\ JobsAgree(y, y) /\ PairsAgree(y, y)
  BY <1>1, <1>2 DEF Sane, JobsAgree, PairsAgree
<1>4. ASSUME NEW u \in S
      PROVE  JobsAgree(u, y) /\ JobsAgree(y, u) /\ PairsAgree(u, y) /\ PairsAgree(y, u)
  BY <1>1, <1>2 DEF JobsAgree, PairsAgree
<1>5. QED
  BY <1>3, <1>4, KinJoins

LEMMA WritersJoin ==
  ASSUME RowsTyped, ManifestsTyped, DraftsTyped, RestoreInv, NEW r \in Rows,
         NEW contracted \in BOOLEAN, WritesRow(r, contracted)
  PROVE  RestoreInv'
<1>0. RowsTyped' /\ manifests' = manifests
  BY WritersChangeOne
<1>1. \A m \in manifests' : Made(m) /\ (m \in manifests \/ m.before = rows)
  BY <1>0 DEF RestoreInv
<1>2. \A t \in Rows : Kin(States(t))
  BY DEF RestoreInv
<1>3. \A t \in Rows : rows[t].here => States(t) \cup {rows[t]} = States(t)
  BY DEF States
<1>4. ASSUME OldWrites(r) \/ NewWrites(r, contracted)
      PROVE  RestoreInv'
  <2>1. \E y : /\ rows' = [rows EXCEPT ![r] = y] /\ ~rows[r].here /\ y.here
               /\ Sane(y) /\ JobsAgree(y, y) /\ PairsAgree(y, y)
    <3>1. CASE OldWrites(r)
      <4>1. PICK word \in {"private", "public"} :
              rows' = [rows EXCEPT ![r] = LegacyRow(word, FALSE, TRUE)]
        BY <3>1 DEF OldWrites
      <4> DEFINE y == LegacyRow(word, FALSE, TRUE)
      <4>2. y.here /\ y.job.has /\ y.job.pair = NoPair /\ y.pair = <<"none", word>>
        BY DEF LegacyRow, Job
      <4> HIDE DEF y
      <4>3. y.pair # Gave(y)
        BY <4>2 DEF Gave
      <4>4. Sane(y) /\ JobsAgree(y, y) /\ PairsAgree(y, y)
        BY <4>2, <4>3 DEF Sane, JobsAgree, PairsAgree
      <4>5. QED
        BY <3>1, <4>1, <4>2, <4>4 DEF OldWrites, y
    <3>2. CASE NewWrites(r, contracted)
      <4>1. \E word \in {"group", "public"} : \E dependent :
              rows' = [rows EXCEPT ![r] =
                [here |-> TRUE, pair |-> <<"H", word>>, done |-> FALSE, part |-> NoPart,
                 job |-> Job(dependent, "Q")]]
        BY <3>2 DEF NewWrites
      <4>2. PICK word, dependent :
              rows' = [rows EXCEPT ![r] =
                [here |-> TRUE, pair |-> <<"H", word>>, done |-> FALSE, part |-> NoPart,
                 job |-> Job(dependent, "Q")]]
        BY <4>1
      <4> DEFINE y == [here |-> TRUE, pair |-> <<"H", word>>, done |-> FALSE, part |-> NoPart,
                       job |-> Job(dependent, "Q")]
      <4>3. y.here /\ y.job.has /\ Owned(y)
        BY DEF Job, Owned, Owner
      <4>4. Sane(y) /\ JobsAgree(y, y) /\ PairsAgree(y, y)
        BY <4>3 DEF Sane, JobsAgree, PairsAgree
      <4>5. QED
        BY <3>2, <4>2, <4>3, <4>4 DEF NewWrites
    <3>3. QED
      BY <1>4, <3>1, <3>2
  <2>2. PICK y : /\ rows' = [rows EXCEPT ![r] = y] /\ ~rows[r].here /\ y.here
                 /\ Sane(y) /\ JobsAgree(y, y) /\ PairsAgree(y, y)
    BY <2>1
  <2>3. States(r) = {}
    BY <2>2 DEF States, RestoreInv
  <2>4. rows'[r] = y /\ \A t \in Rows \ {r} : rows'[t] = rows[t]
    BY <2>2 DEF RowsTyped
  <2>5. Kin({y})
    BY <2>2 DEF Kin
  <2>6. \A t \in Rows : rows'[t].here => Kin(States(t) \cup {rows'[t]})
    BY <1>2, <1>3, <2>3, <2>4, <2>5
  <2>7. QED
    BY <1>1, <2>2, <2>4, <2>6, Joined
<1>5. CASE Narrows(r, contracted)
  <2> DEFINE x == rows[r]
             pair == <<Owner(x), "group">>
             y == [x EXCEPT !.pair = pair,
                     !.part = IF contracted /\ @ # NoPart THEN pair ELSE @,
                     !.job = IF contracted /\ @.has THEN [@ EXCEPT !.pair = pair] ELSE @]
  <2>1. rows' = [rows EXCEPT ![r] = y] /\ Owned(x) /\ x.here /\ Word(x) = "public"
    BY <1>5 DEF Narrows, RowsTyped, RowValues
  <2>2. x \in RowValues /\ x \in States(r) /\ Sane(x)
    BY <1>2, <2>1, StatesTyped DEF RowsTyped, Kin
  <2>3. /\ y.pair = pair /\ (y.done <=> x.done) /\ y.here
        /\ y.job = IF contracted /\ x.job.has THEN [x.job EXCEPT !.pair = pair] ELSE x.job
    BY <2>1, <2>2 DEF RowValues
  <2>4. rows'[r] = y /\ \A t \in Rows \ {r} : rows'[t] = rows[t]
    BY <2>1 DEF RowsTyped
  <2>5. y \in RowValues
    BY <1>0, <2>4 DEF RowsTyped
  <2> HIDE DEF y
  <2>6. /\ y.job.has <=> x.job.has
        /\ y.job.by = x.job.by
        /\ ~y.job.has => y.job = NoJob
    BY <2>2, <2>3 DEF RowValues, Sane
  <2>7. Owned(y) /\ Word(y) = "group"
    BY <2>1, <2>3 DEF Owned, Owner, Word
  <2>8. Kin(States(r) \cup {y})
    BY <1>2, <2>1, <2>2, <2>3, <2>5, <2>6, <2>7, StatesTyped, OwnedJoins
  <2>9. \A t \in Rows : rows'[t].here => Kin(States(t) \cup {rows'[t]})
    BY <1>2, <1>3, <2>4, <2>8
  <2>10. QED
    BY <1>1, <2>3, <2>4, <2>9, Joined
<1>6. CASE DerivedBegins(r, contracted) \/ (DerivedEnds(r) /\ rows' = rows)
  <2>1. rows' = rows
    BY <1>6 DEF DerivedBegins
  <2>2. QED
    BY <1>1, <1>2, <1>3, <2>1, Joined
<1>7. CASE rows' = [rows EXCEPT ![r].part = drafts[r]]
  <2> DEFINE x == rows[r]
             y == [x EXCEPT !.part = drafts[r]]
  <2>1. rows'[r] = y /\ \A t \in Rows \ {r} : rows'[t] = rows[t]
    BY <1>7 DEF RowsTyped
  <2>2. y.here = x.here /\ y.pair = x.pair /\ y.done = x.done /\ y.job = x.job
    BY DEF RowsTyped, RowValues
  <2> HIDE DEF y
  <2>3. x.here => Kin(States(r) \cup {y})
    BY <1>2, <2>2, StatesTyped, PartJoins
  <2>4. \A t \in Rows : rows'[t].here => Kin(States(t) \cup {rows'[t]})
    BY <1>2, <1>3, <2>1, <2>2, <2>3
  <2>5. QED
    BY <1>1, <2>1, <2>2, <2>4, Joined
<1>8. QED
  BY <1>4, <1>5, <1>6, <1>7 DEF WritesRow, DerivedEnds

LEMMA RowStepsJoin ==
  ASSUME RowsTyped, ManifestsTyped, DraftsTyped, RestoreInv, RowSteps
  PROVE  RestoreInv'
<1>0. \A t \in Rows : Kin(States(t))
  BY DEF RestoreInv
<1>1. CASE Writes \/ DerivedWrites
  <2>1. PICK r \in Rows : WritesRow(r, Contracted35)
    BY <1>1 DEF Writes, DerivedWrites, WritesRow
  <2>2. Contracted35 \in BOOLEAN
    BY DEF Contracted35
  <2>3. QED
    BY <2>1, <2>2, WritersJoin
<1>2. CASE Backfills
  <2>1. /\ rows' = Reowned
        /\ manifests' = manifests \cup {[before |-> rows, after |-> Reowned]}
    BY <1>2 DEF Backfills, BackfillOwners
  <2>2. Made([before |-> rows, after |-> Reowned])
    BY DEF Made, Reowned
  <2>3. \A m \in manifests' : Made(m) /\ (m \in manifests \/ m.before = rows)
    BY <2>1, <2>2 DEF RestoreInv
  <2>4. \A r \in Rows : /\ rows[r] \in RowValues
                        /\ rows'[r] = IF rows[r].here THEN ReownedRow(rows[r]) ELSE rows[r]
    BY <2>1 DEF Reowned, RowsTyped
  <2>5. ASSUME NEW r \in Rows, rows'[r].here
        PROVE  Kin(States(r) \cup {rows'[r]})
    <3>1. rows[r].here /\ rows'[r] = ReownedRow(rows[r])
      BY <2>4, <2>5
    <3>2. QED
      BY <1>0, <3>1, StatesTyped, ReownedJoins
  <2>6. \A r \in Rows : rows[r].here => rows'[r].here
    BY <2>4, ReownedFields
  <2>7. QED
    BY <2>3, <2>5, <2>6, Joined
<1>3. CASE Reverses
  <2>1. PICK m \in manifests : Reverse(m)
    BY <1>3 DEF Reverses
  <2>2. /\ rows' = [r \in Rows |-> IF m.before[r].here
                     THEN ReversedRow(rows[r], m.before[r], m.after[r]) ELSE rows[r]]
        /\ manifests' = manifests
    BY <2>1 DEF Reverse, BackfillReverse
  <2>3. ASSUME NEW r \in Rows, m.before[r].here
        PROVE  /\ rows[r].here /\ rows[r] \in States(r) /\ m.before[r] \in States(r)
               /\ rows[r] \in RowValues /\ m.before[r] \in RowValues /\ m.after[r] \in RowValues
               /\ rows'[r] = ReversedRow(rows[r], m.before[r], ReownedRow(m.before[r]))
               /\ m.after[r] = ReownedRow(m.before[r])
    BY <2>2, <2>3 DEF RestoreInv, Made, States, RowsTyped, ManifestsTyped
  <2>4. ASSUME NEW r \in Rows, rows'[r].here
        PROVE  Kin(States(r) \cup {rows'[r]})
    <3>1. CASE m.before[r].here
      BY <1>0, <2>3, <3>1, StatesTyped, ReversedJoins
    <3>2. CASE ~m.before[r].here
      <4>1. rows'[r] = rows[r] /\ States(r) \cup {rows[r]} = States(r)
        BY <2>2, <2>4, <3>2 DEF States
      <4>2. QED
        BY <1>0, <4>1
    <3>3. QED
      BY <3>1, <3>2
  <2>5. ASSUME NEW r \in Rows, rows[r].here PROVE rows'[r].here
    <3>1. CASE m.before[r].here
      BY <2>3, <2>5, <3>1, ReversedFields
    <3>2. CASE ~m.before[r].here
      BY <2>2, <2>5, <3>2
    <3>3. QED
      BY <3>1, <3>2
  <2>6. \A n \in manifests' : Made(n) /\ (n \in manifests \/ n.before = rows)
    BY <2>2 DEF RestoreInv
  <2>7. QED
    BY <2>4, <2>5, <2>6, Joined
<1>4. CASE RollsBackVocabulary
  <2>1. /\ rows' = [r \in Rows |-> IF rows[r].here /\ Word(rows[r]) = "group"
                                   THEN [rows[r] EXCEPT !.pair = <<@[1], "private">>]
                                   ELSE rows[r]]
        /\ manifests' = manifests
    BY <1>4 DEF RollsBackVocabulary, RollBackVocabulary
  <2>2. \A n \in manifests' : Made(n) /\ (n \in manifests \/ n.before = rows)
    BY <2>1 DEF RestoreInv
  <2>3. RowsTyped'
    BY <1>4, RowStepsKeepRows
  <2>4. ASSUME NEW r \in Rows, rows'[r].here
        PROVE  rows[r].here /\ Kin(States(r) \cup {rows'[r]})
    <3>1. rows[r] \in RowValues /\ rows'[r] \in RowValues
      BY <2>3 DEF RowsTyped
    <3>2. rows[r].here
      BY <2>1, <2>4, <3>1 DEF RowValues
    <3>3. CASE Word(rows[r]) = "group"
      <4> DEFINE x == rows[r]
                 y == [x EXCEPT !.pair = <<Owner(x), "private">>]
      <4>1. rows'[r] = y
        BY <2>1, <3>2, <3>3 DEF Owner
      <4>2. x \in States(r) /\ Sane(x)
        BY <1>0, <3>2, StatesTyped DEF Kin
      <4>3. CASE Owned(x)
        <5>1. y.pair = <<Owner(x), "private">> /\ y.job = x.job /\ (y.done <=> x.done)
          BY <3>1 DEF RowValues
        <5>2. Owned(y) /\ Word(y) = "private"
          BY <4>3, <5>1 DEF Owned, Owner, Word
        <5>3. ~y.job.has => y.job = NoJob
          BY <4>2, <5>1 DEF Sane
        <5>4. y \in RowValues
          BY <3>1, <4>1
        <5> HIDE DEF y
        <5>5. QED
          BY <1>0, <3>2, <4>1, <4>2, <5>1, <5>2, <5>3, <5>4, StatesTyped, OwnedJoins
      <4>4. CASE ~Owned(x)
        <5>1. y = [x EXCEPT !.pair = <<"none", "private">>]
          BY <4>4 DEF Owned
        <5>2. QED
          BY <1>0, <3>1, <3>2, <3>3, <4>1, <4>2, <4>4, <5>1, StatesTyped, RolledBackJoins
      <4>5. QED
        BY <4>3, <4>4
    <3>4. CASE Word(rows[r]) # "group"
      <4>1. rows'[r] = rows[r] /\ States(r) \cup {rows[r]} = States(r)
        BY <2>1, <3>2, <3>4 DEF States
      <4>2. QED
        BY <1>0, <3>2, <4>1
    <3>5. QED
      BY <3>2, <3>3, <3>4
  <2>5. \A r \in Rows : rows[r].here => rows'[r].here
    BY <2>1 DEF RowsTyped, RowValues
  <2>6. QED
    BY <2>2, <2>4, <2>5, Joined
<1>5. QED
  BY <1>1, <1>2, <1>3, <1>4 DEF RowSteps

LEMMA RestoreHolds == Spec => [](LedgerTypeOK /\ RestoreInv)
<1>1. Init => RestoreInv
  <2> SUFFICES ASSUME Init PROVE RestoreInv
    OBVIOUS
  <2>1. PICK w \in Worlds : rows \in w.rows /\ manifests = {}
    BY DEF Init
  <2>2. \A r \in Rows : rows[r].here => Sane(rows[r])
    BY <2>1, WorldsAssumption
  <2>3. ASSUME NEW r \in Rows, NEW x \in States(r)
        PROVE  x = rows[r] /\ Sane(x) /\ JobsAgree(x, x) /\ PairsAgree(x, x)
    <3>1. x = rows[r] /\ Sane(x)
      BY <2>1, <2>2, <2>3 DEF States
    <3>2. ~Owned(x) => x.pair # Gave(x)
      BY DEF Owned, Owner, Gave
    <3>3. QED
      BY <3>1, <3>2 DEF JobsAgree, PairsAgree
  <2>4. QED
    BY <2>1, <2>3 DEF RestoreInv, Kin
<1>2. ASSUME LedgerTypeOK, OwnedInv, RestoreInv, [Next]_vars
      PROVE  RestoreInv'
  <2>1. ASSUME NEW s \in Sessions, Applies(s)
        PROVE  RestoreInv'
    <3>1. /\ manifests' = manifests
          /\ \/ rows' = Contracted /\ Contractible
             \/ rows' = rows
      BY <2>1 DEF Applies
    <3>2. QED
      BY <1>2, <3>1, ContractJoins DEF LedgerTypeOK, RestoreInv, States, Made
  <2>2. ASSUME NEW s \in Sessions,
               \/ Start(s) \/ ReadsOnly(s) \/ RunLocks(s) \/ ApplyFails(s) \/ Finishes(s)
               \/ AdoptLocked(s) \/ Dies(s)
        PROVE  rows' = rows /\ manifests' = manifests
    BY <2>2, SessionsElse DEF rowVars
  <2>3. CASE Scripts
    <3>1. rows' = rows /\ manifests' = manifests
      BY <1>2, <2>3, ScriptsLook, ScriptsUndo
         DEF Scripts, ScriptLooks, ScriptFails, LedgerTypeOK, rowVars
    <3>2. QED
      BY <1>2, <3>1 DEF RestoreInv, States, Made
  <2>4. CASE RowSteps
    BY <1>2, <2>4, RowStepsJoin DEF LedgerTypeOK
  <2>5. CASE KernelRecords \/ Boot \/ UNCHANGED vars
    <3>1. rows' = rows /\ manifests' = manifests
      BY <2>5 DEF KernelRecords, Boot, vars, rowVars
    <3>2. QED
      BY <1>2, <3>1 DEF RestoreInv, States, Made
  <2>6. rows' = rows /\ manifests' = manifests => RestoreInv'
    BY <1>2 DEF RestoreInv, States, Made
  <2>7. QED
    BY <1>2, <2>1, <2>2, <2>3, <2>4, <2>5, <2>6 DEF Next, RowSteps
<1>3. QED
  BY <1>1, <1>2, LedgerInvariant, PTL DEF Spec

\* A reverse gives every row its backfill has left untouched since exactly the
\* state before it, and takes nothing from a root changed since, whatever
\* backfills, reverses, narrowings, rollbacks and contracts came between.
THEOREM ReverseIsExact == Spec => ReverseRestores
<1>1. LedgerTypeOK /\ RestoreInv /\ [Next]_vars =>
        [\A m \in manifests : Reverse(m) => Restores(m)]_vars
  <2> SUFFICES ASSUME LedgerTypeOK, RestoreInv, NEW m \in manifests, Reverse(m), NEW r \in Rows
               PROVE  /\ rows[r] = m.after[r] => rows'[r] = m.before[r]
                      /\ rows[r].pair # m.after[r].pair => rows'[r].pair = rows[r].pair
    BY DEF Restores
  <2>1. /\ rows'[r] = IF m.before[r].here
                      THEN ReversedRow(rows[r], m.before[r], m.after[r]) ELSE rows[r]
        /\ rows[r] \in RowValues /\ m.before[r] \in RowValues /\ m.after[r] \in RowValues
    BY DEF Reverse, BackfillReverse, LedgerTypeOK, RowsTyped, ManifestsTyped
  <2>2. m.after[r] = IF m.before[r].here THEN ReownedRow(m.before[r]) ELSE m.before[r]
    BY DEF RestoreInv, Made
  <2>3. CASE m.before[r].here
    <3>1. Sane(m.before[r])
      BY <2>3 DEF RestoreInv, States, Kin
    <3>2. rows[r] = m.after[r] => rows'[r] = m.before[r]
      BY <2>1, <2>2, <2>3, <3>1, ReversedIsBefore
    <3>3. rows[r].pair # m.after[r].pair => rows'[r].pair = rows[r].pair
      BY <2>1, <2>3, ReversedFields
    <3>4. QED
      BY <3>2, <3>3
  <2>4. CASE ~m.before[r].here
    BY <2>1, <2>2, <2>4
  <2>5. QED
    BY <2>3, <2>4
<1>2. QED
  BY <1>1, RestoreHolds, PTL DEF Spec, ReverseRestores

-----------------------------------------------------------------------------
(* The catalog a verification accepts.                                     *)

\* Row security is on, for the owner too.
Forced == [t \in Tables |-> {"enabled", "forced"}]

\* What the verification compares with.
LEMMA InstalledFields ==
  ASSUME NEW vs
  PROVE  /\ Installed(vs).definers =
              {Definer(sig) : sig \in {s \in DOMAIN CreatedBy : CreatedBy[s] \in vs}}
         /\ 5036 \in vs => Installed(vs).rls = Forced
         /\ 5036 \in vs => /\ Installed(vs).grants = ExpectedGrants
                           /\ Installed(vs).policies = ModelPolicies
                           /\ Installed(vs).guards = TenancyTables
         /\ Installed(vs).schema = {} /\ Installed(vs).sentinels = {}
         /\ 5038 \in vs => Installed(vs).hashGuard = "installed"
  BY DEF Installed, Forced

\* A catalog without a finding of its part has the model's part.
LEMMA CleanDefiners ==
  ASSUME NEW c \in CatalogValues, DefinerFindings(c) = {}
  PROVE  c.definers = {Definer(sig) : sig \in DOMAIN Execute}
<1> DEFINE listed == {d \in c.definers : d.sig \in DOMAIN Execute}
<1>1. listed = c.definers
  BY DEF DefinerFindings
<1>2. ASSUME NEW d \in c.definers
      PROVE  d.sig \in DOMAIN Execute /\ d = Definer(d.sig)
  <2>1. d \in listed
    BY <1>1
  <2>2. /\ d.owner = Maintenance /\ d.pinned /\ d.revoked
        /\ d.execs = Executors(d.sig)
    <3>1. d \notin {x \in listed : x.owner # Maintenance}
      BY DEF DefinerFindings
    <3>2. d \notin {x \in listed : ~x.pinned}
      BY DEF DefinerFindings
    <3>3. d \notin {x \in listed : ~x.revoked \/ x.execs # Executors(x.sig)}
      BY DEF DefinerFindings
    <3>4. QED
      BY <2>1, <3>1, <3>2, <3>3
  <2>3. d \in [sig : Names, owner : Names, pinned : BOOLEAN, revoked : BOOLEAN,
               execs : SUBSET Names]
    BY DEF CatalogValues
  <2>4. QED
    BY <2>1, <2>2, <2>3 DEF Definer
<1>3. ASSUME NEW sig \in DOMAIN Execute
      PROVE  Definer(sig) \in c.definers
  <2>1. sig \in {d.sig : d \in listed}
    BY DEF DefinerFindings
  <2>2. PICK d \in listed : sig = d.sig
    BY <2>1
  <2>3. QED
    BY <2>2, <1>2
<1>4. QED
  BY <1>2, <1>3

LEMMA CleanGrants ==
  ASSUME NEW c \in CatalogValues, GrantFindings(c) = {}
  PROVE  c.grants = ExpectedGrants /\ c.schema = {}
  BY DEF GrantFindings

LEMMA CleanRowSecurity ==
  ASSUME NEW c \in CatalogValues, RowSecurityFindings(c) = {}
  PROVE  c.rls = Forced
<1>1. \A t \in Tables : c.rls[t] = {"enabled", "forced"}
  BY DEF RowSecurityFindings
<1>2. QED
  BY <1>1 DEF CatalogValues, Forced

\* What makes a policy suspect, as far as the model's own go.
LEMMA Suspects ==
  ASSUME NEW c, PolicyFindings(c) = {}, NEW p \in c.policies
  PROVE  /\ Policy(p.table, p.kind, p.cmd, p.permissive) \in ExpectedPolicies /\ p.public
         /\ <<p.table, p.kind>> \in {<<q.table, q.kind>> : q \in ExpectedPolicies} =>
              [using |-> p.using, check |-> p.check] = Shape(p.table, p.kind)
<1> DEFINE key(x) == Policy(x.table, x.kind, x.cmd, x.permissive)
           sides(x) == {x.using, x.check} \ {{}}
           named == {<<q.table, q.kind>> : q \in ExpectedPolicies}
           suspect(x) ==
             \/ key(x) \notin ExpectedPolicies
             \/ ~x.public
             \/ sides(x) = {}
             \/ \E e \in sides(x) :
                  "bypass" \notin e \/ e \cap {"true", "sentinel", "foreign call"} # {}
             \/ /\ <<x.table, x.kind>> \in named
                /\ [using |-> x.using, check |-> x.check] # Shape(x.table, x.kind)
             \/ /\ x.kind \in {"bypass_update", "bypass_delete", "bypass_all"}
                /\ sides(x) # {{"bypass"}}
             \/ /\ x.kind \in {"update_owner", "delete_owner"}
                /\ \E e \in sides(x) : e \cap {"writable", "writer"} = {}
<1>1. {<<"policy", key(x)>> : x \in {y \in c.policies : suspect(y)}} = {}
  BY DEF PolicyFindings
<1>2. ~suspect(p)
  <2> HIDE DEF suspect
  <2>1. QED
    BY <1>1
<1>3. QED
  BY <1>2

\* A policy of the table, the kind and the command of the model has the
\* expressions of the model.
LEMMA CleanPolicies ==
  ASSUME NEW c \in CatalogValues, PolicyFindings(c) = {}
  PROVE  c.policies = ModelPolicies
<1> DEFINE key(p) == Policy(p.table, p.kind, p.cmd, p.permissive)
           named == {<<p.table, p.kind>> : p \in ExpectedPolicies}
<1>1. ASSUME NEW p \in c.policies
      PROVE  /\ key(p) \in ExpectedPolicies
             /\ p = Rendered(key(p), Shape(p.table, p.kind))
  <2>1. /\ key(p) \in ExpectedPolicies /\ p.public
        /\ <<p.table, p.kind>> \in named =>
             [using |-> p.using, check |-> p.check] = Shape(p.table, p.kind)
    BY Suspects
  <2>2. <<p.table, p.kind>> \in named
    <3>1. key(p).table = p.table /\ key(p).kind = p.kind
      BY DEF Policy
    <3>2. QED
      BY <2>1, <3>1
  <2>3. Shape(p.table, p.kind) = [using |-> p.using, check |-> p.check]
    BY <2>1, <2>2
  <2>4. p \in [table : Tables, kind : Names, cmd : {"*", "r", "a", "w", "d"}, permissive : BOOLEAN,
               public : BOOLEAN, using : SUBSET Names, check : SUBSET Names]
    BY DEF CatalogValues
  <2>5. QED
    BY <2>1, <2>3, <2>4 DEF Rendered, Policy
<1>2. ASSUME NEW q \in ExpectedPolicies
      PROVE  Rendered(q, Shape(q.table, q.kind)) \in c.policies
  <2>1. q \in {key(p) : p \in c.policies}
    BY Zenon DEF PolicyFindings
  <2>2. PICK p \in c.policies : q = key(p)
    BY <2>1
  <2>3. q.table = p.table /\ q.kind = p.kind
    BY <2>2 DEF Policy
  <2>4. QED
    BY <2>2, <2>3, <1>1
<1>3. ASSUME NEW p \in c.policies
      PROVE  p \in ModelPolicies
  <2>1. key(p).table = p.table /\ key(p).kind = p.kind
    BY DEF Policy
  <2>2. QED
    BY <1>1, <2>1 DEF ModelPolicies
<1>4. QED
  BY <1>2, <1>3 DEF ModelPolicies

\* A catalog without a finding is the one the migrations install, but for the
\* triggers: verify does not ask for the one that propagates.
LEMMA CleanCatalog ==
  ASSUME NEW c \in CatalogValues, \A check \in DOMAIN CheckAfter : FindingsOf(check, c) = {}
  PROVE  /\ c.policies = ModelPolicies
         /\ c.rls = Forced
         /\ [c EXCEPT !.triggers = {}] = [Installed(Versions) EXCEPT !.triggers = {}]
<1> DEFINE m == Installed(Versions)
<1>1. /\ DefinerFindings(c) = {} /\ RowSecurityFindings(c) = {} /\ GrantFindings(c) = {}
      /\ SentinelFindings(c) = {} /\ PolicyFindings(c) = {} /\ GuardFindings(c) = {}
      /\ SignatureHashGuardFindings(c) = {}
  <2>1. /\ FindingsOf("definers", c) = {} /\ FindingsOf("rls", c) = {}
        /\ FindingsOf("grants", c) = {} /\ FindingsOf("sentinels", c) = {}
        /\ FindingsOf("policies", c) = {} /\ FindingsOf("guards", c) = {}
        /\ FindingsOf("hash_guard", c) = {}
    BY DEF CheckAfter
  <2>2. QED
    BY <2>1 DEF FindingsOf
<1>2. c.policies = ModelPolicies
  BY <1>1, CleanPolicies
<1>3. c.rls = Forced
  BY <1>1, CleanRowSecurity
<1>4. c.definers = {Definer(sig) : sig \in DOMAIN Execute}
  BY <1>1, CleanDefiners
<1>5. c.grants = ExpectedGrants /\ c.schema = {}
  BY <1>1, CleanGrants
<1>6. c.sentinels = {} /\ c.guards = TenancyTables /\ c.hashGuard = "installed"
  <2>1. c.sentinels = {}
    BY <1>1 DEF SentinelFindings
  <2>2. c.guards = TenancyTables
    <3>1. c.guards \subseteq TenancyTables
      BY DEF CatalogValues
    <3>2. ASSUME NEW t \in TenancyTables, t \notin c.guards
          PROVE  <<"principal guard", t>> \in GuardFindings(c)
      BY <3>2 DEF GuardFindings
    <3>3. QED
      BY <1>1, <3>1, <3>2
  <2>3. c.hashGuard = "installed"
    <3>1. ASSUME c.hashGuard # "installed"
          PROVE  <<"hash guard">> \in SignatureHashGuardFindings(c)
      BY <3>1, Zenon DEF SignatureHashGuardFindings
    <3>2. QED
      BY <1>1, <3>1
  <2>4. QED
    BY <2>1, <2>2, <2>3
<1>7. 5036 \in Versions /\ 5038 \in Versions
  BY DEF Versions
<1>8. {s \in DOMAIN CreatedBy : CreatedBy[s] \in Versions} = DOMAIN Execute
  BY DEF CreatedBy, Execute, Versions
<1>9. /\ c.definers = m.definers /\ c.rls = m.rls /\ c.grants = m.grants
      /\ c.schema = m.schema /\ c.sentinels = m.sentinels /\ c.policies = m.policies
      /\ c.guards = m.guards /\ c.hashGuard = m.hashGuard
  <2>1. m.definers = c.definers
    <3>1. m.definers =
            {Definer(sig) : sig \in {s \in DOMAIN CreatedBy : CreatedBy[s] \in Versions}}
      BY InstalledFields
    <3>2. QED
      BY <3>1, <1>4, <1>8, Zenon
  <2>2. m.rls = c.rls
    BY <1>3, <1>7, InstalledFields
  <2>3. QED
    BY <2>1, <2>2, <1>2, <1>5, <1>6, <1>7, InstalledFields
<1>10. c = [definers |-> c.definers, triggers |-> c.triggers, rls |-> c.rls,
               grants |-> c.grants, schema |-> c.schema, sentinels |-> c.sentinels,
               policies |-> c.policies, guards |-> c.guards, hashGuard |-> c.hashGuard]
  BY DEF CatalogValues
<1>11. m = [definers |-> m.definers, triggers |-> m.triggers, rls |-> m.rls,
               grants |-> m.grants, schema |-> m.schema, sentinels |-> m.sentinels,
               policies |-> m.policies, guards |-> m.guards, hashGuard |-> m.hashGuard]
  BY DEF Installed
<1>12. [c EXCEPT !.triggers = {}] = [m EXCEPT !.triggers = {}]
  BY <1>9, <1>10, <1>11
<1>13. QED
  BY <1>2, <1>3, <1>12
-----------------------------------------------------------------------------
(* What the model's policies let a session do.                             *)

\* The expression a policy of the model is asked with.
Asked(q, side) ==
  LET shape == Shape(q.table, q.kind)
  IN IF side = "check" /\ shape.check # {} THEN shape.check ELSE shape.using

Lets(q, side, s, row) == \E arm \in Asked(q, side) : ArmHolds(arm, s, row)

\* The expressions of a policy may be asked of the policy the model expects.
LEMMA PassesOfTheModel ==
  ASSUME NEW c, c.policies = ModelPolicies, NEW t, NEW cmd, NEW s, NEW row, NEW side
  PROVE  Passes(c, t, cmd, s, row, side) <=>
           /\ \E q \in ExpectedPolicies : /\ q.table = t /\ q.cmd \in {cmd, "*"}
                                          /\ q.permissive /\ Lets(q, side, s, row)
           /\ \A q \in ExpectedPolicies :
                q.table = t /\ q.cmd \in {cmd, "*"} =>
                  q.permissive \/ Lets(q, side, s, row)
<1> DEFINE applies == {p \in c.policies : p.table = t /\ p.cmd \in {cmd, "*"}}
           expr(p) == IF side = "check" /\ p.check # {} THEN p.check ELSE p.using
           holds(p) == \E arm \in expr(p) : ArmHolds(arm, s, row)
           made(q) == Rendered(q, Shape(q.table, q.kind))
<1>1. ASSUME NEW q
      PROVE  /\ made(q).table = q.table /\ made(q).cmd = q.cmd
             /\ made(q).permissive = q.permissive
             /\ holds(made(q)) <=> Lets(q, side, s, row)
  <2>1. /\ made(q).table = q.table /\ made(q).cmd = q.cmd
        /\ made(q).permissive = q.permissive
        /\ made(q).using = Shape(q.table, q.kind).using
        /\ made(q).check = Shape(q.table, q.kind).check
    BY DEF Rendered
  <2>2. expr(made(q)) = Asked(q, side)
    BY <2>1, Zenon DEF Asked
  <2>3. holds(made(q)) <=> \E arm \in Asked(q, side) : ArmHolds(arm, s, row)
    BY <2>2, Zenon
  <2>4. QED
    BY <2>1, <2>3, Zenon DEF Lets
<1>2. \A p : p \in c.policies <=> \E q \in ExpectedPolicies : p = made(q)
  BY Zenon DEF ModelPolicies
<1>3. Passes(c, t, cmd, s, row, side) <=>
        /\ \E p \in applies : p.permissive /\ holds(p)
        /\ \A p \in applies : p.permissive \/ holds(p)
  BY Zenon DEF Passes
<1> HIDE DEF holds, made
<1>4. QED
  BY <1>1, <1>2, <1>3

\* What each expression comes to.
ReadsAs(t, s, row) ==
  s.bypass \/ row.owner \in s.groups \/ (t # JobTable /\ row.public)

WritesAs(t, s, row) ==
  s.bypass \/ (row.owner \in s.writable /\ (t = JobTable => row.by = s.principal))

SeesClaim(t, s, row) ==
  s.bypass \/ row.claim = "readable" \/ (t = EdgeTable /\ row.claim = "none")

LEMMA ArmsOfAShape ==
  ASSUME NEW t, NEW s, NEW row, s.bypass \in BOOLEAN, row.public \in BOOLEAN
  PROVE  /\ (\E arm \in ReadShape(t) : ArmHolds(arm, s, row)) <=> ReadsAs(t, s, row)
         /\ (\E arm \in WriteShape(t) : ArmHolds(arm, s, row)) <=> WritesAs(t, s, row)
         /\ (\E arm \in ClaimShape(t) : ArmHolds(arm, s, row)) <=> SeesClaim(t, s, row)
         /\ (\E arm \in {"bypass"} : ArmHolds(arm, s, row)) <=> s.bypass
<1>1. /\ ArmHolds("bypass", s, row) <=> s.bypass
      /\ ArmHolds("public", s, row) <=> row.public
      /\ ArmHolds("groups", s, row) <=> row.owner \in s.groups
      /\ ArmHolds("writable", s, row) <=> row.owner \in s.writable
      /\ ArmHolds("writer", s, row) <=> row.owner \in s.writable /\ row.by = s.principal
      /\ ArmHolds("claim", s, row) <=> row.claim = "readable"
      /\ ArmHolds("not_claim", s, row) <=> row.claim = "none"
  BY DEF ArmHolds
<1>2. (\E arm \in ReadShape(t) : ArmHolds(arm, s, row)) <=> ReadsAs(t, s, row)
  BY <1>1 DEF ReadShape, ReadsAs
<1>3. (\E arm \in WriteShape(t) : ArmHolds(arm, s, row)) <=> WritesAs(t, s, row)
  BY <1>1 DEF WriteShape, WritesAs
<1>4. (\E arm \in ClaimShape(t) : ArmHolds(arm, s, row)) <=> SeesClaim(t, s, row)
  BY <1>1 DEF ClaimShape, SeesClaim
<1>5. QED
  BY <1>1, <1>2, <1>3, <1>4

\* What a policy of each kind lets a session do.
LEMMA LetsOfAKind ==
  ASSUME NEW q, NEW s, NEW row, s.bypass \in BOOLEAN, row.public \in BOOLEAN,
         NEW side \in {"using", "check"}
  PROVE  /\ q.kind = "tenancy" =>
              (Lets(q, side, s, row) <=> IF side = "using" THEN ReadsAs(q.table, s, row)
                                         ELSE WritesAs(q.table, s, row))
         /\ q.kind = "insert" /\ side = "check" =>
              (Lets(q, side, s, row) <=> WritesAs(q.table, s, row))
         /\ q.kind \in {"update_owner", "delete_owner"} =>
              (Lets(q, side, s, row) <=> WritesAs(q.table, s, row))
         /\ q.kind = "read" => (Lets(q, side, s, row) <=> ReadsAs(q.table, s, row))
         /\ q.kind \in {"bypass_update", "bypass_delete", "bypass_all"} =>
              (Lets(q, side, s, row) <=> s.bypass)
         /\ q.kind = "claim_visible" =>
              (Lets(q, side, s, row) <=> SeesClaim(q.table, s, row))
<1> DEFINE t == q.table
<1>1. ReadShape(t) # {} /\ WriteShape(t) # {} /\ ClaimShape(t) # {} /\ {"bypass"} # {}
  BY DEF ReadShape, WriteShape, ClaimShape
<1>2. /\ q.kind = "tenancy" =>
           Asked(q, side) = IF side = "using" THEN ReadShape(t) ELSE WriteShape(t)
      /\ q.kind = "insert" /\ side = "check" => Asked(q, side) = WriteShape(t)
      /\ q.kind \in {"update_owner", "delete_owner"} => Asked(q, side) = WriteShape(t)
      /\ q.kind = "read" => Asked(q, side) = ReadShape(t)
      /\ q.kind \in {"bypass_update", "bypass_delete", "bypass_all"} =>
           Asked(q, side) = {"bypass"}
      /\ q.kind = "claim_visible" => Asked(q, side) = ClaimShape(t)
  BY <1>1 DEF Asked, Shape
<1>3. QED
  BY <1>2, ArmsOfAShape DEF Lets

\* The policies of a table of each class.
LEMMA PoliciesOfATable ==
  ASSUME NEW t, NEW q
  PROVE  /\ t \in Ownership =>
              (q \in ExpectedPolicies /\ q.table = t <=>
                 \/ q = Policy(t, "tenancy", "*", TRUE)
                 \/ q = Policy(t, "update_owner", "w", FALSE)
                 \/ q = Policy(t, "delete_owner", "d", FALSE)
                 \/ t \in ClaimVisible /\ q = Policy(t, "claim_visible", "*", FALSE))
         /\ t \in Append =>
              (q \in ExpectedPolicies /\ q.table = t <=>
                 \/ q = Policy(t, "read", "r", TRUE)
                 \/ q = Policy(t, "insert", "a", TRUE)
                 \/ q = Policy(t, "bypass_update", "w", TRUE)
                 \/ q = Policy(t, "bypass_delete", "d", TRUE)
                 \/ t \in ClaimVisible /\ q = Policy(t, "claim_visible", "*", FALSE))
         /\ t \in Frozen =>
              (q \in ExpectedPolicies /\ q.table = t <=> q = Policy(t, "bypass_all", "*", TRUE))
<1> DEFINE Own(u) == {Policy(u, "tenancy", "*", TRUE), Policy(u, "update_owner", "w", FALSE),
                      Policy(u, "delete_owner", "d", FALSE)}
           App(u) == {Policy(u, "read", "r", TRUE), Policy(u, "insert", "a", TRUE),
                      Policy(u, "bypass_update", "w", TRUE),
                      Policy(u, "bypass_delete", "d", TRUE)}
           Fro(u) == Policy(u, "bypass_all", "*", TRUE)
           Cla(u) == Policy(u, "claim_visible", "*", FALSE)
<1>1. \A u, p : p \in Own(u) \/ p \in App(u) \/ p = Fro(u) \/ p = Cla(u) => p.table = u
  BY DEF Policy
<1>2. /\ q \in Own(t) <=> \/ q = Policy(t, "tenancy", "*", TRUE)
                          \/ q = Policy(t, "update_owner", "w", FALSE)
                          \/ q = Policy(t, "delete_owner", "d", FALSE)
      /\ q \in App(t) <=> \/ q = Policy(t, "read", "r", TRUE)
                          \/ q = Policy(t, "insert", "a", TRUE)
                          \/ q = Policy(t, "bypass_update", "w", TRUE)
                          \/ q = Policy(t, "bypass_delete", "d", TRUE)
  OBVIOUS
<1> HIDE DEF Own, App, Fro, Cla
<1>3. q \in ExpectedPolicies <=>
        \/ \E u \in Ownership : q \in Own(u)
        \/ \E u \in Append : q \in App(u)
        \/ \E u \in Frozen : q = Fro(u)
        \/ \E u \in ClaimVisible : q = Cla(u)
  BY PolicyOfSomeTable DEF Own, App, Fro, Cla
<1>4. q \in ExpectedPolicies /\ q.table = t <=>
        \/ t \in Ownership /\ q \in Own(t)
        \/ t \in Append /\ q \in App(t)
        \/ t \in Frozen /\ q = Fro(t)
        \/ t \in ClaimVisible /\ q = Cla(t)
  BY <1>1, <1>3
<1>5. /\ t \in Ownership => t \notin Append /\ t \notin Frozen
      /\ t \in Append => t \notin Ownership /\ t \notin Frozen
      /\ t \in Frozen => t \notin Append /\ t \notin Ownership /\ t \notin ClaimVisible
  BY CatalogAssumption
<1>6. QED
  BY <1>2, <1>4, <1>5 DEF Fro, Cla

\* The claim a row of the table points at lets the session reach the row.
Reaches(t, s, row) == t \in ClaimVisible => SeesClaim(t, s, row)

\* One permissive policy of the command, and every restrictive one.
LEMMA PassesOwnership ==
  ASSUME NEW c, c.policies = ModelPolicies, NEW t \in Ownership,
         NEW s, NEW row, s.bypass \in BOOLEAN, row.public \in BOOLEAN
  PROVE  /\ (Passes(c, t, "r", s, row, "using") <=> ReadsAs(t, s, row) /\ Reaches(t, s, row))
         /\ \A cmd \in {"w", "d"} :
              Passes(c, t, cmd, s, row, "using") <=>
                ReadsAs(t, s, row) /\ WritesAs(t, s, row) /\ Reaches(t, s, row)
         /\ \A cmd \in {"a", "w"} :
              Passes(c, t, cmd, s, row, "check") <=> WritesAs(t, s, row) /\ Reaches(t, s, row)
<1> DEFINE T == Policy(t, "tenancy", "*", TRUE)
           U == Policy(t, "update_owner", "w", FALSE)
           D == Policy(t, "delete_owner", "d", FALSE)
           C == Policy(t, "claim_visible", "*", FALSE)
<1>1. /\ \A q \in {T, U, D, C} : q.table = t
      /\ T.kind = "tenancy" /\ U.kind = "update_owner" /\ D.kind = "delete_owner"
      /\ C.kind = "claim_visible"
      /\ T.cmd = "*" /\ U.cmd = "w" /\ D.cmd = "d" /\ C.cmd = "*"
      /\ T.permissive /\ ~U.permissive /\ ~D.permissive /\ ~C.permissive
  BY DEF Policy
<1>2. \A q : q \in ExpectedPolicies /\ q.table = t <=>
              q = T \/ q = U \/ q = D \/ (t \in ClaimVisible /\ q = C)
  BY PoliciesOfATable
<1> HIDE DEF T, U, D, C
<1>3. /\ (Lets(T, "using", s, row) <=> ReadsAs(t, s, row))
      /\ (Lets(T, "check", s, row) <=> WritesAs(t, s, row))
      /\ \A side \in {"using", "check"} :
           /\ (Lets(U, side, s, row) <=> WritesAs(t, s, row))
           /\ (Lets(D, side, s, row) <=> WritesAs(t, s, row))
           /\ (Lets(C, side, s, row) <=> SeesClaim(t, s, row))
  BY <1>1, LetsOfAKind
<1>4. \A cmd \in {"r", "a", "w", "d"}, side \in {"using", "check"} :
        Passes(c, t, cmd, s, row, side) <=>
          /\ Lets(T, side, s, row)
          /\ cmd = "w" => Lets(U, side, s, row)
          /\ cmd = "d" => Lets(D, side, s, row)
          /\ t \in ClaimVisible => Lets(C, side, s, row)
  <2> SUFFICES ASSUME NEW cmd \in {"r", "a", "w", "d"}, NEW side \in {"using", "check"}
               PROVE  Passes(c, t, cmd, s, row, side) <=>
                        /\ Lets(T, side, s, row)
                        /\ cmd = "w" => Lets(U, side, s, row)
                        /\ cmd = "d" => Lets(D, side, s, row)
                        /\ t \in ClaimVisible => Lets(C, side, s, row)
    OBVIOUS
  <2>1. Passes(c, t, cmd, s, row, side) <=>
          /\ \E q \in ExpectedPolicies : /\ q.table = t /\ q.cmd \in {cmd, "*"}
                                         /\ q.permissive /\ Lets(q, side, s, row)
          /\ \A q \in ExpectedPolicies :
               q.table = t /\ q.cmd \in {cmd, "*"} =>
                 q.permissive \/ Lets(q, side, s, row)
    BY PassesOfTheModel
  <2>2. QED
    BY <2>1, <1>1, <1>2
<1>5. QED
  BY <1>3, <1>4 DEF Reaches

LEMMA PassesAppend ==
  ASSUME NEW c, c.policies = ModelPolicies, NEW t \in Append,
         NEW s, NEW row, s.bypass \in BOOLEAN, row.public \in BOOLEAN
  PROVE  /\ (Passes(c, t, "r", s, row, "using") <=> ReadsAs(t, s, row) /\ Reaches(t, s, row))
         /\ (Passes(c, t, "a", s, row, "check") <=> WritesAs(t, s, row) /\ Reaches(t, s, row))
         /\ \A cmd \in {"w", "d"}, side \in {"using", "check"} :
              Passes(c, t, cmd, s, row, side) <=> s.bypass /\ Reaches(t, s, row)
<1> DEFINE R == Policy(t, "read", "r", TRUE)
           I == Policy(t, "insert", "a", TRUE)
           U == Policy(t, "bypass_update", "w", TRUE)
           D == Policy(t, "bypass_delete", "d", TRUE)
           C == Policy(t, "claim_visible", "*", FALSE)
<1>1. /\ \A q \in {R, I, U, D, C} : q.table = t
      /\ R.kind = "read" /\ I.kind = "insert" /\ U.kind = "bypass_update"
      /\ D.kind = "bypass_delete" /\ C.kind = "claim_visible"
      /\ R.cmd = "r" /\ I.cmd = "a" /\ U.cmd = "w" /\ D.cmd = "d" /\ C.cmd = "*"
      /\ R.permissive /\ I.permissive /\ U.permissive /\ D.permissive /\ ~C.permissive
  BY DEF Policy
<1>2. \A q : q \in ExpectedPolicies /\ q.table = t <=>
              q = R \/ q = I \/ q = U \/ q = D \/ (t \in ClaimVisible /\ q = C)
  BY PoliciesOfATable
<1> HIDE DEF R, I, U, D, C
<1>3. /\ (Lets(R, "using", s, row) <=> ReadsAs(t, s, row))
      /\ (Lets(I, "check", s, row) <=> WritesAs(t, s, row))
      /\ \A side \in {"using", "check"} :
           /\ (Lets(U, side, s, row) <=> s.bypass)
           /\ (Lets(D, side, s, row) <=> s.bypass)
           /\ (Lets(C, side, s, row) <=> SeesClaim(t, s, row))
  BY <1>1, LetsOfAKind
<1>4. \A cmd \in {"r", "a", "w", "d"}, side \in {"using", "check"} :
        Passes(c, t, cmd, s, row, side) <=>
          /\ \/ cmd = "r" /\ Lets(R, side, s, row)
             \/ cmd = "a" /\ Lets(I, side, s, row)
             \/ cmd = "w" /\ Lets(U, side, s, row)
             \/ cmd = "d" /\ Lets(D, side, s, row)
          /\ t \in ClaimVisible => Lets(C, side, s, row)
  <2> SUFFICES ASSUME NEW cmd \in {"r", "a", "w", "d"}, NEW side \in {"using", "check"}
               PROVE  Passes(c, t, cmd, s, row, side) <=>
                        /\ \/ cmd = "r" /\ Lets(R, side, s, row)
                           \/ cmd = "a" /\ Lets(I, side, s, row)
                           \/ cmd = "w" /\ Lets(U, side, s, row)
                           \/ cmd = "d" /\ Lets(D, side, s, row)
                        /\ t \in ClaimVisible => Lets(C, side, s, row)
    OBVIOUS
  <2>1. Passes(c, t, cmd, s, row, side) <=>
          /\ \E q \in ExpectedPolicies : /\ q.table = t /\ q.cmd \in {cmd, "*"}
                                         /\ q.permissive /\ Lets(q, side, s, row)
          /\ \A q \in ExpectedPolicies :
               q.table = t /\ q.cmd \in {cmd, "*"} =>
                 q.permissive \/ Lets(q, side, s, row)
    BY PassesOfTheModel
  <2>2. QED
    BY <2>1, <1>1, <1>2
<1>5. QED
  BY <1>3, <1>4 DEF Reaches

LEMMA PassesFrozen ==
  ASSUME NEW c, c.policies = ModelPolicies, NEW t \in Frozen,
         NEW s, NEW row, s.bypass \in BOOLEAN, row.public \in BOOLEAN,
         NEW cmd \in {"r", "a", "w", "d"}, NEW side \in {"using", "check"}
  PROVE  Passes(c, t, cmd, s, row, side) <=> s.bypass
<1> DEFINE B == Policy(t, "bypass_all", "*", TRUE)
<1>1. B.table = t /\ B.kind = "bypass_all" /\ B.cmd = "*" /\ B.permissive
  BY DEF Policy
<1>2. \A q : q \in ExpectedPolicies /\ q.table = t <=> q = B
  BY PoliciesOfATable
<1> HIDE DEF B
<1>3. Lets(B, side, s, row) <=> s.bypass
  BY <1>1, LetsOfAKind
<1>4. QED
  BY <1>1, <1>2, <1>3, PassesOfTheModel

\* A session's writable owners are among its groups, and the claim of a row is
\* one of three words, the third on the edges only.
LEMMA AdmitsWhoIsEntitled ==
  ASSUME NEW c, c.policies = ModelPolicies, c.rls = Forced,
         NEW t \in Tables, NEW cmd \in {"r", "a", "w", "d"},
         NEW s \in Viewers, NEW row \in RowsOf(t)
  PROVE  Admits(c, t, cmd, s, row) <=> Entitled(t, cmd, s, row)
<1>1. /\ s.bypass \in BOOLEAN /\ row.public \in BOOLEAN
      /\ row.owner \in s.writable => row.owner \in s.groups
      /\ row.claim \in {"readable", "hidden"} \/ (t = EdgeTable /\ row.claim = "none")
  BY DEF Viewers, RowsOf
<1>2. "enabled" \in c.rls[t]
  BY DEF Forced
<1>3. Admits(c, t, cmd, s, row) <=>
        /\ cmd # "a" => Passes(c, t, "r", s, row, "using")
        /\ cmd \in {"w", "d"} => Passes(c, t, cmd, s, row, "using")
        /\ cmd \in {"a", "w"} => Passes(c, t, cmd, s, row, "check")
  BY <1>2 DEF Admits
<1>4. SeesClaim(t, s, row) <=> s.bypass \/ row.claim # "hidden"
  BY <1>1 DEF SeesClaim
<1>5. CASE t \in Ownership
  <2>1. t # JobTable /\ t \notin Frozen
    BY <1>5, CatalogAssumption
  <2>2. QED
    BY <1>1, <1>3, <1>4, <1>5, <2>1, PassesOwnership
       DEF Entitled, ReadsAs, WritesAs, Reaches
<1>6. CASE t \in Append
  <2>1. t \notin Ownership /\ t \notin Frozen
    BY <1>6, CatalogAssumption
  <2>2. QED
    BY <1>1, <1>3, <1>4, <1>6, <2>1, PassesAppend
       DEF Entitled, ReadsAs, WritesAs, Reaches
<1>7. CASE t \in Frozen
  BY <1>3, <1>7, <1>1, PassesFrozen DEF Entitled
<1>8. QED
  BY <1>5, <1>6, <1>7 DEF Tables, TenancyTables

\* The checks that come before each.
Earlier ==
  [definers |-> {}, rls |-> {"definers"}, grants |-> {"definers", "rls"},
   sentinels |-> {"definers", "rls", "grants"},
   policies |-> {"definers", "rls", "grants", "sentinels"},
   guards |-> {"definers", "rls", "grants", "sentinels", "policies"},
   hash_guard |-> {"definers", "rls", "grants", "sentinels", "policies", "guards"}]

\* While the catalog has not changed under it, a verification has found nothing
\* in the parts it has read, as they are.
Read(s) ==
  sess[s].pc \in DOMAIN CheckAfter /\ s \notin stirred =>
    \A check \in Earlier[sess[s].pc] : FindingsOf(check, catalog) = {}

VerifyInv == \A s \in Sessions : Read(s)

LEMMA NextCheck ==
  ASSUME NEW check \in DOMAIN CheckAfter
  PROVE  /\ CheckAfter[check] \in DOMAIN CheckAfter =>
              Earlier[CheckAfter[check]] = Earlier[check] \cup {check}
         /\ CheckAfter[check] = "ok" => check = "hash_guard"
         /\ Earlier["definers"] = {}
         /\ DOMAIN CheckAfter = Earlier["hash_guard"] \cup {"hash_guard"}
<1>1. DOMAIN CheckAfter = {"definers", "rls", "grants", "sentinels", "policies", "guards",
                           "hash_guard"}
  BY DEF CheckAfter
<1>2. Earlier["definers"] = {} /\ DOMAIN CheckAfter = Earlier["hash_guard"] \cup {"hash_guard"}
  BY <1>1 DEF Earlier
<1>3. /\ check = "definers" => CheckAfter[check] = "rls"
      /\ check = "rls" => CheckAfter[check] = "grants"
      /\ check = "grants" => CheckAfter[check] = "sentinels"
      /\ check = "sentinels" => CheckAfter[check] = "policies"
      /\ check = "policies" => CheckAfter[check] = "guards"
      /\ check = "guards" => CheckAfter[check] = "hash_guard"
      /\ check = "hash_guard" => CheckAfter[check] = "ok"
  BY DEF CheckAfter
<1>4. /\ Earlier["rls"] = {} \cup {"definers"}
      /\ Earlier["grants"] = Earlier["rls"] \cup {"rls"}
      /\ Earlier["sentinels"] = Earlier["grants"] \cup {"grants"}
      /\ Earlier["policies"] = Earlier["sentinels"] \cup {"sentinels"}
      /\ Earlier["guards"] = Earlier["policies"] \cup {"policies"}
      /\ Earlier["hash_guard"] = Earlier["guards"] \cup {"guards"}
  BY DEF Earlier
<1>5. QED
  BY <1>1, <1>2, <1>3, <1>4

\* A step in which a session stays where it is keeps what it has read, or stirs
\* it.
LEMMA StaysRead ==
  ASSUME NEW s \in Sessions, Read(s), sess'[s].pc = sess[s].pc,
         Stirs \/ (catalog' = catalog /\ (s \in stirred <=> s \in stirred'))
  PROVE  Read(s)'
<1>1. s \in stirred => s \in stirred'
  BY DEF Stirs
<1>2. CASE catalog' = catalog
  BY <1>1, <1>2 DEF Read
<1>3. CASE catalog' # catalog
  <2>1. s \in Reading => s \in stirred'
    BY <1>3 DEF Stirs
  <2>2. sess[s].pc \in DOMAIN CheckAfter /\ s \notin stirred' => sess[s].pc = "definers"
    BY <2>1 DEF Reading
  <2>3. Earlier["definers"] = {}
    BY DEF Earlier
  <2>4. QED
    BY <2>2, <2>3 DEF Read
<1>4. QED
  BY <1>2, <1>3

LEMMA SessionReads ==
  ASSUME LedgerTypeOK, OwnedInv, VerifyInv, NEW u \in Sessions,
         \/ Start(u) \/ ReadsOnly(u) \/ RunLocks(u) \/ Applies(u) \/ ApplyFails(u)
         \/ Finishes(u) \/ AdoptLocked(u) \/ Dies(u)
  PROVE  VerifyInv'
<1> USE DEF LedgerTypeOK
<1>1. \A t \in Sessions \ {u} : sess'[t] = sess[t]
  BY DEF Start, ReadsOnly, RunLocks, Applies, ApplyFails, Finishes, AdoptLocked, Dies,
         RunBegins, RunReadsLedger, RunReadsTables, AdoptBegins, VerifyReadsLedger,
         VerifyReadsKernel, VerifyReadsCatalog, Goto
<1>2. ASSUME NEW s \in Sessions, s # u
      PROVE  Read(s)'
  <2>1. sess'[s].pc = sess[s].pc
    BY <1>1, <1>2
  <2>2. Stirs \/ (catalog' = catalog /\ (s \in stirred <=> s \in stirred'))
    <3>1. CASE ReadsOnly(u)
      <4>1. s \in stirred <=> s \in stirred'
        BY <1>2, <3>1 DEF ReadsOnly, VerifyReadsCatalog
      <4>2. QED
        BY <3>1, <4>1 DEF ReadsOnly
    <3>2. CASE Applies(u)
      BY <3>2 DEF Applies
    <3>3. CASE Start(u) \/ RunLocks(u) \/ ApplyFails(u) \/ Finishes(u) \/ AdoptLocked(u) \/ Dies(u)
      BY <3>3 DEF Start, RunLocks, ApplyFails, Finishes, AdoptLocked, Dies, catalogVars
    <3>4. QED
      BY <3>1, <3>2, <3>3
  <2>3. QED
    BY <2>1, <2>2, StaysRead DEF VerifyInv
<1>3. CASE VerifyReadsCatalog(u) /\ ReadsOnly(u)
  <2>1. PICK check \in DOMAIN CheckAfter :
          /\ sess[u].pc = check
          /\ stirred' = IF check = "definers" THEN stirred \ {u} ELSE stirred
          /\ \/ FindingsOf(check, catalog) = {} /\ Goto(u, CheckAfter[check])
             \/ Goto(u, "refused")
    BY <1>3 DEF VerifyReadsCatalog, Reads
  <2>2. catalog' = catalog
    BY <1>3 DEF ReadsOnly
  <2>3. CASE FindingsOf(check, catalog) = {} /\ Goto(u, CheckAfter[check])
    <3>1. sess'[u].pc = CheckAfter[check]
      BY <2>3 DEF Goto, SessionStates
    <3>2. u \notin stirred' => \A one \in Earlier[check] : FindingsOf(one, catalog) = {}
      BY <2>1, NextCheck DEF VerifyInv, Read
    <3>3. Read(u)'
      BY <2>2, <2>3, <3>1, <3>2, NextCheck DEF Read
    <3>4. QED
      BY <1>2, <3>3 DEF VerifyInv
  <2>4. CASE Goto(u, "refused")
    <3>1. sess'[u].pc = "refused" /\ "refused" \notin DOMAIN CheckAfter
      BY <2>4 DEF Goto, SessionStates, CheckAfter
    <3>2. QED
      BY <1>2, <3>1 DEF VerifyInv, Read
  <2>5. QED
    BY <2>1, <2>3, <2>4
<1>4. CASE Applies(u)
  <2>1. sess'[u].pc = sess[u].pc /\ Stirs
    BY <1>4 DEF Applies, SessionStates
  <2>2. Read(u)'
    BY <2>1, StaysRead DEF VerifyInv
  <2>3. QED
    BY <1>2, <2>2 DEF VerifyInv
<1>5. CASE \/ Start(u) \/ RunLocks(u) \/ ApplyFails(u) \/ Finishes(u) \/ AdoptLocked(u) \/ Dies(u)
           \/ RunBegins(u) \/ RunReadsLedger(u) \/ RunReadsTables(u) \/ AdoptBegins(u)
           \/ VerifyReadsLedger(u) \/ VerifyReadsKernel(u)
  <2>1. sess'[u].pc \in {"started", "ledger", "tables", "lock", "kernel", "apply", "ok",
                         "refused", "idle", "definers"}
    BY <1>5 DEF Start, RunLocks, ApplyFails, Finishes, AdoptLocked, Dies, RunBegins,
                RunReadsLedger, RunReadsTables, AdoptBegins, VerifyReadsLedger,
                VerifyReadsKernel, Goto, Idle, SessionStates
  <2>2. DOMAIN CheckAfter \cap {"started", "ledger", "tables", "lock", "kernel", "apply",
                                "ok", "refused", "idle"} = {} /\ Earlier["definers"] = {}
    BY DEF CheckAfter, Earlier
  <2>3. Read(u)'
    BY <2>1, <2>2 DEF Read
  <2>4. QED
    BY <1>2, <2>3 DEF VerifyInv
<1>6. QED
  BY <1>3, <1>4, <1>5 DEF ReadsOnly

LEMMA VerifyHolds == Spec => [](LedgerTypeOK /\ VerifyInv)
<1>1. Init => VerifyInv
  <2> SUFFICES ASSUME Init, NEW s \in Sessions PROVE sess[s].pc = "idle"
    BY DEF VerifyInv, Read, CheckAfter
  <2>1. PICK w \in Worlds : sess \in [Sessions -> {Idle(last) : last \in w.binaries}]
    BY DEF Init
  <2>2. QED
    BY <2>1 DEF Idle
<1>2. ASSUME LedgerTypeOK, OwnedInv, VerifyInv, [Next]_vars
      PROVE  VerifyInv'
  <2>1. CASE \E s \in Sessions :
               \/ Start(s) \/ ReadsOnly(s) \/ RunLocks(s) \/ Applies(s) \/ ApplyFails(s)
               \/ Finishes(s) \/ AdoptLocked(s) \/ Dies(s)
    BY <1>2, <2>1, SessionReads
  <2>2. CASE \/ Scripts \/ KernelRecords \/ RowSteps \/ Boot \/ UNCHANGED vars
    <3>1. sess' = sess /\ (UNCHANGED catalogVars \/ Stirs)
      <4>1. CASE Scripts
        <5>1. CASE ScriptLooks
          BY <5>1, ScriptsLook
        <5>2. CASE ScriptCommits \/ ScriptFails
          BY <5>2 DEF ScriptCommits, ScriptFails
        <5>3. QED
          BY <4>1, <5>1, <5>2 DEF Scripts, ScriptLooks
      <4>2. CASE RowSteps
        BY <1>2, <4>2, RowStepsKeepRows DEF LedgerTypeOK
      <4>3. CASE KernelRecords \/ Boot \/ UNCHANGED vars
        BY <4>3 DEF KernelRecords, Boot, vars
      <4>4. QED
        BY <2>2, <4>1, <4>2, <4>3
    <3>2. QED
      BY <1>2, <3>1, StaysRead DEF VerifyInv, catalogVars
  <2>3. QED
    BY <1>2, <2>1, <2>2 DEF Next, RowSteps
<1>3. QED
  BY <1>1, <1>2, LedgerInvariant, PTL DEF Spec

\* No other step takes a session from reading the catalog to a good end.
LEMMA OnlyACleanCatalogPasses ==
  ASSUME LedgerTypeOK, VerifyInv, [Next]_vars, NEW s \in Sessions,
         sess[s].pc = "hash_guard", sess'[s].pc = "ok", s \notin stirred
  PROVE  \A check \in DOMAIN CheckAfter : FindingsOf(check, catalog) = {}
<1> USE DEF LedgerTypeOK
<1>1. sess' # sess
  OBVIOUS
<1>2. PICK u \in Sessions :
        \/ Start(u) \/ ReadsOnly(u) \/ RunLocks(u) \/ Applies(u) \/ ApplyFails(u)
        \/ Finishes(u) \/ AdoptLocked(u) \/ Dies(u)
  <2>1. ~Scripts
    BY <1>1, ScriptsLook, ScriptsUndo DEF Scripts, ScriptLooks, ScriptFails
  <2>2. ~RowSteps
    BY <1>1, RowStepsKeepRows
  <2>3. ~KernelRecords /\ ~Boot /\ ~UNCHANGED vars
    BY <1>1 DEF KernelRecords, Boot, vars
  <2>4. QED
    BY <2>1, <2>2, <2>3 DEF Next, RowSteps
<1>3. sess' = [sess EXCEPT ![u] = sess'[u]]
  BY <1>2 DEF Start, ReadsOnly, RunBegins, RunReadsLedger, RunReadsTables, AdoptBegins,
              VerifyReadsLedger, VerifyReadsKernel, VerifyReadsCatalog, RunLocks, Applies,
              ApplyFails, Finishes, AdoptLocked, Dies, Goto
<1>4. u = s
  BY <1>3
<1>5. VerifyReadsCatalog(s)
  BY <1>2, <1>4 DEF Start, ReadsOnly, RunBegins, RunReadsLedger, RunReadsTables, AdoptBegins,
              VerifyReadsLedger, VerifyReadsKernel, RunLocks, Applies, Reads, Ended,
              ApplyFails, Finishes, AdoptLocked, Dies, Goto, Idle, SessionStates
<1>6. FindingsOf("hash_guard", catalog) = {}
  <2>1. PICK check \in DOMAIN CheckAfter :
          /\ sess[s].pc = check
          /\ FindingsOf(check, catalog) = {} \/ Goto(s, "refused")
    BY <1>5 DEF VerifyReadsCatalog, Reads
  <2>2. ~Goto(s, "refused")
    BY DEF Goto, SessionStates
  <2>3. QED
    BY <2>1, <2>2
<1>7. "hash_guard" \in DOMAIN CheckAfter
  BY DEF CheckAfter
<1>8. \A check \in Earlier["hash_guard"] : FindingsOf(check, catalog) = {}
  BY <1>7 DEF VerifyInv, Read
<1>9. QED
  BY <1>6, <1>7, <1>8, NextCheck

\* A verification that ends well, its reads one after another and the catalog
\* not changed between them, leaves the catalog the migrations install, under
\* which every session may do exactly what the contract says, for every set of
\* tables and every catalog that may be read.
THEOREM VerifiedCatalogIsTenant == Spec => VerifiedIsTenant
<1>1. LedgerTypeOK /\ VerifyInv /\ [Next]_vars =>
        [\A s \in Sessions : sess[s].pc = "hash_guard" /\ sess'[s].pc = "ok" /\ s \notin stirred =>
           IsTenant(catalog)]_vars
  <2> SUFFICES ASSUME LedgerTypeOK, VerifyInv, [Next]_vars, NEW s \in Sessions,
                      sess[s].pc = "hash_guard", sess'[s].pc = "ok", s \notin stirred
               PROVE  IsTenant(catalog)
    OBVIOUS
  <2>1. \A check \in DOMAIN CheckAfter : FindingsOf(check, catalog) = {}
    BY OnlyACleanCatalogPasses
  <2>2. catalog \in CatalogValues
    BY DEF LedgerTypeOK, CatalogTyped
  <2>3. QED
    BY <2>1, <2>2, CleanCatalog, AdmitsWhoIsEntitled DEF IsTenant
<1>2. QED
  BY <1>1, VerifyHolds, PTL DEF Spec, VerifiedIsTenant
=============================================================================
