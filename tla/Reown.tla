-------------------------------- MODULE Reown --------------------------------
(***************************************************************************)
(* The one-shot re-own of the legacy rows: the backfill and its reverse    *)
(* (migration 5034, run by `episcience-maint`), the data step of the       *)
(* contract migration (5035), the writers of the window between the two    *)
(* and the rollback of the vocabulary.  A row is one synthesis with its    *)
(* job and one derived row, which is inserted by a transaction of its own. *)
(***************************************************************************)
EXTENDS Integers

CONSTANTS Rows,           \* the syntheses
          Unpublishable   \* those with an input that is not public

ASSUME ReownAssumption == Unpublishable \subseteq Rows

VARIABLES rows,           \* the syntheses that exist, with their dependants
          manifests,      \* the applied backfills, by their manifests
          drafts,         \* the derived rows inserted and not yet committed
          raced           \* the syntheses narrowed under the contract while
                          \* a public derived row was not yet committed

rowVars == <<rows, manifests, drafts, raced>>

NoPair == <<"none", "none">>
NoPart == <<"absent", "absent">>    \* no derived row
Words == {"private", "shared", "public", "group"}   \* the visibility words

\* Row values: the pair is <<owner, visibility>>.
NoJob == [has |-> FALSE, pair |-> NoPair, by |-> "none"]
Job(pair, by) == [has |-> TRUE, pair |-> pair, by |-> by]
Absent == [here |-> FALSE, pair |-> NoPair, done |-> FALSE, job |-> NoJob, part |-> NoPart]

Pairs == {"none", "G", "H"} \X (Words \cup {"none"})
RowValues ==
  [here : BOOLEAN, pair : Pairs, done : BOOLEAN, part : Pairs \cup {NoPart},
   job : [has : BOOLEAN, pair : Pairs, by : {"none", "P", "Q"}]]

Owner(x) == x.pair[1]
Word(x) == x.pair[2]
Owned(x) == Owner(x) # "none"
Present == {r \in Rows : rows[r].here}

\* A synthesis the previous binary wrote: no owner, and the job, if any,
\* names no principal; a complete one has its derived row.
LegacyRow(word, done, job) ==
  [here |-> TRUE, pair |-> <<"none", word>>, done |-> done,
   job |-> IF job THEN Job(NoPair, "none") ELSE NoJob,
   part |-> IF done THEN NoPair ELSE NoPart]

\* No job is one value, and nothing but the backfill gives a job a pair while
\* its synthesis may have none.
Sane(x) ==
  /\ ~x.job.has => x.job = NoJob
  /\ ~Owned(x) => x.job.pair = NoPair

-----------------------------------------------------------------------------
(* The writers.                                                            *)

\* A synthesis of the previous binary, before the pair is mandatory.
OldWrites(r) ==
  /\ ~rows[r].here
  /\ \E word \in {"private", "public"} :
       rows' = [rows EXCEPT ![r] = LegacyRow(word, FALSE, TRUE)]
  /\ UNCHANGED <<manifests, drafts, raced>>

\* A synthesis of H and its job by this binary: before the contract the job
\* carries no pair, after it the trigger gives it the root's; then, too, a
\* public row with an input that is not is refused or narrowed.
NewWrites(r, contracted) ==
  /\ ~rows[r].here
  /\ \E word \in {"group"} \cup
                 (IF contracted /\ r \in Unpublishable THEN {} ELSE {"public"}) :
       LET pair == <<"H", word>>
       IN rows' = [rows EXCEPT ![r] =
            [here |-> TRUE, pair |-> pair, done |-> FALSE, part |-> NoPart,
             job |-> Job(IF contracted THEN pair ELSE NoPair, "Q")]]
  /\ UNCHANGED <<manifests, drafts, raced>>

\* A later transaction inserts the derived row: under the contract its trigger
\* copies the pair the root has committed by then, and holds no lock on it.
DerivedBegins(r, contracted) ==
  /\ rows[r].here /\ rows[r].part = NoPart /\ drafts[r] = NoPart
  /\ drafts' = [drafts EXCEPT ![r] = IF contracted THEN rows[r].pair ELSE NoPair]
  /\ UNCHANGED <<rows, manifests, raced>>

\* It commits, or rolls back.
DerivedEnds(r) ==
  /\ drafts[r] # NoPart
  /\ drafts' = [drafts EXCEPT ![r] = NoPart]
  /\ \/ rows' = [rows EXCEPT ![r].part = drafts[r]] /\ raced' = raced
     \/ rows' = rows /\ raced' = raced \ {r}
  /\ UNCHANGED manifests

\* An owned synthesis is narrowed; only the contract's triggers carry that to
\* its dependants, and to the committed ones only.
Narrows(r, contracted) ==
  /\ rows[r].here /\ Owned(rows[r]) /\ Word(rows[r]) = "public"
  /\ LET pair == <<Owner(rows[r]), "group">>
     IN rows' = [rows EXCEPT ![r].pair = pair,
                   ![r].part = IF contracted /\ @ # NoPart THEN pair ELSE @,
                   ![r].job = IF contracted /\ @.has THEN [@ EXCEPT !.pair = pair] ELSE @]
  /\ raced' = IF contracted /\ drafts[r] # NoPart THEN raced \cup {r} ELSE raced
  /\ UNCHANGED <<manifests, drafts>>

-----------------------------------------------------------------------------
(* The backfill and its reverse.                                           *)

\* What the backfill makes of a row: an ownerless root goes to G, dependants
\* without a pair take their parent's, and the jobs of the roots it re-owned
\* get the principal P; a complete one without a job gets one.
ReownedRow(x) ==
  LET taken == ~Owned(x)
      pair == IF taken THEN <<"G", IF Word(x) = "public" THEN "public" ELSE "group">>
              ELSE x.pair
      job == IF x.job.has
             THEN [x.job EXCEPT !.pair = IF @ = NoPair THEN pair ELSE @,
                                !.by = IF @ = "none" /\ taken THEN "P" ELSE @]
             ELSE IF taken /\ x.done THEN Job(pair, "P") ELSE NoJob
  IN [x EXCEPT !.pair = pair, !.job = job, !.part = IF @ = NoPair THEN pair ELSE @]

Reowned == [r \in Rows |-> IF rows[r].here THEN ReownedRow(rows[r]) ELSE rows[r]]

\* An applied backfill commits its rows and its manifest (the audit rows hold
\* the manifest's hash); a dry run, and a refusal, change nothing.
BackfillOwners ==
  /\ rows' = Reowned
  /\ manifests' = manifests \cup {[before |-> rows, after |-> Reowned]}
  /\ UNCHANGED <<drafts, raced>>

\* Mutant: every listed row goes back, whatever it carries by now.
ReversedRowAlways(x, before, after) ==
  IF after # before THEN before ELSE x

\* What the reverse makes of a row: each listed row whose pair is still the
\* one the backfill gave goes back; a job the backfill inserted is deleted.
ReversedRow(x, before, after) ==
  LET back(now, b, a) == IF b # a /\ now = a THEN b ELSE now
      inserted == ~before.job.has /\ after.job.has
      listed == before.job # after.job
      job == IF listed /\ x.job.has /\ x.job.pair = after.job.pair
             THEN IF inserted THEN IF x.job.by = after.job.by THEN NoJob ELSE x.job
                  ELSE [x.job EXCEPT !.pair = NoPair,
                          !.by = IF @ = after.job.by THEN before.job.by ELSE @]
             ELSE x.job
  IN [x EXCEPT !.pair = back(@, before.pair, after.pair),
               !.part = back(@, before.part, after.part),
               !.job = job]

BackfillReverse(m) ==
  /\ rows' = [r \in Rows |-> IF m.before[r].here
                THEN ReversedRow(rows[r], m.before[r], m.after[r]) ELSE rows[r]]
  /\ UNCHANGED <<manifests, drafts, raced>>

-----------------------------------------------------------------------------
(* The contract.                                                           *)

\* The data step of 5035: the vocabulary, the narrowing, the parent's pair to
\* every dependant.
ContractedRow(r) ==
  LET x == rows[r]
      word == IF Word(x) = "public" /\ r \notin Unpublishable THEN "public" ELSE "group"
      pair == <<Owner(x), word>>
  IN [x EXCEPT !.pair = pair,
               !.part = IF Owned(x) /\ @ # NoPart THEN pair ELSE @,
               !.job = IF Owned(x) /\ @.has THEN [@ EXCEPT !.pair = pair] ELSE @]

Contracted == [r \in Rows |-> IF rows[r].here THEN ContractedRow(r) ELSE rows[r]]

\* Mutant: the jobs are not looked at.
ContractibleRoots == \A r \in Present : Owned(rows[r])

\* 5035 refuses a root without an owner and a job without a principal.
Contractible ==
  \A r \in Present : /\ Owned(rows[r])
                     /\ rows[r].job.has => rows[r].job.by # "none"

\* 5035 and its undo change the tables of the dependants, and wait for the
\* transactions that write to them.
NoDrafts == \A r \in Rows : drafts[r] = NoPart

\* e1c-rollback-vocabulary.sql.
RollBackVocabulary ==
  /\ rows' = [r \in Rows |-> IF rows[r].here /\ Word(rows[r]) = "group"
                             THEN [rows[r] EXCEPT !.pair = <<@[1], "private">>]
                             ELSE rows[r]]
  /\ UNCHANGED <<manifests, drafts, raced>>

-----------------------------------------------------------------------------
\* A synthesis is wholly owned: the root and its dependants carry one pair of
\* the kernel's two words, the job a principal, and no root is public that may
\* not be.  The derived row of one that was narrowed beside its insert (late)
\* may have kept the public pair of the same owner.
Whole(r, x, late) ==
  /\ Owned(x) /\ Word(x) \in {"public", "group"}
  /\ Word(x) = "public" => r \notin Unpublishable
  /\ x.part \in {NoPart, x.pair} \cup IF late THEN {<<Owner(x), "public">>} ELSE {}
  /\ x.job.has => x.job.pair = x.pair /\ x.job.by # "none"

WhollyOwned == \A r \in Present : Whole(r, rows[r], r \in raced)

\* The reverse of a backfill nothing has touched since restores every row,
\* and a root changed since keeps its pair.
Restores(m) ==
  \A r \in Rows :
    /\ rows[r] = m.after[r] => rows'[r] = m.before[r]
    /\ rows[r].pair # m.after[r].pair => rows'[r].pair = rows[r].pair
=============================================================================
