---------------------------- MODULE Countersign ----------------------------
(***************************************************************************)
(* The countersignatures of ONE claim and the hash chain through them      *)
(* (repos/countersign.rs, 5037: episcience_countersign_chain_head).  An    *)
(* append runs in one transaction: it reads the claim, asks the definer    *)
(* for the latest row's link under the claim's advisory lock, and inserts  *)
(* a row that chains on it.  Row security hides rows from a writer, never  *)
(* from the definer.  Older rows may lack the hash the next row chains on  *)
(* until the operator's backfill fills it.                                 *)
(*                                                                         *)
(* A signature stands for its hash: distinct signatures have distinct      *)
(* hashes.  A signature names the claim, its signer and a meaning, so the  *)
(* same one may be recorded again by another principal.                    *)
(***************************************************************************)
EXTENDS Integers, Sequences

CONSTANTS
  Writers,    (* principals that countersign the claim                      *)
  Members,    (* those of the claim's group                                 *)
  Sigs,       (* signatures that verify for the claim                       *)
  None,       (* a NULL hash                                                *)
  Nobody,     (* the lock is free; the recorder of an older row             *)
  MaxOld,     (* bound: rows of older binaries                              *)
  MaxRows,    (* bound: rows                                                *)
  MaxTurns,   (* bound: changes of the claim's visibility                   *)
  MaxSteps    (* bound: steps of the wall clock backwards                   *)

ASSUME CountersignAssumption ==
  /\ Members \subseteq Writers
  /\ None \notin Sigs /\ Nobody \notin Writers
  /\ MaxOld \in Nat /\ MaxRows \in Nat /\ MaxTurns \in Nat /\ MaxSteps \in Nat

VARIABLES
  rows,      (* Seq(Row): countersignatures, in the order of their commits  *)
  old,       (* how many of them older binaries wrote                       *)
  public,    (* BOOLEAN: the claim is public                                *)
  clock,     (* clock_timestamp()                                           *)
  lock,      (* who holds the claim's advisory lock, or Nobody              *)
  pc,        (* [Writers -> {"idle", "checked", "linked"}]                  *)
  draft,     (* [Writers -> Draft]: the row w is about to insert            *)
  turns,     (* changes of visibility so far (bound only)                   *)
  steps      (* steps of the clock backwards so far                         *)

vars == <<rows, old, public, clock, lock, pc, draft, turns, steps>>

\* link: signature_hash; prev: prev_signature_hash; at: created_at; open: the
\* row is public, not the group's.
Row == [sig : Sigs, link : Sigs \cup {None}, prev : Sigs \cup {None}, at : Nat,
        by : Writers \cup {Nobody}, open : BOOLEAN]
Draft == [sig : Sigs \cup {None}, open : BOOLEAN, prev : Sigs \cup {None}]
Blank == [sig |-> None, open |-> FALSE, prev |-> None]

\* Older rows: without a hash, and stamped when their transaction began, which
\* need not be the order in which they chained.
OldRows(n) ==
  {r \in [1..n -> [sig : Sigs, link : {None}, prev : Sigs \cup {None},
                   at : 1..n, by : {Nobody}, open : BOOLEAN]] :
     \A i \in 1..n : r[i].prev \in {None} \cup {r[j].sig : j \in 1..n}}

Init ==
  /\ old \in 0..MaxOld
  /\ rows \in OldRows(old)
  /\ public \in BOOLEAN
  /\ clock = old
  /\ lock = Nobody
  /\ pc = [w \in Writers |-> "idle"]
  /\ draft = [w \in Writers |-> Blank]
  /\ turns = 0 /\ steps = 0

-----------------------------------------------------------------------------
\* The claim's row security, and that of its countersignatures.
Reads(w)   == public \/ w \in Members
Sees(w, i) == rows[i].open \/ w \in Members

\* ORDER BY created_at DESC, id DESC: ids do not follow the commits.
Heads == {h \in DOMAIN rows : \A i \in DOMAIN rows : rows[i].at <= rows[h].at}

\* The request: the claim is read, the signature is verified, and the row's
\* pair follows the claim's (countersign_ownership).
Check(w, s) ==
  /\ pc[w] = "idle"
  /\ Reads(w)
  /\ pc' = [pc EXCEPT ![w] = "checked"]
  /\ draft' = [draft EXCEPT ![w] = [sig |-> s, open |-> public, prev |-> None]]
  /\ UNCHANGED <<rows, old, public, clock, lock, turns, steps>>

\* Deviation: the head is read without the lock.
LockFreeAlways == TRUE

LockFree == lock = Nobody

\* What the definer answers of row h: its stored hash, or the signature that
\* the caller hashes when it may read the row; otherwise it refuses.
LinkOf(h)      == IF rows[h].link # None THEN rows[h].link ELSE rows[h].sig
Answers(w, h)  == rows[h].link # None \/ Sees(w, h)

\* episcience_countersign_chain_head, each statement of which sees what was
\* committed before it: the lock is taken first.
ReadHead(w) ==
  /\ pc[w] = "checked"
  /\ Reads(w)
  /\ LockFree
  /\ \/ rows = <<>> /\ draft' = [draft EXCEPT ![w].prev = None]
     \/ \E h \in Heads : Answers(w, h) /\ draft' = [draft EXCEPT ![w].prev = LinkOf(h)]
  /\ lock' = w
  /\ pc' = [pc EXCEPT ![w] = "linked"]
  /\ UNCHANGED <<rows, old, public, clock, turns, steps>>

\* Deviations: the row's two hashes are swapped; an older binary, which
\* stores no hash of its own.
StoredSwapped(d) == d.prev
StoredNone(d)    == None

\* signature_hash
Stored(d) == d.sig

\* tenancy_20_claim_guard, and the key per recording principal.
MayInsert(w) ==
  /\ Reads(w)
  /\ ~public => ~draft[w].open
  /\ \A i \in DOMAIN rows : ~(rows[i].by = w /\ rows[i].sig = draft[w].sig)

Rests(w) ==
  /\ pc' = [pc EXCEPT ![w] = "idle"]
  /\ draft' = [draft EXCEPT ![w] = Blank]

\* The insert and the commit, which releases the lock.  Two appends are never
\* stamped alike: the first commits before the second is stamped.
Record(w) ==
  /\ pc[w] = "linked"
  /\ MayInsert(w)
  /\ Len(rows) < MaxRows
  /\ clock' = clock + 1
  /\ rows' = Append(rows, [sig |-> draft[w].sig, link |-> Stored(draft[w]),
                           prev |-> draft[w].prev, at |-> clock + 1, by |-> w,
                           open |-> draft[w].open])
  /\ lock' = Nobody
  /\ Rests(w)
  /\ UNCHANGED <<old, public, turns, steps>>

\* Whatever refuses the request or fails it rolls its transaction back.
GivesUp(w) ==
  /\ pc[w] # "idle"
  /\ lock' = IF lock = w THEN Nobody ELSE lock
  /\ Rests(w)
  /\ UNCHANGED <<rows, old, public, clock, turns, steps>>

\* episcience-migrate backfill-signature-hashes, in one transaction.
Backfill ==
  /\ \E i \in DOMAIN rows : rows[i].link = None
  /\ rows' = [i \in DOMAIN rows |->
                [rows[i] EXCEPT !.link = IF @ = None THEN rows[i].sig ELSE @]]
  /\ UNCHANGED <<old, public, clock, lock, pc, draft, turns, steps>>

ClaimTurns ==
  /\ turns < MaxTurns /\ turns' = turns + 1
  /\ public' = ~public
  /\ UNCHANGED <<rows, old, clock, lock, pc, draft, steps>>

\* The wall clock is set back.
ClockStepsBack ==
  /\ steps < MaxSteps /\ steps' = steps + 1
  /\ \E t \in 0..clock - 1 : clock' = t
  /\ UNCHANGED <<rows, old, public, lock, pc, draft, turns>>

Request(w) == (\E s \in Sigs : Check(w, s)) \/ ReadHead(w) \/ Record(w) \/ GivesUp(w)

Next == (\E w \in Writers : Request(w)) \/ Backfill \/ ClaimTurns \/ ClockStepsBack

Spec == Init /\ [][Next]_vars

-----------------------------------------------------------------------------
\* Every variable keeps its type, and the advisory lock is held by the one
\* writer that has read the head and not yet committed.
CountersignTypeOK ==
  /\ rows \in Seq(Row) /\ old \in 0..Len(rows)
  /\ public \in BOOLEAN /\ clock \in Nat
  /\ pc \in [Writers -> {"idle", "checked", "linked"}]
  /\ draft \in [Writers -> Draft]
  /\ lock \in Writers \cup {Nobody}
  /\ \A w \in Writers : /\ pc[w] = "linked" <=> lock = w
                        /\ pc[w] # "idle" => draft[w].sig \in Sigs
  /\ turns \in 0..MaxTurns /\ steps \in 0..MaxSteps

\* The older row that was the head when this chain began.
OldHeads == {h \in 1..old : \A i \in 1..old : rows[i].at <= rows[h].at}

\* The chain is the order of the commits (CountersignRepository::create,
\* "neither forks the chain"): whoever wrote the row before, and whether or
\* not this writer sees it, a row chains on it; while the clock runs forward.
ChainIsCommitOrder ==
  steps = 0 =>
    \A i \in old + 1 .. Len(rows) :
      CASE i = 1       -> rows[i].prev = None
        [] i > old + 1 -> rows[i].prev = rows[i - 1].sig
        [] OTHER       -> \E h \in OldHeads : rows[i].prev = rows[h].sig

\* What `verify` checks of the links (countersign_links.rs, findings), and
\* more: a row chains on nothing or on a row committed BEFORE it, and a stored
\* hash is its own signature's; whatever the clock does.
LinksAreWhole ==
  \A i \in DOMAIN rows :
    /\ rows[i].link \in {None, rows[i].sig}
    /\ rows[i].prev # None => \E j \in DOMAIN rows :
                                rows[j].sig = rows[i].prev /\ (i > old => j < i)

\* The refusal of a hidden older head (55000) is over for good with the next
\* link: once the latest row carries its hash, no reader is refused again.
LockoutEnds ==
  [][steps' = 0 /\ (\A h \in Heads : rows[h].link # None)
       => (\A h \in Heads : rows[h].link # None)']_vars
=============================================================================
