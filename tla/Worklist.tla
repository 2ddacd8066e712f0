------------------------------ MODULE Worklist ------------------------------
(***************************************************************************)
(* The owner worklist of episcience-worker (jobs/worker.rs: run_worklist   *)
(* and WorklistBackoff; 5037: episcience_owner_worklist).  Every period    *)
(* the worker asks the definer for the due items of each kind, oldest      *)
(* first, attempts at most Limit of them and holds back those it skips for *)
(* a growing number of periods.  Users act between any two steps: an item  *)
(* comes due or leaves the list, and its attempts start or stop failing.   *)
(* What an attempt writes is in Outbox.                                    *)
(***************************************************************************)
EXTENDS Integers, FiniteSets, SequencesExt

CONSTANTS
  Items,       (* synthesis ids                                             *)
  Limit,       (* WORKLIST_LIMIT: items attempted per kind and period       *)
  DefinerMax,  (* WORKLIST_DEFINER_MAX: the definer's bound on p_limit      *)
  MaxHold,     (* WORKLIST_MAX_HOLD_PERIODS, a power of two                 *)
  MaxBroken,   (* bound: items that fail at any one time, over both kinds   *)
  MaxUpsets    (* bound: what users and failures change, one at a time      *)

ASSUME WorklistAssumption ==
  /\ {Limit, MaxHold} \subseteq Nat \ {0}
  /\ {MaxBroken, MaxUpsets} \subseteq Nat
  /\ DefinerMax \in Nat /\ DefinerMax >= Limit

VARIABLES
  due,     (* [Kinds -> SUBSET Items]: what the definer's WHERE admits      *)
  broken,  (* SUBSET (Kinds \X Items): attempts that would fail             *)
  order,   (* [Kinds -> permutation of Items]: the definer's ORDER BY       *)
  holds,   (* [Kinds -> [Items -> Hold]]: BackoffState                      *)
  kind,    (* the kind being worked through, or "idle" between periods      *)
  todo,    (* the items of it still to be attempted in this period          *)
  upsets   (* upsets so far (bound only)                                    *)

vars == <<due, broken, order, holds, kind, todo, upsets>>

Kinds == {"stage6", "stale"}

\* The last hold in periods (0: no record) and eligible_at - period.
Hold   == [length : 0..MaxHold, wait : -2 * MaxHold + 1 .. MaxHold + 1]
NoHold == [length |-> 0, wait |-> 0]

Least(m, n)    == IF m < n THEN m ELSE n
Prefix(s, n)   == SubSeq(s, 1, Least(n, Len(s)))
HeldIn(record) == {i \in Items : record[i].wait > 0}

\* WorklistBackoff::skipped: 2^(skips-1) periods, at most MaxHold.
Longer(h) == LET n == IF h.length = 0 THEN 1 ELSE Least(2 * h.length, MaxHold)
             IN  [length |-> n, wait |-> n + 1]

\* WorklistBackoff::begin_period: a record long past its hold is dropped.
Aged(h) == IF h.length = 0 \/ h.wait - 1 + 2 * MaxHold <= 0
           THEN NoHold ELSE [h EXCEPT !.wait = @ - 1]

Init ==
  /\ due    = [k \in Kinds |-> Items]
  /\ broken \in {B \in SUBSET (Kinds \X Items) : Cardinality(B) <= MaxBroken}
  /\ order  = [k \in Kinds |-> SetToSeq(Items)]
  /\ holds  = [k \in Kinds |-> [i \in Items |-> NoHold]]
  /\ kind   = "idle"
  /\ todo   = <<>>
  /\ upsets = 0

Upset == upsets < MaxUpsets /\ upsets' = upsets + 1

-----------------------------------------------------------------------------
\* A slip: held items take the place of the others in the answer.
FetchLimitOnly(record) == Limit

\* The worker asks for the held items on top of its limit, so that they do
\* not push the others out of the answer.
Fetch(record) == Least(Limit + Cardinality(HeldIn(record)), DefinerMax)

Offered(k, record) ==
  Prefix(SelectSeq(order[k], LAMBDA i : i \in due[k]), Fetch(record))

Attempts(k, record) ==
  Prefix(SelectSeq(Offered(k, record), LAMBDA i : i \notin HeldIn(record)), Limit)

\* The definer's call for kind k; its failure ends the whole period.
Ask(k, record) ==
  \/ kind' = k /\ todo' = Attempts(k, record) /\ UNCHANGED upsets
  \/ kind' = "idle" /\ todo' = <<>> /\ Upset

BeginPeriod ==
  /\ kind = "idle"
  /\ LET aged == [k \in Kinds |-> [i \in Items |-> Aged(holds[k][i])]]
     IN  holds' = aged /\ Ask("stage6", aged["stage6"])
  /\ UNCHANGED <<due, broken, order>>

NextKind ==
  /\ kind # "idle" /\ todo = <<>>
  /\ \/ kind = "stage6" /\ Ask("stale", holds["stale"])
     \/ kind = "stale" /\ kind' = "idle" /\ UNCHANGED <<todo, upsets>>
  /\ UNCHANGED <<due, broken, order, holds>>

\* The item's work is done: its record is cleared and it is not due any more.
\* A recheck moves it behind every other (staleness_checked_at = now()).
Succeed ==
  /\ todo # <<>>
  /\ <<kind, Head(todo)>> \notin broken
  /\ due'   = [due EXCEPT ![kind] = @ \ {Head(todo)}]
  /\ order' = IF kind = "stage6" THEN order
              ELSE [order EXCEPT ![kind] = Append(Remove(@, Head(todo)), Head(todo))]
  /\ holds' = [holds EXCEPT ![kind][Head(todo)] = NoHold]
  /\ todo'  = Tail(todo)
  /\ UNCHANGED <<broken, kind, upsets>>

\* A refused principal, a failure, or an item that left the list meanwhile.
Skip ==
  /\ todo # <<>>
  /\ <<kind, Head(todo)>> \in broken \/ Head(todo) \notin due[kind]
  /\ holds' = [holds EXCEPT ![kind][Head(todo)] = Longer(@)]
  /\ todo'  = Tail(todo)
  /\ UNCHANGED <<due, broken, order, kind, upsets>>

-----------------------------------------------------------------------------
\* New pending edges come from users; a recheck falls due by time alone.
ComesDue(k, i) ==
  /\ i \notin due[k]
  /\ due' = [due EXCEPT ![k] = @ \cup {i}]
  /\ IF k = "stage6" THEN Upset ELSE UNCHANGED upsets
  /\ UNCHANGED <<broken, order, holds, kind, todo>>

\* The synthesis is deleted, narrowed, marked stale, or its rows reach the cap.
Leaves(k, i) ==
  /\ i \in due[k]
  /\ due' = [due EXCEPT ![k] = @ \ {i}]
  /\ Upset
  /\ UNCHANGED <<broken, order, holds, kind, todo>>

Breaks(k, i) ==
  /\ <<k, i>> \notin broken
  /\ Cardinality(broken) < MaxBroken
  /\ broken' = broken \cup {<<k, i>>}
  /\ Upset
  /\ UNCHANGED <<due, order, holds, kind, todo>>

Mends(k, i) ==
  /\ <<k, i>> \in broken
  /\ broken' = broken \ {<<k, i>>}
  /\ Upset
  /\ UNCHANGED <<due, order, holds, kind, todo>>

Period == BeginPeriod \/ NextKind \/ Succeed \/ Skip
Users  == \E k \in Kinds, i \in Items :
            ComesDue(k, i) \/ Leaves(k, i) \/ Breaks(k, i) \/ Mends(k, i)
Next   == Period \/ Users

Spec == Init /\ [][Next]_vars
\* run_until starts a period every WORKLIST_PERIOD and runs it to its end.
FairSpec == Spec /\ WF_vars(Period)

-----------------------------------------------------------------------------
\* Types: the backoff records stay within the longest hold and the memory of
\* twice that, and a period attempts at most Limit items, none of them twice.
WorklistTypeOK ==
  /\ due \in [Kinds -> SUBSET Items] /\ broken \subseteq Kinds \X Items
  /\ \A k \in Kinds : Len(order[k]) = Cardinality(Items) /\ ToSet(order[k]) = Items
  /\ holds \in [Kinds -> [Items -> Hold]]
  /\ kind \in Kinds \cup {"idle"}
  /\ kind = "idle" => todo = <<>>
  /\ ToSet(todo) \subseteq Items /\ IsInjective(todo) /\ Len(todo) <= Limit
  /\ upsets \in 0..MaxUpsets

\* No starvation (the purpose of WorklistBackoff): an item that stays on the
\* list is attempted again and again, so one that can succeed does, however
\* the failing items before it in the definer's order behave.
EveryDueItemIsServed ==
  \A k \in Kinds, i \in Items : []<>(i \notin due[k] \/ holds[k][i].wait > 0)
=============================================================================
