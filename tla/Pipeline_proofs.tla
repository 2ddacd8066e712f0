-------------------------- MODULE Pipeline_proofs ---------------------------
(***************************************************************************)
(* The proofs about a pass of the pipeline, for every world of every       *)
(* number of claims, every cap, every number of retries and every length   *)
(* of a result text.                                                       *)
(*                                                                         *)
(* StopsAreTerminal follows from what a reply that shows a stop is parsed  *)
(* to. ClustersPartition, CallsAreAccounted, OnlyTheComposerIsRejected,    *)
(* TraversalIsExact and ConflictsAreHalved follow from one invariant,      *)
(* PassInv: TraversalInv gives each claim visited the hop it was met at,   *)
(* orders the queue by it and says what has been looked behind; LouvainInv *)
(* says that what is split are sets of claims, along edges between claims. *)
(*                                                                         *)
(* What a recursive function computes is proved through the least number   *)
(* at which it would differ (MinIsLeast): Within, the reference of the     *)
(* traversal, and Bipartition, which gives each claim a side.              *)
(***************************************************************************)
EXTENDS Pipeline, FiniteSetTheorems, WellFoundedInduction, TLAPS

-----------------------------------------------------------------------------
(* Least and greatest numbers.                                             *)

LEMMA MinIsLeast ==
  ASSUME NEW S \in SUBSET Nat, S # {}
  PROVE  Min(S) \in S /\ \A x \in S : Min(S) <= x
<1> DEFINE Less == {ss \in Nat \X Nat : ss[1] < ss[2]}
<1>1. IsWellFoundedOn(Less, Nat)
  BY NatLessThanWellFounded DEF OpToRel
<1> HIDE DEF Less
<1>2. \E x \in S : \A y \in S : <<y, x>> \notin Less
  BY <1>1, WFMin
<1>3. ASSUME NEW x \in Nat, NEW y \in Nat, ~(x <= y) PROVE <<y, x>> \in Less
  BY <1>3 DEF Less
<1>4. \E x \in S : \A y \in S : x <= y
  BY <1>2, <1>3
<1>5. QED
  BY <1>4 DEF Min

LEMMA MaxIsGreatest ==
  ASSUME NEW n \in Nat, NEW S \in SUBSET (1..n), S # {}
  PROVE  Max(S) \in S /\ \A x \in S : x <= Max(S)
<1> DEFINE T == {k \in 0..n : n - k \in S}
<1>1. T \in SUBSET Nat /\ T # {}
  <2>1. PICK x \in S : TRUE
    OBVIOUS
  <2>2. n - x \in T
    <3>1. n - (n - x) = x /\ n - x \in 0..n
      OBVIOUS
    <3>2. QED
      BY <3>1, <2>1
  <2>3. \A k \in T : k \in Nat
    OBVIOUS
  <2> HIDE DEF T
  <2>4. QED
    BY <2>2, <2>3
<1>2. n - Min(T) \in S /\ \A x \in S : x <= n - Min(T)
  <2>1. Min(T) \in T /\ \A k \in T : Min(T) <= k
    BY <1>1, MinIsLeast
  <2>2. ASSUME NEW x \in S PROVE x <= n - Min(T)
    <3>1. n - (n - x) = x /\ n - x \in 0..n
      OBVIOUS
    <3>2. n - x \in T
      BY <3>1
    <3>3. Min(T) <= n - x /\ Min(T) \in 0..n
      BY <2>1, <3>2
    <3>4. QED
      BY <3>3
  <2>3. QED
    BY <2>1, <2>2
<1>3. \E m \in S : \A x \in S : m >= x
  <2>1. ASSUME NEW x \in S PROVE n - Min(T) >= x
    BY <1>2
  <2>2. QED
    BY <1>2, <2>1
<1>4. QED
  BY <1>3 DEF Max

-----------------------------------------------------------------------------
(* What a reply that shows a stop is parsed to.                            *)

\* What is cut from around prose is no notice.
LEMMA ExtractedIsNoNotice ==
  ASSUME NEW text \in Texts, Extracted(text) # {}
  PROVE  text[Min(Extracted(text))] # "notice"
<1>1. PICK n \in Nat : text \in [1..n -> Pieces]
  BY DEF Texts
<1>2. \A kinds : Bracketed(text, kinds) \in SUBSET (1..n)
  BY <1>1 DEF Bracketed
<1>3. ASSUME NEW kinds, Bracketed(text, kinds) # {}
      PROVE  /\ Min(Bracketed(text, kinds)) \in 1..n
             /\ text[Min(Bracketed(text, kinds))] \in kinds
             /\ Max(Bracketed(text, kinds)) \in 1..n
  <2>1. Bracketed(text, kinds) \in SUBSET Nat /\ Bracketed(text, kinds) \in SUBSET (1..n)
    BY <1>2
  <2>2. /\ Min(Bracketed(text, kinds)) \in Bracketed(text, kinds)
        /\ Max(Bracketed(text, kinds)) \in Bracketed(text, kinds)
    BY <2>1, <1>3, MinIsLeast, MaxIsGreatest
  <2>3. \A i \in Bracketed(text, kinds) : text[i] \in kinds
    BY DEF Bracketed
  <2>4. QED
    BY <2>1, <2>2, <2>3
<1>4. ASSUME NEW i PROVE Min({i}) = i
  BY DEF Min
<1>5. CASE Fence(text) # {}
  <2>1. Extracted(text) = {Min(Bracketed(text, {"fenced"}))} /\ Bracketed(text, {"fenced"}) # {}
    BY <1>5 DEF Extracted, Fence
  <2>2. Min(Extracted(text)) = Min(Bracketed(text, {"fenced"}))
    BY <2>1, <1>4
  <2>3. text[Min(Bracketed(text, {"fenced"}))] \in {"fenced"}
    BY <2>1, <1>3
  <2>4. QED
    BY <2>2, <2>3
<1>6. CASE Fence(text) = {}
  <2>1. Spans(text) # {} /\ Extracted(text) = {Min(Spans(text))}
    BY <1>6 DEF Extracted
  <2>2. ASSUME NEW at \in Spans(text) PROVE at \in 1..n /\ text[at] # "notice"
    <3>1. PICK kinds \in {BraceKinds, {"array"}} :
            /\ Bracketed(text, kinds) # {}
            /\ Cardinality(Span(text, kinds)) = 1
            /\ at = Min(Span(text, kinds))
      BY DEF Spans
    <3> DEFINE a == Min(Bracketed(text, kinds))
               b == Max(Bracketed(text, kinds))
    <3>2. a \in 1..n /\ b \in 1..n /\ text[a] \in kinds
      BY <1>3, <3>1
    <3>3. Span(text, kinds) = a..b
      BY DEF Span
    <3> HIDE DEF a, b
    <3>4. Cardinality(a..b) = 1 /\ Cardinality(a..b) = IF a > b THEN 0 ELSE b - a + 1
      BY <3>1, <3>2, <3>3, FS_Interval
    <3>5. a..b = {a}
      BY <3>2, <3>4
    <3>6. at = a
      BY <1>4, <3>1, <3>3, <3>5
    <3>7. "notice" \notin kinds
      BY DEF BraceKinds
    <3>8. QED
      BY <3>2, <3>6, <3>7
  <2>3. Spans(text) \in SUBSET Nat
    BY <2>2
  <2>4. Min(Spans(text)) \in Spans(text)
    BY <2>1, <2>3, MinIsLeast
  <2>5. QED
    BY <2>1, <2>2, <2>4, <1>4
<1>7. QED
  BY <1>5, <1>6

LEMMA NoticeStops ==
  ASSUME NEW text \in Texts, ~IsWhole(text), HasNotice(text)
  PROVE  text # <<>> /\ FromText(text) = Failure("stopped")
<1>1. text # <<>>
  BY DEF HasNotice
<1>2. CASE Extracted(text) = {}
  BY <1>1, <1>2 DEF FromText
<1>3. CASE Extracted(text) # {}
  <2>1. text[Min(Extracted(text))] # "notice"
    BY <1>3, ExtractedIsNoNotice
  <2>2. \E i \in (DOMAIN text) \ {Min(Extracted(text))} : text[i] = "notice"
    BY <2>1 DEF HasNotice
  <2>3. QED
    BY <1>1, <1>3, <2>2 DEF FromText
<1>4. QED
  BY <1>2, <1>3

LEMMA ShownStopIsAStop ==
  ASSUME NEW r \in Replies, ShowsStop(r)
  PROVE  Outcome(r) = [kind |-> "stopped", value |-> "none", stop |-> TRUE, model |-> {}]
<1>1. r.run = "success" /\ Parse(r) = FromEnvelope(r)
  BY DEF ShowsStop, Parse
<1>2. r.text \in Texts \cup {Missing}
  BY <1>1 DEF Replies
<1>3. FromEnvelope(r) = Failure("stopped")
  <2>1. CASE Cardinality(r.models) > 1
    BY <2>1 DEF FromEnvelope
  <2>2. CASE ~(Cardinality(r.models) > 1)
    <3>1. r.structured = "none" /\ r.text \in Texts /\ ~IsWhole(r.text) /\ HasNotice(r.text)
          /\ r.text # Missing
      BY <1>2, <2>2 DEF ShowsStop
    <3>2. r.text # <<>> /\ FromText(r.text) = Failure("stopped")
      BY <3>1, NoticeStops
    <3>3. QED
      BY <2>2, <3>1, <3>2 DEF FromEnvelope
  <2>3. QED
    BY <2>1, <2>2
<1>4. QED
  BY <1>1, <1>3 DEF Outcome, Failure

LEMMA OutcomeShapes ==
  ASSUME NEW o \in Outcomes
  PROVE  /\ o.stop => o.kind = "stopped" /\ o.value = "none" /\ o.model = {}
         /\ o.kind # "budget"
<1>1. PICK r \in Replies : o = Outcome(r)
  BY DEF Outcomes
<1>2. o.stop = ShowsStop(r) /\ o.kind = Parse(r).kind
  BY <1>1 DEF Outcome
<1>3. ASSUME o.stop PROVE o.kind = "stopped" /\ o.value = "none" /\ o.model = {}
  <2>1. ShowsStop(r)
    BY <1>2, <1>3
  <2>2. o = [kind |-> "stopped", value |-> "none", stop |-> TRUE, model |-> {}]
    BY <1>1, <2>1, ShownStopIsAStop
  <2>3. QED
    BY <2>2
<1>4. o.kind # "budget"
  <2>1. ASSUME NEW text PROVE FromText(text).kind # "budget"
    BY DEF FromText, Ok, Failure
  <2>2. ASSUME r.run = "success" PROVE FromEnvelope(r).kind # "budget"
    <3>1. r.structured \in {"none", "answer", "leaked"}
      BY <2>2 DEF Replies
    <3>2. QED
      BY <2>1, <3>1 DEF FromEnvelope, Ok, Failure
  <2>3. CASE r.run = "success"
    BY <1>2, <2>2, <2>3 DEF Parse
  <2>4. CASE r.run # "success"
    BY <1>2, <2>4 DEF Parse, Failure
  <2>5. QED
    BY <2>3, <2>4
<1>5. QED
  BY <1>3, <1>4

\* A reply that shows a classifier stop ends the pass under that name, without
\* a retry, whatever pieces the text has and wherever the notice stands.
THEOREM StopsEndThePass == Spec => StopsAreTerminal
<1> DEFINE Stops == (calls' # calls /\ last'.stop) =>
                      stage' = "failed" /\ reason' = "stopped" /\ model' = model
<1>1. Next => Stops
  <2> SUFFICES ASSUME Next, calls' # calls, last'.stop
               PROVE  stage' = "failed" /\ reason' = "stopped" /\ model' = model
    OBVIOUS
  <2>1. NoAnswer \/ Narrate \/ Compose
    BY DEF Next, Step, Rest, vars, writingVars, ReadFails, Seed, SeedsAreFiltered, Traverse,
           SnapshotIsTaken, Cluster, ClustersAreKept, OutOfBudget, Verify, VerifyPanics
  <2>2. CASE NoAnswer
    <3>1. PICK o \in Outcomes :
            /\ Call(o)
            /\ IF o.kind = "ok" THEN o.value # "answer" /\ TryAgain("refused") ELSE CallFails(o)
      BY <2>2 DEF NoAnswer
    <3>2. o.kind = "stopped" /\ o.model = {}
      BY <3>1, OutcomeShapes DEF Call
    <3>3. QED
      BY <3>1, <3>2 DEF Call, CallFails, Ended
  <2>3. ASSUME NEW o \in Answers, Call(o) PROVE FALSE
    BY <2>3, OutcomeShapes DEF Call, Answers
  <2>4. QED
    BY <2>1, <2>2, <2>3 DEF Narrate, Compose
<1>2. Next \/ UNCHANGED vars => Stops
  BY <1>1 DEF vars, writingVars
<1>3. QED
  BY <1>2, PTL DEF Spec, StopsAreTerminal

-----------------------------------------------------------------------------
(* Conflicts: what the greedy pass leaves of them.                         *)

LEMMA ClaimsAreFinite == IsFiniteSet(Claims) /\ Claims \in SUBSET Nat /\ IsFiniteSet(Pairs)
<1>1. IsFiniteSet(Claims) /\ Claims \in SUBSET Nat
  BY SeedingAssumption, FS_Interval DEF Claims
<1>2. IsFiniteSet(Claims \X Claims) /\ Pairs \in SUBSET (Claims \X Claims)
  BY <1>1, FS_Product DEF Pairs
<1>3. QED
  BY <1>1, <1>2, FS_Subset

\* The conflicts of a set with one claim more are its own and the claim's.
LEMMA OneClaimMore ==
  ASSUME foes \in SUBSET Pairs, NEW T \in SUBSET Claims, NEW n \in Claims \ T
  PROVE  /\ ConflictsWithin(T) \in Nat /\ ConflictsWith(n, T) \in Nat
         /\ ConflictsWithin(T \cup {n}) = ConflictsWithin(T) + ConflictsWith(n, T)
<1> DEFINE A == {p \in foes : p[1] \in T /\ p[2] \in T}
           B == {p \in foes : (p[1] = n /\ p[2] \in T) \/ (p[2] = n /\ p[1] \in T)}
           C == {p \in foes : p[1] \in T \cup {n} /\ p[2] \in T \cup {n}}
<1>1. IsFiniteSet(foes)
  BY ClaimsAreFinite, FS_Subset
<1>2. IsFiniteSet(A) /\ IsFiniteSet(B) /\ A \cap B = {}
  <2>1. A \in SUBSET foes /\ B \in SUBSET foes
    OBVIOUS
  <2>2. QED
    BY <1>1, <2>1, FS_Subset
<1>3. C = A \cup B
  <2>1. \A p \in foes : p[1] # p[2]
    BY DEF Pairs
  <2>2. QED
    BY <2>1
<1> HIDE DEF A, B, C
<1>4. Cardinality(A) \in Nat /\ Cardinality(B) \in Nat
  BY <1>2, FS_CardinalityType
<1>5. Cardinality(C) = Cardinality(A) + Cardinality(B) - Cardinality(A \cap B)
  BY <1>2, <1>3, FS_Union
<1>6. Cardinality(A \cap B) = 0
  BY <1>2, FS_EmptySet
<1>7. Cardinality(C) = Cardinality(A) + Cardinality(B)
  BY <1>4, <1>5, <1>6
<1>8. QED
  BY <1>4, <1>7 DEF A, B, C, ConflictsWithin, ConflictsWith

\* A claim's conflicts with two sides are its conflicts with each.
LEMMA TwoSides ==
  ASSUME foes \in SUBSET Pairs, NEW T \in SUBSET Claims, NEW U \in SUBSET Claims,
         T \cap U = {}, NEW n \in Claims \ (T \cup U)
  PROVE  /\ ConflictsWith(n, T) \in Nat /\ ConflictsWith(n, U) \in Nat
         /\ ConflictsWith(n, T \cup U) = ConflictsWith(n, T) + ConflictsWith(n, U)
<1> DEFINE A == {p \in foes : (p[1] = n /\ p[2] \in T) \/ (p[2] = n /\ p[1] \in T)}
           B == {p \in foes : (p[1] = n /\ p[2] \in U) \/ (p[2] = n /\ p[1] \in U)}
           C == {p \in foes : (p[1] = n /\ p[2] \in T \cup U) \/ (p[2] = n /\ p[1] \in T \cup U)}
<1>1. IsFiniteSet(foes)
  BY ClaimsAreFinite, FS_Subset
<1>2. IsFiniteSet(A) /\ IsFiniteSet(B) /\ A \cap B = {}
  <2>1. A \in SUBSET foes /\ B \in SUBSET foes
    OBVIOUS
  <2>2. QED
    BY <1>1, <2>1, FS_Subset
<1>3. C = A \cup B
  OBVIOUS
<1> HIDE DEF A, B, C
<1>4. Cardinality(A) \in Nat /\ Cardinality(B) \in Nat
  BY <1>2, FS_CardinalityType
<1>5. Cardinality(C) = Cardinality(A) + Cardinality(B) - Cardinality(A \cap B)
  BY <1>2, <1>3, FS_Union
<1>6. Cardinality(A \cap B) = 0
  BY <1>2, FS_EmptySet
<1>7. Cardinality(C) = Cardinality(A) + Cardinality(B)
  BY <1>4, <1>5, <1>6
<1>8. QED
  BY <1>4, <1>7 DEF A, B, C, ConflictsWith

\* What the greedy pass computes: the side of each claim from the sides before.
Chosen(S, n, side) ==
  IF ConflictsWith(n, Before(S, n, side, 0)) <= ConflictsWith(n, Before(S, n, side, 1))
  THEN 0 ELSE 1
IsSiding(S, side) == side = [n \in S |-> Chosen(S, n, side)]
First(S, k) == {n \in S : n <= k}

LEMMA FirstClaims ==
  ASSUME NEW S \in SUBSET Claims
  PROVE  /\ S \in SUBSET Nat /\ First(S, 0) = {} /\ NumClaims \in Nat /\ First(S, NumClaims) = S
         /\ \A k \in Nat : k # 0 =>
              /\ k \notin First(S, k - 1)
              /\ First(S, k) = IF k \in S THEN First(S, k - 1) \cup {k} ELSE First(S, k - 1)
<1>1. S \in SUBSET Nat /\ NumClaims \in Nat /\ \A n \in S : n # 0 /\ n <= NumClaims
  BY SeedingAssumption DEF Claims
<1>2. (\A n \in S : ~(n <= 0)) /\ \A n \in S : n <= NumClaims
  BY <1>1
<1>3. First(S, 0) = {} /\ First(S, NumClaims) = S
  BY <1>2 DEF First
<1>4. ASSUME NEW k \in Nat, k # 0
      PROVE  /\ k \notin First(S, k - 1)
             /\ First(S, k) = IF k \in S THEN First(S, k - 1) \cup {k} ELSE First(S, k - 1)
  <2>1. \A n \in S : n <= k <=> (n <= k - 1 \/ n = k)
    BY <1>1, <1>4
  <2>2. ~(k <= k - 1)
    BY <1>4
  <2>3. QED
    BY <2>1, <2>2 DEF First
<1>5. QED
  BY <1>1, <1>3, <1>4

\* Sides chosen up to a claim extend to the next claim.
LEMMA OneSideMore ==
  ASSUME NEW S \in SUBSET Claims, NEW k \in Nat, k # 0, NEW f, IsSiding(First(S, k - 1), f)
  PROVE  \E g : IsSiding(First(S, k), g)
<1> DEFINE T == First(S, k - 1)
           U == First(S, k)
<1>0. S \in SUBSET Nat
  BY ClaimsAreFinite
<1>1. CASE k \notin S
  <2>1. T = U
    BY <1>1, FirstClaims
  <2>2. QED
    BY <2>1
<1>2. CASE k \in S
  <2> DEFINE g == [n \in U |-> IF n = k THEN Chosen(U, k, f) ELSE f[n]]
  <2>1. /\ k \in U /\ T = U \ {k} /\ U \in SUBSET Nat
        /\ \A n \in U : n <= k
    <3>1. U = T \cup {k} /\ k \notin T
      BY <1>2, FirstClaims
    <3>2. \A n \in U : n <= k /\ n \in Nat
      BY <1>0 DEF First
    <3>3. QED
      BY <3>1, <3>2
  <2>2. f = [n \in T |-> Chosen(T, n, f)]
    BY DEF IsSiding
  <2> HIDE DEF T, U
  <2>3. \A m \in U \ {k} : g[m] = f[m]
    OBVIOUS
  <2>4. g[k] = Chosen(U, k, f) /\ DOMAIN g = U
    BY <2>1
  <2> HIDE DEF g
  <2>5. \A s : Before(U, k, g, s) = Before(U, k, f, s)
    <3>1. \A m \in U : m < k => g[m] = f[m]
      BY <2>1, <2>3
    <3>2. QED
      BY <3>1 DEF Before
  <2>6. ASSUME NEW n \in T, NEW s PROVE Before(U, n, g, s) = Before(T, n, f, s)
    <3>1. \A m \in U : m < n => m \in T /\ g[m] = f[m]
      BY <2>1, <2>3
    <3>2. T \in SUBSET U
      BY <2>1
    <3>3. QED
      BY <3>1, <3>2 DEF Before
  <2>7. Chosen(U, k, g) = Chosen(U, k, f)
    BY <2>5 DEF Chosen
  <2>8. \A n \in T : Chosen(U, n, g) = Chosen(T, n, f)
    BY <2>6 DEF Chosen
  <2>9. \A n \in U : g[n] = Chosen(U, n, g)
    <3>1. ASSUME NEW n \in T PROVE g[n] = Chosen(U, n, g)
      <4>1. f[n] = Chosen(T, n, f)
        BY <2>2
      <4>2. QED
        BY <2>1, <2>3, <2>8, <4>1
    <3>2. QED
      BY <2>1, <2>4, <2>7, <3>1
  <2>10. g = [n \in U |-> IF n = k THEN Chosen(U, k, f) ELSE f[n]]
    BY DEF g
  <2>11. g = [n \in U |-> Chosen(U, n, g)]
    BY <2>9, <2>10
  <2>12. QED
    BY <2>11 DEF IsSiding, U
<1>3. QED
  BY <1>1, <1>2

LEMMA SidesExist ==
  ASSUME NEW S \in SUBSET Claims
  PROVE  \E side : IsSiding(S, side)
<1> DEFINE D == {k \in Nat : ~ \E f : IsSiding(First(S, k), f)}
<1>1. D = {}
  <2>1. SUFFICES ASSUME D # {} PROVE FALSE
    OBVIOUS
  <2>2. Min(D) \in D /\ \A k \in D : Min(D) <= k
    BY <2>1, MinIsLeast
  <2>3. PICK k \in D : \A j \in D : k <= j
    BY <2>2
  <2>4. k # 0
    <3>1. First(S, 0) = {}
      BY FirstClaims
    <3>2. IsSiding({}, [n \in {} |-> 0])
      BY DEF IsSiding
    <3>3. 0 \notin D
      BY <3>1, <3>2
    <3>4. QED
      BY <3>3, <2>3
  <2>5. k - 1 \in Nat /\ k - 1 \notin D
    BY <2>3, <2>4
  <2>6. PICK f : IsSiding(First(S, k - 1), f)
    BY <2>5
  <2>7. QED
    BY <2>3, <2>4, <2>6, OneSideMore
<1>2. First(S, NumClaims) = S /\ NumClaims \in Nat
  BY FirstClaims
<1>3. QED
  BY <1>1, <1>2

\* Bipartition is the sides of such a choice.
LEMMA BipartitionIsSiding ==
  ASSUME NEW S \in SUBSET Claims
  PROVE  \E side : /\ IsSiding(S, side)
                   /\ Bipartition(S)[1] = {n \in S : side[n] = 0}
                   /\ Bipartition(S)[2] = {n \in S : side[n] = 1}
<1> DEFINE side == CHOOSE side : side = [n \in S |-> Chosen(S, n, side)]
<1>1. IsSiding(S, side)
  BY SidesExist DEF IsSiding
<1>2. Bipartition(S) = <<{n \in S : side[n] = 0}, {n \in S : side[n] = 1}>>
  BY DEF Bipartition, Chosen
<1> HIDE DEF side
<1>3. QED
  BY <1>1, <1>2

LEMMA GreedyHalves ==
  ASSUME foes \in SUBSET Pairs, NEW S \in SUBSET Claims, NEW side, IsSiding(S, side)
  PROVE  2 * (ConflictsWithin({n \in S : side[n] = 0}) + ConflictsWithin({n \in S : side[n] = 1}))
           <= ConflictsWithin(S)
<1> DEFINE On(s, k) == {n \in First(S, k) : side[n] = s}
           Halved(k) == 2 * (ConflictsWithin(On(0, k)) + ConflictsWithin(On(1, k)))
                          <= ConflictsWithin(First(S, k))
           D == {k \in Nat : ~Halved(k)}
<1>0. S \in SUBSET Nat
  BY ClaimsAreFinite
<1>1. D = {}
  <2>1. SUFFICES ASSUME D # {} PROVE FALSE
    OBVIOUS
  <2>2. Min(D) \in D /\ \A k \in D : Min(D) <= k
    BY <2>1, MinIsLeast
  <2>3. PICK k \in D : \A j \in D : k <= j
    BY <2>2
  <2>4. k # 0
    <3>1. First(S, 0) = {} /\ On(0, 0) = {} /\ On(1, 0) = {}
      BY FirstClaims
    <3>2. ConflictsWithin({}) = 0
      <4>1. {p \in foes : p[1] \in {} /\ p[2] \in {}} = {}
        OBVIOUS
      <4>2. QED
        BY <4>1, FS_EmptySet DEF ConflictsWithin
    <3>3. 0 \notin D
      BY <3>1, <3>2
    <3>4. QED
      BY <3>3, <2>3
  <2>5. Halved(k - 1) /\ ~Halved(k) /\ k - 1 \in Nat
    BY <2>3, <2>4
  <2>6. k \in S
    <3>1. SUFFICES ASSUME k \notin S PROVE FALSE
      OBVIOUS
    <3>2. First(S, k) = First(S, k - 1)
      BY <2>3, <2>4, <3>1, FirstClaims
    <3>3. QED
      BY <2>5, <3>2
  <2> DEFINE T == First(S, k - 1)
             A == On(0, k - 1)
             B == On(1, k - 1)
  <2>7. /\ First(S, k) = T \cup {k} /\ k \notin T /\ k \in Claims
    BY <2>3, <2>4, <2>6, FirstClaims
  <2>8. side[k] = Chosen(S, k, side)
    BY <2>6 DEF IsSiding
  <2>9. \A n \in S : side[n] \in {0, 1}
    BY DEF IsSiding, Chosen
  <2>10. T \in SUBSET Claims /\ A \in SUBSET Claims /\ B \in SUBSET Claims
         /\ A \cup B = T /\ A \cap B = {}
    BY <2>9 DEF First
  <2>11. Before(S, k, side, 0) = A /\ Before(S, k, side, 1) = B
    <3>1. \A n \in S : n < k <=> n <= k - 1
      BY <1>0, <2>3
    <3>2. QED
      BY <3>1 DEF Before, First
  <2>12. /\ ConflictsWithin(T) \in Nat /\ ConflictsWithin(A) \in Nat /\ ConflictsWithin(B) \in Nat
         /\ ConflictsWith(k, A) \in Nat /\ ConflictsWith(k, B) \in Nat
         /\ ConflictsWithin(T \cup {k}) = ConflictsWithin(T) + (ConflictsWith(k, A) + ConflictsWith(k, B))
         /\ ConflictsWithin(A \cup {k}) = ConflictsWithin(A) + ConflictsWith(k, A)
         /\ ConflictsWithin(B \cup {k}) = ConflictsWithin(B) + ConflictsWith(k, B)
    <3> HIDE DEF T, A, B
    <3>1. k \in Claims \ T /\ k \in Claims \ A /\ k \in Claims \ B /\ k \in Claims \ (A \cup B)
      BY <2>7, <2>10
    <3>2. ConflictsWith(k, T) = ConflictsWith(k, A) + ConflictsWith(k, B)
      BY <2>10, <3>1, TwoSides
    <3>3. QED
      BY <2>10, <3>1, <3>2, OneClaimMore
  <2>13. 2 * (ConflictsWithin(A) + ConflictsWithin(B)) <= ConflictsWithin(T)
    BY <2>5
  <2> DEFINE U == First(S, k)
  <2>14. CASE side[k] = 0
    <3>1. On(0, k) = A \cup {k} /\ On(1, k) = B
      <4>1. U = T \cup {k} /\ On(0, k) = {n \in U : side[n] = 0} /\ On(1, k) = {n \in U : side[n] = 1}
        BY <2>7
      <4>2. A = {n \in T : side[n] = 0} /\ B = {n \in T : side[n] = 1}
        OBVIOUS
      <4> HIDE DEF A, B, T, U, On
      <4>3. QED
        BY <2>14, <4>1, <4>2
    <3>2. ConflictsWith(k, A) <= ConflictsWith(k, B)
      <4>1. Chosen(S, k, side) = 0
        BY <2>8, <2>14
      <4> HIDE DEF A, B
      <4>2. QED
        BY <2>11, <4>1 DEF Chosen
    <3>3. ~(2 * (ConflictsWithin(A \cup {k}) + ConflictsWithin(B)) <= ConflictsWithin(T \cup {k}))
      BY <2>5, <2>7, <3>1
    <3> HIDE DEF A, B, T
    <3>4. QED
      BY <2>12, <2>13, <3>2, <3>3
  <2>15. CASE side[k] = 1
    <3>1. On(0, k) = A /\ On(1, k) = B \cup {k}
      <4>1. U = T \cup {k} /\ On(0, k) = {n \in U : side[n] = 0} /\ On(1, k) = {n \in U : side[n] = 1}
        BY <2>7
      <4>2. A = {n \in T : side[n] = 0} /\ B = {n \in T : side[n] = 1}
        OBVIOUS
      <4> HIDE DEF A, B, T, U, On
      <4>3. QED
        BY <2>15, <4>1, <4>2
    <3>2. ConflictsWith(k, B) <= ConflictsWith(k, A)
      <4>1. Chosen(S, k, side) # 0
        BY <2>8, <2>15
      <4> HIDE DEF A, B
      <4>2. QED
        BY <2>11, <2>12, <4>1 DEF Chosen
    <3>3. ~(2 * (ConflictsWithin(A) + ConflictsWithin(B \cup {k})) <= ConflictsWithin(T \cup {k}))
      BY <2>5, <2>7, <3>1
    <3> HIDE DEF A, B, T
    <3>4. QED
      BY <2>12, <2>13, <3>2, <3>3
  <2>16. QED
    BY <2>6, <2>9, <2>14, <2>15
<1>2. First(S, NumClaims) = S /\ NumClaims \in Nat
  BY FirstClaims
<1>3. Halved(NumClaims)
  BY <1>1, <1>2
<1>4. QED
  BY <1>2, <1>3

-----------------------------------------------------------------------------
(* Clusters: what makes, splits, merges and orders them.                   *)

Partitions(P, V) ==
  /\ UNION P = V /\ {} \notin P
  /\ \A p, q \in P : p # q => p \cap q = {}

LEMMA PartsAreFinite ==
  ASSUME NEW P, NEW V \in SUBSET Claims, Partitions(P, V)
  PROVE  /\ IsFiniteSet(P)
         /\ \A p \in P : IsFiniteSet(p) /\ p \in SUBSET Nat /\ p # {} /\ p \in SUBSET Claims
<1>1. IsFiniteSet(Claims) /\ Claims \in SUBSET Nat
  BY SeedingAssumption, FS_Interval DEF Claims
<1>2. P \in SUBSET (SUBSET Claims)
  BY DEF Partitions
<1>3. IsFiniteSet(P)
  BY <1>1, <1>2, FS_SUBSET, FS_Subset
<1>4. ASSUME NEW p \in P PROVE IsFiniteSet(p) /\ p \in SUBSET Nat /\ p # {} /\ p \in SUBSET Claims
  <2>1. p # {}
    BY DEF Partitions
  <2>4. p \in SUBSET Claims
    BY <1>2
  <2>2. IsFiniteSet(p)
    BY <1>1, <2>4, FS_Subset
  <2>3. QED
    BY <1>1, <2>1, <2>2, <2>4
<1>5. QED
  BY <1>3, <1>4

\* The communities Louvain ends with.
LEMMA CommunitiesPartition ==
  ASSUME DOMAIN comm = visited
  PROVE  Partitions({Members(c) : c \in {comm[n] : n \in visited}}, visited)
BY DEF Partitions, Members

LEMMA SplitsPartition ==
  ASSUME NEW P, NEW V \in SUBSET Claims, Partitions(P, V)
  PROVE  Partitions(UNION {SplitCluster(S) : S \in P}, V)
<1>1. ASSUME NEW S \in P PROVE Partitions(SplitCluster(S), S)
  <2>1. S # {}
    BY DEF Partitions
  <2>2. CASE ~IsDense(S)
    BY <2>1, <2>2 DEF Partitions, SplitCluster
  <2>3. CASE IsDense(S)
    <3>1. /\ Bipartition(S)[1] \cup Bipartition(S)[2] = S
          /\ Bipartition(S)[1] \cap Bipartition(S)[2] = {}
      <4>1. S \in SUBSET Claims
        BY DEF Partitions
      <4>2. PICK side : /\ IsSiding(S, side)
                        /\ Bipartition(S)[1] = {n \in S : side[n] = 0}
                        /\ Bipartition(S)[2] = {n \in S : side[n] = 1}
        BY <4>1, BipartitionIsSiding
      <4>3. \A n \in S : side[n] = 0 \/ side[n] = 1
        BY <4>2 DEF IsSiding, Chosen
      <4>4. QED
        BY <4>2, <4>3
    <3>2. SplitCluster(S) = {Bipartition(S)[1], Bipartition(S)[2]} \ {{}}
      BY <2>3 DEF SplitCluster
    <3>3. QED
      BY <3>1, <3>2 DEF Partitions
  <2>4. QED
    BY <2>2, <2>3
<1>2. QED
  BY <1>1 DEF Partitions

LEMMA MergesPartition ==
  ASSUME NEW P, NEW V, Partitions(P, V), NEW c \in P, NEW d \in P \ {c}
  PROVE  Partitions((P \ {c, d}) \cup {c \cup d}, V)
<1> DEFINE Q == (P \ {c, d}) \cup {c \cup d}
<1>1. UNION Q = V
  <2>1. ASSUME NEW x \in V PROVE \E q \in Q : x \in q
    <3>1. PICK p \in P : x \in p
      BY DEF Partitions
    <3>2. CASE p \in {c, d}
      BY <3>1, <3>2
    <3>3. CASE p \notin {c, d}
      BY <3>1, <3>3
    <3>4. QED
      BY <3>2, <3>3
  <2>2. ASSUME NEW q \in Q, NEW x \in q PROVE x \in V
    <3>1. \A p \in P : p \subseteq V
      BY DEF Partitions
    <3>2. q \in P \/ q = c \cup d
      OBVIOUS
    <3>3. QED
      BY <2>2, <3>1, <3>2
  <2> HIDE DEF Q
  <2>3. QED
    BY <2>1, <2>2
<1>2. {} \notin Q
  BY DEF Partitions
<1>3. ASSUME NEW p \in Q, NEW q \in Q, p # q PROVE p \cap q = {}
  <2>1. ASSUME NEW r \in P \ {c, d} PROVE r \cap (c \cup d) = {}
    <3>1. r \cap c = {} /\ r \cap d = {}
      BY DEF Partitions
    <3>2. QED
      BY <3>1
  <2>2. CASE p \in P \ {c, d} /\ q \in P \ {c, d}
    BY <1>3, <2>2 DEF Partitions
  <2>3. CASE p \in P \ {c, d} /\ q = c \cup d
    BY <2>1, <2>3
  <2>4. CASE q \in P \ {c, d} /\ p = c \cup d
    BY <2>1, <2>4
  <2>5. QED
    BY <1>3, <2>2, <2>3, <2>4
<1> HIDE DEF Q
<1>4. Partitions(Q, V)
  BY <1>1, <1>2, <1>3 DEF Partitions
<1>5. QED
  BY <1>4 DEF Q

LEMMA DistinctFirsts ==
  ASSUME NEW P, NEW V \in SUBSET Claims, Partitions(P, V), NEW c \in P, NEW d \in P, c # d
  PROVE  Min(c) \in Nat /\ Min(d) \in Nat /\ Min(c) # Min(d)
<1>1. Min(c) \in c /\ Min(d) \in d /\ c \in SUBSET Nat /\ d \in SUBSET Nat
  BY PartsAreFinite, MinIsLeast
<1>2. c \cap d = {}
  BY DEF Partitions
<1>3. QED
  BY <1>1, <1>2

LEMMA SmallestIsOne ==
  ASSUME NEW P, NEW V \in SUBSET Claims, Partitions(P, V), NEW Q \in SUBSET P, Q # {}
  PROVE  Smallest(Q) \in Q
<1> DEFINE sizes == {Cardinality(q) : q \in Q}
           few   == {q \in Q : Cardinality(q) = Min(sizes)}
           firsts == {Min(q) : q \in few}
<1>1. \A q \in Q : Cardinality(q) \in Nat /\ Min(q) \in Nat
  <2>1. ASSUME NEW q \in Q PROVE Cardinality(q) \in Nat /\ Min(q) \in Nat
    <3>1. IsFiniteSet(q) /\ q \in SUBSET Nat /\ q # {}
      BY PartsAreFinite
    <3>2. QED
      BY <3>1, FS_CardinalityType, MinIsLeast
  <2>2. QED
    BY <2>1
<1>2. sizes \in SUBSET Nat /\ sizes # {}
  BY <1>1
<1>3. Min(sizes) \in sizes /\ \A n \in sizes : Min(sizes) <= n
  BY <1>2, MinIsLeast
<1>4. few # {} /\ few \in SUBSET Q
  BY <1>3
<1>5. firsts \in SUBSET Nat /\ firsts # {}
  BY <1>1, <1>4
<1>6. Min(firsts) \in firsts /\ \A n \in firsts : Min(firsts) <= n
  BY <1>5, MinIsLeast
<1>7. PICK c \in few : Min(c) = Min(firsts)
  BY <1>6
<1>8. ASSUME NEW d \in Q \ {c} PROVE IsBefore(c, d)
  <2>1. Cardinality(c) = Min(sizes) /\ Cardinality(c) \in Nat /\ Cardinality(d) \in Nat
    BY <1>1, <1>4
  <2>2. Cardinality(c) <= Cardinality(d)
    BY <1>3, <2>1
  <2>3. CASE Cardinality(c) = Cardinality(d)
    <3>1. Min(c) <= Min(d)
      BY <1>6, <1>7, <2>1, <2>3
    <3>2. Min(c) \in Nat /\ Min(d) \in Nat /\ Min(c) # Min(d)
      BY <1>4, DistinctFirsts
    <3>3. QED
      BY <2>3, <3>1, <3>2 DEF IsBefore
  <2>4. CASE Cardinality(c) # Cardinality(d)
    BY <2>1, <2>2, <2>4 DEF IsBefore
  <2>5. QED
    BY <2>3, <2>4
<1>9. \E x \in Q : \A d \in Q \ {x} : IsBefore(x, d)
  BY <1>4, <1>8
<1>10. QED
  BY <1>9 DEF Smallest

UpTo(P, c) == {d \in P : Min(d) <= Min(c)}

LEMMA UpToGrows ==
  ASSUME NEW P, NEW V \in SUBSET Claims, Partitions(P, V), NEW c \in P, NEW d \in P
  PROVE  /\ Cardinality(UpTo(P, c)) \in 1..Cardinality(P)
         /\ Min(c) < Min(d) => Cardinality(UpTo(P, c)) < Cardinality(UpTo(P, d))
<1>1. IsFiniteSet(P) /\ Min(c) \in Nat /\ Min(d) \in Nat /\ \A e \in P : Min(e) \in Nat
  BY PartsAreFinite, MinIsLeast
<1>2. ASSUME NEW e \in P
      PROVE  /\ IsFiniteSet(UpTo(P, e)) /\ Cardinality(UpTo(P, e)) \in Nat
             /\ Cardinality(UpTo(P, e)) <= Cardinality(P)
  <2>1. UpTo(P, e) \in SUBSET P
    BY DEF UpTo
  <2>2. QED
    BY <1>1, <2>1, FS_Subset, FS_CardinalityType
<1>3. Cardinality(UpTo(P, c)) # 0
  <2>1. c \in UpTo(P, c)
    BY <1>1 DEF UpTo
  <2>2. QED
    BY <1>2, <2>1, FS_EmptySet
<1>4. ASSUME Min(c) < Min(d) PROVE Cardinality(UpTo(P, c)) < Cardinality(UpTo(P, d))
  <2>1. UpTo(P, c) \in SUBSET UpTo(P, d)
    BY <1>1, <1>4 DEF UpTo
  <2>2. d \in UpTo(P, d) /\ d \notin UpTo(P, c)
    BY <1>1, <1>4 DEF UpTo
  <2>3. /\ Cardinality(UpTo(P, c)) <= Cardinality(UpTo(P, d))
        /\ Cardinality(UpTo(P, c)) # Cardinality(UpTo(P, d))
    BY <1>2, <2>1, <2>2, FS_Subset
  <2>4. QED
    BY <1>2, <2>3
<1>5. Cardinality(P) \in Nat
  BY <1>1, FS_CardinalityType
<1>6. QED
  BY <1>2, <1>3, <1>4, <1>5

LEMMA ByFirstOrders ==
  ASSUME NEW P, NEW V \in SUBSET Claims, Partitions(P, V)
  PROVE  /\ ByFirst(P) \in Seq(SUBSET Claims) /\ Len(ByFirst(P)) = Cardinality(P)
         /\ UNION ToSet(ByFirst(P)) = V
         /\ \A i \in DOMAIN ByFirst(P) : ByFirst(P)[i] # {}
         /\ \A i, j \in DOMAIN ByFirst(P) : i < j =>
              /\ ByFirst(P)[i] \cap ByFirst(P)[j] = {}
              /\ Min(ByFirst(P)[i]) < Min(ByFirst(P)[j])
<1> DEFINE n == Cardinality(P)
           rank == [c \in P |-> Cardinality(UpTo(P, c))]
           B == ByFirst(P)
<1>1. IsFiniteSet(P) /\ n \in Nat
  BY PartsAreFinite, FS_CardinalityType
<1>2. rank \in [P -> 1..n]
  BY UpToGrows
<1>3. ASSUME NEW c \in P, NEW d \in P, c # d PROVE rank[c] # rank[d]
  <2>1. Min(c) \in Nat /\ Min(d) \in Nat /\ Min(c) # Min(d)
    BY <1>3, DistinctFirsts
  <2>2. rank[c] < rank[d] \/ rank[d] < rank[c]
    <3>1. CASE Min(c) < Min(d)
      BY <3>1, UpToGrows
    <3>2. CASE Min(d) < Min(c)
      BY <3>2, UpToGrows
    <3>3. QED
      BY <2>1, <3>1, <3>2
  <2>3. rank[c] \in Nat /\ rank[d] \in Nat
    BY <1>1, <1>2
  <2> HIDE DEF rank
  <2>4. QED
    BY <2>2, <2>3
<1>4. \A i \in 1..n : \E c \in P : rank[c] = i
  <2>1. IsFiniteSet(1..n) /\ Cardinality(1..n) = n
    BY <1>1, FS_Interval
  <2>2. rank \in Injection(P, 1..n)
    BY <1>2, <1>3 DEF Injection, IsInjective
  <2>3. rank \in Surjection(P, 1..n)
    <3> HIDE DEF rank
    <3>1. QED
      BY <2>1, <2>2, FS_Injection
  <2>4. QED
    BY <2>3 DEF Surjection
<1>5. B = [i \in 1..n |-> CHOOSE c \in P : Cardinality(UpTo(P, c)) = i]
  BY DEF ByFirst, UpTo
<1> HIDE DEF B, n
<1>6. \A i \in 1..n : B[i] \in P /\ rank[B[i]] = i
  <2>1. ASSUME NEW i \in 1..n PROVE B[i] \in P /\ Cardinality(UpTo(P, B[i])) = i
    <3>1. \E c \in P : Cardinality(UpTo(P, c)) = i
      BY <1>4
    <3>2. B[i] = CHOOSE c \in P : Cardinality(UpTo(P, c)) = i
      BY <1>5
    <3>3. QED
      BY <3>1, <3>2
  <2>2. QED
    BY <2>1
<1> HIDE DEF rank
<1>7. P \in SUBSET (SUBSET Claims) /\ UNION P = V /\ {} \notin P
  BY DEF Partitions
<1>8. B \in Seq(SUBSET Claims) /\ Len(B) = n /\ DOMAIN B = 1..n
  BY <1>1, <1>5, <1>6, <1>7
<1>9. ToSet(B) = P
  <2>1. ASSUME NEW c \in P PROVE \E i \in 1..n : c = B[i]
    <3>1. rank[c] \in 1..n
      BY <1>2
    <3>2. B[rank[c]] \in P /\ rank[B[rank[c]]] = rank[c]
      BY <1>6, <3>1
    <3>3. QED
      BY <1>3, <3>1, <3>2
  <2>2. QED
    BY <1>6, <1>8, <2>1 DEF ToSet
<1>10. ASSUME NEW i \in 1..n, NEW j \in 1..n, i < j
       PROVE  B[i] \cap B[j] = {} /\ Min(B[i]) < Min(B[j])
  <2>1. B[i] \in P /\ B[j] \in P /\ B[i] # B[j]
    BY <1>6, <1>10
  <2>2. Min(B[i]) \in Nat /\ Min(B[j]) \in Nat /\ Min(B[i]) # Min(B[j])
    BY <2>1, DistinctFirsts
  <2>3. ~(Min(B[j]) < Min(B[i]))
    <3>1. SUFFICES ASSUME Min(B[j]) < Min(B[i]) PROVE FALSE
      OBVIOUS
    <3>2. rank[B[j]] < rank[B[i]]
      BY <2>1, <3>1, UpToGrows DEF rank
    <3>3. QED
      BY <1>6, <1>10, <3>2
  <2>4. B[i] \cap B[j] = {}
    BY <2>1 DEF Partitions
  <2>5. QED
    BY <2>2, <2>3, <2>4
<1>11. /\ B \in Seq(SUBSET Claims) /\ Len(B) = n /\ UNION ToSet(B) = V
       /\ \A i \in DOMAIN B : B[i] # {}
       /\ \A i, j \in DOMAIN B : i < j => B[i] \cap B[j] = {} /\ Min(B[i]) < Min(B[j])
  BY <1>6, <1>7, <1>8, <1>9, <1>10
<1>12. QED
  BY <1>11 DEF B, n

-----------------------------------------------------------------------------
(* The traversal: what is within reach, and in which order it is met.      *)

\* The equation of Within's function.
IsReach(w, S, h, r) == r = [k \in 0..h |-> IF k = 0 THEN S ELSE r[k - 1] \cup Behind(w, r[k - 1])]

LEMMA ReachExtends ==
  ASSUME NEW w, NEW S, NEW h \in Nat, NEW r, IsReach(w, S, h, r)
  PROVE  \E q : IsReach(w, S, h + 1, q)
<1> DEFINE q == [k \in 0..(h + 1) |-> IF k = h + 1 THEN r[h] \cup Behind(w, r[h]) ELSE r[k]]
<1>1. /\ \A k \in 0..h : k \in 0..(h + 1) /\ k # h + 1
      /\ \A k \in 0..(h + 1) : k # h + 1 => k \in 0..h
      /\ \A k \in 0..(h + 1) : k # 0 => k - 1 \in 0..h
      /\ h + 1 \in 0..(h + 1) /\ h + 1 # 0 /\ h \in 0..h /\ (h + 1) - 1 = h
  OBVIOUS
<1>2. q = [k \in 0..(h + 1) |-> IF k = h + 1 THEN r[h] \cup Behind(w, r[h]) ELSE r[k]]
  OBVIOUS
<1> HIDE DEF q
<1>3. \A k \in 0..h : q[k] = r[k]
  BY <1>1, <1>2
<1>4. \A k \in 0..h : r[k] = IF k = 0 THEN S ELSE r[k - 1] \cup Behind(w, r[k - 1])
  BY DEF IsReach
<1>5. ASSUME NEW k \in 0..(h + 1)
      PROVE  q[k] = IF k = 0 THEN S ELSE q[k - 1] \cup Behind(w, q[k - 1])
  <2>1. CASE k = h + 1
    BY <1>1, <1>2, <1>3, <2>1
  <2>2. CASE k # h + 1
    <3>1. k \in 0..h
      BY <1>1, <2>2
    <3>2. q[k] = IF k = 0 THEN S ELSE r[k - 1] \cup Behind(w, r[k - 1])
      BY <1>3, <1>4, <3>1
    <3>3. CASE k = 0
      BY <3>2, <3>3
    <3>4. CASE k # 0
      BY <1>1, <1>3, <3>2, <3>4
    <3>5. QED
      BY <3>3, <3>4
  <2>3. QED
    BY <2>1, <2>2
<1>6. IsReach(w, S, h + 1, q)
  BY <1>2, <1>5 DEF IsReach
<1>7. QED
  BY <1>6

LEMMA ReachExists ==
  ASSUME NEW w, NEW S, NEW h \in Nat
  PROVE  \E r : IsReach(w, S, h, r)
<1> DEFINE D == {k \in Nat : ~ \E r : IsReach(w, S, k, r)}
<1>1. SUFFICES ASSUME D # {} PROVE FALSE
  OBVIOUS
<1>2. Min(D) \in D /\ \A k \in D : Min(D) <= k
  BY <1>1, MinIsLeast
<1>3. PICK k \in D : \A j \in D : k <= j
  BY <1>2
<1>4. k # 0
  <2>1. IsReach(w, S, 0, [k_1 \in 0..0 |-> S])
    BY DEF IsReach
  <2>2. QED
    BY <1>3, <2>1
<1>5. k - 1 \in Nat /\ k - 1 \notin D /\ (k - 1) + 1 = k
  BY <1>3, <1>4
<1>6. PICK r : IsReach(w, S, k - 1, r)
  BY <1>5
<1>7. QED
  BY <1>5, <1>6, ReachExtends

LEMMA ReachIsUnique ==
  ASSUME NEW w, NEW S, NEW h \in Nat, NEW j \in 0..h, NEW r, NEW q, IsReach(w, S, h, r), IsReach(w, S, j, q)
  PROVE  q[j] = r[j]
<1> DEFINE D == {k \in 0..j : q[k] # r[k]}
<1>1. SUFFICES ASSUME D # {} PROVE FALSE
  OBVIOUS
<1>2. Min(D) \in D /\ \A k \in D : Min(D) <= k
  BY <1>1, MinIsLeast
<1>3. PICK k \in D : \A i \in D : k <= i
  BY <1>2
<1>4. k \in 0..j /\ k \in 0..h
  OBVIOUS
<1>5. /\ q[k] = IF k = 0 THEN S ELSE q[k - 1] \cup Behind(w, q[k - 1])
      /\ r[k] = IF k = 0 THEN S ELSE r[k - 1] \cup Behind(w, r[k - 1])
  BY <1>4 DEF IsReach
<1>6. k # 0
  BY <1>3, <1>5
<1>7. k - 1 \in 0..j /\ k - 1 \notin D
  BY <1>3, <1>4, <1>6
<1>8. QED
  BY <1>3, <1>5, <1>6, <1>7

\* Within, one step after the other.
LEMMA WithinSteps ==
  ASSUME NEW w, NEW S
  PROVE  /\ Within(w, S, 0) = S
         /\ \A k \in Nat : Within(w, S, k + 1) = Within(w, S, k) \cup Behind(w, Within(w, S, k))
<1>1. ASSUME NEW h \in Nat PROVE \E r : IsReach(w, S, h, r) /\ r[h] = Within(w, S, h)
  <2>1. \E r : r = [k \in 0..h |-> IF k = 0 THEN S ELSE r[k - 1] \cup Behind(w, r[k - 1])]
    <3>1. \E r : IsReach(w, S, h, r)
      BY ReachExists
    <3>2. QED
      BY <3>1, Zenon DEF IsReach
  <2>2. \E r : /\ r = [k \in 0..h |-> IF k = 0 THEN S ELSE r[k - 1] \cup Behind(w, r[k - 1])]
               /\ r[h] = Within(w, S, h)
    BY <2>1, Zenon DEF Within
  <2>3. QED
    BY <2>2 DEF IsReach
<1>2. Within(w, S, 0) = S
  <2>1. PICK r : IsReach(w, S, 0, r) /\ r[0] = Within(w, S, 0)
    BY <1>1
  <2>2. QED
    BY <2>1 DEF IsReach
<1>3. ASSUME NEW k \in Nat PROVE Within(w, S, k + 1) = Within(w, S, k) \cup Behind(w, Within(w, S, k))
  <2>1. PICK q : IsReach(w, S, k, q) /\ q[k] = Within(w, S, k)
    BY <1>1
  <2>2. k + 1 \in Nat /\ k \in 0..(k + 1) /\ k + 1 \in 0..(k + 1) /\ k + 1 # 0 /\ (k + 1) - 1 = k
    OBVIOUS
  <2>3. PICK r : IsReach(w, S, k + 1, r) /\ r[k + 1] = Within(w, S, k + 1)
    BY <1>1, <2>2
  <2>4. r[k] = q[k]
    BY <2>1, <2>2, <2>3, ReachIsUnique
  <2>5. r[k + 1] = r[k] \cup Behind(w, r[k])
    BY <2>2, <2>3 DEF IsReach
  <2>6. QED
    BY <2>1, <2>3, <2>4, <2>5
<1>4. QED
  BY <1>2, <1>3

LEMMA WithinGrows ==
  ASSUME NEW w, NEW S, NEW j \in Nat, NEW k \in Nat, j <= k
  PROVE  Within(w, S, j) \subseteq Within(w, S, k)
<1> DEFINE D == {i \in Nat : j <= i /\ ~(Within(w, S, j) \subseteq Within(w, S, i))}
<1>1. SUFFICES ASSUME D # {} PROVE FALSE
  OBVIOUS
<1>2. Min(D) \in D /\ \A i \in D : Min(D) <= i
  BY <1>1, MinIsLeast
<1>3. PICK m \in D : \A i \in D : m <= i
  BY <1>2
<1>4. m # j /\ m \in Nat /\ j <= m
  BY <1>3
<1>5. m - 1 \in Nat /\ j <= m - 1 /\ m - 1 \notin D /\ (m - 1) + 1 = m
  BY <1>3, <1>4
<1>6. Within(w, S, j) \subseteq Within(w, S, m - 1)
  BY <1>5
<1>7. Within(w, S, m) = Within(w, S, m - 1) \cup Behind(w, Within(w, S, m - 1))
  BY <1>5, WithinSteps
<1>8. QED
  BY <1>3, <1>6, <1>7

-----------------------------------------------------------------------------
\* InOrder lists a finite set of numbers.
LEMMA InOrderLists ==
  ASSUME NEW I \in SUBSET Nat, IsFiniteSet(I)
  PROVE  InOrder(I) \in Seq(I) /\ ToSet(InOrder(I)) = I
<1> DEFINE UpTo_(i) == {j \in I : j <= i}
           n == Cardinality(I)
           rank == [i \in I |-> Cardinality(UpTo_(i))]
           L == InOrder(I)
<1>1. n \in Nat
  BY FS_CardinalityType
<1>2. ASSUME NEW i \in I
      PROVE  /\ IsFiniteSet(UpTo_(i)) /\ Cardinality(UpTo_(i)) \in 1..n
  <2>1. UpTo_(i) \in SUBSET I /\ i \in UpTo_(i)
    OBVIOUS
  <2> HIDE DEF UpTo_
  <2>2. IsFiniteSet(UpTo_(i)) /\ Cardinality(UpTo_(i)) <= n /\ Cardinality(UpTo_(i)) \in Nat
    BY <2>1, FS_Subset, FS_CardinalityType
  <2>3. Cardinality(UpTo_(i)) # 0
    BY <2>1, <2>2, FS_EmptySet
  <2>4. QED
    BY <1>1, <2>2, <2>3
<1>3. rank \in [I -> 1..n]
  BY <1>2
<1>4. ASSUME NEW i \in I, NEW j \in I, i < j PROVE rank[i] # rank[j]
  <2>1. (\A k \in I : k <= i => k <= j) /\ j <= j /\ ~(j <= i)
    BY <1>4
  <2>2. UpTo_(i) \in SUBSET UpTo_(j) /\ j \in UpTo_(j) /\ j \notin UpTo_(i)
    BY <1>4, <2>1
  <2> HIDE DEF UpTo_
  <2>3. Cardinality(UpTo_(i)) # Cardinality(UpTo_(j))
    BY <1>2, <2>2, FS_Subset
  <2>4. QED
    BY <2>3
<1> HIDE DEF n
<1>5. rank \in Surjection(I, 1..n)
  <2>1. IsFiniteSet(1..n) /\ Cardinality(1..n) = n
    BY <1>1, FS_Interval
  <2>2. ASSUME NEW i \in I, NEW j \in I, i # j PROVE rank[i] # rank[j]
    <3>1. i < j \/ j < i
      BY <2>2
    <3> HIDE DEF rank
    <3>2. QED
      BY <1>4, <3>1
  <2>3. rank \in Injection(I, 1..n)
    BY <1>3, <2>2 DEF Injection, IsInjective
  <2> HIDE DEF rank
  <2>4. QED
    BY <2>1, <2>3, FS_Injection DEF n
<1>6. L = [k \in 1..n |-> CHOOSE i \in I : Cardinality(UpTo_(i)) = k]
  BY DEF InOrder, n
<1> HIDE DEF L
<1>7. ASSUME NEW k \in 1..n PROVE L[k] \in I /\ rank[L[k]] = k
  <2>1. \E i \in I : rank[i] = k
    BY <1>5 DEF Surjection
  <2>2. \E i \in I : Cardinality(UpTo_(i)) = k
    BY <2>1
  <2>3. L[k] = CHOOSE i \in I : Cardinality(UpTo_(i)) = k
    BY <1>6
  <2> HIDE DEF UpTo_
  <2>4. L[k] \in I /\ Cardinality(UpTo_(L[k])) = k
    BY <2>2, <2>3
  <2>5. QED
    BY <2>4
<1> HIDE DEF rank, UpTo_
<1>8. L \in Seq(I) /\ DOMAIN L = 1..n
  BY <1>1, <1>6, <1>7
<1>9. ASSUME NEW i \in I PROVE L[rank[i]] = i /\ rank[i] \in 1..n
  <2>1. rank[i] \in 1..n
    BY <1>3
  <2>2. PICK j \in I : j = L[rank[i]] /\ rank[j] = rank[i]
    BY <1>7, <2>1
  <2>3. ~(j < i) /\ ~(i < j)
    BY <1>4, <2>2
  <2>4. j \in Nat /\ i \in Nat
    OBVIOUS
  <2>5. j = i
    BY <2>3, <2>4
  <2>6. QED
    BY <2>1, <2>2, <2>5
<1>10. ToSet(L) = I
  <2>1. ToSet(L) = {L[k] : k \in 1..n}
    BY <1>8 DEF ToSet
  <2>2. ASSUME NEW i \in I PROVE \E k \in 1..n : L[k] = i
    BY <1>9
  <2>3. QED
    BY <1>7, <2>1, <2>2
<1>11. QED
  BY <1>8, <1>10 DEF L

\* The seed filter keeps the allowed seeds, all of them.
LEMMA FilterKeeps ==
  ASSUME NEW chosen, chosen \in Seq(ToSet(chosen))
  PROVE  /\ SeedFilter(chosen) \in Seq(ToSet(chosen) \cap world.allowed)
         /\ ToSet(SeedFilter(chosen)) = ToSet(chosen) \cap world.allowed
<1> DEFINE I == {i \in DOMAIN chosen : chosen[i] \in world.allowed}
           L == InOrder(I)
           F == SeedFilter(chosen)
<1>1. DOMAIN chosen = 1..Len(chosen) /\ Len(chosen) \in Nat
  OBVIOUS
<1>2. IsFiniteSet(1..Len(chosen)) /\ 1..Len(chosen) \in SUBSET Nat
  BY <1>1, FS_Interval
<1>3. I \in SUBSET (1..Len(chosen))
  BY <1>1
<1>4. I \in SUBSET Nat /\ IsFiniteSet(I)
  <2> HIDE DEF I
  <2>1. QED
    BY <1>2, <1>3, FS_Subset
<1>5. L \in Seq(I) /\ ToSet(L) = I
  <2> HIDE DEF I
  <2>1. QED
    BY <1>4, InOrderLists
<1>6. F = [k \in DOMAIN L |-> chosen[L[k]]]
  BY DEF SeedFilter
<1>7. \A i \in I : i \in DOMAIN chosen /\ chosen[i] \in ToSet(chosen) \cap world.allowed
  BY DEF ToSet
<1>8. \A c \in ToSet(chosen) \cap world.allowed : \E i \in I : chosen[i] = c
  BY DEF ToSet
<1> HIDE DEF I, L, F
<1>9. DOMAIN L = 1..Len(L) /\ Len(L) \in Nat /\ \A k \in DOMAIN L : L[k] \in I
  BY <1>5
<1>10. F \in Seq(ToSet(chosen) \cap world.allowed)
  BY <1>6, <1>7, <1>9
<1>11. ToSet(F) = ToSet(chosen) \cap world.allowed
  <2>1. DOMAIN F = DOMAIN L /\ \A k \in DOMAIN L : F[k] = chosen[L[k]]
    BY <1>6
  <2>2. ASSUME NEW c \in ToSet(chosen) \cap world.allowed PROVE \E k \in DOMAIN F : F[k] = c
    <3>1. PICK i \in I : chosen[i] = c
      BY <1>8
    <3>2. PICK k \in DOMAIN L : L[k] = i
      BY <1>5 DEF ToSet
    <3>3. QED
      BY <2>1, <3>1, <3>2
  <2>3. ASSUME NEW k \in DOMAIN F PROVE F[k] \in ToSet(chosen) \cap world.allowed
    BY <1>7, <1>9, <2>1
  <2>4. ToSet(F) = {F[k] : k \in DOMAIN F}
    BY DEF ToSet
  <2>5. QED
    BY <2>2, <2>3, <2>4
<1>12. QED
  BY <1>10, <1>11 DEF F

\* Unless the subgraph is full, every new relevant neighbour joins.
LEMMA AllJoinUnlessFull ==
  ASSUME visited \in SUBSET Claims, world.size \in Nat,
         NEW near \in Seq(Claims),
         Cardinality(visited \cup {near[i] : i \in Joining(near)}) < world.size,
         NEW i \in DOMAIN near, near[i] \in world.relevant \ visited
  PROVE  \E j \in Joining(near) : near[j] = near[i]
<1> DEFINE N == {k \in DOMAIN near :
                   /\ near[k] \in world.relevant \ visited
                   /\ \A j \in 1..(k - 1) : near[j] # near[k]}
           J == Joining(near)
           below(k) == {j \in N : j < k}
<1>1. DOMAIN near = 1..Len(near) /\ Len(near) \in Nat /\ \A k \in DOMAIN near : near[k] \in Claims
  OBVIOUS
<1>2. J = {k \in N : Cardinality(visited) + Cardinality(below(k)) < world.size}
  BY DEF Joining
<1>3. N \in SUBSET Nat /\ N \in SUBSET (1..Len(near)) /\ IsFiniteSet(1..Len(near))
  <2>1. IsFiniteSet(1..Len(near)) /\ 1..Len(near) \in SUBSET Nat
    BY <1>1, FS_Interval
  <2>2. N \in SUBSET (1..Len(near))
    BY <1>1
  <2> HIDE DEF N
  <2>3. QED
    BY <2>1, <2>2
<1>4. \E k \in N : near[k] = near[i]
  <2> DEFINE E == {k \in 1..Len(near) : near[k] = near[i]}
  <2>1. E \in SUBSET Nat /\ E # {}
    BY <1>1
  <2>2. Min(E) \in E /\ \A k \in E : Min(E) <= k
    BY <2>1, MinIsLeast
  <2>3. PICK k \in E : \A j \in E : k <= j
    BY <2>2
  <2>4. k \in 1..Len(near) /\ near[k] = near[i]
    OBVIOUS
  <2>5. ASSUME NEW j \in 1..(k - 1) PROVE near[j] # near[k]
    <3>1. j \in 1..Len(near) /\ ~(k <= j)
      BY <1>1, <2>4
    <3>2. QED
      BY <2>3, <2>4, <3>1
  <2>6. k \in N
    BY <1>1, <2>4, <2>5
  <2>7. QED
    BY <2>4, <2>6
<1>5. \A k, l \in N : k < l => near[k] # near[l]
  <2>1. ASSUME NEW k \in N, NEW l \in N, k < l PROVE near[k] # near[l]
    <3>1. k \in 1..(l - 1)
      BY <1>3, <2>1
    <3>2. QED
      BY <3>1
  <2>2. QED
    BY <2>1
<1>6. \A k \in N : near[k] \in Claims \ visited
  BY <1>1
<1>7. IsFiniteSet(visited) /\ IsFiniteSet(N) /\ Cardinality(visited) \in Nat
  <2> HIDE DEF N
  <2>1. QED
    BY <1>3, ClaimsAreFinite, FS_Subset, FS_CardinalityType
<1> HIDE DEF N, J
<1>8. N = J
  <2> DEFINE D == N \ J
  <2>1. SUFFICES ASSUME D # {} PROVE FALSE
    BY <1>2
  <2>2. Min(D) \in D /\ \A k \in D : Min(D) <= k
    BY <1>3, <2>1, MinIsLeast
  <2>3. PICK m \in D : \A k \in D : m <= k
    BY <2>2
  <2> DEFINE B == below(m)
             X == {near[k] : k \in B}
             f == [k \in B |-> near[k]]
             W == visited \cup {near[k] : k \in J}
  <2>4. B \in SUBSET N /\ B \in SUBSET J /\ B \in SUBSET Nat
    <3>1. \A k \in N : k < m => ~(m <= k)
      BY <1>3, <2>3
    <3>2. \A k \in N : k < m => k \in J
      BY <2>3, <3>1
    <3>3. QED
      BY <1>3, <3>2
  <2>5. Cardinality(visited) + Cardinality(B) >= world.size
    <3>1. IsFiniteSet(B) /\ Cardinality(B) \in Nat
      <4> HIDE DEF B
      <4>1. QED
        BY <1>7, <2>4, FS_Subset, FS_CardinalityType
    <3>2. ~(Cardinality(visited) + Cardinality(B) < world.size)
      BY <1>2, <2>3
    <3> HIDE DEF B
    <3>3. QED
      BY <1>7, <3>1, <3>2
  <2> HIDE DEF B
  <2>6. IsFiniteSet(B) /\ Cardinality(B) \in Nat
    BY <1>7, <2>4, FS_Subset, FS_CardinalityType
  <2>7. IsFiniteSet(X) /\ Cardinality(X) = Cardinality(B)
    <3>1. ASSUME NEW k \in B, NEW l \in B, k # l PROVE near[k] # near[l]
      <4>1. k < l \/ l < k
        BY <2>4, <3>1
      <4>2. QED
        BY <1>5, <2>4, <4>1
    <3>2. f \in Bijection(B, X)
      <4>1. f \in [B -> X] /\ (\A x \in X : \E k \in B : f[k] = x)
        OBVIOUS
      <4>2. \A k, l \in B : f[k] = f[l] => k = l
        BY <3>1
      <4> HIDE DEF f, X
      <4>3. QED
        BY <4>1, <4>2 DEF Bijection, Injection, Surjection, IsInjective
    <3> HIDE DEF f, X
    <3>3. ExistsBijection(B, X)
      BY <3>2 DEF ExistsBijection
    <3>4. QED
      BY <2>6, <3>3, FS_Bijection
  <2>8. visited \cap X = {}
    BY <1>6, <2>4
  <2>9. visited \cup X \in SUBSET W /\ W \in SUBSET Claims
    <3>1. J \in SUBSET N
      BY <1>2
    <3>2. QED
      BY <1>6, <2>4, <3>1
  <2>10. Cardinality(W) < world.size
    BY DEF J
  <2> HIDE DEF X, W
  <2>11. Cardinality(visited \cup X) = Cardinality(visited) + Cardinality(X) - Cardinality(visited \cap X)
    BY <1>7, <2>7, FS_Union
  <2>12. Cardinality(visited \cap X) = 0
    BY <2>8, FS_EmptySet
  <2>13. IsFiniteSet(W) /\ Cardinality(W) \in Nat
    BY <2>9, ClaimsAreFinite, FS_Subset, FS_CardinalityType
  <2>14. Cardinality(visited \cup X) <= Cardinality(W)
    BY <2>9, <2>13, FS_Subset
  <2>15. QED
    BY <1>7, <2>5, <2>6, <2>7, <2>10, <2>11, <2>12, <2>13, <2>14
<1>9. QED
  BY <1>4, <1>8 DEF J

-----------------------------------------------------------------------------
\* The queue Q is queue and, behind it, the neighbours that join, a hop further.
Lengthens(Q, queue, near, h) ==
  /\ Len(queue) <= Len(Q)
  /\ \A i \in 1..Len(queue) : Q[i] = queue[i]
  /\ \A i \in DOMAIN Q : i > Len(queue) =>
       Q[i][2] = h + 1 /\ \E j \in Joining(near) : Q[i][1] = near[j]
  /\ \A j \in Joining(near) : \E i \in DOMAIN Q : Q[i] = <<near[j], h + 1>>

LEMMA EnqueueAppends ==
  ASSUME NEW near \in Seq(Claims), NEW h \in Nat, NEW V, NEW queue \in Seq(V \X Nat)
  PROVE  /\ Enqueue(queue, near, h) \in Seq((V \cup {near[i] : i \in Joining(near)}) \X Nat)
         /\ Lengthens(Enqueue(queue, near, h), queue, near, h)
<1> DEFINE J == Joining(near)
           L == InOrder(J)
           T == [k \in DOMAIN L |-> <<near[L[k]], h + 1>>]
           W == V \cup {near[i] : i \in J}
           Q == Enqueue(queue, near, h)
<1>1. L \in Seq(J) /\ ToSet(L) = J
  <2>1. J \in SUBSET (1..Len(near)) /\ Len(near) \in Nat
    BY DEF Joining
  <2>2. IsFiniteSet(1..Len(near)) /\ 1..Len(near) \in SUBSET Nat
    BY <2>1, FS_Interval
  <2> HIDE DEF J
  <2>3. J \in SUBSET Nat /\ IsFiniteSet(J)
    BY <2>1, <2>2, FS_Subset
  <2>4. QED
    BY <2>3, InOrderLists
<1>2. Q = queue \o T
  BY DEF Enqueue
<1> HIDE DEF L, Q
<1>3. DOMAIN L = 1..Len(L) /\ Len(L) \in Nat /\ \A k \in 1..Len(L) : L[k] \in J
  BY <1>1
<1>4. (\A j \in J : near[j] \in W) /\ V \in SUBSET W
  OBVIOUS
<1> HIDE DEF J, W
<1>5. T \in Seq(W \X Nat) /\ Len(T) = Len(L) /\ \A k \in 1..Len(L) : T[k] = <<near[L[k]], h + 1>>
  BY <1>3, <1>4
<1>6. queue \in Seq(W \X Nat)
  <2>1. V \X Nat \in SUBSET (W \X Nat)
    BY <1>4
  <2>2. QED
    BY <2>1
<1> HIDE DEF T
<1>7. /\ Q \in Seq(W \X Nat) /\ Len(Q) = Len(queue) + Len(T)
      /\ \A i \in 1..Len(queue) : Q[i] = queue[i]
      /\ \A i \in 1..Len(Q) : i > Len(queue) => Q[i] = T[i - Len(queue)]
  <2>1. /\ Q \in Seq(W \X Nat) /\ Len(Q) = Len(queue) + Len(T)
        /\ Len(queue) \in Nat /\ Len(T) \in Nat
    <3> DEFINE E == W \X Nat
    <3>1. queue \in Seq(E) /\ T \in Seq(E)
      BY <1>5, <1>6
    <3> HIDE DEF E
    <3>2. queue \o T \in Seq(E) /\ Len(queue \o T) = Len(queue) + Len(T)
      BY <3>1
    <3>3. Q \in Seq(E)
      BY <1>2, <3>2
    <3>4. QED
      BY <1>2, <3>1, <3>2, <3>3 DEF E
  <2>2. ASSUME NEW i \in 1..Len(queue) PROVE Q[i] = queue[i]
    BY <1>2, <1>5, <1>6
  <2>3. ASSUME NEW i \in 1..Len(Q), i > Len(queue) PROVE Q[i] = T[i - Len(queue)]
    <3>1. i \in (Len(queue) + 1)..(Len(queue) + Len(T)) /\ i \in 1..(Len(queue) + Len(T))
      BY <2>1, <2>3
    <3>2. (queue \o T)[i] = T[i - Len(queue)]
      BY <1>5, <1>6, <2>1, <3>1
    <3>3. QED
      BY <1>2, <3>2
  <2>4. QED
    BY <2>1, <2>2, <2>3
<1>8. Len(queue) \in Nat /\ Len(T) \in Nat /\ DOMAIN Q = 1..Len(Q)
  BY <1>5, <1>6, <1>7
<1>9. ASSUME NEW i \in 1..Len(Q), i > Len(queue)
      PROVE  Q[i][2] = h + 1 /\ \E j \in J : Q[i][1] = near[j]
  <2>1. i - Len(queue) \in 1..Len(L)
    BY <1>5, <1>7, <1>8, <1>9
  <2>2. Q[i] = <<near[L[i - Len(queue)]], h + 1>>
    BY <1>5, <1>7, <1>9, <2>1
  <2>3. QED
    BY <1>3, <2>1, <2>2
<1>10. ASSUME NEW j \in J PROVE \E i \in 1..Len(Q) : i > Len(queue) /\ Q[i] = <<near[j], h + 1>>
  <2>1. PICK k \in 1..Len(L) : L[k] = j
    BY <1>1, <1>3 DEF ToSet
  <2>2. Len(queue) + k \in 1..Len(Q) /\ Len(queue) + k > Len(queue) /\ (Len(queue) + k) - Len(queue) = k
    BY <1>3, <1>5, <1>7, <1>8
  <2>3. Q[Len(queue) + k] = T[k]
    BY <1>7, <2>2
  <2>4. QED
    BY <1>5, <2>1, <2>2, <2>3
<1>11. Len(queue) <= Len(Q)
  BY <1>7, <1>8
<1>12. QED
  BY <1>7, <1>8, <1>9, <1>10, <1>11 DEF J, Q, W, Lengthens

-----------------------------------------------------------------------------
(* The invariant of a pass.                                                *)

\* What is found is claims; nothing is stored before stage 3 ends.
FoundInv ==
  /\ world \in Worlds /\ visited \subseteq Claims
  /\ stage \in Stages \cup Ends
  /\ stage \in {"seeding", "traversing", "clustering"} => clusters = <<>> /\ cites = <<>>

\* Each claim found has a community; what Louvain leaves partitions them.
PartsInv ==
  stage = "clustering" =>
    DOMAIN comm = visited /\ (louvain # {} => Partitions(parts, visited))

KeptInv == clusters \in Seq(SUBSET Claims) /\ ClustersPartition

\* An accepted summary cites the members of its cluster and no other claim.
CitesInv ==
  /\ cites \in Seq(SUBSET (Claims \cup {Outsider})) /\ Len(cites) <= Len(clusters)
  /\ \A i \in 1..Len(cites) : cites[i] = clusters[i]
  /\ stage \in {"composing", "verifying"} => Len(cites) = Len(clusters)

(* lev is the hop each claim was met at.                                   *)

\* A claim is within as many steps as its hop; the seeds are met at hop 0.
Met(lev) ==
  /\ lev \in [visited -> 0..world.hops]
  /\ \A c \in visited : c \in Within(world, ToSet(seeds), lev[c])
  /\ \A s \in ToSet(seeds) : s \in visited /\ lev[s] = 0

\* The queue is in the order of the hops and spans one hop at most.
InLine(lev) ==
  /\ frontier \in Seq(visited \X Nat)
  /\ \A i \in 1..Len(frontier) : frontier[i][2] = lev[frontier[i][1]]
  /\ \A i, j \in 1..Len(frontier) : i < j => frontier[i][2] <= frontier[j][2]
  /\ frontier # <<>> => \A c \in visited : lev[c] <= frontier[1][2] + 1

\* Unless the subgraph is full, what stands behind a claim that left the queue
\* has been met, no more than a hop later.
LookedBehind(lev) ==
  Cardinality(visited) < world.size =>
    \A c \in visited :
      (lev[c] < world.hops /\ \A i \in 1..Len(frontier) : frontier[i][1] # c) =>
        \A n \in Behind(world, {c}) : n \in visited /\ lev[n] <= lev[c] + 1

Levelled(lev) == Met(lev) /\ InLine(lev) /\ LookedBehind(lev)

TraversalInv ==
  /\ stage = "seeding" => picked \in Seq(ToSet(picked))
  /\ stage \in {"traversing", "clustering"} =>
       \E lev \in [visited -> 0..world.hops] : Levelled(lev)

\* What Louvain leaves is made of claims, the conflicts are edges.
LouvainInv ==
  /\ louvain # {} => stage = "clustering"
  /\ stage = "clustering" => foes \in SUBSET Pairs /\ louvain \in SUBSET (SUBSET Claims)

Written == {"verifying", "accepted", "rejected"}
Answered == Len(cites) + IF stage \in Written THEN 1 ELSE 0

\* Every answer had one call and at most its retries; the attempts at hand are
\* of the prompt that is open, and a failed one used at most its own.
CallsInv ==
  /\ calls \in Nat /\ attempt \in 0..MaxRetries
  /\ calls <= world.budget
  /\ Answered + attempt <= calls
  /\ calls <= (MaxRetries + 1) * Answered + (MaxRetries + 1)
  /\ stage # "failed" => calls <= (MaxRetries + 1) * Answered + attempt
  /\ stage \in Written => attempt = 0
  /\ stage \in Stages => reason = "none"
  /\ reason = "budget" => calls = world.budget /\ stage = "failed"

PassInv ==
  /\ FoundInv /\ TraversalInv /\ LouvainInv /\ PartsInv /\ KeptInv
  /\ CitesInv /\ CallsInv /\ OnlyTheComposerIsRejected

-----------------------------------------------------------------------------
LEMMA PassInvInit == Init => PassInv
<1> SUFFICES ASSUME Init PROVE PassInv
  OBVIOUS
<1> USE DEF Init
<1>1. FoundInv /\ PartsInv /\ OnlyTheComposerIsRejected
  BY DEF FoundInv, Stages, PartsInv, OnlyTheComposerIsRejected
<1>2. KeptInv /\ CitesInv
  BY DEF KeptInv, ClustersPartition, CitesInv
<1>3. CallsInv
  <2>1. world.budget \in Nat /\ MaxRetries \in Nat
    BY PipelineAssumption
  <2>2. Answered = 0
    BY DEF Answered, Written
  <2>3. (MaxRetries + 1) * 0 = 0
    BY <2>1
  <2>4. QED
    BY <2>1, <2>2, <2>3 DEF CallsInv, Written
<1>4. TraversalInv
  <2>1. picked \in Seq(Claims)
    BY PipelineAssumption
  <2>2. picked \in Seq(ToSet(picked))
    BY <2>1 DEF ToSet
  <2>3. QED
    BY <2>2 DEF TraversalInv
<1>5. LouvainInv
  BY DEF LouvainInv
<1>6. QED
  BY <1>1, <1>2, <1>3, <1>4, <1>5 DEF PassInv

LEMMA FoundIsKept ==
  ASSUME FoundInv, Next
  PROVE  FoundInv'
<1> USE DEF FoundInv
<1>1. world' = world
  BY DEF Next, Step, Rest, vars, writingVars, ReadFails, Seed, SeedsAreFiltered, Traverse,
         SnapshotIsTaken, Cluster, ClustersAreKept, OutOfBudget, NoAnswer, Narrate, Compose,
         Verify, VerifyPanics
<1>2. visited' \subseteq Claims
  <2>1. CASE SeedsAreFiltered
    BY <2>1, PipelineAssumption DEF SeedsAreFiltered, StartTraversal, seedingVars
  <2>2. CASE Traverse
    <3>1. \A near : {near[i] : i \in Joining(near)} \subseteq world.relevant
      BY DEF Joining
    <3>2. QED
      BY <2>2, <3>1, PipelineAssumption DEF Traverse, VisitFrontier
  <2>3. CASE ~(SeedsAreFiltered \/ Traverse)
    BY <2>3 DEF Next, Step, Rest, vars, writingVars, seedingVars, ReadFails, Seed, PickSeed,
         SnapshotIsTaken, Cluster, ClustersAreKept, OutOfBudget, NoAnswer, Narrate, Compose,
         Verify, VerifyPanics
  <2>4. QED
    BY <2>1, <2>2, <2>3
<1>3. stage' \in Stages \cup Ends
  BY DEF Next, Step, Rest, vars, writingVars, ReadFails, Seed, SeedsAreFiltered, Traverse,
         SnapshotIsTaken, Cluster, ClustersAreKept, OutOfBudget, NoAnswer, Narrate, Compose,
         Verify, VerifyPanics, Goes, Ended, TryAgain, CallFails, Stages, Ends
<1>4. stage' \in {"seeding", "traversing", "clustering"} => clusters' = <<>> /\ cites' = <<>>
  BY DEF Next, Step, Rest, vars, writingVars, ReadFails, Seed, SeedsAreFiltered, Traverse,
         SnapshotIsTaken, Cluster, ClustersAreKept, OutOfBudget, NoAnswer, Narrate, Compose,
         Verify, VerifyPanics, Goes, Ended, TryAgain, CallFails
<1>5. QED
  BY <1>1, <1>2, <1>3, <1>4

\* A step that leaves the pass in stage 3 is one of the clustering, or begins it.
LEMMA LevelledIsNear ==
  ASSUME FoundInv, NEW lev, Levelled(lev)
  PROVE  SnapshotIsNear
<1> DEFINE S == ToSet(seeds)
           H == world.hops
<1>1. H \in Nat /\ world.size \in Nat /\ DOMAIN lev = visited /\ \A c \in visited : lev[c] \in 0..H
  BY PipelineAssumption DEF FoundInv, Levelled, Met
<1>2. visited \subseteq Within(world, S, H)
  <2>1. ASSUME NEW c \in visited PROVE c \in Within(world, S, H)
    <3>1. c \in Within(world, S, lev[c]) /\ lev[c] \in Nat /\ lev[c] <= H
      BY <1>1 DEF Levelled, Met
    <3>2. QED
      BY <1>1, <3>1, WithinGrows
  <2>2. QED
    BY <2>1
<1>3. ASSUME frontier = <<>>, Cardinality(visited) < world.size
      PROVE  Within(world, S, H) \subseteq visited
  <2> DEFINE AllMet(k) == \A c \in Within(world, S, k) : c \in visited /\ lev[c] <= k
             D == {k \in 0..H : ~AllMet(k)}
  <2>1. ASSUME D # {} PROVE FALSE
    <3>1. Min(D) \in D /\ \A k \in D : Min(D) <= k
      BY <1>1, <2>1, MinIsLeast
    <3>2. PICK k \in D : \A j \in D : k <= j
      BY <3>1
    <3>3. k # 0
      <4>1. Within(world, S, 0) = S /\ \A s \in S : s \in visited /\ lev[s] = 0
        BY WithinSteps DEF Levelled, Met
      <4>2. AllMet(0)
        BY <4>1
      <4>3. QED
        BY <3>2, <4>2
    <3>4. k - 1 \in Nat /\ (k - 1) + 1 = k /\ k \in Nat /\ k - 1 \in 0..H /\ AllMet(k - 1) /\ k <= H
      BY <1>1, <3>2, <3>3
    <3>5. Within(world, S, k) = Within(world, S, k - 1) \cup Behind(world, Within(world, S, k - 1))
      BY <3>4, WithinSteps
    <3>6. ASSUME NEW c \in Within(world, S, k) PROVE c \in visited /\ lev[c] <= k
      <4>1. CASE c \in Within(world, S, k - 1)
        <5>1. c \in visited /\ lev[c] <= k - 1 /\ lev[c] \in 0..H
          BY <1>1, <3>4, <4>1
        <5>2. QED
          BY <3>4, <5>1
      <4>2. CASE c \in Behind(world, Within(world, S, k - 1))
        <5>1. PICK b \in Within(world, S, k - 1) : c \in Behind(world, {b})
          BY <4>2 DEF Behind
        <5>2. b \in visited /\ lev[b] <= k - 1 /\ lev[b] \in 0..H
          BY <1>1, <3>4
        <5>3. lev[b] < H /\ \A i \in 1..Len(frontier) : frontier[i][1] # b
          BY <1>1, <1>3, <3>4, <5>2
        <5>4. c \in visited /\ lev[c] <= lev[b] + 1
          BY <1>3, <5>1, <5>2, <5>3 DEF Levelled, LookedBehind
        <5>5. lev[c] \in 0..H
          BY <1>1, <5>4
        <5>6. QED
          BY <3>4, <5>2, <5>4, <5>5
      <4>3. QED
        BY <3>5, <4>1, <4>2
    <3>7. QED
      BY <3>2, <3>6
  <2>2. AllMet(H)
    BY <1>1, <2>1
  <2>3. QED
    BY <2>2
<1>4. QED
  BY <1>2, <1>3 DEF SnapshotIsNear

LEMMA TraversalStarts ==
  ASSUME FoundInv, picked \in Seq(ToSet(picked)), StartTraversal(picked), world' = world
  PROVE  \E lev \in [visited' -> 0..world'.hops] : Levelled(lev)'
<1> DEFINE V == ToSet(picked) \cap world.allowed
           F == SeedFilter(picked)
<1>1. F \in Seq(V) /\ ToSet(F) = V
  BY FilterKeeps
<1>2. seeds' = F /\ visited' = V /\ frontier' = [i \in DOMAIN F |-> <<F[i], 0>>]
  BY DEF StartTraversal
<1> HIDE DEF F, V
<1>3. PICK lev : lev = [c \in V |-> 0]
  OBVIOUS
<1>4. world.hops \in Nat
  BY PipelineAssumption DEF FoundInv
<1>5. DOMAIN F = 1..Len(F) /\ Len(F) \in Nat /\ \A i \in 1..Len(F) : F[i] \in V
  BY <1>1
<1>6. /\ frontier' \in Seq(V \X Nat) /\ Len(frontier') = Len(F)
      /\ \A i \in 1..Len(F) : frontier'[i] = <<F[i], 0>>
  BY <1>2, <1>5
<1>7. \A c \in V : lev[c] = 0
  BY <1>3
<1>8. lev \in [V -> 0..world.hops]
  BY <1>3, <1>4
<1>9. Met(lev)'
  <2>1. \A c \in V : c \in Within(world, V, lev[c])
    BY <1>7, WithinSteps
  <2>2. ToSet(seeds') = V
    BY <1>1, <1>2
  <2>3. QED
    BY <1>2, <1>7, <1>8, <2>1, <2>2 DEF Met
<1>10. InLine(lev)'
  <2>1. \A i \in 1..Len(frontier') : frontier'[i][1] \in V /\ frontier'[i][2] = 0
    BY <1>5, <1>6
  <2>2. \A i \in 1..Len(frontier') : frontier'[i][2] = lev[frontier'[i][1]]
    BY <1>7, <2>1
  <2>3. \A i, j \in 1..Len(frontier') : i < j => frontier'[i][2] <= frontier'[j][2]
    BY <2>1
  <2>4. frontier' # <<>> => 1 \in 1..Len(frontier')
    BY <1>6
  <2>5. frontier' # <<>> => \A c \in V : lev[c] <= frontier'[1][2] + 1
    BY <1>7, <2>1, <2>4
  <2>6. QED
    BY <1>2, <1>6, <2>2, <2>3, <2>5 DEF InLine
<1>11. LookedBehind(lev)'
  <2>1. ASSUME NEW c \in V PROVE \E i \in 1..Len(frontier') : frontier'[i][1] = c
    <3>1. PICK i \in 1..Len(F) : F[i] = c
      BY <1>1, <1>5 DEF ToSet
    <3>2. QED
      BY <1>6, <3>1
  <2>2. QED
    BY <1>2, <2>1 DEF LookedBehind
<1>12. QED
  BY <1>2, <1>8, <1>9, <1>10, <1>11 DEF Levelled

\* rest is the queue, which is in order, without its head, which is at hop h.
Leaves(rest, queue, h) ==
  /\ \A i \in 1..Len(rest) :
       /\ rest[i] = queue[i + 1] /\ i + 1 \in 1..Len(queue)
       /\ rest[i][2] \in Nat /\ h <= rest[i][2]
  /\ \A i, j \in 1..Len(rest) : i < j => rest[i][2] <= rest[j][2]
  /\ \A i \in 1..Len(queue) : i # 1 => i - 1 \in 1..Len(rest) /\ rest[i - 1] = queue[i]

LEMMA HeadLeaves ==
  ASSUME NEW V, NEW queue \in Seq(V \X Nat), queue # <<>>,
         \A i, j \in 1..Len(queue) : i < j => queue[i][2] <= queue[j][2]
  PROVE  /\ Head(queue) = queue[1] /\ queue[1] \in V \X Nat /\ 1 \in 1..Len(queue)
         /\ Tail(queue) \in Seq(V \X Nat) /\ Leaves(Tail(queue), queue, queue[1][2])
<1> DEFINE E == V \X Nat
<1>1. queue \in Seq(E) /\ Len(queue) \in Nat /\ Len(queue) # 0
  OBVIOUS
<1>2. \A e \in E : e[2] \in Nat
  OBVIOUS
<1> HIDE DEF E
<1> DEFINE T == Tail(queue)
<1>3. /\ Head(queue) = queue[1] /\ queue[1] \in E /\ 1 \in 1..Len(queue)
      /\ T \in Seq(E) /\ Len(T) = Len(queue) - 1
      /\ \A i \in 1..Len(T) : T[i] = queue[i + 1] /\ i + 1 \in 1..Len(queue)
  BY <1>1
<1> HIDE DEF T
<1>4. \A i \in 1..Len(queue) : queue[i] \in E /\ queue[i][2] \in Nat
  BY <1>1, <1>2
<1>5. ASSUME NEW i \in 1..Len(T) PROVE T[i][2] \in Nat /\ queue[1][2] <= T[i][2]
  <2>1. 1 < i + 1 /\ i + 1 \in 1..Len(queue) /\ T[i] = queue[i + 1]
    BY <1>3
  <2>2. QED
    BY <1>3, <1>4, <2>1
<1>6. ASSUME NEW i \in 1..Len(T), NEW j \in 1..Len(T), i < j PROVE T[i][2] <= T[j][2]
  <2>1. i + 1 < j + 1 /\ i + 1 \in 1..Len(queue) /\ j + 1 \in 1..Len(queue)
    BY <1>3, <1>6
  <2>2. QED
    BY <1>3, <2>1
<1>7. ASSUME NEW i \in 1..Len(queue), i # 1 PROVE i - 1 \in 1..Len(T) /\ T[i - 1] = queue[i]
  <2>1. i - 1 \in 1..Len(T) /\ (i - 1) + 1 = i
    BY <1>1, <1>3, <1>7
  <2>2. QED
    BY <1>3, <2>1
<1>8. QED
  BY <1>3, <1>5, <1>6, <1>7 DEF E, T, Leaves

\* A claim at the last hop leaves the queue and nothing else changes.
LEMMA LastHopIsPassed ==
  ASSUME FoundInv, NEW lev, Levelled(lev), frontier # <<>>, world' = world, seeds' = seeds,
         Head(frontier)[2] >= world.hops, visited' = visited, frontier' = Tail(frontier)
  PROVE  Levelled(lev)'
<1> DEFINE claim == frontier[1][1]
           hop   == frontier[1][2]
<1>1. /\ frontier \in Seq(visited \X Nat)
      /\ \A i, j \in 1..Len(frontier) : i < j => frontier[i][2] <= frontier[j][2]
      /\ \A i \in 1..Len(frontier) : frontier[i][2] = lev[frontier[i][1]]
      /\ \A c \in visited : lev[c] <= hop + 1
  BY DEF Levelled, InLine
<1>2. /\ Head(frontier) = frontier[1] /\ claim \in visited /\ hop \in Nat /\ hop = lev[claim]
      /\ frontier' \in Seq(visited \X Nat)
      /\ \A i \in 1..Len(frontier') :
           /\ frontier'[i] = frontier[i + 1] /\ i + 1 \in 1..Len(frontier)
           /\ frontier'[i][2] \in Nat /\ hop <= frontier'[i][2]
      /\ \A i, j \in 1..Len(frontier') : i < j => frontier'[i][2] <= frontier'[j][2]
      /\ \A i \in 1..Len(frontier) : i # 1 => i - 1 \in 1..Len(frontier') /\ frontier'[i - 1] = frontier[i]
  <2>1. /\ Head(frontier) = frontier[1] /\ frontier[1] \in visited \X Nat /\ 1 \in 1..Len(frontier)
        /\ frontier' \in Seq(visited \X Nat) /\ Leaves(frontier', frontier, frontier[1][2])
    BY <1>1, HeadLeaves
  <2>2. QED
    BY <1>1, <2>1 DEF Leaves
<1>3. world.hops \in Nat /\ \A c \in visited : lev[c] \in Nat
  BY PipelineAssumption DEF FoundInv, Levelled, Met
<1>4. Met(lev)'
  BY DEF Levelled, Met
<1>5. InLine(lev)'
  <2>1. \A i \in 1..Len(frontier') : frontier'[i][2] = lev[frontier'[i][1]]
    BY <1>1, <1>2
  <2>2. ASSUME frontier' # <<>>, NEW c \in visited PROVE lev[c] <= frontier'[1][2] + 1
    <3>1. 1 \in 1..Len(frontier')
      <4> DEFINE E == visited \X Nat
      <4>1. frontier' \in Seq(E)
        BY <1>2
      <4> HIDE DEF E
      <4>2. QED
        BY <2>2, <4>1
    <3>2. hop <= frontier'[1][2] /\ frontier'[1][2] \in Nat
      BY <1>2, <3>1
    <3>3. PICK k \in Nat : k = hop /\ lev[c] <= k + 1 /\ k <= frontier'[1][2]
      BY <1>1, <1>2, <3>2
    <3>4. PICK m \in Nat : m = lev[c]
      BY <1>3
    <3>5. PICK q \in Nat : q = frontier'[1][2]
      BY <3>2
    <3>6. m <= k + 1 /\ k <= q
      BY <3>3, <3>4, <3>5
    <3>7. m <= q + 1
      BY <3>6
    <3>8. QED
      BY <3>4, <3>5, <3>7
  <2>3. QED
    BY <1>2, <2>1, <2>2 DEF InLine
<1>6. LookedBehind(lev)'
  <2>1. ASSUME Cardinality(visited) < world.size, NEW c \in visited, lev[c] < world.hops,
               \A i \in 1..Len(frontier') : frontier'[i][1] # c, NEW n \in Behind(world, {c})
        PROVE  n \in visited /\ lev[n] <= lev[c] + 1
    <3>1. c # claim
      BY <1>2, <1>3, <2>1
    <3>2. ASSUME NEW i \in 1..Len(frontier) PROVE frontier[i][1] # c
      <4>1. CASE i = 1
        BY <3>1, <4>1
      <4>2. CASE i # 1
        BY <1>2, <2>1, <4>2
      <4>3. QED
        BY <4>1, <4>2
    <3>3. QED
      BY <2>1, <3>2 DEF Levelled, LookedBehind
  <2>2. QED
    BY <2>1 DEF LookedBehind
<1>7. QED
  BY <1>4, <1>5, <1>6 DEF Levelled

\* What joins behind a claim is met a hop later.
LEMMA NeighboursAreMet ==
  ASSUME FoundInv, NEW lev \in [visited -> 0..world.hops], Levelled(lev), frontier # <<>>,
         Head(frontier)[2] < world.hops, Cardinality(visited) < world.size,
         world' = world, seeds' = seeds, NEW near, near = world.next[Head(frontier)[1]],
         visited' = visited \cup {near[i] : i \in Joining(near)},
         frontier' = Enqueue(Tail(frontier), near, Head(frontier)[2])
  PROVE  \E new \in [visited' -> 0..world'.hops] : Levelled(new)'
<1> DEFINE claim == frontier[1][1]
           hop   == frontier[1][2]
           rest  == Tail(frontier)
           J     == Joining(near)
           W     == visited \cup {near[i] : i \in J}
           Q     == Enqueue(rest, near, hop)
<1>1. /\ frontier \in Seq(visited \X Nat)
      /\ \A i, j \in 1..Len(frontier) : i < j => frontier[i][2] <= frontier[j][2]
      /\ \A i \in 1..Len(frontier) : frontier[i][2] = lev[frontier[i][1]]
      /\ \A c \in visited : lev[c] <= hop + 1
  BY DEF Levelled, InLine
<1>2. /\ Head(frontier) = frontier[1] /\ claim \in visited /\ hop \in Nat /\ hop = lev[claim]
      /\ rest \in Seq(visited \X Nat) /\ Len(rest) \in Nat
      /\ \A i \in 1..Len(rest) :
           /\ rest[i] = frontier[i + 1] /\ i + 1 \in 1..Len(frontier)
           /\ rest[i][2] \in Nat /\ hop <= rest[i][2]
      /\ \A i, j \in 1..Len(rest) : i < j => rest[i][2] <= rest[j][2]
      /\ \A i \in 1..Len(frontier) : i # 1 => i - 1 \in 1..Len(rest) /\ rest[i - 1] = frontier[i]
  <2>1. /\ Head(frontier) = frontier[1] /\ frontier[1] \in visited \X Nat /\ 1 \in 1..Len(frontier)
        /\ rest \in Seq(visited \X Nat) /\ Leaves(rest, frontier, frontier[1][2])
    BY <1>1, HeadLeaves
  <2>2. Len(rest) \in Nat
    BY <2>1
  <2> HIDE DEF rest
  <2>3. QED
    BY <1>1, <2>1, <2>2 DEF Leaves
<1>3. /\ world.hops \in Nat /\ world.size \in Nat /\ visited \in SUBSET Claims /\ world.relevant \in SUBSET Claims
      /\ near \in Seq(Claims) /\ \A c \in visited : lev[c] \in Nat
  <2>1. world \in Worlds /\ claim \in Claims
    BY <1>2 DEF FoundInv
  <2>2. world.next \in [Claims -> Seq(Claims)] /\ near = world.next[claim]
    BY <1>2, <2>1, PipelineAssumption
  <2>3. QED
    BY <2>1, <2>2, PipelineAssumption DEF FoundInv
<1>4. \A i \in J : near[i] \in world.relevant \ visited /\ i \in DOMAIN near
  BY DEF Joining
<1>5. visited' = W /\ frontier' = Q
  BY <1>2
<1>6. /\ Q \in Seq(W \X Nat) /\ Len(rest) <= Len(Q)
      /\ \A i \in 1..Len(rest) : Q[i] = rest[i]
      /\ \A i \in DOMAIN Q : i > Len(rest) => Q[i][2] = hop + 1 /\ \E j \in J : Q[i][1] = near[j]
      /\ \A j \in J : \E i \in DOMAIN Q : Q[i] = <<near[j], hop + 1>>
  <2> HIDE DEF hop, rest
  <2>1. /\ Q \in Seq((visited \cup {near[i] : i \in Joining(near)}) \X Nat)
        /\ Lengthens(Q, rest, near, hop)
    BY <1>2, <1>3, EnqueueAppends
  <2> HIDE DEF Q
  <2>2. QED
    BY <2>1 DEF Lengthens
<1>7. DOMAIN Q = 1..Len(Q) /\ Len(Q) \in Nat /\ (Q # <<>> => 1 \in 1..Len(Q))
      /\ \A i \in 1..Len(Q) : Q[i][1] \in W /\ Q[i][2] \in Nat
  <2> DEFINE E == W \X Nat
  <2>1. Q \in Seq(E) /\ \A e \in E : e[1] \in W /\ e[2] \in Nat
    BY <1>6
  <2> HIDE DEF E, Q
  <2>2. QED
    BY <2>1
<1>8. \A n \in W : n \in visited \/ \E j \in J : n = near[j]
  OBVIOUS
<1>9. \A j \in J : near[j] \in W
  OBVIOUS
<1> HIDE DEF Q, W, J, rest
<1>10. PICK new : new = [c \in W |-> IF c \in visited THEN lev[c] ELSE hop + 1]
  OBVIOUS
<1>11. visited \in SUBSET W
  BY DEF W
<1>12. /\ \A c \in visited : new[c] = lev[c] /\ c \in W
       /\ \A c \in W : c \notin visited => new[c] = hop + 1
  BY <1>10, <1>11
<1>13. hop + 1 \in 0..world.hops /\ hop < world.hops
  BY <1>2, <1>3
<1>14. new \in [W -> 0..world.hops]
  <2>1. \A c \in visited : lev[c] \in 0..world.hops
    OBVIOUS
  <2> HIDE DEF hop
  <2>2. QED
    BY <1>10, <1>13, <2>1
<1>15. Met(new)'
  <2>1. ASSUME NEW n \in W PROVE n \in Within(world, ToSet(seeds), new[n])
    <3>1. CASE n \in visited
      BY <1>12, <3>1 DEF Levelled, Met
    <3>2. CASE n \notin visited
      <4>1. PICK j \in J : n = near[j]
        BY <1>8, <3>2
      <4>2. n \in world.relevant /\ n \in ToSet(near)
        BY <1>4, <4>1 DEF ToSet
      <4>3. claim \in Within(world, ToSet(seeds), hop)
        BY <1>2 DEF Levelled, Met
      <4>4. near = world.next[claim]
        BY <1>2
      <4>5. n \in Behind(world, Within(world, ToSet(seeds), hop))
        BY <4>2, <4>3, <4>4 DEF Behind
      <4>6. n \in Within(world, ToSet(seeds), hop + 1)
        <5>1. PICK k \in Nat : k = hop
          BY <1>2
        <5>2. \A i \in Nat : Within(world, ToSet(seeds), i + 1) =
                Within(world, ToSet(seeds), i) \cup Behind(world, Within(world, ToSet(seeds), i))
          BY WithinSteps
        <5>3. n \in Within(world, ToSet(seeds), k + 1)
          BY <4>5, <5>1, <5>2
        <5>4. QED
          BY <5>1, <5>3
      <4>7. QED
        BY <1>12, <3>2, <4>6
    <3>3. QED
      BY <3>1, <3>2
  <2>2. \A s \in ToSet(seeds) : s \in W /\ new[s] = 0
    BY <1>12 DEF Levelled, Met
  <2>3. QED
    BY <1>5, <1>14, <2>1, <2>2 DEF Met
<1>16. InLine(new)'
  <2>1. ASSUME NEW i \in 1..Len(Q) PROVE Q[i][2] = new[Q[i][1]] /\ hop <= Q[i][2] /\ Q[i][2] <= hop + 1
    <3>1. CASE i \in 1..Len(rest)
      <4>1. /\ Q[i] = frontier[i + 1] /\ i + 1 \in 1..Len(frontier) /\ frontier[i + 1][1] \in visited
            /\ hop <= Q[i][2]
        <5>1. Q[i] = rest[i] /\ rest[i] \in visited \X Nat
          BY <1>2, <1>6, <3>1
        <5>2. QED
          BY <1>2, <3>1, <5>1
      <4>2. QED
        BY <1>1, <1>12, <4>1
    <3>2. CASE i > Len(rest)
      <4>1. PICK j \in J : Q[i][1] = near[j] /\ Q[i][2] = hop + 1
        BY <1>6, <1>7, <3>2
      <4>2. near[j] \in W /\ near[j] \notin visited
        BY <1>4, <1>9
      <4> HIDE DEF hop
      <4>3. QED
        BY <1>2, <1>12, <4>1, <4>2
    <3>3. QED
      BY <1>2, <1>7, <3>1, <3>2
  <2>2. ASSUME NEW i \in 1..Len(Q), NEW j \in 1..Len(Q), i < j PROVE Q[i][2] <= Q[j][2]
    <3>1. CASE j \in 1..Len(rest)
      <4>1. i \in 1..Len(rest)
        BY <1>2, <2>2, <3>1
      <4>2. QED
        BY <1>2, <1>6, <2>2, <3>1, <4>1
    <3>2. CASE j > Len(rest)
      <4>1. Q[j][2] = hop + 1
        BY <1>6, <1>7, <3>2
      <4>2. QED
        BY <2>1, <4>1
    <3>3. QED
      BY <1>2, <1>7, <3>1, <3>2
  <2>3. ASSUME Q # <<>>, NEW c \in W PROVE new[c] <= Q[1][2] + 1
    <3>1. hop <= Q[1][2] /\ Q[1][2] \in Nat
      BY <1>7, <2>1, <2>3
    <3>2. new[c] <= hop + 1 /\ new[c] \in Nat
      <4>1. hop \in Nat /\ \A b \in visited : lev[b] <= hop + 1 /\ lev[b] \in Nat
        BY <1>1, <1>2, <1>3
      <4> HIDE DEF hop
      <4>2. CASE c \in visited
        BY <1>12, <4>1, <4>2
      <4>3. CASE c \notin visited
        BY <1>12, <2>3, <4>1, <4>3
      <4>4. QED
        BY <4>2, <4>3
    <3> HIDE DEF hop
    <3>3. QED
      BY <1>2, <3>1, <3>2
  <2>4. QED
    BY <1>5, <1>6, <2>1, <2>2, <2>3 DEF InLine
<1>17. LookedBehind(new)'
  <2>1. ASSUME Cardinality(W) < world.size, NEW c \in W, new[c] < world.hops,
               \A i \in 1..Len(Q) : Q[i][1] # c, NEW n \in Behind(world, {c})
        PROVE  n \in W /\ new[n] <= new[c] + 1
    <3>1. c \in visited
      <4>1. SUFFICES ASSUME c \notin visited PROVE FALSE
        OBVIOUS
      <4>2. PICK j \in J : c = near[j]
        BY <1>8, <2>1, <4>1
      <4>3. PICK i \in 1..Len(Q) : Q[i] = <<near[j], hop + 1>>
        BY <1>6, <1>7
      <4>4. QED
        BY <2>1, <4>2, <4>3
    <3>2. new[c] = lev[c] /\ lev[c] \in Nat
      BY <1>3, <1>12, <3>1
    <3>3. CASE c = claim
      <4>1. PICK i \in DOMAIN near : n = near[i]
        BY <1>2, <2>1, <3>3 DEF Behind, ToSet
      <4>2. n \in world.relevant
        BY <2>1 DEF Behind
      <4>3. CASE n \in visited
        BY <1>1, <1>2, <1>12, <3>2, <3>3, <4>3
      <4>4. CASE n \notin visited
        <5>1. n \in W
          <6>1. \E j \in J : near[j] = near[i]
            BY <1>3, <2>1, <4>1, <4>2, <4>4, AllJoinUnlessFull DEF J, W
          <6>2. QED
            BY <1>9, <4>1, <6>1
        <5>2. new[n] = hop + 1
          BY <1>12, <4>4, <5>1
        <5>3. QED
          BY <1>2, <3>2, <3>3, <5>1, <5>2
      <4>5. QED
        BY <4>3, <4>4
    <3>4. CASE c # claim
      <4>1. ASSUME NEW i \in 1..Len(frontier) PROVE frontier[i][1] # c
        <5>1. CASE i = 1
          BY <3>4, <5>1
        <5>2. CASE i # 1
          <6>1. i - 1 \in 1..Len(rest) /\ rest[i - 1] = frontier[i]
            BY <1>2, <5>2
          <6>2. i - 1 \in 1..Len(Q)
            BY <1>2, <1>6, <1>7, <6>1
          <6>3. Q[i - 1] = rest[i - 1]
            BY <1>6, <6>1
          <6>4. QED
            BY <2>1, <6>1, <6>2, <6>3
        <5>3. QED
          BY <5>1, <5>2
      <4>2. n \in visited /\ lev[n] <= lev[c] + 1
        BY <2>1, <3>1, <3>2, <4>1 DEF Levelled, LookedBehind
      <4>3. QED
        BY <1>12, <3>2, <4>2
    <3>5. QED
      BY <3>3, <3>4
  <2>2. QED
    BY <1>5, <2>1 DEF LookedBehind
<1>18. QED
  BY <1>5, <1>14, <1>15, <1>16, <1>17 DEF Levelled

LEMMA TraversalIsKept ==
  ASSUME FoundInv, TraversalInv, Next
  PROVE  TraversalInv'
<1>1. world' = world /\ (stage = "seeding" => picked \in Seq(ToSet(picked)))
  BY DEF TraversalInv, Next, Step, Rest, vars, writingVars, ReadFails, Seed, SeedsAreFiltered, Traverse,
         SnapshotIsTaken, Cluster, ClustersAreKept, OutOfBudget, NoAnswer, Narrate, Compose,
         Verify, VerifyPanics
<1>2. CASE Seed
  <2>1. stage = "seeding" /\ stage' = stage /\ \E c : picked' = Append(picked, c)
    BY <1>2 DEF Seed, PickSeed
  <2>2. PICK c : picked' = Append(picked, c)
    BY <2>1
  <2> DEFINE D == ToSet(picked) \cup {c}
  <2>3. picked \in Seq(D)
    BY <1>1, <2>1
  <2>4. picked' \in Seq(D) /\ ToSet(picked') = D
    <3>1. c \in D /\ Len(picked) \in Nat /\ DOMAIN picked = 1..Len(picked) /\ ToSet(picked) \subseteq D
      BY <2>3
    <3>2. ToSet(picked) = {picked[i] : i \in 1..Len(picked)}
      BY <3>1 DEF ToSet
    <3> HIDE DEF D
    <3>3. /\ picked' \in Seq(D) /\ DOMAIN picked' = 1..(Len(picked) + 1)
          /\ picked'[Len(picked) + 1] = c
          /\ \A i \in 1..Len(picked) : picked'[i] = picked[i]
      BY <2>2, <2>3, <3>1
    <3>4. ToSet(picked') = {picked'[i] : i \in 1..(Len(picked) + 1)}
      BY <3>3 DEF ToSet
    <3>5. /\ \A i \in 1..(Len(picked) + 1) : i = Len(picked) + 1 \/ i \in 1..Len(picked)
          /\ Len(picked) + 1 \in 1..(Len(picked) + 1)
          /\ \A i \in 1..Len(picked) : i \in 1..(Len(picked) + 1)
      BY <3>1
    <3>6. \A x : x \in ToSet(picked') <=> x \in ToSet(picked) \cup {c}
      BY <3>2, <3>3, <3>4, <3>5
    <3>7. QED
      BY <3>3, <3>6 DEF D
  <2>5. QED
    BY <2>1, <2>4 DEF TraversalInv
<1>3. CASE SeedsAreFiltered
  <2>1. stage = "seeding"
    BY <1>3 DEF SeedsAreFiltered
  <2>2. CASE SeedFilter(picked) = <<>>
    BY <1>3, <2>2 DEF SeedsAreFiltered, Ended, TraversalInv
  <2>3. CASE SeedFilter(picked) # <<>>
    <3>1. StartTraversal(picked) /\ stage' = "traversing"
      BY <1>3, <2>3 DEF SeedsAreFiltered, Goes
    <3>2. \E lev \in [visited' -> 0..world'.hops] : Levelled(lev)'
      BY <1>1, <2>1, <3>1, TraversalStarts
    <3>3. QED
      BY <3>1, <3>2 DEF TraversalInv
  <2>4. QED
    BY <2>2, <2>3
<1>4. CASE Traverse
  <2>1. stage = "traversing" /\ stage' = stage /\ VisitFrontier
    BY <1>4 DEF Traverse
  <2>2. PICK lev \in [visited -> 0..world.hops] : Levelled(lev)
    BY <2>1 DEF TraversalInv
  <2>3. CASE Head(frontier)[2] >= world.hops
    <3>1. frontier # <<>> /\ seeds' = seeds /\ visited' = visited /\ frontier' = Tail(frontier)
      BY <2>1, <2>3 DEF VisitFrontier
    <3>2. Levelled(lev)'
      BY <1>1, <2>2, <2>3, <3>1, LastHopIsPassed
    <3>3. QED
      BY <1>1, <2>1, <2>2, <3>1, <3>2 DEF TraversalInv
  <2>4. CASE ~(Head(frontier)[2] >= world.hops)
    <3> DEFINE near == world.next[Head(frontier)[1]]
    <3>1. /\ frontier # <<>> /\ seeds' = seeds /\ Cardinality(visited) < world.size
          /\ visited' = visited \cup {near[i] : i \in Joining(near)}
          /\ frontier' = Enqueue(Tail(frontier), near, Head(frontier)[2])
      BY <2>1, <2>4 DEF VisitFrontier
    <3>2. Head(frontier)[2] < world.hops
      <4>1. Head(frontier)[2] \in Nat
        BY <2>2, <3>1, HeadLeaves DEF Levelled, InLine
      <4>2. world.hops \in Nat
        BY PipelineAssumption DEF FoundInv
      <4>3. QED
        BY <2>4, <4>1, <4>2
    <3> HIDE DEF near
    <3>3. \E new \in [visited' -> 0..world'.hops] : Levelled(new)'
      BY <1>1, <2>2, <3>1, <3>2, NeighboursAreMet DEF near
    <3>4. QED
      BY <2>1, <3>3 DEF TraversalInv
  <2>5. QED
    BY <2>3, <2>4
<1>5. CASE ~(Seed \/ SeedsAreFiltered \/ Traverse)
  <2>1. /\ stage' # "seeding"
        /\ stage' \in {"traversing", "clustering"} =>
             /\ stage \in {"traversing", "clustering"}
             /\ UNCHANGED <<seeds, visited, frontier>>
    BY <1>5 DEF Next, Step, Rest, vars, writingVars, seedingVars, ReadFails, SnapshotIsTaken, Cluster,
         ClustersAreKept, OutOfBudget, NoAnswer, Narrate, Compose, Verify, VerifyPanics, Goes, Ended,
         TryAgain, CallFails, Ends
  <2>2. ASSUME UNCHANGED <<seeds, visited, frontier>>, NEW lev, Levelled(lev) PROVE Levelled(lev)'
    BY <1>1, <2>2 DEF Levelled, Met, InLine, LookedBehind
  <2>3. QED
    BY <1>1, <2>1, <2>2 DEF TraversalInv
<1>6. QED
  BY <1>2, <1>3, <1>4, <1>5

LEMMA LouvainIsKept ==
  ASSUME FoundInv, LouvainInv, Next
  PROVE  LouvainInv'
<1> USE DEF LouvainInv
<1>1. CASE SnapshotIsTaken
  <2>1. CASE BeliefsAreReadable
    <3>1. foes' = NegativeEdges(world.edges) /\ louvain' = {} /\ stage' = "clustering"
      BY <1>1, <2>1 DEF SnapshotIsTaken, StartClusters, Goes
    <3>2. NegativeEdges(world.edges) \in SUBSET Pairs
      BY DEF NegativeEdges
    <3>3. QED
      BY <3>1, <3>2
  <2>2. CASE ~BeliefsAreReadable
    <3>1. stage = "traversing" /\ louvain' = louvain /\ stage' = "failed"
      BY <1>1, <2>2 DEF SnapshotIsTaken, Ended, clusteringVars
    <3>2. QED
      BY <3>1
  <2>3. QED
    BY <2>1, <2>2
<1>2. CASE Cluster
  <2>1. stage = "clustering" /\ stage' = stage
    BY <1>2 DEF Cluster
  <2>2. foes' = foes
    BY <1>2 DEF Cluster, ClusteringStep, VisitNode, NextPass, SeparateOnContradicts, MergeSmallest
  <2>3. \A c : Members(c) \in SUBSET Claims
    BY DEF Members, FoundInv
  <2>4. louvain' \in SUBSET (SUBSET Claims)
    <3>1. CASE SeparateOnContradicts
      BY <2>3, <3>1 DEF SeparateOnContradicts
    <3>2. CASE ~SeparateOnContradicts
      BY <1>2, <2>1, <3>2 DEF Cluster, ClusteringStep, VisitNode, NextPass, MergeSmallest
    <3>3. QED
      BY <3>1, <3>2
  <2>5. QED
    BY <2>1, <2>2, <2>4
<1>3. CASE ~(SnapshotIsTaken \/ Cluster)
  BY <1>3 DEF Next, Step, Rest, vars, writingVars, clusteringVars, ReadFails, Seed, SeedsAreFiltered,
         Traverse, ClustersAreKept, OutOfBudget, NoAnswer, Narrate, Compose, Verify, VerifyPanics,
         Goes, Ended, TryAgain, CallFails
<1>4. QED
  BY <1>1, <1>2, <1>3

LEMMA PartsAreKept ==
  ASSUME FoundInv, PartsInv, Next
  PROVE  PartsInv'
<1> SUFFICES ASSUME stage' = "clustering"
             PROVE  /\ DOMAIN comm' = visited'
                    /\ louvain' # {} => Partitions(parts', visited')
  BY DEF PartsInv, Partitions
<1>1. SnapshotIsTaken \/ Cluster
  BY DEF Next, Step, Rest, Ends, vars, ReadFails, Seed, SeedsAreFiltered, Traverse,
         ClustersAreKept, OutOfBudget, NoAnswer, Narrate, Compose, Verify, VerifyPanics,
         Goes, Ended, TryAgain, CallFails
<1>2. CASE SnapshotIsTaken
  BY <1>2 DEF SnapshotIsTaken, StartClusters, seedingVars, Ended
<1>3. CASE Cluster
  <2> USE <1>3 DEF Cluster, seedingVars
  <2>1. visited' = visited /\ DOMAIN comm = visited /\ (louvain # {} => Partitions(parts, visited))
    BY DEF PartsInv
  <2>2. CASE VisitNode
    BY <2>1, <2>2 DEF VisitNode
  <2>3. CASE NextPass
    BY <2>1, <2>3 DEF NextPass
  <2>4. CASE SeparateOnContradicts
    <3>1. louvain' = {Members(c) : c \in {comm[n] : n \in visited}}
          /\ parts' = UNION {SplitCluster(S) : S \in louvain'} /\ comm' = comm
      BY <2>4 DEF SeparateOnContradicts
    <3>2. Partitions(louvain', visited)
      BY <2>1, <3>1, CommunitiesPartition
    <3>3. visited \in SUBSET Claims
      BY DEF FoundInv
    <3>4. Partitions(parts', visited)
      BY <3>1, <3>2, <3>3, SplitsPartition
    <3>5. QED
      BY <2>1, <3>1, <3>4
  <2>5. CASE MergeSmallest
    <3> DEFINE c == Smallest(parts)
               d == Smallest(parts \ {c})
    <3>1. /\ louvain # {} /\ Cardinality(parts) > MaxClusters /\ comm' = comm
          /\ parts' = (parts \ {c, d}) \cup {c \cup d}
      BY <2>5 DEF MergeSmallest
    <3>2. Partitions(parts, visited) /\ visited \in SUBSET Claims
      BY <2>1, <3>1 DEF FoundInv
    <3>3. parts # {} /\ \A x : parts # {x}
      <4>1. MaxClusters \in Nat /\ MaxClusters >= 1
        BY ClusteringAssumption
      <4>2. ASSUME parts = {} PROVE FALSE
        BY <3>1, <4>1, <4>2, FS_EmptySet
      <4>3. ASSUME NEW x, parts = {x} PROVE FALSE
        <5>1. Cardinality({x}) = 1
          BY FS_Singleton
        <5>2. QED
          BY <3>1, <4>1, <4>3, <5>1
      <4>4. QED
        BY <4>2, <4>3
    <3>4. c \in parts
      BY <3>2, <3>3, SmallestIsOne
    <3>5. parts \ {c} # {}
      BY <3>3, <3>4
    <3>6. d \in parts \ {c}
      BY <3>2, <3>5, SmallestIsOne
    <3> HIDE DEF c, d
    <3>7. Partitions(parts', visited)
      BY <3>1, <3>2, <3>4, <3>6, MergesPartition
    <3>8. QED
      BY <2>1, <3>1, <3>7
  <2>6. QED
    BY <2>2, <2>3, <2>4, <2>5 DEF ClusteringStep
<1>4. QED
  BY <1>1, <1>2, <1>3

LEMMA ClustersAreKeptWhole ==
  ASSUME FoundInv, PartsInv, KeptInv, Next
  PROVE  KeptInv'
<1>1. CASE ClustersAreKept
  <2>1. Partitions(parts, visited) /\ visited \in SUBSET Claims
    BY <1>1 DEF ClustersAreKept, ClustersAreReady, PartsInv, FoundInv
  <2>2. clusters' = ByFirst(parts) /\ visited' = visited /\ Cardinality(parts) <= MaxClusters
    BY <1>1 DEF ClustersAreKept, ClustersAreReady, seedingVars
  <2>3. QED
    BY <2>1, <2>2, ByFirstOrders DEF KeptInv, ClustersPartition
<1>2. CASE ~ClustersAreKept
  <2>1. clusters' = clusters
    BY <1>2 DEF Next, Step, Rest, vars, writingVars, ReadFails, Seed, SeedsAreFiltered,
           Traverse, SnapshotIsTaken, Cluster, OutOfBudget, NoAnswer, Narrate, Compose,
           Verify, VerifyPanics
  <2>2. clusters = <<>> \/ visited' = visited
    BY <1>2 DEF FoundInv, Next, Step, Rest, vars, seedingVars, ReadFails, Seed, SeedsAreFiltered,
           Traverse, SnapshotIsTaken, Cluster, OutOfBudget, NoAnswer, Narrate, Compose,
           Verify, VerifyPanics
  <2>3. QED
    BY <2>1, <2>2 DEF KeptInv, ClustersPartition
<1>3. QED
  BY <1>1, <1>2

\* The steps that touch what is written, the calls or the end of the pass.
LEMMA QuietSteps ==
  ASSUME Next
  PROVE  \/ /\ UNCHANGED <<writingVars, world, stage, reason>>
         \/ /\ UNCHANGED <<cites, calls, attempt, own, world>>
            /\ stage \in {"seeding", "traversing", "clustering"}
            /\ \/ stage' = "failed" /\ reason' \in {"read", "empty", "unreadable"}
                  /\ clusters' = clusters
               \/ stage' \in {"traversing", "clustering"} /\ reason' = reason
                  /\ clusters' = clusters
               \/ stage' = "narrating" /\ reason' = reason
         \/ OutOfBudget \/ NoAnswer \/ Narrate \/ Compose \/ Verify \/ VerifyPanics
BY DEF Next, Step, Rest, vars, writingVars, ReadFails, Seed, SeedsAreFiltered, Traverse,
       SnapshotIsTaken, Cluster, ClustersAreKept, Goes, Ended

\* A call that ends in no answer leaves the prompt open or fails the pass.
LEMMA TriesAgain ==
  ASSUME NEW why, attempt \in 0..MaxRetries, TryAgain(why)
  PROVE  \/ attempt' = attempt + 1 /\ attempt' \in 0..MaxRetries /\ UNCHANGED <<stage, reason>>
         \/ attempt' = attempt /\ stage' = "failed" /\ reason' = why
BY PipelineAssumption DEF TryAgain, Ended

LEMMA CitesAreKept ==
  ASSUME FoundInv, PartsInv, KeptInv, CitesInv, Next
  PROVE  CitesInv'
<1> USE DEF CitesInv
<1>1. CASE UNCHANGED <<cites, clusters>> /\ (stage' = stage \/ stage' \notin {"composing", "verifying"})
  BY <1>1
<1>2. CASE ClustersAreKept
  <2>1. cites = <<>> /\ cites' = cites /\ stage' = "narrating"
    BY <1>2 DEF ClustersAreKept, FoundInv, Goes
  <2>2. Len(clusters') \in Nat
    BY ClustersAreKeptWhole DEF KeptInv
  <2>3. QED
    BY <2>1, <2>2
<1>3. CASE NoAnswer
  BY <1>1, <1>3 DEF NoAnswer, TryAgain, CallFails, Ended
<1>4. CASE Narrate
  <2>1. PICK a \in Narrations :
          IF NarrationFits(a, clusters[Len(cites) + 1])
          THEN /\ cites' = Append(cites, a.cited)
               /\ stage' = IF Len(cites') = Len(clusters) THEN "composing" ELSE "narrating"
          ELSE TryAgain("refused") /\ UNCHANGED cites
    BY <1>4 DEF Narrate
  <2>2. stage = "narrating" /\ Len(cites) < Len(clusters) /\ clusters' = clusters
    BY <1>4 DEF Narrate
  <2>3. CASE NarrationFits(a, clusters[Len(cites) + 1])
    <3>1. a.cited = clusters[Len(cites) + 1] /\ a.cited \in SUBSET (Claims \cup {Outsider})
      BY <2>3 DEF NarrationFits, Narrations
    <3>2. /\ cites' \in Seq(SUBSET (Claims \cup {Outsider})) /\ Len(cites') = Len(cites) + 1
          /\ \A i \in 1..Len(cites') :
               cites'[i] = IF i = Len(cites) + 1 THEN a.cited ELSE cites[i]
      BY <2>1, <2>3, <3>1
    <3>3. Len(clusters) \in Nat /\ Len(cites) \in Nat
      BY DEF KeptInv
    <3>4. QED
      BY <2>1, <2>2, <2>3, <3>1, <3>2, <3>3
  <2>4. CASE ~NarrationFits(a, clusters[Len(cites) + 1])
    BY <1>1, <2>1, <2>2, <2>4 DEF TryAgain, Ended
  <2>5. QED
    BY <2>3, <2>4
<1>5. CASE Compose
  BY <1>5 DEF Compose, TryAgain, Ended, Goes
<1>6. CASE ~(ClustersAreKept \/ NoAnswer \/ Narrate \/ Compose)
  BY <1>1, <1>6 DEF Next, Step, Rest, vars, writingVars, ReadFails, Seed, SeedsAreFiltered,
     Traverse, SnapshotIsTaken, Cluster, OutOfBudget, Verify, VerifyPanics, Goes, Ended
<1>7. QED
  BY <1>2, <1>3, <1>4, <1>5, <1>6

\* A rejection is judged on accepted summaries, which cite what they cover.
LEMMA ComposerIsKept ==
  ASSUME FoundInv, KeptInv, CitesInv, OnlyTheComposerIsRejected, Next
  PROVE  OnlyTheComposerIsRejected'
<1> USE DEF OnlyTheComposerIsRejected
<1>1. CASE Verify
  <2>1. stage = "verifying" /\ UNCHANGED <<own, clusters>>
        /\ (stage' = "rejected" => reason' = Verdict)
    BY <1>1 DEF Verify, writingVars, Ended
  <2>2. Len(cites) = Len(clusters) /\ cites = clusters
    BY <2>1 DEF CitesInv, KeptInv
  <2>3. UNION ToSet(cites) = MembersOf(clusters)
    BY <2>2 DEF MembersOf
  <2>4. Cited = own \cup MembersOf(clusters)
    BY <2>3 DEF Cited
  <2>5. MembersOf(clusters) \subseteq Cited
        /\ (Verdict = "outsider" => own \ MembersOf(clusters) # {})
    BY <2>4 DEF Verdict
  <2>6. Verdict # "uncited"
    BY <2>5 DEF Verdict
  <2>7. QED
    BY <2>1, <2>5, <2>6 DEF MembersOf
<1>2. CASE stage = "rejected"
  BY <1>2 DEF Next, Step, Rest, vars, writingVars, ReadFails, Seed, SeedsAreFiltered,
     Traverse, SnapshotIsTaken, Cluster, ClustersAreKept, OutOfBudget, NoAnswer, Narrate,
     Compose, Verify, VerifyPanics, MembersOf
<1>3. CASE stage # "rejected" /\ ~Verify
  <2>1. stage' # "rejected"
    BY <1>3 DEF Next, Step, Rest, vars, writingVars, ReadFails, Seed, SeedsAreFiltered,
       Traverse, SnapshotIsTaken, Cluster, ClustersAreKept, OutOfBudget, NoAnswer, Narrate,
       Compose, VerifyPanics, Goes, Ended, TryAgain, CallFails
  <2>2. QED
    BY <2>1
<1>4. QED
  BY <1>1, <1>2, <1>3

LEMMA CallsAreKept ==
  ASSUME FoundInv, KeptInv, CitesInv, CallsInv, Next
  PROVE  CallsInv'
<1> DEFINE R == MaxRetries + 1
           K == R * Answered
<1>1. /\ world' = world /\ world.budget \in Nat /\ MaxRetries \in Nat /\ Len(cites) \in Nat
      /\ Answered \in Nat
  <2>1. world' = world
    BY QuietSteps DEF OutOfBudget, NoAnswer, Narrate, Compose, Verify, VerifyPanics
  <2>2. QED
    BY <2>1, PipelineAssumption DEF FoundInv, CitesInv, Answered
<1>2. K \in Nat /\ R * (Answered + 1) = K + R
  BY <1>1
<1>3. /\ calls \in Nat /\ attempt \in 0..MaxRetries /\ calls <= world.budget
      /\ Answered + attempt <= calls
      /\ calls <= K + R /\ (stage # "failed" => calls <= K + attempt)
      /\ R \in Nat /\ R = MaxRetries + 1
  BY <1>1 DEF CallsInv
<1> HIDE DEF R, K
\* What has to hold afterwards, in these words.
<1>4. ASSUME NEW e, e = Answered',
             calls' \in Nat /\ attempt' \in 0..MaxRetries /\ calls' <= world.budget,
             e + attempt' <= calls',
             calls' <= R * e + R, stage' # "failed" => calls' <= R * e + attempt',
             stage' \in Written => attempt' = 0,
             stage' \in Stages => reason' = "none",
             reason' = "budget" => calls' = world.budget /\ stage' = "failed"
      PROVE  CallsInv'
  BY <1>1, <1>4 DEF CallsInv, R, Written, Stages
<1>5. CASE UNCHANGED <<writingVars, world, stage, reason>>
  BY <1>5 DEF CallsInv, writingVars, Answered
<1>6. CASE /\ UNCHANGED <<cites, calls, attempt, own, world>>
           /\ stage \in {"seeding", "traversing", "clustering"}
           /\ \/ stage' = "failed" /\ reason' \in {"read", "empty", "unreadable"}
              \/ stage' \in {"traversing", "clustering"} /\ reason' = reason
              \/ stage' = "narrating" /\ reason' = reason
  <2>1. Answered' = Answered
    BY <1>6 DEF Answered, Written
  <2>2. reason = "none"
    BY <1>6 DEF CallsInv, Stages
  <2>3. calls' <= K + R /\ (stage' # "failed" => calls' <= K + attempt')
    BY <1>2, <1>3, <1>6
  <2>4. QED
    BY <1>3, <1>4, <1>6, <2>1, <2>2, <2>3 DEF Written, Stages, K
<1>7. CASE OutOfBudget
  <2>1. /\ UNCHANGED <<cites, calls, attempt>> /\ stage' = "failed" /\ reason' = "budget"
        /\ stage \in {"narrating", "composing"} /\ calls >= world.budget
    BY <1>7 DEF OutOfBudget, writingVars, Ended
  <2>2. Answered' = Answered
    BY <2>1 DEF Answered, Written
  <2>3. calls' <= K + R /\ calls = world.budget
    BY <1>1, <1>2, <1>3, <2>1
  <2>4. QED
    BY <1>3, <1>4, <2>1, <2>2, <2>3 DEF Written, Stages, K
\* A call that is not answered as asked.
<1>8. ASSUME stage \in {"narrating", "composing"}, calls < world.budget, calls' = calls + 1,
             cites' = cites,
             \/ attempt' = attempt + 1 /\ attempt' \in 0..MaxRetries /\ UNCHANGED <<stage, reason>>
             \/ attempt' = attempt /\ stage' = "failed" /\ reason' # "budget"
      PROVE  CallsInv'
  <2>1. Answered' = Answered
    BY <1>8 DEF Answered, Written
  <2>2. reason = "none"
    BY <1>8 DEF CallsInv, Stages
  <2>3. calls' <= K + R /\ (stage' # "failed" => calls' <= K + attempt')
    BY <1>1, <1>2, <1>3, <1>8
  <2>4. calls' \in Nat /\ attempt' \in 0..MaxRetries /\ calls' <= world.budget
        /\ Answered + attempt' <= calls'
    BY <1>1, <1>3, <1>8
  <2>5. QED
    BY <1>4, <1>8, <2>1, <2>2, <2>3, <2>4 DEF Written, Stages, K
\* A call that is: the prompt is closed.
<1>9. ASSUME stage \in {"narrating", "composing"}, calls < world.budget, calls' = calls + 1,
             Answered' = Answered + 1, attempt' = 0, UNCHANGED reason, stage' # "failed"
      PROVE  CallsInv'
  <2>1. reason = "none"
    BY <1>9 DEF CallsInv, Stages
  <2>2. calls' <= K + R
    BY <1>1, <1>2, <1>3, <1>9
  <2>3. calls' \in Nat /\ attempt' \in 0..MaxRetries /\ calls' <= world.budget
        /\ Answered + 1 + attempt' <= calls'
    BY <1>1, <1>3, <1>9
  <2>4. calls' <= R * (Answered + 1) + R /\ calls' <= R * (Answered + 1) + attempt'
    BY <1>2, <1>3, <1>9, <2>2, <2>3
  <2>5. QED
    BY <1>4, <1>9, <2>1, <2>3, <2>4
<1>10. CASE NoAnswer
  <2>1. PICK o \in Outcomes :
          /\ Call(o)
          /\ IF o.kind = "ok" THEN o.value # "answer" /\ TryAgain("refused") ELSE CallFails(o)
    BY <1>10 DEF NoAnswer
  <2>2. stage \in {"narrating", "composing"} /\ calls < world.budget /\ calls' = calls + 1
        /\ cites' = cites
    BY <1>10, <2>1 DEF NoAnswer, Call
  <2>3. \/ TryAgain("refused") \/ TryAgain("malformed")
        \/ attempt' = attempt /\ stage' = "failed" /\ reason' = o.kind
    BY <2>1 DEF CallFails, Ended
  <2>4. \/ attempt' = attempt + 1 /\ attempt' \in 0..MaxRetries /\ UNCHANGED <<stage, reason>>
        \/ attempt' = attempt /\ stage' = "failed" /\ reason' # "budget"
    BY <1>3, <2>3, TriesAgain, OutcomeShapes
  <2>5. QED
    BY <1>8, <2>2, <2>4
<1>11. CASE Narrate
  <2>1. stage = "narrating" /\ calls < world.budget /\ calls' = calls + 1
    BY <1>11 DEF Narrate, Call
  <2>2. PICK a \in Narrations :
          IF NarrationFits(a, clusters[Len(cites) + 1])
          THEN /\ cites' = Append(cites, a.cited) /\ attempt' = 0 /\ UNCHANGED reason
               /\ stage' = IF Len(cites') = Len(clusters) THEN "composing" ELSE "narrating"
          ELSE TryAgain("refused") /\ UNCHANGED cites
    BY <1>11 DEF Narrate
  <2>3. CASE cites' = Append(cites, a.cited) /\ attempt' = 0 /\ UNCHANGED reason
             /\ stage' \in {"composing", "narrating"}
    <3>1. Len(cites') = Len(cites) + 1
      BY <2>2, <2>3 DEF CitesInv, Narrations
    <3>2. Answered' = Answered + 1
      BY <1>1, <2>1, <2>3, <3>1 DEF Answered, Written
    <3>3. QED
      BY <1>9, <2>1, <2>3, <3>2
  <2>4. CASE TryAgain("refused") /\ UNCHANGED cites
    BY <1>3, <1>8, <2>1, <2>4, TriesAgain
  <2>5. QED
    BY <2>2, <2>3, <2>4
<1>12. CASE Compose
  <2>1. stage = "composing" /\ calls < world.budget /\ calls' = calls + 1 /\ cites' = cites
    BY <1>12 DEF Compose, Call
  <2>2. \/ attempt' = 0 /\ stage' = "verifying" /\ UNCHANGED reason
        \/ TryAgain("refused")
    BY <1>12 DEF Compose, Goes
  <2>3. CASE attempt' = 0 /\ stage' = "verifying" /\ UNCHANGED reason
    <3>1. Answered' = Answered + 1
      BY <1>1, <2>1, <2>3 DEF Answered, Written
    <3>2. QED
      BY <1>9, <2>1, <2>3, <3>1
  <2>4. CASE TryAgain("refused")
    BY <1>3, <1>8, <2>1, <2>4, TriesAgain
  <2>5. QED
    BY <2>2, <2>3, <2>4
<1>13. CASE Verify
  <2>1. /\ UNCHANGED <<cites, calls, attempt>> /\ stage = "verifying"
        /\ stage' \in {"accepted", "rejected"}
        /\ reason' \in {"none", "uncited", "outsider", "bare PR"}
    BY <1>13 DEF Verify, writingVars, Ended, Verdict
  <2>2. Answered' = Answered /\ attempt = 0
    BY <2>1 DEF Answered, Written, CallsInv
  <2>3. QED
    BY <1>3, <1>4, <2>1, <2>2 DEF Stages, K
<1>14. CASE VerifyPanics
  <2>1. /\ UNCHANGED <<cites, calls, attempt>> /\ stage = "verifying"
        /\ stage' = "failed" /\ reason' = "panic"
    BY <1>14 DEF VerifyPanics, writingVars, Ended
  <2>2. Answered' = Len(cites) /\ Answered = Len(cites) + 1 /\ attempt = 0
    BY <1>1, <2>1 DEF Answered, Written, CallsInv
  <2>3. K = R * Len(cites) + R /\ R * Len(cites) \in Nat
    BY <1>1, <1>3, <2>2 DEF K
  <2>4. calls' <= R * Len(cites) + R /\ Len(cites) + attempt' <= calls'
    BY <1>1, <1>3, <2>1, <2>2, <2>3
  <2>5. QED
    BY <1>3, <1>4, <2>1, <2>2, <2>4 DEF Written, Stages
<1>15. QED
  BY <1>5, <1>6, <1>7, <1>10, <1>11, <1>12, <1>13, <1>14, QuietSteps

THEOREM PassInvHolds == Spec => []PassInv
<1>1. Init => PassInv
  BY PassInvInit
<1>2. PassInv /\ [Next]_vars => PassInv'
  <2>1. ASSUME PassInv, Next PROVE PassInv'
    BY <2>1, FoundIsKept, TraversalIsKept, LouvainIsKept, PartsAreKept, ClustersAreKeptWhole, CitesAreKept, CallsAreKept,
       ComposerIsKept DEF PassInv
  <2>2. ASSUME PassInv, UNCHANGED vars PROVE PassInv'
    <3> USE <2>2 DEF PassInv, vars, writingVars, seedingVars, clusteringVars
    <3>1. FoundInv' /\ CitesInv' /\ CallsInv'
      BY DEF FoundInv, CitesInv, CallsInv, Answered
    <3>2. PartsInv' /\ KeptInv' /\ OnlyTheComposerIsRejected'
      BY DEF PartsInv, Partitions, KeptInv, ClustersPartition, OnlyTheComposerIsRejected, MembersOf
    <3>3. TraversalInv' /\ LouvainInv'
      BY DEF TraversalInv, Levelled, Met, InLine, LookedBehind, LouvainInv
    <3>4. QED
      BY <3>1, <3>2, <3>3
  <2>3. QED
    BY <2>1, <2>2
<1>3. QED
  BY <1>1, <1>2, PTL DEF Spec

-----------------------------------------------------------------------------
\* What a synthesis stores as clusters partitions its snapshot within the cap,
\* whatever edges stage 3 is given and however Louvain ends.
THEOREM StoredClustersPartition == Spec => []ClustersPartition
<1>1. PassInv => ClustersPartition
  BY DEF PassInv, KeptInv
<1>2. QED
  BY <1>1, PassInvHolds, PTL

\* For every graph, every limit of hops and of claims and every order in which
\* the provider names neighbours: the snapshot is what is within reach.
THEOREM SnapshotsAreExact == Spec => []TraversalIsExact
<1>1. PassInv => TraversalIsExact
  BY LevelledIsNear DEF PassInv, TraversalInv, TraversalIsExact
<1>2. QED
  BY <1>1, PassInvHolds, PTL

\* For every set of contradictions: the greedy pass leaves at most half of them.
THEOREM SplitsHalveConflicts == Spec => []ConflictsAreHalved
<1>1. ASSUME PassInv PROVE ConflictsAreHalved
  <2>1. SUFFICES ASSUME NEW S \in louvain
                 PROVE  2 * (ConflictsWithin(Bipartition(S)[1]) + ConflictsWithin(Bipartition(S)[2]))
                          <= ConflictsWithin(S)
    BY DEF ConflictsAreHalved
  <2>2. foes \in SUBSET Pairs /\ S \in SUBSET Claims
    BY <1>1 DEF PassInv, LouvainInv
  <2>3. PICK side : /\ IsSiding(S, side)
                    /\ Bipartition(S)[1] = {n \in S : side[n] = 0}
                    /\ Bipartition(S)[2] = {n \in S : side[n] = 1}
    BY <2>2, BipartitionIsSiding
  <2>4. QED
    BY <2>2, <2>3, GreedyHalves
<1>2. QED
  BY <1>1, PassInvHolds, PTL

\* Every call is paid for and belongs to a prompt, for every budget and every
\* number of retries.
THEOREM CallsAddUp == Spec => []CallsAreAccounted
<1>1. ASSUME PassInv PROVE CallsAreAccounted
  <2> USE <1>1 DEF PassInv
  <2> DEFINE R == MaxRetries + 1
  <2>1. R \in Nat /\ R = MaxRetries + 1 /\ Answered \in Nat /\ attempt \in 0..MaxRetries
    BY PipelineAssumption DEF Answered, CitesInv, CallsInv
  <2>2. calls <= R * Answered + R /\ calls \in Nat
    BY DEF CallsInv
  <2> HIDE DEF R
  <2>3. R * (Answered + 1) = R * Answered + R /\ R * Answered \in Nat
    BY <2>1
  <2>4. calls <= R * (Answered + 1)
    BY <2>1, <2>2, <2>3
  <2>5. QED
    BY <2>4 DEF CallsAreAccounted, CallsInv, Answered, Written, R
<1>2. QED
  BY <1>1, PassInvHolds, PTL

\* Once the narrations are accepted only the composer's own text can be refused
\* for what it cites.
THEOREM ComposerAloneIsRejected == Spec => []OnlyTheComposerIsRejected
<1>1. PassInv => OnlyTheComposerIsRejected
  BY DEF PassInv
<1>2. QED
  BY <1>1, PassInvHolds, PTL
=============================================================================
