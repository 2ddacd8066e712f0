------------------------ MODULE Countersign_proofs ------------------------
(***************************************************************************)
(* Countersign for any number of writers, signatures and rows.  The chain  *)
(* follows the commits because of two facts that hold together: rows are   *)
(* stamped in the order of their commits (StampInv), and whoever holds the *)
(* lock has the latest row's signature in hand (DraftInv).                 *)
(***************************************************************************)
EXTENDS Countersign, TLAPS

\* While the clock runs forward, no row is stamped after it, and a row of this
\* chain is stamped after every row before it.
StampInv ==
  steps = 0 => /\ \A i \in 1..Len(rows) : rows[i].at <= clock
               /\ \A i \in old + 1 .. Len(rows) : \A j \in 1 .. i - 1 :
                    rows[j].at < rows[i].at

\* A stored hash is its own signature's.
LinkInv == \A i \in 1..Len(rows) : rows[i].link \in {None, rows[i].sig}

\* A row chains on nothing or on a row, one of this chain on an earlier one.
PrevInv ==
  \A i \in 1..Len(rows) :
    rows[i].prev # None => \E j \in 1..Len(rows) :
                             rows[j].sig = rows[i].prev /\ (i > old => j < i)

\* What the next row of the chain, in hand or recorded, must chain on when n
\* rows are before it.
Follows(prev, n) ==
  /\ n = 0 => prev = None
  /\ n > old => prev = rows[n].sig
  /\ n = old /\ n > 0 => \E h \in OldHeads : prev = rows[h].sig

ChainInv == steps = 0 => \A i \in old + 1 .. Len(rows) : Follows(rows[i].prev, i - 1)

DraftInv ==
  \A w \in Writers : pc[w] = "linked" =>
    /\ draft[w].prev # None => \E j \in 1..Len(rows) : rows[j].sig = draft[w].prev
    /\ steps = 0 => Follows(draft[w].prev, Len(rows))

IInv == /\ CountersignTypeOK /\ StampInv /\ LinkInv /\ PrevInv
        /\ ChainInv /\ DraftInv

-----------------------------------------------------------------------------
\* Type correctness: the first rows are rows.
LEMMA InitTyped == Init => CountersignTypeOK
<1> SUFFICES ASSUME Init PROVE CountersignTypeOK
  OBVIOUS
<1> USE CountersignAssumption
<1>1. old \in Nat /\ rows \in OldRows(old)
  BY DEF Init
<1>2. rows \in [1..old -> Row]
  BY <1>1 DEF OldRows, Row
<1>3. rows \in Seq(Row) /\ Len(rows) = old
  BY <1>1, <1>2
<1> QED
  BY <1>1, <1>3 DEF Init, CountersignTypeOK, Draft, Blank

\* What the type says of one row.
LEMMA RowAt ==
  ASSUME CountersignTypeOK, NEW i \in 1..Len(rows)
  PROVE  /\ rows[i] \in Row
         /\ rows[i].sig \in Sigs /\ rows[i].link \in Sigs \cup {None}
         /\ rows[i].at \in Nat
<1>1. rows[i] \in Row
  BY DEF CountersignTypeOK
<1> QED
  BY <1>1 DEF Row

\* A step of the sequence of rows: one more, or other links on the same ones.
LEMMA StepTyped == CountersignTypeOK /\ [Next]_vars => CountersignTypeOK'
<1> SUFFICES ASSUME CountersignTypeOK, [Next]_vars PROVE CountersignTypeOK'
  OBVIOUS
<1> USE CountersignAssumption DEF CountersignTypeOK
<1>1. ASSUME NEW w \in Writers, NEW s \in Sigs, Check(w, s) PROVE CountersignTypeOK'
  BY <1>1 DEF Check, Draft
<1>2. ASSUME NEW w \in Writers, ReadHead(w) PROVE CountersignTypeOK'
  <2>1. PICK p \in Sigs \cup {None} : draft' = [draft EXCEPT ![w].prev = p]
    <3>1. CASE rows = <<>> /\ draft' = [draft EXCEPT ![w].prev = None]
      BY <3>1
    <3>2. ASSUME NEW h \in Heads, draft' = [draft EXCEPT ![w].prev = LinkOf(h)]
          PROVE LinkOf(h) \in Sigs
      <4>1. rows[h] \in Row
        BY DEF Heads
      <4> QED
        BY <4>1 DEF LinkOf, Row
    <3> QED
      BY <1>2, <3>1, <3>2 DEF ReadHead
  <2>2. draft' \in [Writers -> Draft] /\ draft'[w].sig = draft[w].sig
    BY <2>1 DEF Draft
  <2>3. \A v \in Writers : draft'[v].sig = draft[v].sig
    BY <2>1, <2>2
  <2> QED
    BY <1>2, <2>2, <2>3 DEF ReadHead, LockFree
<1>3. ASSUME NEW w \in Writers, Record(w) PROVE CountersignTypeOK'
  <2>1. draft[w] \in Draft /\ draft[w].sig \in Sigs
    BY <1>3 DEF Record
  <2>2. rows' \in Seq(Row) /\ Len(rows') = Len(rows) + 1
    BY <1>3, <2>1 DEF Record, Row, Stored, Draft
  <2> QED
    BY <1>3, <2>2 DEF Record, Rests, Draft, Blank
<1>4. ASSUME NEW w \in Writers, GivesUp(w) PROVE CountersignTypeOK'
  BY <1>4 DEF GivesUp, Rests, Draft, Blank
<1>5. CASE Backfill
  <2>1. \A i \in 1..Len(rows) :
          [rows[i] EXCEPT !.link = IF @ = None THEN rows[i].sig ELSE @] \in Row
    <3> SUFFICES ASSUME NEW i \in 1..Len(rows), NEW l \in Sigs \cup {None}
                 PROVE  [rows[i] EXCEPT !.link = l] \in Row
      BY RowAt
    <3> QED
      BY RowAt DEF Row
  <2>2. rows' \in [1..Len(rows) -> Row]
    BY <1>5, <2>1 DEF Backfill
  <2>3. rows' \in Seq(Row) /\ Len(rows') = Len(rows)
    BY <2>2
  <2> QED
    BY <1>5, <2>3 DEF Backfill
<1>6. CASE ClaimTurns
  BY <1>6 DEF ClaimTurns
<1>7. CASE ClockStepsBack
  BY <1>7 DEF ClockStepsBack
<1>8. CASE UNCHANGED vars
  BY <1>8 DEF vars
<1> QED
  BY <1>1, <1>2, <1>3, <1>4, <1>5, <1>6, <1>7, <1>8 DEF Next, Request

\* Whatever the requests, the operator and the clock do, every variable keeps
\* its type and the claim's lock is with the one writer that read the head.
THEOREM CountersignTypeCorrect == Spec => []CountersignTypeOK
<1> QED
  BY InitTyped, StepTyped, PTL DEF Spec

-----------------------------------------------------------------------------
\* What a row has in hand once it is read: its signature, whatever is stored.
LEMMA LinkIsSignature ==
  ASSUME CountersignTypeOK, LinkInv, NEW h \in 1..Len(rows)
  PROVE  LinkOf(h) = rows[h].sig
BY DEF LinkInv, LinkOf

\* The head is the last row of the chain, or the head of the older rows.
LEMMA HeadIsLast ==
  ASSUME CountersignTypeOK, StampInv, steps = 0, NEW h \in Heads
  PROVE  /\ h \in 1..Len(rows)
         /\ Len(rows) > old => h = Len(rows)
         /\ Len(rows) = old => h \in OldHeads
<1>1. h \in 1..Len(rows) /\ \A i \in 1..Len(rows) : rows[i].at <= rows[h].at
  BY DEF Heads, CountersignTypeOK
<1>2. \A i \in 1..Len(rows) : rows[i].at \in Nat
  BY RowAt
<1>3. ASSUME Len(rows) > old, h # Len(rows) PROVE FALSE
  <2>1. Len(rows) \in old + 1 .. Len(rows) /\ h \in 1 .. Len(rows) - 1
    BY <1>1, <1>3 DEF CountersignTypeOK
  <2>2. rows[h].at < rows[Len(rows)].at
    BY <2>1 DEF StampInv
  <2> QED
    BY <1>1, <1>2, <2>1, <2>2
<1>4. Len(rows) = old => h \in OldHeads
  BY <1>1 DEF OldHeads
<1> QED
  BY <1>1, <1>3, <1>4

\* A step that leaves rows, clock and older rows as they are.
LEMMA RowsStay ==
  ASSUME StampInv, LinkInv, PrevInv, ChainInv, UNCHANGED <<rows, old, clock, steps>>
  PROVE  (StampInv /\ LinkInv /\ PrevInv /\ ChainInv)'
BY DEF StampInv, LinkInv, PrevInv, ChainInv, Follows, OldHeads

\* A step after which nobody has a head in hand that did not have it before.
LEMMA DraftsStay ==
  ASSUME CountersignTypeOK, DraftInv, UNCHANGED <<rows, old, steps>>,
         \A w \in Writers : pc'[w] = "linked" => pc[w] = "linked" /\ draft'[w] = draft[w]
  PROVE  DraftInv'
BY DEF DraftInv, Follows, OldHeads

LEMMA ReadHeadKeeps == ASSUME IInv, NEW w \in Writers, ReadHead(w) PROVE IInv'
<1> USE DEF IInv
<1>1. CountersignTypeOK'
  BY StepTyped DEF Next, Request
<1>2. UNCHANGED <<rows, old, clock, steps>>
  BY DEF ReadHead
<1>3. pc[w] = "checked" /\ pc' = [pc EXCEPT ![w] = "linked"]
  BY DEF ReadHead
<1>4. PICK p \in Sigs \cup {None} :
        /\ draft' = [draft EXCEPT ![w].prev = p]
        /\ \/ rows = <<>> /\ p = None
           \/ \E h \in Heads : p = rows[h].sig
  <2>1. CASE rows = <<>> /\ draft' = [draft EXCEPT ![w].prev = None]
    BY <2>1
  <2>2. ASSUME NEW h \in Heads, draft' = [draft EXCEPT ![w].prev = LinkOf(h)]
        PROVE  LinkOf(h) = rows[h].sig /\ rows[h].sig \in Sigs
    <3>1. h \in 1..Len(rows) /\ rows[h] \in Row
      BY DEF Heads, CountersignTypeOK
    <3> QED
      BY <3>1, LinkIsSignature DEF Row
  <2> QED
    BY <2>1, <2>2 DEF ReadHead
<1>5. draft'[w].prev = p /\ \A v \in Writers : v # w => draft'[v] = draft[v] /\ pc'[v] = pc[v]
  BY <1>3, <1>4 DEF CountersignTypeOK, Draft
<1>6. p # None => \E j \in 1..Len(rows) : rows[j].sig = p
  BY <1>4 DEF Heads, CountersignTypeOK
<1>7. steps = 0 => Follows(p, Len(rows))
  <2> SUFFICES ASSUME steps = 0 PROVE Follows(p, Len(rows))
    OBVIOUS
  <2>1. CASE rows = <<>> /\ p = None
    BY <2>1 DEF Follows, CountersignTypeOK
  <2>2. ASSUME NEW h \in Heads, p = rows[h].sig PROVE Follows(p, Len(rows))
    BY <2>2, HeadIsLast DEF Follows, CountersignTypeOK
  <2> QED
    BY <1>4, <2>1, <2>2
<1>8. DraftInv'
  BY <1>2, <1>5, <1>6, <1>7 DEF DraftInv, Follows, OldHeads
<1> QED
  BY <1>1, <1>2, <1>8, RowsStay

LEMMA RecordKeeps == ASSUME IInv, NEW w \in Writers, Record(w) PROVE IInv'
<1> USE DEF IInv
<1> DEFINE n == Len(rows)
<1>1. CountersignTypeOK'
  BY StepTyped DEF Next, Request
<1>2. /\ n \in Nat /\ old \in 0..n /\ Len(rows') = n + 1 /\ UNCHANGED <<old, steps>>
      /\ \A i \in 1..n : rows'[i] = rows[i]
      /\ rows'[n + 1] = [sig |-> draft[w].sig, link |-> draft[w].sig,
                         prev |-> draft[w].prev, at |-> clock + 1, by |-> w,
                         open |-> draft[w].open]
      /\ clock' = clock + 1 /\ clock \in Nat
  BY DEF Record, Stored, CountersignTypeOK
<1>3. pc[w] = "linked"
  BY DEF Record
<1>4. \A i \in 1..n : rows[i].at \in Nat
  BY RowAt
<1>5. StampInv'
  <2> SUFFICES ASSUME steps = 0
               PROVE  /\ \A i \in 1 .. n + 1 : rows'[i].at <= clock + 1
                      /\ \A i \in old + 1 .. n + 1 : \A j \in 1 .. i - 1 :
                           rows'[j].at < rows'[i].at
    BY <1>2 DEF StampInv
  <2>1. \A i \in 1..n : rows'[i].at = rows[i].at /\ rows'[i].at <= clock
    BY <1>2 DEF StampInv
  <2>2. rows'[n + 1].at = clock + 1
    BY <1>2
  <2>3. \A i \in 1 .. n + 1 : rows'[i].at <= clock + 1
    BY <1>2, <1>4, <2>1, <2>2
  <2>4. ASSUME NEW i \in old + 1 .. n, NEW j \in 1 .. i - 1
        PROVE  rows'[j].at < rows'[i].at
    <3>1. i \in 1..n /\ j \in 1..n /\ rows[j].at < rows[i].at
      BY <1>2 DEF StampInv
    <3> QED
      BY <2>1, <3>1
  <2>5. \A j \in 1..n : rows'[j].at < rows'[n + 1].at
    BY <1>2, <1>4, <2>1, <2>2
  <2>6. ASSUME NEW i \in old + 1 .. n + 1, NEW j \in 1 .. i - 1
        PROVE  rows'[j].at < rows'[i].at
    <3>1. CASE i = n + 1
      <4>1. j \in 1..n
        BY <1>2, <3>1
      <4> QED
        BY <2>5, <3>1, <4>1
    <3>2. CASE i # n + 1
      <4>1. i \in old + 1 .. n
        BY <1>2, <3>2
      <4> QED
        BY <2>4, <4>1
    <3> QED
      BY <3>1, <3>2
  <2> QED
    BY <2>3, <2>6
<1>6. LinkInv'
  BY <1>2 DEF LinkInv
<1>7. PrevInv'
  <2> SUFFICES ASSUME NEW i \in 1 .. n + 1, rows'[i].prev # None
               PROVE  \E j \in 1 .. n + 1 :
                        rows'[j].sig = rows'[i].prev /\ (i > old => j < i)
    BY <1>2 DEF PrevInv
  <2>1. CASE i \in 1..n
    BY <1>2, <2>1 DEF PrevInv
  <2>2. CASE i = n + 1
    BY <1>2, <1>3, <2>2 DEF DraftInv
  <2> QED
    BY <1>2, <2>1, <2>2
<1>8. OldHeads' = OldHeads /\ \A h \in OldHeads : rows'[h] = rows[h]
  BY <1>2 DEF OldHeads
<1>9. ChainInv'
  <2> SUFFICES ASSUME steps = 0, NEW i \in old + 1 .. n + 1
               PROVE  Follows(rows[i].prev, i - 1)'
    BY <1>2 DEF ChainInv
  <2>1. CASE i \in 1..n
    <3>1. Follows(rows[i].prev, i - 1)
      BY <2>1, <1>2 DEF ChainInv
    <3> QED
      BY <1>2, <1>8, <2>1, <3>1 DEF Follows
  <2>2. CASE i = n + 1
    <3>1. Follows(draft[w].prev, n)
      BY <1>3 DEF DraftInv
    <3> QED
      BY <1>2, <1>8, <2>2, <3>1 DEF Follows
  <2> QED
    BY <1>2, <2>1, <2>2
<1>10. DraftInv'
  <2>1. \A v \in Writers : pc'[v] # "linked"
    BY <1>3 DEF Record, Rests, CountersignTypeOK
  <2> QED
    BY <2>1 DEF DraftInv
<1> QED
  BY <1>1, <1>5, <1>6, <1>7, <1>9, <1>10

LEMMA BackfillKeeps == ASSUME IInv, Backfill PROVE IInv'
<1> USE DEF IInv
<1>1. CountersignTypeOK'
  BY StepTyped DEF Next
<1>2. /\ Len(rows) \in Nat /\ old \in 0..Len(rows)
      /\ UNCHANGED <<old, clock, pc, draft, steps>>
  BY DEF Backfill, CountersignTypeOK
<1>3. /\ Len(rows') = Len(rows)
      /\ \A i \in 1..Len(rows) : /\ rows'[i].sig = rows[i].sig
                                 /\ rows'[i].prev = rows[i].prev
                                 /\ rows'[i].at = rows[i].at
                                 /\ rows'[i].link \in {rows[i].link, rows[i].sig}
  <2>1. DOMAIN rows = 1..Len(rows) /\ \A i \in 1..Len(rows) : rows[i] \in Row
    BY DEF CountersignTypeOK
  <2>2. DOMAIN rows' = 1..Len(rows) /\ \A i \in 1..Len(rows) :
          rows'[i] = [rows[i] EXCEPT !.link = IF rows[i].link = None THEN rows[i].sig
                                                                     ELSE rows[i].link]
    BY <2>1 DEF Backfill
  <2>3. DOMAIN rows' = 1..Len(rows')
    BY <1>1 DEF CountersignTypeOK
  <2>4. Len(rows') = Len(rows)
    BY <1>1, <1>2, <2>2, <2>3 DEF CountersignTypeOK
  <2> QED
    BY <2>1, <2>2, <2>4 DEF Row
<1>4. StampInv' /\ LinkInv' /\ PrevInv'
  BY <1>2, <1>3 DEF StampInv, LinkInv, PrevInv
<1>5. OldHeads' = OldHeads
  BY <1>2, <1>3 DEF OldHeads
<1> QED
  <2>1. ChainInv'
    <3> SUFFICES ASSUME steps = 0, NEW i \in old + 1 .. Len(rows)
                 PROVE  Follows(rows[i].prev, i - 1)'
      BY <1>2, <1>3 DEF ChainInv
    <3>1. Follows(rows[i].prev, i - 1) /\ i - 1 \in 0..Len(rows) /\ rows'[i].prev = rows[i].prev
      BY <1>2, <1>3 DEF ChainInv
    <3> QED
      BY <1>2, <1>3, <1>5, <3>1 DEF Follows, OldHeads
  <2>2. DraftInv'
    BY <1>2, <1>3, <1>5 DEF DraftInv, Follows, OldHeads
  <2> QED
    BY <1>1, <1>4, <2>1, <2>2

LEMMA StepKeeps == IInv /\ [Next]_vars => IInv'
<1> SUFFICES ASSUME IInv, [Next]_vars PROVE IInv'
  OBVIOUS
<1>1. CountersignTypeOK'
  BY StepTyped DEF IInv
<1>2. ASSUME NEW w \in Writers, NEW s \in Sigs, Check(w, s) PROVE IInv'
  <2>1. \A v \in Writers : pc'[v] = "linked" => pc[v] = "linked" /\ draft'[v] = draft[v]
    BY <1>2 DEF Check, IInv, CountersignTypeOK
  <2> QED
    BY <1>1, <1>2, <2>1, RowsStay, DraftsStay DEF IInv, Check
<1>3. ASSUME NEW w \in Writers, GivesUp(w) PROVE IInv'
  <2>1. \A v \in Writers : pc'[v] = "linked" => pc[v] = "linked" /\ draft'[v] = draft[v]
    BY <1>3 DEF GivesUp, Rests, IInv, CountersignTypeOK
  <2> QED
    BY <1>1, <1>3, <2>1, RowsStay, DraftsStay DEF IInv, GivesUp
<1>4. CASE ClaimTurns
  BY <1>1, <1>4, RowsStay, DraftsStay DEF IInv, ClaimTurns
<1>5. CASE ClockStepsBack
  <2>1. steps' # 0 /\ UNCHANGED <<rows, old, pc, draft>>
    BY <1>5 DEF ClockStepsBack, IInv, CountersignTypeOK
  <2> QED
    BY <1>1, <2>1 DEF IInv, StampInv, LinkInv, PrevInv, ChainInv, DraftInv
<1>6. CASE UNCHANGED vars
  BY <1>1, <1>6, RowsStay, DraftsStay DEF IInv, vars
<1> QED
  BY <1>2, <1>3, <1>4, <1>5, <1>6, ReadHeadKeeps, RecordKeeps, BackfillKeeps
     DEF Next, Request

LEMMA InitKeeps == Init => IInv
<1> SUFFICES ASSUME Init PROVE IInv
  OBVIOUS
<1>1. CountersignTypeOK
  BY InitTyped
<1>2. old \in Nat /\ Len(rows) = old /\ rows \in OldRows(old) /\ clock = old
  <2>1. old \in Nat /\ rows \in OldRows(old) /\ clock = old
    BY CountersignAssumption DEF Init
  <2> QED
    BY <1>1, <2>1 DEF OldRows, CountersignTypeOK
<1>3. \A i \in 1..old : /\ rows[i].at \in 1..old /\ rows[i].link = None
                        /\ rows[i].prev \in {None} \cup {rows[j].sig : j \in 1..old}
  BY <1>2 DEF OldRows
<1>4. StampInv /\ LinkInv /\ PrevInv /\ ChainInv
  BY <1>2, <1>3 DEF StampInv, LinkInv, PrevInv, ChainInv
<1>5. DraftInv
  BY DEF Init, DraftInv
<1> QED
  BY <1>1, <1>4, <1>5 DEF IInv

\* Every reachable state satisfies the inductive invariant.
LEMMA Invariance == Spec => []IInv
<1> QED
  BY InitKeeps, StepKeeps, PTL DEF Spec

-----------------------------------------------------------------------------
\* As long as the clock runs forward, the chain of a claim never forks and
\* skips nobody: every row chains on the row committed before it.
THEOREM ChainOrderHolds == Spec => []ChainIsCommitOrder
<1>1. IInv => ChainIsCommitOrder
  BY DEF IInv, CountersignTypeOK, ChainInv, Follows, ChainIsCommitOrder
<1> QED
  BY <1>1, Invariance, PTL

\* Whatever the clock does, no link dangles and no stored hash is another's.
THEOREM LinksStayWhole == Spec => []LinksAreWhole
<1>1. IInv => LinksAreWhole
  <2> SUFFICES ASSUME IInv PROVE LinksAreWhole
    OBVIOUS
  <2>1. DOMAIN rows = 1..Len(rows)
    BY DEF IInv, CountersignTypeOK
  <2> QED
    BY <2>1 DEF IInv, LinkInv, PrevInv, LinksAreWhole
<1> QED
  BY <1>1, Invariance, PTL

\* Once the head carries its hash it always will, so nobody is locked out again.
THEOREM LockoutsEnd == Spec => LockoutEnds
<1> DEFINE Linked == \A h \in Heads : rows[h].link # None
<1>1. IInv /\ IInv' /\ [Next]_vars =>
        [steps' = 0 /\ (\A h \in Heads : rows[h].link # None)
          => (\A h \in Heads : rows[h].link # None)']_vars
  <2> SUFFICES ASSUME IInv, IInv', [Next]_vars, steps' = 0, Linked
               PROVE  Linked'
    BY DEF vars
  <2>1. ASSUME NEW w \in Writers, Record(w) PROVE Linked'
    <3>1. Len(rows') = Len(rows) + 1 /\ rows'[Len(rows) + 1].link = draft[w].sig /\ old' = old
      BY <2>1 DEF Record, Stored, IInv, CountersignTypeOK
    <3>2. draft[w].sig # None
      BY <2>1, CountersignAssumption DEF Record, IInv, CountersignTypeOK
    <3>3. \A h \in Heads' : h = Len(rows) + 1
      <4>1. /\ DOMAIN rows' = 1 .. Len(rows) + 1 /\ Len(rows) \in Nat
            /\ \A i \in 1..Len(rows) : rows'[i] = rows[i]
            /\ rows'[Len(rows) + 1].at = clock + 1 /\ clock \in Nat
        BY <2>1 DEF Record, IInv, CountersignTypeOK
      <4>2. \A i \in 1..Len(rows) : rows[i].at \in Nat /\ rows[i].at <= clock
        BY <2>1, RowAt DEF IInv, StampInv, Record
      <4>3. SUFFICES ASSUME NEW h \in Heads', h # Len(rows) + 1 PROVE FALSE
        OBVIOUS
      <4>4. h \in 1..Len(rows) /\ rows'[Len(rows) + 1].at <= rows'[h].at
        BY <4>1, <4>3 DEF Heads
      <4> QED
        BY <4>1, <4>2, <4>4
    <3> QED
      BY <3>1, <3>2, <3>3
  <2>2. CASE Backfill
    <3>1. DOMAIN rows' = DOMAIN rows /\ \A i \in DOMAIN rows : rows[i] \in Row
      BY <2>2 DEF Backfill, IInv, CountersignTypeOK
    <3>2. \A i \in DOMAIN rows : rows'[i].link # None
      BY <2>2, <3>1, CountersignAssumption DEF Backfill, Row
    <3> QED
      BY <3>1, <3>2 DEF Heads
  <2>3. CASE UNCHANGED rows
    BY <2>3 DEF Heads
  <2> QED
    BY <2>1, <2>2, <2>3
       DEF Next, Request, Check, ReadHead, GivesUp, ClaimTurns, ClockStepsBack, vars
<1> QED
  BY <1>1, Invariance, PTL DEF Spec, LockoutEnds
=============================================================================
