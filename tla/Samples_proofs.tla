--------------------------- MODULE Samples_proofs ---------------------------
(***************************************************************************)
(* What holds of samples for every number of groups, claims, samples and   *)
(* open requests.  Both invariants speak of committed rows, but a sweep    *)
(* can commit or die at any time: SamplesInv states them of the committed  *)
(* rows and of the rows as the sweep has narrowed them, and says what is   *)
(* known of an insert that has run and is not committed.                   *)
(***************************************************************************)
EXTENDS Samples, TLAPS

\* Ids are handed out in order, and a parent is there before its child.
LineageOK ==
  /\ \A s \in There, t \in Samples : t < s => t \in There
  /\ \A s \in There : sample[s].parent # 0 =>
       sample[s].parent \in There /\ sample[s].parent < s

\* Everything that refers to a sample refers to one that is there.
Refers(q) == q.at \in There \cup {0} /\ (q.op # "create" => q.at # 0)

RefersOK ==
  /\ Narrowed \subseteq There
  /\ \A x \in rows : x.on \in There
  /\ \A r \in Requests : AtWork(r) => Refers(open[r])

\* ChildrenOfGroupFollow, and the same of the pairs the sweep would commit.
SweepFollows ==
  \A s \in There \ strays :
    LET p == sample[s].parent
    IN  p # 0 /\ SweepPair(p).vis = "group" => SweepPair(s) = SweepPair(p)

\* A derived row on a narrowed sample is narrowed with it.
SweepReaches ==
  Sweeping => \A x \in rows : ~x.missed /\ x.on \in Narrowed => x \in tick.rows

\* An insert that has run agrees with the committed sample, unless a
\* narrowing ran beside it.
Agrees(q) ==
  q.op # "status" /\ q.written /\ ~q.missed =>
    /\ q.at \notin Narrowed
    /\ \/ q.op = "create" /\ q.at = 0
       \/ q.pair = sample[q.at].pair
       \/ q.op = "create" /\ sample[q.at].pair.vis # "group"

InsertsAgree == \A r \in Requests : AtWork(r) => Agrees(open[r])

SamplesInv ==
  /\ SamplesTypeOK /\ LineageOK /\ RefersOK
  /\ ChildrenOfGroupFollow /\ SweepFollows
  /\ DerivedFollowSample /\ SweepReaches /\ InsertsAgree
-----------------------------------------------------------------------------
\* What the line of s is: s, and samples that follow their parent in it.
LEMMA LineIsClosed ==
  ASSUME NEW s \in There
  PROVE  /\ s \in Line(s) /\ Line(s) \subseteq There
         /\ \A x \in There : Follows(x, Line(s)) => x \in Line(s)
<1>1. s \in Line(s) /\ Line(s) \subseteq There
  BY DEF Line
<1>2. ASSUME NEW x \in There, Follows(x, Line(s)), NEW L \in SUBSET There,
             s \in L, \A y \in There : Follows(y, L) => y \in L
      PROVE  x \in L
  <2>1. Line(s) \subseteq L
    BY <1>2 DEF Line
  <2>2. Follows(x, L)
    BY <1>2, <2>1 DEF Follows
  <2>3. QED
    BY <1>2, <2>2
<1>3. ASSUME NEW x \in There, Follows(x, Line(s)) PROVE x \in Line(s)
  BY <1>2, <1>3 DEF Line
<1>4. QED
  BY <1>1, <1>3

\* Line(s) is the smallest such set: without x it would be closed as well.
LEMMA LineFollows ==
  ASSUME NEW s \in There, NEW x \in Line(s), x # s
  PROVE  Follows(x, Line(s))
<1> SUFFICES ASSUME ~Follows(x, Line(s)) PROVE FALSE
  OBVIOUS
<1> DEFINE L == Line(s) \ {x}
<1>1. L \in SUBSET There /\ s \in L
  BY LineIsClosed
<1>2. ASSUME NEW y \in There, Follows(y, L) PROVE y \in L
  <2>1. Follows(y, Line(s))
    BY <1>2 DEF Follows
  <2>2. QED
    BY <2>1, LineIsClosed
<1>3. x \in L
  <2> HIDE DEF L
  <2>1. QED
    BY <1>1, <1>2 DEF Line
<1>4. QED
  BY <1>3

\* Nothing in the line of s is older than s.
LEMMA LineIsYounger ==
  ASSUME SamplesTypeOK, LineageOK, NEW s \in There, NEW x \in Line(s)
  PROVE  x >= s
<1> DEFINE L == {y \in There : y >= s}
<1>1. L \in SUBSET There /\ s \in L
  BY SamplesAssumption DEF There, Samples
<1>2. ASSUME NEW y \in There, Follows(y, L) PROVE y \in L
  <2>1. sample[y].parent \in There /\ sample[y].parent >= s
    BY <1>2 DEF Follows
  <2>2. sample[y].parent < y
    BY <2>1, SamplesAssumption DEF LineageOK, There, Samples
  <2>3. y >= s
    BY <2>1, <2>2, SamplesAssumption DEF There, Samples
  <2>4. QED
    BY <2>3
<1>3. x \in L
  <2> HIDE DEF L
  <2>1. QED
    BY <1>1, <1>2 DEF Line
<1>4. QED
  BY <1>3

-----------------------------------------------------------------------------
\* When no sweep is at work nothing is narrowed but what is committed.
LEMMA NoSweep ==
  ASSUME ~Sweeping
  PROVE  Narrowed = {} /\ \A s : SweepPair(s) = sample[s].pair
BY DEF Narrowed, SweepPair

\* A step that touches neither samples nor derived rows keeps what is said of
\* them and of the requests it leaves alone.
LEMMA Framed ==
  ASSUME SamplesInv, UNCHANGED <<sample, rows, strays>>,
         \/ Narrowed' = Narrowed /\ (Sweeping' => Sweeping /\ tick'.rows = tick.rows)
         \/ Narrowed' = {}
  PROVE  /\ LineageOK' /\ ChildrenOfGroupFollow' /\ SweepFollows'
         /\ DerivedFollowSample' /\ SweepReaches'
         /\ (Narrowed \subseteq There)' /\ (\A x \in rows : x.on \in There)'
         /\ \A q : Refers(q) => Refers(q)'
         /\ \A q : Agrees(q) => Agrees(q)'
<1>1. There' = There
  BY DEF There
<1>2. LineageOK' /\ (\A x \in rows : x.on \in There)' /\ DerivedFollowSample'
  BY <1>1 DEF SamplesInv, LineageOK, RefersOK, DerivedFollowSample
<1>3. ChildrenOfGroupFollow'
  BY <1>1 DEF SamplesInv, ChildrenOfGroupFollow
<1>4. SweepFollows'
  <2>1. CASE Narrowed' = Narrowed
    BY <1>1, <2>1 DEF SamplesInv, SweepFollows, SweepPair
  <2>2. CASE Narrowed' = {}
    BY <1>3, <2>2 DEF ChildrenOfGroupFollow, SweepFollows, SweepPair
  <2>3. QED
    BY <2>1, <2>2
<1>5. (Narrowed \subseteq There)' /\ SweepReaches'
  BY <1>1 DEF SamplesInv, RefersOK, SweepReaches
<1>6. \A q : (Refers(q) => Refers(q)') /\ (Agrees(q) => Agrees(q)')
  BY <1>1 DEF Refers, Agrees
<1>7. QED
  BY <1>2, <1>3, <1>4, <1>5, <1>6

\* What a request may become.
Fits(q) == q = Done \/ (q \in Work /\ Refers(q) /\ Agrees(q))

\* A request is asked, writes or ends, and nothing is committed.
LEMMA OneRequest ==
  ASSUME SamplesInv, NEW r \in Requests, NEW q,
         open' = [open EXCEPT ![r] = q],
         UNCHANGED <<claims, sample, rows, tick, strays>>,
         Fits(q)
  PROVE  SamplesInv'
<1>1. Narrowed' = Narrowed /\ Sweeping' = Sweeping
  BY DEF Narrowed, Sweeping
<1>2. SamplesTypeOK'
  BY DEF SamplesInv, SamplesTypeOK, Fits
<1>3. ASSUME NEW p \in Requests, AtWork(p)'
      PROVE  Refers(open[p])' /\ Agrees(open[p])'
  <2>1. CASE p = r
    <3>1. open'[p] = q /\ q # Done
      BY <1>3, <2>1 DEF SamplesInv, SamplesTypeOK, AtWork
    <3>2. QED
      BY <3>1, <1>1, Framed DEF Fits, Refers, Agrees, There
  <2>2. CASE p # r
    <3>1. open'[p] = open[p] /\ AtWork(p)
      BY <1>3, <2>2 DEF SamplesInv, SamplesTypeOK, AtWork
    <3>2. Refers(open[p]) /\ Agrees(open[p])
      BY <3>1 DEF SamplesInv, RefersOK, InsertsAgree
    <3>3. QED
      BY <3>1, <3>2, <1>1 DEF Refers, Agrees, There
  <2>3. QED
    BY <2>1, <2>2
<1>4. RefersOK' /\ InsertsAgree'
  BY <1>1, <1>3, Framed DEF RefersOK, InsertsAgree
<1>5. QED
  BY <1>1, <1>2, <1>4, Framed DEF SamplesInv

\* What a caller may declare is an owner and a visibility.
LEMMA Declares ==
  ASSUME SamplesTypeOK, NEW W \in Callers
  PROVE  /\ RootOwnership(W) \subseteq Pairs
         /\ \A p \in {0} \cup There : DeclaredPairs(W, p) \subseteq Pairs
         /\ \A s \in There : /\ sample[s] \in SampleRows /\ sample[s].pair \in Pairs
                             /\ ObservationDecls(W, s) \subseteq Pairs
<1>1. RootOwnership(W) \subseteq Pairs
  BY SamplesAssumption DEF RootOwnership, Pairs
<1>2. \A s \in There : sample[s] \in SampleRows /\ sample[s].pair \in Pairs
  BY DEF SamplesTypeOK, There, SampleRows
<1>3. \A p \in {0} \cup There : DeclaredPairs(W, p) \subseteq Pairs
  BY <1>1 DEF DeclaredPairs
<1>4. \A s \in There : ObservationDecls(W, s) \subseteq Pairs
  BY <1>2, SamplesAssumption DEF ObservationDecls, Pair, Pairs
<1>5. QED
  BY <1>1, <1>2, <1>3, <1>4

LEMMA Asking ==
  ASSUME SamplesInv, NEW r \in Requests,
         AskCreate(r) \/ AskObserve(r) \/ AskBlob(r) \/ AskStatus(r)
  PROVE  SamplesInv'
<1> USE DEF Asks
<1>t. SamplesTypeOK /\ There \subseteq Samples /\ 0 \notin Samples /\ Samples \subseteq 0..N
  BY SamplesAssumption DEF SamplesInv, There, Samples
<1>1. CASE AskCreate(r)
  <2>1. PICK W \in Callers, p \in {0} \cup There, pair \in Pairs :
          Asks(r, [op |-> "create", by |-> W, at |-> p, pair |-> pair,
                   written |-> FALSE, missed |-> FALSE])
    BY <1>1, <1>t, Declares DEF AskCreate
  <2> DEFINE q == [op |-> "create", by |-> W, at |-> p, pair |-> pair,
                   written |-> FALSE, missed |-> FALSE]
  <2>2. q \in Creating
    BY <1>t, Declares, SamplesAssumption DEF Creating
  <2>3. Refers(q) /\ Agrees(q)
    BY DEF Refers, Agrees
  <2> HIDE DEF q
  <2>4. QED
    BY <2>1, <2>2, <2>3, OneRequest DEF q, Fits, Work
<1>2. CASE AskObserve(r)
  <2>1. PICK W \in Callers, s \in There, c \in Claims, decl \in Pairs :
          Asks(r, [op |-> "observe", by |-> W, at |-> s, claim |-> c, claimPair |-> decl,
                   pair |-> sample[s].pair, written |-> FALSE, missed |-> FALSE])
    BY <1>2, <1>t, Declares DEF AskObserve
  <2> DEFINE q == [op |-> "observe", by |-> W, at |-> s, claim |-> c, claimPair |-> decl,
                   pair |-> sample[s].pair, written |-> FALSE, missed |-> FALSE]
  <2>2. q \in Observing
    BY <1>t, Declares DEF Observing
  <2>3. Refers(q) /\ Agrees(q)
    BY <1>t DEF Refers, Agrees
  <2> HIDE DEF q
  <2>4. QED
    BY <2>1, <2>2, <2>3, OneRequest DEF q, Fits, Work
<1>3. CASE AskBlob(r)
  <2>1. PICK W \in Callers, s \in There :
          Asks(r, [op |-> "blob", by |-> W, at |-> s, claim |-> None,
                   pair |-> sample[s].pair, written |-> FALSE, missed |-> FALSE])
    BY <1>3 DEF AskBlob
  <2> DEFINE q == [op |-> "blob", by |-> W, at |-> s, claim |-> None,
                   pair |-> sample[s].pair, written |-> FALSE, missed |-> FALSE]
  <2>2. q \in Storing
    BY <1>t, Declares DEF Storing
  <2>3. Refers(q) /\ Agrees(q)
    BY <1>t DEF Refers, Agrees
  <2> HIDE DEF q
  <2>4. QED
    BY <2>1, <2>2, <2>3, OneRequest DEF q, Fits, Work
<1>4. CASE AskStatus(r)
  <2>1. PICK W \in Callers, s \in There, to \in Targets :
          Asks(r, [op |-> "status", by |-> W, at |-> s, to |-> to, written |-> FALSE])
    BY <1>4 DEF AskStatus
  <2> DEFINE q == [op |-> "status", by |-> W, at |-> s, to |-> to, written |-> FALSE]
  <2>2. q \in Setting
    BY <1>t DEF Setting
  <2>3. Refers(q) /\ Agrees(q)
    BY <1>t DEF Refers, Agrees
  <2> HIDE DEF q
  <2>4. QED
    BY <2>1, <2>2, <2>3, OneRequest DEF q, Fits, Work
<1>5. QED
  BY <1>1, <1>2, <1>3, <1>4

LEMMA Ending ==
  ASSUME SamplesInv, NEW r \in Requests, Drop(r)
  PROVE  SamplesInv'
<1>1. open' = [open EXCEPT ![r] = Done] /\ UNCHANGED <<claims, sample, rows, tick, strays>>
  BY DEF Drop, Ends
<1>2. Fits(Done)
  BY DEF Fits
<1>3. QED
  BY <1>1, <1>2, OneRequest

\* What the statement of an insert leaves: the request, written, with the
\* pair the trigger let through or put there.
LEMMA Writing ==
  ASSUME SamplesInv, NEW r \in Requests,
         WriteSample(r) \/ WriteObservation(r) \/ WriteBlob(r)
  PROVE  SamplesInv'
<1>t. /\ open[r] \in Work /\ Refers(open[r])
      /\ There \subseteq Samples
      /\ \A s \in There : sample[s].pair \in Pairs
  BY DEF SamplesInv, SamplesTypeOK, WriteSample, WriteObservation, WriteBlob, AtWork,
         RefersOK, There, SampleRows
<1>1. CASE WriteSample(r)
  <2> DEFINE q == [open[r] EXCEPT !.written = TRUE, !.missed = @ \/ open[r].at \in Narrowed]
  <2>1. open[r] \in Creating
    BY <1>1, <1>t DEF WriteSample, Work, Observing, Storing, Setting
  <2>2. q \in Creating /\ q.at = open[r].at /\ q.op = "create" /\ q.pair = open[r].pair
    BY <2>1 DEF Creating
  <2>3. Refers(q)
    BY <1>t, <2>1, <2>2 DEF Refers, Creating
  <2>4. ~q.missed => q.at \notin Narrowed
    BY <2>1 DEF Creating
  <2>5. Agrees(q)
    BY <1>1, <2>2, <2>4 DEF WriteSample, ParentAllows, Agrees
  <2>6. open' = [open EXCEPT ![r] = q] /\ UNCHANGED <<claims, sample, rows, tick, strays>>
    BY <1>1 DEF WriteSample, Writes
  <2> HIDE DEF q
  <2>7. QED
    BY <2>2, <2>3, <2>5, <2>6, OneRequest DEF Fits, Work
<1>2. CASE WriteObservation(r)
  <2>1. open[r] \in Observing
    BY <1>2, <1>t DEF WriteObservation, Work, Creating, Storing, Setting
  <2>2. PICK pair \in Pairs :
          Writes(r, [open[r] EXCEPT !.claimPair = pair, !.pair = PairInherited(r)])
    BY <1>2, <2>1 DEF WriteObservation, SamplesInv, SamplesTypeOK, Observing
  <2> DEFINE w == [open[r] EXCEPT !.claimPair = pair, !.pair = PairInherited(r)]
             q == [w EXCEPT !.written = TRUE, !.missed = @ \/ w.at \in Narrowed]
  <2>3. open[r].at \in There
    BY <1>t, <2>1 DEF Refers, Observing
  <2>4. q \in Observing /\ q.at = open[r].at /\ q.pair = sample[open[r].at].pair
    BY <1>t, <2>1, <2>3 DEF Observing, PairInherited
  <2>5. ~q.missed => q.at \notin Narrowed
    BY <2>1 DEF Observing
  <2>6. Refers(q) /\ Agrees(q)
    BY <1>t, <2>1, <2>4, <2>5 DEF Refers, Agrees, Observing
  <2>7. open' = [open EXCEPT ![r] = q] /\ UNCHANGED <<claims, sample, rows, tick, strays>>
    BY <1>2, <2>2 DEF WriteObservation, Writes
  <2> HIDE DEF q
  <2>8. QED
    BY <2>4, <2>6, <2>7, OneRequest DEF Fits, Work
<1>3. CASE WriteBlob(r)
  <2> DEFINE w == [open[r] EXCEPT !.pair = PairInherited(r)]
             q == [w EXCEPT !.written = TRUE, !.missed = @ \/ w.at \in Narrowed]
  <2>1. open[r] \in Storing
    BY <1>3, <1>t DEF WriteBlob, Work, Creating, Observing, Setting
  <2>3. open[r].at \in There
    BY <1>t, <2>1 DEF Refers, Storing
  <2>4. q \in Storing /\ q.at = open[r].at /\ q.pair = sample[open[r].at].pair
    BY <1>t, <2>1, <2>3 DEF Storing, PairInherited
  <2>5. ~q.missed => q.at \notin Narrowed
    BY <2>1 DEF Storing
  <2>6. Refers(q) /\ Agrees(q)
    BY <1>t, <2>1, <2>4, <2>5 DEF Refers, Agrees, Storing
  <2>7. open' = [open EXCEPT ![r] = q] /\ UNCHANGED <<claims, sample, rows, tick, strays>>
    BY <1>3 DEF WriteBlob, Writes
  <2> HIDE DEF q
  <2>8. QED
    BY <2>4, <2>6, <2>7, OneRequest DEF Fits, Work
<1>4. QED
  BY <1>1, <1>2, <1>3

-----------------------------------------------------------------------------
\* What others commit beside a tick does not change what it has narrowed.
LEMMA Disturbing ==
  ASSUME SamplesTypeOK, Disturbs
  PROVE  /\ tick' \in Sweep \cup Checks \cup Told \cup {None}
         /\ Narrowed' = Narrowed
         /\ Sweeping' => Sweeping /\ tick'.rows = tick.rows
<1>1. CASE tick = None
  BY <1>1 DEF Disturbs, Sweeping, Narrowed
<1>2. CASE tick # None /\ tick \in Sweep
  <2>1. tick' \in Sweep /\ tick'.narrowed = tick.narrowed /\ tick'.rows = tick.rows
    BY <1>2 DEF Disturbs, Sweep
  <2>2. tick' # None /\ tick'.at = tick.at
    BY <1>2, <2>1, NoneIsNoRecord DEF Sweep
  <2>3. QED
    BY <1>2, <2>1, <2>2 DEF Sweeping, Narrowed
<1>3. CASE tick # None /\ tick \in Checks
  <2>1. tick' \in Checks
    BY <1>3 DEF Disturbs, Checks
  <2>2. QED
    BY <1>3, <2>1 DEF Sweeping, Narrowed, Checks
<1>4. CASE tick # None /\ tick \in Told
  <2>1. tick' \in Told
    BY <1>4 DEF Disturbs, Told
  <2>2. QED
    BY <1>4, <2>1 DEF Sweeping, Narrowed, Told
<1>5. QED
  BY <1>1, <1>2, <1>3, <1>4 DEF SamplesTypeOK

LEMMA Turning ==
  ASSUME SamplesInv, NEW c \in Claims, ClaimTurns(c)
  PROVE  SamplesInv'
<1>1. Narrowed' = Narrowed /\ (Sweeping' => Sweeping /\ tick'.rows = tick.rows)
  BY Disturbing DEF ClaimTurns, SamplesInv
<1>2. claims' \in [Claims -> Pairs \cup {None}]
  <2>1. PICK v \in {"public", "group"} : claims' = [claims EXCEPT ![c].vis = v]
    BY DEF ClaimTurns
  <2>2. [claims[c] EXCEPT !.vis = v] \in Pairs
    BY DEF ClaimTurns, SamplesInv, SamplesTypeOK, Pairs
  <2>3. QED
    BY <2>1, <2>2 DEF SamplesInv, SamplesTypeOK
<1>3. SamplesTypeOK'
  BY <1>2, Disturbing DEF ClaimTurns, SamplesInv, SamplesTypeOK
<1>4. \A r \in Requests : AtWork(r)' => AtWork(r) /\ open'[r] = open[r]
  BY DEF ClaimTurns, AtWork
<1>5. RefersOK' /\ InsertsAgree'
  BY <1>1, <1>4, Framed DEF ClaimTurns, SamplesInv, RefersOK, InsertsAgree
<1>6. QED
  BY <1>1, <1>3, <1>5, Framed DEF ClaimTurns, SamplesInv

\* The tick's own steps that leave the samples alone.
LEMMA Ticking ==
  ASSUME SamplesInv, TickStarts \/ TickChecks \/ TickEnds
  PROVE  SamplesInv'
<1> USE DEF TickStarts, TickChecks, TickEnds
<1>1. Narrowed' = {}
  BY DEF Narrowed, Sweeping
<1>2. tick' \in Sweep \cup Checks \cup Told \cup {None}
  <2>1. CASE TickStarts
    BY <2>1 DEF Sweep
  <2>2. CASE TickChecks
    BY <2>2 DEF Told, Checks, Sweep, SamplesInv, SamplesTypeOK, There
  <2>3. QED
    BY <2>1, <2>2
<1>3. SamplesTypeOK'
  BY <1>2 DEF SamplesInv, SamplesTypeOK
<1>4. \A r \in Requests : AtWork(r)' => AtWork(r) /\ open'[r] = open[r]
  BY DEF AtWork
<1>5. UNCHANGED <<sample, rows, strays>>
  OBVIOUS
<1>6. RefersOK' /\ InsertsAgree'
  BY <1>1, <1>4, <1>5, Framed DEF SamplesInv, RefersOK, InsertsAgree
<1>7. QED
  BY <1>1, <1>3, <1>5, <1>6, Framed DEF SamplesInv

\* A status says nothing of who may read the sample.
LEMMA StatusChanges ==
  ASSUME SamplesInv, NEW r \in Requests, SetStatus(r)
  PROVE  SamplesInv'
<1> DEFINE s == open[r].at
<1>1. open[r] \in Setting /\ s \in There
  BY DEF SetStatus, SamplesInv, SamplesTypeOK, RefersOK, Refers, AtWork, Work, Creating,
         Observing, Storing, Setting
<1>2. open[r].to \in Statuses
  BY <1>1, SamplesAssumption DEF Setting, Statuses
<1>3. sample' = [sample EXCEPT ![s].status = open[r].to]
  BY DEF SetStatus
<1>4. s \in Samples /\ sample[s] \in SampleRows
  BY <1>1 DEF There, SamplesInv, SamplesTypeOK
<1> HIDE DEF s
<1>5. /\ sample' \in [Samples -> SampleRows \cup {None}]
      /\ There' = There
      /\ \A t \in There : sample'[t].parent = sample[t].parent /\ sample'[t].pair = sample[t].pair
  <2>1. [sample[s] EXCEPT !.status = open[r].to] \in SampleRows
    BY <1>2, <1>4 DEF SampleRows
  <2>2. /\ [sample[s] EXCEPT !.status = open[r].to].parent = sample[s].parent
        /\ [sample[s] EXCEPT !.status = open[r].to].pair = sample[s].pair
    BY <1>4 DEF SampleRows
  <2>3. sample' = [sample EXCEPT ![s] = [sample[s] EXCEPT !.status = open[r].to]]
    BY <1>3
  <2>4. QED
    BY <1>1, <1>4, <2>1, <2>2, <2>3, NoneIsNoRecord DEF There, SamplesInv, SamplesTypeOK
<1>6. /\ Narrowed' = Narrowed /\ Sweeping' = Sweeping /\ tick' = tick
      /\ rows' = rows /\ strays' = strays /\ claims' = claims
      /\ open' = [open EXCEPT ![r] = Done]
  BY DEF SetStatus, Ends, Narrowed, Sweeping
<1>7. SamplesTypeOK'
  BY <1>5, <1>6 DEF SamplesInv, SamplesTypeOK
<1>8. LineageOK' /\ DerivedFollowSample' /\ SweepReaches'
  BY <1>5, <1>6 DEF SamplesInv, LineageOK, RefersOK, DerivedFollowSample, SweepReaches
<1>9. ChildrenOfGroupFollow' /\ SweepFollows'
  <2>1. \A t \in There : SweepPair(t)' = SweepPair(t)
    BY <1>5, <1>6 DEF SweepPair
  <2>2. \A t \in There : sample[t].parent # 0 => sample[t].parent \in There
    BY DEF SamplesInv, LineageOK
  <2>3. QED
    BY <1>5, <1>6, <2>1, <2>2 DEF SamplesInv, ChildrenOfGroupFollow, SweepFollows
<1>10. \A p \in Requests : AtWork(p)' => AtWork(p) /\ open'[p] = open[p]
  BY <1>6 DEF SamplesInv, SamplesTypeOK, AtWork
<1>11. RefersOK'
  BY <1>5, <1>6, <1>10 DEF SamplesInv, RefersOK, Refers
<1>12. InsertsAgree'
  <2> SUFFICES ASSUME NEW p \in Requests, AtWork(p)'
               PROVE  Agrees(open[p])'
    BY DEF InsertsAgree
  <2>1. open'[p] = open[p] /\ Agrees(open[p]) /\ Refers(open[p])
    BY <1>10 DEF SamplesInv, InsertsAgree, RefersOK
  <2>2. QED
    BY <1>5, <1>6, <2>1 DEF Agrees, Refers
<1>13. QED
  BY <1>7, <1>8, <1>9, <1>11, <1>12 DEF SamplesInv

\* A derived row is there once its request commits.
LEMMA RowCommits ==
  ASSUME SamplesInv, NEW r \in Requests, CommitRow(r)
  PROVE  SamplesInv'
<1> DEFINE row == [on |-> open[r].at, claim |-> open[r].claim, pair |-> open[r].pair,
                   missed |-> open[r].missed]
<1>1. /\ AtWork(r) /\ open[r].written /\ open[r].at \in There
      /\ open[r] \in Observing \cup Storing /\ Agrees(open[r])
      /\ open' = [open EXCEPT ![r] = Done]
      /\ UNCHANGED <<sample, strays>>
  BY DEF CommitRow, Ends, SamplesInv, SamplesTypeOK, RefersOK, InsertsAgree, Refers, AtWork,
         Work, Creating, Setting, Observing, Storing
<1>2. row \in DerivedRows
  BY <1>1 DEF DerivedRows, Observing, Storing
<1>3. ~row.missed => row.on \notin Narrowed /\ row.pair = sample[row.on].pair
  BY <1>1 DEF Agrees, Observing, Storing
<1>4. rows' \subseteq rows \cup {row} /\ rows \subseteq rows'
  BY DEF CommitRow
<1>5. claims' \in [Claims -> Pairs \cup {None}]
  <2>1. CASE open[r].op = "observe"
    <3>1. open[r].claimPair \in Pairs
      BY <1>1, <2>1 DEF Observing, Storing
    <3>2. QED
      BY <2>1, <3>1 DEF CommitRow, SamplesInv, SamplesTypeOK
  <2>2. CASE open[r].op # "observe"
    BY <2>2 DEF CommitRow, SamplesInv, SamplesTypeOK
  <2>3. QED
    BY <2>1, <2>2
<1>6. row.on \in There
  BY <1>1
<1> HIDE DEF row
<1>7. /\ Narrowed' = Narrowed /\ (Sweeping' => Sweeping /\ tick'.rows = tick.rows)
      /\ tick' \in Sweep \cup Checks \cup Told \cup {None}
  BY Disturbing DEF CommitRow, SamplesInv
<1>8. SamplesTypeOK'
  BY <1>1, <1>2, <1>4, <1>5, <1>7 DEF SamplesInv, SamplesTypeOK
<1>9. There' = There
  BY <1>1 DEF There
<1>10. LineageOK' /\ ChildrenOfGroupFollow' /\ SweepFollows'
  BY <1>1, <1>7, <1>9 DEF SamplesInv, LineageOK, ChildrenOfGroupFollow, SweepFollows, SweepPair
<1>11. DerivedFollowSample' /\ SweepReaches'
  BY <1>1, <1>3, <1>4, <1>7 DEF SamplesInv, DerivedFollowSample, SweepReaches
<1>12. \A p \in Requests : AtWork(p)' => AtWork(p) /\ open'[p] = open[p]
  BY <1>1 DEF SamplesInv, SamplesTypeOK, AtWork
<1>13. RefersOK'
  BY <1>4, <1>6, <1>7, <1>9, <1>12 DEF SamplesInv, RefersOK, Refers
<1>14. InsertsAgree'
  BY <1>1, <1>7, <1>12 DEF SamplesInv, InsertsAgree, Agrees
<1>15. QED
  BY <1>8, <1>10, <1>11, <1>13, <1>14 DEF SamplesInv

\* The next sample is there once its request commits; if its parent was being
\* narrowed when it was inserted it is a stray.
LEMMA SampleCommits ==
  ASSUME SamplesInv, NEW r \in Requests, CommitSample(r)
  PROVE  SamplesInv'
<1> DEFINE at == open[r].at
           pair == open[r].pair
<1>1. PICK s \in Samples \ There :
        /\ \A t \in Samples : t < s => t \in There
        /\ sample' = [sample EXCEPT ![s] = Row(at, pair, "prepared")]
        /\ strays' = IF open[r].missed THEN strays \cup {s} ELSE strays
  BY DEF CommitSample
<1>2. /\ open[r] \in Creating /\ open[r].written /\ at \in There \cup {0} /\ Agrees(open[r])
      /\ open' = [open EXCEPT ![r] = Done]
      /\ UNCHANGED <<claims, rows>>
  BY DEF CommitSample, Ends, SamplesInv, SamplesTypeOK, RefersOK, InsertsAgree, Refers, AtWork,
         Work, Creating, Setting, Observing, Storing
<1>3. pair \in Pairs /\ at \in 0..N
  BY <1>2 DEF Creating
<1>4. ~open[r].missed => /\ at \notin Narrowed
                         /\ at # 0 /\ sample[at].pair.vis = "group" => pair = sample[at].pair
  BY <1>2 DEF Agrees, Creating
<1> HIDE DEF at, pair
<1>5. /\ Row(at, pair, "prepared") \in SampleRows
      /\ Row(at, pair, "prepared").parent = at /\ Row(at, pair, "prepared").pair = pair
  BY <1>3 DEF Row, SampleRows, Statuses
<1>6. /\ There' = There \cup {s}
      /\ \A t \in There : sample'[t] = sample[t]
      /\ sample'[s].parent = at /\ sample'[s].pair = pair
      /\ sample' \in [Samples -> SampleRows \cup {None}]
  BY <1>1, <1>5, NoneIsNoRecord DEF SamplesInv, SamplesTypeOK, There
<1>7. /\ Narrowed' = Narrowed /\ (Sweeping' => Sweeping /\ tick'.rows = tick.rows)
      /\ tick' \in Sweep \cup Checks \cup Told \cup {None}
  BY Disturbing DEF CommitSample, SamplesInv
<1>8. SamplesTypeOK'
  BY <1>1, <1>2, <1>6, <1>7 DEF SamplesInv, SamplesTypeOK
<1>9. There \subseteq Samples /\ 0 \notin Samples /\ Samples \subseteq Nat
  BY SamplesAssumption DEF There, Samples
<1>10. at # 0 => at < s /\ at \in There
  <2>1. ASSUME at \in There, at > s PROVE FALSE
    BY <1>1, <1>9, <2>1 DEF SamplesInv, LineageOK
  <2>2. at \in There => at # s
    BY <1>1
  <2>3. QED
    BY <1>2, <1>9, <2>1, <2>2
<1>11. LineageOK'
  <2>1. \A t \in There', u \in Samples : u < t => u \in There'
    BY <1>1, <1>6 DEF SamplesInv, LineageOK
  <2>2. \A t \in There' : sample'[t].parent # 0 =>
          sample'[t].parent \in There' /\ sample'[t].parent < t
    BY <1>6, <1>10 DEF SamplesInv, LineageOK
  <2>3. QED
    BY <2>1, <2>2 DEF LineageOK
<1>12. \A t \in There : sample[t].parent # 0 => sample[t].parent \in There
  BY DEF SamplesInv, LineageOK
<1>13. s \notin Narrowed /\ (\A t \in There : SweepPair(t)' = SweepPair(t)) /\ SweepPair(s)' = pair
  BY <1>1, <1>6, <1>7 DEF SamplesInv, RefersOK, SweepPair
<1>14. ChildrenOfGroupFollow' /\ SweepFollows'
  <2> SUFFICES ASSUME NEW t \in There' \ strays', sample'[t].parent # 0
               PROVE  /\ sample'[sample'[t].parent].pair.vis = "group" =>
                           sample'[t].pair = sample'[sample'[t].parent].pair
                      /\ SweepPair(sample[t].parent)'.vis = "group" =>
                           SweepPair(t)' = SweepPair(sample[t].parent)'
    BY DEF ChildrenOfGroupFollow, SweepFollows
  <2>1. CASE t \in There
    <3>1. t \in There \ strays
      BY <1>1, <2>1
    <3>2. QED
      BY <1>6, <1>12, <1>13, <2>1, <3>1 DEF SamplesInv, ChildrenOfGroupFollow, SweepFollows
  <2>2. CASE t = s
    <3>1. ~open[r].missed /\ at # 0 /\ at \in There
      BY <1>1, <1>6, <1>10, <2>2
    <3>2. SweepPair(at) = sample[at].pair
      BY <1>4, <3>1 DEF SweepPair
    <3>3. QED
      BY <1>4, <1>6, <1>13, <2>2, <3>1, <3>2
  <2>3. QED
    BY <1>6, <2>1, <2>2
<1>15. DerivedFollowSample' /\ SweepReaches'
  BY <1>2, <1>6, <1>7 DEF SamplesInv, RefersOK, DerivedFollowSample, SweepReaches
<1>16. \A p \in Requests : AtWork(p)' => AtWork(p) /\ open'[p] = open[p]
  BY <1>2 DEF SamplesInv, SamplesTypeOK, AtWork
<1>17. RefersOK'
  BY <1>2, <1>6, <1>7, <1>16 DEF SamplesInv, RefersOK, Refers
<1>18. InsertsAgree'
  <2> SUFFICES ASSUME NEW p \in Requests, AtWork(p)'
               PROVE  Agrees(open[p])'
    BY DEF InsertsAgree
  <2>1. open'[p] = open[p] /\ Agrees(open[p]) /\ Refers(open[p])
    BY <1>16 DEF SamplesInv, InsertsAgree, RefersOK
  <2>2. QED
    BY <1>6, <1>7, <2>1 DEF Agrees, Refers
<1>19. QED
  BY <1>8, <1>11, <1>14, <1>15, <1>17, <1>18 DEF SamplesInv

-----------------------------------------------------------------------------
\* The pairs after s has been narrowed with its line: no child is left behind
\* in another pair, because the ones that do not follow are in the narrowed
\* pair already or block the step.
LEMMA LineNarrows ==
  ASSUME SamplesInv, NEW s \in There, SweepPair(s).vis = "public", ~Blocked(s), Sweeping,
         UNCHANGED <<sample, strays>>, Sweeping', tick'.narrowed = tick.narrowed \cup Line(s)
  PROVE  SweepFollows'
<1>1. Narrowed' = Narrowed \cup Line(s) /\ There' = There
  BY DEF Narrowed, There
<1>2. \A x \in There : SweepPair(x)' =
        IF x \in Line(s) THEN Pair(sample[x].pair.owner, "group") ELSE SweepPair(x)
  BY <1>1 DEF SweepPair
<1>3. \A x \in There : SweepPair(x) \in Pairs /\ SweepPair(x).owner = sample[x].pair.owner
  BY DEF SweepPair, Pair, Pairs, SamplesInv, SamplesTypeOK, There, SampleRows
<1> SUFFICES ASSUME NEW x \in There \ strays, sample[x].parent # 0,
                    SweepPair(sample[x].parent)'.vis = "group"
             PROVE  SweepPair(x)' = SweepPair(sample[x].parent)'
  BY <1>1 DEF SweepFollows
<1> DEFINE p == sample[x].parent
<1>4. p \in There /\ p < x
  BY DEF SamplesInv, LineageOK
<1>5. CASE p \in Line(s)
  <2>1. CASE x \notin Line(s)
    BY <1>2, <1>4, <1>5, <2>1 DEF Blocked
  <2>2. CASE x \in Line(s)
    <3>1. x # s
      <4>1. p >= s
        BY <1>5, LineIsYounger DEF SamplesInv
      <4>2. QED
        BY <1>4, <4>1, SamplesAssumption DEF There, Samples
    <3>2. SweepPair(x) = SweepPair(p)
      BY <2>2, <3>1, LineFollows DEF Follows
    <3>3. QED
      BY <1>2, <1>3, <1>4, <1>5, <2>2, <3>2
  <2>3. QED
    BY <2>1, <2>2
<1>6. CASE p \notin Line(s)
  <2>1. SweepPair(p)' = SweepPair(p) /\ SweepPair(x) = SweepPair(p)
    BY <1>2, <1>4, <1>6 DEF SamplesInv, SweepFollows
  <2>2. SweepPair(x) = Pair(sample[x].pair.owner, "group")
    BY <1>3, <1>4, <2>1 DEF Pair, Pairs
  <2>3. QED
    BY <1>2, <2>1, <2>2
<1>7. QED
  BY <1>5, <1>6

\* A row of the sweep is refused, or narrowed with its line, and the inserts
\* beside it are marked.
LEMMA Narrowing ==
  ASSUME SamplesInv, NEW s \in Samples, TryNarrow(s)
  PROVE  SamplesInv'
<1>1. /\ Sweeping /\ tick \in Sweep /\ s \in There /\ SweepPair(s).vis = "public"
      /\ UNCHANGED <<claims, sample, rows, strays>>
      /\ There' = There
  BY DEF TryNarrow, Candidates, Sweeping, SamplesInv, SamplesTypeOK, Checks, Told, There
<1>2. CASE Blocked(s)
  <2>1. tick' = [tick EXCEPT !.blocked = @ \cup {s}] /\ open' = open
    BY <1>2 DEF TryNarrow
  <2>2. tick' \in Sweep /\ tick'.narrowed = tick.narrowed /\ tick'.rows = tick.rows
    BY <1>1, <2>1 DEF Sweep
  <2>3. Sweeping' /\ Narrowed' = Narrowed
    BY <1>1, <2>2, NoneIsNoRecord DEF Sweeping, Narrowed, Sweep
  <2>4. SamplesTypeOK'
    BY <1>1, <2>1, <2>2 DEF SamplesInv, SamplesTypeOK
  <2>5. \A r \in Requests : AtWork(r)' => AtWork(r) /\ open'[r] = open[r]
    BY <2>1 DEF AtWork
  <2>6. RefersOK' /\ InsertsAgree'
    BY <1>1, <2>2, <2>3, <2>5, Framed DEF SamplesInv, RefersOK, InsertsAgree
  <2>7. QED
    BY <1>1, <2>2, <2>3, <2>4, <2>6, Framed DEF SamplesInv
<1>3. CASE ~Blocked(s)
  <2>1. /\ tick' = [tick EXCEPT !.narrowed = @ \cup Line(s), !.rows = @ \cup Reached(Line(s))]
        /\ open' = [r \in Requests |->
             IF AtWork(r) /\ open[r].written /\ open[r].at \in Line(s)
             THEN [open[r] EXCEPT !.missed = TRUE] ELSE open[r]]
    BY <1>3 DEF TryNarrow
  <2>2. Line(s) \subseteq There /\ There \subseteq Samples /\ Reached(Line(s)) \subseteq DerivedRows
    BY <1>1, LineIsClosed DEF There, Reached, SamplesInv, SamplesTypeOK
  <2>3. /\ tick' \in Sweep
        /\ tick'.narrowed = tick.narrowed \cup Line(s)
        /\ tick'.rows = tick.rows \cup Reached(Line(s))
    BY <1>1, <2>1, <2>2 DEF Sweep
  <2>4. Sweeping' /\ Narrowed' = Narrowed \cup Line(s)
    BY <1>1, <2>3, NoneIsNoRecord DEF Sweeping, Narrowed, Sweep
  <2>5. ASSUME NEW r \in Requests, AtWork(r), open[r].written, open[r].at \in Line(s)
        PROVE  /\ open'[r] \in Work /\ open'[r].op # "status" /\ open'[r].missed
               /\ open'[r].at = open[r].at /\ open'[r].op = open[r].op
    <3>1. open'[r] = [open[r] EXCEPT !.missed = TRUE]
      BY <2>1, <2>5
    <3>2. open[r] \in Creating \cup Observing \cup Storing
      BY <2>5 DEF SamplesInv, SamplesTypeOK, AtWork, Work, Setting
    <3>3. CASE open[r] \in Creating
      BY <3>1, <3>3 DEF Creating, Work
    <3>4. CASE open[r] \in Observing
      BY <3>1, <3>4 DEF Observing, Work
    <3>5. CASE open[r] \in Storing
      BY <3>1, <3>5 DEF Storing, Work
    <3>6. QED
      BY <3>2, <3>3, <3>4, <3>5
  <2>6. \A r \in Requests :
          ~(AtWork(r) /\ open[r].written /\ open[r].at \in Line(s)) => open'[r] = open[r]
    BY <2>1
  <2>7. SamplesTypeOK'
    <3>1. \A r \in Requests : open'[r] \in Work \cup {None, Done}
      BY <2>5, <2>6 DEF SamplesInv, SamplesTypeOK
    <3>2. open' \in [Requests -> Work \cup {None, Done}]
      BY <2>1, <3>1
    <3>3. QED
      BY <1>1, <2>3, <3>2 DEF SamplesInv, SamplesTypeOK
  <2>8. \A r \in Requests : AtWork(r)' => AtWork(r)
    BY <2>6 DEF AtWork
  <2>9. RefersOK'
    <3>1. \A r \in Requests : AtWork(r)' => Refers(open[r])'
      BY <1>1, <2>5, <2>6, <2>8 DEF SamplesInv, RefersOK, Refers
    <3>2. QED
      BY <1>1, <2>2, <2>4, <3>1 DEF SamplesInv, RefersOK
  <2>10. InsertsAgree'
    <3> SUFFICES ASSUME NEW r \in Requests, AtWork(r)'
                 PROVE  Agrees(open[r])'
      BY DEF InsertsAgree
    <3>1. CASE open[r].written /\ open[r].at \in Line(s)
      BY <2>5, <2>8, <3>1 DEF Agrees
    <3>2. CASE ~(open[r].written /\ open[r].at \in Line(s))
      BY <1>1, <2>4, <2>6, <2>8, <3>2 DEF SamplesInv, InsertsAgree, Agrees
    <3>3. QED
      BY <3>1, <3>2
  <2>11. LineageOK' /\ ChildrenOfGroupFollow' /\ DerivedFollowSample'
    BY <1>1 DEF SamplesInv, LineageOK, ChildrenOfGroupFollow, DerivedFollowSample
  <2>12. SweepFollows'
    BY <1>1, <1>3, <2>3, <2>4, LineNarrows
  <2>13. SweepReaches'
    BY <1>1, <2>3, <2>4 DEF SamplesInv, SweepReaches, Reached
  <2>14. QED
    BY <2>7, <2>9, <2>10, <2>11, <2>12, <2>13 DEF SamplesInv
<1>4. QED
  BY <1>2, <1>3

\* What the sweep has narrowed becomes what is committed.
LEMMA Committing ==
  ASSUME SamplesInv, SweepCommits
  PROVE  SamplesInv'
<1>1. /\ Sweeping /\ Narrowed = tick.narrowed /\ Narrowed \subseteq There
      /\ There \subseteq Samples /\ tick \in Sweep
      /\ UNCHANGED <<claims, open, strays>>
  BY DEF SweepCommits, Sweeping, Narrowed, SamplesInv, RefersOK, There, SamplesTypeOK, Checks, Told
<1>2. tick' \in Checks /\ ~Sweeping' /\ Narrowed' = {}
  <2>1. tick' = [at |-> "check", blocked |-> tick.blocked, disturbed |-> tick.disturbed]
    BY DEF SweepCommits
  <2>2. tick' \in Checks /\ tick'.at = "check"
    BY <1>1, <2>1 DEF Sweep, Checks
  <2>3. QED
    BY <2>2 DEF Sweeping, Narrowed
<1>3. \A s \in There : SweepPair(s) \in Pairs /\ sample[s] \in SampleRows
  BY DEF SweepPair, Pair, Pairs, SamplesInv, SamplesTypeOK, There, SampleRows
<1>4. ASSUME NEW s \in There
      PROVE  /\ sample'[s] \in SampleRows
             /\ sample'[s].parent = sample[s].parent /\ sample'[s].pair = SweepPair(s)
  <2>1. CASE s \in Narrowed
    <3>1. sample'[s] = [sample[s] EXCEPT !.pair = SweepPair(s)]
      BY <1>1, <2>1 DEF SweepCommits
    <3>2. QED
      BY <1>3, <3>1 DEF SampleRows
  <2>2. CASE s \notin Narrowed
    <3>1. sample'[s] = sample[s]
      BY <1>1, <2>2 DEF SweepCommits
    <3>2. QED
      BY <1>3, <2>2, <3>1 DEF SweepPair
  <2>3. QED
    BY <2>1, <2>2
<1>5. \A s \in Samples \ There : sample'[s] = None
  BY <1>1 DEF SweepCommits, There
<1>6. There' = There /\ sample' \in [Samples -> SampleRows \cup {None}]
  <2>1. sample' = [s \in Samples |-> sample'[s]]
    BY DEF SweepCommits
  <2>2. There' = There
    BY <1>1, <1>4, <1>5, NoneIsNoRecord DEF There
  <2>3. QED
    BY <1>4, <1>5, <2>1, <2>2
<1>7. \A y \in rows' : \E x \in rows :
        y = IF x \in tick.rows THEN [x EXCEPT !.pair = SweepPair(x.on)] ELSE x
  BY DEF SweepCommits
<1>8. ASSUME NEW y \in rows'
      PROVE  /\ y \in DerivedRows /\ y.on \in There
             /\ y.missed \/ y.pair = SweepPair(y.on)
  <2>1. PICK x \in rows :
          y = IF x \in tick.rows THEN [x EXCEPT !.pair = SweepPair(x.on)] ELSE x
    BY <1>7
  <2>2. x \in DerivedRows /\ x.on \in There
    BY DEF SamplesInv, SamplesTypeOK, RefersOK
  <2>3. CASE x \in tick.rows
    <3>1. y = [x EXCEPT !.pair = SweepPair(x.on)]
      BY <2>1, <2>3
    <3>2. QED
      BY <1>3, <2>2, <3>1 DEF DerivedRows
  <2>4. CASE x \notin tick.rows
    BY <1>1, <2>1, <2>2, <2>4 DEF SamplesInv, DerivedFollowSample, SweepReaches, SweepPair
  <2>5. QED
    BY <2>3, <2>4
<1>9. SamplesTypeOK'
  BY <1>1, <1>2, <1>6, <1>8 DEF SamplesInv, SamplesTypeOK
<1>10. \A s \in There : sample[s].parent # 0 => sample[s].parent \in There
  BY DEF SamplesInv, LineageOK
<1>11. LineageOK'
  BY <1>4, <1>6 DEF SamplesInv, LineageOK
<1>12. ChildrenOfGroupFollow' /\ SweepFollows'
  <2>1. \A s \in There : SweepPair(s)' = sample'[s].pair
    BY <1>2 DEF SweepPair
  <2>2. QED
    BY <1>1, <1>4, <1>6, <1>10, <2>1 DEF SamplesInv, ChildrenOfGroupFollow, SweepFollows
<1>13. DerivedFollowSample' /\ SweepReaches'
  BY <1>2, <1>4, <1>8 DEF DerivedFollowSample, SweepReaches
<1>14. RefersOK'
  BY <1>1, <1>2, <1>6, <1>8 DEF SamplesInv, RefersOK, Refers, AtWork
<1>15. InsertsAgree'
  <2> SUFFICES ASSUME NEW r \in Requests, AtWork(r)
               PROVE  Agrees(open[r])'
    BY <1>1 DEF InsertsAgree, AtWork
  <2>1. Agrees(open[r]) /\ Refers(open[r])
    BY DEF SamplesInv, InsertsAgree, RefersOK
  <2>2. \A s \in There : s \notin Narrowed => sample'[s].pair = sample[s].pair
    BY <1>4 DEF SweepPair
  <2>3. QED
    BY <1>1, <1>2, <2>1, <2>2 DEF Agrees, Refers
<1>16. QED
  BY <1>9, <1>11, <1>12, <1>13, <1>14, <1>15 DEF SamplesInv

-----------------------------------------------------------------------------
LEMMA Starting == ASSUME Init PROVE SamplesInv
<1>1. PICK parent \in [1..Old -> 0..Old], pair \in [1..Old -> Pairs] :
        /\ \A s \in 1..Old :
             /\ parent[s] < s
             /\ parent[s] # 0 /\ pair[parent[s]].vis = "group" => pair[s] = pair[parent[s]]
        /\ sample = [s \in Samples |->
             IF s \in 1..Old THEN Row(parent[s], pair[s], "prepared") ELSE None]
  BY DEF Init
<1>2. 1..Old \subseteq Samples /\ \A s \in 1..Old : parent[s] \in 0..N
  BY SamplesAssumption DEF Samples
<1>3. \A s \in 1..Old : /\ Row(parent[s], pair[s], "prepared") \in SampleRows
                         /\ Row(parent[s], pair[s], "prepared").parent = parent[s]
                         /\ Row(parent[s], pair[s], "prepared").pair = pair[s]
  BY <1>2 DEF Row, SampleRows, Statuses
<1>4. /\ There = 1..Old
      /\ sample \in [Samples -> SampleRows \cup {None}]
      /\ \A s \in There : sample[s].parent = parent[s] /\ sample[s].pair = pair[s]
  BY <1>1, <1>2, <1>3, NoneIsNoRecord DEF There
<1>5. tick = None /\ rows = {} /\ strays = {} /\ claims \in [Claims -> Pairs \cup {None}]
      /\ \A r \in Requests : open[r] = None
  BY DEF Init
<1>6. SamplesTypeOK
  BY <1>4, <1>5 DEF Init, SamplesTypeOK
<1>7. ~Sweeping /\ Narrowed = {}
  BY <1>5 DEF Sweeping, Narrowed
<1>8. LineageOK
  <2>1. \A s \in 1..Old, t \in Samples : t < s => t \in 1..Old
    BY SamplesAssumption DEF Samples
  <2>2. \A s \in 1..Old : parent[s] # 0 => parent[s] \in 1..Old
    BY SamplesAssumption
  <2>3. QED
    BY <1>1, <1>4, <2>1, <2>2 DEF LineageOK
<1>9. ChildrenOfGroupFollow
  <2>1. \A s \in 1..Old : parent[s] # 0 => parent[s] \in 1..Old
    BY SamplesAssumption
  <2>2. \A s \in 1..Old : parent[s] # 0 /\ pair[parent[s]].vis = "group" =>
                           pair[s] = pair[parent[s]]
    BY <1>1
  <2> SUFFICES ASSUME NEW s \in There, sample[s].parent # 0,
                      sample[sample[s].parent].pair.vis = "group"
               PROVE  sample[s].pair = sample[sample[s].parent].pair
    BY DEF ChildrenOfGroupFollow
  <2>3. parent[s] \in There /\ sample[s].parent = parent[s]
    BY <1>4, <2>1
  <2>4. sample[parent[s]].pair = pair[parent[s]] /\ sample[s].pair = pair[s]
    BY <1>4, <2>3
  <2>5. QED
    BY <1>4, <2>2, <2>3, <2>4
<1>10. SweepFollows
  BY <1>9, <1>7, NoSweep DEF ChildrenOfGroupFollow, SweepFollows
<1>11. RefersOK /\ DerivedFollowSample /\ SweepReaches /\ InsertsAgree
  BY <1>5, <1>7 DEF RefersOK, DerivedFollowSample, SweepReaches, InsertsAgree, AtWork
<1>12. QED
  BY <1>6, <1>8, <1>9, <1>10, <1>11 DEF SamplesInv

LEMMA SamplesInvHolds == Spec => []SamplesInv
<1>1. Init => SamplesInv
  BY Starting
<1>2. SamplesInv /\ [Next]_vars => SamplesInv'
  <2> SUFFICES ASSUME SamplesInv, [Next]_vars PROVE SamplesInv'
    OBVIOUS
  <2>1. ASSUME NEW r \in Requests,
               AskCreate(r) \/ AskObserve(r) \/ AskBlob(r) \/ AskStatus(r)
        PROVE  SamplesInv'
    BY <2>1, Asking
  <2>2. ASSUME NEW r \in Requests, WriteSample(r) \/ WriteObservation(r) \/ WriteBlob(r)
        PROVE  SamplesInv'
    BY <2>2, Writing
  <2>3. ASSUME NEW r \in Requests, SetStatus(r) PROVE SamplesInv'
    BY <2>3, StatusChanges
  <2>4. ASSUME NEW r \in Requests, CommitSample(r) PROVE SamplesInv'
    BY <2>4, SampleCommits
  <2>5. ASSUME NEW r \in Requests, CommitRow(r) PROVE SamplesInv'
    BY <2>5, RowCommits
  <2>6. ASSUME NEW r \in Requests, Drop(r) PROVE SamplesInv'
    BY <2>6, Ending
  <2>7. ASSUME NEW c \in Claims, ClaimTurns(c) PROVE SamplesInv'
    BY <2>7, Turning
  <2>8. ASSUME NEW s \in Samples, TryNarrow(s) PROVE SamplesInv'
    BY <2>8, Narrowing
  <2>9. CASE TickStarts \/ TickChecks \/ TickEnds
    BY <2>9, Ticking
  <2>10. CASE SweepCommits
    BY <2>10, Committing
  <2>11. CASE UNCHANGED vars
    <3>1. /\ There' = There /\ Narrowed' = Narrowed /\ Sweeping' = Sweeping
          /\ \A r : AtWork(r)' = AtWork(r)
      BY <2>11 DEF vars, There, Narrowed, Sweeping, AtWork
    <3>2. UNCHANGED <<sample, rows, strays, tick, open, claims>>
      BY <2>11 DEF vars
    <3>3. RefersOK' /\ InsertsAgree'
      BY <3>1, <3>2, Framed DEF SamplesInv, RefersOK, InsertsAgree
    <3>4. SamplesTypeOK'
      BY <3>2 DEF SamplesInv, SamplesTypeOK
    <3>5. QED
      BY <3>1, <3>2, <3>3, <3>4, Framed DEF SamplesInv
  <2>12. QED
    BY <2>1, <2>2, <2>3, <2>4, <2>5, <2>6, <2>7, <2>8, <2>9, <2>10, <2>11 DEF Next
<1>3. QED
  BY <1>1, <1>2, PTL DEF Spec

-----------------------------------------------------------------------------
(* The tick's alert.  What keeps it exact is that a refused sample stays   *)
(* refused while the sweep goes on: whatever blocks it blocks every        *)
(* narrowing that would reach it, and no narrowing beside it removes what  *)
(* blocks it.                                                              *)

Wanting(s) == SweepPair(s).vis = "public" /\ ~SweepPublishable(s)

\* While nothing is committed beside the tick: what it has noted is refused
\* still, after the sweep nothing else is wanting, and it tells just that.
AlertInv ==
  tick # None /\ ~tick.disturbed =>
    /\ \A s \in tick.blocked : s \in There /\ Wanting(s) /\ Blocked(s)
    /\ tick.at # "sweep" => \A s \in There : Wanting(s) => s \in tick.blocked
    /\ tick.at = "told" => tick.alerts = tick.blocked

\* Line(s) is the smallest set with s that is closed under following.
LEMMA LineIsLeast ==
  ASSUME NEW s \in There, NEW L \in SUBSET There, s \in L,
         \A y \in There : Follows(y, L) => y \in L
  PROVE  Line(s) \subseteq L
BY DEF Line

\* A line carries one pair.
LEMMA LineCarries ==
  ASSUME NEW s \in There, NEW x \in Line(s)
  PROVE  SweepPair(x) = SweepPair(s)
<1> DEFINE L == {y \in Line(s) : SweepPair(y) = SweepPair(s)}
<1>1. L \in SUBSET There /\ s \in L
  BY LineIsClosed
<1>2. ASSUME NEW y \in There, Follows(y, L) PROVE y \in L
  <2>1. Follows(y, Line(s)) /\ SweepPair(y) = SweepPair(s)
    BY <1>2 DEF Follows
  <2>2. QED
    BY <2>1, LineIsClosed
<1>3. Line(s) \subseteq L
  <2> HIDE DEF L
  <2>1. QED
    BY <1>1, <1>2, LineIsLeast
<1>4. QED
  BY <1>3

LEMMA LineInLine ==
  ASSUME NEW t \in There, NEW s \in Line(t)
  PROVE  Line(s) \subseteq Line(t)
BY LineIsClosed, LineIsLeast

\* Two lines are one below the other or apart.
LEMMA LinesApart ==
  ASSUME NEW s \in There, NEW t \in There, s \notin Line(t), t \notin Line(s)
  PROVE  Line(s) \cap Line(t) = {}
<1> DEFINE L == Line(s) \ Line(t)
<1>1. L \in SUBSET There /\ s \in L
  BY LineIsClosed
<1>2. ASSUME NEW y \in There, Follows(y, L) PROVE y \in L
  <2>1. y \in Line(s) /\ sample[y].parent \notin Line(t)
    BY <1>2, LineIsClosed DEF Follows
  <2>2. y \notin Line(t)
    BY <2>1, LineFollows DEF Follows
  <2>3. QED
    BY <2>1, <2>2
<1>3. Line(s) \subseteq L
  <2> HIDE DEF L
  <2>1. QED
    BY <1>1, <1>2, LineIsLeast
<1>4. QED
  BY <1>3

\* What blocks s blocks every narrowing that would reach s.
LEMMA BlocksAbove ==
  ASSUME SamplesInv, NEW t \in There, NEW s \in Line(t), Blocked(s)
  PROVE  Blocked(t)
<1>1. s \in There /\ Line(s) \subseteq Line(t)
  BY LineIsClosed, LineInLine
<1>2. PICK x \in There :
        /\ x \notin Line(s) /\ sample[x].parent \in Line(s)
        /\ SweepPair(x) # Pair(sample[sample[x].parent].pair.owner, "group")
  BY DEF Blocked
<1> DEFINE p == sample[x].parent
<1>3. p \in There /\ p \in Line(t) /\ SweepPair(x) # SweepPair(p)
  BY <1>1, <1>2, LineIsClosed DEF Follows
<1>4. x # t
  <2>1. p >= t
    BY <1>3, LineIsYounger DEF SamplesInv
  <2>2. p \in Nat /\ p # 0 /\ p < x
    BY <1>3, SamplesAssumption DEF SamplesInv, LineageOK, There, Samples
  <2>3. QED
    BY <2>1, <2>2, SamplesAssumption DEF There, Samples
<1>5. x \notin Line(t)
  BY <1>3, <1>4, LineFollows DEF Follows
<1>6. QED
  BY <1>2, <1>3, <1>5 DEF Blocked

\* A step that moves nobody: no line, and nothing that is refused, changes.
LEMMA Unmoved ==
  ASSUME SamplesInv, There' = There, claims' = claims,
         \A x \in There : /\ sample'[x].parent = sample[x].parent
                          /\ sample'[x].pair.owner = sample[x].pair.owner
                          /\ SweepPair(x)' = SweepPair(x),
         \A y \in rows' : \E x \in rows : x.on = y.on /\ x.claim = y.claim,
         \A y \in rows : \E x \in rows' : x.on = y.on /\ x.claim = y.claim
  PROVE  \A s \in There : (Wanting(s)' <=> Wanting(s)) /\ (Blocked(s)' <=> Blocked(s))
<1> SUFFICES ASSUME NEW s \in There
             PROVE  (Wanting(s)' <=> Wanting(s)) /\ (Blocked(s)' <=> Blocked(s))
  OBVIOUS
<1>1. \A x \in There : sample[x].parent # 0 => sample[x].parent \in There
  BY DEF SamplesInv, LineageOK
<1>2. Wanting(s)' <=> Wanting(s)
  BY <1>1 DEF Wanting, SweepPublishable
<1>3. \A L \in SUBSET There, x \in There : Follows(x, L)' <=> Follows(x, L)
  BY DEF Follows
<1>4. Line(s)' = Line(s)
  BY <1>3 DEF Line
<1>5. Blocked(s)' <=> Blocked(s)
  BY <1>4, LineIsClosed DEF Blocked
<1>6. QED
  BY <1>2, <1>5

\* The line of a public sample loses what is narrowed below it, and nothing
\* joins it.
LEMMA LineShrinks ==
  ASSUME SamplesInv, Sweeping, NEW s \in There, NEW t \in There, s \notin Line(t),
         SweepPair(s).vis = "public",
         UNCHANGED sample, Sweeping', tick'.narrowed = tick.narrowed \cup Line(t)
  PROVE  /\ Line(s)' = Line(s) \ Line(t)
         /\ \A x \in There : SweepPair(x)' =
              IF x \in Line(t) THEN Pair(sample[x].pair.owner, "group") ELSE SweepPair(x)
<1>1. Narrowed' = Narrowed \cup Line(t) /\ There' = There
  BY DEF Narrowed, There
<1>2. \A x \in There : SweepPair(x)' =
        IF x \in Line(t) THEN Pair(sample[x].pair.owner, "group") ELSE SweepPair(x)
  BY <1>1 DEF SweepPair
<1>3. \A x \in Line(t) : SweepPair(x)'.vis = "group"
  BY <1>2, LineIsClosed DEF Pair
<1>4. Line(s)' \subseteq Line(s) \ Line(t)
  <2> SUFFICES ASSUME NEW L, L = Line(s) \ Line(t) PROVE Line(s)' \subseteq L
    OBVIOUS
  <2>1. L \in SUBSET There /\ s \in L
    BY LineIsClosed
  <2>2. ASSUME NEW y \in There, Follows(y, L)' PROVE y \in L
    <3>1. /\ sample[y].parent \in Line(s) /\ sample[y].parent \notin Line(t)
          /\ SweepPair(y)' = SweepPair(sample[y].parent)'
      BY <2>2 DEF Follows
    <3>2. SweepPair(y)' = SweepPair(sample[y].parent)
      BY <1>2, <3>1, <2>1
    <3>3. SweepPair(y)'.vis = "public"
      BY <3>1, <3>2, LineCarries
    <3>4. y \notin Line(t) /\ SweepPair(y) = SweepPair(sample[y].parent)
      BY <1>2, <1>3, <3>2, <3>3
    <3>5. y \in Line(s)
      BY <3>1, <3>4, LineIsClosed DEF Follows
    <3>6. QED
      BY <3>4, <3>5
  <2>3. QED
    BY <1>1, <2>1, <2>2 DEF Line
<1>5. /\ s \in Line(s)' /\ Line(s)' \subseteq There
      /\ \A y \in There : Follows(y, Line(s))' => y \in Line(s)'
  <2>1. s \in Line(s)' /\ Line(s)' \subseteq There
    BY <1>1 DEF Line
  <2>2. ASSUME NEW y \in There, Follows(y, Line(s))', NEW L \in SUBSET There, s \in L,
               \A z \in There : Follows(z, L)' => z \in L
        PROVE  y \in L
    <3>1. Line(s)' \subseteq L
      BY <1>1, <2>2 DEF Line
    <3>2. Follows(y, L)'
      BY <2>2, <3>1 DEF Follows
    <3>3. QED
      BY <2>2, <3>2
  <2>3. ASSUME NEW y \in There, Follows(y, Line(s))' PROVE y \in Line(s)'
    BY <1>1, <2>2, <2>3 DEF Line
  <2>4. QED
    BY <2>1, <2>3
<1>6. Line(s) \subseteq Line(s)' \cup Line(t)
  <2> DEFINE L == Line(s)' \cup Line(t)
  <2>1. L \in SUBSET There /\ s \in L
    BY <1>5, LineIsClosed
  <2>2. ASSUME NEW y \in There, Follows(y, L), y \notin Line(t) PROVE y \in Line(s)'
    <3>1. sample[y].parent \notin Line(t)
      BY <2>2, LineIsClosed DEF Follows
    <3>2. sample[y].parent \in Line(s)' /\ sample[y].parent \in There
      BY <2>2, <2>1, <3>1 DEF Follows
    <3>3. SweepPair(y)' = SweepPair(sample[y].parent)'
      BY <1>2, <2>2, <3>1, <3>2 DEF Follows
    <3>4. QED
      BY <1>5, <3>2, <3>3 DEF Follows
  <2> HIDE DEF L
  <2>3. \A y \in There : Follows(y, L) => y \in L
    BY <2>2 DEF L
  <2>4. Line(s) \subseteq L
    BY <2>1, <2>3, LineIsLeast
  <2>5. QED
    BY <2>4 DEF L
<1>7. QED
  BY <1>2, <1>4, <1>6

\* A refused sample stays refused when another is narrowed.
LEMMA StaysRefused ==
  ASSUME SamplesInv, Sweeping, NEW s \in There, NEW t \in There,
         Wanting(s), Blocked(s), SweepPair(t).vis = "public", ~Blocked(t),
         UNCHANGED <<claims, sample, rows>>, Sweeping',
         tick'.narrowed = tick.narrowed \cup Line(t)
  PROVE  Wanting(s)' /\ Blocked(s)'
<1>1. s \notin Line(t)
  BY BlocksAbove
<1>2. /\ Line(s)' = Line(s) \ Line(t)
      /\ \A x \in There : SweepPair(x)' =
           IF x \in Line(t) THEN Pair(sample[x].pair.owner, "group") ELSE SweepPair(x)
  BY <1>1, LineShrinks DEF Wanting
<1>3. There' = There
  BY DEF There
<1>4. \A x \in There : SweepPair(x)'.vis = "public" => SweepPair(x).vis = "public"
  BY <1>2 DEF Pair
<1>5. Wanting(s)'
  <2>1. SweepPair(s)' = SweepPair(s)
    BY <1>1, <1>2
  <2>2. sample[s].parent # 0 => sample[s].parent \in There
    BY DEF SamplesInv, LineageOK
  <2>3. QED
    BY <1>4, <2>1, <2>2 DEF Wanting, SweepPublishable
<1>6. PICK x \in There :
        /\ x \notin Line(s) /\ sample[x].parent \in Line(s)
        /\ SweepPair(x) # Pair(sample[sample[x].parent].pair.owner, "group")
  BY DEF Blocked
<1> DEFINE p == sample[x].parent
<1>7. p \in There /\ SweepPair(x) # SweepPair(p) /\ SweepPair(p) = SweepPair(s)
  BY <1>6, LineIsClosed, LineCarries DEF Follows
<1>8. p \notin Line(t)
  <2> SUFFICES ASSUME p \in Line(t) PROVE FALSE
    OBVIOUS
  <2>1. Line(t) \subseteq Line(s)
    BY <1>1, <1>6, LinesApart, LineInLine
  <2>2. QED
    BY <1>6, <2>1 DEF Blocked
<1>9. SweepPair(x)' # Pair(sample[p].pair.owner, "group")
  <2>1. CASE x \notin Line(t)
    BY <1>2, <1>6, <2>1
  <2>2. CASE x \in Line(t)
    <3>1. x = t
      BY <1>8, <2>2, LineFollows DEF Follows
    <3>2. SweepPair(x) = Pair(sample[x].pair.owner, "public")
          /\ SweepPair(p) = Pair(sample[p].pair.owner, "public")
      <4>1. \A y \in There : SweepPair(y).vis = "public" =>
              SweepPair(y) = Pair(sample[y].pair.owner, "public")
        BY DEF SweepPair, Pair, Pairs, SamplesInv, SamplesTypeOK, There, SampleRows
      <4>2. QED
        BY <1>7, <3>1, <4>1 DEF Wanting
    <3>3. sample[x].pair.owner # sample[p].pair.owner
      BY <1>7, <3>2
    <3>4. QED
      BY <1>2, <2>2, <3>3 DEF Pair
  <2>3. QED
    BY <2>1, <2>2
<1>10. Blocked(s)'
  BY <1>2, <1>3, <1>6, <1>8, <1>9 DEF Blocked
<1>11. QED
  BY <1>5, <1>10

LEMMA NarrowingKeepsAlert ==
  ASSUME SamplesInv, AlertInv, NEW t \in Samples, TryNarrow(t)
  PROVE  AlertInv'
<1>1. /\ Sweeping /\ tick \in Sweep /\ t \in There /\ Wanting(t)
      /\ UNCHANGED <<claims, sample, rows>>
      /\ There' = There
  BY DEF TryNarrow, Candidates, Sweeping, SamplesInv, SamplesTypeOK, Checks, Told, There, Wanting
<1>2. CASE Blocked(t)
  <2>1. tick' = [tick EXCEPT !.blocked = @ \cup {t}]
    BY <1>2 DEF TryNarrow
  <2>2. /\ tick'.narrowed = tick.narrowed /\ tick'.blocked = tick.blocked \cup {t}
        /\ tick'.at = "sweep"
    BY <1>1, <2>1 DEF Sweep
  <2>3. tick'.disturbed = tick.disturbed
    BY <1>1, <2>1 DEF Sweep
  <2>4. Narrowed' = Narrowed
    BY <1>1, <2>1, <2>2, NoneIsNoRecord DEF Sweeping, Narrowed, Sweep
  <2>5. \A x \in There : SweepPair(x)' = SweepPair(x)
    BY <1>1, <2>4 DEF SweepPair
  <2>6. \A x \in There : (Wanting(x)' <=> Wanting(x)) /\ (Blocked(x)' <=> Blocked(x))
    BY <1>1, <2>5, Unmoved
  <2>7. QED
    BY <1>1, <1>2, <2>2, <2>3, <2>6 DEF AlertInv, Sweeping
<1>3. CASE ~Blocked(t)
  <2>1. tick' = [tick EXCEPT !.narrowed = @ \cup Line(t), !.rows = @ \cup Reached(Line(t))]
    BY <1>3 DEF TryNarrow
  <2>2. /\ tick'.narrowed = tick.narrowed \cup Line(t) /\ tick'.blocked = tick.blocked
        /\ tick'.at = "sweep"
    BY <1>1, <2>1 DEF Sweep
  <2>3. tick'.disturbed = tick.disturbed
    BY <1>1, <2>1 DEF Sweep
  <2>4. Sweeping'
    <3>1. Line(t) \subseteq Samples /\ Reached(Line(t)) \subseteq DerivedRows
      BY <1>1, LineIsClosed DEF There, Reached, SamplesInv, SamplesTypeOK
    <3>2. tick' \in Sweep
      BY <1>1, <2>1, <3>1 DEF Sweep
    <3>3. QED
      BY <2>2, <3>2, NoneIsNoRecord DEF Sweeping
  <2>5. \A s \in There : Wanting(s) /\ Blocked(s) => Wanting(s)' /\ Blocked(s)'
    BY <1>1, <1>3, <2>2, <2>4, StaysRefused DEF Wanting
  <2>6. QED
    BY <1>1, <2>2, <2>3, <2>5 DEF AlertInv, Sweeping
<1>4. QED
  BY <1>2, <1>3

\* The sweep commits: either something was committed beside it, or no candidate
\* is left, and what is still wanting is what it has noted.
LEMMA CommitKeepsAlert ==
  ASSUME SamplesInv, AlertInv, SweepCommits
  PROVE  AlertInv'
<1>1. /\ Sweeping /\ Narrowed = tick.narrowed /\ Narrowed \subseteq There
      /\ There \subseteq Samples /\ tick \in Sweep /\ claims' = claims
  BY DEF SweepCommits, Sweeping, Narrowed, SamplesInv, RefersOK, There, SamplesTypeOK, Checks, Told
<1>2. /\ tick' = [at |-> "check", blocked |-> tick.blocked, disturbed |-> tick.disturbed]
      /\ tick'.at = "check" /\ tick'.blocked = tick.blocked
  BY DEF SweepCommits
<1>3. tick'.disturbed = tick.disturbed
  BY <1>2
<1>4. ~Sweeping' /\ Narrowed' = {}
  BY <1>2 DEF Sweeping, Narrowed
<1>5. \A s \in There : SweepPair(s) \in Pairs /\ sample[s] \in SampleRows
                       /\ SweepPair(s).owner = sample[s].pair.owner
  BY DEF SweepPair, Pair, Pairs, SamplesInv, SamplesTypeOK, There, SampleRows
<1>6. ASSUME NEW s \in There
      PROVE  /\ sample'[s] \in SampleRows
             /\ sample'[s].parent = sample[s].parent /\ sample'[s].pair = SweepPair(s)
  <2>1. CASE s \in Narrowed
    <3>1. sample'[s] = [sample[s] EXCEPT !.pair = SweepPair(s)]
      BY <1>1, <2>1 DEF SweepCommits
    <3>2. QED
      BY <1>5, <3>1 DEF SampleRows
  <2>2. CASE s \notin Narrowed
    <3>1. sample'[s] = sample[s]
      BY <1>1, <2>2 DEF SweepCommits
    <3>2. QED
      BY <1>5, <2>2, <3>1 DEF SweepPair
  <2>3. QED
    BY <2>1, <2>2
<1>7. There' = There
  <2>1. \A s \in Samples \ There : sample'[s] = None
    BY <1>1 DEF SweepCommits, There
  <2>2. QED
    BY <1>1, <1>6, <2>1, NoneIsNoRecord DEF There
<1>8. \A s \in There : SweepPair(s)' = SweepPair(s) /\ sample'[s].pair.owner = sample[s].pair.owner
  BY <1>4, <1>5, <1>6 DEF SweepPair
<1>9. ASSUME NEW x \in rows
      PROVE  LET y == IF x \in tick.rows THEN [x EXCEPT !.pair = SweepPair(x.on)] ELSE x
             IN  y.on = x.on /\ y.claim = x.claim
  BY DEF SamplesInv, SamplesTypeOK, DerivedRows
<1>10. /\ \A y \in rows' : \E x \in rows : x.on = y.on /\ x.claim = y.claim
       /\ \A y \in rows : \E x \in rows' : x.on = y.on /\ x.claim = y.claim
  BY <1>9 DEF SweepCommits
<1>11. \A s \in There : (Wanting(s)' <=> Wanting(s)) /\ (Blocked(s)' <=> Blocked(s))
  BY <1>1, <1>6, <1>7, <1>8, <1>10, Unmoved
<1>12. ~tick.disturbed => \A s \in There : Wanting(s) => s \in tick.blocked
  BY DEF SweepCommits, Candidates, Wanting
<1>13. QED
  BY <1>1, <1>2, <1>3, <1>7, <1>11, <1>12 DEF AlertInv, Sweeping

\* Requests and the kernel: what they commit disturbs the tick, and the rest
\* moves nobody.
LEMMA OthersKeepAlert ==
  ASSUME SamplesInv, AlertInv,
         \/ Disturbs
         \/ UNCHANGED <<claims, sample, rows, tick>>
         \/ \E r \in Requests : SetStatus(r)
  PROVE  AlertInv'
<1>1. CASE Disturbs
  <2>1. tick' # None => tick'.disturbed
    BY <1>1 DEF Disturbs, SamplesInv, SamplesTypeOK, Sweep, Checks, Told
  <2>2. QED
    BY <2>1 DEF AlertInv
<1>2. CASE UNCHANGED <<claims, sample, rows, tick>>
  <2>1. There' = There /\ \A x \in There : SweepPair(x)' = SweepPair(x)
    BY <1>2 DEF There, SweepPair, Narrowed, Sweeping
  <2>2. \A x \in There : (Wanting(x)' <=> Wanting(x)) /\ (Blocked(x)' <=> Blocked(x))
    BY <1>2, <2>1, Unmoved
  <2>3. QED
    BY <1>2, <2>1, <2>2 DEF AlertInv
<1>3. ASSUME NEW r \in Requests, SetStatus(r)
      PROVE  AlertInv'
  <2>1. /\ tick' = tick /\ rows' = rows /\ claims' = claims
        /\ Narrowed' = Narrowed
        /\ sample' = [sample EXCEPT ![open[r].at].status = open[r].to]
    BY <1>3 DEF SetStatus, Narrowed, Sweeping
  <2>2. open[r].at \in There
    BY <1>3 DEF SetStatus, SamplesInv, RefersOK, Refers, AtWork
  <2>3. \A x \in There : sample[x] \in SampleRows
    BY DEF There, SamplesInv, SamplesTypeOK
  <2>4. There' = There
    <3>1. open[r].to \in Statuses
      BY <1>3, SamplesAssumption DEF SetStatus, SamplesInv, SamplesTypeOK, AtWork, Work,
           Creating, Observing, Storing, Setting, Statuses
    <3>2. [sample[open[r].at] EXCEPT !.status = open[r].to] \in SampleRows
      BY <2>2, <2>3, <3>1 DEF SampleRows
    <3>3. QED
      BY <2>1, <2>2, <3>2, NoneIsNoRecord DEF There, SamplesInv, SamplesTypeOK
  <2>5. \A x \in There : sample'[x].parent = sample[x].parent /\ sample'[x].pair = sample[x].pair
    BY <2>1, <2>2, <2>3 DEF There, SamplesInv, SamplesTypeOK, SampleRows
  <2>6. \A x \in There : SweepPair(x)' = SweepPair(x)
    BY <2>1, <2>5 DEF SweepPair
  <2>7. \A x \in There : (Wanting(x)' <=> Wanting(x)) /\ (Blocked(x)' <=> Blocked(x))
    BY <2>1, <2>4, <2>5, <2>6, Unmoved
  <2>8. QED
    BY <2>1, <2>4, <2>7 DEF AlertInv
<1>4. QED
  BY <1>1, <1>2, <1>3

LEMMA AlertInvHolds == Spec => [](SamplesInv /\ AlertInv)
<1>1. Init => AlertInv
  BY DEF Init, AlertInv
<1>2. SamplesInv /\ AlertInv /\ [Next]_vars => AlertInv'
  <2> SUFFICES ASSUME SamplesInv, AlertInv, [Next]_vars PROVE AlertInv'
    OBVIOUS
  <2>1. ASSUME NEW r \in Requests,
               \/ AskCreate(r) \/ AskObserve(r) \/ AskBlob(r) \/ AskStatus(r)
               \/ WriteSample(r) \/ WriteObservation(r) \/ WriteBlob(r)
               \/ CommitSample(r) \/ CommitRow(r) \/ SetStatus(r) \/ Drop(r)
        PROVE  AlertInv'
    BY <2>1, OthersKeepAlert
       DEF AskCreate, AskObserve, AskBlob, AskStatus, Asks, WriteSample, WriteObservation,
           WriteBlob, CommitSample, CommitRow, Drop
  <2>2. ASSUME NEW c \in Claims, ClaimTurns(c) PROVE AlertInv'
    BY <2>2, OthersKeepAlert DEF ClaimTurns
  <2>3. ASSUME NEW s \in Samples, TryNarrow(s) PROVE AlertInv'
    BY <2>3, NarrowingKeepsAlert
  <2>4. CASE SweepCommits
    BY <2>4, CommitKeepsAlert
  <2>5. CASE TickStarts
    <3>1. tick'.at = "sweep" /\ tick'.blocked = {}
      BY <2>5 DEF TickStarts
    <3>2. QED
      BY <3>1 DEF AlertInv
  <2>6. CASE TickChecks
    <3>1. /\ tick \in Checks /\ ~Sweeping /\ ~Sweeping'
          /\ tick' = [at |-> "told", blocked |-> tick.blocked, disturbed |-> tick.disturbed,
                      alerts |-> {s \in There : sample[s].pair.vis = "public" /\ ~Publishable(s)}]
      BY <2>6 DEF TickChecks, SamplesInv, SamplesTypeOK, Sweep, Told, Sweeping
    <3>2. tick'.blocked = tick.blocked /\ tick'.at = "told" /\ tick.at = "check" /\ tick # None
      BY <2>6, <3>1 DEF TickChecks
    <3>3. tick'.disturbed = tick.disturbed
      BY <3>1
    <3>4. \A s \in There : SweepPair(s) = sample[s].pair /\ (SweepPublishable(s) <=> Publishable(s))
      BY <3>1, NoSweep DEF SweepPublishable, Publishable
    <3>5. tick'.alerts = {s \in There : Wanting(s)}
      BY <3>1, <3>4 DEF Wanting
    <3>6. There' = There /\ \A x \in There : SweepPair(x)' = SweepPair(x)
      BY <2>6, <3>1 DEF TickChecks, There, SweepPair, Narrowed
    <3>7. \A x \in There : (Wanting(x)' <=> Wanting(x)) /\ (Blocked(x)' <=> Blocked(x))
      BY <2>6, <3>6, Unmoved DEF TickChecks
    <3>8. QED
      BY <3>2, <3>3, <3>5, <3>6, <3>7 DEF AlertInv
  <2>7. CASE TickEnds
    BY <2>7 DEF TickEnds, AlertInv
  <2>8. CASE UNCHANGED vars
    BY <2>8, OthersKeepAlert DEF vars
  <2>9. QED
    BY <2>1, <2>2, <2>3, <2>4, <2>5, <2>6, <2>7, <2>8 DEF Next
<1>3. QED
  BY <1>1, <1>2, SamplesInvHolds, PTL DEF Spec

-----------------------------------------------------------------------------
\* Every variable of the samples keeps its type.
THEOREM SamplesTypeCorrect == Spec => []SamplesTypeOK
BY SamplesInvHolds, PTL DEF SamplesInv

\* Whatever requests and ticks run beside each other, a child of a group
\* sample carries its parent's pair, but for the children inserted while the
\* parent was being narrowed.
THEOREM LineageStaysTogether == Spec => []ChildrenOfGroupFollow
BY SamplesInvHolds, PTL DEF SamplesInv

\* And the links and blobs of a sample carry its pair, with the same gap.
THEOREM DerivedRowsFollow == Spec => []DerivedFollowSample
BY SamplesInvHolds, PTL DEF SamplesInv

\* The tick's alert names the rows its sweep was refused, and each of them has
\* a sample of another owner below it, unless something was committed beside
\* the tick.
THEOREM AlertsAreExact == Spec => []AlertsAreTheBlocked
<1>1. SamplesInv /\ AlertInv => AlertsAreTheBlocked
  <2> SUFFICES ASSUME SamplesInv, AlertInv, tick # None, tick.at = "told", ~tick.disturbed
               PROVE  tick.alerts = tick.blocked /\ \A s \in tick.alerts : Foreign(s)
    BY DEF AlertsAreTheBlocked
  <2>1. tick.alerts = tick.blocked
    BY DEF AlertInv
  <2>2. ASSUME NEW s \in tick.blocked PROVE Foreign(s)
    <3>1. s \in There /\ Wanting(s) /\ Blocked(s)
      BY <2>2 DEF AlertInv
    <3>2. PICK x \in There :
            /\ x \notin Line(s) /\ sample[x].parent \in Line(s)
            /\ SweepPair(x) # Pair(sample[sample[x].parent].pair.owner, "group")
      BY <3>1 DEF Blocked
    <3> DEFINE p == sample[x].parent
    <3>3. p \in There /\ SweepPair(x) # SweepPair(p) /\ SweepPair(p) = SweepPair(s)
      BY <3>1, <3>2, LineIsClosed, LineCarries DEF Follows
    <3>4. \A y \in There : SweepPair(y) = sample[y].pair /\ sample[y].pair \in Pairs
      BY NoSweep DEF Sweeping, There, SamplesInv, SamplesTypeOK, SampleRows
    <3>5. sample[x].pair # Pair(sample[s].pair.owner, "group")
      BY <3>1, <3>2, <3>3, <3>4
    <3>6. sample[x].pair # Pair(sample[s].pair.owner, "public")
      BY <3>1, <3>3, <3>4 DEF Wanting, Pair, Pairs
    <3>7. sample[x].pair.owner # sample[s].pair.owner
      BY <3>4, <3>5, <3>6 DEF Pair, Pairs
    <3>8. QED
      BY <3>2, <3>7 DEF Foreign
  <2>3. QED
    BY <2>1, <2>2
<1>2. QED
  BY <1>1, AlertInvHolds, PTL
=============================================================================
