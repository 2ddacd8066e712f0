--------------------------- MODULE Outbox_proofs ---------------------------
(***************************************************************************)
(* What holds of the outbox for every set of claims and every bound.       *)
(* RowsInv says what the open transaction may have buffered and what a     *)
(* planned attempt has in the outbox; WriteInv adds what a transaction     *)
(* whose world stood still since it began may write.                       *)
(***************************************************************************)
EXTENDS Outbox, TLAPS

\* Every variable keeps its type, and the job writes on a running row only.
THEOREM OutboxTypeCorrect == Spec => []OutboxTypeOK
<1>1. Init => OutboxTypeOK
  BY OutboxAssumption
     DEF Init, OutboxTypeOK, Statuses, RowStates, Effects, Steps, StageSteps,
         WriteSteps, Targets, Empty
<1>2. OutboxTypeOK /\ [Next]_vars => OutboxTypeOK'
  <2> SUFFICES ASSUME OutboxTypeOK, [Next]_vars PROVE OutboxTypeOK'
    OBVIOUS
  <2> USE OutboxAssumption
      DEF OutboxTypeOK, Statuses, Steps, StageSteps, WriteSteps, Live,
          synthesisVars, outboxVars, workerVars, worldVars
  <2>1. CASE Recall
    BY <2>1 DEF Recall, SetStatus
  <2>2. CASE AttachMembers
    BY <2>2 DEF AttachMembers, GoTo
  <2>3. CASE ReplaceClusters
    BY <2>3 DEF ReplaceClusters, GoTo
  <2>4. CASE PlanEdges
    <3>1. row' \in [Targets -> RowStates]
      BY <2>4 DEF PlanEdges, Replanned, RowStates
    <3>2. tries' \in [Targets -> 0 .. RetryCap + 1]
      BY <2>4 DEF PlanEdges
    <3>3. QED
      BY <2>4, <3>1, <3>2 DEF PlanEdges, GoTo
  <2>5. CASE AttemptFails
    BY <2>5 DEF AttemptFails, SetStatus, Empty, Effects
  <2>6. CASE OfferItem
    BY <2>6 DEF OfferItem, GoTo
  <2>7. ASSUME NEW who \in {"job", "worklist"}, Discard(who) PROVE OutboxTypeOK'
    <3>1. buf' \in [Targets -> Effects]
      BY <2>7 DEF Discard, Effects
    <3>2. who = "job" => status' = "running"
      BY <2>7 DEF Discard
    <3>3. QED
      BY <2>7, <3>1, <3>2 DEF Discard
  <2>8. CASE Check
    BY <2>8 DEF Check, GoTo
  <2>9. ASSUME NEW b \in [Targets -> Effects], Carries(b),
               UNCHANGED <<synthesisVars, tries, by, snap, attempts, aborts, worldVars>>,
               step \in WriteSteps
        PROVE OutboxTypeOK'
    <3>1. row' \in [Targets -> RowStates]
      BY <2>9 DEF Carries, Committed, RowStates, Effects
    <3>2. buf' \in [Targets -> Effects]
      BY <2>9 DEF Carries, Empty, Effects
    <3>3. QED
      BY <2>9, <3>1, <3>2 DEF Carries
  <2>10. CASE Defer
    <3>1. With(Listed, "defer") \in [Targets -> Effects]
      BY DEF With, Effects
    <3>2. QED
      BY <2>10, <2>9, <3>1 DEF Defer
  <2>11. CASE WriteAll
    <3>1. With(Listed, "write") \in [Targets -> Effects]
      BY DEF With, Effects
    <3>2. QED
      BY <2>11, <2>9, <3>1 DEF WriteAll
  <2>12. CASE WriteRefused
    <3>1. row' \in [Targets -> RowStates]
      BY <2>12 DEF WriteRefused, Committed, With, RowStates, Effects
    <3>2. tries' \in [Targets -> 0 .. RetryCap + 1]
      BY <2>12 DEF WriteRefused, Listed, Undeferred
    <3>3. buf' \in [Targets -> Effects]
      BY <2>12 DEF WriteRefused, Empty, Effects
    <3>4. QED
      BY <2>12, <3>1, <3>2, <3>3 DEF WriteRefused
  <2>13. CASE Complete
    <3>1. row' \in [Targets -> RowStates]
      BY <2>13 DEF Complete, Committed, RowStates, Effects
    <3>2. buf' \in [Targets -> Effects]
      BY <2>13 DEF Complete, Empty, Effects
    <3>3. QED
      BY <2>13, <3>1, <3>2 DEF Complete, SetStatus
  <2>14. CASE WorklistAborts
    BY <2>14 DEF WorklistAborts, Empty, Effects
  <2>15. ASSUME NEW c \in Claims, ClaimTurns(c) PROVE OutboxTypeOK'
    BY <2>15 DEF ClaimTurns, Turn
  <2>16. CASE InputsTurn
    BY <2>16 DEF InputsTurn, Turn
  <2>17. CASE UserNarrows \/ Sweep
    BY <2>17 DEF UserNarrows, Sweep, Turn
  <2>18. CASE UserWidens
    <3>1. row' \in [Targets -> RowStates]
      BY <2>18 DEF UserWidens, RowStates
    <3>2. QED
      BY <2>18, <3>1 DEF UserWidens, Turn
  <2>19. CASE UserDeletes
    BY <2>19 DEF UserDeletes, SetStatus, Locked
  <2>20. CASE UNCHANGED vars
    BY <2>20 DEF vars
  <2>21. QED
    BY <2>1, <2>2, <2>3, <2>4, <2>5, <2>6, <2>7, <2>8, <2>10, <2>11, <2>12,
       <2>13, <2>14, <2>15, <2>16, <2>17, <2>18, <2>19, <2>20
       DEF Next, Stage, Writes, World
<1>3. QED
  BY <1>1, <1>2, PTL DEF Spec

-----------------------------------------------------------------------------
InJobTransaction == by = "job" /\ step \in WriteSteps

\* What a transaction buffers are unwritten rows, and it drops uncited ones.
BufferInv ==
  /\ step \notin WriteSteps => buf = Empty
  /\ \A t \in Targets : buf[t] # "keep" => t \in Unwritten
  /\ \A t \in Targets : buf[t] = "drop" => t \in Claims \ cited

\* From the plan on, every cited claim and the author have their row.
PlannedInv ==
  /\ step = "plan" => cited = snap
  /\ step = "publish" \/ InJobTransaction \/ status = "complete"
       => \A t \in cited \cup {Agent} : row[t] # "absent"

\* A completed row is never worked on again, and it is all the worklist
\* works on.
CompleteInv ==
  /\ status = "complete" => step \notin StageSteps
  /\ step = "offered" \/ (by = "worklist" /\ step \in WriteSteps)
       => status = "complete"

RowsInv == OutboxTypeOK /\ BufferInv /\ PlannedInv /\ CompleteInv

\* What committing a buffer that respects BufferInv does to the rows.
LEMMA CommittedRows ==
  ASSUME OutboxTypeOK, NEW b \in [Targets -> Effects],
         \A t \in Targets : b[t] # "keep" => t \in Unwritten
  PROVE  /\ \A t \in Targets : row[t] = "written" => Committed(b)[t] = "written"
         /\ \A t \in Targets : b[t] # "drop" /\ row[t] # "absent"
              => Committed(b)[t] # "absent"
         /\ \A t \in Targets : Committed(b)[t] = "written"
              => row[t] = "written" \/ b[t] = "write"
BY DEF OutboxTypeOK, Committed, Unwritten, Effects

\* Adding an effect on listed rows keeps what BufferInv says of the buffer.
LEMMA WithListed ==
  ASSUME OutboxTypeOK, BufferInv, NEW e \in {"defer", "write"},
         NEW ts \in SUBSET Listed
  PROVE  /\ With(ts, e) \in [Targets -> Effects]
         /\ \A t \in Targets : With(ts, e)[t] # "keep" => t \in Unwritten
         /\ \A t \in Targets : With(ts, e)[t] = "drop" => t \in Claims \ cited
         /\ \A t \in Targets : With(ts, e)[t] # buf[t] => t \in ts
BY DEF OutboxTypeOK, BufferInv, With, Listed, Undeferred, Unwritten, Effects

LEMMA EmptyBuffer ==
  /\ Empty \in [Targets -> Effects]
  /\ \A t \in Targets : Empty[t] = "keep"
BY DEF Empty, Effects

LEMMA RowsInvHolds == Spec => []RowsInv
<1>1. Init => BufferInv /\ PlannedInv /\ CompleteInv
  BY EmptyBuffer, OutboxAssumption
     DEF Init, BufferInv, PlannedInv, CompleteInv, InJobTransaction, StageSteps,
         WriteSteps, Targets
<1>2. RowsInv /\ OutboxTypeOK' /\ [Next]_vars
        => BufferInv' /\ PlannedInv' /\ CompleteInv'
  <2> SUFFICES ASSUME RowsInv, OutboxTypeOK', [Next]_vars
               PROVE BufferInv' /\ PlannedInv' /\ CompleteInv'
    OBVIOUS
  <2> USE OutboxAssumption
      DEF RowsInv, PlannedInv, CompleteInv, InJobTransaction, StageSteps,
          WriteSteps, Live
  \* Steps that leave the outbox, the buffer and the citations alone.
  <2>1. ASSUME UNCHANGED <<row, buf, cited>>, step' \in WriteSteps <=> step \in WriteSteps
        PROVE BufferInv'
    BY <2>1 DEF BufferInv, Unwritten
  <2>2. ASSUME buf' = Empty
        PROVE BufferInv'
    BY <2>2, EmptyBuffer DEF BufferInv
  <2>3. ASSUME step' = "idle", buf' = Empty, status' = status, cited' = cited,
               NEW b \in [Targets -> Effects],
               \A t \in Targets : b[t] # "keep" => t \in Unwritten,
               \A t \in Targets : b[t] = "drop" => t \in Claims \ cited,
               row' = Committed(b)
        PROVE BufferInv' /\ PlannedInv' /\ CompleteInv'
    <3>1. \A t \in Targets : b[t] # "drop" /\ row[t] # "absent" => row'[t] # "absent"
      BY <2>3, CommittedRows
    <3>2. \A t \in cited \cup {Agent} : t \in Targets /\ b[t] # "drop"
      BY <2>3 DEF OutboxTypeOK, Targets
    <3>3. QED
      BY <2>2, <2>3, <3>1, <3>2
  <2>4. CASE Recall
    <3>1. buf = Empty /\ buf' = Empty
      BY <2>4 DEF Recall, BufferInv
    <3>2. status' = "running" /\ step' = "attach"
      BY <2>4 DEF Recall, SetStatus
    <3>3. QED
      BY <3>1, <3>2, <2>2
  <2>5. CASE AttachMembers
    <3>1. buf' = Empty /\ status' = status /\ step' = "cluster" /\ by' = by
      BY <2>5 DEF AttachMembers, GoTo, BufferInv
    <3>2. QED
      BY <2>5, <3>1, <2>2 DEF AttachMembers
  <2>6. CASE ReplaceClusters
    <3>1. buf' = Empty /\ status' = status /\ step' = "plan" /\ by' = by
          /\ cited' = snap'
      BY <2>6 DEF ReplaceClusters, GoTo, BufferInv
    <3>2. QED
      BY <2>6, <3>1, <2>2 DEF ReplaceClusters
  <2>7. CASE PlanEdges
    <3>1. /\ buf' = Empty /\ status' = status /\ step' = "publish" /\ by' = by
          /\ cited' = cited /\ cited = snap /\ row' = Replanned
          /\ status # "complete"
      BY <2>7 DEF PlanEdges, GoTo, BufferInv, synthesisVars
    <3>2. \A t \in cited \cup {Agent} : t \in Targets /\ Sees(t)
      BY <2>7, <3>1 DEF PlanEdges, OutboxTypeOK, Targets, Sees
    <3>3. \A t \in cited \cup {Agent} : row'[t] # "absent"
      BY <3>1, <3>2 DEF Replanned
    <3>4. QED
      BY <2>7, <3>1, <3>3, <2>2
  <2>8. CASE AttemptFails
    <3>1. /\ step' = "idle" /\ buf' = Empty /\ cited' = cited /\ row' = row
          /\ status' = "complete" => status = "complete"
      BY <2>8 DEF AttemptFails, SetStatus, outboxVars
    <3>2. QED
      BY <3>1, <2>2
  <2>9. CASE OfferItem
    <3>1. /\ step' = "offered" /\ buf' = Empty
          /\ UNCHANGED <<row, cited, status, by>> /\ status = "complete"
      BY <2>9 DEF OfferItem, GoTo, Offered, BufferInv, synthesisVars, outboxVars
    <3>2. QED
      BY <3>1, <2>2
  <2>10. ASSUME NEW who \in {"job", "worklist"}, Discard(who)
         PROVE BufferInv' /\ PlannedInv' /\ CompleteInv'
    <3>1. /\ by' = who /\ step' = "check"
          /\ UNCHANGED <<row, cited, status>>
          /\ buf' = [t \in Targets |-> IF t \in Stale THEN "drop" ELSE "keep"]
      BY <2>10 DEF Discard, synthesisVars, outboxVars
    <3>2. BufferInv'
      BY <3>1 DEF BufferInv, Stale, Unwritten
    <3>3. PlannedInv' /\ CompleteInv'
      BY <2>10, <3>1 DEF Discard
    <3>4. QED
      BY <3>2, <3>3
  <2>11. CASE Check
    <3>1. /\ step = "check" /\ step' \in {"write", "defer"}
          /\ UNCHANGED <<row, cited, status, by, buf, snap>>
      BY <2>11 DEF Check, GoTo, synthesisVars, outboxVars
    <3>2. QED
      BY <3>1, <2>1
  <2>12. ASSUME NEW e \in {"defer", "write"}, step \in {"defer", "write"},
                Carries(With(Listed, e)), UNCHANGED <<synthesisVars, by, snap>>
         PROVE BufferInv' /\ PlannedInv' /\ CompleteInv'
    <3> DEFINE b == With(Listed, e)
    <3>1. /\ b \in [Targets -> Effects]
          /\ \A t \in Targets : b[t] # "keep" => t \in Unwritten
          /\ \A t \in Targets : b[t] = "drop" => t \in Claims \ cited
      BY WithListed
    <3>2. CASE by = "job"
      <4>1. step' = "complete" /\ buf' = b /\ UNCHANGED <<row, cited, status, by>>
        BY <2>12, <3>2 DEF Carries, synthesisVars
      <4>2. BufferInv'
        BY <3>1, <4>1 DEF BufferInv, Unwritten
      <4>3. QED
        BY <2>12, <3>2, <4>1, <4>2
    <3>3. CASE by = "worklist"
      <4>1. /\ step' = "idle" /\ buf' = Empty /\ row' = Committed(b)
            /\ status' = status /\ cited' = cited
        BY <2>12, <3>3 DEF Carries, synthesisVars
      <4>2. QED
        BY <2>3, <3>1, <4>1
    <3>4. QED
      BY <3>2, <3>3 DEF OutboxTypeOK
  <2>13. CASE Defer
    BY <2>13, <2>12 DEF Defer
  <2>14. CASE WriteAll
    BY <2>14, <2>12 DEF WriteAll
  <2>15. CASE WriteRefused
    <3>1. PICK before \in SUBSET (Listed \ Refused) : row' = Committed(With(before, "write"))
      BY <2>15 DEF WriteRefused
    <3>2. step' = "idle" /\ buf' = Empty /\ status' = status /\ cited' = cited
      BY <2>15 DEF WriteRefused, synthesisVars
    <3> DEFINE b == With(before, "write")
    <3>3. /\ b \in [Targets -> Effects]
          /\ \A t \in Targets : b[t] # "keep" => t \in Unwritten
          /\ \A t \in Targets : b[t] = "drop" => t \in Claims \ cited
      BY WithListed
    <3>4. QED
      BY <2>3, <3>1, <3>2, <3>3
  <2>16. CASE Complete
    <3>1. /\ step = "complete" /\ step' = "idle" /\ buf' = Empty /\ by' = by
          /\ cited' = cited /\ status' = "complete" /\ row' = Committed(buf)
      BY <2>16 DEF Complete, SetStatus
    <3>2. \A t \in cited \cup {Agent} :
            t \in Targets /\ buf[t] # "drop" /\ row[t] # "absent"
      BY <3>1 DEF OutboxTypeOK, Targets, BufferInv
    <3>3. \A t \in Targets : buf[t] # "drop" /\ row[t] # "absent" => row'[t] # "absent"
      BY <3>1, CommittedRows DEF OutboxTypeOK, BufferInv
    <3>4. QED
      BY <3>1, <3>2, <3>3, <2>2
  <2>17. CASE WorklistAborts
    BY <2>17, <2>2 DEF WorklistAborts, synthesisVars, outboxVars
  <2>18. ASSUME UNCHANGED <<row, buf, cited, step, by, snap>>,
                status' = "complete" => status = "complete",
                status = "complete" => status' = "complete"
         PROVE BufferInv' /\ PlannedInv' /\ CompleteInv'
    BY <2>18, <2>1
  <2>19. CASE (\E c \in Claims : ClaimTurns(c)) \/ InputsTurn
    BY <2>19, <2>18
       DEF ClaimTurns, InputsTurn, synthesisVars, outboxVars, workerVars
  <2>20. CASE UserNarrows \/ Sweep
    BY <2>20, <2>18 DEF UserNarrows, Sweep, outboxVars, workerVars
  <2>21. CASE UserDeletes
    BY <2>21, <2>18 DEF UserDeletes, SetStatus, outboxVars, workerVars
  <2>22. CASE UserWidens
    <3>1. UNCHANGED <<buf, cited, step, by, snap, status>>
      BY <2>22 DEF UserWidens, workerVars
    <3>2. \A t \in Targets : /\ t \in Unwritten <=> t \in Unwritten'
                             /\ row[t] = "absent" <=> row'[t] = "absent"
      BY <2>22 DEF UserWidens, Unwritten
    <3>3. BufferInv'
      BY <3>1, <3>2 DEF BufferInv
    <3>4. PlannedInv' /\ CompleteInv'
      BY <3>1, <3>2 DEF OutboxTypeOK, Targets
    <3>5. QED
      BY <3>3, <3>4
  <2>23. CASE UNCHANGED vars
    BY <2>23, <2>18 DEF vars, synthesisVars, outboxVars, workerVars
  <2>24. QED
    BY <2>4, <2>5, <2>6, <2>7, <2>8, <2>9, <2>10, <2>11, <2>13, <2>14, <2>15,
       <2>16, <2>17, <2>19, <2>20, <2>21, <2>22, <2>23
       DEF Next, Stage, Writes, World
<1>3. QED
  BY <1>1, <1>2, OutboxTypeCorrect, PTL DEF Spec, RowsInv

\* Over failed attempts, hidden rows and discards, a completed synthesis has
\* a row for every claim it cites and for its author.
THEOREM ProvenanceIsKept == Spec => []CompleteHasProvenance
<1>1. RowsInv => CompleteHasProvenance
  BY DEF RowsInv, PlannedInv, CompleteHasProvenance
<1>2. QED
  BY <1>1, RowsInvHolds, PTL

\* A row whose kernel edge exists is never taken back.
THEOREM WrittenRowsStay == Spec => WrittenIsForever
<1>1. RowsInv /\ [Next]_vars
        => [\A t \in Targets : row[t] = "written" => row'[t] = "written"]_vars
  <2> SUFFICES ASSUME RowsInv, Next, NEW t \in Targets, row[t] = "written"
               PROVE row'[t] = "written"
    OBVIOUS
  <2>1. ASSUME NEW b \in [Targets -> Effects],
               \A u \in Targets : b[u] # "keep" => u \in Unwritten,
               row' = Committed(b)
        PROVE row'[t] = "written"
    BY <2>1, CommittedRows DEF RowsInv
  <2>2. ASSUME NEW e \in {"defer", "write"}, Carries(With(Listed, e))
        PROVE row'[t] = "written"
    BY <2>2, <2>1, WithListed DEF Carries, RowsInv
  <2>3. CASE PlanEdges
    BY <2>3 DEF PlanEdges, Replanned
  <2>4. CASE Defer \/ WriteAll
    BY <2>4, <2>2 DEF Defer, WriteAll
  <2>5. CASE WriteRefused
    <3>1. PICK before \in SUBSET (Listed \ Refused) : row' = Committed(With(before, "write"))
      BY <2>5 DEF WriteRefused
    <3>2. QED
      BY <3>1, <2>1, WithListed DEF RowsInv
  <2>6. CASE Complete
    BY <2>6, <2>1 DEF Complete, RowsInv, BufferInv, OutboxTypeOK
  <2>7. CASE UserWidens
    BY <2>7 DEF UserWidens
  <2>8. CASE row' = row
    BY <2>8
  <2>9. QED
    BY <2>3, <2>4, <2>5, <2>6, <2>7, <2>8
       DEF Next, Stage, Writes, World, Recall, AttachMembers, ReplaceClusters,
           AttemptFails, OfferItem, Discard, Check, WorklistAborts, ClaimTurns,
           InputsTurn, UserNarrows, Sweep, UserDeletes, outboxVars
<1>2. QED
  BY <1>1, RowsInvHolds, PTL DEF Spec, WrittenIsForever

-----------------------------------------------------------------------------
\* What the open transaction may write, if nothing turned since it began:
\* every uncited row it can see is dropped, and it writes for a public and
\* publishable synthesis.
WriteInv ==
  /\ step \in WriteSteps =>
       \A t \in Claims \cap Unwritten :
         Sees(t) /\ t \notin cited => buf[t] = "drop" \/ t \in turned
  /\ step = "write" /\ turned = {} => visibility = "public" /\ Publishable
  /\ \A t \in Targets : buf[t] = "write" =>
       /\ t \in cited \cup {Agent} \cup turned
       /\ turned = {} => visibility = "public" /\ Publishable

\* What the write loop lists is cited, the author's, or turned.
LEMMA ListedIsCited ==
  ASSUME RowsInv, WriteInv, step \in WriteSteps, NEW t \in Listed
  PROVE  t \in cited \cup {Agent} \cup turned
BY DEF RowsInv, WriteInv, Listed, Undeferred, Unwritten, Targets

LEMMA WriteInvHolds == Spec => [](RowsInv /\ WriteInv)
<1>1. Init => WriteInv
  BY EmptyBuffer DEF Init, WriteInv, WriteSteps
<1>2. RowsInv /\ WriteInv /\ RowsInv' /\ [Next]_vars => WriteInv'
  <2> SUFFICES ASSUME RowsInv, WriteInv, RowsInv', [Next]_vars
               PROVE WriteInv'
    OBVIOUS
  \* Outside the writing transaction the buffer is empty.
  <2>1. ASSUME step' \notin WriteSteps
        PROVE WriteInv'
    <3>1. buf' = Empty
      BY <2>1 DEF RowsInv, BufferInv
    <3>2. QED
      BY <2>1, <3>1, EmptyBuffer DEF WriteInv, WriteSteps
  <2>2. CASE Stage \/ AttemptFails \/ OfferItem \/ WorklistAborts \/ WriteRefused
             \/ Complete
    <3>1. step' \notin WriteSteps
      BY <2>2 DEF Stage, Recall, AttachMembers, ReplaceClusters, PlanEdges,
                  AttemptFails, OfferItem, WorklistAborts, WriteRefused,
                  Complete, GoTo, WriteSteps
    <3>2. QED
      BY <2>1, <3>1
  <2>3. ASSUME NEW who \in {"job", "worklist"}, Discard(who)
        PROVE WriteInv'
    <3>1. /\ step' = "check" /\ UNCHANGED <<row, cited, pub>>
          /\ buf' = [t \in Targets |-> IF t \in Stale THEN "drop" ELSE "keep"]
      BY <2>3 DEF Discard, synthesisVars, outboxVars
    <3>2. QED
      BY <3>1 DEF WriteInv, Stale, Unwritten, Sees, Targets
  <2>4. CASE Check
    <3>1. /\ step = "check" /\ step' = IF Gate THEN "write" ELSE "defer"
          /\ UNCHANGED <<row, cited, pub, inputs, members, visibility, buf, turned>>
      BY <2>4 DEF Check, GoTo, synthesisVars, outboxVars, worldVars
    <3>2. QED
      BY <3>1 DEF WriteInv, WriteSteps, Unwritten, Sees, Gate, Publishable
  <2>5. ASSUME NEW e \in {"defer", "write"}, step \in {"defer", "write"},
               e = "write" => step = "write", Carries(With(Listed, e)),
               UNCHANGED <<synthesisVars, worldVars>>
        PROVE WriteInv'
    <3>1. CASE by = "worklist"
      BY <2>1, <2>5, <3>1 DEF Carries, WriteSteps
    <3>2. CASE by = "job"
      <4>1. /\ step' = "complete" /\ buf' = With(Listed, e)
            /\ UNCHANGED <<row, cited, pub, inputs, members, visibility, turned>>
        BY <2>5, <3>2 DEF Carries, synthesisVars, worldVars
      <4>2. \A t \in Targets : buf'[t] = buf[t] \/ (t \in Listed /\ buf'[t] = e)
        BY <4>1 DEF With
      <4>3. \A t \in Listed : t \in cited \cup {Agent} \cup turned
        BY <2>5, ListedIsCited DEF WriteSteps
      <4>4. \A t \in Targets : buf'[t] = "write" =>
              /\ t \in cited \cup {Agent} \cup turned
              /\ turned = {} => visibility = "public" /\ Publishable
        BY <2>5, <4>2, <4>3 DEF WriteInv
      <4>5. \A t \in Claims \cap Unwritten :
              Sees(t) /\ t \notin cited => buf'[t] = "drop" \/ t \in turned
        BY <2>5, <4>2, <4>3, OutboxAssumption DEF WriteInv, WriteSteps, Targets
      <4>6. QED
        BY <4>1, <4>4, <4>5 DEF WriteInv, Unwritten, Sees, Publishable
    <3>3. QED
      BY <3>1, <3>2 DEF RowsInv, OutboxTypeOK
  <2>6. CASE Defer
    BY <2>6, <2>5 DEF Defer
  <2>7. CASE WriteAll
    BY <2>7, <2>5 DEF WriteAll
  <2>8. ASSUME NEW c \in Claims, ClaimTurns(c)
        PROVE WriteInv'
    <3>1. /\ turned' = turned \cup {c} /\ pub' \in {pub \ {c}, pub \cup {c}}
          /\ UNCHANGED <<row, cited, inputs, members, visibility, buf, step>>
      BY <2>8 DEF ClaimTurns, Turn, synthesisVars, outboxVars, workerVars
    <3>2. QED
      BY <3>1 DEF WriteInv, Unwritten, Sees
  <2>9. CASE InputsTurn \/ UserNarrows \/ Sweep \/ UserWidens
    <3>1. /\ \E x : turned' = turned \cup {x}
          /\ UNCHANGED <<cited, pub, buf, step>>
      BY <2>9 DEF InputsTurn, UserNarrows, Sweep, UserWidens, Turn,
                  synthesisVars, workerVars
    <3>2. Unwritten' = Unwritten
      BY <2>9 DEF InputsTurn, UserNarrows, Sweep, UserWidens, outboxVars, Unwritten
    <3>3. QED
      BY <3>1, <3>2 DEF WriteInv, Sees
  <2>10. CASE UserDeletes
    <3>1. step \notin WriteSteps
      BY <2>10 DEF UserDeletes, Locked, Live, RowsInv, CompleteInv, OutboxTypeOK
    <3>2. QED
      BY <2>1, <2>10, <3>1 DEF UserDeletes, workerVars
  <2>11. CASE UNCHANGED vars
    BY <2>11
       DEF vars, synthesisVars, outboxVars, workerVars, worldVars, WriteInv,
           Unwritten, Sees, Publishable
  <2>12. QED
    BY <2>2, <2>3, <2>4, <2>6, <2>7, <2>8, <2>9, <2>10, <2>11
       DEF Next, Writes, World
<1>3. QED
  BY <1>1, <1>2, RowsInvHolds, PTL DEF Spec

\* Every kernel edge is written for a public and publishable synthesis and
\* to a claim it cites, unless a visibility turned under the transaction.
THEOREM EdgesAreAlwaysJustified == Spec => EdgesAreJustified
<1> DEFINE Justified ==
      NewEdges # {} =>
        /\ turned = {} => visibility = "public" /\ Publishable
        /\ \A t \in NewEdges : t \in cited \cup {Agent} \cup turned
<1>1. RowsInv /\ WriteInv /\ [Next]_vars => [Justified]_vars
  <2> SUFFICES ASSUME RowsInv, WriteInv, Next PROVE Justified
    OBVIOUS
  <2>1. ASSUME NEW e \in {"defer", "write"}, NEW ts \in SUBSET Listed,
               step \in {"defer", "write"}, e = "write" => step = "write",
               row' = Committed(With(ts, e))
        PROVE Justified
    <3>1. \A t \in NewEdges : t \in Targets /\ With(ts, e)[t] = "write"
      BY <2>1, CommittedRows, WithListed DEF NewEdges, RowsInv
    <3>2. \A t \in NewEdges : buf[t] = "write" \/ (t \in Listed /\ e = "write")
      BY <2>1, <3>1 DEF With
    <3>3. \A t \in Listed : t \in cited \cup {Agent} \cup turned
      BY <2>1, ListedIsCited DEF WriteSteps
    <3>4. QED
      BY <2>1, <3>1, <3>2, <3>3 DEF WriteInv
  <2>2. CASE Defer \/ WriteAll
    <3>1. CASE row' = row
      BY <3>1 DEF NewEdges
    <3>2. CASE row' # row
      BY <2>1, <2>2, <3>2 DEF Defer, WriteAll, Carries
    <3>3. QED
      BY <3>1, <3>2
  <2>3. CASE WriteRefused
    <3>1. PICK before \in SUBSET (Listed \ Refused) : row' = Committed(With(before, "write"))
      BY <2>3 DEF WriteRefused
    <3>2. QED
      BY <2>1, <2>3, <3>1 DEF WriteRefused
  <2>4. CASE Complete
    <3>1. \A t \in NewEdges : t \in Targets /\ buf[t] = "write"
      BY <2>4, CommittedRows DEF Complete, NewEdges, RowsInv, BufferInv, OutboxTypeOK
    <3>2. QED
      BY <3>1 DEF WriteInv
  <2>5. CASE PlanEdges \/ UserWidens \/ row' = row
    <3>1. NewEdges = {}
      BY <2>5 DEF PlanEdges, UserWidens, Replanned, NewEdges
    <3>2. QED
      BY <3>1
  <2>6. QED
    BY <2>2, <2>3, <2>4, <2>5
       DEF Next, Stage, Writes, World, Recall, AttachMembers, ReplaceClusters,
           AttemptFails, OfferItem, Discard, Check, WorklistAborts, ClaimTurns,
           InputsTurn, UserNarrows, Sweep, UserDeletes, outboxVars
<1>2. QED
  BY <1>1, WriteInvHolds, PTL DEF Spec, EdgesAreJustified

-----------------------------------------------------------------------------
\* What a completion rests on: the attempt has attached what its clusters
\* cite, its plan left no cited row deferred, and the transaction defers only
\* for a synthesis that may not be named, unless something turned.
PublishInv ==
  /\ step = "cluster" => snap \subseteq members
  /\ step \in {"plan", "publish"} \/ InJobTransaction => cited \subseteq members
  /\ step = "publish" \/ InJobTransaction
       => \A t \in cited \cup {Agent} : row[t] \in {"pending", "written"}
  /\ step = "defer" \/ (\E t \in Targets : buf[t] = "defer")
       => turned # {} \/ ~(visibility = "public" /\ Publishable)

LEMMA PublishInvHolds == Spec => [](RowsInv /\ PublishInv)
<1>1. Init => PublishInv
  BY EmptyBuffer DEF Init, PublishInv, InJobTransaction, WriteSteps
<1>2. RowsInv /\ PublishInv /\ RowsInv' /\ [Next]_vars => PublishInv'
  <2> SUFFICES ASSUME RowsInv, PublishInv, RowsInv', [Next]_vars
               PROVE PublishInv'
    OBVIOUS
  <2>1. ASSUME step' \in {"idle", "offered", "attach"}, buf' = Empty
        PROVE PublishInv'
    BY <2>1, EmptyBuffer DEF PublishInv, InJobTransaction, WriteSteps
  <2>2. CASE Recall \/ AttemptFails \/ OfferItem \/ WorklistAborts \/ WriteRefused
             \/ Complete
    <3>1. step' \in {"idle", "offered", "attach"}
      BY <2>2 DEF Recall, AttemptFails, OfferItem, WorklistAborts, WriteRefused,
                  Complete, GoTo
    <3>2. buf' = Empty
      BY <3>1 DEF RowsInv, BufferInv, WriteSteps
    <3>3. QED
      BY <2>1, <3>1, <3>2
  \* The stages on the way to the transaction: nothing is buffered.
  <2>3. CASE AttachMembers
    <3>1. step' = "cluster" /\ snap' \subseteq members' /\ buf' = Empty
      BY <2>3 DEF AttachMembers, GoTo, RowsInv, BufferInv, WriteSteps
    <3>2. QED
      BY <3>1, EmptyBuffer DEF PublishInv, InJobTransaction, WriteSteps
  <2>4. CASE ReplaceClusters
    <3>1. step' = "plan" /\ cited' \subseteq members' /\ buf' = Empty
      BY <2>4 DEF ReplaceClusters, GoTo, PublishInv, RowsInv, BufferInv, WriteSteps
    <3>2. QED
      BY <3>1, EmptyBuffer DEF PublishInv, InJobTransaction, WriteSteps
  <2>5. CASE PlanEdges
    <3>1. /\ step = "plan" /\ step' = "publish" /\ buf' = Empty /\ cited = snap
          /\ cited' = cited /\ members' = members /\ row' = Replanned
      BY <2>5 DEF PlanEdges, GoTo, RowsInv, BufferInv, PlannedInv, WriteSteps,
                  synthesisVars
    <3>2. \A t \in cited \cup {Agent} : t \in Targets /\ Sees(t)
      BY <2>5, <3>1 DEF PlanEdges, RowsInv, OutboxTypeOK, Targets, Sees
    <3>3. \A t \in cited \cup {Agent} : row'[t] \in {"pending", "written"}
      BY <3>1, <3>2 DEF Replanned
    <3>4. QED
      BY <3>1, <3>3, EmptyBuffer DEF PublishInv, InJobTransaction, WriteSteps
  <2>6. ASSUME NEW who \in {"job", "worklist"}, Discard(who)
        PROVE PublishInv'
    <3>1. /\ step' = "check" /\ by' = who /\ UNCHANGED <<row, cited, members>>
          /\ who = "job" => step = "publish"
          /\ buf' = [t \in Targets |-> IF t \in Stale THEN "drop" ELSE "keep"]
      BY <2>6 DEF Discard, synthesisVars, outboxVars
    <3>2. \A t \in Targets : buf'[t] # "defer"
      BY <3>1
    <3>3. QED
      BY <3>1, <3>2 DEF PublishInv, InJobTransaction, WriteSteps
  \* In the transaction: the gate sends only the unpublishable to be deferred.
  <2>7. CASE Check
    <3>1. /\ step = "check" /\ step' = IF Gate THEN "write" ELSE "defer"
          /\ UNCHANGED <<row, cited, by, status, inputs, members, pub, visibility,
                         buf, turned>>
      BY <2>7 DEF Check, GoTo, synthesisVars, outboxVars, worldVars
    <3>2. status # "deleted"
      BY <3>1 DEF RowsInv, OutboxTypeOK, CompleteInv, WriteSteps
    <3>3. QED
      BY <3>1, <3>2 DEF PublishInv, InJobTransaction, WriteSteps, Gate, Publishable
  <2>8. ASSUME NEW e \in {"defer", "write"}, step = e, Carries(With(Listed, e)),
               UNCHANGED <<synthesisVars, by, worldVars>>
        PROVE PublishInv'
    <3>1. CASE by = "worklist"
      BY <2>1, <2>8, <3>1 DEF Carries
    <3>2. CASE by = "job"
      <4>1. /\ step' = "complete" /\ buf' = With(Listed, e)
            /\ UNCHANGED <<row, cited, by, inputs, members, pub, visibility, turned>>
        BY <2>8, <3>2 DEF Carries, synthesisVars, worldVars
      <4>2. \A t \in Targets : buf'[t] = "defer" => buf[t] = "defer" \/ step = "defer"
        BY <2>8, <4>1 DEF With
      <4>3. QED
        BY <2>8, <3>2, <4>1, <4>2 DEF PublishInv, InJobTransaction, WriteSteps, Publishable
    <3>3. QED
      BY <3>1, <3>2 DEF RowsInv, OutboxTypeOK
  <2>9. CASE Defer
    BY <2>8, <2>9 DEF Defer
  <2>10. CASE WriteAll
    BY <2>8, <2>10 DEF WriteAll
  \* The world: whatever a turn changes, it is marked; a row it releases was
  \* deferred.
  <2>11. ASSUME UNCHANGED <<cited, members, snap, step, by, buf>>, turned' # {},
                \A t \in Targets : row[t] \in {"pending", "written"} => row'[t] = row[t]
         PROVE PublishInv'
    <3>1. \A t \in cited \cup {Agent} : t \in Targets
      BY DEF RowsInv, OutboxTypeOK, Targets
    <3>2. QED
      BY <2>11, <3>1 DEF PublishInv, InJobTransaction
  <2>12. ASSUME NEW c \in Claims, ClaimTurns(c)
         PROVE PublishInv'
    BY <2>11, <2>12 DEF ClaimTurns, Turn, synthesisVars, outboxVars, workerVars
  <2>13. CASE InputsTurn \/ UserNarrows \/ Sweep
    BY <2>11, <2>13 DEF InputsTurn, UserNarrows, Sweep, Turn, synthesisVars,
                        outboxVars, workerVars
  <2>14. CASE UserWidens
    BY <2>11, <2>14 DEF UserWidens, Turn, workerVars
  <2>15. CASE UserDeletes
    <3>1. step \notin WriteSteps
      BY <2>15 DEF UserDeletes, Locked, Live, RowsInv, CompleteInv, OutboxTypeOK
    <3>2. buf' = Empty /\ UNCHANGED <<cited, members, snap, step, by, row>>
      BY <2>15, <3>1 DEF UserDeletes, RowsInv, BufferInv, outboxVars, workerVars
    <3>3. QED
      BY <3>1, <3>2, EmptyBuffer DEF PublishInv, InJobTransaction, WriteSteps
  <2>16. CASE UNCHANGED vars
    BY <2>16 DEF vars, synthesisVars, outboxVars, workerVars, worldVars,
                 PublishInv, InJobTransaction, Publishable
  <2>17. QED
    BY <2>2, <2>3, <2>4, <2>5, <2>6, <2>7, <2>9, <2>10, <2>12, <2>13, <2>14,
       <2>15, <2>16
       DEF Next, Stage, Writes, World
<1>3. QED
  BY <1>1, <1>2, RowsInvHolds, PTL DEF Spec

\* A synthesis that completes public has all its edges in the kernel at that
\* moment, for every set of claims, hidden ones included, unless a visibility
\* turned under the transaction.
THEOREM CompletionIsPublished == Spec => CompletionPublishes
<1> DEFINE Published ==
      status' = "complete" /\ status # "complete" /\ visibility' = "public"
        => turned # {} \/ \A t \in cited \cup {Agent} : row'[t] = "written"
<1>1. RowsInv /\ PublishInv /\ [Next]_vars => [Published]_vars
  <2> SUFFICES ASSUME RowsInv, PublishInv, Next,
                      status' = "complete", status # "complete",
                      visibility' = "public", turned = {},
                      NEW t \in cited \cup {Agent}
               PROVE  row'[t] = "written"
    OBVIOUS
  <2>1. Complete
    BY DEF Next, Stage, Writes, World, Recall, AttachMembers, ReplaceClusters,
           PlanEdges, AttemptFails, OfferItem, Discard, Check, Defer, WriteAll,
           WriteRefused, WorklistAborts, ClaimTurns, InputsTurn, UserNarrows,
           UserWidens, Sweep, UserDeletes, SetStatus, synthesisVars
  <2>2. InJobTransaction
    BY <2>1 DEF Complete, InJobTransaction, WriteSteps, RowsInv, CompleteInv,
                OutboxTypeOK
  <2>3. visibility = "public" /\ Publishable
    BY <2>1 DEF Complete, SetStatus
  <2>4. t \in Targets /\ Sees(t)
    BY <2>2, <2>3 DEF PublishInv, Publishable, Sees, RowsInv, OutboxTypeOK, Targets
  <2>5. buf[t] \notin {"drop", "defer"}
    BY <2>3, <2>4, OutboxAssumption DEF PublishInv, RowsInv, BufferInv
  <2>6. CASE row[t] = "written"
    BY <2>1, <2>4, <2>6, CommittedRows
       DEF Complete, RowsInv, BufferInv, OutboxTypeOK
  <2>7. CASE row[t] = "pending"
    <3>1. buf[t] # "keep"
      BY <2>1, <2>4, <2>7 DEF Complete, Listed, Undeferred
    <3>2. buf[t] = "write"
      BY <2>4, <2>5, <3>1 DEF RowsInv, OutboxTypeOK, Effects
    <3>3. QED
      BY <2>1, <2>4, <3>2 DEF Complete, Committed
  <2>8. QED
    BY <2>2, <2>6, <2>7 DEF PublishInv
<1>2. QED
  BY <1>1, PublishInvHolds, PTL DEF Spec, CompletionPublishes
=============================================================================
