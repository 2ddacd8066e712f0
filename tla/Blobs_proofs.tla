--------------------------- MODULE Blobs_proofs ---------------------------
(* What holds for every set of uploads and any number of faults: the types,
   a committed row's file, whose fault a torn file is, and who leaves a
   temporary file behind. *)
EXTENDS Blobs, TLAPS

\* The variables keep their types: the two paths name files of uploads.
THEOREM BlobsTypeCorrect == Spec => []BlobsTypeOK
<1>1. Init => BlobsTypeOK
  BY DEF Init, BlobsTypeOK, Steps, Paths
<1>2. BlobsTypeOK /\ [Next]_vars => BlobsTypeOK'
  <2> SUFFICES ASSUME BlobsTypeOK, [Next]_vars PROVE BlobsTypeOK'
    OBVIOUS
  <2>1. CASE UNCHANGED vars
    BY <2>1 DEF vars, BlobsTypeOK
  <2>2. ASSUME NEW u \in Uploads, Step(u) PROVE BlobsTypeOK'
    <3> USE <2>2 DEF BlobsTypeOK, Goto, Steps, Paths, Ended
    <3>1. CASE Upload(u) \/ AttachBlob(u)
      BY <3>1 DEF Upload, AttachBlob
    <3>2. CASE OpenTmp(u) \/ WriteAll(u) \/ WriteFails(u)
      BY <3>2 DEF OpenTmp, WriteAll, WriteFails
    <3>3. CASE Insert(u) \/ BeginFails(u) \/ Place(u) \/ Rename(u)
      BY <3>3 DEF Insert, BeginFails, Place, Rename
    <3>4. CASE Commit(u) \/ Drop(u)
      BY <3>4 DEF Commit, Drop
    <3>5. QED BY <3>1, <3>2, <3>3, <3>4 DEF Step
  <2>3. QED BY <2>1, <2>2 DEF Next
<1>3. QED BY <1>1, <1>2, PTL DEF Spec

\* A committed row, and one about to be committed, has a file: the order of
\* the nested commit, the move and the request's commit is what makes it so.
THEOREM RowsHaveFiles == Spec => []RowHasFile
<1>1. Init => RowHasFile
  BY DEF Init, RowHasFile
<1>2. BlobsTypeOK /\ RowHasFile /\ [Next]_vars => RowHasFile'
  <2> SUFFICES ASSUME BlobsTypeOK, RowHasFile, [Next]_vars PROVE RowHasFile'
    OBVIOUS
  <2>1. CASE UNCHANGED vars
    BY <2>1 DEF vars, RowHasFile
  <2>2. ASSUME NEW u \in Uploads, Step(u) PROVE RowHasFile'
    <3> USE <2>2 DEF BlobsTypeOK, RowHasFile, Goto
    <3>1. CASE Upload(u) \/ AttachBlob(u)
      BY <3>1 DEF Upload, AttachBlob
    <3>2. CASE OpenTmp(u) \/ WriteAll(u) \/ WriteFails(u)
      BY <3>2 DEF OpenTmp, WriteAll, WriteFails
    <3>3. CASE Insert(u) \/ BeginFails(u) \/ Place(u)
      BY <3>3 DEF Insert, BeginFails, Place
    <3>4. CASE Rename(u)
      BY <3>4 DEF Rename
    <3>5. CASE Commit(u) \/ Drop(u)
      BY <3>5 DEF Commit, Drop
    <3>6. QED BY <3>1, <3>2, <3>3, <3>4, <3>5 DEF Step
  <2>3. QED BY <2>1, <2>2 DEF Next
<1>3. QED BY <1>1, <1>2, BlobsTypeCorrect, PTL DEF Spec

\* What is known of every file a path names: it is whole, being written by
\* the upload that created it, or that upload's write was cut short.
FileAccounted(f) == f # None => f \in whole \/ pc[f] = "write" \/ f \in cut
Accounted == FileAccounted(tmp) /\ FileAccounted(final)

\* A file that does not verify is being written or was cut short: no upload
\* that shares the temporary file tears it.
THEOREM TornFilesWereCut == Spec => []TornOnlyByACut
<1>1. Init => Accounted
  BY DEF Init, Accounted, FileAccounted
<1>2. BlobsTypeOK /\ Accounted /\ [Next]_vars => Accounted'
  <2> SUFFICES ASSUME BlobsTypeOK, Accounted, [Next]_vars PROVE Accounted'
    OBVIOUS
  <2>1. CASE UNCHANGED vars
    BY <2>1 DEF vars, Accounted, FileAccounted
  <2>2. ASSUME NEW u \in Uploads, Step(u) PROVE Accounted'
    <3> USE <2>2, BlobsAssumption DEF BlobsTypeOK, Accounted, FileAccounted, Goto, Paths
    <3>1. CASE Upload(u) \/ AttachBlob(u)
      BY <3>1 DEF Upload, AttachBlob
    <3>2. CASE OpenTmp(u)
      BY <3>2 DEF OpenTmp
    <3>3. CASE WriteAll(u) \/ WriteFails(u)
      BY <3>3 DEF WriteAll, WriteFails
    <3>4. CASE Insert(u) \/ BeginFails(u) \/ Place(u) \/ Rename(u)
      BY <3>4 DEF Insert, BeginFails, Place, Rename
    <3>5. CASE Commit(u) \/ Drop(u)
      BY <3>5 DEF Commit, Drop
    <3>6. QED BY <3>1, <3>2, <3>3, <3>4, <3>5 DEF Step
  <2>3. QED BY <2>1, <2>2 DEF Next
<1>3. Accounted => TornOnlyByACut
  BY DEF Accounted, FileAccounted, TornOnlyByACut, ReadContent
<1>4. QED BY <1>1, <1>2, <1>3, BlobsTypeCorrect, PTL DEF Spec

\* A temporary file without an upload at work on it was left by a dropped
\* request or one whose nested transaction would not begin.
THEOREM LeftoversAccounted == Spec => []LeftoversAreNamed
<1>1. Init => LeftoversAreNamed
  BY DEF Init, LeftoversAreNamed
<1>2. BlobsTypeOK /\ LeftoversAreNamed /\ [Next]_vars => LeftoversAreNamed'
  <2> SUFFICES ASSUME BlobsTypeOK, LeftoversAreNamed, [Next]_vars
               PROVE LeftoversAreNamed'
    OBVIOUS
  <2>1. CASE UNCHANGED vars
    BY <2>1 DEF vars, LeftoversAreNamed
  <2>2. ASSUME NEW u \in Uploads, Step(u) PROVE LeftoversAreNamed'
    <3> USE <2>2 DEF BlobsTypeOK, LeftoversAreNamed, Goto, Paths
    <3>1. CASE Upload(u) \/ AttachBlob(u)
      BY <3>1 DEF Upload, AttachBlob
    <3>2. CASE OpenTmp(u) \/ WriteAll(u) \/ WriteFails(u)
      BY <3>2 DEF OpenTmp, WriteAll, WriteFails
    <3>3. CASE Insert(u) \/ BeginFails(u) \/ Place(u) \/ Rename(u)
      BY <3>3 DEF Insert, BeginFails, Place, Rename
    <3>4. CASE Commit(u) \/ Drop(u)
      BY <3>4 DEF Commit, Drop, Ended
    <3>5. QED BY <3>1, <3>2, <3>3, <3>4 DEF Step
  <2>3. QED BY <2>1, <2>2 DEF Next
<1>3. QED BY <1>1, <1>2, BlobsTypeCorrect, PTL DEF Spec
=============================================================================
