------------------------------- MODULE Blobs -------------------------------
(***************************************************************************)
(* The uploads of ONE content: one hash, so one final path {hash}.blob and *)
(* one temporary path {hash}.blob.tmp that every upload of it shares       *)
(* (repos/blob.rs).  An upload writes the temporary file, inserts its row  *)
(* in a nested transaction, moves the file into place and commits the      *)
(* request's transaction last.  A path names a file by the upload that     *)
(* created it; a writer's open handle follows the file when it is renamed. *)
(***************************************************************************)
EXTENDS Naturals, FiniteSets

CONSTANTS
  Uploads,   (* requests that carry the content                             *)
  None,      (* a path that names no file                                   *)
  MaxCuts    (* bound: requests dropped, writes and nested transactions     *)
             (* failed                                                      *)

ASSUME BlobsAssumption == None \notin Uploads /\ MaxCuts \in Nat

VARIABLES
  pc,        (* [Uploads -> Steps]: what an upload does next                *)
  tmp,       (* the file {hash}.blob.tmp names                              *)
  final,     (* the file {hash}.blob names                                  *)
  whole,     (* files that hold every byte of the content                   *)
  cut,       (* uploads whose own write was cut short                       *)
  left,      (* uploads that ended without cleaning up: dropped (the client *)
             (* left, the process stopped), or refused a transaction        *)
  rows       (* uploads whose row is committed                              *)

vars == <<pc, tmp, final, whole, cut, left, rows>>

Ended == {"done", "failed"}
Steps == {"idle", "open", "write", "insert", "place", "rename", "commit"} \cup Ended
Paths == Uploads \cup {None}

Init ==
  /\ pc = [u \in Uploads |-> "idle"]
  /\ tmp = None /\ final = None
  /\ whole = {} /\ cut = {} /\ left = {} /\ rows = {}

Goto(u, s) == pc' = [pc EXCEPT ![u] = s]
Faults == Cardinality(cut \cup left)
-----------------------------------------------------------------------------
\* A request before it reaches the store: whether it is complete, fits the
\* upload limit, whom it names as the uploader and the sample it attaches to.
Requests == [complete : BOOLEAN, fits : BOOLEAN, uploader : {"caller", "absent", "other"},
             sample : {"none", "writable", "hidden"}]

\* HTTP refuses another uploader; the MCP tool has no such field.
Admits(q) == q.complete /\ q.fits /\ q.uploader # "other" /\ q.sample # "hidden"
AdmitsTool(q) == q.complete /\ q.fits /\ q.sample # "hidden"

Upload(u) ==
  /\ pc[u] = "idle"
  /\ \E q \in Requests : Goto(u, IF Admits(q) THEN "open" ELSE "failed")
  /\ UNCHANGED <<tmp, final, whole, cut, left, rows>>

AttachBlob(u) ==
  /\ pc[u] = "idle"
  /\ \E q \in Requests : Goto(u, IF AdmitsTool(q) THEN "open" ELSE "failed")
  /\ UNCHANGED <<tmp, final, whole, cut, left, rows>>

\* Mutant: create instead of create_new.
OpenTmpTruncates(u) ==
  /\ pc[u] = "open"
  /\ tmp' = (IF tmp = None THEN u ELSE tmp)
  /\ whole' = whole \ {tmp'}
  /\ Goto(u, "write")
  /\ UNCHANGED <<final, cut, left, rows>>

\* create_new: an existing temporary file, another upload's or a leftover, is
\* not an error and is not written.  Any other error ends the upload.
OpenTmp(u) ==
  /\ pc[u] = "open"
  /\ \/ Goto(u, "failed") /\ tmp' = tmp
     \/ tmp = None /\ tmp' = u /\ Goto(u, "write")
     \/ tmp # None /\ tmp' = tmp /\ Goto(u, "insert")
  /\ UNCHANGED <<final, whole, cut, left, rows>>

WriteAll(u) ==
  /\ pc[u] = "write"
  /\ whole' = whole \cup {u}
  /\ Goto(u, "insert")
  /\ UNCHANGED <<tmp, final, cut, left, rows>>

\* The path is removed, whichever file it names by now.
WriteFails(u) ==
  /\ pc[u] = "write" /\ Faults < MaxCuts
  /\ cut' = cut \cup {u}
  /\ tmp' = None
  /\ Goto(u, "failed")
  /\ UNCHANGED <<final, whole, left, rows>>

\* The INSERT and the nested transaction's commit, a savepoint of the
\* request's: the row is not visible yet.  Refused (a CHECK, the sample's
\* guard, a lost connection), the temporary path is removed.
Insert(u) ==
  /\ pc[u] = "insert"
  /\ \/ Goto(u, "place") /\ tmp' = tmp
     \/ Goto(u, "failed") /\ tmp' = None
  /\ UNCHANGED <<final, whole, cut, left, rows>>

\* The nested transaction does not begin: this return removes nothing.
BeginFails(u) ==
  /\ pc[u] = "insert" /\ Faults < MaxCuts
  /\ left' = left \cup {u}
  /\ Goto(u, "failed")
  /\ UNCHANGED <<tmp, final, whole, cut, rows>>

\* file_path.exists(): the rename is a later call.
Place(u) ==
  /\ pc[u] = "place"
  /\ \/ final # None /\ tmp' = None /\ Goto(u, "commit")
     \/ final = None /\ tmp' = tmp /\ Goto(u, "rename")
  /\ UNCHANGED <<final, whole, cut, left, rows>>

\* Mutant: an unnoticed rename failure.
RenameUnchecked(u) ==
  /\ pc[u] = "rename"
  /\ final' = (IF tmp = None THEN final ELSE tmp) /\ tmp' = None
  /\ Goto(u, "commit")
  /\ UNCHANGED <<whole, cut, left, rows>>

\* The rename replaces the final file if there is one by now, and fails if
\* another upload took the temporary one; the error rolls the row back.
Rename(u) ==
  /\ pc[u] = "rename"
  /\ \/ tmp # None /\ final' = tmp /\ tmp' = None /\ Goto(u, "commit")
     \/ tmp = None /\ Goto(u, "failed") /\ UNCHANGED <<tmp, final>>
  /\ UNCHANGED <<whole, cut, left, rows>>

\* The request's transaction: the row appears, or the commit fails.
Commit(u) ==
  /\ pc[u] = "commit"
  /\ \/ rows' = rows \cup {u} /\ Goto(u, "done")
     \/ rows' = rows /\ Goto(u, "failed")
  /\ UNCHANGED <<tmp, final, whole, cut, left>>

\* The request is dropped between two of its awaits, as when the process
\* stops: nothing is cleaned up, and the open transaction rolls back.  A write
\* under way is cut short.
Drop(u) ==
  /\ pc[u] \notin Ended \cup {"idle"} /\ Faults < MaxCuts
  /\ cut' = IF pc[u] = "write" THEN cut \cup {u} ELSE cut
  /\ left' = left \cup {u}
  /\ Goto(u, "failed")
  /\ UNCHANGED <<tmp, final, whole, rows>>

Step(u) ==
  \/ Upload(u) \/ AttachBlob(u) \/ OpenTmp(u) \/ WriteAll(u) \/ WriteFails(u)
  \/ Insert(u) \/ BeginFails(u) \/ Place(u) \/ Rename(u) \/ Commit(u) \/ Drop(u)
Next == \E u \in Uploads : Step(u)

Spec == Init /\ [][Next]_vars
-----------------------------------------------------------------------------
\* What a download and verify_integrity find of the content.
ReadContent ==
  IF final = None THEN "not_found" ELSE IF final \in whole THEN "content" ELSE "other bytes"
VerifyIntegrity == ReadContent = "content"
-----------------------------------------------------------------------------
\* The variables keep their types.
BlobsTypeOK ==
  /\ pc \in [Uploads -> Steps]
  /\ tmp \in Paths /\ final \in Paths
  /\ whole \subseteq Uploads /\ cut \subseteq Uploads
  /\ left \subseteq Uploads /\ rows \subseteq Uploads

\* A committed row always has a file to download, and so has a request that
\* is about to commit one: whoever placed it, whatever was dropped between
\* two steps, and however often uploads of the content race for its two paths.
RowHasFile ==
  rows # {} \/ (\E u \in Uploads : pc[u] = "commit") => final # None

\* Where the file of committed rows does not verify, its own writer is still
\* at it or had its write cut short: uploads that share the temporary file,
\* skip the write or overwrite the final file never tear it themselves.
TornOnlyByACut ==
  ReadContent = "other bytes" => pc[final] = "write" \/ final \in cut

\* A temporary file is left behind only by a request that was dropped or
\* whose nested transaction would not begin: every other way out of an upload
\* that created it removes it or moves it, or finds that another did.
LeftoversAreNamed ==
  tmp # None => pc[tmp] \in {"write", "insert", "place", "rename"} \/ tmp \in left

\* blob.rs:68: the row is inserted "within a transaction so file+row stay in
\* sync".  Checked as it stands: once no upload is under way, the file of a
\* committed row verifies, although another request of the content was dropped
\* while it wrote, before this one met its temporary file (a leftover, which
\* blob.rs:62 calls non-fatal) or later.
FileAndRowInSync ==
  rows # {} /\ (\A u \in Uploads : pc[u] \in Ended \cup {"idle"})
    => VerifyIntegrity
=============================================================================
