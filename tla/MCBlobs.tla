------------------------------ MODULE MCBlobs ------------------------------
(* Four uploads of one content, two of them dropped or their writes failed. *)
EXTENDS Blobs, TLC
Symmetric == Permutations(Uploads)
=============================================================================
