------------------------------ MODULE MCUploads ------------------------------
(* Instances of Uploads for TLC: one file of two bytes and an empty one. *)
EXTENDS Uploads, TLC

MCSize == [i \in Index |-> IF i = 1 THEN 2 ELSE 0]
Symmetry == Permutations(UploadIds) \cup Permutations(Requests)
=============================================================================
