--------------------------- MODULE MCManagedFiles ---------------------------
(* Instances of ManagedFiles for TLC: identifiers are interchangeable. *)
EXTENDS ManagedFilesPromise, TLC

Symmetry == Permutations(Files) \cup Permutations(Writers)
=============================================================================
