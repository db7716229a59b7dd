------------------------- MODULE ManagedFilesPromise -------------------------
(* ManagedFiles implements FilePromise: the phase of a file and the           *)
(* completeness of its bytes, computed from rows, directories and disk.       *)
EXTENDS ManagedFiles

OwedForGrace(f) ==
  /\ file[f].status = "deleted" => file[f].age < Grace
  /\ game[owner[f]].status = "deleted" => game[owner[f]].age < Grace

Phase(f) ==
  CASE owner[f] = NoGame -> "unused"
    [] owner[f] # NoGame /\ file[f].status = "none" ->
         IF payload[f] = Absent /\ origin[f] = Absent THEN "gone" ELSE "unclaimed"
    [] file[f].status = "active" /\ Live(owner[f]) -> "live"
    [] file[f].status = "deleted" \/ (file[f].status = "active" /\ ~Live(owner[f])) ->
         IF OwedForGrace(f) THEN "kept" ELSE "expired"
    [] file[f].status \in {"purged", "erased"} -> "gone"

Abstract == INSTANCE FilePromise WITH
  phase <- [f \in Files |-> Phase(f)],
  whole <- [f \in Files |-> Present(f)]

\* Every step of the rows, the disk and the sweeps is a step the promise allows:
\* bytes are lost only before they are claimed or after their grace.
KeepsPromise == Abstract!Promise
=============================================================================
