CONSTANTS
  Games = {g1}
  Files = {f1, f2}
  Writers = {w1, w2}
  Grace = 2
  Deadline = 1
  MaxVersion = 2
  MaxFaults = 1
  LateCommit = TRUE
SYMMETRY Symmetry
SPECIFICATION Spec
INVARIANTS
  LiveFilesReadable
