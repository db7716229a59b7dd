CONSTANTS
  Games = {g1}
  Files = {f1, f2}
  Writers = {w1, w2}
  Grace = 2
  Deadline = 0
  MaxVersion = 2
  MaxFaults = 1
  LateCommit = FALSE
SYMMETRY Symmetry
SPECIFICATION Spec
INVARIANTS
  TypeOK
  BytesKept
PROPERTIES
  KeepsPromise
