CONSTANTS
  UploadIds = {u1}
  Index = {1, 2}
  Size <- MCSize
  Requests = {r1, r2}
  MaximumSessions = 1
  MaximumScans = 2
  Window = 2
  MaxFaults = 1
  RedisFails = FALSE
  Overlap = TRUE
SPECIFICATION Spec
INVARIANTS
  ScannedOnce
