CONSTANTS
  MaxSessions = 1
  MaxTransfers = 1
  MaxActs = 3
SPECIFICATION Spec
INVARIANTS
  ScansWhatWasRead
CHECK_DEADLOCK FALSE
