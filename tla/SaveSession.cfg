SPECIFICATION FairSpec
CONSTANTS
  MaxDrafts = 2
  MaxRevision = 2
  MaxFaults = 1
INVARIANTS
  DraftsKept
  ExitSynced
PROPERTIES
  NeverOlder
  NoRevisionForgotten
CHECK_DEADLOCK FALSE
