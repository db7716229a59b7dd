CONSTANTS
  MaxSessions = 2
  MaxTransfers = 2
  MaxActs = 2
  WideActive = 2
  NarrowActive = 1
  MaxQueued = 1
  Patience = 1
  Fetches = {"f1", "f2", "f3"}
  Large = {"f1"}
  MaxPorts = 2
  RelayFaults = 1
SPECIFICATION TransfersSpec
INVARIANTS
  BytesArrive
  ScanIsOfOneSource
  ReadsGoOn
PROPERTIES
  UploadEnds
  EveryFetchEnds
CHECK_DEADLOCK FALSE
