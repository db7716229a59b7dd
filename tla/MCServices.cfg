CONSTANTS
  c1 = c1
  c2 = c2
  c3 = c3
  p1 = p1
  p2 = p2
  g = g
  s1 = s1
  s2 = s2
  None = None
  Calls <- ThreeCalls
  Lanes = {"interactive"}
  LaneOf <- OneLane
  Size <- OfOne
  Concurrency <- OneSlot
  Capacity <- ThreeAdmitted
  Budget = 2
  WriteBuffer = 1
  Processes <- TwoProcesses
  WorkerFaults = 1
  Scans <- ThreeScans
  ItemCount = 2
  KindOf <- Kinds
  ContentOf <- Contents
  MaxScans = 2
  ProgressFails = TRUE
  LastMomentCancel = FALSE
  MaxFaults = 1
  Ops = {"o1", "o2", "o3"}
  Games = {"g1", "g2"}
  GameOf <- Targets
  QueueLimit = 1
  LateCommit = TRUE
  ReplacementFaults = 1
SPECIFICATION ServicesSpec
SYMMETRY Symmetry
INVARIANTS
  LanesServe
  RowsAgree
  Truthful
  Recoverable
PROPERTIES
  ResultsFinal
CHECK_DEADLOCK FALSE
