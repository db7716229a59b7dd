CONSTANTS
  None = None
SPECIFICATION Spec
PROPERTIES
  EverythingReclaimed
  StagingReclaimed
  CallsReturn
  ScansEnd
  OperationsEnd
CHECK_DEADLOCK FALSE
