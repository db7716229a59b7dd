SPECIFICATION Spec
CONSTANTS
  Long = 5
  Short = 3
  PageSize = 2
  Rows = 2
  StartOffset = 4
  MaxMoves = 4
  MaxErrors = 1
INVARIANTS
  ShowsItsList
CHECK_DEADLOCK FALSE
