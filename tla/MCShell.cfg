CONSTANTS
  EditorPersons = {"p1", "p2"}
  EditorPageSize = 2
  EditorRowCount = 3
  EditorUses = 3
  EditorFaults = 1
  Pads = {1, 2}
  NeutralDelay = 1
  CooldownDelay = 2
  InitialRepeat = 2
  Repeat = 1
  PadInputs = 3
  ChordWindow = 2
  ChordRelease = 2
  SecondChord = 5
  ChordNeutral = 2
  LongList = 5
  ShortList = 3
  EntriesPageSize = 2
  VisibleRows = 2
  StartOffset = 4
  EntriesSteps = 4
  EntriesFaults = 1
SPECIFICATION ShellSpec
INVARIANTS
  RowsAreRight
  WindowIsContiguous
PROPERTIES
  NoCarriedAction
  OpensOnTwoChords
  PagesSettle
CHECK_DEADLOCK FALSE
