CONSTANTS
  Effects = 2
  PlayScopes = 2
  LaunchFaults = 1
  PlayDevices = {"desktop", "phone", "couch"}
  MaxCommands = 1
  MaxClicks = 3
  ScreenFaults = 1
SPECIFICATION Spec
INVARIANTS
  LaunchIsMine
  LastClickCounts
  InputFollowsScreen
PROPERTIES
  NothingLeftBehind
  ScreenGivenBack
  PortraitPauses
CHECK_DEADLOCK FALSE
