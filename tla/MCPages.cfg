CONSTANTS
  Windows = {"w1", "w2"}
  AppVersions = 3
  StaticEntries = 1
  UpdateActs = 3
  GameCount = 2
  PageSize = 1
  FavoriteActs = 2
  FavoriteErrors = 1
  DirectoryCount = 1
  DirectoryVersions = 3
  Dialogs = {1, 2}
  LinkCount = 1
  AccountVersions = 2
  UploadIds = {u1, u2}
  Index = {1, 2}
  Size <- MCSize
  Requests = {r1, r2}
  MaximumSessions = 1
  MaximumScans = 2
  Window = 2
  MaxFaults = 1
  RedisFails = TRUE
  Overlap = FALSE
SPECIFICATION ServedSpec
INVARIANTS
  StagingIsSound
  ListIsCurrent
  SessionsAreCurrent
PROPERTIES
  CachesKept
  UpdatesInPeace
  ReplacesWhatWasSeen
  FocusComesBack
CHECK_DEADLOCK FALSE
