------------------------------ MODULE Pages ------------------------------
(* The pages of the web client that keep state between requests: the service worker and   *)
(* its windows, the favorites, the directories, the stack of dialogs and the accounts. A   *)
(* behaviour is one of one of these modules, chosen at the start; they share nothing.      *)
EXTENDS Naturals

CONSTANTS   \* those of the modules, where they are explained
  Windows, AppVersions, StaticEntries, UpdateActs,
  GameCount, PageSize, FavoriteActs, FavoriteErrors,
  DirectoryCount, DirectoryVersions,
  Dialogs,
  LinkCount, AccountVersions

\* Dialogs are told from the page, and there are a number of directories.
PagesConfigured == DirectoryCount \in Nat /\ 0 \notin Dialogs

\* There are a number of games, and a page holds some of them.
ASSUME LibraryAssumption == GameCount \in Nat /\ PageSize \in Nat \ {0}

VARIABLES
  pagesPart,  \* which of the modules this behaviour is one of
  latest, installing, updateWaiting, active, skip, stored, shells, statics, chunk, updatePage,
  document, registered, changed, updateUpdate, letter, updateActs,
  favorites, filed, exists, folder, libraryList, request, known, libraryReading, selecting,
  librarySelected, dialog, organizing, batch, calls, unread, libraryActs, errors,
  rows, shown, directoriesReading, catalog, filter, open, menu, directoriesFocus,
  directoriesEditing, form, directoriesDeleting, directoriesCall,
  layers, locked, expanded, lastFocused, previous, dialogsRow, dialogsFocus, home, tangled,
  user, sessions, checked, links, making, accountsList, accountsEditing, accountsDeleting, inviting,
  link, summary, accountsTarget, accountsCall

updateVars == <<latest, installing, updateWaiting, active, skip, stored, shells, statics, chunk,
                 updatePage, document, registered, changed, updateUpdate, letter, updateActs>>
libraryVars == <<favorites, filed, exists, folder, libraryList, request, known, libraryReading,
                  selecting, librarySelected, dialog, organizing, batch, calls, unread, libraryActs,
                  errors>>
directoriesVars == <<rows, shown, directoriesReading, catalog, filter, open, menu,
                      directoriesFocus, directoriesEditing, form, directoriesDeleting,
                      directoriesCall>>
dialogsVars == <<layers, locked, expanded, lastFocused, previous, dialogsRow, dialogsFocus, home,
                  tangled>>
accountsVars == <<user, sessions, checked, links, making, accountsList, accountsEditing,
                   accountsDeleting, inviting, link, summary, accountsTarget, accountsCall>>
pagesVars == <<pagesPart, updateVars, libraryVars, directoriesVars, dialogsVars, accountsVars>>

Update == INSTANCE AppUpdate WITH
  Versions <- AppVersions, MaxActs <- UpdateActs, waiting <- updateWaiting, page <- updatePage,
  update <- updateUpdate, acts <- updateActs
Library == INSTANCE FavoriteLibrary WITH
  MaxActs <- FavoriteActs, MaxErrors <- FavoriteErrors, list <- libraryList,
  reading <- libraryReading, selected <- librarySelected, acts <- libraryActs
Directories == INSTANCE DirectoryPage WITH
  Count <- DirectoryCount, MaxVersion <- DirectoryVersions, reading <- directoriesReading,
  focus <- directoriesFocus, editing <- directoriesEditing, deleting <- directoriesDeleting,
  call <- directoriesCall
DialogStack == INSTANCE DialogFocus WITH
  row <- dialogsRow, focus <- dialogsFocus
Accounts == INSTANCE AccountAdmin WITH
  MaxVersion <- AccountVersions, list <- accountsList, editing <- accountsEditing,
  deleting <- accountsDeleting, target <- accountsTarget, call <- accountsCall

\* The variables of the modules that a behaviour is not one of stay at 0.
UpdateOff ==
  /\ latest = 0 /\ installing = 0 /\ updateWaiting = 0 /\ active = 0 /\ skip = 0 /\ stored = 0
  /\ shells = 0 /\ statics = 0 /\ chunk = 0 /\ updatePage = 0 /\ document = 0 /\ registered = 0
  /\ changed = 0 /\ updateUpdate = 0 /\ letter = 0 /\ updateActs = 0
LibraryOff ==
  /\ favorites = 0 /\ filed = 0 /\ exists = 0 /\ folder = 0 /\ libraryList = 0 /\ request = 0
  /\ known = 0 /\ libraryReading = 0 /\ selecting = 0 /\ librarySelected = 0 /\ dialog = 0
  /\ organizing = 0 /\ batch = 0 /\ calls = 0 /\ unread = 0 /\ libraryActs = 0 /\ errors = 0
DirectoriesOff ==
  /\ rows = 0 /\ shown = 0 /\ directoriesReading = 0 /\ catalog = 0 /\ filter = 0 /\ open = 0
  /\ menu = 0 /\ directoriesFocus = 0 /\ directoriesEditing = 0 /\ form = 0
  /\ directoriesDeleting = 0 /\ directoriesCall = 0
DialogStackOff ==
  /\ layers = 0 /\ locked = 0 /\ expanded = 0 /\ lastFocused = 0 /\ previous = 0 /\ dialogsRow = 0
  /\ dialogsFocus = 0 /\ home = 0 /\ tangled = 0
AccountsOff ==
  /\ user = 0 /\ sessions = 0 /\ checked = 0 /\ links = 0 /\ making = 0 /\ accountsList = 0
  /\ accountsEditing = 0 /\ accountsDeleting = 0 /\ inviting = 0 /\ link = 0 /\ summary = 0
  /\ accountsTarget = 0 /\ accountsCall = 0

PagesInit ==
  \/ /\ pagesPart = "update" /\ Update!Init
     /\ LibraryOff /\ DirectoriesOff /\ DialogStackOff /\ AccountsOff
  \/ /\ pagesPart = "library" /\ Library!Init
     /\ UpdateOff /\ DirectoriesOff /\ DialogStackOff /\ AccountsOff
  \/ /\ pagesPart = "directories" /\ Directories!Init
     /\ UpdateOff /\ LibraryOff /\ DialogStackOff /\ AccountsOff
  \/ /\ pagesPart = "dialogs" /\ DialogStack!Init
     /\ UpdateOff /\ LibraryOff /\ DirectoriesOff /\ AccountsOff
  \/ /\ pagesPart = "accounts" /\ Accounts!Init
     /\ UpdateOff /\ LibraryOff /\ DirectoriesOff /\ DialogStackOff

PagesNext ==
  \/ /\ pagesPart = "update" /\ Update!Next
     /\ UNCHANGED <<pagesPart, libraryVars, directoriesVars, dialogsVars, accountsVars>>
  \/ /\ pagesPart = "library" /\ Library!Next
     /\ UNCHANGED <<pagesPart, updateVars, directoriesVars, dialogsVars, accountsVars>>
  \/ /\ pagesPart = "directories" /\ Directories!Next
     /\ UNCHANGED <<pagesPart, updateVars, libraryVars, dialogsVars, accountsVars>>
  \/ /\ pagesPart = "dialogs" /\ DialogStack!Next
     /\ UNCHANGED <<pagesPart, updateVars, libraryVars, directoriesVars, accountsVars>>
  \/ /\ pagesPart = "accounts" /\ Accounts!Next
     /\ UNCHANGED <<pagesPart, updateVars, libraryVars, directoriesVars, dialogsVars>>

PagesSpec == PagesInit /\ [][PagesNext]_pagesVars

\* Property: the favorites shown are those of the server once all is read
\* (use-infinite-resource.ts).
ListIsCurrent == pagesPart = "library" => Library!ListIsCurrent

\* Property: a session that authenticates was opened with the present password (accounts).
SessionsAreCurrent == pagesPart = "accounts" => Accounts!SessionsAreCurrent

\* Property: the caches of the versions in use stay (service-worker.js).
CachesKept == [][pagesPart = "update" => Update!CachesKept]_pagesVars

\* Property: a document is replaced only in a window that does not play, by the version that
\* was asked for or a newer one (worker-client.ts).
UpdatesInPeace == [][pagesPart = "update" => Update!UpdatesInPeace]_pagesVars

\* Property: saving or deleting replaces what the form or the dialog showed, whoever wrote
\* meanwhile (directory-manager.tsx, user-manager.tsx).
ReplacesWhatWasSeen ==
  [][/\ pagesPart = "directories" => Directories!ReplacesWhatWasSeen
     /\ pagesPart = "accounts" => Accounts!ReplacesTheAccountShown]_pagesVars

\* Property: the focus stays inside the topmost dialog, and when the last one closes it is
\* where it was before the first (modal-focus.ts).
FocusComesBack ==
  [][pagesPart = "dialogs" => DialogStack!FocusStaysInside /\ DialogStack!FocusComesBack]_pagesVars
===============================================================================
