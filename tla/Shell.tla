------------------------------- MODULE Shell -------------------------------
(* The immersive shell and the panels of the player: the game editor, the input of the    *)
(* controllers, the chord that opens the menu and the window over a list of games. A       *)
(* behaviour is one of one of these modules, chosen at the start; they share nothing.      *)
EXTENDS Naturals

CONSTANTS   \* those of the modules, where they are explained
  EditorPersons, EditorPageSize, EditorRowCount, EditorUses, EditorFaults,
  Pads, NeutralDelay, CooldownDelay, InitialRepeat, Repeat, PadInputs,
  ChordWindow, ChordRelease, SecondChord, ChordNeutral,
  LongList, ShortList, EntriesPageSize, VisibleRows, StartOffset, EntriesSteps, EntriesFaults

\* Pages hold something, and lists have a length.
ASSUME ShellAssumption ==
  /\ EditorPageSize \in Nat \ {0} /\ EditorRowCount \in Nat
  /\ EntriesPageSize \in Nat \ {0} /\ LongList \in Nat /\ ShortList \in Nat
  /\ VisibleRows \in Nat /\ StartOffset \in Nat

VARIABLES
  shellPart,  \* which of the modules this behaviour is one of
  picked, editorFilter, due, editorRows, nextOffset, loading, loadingMore, pageError, failed,
  requestedPage, editorCalls, values, overtaken, editorActs, editorErrors,
  padsPad, padsFront, padsActive, padsPage, padsMode, padsChoice, padsCooled, padsExit,
  padsSeen, padsClaims, padsNav, padsActed, padsStale, padsSpent, padsFresh,
  padsInputs,
  chordHeld, chordSuppressed, chordDialog, chordCalm, chordPrevious, chordDownFor,
  chordCandidate, chordChord, chordCompleted, chordOutput, chordSince, chordTogether,
  chordRested,
  games, entriesList, window, entriesRequest, position, start, restored, toggling,
  entriesAsked, entriesStale, moves, entriesErrors

editorVars == <<picked, editorFilter, due, editorRows, nextOffset, loading, loadingMore,
                pageError, failed, requestedPage, editorCalls, values, overtaken, editorActs,
                editorErrors>>
padsVars == <<padsPad, padsFront, padsActive, padsPage, padsMode, padsChoice, padsCooled,
              padsExit, padsSeen, padsClaims, padsNav, padsActed, padsStale, padsSpent,
              padsFresh, padsInputs>>
chordVars == <<chordHeld, chordSuppressed, chordDialog, chordCalm, chordPrevious, chordDownFor,
               chordCandidate, chordChord, chordCompleted, chordOutput, chordSince,
               chordTogether, chordRested>>
entriesVars == <<games, entriesList, window, entriesRequest, position, start, restored,
                 toggling, entriesAsked, entriesStale, moves, entriesErrors>>
shellVars == <<shellPart, editorVars, padsVars, chordVars, entriesVars>>

Editor == INSTANCE GameEditor WITH
  Persons <- EditorPersons, PageSize <- EditorPageSize, RowCount <- EditorRowCount,
  MaxActs <- EditorUses, MaxErrors <- EditorFaults, filter <- editorFilter, rows <- editorRows,
  calls <- editorCalls, acts <- editorActs, errors <- editorErrors
Gamepads == INSTANCE GamepadInput WITH
  MaxInputs <- PadInputs, pad <- padsPad, front <- padsFront, active <- padsActive,
  page <- padsPage, mode <- padsMode, choice <- padsChoice, cooled <- padsCooled,
  exit <- padsExit, seen <- padsSeen, claims <- padsClaims, nav <- padsNav, acted <- padsActed,
  stale <- padsStale, spent <- padsSpent, fresh <- padsFresh,
  inputs <- padsInputs
Chord == INSTANCE MenuChord WITH
  Neutral <- ChordNeutral, held <- chordHeld, suppressed <- chordSuppressed,
  dialog <- chordDialog, calm <- chordCalm, previous <- chordPrevious, downFor <- chordDownFor,
  candidate <- chordCandidate, chord <- chordChord, completed <- chordCompleted,
  output <- chordOutput, since <- chordSince, together <- chordTogether, rested <- chordRested
Entries == INSTANCE EntryList WITH
  Long <- LongList, Short <- ShortList, PageSize <- EntriesPageSize, Rows <- VisibleRows,
  MaxMoves <- EntriesSteps, MaxErrors <- EntriesFaults, list <- entriesList,
  request <- entriesRequest, asked <- entriesAsked, stale <- entriesStale,
  errors <- entriesErrors

\* The variables of the modules that a behaviour is not one of stay at 0.
EditorOff ==
  /\ picked = 0 /\ editorFilter = 0 /\ due = 0 /\ editorRows = 0 /\ nextOffset = 0
  /\ loading = 0 /\ loadingMore = 0 /\ pageError = 0 /\ failed = 0 /\ requestedPage = 0
  /\ editorCalls = 0 /\ values = 0 /\ overtaken = 0 /\ editorActs = 0 /\ editorErrors = 0
GamepadsOff ==
  /\ padsPad = 0 /\ padsFront = 0 /\ padsActive = 0 /\ padsPage = 0 /\ padsMode = 0
  /\ padsChoice = 0 /\ padsCooled = 0 /\ padsExit = 0 /\ padsSeen = 0 /\ padsClaims = 0
  /\ padsNav = 0 /\ padsActed = 0 /\ padsStale = 0 /\ padsSpent = 0 /\ padsFresh = 0
  /\ padsInputs = 0
ChordOff ==
  /\ chordHeld = 0 /\ chordSuppressed = 0 /\ chordDialog = 0 /\ chordCalm = 0
  /\ chordPrevious = 0 /\ chordDownFor = 0 /\ chordCandidate = 0 /\ chordChord = 0
  /\ chordCompleted = 0 /\ chordOutput = 0 /\ chordSince = 0 /\ chordTogether = 0
  /\ chordRested = 0
EntriesOff ==
  /\ games = 0 /\ entriesList = 0 /\ window = 0 /\ entriesRequest = 0 /\ position = 0
  /\ start = 0 /\ restored = 0 /\ toggling = 0 /\ entriesAsked = 0 /\ entriesStale = 0
  /\ moves = 0 /\ entriesErrors = 0

ShellInit ==
  \/ /\ shellPart = "editor" /\ Editor!Init
     /\ GamepadsOff /\ ChordOff /\ EntriesOff
  \/ /\ shellPart = "pads" /\ Gamepads!Init
     /\ EditorOff /\ ChordOff /\ EntriesOff
  \/ /\ shellPart = "chord" /\ Chord!Init
     /\ EditorOff /\ GamepadsOff /\ EntriesOff
  \/ /\ shellPart = "entries" /\ Entries!Init
     /\ EditorOff /\ GamepadsOff /\ ChordOff

ShellNext ==
  \/ /\ shellPart = "editor" /\ Editor!Next
     /\ UNCHANGED <<shellPart, padsVars, chordVars, entriesVars>>
  \/ /\ shellPart = "pads" /\ Gamepads!Next
     /\ UNCHANGED <<shellPart, editorVars, chordVars, entriesVars>>
  \/ /\ shellPart = "chord" /\ Chord!Next
     /\ UNCHANGED <<shellPart, editorVars, padsVars, entriesVars>>
  \/ /\ shellPart = "entries" /\ Entries!Next
     /\ UNCHANGED <<shellPart, editorVars, padsVars, chordVars>>

\* The fairness of each module.
ShellFairness ==
  /\ WF_editorVars(shellPart = "editor" /\ Editor!Progress)
  /\ WF_padsVars(shellPart = "pads" /\ Gamepads!Progress)
  /\ WF_entriesVars(shellPart = "entries" /\ Entries!Progress)

ShellSpec == ShellInit /\ [][ShellNext]_shellVars /\ ShellFairness

\* Property: the editor shows the rows of the list that is selected, without a gap, and each
\* with the value it has in the game, but for edits whose answer a request for a page overtook
\* (game-editor-panel.tsx).
RowsAreRight == shellPart = "editor" => Editor!RowsAreOfSelection /\ Editor!RowsAreCurrent

\* Property: the window over a list is a contiguous part of it (use-entry-window.ts).
WindowIsContiguous == shellPart = "entries" => Entries!WindowIsContiguous

\* Property: what is held when a page or a dialog changes does not act there, but for what is
\* held as the home page comes back (input-model.ts, entry-dialog.tsx).
NoCarriedAction == [][shellPart = "pads" => Gamepads!NoCarriedAction]_shellVars

\* Property: the menu of the player opens on two chords only (immersive-controls.ts).
OpensOnTwoChords == [][shellPart = "chord" => Chord!OpensOnTwoChords]_shellVars

\* Property: a list is read to its end as it is scrolled, a dialog does not wait for a
\* controller that nobody holds, and the selection arrives where the user went.
PagesSettle ==
  <>[](/\ shellPart = "editor" => Editor!ListIsRead
       /\ shellPart = "pads" => Gamepads!DialogAnswers
       /\ shellPart = "entries" => Entries!SelectionArrives)
===============================================================================
