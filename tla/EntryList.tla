------------------------------- MODULE EntryList -------------------------------
(***************************************************************************)
(* The lists of the immersive shell (features/immersive: use-entry-window,  *)
(* use-list-navigation, use-immersive-library): a window of a long list     *)
(* that may start anywhere, grows at both ends and is opened anew by a jump *)
(* to a letter, and a selection that is a position in the whole list.  At   *)
(* most one request is under way; starting another aborts it.               *)
(***************************************************************************)
EXTENDS Ordering, Sequences

CONSTANTS
  Long, Short,  \* how many games the two lists have (views, directories, folders)
  PageSize,     \* PAGE_SIZE
  Rows,         \* visibleRows: how far the shoulders move
  StartOffset,  \* restoreOffset: where a list that was left for a game is opened again
  MaxMoves, MaxErrors   \* bounds: what the user does, requests that fail

VARIABLES
  games,     \* the server's lists
  list,      \* loader: the list that is shown
  window,    \* state of useEntryWindow
  request,   \* the request under way, None if there is none
  position,  \* position of the selection
  start,     \* the place in the first list that the address names
  restored,  \* selectionId: the game to return to, None when there is none
  toggling,  \* a favorite is being changed: from which list, which game
  asked,     \* history: the position the user went to last, None if nobody did
  stale,     \* history: the list changed since the window was read, or it is another's
  moves, errors

vars == <<games, list, window, request, position, start, restored, toggling, asked, stale, moves, errors>>

None == -1
Lengths == <<Long, Short>>
Lists == DOMAIN Lengths
NoRequest == [kind |-> "none", list |-> 0, offset |-> 0, limit |-> 0, then |-> None, items |-> <<>>]
Empty == [read |-> FALSE, base |-> 0, items |-> <<>>, total |-> 0, loading |-> TRUE, more |-> FALSE,
          before |-> FALSE, failed |-> FALSE]
Least(a, b) == IF a < b THEN a ELSE b
Most(a, b) == IF a > b THEN a ELSE b

End == window.base + Len(window.items)
HasMore == window.read /\ End < window.total
Selected ==
  IF \E i \in DOMAIN window.items : window.items[i] = restored
  THEN (CHOOSE i \in DOMAIN window.items : window.items[i] = restored) - 1
  ELSE Most(0, Least(position - window.base, Len(window.items) - 1))

Init ==
  /\ games = [l \in Lists |-> [i \in 1..Lengths[l] |-> 10 * l + i]]
  /\ list = 1 /\ window = Empty
  /\ start \in {0, StartOffset}
  /\ request = [NoRequest EXCEPT !.kind = "open", !.list = 1, !.offset = start, !.limit = PageSize]
  /\ restored = IF start > 0 /\ start < Lengths[1] THEN 10 * 1 + start + 1 ELSE None
  /\ position = 0 /\ toggling = <<>> /\ asked = None /\ stale = FALSE /\ moves = 0 /\ errors = 0

Moves == moves < MaxMoves /\ moves' = moves + 1
Page(r) == [i \in 1..Least(r.limit, Len(games[r.list]) - r.offset) |-> games[r.list][r.offset + i]]
MoveTo(p) == position' = Most(0, p) /\ restored' = None

(* merge: what is in both parts is shown once.                               *)
Merge(a, b) == a \o Kept(b, {j \in DOMAIN b : \A i \in DOMAIN a : a[i] # b[j]})

(* An aborted request for earlier games ends what waited for it.             *)
RestoreOffset(l) == IF l = 1 THEN start ELSE 0
Ready == request.kind = "none"
AbortedTo == IF request.kind = "before" THEN request.then ELSE None
-------------------------------------------------------------------------------
\* Slip: nothing moves the selection when the window of a jump is there.
SlipOpen(l, offset, then) ==
  /\ window' = [window EXCEPT !.loading = ~window.read, !.more = window.read, !.before = FALSE, !.failed = FALSE]
  /\ request' = [NoRequest EXCEPT !.kind = "open", !.list = l, !.offset = offset, !.limit = PageSize]

(* open: a list that shows something keeps it until it is replaced.          *)
Open(l, offset, then) ==
  /\ window' = [window EXCEPT !.loading = ~window.read, !.more = window.read, !.before = FALSE, !.failed = FALSE]
  /\ request' = [NoRequest EXCEPT !.kind = "open", !.list = l, !.offset = offset, !.limit = PageSize, !.then = then]

LoadMore ==
  /\ HasMore /\ Ready
  /\ window' = [window EXCEPT !.more = TRUE, !.failed = FALSE]
  /\ request' = [NoRequest EXCEPT !.kind = "more", !.list = list, !.offset = End, !.limit = PageSize]

LoadBefore(then) ==
  /\ window.read /\ window.base > 0 /\ Ready
  /\ window' = [window EXCEPT !.before = TRUE, !.failed = FALSE]
  /\ request' = [NoRequest EXCEPT !.kind = "before", !.list = list, !.then = then,
                   !.offset = Most(0, window.base - PageSize),
                   !.limit = window.base - Most(0, window.base - PageSize)]

(* The list is shown whose reload this is, unless another was chosen since.   *)
Reload(l) ==
  /\ window' = [window EXCEPT !.loading = ~window.read, !.more = window.read, !.before = FALSE, !.failed = FALSE]
  /\ request' = [NoRequest EXCEPT !.kind = "reload", !.list = l, !.limit = PageSize,
                   !.offset = IF window.read THEN window.base ELSE RestoreOffset(list)]
-------------------------------------------------------------------------------
(* Answers.                                                                  *)
OpenAnswered ==
  /\ request.kind = "open"
  /\ LET page == Page(request)
         total == Len(games[request.list])
         last == Most(0, total - PageSize)
     IN \/ /\ page = <<>> /\ request.offset > 0 /\ total > 0 /\ request.offset # last
           /\ request' = [request EXCEPT !.offset = last]
           /\ UNCHANGED <<window, position, restored, stale>>
        \/ /\ page # <<>> \/ request.offset = 0 \/ total = 0 \/ request.offset = last
           /\ request' = NoRequest /\ stale' = (request.list # list)
           /\ window' = [window EXCEPT !.read = TRUE, !.base = request.offset, !.items = page, !.total = total,
                           !.loading = FALSE, !.more = FALSE]
           /\ IF request.then = None THEN UNCHANGED <<position, restored>> ELSE MoveTo(request.then)
  /\ UNCHANGED <<games, start, list, toggling, asked, moves, errors>>

MoreAnswered ==
  /\ request.kind = "more"
  /\ window' = [window EXCEPT !.items = Merge(@, Page(request)), !.total = Len(games[request.list]), !.more = FALSE]
  /\ request' = NoRequest
  /\ UNCHANGED <<games, start, list, position, restored, toggling, asked, stale, moves, errors>>

\* Slip: the window does not start earlier than before.
SlipBeforeAnswered ==
  /\ request.kind = "before"
  /\ window' = [window EXCEPT !.items = Merge(Page(request), @), !.total = Len(games[request.list]), !.before = FALSE]
  /\ request' = NoRequest
  /\ IF request.then = None THEN UNCHANGED <<position, restored>> ELSE MoveTo(request.then)
  /\ UNCHANGED <<games, start, list, toggling, asked, stale, moves, errors>>

BeforeAnswered ==
  /\ request.kind = "before"
  /\ window' = [window EXCEPT !.base = request.offset, !.items = Merge(Page(request), @),
                  !.total = Len(games[request.list]), !.before = FALSE]
  /\ request' = NoRequest
  /\ IF request.then = None THEN UNCHANGED <<position, restored>> ELSE MoveTo(request.then)
  /\ UNCHANGED <<games, start, list, toggling, asked, stale, moves, errors>>

(* Page by page until as much is read as was shown.                          *)
ReloadAnswered ==
  /\ request.kind = "reload"
  /\ LET page == Page(request)
         total == Len(games[request.list])
         first == request.offset - Len(request.items)
         items == Merge(request.items, page)
     IN IF page # <<>> /\ Len(items) < Len(window.items) /\ first + Len(items) < total
        THEN /\ request' = [request EXCEPT !.offset = first + Len(items), !.items = items]
             /\ UNCHANGED <<window, stale>>
        ELSE /\ request' = NoRequest /\ stale' = (request.list # list)
             /\ window' = [window EXCEPT !.read = TRUE, !.base = first, !.items = items, !.total = total,
                             !.loading = FALSE, !.more = FALSE]
  /\ UNCHANGED <<games, start, list, position, restored, toggling, asked, moves, errors>>

Fails ==
  /\ ~Ready /\ errors < MaxErrors /\ errors' = errors + 1
  /\ request' = NoRequest
  /\ window' = [window EXCEPT !.loading = FALSE, !.more = IF request.kind = "before" THEN @ ELSE FALSE,
                  !.before = IF request.kind = "before" THEN FALSE ELSE @, !.failed = TRUE]
  /\ IF AbortedTo # None THEN MoveTo(AbortedTo) ELSE UNCHANGED <<position, restored>>
  /\ asked' = None
  /\ UNCHANGED <<games, start, list, toggling, stale, moves>>
-------------------------------------------------------------------------------
(* The user.                                                                 *)
At == window.base + Selected
Shown == window.read /\ window.items # <<>>

(* A jump or a step that waits for its window has the last word.              *)
Asks(p) == asked' = IF request'.then # None THEN request'.then ELSE p

StepUp ==
  /\ Shown /\ At > 0 /\ Moves
  /\ IF Selected = 0 /\ window.base > 0 /\ Ready
     THEN LoadBefore(At - 1) /\ UNCHANGED <<position, restored>>
     ELSE MoveTo(At - 1) /\ UNCHANGED <<window, request>>
  /\ Asks(At - 1)
  /\ UNCHANGED <<games, start, list, toggling, stale, errors>>

StepDown ==
  /\ Shown /\ Moves
  /\ MoveTo(Least(At + 1, (End - 1) + (IF HasMore THEN 1 ELSE 0)))
  /\ IF At + 1 >= End - 1 /\ ~window.failed /\ HasMore /\ Ready THEN LoadMore ELSE UNCHANGED <<window, request>>
  /\ Asks(position')
  /\ UNCHANGED <<games, start, list, toggling, stale, errors>>

PagePrevious ==
  /\ Shown /\ Moves
  /\ LET target == Most(0, At - Rows) IN
       /\ IF target < window.base /\ window.base > 0 /\ Ready
          THEN LoadBefore(target) /\ UNCHANGED <<position, restored>>
          ELSE MoveTo(target) /\ UNCHANGED <<window, request>>
       /\ Asks(target)
  /\ UNCHANGED <<games, start, list, toggling, stale, errors>>

(* pageTarget: not beyond what is loaded, but more is loaded then.            *)
PageNext ==
  /\ Shown /\ Moves
  /\ MoveTo(window.base + Least(Len(window.items) - 1, Selected + Rows))
  /\ IF Selected + Rows >= Len(window.items) - 1 /\ ~window.failed /\ HasMore /\ Ready
     THEN LoadMore ELSE UNCHANGED <<window, request>>
  /\ Asks(position')
  /\ UNCHANGED <<games, start, list, toggling, stale, errors>>

(* A game that is loaded needs no new window when half a page follows it.     *)
Followed(p) == 2 * (End - p) >= PageSize \/ End >= window.total

(* To a letter: the jump index, or the triggers from where the selection is.  *)
Letters == {p \in 0..(Len(games[list]) - 1) : p % 3 = 0}
JumpTo(p) ==
  /\ Shown /\ Moves
  /\ IF p >= window.base /\ p < End /\ Followed(p)
     THEN MoveTo(p) /\ UNCHANGED <<window, request>>
     ELSE /\ Open(list, p, p)
          /\ IF AbortedTo # None THEN MoveTo(AbortedTo) ELSE UNCHANGED <<position, restored>>
  /\ Asks(p)
  /\ UNCHANGED <<games, start, list, toggling, stale, errors>>

(* The top or the end of what is loaded comes into view.                     *)
ScrollsUp ==
  /\ window.read /\ Selected = 0 /\ ~window.before /\ LoadBefore(None)
  /\ UNCHANGED <<games, start, list, position, restored, toggling, asked, stale, moves, errors>>
ScrollsDown ==
  /\ window.read /\ Selected >= Len(window.items) - 1 /\ ~window.more /\ ~window.failed /\ LoadMore
  /\ UNCHANGED <<games, start, list, position, restored, toggling, asked, stale, moves, errors>>

(* Another list is chosen and its first entry: the first of the window that   *)
(* is shown until then, for the position is counted from there.               *)
Chooses(l) ==
  /\ l # list /\ Moves
  /\ list' = l /\ window' = Empty
  /\ request' = [NoRequest EXCEPT !.kind = "open", !.list = l, !.offset = RestoreOffset(l), !.limit = PageSize]
  /\ MoveTo(IF AbortedTo # None THEN AbortedTo ELSE window.base)
  /\ asked' = None /\ stale' = FALSE
  /\ UNCHANGED <<games, start, toggling, errors>>

(* A favorite is given up, or found again: the list is read again when the    *)
(* server has answered.                                                      *)
Toggles ==
  /\ Shown /\ toggling = <<>> /\ Moves
  /\ toggling' = <<[list |-> list, game |-> window.items[Selected + 1]]>>
  /\ asked' = None
  /\ UNCHANGED <<games, start, list, window, request, position, restored, stale, errors>>

Toggled ==
  /\ toggling # <<>> /\ toggling' = <<>>
  /\ games' = [games EXCEPT ![Head(toggling).list] = Kept(@, {i \in DOMAIN @ : @[i] # Head(toggling).game})]
  /\ Reload(Head(toggling).list)
  /\ IF AbortedTo # None THEN MoveTo(AbortedTo) ELSE UNCHANGED <<position, restored>>
  /\ asked' = None /\ stale' = TRUE
  /\ UNCHANGED <<start, list, moves, errors>>

Answers == OpenAnswered \/ MoreAnswered \/ BeforeAnswered \/ ReloadAnswered
User ==
  \/ StepUp \/ StepDown \/ PagePrevious \/ PageNext \/ Toggles
  \/ \E p \in Letters : JumpTo(p)
  \/ \E l \in Lists : Chooses(l)
Next == Answers \/ Fails \/ Toggled \/ ScrollsUp \/ ScrollsDown \/ User
Progress == Answers \/ Toggled \/ ScrollsUp \/ ScrollsDown
Spec == Init /\ [][Next]_vars /\ WF_vars(Progress)
-------------------------------------------------------------------------------
(* "A contiguous window of a long list that can start anywhere" (use-entry-   *)
(* window, line 14): what is shown is a part of the list without a gap, in    *)
(* order, and it is known what comes before it and after it.                  *)
WindowIsContiguous ==
  window.read /\ Ready /\ toggling = <<>> /\ ~stale /\ ~window.failed =>
    /\ \A i \in DOMAIN window.items :
         window.base + i \in DOMAIN games[list] /\ window.items[i] = games[list][window.base + i]
    /\ window.total = Len(games[list])

(* Wherever the user went last in a list, the selection gets there as the     *)
(* windows around it are read, if no request failed.                          *)
SelectionArrives ==
  window.failed \/ stale \/ asked = None \/ (Shown /\ At = Least(asked, Len(games[list]) - 1))

(* "A favorite change refreshes the visible range" (use-entry-window, line    *)
(* 112): the games that are shown are of the list that is shown.              *)
ShowsItsList ==
  window.read /\ Ready => \A i \in DOMAIN window.items : window.items[i] \div 10 = list
===============================================================================
