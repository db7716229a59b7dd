---------------------------- MODULE FavoriteLibrary ----------------------------
(***************************************************************************)
(* The page of the favorites (features/favorites) on the paged resource of   *)
(* lib/use-infinite-resource: a list that grows page by page and is read     *)
(* again after every change, changes of several games with one call for      *)
(* each, and the folders beside it.  Of the folders one comes and goes; the  *)
(* name, the search text and the order are filters like a folder.            *)
(***************************************************************************)
EXTENDS Ordering, Sequences

CONSTANTS
  GameCount,            \* games of the user, favorites at first
  PageSize,             \* PAGE_SIZE
  MaxActs, MaxErrors    \* bounds: changes the user starts, calls that fail

VARIABLES
  favorites, filed,  \* the server: favorites, and those in the folder
  exists,            \* the server has the folder
  folder,            \* the filter: "all", "none" (unclassified) or "folder"
  list,              \* State of useInfiniteResource, with nextOffset and retryRefresh
  request,           \* its request, None if there is none
  known, reading,    \* FolderManager's resource: the folder is in it, it is read
  selecting, selected,   \* batch selection
  dialog,            \* "none", "removing", "naming" or "deleting", "busy" while its call runs
  organizing,        \* the games of FavoriteCollectionDialog, what it read of them, the box
  batch,             \* what waits for calls: "none", "remove", "clear" or "organize"
  calls,             \* calls under way; those of a batch that failed go on without it
  unread,            \* history: something changed that no read is due for
  acts, errors

vars == <<favorites, filed, exists, folder, list, request, known, reading, selecting, selected, dialog, organizing,
          batch, calls, unread, acts, errors>>
server == <<favorites, filed, exists>>
manager == <<known, reading>>
picks == <<selecting, selected>>

Games == 1..GameCount
None == [kind |-> "none", offset |-> 0, target |-> 0, items |-> <<>>]
Blank == [read |-> FALSE, items |-> <<>>, next |-> 0, more |-> FALSE, failed |-> FALSE, refresh |-> TRUE]
Nobody == [ids |-> {}, phase |-> "none", filed |-> {}, checked |-> FALSE]
Least(a, b) == IF a < b THEN a ELSE b
Most(a, b) == IF a > b THEN a ELSE b
Shown == {list.items[i] : i \in DOMAIN list.items}

(* The server's list under a filter.                                         *)
Matches(f, g) == g \in favorites /\ CASE f = "all" -> TRUE [] f = "none" -> g \notin filed [] OTHER -> g \in filed
Listed(f) == Ordered({g \in Games : Matches(f, g)})
Page(offset) ==
  [i \in 1..Least(PageSize, Len(Listed(folder)) - offset) |-> Listed(folder)[offset + i]]
Merge(a, b) == a \o Kept(b, {j \in DOMAIN b : \A i \in DOMAIN a : a[i] # b[j]})

Init ==
  /\ favorites = Games /\ filed = {1} /\ exists = TRUE
  /\ folder = "all" /\ list = Blank /\ request = [None EXCEPT !.kind = "refresh", !.target = PageSize]
  /\ known = FALSE /\ reading = TRUE /\ selecting = FALSE /\ selected = {} /\ dialog = "none" /\ organizing = Nobody
  /\ batch = "none" /\ calls = {} /\ unread = FALSE /\ acts = 0 /\ errors = 0

Acts == acts < MaxActs /\ acts' = acts + 1
-------------------------------------------------------------------------------
(* useInfiniteResource.                                                      *)

(* reload: the range that is loaded is read again, and shown until then.      *)
Refresh(l) ==
  /\ list' = [l EXCEPT !.failed = FALSE, !.refresh = TRUE]
  /\ request' = [None EXCEPT !.kind = "refresh", !.target = Most(PageSize, l.next)]
  /\ unread' = FALSE

(* The end of the list comes into view, or the button is pressed.             *)
More ==
  /\ list.read /\ request = None
  /\ \/ /\ list.more /\ (list.failed => ~list.refresh)
        /\ list' = [list EXCEPT !.failed = FALSE, !.refresh = FALSE]
        /\ request' = [None EXCEPT !.kind = "more", !.offset = list.next, !.items = list.items]
        /\ UNCHANGED unread
     \/ list.failed /\ list.refresh /\ Refresh(list)
  /\ UNCHANGED <<server, folder, manager, picks, dialog, organizing, batch, calls, acts, errors>>

Answered ==
  /\ request # None
  /\ LET page == Page(request.offset)
         items == Merge(request.items, page)
         offset == request.offset + Len(page)
         more == page # <<>> /\ offset < Len(Listed(folder))
     IN \/ /\ request.kind = "refresh" /\ more /\ offset < request.target
           /\ request' = [request EXCEPT !.offset = offset, !.items = items]
           /\ UNCHANGED list
        \/ /\ ~(request.kind = "refresh" /\ more /\ offset < request.target)
           /\ list' = [list EXCEPT !.read = TRUE, !.items = items, !.next = offset, !.more = more]
           /\ request' = None
  /\ UNCHANGED <<server, folder, manager, picks, dialog, organizing, batch, calls, unread, acts, errors>>

ReadFails ==
  /\ request # None /\ errors < MaxErrors /\ errors' = errors + 1
  /\ request' = None /\ list' = [list EXCEPT !.failed = TRUE]
  /\ UNCHANGED <<server, folder, manager, picks, dialog, organizing, batch, calls, unread, acts>>
Retry ==
  /\ ~list.read /\ list.failed /\ Refresh(list)
  /\ UNCHANGED <<server, folder, manager, picks, dialog, organizing, batch, calls, acts, errors>>
-------------------------------------------------------------------------------
(* Changes of games: a call for each, and when all are answered the list and  *)
(* the folders are read again.                                               *)
Calls(ids, fav, into) == {[game |-> g, favorite |-> fav, filed |-> g \in into] : g \in ids}
Starts(kind, new) ==
  /\ batch = "none" /\ calls = {} /\ new # {} /\ Acts
  /\ batch' = kind /\ calls' = new

Lands(c) ==
  /\ c \in calls /\ calls' = calls \ {c}
  /\ favorites' = IF c.favorite THEN favorites \union {c.game} ELSE favorites \ {c.game}
  /\ filed' = IF c.favorite /\ c.filed THEN filed \union {c.game} ELSE filed \ {c.game}
  /\ c.filed => exists
  /\ unread' = (unread \/ batch = "none")
  /\ UNCHANGED <<exists, folder, list, request, manager, picks, dialog, organizing, batch, acts, errors>>

\* Slip: a folder that was filled is not read again.
SlipChanged ==
  /\ batch # "none" /\ calls = {}
  /\ batch' = "none" /\ reading' = TRUE /\ selecting' = FALSE /\ selected' = {} /\ organizing' = Nobody
  /\ dialog' = IF dialog = "busy" THEN "none" ELSE dialog
  /\ IF batch = "organize" THEN UNCHANGED <<list, request, unread>> ELSE Refresh(list)
  /\ UNCHANGED <<server, folder, known, calls, acts, errors>>

(* changed.                                                                  *)
Changed ==
  /\ batch # "none" /\ calls = {}
  /\ batch' = "none" /\ Refresh(list) /\ reading' = TRUE
  /\ selecting' = FALSE /\ selected' = {} /\ organizing' = Nobody
  /\ dialog' = IF dialog \in {"busy", "removing"} THEN "none" ELSE dialog
  /\ UNCHANGED <<server, folder, known, calls, acts, errors>>

(* The first call that fails ends the wait.  A call that puts a game into a    *)
(* folder that is gone does.                                                 *)
CallFails(c) ==
  /\ c \in calls /\ calls' = calls \ {c}
  /\ IF c.filed /\ ~exists THEN UNCHANGED errors ELSE errors < MaxErrors /\ errors' = errors + 1
  /\ batch' = "none"
  /\ IF batch \in {"remove", "clear"} THEN Refresh(list)
     ELSE unread' = (unread \/ batch = "organize") /\ UNCHANGED <<list, request>>
  /\ dialog' = IF dialog = "busy" THEN "removing" ELSE dialog
  /\ organizing' = IF batch = "organize" THEN [organizing EXCEPT !.phase = "open"] ELSE organizing
  /\ UNCHANGED <<server, folder, manager, picks, acts>>
-------------------------------------------------------------------------------
(* The user.                                                                 *)
Free == dialog = "none" /\ organizing.phase \in {"none", "loading"}

Filters(f) ==
  /\ Free /\ f # folder /\ (f = "folder" => known)
  /\ folder' = f /\ selected' = {} /\ Refresh(Blank) /\ Acts
  /\ UNCHANGED <<server, manager, selecting, dialog, organizing, batch, calls, errors>>

Toggles ==
  /\ Free /\ selecting' = ~selecting /\ selected' = {}
  /\ UNCHANGED <<server, folder, list, request, manager, dialog, organizing, batch, calls, unread, acts, errors>>
Chooses(g) ==
  /\ Free /\ selecting /\ g \in Shown
  /\ selected' = IF g \in selected THEN selected \ {g} ELSE selected \union {g}
  /\ UNCHANGED <<server, folder, list, request, manager, selecting, dialog, organizing, batch, calls, unread, acts, errors>>

(* The heart of a card, and the dialog for those that are selected.           *)
RemovesOne(g) ==
  /\ Free /\ ~selecting /\ g \in Shown /\ Starts("remove", Calls({g}, FALSE, {}))
  /\ UNCHANGED <<server, folder, list, request, manager, picks, dialog, organizing, unread, errors>>
AsksRemove ==
  /\ Free /\ selecting /\ selected # {} /\ batch = "none" /\ dialog' = "removing"
  /\ UNCHANGED <<server, folder, list, request, manager, picks, organizing, batch, calls, unread, acts, errors>>
Removes ==
  /\ dialog = "removing" /\ Starts("remove", Calls(selected, FALSE, {})) /\ dialog' = "busy"
  /\ UNCHANGED <<server, folder, list, request, manager, picks, organizing, unread, errors>>
Clears ==
  /\ Free /\ selecting /\ Starts("clear", Calls(selected, TRUE, {}))
  /\ UNCHANGED <<server, folder, list, request, manager, picks, dialog, organizing, unread, errors>>

(* FavoriteCollectionDialog reads the folders of its games first.             *)
Organizes(ids) ==
  /\ Free /\ organizing = Nobody
  /\ IF selecting THEN ids = selected /\ ids # {} ELSE ids \subseteq Shown /\ Cardinality(ids) = 1
  /\ organizing' = [Nobody EXCEPT !.ids = ids, !.phase = "loading"]
  /\ UNCHANGED <<server, folder, list, request, manager, picks, dialog, batch, calls, unread, acts, errors>>
DetailsRead ==
  /\ organizing.phase = "loading"
  /\ organizing' = [organizing EXCEPT !.phase = "open", !.filed = filed \intersect organizing.ids,
                      !.checked = Cardinality(organizing.ids) = 1 /\ organizing.ids \subseteq filed]
  /\ UNCHANGED <<server, folder, list, request, manager, picks, dialog, batch, calls, unread, acts, errors>>
Checks ==
  /\ organizing.phase = "open" /\ exists /\ organizing' = [organizing EXCEPT !.checked = ~@]
  /\ UNCHANGED <<server, folder, list, request, manager, picks, dialog, batch, calls, unread, acts, errors>>
Saves ==
  /\ organizing.phase = "open" /\ organizing' = [organizing EXCEPT !.phase = "busy"]
  /\ Starts("organize", Calls(organizing.ids, TRUE,
       IF Cardinality(organizing.ids) = 1 THEN {g \in organizing.ids : organizing.checked}
       ELSE organizing.filed \union {g \in organizing.ids : organizing.checked}))
  /\ UNCHANGED <<server, folder, list, request, manager, picks, dialog, unread, errors>>

Cancels ==
  /\ \/ dialog \in {"removing", "naming", "deleting"} /\ dialog' = "none" /\ UNCHANGED organizing
     \/ organizing.phase = "open" /\ organizing' = Nobody /\ UNCHANGED dialog
  /\ UNCHANGED <<server, folder, list, request, manager, picks, batch, calls, unread, acts, errors>>
-------------------------------------------------------------------------------
(* FolderManager.                                                            *)
FoldersRead ==
  /\ reading /\ reading' = FALSE /\ known' = exists
  /\ UNCHANGED <<server, folder, list, request, picks, dialog, organizing, batch, calls, unread, acts, errors>>
AsksFolder ==
  /\ Free /\ dialog' = IF known /\ folder = "folder" THEN "deleting" ELSE "naming"
  /\ UNCHANGED <<server, folder, list, request, manager, picks, organizing, batch, calls, unread, acts, errors>>
Makes ==
  /\ dialog = "naming" /\ ~exists /\ dialog' = "none" /\ exists' = TRUE /\ reading' = TRUE /\ Refresh(list)
  /\ UNCHANGED <<favorites, filed, folder, known, picks, organizing, batch, calls, acts, errors>>

(* The favorites of a folder that is deleted stay; all are shown then.         *)
Deletes ==
  /\ dialog = "deleting" /\ dialog' = "none"
  /\ exists' = FALSE /\ filed' = {} /\ folder' = "all" /\ selected' = {} /\ reading' = TRUE /\ Refresh(Blank)
  /\ UNCHANGED <<favorites, known, selecting, organizing, batch, calls, acts, errors>>

Next ==
  \/ More \/ Answered \/ ReadFails \/ Retry \/ Changed \/ FoldersRead
  \/ \E c \in calls : Lands(c) \/ CallFails(c)
  \/ \E f \in {"all", "none", "folder"} : Filters(f)
  \/ Toggles \/ (\E g \in Games : Chooses(g) \/ RemovesOne(g)) \/ AsksRemove \/ Removes \/ Clears
  \/ (\E ids \in SUBSET Games : Organizes(ids)) \/ DetailsRead \/ Checks \/ Saves \/ Cancels
  \/ AsksFolder \/ Makes \/ Deletes
Spec == Init /\ [][Next]_vars
-------------------------------------------------------------------------------
(* "A mutation refreshes only the range already loaded, in bounded pages"     *)
(* (use-infinite-resource, line 81): once everything is answered the cards    *)
(* are the first of the list as the server has it, and whether more follow is *)
(* known.  Left out (`unread`): what calls of a failed change do later on.     *)
ListIsCurrent ==
  list.read /\ request = None /\ calls = {} /\ batch = "none" /\ ~unread /\ ~list.failed =>
    /\ Len(list.items) <= Len(Listed(folder))
    /\ \A i \in DOMAIN list.items : list.items[i] = Listed(folder)[i]
    /\ list.more <=> Len(list.items) < Len(Listed(folder))
===============================================================================
