------------------------------ MODULE GameEditor ------------------------------
(***************************************************************************)
(* The panel that changes a running game (features/player,                  *)
(* game-editor-panel): categories, some of them with a tab per person, a    *)
(* search, a list that is read page by page as it is scrolled, and edits of *)
(* its rows.  The game answers one call after the other.  An answer counts  *)
(* only while no later request was made: a call remembers whether that is   *)
(* still so (`live`), where the code compares sequence numbers.             *)
(***************************************************************************)
EXTENDS Integers, Sequences, FiniteSets

CONSTANTS
  Persons,      \* the tabs of a category with groups
  PageSize,     \* PAGE_SIZE
  RowCount,     \* rows of a list; the party is never longer than a page
  MaxActs,      \* bound: what the user does
  MaxErrors     \* bound: calls the game refuses

VARIABLES
  picked,       \* category and group
  filter,       \* search
  due,          \* the effect that reads the list has not run yet
  rows,         \* entries: the rows shown, their number and value
  nextOffset, loading, loadingMore, pageError, failed,
  requestedPage,
  calls,        \* what the game has not answered, oldest first
  values,       \* in the game: of each list the value of each row
  overtaken,    \* an edit was followed by a request before its answer
  acts, errors

listVars == <<rows, nextOffset, loading, loadingMore, pageError, failed, requestedPage>>
vars == <<picked, filter, due, listVars, calls, values, overtaken, acts, errors>>

(* The categories with groups have one list per person, the others one.     *)
None == -1
Lists == {<<"variables", "all">>, <<"party", "all">>} \cup ({"classes", "actors"} \X Persons)
Length(list) == IF list[1] = "party" THEN PageSize ELSE RowCount
Rows(list) == 1..Length(list)

(* A text is found in every other row.                                      *)
Matches(list, text) ==
  IF text = "" THEN [i \in Rows(list) |-> i] ELSE [i \in 1..((Length(list) + 1) \div 2) |-> 2 * i - 1]
Page(list, text, offset) ==
  LET found == Matches(list, text)
      last == IF offset + PageSize < Len(found) THEN offset + PageSize ELSE Len(found)
  IN  [entries |-> [i \in 1..(last - offset) |->
                      [id |-> found[offset + i], value |-> values[list][found[offset + i]]]],
       nextOffset |-> IF last < Len(found) THEN last ELSE None]

(* A class is exchanged for another; the party closes ranks and the numbers *)
(* of an actor depend on each other.                                        *)
Edited(list, id, value) ==
  [r \in Rows(list) |->
     CASE list[1] = "variables" -> IF r = id THEN value ELSE values[list][r]
       [] list[1] = "classes" -> r = id
       [] OTHER -> value]

Init ==
  /\ picked = <<"variables", "all">> /\ filter = "" /\ due = TRUE
  /\ rows = <<>> /\ nextOffset = None
  /\ loading = TRUE /\ loadingMore = FALSE /\ pageError = FALSE /\ failed = FALSE
  /\ requestedPage = None
  /\ calls = <<>> /\ values = [l \in Lists |-> [r \in Rows(l) |-> l[1] = "classes" /\ r = 1]]
  /\ overtaken = FALSE /\ acts = 0 /\ errors = 0

Acts == acts < MaxActs /\ acts' = acts + 1
Settled == ~due
Dead == [i \in DOMAIN calls |-> [calls[i] EXCEPT !.live = FALSE]]
LiveEdits == {i \in DOMAIN calls : calls[i].live /\ calls[i].kind = "set"}
-------------------------------------------------------------------------------
(* load: the request makes every one before it stale.                        *)
Load(offset, asked) ==
  /\ calls' = Append(Dead, [kind |-> "page", list |-> picked, text |-> filter, offset |-> offset, live |-> TRUE])
  /\ IF offset = 0 THEN loading' = TRUE /\ requestedPage' = None /\ UNCHANGED loadingMore
     ELSE loadingMore' = TRUE /\ requestedPage' = asked /\ UNCHANGED loading
  /\ pageError' = FALSE /\ failed' = FALSE
  /\ overtaken' = (overtaken \/ LiveEdits # {})

LoadDue ==
  /\ due /\ due' = FALSE
  /\ Load(0, None)
  /\ UNCHANGED <<picked, filter, rows, nextOffset, values, acts, errors>>

(* The marker below the list comes into view: each page is asked for once.   *)
EndInView ==
  /\ Settled /\ nextOffset # None /\ ~loading /\ ~loadingMore /\ ~pageError
  /\ requestedPage # nextOffset
  /\ Load(nextOffset, nextOffset)
  /\ UNCHANGED <<picked, filter, due, rows, nextOffset, values, acts, errors>>

RetryPage ==
  /\ Settled /\ nextOffset # None /\ ~loading /\ pageError
  /\ Load(nextOffset, None)
  /\ UNCHANGED <<picked, filter, due, rows, nextOffset, values, acts, errors>>

(* The refresh button, and a search for what is searched already.            *)
Refresh ==
  /\ Settled /\ Acts
  /\ Load(0, None)
  /\ UNCHANGED <<picked, filter, due, rows, nextOffset, values, errors>>

(* What chooseCategory, chooseGroup and changeSearch have in common.         *)
Cleared ==
  /\ calls' = Dead /\ rows' = <<>> /\ nextOffset' = None /\ loading' = TRUE
  /\ requestedPage' = None /\ due' = TRUE
  /\ UNCHANGED <<loadingMore, pageError, failed, values, errors>>

Chooses(list) ==
  /\ Acts /\ list # picked
  /\ picked' = list /\ filter' = ""
  /\ Cleared /\ overtaken' = FALSE

Searches(text) ==
  /\ Acts /\ text # filter
  /\ filter' = text
  /\ Cleared /\ overtaken' = FALSE
  /\ UNCHANGED picked

(* save: a row that waits for its answer cannot be edited again.             *)
Edits(i, value) ==
  /\ Settled /\ ~loading /\ Acts
  /\ \A j \in LiveEdits : calls[j].id # rows[i].id
  /\ IF picked[1] = "classes" THEN value /\ ~rows[i].value ELSE value # rows[i].value
  /\ calls' = Append(calls, [kind |-> "set", list |-> picked, id |-> rows[i].id, value |-> value, live |-> TRUE])
  /\ UNCHANGED <<picked, filter, due, listVars, values, overtaken, errors>>
-------------------------------------------------------------------------------
(* The game answers the call it has had longest.                             *)
Answered == Settled /\ calls # <<>>
Call == Head(calls)

\* Slip: a page is shown although something else was asked for since.
SlipPageRead ==
  /\ Answered /\ Call.kind = "page"
  /\ calls' = Tail(calls)
  /\ LET page == Page(Call.list, Call.text, Call.offset) IN
       /\ rows' = IF Call.offset = 0 THEN page.entries ELSE rows \o page.entries
       /\ nextOffset' = page.nextOffset
  /\ loading' = FALSE /\ loadingMore' = FALSE
  /\ overtaken' = (overtaken /\ Call.offset > 0)
  /\ UNCHANGED <<picked, filter, due, pageError, failed, requestedPage, values, acts, errors>>

PageRead ==
  /\ Answered /\ Call.kind = "page"
  /\ calls' = Tail(calls)
  /\ IF Call.live
     THEN LET page == Page(Call.list, Call.text, Call.offset) IN
            /\ rows' = IF Call.offset = 0 THEN page.entries ELSE rows \o page.entries
            /\ nextOffset' = page.nextOffset
            /\ loading' = FALSE /\ loadingMore' = FALSE
            /\ overtaken' = (overtaken /\ Call.offset > 0)
     ELSE UNCHANGED <<rows, nextOffset, loading, loadingMore, overtaken>>
  /\ UNCHANGED <<picked, filter, due, pageError, failed, requestedPage, values, acts, errors>>

(* What an edit shows: of a class that one is chosen, of the party the first *)
(* page again, of an actor the row and then the list again, else the row.    *)
EditDone ==
  /\ Answered /\ Call.kind = "set"
  /\ values' = [values EXCEPT ![Call.list] = Edited(Call.list, Call.id, Call.value)]
  /\ LET shown == [j \in DOMAIN rows |-> IF rows[j].id = Call.id THEN [id |-> Call.id, value |-> Call.value] ELSE rows[j]]
         stale == [i \in 1..(Len(calls) - 1) |-> [calls[i + 1] EXCEPT !.live = FALSE]]
         read(kind) == [kind |-> kind, list |-> picked, text |-> filter, offset |-> 0, live |-> TRUE]
     IN \/ /\ ~Call.live
           /\ calls' = Tail(calls)
           /\ UNCHANGED <<rows, loading, pageError, failed, requestedPage, overtaken>>
        \/ /\ Call.live /\ picked[1] = "variables"
           /\ calls' = Tail(calls) /\ rows' = shown /\ failed' = FALSE
           /\ UNCHANGED <<loading, pageError, requestedPage, overtaken>>
        \/ /\ Call.live /\ picked[1] = "classes"
           /\ calls' = Tail(calls) /\ failed' = FALSE
           /\ rows' = [j \in DOMAIN rows |-> [rows[j] EXCEPT !.value = rows[j].id = Call.id]]
           /\ UNCHANGED <<loading, pageError, requestedPage, overtaken>>
        \/ /\ Call.live /\ picked[1] = "party"
           /\ calls' = Append(Tail(calls), read("refresh")) /\ failed' = FALSE
           /\ UNCHANGED <<rows, loading, pageError, requestedPage, overtaken>>
        \/ /\ Call.live /\ picked[1] = "actors"
           /\ calls' = Append(stale, read("page")) /\ rows' = shown
           /\ loading' = TRUE /\ requestedPage' = None /\ pageError' = FALSE /\ failed' = FALSE
           /\ overtaken' = (overtaken \/ LiveEdits # {1})
  /\ UNCHANGED <<picked, filter, due, nextOffset, loadingMore, acts, errors>>

PartyRead ==
  /\ Answered /\ Call.kind = "refresh"
  /\ calls' = Tail(calls)
  /\ IF Call.live
     THEN LET page == Page(Call.list, Call.text, 0) IN
            rows' = page.entries /\ nextOffset' = page.nextOffset
     ELSE UNCHANGED <<rows, nextOffset>>
  /\ UNCHANGED <<picked, filter, due, loading, loadingMore, pageError, failed, requestedPage, values,
                 overtaken, acts, errors>>

(* A call fails: a page that nobody waits for any more is not missed, but an *)
(* edit is always reported.                                                  *)
CallFails ==
  /\ Answered /\ errors < MaxErrors /\ errors' = errors + 1
  /\ calls' = Tail(calls)
  /\ \/ /\ Call.kind = "page" /\ Call.live
        /\ loading' = FALSE /\ loadingMore' = FALSE
        /\ IF Call.offset = 0
           THEN rows' = <<>> /\ nextOffset' = None /\ failed' = TRUE /\ UNCHANGED pageError
           ELSE pageError' = TRUE /\ UNCHANGED <<rows, nextOffset, failed>>
     \/ /\ Call.kind = "page" /\ ~Call.live
        /\ UNCHANGED <<rows, nextOffset, loading, loadingMore, pageError, failed>>
     \/ /\ Call.kind \in {"set", "refresh"}
        /\ failed' = TRUE
        /\ UNCHANGED <<rows, nextOffset, loading, loadingMore, pageError>>
  /\ UNCHANGED <<picked, filter, due, requestedPage, values, overtaken, acts>>

User ==
  \/ Refresh
  \/ \E list \in Lists : Chooses(list)
  \/ \E text \in {"", "text"} : Searches(text)
  \/ \E i \in DOMAIN rows, value \in BOOLEAN : Edits(i, value)

Game == PageRead \/ EditDone \/ PartyRead \/ CallFails
Next == LoadDue \/ EndInView \/ RetryPage \/ User \/ Game
Progress == LoadDue \/ EndInView \/ PageRead \/ EditDone \/ PartyRead
Spec == Init /\ [][Next]_vars /\ WF_vars(Progress)
-------------------------------------------------------------------------------
(* The rows are those of the chosen list and search, in order and from the   *)
(* first on, whatever was chosen, searched, scrolled or edited meanwhile.    *)
RowsAreOfSelection ==
  ~loading /\ ~due /\ ~failed =>
    LET found == Matches(picked, filter) IN
      /\ Len(rows) <= Len(found)
      /\ \A i \in DOMAIN rows : rows[i].id = found[i]
      /\ nextOffset = IF Len(rows) < Len(found) THEN Len(rows) ELSE None

(* When the game has answered, the rows show what the game has, of the rows  *)
(* an edit changed besides its own too.  Left out: an edit whose answer came *)
(* after the next page had been asked for is not shown (`overtaken`).        *)
RowsAreCurrent ==
  calls = <<>> /\ ~loading /\ ~due /\ ~failed /\ ~overtaken =>
    \A i \in DOMAIN rows : rows[i].value = values[picked][rows[i].id]

(* A list is read to its end as it is scrolled, unless an error is shown.    *)
ListIsRead == failed \/ pageError \/ (~loading /\ nextOffset = None)
===============================================================================
