------------------------------ MODULE DialogFocus ------------------------------
(***************************************************************************)
(* The focus of stacked dialogs (components/modal-focus, with the dialogs    *)
(* and sheets that use it): each dialog that is open is a layer, only the    *)
(* top layer answers to the focus and the keyboard, and a dialog gives the    *)
(* focus back when it closes.  Dialogs open and close at any time, for calls  *)
(* that are answered later, and not only from the top.                       *)
(***************************************************************************)
EXTENDS Naturals, Sequences

CONSTANT Dialogs     \* dialogs that there can be: positive numbers

VARIABLES
  layers,      \* the open dialogs, in the order they opened
  locked,      \* dialogs that are busy: their controls are disabled
  expanded,    \* dialogs whose list is shown beside them (aria-controls)
  lastFocused, \* of a dialog: the control that had the focus last
  previous,    \* of a dialog: where the focus goes back to
  row,         \* the page has the row that one of its controls is in
  focus,       \* document.activeElement
  home,        \* history: where the focus was before the first of these dialogs
  tangled      \* history: one of these closed under another

vars == <<layers, locked, expanded, lastFocused, previous, row, focus, home, tangled>>

(* The page is 0: a button that stays, and one in a row that may go.  A dialog *)
(* has a cancel control, the first one it wants the focus on, between others.  *)
Page == 0
Places == {Page} \union Dialogs
Element(d, part) == [at |-> d, is |-> part]
Body == Element(Page, "body")
None == Element(Page, "none")
Elements == {Element(Page, p) : p \in {"button", "row"}} \union
            {Element(d, p) : d \in Dialogs, p \in {"panel", "first", "initial", "option"}}

Open == {layers[i] : i \in DOMAIN layers}
Top(ls) == ls[Len(ls)]
WithoutDialog(ls, d) ==
  LET index == CHOOSE i \in DOMAIN ls : ls[i] = d
  IN [i \in 1 .. Len(ls) - 1 |-> IF i < index THEN ls[i] ELSE ls[i + 1]]

(* isConnected, and that it can take the focus.                              *)
Connected(e, ls) ==
  IF e.at = Page THEN e = Body \/ e.is = "button" \/ (e.is = "row" /\ row)
  ELSE (\E i \in DOMAIN ls : ls[i] = e.at) /\ (e.is = "option" => e.at \in expanded)
Takes(e, ls) == Connected(e, ls) /\ e # Body /\ (e.is \in {"first", "initial"} => e.at \notin locked)

(* focusable: the controls of a dialog and of the list it owns, in order.     *)
Choices(d) == <<Element(d, "first"), Element(d, "initial")>> \o (IF d \in expanded THEN <<Element(d, "option")>> ELSE <<>>)
IsChoice(d, e) == \E i \in DOMAIN Choices(d) : Choices(d)[i] = e

Init ==
  /\ layers = <<>> /\ locked = {} /\ expanded = {} /\ row = TRUE
  /\ lastFocused = [d \in Dialogs |-> None] /\ previous = [d \in Dialogs |-> None]
  /\ focus \in {Body, Element(Page, "button"), Element(Page, "row")}
  /\ home = None /\ tangled = FALSE
-------------------------------------------------------------------------------
(* restoreFocus.                                                             *)
Restored(d, lock, last) ==
  LET preferred == IF last = None THEN Element(d, "initial") ELSE last
  IN IF lock THEN Element(d, "panel") ELSE IF IsChoice(d, preferred) THEN preferred ELSE Choices(d)[1]

(* onFocus of the top layer: the focus does not leave it.                    *)
Caught(e, ls, lock, last) ==
  IF ls = <<>> \/ e.at = Top(ls) THEN e ELSE Restored(Top(ls), Top(ls) \in lock, last[Top(ls)])

(* An element takes the focus; a control of an unlocked layer is remembered.  *)
Focuses(e, ls, lock, last) ==
  LET caught == Caught(e, ls, lock, last) IN
  /\ focus' = caught
  /\ lastFocused' = IF caught.at # Page /\ caught.at \notin lock /\ caught.is # "panel" THEN [last EXCEPT ![caught.at] = caught] ELSE last

(* A dialog opens; some are given what to return to.                         *)
Opens(d) ==
  /\ d \notin Open
  /\ \E lock \in BOOLEAN, to \in {focus, Element(Page, "button")} :
       LET ls == Append(layers, d)
           locks == IF lock THEN locked \union {d} ELSE locked
           last == [lastFocused EXCEPT ![d] = None]
       IN /\ layers' = ls /\ locked' = locks /\ previous' = [previous EXCEPT ![d] = to]
          /\ Focuses(Restored(d, lock, None), ls, locks, last)
          /\ home' = IF layers = <<>> THEN to ELSE home
  /\ UNCHANGED <<expanded, row, tangled>>

\* Slip: a dialog that closes gives the focus to its button.
SlipReturned(d) == Element(Page, "button")

(* Where the focus goes when a dialog closes.                                *)
Returned(d) == previous[d]

(* It closes: it is gone from the page before its effect is undone.           *)
Closed(d) ==
  LET ls == WithoutDialog(layers, d)
      top == Top(layers) = d
      last == [lastFocused EXCEPT ![d] = None]
  IN /\ layers' = ls /\ locked' = locked \ {d} /\ expanded' = expanded \ {d}
     /\ previous' = [previous EXCEPT ![d] = None]
     /\ IF top /\ Takes(Returned(d), ls)
        THEN Focuses(Returned(d), ls, locked \ {d}, last)
        ELSE focus' = (IF focus.at = d THEN Body ELSE focus) /\ lastFocused' = last
     /\ home' = IF ls = <<>> THEN None ELSE home
     /\ tangled' = (ls # <<>> /\ (tangled \/ ~top))
     /\ UNCHANGED row
Closes(d) == d \in Open /\ Closed(d)

(* It becomes busy or free; the top layer places the focus again.             *)
Locks(d) ==
  /\ d \in Open
  /\ LET locks == IF d \in locked THEN locked \ {d} ELSE locked \union {d} IN
     /\ locked' = locks
     /\ IF Top(layers) = d THEN Focuses(Restored(d, d \in locks, lastFocused[d]), layers, locks, lastFocused)
        ELSE UNCHANGED <<focus, lastFocused>>
  /\ UNCHANGED <<layers, expanded, previous, row, home, tangled>>
-------------------------------------------------------------------------------
(* The user, and scripts of the page: any element is focused, or none is.      *)
Moves(e) ==
  /\ Takes(e, layers) /\ Focuses(e, layers, locked, lastFocused)
  /\ UNCHANGED <<layers, locked, expanded, previous, row, home, tangled>>
Leaves ==
  /\ focus # Body /\ focus' = Body
  /\ UNCHANGED <<layers, locked, expanded, lastFocused, previous, row, home, tangled>>

(* The tab key goes around in the top layer.                                 *)
Tab(back) ==
  /\ layers # <<>>
  /\ LET d == Top(layers)
         n == Len(Choices(d))
         to == IF d \in locked THEN Element(d, "panel")
               ELSE IF ~IsChoice(d, focus) THEN Choices(d)[IF back THEN n ELSE 1]
               ELSE LET i == CHOOSE i \in 1..n : Choices(d)[i] = focus
                    IN Choices(d)[IF back THEN (IF i = 1 THEN n ELSE i - 1) ELSE (IF i = n THEN 1 ELSE i + 1)]
     IN Focuses(to, layers, locked, lastFocused)
  /\ UNCHANGED <<layers, locked, expanded, previous, row, home, tangled>>

(* Escape: a list that is open takes it; a dialog that is not busy closes.     *)
OwnsEscape(d) == focus.at = d /\ d \in expanded /\ focus.is \in {"initial", "option"}
Escape ==
  /\ layers # <<>> /\ Top(layers) \notin locked /\ ~OwnsEscape(Top(layers))
  /\ Closed(Top(layers))

(* A list beside a dialog opens from its field, and closes.                   *)
Lists ==
  /\ layers # <<>>
  /\ LET d == Top(layers) IN
     \/ focus = Element(d, "initial") /\ d \notin expanded /\ expanded' = expanded \union {d} /\ UNCHANGED focus
     \/ d \in expanded /\ expanded' = expanded \ {d} /\ focus' = (IF focus = Element(d, "option") THEN Body ELSE focus)
  /\ UNCHANGED <<layers, locked, lastFocused, previous, row, home, tangled>>

(* The list of the page is read again, and the row is not in it.              *)
RowGoes ==
  /\ row /\ row' = FALSE
  /\ focus' = IF focus = Element(Page, "row") THEN Body ELSE focus
  /\ UNCHANGED <<layers, locked, expanded, lastFocused, previous, home, tangled>>

Next ==
  \/ \E d \in Dialogs : Opens(d) \/ Closes(d) \/ Locks(d)
  \/ \E e \in Elements : Moves(e)
  \/ Leaves \/ (\E back \in BOOLEAN : Tab(back)) \/ Escape \/ Lists \/ RowGoes
Spec == Init /\ [][Next]_vars
-------------------------------------------------------------------------------
(* "retains modal focus through busy, failure, escaped focus and              *)
(* cancellation" (confirm-dialog.test): while dialogs are open nothing behind  *)
(* the top one has the focus, whatever opened, closed or became busy, and the  *)
(* control of a busy dialog does not have it either.                          *)
FocusStaysInside ==
  layers # <<>> => focus = Body \/ (focus.at = Top(layers) /\ Takes(focus, layers))

(* The last of a stack of dialogs gives the focus back to where it was before  *)
(* the first, if that is still there and none closed under another.           *)
FocusComesBack ==
  layers # <<>> /\ layers' = <<>> /\ ~tangled /\ home # Body /\ (home.is = "row" => row)
    => focus' = home
===============================================================================
