----------------------------- MODULE GamepadInput -----------------------------
(***************************************************************************)
(* Controllers in the pages of Retrom (features/immersive: input-model,     *)
(* gamepad-source, entry-dialog, use-navigation, and the exit dialog of     *)
(* immersive-shell).  On the home page any button of a standard controller  *)
(* opens the entry dialog; from it the user enters the immersive shell,     *)
(* whose own dialog leads back.  The browser is asked once per frame what   *)
(* is held; time is counted in frames.                                      *)
(***************************************************************************)
EXTENDS Integers, Sequences, FiniteSets

CONSTANTS
  Pads,           \* indices of controllers
  NeutralDelay,   \* frames without input before input counts (120 ms)
  CooldownDelay,  \* the same after the dialog was cancelled (500 ms)
  InitialRepeat,  \* frames until a held direction repeats (350 ms)
  Repeat,         \* frames between repetitions (120 ms)
  MaxInputs       \* bound: what is pressed, pushed or plugged, and losses of the focus

VARIABLES
  pad,        \* the controllers: kind, buttons held, stick
  front,      \* the window is visible and has the focus
  active,     \* activeImmersiveGamepadIndex, None if there is none
  page,       \* "home", "shell", or on the way from one to the other
  mode,       \* EntryMode of the dialog
  choice,     \* what is selected in the dialog of the page
  cooled,     \* cooldownPad
  exit,       \* the exit dialog of the shell is open
  seen,       \* what the handler of the shell knows: exit and choice as last rendered
  claims,     \* GamepadClaimModel: buttons held in the frame before
  nav,        \* NavigationInputModel
  acted,      \* the held inputs that did something in this step
  stale,      \* history: inputs held when what they would act on changed
  spent,      \* history: buttons that acted and were not released since
  fresh,      \* history: the home page was come back to, and has seen no frame
  inputs

vars == <<pad, front, active, page, mode, choice, cooled, exit, seen, claims, nav, acted, stale,
          spent, fresh, inputs>>

None == 0
Buttons == {"confirm", "cancel", "right", "page"}
Sticks == -2..2   \* beyond the threshold to enter, to leave, or neutral

Held(pads) == {h \in Pads \X Buttons : h[2] \in pads[h[1]].held}
                \cup {<<p, "stick">> : p \in {q \in Pads : pads[q].stick # 0}}
NoPad == [kind |-> "none", held |-> {}, stick |-> 0]
Standard(p) == p # None /\ pad[p].kind = "standard"

Reset(delay) ==
  [previous |-> {}, direction |-> "none", repeatIn |-> 0, page |-> FALSE, pageIn |-> 0,
   since |-> -1, delay |-> delay, armed |-> FALSE]

Init ==
  /\ pad = [p \in Pads |-> [NoPad EXCEPT !.kind = "standard"]]
  /\ front = TRUE /\ active = None
  /\ page = "home" /\ mode = "idle" /\ choice = "cancel" /\ cooled = None
  /\ exit = FALSE /\ seen = [exit |-> FALSE, choice |-> "cancel"]
  /\ claims = [p \in Pads |-> {}] /\ nav = Reset(NeutralDelay)
  /\ acted = {} /\ stale = {} /\ spent = {} /\ fresh = FALSE /\ inputs = 0

Input == inputs < MaxInputs /\ inputs' = inputs + 1
-------------------------------------------------------------------------------
(* The stick points where it was pushed until it is nearly back.             *)
AxisDirection(stick, previous) ==
  CASE stick = 2 -> "right"
    [] stick = -2 -> "left"
    [] stick = 1 /\ previous = "right" -> "right"
    [] stick = -1 /\ previous = "left" -> "left"
    [] OTHER -> "none"

Direction(p, previous) ==
  IF "right" \in p.held THEN "right" ELSE AxisDirection(p.stick, previous)

RisingButton(held, previous) ==
  CASE "cancel" \in held \ previous -> "cancel"
    [] "confirm" \in held \ previous -> "confirm"
    [] OTHER -> "none"

(* A held direction or shoulder acts at once, then again and again.           *)
Acts(now, before, in) == now /\ (~before \/ in <= 1)
Waits(now, before, in) ==
  CASE ~now -> 0
    [] now /\ ~before -> InitialRepeat
    [] now /\ before /\ in <= 1 -> Repeat
    [] OTHER -> in - 1

\* Slip: input counts again at once after a reset.
SlipSince(n, p) == n.delay

(* For how long the controller has been neutral.                              *)
Since(n, p) ==
  CASE n.armed -> n.since
    [] ~n.armed /\ (p.held # {} \/ p.stick # 0) -> -1
    [] OTHER -> IF n.since < n.delay THEN n.since + 1 ELSE n.since

(* NavigationInputModel.update: the new state and the actions in order, each  *)
(* with the input it comes from.                                              *)
Updated(n, i) ==
  LET p == IF Standard(i) THEN pad[i] ELSE NoPad
      since == Since(n, p)
      armed == n.armed \/ since >= n.delay
      to == Direction(p, n.direction)
      button == RisingButton(p.held, n.previous)
      paging == "page" \in p.held
      moves == Acts(to # "none", to = n.direction, n.repeatIn)
  IN  IF ~Standard(i) THEN [nav |-> Reset(n.delay), actions |-> <<>>]
      ELSE IF ~armed THEN [nav |-> [n EXCEPT !.previous = p.held, !.since = since], actions |-> <<>>]
      ELSE [nav |-> [previous |-> p.held, direction |-> to,
                     repeatIn |-> Waits(to # "none", to = n.direction, n.repeatIn),
                     page |-> paging, pageIn |-> Waits(paging, n.page, n.pageIn),
                     since |-> since, delay |-> n.delay, armed |-> TRUE],
            actions |->
              (IF moves THEN <<[does |-> to, by |-> <<i, IF "right" \in p.held THEN "right" ELSE "stick">>]>>
               ELSE <<>>)
              \o (IF button # "none" THEN <<[does |-> button, by |-> <<i, button>>]>> ELSE <<>>)
              \o (IF Acts(paging, n.page, n.pageIn) THEN <<[does |-> "page", by |-> <<i, "page">>]>> ELSE <<>>)]

(* GamepadClaimModel.update: the buttons pressed since the frame before, and  *)
(* the first standard controller among theirs.                                *)
Edges == [p \in Pads |-> pad[p].held \ claims[p]]
Claimed ==
  LET pressed == {p \in Pads : Edges[p] # {} /\ Standard(p)}
  IN  IF pressed = {} THEN None ELSE CHOOSE p \in pressed : \A q \in pressed : p <= q
Pressed == [p \in Pads |-> pad[p].held]

(* An input of a button acts once until it is released.                      *)
Did(by) == /\ acted' = by
           /\ spent' = spent \cup {i \in by : i[2] \in {"confirm", "cancel"}}
By(actions) == {actions[k].by : k \in DOMAIN actions}
First(actions, does) ==
  LET ks == {k \in DOMAIN actions : actions[k].does \in does}
  IN  IF ks = {} THEN "none" ELSE actions[CHOOSE k \in ks : \A l \in ks : k <= l].does
Chosen(actions, left, right) ==
  CASE First(actions, {"left", "right"}) = "left" -> left
    [] First(actions, {"left", "right"}) = "right" -> right
    [] OTHER -> choice
-------------------------------------------------------------------------------
(* Home: cancel and enter of the dialog.                                     *)
Cancels ==
  /\ cooled' = active /\ active' = None
  /\ nav' = Reset(CooldownDelay) /\ mode' = "cooldown" /\ choice' = "cancel"
  /\ stale' = Held(pad)
  /\ UNCHANGED page

Enters ==
  /\ mode' = "navigating" /\ page' = "entering"
  /\ UNCHANGED <<cooled, active, nav, choice, stale>>

Discover ==
  /\ mode = "idle"
  /\ claims' = Pressed
  /\ IF Claimed = None
     THEN Did({}) /\ UNCHANGED <<active, mode, choice, nav, stale>>
     ELSE /\ active' = Claimed /\ nav' = Reset(NeutralDelay) /\ choice' = "cancel" /\ mode' = "locked"
          /\ Did({<<Claimed, b>> : b \in Edges[Claimed]}) /\ stale' = Held(pad)
  /\ UNCHANGED <<page, cooled>>

CoolDown ==
  /\ mode = "cooldown"
  /\ LET update == Updated(nav, cooled) IN
       IF Standard(cooled) /\ ~update.nav.armed
       THEN nav' = update.nav /\ UNCHANGED <<mode, cooled, claims>>
       ELSE nav' = update.nav /\ mode' = "idle" /\ cooled' = None /\ claims' = Pressed
  /\ Did({}) /\ UNCHANGED <<page, active, choice, stale>>

Disconnected ==
  /\ mode \in {"locked", "ready"} /\ ~Standard(active)
  /\ active' = None /\ mode' = "idle" /\ claims' = Pressed
  /\ Did({}) /\ stale' = Held(pad)
  /\ UNCHANGED <<page, choice, cooled, nav>>

UpdateDialog ==
  /\ mode \in {"locked", "ready"} /\ Standard(active)
  /\ LET update == Updated(nav, active)
         ready == mode = "ready" \/ update.nav.armed
         does == First(update.actions, {"cancel", "confirm"})
         to == Chosen(update.actions, "cancel", "enter")
     IN  /\ Did(IF ready THEN By(update.actions) ELSE {})
         /\ \/ /\ does = "cancel" \/ (does = "confirm" /\ to = "cancel")
               /\ Cancels
            \/ /\ does = "confirm" /\ to = "enter" /\ Enters
            \/ /\ does = "none"
               /\ nav' = update.nav /\ choice' = to /\ mode' = (IF ready THEN "ready" ELSE "locked")
               /\ UNCHANGED <<page, active, cooled, stale>>
  /\ UNCHANGED claims

HomeFrame ==
  /\ page = "home"
  /\ Discover \/ CoolDown \/ Disconnected \/ UpdateDialog
  /\ UNCHANGED <<exit, seen>>
-------------------------------------------------------------------------------
(* The shell: what an action does, by what its handler knows.                *)
ShellActs(does, to) ==
  \/ /\ ~seen.exit /\ does = "cancel"
     /\ exit' = TRUE /\ choice' = "cancel" /\ UNCHANGED <<page, active>>
  \/ /\ ~seen.exit /\ does # "cancel"
     /\ UNCHANGED <<exit, choice, page, active>>
  \/ /\ seen.exit /\ does = "cancel"
     /\ exit' = FALSE /\ choice' = to /\ UNCHANGED <<page, active>>
  \/ /\ seen.exit /\ does = "confirm" /\ seen.choice = "cancel"
     /\ exit' = FALSE /\ choice' = to /\ UNCHANGED <<page, active>>
  \/ /\ seen.exit /\ does = "confirm" /\ seen.choice = "enter"
     /\ page' = "leaving" /\ active' = None /\ UNCHANGED <<exit, choice>>
  \/ /\ seen.exit /\ does = "none"
     /\ choice' = to /\ UNCHANGED <<exit, page, active>>

(* A controller that is gone is forgotten, and any button claims one; it does *)
(* nothing else.                                                             *)
Claims ==
  /\ ~Standard(active)
  /\ active' = Claimed /\ claims' = Pressed
  /\ IF Claimed = None THEN UNCHANGED <<nav, stale>>
     ELSE nav' = Reset(NeutralDelay) /\ stale' = Held(pad)
  /\ Did({}) /\ UNCHANGED <<page, choice, exit>>

Navigates ==
  /\ Standard(active)
  /\ LET update == Updated(nav, active) IN
       /\ nav' = update.nav /\ Did(By(update.actions))
       /\ ShellActs(First(update.actions, {"cancel", "confirm"}),
                    IF seen.exit THEN Chosen(update.actions, "cancel", "enter") ELSE choice)
  /\ UNCHANGED <<claims, stale>>

ShellFrame ==
  /\ page = "shell"
  /\ Claims \/ Navigates
  /\ UNCHANGED <<mode, cooled, seen>>

(* The effects after a rendering: a new handler, and a dialog that opened or  *)
(* closed makes every held input old.                                        *)
Rendered ==
  /\ page = "shell" /\ seen # [exit |-> exit, choice |-> choice]
  /\ seen' = [exit |-> exit, choice |-> choice]
  /\ IF exit # seen.exit THEN nav' = Reset(NeutralDelay) /\ stale' = Held(pad) ELSE UNCHANGED <<nav, stale>>
  /\ Did({})
  /\ UNCHANGED <<pad, front, active, page, mode, choice, cooled, exit, claims, fresh,
                 inputs>>

(* A page is mounted: nothing is known of the controllers but which is active; *)
(* what is held was pressed on the page before.                               *)
Mounts ==
  /\ page \in {"entering", "leaving"}
  /\ page' = (IF page = "entering" THEN "shell" ELSE "home")
  /\ mode' = "idle" /\ choice' = "cancel" /\ cooled' = None
  /\ exit' = FALSE /\ seen' = [exit |-> FALSE, choice |-> "cancel"]
  /\ claims' = [p \in Pads |-> {}] /\ nav' = Reset(NeutralDelay)
  /\ acted' = {} /\ spent' = {} /\ stale' = Held(pad) /\ fresh' = (page = "leaving")
  /\ UNCHANGED <<pad, front, active, inputs>>

(* A frame is delivered to a page that is visible and has the focus.          *)
Frame ==
  /\ front
  /\ HomeFrame \/ ShellFrame
  /\ fresh' = FALSE
  /\ UNCHANGED <<pad, front, inputs>>
-------------------------------------------------------------------------------
(* A controller changes between two frames.                                  *)
Change(p, to) ==
  /\ to # pad[p]
  /\ pad' = [pad EXCEPT ![p] = to]
  /\ LET kept == Held(pad') \ (IF pad[p].stick * to.stick < 0 THEN {<<p, "stick">>} ELSE {}) IN
       stale' = stale \cap kept /\ spent' = spent \cap kept
  /\ acted' = {}
  /\ UNCHANGED <<front, active, page, mode, choice, cooled, exit, seen, claims, nav, fresh>>

Presses(p, b) == pad[p].kind # "none" /\ Input /\ Change(p, [pad[p] EXCEPT !.held = @ \cup {b}])
Releases(p, b) == Change(p, [pad[p] EXCEPT !.held = @ \ {b}]) /\ UNCHANGED inputs
Pushes(p, to) == pad[p].kind # "none" /\ Input /\ Change(p, [pad[p] EXCEPT !.stick = to])
LetsGo(p) == Change(p, [pad[p] EXCEPT !.stick = 0]) /\ UNCHANGED inputs
Plugs(p, kind) == Input /\ Change(p, [NoPad EXCEPT !.kind = kind])

(* The window loses the focus: one frame that says so, then none.            *)
Blur ==
  /\ front /\ front' = FALSE /\ Input
  /\ nav' = Reset(IF page = "home" /\ mode = "cooldown" THEN CooldownDelay ELSE NeutralDelay)
  /\ mode' = IF mode = "ready" THEN "locked" ELSE mode
  /\ claims' = IF page = "home" THEN claims ELSE [p \in Pads |-> {}]
  /\ Did({}) /\ stale' = (IF mode = "idle" /\ page = "home" THEN stale ELSE Held(pad))
  /\ UNCHANGED <<pad, active, page, choice, cooled, exit, seen, fresh>>

Returns ==
  /\ ~front /\ front' = TRUE /\ Did({})
  /\ UNCHANGED <<pad, active, page, mode, choice, cooled, exit, seen, claims, nav, stale, fresh,
                 inputs>>

(* The keyboard does in a dialog what a controller does.                      *)
KeyInDialog(does) ==
  /\ page = "home" /\ front
  /\ \/ mode = "ready"
     \/ mode = "locked" /\ does = "cancel"
  /\ \/ /\ does = "cancel" \/ (does = "confirm" /\ choice = "cancel")
        /\ Cancels
     \/ /\ does = "confirm" /\ choice = "enter" /\ Enters
     \/ /\ does \in {"left", "right"}
        /\ choice' = (IF does = "left" THEN "cancel" ELSE "enter")
        /\ UNCHANGED <<mode, page, cooled, active, nav, stale>>
  /\ Did({})
  /\ UNCHANGED <<pad, front, exit, seen, claims, fresh, inputs>>

KeyInShell(does) ==
  /\ page = "shell" /\ front
  /\ ShellActs(IF does \in {"left", "right"} THEN "none" ELSE does,
               CASE seen.exit /\ does = "left" -> "cancel"
                 [] seen.exit /\ does = "right" -> "enter"
                 [] OTHER -> choice)
  /\ Did({})
  /\ UNCHANGED <<pad, front, mode, cooled, seen, claims, nav, stale, fresh, inputs>>

Next ==
  \/ Frame \/ Rendered \/ Mounts
  \/ \E p \in Pads, b \in Buttons : Presses(p, b) \/ Releases(p, b)
  \/ \E p \in Pads, to \in Sticks \ {0} : Pushes(p, to)
  \/ \E p \in Pads : LetsGo(p)
  \/ \E p \in Pads, kind \in {"none", "other", "standard"} : Plugs(p, kind)
  \/ Blur \/ Returns
  \/ \E does \in {"cancel", "confirm", "left", "right"} : KeyInDialog(does) \/ KeyInShell(does)
Progress == Frame \/ Rendered \/ Mounts \/ Returns
Spec == Init /\ [][Next]_vars /\ WF_vars(Progress)
-------------------------------------------------------------------------------
(* Nothing is done by a button or a stick that was held already when the      *)
(* dialog opened or closed, the controller was claimed, the page was entered *)
(* or the window lost the focus, and a button that is held acts once.  The   *)
(* home page come back to is the exception: its first frame remembers no     *)
(* frame before (entry-dialog.tsx:81), and takes what is held for pressed,   *)
(* where docs/ui-specification.md:79 asks for the edge of a press.           *)
NoCarriedAction == fresh \/ acted' \cap (stale \cup spent) = {}

(* A dialog that waits for its controller does not wait longer than somebody  *)
(* holds something, whatever happened to the window and the controllers.      *)
DialogAnswers ==
  page = "home" /\ mode \in {"locked", "cooldown"} => \E i \in Held(pad) : i[1] \in {active, cooled}
===============================================================================
