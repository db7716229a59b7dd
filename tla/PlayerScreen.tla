---------------------------- MODULE PlayerScreen ----------------------------
(***************************************************************************)
(* The player while a game is loaded (features/player): who pauses it, who  *)
(* resumes it, and who has the keyboard and the gamepad.  A game takes      *)
(* commands one after another and acknowledges them later; toolbar clicks,  *)
(* the keys, the exit dialog, the settings, the game editor and the gate of *)
(* the orientation all command it, each from what it last saw.  The display *)
(* of the toolbar, the volume and the debug panel are left out.             *)
(***************************************************************************)
EXTENDS Integers, Sequences, FiniteSets

CONSTANTS
  Devices,      \* of "desktop" (a pointer), "phone" (it rotates), "couch" (immersive)
  MaxCommands,  \* bound: commands the game has not acknowledged when a key, or a button of the
                \* toolbar, asks for more
  MaxClicks,    \* bound: transitions that other clicks have queued, the one under way included
  MaxFaults     \* bound: commands that fail, games that end, pages put in the background

BoundsArePositive ==
  /\ Devices \subseteq {"desktop", "phone", "couch"}
  /\ MaxCommands \in Nat \ {0} /\ MaxClicks \in Nat \ {0} /\ MaxFaults \in Nat

VARIABLES
  device, portrait, visible,
  game,       \* the state the runtime reports
  before,     \* ... and reported before the checkpoint it is taking
  cmds,       \* the commands in the game: what is asked, and who waits for it
  gate,       \* the OrientationPauseGate: what it waits for, and ownsPause
  gateDue,    \* an update of the gate has not run yet
  surf,       \* usePlayerSurfacePause: the transitions, each after the one before
  todo,       \* what was to follow a transition that has ended
  exit,       \* usePlayerExit: where it is, and pausedByDialog
  settings, editor, menu, saveChoice, saving,
  committed,  \* what the effects of the last render saw
  asked, policy, key,  \* the input filter, the shortcut policy, the filter key
  word,       \* what the user last asked for, while nobody else spoke
  told,       \* the user was told that the game could not be paused
  faults

where == <<device, portrait, visible>>
gateVars == <<gate, gateDue>>
inputVars == <<committed, asked, policy, key>>
panels == <<settings, editor, menu, saveChoice>>
vars == <<where, game, before, cmds, gateVars, surf, todo, exit, panels, saving,
          inputVars, word, told, faults>>

Fault == faults < MaxFaults /\ faults' = faults + 1
-------------------------------------------------------------------------------
Pointer == device # "phone"
Immersive == device = "couch"
Ready(state) == state \in {"RUNNING", "PAUSED"}

(* playerOverlayState                                                        *)
ExitOpen == exit.at \in {"open", "neutral", "resuming"}
DialogOpen == exit.at # "closed" \/ saveChoice \/ editor = "open"
Pinned == ExitOpen \/ menu \/ saveChoice \/ settings \in {"open", "moving"} \/ editor = "open"
Suppressed == portrait \/ DialogOpen \/ menu \/ settings \in {"open", "moving"} \/ editor = "opening"
MayResume == ~Pinned /\ saving = "none" /\ visible

View == [blocked |-> portrait, mayResume |-> MayResume, suppressed |-> Suppressed, state |-> game]
NoGate == [at |-> "idle", owns |-> FALSE]
NoExit == [at |-> "closed", paused |-> FALSE]

Init ==
  /\ device \in Devices /\ portrait = FALSE /\ visible = TRUE
  /\ game = "RUNNING" /\ before = "RUNNING" /\ cmds = <<>>
  /\ gate = NoGate /\ gateDue = FALSE /\ surf = <<>> /\ todo = {}
  /\ exit = NoExit /\ settings = "closed" /\ editor = "closed"
  /\ menu = FALSE /\ saveChoice = FALSE /\ saving = "none"
  /\ committed = View /\ asked = FALSE /\ policy = TRUE /\ key = "none"
  /\ word = "none" /\ told = FALSE /\ faults = 0

Issues(op, by) == cmds' = Append(cmds, [op |-> op, by |-> by])
-------------------------------------------------------------------------------

\* Slip: the orientation is missing in what the update of the gate depends on.
SlipRenderGate ==
  /\ committed # View
  /\ committed' = View
  /\ LET here == Ready(game) /\ (committed.suppressed # Suppressed \/ committed.state # game) IN
       /\ asked' = IF here THEN Suppressed ELSE asked
       /\ policy' = IF here THEN ~Suppressed ELSE policy
  /\ gateDue' = (gateDue \/ committed.mayResume # MayResume \/ committed.state # game)
  /\ UNCHANGED <<where, game, before, cmds, gate, surf, todo, exit, panels, saving, key, word, told, faults>>

(* The effects: the input filter and the shortcuts follow the overlays while *)
(* the game is ready, and every change that matters updates the gate.        *)
Render ==
  /\ committed # View
  /\ committed' = View
  /\ LET here == Ready(game) /\ (committed.suppressed # Suppressed \/ committed.state # game) IN
       /\ asked' = IF here THEN Suppressed ELSE asked
       /\ policy' = IF here THEN ~Suppressed ELSE policy
  /\ gateDue' = (gateDue \/ committed.blocked # portrait \/ committed.mayResume # MayResume
                   \/ committed.state # game)
  /\ UNCHANGED <<where, game, before, cmds, gate, surf, todo, exit, panels, saving, key, word, told, faults>>

(* OrientationPauseGate.update, when the update before it has ended.         *)
GateDue == gateDue /\ gate.at = "idle" /\ game # "EXITED"
GateActs ==
  /\ GateDue /\ committed = View
  /\ gateDue' = FALSE
  /\ \/ /\ portrait /\ game = "RUNNING"
        /\ Issues("pause", "gate")
        /\ gate' = [gate EXCEPT !.at = "pausing"]
     \/ /\ ~portrait /\ MayResume /\ gate.owns /\ game = "PAUSED"
        /\ Issues("resume", "gate")
        /\ gate' = [at |-> "resuming", owns |-> FALSE]
     \/ /\ IF portrait THEN game # "RUNNING" ELSE ~(MayResume /\ gate.owns /\ game = "PAUSED")
        /\ UNCHANGED <<cmds, gate>>
  /\ UNCHANGED <<where, game, before, surf, todo, exit, panels, saving, inputVars, word, told, faults>>

(* transition(): the state is read when the one before has been acknowledged.*)
SurfDue == surf # <<>> /\ ~Head(surf).sent
SurfActs ==
  /\ SurfDue
  /\ LET s == Head(surf) IN
       \/ /\ \/ s.target = "PAUSED" /\ game = "RUNNING"
             \/ s.target = "RUNNING" /\ game = "PAUSED"
          /\ Issues(IF s.target = "PAUSED" THEN "pause" ELSE "resume", "surface")
          /\ surf' = [surf EXCEPT ![1].sent = TRUE]
          /\ UNCHANGED <<todo, word>>
       \/ /\ s.target = game \/ ~Ready(game)
          /\ surf' = Tail(surf) /\ todo' = todo \cup s.follow
          /\ word' = IF Ready(game) THEN word ELSE "none"
          /\ UNCHANGED cmds
  /\ UNCHANGED <<where, game, before, gateVars, exit, panels, saving, inputVars, told, faults>>

(* usePlayerExit.request: after a checkpoint that is being taken.            *)
ExitWaits == exit.at = "waiting" /\ game # "CHECKPOINTING"
Asking ==
  \/ /\ game = "CHECKPOINTING"
     /\ exit' = [exit EXCEPT !.at = "waiting"]
     /\ UNCHANGED <<cmds, word>>
  \/ /\ game = "RUNNING"
     /\ Issues("pause", "exit")
     /\ exit' = [at |-> "pausing", paused |-> TRUE]
     /\ word' = "none"
  \/ /\ game \in {"PAUSED", "EXITED"}
     /\ exit' = [at |-> "open", paused |-> FALSE]
     /\ UNCHANGED <<cmds, word>>
RequestsExit == IF exit.at = "closed" THEN Asking ELSE UNCHANGED <<cmds, exit, word>>

ExitContinues ==
  /\ ExitWaits
  /\ Asking
  /\ UNCHANGED <<where, game, before, gateVars, surf, todo, panels, saving, inputVars, told, faults>>

(* usePlayerSettings.show and usePlayerEditor.show: only a running game is   *)
(* paused first.                                                             *)
Opens(panel, by, pending) ==
  \/ /\ game = "RUNNING"
     /\ Issues("pause", by)
     /\ pending /\ word' = "none"
  \/ game = "PAUSED" /\ panel /\ UNCHANGED <<cmds, word>>
  \/ ~Ready(game) /\ UNCHANGED <<cmds, word, settings, editor>>

(* What was to follow: the save, the exit, the settings or the editor.       *)
Continues(k) ==
  /\ k \in todo /\ todo' = todo \ {k}
  /\ \/ /\ k = "exit" /\ menu' = FALSE
        /\ RequestsExit
        /\ UNCHANGED <<settings, editor, saveChoice, saving>>
     \/ /\ k = "settings"
        /\ Opens(settings' = "open" /\ UNCHANGED editor, "settings",
                 UNCHANGED <<settings, editor>>)
        /\ UNCHANGED <<menu, saveChoice, saving, exit>>
     \/ /\ k = "editor" /\ editor = "closed"
        /\ Opens(editor' = "open" /\ UNCHANGED settings, "editor",
                 editor' = "opening" /\ UNCHANGED settings)
        /\ UNCHANGED <<menu, saveChoice, saving, exit>>
     \/ /\ k = "editor" /\ editor # "closed"
        /\ UNCHANGED <<cmds, word, panels, saving, exit>>
     \/ /\ k = "save"
        /\ \/ Ready(game) /\ saveChoice' = TRUE /\ UNCHANGED saving
           \/ Ready(game) /\ saving = "none" /\ saving' = "asked" /\ UNCHANGED saveChoice
           \/ ~Ready(game) /\ UNCHANGED <<saveChoice, saving>>
        /\ UNCHANGED <<cmds, word, settings, editor, menu, exit>>
  /\ UNCHANGED <<where, game, before, gateVars, surf, inputVars, told, faults>>

Settled == committed = View /\ ~GateDue /\ ~SurfDue /\ ~ExitWaits /\ todo = {}
Micro == Render \/ GateActs \/ SurfActs \/ ExitContinues \/ \E k \in todo : Continues(k)
-------------------------------------------------------------------------------
(***************************************************************************)
(* The game.                                                               *)
(***************************************************************************)
After(op) ==
  IF op = "pause" /\ game = "RUNNING" THEN "PAUSED"
  ELSE IF op = "resume" /\ game = "PAUSED" THEN "RUNNING" ELSE game

(* The one who waits for a command goes on; `ok` is FALSE when it failed.    *)
Acknowledged(by, ok, state, left) ==
  \/ /\ by = "gate" /\ gate.at = "pausing" /\ ok
     /\ IF ~portrait /\ MayResume /\ state = "PAUSED"
        THEN gate' = [at |-> "resuming", owns |-> FALSE]
             /\ cmds' = Append(left, [op |-> "resume", by |-> "gate"])
        ELSE gate' = [at |-> "idle", owns |-> TRUE] /\ cmds' = left
     /\ UNCHANGED <<surf, todo, exit, settings, editor, told>>
  \/ /\ by = "gate" /\ (gate.at = "resuming" \/ ~ok)
     /\ gate' = [gate EXCEPT !.at = "idle"] /\ cmds' = left /\ told' = (told \/ ~ok)
     /\ UNCHANGED <<surf, todo, exit, settings, editor>>
  \/ /\ by = "surface"
     /\ surf' = Tail(surf) /\ todo' = todo \cup Head(surf).follow /\ cmds' = left
     /\ UNCHANGED <<gate, exit, settings, editor, told>>
  \/ /\ by = "exit"
     /\ exit' = IF exit.at = "pausing" /\ ok THEN [exit EXCEPT !.at = "open"]
                ELSE IF exit.at = "resuming" /\ ~ok THEN [exit EXCEPT !.at = "open"]
                ELSE NoExit
     /\ cmds' = left
     /\ UNCHANGED <<gate, surf, todo, settings, editor, told>>
  \/ /\ by = "settings"
     /\ settings' = IF ok /\ settings = "closed" THEN "open" ELSE settings
     /\ cmds' = left
     /\ UNCHANGED <<gate, surf, todo, exit, editor, told>>
  \/ /\ by = "editor"
     /\ editor' = IF ok THEN "open" ELSE "closed"
     /\ cmds' = left
     /\ UNCHANGED <<gate, surf, todo, exit, settings, told>>
  \/ /\ by \in {"user", "session"}
     /\ cmds' = left
     /\ UNCHANGED <<gate, surf, todo, exit, settings, editor, told>>

(* A game that runs although the orientation forbids it is paused again by   *)
(* the session (use-player-session, receive).                                *)
PausedAgain(state) ==
  IF portrait /\ state = "RUNNING" /\ game # "RUNNING"
  THEN <<[op |-> "pause", by |-> "session"]>> ELSE <<>>

Commanded ==
  /\ Settled /\ cmds # <<>> /\ game # "CHECKPOINTING"
  /\ LET c == Head(cmds)
         state == After(c.op)
     IN  /\ game' = state
         /\ Acknowledged(c.by, TRUE, state, Tail(cmds) \o PausedAgain(state))
  /\ UNCHANGED <<where, before, gateDue, menu, saveChoice, saving, inputVars, word, faults>>

CommandFails ==
  /\ Settled /\ cmds # <<>> /\ game # "CHECKPOINTING"
  /\ Fault
  /\ Acknowledged(Head(cmds).by, FALSE, game, Tail(cmds))
  /\ word' = "none"
  /\ UNCHANGED <<where, game, before, gateDue, menu, saveChoice, saving, inputVars>>

(* A checkpoint of the user or of the game's own save, taken when the game   *)
(* has done what it was told, and sent afterwards.                           *)
ExportDue ==
  /\ Settled /\ Ready(game) /\ saving = "none"
  /\ saving' = "asked"
  /\ UNCHANGED <<where, game, before, cmds, gateVars, surf, todo, exit, panels, inputVars, word, told, faults>>

CheckpointStarts ==
  /\ Settled /\ saving = "asked" /\ cmds = <<>>
  /\ IF Ready(game) THEN saving' = "taking" /\ game' = "CHECKPOINTING" /\ before' = game
     ELSE saving' = "none" /\ UNCHANGED <<game, before>>
  /\ UNCHANGED <<where, cmds, gateVars, surf, todo, exit, panels, inputVars, word, told, faults>>

CheckpointEnds ==
  /\ Settled /\ saving = "taking"
  /\ saving' = "sending" /\ game' = before
  /\ before' = "RUNNING"
  /\ cmds' = cmds \o PausedAgain(before)
  /\ UNCHANGED <<where, gateVars, surf, todo, exit, panels, inputVars, word, told, faults>>

SaveSent ==
  /\ Settled /\ saving = "sending"
  /\ saving' = "none"
  /\ UNCHANGED <<where, game, before, cmds, gateVars, surf, todo, exit, panels, inputVars, word, told, faults>>

(* EXIT_REQUESTED: the game ended by itself, and the exit dialog is shown.   *)
GameEnds ==
  /\ Settled /\ Ready(game) /\ saving \in {"none", "asked"}
  /\ Fault
  /\ game' = "EXITED"
  /\ exit' = IF exit.at = "closed" THEN [at |-> "open", paused |-> FALSE] ELSE exit
  /\ word' = "none"
  /\ UNCHANGED <<where, before, cmds, gateVars, surf, todo, panels, saving, inputVars, told>>
-------------------------------------------------------------------------------
(***************************************************************************)
(* The user.                                                               *)
(***************************************************************************)
Same == UNCHANGED <<where, game, before, gateDue, exit, settings, editor, saveChoice,
                    saving, inputVars, told, faults>>
ManualPause == gate' = [gate EXCEPT !.owns = FALSE]

\* Slip: a transition joins the one before it wherever that one goes.
SlipTransition(target, follow) ==
  /\ surf' = IF surf # <<>> THEN [surf EXCEPT ![Len(surf)].follow = @ \cup follow]
             ELSE <<[target |-> target, follow |-> follow, sent |-> FALSE]>>
  /\ ManualPause /\ UNCHANGED todo
  /\ word' = IF \A i \in DOMAIN cmds : cmds[i].by = "surface" THEN target ELSE "none"

(* usePlayerSurfacePause: a transition to where the last one goes is that    *)
(* one; where it does not apply what follows happens at once.                *)
Transition(target, follow) ==
  IF ~Pointer \/ portrait
  THEN todo' = todo \cup follow /\ UNCHANGED <<surf, gate, word>>
  ELSE /\ IF surf # <<>> /\ surf[Len(surf)].target = target
          THEN surf' = [surf EXCEPT ![Len(surf)].follow = @ \cup follow]
          ELSE /\ Len(surf) < MaxClicks
               /\ surf' = Append(surf, [target |-> target, follow |-> follow, sent |-> FALSE])
       /\ ManualPause /\ UNCHANGED todo
       /\ word' = IF \A i \in DOMAIN cmds : cmds[i].by = "surface" THEN target ELSE "none"

(* pause() of the shell: a toggle of what the game reports now.              *)
Toggles ==
  IF portrait \/ ~Ready(game) THEN UNCHANGED <<cmds, gate, word>>
  ELSE /\ Len(cmds) < MaxCommands
       /\ Issues(IF game = "PAUSED" THEN "resume" ELSE "pause", "user")
       /\ ManualPause
       /\ word' = IF Pointer THEN "none" ELSE IF game = "PAUSED" THEN "RUNNING" ELSE "PAUSED"

Free == ~DialogOpen /\ ~portrait /\ ~Immersive

(* The toolbar: every click of it pauses first where there is a pointer.     *)
ToolbarClick(k) ==
  /\ Settled /\ Free /\ Len(cmds) < MaxCommands
  /\ k \in {"save", "exit", "settings", "editor"}
  /\ k \in {"save", "settings", "editor"} => Ready(game)
  /\ k = "save" => saving = "none"
  /\ k \in {"settings", "editor"} => menu
  /\ Transition("PAUSED", {k})
  /\ menu' = (menu /\ k \in {"save"})
  /\ UNCHANGED cmds /\ Same

MenuClick ==
  /\ Settled /\ Free
  /\ Transition("PAUSED", {})
  /\ menu' = ~menu
  /\ UNCHANGED cmds /\ Same

PauseClick ==
  /\ Settled /\ Free /\ Ready(game)
  /\ IF Pointer THEN Transition("PAUSED", {}) /\ UNCHANGED cmds
     ELSE Toggles /\ UNCHANGED <<surf, todo>>
  /\ UNCHANGED menu /\ Same

(* resumeFromSurface: the paused game, the backdrop of the menu, and a       *)
(* running game while the toolbar is shown.                                  *)
SurfaceClick ==
  /\ Settled /\ Free /\ (menu \/ Ready(game))
  /\ menu' = FALSE
  /\ IF Pointer THEN Transition("RUNNING", {}) /\ UNCHANGED cmds
     ELSE /\ IF game = "PAUSED" THEN Toggles ELSE UNCHANGED <<cmds, gate, word>>
          /\ UNCHANGED <<surf, todo>>
  /\ Same

(* handleKeyboard, and the same keys out of the frame of the game            *)
(* (useRuntimeShortcuts): an overlay that has the keyboard keeps them.       *)
Owned == DialogOpen \/ (Suppressed /\ ~menu)
KeyPause ==
  /\ Settled /\ Ready(game) /\ ~Owned /\ ~Immersive
  /\ Toggles
  /\ UNCHANGED <<menu, surf, todo>> /\ Same

KeyMenu ==
  /\ Settled /\ Ready(game) /\ ~Owned
  /\ \/ /\ ~Immersive /\ menu' = ~menu
        /\ UNCHANGED <<cmds, exit, word>>
     \/ /\ Immersive /\ menu' = FALSE
        /\ RequestsExit
  /\ UNCHANGED <<where, game, before, gateVars, surf, todo, settings, editor, saveChoice, saving,
                 inputVars, told, faults>>

(* Two chords of the gamepad ask for the menu of an immersive game, and the  *)
(* orientation layer offers the way out.                                     *)
ExitAsked ==
  /\ Settled
  /\ \/ Immersive /\ ~Suppressed /\ Ready(game)
     \/ portrait /\ exit.at = "closed"
  /\ menu' = FALSE
  /\ RequestsExit
  /\ UNCHANGED <<where, game, before, gateVars, surf, todo, settings, editor, saveChoice, saving,
                 inputVars, told, faults>>

(* usePlayerExit.cancel: the immersive one waits until the buttons are let   *)
(* go, and resumes the game when it had paused it.                           *)
ExitCancelled ==
  /\ Settled /\ exit.at = "open" /\ editor # "open" /\ saving = "none" /\ game # "EXITED"
  /\ exit' = IF Immersive THEN [exit EXCEPT !.at = "neutral"] ELSE NoExit
  /\ UNCHANGED <<where, game, before, cmds, gateVars, surf, todo, panels, saving, inputVars, word, told, faults>>

Neutral ==
  /\ Settled /\ exit.at = "neutral"
  /\ IF exit.paused /\ game = "PAUSED"
     THEN Issues("resume", "exit") /\ exit' = [exit EXCEPT !.at = "resuming"]
     ELSE exit' = NoExit /\ UNCHANGED cmds
  /\ UNCHANGED <<where, game, before, gateVars, surf, todo, panels, saving, inputVars, word, told, faults>>

(* The editor out of the exit dialog, and the ways back.                     *)
EditorFromExit ==
  /\ Settled /\ exit.at = "open" /\ editor = "closed" /\ Ready(game)
  /\ todo' = {"editor"}
  /\ UNCHANGED <<where, game, before, cmds, gateVars, surf, exit, panels, saving, inputVars, word, told, faults>>

EditorCloses ==
  /\ Settled /\ editor = "open"
  /\ editor' = "closed"
  /\ UNCHANGED <<where, game, before, cmds, gateVars, surf, todo, exit, settings, menu, saveChoice, saving,
                 inputVars, word, told, faults>>

SaveChosen ==
  /\ Settled /\ saveChoice
  /\ saveChoice' = FALSE
  /\ \/ UNCHANGED saving
     \/ Ready(game) /\ saving = "none" /\ saving' = "asked"
  /\ UNCHANGED <<where, game, before, cmds, gateVars, surf, todo, exit, settings, editor, menu,
                 inputVars, word, told, faults>>

(* useSettingsNavigation: one native call at a time, which may fail.         *)
SettingsUsed ==
  /\ Settled /\ settings = "open"
  /\ settings' = "moving"
  /\ UNCHANGED <<where, game, before, cmds, gateVars, surf, todo, exit, editor, menu, saveChoice, saving,
                 inputVars, word, told, faults>>

SettingsMoved ==
  /\ Settled /\ settings = "moving"
  /\ settings' \in {"open", "closed"}
  /\ UNCHANGED <<where, game, before, cmds, gateVars, surf, todo, exit, editor, menu, saveChoice, saving,
                 inputVars, word, told, faults>>

Rotates ==
  /\ Settled /\ device = "phone"
  /\ portrait' = ~portrait /\ told' = FALSE
  /\ UNCHANGED <<device, visible, game, before, cmds, gateVars, surf, todo, exit, panels, saving,
                 inputVars, word, faults>>

HidesOrShows ==
  /\ Settled
  /\ visible' = ~visible
  /\ IF visible THEN Fault ELSE UNCHANGED faults
  /\ UNCHANGED <<device, portrait, game, before, cmds, gateVars, surf, todo, exit, panels, saving,
                 inputVars, word, told>>
-------------------------------------------------------------------------------
(* A frame of the gamepads (use-player-controls): a page in the background   *)
(* takes the input from the game, and the next frame in front gives it back. *)
Key == IF Suppressed THEN "on" ELSE "off"

\* Slip: a suspended frame leaves the key of the filter.
SlipFrame ==
  /\ Settled /\ Ready(game)
  /\ \/ /\ ~visible
        /\ ~asked
        /\ asked' = TRUE /\ UNCHANGED key
     \/ /\ visible /\ key # Key
        /\ asked' = Suppressed /\ key' = Key
  /\ UNCHANGED <<where, game, before, cmds, gateVars, surf, todo, exit, panels, saving,
                 committed, policy, word, told, faults>>

Frame ==
  /\ Settled /\ Ready(game)
  /\ \/ /\ ~visible
        /\ ~asked \/ key # "none"
        /\ asked' = TRUE /\ key' = "none"
     \/ /\ visible /\ key # Key
        /\ asked' = Suppressed /\ key' = Key
  /\ UNCHANGED <<where, game, before, cmds, gateVars, surf, todo, exit, panels, saving,
                 committed, policy, word, told, faults>>

User ==
  \/ \E k \in {"save", "exit", "settings", "editor"} : ToolbarClick(k)
  \/ MenuClick \/ PauseClick \/ SurfaceClick \/ KeyPause \/ KeyMenu \/ ExitAsked
  \/ ExitCancelled \/ Neutral \/ EditorFromExit \/ EditorCloses \/ SaveChosen
  \/ SettingsUsed \/ SettingsMoved \/ Rotates \/ HidesOrShows

Game == Commanded \/ CommandFails \/ ExportDue \/ CheckpointStarts \/ CheckpointEnds \/ SaveSent \/ GameEnds

Next == Micro \/ Game \/ User \/ Frame

(* Promises go on, and the game acknowledges what it is told; it gives way   *)
(* to the promises (Settled), which is why its fairness is strong.           *)
Progress == WF_vars(Micro) /\ SF_vars(Commanded) /\ SF_vars(CheckpointEnds) /\ SF_vars(CheckpointStarts)

Spec == Init /\ [][Next]_vars /\ Progress
-------------------------------------------------------------------------------
(***************************************************************************)
(* Properties.                                                             *)
(***************************************************************************)
Actors == {"gate", "surface", "exit", "settings", "editor", "user", "session"}

(* Everybody who waits for the game has exactly one command in it, and a     *)
(* pause is owned by the gate only while no command of its own is under way. *)
WaitersAgree ==
  /\ \A i \in DOMAIN cmds : cmds[i].op \in {"pause", "resume"} /\ cmds[i].by \in Actors
  /\ LET inGame(by) == Cardinality({i \in DOMAIN cmds : cmds[i].by = by}) IN
       /\ inGame("gate") = IF gate.at = "idle" THEN 0 ELSE 1
       /\ inGame("surface") = IF surf # <<>> /\ Head(surf).sent THEN 1 ELSE 0
       /\ inGame("exit") = IF exit.at \in {"pausing", "resuming"} THEN 1 ELSE 0
       /\ inGame("editor") = IF editor = "opening" THEN 1 ELSE 0
  /\ \A i \in DOMAIN surf : surf[i].sent => i = 1
  /\ saving = "taking" <=> game = "CHECKPOINTING"
  /\ gate.owns => gate.at # "resuming"

(* A game with a pointer does what the toolbar or the surface asked for      *)
(* last, however fast the clicks came, when nobody else commanded it since.  *)
LastClickCounts ==
  Pointer /\ word # "none" /\ Settled /\ cmds = <<>> /\ surf = <<>> /\ Ready(game) => game = word

(* The gamepad and the shortcuts are the game's exactly when no overlay and  *)
(* no background page has them.                                              *)
InputFollowsScreen ==
  Settled /\ Ready(game) =>
    /\ policy = ~Suppressed
    /\ visible /\ key # "none" => asked = Suppressed
    /\ ~visible /\ key = "none" /\ Suppressed => asked

(* Portrait pauses the game, or the user is told that it could not be        *)
(* paused.                                                                   *)
PausedUpright == ~portrait \/ game # "RUNNING" \/ told
===============================================================================
