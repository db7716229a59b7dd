-------------------------------- MODULE Player --------------------------------
(* The player page: how a game is started, shown and given up (PlayerLaunch), and how what    *)
(* may pause it shares its commands (PlayerScreen).  A behaviour is one of one of the two,     *)
(* chosen at the start.                                                                       *)
EXTENDS Integers

CONSTANTS   \* those of the modules, where they are explained
  Effects, PlayScopes, LaunchFaults,
  PlayDevices, MaxCommands, MaxClicks, ScreenFaults

VARIABLES
  playerPart,  \* which of the modules this behaviour is one of
  offer, phone, launchPortrait, launchPage, launchLaunch, own, launchScreen, scope, current,
  session, launchActive, effect, ref, launchPc, aborted, launchGame, frames, completed,
  restore, leaving, launchFaults, device, screenPortrait, visible, screenGame, before, cmds,
  gate, gateDue, surf, todo, screenExit, settings, editor, screenMenu, saveChoice, saving,
  committed, asked, policy, key, word, screenTold, screenFaults

launchVars == <<offer, phone, launchPortrait, launchPage, launchLaunch, own, launchScreen,
                scope, current, session, launchActive, effect, ref, launchPc, aborted,
                launchGame, frames, completed, restore, leaving, launchFaults>>
screenVars == <<device, screenPortrait, visible, screenGame, before, cmds, gate, gateDue, surf,
                todo, screenExit, settings, editor, screenMenu, saveChoice, saving, committed,
                asked, policy, key, word, screenTold, screenFaults>>
playerVars == <<playerPart, launchVars, screenVars>>

Launch == INSTANCE PlayerLaunch WITH
  MaxGenerations <- Effects, MaxScopes <- PlayScopes, MaxFaults <- LaunchFaults,
  portrait <- launchPortrait, page <- launchPage, launch <- launchLaunch,
  screen <- launchScreen, active <- launchActive, pc <- launchPc, game <- launchGame,
  faults <- launchFaults
Screen == INSTANCE PlayerScreen WITH
  Devices <- PlayDevices, MaxFaults <- ScreenFaults, portrait <- screenPortrait,
  game <- screenGame, exit <- screenExit, menu <- screenMenu, told <- screenTold,
  faults <- screenFaults

PlayerConfigured == Launch!BoundsArePositive /\ Screen!BoundsArePositive

\* The variables of the modules that a behaviour is not one of stay at 0.
LaunchOff ==
  /\ offer = 0 /\ phone = 0 /\ launchPortrait = 0 /\ launchPage = 0 /\ launchLaunch = 0
  /\ own = 0 /\ launchScreen = 0 /\ scope = 0 /\ current = 0 /\ session = 0 /\ launchActive = 0
  /\ effect = 0 /\ ref = 0 /\ launchPc = 0 /\ aborted = 0 /\ launchGame = 0 /\ frames = 0
  /\ completed = 0 /\ restore = 0 /\ leaving = 0 /\ launchFaults = 0
ScreenOff ==
  /\ device = 0 /\ screenPortrait = 0 /\ visible = 0 /\ screenGame = 0 /\ before = 0
  /\ cmds = 0 /\ gate = 0 /\ gateDue = 0 /\ surf = 0 /\ todo = 0 /\ screenExit = 0
  /\ settings = 0 /\ editor = 0 /\ screenMenu = 0 /\ saveChoice = 0 /\ saving = 0
  /\ committed = 0 /\ asked = 0 /\ policy = 0 /\ key = 0 /\ word = 0 /\ screenTold = 0
  /\ screenFaults = 0

PlayerInit ==
  \/ /\ playerPart = "launch" /\ Launch!Init
     /\ ScreenOff
  \/ /\ playerPart = "screen" /\ Screen!Init
     /\ LaunchOff

PlayerNext ==
  \/ /\ playerPart = "launch" /\ Launch!Next
     /\ UNCHANGED <<playerPart, screenVars>>
  \/ /\ playerPart = "screen" /\ Screen!Next
     /\ UNCHANGED <<playerPart, launchVars>>

\* The fairness of each module (see there).
PlayerFairness ==
  /\ \A g \in 1 .. Effects : WF_launchVars(playerPart = "launch" /\ Launch!Loads(g))
  /\ \A g \in 1 .. Effects : WF_launchVars(playerPart = "launch" /\ Launch!Ends(g))
  /\ \A s \in 1 .. PlayScopes : WF_launchVars(playerPart = "launch" /\ Launch!Browser(s))
  /\ WF_launchVars(playerPart = "launch" /\ Launch!Launch)
  /\ WF_launchVars(playerPart = "launch" /\ (Launch!EffectStarts \/ Launch!EffectStops))
  /\ WF_screenVars(playerPart = "screen" /\ Screen!Micro)
  /\ SF_screenVars(playerPart = "screen" /\ Screen!Commanded)
  /\ SF_screenVars(playerPart = "screen" /\ Screen!CheckpointEnds)
  /\ SF_screenVars(playerPart = "screen" /\ Screen!CheckpointStarts)

PlayerSpec == PlayerInit /\ [][PlayerNext]_playerVars /\ PlayerFairness

\* Property: what is shown is the game of the effect that is in force, and what a restart
\* hands to the runtime is an envelope it accepts (use-player-session.ts).
LaunchIsMine ==
  playerPart = "launch" => Launch!TypeOK /\ Launch!ShownIsMine /\ Launch!RestartAccepted

\* Property: a game whose effect was cleaned up ends and its frame goes (use-player-session.ts).
NothingLeftBehind == <>[](playerPart = "launch" => \A g \in 1 .. Effects : ~Launch!LeftAlone(g))

\* Property: a launch that failed or was left gives the screen back (player-fullscreen.ts).
ScreenGivenBack == []<>(playerPart = "launch" => Launch!GivenBack)

\* Property: with a pointer, the game ends up as the last click asked for, and
\* each command in the game has one who waits for it (player-shell.tsx).
LastClickCounts == playerPart = "screen" => Screen!WaitersAgree /\ Screen!LastClickCounts

\* Property: the game has the input exactly while nothing lies over it (player-shell.tsx).
InputFollowsScreen == playerPart = "screen" => Screen!InputFollowsScreen

\* Property: a phone held upright pauses the game, or its user is told (player-orientation.ts).
PortraitPauses == []<>(playerPart = "screen" => Screen!PausedUpright)
===============================================================================
