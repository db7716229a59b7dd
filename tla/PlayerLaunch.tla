----------------------------- MODULE PlayerLaunch -----------------------------
(***************************************************************************)
(* From the launch button to the end of a run: the run is created, its     *)
(* launch envelope is checked, the provider module is fetched and imported, *)
(* a frame is prepared, the game is mounted; and whatever was begun is      *)
(* undone when the page goes away (LaunchButton, usePlayerSession,          *)
(* provider-dispatcher, runtime-host, the frames).  Beside it the browser   *)
(* is put into fullscreen and taken out of it again (PlayerPresentation).   *)
(*                                                                         *)
(* An effect of the page is a generation: a new one begins whenever the     *)
(* run, the snapshot to restore or the permission to start changes, while   *)
(* the old one may still be anywhere between two awaits.                    *)
(***************************************************************************)
EXTENDS Integers, Sequences, FiniteSets

CONSTANTS
  MaxGenerations,   \* bound: effects started
  MaxScopes,        \* bound: presentation scopes
  MaxFaults         \* bound: failures, rotations, whims of the user

BoundsArePositive ==
  MaxGenerations \in Nat \ {0} /\ MaxScopes \in Nat \ {0} /\ MaxFaults \in Nat

Generations == 1 .. MaxGenerations
Scopes == 1 .. MaxScopes
Nobody == 0

VARIABLES
  offer,     \* the launch envelope of the run
  phone,     \* the device can be held upright
  portrait,  \* it is: starting is not allowed
  page,      \* "launcher" or "player"
  launch,    \* the click on the launch button
  own,       \* the browser was in fullscreen before any game
  screen,    \* document.fullscreenElement is set
  scope,     \* scope -> its state
  current,   \* the last scope begun
  session,   \* scope of the player page
  active,    \* the player page may ask for fullscreen
  effect,    \* the generation whose effect is not cleaned up, or Nobody
  ref,       \* runtime.current: the generation of the game that is shown
  pc,        \* generation -> where start() or the disposal is
  aborted,   \* generations whose controller is aborted
  game,      \* generation -> the state of its runtime
  frames,    \* generations with a frame in the page
  completed, \* the run was started before
  restore,   \* the run goes on from the final snapshot of the game
  leaving,   \* leave() of the exit dialog
  faults

deviceVars == <<offer, phone, portrait>>
screenVars == <<own, screen, scope, current, session, active>>
gameVars == <<effect, ref, pc, aborted, game, frames, completed, restore>>
vars == <<offer, phone, portrait, page, launch, own, screen, scope, current,
          session, active, effect, ref, pc, aborted, game, frames, completed,
          restore, leaving, faults>>

Fault == faults < MaxFaults /\ faults' = faults + 1
-------------------------------------------------------------------------------
(***************************************************************************)
(* The launch envelope (envelope.ts).  What relates the parts of it is      *)
(* modelled; the form of its strings, digests, addresses and keys is one    *)
(* bit, `formed`, of the part they are in.                                  *)
(***************************************************************************)
Formats == {"state-v1", "state-v2"}
NullCheckpoint == [formed |-> TRUE, present |-> FALSE, writes |-> "state-v1",
                   reads |-> {}, maximum |-> 0]

SortedUnique(s) == \A i, j \in DOMAIN s : i < j => s[i] < s[j]

ValidCapabilities(c) == c.formed /\ SortedUnique(c.videoModes)

(* A core with checkpoints reads the format it writes; one without has none. *)
ValidCheckpoint(c, enabled) ==
  IF ~enabled THEN ~c.present
  ELSE c.present /\ c.formed /\ c.maximum > 0 /\ c.writes \in c.reads

(* Only a seekable image is read in ranges.                                  *)
ValidBlob(r) == r.range <=> r.kind = "seekable"
ValidTree(r) == ~r.range
(* The page of a web game is of its own origin, its bridge of the provider.  *)
ValidWeb(r) == r.origin = "isolated" /\ r.bridge
ValidFiles(r) == r.files # <<>> /\ SortedUnique(r.files)

ValidResource(r) ==
  /\ r.formed
  /\ \/ r.kind \in {"blob", "seekable"} /\ ValidBlob(r)
     \/ r.kind = "tree" /\ ValidTree(r)
     \/ r.kind = "web" /\ ValidWeb(r)
     \/ r.kind = "files" /\ ValidFiles(r)

(* The ordinals of a role count from 0, in their order.                      *)
ValidResources(rs) ==
  /\ \A i \in DOMAIN rs : ValidResource(rs[i])
  /\ \A role \in {rs[i].role : i \in DOMAIN rs} :
       LET mine == SelectSeq(rs, LAMBDA r : r.role = role)
       IN  \A i \in DOMAIN mine : mine[i].ordinal = i - 1

MaxDepth == 8
ValidOptions(o) == o.depth <= MaxDepth /\ o.formed

NoRestore == [at |-> "none", format |-> "state-v1", size |-> 1]
ValidRestore(r, c) ==
  r.at = "none" \/ (c.present /\ r.format \in c.reads /\ r.size <= c.maximum)

ValidSession(s) == s.formed /\ s.warnings <= 16

ValidEnvelope(e) ==
  /\ ValidSession(e.session) /\ e.formed
  /\ ValidCapabilities(e.capabilities)
  /\ ValidCheckpoint(e.checkpoint, e.capabilities.checkpoint)
  /\ ValidResources(e.resources)
  /\ ValidOptions(e.options)
  /\ ValidRestore(e.restore, e.checkpoint)

(* Envelopes the server may send: good ones, and one wrong in each part.     *)
Resource(role, n, kind) ==
  [role |-> role, ordinal |-> n, kind |-> kind, formed |-> TRUE, files |-> <<1, 2>>,
   range |-> kind = "seekable", bridge |-> TRUE, origin |-> "isolated"]
Rom == Resource("game", 0, "blob")
Good ==
  [formed |-> TRUE, session |-> [formed |-> TRUE, warnings |-> 0],
   capabilities |-> [formed |-> TRUE, checkpoint |-> TRUE, threads |-> FALSE,
                     videoModes |-> <<1, 2>>],
   checkpoint |-> [formed |-> TRUE, present |-> TRUE, writes |-> "state-v2",
                   reads |-> Formats, maximum |-> 2],
   resources |-> <<Rom>>, options |-> [depth |-> 1, formed |-> TRUE],
   restore |-> NoRestore]
Playable ==
  {Good, [Good EXCEPT !.resources = <<Rom, Resource("entry", 0, "web")>>],
   [Good EXCEPT !.capabilities.checkpoint = FALSE, !.checkpoint = NullCheckpoint],
   [Good EXCEPT !.restore = [at |-> "http", format |-> "state-v1", size |-> 2]]}
Wrong ==
  {[Good EXCEPT !.session.warnings = 17], [Good EXCEPT !.formed = FALSE],
   [Good EXCEPT !.capabilities.threads = TRUE],
   [Good EXCEPT !.capabilities.videoModes = <<1, 1>>],
   [Good EXCEPT !.checkpoint.reads = {"state-v1"}],
   [Good EXCEPT !.resources = <<Rom, Resource("bios", 1, "files")>>],
   [Good EXCEPT !.resources = <<Resource("game", 0, "tree"), Rom>>],
   [Good EXCEPT !.resources[1].range = TRUE],
   [Good EXCEPT !.options.depth = MaxDepth + 1]}
Envelopes == Playable \cup Wrong

(* The envelope of a game that goes on from its own final snapshot.          *)
Snapshot == [at |-> "local", format |-> offer.checkpoint.writes,
             size |-> offer.checkpoint.maximum]
Envelope == IF restore THEN [offer EXCEPT !.restore = Snapshot] ELSE offer
Framed == \E i \in DOMAIN offer.resources : offer.resources[i].kind = "web"
-------------------------------------------------------------------------------
Allowed == ~portrait
CanStart == Allowed \/ completed

NoScope == [prev |-> FALSE, stopped |-> FALSE, locked |-> FALSE,
            enter |-> "none", exits |-> FALSE, hasty |-> FALSE]

Init ==
  /\ offer \in Envelopes
  /\ phone \in BOOLEAN /\ portrait \in {FALSE, phone}
  /\ page = "launcher" /\ launch = "idle" /\ leaving = "no"
  /\ own \in BOOLEAN /\ screen = own
  /\ scope = [s \in Scopes |-> NoScope]
  /\ current = Nobody /\ session = Nobody /\ active = FALSE
  /\ effect = Nobody /\ ref = Nobody
  /\ pc = [g \in Generations |-> "none"]
  /\ aborted = {} /\ frames = {}
  /\ game = [g \in Generations |-> "none"]
  /\ completed = FALSE /\ restore = FALSE
  /\ faults = 0
-------------------------------------------------------------------------------
(***************************************************************************)
(* Fullscreen: the scopes of PlayerPresentation.                           *)
(***************************************************************************)
(* enter(), up to its first await.                                           *)
Entered(s) ==
  IF s.stopped \/ s.enter # "none" THEN s
  ELSE IF ~screen THEN [s EXCEPT !.enter = "asked"]
  ELSE IF phone THEN [s EXCEPT !.locked = TRUE, !.enter = "locking"]
  ELSE s

Exiting(s) == scope[s].exits \/ scope[s].enter = "undoing"
Settled(s) == scope[s].enter = "none" /\ ~scope[s].exits

(* beginPlayerPresentation, and the request of its gesture.  A scope begun   *)
(* while an older one still enters or leaves fullscreen takes a screen that  *)
(* is not the user's for his own: the history flag `hasty` remembers it.     *)
Begin ==
  /\ current < MaxScopes
  /\ current' = current + 1
  /\ scope' = [scope EXCEPT ![current + 1] =
       Entered([NoScope EXCEPT !.prev = screen, !.hasty = \E s \in Scopes : ~Settled(s)])]

\* Slip: a granted request does not look whether its scope was stopped.
SlipGranted(s) ==
  /\ scope[s].enter = "asked"
  /\ screen' = TRUE
  /\ scope' = [scope EXCEPT ![s].enter = IF phone /\ ~scope[s].stopped THEN "locking" ELSE "none"]
  /\ UNCHANGED <<deviceVars, page, launch, own, current, session, active,
                 gameVars, leaving, faults>>

(* The browser grants the request: a scope that was stopped meanwhile gives  *)
(* the screen back, if it is still the last one.                             *)
Granted(s) ==
  /\ scope[s].enter = "asked"
  /\ screen' = TRUE
  /\ scope' = [scope EXCEPT ![s] =
       IF scope[s].stopped
       THEN [@ EXCEPT !.enter = IF current = s /\ ~scope[s].prev THEN "undoing" ELSE "none"]
       ELSE [@ EXCEPT !.locked = phone, !.enter = IF phone THEN "locking" ELSE "none"]]
  /\ UNCHANGED <<deviceVars, page, launch, own, current, session, active,
                 gameVars, leaving, faults>>

Denied(s) ==
  /\ scope[s].enter = "asked"
  /\ Fault
  /\ scope' = [scope EXCEPT ![s].enter = "none"]
  /\ UNCHANGED <<deviceVars, page, launch, own, screen, current, session,
                 active, gameVars, leaving>>

(* The orientation is locked, or is not, or three seconds are over.          *)
LockSettled(s) ==
  /\ scope[s].enter = "locking"
  /\ scope' = [scope EXCEPT ![s].enter = "none"]
  /\ UNCHANGED <<deviceVars, page, launch, own, screen, current, session,
                 active, gameVars, leaving, faults>>

(* restore(): the scope is closed first, then the screen is given back.      *)
Restored(s) ==
  [scope EXCEPT ![s] =
     IF current # s THEN [@ EXCEPT !.stopped = TRUE]
     ELSE [@ EXCEPT !.stopped = TRUE, !.locked = FALSE,
                    !.exits = scope[s].exits \/ (screen /\ ~scope[s].prev)]]

(* exitFullscreen of restore() or of enter() has taken effect.               *)
ScreenLeft(s) ==
  /\ Exiting(s)
  /\ screen' = FALSE
  /\ scope' = [scope EXCEPT ![s].exits = FALSE,
                            ![s].enter = IF @ = "undoing" THEN "none" ELSE @]
  /\ UNCHANGED <<deviceVars, page, launch, own, current, session, active,
                 gameVars, leaving, faults>>

(* The user leaves fullscreen.                                               *)
Escape ==
  /\ screen
  /\ Fault
  /\ screen' = FALSE
  /\ UNCHANGED <<deviceVars, page, launch, own, scope, current, session, active,
                 gameVars, leaving>>

(* retry() of usePlayerPresentation: rotation, wake-up, focus, a click.      *)
RetryFullscreen ==
  /\ page = "player" /\ active /\ phone
  /\ ~scope[session].stopped /\ scope[session].enter = "none"
  /\ ~screen \/ portrait
  /\ scope' = [scope EXCEPT ![session] = Entered(@)]
  /\ scope' # scope
  /\ UNCHANGED <<deviceVars, page, launch, own, screen, current, session,
                 active, gameVars, leaving, faults>>

Rotate ==
  /\ phone /\ Fault
  /\ portrait' = ~portrait
  /\ UNCHANGED <<offer, phone, page, launch, screenVars, gameVars, leaving>>
-------------------------------------------------------------------------------
(***************************************************************************)
(* LaunchButton.launch().                                                  *)
(***************************************************************************)
LaunchClicked ==
  /\ page = "launcher" /\ launch = "idle"
  /\ Begin
  /\ launch' = "creating"
  /\ UNCHANGED <<deviceVars, page, own, screen, session, active, gameVars,
                 leaving, faults>>

(* The run is made; the core of its save may differ from the one the page    *)
(* knew, and the user has to confirm.                                        *)
RunCreated ==
  /\ launch = "creating"
  /\ launch' \in {"entering", "warned"}
  /\ IF launch' = "warned" THEN Fault ELSE UNCHANGED faults
  /\ UNCHANGED <<deviceVars, page, screenVars, gameVars, leaving>>

(* The run cannot be made, or not be removed: the toast and the button.      *)
LaunchFails ==
  /\ launch \in {"creating", "asking"}
  /\ Fault
  /\ launch' = "failing"
  /\ scope' = Restored(current)
  /\ UNCHANGED <<deviceVars, page, own, screen, current, session, active,
                 gameVars, leaving>>

(* The player page is mounted: acquirePlayerPresentation.                    *)
Enter ==
  /\ page' = "player" /\ launch' = "idle"
  /\ session' = current /\ active' = TRUE

(* `await fullscreen`, then the page or the question.                        *)
FullscreenAwaited ==
  /\ launch \in {"entering", "warned"} /\ Settled(current)
  /\ IF launch = "warned"
     THEN /\ launch' = "restoring"
          /\ scope' = Restored(current)
          /\ UNCHANGED <<page, session, active>>
     ELSE Enter /\ UNCHANGED scope
  /\ UNCHANGED <<deviceVars, own, screen, current, gameVars, leaving, faults>>

RestoreAwaited ==
  /\ launch \in {"restoring", "failing"} /\ Settled(current)
  /\ launch' = IF launch = "restoring" THEN "asking" ELSE "idle"
  /\ UNCHANGED <<deviceVars, page, screenVars, gameVars, leaving, faults>>

Confirmed ==
  /\ launch = "asking"
  /\ Begin
  /\ launch' = "entering"
  /\ UNCHANGED <<deviceVars, page, own, screen, session, active, gameVars,
                 leaving, faults>>

Declined ==
  /\ launch = "asking"
  /\ launch' = "idle"
  /\ UNCHANGED <<deviceVars, page, screenVars, gameVars, leaving, faults>>
-------------------------------------------------------------------------------
(***************************************************************************)
(* usePlayerSession: start() of one generation.                            *)
(***************************************************************************)
Started(g) == effect = g /\ pc[g] = "started"
Unchecked == <<deviceVars, page, launch, screenVars, leaving>>

EffectStarts ==
  LET g == Cardinality({h \in Generations : pc[h] # "none"}) + 1 IN
  /\ page = "player" /\ effect = Nobody /\ CanStart
  /\ g \in Generations
  /\ effect' = g
  /\ pc' = [pc EXCEPT ![g] = "fetching"]
  /\ UNCHANGED <<Unchecked, ref, aborted, game, frames, completed, restore, faults>>

(* An end of start() that shows an error, unless the page has gone.          *)
GoesTo(g, place) == pc' = [pc EXCEPT ![g] = place]

(* loadProviderRuntime: the envelope and the threads are checked and the     *)
(* module is fetched, with its length and its digest.                        *)
Fetched(g) ==
  /\ pc[g] = "fetching" /\ g \notin aborted
  /\ GoesTo(g, IF ValidEnvelope(Envelope) /\ ~offer.capabilities.threads THEN "importing" ELSE "failed")
  /\ UNCHANGED <<Unchecked, effect, ref, aborted, game, frames, completed, restore, faults>>

FetchFails(g) ==
  /\ pc[g] = "fetching"
  /\ IF g \in aborted THEN UNCHANGED faults ELSE Fault
  /\ GoesTo(g, "failed")
  /\ UNCHANGED <<Unchecked, effect, ref, aborted, game, frames, completed, restore>>

\* Slip: a runtime that arrives late is shown all the same.
SlipImported(g) ==
  /\ pc[g] = "importing"
  /\ GoesTo(g, "mounting")
  /\ game' = [game EXCEPT ![g] = "created"]
  /\ ref' = g
  /\ UNCHANGED <<Unchecked, effect, aborted, frames, completed, restore, faults>>

(* The module makes a runtime.  The signal does not reach the import, so     *)
(* that the page may have gone, or been turned, before the runtime is here.  *)
Imported(g) ==
  /\ pc[g] = "importing"
  /\ IF g \in aborted \/ ~Allowed
     THEN /\ GoesTo(g, "over")
          /\ game' = [game EXCEPT ![g] = "exiting"]
          /\ UNCHANGED ref
     ELSE /\ GoesTo(g, "mounting")
          /\ game' = [game EXCEPT ![g] = "created"]
          /\ ref' = g
  /\ UNCHANGED <<Unchecked, effect, aborted, frames, completed, restore, faults>>

(* The module does not load, has not the exports of a provider, or its       *)
(* runtime lacks a method or a capability the envelope promised.             *)
ImportFails(g) ==
  /\ pc[g] = "importing"
  /\ Fault
  /\ GoesTo(g, "failed")
  /\ UNCHANGED <<Unchecked, effect, ref, aborted, game, frames, completed, restore>>

(* mountFrame: a game of an aborted page gets no frame.                      *)
MountFrame(g) ==
  /\ pc[g] = "mounting"
  /\ IF g \in aborted
     THEN GoesTo(g, "failed") /\ UNCHANGED frames
     ELSE GoesTo(g, "framing") /\ frames' = frames \cup {g}
  /\ UNCHANGED <<Unchecked, effect, ref, aborted, game, completed, restore, faults>>

(* The frame is there: the shell of the isolated origin is ready and has its *)
(* bridge, or the blank page is loaded; the game begins to run.              *)
FrameReady(g) ==
  /\ pc[g] = "framing" /\ g \notin aborted
  /\ game' = [game EXCEPT ![g] = IF @ = "created" THEN "running" ELSE @]
  /\ GoesTo(g, "mounted")
  /\ UNCHANGED <<Unchecked, effect, ref, aborted, frames, completed, restore, faults>>

(* The frame is aborted, does not answer within ten seconds, or a resource   *)
(* is missing.  Only the blank frame removes itself.                         *)
FrameFails(g) ==
  /\ pc[g] = "framing"
  /\ IF g \in aborted THEN UNCHANGED faults ELSE Fault
  /\ frames' = IF Framed THEN frames ELSE frames \ {g}
  /\ GoesTo(g, "failed")
  /\ UNCHANGED <<Unchecked, effect, ref, aborted, game, completed, restore>>

(* mount() has returned: once more the page may be another.                  *)
Mounted(g) ==
  /\ pc[g] = "mounted"
  /\ IF g \in aborted \/ ~Allowed
     THEN /\ GoesTo(g, "over")
          /\ aborted' = aborted \cup {g} /\ frames' = frames \ {g}
          /\ game' = [game EXCEPT ![g] = IF @ = "exited" THEN @ ELSE "exiting"]
          /\ UNCHANGED completed
     ELSE /\ GoesTo(g, "started") /\ completed' = TRUE
          /\ UNCHANGED <<aborted, frames, game>>
  /\ UNCHANGED <<Unchecked, effect, ref, restore, faults>>

GameExited(g) ==
  /\ game[g] = "exiting"
  /\ game' = [game EXCEPT ![g] = "exited"]
  /\ UNCHANGED <<Unchecked, effect, ref, pc, aborted, frames, completed, restore, faults>>

(* The game ends itself; a restart goes on from its final snapshot.          *)
GameEnds ==
  /\ effect # Nobody /\ Started(effect) /\ game[effect] = "running"
  /\ game' = [game EXCEPT ![effect] = "exited"]
  /\ UNCHANGED <<Unchecked, effect, ref, pc, aborted, frames, completed, restore, faults>>
-------------------------------------------------------------------------------
(***************************************************************************)
(* The cleanup of an effect, and how the page is left.                     *)
(***************************************************************************)
\* Slip: a page that goes leaves a game that is still starting alone.
SlipCleanup ==
  /\ effect' = Nobody /\ ref' = Nobody
  /\ pc' = IF Started(effect) /\ game[effect] = "running"
           THEN [pc EXCEPT ![effect] = "disposing"] ELSE pc
  /\ UNCHANGED <<aborted, frames, game>>

(* Nothing loaded yet: abort.  Not yet running: abort and exit.  Running:    *)
(* disposeRuntime saves and exits first, then the signal is aborted.         *)
Cleanup ==
  LET g == effect IN
  /\ effect' = Nobody /\ ref' = Nobody
  /\ IF Started(g) /\ game[g] = "running"
     THEN GoesTo(g, "disposing") /\ UNCHANGED <<aborted, frames, game>>
     ELSE /\ aborted' = aborted \cup {g} /\ frames' = frames \ {g}
          /\ game' = [game EXCEPT ![g] = IF @ \in {"none", "exited"} THEN @ ELSE "exiting"]
          /\ UNCHANGED pc

EffectStops ==
  /\ effect # Nobody /\ ~CanStart
  /\ Cleanup
  /\ UNCHANGED <<Unchecked, completed, restore, faults>>

Disposed(g) ==
  /\ pc[g] = "disposing"
  /\ GoesTo(g, "over")
  /\ aborted' = aborted \cup {g} /\ frames' = frames \ {g}
  /\ game' = [game EXCEPT ![g] = "exited"]
  /\ UNCHANGED <<Unchecked, effect, ref, completed, restore, faults>>

(* restartFrom: another snapshot, so another effect, not yet completed.      *)
Restart ==
  /\ page = "player" /\ leaving = "no" /\ effect # Nobody
  /\ Started(effect) /\ game[effect] = "exited" /\ offer.checkpoint.present
  /\ Cleanup
  /\ restore' = TRUE /\ completed' = FALSE
  /\ UNCHANGED <<Unchecked, faults>>

(* leave(): no more fullscreen, the game exits, the screen is given back,    *)
(* the run is removed, the page replaced.                                    *)
LeaveBegins ==
  /\ page = "player" /\ leaving = "no"
  /\ leaving' = "game"
  /\ active' = FALSE
  /\ scope' = [scope EXCEPT ![session].stopped = TRUE]
  /\ game' = IF ref # Nobody /\ game[ref] \in {"created", "running"}
             THEN [game EXCEPT ![ref] = "exiting"] ELSE game
  /\ UNCHANGED <<deviceVars, page, launch, own, screen, current, session,
                 effect, ref, pc, aborted, frames, completed, restore, faults>>

LeaveRestores ==
  /\ page = "player" /\ leaving = "game"
  /\ ref # Nobody => game[ref] # "exiting"
  /\ leaving' = "screen"
  /\ scope' = Restored(session)
  /\ UNCHANGED <<deviceVars, page, launch, own, screen, current, session, active,
                 gameVars, faults>>

RunNotRemoved ==
  /\ page = "player" /\ leaving = "screen"
  /\ Fault
  /\ leaving' = "no"
  /\ UNCHANGED <<deviceVars, page, launch, screenVars, gameVars>>

(* The player page is unmounted, by leave() or by any navigation: its effect *)
(* is cleaned up and its scope released.                                     *)
Unmount ==
  /\ page = "player"
  /\ IF leaving = "screen" THEN ~scope[session].exits /\ UNCHANGED faults ELSE Fault
  /\ page' = "launcher" /\ leaving' = "no"
  /\ active' = FALSE /\ session' = Nobody
  /\ scope' = Restored(session)
  /\ IF effect = Nobody THEN UNCHANGED <<effect, ref, pc, aborted, frames, game>>
     ELSE Cleanup
  /\ completed' = FALSE /\ restore' = FALSE
  /\ UNCHANGED <<deviceVars, launch, own, screen, current>>
-------------------------------------------------------------------------------
Loads(g) ==
  \/ Fetched(g) \/ FetchFails(g) \/ Imported(g) \/ ImportFails(g)
  \/ MountFrame(g) \/ FrameReady(g) \/ FrameFails(g) \/ Mounted(g)
Ends(g) == GameExited(g) \/ Disposed(g)
Browser(s) == Granted(s) \/ Denied(s) \/ LockSettled(s) \/ ScreenLeft(s)
Launch == RunCreated \/ LaunchFails \/ FullscreenAwaited \/ RestoreAwaited
User ==
  \/ LaunchClicked \/ Confirmed \/ Declined \/ Rotate \/ Escape \/ RetryFullscreen
  \/ GameEnds \/ Restart \/ LeaveBegins \/ Unmount
Page == EffectStarts \/ EffectStops \/ LeaveRestores \/ RunNotRemoved

Next ==
  \/ \E g \in Generations : Loads(g) \/ Ends(g)
  \/ \E s \in Scopes : Browser(s)
  \/ Launch \/ User \/ Page

Progress ==
  /\ \A g \in Generations : WF_vars(Loads(g)) /\ WF_vars(Ends(g))
  /\ \A s \in Scopes : WF_vars(Browser(s))
  /\ WF_vars(Launch) /\ WF_vars(EffectStarts \/ EffectStops)

Spec == Init /\ [][Next]_vars /\ Progress
-------------------------------------------------------------------------------
(***************************************************************************)
(* Properties.                                                             *)
(***************************************************************************)
Places == {"none", "fetching", "importing", "mounting", "framing", "mounted",
           "started", "disposing", "failed", "over"}

(* The shape of the state: only the player page has an effect and a scope,   *)
(* and an aborted signal has taken its frame away.                           *)
TypeOK ==
  /\ offer \in Envelopes /\ phone \in BOOLEAN /\ portrait \in BOOLEAN
  /\ page \in {"launcher", "player"}
  /\ launch \in {"idle", "creating", "entering", "warned", "restoring", "asking", "failing"}
  /\ leaving \in {"no", "game", "screen"}
  /\ own \in BOOLEAN /\ screen \in BOOLEAN
  /\ scope \in [Scopes -> [prev : BOOLEAN, stopped : BOOLEAN, locked : BOOLEAN,
                           enter : {"none", "asked", "undoing", "locking"},
                           exits : BOOLEAN, hasty : BOOLEAN]]
  /\ current \in 0 .. MaxScopes /\ session \in 0 .. MaxScopes /\ active \in BOOLEAN
  /\ effect \in 0 .. MaxGenerations /\ ref \in 0 .. MaxGenerations
  /\ pc \in [Generations -> Places]
  /\ aborted \subseteq Generations /\ frames \subseteq Generations
  /\ game \in [Generations -> {"none", "created", "running", "exiting", "exited"}]
  /\ completed \in BOOLEAN /\ restore \in BOOLEAN
  /\ faults \in 0 .. MaxFaults
  /\ page = "player" <=> session # Nobody
  /\ page = "launcher" => effect = Nobody /\ leaving = "no"
  /\ frames \cap aborted = {}

(* The runtime the page acts on is the one its effect started, however late  *)
(* an older one arrives; what runs beside it is on its way out.              *)
ShownIsMine ==
  /\ ref # Nobody => ref = effect
  /\ \A g \in Generations \ {effect} : game[g] = "running" => pc[g] = "disposing"

(* No frame and no game outlives its effect.                                 *)
LeftAlone(g) == pc[g] # "none" /\ effect # g /\ ~(game[g] \in {"none", "exited"} /\ g \notin frames)

(* Whatever game could be started can be started again from the snapshot it  *)
(* left: the core reads what it writes.                                      *)
RestartAccepted ==
  \A g \in Generations :
    (pc[g] \in {"importing", "started"} /\ offer.checkpoint.present)
      => ValidEnvelope([offer EXCEPT !.restore = Snapshot])

(* Back on the launcher no game leaves the browser in fullscreen, although a *)
(* request may settle after the player was left; unless a game was launched  *)
(* while the scope of an earlier one had not settled.                        *)
GivenBack ==
  page = "player" \/ launch # "idle" \/ (screen => own) \/ \E s \in Scopes : scope[s].hasty
===============================================================================
