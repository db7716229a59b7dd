# A verification development of Retrom

Retrom is a self-hosted library of console, arcade and PC games that are played
in the browser: a Go server (`src/cmd`, `src/internal`) with PostgreSQL, Redis
and a directory of managed files, a pool of Node processes that runs the runtime
rules, and a Next.js client (`src/web`). This directory holds TLA+ modules
translated from the server and from the client, TLC configurations that check
them on small instances, and proofs that TLAPS checks for every instance.

    tlc -workers 2 -config ManagedFiles.cfg MCManagedFiles     # one run
    tlapm ManagedFilesProofs.tla                               # one set of proofs

`PROJECT.json` lists components, runs, mutants, hazards and theorems, and maps
each definition to the lines it models.

## 1. Inventory

### The server

| Component | State it keeps | Operations | Interacts with | Module |
|---|---|---|---|---|
| Managed content storage (`service/files`, `persistence/cleanup.go`, `storage/`) | rows of `game_tab` and `game_file_tab`; files below `games/<id>` | publish and commit by import, pack, content replacement and arcade parent; discard; change of status; the cleaner's sweep once a minute | PostgreSQL and the file system, with nothing atomic between them | `ManagedFiles`, `FilePromise` |
| Browser uploads (`scans/upload.go`, `storage/uploads.go`) | a session in Redis, a staging tree on disk, a mutex and two sets in memory | create, write a chunk, inspect, scan, delete, daily cleanup | scans read the tree; `UploadClient` sends it | `Uploads` |
| Runtime worker client (`runtimeclient/worker.go`, `scheduling.go`) | lanes with slots, admissions and accepted bytes; a shared process with its pending requests | call, exchange, cancel, fail, close | everything that validates or prepares content; the runtime CLI | `RuntimeWorker` |
| Scan jobs (`scans/service.go`, `commit.go`, `bios.go`) | `scan_progress_tab`; the workers and their cancel functions in memory | create, run, commit an item, cancel, shutdown, interrupt at start | uploads, library, BIOS, runtime worker | `ScanJobs` |
| Content replacement (`scans/replacement.go`, `replace.go`) | an executor in memory; one record per game in Redis | submit, run, cancel, query and reconcile, shutdown | managed storage, runtime worker, PostgreSQL | `Replacement` |
| Saves (`service/saves`) | `save_tab`, payloads and screenshots | write, repeat, rename, delete | runs, managed storage, the drafts of the browser | the write in `SaveSession` |
| Accounts (`service/accounts`, `authn`) | users, sessions, one-time links | sign in, change and reset of a password, links, revocation | the account page | `AccountAdmin` |
| Directories, favorites | rows | single statements under a version | their pages | inside `DirectoryPage`, `FavoriteLibrary` |
| Runs (`service/runs`), content cache, provider synchronisation | run contexts in Redis, assembled resources, releases on disk | create, resource, assemble, publish, collect | saves, runtime worker | not modelled |
| Library, review, runtime options, normalisation, discovery, formats, BIOS library, HTTP, schema | rows, or nothing | edits under a version, functions of a source, decoding | scans, replacement | a step with a nondeterministic result, or not modelled |

### The web client

| Component | State it keeps | Operations | Interacts with | Module |
|---|---|---|---|---|
| Save session (`use-save-session.ts`, `draft-upload.ts`, `save-drafts.ts`, `use-player-exit.ts`) | drafts in IndexedDB and in memory, the work in flight, the exit dialog | capture, upload, retry, acknowledge, recover, leave | the runtime's checkpoints, `service/saves` | `SaveSession` |
| Launch (`use-player-session.ts`, `runtime/`, `player-fullscreen.ts`) | effects, controllers, frames, fullscreen scopes | start, restart, dispose, fullscreen | the runtime, the browser | `PlayerLaunch` |
| Input, pause, orientation (`player-shell.tsx`, `player-orientation.ts`, `use-player-*`) | commands to the game, overlays, the gate | pause, resume, menus, rotate, hide | the runtime acknowledges later | `PlayerScreen` |
| Uploads and the scan sheet (`scans/`) | the sheet, transfers and their workers, the source of a scan | declare, send, retry, close, resume, inspect, scan | `Uploads` | `UploadClient` |
| Runtime isolation worker (`runtime-isolation/service-worker.js`) | a port, slots, a queue, timers | fetch, reconnect, expire | the player page | `ContentRelay` |
| Game editor (`game-editor-panel.tsx`) | rows of a list, a request that is live | pick, search, scroll, edit, refresh | the game answers one call after another | `GameEditor` |
| Immersive library (`use-entry-window.ts`, `use-list-navigation.ts`) | a window over a long list, a selection | move, jump, reload, toggle a favorite | the lists of the server | `EntryList` |
| Controller (`input-model.ts`, `gamepad-source.ts`, `immersive-controls.ts`) | what was held, delays, the chord | press, hold, plug, blur | dialogs and the player menu | `GamepadInput`, `MenuChord` |
| Favorites, directories, accounts (their pages) | a list, forms, dialogs, calls under way | read, page, edit, delete, bulk change | the server, other administrators | `FavoriteLibrary`, `DirectoryPage`, `AccountAdmin` |
| Dialogs (`modal-focus.ts`) | a stack of layers, where the focus goes back to | open, close, lock, tab | every page | `DialogFocus` |
| Application update (`pwa/`) | worker versions, caches, windows | install, approve, activate, reload | all windows | `AppUpdate` |
| Other pages, build and release scripts | presentation, tooling | | | not modelled |

What is hard in this code is in the table `hazards` of `PROJECT.json`, at the
line where it bites. In short:

* **three stores and no transaction over them**: a rename, a COMMIT and a write
  of Redis succeed or fail one by one, and the process may stop between any two;
* **replies that are lost**: `Repository.Transaction` reports
  `ErrCommitUncertain`, a browser gets no answer to a commit or a chunk, and the
  request may still arrive after it was sent again;
* **snapshots**: sweeps and cleanups work through lists read earlier, a form
  holds the row it was opened with, an effect the state it was rendered with;
* **check outside, act inside a mutex or a transaction**: uploads,
  cancellations, passwords;
* **several parties competing to end one thing**: the lease of a call, a
  replacement task, a scan, a fetch, a fullscreen scope;
* **two awaits of the same page**: whatever the user or another callback does in
  between, the continuation goes on with what it had read;
* **deadlines, cancellations, reloads and shutdown** at any of these moments.

## 2. Modules

Each module is one component; an `MC` module gives constants their values. A
definition marked *slip* is a plausible mistake that the named property must
notice; no action uses it. In the server a step is what the code does between two
releases of a mutex, two stores or two transactions; in the client it is what
JavaScript does between two awaits, which nothing can interrupt.

### ManagedFiles, FilePromise, ManagedFilesPromise

State: `game` and `file` are the rows, `owner`, `payload` and `origin` the disk
(main bytes and the attachment of a converted package), `pc` and `op` the running
operations, `inflight` transactions in COMMIT whose reply was lost, and `stage`,
`games`, `files`, `attachments`, `item` the cleaner in the middle of a sweep. A
storage key and the id of its row are allocated together and never reused, so
one name stands for both.

| Action | Code |
|---|---|
| `BeginImport`, `BeginChange` | the reads of `importGame`, `prepareReplacement`, `PackExisting`, `UploadParent` |
| `Publish`, `Finalize` | rename of complete bytes, attachment of the original |
| `Commit`, `LoseReply`, `Refuse` | `CreateGame`, `ReplaceFiles`, `SwitchContentStorage`, `ChangeParent` under the game's lock and version |
| `Confirm`, `ConfirmFails`, `Discard`, `Detach` | `ParentCommitted` after an unknown outcome; `removePrepared`, `removePackage` |
| `TransitionGame` | approve, withdraw, delete |
| `ListDeletedGames` ... `EndSweep`, `SkipItem` | `files.Service`: deleted games, retired files, orphans, each step apart |
| `Land`, `Abort` | PostgreSQL decides a transaction by itself |
| `Crash`, `Tick` | the process stops and starts; time |

Timestamps are ages that saturate at `Grace`. `Tick` waits for operations at
their `Deadline`: `ContentPreparationTimeout` bounds scans and replacements, the
30-minute deadline of `packBounded` the packs. A rename keeps the modification
time of staged bytes, so `Publish` gives them any age from 0 to that of the
operation.

`FilePromise` says what a store owes each file without rows, sweeps or clocks
(unused, unclaimed, live, kept, expired, gone; only complete bytes are claimed;
bytes disappear only when nothing is owed). `ManagedFilesPromise` maps the state
of `ManagedFiles` to it; `KeepsPromise` is the refinement, checked and proved.

### Uploads

State: `session` (age in Redis), `tree`, `age`, `part`, `done` (disk), `writing`,
`scanned`, `mutex` (memory), `req` (handlers, one program counter each), `listed`
and `item` (the cleanup). A handler is split wherever the code releases the
mutex or changes store: `WriteUpload` is `BeginChunk`, `LockChunk`, `Touch`,
`OpenPart`, `Copy` (or `Truncated`), `Settle`, `EndChunk`; starting a scan is
`BeginScan`, `ResolveSource`, `Admit`, `Consume`, `Take`, `InsertScan`,
`EndScan`, `RemoveScanned`, `Forget`. What a scan reads is `files/` (`done`); a
complete part that was not renamed counts as received and is not in it. Bytes are
positions, so that gaps and repetitions show. Requests take no time compared with the 24-hour window (`Tick`
needs quiet handlers; running scans may last any time).

### RuntimeWorker

State: the callers (`pc`, `expired`, `process`, `answer`), the lanes (`lease`,
`queue`, `active`, `bytes`, `admission`, `encoding`), the processes (`state`,
`pending`, `dying`, `writes`, `executing`), `closed`. `Call` is `Reserve`,
`TakeEncoder`, `Enqueue`, `Wait`, `Start`, `Register`, `Send`, `Receive`, with
`GiveUp`, `Forget` and `CancelRequest` for a caller that leaves; the process is
`Write`, `ReadResponse`, `TransportFails`, `MarkFailed`, `Detach`, `Kill`,
`ReleaseDying`. Names of calls and processes are reused once nothing mentions
them, so behaviours go on for ever.

### ScanJobs

State: `row` (status and counters), `library` (what was committed), `flight`
(transactions whose reply was lost), the workers (`pc`, `item`, `scan`, `next`,
`cancelled`), `process`. A worker is `Admit`, `InsertRow`, `OpenSource`, and per
item `CheckItem`, `Prepare`, `Execute`, `Commit` or `RollBack` or `LoseReply`,
`Confirm`; it ends through `Interrupt`, `AbortItem`, `RecordFailure`, `Finish`,
`Release`. `Cancel`, `Shutdown`, `Exit`, `Crash`, `Restart` are the surroundings;
`Land` is a COMMIT that takes effect, or not, after its reply was lost. It holds
the row of its scan and the name of the BIOS file it installs, which is what
`Restart` (`InterruptScans`) and `Execute` wait for. Statements outside
transactions take effect or not before the process starts again. What a worker
had in memory is reset when it ends, as soon as no transaction of its own is
left. The conflict that `Cancel` answers for a scan without a worker changes
nothing and has no action.

### Replacement

State: the executor (`active`, `queue`, `byGame`), the tasks (`session`, `ctx`,
`pc`, `error`), `redis`, the database (`version`, `committed`, `flight`), and the
history `asked` of accepted cancellations. Handlers that hold the executor's
mutex throughout (`Enqueue`, `Cancel`, `Query`, the end of a task) are one step
each, calls of Redis included, which may fail before or after they took effect.
`Run` is the goroutine of the active task: `prepare`, `build`, `begin` (the point
from which it cannot be cancelled), `commit`, `confirm`, `finish`. The phases
shown to the user inside a preparation are one. The memory of an ended task is
reset, which no code can read.

### SaveSession

The saves of one run, the drafts of the browser and the server's answer to a
commit. Three uploaders share the drafts: `"work"` is what `inFlight` points at,
`"final"` is `commit(snapshot, null)` when the game ended or the page goes,
`"recovery"` is `uploadDraft` of the list of unsynced saves. A draft is named by
its commit id, and what it was captured from by a revision.

| Action | Code |
|---|---|
| `StartCapture`, `Checkpointed`, `Put` | `save`: the runtime's checkpoint, the draft put into IndexedDB, or kept in the memory of the tab when it is full (`PutFails`) |
| `Answered`, `Unreachable`, `StrayArrives` | the POST of a commit: its answer, none, and a request that arrives when nobody waits for it any more |
| `Answer` | `service/saves`: a repeated commit id, an expired run, a newer version, a game that changed |
| `Removed`, `Acknowledged` | the draft leaves the database, the runtime hears that it was saved |
| `WorkEnds`, `GoesOn` | a work ends and the next is started: a queued capture, or after a retry |
| `ConfirmExit`, `CheckExit`, `Leave`, `MakeFinal`, `Dispose` | the exit dialog and the disposal of an unmounted page |
| `RecoverDraft`, `DiscardDraft`, `Reload`, `RunExpires`, `Drift`, `WrittenElsewhere` | the recovery list and the world |

### PlayerLaunch

From the launch button to the end of a run. A generation is an effect of the page;
an older one may be anywhere between two awaits while the next begins. `offer` is
the envelope, from a set that holds envelopes that can be played and one envelope
for each check of `envelope.ts` to fail (`ValidEnvelope` and its parts are that
file as operators). `Fetched`, `Imported`, `MountFrame`, `FrameReady`, `Mounted`
are the stages of `start()`, each with its failure; `EffectStarts`, `EffectStops`
(`Cleanup`), `Disposed`, `GameExited` the rest of its life. A scope is one
request for fullscreen: `Begin`, `Granted`, `Denied`, `LockSettled`,
`ScreenLeft`, `Restored`; `hasty` marks a launch while an earlier scope is
unsettled.

### PlayerScreen

What commands a loaded game. `cmds` are the commands it has not acknowledged,
each with the one who waits for it; `Acknowledged` is what each of them does
then. `Render` is a render with its effects, `GateActs` the orientation gate,
`SurfActs` the chain of transitions of the surface, `ExitContinues` and
`Continues` what follows them. The game acknowledges only what it was told
before it lets promises run (`Settled`). `word` is a history: what the user asked
for last while nobody else spoke.

### UploadClient

`server` is what the server has of a session, `strays` chunks whose sender gave
up; a transfer is a click on start with its two workers, which take files
from one queue in their order: `Opened`, `Takes`, `Accepted`, `Conflict` and `Reread`, `Lost` and
`Waited` (the retries), `Refused`, `TransferFails`, `TransferEnds`, `Inspected`.
The sheet chooses, closes, resumes and abandons. `GameScan` is `PathAsked`,
`PathChosen`, `ScanFormatChosen`, `PathRead`, `MapAsked`, `MapRead`,
`MappingChosen`, `ScanStarts` and `ScanNotStarted`: what it shows is put together from
answers that may be those of an earlier render, and `strayed` is the history of
that. Chunks are pairs of file and position.

### ContentRelay

The service worker of a web game: `active` slots, a `waiting` queue, timers in
ticks and the port in use. `Asks`, `Sends`, `ReadStarted`, `ReadProgress`,
`StatAnswered`, `BlockRead`, `ReadFailed`, `Expires` are a request, `Reconnects`,
`Reconnected`, `GivenUp`, `BindsLate`, `Connects` the port, `PortDies` and
`WorkerStops` what the browser does. `RangeOf` is the Range header.

### The pages

| Module | State | Actions and their code |
|---|---|---|
| `GameEditor` | the chosen list, its rows, the calls the game has not answered | `PageRead`, `EditDone`, `PartyRead` are answers, which count while the request is `live` (the sequence numbers of `game-editor-panel.tsx`) |
| `GamepadInput` | what is held on each controller, the claim model, the navigation model, the dialogs; the history of what is held from before (`stale`), and of the home page before its first frame (`fresh`) | `Frame` is one call of `requestAnimationFrame`: claim, neutral delay, cool-down, repeats; `Mounts` is a page that takes over |
| `MenuChord` | the detector of Select and Start, the neutral gate | `Frame`, `MenuFrame` are a frame of `immersive-controls.ts` |
| `EntryList` | a window (base, items, total), one request | `Answers` is the reply to an open, earlier, later, jump or reload request; starting another aborts it |
| `AppUpdate` | worker versions, caches, windows | the install, activate, message and fetch handlers of `service-worker.js`, with the chunks that a full static cache drops (`Newest`); `applyUpdate` of `worker-client.ts` |
| `FavoriteLibrary` | the paged list and its request, calls of a bulk change, dialogs | `More`, `Answered`, `Changed` are `use-infinite-resource.ts`, the others the page |
| `DirectoryPage` | the list, a form and a dialog with the row they were opened for | `Saves`, `Saved`, `Deleted`, `Refused`; `OtherWrites`, `OtherDeletes` another administrator |
| `AccountAdmin` | one account, its sessions, links, the page | `LoginVerified` and `LoginCommits` (the password is checked outside the transaction), `ChangeVerified`, `ChangeCommits`, `Requires`, `Supersedes`, `Inserted` (the statements of a link), `Saved` |
| `DialogFocus` | the stack of dialogs and the focus | `Opens`, `Closes`, `Locks`, `Tab`, `Escape` of `modal-focus.ts` |

### Services, Transfers, Pages, Shell, Player and the MC modules

Components that share no state are put beside one another in one module: `part`
is chosen at the start and never changes, the variables of the chosen component
follow its specification, and those of the others stay at 0. A property of such
a module begins with the part it is about, so it says of each component exactly
what the component's own property says; it joins properties that are about the
same question. Fairness is stated for each part with the variables of that part.

`Services`, `Transfers`, `Pages`, `Shell` and `Player` (`PlayerLaunch` and `PlayerScreen`)
are such modules for any constants, so that they can be proved about. `Services` extends `ScanJobs` and `Transfers` extends
`UploadClient`, whose variables keep their names; those of the others have a prefix
where names clash. They take the proofs of `RuntimeWorker`, `Replacement` and
`ContentRelay` with them by instantiating the modules of these proofs.
`MCServices`, `MCTransfers` and `MCShell` only give the constants values and
assert the assumptions, and `MCPlayer` besides starts only a computer with the other
envelopes or with a screen that is full already; `MCBackground` also composes,
for TLC alone, and so does `MCPages`, which puts `Uploads` beside the pages.

`Ordering` holds what a filter leaves of a sequence: the numbers of a finite set in
ascending order, by their ranks, and the elements of a sequence at the places of a set.
The server's list of favorites and the merges of pages are written with it, without
recursion, so that theorems can speak of them.

## 3. Runs

| Run | Instance | Properties and what they say |
|---|---|---|
| `managed_files` | 1 game, 2 keys, 2 writers, grace 2, deadline 0, 1 fault | `TypeOK`; `BytesKept`: no sweep, discard or lost reply takes bytes that a committed or undecided row, or the grace, protects; `KeepsPromise`: refinement of `FilePromise` |
| `services` | 3 calls, 1 slot, 2 processes, 1 fault; 1 game scan and 2 BIOS scans of 2 items, 1 fault; 3 replacements on 2 games, queue of 1, 1 fault, late commits; 1.3 million states | `LanesServe`: no slot idle while someone waits, none taken twice, what Node executes holds one; `RowsAgree`: a scan's row adds up to what is in the library, each item and BIOS file once; `Truthful`: completed is published, failed or cancelled never will be; `Recoverable`: the record of a publication names its file; `ResultsFinal`: what ended stays |
| `background` | 1 writer, grace 1, 1 fault; 1 upload, 2 faults; 2 calls, 1 slot; 1 game and 1 BIOS scan, 1 fault; 2 replacements on 2 games, queue of 1 | liveness: `EverythingReclaimed`, `StagingReclaimed`, `CallsReturn`, `ScansEnd`, `OperationsEnd` |
| `save_session` | 2 drafts, 2 revisions, 1 fault of any kind | `DraftsKept`: each draft is on the server at most once, and in the browser until it is; `ExitSynced`: leaving without an error means synchronised; `NeverOlder`: a save never falls back; `NoRevisionForgotten`: every announced revision is captured, or a draft or failure is shown |
| `player` | 2 effects, 2 scopes, 1 fault; a pointer, a phone and an immersive player with 1 unacknowledged command each before more is asked with keys or in the toolbar, and up to 3 transitions asked for by clicks that wait for one another, 1 fault | `LaunchIsMine`, `NothingLeftBehind`, `ScreenGivenBack` of `PlayerLaunch`; `LastClickCounts`, `InputFollowsScreen`, `PortraitPauses` of `PlayerScreen` |
| `transfers` | 2 sessions, 2 transfers, 1 lost request or change of mind, or 2 steps of the scan page; 3 fetches, 2 ports, a queue of 1, with 2 slots and with 1, 1 fault | `BytesArrive`: files arrive in order and whole; `ScanIsOfOneSource`: what a scan names and the collections it maps are of one upload, or both of a directory, and of the very same source unless the picker went on after they were asked for (`scan_source`); `ReadsGoOn`: no read is given up early, and slots and queue are those of the requests; liveness: `UploadEnds`, `EveryFetchEnds` |
| `shell` | editor: 2 persons, pages of 2, 3 acts, 1 error; 2 controllers, 3 inputs; the chord with windows of 2, 2, 5 and 2 frames; lists of 5 and 3 games, pages of 2, 4 moves, 1 error | `RowsAreRight`, `WindowIsContiguous`, `NoCarriedAction` (what is held does nothing on the page or dialog that opens under it until it is let go, but for the first frame of the home page come back to, section 5), `OpensOnTwoChords`; liveness: `PagesSettle` |
| `pages` | 2 windows, 3 versions, static caches of 1 chunk, 3 acts (both windows opened and an update asked for); 2 games, pages of 1; 1 directory; 2 dialogs; 1 account, 1 link, versions to 2; `Uploads` with 2 uploads, 2 handlers, 1 session, 2 scans at once, files of 2 and 0 bytes, 1 fault, Redis fails; 2.6 million states | `StagingIsSound`: parts are prefixes, an upload that is scanned has one scan and no session, its bytes stay, and as long as nothing failed they are in `files/`; `ListIsCurrent`, `SessionsAreCurrent`, `CachesKept`, `UpdatesInPeace`, `ReplacesWhatWasSeen`, `FocusComesBack` |
| `managed_files_late` | as the first, deadline 1, `LateCommit` | violated: `LiveFilesReadable` (section 5) |
| `uploads_overlap` | 1 upload, 2 scans at once, overlapping requests | violated: `ScannedOnce` (section 5) |
| `scan_source` | `UploadClient` with 1 session, 3 steps of the page | violated: `ScansWhatWasRead` (section 5) |
| `entry_list_shows` | `EntryList` alone | violated: `ShowsItsList` (section 5) |

A property of a joint run includes the type invariant of a module where it has
one, so that bounds of counters, queues and slots are looked at as well.

Why the bounds are enough. Two of each thing that interferes (writers, chunks,
scans, callers, effects, administrators, windows) and a third where a queue or a
limit needs it; one fault puts a crash or a failure at every step, two (uploads in
`background`) put one into the recovery from another, and `StagingStaysSound` is proved
for any number. Two keys give an operation something to retire.
`Grace` 2 and `Deadline` 0 tell "as young as an operation", "in between" and
"expired" apart. Two items have a first, a last and a repeated content. Two
revisions have a newer and an older one, and a second draft repeats or overtakes
the first. A file of two chunks has one that can be repeated, and one file of two
blocks among three fetches keeps a port busy while others wait. Three transitions are
one that was sent and two that wait, of which the last may undo the other; the second click is made while a command is unacknowledged. The acts of
`UploadClient` weigh differently (`Acts` is a lost request or a change of mind about an
upload, `Visit` a step of the scan page) so that two readings of the page meet in the
bound of one fault; `CachesKept` needs a static cache that is full, which one entry is.
Lists are longer than two pages, so that a window has a part before it and one after
it. Symmetry is used only where identifiers are interchangeable and nothing temporal but
action properties is checked.

Deadlock is checked for `ManagedFiles`, whose clock always goes on.
Elsewhere each call, scan, operation, draft or act of a user is used once and the
behaviour may come to rest: there what must not be left undone is a liveness
property. For the same reason `<>[]P` and `[]<>P` ask of a finite workload that
`P` is reached at its end, whatever happened on the way.

### Fairness

* `ManagedFiles`: the ticker starts sweeps and a sweep goes on (`WF` of the
  cleaner's steps); operations have deadlines (`WF` of the writers'); PostgreSQL
  decides. `SF(Tick)`: time goes on although operations at their deadline hold it
  back for a moment each.
* `Uploads`: `WF` of the cleanup, `SF` of the handlers' steps, because they need a
  mutex that others hold now and then: Go's mutex hands itself to the longest
  waiter. `SF(Tick)` as above.
* `RuntimeWorker`: `WF` of each call's next step and of what writes to, fails and
  kills a process. `CallsReturn` assumes that deadlines pass (`Deadlines`) and
  not that Node answers.
* `ScanJobs`: workers and started statements go on, a stopping process exits and
  is started again by its supervisor.
* `Replacement`: the goroutine of the active task goes on and PostgreSQL decides.
* `SaveSession`, `UploadClient`, `PlayerLaunch`: promises that were started are
  settled, well or badly (`WF` of the uploaders, of the final save, of the
  workers, of the stages of a launch, of the browser's fullscreen requests).
* `PlayerScreen`: promises go on (`WF`), and the game acknowledges what it is
  told; it gives way to promises, which is why its fairness is strong.
* `ContentRelay`: timers run, slots are handed on and a reconnection is answered
  or given up. The player need not answer.
* `EntryList`, `GameEditor`, `GamepadInput`: requests are answered, frames come.

No user is ever assumed to do anything.

### Assumptions about the environment

They are constants, so that a run can drop them.

* `LateCommit = FALSE`: PostgreSQL has decided a transaction whose reply was lost
  before its outcome is looked up. Nothing in the code ensures it;
  `managed_files_late` drops it. `Replacement` is checked and proved with late
  commits in `services`, and without them only in `background`.
* `Overlap = FALSE`: a client asks for a scan or a removal of an upload only when
  it has no other request about it under way. `uploads_overlap` drops it.
* `RedisFails = FALSE` in `background`, TRUE in `pages`: an upload whose
  session could not be deleted is reclaimed only after the next start (section 5).
* `ProgressFails = FALSE`, `LastMomentCancel = FALSE` in `background`: single
  statements that write a scan's row succeed, and in time (the 5 seconds of
  `commit.go:39` are among their failures), and nobody cancels a scan that
  opens its source or has done its last item. `services` drops the first, and
  the theorems about `ScanJobs` hold without either.

## 4. Proofs

| Theorem | Says | Under |
|---|---|---|
| `ManagedFilesProofs!TypeCorrect` | `Spec => []TypeOK` | any instance |
| `ManagedFilesProofs!BytesSafe` | `Spec => []BytesKept` | `LateCommit = FALSE` |
| `ManagedFilesProofs!PromiseKept` | `Spec => KeepsPromise`: `ManagedFiles` implements `FilePromise` | `LateCommit = FALSE` |
| `UploadsProofs!PartsStayPrefixes` | `Spec => []PartsArePrefixes` | any instance |
| `UploadsProofs!StagingStaysSound` | `Spec => []StagingIsSound` | `Overlap = FALSE` |
| `ReplacementProofs!ReportsAreTrue` | `Spec => []Truthful` | any instance, late commits included |
| `ReplacementProofs!CancelsAreHonoured` | `Spec => []CancelHonoured` | any instance, late commits included |
| `ReplacementProofs!PublicationsAreRecoverable` | `Spec => []Recoverable` | any instance, late commits included |
| `ReplacementProofs!ResultsStayFinal` | `Spec => [][ResultsFinal]_vars` | any instance, late commits included |
| `ReplacementProofs!ReplacementTypeOK` | `Spec => []TypeOK` | any instance |
| `ReplacementProofs!ExecutorKnowsItsTasks` | `Spec => []ExecutorAgrees` | any instance, late commits included |
| `ServicesProofs!ScansTypeOK` | `Spec => []TypeOK` | any instance |
| `ServicesProofs!ImportsAreCounted` | `Spec => []ImportsCounted` | any instance, late commits included |
| `ServicesProofs!RowsAlwaysAddUp` | `Spec => []RowsAddUp` | any instance, late commits included |
| `ServicesProofs!ItemsAreCountedOnce` | `Spec => []EachItemOnce` | any instance, late commits included |
| `ServicesProofs!BiosFilesAreUnique` | `Spec => []OneBiosFile` | any instance, late commits included |
| `ServicesProofs!ScansEndOnce` | `Spec => [][EndsOnce]_vars` | any instance, late commits included |
| `RuntimeWorkerProofs!WorkerTypeOK` | `Spec => []TypeOK` | any instance |
| `RuntimeWorkerProofs!CountersAlwaysAgree` | `Spec => []CountersAgree` | any instance |
| `RuntimeWorkerProofs!NoSlotIsIdle` | `Spec => []NoIdleSlot` | any instance |
| `RuntimeWorkerProofs!ExecutionsAlwaysHoldSlots` | `Spec => []ExecutionsHoldSlots` | any instance |
| `ServicesProofs!LanesAlwaysServe` | `ServicesSpec => []LanesServe` | `Configured` |
| `ServicesProofs!RowsAlwaysAgree` | `ServicesSpec => []RowsAgree` | `Configured` |
| `ServicesProofs!ServicesTellTheTruth` | `ServicesSpec => []Truthful` | `Configured` |
| `ServicesProofs!ServicesRecover` | `ServicesSpec => []Recoverable` | `Configured` |
| `ServicesProofs!ServicesEndOnce` | `ServicesSpec => ResultsFinal` | `Configured` |
| `ClientProofs!DraftsAreKept` | `Spec => []DraftsKept` | any instance |
| `ClientProofs!ExitIsSynced` | `Spec => []ExitSynced` | any instance |
| `ClientProofs!SavesGetNoOlder` | `Spec => NeverOlder` | any instance |
| `TransfersProofs!BytesAlwaysArrive` | `TransfersSpec => []BytesArrive` | `TransfersConfigured` |
| `TransfersProofs!ScanAlwaysIsOfOneSource` | `TransfersSpec => []ScanIsOfOneSource` | `TransfersConfigured` |
| `TransfersProofs!ReadsAlwaysGoOn` | `TransfersSpec => []ReadsGoOn` | `TransfersConfigured` |
| `ClientProofs!SessionsStayCurrent` | `PagesSpec => []SessionsAreCurrent` | `PagesConfigured` |
| `ClientProofs!SeenIsReplaced` | `PagesSpec => ReplacesWhatWasSeen` | `PagesConfigured` |
| `ClientProofs!UpdatesKeepThePeace` | `PagesSpec => UpdatesInPeace` | `PagesConfigured` |
| `ClientProofs!FocusAlwaysComesBack` | `PagesSpec => FocusComesBack` | `PagesConfigured` |
| `UploadsProofs!ListStaysCurrent` | `PagesSpec => []ListIsCurrent` | `LibraryAssumption` |
| `UploadsProofs!RowsStayRight` | `ShellSpec => []RowsAreRight` | `ShellAssumption` |
| `UploadsProofs!WindowStaysContiguous` | `ShellSpec => []WindowIsContiguous` | `ShellAssumption` |
| `ManagedFilesProofs!LaunchStaysMine` | `PlayerSpec => []LaunchIsMine` | `PlayerConfigured` |
| `ManagedFilesProofs!LastClickAlwaysCounts` | `PlayerSpec => []LastClickCounts` | `PlayerConfigured` |
| `ManagedFilesProofs!InputStaysWithScreen` | `PlayerSpec => []InputFollowsScreen` | `PlayerConfigured` |

"Any instance" is one that satisfies the named assumptions of the module, which only
give the constants their types. `TransfersConfigured` says that the bounds of
`UploadClient` and `ContentRelay` are natural numbers and positive where a zero
would be no system; `PagesConfigured` that there are a number of directories and
that 0, the page, is not a dialog; `PlayerConfigured` that the bounds of the player
are natural numbers, positive where a zero would be no system, and its devices some
of the three; `LibraryAssumption` and `ShellAssumption` that lists have a length and
pages hold something.

**ManagedFiles.** Assumed of the constants: `GraceAssumption` (`Deadline <
Grace`), `BoundAssumption`, `NamesAssumption`. None of the parts of `BytesKept` is
inductive. What keeps the bytes of a preparation from the orphan sweep is that
they are no older than the operation, hence younger than the grace
(`WriterBytes`, `Young`); what keeps the bytes of a row is that everything the
cleaner has listed stays true until it acts on it: a deleted game never comes
back (`GamesListed`), a retired row is never used again (`FilesListed`), and an
unowned old key can be claimed by nobody (`OrphanTaken`). For the last, a key is
held by one operation at most (`HeldApart`), an operation runs on a game that was
live when it began, so that a deletion is younger than the operation
(`WriterGame`), and an undecided transaction holds the lock of its game
(`InflightInv`). `IInv` is their conjunction; the proof has one lemma per group of
actions (`CommitSafe`, `LandSafe`, `TickSafe`, ...), each with one step per
conjunct the action can disturb.

**ManagedFilesPromise** (also in `ManagedFilesProofs`). The refinement is shown file by file: `Moves(f)` lists
where a file may go in one step, with its completeness before and after, and
implies a step of the promise (`MovesIsPromised`). Each action is shown to move
every file so, from `IInv` and `RowsInv` (an attachment exists only once a row
says so, and a game that was not created has no content in use).

**Uploads.** `PartInv` holds without any condition: who writes a file has entered
it in `uploadState.writing`, alone, so that the offset it checked is still the end
of the part when it copies. `ScanInv` needs `Overlap = FALSE`: requests that share
an upload all write chunks (`Shared`); a session exists while a live request needs
it, and is gone when its upload is created, scanned or removed (`Sessions`); a
mark protects a tree from the cleanup, which holds the mutex when it decides
(`Marks`); hence what a scan has consumed stays whole on disk (`Whole`), and is its
own (`ConsumedIsOwned`). That it is all in `files/` holds only while nothing has
failed: from then on a complete part may be left that nobody renames.

**Replacement.** `ReplacementAssumption` only gives the constants their types.
What a client reads depends on where the goroutine is, so `ExecutorInv` first ties
the phases to the executor: who has left or was never submitted is in no table, the
active task is the one with a goroutine, and who waits is in the queue once
(`ExecutorMoves`, `ExecutorAccepts`, `ExecutorFinishes`). `OpInv` says what a phase
knows of the publication: before the transaction, and after it failed for certain,
nothing is published or under way; a task asked to stop has its context done, and
so cannot pass `Begin`. `RecordInv` says what a record may claim: nothing final
while its task is known, and the file as soon as the transaction may exist. A
record is only about an operation that moved on, so the proof shows of each step
that what a record may say it may go on saying (`Grows`), and of each save that
the new one may say it (`Stepped`, `Leaves`). Late commits cost nothing here:
`Land` decides what no record denied.

**ScanJobs** (in `ServicesProofs`). `ScanAssumption` gives the constants their types. None of the
properties is inductive: what the row and the library say of a scan depends on
where its worker is, and on a transaction of it that is still under way. `ScanInv`
tells, for each place of the worker, what is known: before the transaction of an
item is decided (`Before`) the worker has counted the items before it, the library
holds no other, and the row is no further than the counters in memory; the
transaction counts that item once (`Carries`); a worker that lost its reply is
before it or after it (`After`), and `confirmCommit` finds out which. A worker that
does not know leaves the row running and ends, so that a transaction under way
finds the row of `Before` when it is decided at last. `Restart` relies on a process
that is down having no workers (`DownInv`), and on waiting for what is under way.
For `OneBiosFile` the files that are being installed have to be counted with those
in the library (`Taken`); `Execute` is the only action that adds to them. Each
action is shown to write the row of its own scan only, and no less than it held
(`Grows`), which gives `EndsOnce`.

**RuntimeWorker.** `RuntimeAssumption` gives the constants their types and says
that there are finitely many calls;
`RuntimeNames` that the names of "no call" and "no process" are not calls or
processes. The counters are compared with cardinalities of sets of leases, so
that the proof first shows, for any sets, what one lease more or less does to
them (`OneMore`, `OneLess`), and for any queue without repetitions what `dispatch`
and `release` leave of it (`Firsts`, `After`, `Delete`). `LaneInv` says of a lane
that its queue holds exactly the calls whose lease is queued, once, that the
counters are those of the leases, and that nobody waits beside a free slot.
`dispatch` runs after a slot, bytes or a place became free and restores the last.
`CallInv` says for each place of a call which lease it can have; `ProcInv` says
of a process that what it was told, executes or still has in its write buffer
belongs to a call with a running lease (`Answerable`), each call once: a caller
that leaves early leaves its lease with the process, and `fail` gives it back
only when Node is dead (`killed`). None of the properties is inductive without
these: `ExecutionsHoldSlots` needs `CallInv` to know that a lease is not released
by a caller that has registered it.

**Services.** `Configured` is the assumptions of the three modules. `SInv` is the
inductive invariant of the module whose behaviour this is; a step of the whole is
a step of that module (`OnePart`).

**SaveSession** (in `ClientProofs`). `BoundsAreNatural` is all that is assumed; fairness is not used.
`SaveInv` has four parts beside the types and `NothingLost`. `RowsInv` relates the
drafts to the rows of the server: whatever the steps of the page, they reach the
rows in four ways only (`RowsMove`: nothing, a new draft, a draft written, a row
written elsewhere), and in each what was seen with a version stays seen (`Grows`).
A draft that was written has moved its row beyond the version it was made for, so
that no later request of it finds that version again, which is why a draft is
written once (`CommittedOnce`); a draft whose version is still the present one is
no older than what the row holds, which is why a save gets no older. `RefsInv` and
`PlacesInv` say that what the page, the database and the requests under way refer
to was made, and that an upload which removes or acknowledges a draft had it
written. `FinalInv` is about the last snapshot: it is of the last revision, because
a game that handed it over has ended, and what the runtime knows as saved is on the
server. `ExitInv` is what `ExitSynced` needs: while the dialog waits, what was due
when it was confirmed is in the draft under way, or in the one made by the capture
that follows (`Covered`: a retry goes on with one, a queued change asks for one).
Each is kept by one lemma per group of actions (`UploadKeepsExit`, `WorkKeepsFinal`,
...), from what an end of the work or of an upload leaves alone (`EndLeaves`,
`WorkEndsExit`).

**UploadClient** (in `TransfersProofs`). That the bytes of a file arrive in their
order is not inductive: a chunk may be sent again by its own worker, by a worker of
a later transfer that resumed the session, or arrive when nobody waits for it.
`Served` says that what the server has of each file is its first chunks, and
`StrayInv` that a request on its way names a file and a place of that file, so that
whatever arrives late is refused or is the next chunk. That "uploaded" means whole
needs the two workers: `Covers` says of a transfer that is sending that each file is
in the queue, with a worker, or sent as far as the transfer knows, and `Linked` that
the server has no less than the transfer knows of; hence all are whole when the queue
is empty and both workers are done. The sheet announces what a transfer that has inspected found (`AtWork`). For a scan,
`ScanInv` says what the page shows (`Shows`): collections and the source named with
them are of the same upload or both of a directory, and the same source while the page
has not strayed; and what each reading under way may still do to it (`Aimed`): a
reading of a listed upload brings its source along, and a reading of a directory comes
to a page whose picker is at that directory, or has strayed.

**ContentRelay** (`ContentRelayProofs`, for `Transfers` at two widths). `RInv`
counts: the slots taken are the requests in a state that has one (`Taken`), the queue
holds each waiting request once and is empty while a slot is free (`QueueInv`), and
the ports named anywhere were opened (`PortInv`). A read that is given up early needs
a timer that ran out although the player was heard: `InTime` says of each read under
way that what is left of its timer and the time since the player was heard make up
the patience. Cardinalities change by one
request at a time, for which the module has lemmas of its own.

**AccountAdmin, DirectoryPage** (in `ClientProofs`). Versions only grow, and every
change of what is protected raises them. What was recorded with a version - a session
(`SessionsAgree`), a row of a list, a form, a dialog (`PageIsTrue`, `DInv`) - is
either of an earlier version, and then refused, or agrees with the row. For a
directory this has to be carried over the automatic recommendation and the removal of
a core that another administrator made unavailable, so `DInv` also keeps the shape of
rows and of the form (`RowOK`, `FormOK`); a row that was deleted never returns under
its number, because numbers are not given again (`DirectoriesMove`).

**AppUpdate** (in `ClientProofs`). Workers are installed in the order of their
versions and take over in it (`WorkersInOrder`). A window that asked a worker to take
over (`AskedFor`) has asked the one that waits now or one that has been overtaken or
is active already, so that when it is told to reload, the active worker is no older.
The counter of acts and the caches play no part.

**DialogFocus** (in `ClientProofs`). The stack holds each dialog once and the focus is
in the top one (`StackInv`, `FocusInv`). Each dialog remembers the element it was
opened from; as long as none closed under another (`tangled`), the first dialog of
the stack remembers `home` (`HomeInv`), and a last dialog that closes is the first.

**PlayerLaunch, PlayerScreen** (the last part of `ManagedFilesProofs`: the player shares
nothing with the files of the server, but tlapm's time grows faster than a module, and
there it is short). `LaunchInv` has, beside the types, what a click that is under way
holds (`ClickHasScope`) and `LaunchShown`: what loads without being aborted is the
effect in force (`LoadsForMe`), so that a late module, runtime or frame finds itself
aborted before it can be shown; what still runs for another effect is being disposed
of (`OthersGo`); and an effect that passed the checks of the envelope has one that
accepts the snapshot its restart hands over (`AcceptsSnapshot`), because what is
written is among what is read (`SnapshotAccepted`). The fullscreen scopes do not
touch `LaunchShown` (`ShownKept`). `ScreenInv` is what makes `LastClickCounts`
inductive. `WaitInv` pairs the commands with who waits for them: the gate, the surface,
the exit dialog and the editor have exactly one command in the game while they wait and
none otherwise, said with `OneOf` and `NoneOf`, which the provers follow through
`Append` and `Tail`, and counted only at the end (`CountOf`). `SurfInv`: of the chain of transitions only the first is sent, as what it
goes to. `QuietInv`: with a pointer the gate never acts, and a dialog that paused the
game silenced the user's word. `WordInv`: a word that counts is on its way, for every
command is the surface's and the last transition of the chain goes where the word says,
or, when the chain is empty, the game is there or will be once its checkpoint ends. `InputInv` says what the last render
left: a frame of the gamepads may take the input and give it back in between, but an
overlay that was seen has it, and a remembered key answers to what was seen. It needs
nothing about commands or the game, since only a render and a frame touch the input
(`InputRests`).

**Ordering** (in `UploadsProofs`, as the three that follow: what is read in pages shares
nothing with staging, but that module has room). A rank is a cardinality, so that two
places of one rank are one place, and each number up to the size of the set is a rank; `Ordered` is therefore ascending and gives each element once. What is
kept of a sequence without repetitions has none, and a merge of the first elements of a
list with the next ones gives more of its first elements (`MergeFirst`), one of two
parts that meet the part they make up (`MergeParts`).

**FavoriteLibrary.** `ReadInv` says, as long as nothing makes it unknown (a bulk change
under way, or one of which a call failed: `unread`), that what a read has gathered so
far is the first of the list of the filter, for the request as for the cards shown; of
the cards it says nothing while a refresh is under way or has failed. A filter or a
change starts a refresh, and a refresh gathers from nothing, so that nothing of the old
list is merged.

**GameEditor.** Calls the game has not answered are of older selections, searches and
edits. `CallsInv` says who still has a say: calls for the list and the search that are
shown, and of the pages one. `RowsInv` says of that page that its offset is where the
rows end, so that the rows and the answer make up the first rows of what was found. By
`ValuesInv` every edit that was not overtaken still has a say, and the values are those
of the game unless the party is about to be read again.

**EntryList.** `WindowInv` is the property without its exceptions for requests under way,
a favorite that is toggled and a failed read; `RequestInv` says of each kind of request what it will be joined to: an open
replaces the window, a request for more starts where the window ends, one for earlier
games ends where it begins, and a reload has gathered a part of its list from where it
began. What aborts a request leaves the window as it was.

**Pages.** `PagesInv` is the inductive invariant of the page whose behaviour this is;
a step of the whole is a step of that page (`OnePage`), as `OneTransfersPart`,
`OnePart` and `OnePlayer` say for `Transfers`, `Services` and `Player`.

What stays with TLC: of the safety properties `NoCarriedAction` and `OpensOnTwoChords` of
`shell` and `CachesKept` of `pages`, and all liveness and every use of `ENABLED`,
which are out of the prover's reach. `CachesKept` is about what `SelectSeq` leaves of a
sequence: the library defines it by recursion, and what a recursive definition computes
would need induction over data, which the provers cannot instantiate.

## 5. Where code and words disagree

Four disagreements are runs.

* `managed_files_late`: after an unknown outcome `ParentCommitted` is a plain
  count; "no row" is taken for an aborted transaction although PostgreSQL may
  still be committing it, and the writer removes bytes that then belong to an
  active row of a live game. (When the look-up itself fails, the bytes are kept,
  `library/arcade.go:118`.) `docs/storage-and-database.md:32` says that an unknown
  outcome is verified by the allocated id and that bytes must not be removed blindly.
* `uploads_overlap`: `consumeUpload` looks at the session and the bytes before it
  takes the mutex and not again (`upload.go:222`, `229`). The second of two POST
  `/scans` reads the session while the first is about to take the upload, saves it
  again after that, and takes it as well: two scans read one tree, and the one that
  ends first removes it.
* `scan_source`: `inspect` of `game-scan.tsx:75` shows what arrives without comparing
  it with the directory and the format the picker is at by then (lines 62-66), and
  the scan names the latter (line 108). `docs/import-and-review.md:5` has a source
  chosen, inspected and its collections mapped.
* `entry_list_shows`: a favorite is toggled, another list is chosen before the
  server answers, and the reload of the old list (`immersive-shell.tsx:50`)
  aborts the read of the new one and is shown in its place.

Others were met while modelling; the modules contain the histories, and the
properties that hold are stated so as not to deny them.

* `storage/uploads.go:231` counts a part that is complete but was not renamed
  into `files/` (crash, failed sync or rename) as received: no chunk can be sent
  any more, the upload is complete, and the scan reads a tree without the file.
  Line 20 calls `files/` the completed source tree. `ScansKeepTheirBytes` therefore
  allows a complete part, and `StagingIsSound` asks for `files/` only while nothing
  has failed.
* `scans/upload.go:237` marks an upload as scanned before it deletes the session;
  when Redis fails the mark stays and the cleanup passes over the tree until the
  process restarts.
* `scans/service.go:177` and `bios.go:140` write `completed` under the worker's
  own context. Cancelled after the last item, the statement fails, is only
  logged, and the row says running until the next start; `Cancel` answers a
  conflict for it.
* `scans/bios.go:130`: a BIOS scan cancelled while it prepares or commits an item
  reports a failed database instead of a cancellation.
* `scans/replacement.go:286` settles a record as interrupted while its
  transaction may still be under way; `docs/http-api-contract.md:63` promises a
  result that can be queried again as long as it cannot be verified.
* `docs/runtime-and-play-data.md:5` describes four Node workers with one request
  each that a cancellation kills; the code shares one process between the
  requests of both lanes and sends it a message.
* `service/accounts/links.go:41` looks for the user before the transaction that
  inserts the link: a link can be made for an account that is deleted in between
  and stays open, while `docs/backend-api-and-operations.md:5` says that deleting
  an account revokes its links.
* `player-orientation.ts:27`: a gate that waits for its own pause takes a pause
  of the user, made meanwhile, for its own, and resumes it when the phone is
  turned back; line 14 says it resumes only what it paused. `PlayerScreen` takes
  the step, and no property denies it.
* `player-fullscreen.ts:23`: when a game is launched before an earlier scope has
  settled, the later scope remembers a fullscreen that the earlier one is about to
  leave, and nobody leaves the fullscreen at the end. `GivenBack` excludes such
  launches (`hasty`).
* `game-editor-panel.tsx:133`: the answer to an edit is dropped when the next page
  was asked for meanwhile, and the row goes on showing the value it had before.
  `RowsAreCurrent` leaves out edits that were overtaken.
* `favorite-library.tsx:79`: when one call of a bulk change fails, the others go
  on and nobody reads the list after them. `ListIsCurrent` leaves this out
  (`unread`).
* `entry-dialog.tsx:81`: in the first frame of the home page nothing is known to be
  held, so that a button held since another page opens the entry dialog as if it
  had just been pressed (`input-model.ts:285-302`), against
  `docs/ui-specification.md:79`. `NoCarriedAction` leaves this frame out (`fresh`).
* `directory-manager.tsx:249`: choosing no default core adds the empty core to
  the form's cores.
* `use-immersive-library.ts:26`: choosing another list starts the selection from
  the window of the old one; and a reload that starts beyond the end of a list
  that became shorter leaves the window empty.

## 6. Not modelled

* Functions of their input: parsers of metadata, titles, archive walks, hashes,
  normalisation plug-ins, runtime options, password rules, validation of paths
  and of forms. Where a module needs their result it is nondeterministic.
* Single statements on one row without a second party: tags, recent games, home,
  renaming and deleting saves, set-up and registration.
* Runs, the content cache and provider synchronisation: see section 7.
* Presentation, other pages of the client, tooling.
* Within the modelled components: what an item of a scan contains; the sweep of
  media, BIOS, saves, run resources and staging in `ManagedFiles`; the bytes
  inside a content replacement, which are those of `ManagedFiles`; requests
  refused before any effect; the messages between a frame and its provider, one
  step each in `PlayerLaunch`; volume, speed, layout and debug panel of the
  player; the ranges of fetches beyond first and last block; a second bulk change
  of the favorites while one is under way; the page of the other administrator,
  names and roles of accounts, and more than one managed account; the carousel of
  platforms in the immersive library.

Where a step of a module is larger than a step of the code, or a failure is left out:

* `ManagedFiles`: `RemoveRetired` checks a retired row and removes its bytes in one
  step; nobody can use a retired row again in between.
* `ScanJobs`: a BIOS requirement for which no candidate was found, which the code
  counts as skipped (`bios.go:217-220`, `268-269`), is left out; the 5 seconds of
  `commit.go:39` are a failure of `Interrupt` among others.
* `Replacement`: the version a task was asked for is that of its admission.
* `SaveSession`: `Checkpointed` takes the awaits of `use-save-session.ts:86-91`
  together; a game whose `exit` fails in `Leave` (`player-shell.tsx:176`) is over all
  the same.
* `PlayerLaunch`: `exitFullscreen` does not fail in `ScreenLeft` (`player-fullscreen.ts:52`).
* `ContentRelay`: a player connects while no port is bound (`service-worker.js:33`
  also replaces one); a failed read and a reconnection (lines 64 and 142) have one
  outcome each.
* `UploadClient`: the format of an inspection is that of the click or of the
  last choice in the sheet, not of the render in between.
* `AppUpdate`: `Activates` deletes caches in one step (lines 25-31): the keys are
  read once and requests wait for it. Optional static files of which the installation
  fails are left out.
* `MenuChord`: no time passes while the chord is suppressed, and the menu closes with
  the frame that finds the controller neutral, without the await of the game's resume
  (`use-player-exit.ts:54-62`).

## 7. What comes next

In the order in which it would add most:

1. `Runs`: contexts in Redis and assembled resources on disk, two clocks that
   renew each other, and the sweep (`service/runs/service.go:139`), composed with
   the expiring run that `SaveSession` has today.
2. `ManagedFiles` extended to media and saves owned by a deleted game, and saves
   that are written while their game is deleted (`service/saves/service.go:139`).
3. `ProviderSync`: publication by rename, collection while a process reads, and
   the content cache that is filled by fingerprint.
4. `Uploads` composed with `UploadClient`, so that the condition `Overlap =
   FALSE` is discharged by the client that sends.
5. Proofs: `CachesKept`, with the caches filtered as in `Ordering`, and the two action
   properties of the controllers.
