---------------------------- MODULE ManagedFiles ----------------------------
(***************************************************************************)
(* The life of the bytes of a game's content: the writers that publish new *)
(* files below games/<id> and then commit the rows that refer to them      *)
(* (internal/service/scans, internal/service/library/arcade.go,            *)
(* internal/service/content/pack.go), the administrator's changes of the   *)
(* game's status, and the once-a-minute cleaner that purges deleted games, *)
(* retired files and unreferenced bytes (internal/service/files).          *)
(*                                                                         *)
(* The file system and the database are separate: nothing makes a rename   *)
(* and a COMMIT atomic, the process may stop between any two steps, and    *)
(* the reply of a COMMIT may be lost.                                      *)
(*                                                                         *)
(* Names.  A storage key and the row that refers to it are allocated       *)
(* together and never reused (both are fresh UUIDs), so one element of     *)
(* Files stands for both; its attachment (the unconverted original of a    *)
(* converted package) is found through the row's id.                       *)
(*                                                                         *)
(* Time.  A timestamp is kept as the age of what it dates, saturating at   *)
(* Grace: "updated_at_ms < now - grace" is "age = Grace".  One unit of     *)
(* time is whatever makes Deadline, the budget of one preparation (90      *)
(* minutes), shorter than Grace (24 hours).                                *)
(***************************************************************************)
EXTENDS Integers, FiniteSets

CONSTANTS
  Games,       \* identifiers of game_tab
  Files,       \* identifiers of game_file_tab, and their storage keys
  Writers,     \* operations that can run at the same time
  Grace,       \* cmd/retrom/server.go: the cleaner's Grace
  Deadline,    \* scans.ContentPreparationTimeout
  MaxVersion,  \* bound: administrators stop editing a game at this version
  MaxFaults,   \* bound: number of crashes and failed cleaner steps
  LateCommit   \* TRUE: a COMMIT whose reply was lost may still be running when
               \* its outcome is looked up; FALSE: it has been decided by then

ASSUME GraceAssumption == Grace \in Nat /\ Deadline \in Nat /\ Deadline < Grace
ASSUME BoundAssumption == MaxVersion \in Nat /\ MaxFaults \in Nat
ASSUME LateAssumption == LateCommit \in BOOLEAN

Ages == 0..Grace
Absent == -1          \* no such file on disk
NoGame == "no game"
NoFile == "no file"
NoItem == "no item"
ASSUME NamesAssumption ==
  /\ NoGame \notin Games /\ NoFile \notin Files
  /\ NoItem \notin Games \cup Files /\ Games \cap Files = {}

Kinds == {"import", "replace", "parent"}

GameStatus == {"none", "pending_review", "published", "deleted", "purged"}
FileStatus == {"none", "active", "deleted", "purged", "erased"}
GameRows == [status : GameStatus, version : 0..MaxVersion, age : Ages]
FileRows == [status : FileStatus, converted : BOOLEAN, age : Ages]

\* What a writer carries from its reads to its transaction.  "import" creates
\* the game; "replace" (a pack, or the content replacement of a published game)
\* retires every active file of the game; "parent" (an uploaded arcade parent)
\* retires some of them.
Operations == [kind : Kinds, game : Games \cup {NoGame}, version : 0..MaxVersion,
               file : Files \cup {NoFile}, converted : BOOLEAN, age : 0..Deadline]
NoOperation == [kind |-> "import", game |-> NoGame, version |-> 0,
                file |-> NoFile, converted |-> FALSE, age |-> 0]

VARIABLES
  game,      \* game_tab: status, version, age since the last change of status
  file,      \* game_file_tab: status, converted (has an attachment), age
  owner,     \* the games/<id> directory a key was published in; NoGame: unused
  payload,   \* age of the main bytes of a key on disk, or Absent
  origin,    \* age of the attachment on disk, or Absent
  pc,        \* how far each running operation is
  op,        \* what it carries from its reads to its transaction
  inflight,  \* transactions sent to COMMIT whose reply was lost, undecided
  stage,     \* how far the cleaner's sweep is
  games,     \* deleted games it has listed and not worked through
  files,     \* retired rows, later published keys, it has listed
  attachments, \* attachments it has listed
  item,      \* the game, row or key at hand
  faults     \* crashes and failed cleaner steps so far

rowVars == <<game, file>>
diskVars == <<owner, payload, origin>>
writerVars == <<pc, op>>
cleanerVars == <<stage, games, files, attachments, item>>
vars == <<rowVars, diskVars, writerVars, inflight, cleanerVars, faults>>

WriterPC == {"idle", "preparing", "prepared", "unknown", "discard", "detach"}
Stages == {"idle",
           "games", "remove owner", "purge game",
           "retired", "remove origin", "purge file",
           "orphans", "remove payload", "remove attachment"}

TypeOK ==
  /\ game \in [Games -> GameRows]
  /\ file \in [Files -> FileRows]
  /\ owner \in [Files -> Games \cup {NoGame}]
  /\ payload \in [Files -> Ages \cup {Absent}]
  /\ origin \in [Files -> Ages \cup {Absent}]
  /\ pc \in [Writers -> WriterPC]
  /\ op \in [Writers -> Operations]
  /\ inflight \in SUBSET Operations
  /\ stage \in Stages
  /\ games \in SUBSET Games
  /\ files \in SUBSET Files
  /\ attachments \in SUBSET Files
  /\ item \in Games \cup Files \cup {NoItem}
  /\ faults \in 0..MaxFaults

Init ==
  /\ game = [g \in Games |-> [status |-> "none", version |-> 0, age |-> 0]]
  /\ file = [f \in Files |-> [status |-> "none", converted |-> FALSE, age |-> 0]]
  /\ owner = [f \in Files |-> NoGame]
  /\ payload = [f \in Files |-> Absent]
  /\ origin = [f \in Files |-> Absent]
  /\ pc = [w \in Writers |-> "idle"]
  /\ op = [w \in Writers |-> NoOperation]
  /\ inflight = {}
  /\ stage = "idle" /\ games = {} /\ files = {} /\ attachments = {} /\ item = NoItem
  /\ faults = 0

-----------------------------------------------------------------------------
(* State predicates the code evaluates.                                    *)

Live(g) == game[g].status \in {"pending_review", "published"}

\* Slips that the properties must notice are defined beside what they distort.
\* Rows of game_file_tab that belong to g, whatever their status.
Rows(g) == {f \in Files : owner[f] = g /\ file[f].status # "none"}
Active(g) == {f \in Rows(g) : file[f].status = "active"}

OwnsUnlessPurged(f) == file[f].status \notin {"purged", "erased"} \* slip

\* persistence.OwnsFile: active and deleted rows keep their bytes, and the
\* attachment of the same row, out of the orphan sweep.
OwnsFile(f) == file[f].status \in {"active", "deleted"}

\* persistence.Referenced
Referenced(f) == file[f].status = "active"

\* persistence.ParentCommitted: a row with the allocated id, in any status.
ParentCommitted(f) == file[f].status \in {"active", "deleted", "purged"}

\* A transaction waiting in COMMIT holds the lock of its game's row.
Locked(g) == \E tx \in inflight : tx.game = g

OlderUnbounded(age) == IF age <= Grace THEN age + 1 ELSE Grace \* slip

Older(age) == IF age < Grace THEN age + 1 ELSE Grace
Aged(o) == [o EXCEPT !.age = o.age + 1]

-----------------------------------------------------------------------------
(* Writers: prepare bytes outside the transaction, then commit, then       *)
(* confirm or discard.                                                     *)

Start(w, kind, g, version) ==
  /\ pc[w] = "idle"
  /\ pc' = [pc EXCEPT ![w] = "preparing"]
  /\ op' = [op EXCEPT ![w] = [kind |-> kind, game |-> g, version |-> version,
                               file |-> NoFile, converted |-> FALSE, age |-> 0]]
  /\ UNCHANGED <<rowVars, diskVars, inflight, cleanerVars, faults>>

\* importGame allocates the fresh id of the game it will create.
BeginImport(w, g) ==
  /\ game[g].status = "none"
  /\ \A v \in Writers : op[v].game # g
  /\ \A f \in Files : owner[f] # g
  /\ Start(w, "import", g, 0)

\* prepareReplacement, PackExisting and UploadParent read the game and its version.
BeginChange(w, g, kind) ==
  /\ Live(g)
  /\ game[g].version < MaxVersion
  /\ Start(w, kind, g, game[g].version)

\* Store.Write, PublishStaged or BuildPackage rename complete bytes to a fresh
\* key; the rename keeps the time at which the operation staged them.
Publish(w, f) ==
  /\ pc[w] = "preparing" /\ op[w].file = NoFile
  /\ owner[f] = NoGame
  /\ owner' = [owner EXCEPT ![f] = op[w].game]
  /\ \E age \in 0..op[w].age : payload' = [payload EXCEPT ![f] = age]
  /\ op' = [op EXCEPT ![w].file = f]
  /\ UNCHANGED <<rowVars, origin, pc, inflight, cleanerVars, faults>>

\* finalizeSourceContent and preparePackage attach the original of a converted
\* package; an uploaded parent and other content are ready without one.
Finalize(w, converted) ==
  /\ pc[w] = "preparing" /\ op[w].file # NoFile
  /\ converted => op[w].kind # "parent"
  /\ origin' = IF converted THEN [origin EXCEPT ![op[w].file] = 0] ELSE origin
  /\ pc' = [pc EXCEPT ![w] = "prepared"]
  /\ op' = [op EXCEPT ![w].converted = converted]
  /\ UNCHANGED <<rowVars, owner, payload, inflight, cleanerVars, faults>>

\* The guards of commitGame, ReplaceFiles, SwitchContentStorage and ChangeParent.
Admissible(o) ==
  IF o.kind = "import" THEN game[o.game].status = "none"
                       ELSE Live(o.game) /\ game[o.game].version = o.version

\* The rows that the transaction moves to "deleted".
Retires(o, retired) ==
  /\ retired \subseteq Active(o.game)
  /\ o.kind = "import" => retired = {}
  /\ o.kind = "replace" => retired = Active(o.game)

\* CreateGame, or the game's version CAS with the old rows retired and the new one inserted.
Apply(o, retired) ==
  /\ game' = IF o.kind = "import"
             THEN [game EXCEPT ![o.game].status = "pending_review"]
             ELSE [game EXCEPT ![o.game].version = o.version + 1]
  /\ file' = [f \in Files |->
       IF f = o.file THEN [status |-> "active", converted |-> o.converted, age |-> 0]
       ELSE IF f \in retired
       THEN [status |-> "deleted", converted |-> file[f].converted, age |-> 0]
       ELSE file[f]]

Finish(w) == pc' = [pc EXCEPT ![w] = "idle"] /\ op' = [op EXCEPT ![w] = NoOperation]
Proceed(w, next) == pc' = [pc EXCEPT ![w] = next] /\ UNCHANGED op

Commit(w) ==
  /\ pc[w] = "prepared"
  /\ ~Locked(op[w].game)
  /\ Admissible(op[w])
  /\ \E retired \in SUBSET Files : Retires(op[w], retired) /\ Apply(op[w], retired)
  /\ Finish(w)
  /\ UNCHANGED <<diskVars, inflight, cleanerVars, faults>>

\* The connection breaks after COMMIT was sent (ErrCommitUncertain): the
\* database will decide without the writer.
LoseReply(w) ==
  /\ pc[w] = "prepared"
  /\ ~Locked(op[w].game)
  /\ Admissible(op[w])
  /\ inflight' = inflight \cup {op[w]}
  /\ Proceed(w, "unknown")
  /\ UNCHANGED <<rowVars, diskVars, cleanerVars, faults>>

\* Version conflict, duplicate content, cancellation, the 90-minute deadline or
\* an error of the disk or the database before COMMIT.
Refuse(w) ==
  /\ pc[w] \in {"preparing", "prepared"}
  /\ IF op[w].file = NoFile THEN Finish(w) ELSE Proceed(w, "discard")
  /\ UNCHANGED <<rowVars, diskVars, inflight, cleanerVars, faults>>

\* Slip: an unknown outcome is never looked up.
ConfirmBlindly(w) ==
  /\ pc[w] = "unknown"
  /\ LateCommit \/ op[w] \notin inflight
  /\ Proceed(w, "discard")
  /\ UNCHANGED <<rowVars, diskVars, inflight, cleanerVars, faults>>

\* importGame keeps what it prepared; the others look for the allocated row,
\* and take its absence for an aborted transaction.
Confirm(w) ==
  /\ pc[w] = "unknown"
  /\ LateCommit \/ op[w] \notin inflight
  /\ IF op[w].kind = "import" \/ ParentCommitted(op[w].file)
     THEN Finish(w) ELSE Proceed(w, "discard")
  /\ UNCHANGED <<rowVars, diskVars, inflight, cleanerVars, faults>>

\* The look-up itself fails: the bytes stay for the ordinary cleanup.
ConfirmFails(w) ==
  /\ pc[w] = "unknown"
  /\ Finish(w)
  /\ UNCHANGED <<rowVars, diskVars, inflight, cleanerVars, faults>>

\* removePrepared, removePackage: the main bytes, then the attachment.
Discard(w) ==
  /\ pc[w] = "discard"
  /\ payload' = [payload EXCEPT ![op[w].file] = Absent]
  /\ IF op[w].converted THEN Proceed(w, "detach") ELSE Finish(w)
  /\ UNCHANGED <<rowVars, owner, origin, inflight, cleanerVars, faults>>

Detach(w) ==
  /\ pc[w] = "detach"
  /\ origin' = [origin EXCEPT ![op[w].file] = Absent]
  /\ Finish(w)
  /\ UNCHANGED <<rowVars, owner, payload, inflight, cleanerVars, faults>>

-----------------------------------------------------------------------------
(* The database decides the transactions whose reply was lost.             *)

Land(tx) ==
  /\ inflight' = inflight \ {tx}
  /\ \E retired \in SUBSET Files : Retires(tx, retired) /\ Apply(tx, retired)
  /\ UNCHANGED <<diskVars, writerVars, cleanerVars, faults>>

Abort(tx) ==
  /\ inflight' = inflight \ {tx}
  /\ UNCHANGED <<rowVars, diskVars, writerVars, cleanerVars, faults>>

-----------------------------------------------------------------------------
(* Administrators: approval, withdrawal and deletion of a game, and edits  *)
(* that keep its status (UpdateGame, ChangeMedia); each checks and raises  *)
(* the version.                                                            *)

Transitions == {<<"pending_review", "published">>, <<"published", "pending_review">>,
                <<"pending_review", "deleted">>, <<"published", "deleted">>,
                <<"pending_review", "pending_review">>, <<"published", "published">>}

TransitionGame(g, next) ==
  /\ <<game[g].status, next>> \in Transitions
  /\ game[g].version < MaxVersion
  /\ ~Locked(g)
  /\ game' = [game EXCEPT ![g] =
       [status |-> next, version |-> game[g].version + 1, age |-> 0]]
  /\ UNCHANGED <<file, diskVars, writerVars, inflight, cleanerVars, faults>>

-----------------------------------------------------------------------------
(* The cleaner.  Every list it reads is a snapshot that the steps after it *)
(* work through; other actors move between any two of them.                *)

\* DeletedGames: the first list of a sweep.
ListDeletedGames ==
  /\ stage = "idle"
  /\ stage' = "games"
  /\ games' = {g \in Games : game[g].status = "deleted" /\ game[g].age = Grace}
  /\ UNCHANGED <<rowVars, diskVars, writerVars, inflight, files, attachments, item, faults>>

TakeGame(g) ==
  /\ stage = "games" /\ g \in games
  /\ stage' = "remove owner" /\ item' = g /\ games' = games \ {g}
  /\ UNCHANGED <<rowVars, diskVars, writerVars, inflight, files, attachments, faults>>

\* RemoveOwner("games", id): everything published below the game's directory.
RemoveGameOwner ==
  /\ stage = "remove owner"
  /\ payload' = [f \in Files |-> IF owner[f] = item THEN Absent ELSE payload[f]]
  /\ origin' = [f \in Files |-> IF owner[f] = item THEN Absent ELSE origin[f]]
  /\ stage' = "purge game"
  /\ UNCHANGED <<rowVars, owner, writerVars, inflight, games, files, attachments, item, faults>>

\* PurgeGame: the dependent rows disappear and the game is purged.
PurgeGame ==
  /\ stage = "purge game"
  /\ ~Locked(item)
  /\ IF game[item].status = "deleted"
     THEN /\ game' = [game EXCEPT ![item] =
               [status |-> "purged", version |-> game[item].version, age |-> 0]]
          /\ file' = [f \in Files |-> IF f \in Rows(item)
               THEN [status |-> "erased", converted |-> file[f].converted, age |-> 0]
               ELSE file[f]]
     ELSE UNCHANGED rowVars
  /\ stage' = "games" /\ item' = NoItem
  /\ UNCHANGED <<diskVars, writerVars, inflight, games, files, attachments, faults>>

ExpiredAtOnce(f) == file[f].status = "deleted"                          \* slip
\* RetiredFiles: rows retired longer ago than the grace.
Expired(f) == file[f].status = "deleted" /\ file[f].age = Grace

ListRetiredFiles ==
  /\ stage = "games" /\ games = {}
  /\ stage' = "retired"
  /\ files' = {f \in Files : Expired(f)}
  /\ UNCHANGED <<rowVars, diskVars, writerVars, inflight, games, attachments, item, faults>>

\* removeRetired: the main bytes, unless an active row refers to them.
RemoveRetiredPayload(f) ==
  /\ stage = "retired" /\ f \in files
  /\ payload' = IF Referenced(f) THEN payload ELSE [payload EXCEPT ![f] = Absent]
  /\ stage' = "remove origin" /\ item' = f /\ files' = files \ {f}
  /\ UNCHANGED <<rowVars, owner, origin, writerVars, inflight, games, attachments, faults>>

RemoveRetiredOrigin ==
  /\ stage = "remove origin"
  /\ origin' = [origin EXCEPT ![item] = Absent]
  /\ stage' = "purge file"
  /\ UNCHANGED <<rowVars, owner, payload, writerVars, inflight, games, files, attachments, item, faults>>

\* PurgeFile: an UPDATE that only matches a row still deleted.
PurgeFile ==
  /\ stage = "purge file"
  /\ file' = IF file[item].status = "deleted"
             THEN [file EXCEPT ![item] =
               [status |-> "purged", converted |-> file[item].converted, age |-> 0]]
             ELSE file
  /\ stage' = "retired" /\ item' = NoItem
  /\ UNCHANGED <<game, diskVars, writerVars, inflight, games, files, attachments, faults>>

\* Scanner.Next: the entries the walk finds, each with its modification time.
ListOrphans ==
  /\ stage = "retired" /\ files = {}
  /\ stage' = "orphans"
  /\ files' = {f \in Files : payload[f] # Absent}
  /\ attachments' = {f \in Files : origin[f] # Absent}
  /\ UNCHANGED <<rowVars, diskVars, writerVars, inflight, games, item, faults>>

\* orphans passes over what is younger than the grace, asks OwnsFile for the
\* rest, and removes the entry in a later step.
CheckPayload(f) ==
  /\ stage = "orphans" /\ f \in files
  /\ files' = files \ {f}
  /\ IF payload[f] # Grace \/ OwnsFile(f)
     THEN UNCHANGED <<stage, item>>
     ELSE stage' = "remove payload" /\ item' = f
  /\ UNCHANGED <<rowVars, diskVars, writerVars, inflight, games, attachments, faults>>

CheckAttachment(f) ==
  /\ stage = "orphans" /\ f \in attachments
  /\ attachments' = attachments \ {f}
  /\ IF origin[f] # Grace \/ OwnsFile(f)
     THEN UNCHANGED <<stage, item>>
     ELSE stage' = "remove attachment" /\ item' = f
  /\ UNCHANGED <<rowVars, diskVars, writerVars, inflight, games, files, faults>>

RemoveOrphanPayload ==
  /\ stage = "remove payload"
  /\ payload' = [payload EXCEPT ![item] = Absent]
  /\ stage' = "orphans" /\ item' = NoItem
  /\ UNCHANGED <<rowVars, owner, origin, writerVars, inflight, games, files, attachments, faults>>

RemoveOrphanAttachment ==
  /\ stage = "remove attachment"
  /\ origin' = [origin EXCEPT ![item] = Absent]
  /\ stage' = "orphans" /\ item' = NoItem
  /\ UNCHANGED <<rowVars, owner, payload, writerVars, inflight, games, files, attachments, faults>>

EndSweep ==
  /\ stage = "orphans" /\ files = {} /\ attachments = {}
  /\ stage' = "idle"
  /\ UNCHANGED <<rowVars, diskVars, writerVars, inflight, games, files, attachments, item, faults>>

\* A step on one item fails, or PurgeGame stops at a thousand package members:
\* the item is left for the next sweep.
SkipItem ==
  /\ item # NoItem
  /\ faults < MaxFaults /\ faults' = faults + 1
  /\ stage' = IF stage \in {"remove owner", "purge game"} THEN "games"
              ELSE IF stage \in {"remove origin", "purge file"} THEN "retired"
              ELSE "orphans"
  /\ item' = NoItem
  /\ UNCHANGED <<rowVars, diskVars, writerVars, inflight, games, files, attachments>>

-----------------------------------------------------------------------------
(* The process stops and starts again; disk, database and the transactions *)
(* the database has not decided survive.                                   *)

Crash ==
  /\ faults < MaxFaults /\ faults' = faults + 1
  /\ pc' = [w \in Writers |-> "idle"]
  /\ op' = [w \in Writers |-> NoOperation]
  /\ stage' = "idle" /\ games' = {} /\ files' = {} /\ attachments' = {} /\ item' = NoItem
  /\ UNCHANGED <<rowVars, diskVars, inflight>>

\* Time passes.  A preparation does not outlive its deadline, and the database
\* does not leave a transaction undecided for longer either.
Tick ==
  /\ \A w \in Writers : pc[w] # "idle" => op[w].age < Deadline
  /\ \A tx \in inflight : tx.age < Deadline
  /\ game' = [g \in Games |-> IF game[g].status = "deleted"
       THEN [game[g] EXCEPT !.age = Older(game[g].age)] ELSE game[g]]
  /\ file' = [f \in Files |-> IF file[f].status = "deleted"
       THEN [file[f] EXCEPT !.age = Older(file[f].age)] ELSE file[f]]
  /\ payload' = [f \in Files |-> IF payload[f] = Absent THEN Absent ELSE Older(payload[f])]
  /\ origin' = [f \in Files |-> IF origin[f] = Absent THEN Absent ELSE Older(origin[f])]
  /\ op' = [w \in Writers |-> IF pc[w] = "idle" THEN op[w] ELSE Aged(op[w])]
  /\ inflight' = {Aged(tx) : tx \in inflight}
  /\ UNCHANGED <<owner, pc, cleanerVars, faults>>

-----------------------------------------------------------------------------
WriterStep(w) ==
  \/ \E f \in Files : Publish(w, f)
  \/ \E converted \in BOOLEAN : Finalize(w, converted)
  \/ Commit(w) \/ LoseReply(w) \/ Refuse(w)
  \/ Confirm(w) \/ ConfirmFails(w) \/ Discard(w) \/ Detach(w)

Begin(w) == \E g \in Games :
  BeginImport(w, g) \/ \E kind \in {"replace", "parent"} : BeginChange(w, g, kind)

DatabaseStep == \E tx \in inflight : Land(tx) \/ Abort(tx)

CleanerStep ==
  \/ ListDeletedGames \/ \E g \in Games : TakeGame(g)
  \/ RemoveGameOwner \/ PurgeGame
  \/ ListRetiredFiles \/ \E f \in Files : RemoveRetiredPayload(f)
  \/ RemoveRetiredOrigin \/ PurgeFile
  \/ ListOrphans \/ \E f \in Files : CheckPayload(f) \/ CheckAttachment(f)
  \/ RemoveOrphanPayload \/ RemoveOrphanAttachment \/ EndSweep

Next ==
  \/ \E w \in Writers : Begin(w) \/ WriterStep(w)
  \/ DatabaseStep
  \/ \E g \in Games, next \in GameStatus : TransitionGame(g, next)
  \/ CleanerStep \/ SkipItem
  \/ Crash
  \/ Tick

Spec == Init /\ [][Next]_vars

\* The ticker keeps starting sweeps and a sweep goes through its lists; every
\* operation ends (its context has a deadline); the database decides.  Time
\* passes whatever runs: Tick waits for operations at their deadline, which
\* says that they end in time, never that they stop the clock.
Fairness ==
  /\ WF_vars(CleanerStep)
  /\ \A w \in Writers : WF_vars(WriterStep(w))
  /\ WF_vars(DatabaseStep)
  /\ SF_vars(Tick)

FairSpec == Spec /\ Fairness

-----------------------------------------------------------------------------
(* Properties.                                                             *)

Present(f) == payload[f] # Absent /\ (file[f].converted => origin[f] # Absent)

\* A row that a live game still uses always finds its bytes: no sweep, discard
\* or crash ever removes what a committed transaction refers to.
LiveFilesReadable ==
  \A f \in Files : file[f].status = "active" /\ Live(owner[f]) => Present(f)

\* The bytes of a retired file, and of every file of a deleted game, stay for
\* the whole grace, however old they are on disk (readers that resolved the key
\* before the switch go on): OwnsFile counts deleted rows, and both retirement
\* lists go by the row's own time.
GraceKept ==
  \A f \in Files :
    /\ file[f].status \in {"active", "deleted"}
    /\ file[f].status = "deleted" => file[f].age < Grace
    /\ game[owner[f]].status = "deleted" => game[owner[f]].age < Grace
    => Present(f)

\* A row is given up only after its bytes are gone: a purged file, or a file of
\* a purged game, leaves neither payload nor attachment behind.
PurgedOwnsNothing ==
  \A f \in Files : file[f].status \in {"purged", "erased"}
                     => payload[f] = Absent /\ origin[f] = Absent

\* While a COMMIT may still take effect, the bytes it refers to stay: what the
\* docs ask for an unknown outcome (docs/storage-and-database.md:32, no blind
\* removal).  The look-up of the writers keeps them when it fails
\* (library/arcade.go:118), but takes "no row" for an abort; that is right only
\* when no transaction lands after it (LateCommit = FALSE).
UndecidedBytesKept ==
  \A tx \in inflight : payload[tx.file] # Absent /\ (tx.converted => origin[tx.file] # Absent)

\* All of this of one state: what was promised about bytes is kept.
BytesKept == LiveFilesReadable /\ GraceKept /\ PurgedOwnsNothing /\ UndecidedBytesKept

\* Bytes nobody owns (an aborted or crashed operation, a refused commit) are
\* reclaimed in the end, unless a transaction still claims them; a deleted game
\* is eventually purged, and so is every retired file, whatever failed meanwhile.
Orphaned(f) == payload[f] # Absent /\ file[f].status \notin {"active", "deleted"}
Reclaimed ==
  /\ \A f \in Files : ~Orphaned(f) /\ file[f].status # "deleted"
  /\ \A g \in Games : game[g].status # "deleted"
=============================================================================
