------------------------- MODULE ManagedFilesProofs -------------------------
(***************************************************************************)
(* The safety of managed files, for every number of games, files and       *)
(* concurrent operations, every grace and every deadline shorter than it.  *)
(*                                                                         *)
(* The invariants of ManagedFiles are not inductive: what protects the     *)
(* bytes of an operation that has not committed is that they are too young *)
(* for the orphan sweep, and what protects the bytes of a row is that the  *)
(* lists the cleaner works through stay true while others move.  IInv says *)
(* so.                                                                     *)
(*                                                                         *)
(* It also carries the refinement: ManagedFiles implements FilePromise.    *)
(*                                                                         *)
(* The last part is about another component, the Player, whose module is   *)
(* read beside ManagedFiles and shares nothing with it: LaunchInv says     *)
(* that what loads without being aborted is the effect in force, ScreenInv *)
(* that whoever waits for the game has one command in it and that the      *)
(* user's last word is on its way, InputInv what the last effects and      *)
(* frames left of the input of a game.                                     *)
(***************************************************************************)
EXTENDS ManagedFilesPromise, Player, SequenceTheorems, FiniteSetTheorems, TLAPS

Busy(w) == pc[w] # "idle"

\* Keys whose row may still be inserted: a preparation before its COMMIT, or a
\* transaction whose outcome is unknown.
Preparing(w) == pc[w] \in {"preparing", "prepared"} /\ op[w].file # NoFile
Claimed(f) == \/ \E w \in Writers : Preparing(w) /\ op[w].file = f
              \/ \E tx \in inflight : tx.file = f

\* The bytes of a claim are on disk and no older than the operation.
Young(o) ==
  /\ payload[o.file] \in 0..o.age
  /\ IF o.converted THEN origin[o.file] \in 0..o.age ELSE origin[o.file] = Absent

\* Administrators and operations leave room for the version they will write.
Within == /\ \A w \in Writers : op[w].kind # "import" => op[w].version < MaxVersion
          /\ \A tx \in inflight : tx.kind # "import" => tx.version < MaxVersion
TypeInv == TypeOK /\ Within

UnusedKeys == \A f \in Files : owner[f] = NoGame =>
  payload[f] = Absent /\ origin[f] = Absent /\ file[f].status = "none"

\* The local state of an operation, and the directory it publishes into.
WriterShape == \A w \in Writers :
  /\ ~Busy(w) => op[w] = NoOperation
  /\ Busy(w) => op[w].game \in Games
  /\ op[w].file # NoFile => owner[op[w].file] = op[w].game
  /\ pc[w] \in {"prepared", "unknown", "discard", "detach"} => op[w].file # NoFile
  /\ pc[w] = "preparing" => ~op[w].converted

\* An operation runs on a game that was live when it began, so a deletion is
\* younger than the operation.
WriterGame == \A w \in Writers : Busy(w) =>
  /\ game[op[w].game].status # "purged"
  /\ game[op[w].game].status = "deleted" => game[op[w].game].age <= op[w].age

\* What it has published is not referred to before its own commit, nor after
\* it decided to discard it.
WriterBytes == \A w \in Writers :
  /\ Preparing(w) => file[op[w].file].status = "none" /\ Young(op[w])
  /\ pc[w] \in {"discard", "detach"} => ~OwnsFile(op[w].file)

\* No two operations hold one key, and a key in flight is held by nobody but
\* the operation that waits for its outcome.
HeldApart ==
  /\ \A v, w \in Writers : v # w /\ op[v].file # NoFile => op[v].file # op[w].file
  /\ \A w \in Writers : \A tx \in inflight :
       tx.file = op[w].file => pc[w] = "unknown" /\ op[w] = tx
  /\ \A s, t \in inflight : s.file = t.file \/ s.game = t.game => s = t

\* The lock of the game's row keeps an undecided transaction applicable.
InflightInv == \A tx \in inflight :
  /\ tx.game \in Games /\ tx.file \in Files /\ owner[tx.file] = tx.game
  /\ file[tx.file].status = "none"
  /\ Admissible(tx)
  /\ Young(tx)

\* What the cleaner read stays true until it acts on it.
GamesListed ==
  /\ \A g \in games : game[g].status = "deleted" /\ game[g].age = Grace
  /\ stage \in {"remove owner", "purge game"} =>
       /\ item \in Games /\ item \notin games
       /\ game[item].status = "deleted" /\ game[item].age = Grace
  /\ stage = "purge game" => \A f \in Files : owner[f] = item
       => payload[f] = Absent /\ origin[f] = Absent
FilesListed ==
  /\ stage \in {"retired", "remove origin", "purge file"} =>
       \A f \in files : file[f].status = "deleted" /\ file[f].age = Grace
  /\ stage \in {"remove origin", "purge file"} =>
       /\ item \in Files /\ item \notin files
       /\ file[item].status = "deleted" /\ file[item].age = Grace
       /\ payload[item] = Absent
  /\ stage = "purge file" => origin[item] = Absent
ItemTaken == stage \in {"idle", "games", "retired", "orphans"} => item = NoItem
OrphanTaken == stage \in {"remove payload", "remove attachment"} =>
  item \in Files /\ owner[item] # NoGame /\ ~Claimed(item) /\ ~OwnsFile(item)

IInv == /\ TypeInv /\ UnusedKeys /\ WriterShape /\ WriterGame /\ WriterBytes
        /\ HeldApart /\ InflightInv
        /\ ItemTaken /\ GamesListed /\ FilesListed /\ OrphanTaken
        /\ GraceKept /\ PurgedOwnsNothing
-----------------------------------------------------------------------------
(* Type correctness.                                                       *)

LEMMA InitTypeInv == Init => TypeInv
  BY GraceAssumption, BoundAssumption
     DEF Init, TypeInv, Within, TypeOK, Ages, Operations, NoOperation, Kinds, GameRows, FileRows, GameStatus, FileStatus, Stages, WriterPC

LEMMA ApplyTypeOK ==
  ASSUME TypeOK, NEW o \in Operations, o.kind # "import" => o.version < MaxVersion,
         NEW retired, Apply(o, retired)
  PROVE  /\ game' \in [Games -> GameRows]
         /\ file' \in [Files -> FileRows]
<1>1. o.kind # "import" => o.version + 1 \in 0..MaxVersion
  BY BoundAssumption DEF Operations
<1>2. game' \in [Games -> GameRows]
  <2>1. CASE o.kind = "import"
    BY <2>1, ZenonT(90) DEF TypeOK, Apply, GameRows, GameStatus
  <2>2. CASE o.kind # "import"
    BY <1>1, <2>2 DEF TypeOK, Apply, GameRows
  <2> QED
    BY <2>1, <2>2
<1>3. file' \in [Files -> FileRows]
  BY GraceAssumption DEF TypeOK, Apply, Operations, FileRows, Ages, FileStatus
<1> QED
  BY <1>2, <1>3

LEMMA MovesTypeOK ==
  ASSUME TypeInv, NEW w \in Writers, NEW next \in WriterPC, Finish(w) \/ Proceed(w, next)
  PROVE  /\ pc' \in [Writers -> WriterPC]
         /\ op' \in [Writers -> Operations]
         /\ \A v \in Writers : op'[v].kind # "import" => op'[v].version < MaxVersion
<1>1. CASE Finish(w)
  BY <1>1, BoundAssumption, GraceAssumption
     DEF TypeInv, TypeOK, Within, Finish, NoOperation, Operations, Kinds, WriterPC
<1>2. CASE Proceed(w, next)
  BY <1>2 DEF TypeInv, TypeOK, Within, Proceed
<1> QED
  BY <1>1, <1>2

LEMMA TypeWriter ==
  ASSUME TypeInv, NEW w \in Writers, Begin(w) \/ WriterStep(w)
  PROVE  TypeInv'
<1> USE GraceAssumption, BoundAssumption
    DEF TypeInv, TypeOK, Within, Ages, Operations, Kinds, WriterPC,
        rowVars, diskVars, writerVars, cleanerVars
<1>1. ASSUME NEW g \in Games, BeginImport(w, g) PROVE TypeInv'
  BY <1>1 DEF BeginImport, Start
<1>2. ASSUME NEW g \in Games, NEW kind \in {"replace", "parent"}, BeginChange(w, g, kind)
      PROVE TypeInv'
  <2>1. /\ op' \in [Writers -> Operations]
        /\ \A v \in Writers : op'[v].kind # "import" => op'[v].version < MaxVersion
    BY <1>2 DEF BeginChange, Start, GameRows
  <2>2. pc' \in [Writers -> WriterPC]
    BY <1>2 DEF BeginChange, Start
  <2> QED
    BY <1>2, <2>1, <2>2 DEF BeginChange, Start
<1>3. ASSUME NEW f \in Files, Publish(w, f) PROVE TypeInv'
  BY <1>3 DEF Publish
<1>4. ASSUME NEW converted \in BOOLEAN, Finalize(w, converted) PROVE TypeInv'
  <2>1. origin' \in [Files -> Ages \cup {Absent}]
    BY <1>4 DEF Finalize
  <2>2. op' \in [Writers -> Operations] /\ Within'
    BY <1>4 DEF Finalize
  <2> QED
    BY <1>4, <2>1, <2>2 DEF Finalize
<1>5. CASE Commit(w)
  <2>1. PICK retired : Apply(op[w], retired)
    BY <1>5 DEF Commit
  <2>2. /\ game' \in [Games -> GameRows]
        /\ file' \in [Files -> FileRows]
    BY <2>1, ApplyTypeOK
  <2> QED
    BY <1>5, <2>2 DEF Commit, Finish, NoOperation
<1>6. CASE LoseReply(w)
  BY <1>6 DEF LoseReply, Proceed
<1>7. CASE Refuse(w)
  BY <1>7, MovesTypeOK DEF Refuse
<1>8. CASE Confirm(w)
  BY <1>8, MovesTypeOK DEF Confirm
<1>9. CASE ConfirmFails(w)
  BY <1>9, MovesTypeOK DEF ConfirmFails
<1>10. CASE Discard(w)
  BY <1>10, MovesTypeOK DEF Discard
<1>11. CASE Detach(w)
  BY <1>11, MovesTypeOK DEF Detach
<1> QED
  BY <1>1, <1>2, <1>3, <1>4, <1>5, <1>6, <1>7, <1>8, <1>9, <1>10, <1>11 DEF Begin, WriterStep

LEMMA TypeOthers ==
  ASSUME TypeInv,
         DatabaseStep \/ \E g \in Games, next \in GameStatus : TransitionGame(g, next)
  PROVE  TypeInv'
<1> USE GraceAssumption, BoundAssumption
    DEF TypeInv, TypeOK, Within, rowVars, diskVars, writerVars, cleanerVars
<1>1. ASSUME NEW tx \in inflight, Land(tx) PROVE TypeInv'
  <2>1. PICK retired : Apply(tx, retired)
    BY <1>1 DEF Land
  <2>2. /\ game' \in [Games -> GameRows]
        /\ file' \in [Files -> FileRows]
    BY <2>1, ApplyTypeOK
  <2> QED
    BY <1>1, <2>2 DEF Land
<1>2. ASSUME NEW tx \in inflight, Abort(tx) PROVE TypeInv'
  BY <1>2 DEF Abort
<1>3. ASSUME NEW g \in Games, NEW next \in GameStatus, TransitionGame(g, next) PROVE TypeInv'
  BY <1>3 DEF TransitionGame, GameRows, Ages
<1> QED
  BY <1>1, <1>2, <1>3 DEF DatabaseStep

LEMMA PurgeGameTypeOK ==
  ASSUME game \in [Games -> GameRows], file \in [Files -> FileRows], PurgeGame
  PROVE  game' \in [Games -> GameRows] /\ file' \in [Files -> FileRows]
<1>1. 0 \in Ages
  BY GraceAssumption DEF Ages
<1>2. item \in Games
        => [status |-> "purged", version |-> game[item].version, age |-> 0] \in GameRows
  BY <1>1 DEF GameRows, GameStatus
<1>3. game' \in [Games -> GameRows]
  BY <1>2 DEF PurgeGame, rowVars
<1>4. \A f \in Files :
        [status |-> "erased", converted |-> file[f].converted, age |-> 0] \in FileRows
  BY <1>1 DEF FileRows, FileStatus
<1>5. file' \in [Files -> FileRows]
  BY <1>4 DEF PurgeGame, rowVars
<1> QED
  BY <1>3, <1>5

LEMMA PurgeFileTypeOK ==
  ASSUME file \in [Files -> FileRows], PurgeFile
  PROVE  file' \in [Files -> FileRows]
<1>1. 0 \in Ages
  BY GraceAssumption DEF Ages
<1>2. item \in Files
        => [status |-> "purged", converted |-> file[item].converted, age |-> 0] \in FileRows
  BY <1>1 DEF FileRows, FileStatus
<1> QED
  BY <1>2 DEF PurgeFile

LEMMA SkipTypeOK ==
  ASSUME faults \in 0..MaxFaults, SkipItem
  PROVE  stage' \in Stages /\ item' = NoItem /\ faults' \in 0..MaxFaults
<1>1. faults < MaxFaults /\ faults' = faults + 1
  BY DEF SkipItem
<1>2. faults' \in 0..MaxFaults
  BY <1>1, BoundAssumption
<1>3. stage' \in {"games", "retired", "orphans"} /\ item' = NoItem
  BY DEF SkipItem
<1> QED
  BY <1>2, <1>3 DEF Stages

LEMMA TypeCleaner ==
  ASSUME TypeInv, CleanerStep \/ SkipItem
  PROVE  TypeInv'
<1> USE GraceAssumption, BoundAssumption
    DEF TypeInv, TypeOK, Within, Stages, rowVars, diskVars, writerVars, cleanerVars
<1>1. CASE ListDeletedGames
  BY <1>1 DEF ListDeletedGames
<1>2. ASSUME NEW g \in Games, TakeGame(g) PROVE TypeInv'
  BY <1>2 DEF TakeGame
<1>3. CASE RemoveGameOwner
  BY <1>3 DEF RemoveGameOwner
<1>4. CASE PurgeGame
  BY <1>4, PurgeGameTypeOK DEF PurgeGame
<1>5. CASE ListRetiredFiles
  BY <1>5 DEF ListRetiredFiles
<1>6. ASSUME NEW f \in Files, RemoveRetiredPayload(f) PROVE TypeInv'
  BY <1>6 DEF RemoveRetiredPayload
<1>7. CASE RemoveRetiredOrigin
  BY <1>7 DEF RemoveRetiredOrigin
<1>8. CASE PurgeFile
  BY <1>8, PurgeFileTypeOK DEF PurgeFile
<1>9. CASE ListOrphans
  BY <1>9 DEF ListOrphans
<1>10. ASSUME NEW f \in Files, CheckPayload(f) \/ CheckAttachment(f) PROVE TypeInv'
  BY <1>10 DEF CheckPayload, CheckAttachment
<1>11. CASE RemoveOrphanPayload \/ RemoveOrphanAttachment \/ EndSweep
  BY <1>11 DEF RemoveOrphanPayload, RemoveOrphanAttachment, EndSweep
<1>12. CASE SkipItem
  BY <1>12, SkipTypeOK DEF SkipItem
<1> QED
  BY <1>1, <1>2, <1>3, <1>4, <1>5, <1>6, <1>7, <1>8, <1>9, <1>10, <1>11, <1>12 DEF CleanerStep

LEMMA TypeCrash ==
  ASSUME TypeInv, Crash
  PROVE  TypeInv'
<1>1. NoOperation \in Operations /\ NoOperation.kind = "import"
  BY GraceAssumption, BoundAssumption DEF NoOperation, Operations, Kinds
<1>2. op' \in [Writers -> Operations] /\ \A w \in Writers : op'[w].kind = "import"
  BY <1>1 DEF Crash
<1>3. pc' \in [Writers -> WriterPC] /\ stage' \in Stages
  BY DEF Crash, WriterPC, Stages
<1>4. faults' \in 0..MaxFaults
  BY BoundAssumption DEF Crash, TypeInv, TypeOK
<1> QED
  BY <1>2, <1>3, <1>4 DEF Crash, TypeInv, TypeOK, Within, rowVars, diskVars

LEMMA OlderAge == ASSUME NEW age \in Ages
                  PROVE  Older(age) \in Ages /\ Older(age) <= age + 1 /\ age <= Older(age)
  BY GraceAssumption DEF Ages, Older

LEMMA AgedOperation ==
  ASSUME NEW o \in Operations, o.age < Deadline
  PROVE  /\ Aged(o) \in Operations
         /\ Aged(o) = [kind |-> o.kind, game |-> o.game, version |-> o.version, file |-> o.file,
                       converted |-> o.converted, age |-> o.age + 1]
  BY GraceAssumption DEF Aged, Operations

LEMMA TypeTick ==
  ASSUME TypeInv, Tick
  PROVE  TypeInv'
<1>1. game' \in [Games -> GameRows]
  <2>1. game \in [Games -> GameRows]
    BY DEF TypeInv, TypeOK
  <2>2. \A g \in Games : [game[g] EXCEPT !.age = Older(game[g].age)] \in GameRows
    BY <2>1, OlderAge DEF GameRows
  <2> QED
    BY <2>1, <2>2 DEF Tick
<1>2. file' \in [Files -> FileRows]
  <2>1. file \in [Files -> FileRows]
    BY DEF TypeInv, TypeOK
  <2>2. \A f \in Files : [file[f] EXCEPT !.age = Older(file[f].age)] \in FileRows
    BY <2>1, OlderAge DEF FileRows
  <2> QED
    BY <2>1, <2>2 DEF Tick
<1>3. payload' \in [Files -> Ages \cup {Absent}] /\ origin' \in [Files -> Ages \cup {Absent}]
  BY OlderAge DEF TypeInv, TypeOK, Tick
<1>4. \A o \in Operations : o.age < Deadline
        => Aged(o) \in Operations /\ Aged(o).kind = o.kind /\ Aged(o).version = o.version
  BY AgedOperation
<1>5. /\ op' \in [Writers -> Operations]
      /\ \A w \in Writers : op'[w].kind # "import" => op'[w].version < MaxVersion
  BY <1>4 DEF TypeInv, TypeOK, Within, Tick
<1>6. /\ inflight' \in SUBSET Operations
      /\ \A tx \in inflight' : tx.kind # "import" => tx.version < MaxVersion
  BY <1>4 DEF TypeInv, TypeOK, Within, Tick
<1> QED
  BY <1>1, <1>2, <1>3, <1>5, <1>6 DEF TypeInv, TypeOK, Within, Tick, cleanerVars

LEMMA TypeStep == TypeInv /\ [Next]_vars => TypeInv'
<1> SUFFICES ASSUME TypeInv, [Next]_vars PROVE TypeInv'
  OBVIOUS
<1>1. CASE UNCHANGED vars
  BY <1>1 DEF TypeInv, TypeOK, Within, vars, rowVars, diskVars, writerVars, cleanerVars
<1> QED
  BY <1>1, TypeWriter, TypeOthers, TypeCleaner, TypeCrash, TypeTick DEF Next

\* Every variable keeps its type in every reachable state, whatever the numbers
\* of games, files and concurrent operations.
THEOREM TypeCorrect == Spec => []TypeOK
<1>1. TypeInv => TypeOK
  BY DEF TypeInv
<1> QED
  BY <1>1, InitTypeInv, TypeStep, PTL DEF Spec

-----------------------------------------------------------------------------
(* Safety.  What the writers, the database and the clock must leave alone  *)
(* for the cleaner's lists to stay true, and what the cleaner must leave   *)
(* alone for the operations that run beside it.                            *)

BytesInv == /\ UnusedKeys /\ WriterShape /\ WriterGame /\ WriterBytes /\ HeldApart
            /\ InflightInv /\ GraceKept /\ PurgedOwnsNothing
ListsInv == ItemTaken /\ GamesListed /\ FilesListed /\ OrphanTaken

LEMMA Parts == IInv <=> TypeInv /\ BytesInv /\ ListsInv
  BY DEF IInv, BytesInv, ListsInv

LEMMA InitIInv == Init => IInv
<1> SUFFICES ASSUME Init PROVE IInv
  OBVIOUS
<1>1. TypeInv
  BY InitTypeInv
<1>2. BytesInv
  BY NamesAssumption
     DEF Init, BytesInv, UnusedKeys, WriterShape, WriterGame, WriterBytes, HeldApart, InflightInv,
         GraceKept, PurgedOwnsNothing, Busy, Preparing, OwnsFile, NoOperation
<1>3. ListsInv
  BY DEF Init, ListsInv, ItemTaken, GamesListed, FilesListed, OrphanTaken
<1> QED
  BY <1>1, <1>2, <1>3, Parts

LEMMA BytesFrame ==
  ASSUME BytesInv, UNCHANGED <<rowVars, diskVars, writerVars, inflight>>
  PROVE  BytesInv' /\ \A f : Claimed(f)' = Claimed(f) /\ OwnsFile(f)' = OwnsFile(f)
  BY DEF BytesInv, UnusedKeys, WriterShape, WriterGame, WriterBytes, HeldApart, InflightInv,
         GraceKept, PurgedOwnsNothing, Busy, Preparing, OwnsFile, Young, Admissible, Live, Present,
         Claimed, rowVars, diskVars, writerVars

Overdue(row) == row.status = "deleted" /\ row.age = Grace

LEMMA ListsFrame ==
  ASSUME ListsInv, UNCHANGED cleanerVars,
         games \subseteq Games, files \subseteq Files, attachments \subseteq Files,
         \A g \in Games : Overdue(game[g]) => Overdue(game'[g]),
         \A f \in Files : Overdue(file[f]) => /\ Overdue(file'[f])
                                              /\ payload[f] = Absent => payload'[f] = Absent
                                              /\ origin[f] = Absent => origin'[f] = Absent,
         \A f \in Files, g \in Games : Overdue(game[g]) /\ owner'[f] = g =>
           /\ owner[f] = g
           /\ payload[f] = Absent => payload'[f] = Absent
           /\ origin[f] = Absent => origin'[f] = Absent,
         \A f \in Files : owner[f] # NoGame /\ ~Claimed(f) =>
           /\ owner'[f] # NoGame /\ ~Claimed(f)'
           /\ ~OwnsFile(f) => ~OwnsFile(f)'
  PROVE  ListsInv'
<1>1. GamesListed'
  BY DEF ListsInv, GamesListed, Overdue, cleanerVars
<1>2. FilesListed'
  BY DEF ListsInv, FilesListed, Overdue, cleanerVars
<1>3. OrphanTaken'
  BY DEF ListsInv, OrphanTaken, cleanerVars
<1> QED
  BY <1>1, <1>2, <1>3 DEF ListsInv, ItemTaken, cleanerVars

-----------------------------------------------------------------------------
(* Writers.                                                                *)

LEMMA StartSafe ==
  ASSUME IInv, NEW w \in Writers, NEW kind, NEW g \in Games, NEW version, Start(w, kind, g, version),
         game[g].status \notin {"deleted", "purged"}
  PROVE  BytesInv' /\ ListsInv'
<1> DEFINE o == [kind |-> kind, game |-> g, version |-> version, file |-> NoFile,
                 converted |-> FALSE, age |-> 0]
<1>1. /\ pc' = [pc EXCEPT ![w] = "preparing"] /\ op' = [op EXCEPT ![w] = o] /\ pc[w] = "idle"
      /\ UNCHANGED <<rowVars, diskVars, inflight, cleanerVars>>
  BY DEF Start
<1>2. o.file = NoFile /\ o.game = g /\ ~o.converted
  OBVIOUS
<1> HIDE DEF o
<1>3. \A v \in Writers : IF v = w THEN pc'[v] = "preparing" /\ op'[v] = o
                                  ELSE pc'[v] = pc[v] /\ op'[v] = op[v]
  BY <1>1 DEF IInv, TypeInv, TypeOK
<1>4. UnusedKeys' /\ GraceKept' /\ PurgedOwnsNothing' /\ InflightInv'
  BY <1>1 DEF IInv, UnusedKeys, GraceKept, PurgedOwnsNothing, InflightInv, Young, Admissible, Live,
              Present, rowVars, diskVars
<1>5. WriterShape'
  BY <1>1, <1>2, <1>3 DEF IInv, WriterShape, Busy, diskVars
<1>6. WriterGame'
  BY <1>1, <1>2, <1>3 DEF IInv, WriterGame, Busy, rowVars
<1>7. WriterBytes'
  BY <1>1, <1>2, <1>3 DEF IInv, WriterBytes, Preparing, Young, OwnsFile, rowVars, diskVars
<1>8. HeldApart'
  <2>1. \A tx \in inflight : tx.file # NoFile
    BY NamesAssumption DEF IInv, InflightInv
  <2> QED
    BY <1>1, <1>2, <1>3, <2>1 DEF IInv, HeldApart
<1>9. \A f \in Files : Claimed(f)' => Claimed(f)
  BY <1>1, <1>2, <1>3, NamesAssumption DEF Claimed, Preparing
<1>10. ListsInv'
  <2>1. ListsInv /\ games \subseteq Games /\ files \subseteq Files /\ attachments \subseteq Files
    BY DEF IInv, ListsInv, TypeInv, TypeOK
  <2>2. UNCHANGED <<game, file, owner, payload, origin, cleanerVars>>
    BY <1>1 DEF rowVars, diskVars
  <2> QED
    BY <1>9, <2>1, <2>2, ListsFrame DEF OwnsFile
<1> QED
  BY <1>4, <1>5, <1>6, <1>7, <1>8, <1>10 DEF BytesInv

LEMMA PublishSafe ==
  ASSUME IInv, NEW w \in Writers, NEW f \in Files, Publish(w, f)
  PROVE  BytesInv' /\ ListsInv'
<1>0. PICK age \in 0..op[w].age : payload' = [payload EXCEPT ![f] = age]
  BY DEF Publish
<1>1. /\ owner[f] = NoGame /\ pc[w] = "preparing" /\ op[w].file = NoFile
      /\ owner' = [owner EXCEPT ![f] = op[w].game] /\ payload' = [payload EXCEPT ![f] = age]
      /\ UNCHANGED <<game, file, origin, pc, inflight, cleanerVars>>
      /\ age \in 0..op[w].age /\ age # Absent
  BY <1>0 DEF Publish, rowVars, Absent, IInv, TypeInv, TypeOK, Operations
<1>2. \A v \in Writers :
        IF v = w
        THEN /\ op'[v].file = f /\ op'[v].game = op[v].game
             /\ op'[v].age = op[v].age /\ op'[v].converted = op[v].converted
        ELSE op'[v] = op[v]
  BY DEF Publish, IInv, TypeInv, TypeOK, Operations
<1>3. \A k \in Files : IF k = f THEN owner'[k] = op[w].game /\ payload'[k] = age
                                ELSE owner'[k] = owner[k] /\ payload'[k] = payload[k]
  BY <1>1 DEF IInv, TypeInv, TypeOK
<1>4. op[w].game \in Games /\ NoGame \notin Games /\ NoFile \notin Files
  BY <1>1, NamesAssumption DEF IInv, WriterShape, Busy
<1>5. origin[f] = Absent /\ file[f].status = "none" /\ payload[f] = Absent
  BY <1>1 DEF IInv, UnusedKeys
<1>6. \A v \in Writers : op[v].file # f
  <2>1. \A v \in Writers : op[v].file # NoFile => op[v].game \in Games
    BY DEF IInv, WriterShape, NoOperation
  <2> QED
    BY <1>1, <1>4, <2>1 DEF IInv, WriterShape
<1>7. \A tx \in inflight : tx.file # f /\ tx.file \in Files
  BY <1>1, <1>4 DEF IInv, InflightInv
<1>8. \A v \in Writers : op[v].age \in 0..Deadline /\ op[v].file \in Files \cup {NoFile}
  BY DEF IInv, TypeInv, TypeOK, Operations
<1>9. UnusedKeys'
  BY <1>1, <1>3, <1>4 DEF IInv, UnusedKeys
<1>10. WriterShape'
  BY <1>1, <1>2, <1>3, <1>4, <1>6, <1>8 DEF IInv, WriterShape, Busy
<1>11. WriterGame'
  BY <1>1, <1>2 DEF IInv, WriterGame, Busy
<1>12. WriterBytes'
  <2>1. Preparing(w)' => Young(op[w])'
    BY <1>1, <1>2, <1>3, <1>5, <1>8 DEF IInv, WriterShape, Young
  <2>2. \A v \in Writers : v # w /\ Preparing(v) => Young(op[v])'
    BY <1>1, <1>2, <1>3, <1>6, <1>8 DEF IInv, WriterBytes, Young, Preparing
  <2> QED
    BY <1>1, <1>2, <1>5, <2>1, <2>2 DEF IInv, WriterBytes, Preparing, OwnsFile
<1>13. HeldApart'
  BY <1>1, <1>2, <1>4, <1>6, <1>7 DEF IInv, HeldApart
<1>14. InflightInv'
  BY <1>1, <1>3, <1>7 DEF IInv, InflightInv, Young, Admissible, Live
<1>15. GraceKept'
  BY <1>1, <1>3, <1>5 DEF IInv, GraceKept, Present
<1>16. PurgedOwnsNothing'
  BY <1>1, <1>3, <1>5 DEF IInv, PurgedOwnsNothing
<1>17. ListsInv'
  <2>1. ListsInv /\ games \subseteq Games /\ files \subseteq Files /\ attachments \subseteq Files
    BY DEF IInv, ListsInv, TypeInv, TypeOK
  <2>2. ~Overdue(game[op[w].game])
    BY <1>1, <1>4, <1>8, GraceAssumption DEF IInv, WriterGame, Busy, Overdue
  <2>3. \A k \in Files : owner[k] # NoGame /\ ~Claimed(k) => owner'[k] # NoGame /\ ~Claimed(k)'
    BY <1>1, <1>2, <1>3, <1>4 DEF Claimed, Preparing
  <2> QED
    BY <1>1, <1>3, <1>5, <2>1, <2>2, <2>3, ListsFrame DEF OwnsFile, Overdue
<1> QED
  BY <1>9, <1>10, <1>11, <1>12, <1>13, <1>14, <1>15, <1>16, <1>17 DEF BytesInv

LEMMA FinalizeSafe ==
  ASSUME IInv, NEW w \in Writers, NEW converted \in BOOLEAN, Finalize(w, converted)
  PROVE  BytesInv' /\ ListsInv'
<1> DEFINE f == op[w].file
<1>1. /\ pc[w] = "preparing" /\ pc' = [pc EXCEPT ![w] = "prepared"]
      /\ UNCHANGED <<game, file, owner, payload, inflight, cleanerVars>>
  BY DEF Finalize, rowVars
<1>2. f \in Files /\ f # NoFile /\ owner[f] = op[w].game /\ op[w].game \in Games
  BY <1>1, NamesAssumption
     DEF Finalize, IInv, TypeInv, TypeOK, Operations, WriterShape, Busy
<1>3. file[f].status = "none" /\ payload[f] \in 0..op[w].age /\ origin[f] = Absent
      /\ ~op[w].converted
  BY <1>1, <1>2 DEF IInv, WriterBytes, WriterShape, Preparing, Young
<1>4. \A k \in Files : origin'[k] = IF k = f /\ converted THEN 0 ELSE origin[k]
  BY <1>2 DEF Finalize, IInv, TypeInv, TypeOK
<1>5. \A v \in Writers :
        IF v = w
        THEN /\ op'[v].file = f /\ op'[v].game = op[v].game
             /\ op'[v].age = op[v].age /\ op'[v].converted = converted
             /\ pc'[v] = "prepared"
        ELSE op'[v] = op[v] /\ pc'[v] = pc[v]
  BY DEF Finalize, IInv, TypeInv, TypeOK, Operations
<1>6. \A v \in Writers : /\ op[v].age \in 0..Deadline /\ op[v].file \in Files \cup {NoFile}
                         /\ v # w => op[v].file # f
  BY <1>2 DEF IInv, TypeInv, TypeOK, Operations, HeldApart
<1>7. \A tx \in inflight : tx.file # f /\ tx.file \in Files
  BY <1>1 DEF IInv, HeldApart, InflightInv
<1>8. UnusedKeys' /\ PurgedOwnsNothing' /\ GraceKept'
  BY <1>1, <1>2, <1>3, <1>4, NamesAssumption
     DEF IInv, UnusedKeys, PurgedOwnsNothing, GraceKept, Present
<1>9. WriterShape'
  BY <1>1, <1>2, <1>5 DEF IInv, WriterShape, Busy
<1>10. WriterGame'
  BY <1>1, <1>5 DEF IInv, WriterGame, Busy
<1>11. WriterBytes'
  <2>1. Young(op[w])'
    BY <1>1, <1>2, <1>3, <1>4, <1>5, <1>6 DEF Young
  <2>2. \A v \in Writers : v # w /\ Preparing(v) => Young(op[v])'
    BY <1>1, <1>4, <1>5, <1>6 DEF IInv, WriterBytes, Young, Preparing
  <2> QED
    BY <1>1, <1>3, <1>5, <2>1, <2>2 DEF IInv, WriterBytes, Preparing, OwnsFile
<1>12. HeldApart'
  BY <1>1, <1>5, <1>6, <1>7 DEF IInv, HeldApart
<1>13. InflightInv'
  BY <1>1, <1>4, <1>7 DEF IInv, InflightInv, Young, Admissible, Live
<1>14. ListsInv'
  <2>1. ListsInv /\ games \subseteq Games /\ files \subseteq Files /\ attachments \subseteq Files
    BY DEF IInv, ListsInv, TypeInv, TypeOK
  <2>2. ~Overdue(game[op[w].game])
    BY <1>1, <1>2, <1>6, GraceAssumption DEF IInv, WriterGame, Busy, Overdue
  <2>3. \A k \in Files : ~Claimed(k) => ~Claimed(k)'
    BY <1>1, <1>2, <1>5 DEF Claimed, Preparing
  <2> QED
    BY <1>1, <1>2, <1>3, <1>4, <2>1, <2>2, <2>3, ListsFrame DEF OwnsFile, Overdue
<1> QED
  BY <1>8, <1>9, <1>10, <1>11, <1>12, <1>13, <1>14 DEF BytesInv

\* An operation that ends, or goes on to discard what no row refers to.
LEMMA LeaveSafe ==
  ASSUME IInv, NEW w \in Writers, Busy(w),
         UNCHANGED <<rowVars, diskVars, inflight, cleanerVars>>,
         Finish(w) \/ /\ Proceed(w, "discard") /\ op[w] \notin inflight
                      /\ op[w].file # NoFile /\ ~OwnsFile(op[w].file)
  PROVE  BytesInv' /\ ListsInv'
<1>1. UNCHANGED <<game, file, owner, payload, origin>>
  BY DEF rowVars, diskVars
<1>2. \A v \in Writers :
        IF v = w
        THEN \/ pc'[v] = "idle" /\ op'[v] = NoOperation
             \/ /\ pc'[v] = "discard" /\ op'[v] = op[v] /\ op[w] \notin inflight
                /\ op[w].file # NoFile /\ ~OwnsFile(op[w].file)
        ELSE op'[v] = op[v] /\ pc'[v] = pc[v]
  BY DEF Finish, Proceed, IInv, TypeInv, TypeOK
<1>3. NoOperation.file = NoFile /\ ~NoOperation.converted
  BY DEF NoOperation
<1>4. UnusedKeys' /\ PurgedOwnsNothing' /\ GraceKept' /\ InflightInv'
  BY <1>1 DEF IInv, UnusedKeys, PurgedOwnsNothing, GraceKept, Present, InflightInv,
              Young, Admissible, Live
<1>5. WriterShape' /\ WriterGame'
  BY <1>1, <1>2, <1>3 DEF IInv, WriterShape, WriterGame, Busy
<1>6. WriterBytes'
  BY <1>1, <1>2, <1>3 DEF IInv, WriterBytes, Preparing, Young, OwnsFile
<1>7. HeldApart'
  <2>1. \A tx \in inflight : /\ tx.file # NoFile
                             /\ op[w] \notin inflight => tx.file # op[w].file
    BY NamesAssumption DEF IInv, HeldApart, InflightInv
  <2>2. \A u, v \in Writers : u # v /\ op'[u].file # NoFile => op'[u].file # op'[v].file
    BY <1>2, <1>3 DEF IInv, HeldApart
  <2>3. \A v \in Writers : \A tx \in inflight :
          tx.file = op'[v].file => pc'[v] = "unknown" /\ op'[v] = tx
    <3>1. \A tx \in inflight : tx.file # op'[w].file
      BY <1>2, <1>3, <2>1
    <3>2. \A v \in Writers \ {w} : op'[v] = op[v] /\ pc'[v] = pc[v]
      BY <1>2
    <3> QED
      BY <3>1, <3>2 DEF IInv, HeldApart
  <2> QED
    BY <1>1, <2>2, <2>3 DEF IInv, HeldApart
<1>8. ListsInv'
  <2>1. ListsInv /\ games \subseteq Games /\ files \subseteq Files /\ attachments \subseteq Files
    BY DEF IInv, ListsInv, TypeInv, TypeOK
  <2>2. \A k \in Files : ~Claimed(k) => ~Claimed(k)'
    BY <1>2, <1>3 DEF Claimed, Preparing
  <2> QED
    BY <1>1, <2>1, <2>2, ListsFrame DEF OwnsFile
<1> QED
  BY <1>4, <1>5, <1>6, <1>7, <1>8 DEF BytesInv

\* Removing what the operation published and nobody refers to.
LEMMA RemoveSafe ==
  ASSUME IInv, NEW w \in Writers, pc[w] \in {"discard", "detach"},
         UNCHANGED <<rowVars, owner, inflight, cleanerVars>>,
         \A f \in Files \ {op[w].file} : payload'[f] = payload[f] /\ origin'[f] = origin[f],
         payload'[op[w].file] \in {payload[op[w].file], Absent},
         origin'[op[w].file] \in {origin[op[w].file], Absent},
         Finish(w) \/ Proceed(w, "detach")
  PROVE  BytesInv' /\ ListsInv'
<1> DEFINE f == op[w].file
<1>1. UNCHANGED <<game, file, owner>>
  BY DEF rowVars
<1>2. f \in Files /\ f # NoFile /\ ~OwnsFile(f) /\ owner[f] \in Games
  BY NamesAssumption
     DEF IInv, TypeInv, TypeOK, Operations, WriterShape, WriterBytes, Busy
<1>3. \A v \in Writers :
        IF v = w
        THEN \/ pc'[v] = "idle" /\ op'[v] = NoOperation
             \/ pc'[v] = "detach" /\ op'[v] = op[v]
        ELSE op'[v] = op[v] /\ pc'[v] = pc[v]
  BY DEF Finish, Proceed, IInv, TypeInv, TypeOK
<1>4. NoOperation.file = NoFile /\ ~NoOperation.converted
  BY DEF NoOperation
<1>5. \A v \in Writers : op[v].file \in Files \cup {NoFile} /\ (v # w => op[v].file # f)
  BY <1>2 DEF IInv, TypeInv, TypeOK, Operations, HeldApart
<1>6. \A tx \in inflight : tx.file # f /\ tx.file \in Files
  BY DEF IInv, HeldApart, InflightInv
<1>7. UnusedKeys' /\ PurgedOwnsNothing' /\ GraceKept'
  BY <1>1, <1>2 DEF IInv, UnusedKeys, PurgedOwnsNothing, GraceKept, Present, OwnsFile
<1>8. InflightInv'
  BY <1>1, <1>6 DEF IInv, InflightInv, Young, Admissible, Live
<1>9. WriterShape' /\ WriterGame'
  BY <1>1, <1>2, <1>3, <1>4 DEF IInv, WriterShape, WriterGame, Busy
<1>10. WriterBytes'
  <2>1. \A v \in Writers : v # w /\ Preparing(v) => Young(op[v])'
    BY <1>3, <1>5 DEF IInv, WriterBytes, Young, Preparing
  <2> QED
    BY <1>1, <1>2, <1>3, <1>4, <2>1 DEF IInv, WriterBytes, Preparing, OwnsFile
<1>11. HeldApart'
  BY <1>1, <1>3, <1>4, <1>6, NamesAssumption DEF IInv, HeldApart, InflightInv
<1>12. ListsInv'
  <2>1. ListsInv /\ games \subseteq Games /\ files \subseteq Files /\ attachments \subseteq Files
    BY DEF IInv, ListsInv, TypeInv, TypeOK
  <2>2. \A k \in Files : ~Claimed(k) => ~Claimed(k)'
    BY <1>1, <1>3, <1>4 DEF Claimed, Preparing
  <2> QED
    BY <1>1, <1>2, <2>1, <2>2, ListsFrame DEF OwnsFile, Overdue
<1> QED
  BY <1>7, <1>8, <1>9, <1>10, <1>11, <1>12 DEF BytesInv

\* What a transaction does to the rows, whoever learns of it.
LEMMA ApplyRows ==
  ASSUME IInv, NEW o \in Operations, o.game \in Games, o.file \in Files,
         owner[o.file] = o.game, file[o.file].status = "none", Young(o), Admissible(o),
         NEW retired, Retires(o, retired), Apply(o, retired), UNCHANGED diskVars
  PROVE  /\ UNCHANGED <<owner, payload, origin>>
         /\ \A g \in Games \ {o.game} : game'[g] = game[g]
         /\ Live(o.game)'
         /\ game[o.game].status \notin {"deleted", "purged"}
         /\ OwnsFile(o.file)'
         /\ \A f \in Files \ {o.file} : \/ file'[f] = file[f]
                                        \/ /\ file[f].status = "active" /\ file'[f].status = "deleted"
                                           /\ file'[f].converted = file[f].converted
         /\ UnusedKeys' /\ GraceKept' /\ PurgedOwnsNothing'
<1>1. UNCHANGED <<owner, payload, origin>>
  BY DEF diskVars
<1>2. /\ \A g \in Games \ {o.game} : game'[g] = game[g]
      /\ o.kind = "import" => game[o.game].status = "none" /\ game'[o.game].status = "pending_review"
      /\ o.kind # "import" => Live(o.game) /\ game'[o.game].status = game[o.game].status
  BY DEF Apply, Admissible, IInv, TypeInv, TypeOK, GameRows
<1>3. /\ file'[o.file].status = "active" /\ file'[o.file].converted = o.converted
      /\ \A f \in Files \ {o.file} :
           \/ file'[f] = file[f]
           \/ /\ f \in Active(o.game)
              /\ file'[f].status = "deleted" /\ file'[f].converted = file[f].converted
  BY DEF Apply, Retires
<1>4. /\ game[o.game].status \notin {"deleted", "purged"} /\ game'[o.game].status \notin {"deleted", "purged"}
      /\ Live(o.game)'
  BY <1>2 DEF Live
<1>5. \A f \in Active(o.game) : f \in Files /\ file[f].status = "active" /\ owner[f] = o.game
  BY DEF Active, Rows
<1>6. UnusedKeys'
  BY <1>1, <1>3, <1>5, NamesAssumption DEF IInv, UnusedKeys
<1>7. PurgedOwnsNothing'
  BY <1>1, <1>3, <1>5 DEF IInv, PurgedOwnsNothing
<1>8. GraceKept'
  <2>1. ASSUME NEW f \in Files \ {o.file}, Present(f) PROVE Present(f)'
    BY <1>1, <1>3, <2>1 DEF Present
  <2>2. Present(o.file)'
    BY <1>1, <1>3, GraceAssumption DEF Present, Young, Operations, Absent
  <2>3. ASSUME NEW f \in Files \ {o.file}, f \in Active(o.game) PROVE Present(f)
    BY <1>4, <1>5, <2>3 DEF IInv, GraceKept
  <2>4. \A f \in Files : owner[f] \in Games \/ file[f].status = "none"
    BY DEF IInv, UnusedKeys, TypeInv, TypeOK
  <2> QED
    BY <1>1, <1>2, <1>3, <1>4, <2>1, <2>2, <2>3, <2>4 DEF IInv, GraceKept
<1> QED
  BY <1>1, <1>2, <1>3, <1>4, <1>5, <1>6, <1>7, <1>8 DEF OwnsFile

LEMMA CommitSafe ==
  ASSUME IInv, NEW w \in Writers, Commit(w)
  PROVE  BytesInv' /\ ListsInv'
<1>0. PICK o \in Operations, f \in Files \cup {NoFile} : o = op[w] /\ f = o.file
  BY DEF IInv, TypeInv, TypeOK, Operations
<1>1. /\ pc[w] = "prepared" /\ ~Locked(o.game) /\ Admissible(o)
      /\ UNCHANGED <<diskVars, inflight, cleanerVars>>
  BY <1>0 DEF Commit
<1>2. o.game \in Games /\ f \in Files /\ owner[f] = o.game
      /\ file[f].status = "none" /\ Young(o) /\ f # NoFile
  BY <1>0, <1>1, NamesAssumption
     DEF IInv, TypeInv, TypeOK, Operations, WriterShape, WriterBytes, Busy, Preparing
<1>3. PICK retired \in SUBSET Files : Retires(o, retired) /\ Apply(o, retired)
  BY <1>0 DEF Commit
<1>4. /\ UNCHANGED <<owner, payload, origin>>
      /\ \A g \in Games \ {o.game} : game'[g] = game[g]
      /\ Live(o.game)' /\ game[o.game].status \notin {"deleted", "purged"}
      /\ OwnsFile(f)'
      /\ \A k \in Files \ {f} : \/ file'[k] = file[k]
                                \/ /\ file[k].status = "active" /\ file'[k].status = "deleted"
                                   /\ file'[k].converted = file[k].converted
      /\ UnusedKeys' /\ GraceKept' /\ PurgedOwnsNothing'
  BY <1>1, <1>0, <1>2, <1>3, ApplyRows
<1>5. \A v \in Writers : IF v = w THEN pc'[v] = "idle" /\ op'[v] = NoOperation
                                  ELSE pc'[v] = pc[v] /\ op'[v] = op[v]
  BY DEF Commit, Finish, IInv, TypeInv, TypeOK
<1>6. NoOperation.file = NoFile /\ ~NoOperation.converted
  BY DEF NoOperation
<1>7. \A v \in Writers : op[v].file \in Files \cup {NoFile} /\ (v # w => op[v].file # f)
  BY <1>0, <1>2 DEF IInv, TypeInv, TypeOK, Operations, HeldApart
<1>8. \A tx \in inflight : tx.file # f /\ tx.game # o.game /\ tx.game \in Games /\ tx.file \in Files
  BY <1>0, <1>1 DEF IInv, HeldApart, InflightInv, Locked
<1>9. WriterShape'
  BY <1>4, <1>5, <1>6 DEF IInv, WriterShape, Busy
<1>10. WriterGame'
  BY <1>4, <1>5 DEF IInv, WriterGame, WriterShape, Busy, Live
<1>11. WriterBytes'
  <2>1. \A k \in Files \ {f} : /\ file[k].status = "none" => file'[k].status = "none"
                               /\ ~OwnsFile(k) => ~OwnsFile(k)'
    BY <1>4 DEF OwnsFile
  <2>2. \A v \in Writers \ {w} :
          /\ pc'[v] = pc[v] /\ op'[v] = op[v]
          /\ Young(op[v]) => Young(op[v])'
          /\ op[v].file # NoFile => op[v].file \in Files \ {f}
          /\ pc[v] \in {"discard", "detach"} => op[v].file # NoFile
    BY <1>4, <1>5, <1>7 DEF IInv, WriterShape, Young
  <2>3. ASSUME NEW v \in Writers \ {w}
        PROVE  /\ Preparing(v)' => file'[op'[v].file].status = "none" /\ Young(op[v])'
               /\ pc'[v] \in {"discard", "detach"} => ~OwnsFile(op[v].file)'
    <3>1. CASE Preparing(v)
      BY <2>1, <2>2, <3>1 DEF IInv, WriterBytes, Preparing
    <3>2. CASE pc[v] \in {"discard", "detach"}
      BY <2>1, <2>2, <3>2 DEF IInv, WriterBytes, Preparing, OwnsFile
    <3> QED
      BY <2>2, <3>1, <3>2 DEF Preparing
  <2> QED
    BY <1>5, <1>6, <2>3 DEF WriterBytes, Preparing
<1>12. HeldApart'
  BY <1>1, <1>5, <1>6, <1>8, NamesAssumption DEF IInv, HeldApart
<1>13. InflightInv'
  BY <1>1, <1>4, <1>8 DEF IInv, InflightInv, Young, Admissible, Live
<1>14. ListsInv'
  <2>1. ListsInv /\ games \subseteq Games /\ files \subseteq Files /\ attachments \subseteq Files
    BY DEF IInv, ListsInv, TypeInv, TypeOK
  <2>2. \A k \in Files : ~Claimed(k) => k # f /\ ~Claimed(k)'
    BY <1>0, <1>1, <1>2, <1>5, <1>6 DEF Claimed, Preparing
  <2> QED
    BY <1>1, <1>2, <1>4, <2>1, <2>2, ListsFrame DEF OwnsFile, Overdue
<1> QED
  BY <1>4, <1>9, <1>10, <1>11, <1>12, <1>13, <1>14 DEF BytesInv

LEMMA LoseReplySafe ==
  ASSUME IInv, NEW w \in Writers, LoseReply(w)
  PROVE  BytesInv' /\ ListsInv'
<1> DEFINE o == op[w]
           f == op[w].file
<1>1. /\ pc[w] = "prepared" /\ ~Locked(o.game) /\ Admissible(o)
      /\ UNCHANGED <<game, file, owner, payload, origin, op, cleanerVars>>
      /\ inflight' = inflight \cup {o}
  BY DEF LoseReply, Proceed, rowVars, diskVars
<1>2. o.game \in Games /\ f \in Files /\ owner[f] = o.game
      /\ file[f].status = "none" /\ Young(o) /\ f # NoFile
  BY <1>1, NamesAssumption
     DEF IInv, TypeInv, TypeOK, Operations, WriterShape, WriterBytes, Busy, Preparing
<1>3. \A v \in Writers : pc'[v] = IF v = w THEN "unknown" ELSE pc[v]
  BY DEF LoseReply, Proceed, IInv, TypeInv, TypeOK
<1>4. \A tx \in inflight : tx.file # f /\ tx.game # o.game
  BY <1>1 DEF IInv, HeldApart, Locked
<1>5. UnusedKeys' /\ PurgedOwnsNothing' /\ GraceKept' /\ WriterShape' /\ WriterGame' /\ WriterBytes'
  BY <1>1, <1>2, <1>3
     DEF IInv, UnusedKeys, PurgedOwnsNothing, GraceKept, Present, WriterShape, WriterGame, WriterBytes,
         Busy, Preparing, Young, OwnsFile
<1>6. HeldApart'
  <2>1. \A v \in Writers : v # w => op[v].file # f
    BY <1>2 DEF IInv, HeldApart
  <2> QED
    BY <1>1, <1>3, <1>4, <2>1 DEF IInv, HeldApart
<1>7. InflightInv'
  BY <1>1, <1>2 DEF IInv, InflightInv, Young, Admissible, Live
<1>8. ListsInv'
  <2>1. ListsInv /\ games \subseteq Games /\ files \subseteq Files /\ attachments \subseteq Files
    BY DEF IInv, ListsInv, TypeInv, TypeOK
  <2>2. \A k \in Files : ~Claimed(k) => ~Claimed(k)'
    BY <1>1, <1>2, <1>3 DEF Claimed, Preparing
  <2> QED
    BY <1>1, <2>1, <2>2, ListsFrame DEF OwnsFile
<1> QED
  BY <1>5, <1>6, <1>7, <1>8 DEF BytesInv

LEMMA WriterSafe ==
  ASSUME IInv, LateCommit = FALSE, NEW w \in Writers, Begin(w) \/ WriterStep(w)
  PROVE  BytesInv' /\ ListsInv'
<1>1. ASSUME NEW g \in Games, BeginImport(w, g) PROVE BytesInv' /\ ListsInv'
  BY <1>1, StartSafe DEF BeginImport
<1>2. ASSUME NEW g \in Games, NEW kind \in {"replace", "parent"}, BeginChange(w, g, kind)
      PROVE BytesInv' /\ ListsInv'
  BY <1>2, StartSafe DEF BeginChange, Live
<1>3. \A tx \in inflight : tx.file = op[w].file => pc[w] = "unknown"
  BY DEF IInv, HeldApart
<1>4. CASE Refuse(w)
  <2>1. op[w].file # NoFile => ~OwnsFile(op[w].file)
    BY <1>4 DEF Refuse, IInv, WriterBytes, Preparing, OwnsFile
  <2> QED
    BY <1>3, <1>4, <2>1, LeaveSafe DEF Refuse, Busy
<1>5. CASE Confirm(w)
  <2>1. op[w].file # NoFile
    BY <1>5 DEF Confirm, IInv, WriterShape
  <2>2. ~ParentCommitted(op[w].file) => ~OwnsFile(op[w].file)
    BY DEF ParentCommitted, OwnsFile
  <2> QED
    BY <1>5, <2>1, <2>2, LeaveSafe DEF Confirm, Busy
<1>6. CASE ConfirmFails(w)
  BY <1>6, LeaveSafe DEF ConfirmFails, Busy
<1>7. CASE Discard(w)
  <2>1. \A f \in Files : payload'[f] = IF f = op[w].file THEN Absent ELSE payload[f]
    BY <1>7 DEF Discard, IInv, TypeInv, TypeOK
  <2>2. op[w].file \in Files
    BY <1>7 DEF Discard, IInv, WriterShape, TypeInv, TypeOK, Operations
  <2> QED
    BY <1>7, <2>1, <2>2, RemoveSafe DEF Discard
<1>8. CASE Detach(w)
  <2>1. \A f \in Files : origin'[f] = IF f = op[w].file THEN Absent ELSE origin[f]
    BY <1>8 DEF Detach, IInv, TypeInv, TypeOK
  <2>2. op[w].file \in Files
    BY <1>8 DEF Detach, IInv, WriterShape, TypeInv, TypeOK, Operations
  <2> QED
    BY <1>8, <2>1, <2>2, RemoveSafe DEF Detach
<1> QED
  BY <1>1, <1>2, <1>4, <1>5, <1>6, <1>7, <1>8, PublishSafe, FinalizeSafe, CommitSafe, LoseReplySafe
     DEF Begin, WriterStep

-----------------------------------------------------------------------------
(* The database, the administrators, a crash and the clock.                *)

LEMMA LandSafe ==
  ASSUME IInv, NEW tx \in inflight, Land(tx)
  PROVE  BytesInv' /\ ListsInv'
<1>1. /\ UNCHANGED <<diskVars, pc, op, cleanerVars>> /\ inflight' = inflight \ {tx}
  BY DEF Land, writerVars
<1>2. tx \in Operations /\ tx.game \in Games /\ tx.file \in Files /\ owner[tx.file] = tx.game
      /\ file[tx.file].status = "none" /\ Young(tx) /\ Admissible(tx)
  BY DEF IInv, TypeInv, TypeOK, InflightInv
<1>3. PICK retired \in SUBSET Files : Retires(tx, retired) /\ Apply(tx, retired)
  BY DEF Land
<1>4. /\ UNCHANGED <<owner, payload, origin>>
      /\ \A g \in Games \ {tx.game} : game'[g] = game[g]
      /\ Live(tx.game)' /\ game[tx.game].status \notin {"deleted", "purged"}
      /\ OwnsFile(tx.file)'
      /\ \A k \in Files \ {tx.file} : \/ file'[k] = file[k]
                                      \/ /\ file[k].status = "active" /\ file'[k].status = "deleted"
                                         /\ file'[k].converted = file[k].converted
      /\ UnusedKeys' /\ GraceKept' /\ PurgedOwnsNothing'
  BY <1>1, <1>2, <1>3, ApplyRows
<1>5. \A v \in Writers : op[v].file = tx.file => pc[v] = "unknown"
  BY DEF IInv, HeldApart
<1>6. \A t \in inflight' : t \in inflight /\ t.file # tx.file /\ t.game # tx.game
  BY <1>1 DEF IInv, HeldApart
<1>7. WriterShape'
  BY <1>1, <1>4 DEF IInv, WriterShape, Busy
<1>8. WriterGame'
  BY <1>1, <1>4 DEF IInv, WriterGame, WriterShape, Busy, Live
<1>9. WriterBytes'
  <2>1. \A k \in Files \ {tx.file} : /\ file[k].status = "none" => file'[k].status = "none"
                                     /\ ~OwnsFile(k) => ~OwnsFile(k)'
    BY <1>4 DEF OwnsFile
  <2>2. \A v \in Writers : /\ Young(op[v]) => Young(op[v])'
                           /\ pc[v] # "unknown" => op[v].file # tx.file
                           /\ op[v].file # NoFile => op[v].file \in Files
                           /\ pc[v] \in {"discard", "detach"} => op[v].file # NoFile
    BY <1>1, <1>4, <1>5 DEF IInv, WriterShape, Young, TypeInv, TypeOK, Operations
  <2>3. ASSUME NEW v \in Writers
        PROVE  /\ Preparing(v)' => file'[op'[v].file].status = "none" /\ Young(op[v])'
               /\ pc'[v] \in {"discard", "detach"} => ~OwnsFile(op[v].file)'
    <3>1. CASE Preparing(v)
      BY <1>1, <2>1, <2>2, <3>1 DEF IInv, WriterBytes, Preparing
    <3>2. CASE pc[v] \in {"discard", "detach"}
      BY <1>1, <2>1, <2>2, <3>2 DEF IInv, WriterBytes, Preparing, OwnsFile
    <3> QED
      BY <1>1, <3>1, <3>2 DEF Preparing
  <2> QED
    BY <2>3 DEF WriterBytes
<1>10. HeldApart'
  BY <1>1 DEF IInv, HeldApart
<1>11. InflightInv'
  BY <1>1, <1>4, <1>6 DEF IInv, InflightInv, Young, Admissible, Live
<1>12. ListsInv'
  <2>1. ListsInv /\ games \subseteq Games /\ files \subseteq Files /\ attachments \subseteq Files
    BY DEF IInv, ListsInv, TypeInv, TypeOK
  <2>2. \A k \in Files : ~Claimed(k) => k # tx.file /\ ~Claimed(k)'
    BY <1>1 DEF Claimed, Preparing
  <2> QED
    BY <1>1, <1>2, <1>4, <2>1, <2>2, ListsFrame DEF OwnsFile, Overdue
<1> QED
  BY <1>4, <1>7, <1>8, <1>9, <1>10, <1>11, <1>12 DEF BytesInv

LEMMA AbortSafe ==
  ASSUME IInv, NEW tx \in inflight, Abort(tx)
  PROVE  BytesInv' /\ ListsInv'
<1>1. UNCHANGED <<game, file, owner, payload, origin, pc, op, cleanerVars>>
      /\ inflight' = inflight \ {tx}
  BY DEF Abort, rowVars, diskVars, writerVars
<1>2. BytesInv'
  BY <1>1 DEF IInv, BytesInv, UnusedKeys, WriterShape, WriterGame, WriterBytes, HeldApart, InflightInv,
              GraceKept, PurgedOwnsNothing, Busy, Preparing, OwnsFile, Young, Admissible, Live, Present
<1>3. ListsInv'
  <2>1. ListsInv /\ games \subseteq Games /\ files \subseteq Files /\ attachments \subseteq Files
    BY DEF IInv, ListsInv, TypeInv, TypeOK
  <2>2. \A k \in Files : ~Claimed(k) => ~Claimed(k)'
    BY <1>1 DEF Claimed, Preparing
  <2> QED
    BY <1>1, <2>1, <2>2, ListsFrame DEF OwnsFile
<1> QED
  BY <1>2, <1>3

LEMMA TransitionSafe ==
  ASSUME IInv, NEW g \in Games, NEW next \in GameStatus, TransitionGame(g, next)
  PROVE  BytesInv' /\ ListsInv'
<1>1. /\ UNCHANGED <<file, owner, payload, origin, pc, op, inflight, cleanerVars>>
      /\ ~Locked(g)
  BY DEF TransitionGame, diskVars, writerVars
<1>2. /\ \A h \in Games \ {g} : game'[h] = game[h]
      /\ Live(g) /\ game'[g].age = 0
      /\ game'[g].status \in {"pending_review", "published", "deleted"}
  BY DEF TransitionGame, Transitions, Live, IInv, TypeInv, TypeOK
<1>3. UnusedKeys' /\ PurgedOwnsNothing' /\ WriterShape' /\ WriterBytes' /\ HeldApart'
  BY <1>1 DEF IInv, UnusedKeys, PurgedOwnsNothing, WriterShape, WriterBytes, HeldApart,
              Busy, Preparing, OwnsFile, Young
<1>4. WriterGame'
  <2>1. \A w \in Writers : op[w].age \in 0..Deadline
    BY DEF IInv, TypeInv, TypeOK, Operations
  <2> QED
    BY <1>1, <1>2, <2>1 DEF IInv, WriterGame, WriterShape, Busy
<1>5. GraceKept'
  <2>1. \A f \in Files : owner[f] \in Games \/ file[f].status = "none"
    BY DEF IInv, UnusedKeys, TypeInv, TypeOK
  <2> QED
    BY <1>1, <1>2, <2>1 DEF IInv, GraceKept, Present, Live
<1>6. InflightInv'
  BY <1>1, <1>2 DEF IInv, InflightInv, Young, Admissible, Live, Locked
<1>7. ListsInv'
  <2>1. ListsInv /\ games \subseteq Games /\ files \subseteq Files /\ attachments \subseteq Files
    BY DEF IInv, ListsInv, TypeInv, TypeOK
  <2>2. \A k \in Files : ~Claimed(k) => ~Claimed(k)'
    BY <1>1 DEF Claimed, Preparing
  <2> QED
    BY <1>1, <1>2, <2>1, <2>2, ListsFrame DEF OwnsFile, Overdue, Live
<1> QED
  BY <1>3, <1>4, <1>5, <1>6, <1>7 DEF BytesInv

LEMMA CrashSafe ==
  ASSUME IInv, Crash
  PROVE  BytesInv' /\ ListsInv'
<1>1. /\ UNCHANGED <<game, file, owner, payload, origin, inflight>>
      /\ \A w \in Writers : pc'[w] = "idle" /\ op'[w] = NoOperation
      /\ stage' = "idle" /\ games' = {}
  BY DEF Crash, rowVars, diskVars
<1>2. BytesInv'
  <2>1. UnusedKeys' /\ InflightInv' /\ GraceKept' /\ PurgedOwnsNothing'
    BY <1>1 DEF IInv, UnusedKeys, InflightInv, GraceKept, PurgedOwnsNothing, Young, Admissible, Live,
                Present
  <2>2. WriterShape' /\ WriterGame' /\ WriterBytes'
    <3>1. NoOperation.file = NoFile
      BY DEF NoOperation
    <3>2. WriterShape'
      BY <1>1, <3>1 DEF WriterShape, Busy
    <3> QED
      BY <1>1, <3>1, <3>2 DEF WriterGame, WriterBytes, Busy, Preparing
  <2>3. NoOperation.file = NoFile /\ \A tx \in inflight : tx.file # NoFile
    BY NamesAssumption DEF NoOperation, IInv, InflightInv
  <2>4. HeldApart'
    BY <1>1, <2>3 DEF IInv, HeldApart
  <2> QED
    BY <2>1, <2>2, <2>4 DEF BytesInv
<1>3. ListsInv'
  BY <1>1 DEF Crash, ListsInv, ItemTaken, GamesListed, FilesListed, OrphanTaken
<1> QED
  BY <1>2, <1>3

LEMMA TickSafe ==
  ASSUME IInv, Tick
  PROVE  BytesInv' /\ ListsInv'
<1>1. UNCHANGED <<owner, pc, cleanerVars>>
  BY DEF Tick
<1>2. /\ \A g \in Games : game[g] \in GameRows
      /\ \A f \in Files : file[f] \in FileRows
      /\ \A f \in Files : payload[f] \in Ages \cup {Absent} /\ origin[f] \in Ages \cup {Absent}
      /\ \A w \in Writers : op[w] \in Operations
      /\ inflight \subseteq Operations
  BY DEF IInv, TypeInv, TypeOK
<1>3. \A g \in Games :
        /\ game'[g].status = game[g].status /\ game'[g].version = game[g].version
        /\ game'[g].age \in {game[g].age, Older(game[g].age)}
  BY <1>2 DEF Tick, GameRows
<1>4. \A f \in Files :
        /\ file'[f].status = file[f].status /\ file'[f].converted = file[f].converted
        /\ file'[f].age \in {file[f].age, Older(file[f].age)}
  BY <1>2 DEF Tick, FileRows
<1>5. \A f \in Files :
        /\ payload'[f] = IF payload[f] = Absent THEN Absent ELSE Older(payload[f])
        /\ origin'[f] = IF origin[f] = Absent THEN Absent ELSE Older(origin[f])
  BY DEF Tick
<1>6. \A age \in Ages : /\ Older(age) \in Ages /\ Older(age) # Absent
                        /\ age <= Older(age) /\ Older(age) <= age + 1
                        /\ Older(age) < Grace => age < Grace
                        /\ age = Grace => Older(age) = Grace
  BY GraceAssumption DEF Ages, Older, Absent
<1>7. ASSUME NEW o \in Operations, o.age < Deadline
      PROVE  /\ Aged(o).kind = o.kind /\ Aged(o).game = o.game /\ Aged(o).version = o.version
             /\ Aged(o).file = o.file /\ Aged(o).converted = o.converted /\ Aged(o).age = o.age + 1
  BY <1>7, AgedOperation
<1>8. ASSUME NEW o \in Operations, o.age < Deadline, o.file \in Files, Young(o)
      PROVE  /\ payload'[o.file] \in 0..Aged(o).age
             /\ IF o.converted THEN origin'[o.file] \in 0..Aged(o).age ELSE origin'[o.file] = Absent
  <2>1. o.age \in Nat /\ Aged(o).age = o.age + 1
    BY <1>7, <1>8, GraceAssumption DEF Operations
  <2>2. ASSUME NEW a \in Ages \cup {Absent}, a \in 0..o.age
        PROVE  a # Absent /\ Older(a) \in 0..Aged(o).age
    BY <1>6, <2>1, <2>2, GraceAssumption DEF Ages, Absent
  <2> QED
    BY <1>2, <1>5, <1>8, <2>2 DEF Young
<1>9. \A w \in Writers : IF pc[w] = "idle" THEN op'[w] = op[w]
                                           ELSE op'[w] = Aged(op[w]) /\ op[w].age < Deadline
  BY DEF Tick
<1>10. inflight' = {Aged(tx) : tx \in inflight} /\ \A tx \in inflight : tx.age < Deadline
  BY DEF Tick
<1>11. UnusedKeys' /\ PurgedOwnsNothing'
  BY <1>1, <1>4, <1>5 DEF IInv, UnusedKeys, PurgedOwnsNothing
<1>12. GraceKept'
  <2>1. \A f \in Files : owner[f] \in Games \/ file[f].status = "none"
    BY DEF IInv, UnusedKeys, TypeInv, TypeOK
  <2>2. \A f \in Files : Present(f) => Present(f)'
    BY <1>2, <1>4, <1>5, <1>6 DEF Present
  <2>3. \A row \in GameRows \cup FileRows : row.age \in Ages
    BY DEF GameRows, FileRows
  <2>4. \A f \in Files : file'[f].status = "deleted" /\ file'[f].age < Grace => file[f].age < Grace
    BY <1>2, <1>4, <1>6, <2>3
  <2>5. \A g \in Games : game'[g].status = "deleted" /\ game'[g].age < Grace => game[g].age < Grace
    BY <1>2, <1>3, <1>6, <2>3
  <2> QED
    BY <1>1, <1>3, <1>4, <2>1, <2>2, <2>4, <2>5 DEF IInv, GraceKept
<1>13. WriterShape'
  BY <1>1, <1>7, <1>2, <1>9 DEF IInv, WriterShape, Busy
<1>14. WriterGame'
  <2>1. ASSUME NEW w \in Writers, Busy(w), game'[op[w].game].status = "deleted"
        PROVE  game'[op[w].game].age <= op'[w].age
    <3>1. op[w].game \in Games /\ op'[w].age = op[w].age + 1 /\ op[w].age \in Nat
      BY <1>2, <1>7, <1>9, <2>1, GraceAssumption DEF IInv, WriterShape, Busy, Operations
    <3>2. game[op[w].game].age <= op[w].age /\ game[op[w].game].age \in Ages
      BY <1>2, <1>3, <2>1, <3>1 DEF IInv, WriterGame, GameRows
    <3> QED
      BY <1>3, <1>6, <3>1, <3>2, GraceAssumption DEF Ages
  <2>2. \A w \in Writers : Busy(w) => op'[w].game = op[w].game /\ op[w].game \in Games
    BY <1>2, <1>7, <1>9 DEF IInv, WriterShape, Busy
  <2> QED
    BY <1>1, <1>3, <2>1, <2>2 DEF IInv, WriterGame, Busy
<1>15. WriterBytes'
  <2>1. ASSUME NEW w \in Writers, Preparing(w)
        PROVE  op'[w].file = op[w].file /\ file'[op[w].file].status = "none" /\ Young(op[w])'
    <3>1. /\ op'[w] = Aged(op[w]) /\ op[w].age < Deadline /\ op[w] \in Operations
          /\ op[w].file \in Files /\ Young(op[w]) /\ file[op[w].file].status = "none"
      BY <1>2, <1>9, <2>1 DEF IInv, WriterBytes, Preparing, Operations
    <3> QED
      BY <1>4, <1>7, <1>8, <3>1 DEF Young
  <2>2. \A w \in Writers : op'[w].file = op[w].file
    BY <1>2, <1>7, <1>9
  <2>3. \A w \in Writers : pc[w] \in {"discard", "detach"} => op[w].file \in Files
    BY <1>2 DEF IInv, WriterShape, Operations
  <2> QED
    BY <1>1, <1>4, <2>1, <2>2, <2>3 DEF IInv, WriterBytes, Preparing, OwnsFile
<1>16. HeldApart'
  <2>1. \A w \in Writers : op'[w].file = op[w].file
    BY <1>2, <1>7, <1>9
  <2>2. \A tx \in inflight : Aged(tx).file = tx.file /\ Aged(tx).game = tx.game
    BY <1>2, <1>7, <1>10
  <2>3. \A w \in Writers : pc[w] = "unknown" => op'[w] = Aged(op[w])
    BY <1>9
  <2> QED
    BY <1>1, <1>10, <2>1, <2>2, <2>3 DEF IInv, HeldApart
<1>17. InflightInv'
  <2>1. ASSUME NEW tx \in inflight
        PROVE  /\ Aged(tx).game \in Games /\ Aged(tx).file \in Files
               /\ owner[Aged(tx).file] = Aged(tx).game
               /\ file'[Aged(tx).file].status = "none"
               /\ payload'[Aged(tx).file] \in 0..Aged(tx).age
               /\ IF Aged(tx).converted THEN origin'[Aged(tx).file] \in 0..Aged(tx).age
                                        ELSE origin'[Aged(tx).file] = Absent
    BY <1>2, <1>4, <1>7, <1>8, <1>10, <2>1 DEF IInv, InflightInv
  <2>2. ASSUME NEW tx \in inflight
        PROVE  IF Aged(tx).kind = "import" THEN game'[Aged(tx).game].status = "none"
               ELSE /\ game'[Aged(tx).game].status \in {"pending_review", "published"}
                    /\ game'[Aged(tx).game].version = Aged(tx).version
    BY <1>2, <1>3, <1>7, <1>10, <2>2 DEF IInv, InflightInv, Admissible, Live
  <2> QED
    BY <1>1, <1>10, <2>1, <2>2 DEF InflightInv, Young, Admissible, Live
<1>18. ListsInv'
  <2>1. ListsInv /\ games \subseteq Games /\ files \subseteq Files /\ attachments \subseteq Files
    BY DEF IInv, ListsInv, TypeInv, TypeOK
  <2>2. \A w \in Writers : op'[w].file = op[w].file
    BY <1>2, <1>7, <1>9
  <2>3. \A tx \in inflight : Aged(tx).file = tx.file
    BY <1>2, <1>7, <1>10
  <2>4. \A f \in Files : ~Claimed(f) => ~Claimed(f)'
    BY <1>1, <1>10, <2>2, <2>3 DEF Claimed, Preparing
  <2>5. \A g \in Games : Overdue(game[g]) => Overdue(game'[g])
    BY <1>2, <1>3, <1>6 DEF Overdue, GameRows
  <2>6. \A f \in Files : Overdue(file[f]) => Overdue(file'[f])
    BY <1>2, <1>4, <1>6 DEF Overdue, FileRows
  <2>7. \A f \in Files : OwnsFile(f)' = OwnsFile(f)
    BY <1>4 DEF OwnsFile
  <2> QED
    BY <1>1, <1>5, <2>1, <2>4, <2>5, <2>6, <2>7, ListsFrame
<1> QED
  BY <1>11, <1>12, <1>13, <1>14, <1>15, <1>16, <1>17, <1>18 DEF BytesInv

-----------------------------------------------------------------------------
(* The cleaner.                                                            *)

\* Bytes as old as the grace belong to no operation still under way.
LEMMA AgedBytesUnclaimed ==
  ASSUME IInv, NEW f \in Files, payload[f] = Grace \/ origin[f] = Grace
  PROVE  owner[f] # NoGame /\ ~Claimed(f)
<1>1. ASSUME NEW o \in Operations, o.file = f, Young(o) PROVE FALSE
  BY <1>1, GraceAssumption DEF Young, Operations, Absent
<1>2. owner[f] # NoGame
  BY GraceAssumption DEF IInv, UnusedKeys, Absent
<1> QED
  BY <1>1, <1>2 DEF Claimed, Preparing, IInv, TypeInv, TypeOK, WriterBytes, InflightInv

LEMMA ListingSafe ==
  ASSUME IInv,
         \/ ListDeletedGames \/ ListRetiredFiles \/ ListOrphans \/ EndSweep \/ SkipItem
         \/ \E g \in Games : TakeGame(g)
         \/ \E f \in Files : CheckPayload(f) \/ CheckAttachment(f)
  PROVE  BytesInv' /\ ListsInv'
<1>1. UNCHANGED <<rowVars, diskVars, writerVars, inflight>>
  BY DEF ListDeletedGames, ListRetiredFiles, ListOrphans, EndSweep, SkipItem, TakeGame,
         CheckPayload, CheckAttachment, rowVars, diskVars
<1>2. BytesInv' /\ \A f : Claimed(f)' = Claimed(f) /\ OwnsFile(f)' = OwnsFile(f)
  BY <1>1, BytesFrame, Parts
<1>3. UNCHANGED <<game, file, owner, payload, origin>>
  BY <1>1 DEF rowVars, diskVars
<1>4. ItemTaken /\ GamesListed /\ FilesListed /\ OrphanTaken
  BY DEF IInv
<1> USE DEF ItemTaken, GamesListed, FilesListed, OrphanTaken, ListsInv
<1>5. CASE ListDeletedGames
  <2>1. ItemTaken' /\ GamesListed'
    BY <1>3, <1>4, <1>5 DEF ListDeletedGames
  <2>2. FilesListed'
    BY <1>3, <1>4, <1>5 DEF ListDeletedGames
  <2>3. OrphanTaken'
    BY <1>2, <1>3, <1>4, <1>5 DEF ListDeletedGames
  <2> QED
    BY <1>2, <2>1, <2>2, <2>3
<1>6. CASE ListRetiredFiles
  <2>1. ItemTaken' /\ GamesListed'
    BY <1>3, <1>4, <1>6 DEF ListRetiredFiles, Expired
  <2>2. FilesListed'
    BY <1>3, <1>4, <1>6 DEF ListRetiredFiles, Expired
  <2>3. OrphanTaken'
    BY <1>2, <1>3, <1>4, <1>6 DEF ListRetiredFiles, Expired
  <2> QED
    BY <1>2, <2>1, <2>2, <2>3
<1>7. CASE ListOrphans
  BY <1>2, <1>3, <1>4, <1>7 DEF ListOrphans
<1>8. CASE EndSweep
  <2>1. ItemTaken' /\ GamesListed'
    BY <1>3, <1>4, <1>8 DEF EndSweep
  <2>2. FilesListed'
    BY <1>3, <1>4, <1>8 DEF EndSweep
  <2>3. OrphanTaken'
    BY <1>2, <1>3, <1>4, <1>8 DEF EndSweep
  <2> QED
    BY <1>2, <2>1, <2>2, <2>3
<1>9. CASE SkipItem
  <2>1. /\ stage' = IF stage \in {"remove owner", "purge game"} THEN "games"
                    ELSE IF stage \in {"remove origin", "purge file"} THEN "retired" ELSE "orphans"
        /\ UNCHANGED <<games, files, attachments>> /\ item # NoItem
    BY <1>9 DEF SkipItem
  <2>2. stage \in {"remove owner", "purge game", "remove origin", "purge file",
                   "remove payload", "remove attachment"}
    BY <1>4, <2>1 DEF IInv, TypeInv, TypeOK, Stages
  <2>3. ItemTaken' /\ item' = NoItem
    BY <1>9 DEF SkipItem
  <2>4. GamesListed'
    BY <1>3, <1>4, <2>1, <2>2
  <2>5. FilesListed'
    BY <1>3, <1>4, <2>1, <2>2
  <2>6. OrphanTaken'
    BY <1>2, <1>3, <1>4, <2>1, <2>2
  <2> QED
    BY <1>2, <2>3, <2>4, <2>5, <2>6
<1>10. ASSUME NEW g \in Games, TakeGame(g) PROVE ListsInv'
  BY <1>3, <1>4, <1>10 DEF TakeGame
<1>11. ASSUME NEW f \in Files, CheckPayload(f) \/ CheckAttachment(f) PROVE ListsInv'
  BY <1>2, <1>3, <1>4, <1>11, AgedBytesUnclaimed DEF CheckPayload, CheckAttachment
<1> QED
  BY <1>2, <1>5, <1>6, <1>7, <1>8, <1>9, <1>10, <1>11

\* Bytes that nobody claims, and that nothing is owed for, may go.
Expendable(f) == ~Claimed(f) /\ (~OwnsFile(f) \/ Overdue(file[f]) \/ Overdue(game[owner[f]]))

LEMMA RemovalSafe ==
  ASSUME IInv, UNCHANGED <<rowVars, owner, writerVars, inflight>>,
         \A f \in Files :
           \/ payload'[f] = payload[f] /\ origin'[f] = origin[f]
           \/ /\ Expendable(f)
              /\ payload'[f] \in {payload[f], Absent} /\ origin'[f] \in {origin[f], Absent}
  PROVE  /\ BytesInv' /\ UNCHANGED <<game, file, owner>>
         /\ \A f : Claimed(f)' = Claimed(f) /\ OwnsFile(f)' = OwnsFile(f)
<1>1. UNCHANGED <<game, file, owner, pc, op, inflight>>
  BY DEF rowVars, writerVars
<1>2. \A f : Claimed(f)' = Claimed(f) /\ OwnsFile(f)' = OwnsFile(f)
  BY <1>1 DEF Claimed, Preparing, OwnsFile
<1>3. \A f \in Files : Claimed(f) => payload'[f] = payload[f] /\ origin'[f] = origin[f]
  BY DEF Expendable
<1>4. UnusedKeys' /\ PurgedOwnsNothing'
  BY <1>1 DEF IInv, UnusedKeys, PurgedOwnsNothing
<1>5. GraceKept'
  BY <1>1, GraceAssumption DEF IInv, GraceKept, Present, Expendable, OwnsFile, Overdue
<1>6. WriterShape' /\ WriterGame' /\ HeldApart'
  BY <1>1 DEF IInv, WriterShape, WriterGame, HeldApart, Busy
<1>7. \A w \in Writers : Preparing(w) => op[w].file \in Files /\ Claimed(op[w].file)
  BY DEF IInv, TypeInv, TypeOK, Operations, Claimed, Preparing
<1>8. WriterBytes'
  BY <1>1, <1>3, <1>7 DEF IInv, WriterBytes, Preparing, Young, OwnsFile
<1>9. \A tx \in inflight : tx.file \in Files /\ Claimed(tx.file)
  BY DEF IInv, InflightInv, Claimed
<1>10. InflightInv'
  BY <1>1, <1>3, <1>9 DEF IInv, InflightInv, Young, Admissible, Live
<1> QED
  BY <1>1, <1>2, <1>4, <1>5, <1>6, <1>8, <1>10 DEF BytesInv

\* An operation is younger than the grace, so none runs on an overdue game.
LEMMA OverdueUnclaimed ==
  ASSUME IInv, NEW f \in Files,
         OwnsFile(f) \/ (owner[f] \in Games /\ Overdue(game[owner[f]]))
  PROVE  ~Claimed(f)
<1>1. ASSUME NEW w \in Writers, Preparing(w), op[w].file = f PROVE FALSE
  <2>1. op[w].age \in 0..Deadline /\ owner[f] = op[w].game /\ Busy(w)
    BY <1>1 DEF IInv, TypeInv, TypeOK, Operations, WriterShape, Preparing, Busy
  <2> QED
    BY <1>1, <2>1, GraceAssumption DEF IInv, WriterGame, WriterBytes, OwnsFile, Overdue
<1>2. ASSUME NEW tx \in inflight, tx.file = f PROVE FALSE
  BY <1>2 DEF IInv, InflightInv, OwnsFile, Overdue, Admissible, Live
<1> QED
  BY <1>1, <1>2 DEF Claimed

LEMMA RemoveGameOwnerSafe ==
  ASSUME IInv, RemoveGameOwner
  PROVE  BytesInv' /\ ListsInv'
<1>1. /\ stage = "remove owner" /\ stage' = "purge game"
      /\ UNCHANGED <<rowVars, owner, writerVars, inflight, games, files, attachments, item>>
      /\ \A f \in Files : IF owner[f] = item THEN payload'[f] = Absent /\ origin'[f] = Absent
                          ELSE payload'[f] = payload[f] /\ origin'[f] = origin[f]
  BY DEF RemoveGameOwner
<1>2. item \in Games /\ Overdue(game[item])
  BY <1>1 DEF IInv, GamesListed, Overdue
<1>3. \A f \in Files : owner[f] = item => Expendable(f)
  BY <1>2, OverdueUnclaimed DEF Expendable
<1>4. BytesInv' /\ UNCHANGED <<game, file, owner>>
  BY <1>1, <1>3, RemovalSafe
<1>5. ListsInv'
  BY <1>1, <1>4 DEF IInv, ListsInv, ItemTaken, GamesListed, FilesListed, OrphanTaken
<1> QED
  BY <1>4, <1>5

LEMMA RemoveRetiredSafe ==
  ASSUME IInv, RemoveRetiredOrigin \/ \E f \in Files : RemoveRetiredPayload(f)
  PROVE  BytesInv' /\ ListsInv'
<1>1. ASSUME NEW f \in Files, RemoveRetiredPayload(f) PROVE BytesInv' /\ ListsInv'
  <2>1. /\ stage = "retired" /\ f \in files /\ stage' = "remove origin" /\ item' = f
        /\ files' = files \ {f}
        /\ UNCHANGED <<rowVars, owner, origin, writerVars, inflight, games, attachments>>
    BY <1>1 DEF RemoveRetiredPayload
  <2>2. Overdue(file[f])
    BY <2>1 DEF IInv, FilesListed, Overdue
  <2>3. \A k \in Files : payload'[k] = IF k = f THEN Absent ELSE payload[k]
    BY <1>1, <2>2 DEF RemoveRetiredPayload, Referenced, Overdue, IInv, TypeInv, TypeOK
  <2>4. Expendable(f)
    <3>1. OwnsFile(f)
      BY <2>2 DEF OwnsFile, Overdue
    <3> QED
      BY <2>2, <3>1, OverdueUnclaimed DEF Expendable
  <2>5. BytesInv' /\ UNCHANGED <<game, file, owner>>
    BY <2>1, <2>3, <2>4, RemovalSafe
  <2>6. ListsInv'
    BY <2>1, <2>2, <2>3, <2>5
       DEF IInv, ListsInv, ItemTaken, GamesListed, FilesListed, OrphanTaken, Overdue
  <2> QED
    BY <2>5, <2>6
<1>2. CASE RemoveRetiredOrigin
  <2>1. /\ stage = "remove origin" /\ stage' = "purge file"
        /\ UNCHANGED <<rowVars, owner, payload, writerVars, inflight, games, files, attachments, item>>
    BY <1>2 DEF RemoveRetiredOrigin
  <2>2. item \in Files /\ Overdue(file[item])
    BY <2>1 DEF IInv, FilesListed, Overdue
  <2>3. \A k \in Files : origin'[k] = IF k = item THEN Absent ELSE origin[k]
    BY <1>2 DEF RemoveRetiredOrigin, IInv, TypeInv, TypeOK
  <2>4. Expendable(item)
    <3>1. OwnsFile(item)
      BY <2>2 DEF OwnsFile, Overdue
    <3> QED
      BY <2>2, <3>1, OverdueUnclaimed DEF Expendable
  <2>5. BytesInv' /\ UNCHANGED <<game, file, owner>>
    BY <2>1, <2>2, <2>3, <2>4, RemovalSafe
  <2>6. ListsInv'
    BY <2>1, <2>2, <2>3, <2>5
       DEF IInv, ListsInv, ItemTaken, GamesListed, FilesListed, OrphanTaken, Overdue
  <2> QED
    BY <2>5, <2>6
<1> QED
  BY <1>1, <1>2

LEMMA RemoveOrphanSafe ==
  ASSUME IInv, RemoveOrphanPayload \/ RemoveOrphanAttachment
  PROVE  BytesInv' /\ ListsInv'
<1>1. /\ stage \in {"remove payload", "remove attachment"} /\ stage' = "orphans" /\ item' = NoItem
      /\ UNCHANGED <<rowVars, owner, writerVars, inflight, games, files, attachments>>
  BY DEF RemoveOrphanPayload, RemoveOrphanAttachment
<1>2. item \in Files /\ Expendable(item)
  BY <1>1 DEF IInv, OrphanTaken, Expendable
<1>3. \A k \in Files \ {item} : payload'[k] = payload[k] /\ origin'[k] = origin[k]
  BY DEF RemoveOrphanPayload, RemoveOrphanAttachment, IInv, TypeInv, TypeOK
<1>4. payload'[item] \in {payload[item], Absent} /\ origin'[item] \in {origin[item], Absent}
  BY <1>2 DEF RemoveOrphanPayload, RemoveOrphanAttachment, IInv, TypeInv, TypeOK
<1>5. /\ BytesInv' /\ UNCHANGED <<game, file, owner>>
      /\ \A f : Claimed(f)' = Claimed(f) /\ OwnsFile(f)' = OwnsFile(f)
  BY <1>1, <1>2, <1>3, <1>4, RemovalSafe
<1>6. ListsInv'
  BY <1>1, <1>5 DEF IInv, ListsInv, ItemTaken, GamesListed, FilesListed, OrphanTaken
<1> QED
  BY <1>5, <1>6

LEMMA PurgeGameSafe ==
  ASSUME IInv, PurgeGame
  PROVE  BytesInv' /\ ListsInv'
<1>1. /\ stage = "purge game" /\ stage' = "games" /\ item' = NoItem
      /\ UNCHANGED <<owner, payload, origin, pc, op, inflight, games, files, attachments>>
  BY DEF PurgeGame, diskVars, writerVars
<1>2. /\ item \in Games /\ item \notin games /\ Overdue(game[item])
      /\ \A f \in Files : owner[f] = item => payload[f] = Absent /\ origin[f] = Absent
  BY <1>1 DEF IInv, GamesListed, Overdue
<1>3. /\ \A g \in Games \ {item} : game'[g] = game[g]
      /\ game'[item].status = "purged"
  <2>1. DOMAIN game = Games
    BY DEF IInv, TypeInv, TypeOK
  <2>2. game' = [game EXCEPT ![item] =
          [status |-> "purged", version |-> game[item].version, age |-> 0]]
    BY <1>2 DEF PurgeGame, Overdue
  <2> QED
    BY <1>2, <2>1, <2>2
<1>4. \A f \in Files :
        \/ file'[f] = file[f] /\ (file[f].status # "none" => owner[f] # item)
        \/ owner[f] = item /\ file[f].status # "none" /\ file'[f].status = "erased"
  <2>1. file' = [f \in Files |-> IF f \in Rows(item)
          THEN [status |-> "erased", converted |-> file[f].converted, age |-> 0] ELSE file[f]]
    BY <1>2 DEF PurgeGame, Overdue
  <2> QED
    BY <2>1 DEF Rows
<1>5. \A w \in Writers : Busy(w) => op[w].game # item
  <2>1. \A w \in Writers : op[w].age \in 0..Deadline
    BY DEF IInv, TypeInv, TypeOK, Operations
  <2> QED
    BY <1>2, <2>1, GraceAssumption DEF IInv, WriterGame, Overdue
<1>6. \A tx \in inflight : tx.game # item
  BY <1>2 DEF IInv, InflightInv, Admissible, Live, Overdue
<1>7. UnusedKeys' /\ PurgedOwnsNothing'
  BY <1>1, <1>2, <1>4, NamesAssumption DEF IInv, UnusedKeys, PurgedOwnsNothing
<1>8. GraceKept'
  <2>1. \A f \in Files : owner[f] \in Games \/ file[f].status = "none"
    BY DEF IInv, UnusedKeys, TypeInv, TypeOK
  <2> QED
    BY <1>1, <1>3, <1>4, <2>1, ZenonT(90) DEF IInv, GraceKept, Present
<1>9. WriterShape' /\ WriterGame' /\ HeldApart'
  <2>1. WriterShape' /\ HeldApart'
    BY <1>1 DEF IInv, WriterShape, HeldApart, Busy
  <2> QED
    BY <1>1, <1>3, <1>5, <2>1 DEF IInv, WriterShape, WriterGame, Busy
<1>10. WriterBytes'
  <2>1. \A f \in Files : /\ file[f].status = "none" => file'[f].status = "none"
                         /\ ~OwnsFile(f) => ~OwnsFile(f)'
    BY <1>4 DEF OwnsFile
  <2>2. \A w \in Writers : /\ Preparing(w) => op[w].file \in Files
                           /\ pc[w] \in {"discard", "detach"} => op[w].file \in Files
    BY DEF IInv, TypeInv, TypeOK, Operations, WriterShape, Preparing
  <2> QED
    BY <1>1, <2>1, <2>2 DEF IInv, WriterBytes, Preparing, Young
<1>11. InflightInv'
  BY <1>1, <1>3, <1>4, <1>6, ZenonT(90) DEF IInv, InflightInv, Young, Admissible, Live
<1>12. ListsInv'
  <2>1. \A f \in Files : /\ ~Claimed(f) => ~Claimed(f)'
                         /\ owner'[f] = owner[f]
    BY <1>1 DEF Claimed, Preparing
  <2> QED
    BY <1>1, <1>2, <1>3, <2>1
       DEF IInv, TypeInv, TypeOK, ListsInv, ItemTaken, GamesListed, FilesListed, OrphanTaken
<1> QED
  BY <1>7, <1>8, <1>9, <1>10, <1>11, <1>12 DEF BytesInv

LEMMA PurgeFileSafe ==
  ASSUME IInv, PurgeFile
  PROVE  BytesInv' /\ ListsInv'
<1>1. /\ stage = "purge file" /\ stage' = "retired" /\ item' = NoItem
      /\ UNCHANGED <<game, owner, payload, origin, pc, op, inflight, games, files, attachments>>
  BY DEF PurgeFile, diskVars, writerVars
<1>2. /\ item \in Files /\ item \notin files /\ Overdue(file[item])
      /\ payload[item] = Absent /\ origin[item] = Absent
  BY <1>1 DEF IInv, FilesListed, Overdue
<1>3. /\ \A f \in Files \ {item} : file'[f] = file[f]
      /\ file'[item].status = "purged"
  BY <1>2 DEF PurgeFile, Overdue, IInv, TypeInv, TypeOK
<1>4. UnusedKeys' /\ PurgedOwnsNothing' /\ GraceKept'
  BY <1>1, <1>2, <1>3
     DEF IInv, UnusedKeys, PurgedOwnsNothing, GraceKept, Present, Overdue
<1>5. WriterShape' /\ WriterGame' /\ HeldApart'
  BY <1>1 DEF IInv, WriterShape, WriterGame, HeldApart, Busy
<1>6. \A f \in Files : /\ file[f].status = "none" => file'[f].status = "none"
                       /\ ~OwnsFile(f) => ~OwnsFile(f)'
  BY <1>2, <1>3 DEF OwnsFile, Overdue
<1>7. WriterBytes'
  <2>1. \A w \in Writers : /\ Preparing(w) => op[w].file \in Files
                           /\ pc[w] \in {"discard", "detach"} => op[w].file \in Files
    BY DEF IInv, TypeInv, TypeOK, Operations, WriterShape, Preparing
  <2> QED
    BY <1>1, <1>6, <2>1 DEF IInv, WriterBytes, Preparing, Young
<1>8. InflightInv'
  BY <1>1, <1>6 DEF IInv, InflightInv, Young, Admissible, Live
<1>9. ListsInv'
  <2>1. \A f \in Files : ~Claimed(f) => ~Claimed(f)'
    BY <1>1 DEF Claimed, Preparing
  <2> QED
    BY <1>1, <1>2, <1>3, <2>1
       DEF IInv, TypeInv, TypeOK, ListsInv, ItemTaken, GamesListed, FilesListed, OrphanTaken
<1> QED
  BY <1>4, <1>5, <1>7, <1>8, <1>9 DEF BytesInv

-----------------------------------------------------------------------------
LEMMA IInvStep ==
  ASSUME LateCommit = FALSE
  PROVE  IInv /\ [Next]_vars => IInv'
<1> SUFFICES ASSUME IInv, [Next]_vars PROVE IInv'
  OBVIOUS
<1>1. TypeInv'
  BY TypeStep, Parts
<1>2. BytesInv' /\ ListsInv'
  <2>1. CASE UNCHANGED vars
    <3>1. UNCHANGED <<rowVars, diskVars, writerVars, inflight, cleanerVars>>
      BY <2>1 DEF vars
    <3>2. BytesInv' /\ \A f : Claimed(f)' = Claimed(f) /\ OwnsFile(f)' = OwnsFile(f)
      BY <3>1, BytesFrame, Parts
    <3>3. ListsInv'
      BY <3>1, <3>2, Parts
         DEF ListsInv, ItemTaken, GamesListed, FilesListed, OrphanTaken, rowVars, diskVars, cleanerVars
    <3> QED
      BY <3>2, <3>3
  <2>2. ASSUME NEW w \in Writers, Begin(w) \/ WriterStep(w) PROVE BytesInv' /\ ListsInv'
    BY <2>2, WriterSafe
  <2>3. CASE DatabaseStep
    BY <2>3, LandSafe, AbortSafe DEF DatabaseStep
  <2>4. ASSUME NEW g \in Games, NEW next \in GameStatus, TransitionGame(g, next)
        PROVE  BytesInv' /\ ListsInv'
    BY <2>4, TransitionSafe
  <2>5. CASE CleanerStep \/ SkipItem
    BY <2>5, ListingSafe, RemoveGameOwnerSafe, RemoveRetiredSafe, RemoveOrphanSafe,
       PurgeGameSafe, PurgeFileSafe DEF CleanerStep
  <2>6. CASE Crash
    BY <2>6, CrashSafe
  <2>7. CASE Tick
    BY <2>7, TickSafe
  <2> QED
    BY <2>1, <2>2, <2>3, <2>4, <2>5, <2>6, <2>7 DEF Next
<1> QED
  BY <1>1, <1>2 DEF IInv, BytesInv, ListsInv

\* The invariants that make the store trustworthy, wherever the database has
\* decided a transaction before its writer looks for the outcome: no sweep, no
\* discard and no crash removes bytes that a row, a grace or an undecided
\* transaction still owns, and no row is given up before its bytes.
THEOREM BytesSafe ==
  ASSUME LateCommit = FALSE
  PROVE  Spec => []BytesKept
<1>1. IInv => GraceKept /\ PurgedOwnsNothing
  BY DEF IInv
<1>2. IInv => LiveFilesReadable
  BY DEF IInv, GraceKept, LiveFilesReadable, Live
<1>3. IInv => UndecidedBytesKept
  <2>1. ASSUME NEW o \in Operations, Young(o)
        PROVE  payload[o.file] # Absent /\ (o.converted => origin[o.file] # Absent)
    BY <2>1, GraceAssumption DEF Young, Operations, Absent
  <2> QED
    BY <2>1 DEF IInv, TypeInv, TypeOK, InflightInv, UndecidedBytesKept
<1>4. IInv => BytesKept
  BY <1>1, <1>2, <1>3 DEF BytesKept
<1>5. IInv /\ [Next]_vars => IInv'
  BY IInvStep
<1> QED
  BY <1>4, <1>5, InitIInv, PTL DEF Spec

-----------------------------------------------------------------------------
(***************************************************************************)
(* ManagedFiles implements FilePromise, for every number of games, files   *)
(* and writers: the initial state maps to the initial state, and every     *)
(* step of the rows, the disk and the sweeps maps, file by file, to a step *)
(* the promise allows or to none.                                          *)
(***************************************************************************)

\* A key has an attachment only once a row says so, and a game that was not
\* created has no content that could be in use.
RowsInv == \A f \in Files :
  /\ file[f].status = "none" => ~file[f].converted
  /\ file[f].status = "active" => game[owner[f]].status # "none"

\* What the definition of Phase amounts to, one implication for each case.
PhaseCases(f) ==
  /\ owner[f] = NoGame => Phase(f) = "unused"
  /\ owner[f] # NoGame /\ file[f].status = "none" =>
       Phase(f) = IF payload[f] = Absent /\ origin[f] = Absent THEN "gone" ELSE "unclaimed"
  /\ file[f].status = "active" /\ Live(owner[f]) => Phase(f) = "live"
  /\ file[f].status = "deleted" \/ (file[f].status = "active" /\ ~Live(owner[f])) =>
       Phase(f) = IF OwedForGrace(f) THEN "kept" ELSE "expired"
  /\ file[f].status \in {"purged", "erased"} => Phase(f) = "gone"

\* Where a file may go in one step, with its completeness before and after.
Moves(f) ==
  \/ Phase(f) = "unused" /\ Phase(f)' = "unclaimed" /\ Present(f)'
  \/ Phase(f) = "unclaimed" /\ Phase(f)' = "live" /\ Present(f) /\ Present(f)'
  \/ Phase(f) = "live" /\ Phase(f)' = "kept" /\ Present(f) /\ Present(f)'
  \/ Phase(f) = "kept" /\ Phase(f)' = "expired" /\ Present(f) /\ Present(f)'
  \/ Phase(f) \in {"unclaimed", "expired"} /\ Phase(f)' = Phase(f) /\ ~Present(f)'
  \/ /\ Phase(f) \in {"unclaimed", "expired"} /\ Phase(f)' = "gone" /\ ~Present(f)'
     /\ Phase(f) = "expired" => ~Present(f)
  \/ Phase(f)' = Phase(f) /\ Present(f)' = Present(f)

LEMMA MovesIsPromised == (\A f \in Files : Moves(f)) => Abstract!PromiseNext
  BY DEF Moves, Abstract!PromiseNext, Abstract!Published, Abstract!Claimed, Abstract!Retired,
         Abstract!Expired, Abstract!Damaged, Abstract!Released, Abstract!Unmoved, Abstract!Becomes

LEMMA PhaseIs == ASSUME IInv, NEW f \in Files PROVE PhaseCases(f)
<1>1. owner[f] = NoGame => file[f].status = "none"
  BY DEF IInv, UnusedKeys
<1>2. Phase(f) = IF owner[f] = NoGame THEN "unused"
                 ELSE IF file[f].status = "none"
                 THEN (IF payload[f] = Absent /\ origin[f] = Absent THEN "gone" ELSE "unclaimed")
                 ELSE IF file[f].status = "active" /\ Live(owner[f]) THEN "live"
                 ELSE IF file[f].status \in {"active", "deleted"}
                 THEN (IF OwedForGrace(f) THEN "kept" ELSE "expired")
                 ELSE "gone"
  BY <1>1 DEF Phase, IInv, TypeInv, TypeOK, FileRows, FileStatus
<1> QED
  BY <1>1, <1>2 DEF PhaseCases

-----------------------------------------------------------------------------
(* Steps that keep the rows: the disk moves below them, or nothing does.   *)

LEMMA UnmovedMoves ==
  ASSUME UNCHANGED <<rowVars, diskVars>>
  PROVE  \A f \in Files : Moves(f)
  BY DEF Moves, Phase, Present, Live, OwedForGrace, rowVars, diskVars

LEMMA PublishMoves ==
  ASSUME IInv, IInv', RowsInv, NEW w \in Writers, NEW k \in Files, Publish(w, k)
  PROVE  \A f \in Files : Moves(f)
<1>0. PICK age \in 0..op[w].age : payload' = [payload EXCEPT ![k] = age]
  BY DEF Publish
<1>1. /\ UNCHANGED <<game, file, origin>> /\ owner[k] = NoGame
      /\ owner' = [owner EXCEPT ![k] = op[w].game] /\ payload' = [payload EXCEPT ![k] = age]
      /\ op[w].game \in Games /\ age # Absent
  BY <1>0 DEF Publish, rowVars, Absent, IInv, WriterShape, Busy, TypeInv, TypeOK, Operations
<1>2. ASSUME NEW f \in Files \ {k} PROVE Moves(f)
  <2>1. owner'[f] = owner[f] /\ payload'[f] = payload[f]
    BY <1>1 DEF IInv, TypeInv, TypeOK
  <2> QED
    BY <1>1, <2>1 DEF Moves, Phase, Present, Live, OwedForGrace
<1>3. owner'[k] # NoGame /\ payload'[k] # Absent /\ file[k].status = "none"
  BY <1>1, NamesAssumption DEF IInv, TypeInv, TypeOK, UnusedKeys
<1>4. Phase(k) = "unused" /\ Phase(k)' = "unclaimed"
  BY <1>1, <1>3, PhaseIs DEF PhaseCases, Phase, Absent
<1>5. Present(k)'
  BY <1>1, <1>3 DEF Present, Absent, RowsInv
<1> QED
  BY <1>2, <1>4, <1>5 DEF Moves

LEMMA FinalizeMoves ==
  ASSUME IInv, RowsInv, NEW w \in Writers, NEW converted \in BOOLEAN, Finalize(w, converted)
  PROVE  \A f \in Files : Moves(f)
<1> DEFINE k == op[w].file
<1>1. /\ UNCHANGED <<game, file, owner, payload>> /\ Preparing(w)
      /\ origin' = IF converted THEN [origin EXCEPT ![k] = 0] ELSE origin
  BY DEF Finalize, Preparing, rowVars
<1>2. k \in Files /\ file[k].status = "none" /\ payload[k] # Absent /\ owner[k] # NoGame
  <2>1. k \in Files /\ op[w].age \in 0..Deadline
    BY <1>1 DEF Preparing, IInv, TypeInv, TypeOK, Operations
  <2>2. file[k].status = "none" /\ payload[k] \in 0..op[w].age
    BY <1>1 DEF IInv, WriterBytes, Young
  <2>3. payload[k] # Absent
    BY <2>1, <2>2, GraceAssumption DEF Absent
  <2> QED
    BY <2>1, <2>2, <2>3 DEF IInv, UnusedKeys
<1>3. ASSUME NEW f \in Files PROVE Phase(f)' = Phase(f) /\ Present(f)' = Present(f)
  <2>1. f # k => origin'[f] = origin[f]
    BY <1>1 DEF IInv, TypeInv, TypeOK
  <2>2. f = k => ~file[f].converted
    BY <1>2 DEF RowsInv
  <2> HIDE DEF k
  <2> QED
    BY <1>1, <1>2, <2>1, <2>2 DEF Phase, Present, Live, OwedForGrace
<1> QED
  BY <1>3 DEF Moves

\* Bytes disappear below a row only when nothing is owed for it, the payload first.
LEMMA RemovalMoves ==
  ASSUME IInv, RowsInv, UNCHANGED <<game, file, owner>>, NEW f \in Files,
         payload'[f] \in {payload[f], Absent}, origin'[f] \in {origin[f], Absent},
         \/ payload'[f] = payload[f] /\ origin'[f] = origin[f]
         \/ ~OwnsFile(f)
         \/ /\ Overdue(file[f]) \/ (OwnsFile(f) /\ Overdue(game[owner[f]]))
            /\ payload'[f] = Absent
  PROVE  Moves(f)
<1>1. CASE payload'[f] = payload[f] /\ origin'[f] = origin[f]
  BY <1>1 DEF Moves, Phase, Present, Live, OwedForGrace
<1>2. CASE ~OwnsFile(f)
  <2>1. CASE owner[f] = NoGame
    BY <1>1, <2>1 DEF IInv, UnusedKeys
  <2>2. CASE owner[f] # NoGame /\ file[f].status = "none"
    <3>1. /\ Phase(f) = IF payload[f] = Absent /\ origin[f] = Absent THEN "gone" ELSE "unclaimed"
          /\ Phase(f)' = IF payload'[f] = Absent /\ origin'[f] = Absent THEN "gone" ELSE "unclaimed"
      BY <2>2 DEF Phase
    <3>2. Present(f) = (payload[f] # Absent) /\ Present(f)' = (payload'[f] # Absent)
      BY <2>2 DEF Present, RowsInv
    <3> QED
      BY <3>1, <3>2 DEF Moves
  <2>3. CASE file[f].status \in {"purged", "erased"}
    BY <1>1, <2>3 DEF IInv, PurgedOwnsNothing
  <2> QED
    BY <1>2, <2>1, <2>2, <2>3 DEF OwnsFile, IInv, TypeInv, TypeOK, FileRows, FileStatus
<1>3. CASE /\ Overdue(file[f]) \/ (OwnsFile(f) /\ Overdue(game[owner[f]]))
           /\ payload'[f] = Absent
  <2>1. ~OwedForGrace(f) /\ OwnsFile(f)
    BY <1>3, GraceAssumption DEF OwedForGrace, Overdue, OwnsFile
  <2>2. ~(file[f].status = "active" /\ Live(owner[f]))
    BY <1>3 DEF Overdue, Live
  <2>3. Phase(f) = "expired"
    BY <2>1, <2>2, PhaseIs DEF PhaseCases, OwnsFile
  <2>4. Phase(f)' = Phase(f)
    <3>1. owner[f] # NoGame /\ file[f].status # "none"
      BY <2>1 DEF OwnsFile, IInv, UnusedKeys
    <3>2. Live(owner[f])' = Live(owner[f]) /\ OwedForGrace(f)' = OwedForGrace(f)
      BY DEF Live, OwedForGrace
    <3> QED
      BY <3>1, <3>2 DEF Phase
  <2>5. ~Present(f)'
    BY <1>3 DEF Present
  <2> QED
    BY <2>3, <2>4, <2>5 DEF Moves
<1> QED
  BY <1>1, <1>2, <1>3

LEMMA DropMoves ==
  ASSUME IInv, RowsInv, NEW w \in Writers, Discard(w) \/ Detach(w)
  PROVE  \A f \in Files : Moves(f)
<1> DEFINE k == op[w].file
<1>1. k \in Files /\ ~OwnsFile(k)
  BY DEF Discard, Detach, IInv, TypeInv, TypeOK, Operations, WriterShape, WriterBytes
<1>2. UNCHANGED <<game, file, owner>>
  BY DEF Discard, Detach, rowVars
<1>3. \A f \in Files : IF f = k
        THEN payload'[f] \in {payload[f], Absent} /\ origin'[f] \in {origin[f], Absent}
        ELSE payload'[f] = payload[f] /\ origin'[f] = origin[f]
  BY DEF Discard, Detach, IInv, TypeInv, TypeOK
<1> HIDE DEF k
<1> QED
  BY <1>1, <1>2, <1>3, RemovalMoves

LEMMA SweepMoves ==
  ASSUME IInv, RowsInv,
         \/ RemoveGameOwner \/ \E f \in Files : RemoveRetiredPayload(f)
         \/ RemoveRetiredOrigin \/ RemoveOrphanPayload \/ RemoveOrphanAttachment
  PROVE  \A f \in Files : Moves(f)
<1>1. CASE RemoveGameOwner
  <2>1. /\ UNCHANGED <<game, file, owner>> /\ Overdue(game[item])
        /\ \A f \in Files : IF owner[f] = item
             THEN payload'[f] = Absent /\ origin'[f] = Absent
             ELSE payload'[f] = payload[f] /\ origin'[f] = origin[f]
    BY <1>1 DEF RemoveGameOwner, rowVars, IInv, GamesListed, Overdue
  <2> QED
    BY <2>1, RemovalMoves
<1>2. ASSUME NEW k \in Files, RemoveRetiredPayload(k) PROVE \A f \in Files : Moves(f)
  <2>1. /\ UNCHANGED <<game, file, owner, origin>> /\ Overdue(file[k])
        /\ payload' = [payload EXCEPT ![k] = Absent]
    BY <1>2 DEF RemoveRetiredPayload, rowVars, IInv, FilesListed, Overdue, Referenced
  <2>2. \A f \in Files : IF f = k THEN payload'[f] = Absent ELSE payload'[f] = payload[f]
    BY <2>1 DEF IInv, TypeInv, TypeOK
  <2> QED
    BY <2>1, <2>2, RemovalMoves
<1>3. CASE RemoveRetiredOrigin
  <2>1. /\ UNCHANGED <<game, file, owner, payload>> /\ item \in Files /\ Overdue(file[item])
        /\ payload[item] = Absent /\ origin' = [origin EXCEPT ![item] = Absent]
    BY <1>3 DEF RemoveRetiredOrigin, rowVars, IInv, FilesListed, Overdue
  <2>2. \A f \in Files : IF f = item THEN origin'[f] = Absent ELSE origin'[f] = origin[f]
    BY <2>1 DEF IInv, TypeInv, TypeOK
  <2> QED
    BY <2>1, <2>2, RemovalMoves
<1>4. CASE RemoveOrphanPayload \/ RemoveOrphanAttachment
  <2>1. UNCHANGED <<game, file, owner>> /\ ~OwnsFile(item)
    BY <1>4 DEF RemoveOrphanPayload, RemoveOrphanAttachment, rowVars, IInv, OrphanTaken
  <2>2. \A f \in Files : IF f = item
          THEN payload'[f] \in {payload[f], Absent} /\ origin'[f] \in {origin[f], Absent}
          ELSE payload'[f] = payload[f] /\ origin'[f] = origin[f]
    BY <1>4 DEF RemoveOrphanPayload, RemoveOrphanAttachment, IInv, TypeInv, TypeOK
  <2> QED
    BY <2>1, <2>2, RemovalMoves
<1> QED
  BY <1>1, <1>2, <1>3, <1>4

-----------------------------------------------------------------------------
(* Steps of the rows, above a disk that stands still.                      *)

LEMMA ApplyMoves ==
  ASSUME IInv, RowsInv, UNCHANGED diskVars,
         NEW o \in Operations, o.game \in Games, o.file \in Files, owner[o.file] = o.game,
         file[o.file].status = "none", Young(o), Admissible(o),
         NEW retired, Retires(o, retired), Apply(o, retired)
  PROVE  \A f \in Files : Moves(f)
<1>1. /\ UNCHANGED <<owner, payload, origin>>
      /\ \A g \in Games \ {o.game} : game'[g] = game[g]
      /\ Live(o.game)'
      /\ \/ Live(o.game)
         \/ o.kind = "import" /\ game[o.game].status = "none"
  BY ApplyRows DEF diskVars, Admissible
<1>2. file' = [f \in Files |->
        IF f = o.file THEN [status |-> "active", converted |-> o.converted, age |-> 0]
        ELSE IF f \in retired
        THEN [status |-> "deleted", converted |-> file[f].converted, age |-> 0] ELSE file[f]]
  BY DEF Apply
<1>3. \A f \in retired : f \in Files /\ owner[f] = o.game /\ file[f].status = "active"
  BY DEF Retires, Active, Rows
<1>4. Moves(o.file)
  <2>1. payload[o.file] # Absent /\ (o.converted => origin[o.file] # Absent)
    BY GraceAssumption DEF Young, Operations, Absent
  <2>2. file'[o.file].status = "active" /\ file'[o.file].converted = o.converted
    BY <1>2
  <2>3. Present(o.file) /\ Present(o.file)'
    BY <1>1, <2>1, <2>2 DEF Present, RowsInv
  <2>4. Phase(o.file) = "unclaimed"
    BY <2>1, NamesAssumption, PhaseIs DEF PhaseCases
  <2>5. Phase(o.file)' = "live"
    BY <1>1, <2>2, NamesAssumption DEF Phase
  <2> QED
    BY <2>3, <2>4, <2>5 DEF Moves
<1>5. ASSUME NEW f \in retired, f # o.file PROVE Moves(f)
  <2>1. /\ file'[f].status = "deleted" /\ file'[f].age = 0 /\ file'[f].converted = file[f].converted
        /\ owner[f] = o.game /\ file[f].status = "active" /\ f \in Files
    BY <1>2, <1>3, <1>5
  <2>2. Live(o.game)
    BY <1>1, <2>1 DEF RowsInv
  <2>3. Phase(f) = "live"
    BY <2>1, <2>2, PhaseIs DEF PhaseCases
  <2>4. OwedForGrace(f)'
    BY <1>1, <2>1, GraceAssumption DEF OwedForGrace, Live
  <2>5. Phase(f)' = "kept"
    BY <1>1, <2>1, <2>4, NamesAssumption DEF Phase
  <2>6. Present(f) /\ Present(f)'
    BY <1>1, <2>1, <2>2 DEF Present, IInv, GraceKept, Live
  <2> QED
    BY <2>3, <2>5, <2>6 DEF Moves
<1>6. ASSUME NEW f \in Files, f # o.file, f \notin retired PROVE Moves(f)
  <2>1. file'[f] = file[f] /\ owner'[f] = owner[f] /\ Present(f)' = Present(f)
    BY <1>1, <1>2, <1>6 DEF Present
  <2>2. owner[f] = o.game /\ file[f].status = "active" => Live(o.game)
    BY <1>1 DEF RowsInv
  <2>3. Phase(f)' = Phase(f)
    <3>1. CASE owner[f] = o.game
      <4>1. file[f].status = "active" => Live(owner[f]) /\ Live(owner[f])'
        BY <1>1, <2>2, <3>1
      <4>2. game[owner[f]].status # "deleted" /\ game'[owner[f]].status # "deleted"
        BY <1>1, <3>1 DEF Live
      <4>3. OwedForGrace(f)' = OwedForGrace(f)
        BY <1>1, <2>1, <4>2 DEF OwedForGrace
      <4> QED
        BY <1>1, <2>1, <4>1, <4>3 DEF Phase
    <3>2. CASE owner[f] \in Games \ {o.game}
      BY <1>1, <2>1, <3>2 DEF Phase, Live, OwedForGrace
    <3>3. CASE owner[f] = NoGame
      BY <1>1, <3>3 DEF Phase
    <3> QED
      BY <3>1, <3>2, <3>3 DEF IInv, TypeInv, TypeOK
  <2> QED
    BY <2>1, <2>3 DEF Moves
<1> QED
  BY <1>4, <1>5, <1>6

LEMMA CommitMoves ==
  ASSUME IInv, RowsInv, NEW w \in Writers, Commit(w)
  PROVE  \A f \in Files : Moves(f)
<1>1. PICK o \in Operations : o = op[w]
  BY DEF IInv, TypeInv, TypeOK
<1>2. /\ o.game \in Games /\ o.file \in Files /\ owner[o.file] = o.game
      /\ file[o.file].status = "none" /\ Young(o) /\ Admissible(o) /\ UNCHANGED diskVars
  BY <1>1, NamesAssumption
     DEF Commit, IInv, Operations, WriterShape, WriterBytes, Busy, Preparing
<1>3. PICK retired \in SUBSET Files : Retires(o, retired) /\ Apply(o, retired)
  BY <1>1 DEF Commit
<1> QED
  BY <1>2, <1>3, ApplyMoves

LEMMA LandMoves ==
  ASSUME IInv, RowsInv, NEW tx \in inflight, Land(tx)
  PROVE  \A f \in Files : Moves(f)
<1>1. /\ tx \in Operations /\ tx.game \in Games /\ tx.file \in Files /\ owner[tx.file] = tx.game
      /\ file[tx.file].status = "none" /\ Young(tx) /\ Admissible(tx) /\ UNCHANGED diskVars
  BY DEF Land, IInv, TypeInv, TypeOK, InflightInv
<1>2. PICK retired \in SUBSET Files : Retires(tx, retired) /\ Apply(tx, retired)
  BY DEF Land
<1> QED
  BY <1>1, <1>2, ApplyMoves

LEMMA TransitionMoves ==
  ASSUME IInv, RowsInv, NEW g \in Games, NEW next \in GameStatus, TransitionGame(g, next)
  PROVE  \A f \in Files : Moves(f)
<1>1. /\ UNCHANGED <<file, owner, payload, origin>>
      /\ \A h \in Games \ {g} : game'[h] = game[h]
      /\ game'[g].status = next /\ game'[g].age = 0
      /\ Live(g) /\ next \in {"pending_review", "published", "deleted"}
  BY DEF TransitionGame, Transitions, diskVars, Live, IInv, TypeInv, TypeOK
<1>2. ASSUME NEW f \in Files PROVE Moves(f)
  <2>1. Present(f)' = Present(f)
    BY <1>1 DEF Present
  <2>2. CASE owner[f] = NoGame \/ owner[f] \in Games \ {g}
    <3>1. owner[f] = NoGame => Phase(f)' = Phase(f)
      BY <1>1 DEF Phase
    <3>2. owner[f] \in Games \ {g} => Phase(f)' = Phase(f)
      BY <1>1 DEF Phase, Live, OwedForGrace
    <3> QED
      BY <2>1, <2>2, <3>1, <3>2 DEF Moves
  <2>3. CASE owner[f] = g /\ file[f].status = "active" /\ next = "deleted"
    <3>1. Phase(f) = "live"
      BY <1>1, <2>3, PhaseIs DEF PhaseCases
    <3>2. Present(f)
      BY <1>1, <2>3 DEF IInv, GraceKept, Live
    <3>3. OwedForGrace(f)' /\ ~Live(owner[f])'
      BY <1>1, <2>3, GraceAssumption DEF OwedForGrace, Live
    <3>4. Phase(f)' = "kept"
      BY <1>1, <2>3, <3>3, NamesAssumption DEF Phase
    <3> QED
      BY <2>1, <3>1, <3>2, <3>4 DEF Moves
  <2>4. CASE owner[f] = g /\ ~(file[f].status = "active" /\ next = "deleted")
    <3>1. OwedForGrace(f)' = OwedForGrace(f)
      BY <1>1, <2>4, GraceAssumption DEF OwedForGrace, Live
    <3>2. file[f].status = "active" => Live(owner[f]) /\ Live(owner[f])'
      BY <1>1, <2>4 DEF Live
    <3>3. Phase(f)' = Phase(f)
      BY <1>1, <2>4, <3>1, <3>2 DEF Phase
    <3> QED
      BY <2>1, <3>3 DEF Moves
  <2> QED
    BY <2>2, <2>3, <2>4 DEF IInv, TypeInv, TypeOK
<1> QED
  BY <1>2

LEMMA PurgeGameMoves ==
  ASSUME IInv, RowsInv, PurgeGame
  PROVE  \A f \in Files : Moves(f)
<1>1. /\ item \in Games /\ Overdue(game[item]) /\ UNCHANGED <<owner, payload, origin>>
      /\ \A f \in Files : owner[f] = item => payload[f] = Absent /\ origin[f] = Absent
  BY DEF PurgeGame, diskVars, IInv, GamesListed, Overdue
<1>2. /\ \A h \in Games \ {item} : game'[h] = game[h]
      /\ file' = [f \in Files |-> IF f \in Rows(item)
               THEN [status |-> "erased", converted |-> file[f].converted, age |-> 0]
               ELSE file[f]]
  BY <1>1 DEF PurgeGame, Overdue, IInv, TypeInv, TypeOK
<1>3. ASSUME NEW f \in Files PROVE Moves(f)
  <2>1. CASE owner[f] = item /\ file[f].status # "none"
    <3>1. file'[f].status = "erased" /\ Present(f) = FALSE /\ Present(f)' = FALSE
      BY <1>1, <1>2, <2>1 DEF Rows, Present
    <3>2. Phase(f)' = "gone"
      BY <1>1, <2>1, <3>1, NamesAssumption DEF Phase
    <3>3. OwnsFile(f) => ~OwedForGrace(f)
      BY <1>1, <2>1, GraceAssumption DEF OwedForGrace, Overdue
    <3>4. OwnsFile(f) => Phase(f) = "expired"
      BY <1>1, <2>1, <3>3, PhaseIs DEF PhaseCases, OwnsFile, Live, Overdue
    <3>5. ~OwnsFile(f) => Phase(f) = "gone"
      BY <2>1, PhaseIs DEF PhaseCases, OwnsFile, IInv, TypeInv, TypeOK, FileRows, FileStatus
    <3> QED
      BY <3>1, <3>2, <3>4, <3>5 DEF Moves
  <2>2. CASE owner[f] = item /\ file[f].status = "none"
    <3>1. file'[f] = file[f]
      BY <1>2, <2>2 DEF Rows
    <3> QED
      BY <1>1, <2>2, <3>1, NamesAssumption DEF Moves, Phase, Present
  <2>3. CASE owner[f] # item
    <3>1. file'[f] = file[f] /\ Present(f)' = Present(f)
      BY <1>1, <1>2, <2>3 DEF Rows, Present
    <3>2. owner[f] = NoGame => Phase(f)' = Phase(f)
      BY <1>1 DEF Phase
    <3>3. owner[f] \in Games \ {item} => Phase(f)' = Phase(f)
      BY <1>1, <1>2, <3>1 DEF Phase, Live, OwedForGrace
    <3> QED
      BY <2>3, <3>1, <3>2, <3>3 DEF Moves, IInv, TypeInv, TypeOK
  <2> QED
    BY <2>1, <2>2, <2>3
<1> QED
  BY <1>3

LEMMA PurgeFileMoves ==
  ASSUME IInv, RowsInv, PurgeFile
  PROVE  \A f \in Files : Moves(f)
<1>1. PICK k \in Files : k = item
  BY DEF PurgeFile, IInv, FilesListed
<1>2. /\ UNCHANGED <<game, owner, payload, origin>> /\ Overdue(file[k]) /\ payload[k] = Absent
      /\ \A f \in Files \ {k} : file'[f] = file[f]
      /\ file'[k].status = "purged"
  BY <1>1 DEF PurgeFile, diskVars, IInv, FilesListed, Overdue, TypeInv, TypeOK
<1>3. ASSUME NEW f \in Files \ {k} PROVE Moves(f)
  BY <1>2 DEF Moves, Phase, Present, Live, OwedForGrace
<1>4. Moves(k)
  <2>1. Present(k) = FALSE /\ Present(k)' = FALSE
    BY <1>2 DEF Present
  <2>2. ~OwedForGrace(k)
    BY <1>2, GraceAssumption DEF OwedForGrace, Overdue
  <2>3. Phase(k) = "expired"
    BY <1>2, <2>2, PhaseIs DEF PhaseCases, Overdue
  <2>4. owner[k] # NoGame
    BY <1>2 DEF IInv, UnusedKeys, Overdue
  <2>5. Phase(k)' = "gone"
    BY <1>2, <2>4 DEF Phase
  <2> QED
    BY <2>1, <2>3, <2>5 DEF Moves
<1> QED
  BY <1>3, <1>4

\* Time only ends graces.
LEMMA TickMoves ==
  ASSUME IInv, RowsInv, Tick
  PROVE  \A f \in Files : Moves(f)
<1>1. /\ UNCHANGED owner
      /\ \A g \in Games : game'[g].status = game[g].status
      /\ \A f \in Files : /\ file'[f].status = file[f].status
                          /\ file'[f].converted = file[f].converted
                          /\ (payload'[f] = Absent) = (payload[f] = Absent)
                          /\ (origin'[f] = Absent) = (origin[f] = Absent)
  <2>1. \A age \in Ages : Older(age) # Absent
    BY OlderAge, GraceAssumption DEF Ages, Absent
  <2> QED
    BY <2>1 DEF Tick, IInv, TypeInv, TypeOK, GameRows, FileRows
<1>2. ASSUME NEW f \in Files PROVE Moves(f)
  <2>1. Present(f)' = Present(f)
    BY <1>1 DEF Present
  <2>2. CASE owner[f] = NoGame \/ ~OwnsFile(f) \/ (file[f].status = "active" /\ Live(owner[f]))
    <3>1. owner[f] = NoGame \/ owner[f] \in Games
      BY DEF IInv, TypeInv, TypeOK
    <3>2. owner[f] \in Games => Live(owner[f])' = Live(owner[f])
      BY <1>1 DEF Live
    <3>3. Phase(f)' = Phase(f)
      BY <1>1, <2>2, <3>1, <3>2, NamesAssumption
         DEF Phase, OwnsFile, IInv, TypeInv, TypeOK, FileRows, FileStatus, UnusedKeys
    <3> QED
      BY <2>1, <3>3 DEF Moves
  <2>3. CASE owner[f] # NoGame /\ OwnsFile(f) /\ ~(file[f].status = "active" /\ Live(owner[f]))
    <3>1. owner[f] \in Games
      BY <2>3 DEF IInv, TypeInv, TypeOK
    <3>2. Live(owner[f])' = Live(owner[f])
      BY <1>1, <3>1 DEF Live
    <3>3. /\ Phase(f) = IF OwedForGrace(f) THEN "kept" ELSE "expired"
          /\ Phase(f)' = IF OwedForGrace(f)' THEN "kept" ELSE "expired"
      BY <1>1, <2>3, <3>1, <3>2, NamesAssumption DEF Phase, OwnsFile
    <3>4. OwedForGrace(f)' => OwedForGrace(f)
      <4>1. \A age \in Ages : Older(age) < Grace => age < Grace
        BY GraceAssumption DEF Ages, Older
      <4>2. /\ file[f].status = "deleted" => file'[f].age = Older(file[f].age)
            /\ game[owner[f]].status = "deleted" => game'[owner[f]].age = Older(game[owner[f]].age)
            /\ file[f].age \in Ages /\ game[owner[f]].age \in Ages
        BY <3>1 DEF Tick, IInv, TypeInv, TypeOK, GameRows, FileRows
      <4> QED
        BY <1>1, <3>1, <4>1, <4>2 DEF OwedForGrace
    <3>5. OwedForGrace(f) => Present(f)
      BY <2>3 DEF IInv, GraceKept, OwedForGrace, OwnsFile
    <3> QED
      BY <2>1, <3>3, <3>4, <3>5 DEF Moves
  <2> QED
    BY <2>2, <2>3
<1> QED
  BY <1>2

-----------------------------------------------------------------------------
(* The rows that Phase reads.                                              *)

LEMMA RowsApply ==
  ASSUME IInv, RowsInv, UNCHANGED owner,
         NEW o \in Operations, o.file \in Files, owner[o.file] = o.game,
         NEW retired, Apply(o, retired), Live(o.game)',
         \A g \in Games \ {o.game} : game'[g] = game[g]
  PROVE  RowsInv'
<1>1. \A f \in Files : IF f = o.file THEN file'[f].status = "active"
        ELSE \/ file'[f] = file[f]
             \/ file'[f].status = "deleted"
  BY DEF Apply
<1>2. \A f \in Files : owner[f] = o.game => game'[owner[f]].status # "none"
  BY DEF Live
<1>3. \A f \in Files : file[f].status = "active" => owner[f] \in Games
  BY DEF IInv, UnusedKeys, TypeInv, TypeOK
<1> QED
  BY <1>1, <1>2, <1>3 DEF RowsInv

LEMMA RowsStep ==
  ASSUME IInv, RowsInv, [Next]_vars
  PROVE  RowsInv'
<1>1. CASE UNCHANGED <<game, file, owner>>
  BY <1>1 DEF RowsInv
<1>2. ASSUME NEW w \in Writers, NEW f \in Files, Publish(w, f) PROVE RowsInv'
  BY <1>2 DEF RowsInv, Publish, rowVars, IInv, UnusedKeys, TypeInv, TypeOK
<1>3. ASSUME NEW o \in Operations, o.game \in Games, o.file \in Files, owner[o.file] = o.game,
             file[o.file].status = "none", Young(o), Admissible(o), UNCHANGED diskVars,
             \E retired \in SUBSET Files : Retires(o, retired) /\ Apply(o, retired)
      PROVE  RowsInv'
  <2>1. PICK retired \in SUBSET Files : Retires(o, retired) /\ Apply(o, retired)
    BY <1>3
  <2> QED
    BY <1>3, <2>1, ApplyRows, RowsApply
<1>4. ASSUME NEW w \in Writers, Commit(w) PROVE RowsInv'
  <2>1. PICK o \in Operations : o = op[w]
    BY DEF IInv, TypeInv, TypeOK
  <2> QED
    BY <1>3, <1>4, <2>1, NamesAssumption
       DEF Commit, IInv, Operations, WriterShape, WriterBytes, Busy, Preparing
<1>5. ASSUME NEW tx \in inflight, Land(tx) PROVE RowsInv'
  BY <1>3, <1>5 DEF Land, IInv, TypeInv, TypeOK, InflightInv
<1>6. ASSUME NEW g \in Games, NEW next \in GameStatus, TransitionGame(g, next) PROVE RowsInv'
  <2>1. /\ UNCHANGED <<file, owner>> /\ next # "none"
        /\ game' = [game EXCEPT ![g] = [status |-> next, version |-> game[g].version + 1, age |-> 0]]
    BY <1>6 DEF TransitionGame, Transitions, diskVars
  <2> QED
    BY <2>1 DEF RowsInv, IInv, UnusedKeys, TypeInv, TypeOK
<1>7. CASE PurgeGame
  <2>1. /\ UNCHANGED owner
        /\ \A f \in Files : file'[f] = file[f] \/ file'[f].status = "erased"
        /\ \A g \in Games : game'[g] = game[g] \/ game'[g].status = "purged"
    <3>1. /\ UNCHANGED owner /\ DOMAIN game = Games
          /\ game' = [game EXCEPT ![item] =
                       [status |-> "purged", version |-> game[item].version, age |-> 0]]
          /\ file' = [f \in Files |-> IF f \in Rows(item)
                       THEN [status |-> "erased", converted |-> file[f].converted, age |-> 0]
                       ELSE file[f]]
      BY <1>7 DEF PurgeGame, diskVars, IInv, GamesListed, TypeInv, TypeOK
    <3>2. \A g \in Games : game'[g] = game[g] \/ game'[g].status = "purged"
      BY <3>1
    <3> QED
      BY <3>1, <3>2
  <2> QED
    BY <2>1 DEF RowsInv, IInv, UnusedKeys, TypeInv, TypeOK
<1>8. CASE PurgeFile
  <2>1. /\ UNCHANGED <<game, owner>>
        /\ \A f \in Files : file'[f] = file[f] \/ file'[f].status = "purged"
    BY <1>8 DEF PurgeFile, diskVars, IInv, TypeInv, TypeOK
  <2> QED
    BY <2>1 DEF RowsInv
<1>9. CASE Tick
  <2>1. /\ UNCHANGED owner
        /\ \A f \in Files : file'[f].status = file[f].status /\ file'[f].converted = file[f].converted
        /\ \A g \in Games : game'[g].status = game[g].status
    BY <1>9 DEF Tick, IInv, TypeInv, TypeOK, GameRows, FileRows
  <2> QED
    BY <2>1 DEF RowsInv, IInv, UnusedKeys, TypeInv, TypeOK
<1>10. CASE Next
  <2>1. ASSUME NEW w \in Writers, Begin(w) PROVE RowsInv'
    BY <1>1, <2>1 DEF Begin, BeginImport, BeginChange, Start, rowVars, diskVars
  <2>2. ASSUME NEW w \in Writers, WriterStep(w) PROVE RowsInv'
    BY <1>1, <1>2, <1>4, <2>2
       DEF WriterStep, Finalize, LoseReply, Refuse, Confirm, ConfirmFails, Discard, Detach,
           rowVars, diskVars
  <2>3. CASE DatabaseStep
    BY <1>1, <1>5, <2>3 DEF DatabaseStep, Abort, rowVars, diskVars
  <2>4. CASE CleanerStep
    BY <1>1, <1>7, <1>8, <2>4
       DEF CleanerStep, ListDeletedGames, TakeGame, RemoveGameOwner, ListRetiredFiles,
           RemoveRetiredPayload, RemoveRetiredOrigin, ListOrphans, CheckPayload, CheckAttachment,
           RemoveOrphanPayload, RemoveOrphanAttachment, EndSweep, rowVars, diskVars
  <2>5. CASE SkipItem \/ Crash
    BY <1>1, <2>5 DEF SkipItem, Crash, rowVars, diskVars
  <2> QED
    BY <1>6, <1>9, <1>10, <2>1, <2>2, <2>3, <2>4, <2>5 DEF Next
<1> QED
  BY <1>1, <1>10 DEF vars, rowVars, diskVars

-----------------------------------------------------------------------------
LEMMA StepMoves ==
  ASSUME IInv, IInv', RowsInv, [Next]_vars
  PROVE  \A f \in Files : Moves(f)
<1>1. CASE UNCHANGED vars
  BY <1>1, UnmovedMoves DEF vars
<1>2. ASSUME NEW w \in Writers, Begin(w) PROVE \A f \in Files : Moves(f)
  BY <1>2, UnmovedMoves DEF Begin, BeginImport, BeginChange, Start
<1>3. ASSUME NEW w \in Writers, WriterStep(w) PROVE \A f \in Files : Moves(f)
  <2>1. CASE LoseReply(w) \/ Refuse(w) \/ Confirm(w) \/ ConfirmFails(w)
    BY <2>1, UnmovedMoves DEF LoseReply, Refuse, Confirm, ConfirmFails
  <2> QED
    BY <1>3, <2>1, PublishMoves, FinalizeMoves, CommitMoves, DropMoves DEF WriterStep
<1>4. CASE DatabaseStep
  <2>1. ASSUME NEW tx \in inflight, Abort(tx) PROVE \A f \in Files : Moves(f)
    BY <2>1, UnmovedMoves DEF Abort
  <2> QED
    BY <1>4, <2>1, LandMoves DEF DatabaseStep
<1>5. CASE CleanerStep
  <2>1. CASE \/ ListDeletedGames \/ \E g \in Games : TakeGame(g)
             \/ ListRetiredFiles \/ ListOrphans \/ EndSweep
             \/ \E f \in Files : CheckPayload(f) \/ CheckAttachment(f)
    BY <2>1, UnmovedMoves
       DEF ListDeletedGames, TakeGame, ListRetiredFiles, ListOrphans, EndSweep, CheckPayload,
           CheckAttachment
  <2> QED
    BY <1>5, <2>1, SweepMoves, PurgeGameMoves, PurgeFileMoves DEF CleanerStep
<1>6. CASE SkipItem \/ Crash
  BY <1>6, UnmovedMoves DEF SkipItem, Crash
<1> QED
  BY <1>1, <1>2, <1>3, <1>4, <1>5, <1>6, TransitionMoves, TickMoves DEF Next

LEMMA InitPromise == Init => RowsInv /\ Abstract!PromiseInit
<1> SUFFICES ASSUME Init PROVE RowsInv /\ Abstract!PromiseInit
  OBVIOUS
<1>1. RowsInv
  BY DEF Init, RowsInv
<1>2. \A f \in Files : Phase(f) = "unused" /\ Present(f) = FALSE
  BY DEF Init, Phase, Present
<1> QED
  BY <1>1, <1>2 DEF Abstract!PromiseInit

\* The store keeps its promise for every file, whatever is published, refused, lost, landed,
\* deleted, swept or interrupted: bytes are lost only before they are claimed or after their
\* grace, and only complete bytes are ever claimed (wherever the database has decided a
\* transaction before its outcome is looked up).
THEOREM PromiseKept ==
  ASSUME LateCommit = FALSE
  PROVE  Spec => KeepsPromise
<1>1. IInv /\ [Next]_vars => IInv'
  BY IInvStep
<1>2. RowsInv /\ IInv /\ [Next]_vars => RowsInv'
  BY RowsStep
<1>3. IInv /\ IInv' /\ RowsInv /\ [Next]_vars => [Abstract!PromiseNext]_Abstract!promiseVars
  BY StepMoves, MovesIsPromised
<1> QED
  BY <1>1, <1>2, <1>3, InitIInv, InitPromise, PTL DEF Spec, KeepsPromise, Abstract!Promise
-------------------------------------------------------------------------------
(* The launch of a game.                                                     *)

(* The parts of an envelope.                                                 *)
LaunchParts ==
  {"formed", "session", "capabilities", "checkpoint", "resources", "options", "restore"}

LEMMA GoodParts ==
  /\ DOMAIN Launch!Good = LaunchParts
  /\ Launch!Good.checkpoint = [formed |-> TRUE, present |-> TRUE, writes |-> "state-v2",
                        reads |-> Launch!Formats, maximum |-> 2]
  BY DEF Launch!Good, LaunchParts

LEMMA EnvelopeParts ==
  ASSUME NEW e \in Launch!Envelopes
  PROVE  DOMAIN e = LaunchParts /\ e.checkpoint.maximum \in Nat
  <1>1. e \in Launch!Playable => DOMAIN e = LaunchParts /\ e.checkpoint.maximum \in Nat
    <2> SUFFICES ASSUME e \in Launch!Playable
                 PROVE  DOMAIN e = LaunchParts /\ e.checkpoint.maximum \in Nat
      OBVIOUS
    <2>1. CASE e = Launch!Good
      BY <2>1, GoodParts
    <2>2. CASE e = [Launch!Good EXCEPT
                      !.resources = <<Launch!Rom, Launch!Resource("entry", 0, "web")>>]
      BY <2>2, GoodParts DEF LaunchParts
    <2>3. CASE e = [Launch!Good EXCEPT !.capabilities.checkpoint = FALSE,
                                       !.checkpoint = Launch!NullCheckpoint]
      <3> DEFINE none == [Launch!Good EXCEPT !.capabilities.checkpoint = FALSE]
      <3>1. DOMAIN none = LaunchParts
        BY GoodParts
      <3>2. e = [none EXCEPT !.checkpoint = Launch!NullCheckpoint]
        BY <2>3, GoodParts DEF LaunchParts
      <3> HIDE DEF none
      <3>3. DOMAIN e = LaunchParts /\ e.checkpoint = Launch!NullCheckpoint
        BY <3>1, <3>2 DEF LaunchParts
      <3> QED BY <3>3 DEF Launch!NullCheckpoint
    <2>4. CASE e = [Launch!Good EXCEPT
                      !.restore = [at |-> "http", format |-> "state-v1", size |-> 2]]
      BY <2>4, GoodParts DEF LaunchParts
    <2> QED BY <2>1, <2>2, <2>3, <2>4 DEF Launch!Playable
  <1>2. e \in Launch!Wrong => DOMAIN e = LaunchParts /\ e.checkpoint.maximum \in Nat
    BY GoodParts DEF Launch!Wrong, LaunchParts
  <1> QED BY <1>1, <1>2 DEF Launch!Envelopes

LEMMA SnapshotAccepted ==
  ASSUME offer \in Launch!Envelopes, Launch!ValidEnvelope(Launch!Envelope), offer.checkpoint.present
  PROVE  Launch!ValidEnvelope([offer EXCEPT !.restore = Launch!Snapshot])
  <1> DEFINE again == [offer EXCEPT !.restore = Launch!Snapshot]
  <1>1. CASE restore
    BY <1>1 DEF Launch!Envelope
  <1>2. CASE ~restore
    <2>1. Launch!ValidEnvelope(offer)
      BY <1>2 DEF Launch!Envelope
    <2>2. DOMAIN offer = LaunchParts /\ offer.checkpoint.maximum \in Nat
      BY EnvelopeParts
    <2>3. /\ again.session = offer.session /\ again.formed = offer.formed
          /\ again.capabilities = offer.capabilities /\ again.checkpoint = offer.checkpoint
          /\ again.resources = offer.resources /\ again.options = offer.options
          /\ again.restore = Launch!Snapshot
      BY <2>2 DEF LaunchParts
    <2>4. offer.checkpoint.writes \in offer.checkpoint.reads
      BY <2>1 DEF Launch!ValidEnvelope, Launch!ValidCheckpoint
    <2>5. Launch!ValidRestore(Launch!Snapshot, offer.checkpoint)
      BY <2>2, <2>4 DEF Launch!ValidRestore, Launch!Snapshot
    <2> HIDE DEF again
    <2>6. Launch!ValidEnvelope(again)
      BY <2>1, <2>3, <2>5 DEF Launch!ValidEnvelope
    <2> QED BY <2>6 DEF again
  <1> QED BY <1>1, <1>2
-------------------------------------------------------------------------------
Loading == {"fetching", "importing", "mounting", "framing", "mounted", "started"}
Checked == {"importing", "mounting", "framing", "mounted", "started"}

(* A click that is under way has a scope.                                    *)
ClickHasScope == launchLaunch # "idle" => current # Launch!Nobody
(* The page acts on the game of its effect.                                  *)
RefIsMine == ref # Launch!Nobody => ref = effect
(* What loads without being aborted is the effect in force.                  *)
LoadsForMe ==
  \A g \in Launch!Generations : launchPc[g] \in Loading /\ g \notin aborted => effect = g
(* What runs for another effect is being disposed of.                        *)
OthersGo ==
  \A g \in Launch!Generations \ {effect} :
    launchGame[g] = "running" => launchPc[g] = "disposing"
(* What was loaded has an envelope that accepts its final snapshot.          *)
AcceptsSnapshot ==
  \A g \in Launch!Generations :
    (launchPc[g] \in Checked /\ offer.checkpoint.present)
      => Launch!ValidEnvelope([offer EXCEPT !.restore = Launch!Snapshot])

LaunchShown == RefIsMine /\ LoadsForMe /\ OthersGo /\ AcceptsSnapshot
LaunchInv == Launch!TypeOK /\ ClickHasScope /\ LaunchShown

LEMMA LaunchInit ==
  ASSUME Launch!BoundsArePositive, Launch!Init
  PROVE  LaunchInv
  <1>1. Launch!TypeOK
    <2>1. scope \in [Launch!Scopes -> [prev : BOOLEAN, stopped : BOOLEAN, locked : BOOLEAN,
                                 enter : {"none", "asked", "undoing", "locking"},
                                 exits : BOOLEAN, hasty : BOOLEAN]]
      BY DEF Launch!Init, Launch!NoScope
    <2>2. launchPc \in [Launch!Generations -> Launch!Places]
          /\ launchGame \in [Launch!Generations ->
                                {"none", "created", "running", "exiting", "exited"}]
      BY DEF Launch!Init, Launch!Places
    <2>3. /\ offer \in Launch!Envelopes /\ phone \in BOOLEAN /\ launchPortrait \in BOOLEAN
          /\ own \in BOOLEAN /\ launchScreen \in BOOLEAN /\ launchActive \in BOOLEAN
          /\ completed \in BOOLEAN /\ restore \in BOOLEAN
      BY DEF Launch!Init
    <2>4. /\ current \in 0 .. PlayScopes /\ session \in 0 .. PlayScopes
          /\ effect \in 0 .. Effects /\ ref \in 0 .. Effects
          /\ launchFaults \in 0 .. LaunchFaults
      BY DEF Launch!Init, Launch!BoundsArePositive, Launch!Nobody
    <2>5. /\ launchPage \in {"launcher", "player"} /\ leaving \in {"no", "game", "screen"}
          /\ launchLaunch \in {"idle", "creating", "entering", "warned", "restoring", "asking",
                          "failing"}
          /\ aborted \subseteq Launch!Generations /\ frames \subseteq Launch!Generations
          /\ launchPage = "player" <=> session # Launch!Nobody
          /\ launchPage = "launcher" => effect = Launch!Nobody /\ leaving = "no"
          /\ frames \cap aborted = {}
      BY DEF Launch!Init
    <2> QED BY <2>1, <2>2, <2>3, <2>4, <2>5 DEF Launch!TypeOK
  <1>2. ClickHasScope /\ LaunchShown
    BY DEF Launch!Init, ClickHasScope, LaunchShown, RefIsMine, LoadsForMe, OthersGo,
        AcceptsSnapshot,
           Loading, Checked, Launch!Nobody, Launch!Generations
  <1> QED BY <1>1, <1>2 DEF LaunchInv
-------------------------------------------------------------------------------
(***************************************************************************)
(* The shown game.                                                         *)
(***************************************************************************)
ShownVars == <<offer, effect, ref, launchPc, aborted, launchGame>>

LEMMA OfferKept ==
  ASSUME UNCHANGED offer
  PROVE  Launch!ValidEnvelope([offer EXCEPT !.restore = Launch!Snapshot])'
           <=> Launch!ValidEnvelope([offer EXCEPT !.restore = Launch!Snapshot])
  BY DEF Launch!Snapshot

LEMMA ShownKept ==
  ASSUME LaunchShown, UNCHANGED ShownVars
  PROVE  LaunchShown'
  BY OfferKept DEF LaunchShown, ShownVars, RefIsMine, LoadsForMe, OthersGo, AcceptsSnapshot

LEMMA CleanupShown ==
  ASSUME LaunchInv, UNCHANGED offer, effect # Launch!Nobody, Launch!Cleanup
  PROVE  LaunchShown'
  <1> USE DEF LaunchInv, LaunchShown, Launch!TypeOK
  <1>1. RefIsMine'
    BY DEF Launch!Cleanup, RefIsMine
  <1>2. LoadsForMe'
    BY DEF Launch!Cleanup, LoadsForMe, Launch!GoesTo, Launch!Started, Loading, Launch!Nobody,
        Launch!Generations
  <1>3. OthersGo'
    BY DEF Launch!Cleanup, OthersGo, Launch!GoesTo, Launch!Started, Launch!Nobody,
        Launch!Generations
  <1>4. AcceptsSnapshot'
    BY OfferKept DEF Launch!Cleanup, AcceptsSnapshot, Launch!GoesTo, Checked
  <1> QED BY <1>1, <1>2, <1>3, <1>4

LEMMA LoadsShown ==
  ASSUME LaunchInv, NEW g \in Launch!Generations, Launch!Loads(g) \/ Launch!Ends(g)
  PROVE  LaunchShown'
  <1> USE DEF LaunchInv, LaunchShown, Launch!TypeOK, Launch!Unchecked, Launch!deviceVars,
      Launch!GoesTo
  <1>1. RefIsMine'
    BY DEF Launch!Loads, Launch!Ends, Launch!Fetched, Launch!FetchFails, Launch!Imported,
        Launch!ImportFails, Launch!MountFrame, Launch!FrameReady,
           Launch!FrameFails, Launch!Mounted, Launch!GameExited, Launch!Disposed, RefIsMine,
               LoadsForMe, Loading
  <1>2. LoadsForMe'
    BY DEF Launch!Loads, Launch!Ends, Launch!Fetched, Launch!FetchFails, Launch!Imported,
        Launch!ImportFails, Launch!MountFrame, Launch!FrameReady,
           Launch!FrameFails, Launch!Mounted, Launch!GameExited, Launch!Disposed, LoadsForMe,
               Loading
  <1>3. OthersGo'
    BY DEF Launch!Loads, Launch!Ends, Launch!Fetched, Launch!FetchFails, Launch!Imported,
        Launch!ImportFails, Launch!MountFrame, Launch!FrameReady,
           Launch!FrameFails, Launch!Mounted, Launch!GameExited, Launch!Disposed, LoadsForMe,
               Loading, OthersGo
  <1>4. AcceptsSnapshot'
    <2>1. CASE Launch!Fetched(g)
      BY <2>1, OfferKept, SnapshotAccepted DEF Launch!Fetched, AcceptsSnapshot, Checked
    <2>2. CASE ~Launch!Fetched(g)
      BY <2>2, OfferKept
      DEF Launch!Loads, Launch!Ends, Launch!FetchFails, Launch!Imported, Launch!ImportFails,
          Launch!MountFrame, Launch!FrameReady,
          Launch!FrameFails, Launch!Mounted, Launch!GameExited, Launch!Disposed, AcceptsSnapshot,
              Checked
    <2> QED BY <2>1, <2>2
  <1> QED BY <1>1, <1>2, <1>3, <1>4

LEMMA EffectShown ==
  ASSUME LaunchInv, Launch!EffectStarts
  PROVE  LaunchShown'
  <1> DEFINE g == Launch!Cardinality({h \in Launch!Generations : launchPc[h] # "none"}) + 1
  <1>1. /\ g \in Launch!Generations /\ effect = Launch!Nobody /\ effect' = g
        /\ launchPc' = [launchPc EXCEPT ![g] = "fetching"]
        /\ UNCHANGED <<offer, ref, aborted, launchGame>>
    BY DEF Launch!EffectStarts, Launch!Unchecked, Launch!deviceVars
  <1> HIDE DEF g
  <1>2. RefIsMine' /\ LoadsForMe' /\ OthersGo'
    BY <1>1 DEF LaunchInv, LaunchShown, Launch!TypeOK, RefIsMine, LoadsForMe, OthersGo,
        Launch!Nobody, Launch!Generations,
                Loading
  <1>3. AcceptsSnapshot'
    BY <1>1, OfferKept DEF LaunchInv, LaunchShown, Launch!TypeOK, AcceptsSnapshot, Checked
  <1> QED BY <1>2, <1>3 DEF LaunchShown

LEMMA GameShown ==
  ASSUME LaunchInv, Launch!GameEnds \/ Launch!LeaveBegins
  PROVE  LaunchShown'
  <1> USE DEF LaunchInv, LaunchShown, Launch!TypeOK, Launch!Unchecked, Launch!deviceVars
  <1>1. RefIsMine' /\ LoadsForMe'
    BY DEF Launch!GameEnds, Launch!LeaveBegins, RefIsMine, LoadsForMe
  <1>2. OthersGo'
    BY DEF Launch!GameEnds, Launch!LeaveBegins, OthersGo
  <1>3. AcceptsSnapshot'
    BY OfferKept DEF Launch!GameEnds, Launch!LeaveBegins, AcceptsSnapshot
  <1> QED BY <1>1, <1>2, <1>3

LEMMA LaunchStepShown ==
  ASSUME LaunchInv, Launch!Next
  PROVE  LaunchShown'
  <1> USE DEF ShownVars, Launch!Unchecked, Launch!deviceVars, Launch!gameVars
  <1>1. ASSUME NEW g \in Launch!Generations, Launch!Loads(g) \/ Launch!Ends(g) PROVE LaunchShown'
    BY <1>1, LoadsShown
  <1>2. ASSUME NEW s \in Launch!Scopes, Launch!Browser(s) PROVE LaunchShown'
    BY <1>2, ShownKept
    DEF LaunchInv, Launch!Browser, Launch!Granted, Launch!Denied, Launch!LockSettled,
        Launch!ScreenLeft
  <1>3. CASE Launch!Launch
    BY <1>3, ShownKept
    DEF LaunchInv, Launch!Launch, Launch!RunCreated, Launch!LaunchFails, Launch!FullscreenAwaited,
        Launch!RestoreAwaited
  <1>4. CASE Launch!LaunchClicked \/ Launch!Confirmed \/ Launch!Declined \/ Launch!Rotate
             \/ Launch!Escape \/ Launch!RetryFullscreen
    BY <1>4, ShownKept
    DEF LaunchInv, Launch!LaunchClicked, Launch!Confirmed, Launch!Declined, Launch!Rotate,
        Launch!Escape, Launch!RetryFullscreen
  <1>5. CASE Launch!GameEnds \/ Launch!LeaveBegins
    BY <1>5, GameShown
  <1>6. CASE Launch!Restart
    BY <1>6, CleanupShown DEF Launch!Restart
  <1>7. CASE Launch!Unmount
    BY <1>7, CleanupShown, ShownKept DEF LaunchInv, Launch!Unmount
  <1>8. CASE Launch!EffectStarts
    BY <1>8, EffectShown
  <1>9. CASE Launch!EffectStops
    BY <1>9, CleanupShown DEF Launch!EffectStops
  <1>10. CASE Launch!LeaveRestores \/ Launch!RunNotRemoved
    BY <1>10, ShownKept DEF LaunchInv, Launch!LeaveRestores, Launch!RunNotRemoved
  <1> QED BY <1>1, <1>2, <1>3, <1>4, <1>5, <1>6, <1>7, <1>8, <1>9, <1>10 DEF Launch!Next,
      Launch!User, Launch!Page
-------------------------------------------------------------------------------
(***************************************************************************)
(* The shape of the state.                                                 *)
(***************************************************************************)
ScopeStates == [prev : BOOLEAN, stopped : BOOLEAN, locked : BOOLEAN,
                enter : {"none", "asked", "undoing", "locking"},
                exits : BOOLEAN, hasty : BOOLEAN]

(* Whose page, click and screen it is.                                       *)
PageShape ==
  /\ offer \in Launch!Envelopes /\ phone \in BOOLEAN /\ launchPortrait \in BOOLEAN
  /\ launchPage \in {"launcher", "player"}
  /\ launchLaunch \in {"idle", "creating", "entering", "warned", "restoring", "asking", "failing"}
  /\ leaving \in {"no", "game", "screen"}
  /\ own \in BOOLEAN /\ launchScreen \in BOOLEAN
  /\ current \in 0 .. PlayScopes /\ session \in 0 .. PlayScopes /\ launchActive \in BOOLEAN
  /\ launchPage = "player" <=> session # Launch!Nobody
  /\ launchFaults \in 0 .. LaunchFaults
ScopeShape == scope \in [Launch!Scopes -> ScopeStates]
(* Which games there are.                                                    *)
GamesShape ==
  /\ effect \in 0 .. Effects /\ ref \in 0 .. Effects
  /\ launchPc \in [Launch!Generations -> Launch!Places]
  /\ aborted \subseteq Launch!Generations /\ frames \subseteq Launch!Generations
  /\ launchGame \in [Launch!Generations -> {"none", "created", "running", "exiting", "exited"}]
  /\ completed \in BOOLEAN /\ restore \in BOOLEAN
  /\ frames \cap aborted = {}
LauncherIsQuiet == launchPage = "launcher" => effect = Launch!Nobody /\ leaving = "no"

LEMMA ShapeIs == Launch!TypeOK <=> PageShape /\ ScopeShape /\ GamesShape /\ LauncherIsQuiet
  BY DEF Launch!TypeOK, PageShape, ScopeShape, GamesShape, LauncherIsQuiet, ScopeStates

LEMMA ShapeBecomes ==
  Launch!TypeOK' <=> PageShape' /\ ScopeShape' /\ GamesShape' /\ LauncherIsQuiet'
  BY DEF Launch!TypeOK, PageShape, ScopeShape, GamesShape, LauncherIsQuiet, ScopeStates

LEMMA ScopeFields ==
  ASSUME NEW r \in ScopeStates, NEW b \in BOOLEAN, NEW c \in BOOLEAN,
         NEW e \in {"none", "asked", "undoing", "locking"}
  PROVE  /\ [r EXCEPT !.stopped = TRUE] \in ScopeStates
         /\ [r EXCEPT !.enter = e] \in ScopeStates
         /\ [r EXCEPT !.locked = c, !.enter = e] \in ScopeStates
         /\ [r EXCEPT !.exits = FALSE, !.enter = e] \in ScopeStates
         /\ [r EXCEPT !.stopped = TRUE, !.locked = FALSE, !.exits = b] \in ScopeStates
  BY DEF ScopeStates

LEMMA EnteredShape ==
  ASSUME launchScreen \in BOOLEAN, phone \in BOOLEAN, NEW s \in ScopeStates
  PROVE  Launch!Entered(s) \in ScopeStates
  BY DEF Launch!Entered, ScopeStates

LEMMA RestoredShape ==
  ASSUME ScopeShape, launchScreen \in BOOLEAN, NEW s
  PROVE  Launch!Restored(s) \in [Launch!Scopes -> ScopeStates]
  <1>1. CASE s \notin Launch!Scopes
    BY <1>1 DEF Launch!Restored, ScopeShape
  <1>2. CASE s \in Launch!Scopes
    <2> DEFINE b == scope[s].exits \/ (launchScreen /\ ~scope[s].prev)
    <2>1. scope[s] \in ScopeStates /\ b \in BOOLEAN
      BY <1>2 DEF ScopeShape
    <2>2. /\ [scope[s] EXCEPT !.stopped = TRUE] \in ScopeStates
          /\ [scope[s] EXCEPT !.stopped = TRUE, !.locked = FALSE, !.exits = b] \in ScopeStates
      BY <2>1, ScopeFields
    <2> DEFINE closed == IF current # s THEN [scope[s] EXCEPT !.stopped = TRUE]
                         ELSE [scope[s] EXCEPT !.stopped = TRUE, !.locked = FALSE, !.exits = b]
    <2>3. closed \in ScopeStates
      BY <2>2
    <2>4. Launch!Restored(s) = [scope EXCEPT ![s] = closed]
      BY DEF Launch!Restored
    <2> HIDE DEF b, closed
    <2> QED BY <2>3, <2>4 DEF ScopeShape
  <1> QED BY <1>1, <1>2

LEMMA BeginShape ==
  ASSUME Launch!BoundsArePositive, ScopeShape, PageShape, Launch!Begin
  PROVE  ScopeShape' /\ current' \in 1 .. PlayScopes
  <1> DEFINE fresh == [Launch!NoScope EXCEPT !.prev = launchScreen,
                                             !.hasty = \E s \in Launch!Scopes : ~Launch!Settled(s)]
  <1>1. fresh \in ScopeStates
    BY DEF Launch!NoScope, ScopeStates, PageShape
  <1>2. Launch!Entered(fresh) \in ScopeStates
    BY <1>1, EnteredShape DEF PageShape
  <1>3. scope' = [scope EXCEPT ![current + 1] = Launch!Entered(fresh)] /\ current < PlayScopes
        /\ current' = current + 1
    BY DEF Launch!Begin
  <1> HIDE DEF fresh
  <1>4. current' \in 1 .. PlayScopes
    BY <1>3 DEF PageShape, Launch!BoundsArePositive
  <1>5. ScopeShape'
    BY <1>2, <1>3 DEF ScopeShape
  <1> QED BY <1>4, <1>5

LEMMA NobodyIsNoScope == Launch!BoundsArePositive => Launch!Nobody \in 0 .. PlayScopes
  BY DEF Launch!Nobody, Launch!BoundsArePositive

LEMMA BrowserShape ==
  ASSUME Launch!BoundsArePositive, LaunchInv, NEW s \in Launch!Scopes, Launch!Browser(s)
  PROVE  Launch!TypeOK' /\ ClickHasScope'
  <1> USE ShapeIs DEF LaunchInv, Launch!BoundsArePositive, Launch!Fault, Launch!deviceVars,
      Launch!gameVars
  <1>1. ScopeShape'
    <2>1. scope[s] \in ScopeStates
      BY DEF ScopeShape
    <2>2. CASE Launch!Denied(s) \/ Launch!LockSettled(s)
      <3>1. [scope[s] EXCEPT !.enter = "none"] \in ScopeStates
        BY <2>1, ScopeFields
      <3>2. scope' = [scope EXCEPT ![s] = [scope[s] EXCEPT !.enter = "none"]]
        BY <2>2 DEF Launch!Denied, Launch!LockSettled
      <3> QED BY <3>1, <3>2 DEF ScopeShape
    <2>3. CASE Launch!Granted(s)
      <3>1. ASSUME NEW e \in {"none", "asked", "undoing", "locking"}
            PROVE  /\ [scope[s] EXCEPT !.enter = e] \in ScopeStates
                   /\ [scope[s] EXCEPT !.locked = phone, !.enter = e] \in ScopeStates
        BY <2>1, ScopeFields DEF PageShape
      <3>2. \E e \in {"none", "undoing", "locking"} :
              scope' \in {[scope EXCEPT ![s] = [scope[s] EXCEPT !.enter = e]],
                          [scope EXCEPT ![s] = [scope[s] EXCEPT !.locked = phone, !.enter = e]]}
        BY <2>3 DEF Launch!Granted
      <3> QED BY <3>1, <3>2 DEF ScopeShape
    <2>4. CASE Launch!ScreenLeft(s)
      <3> DEFINE e == IF scope[s].enter = "undoing" THEN "none" ELSE scope[s].enter
      <3>1. e \in {"none", "asked", "undoing", "locking"}
        BY <2>1 DEF ScopeStates
      <3>2. scope' = [scope EXCEPT ![s] = [scope[s] EXCEPT !.exits = FALSE, !.enter = e]]
        BY <2>4 DEF Launch!ScreenLeft, ScopeShape
      <3> HIDE DEF e
      <3>3. [scope[s] EXCEPT !.exits = FALSE, !.enter = e] \in ScopeStates
        BY <2>1, <3>1, ScopeFields
      <3> QED BY <3>2, <3>3 DEF ScopeShape
    <2> QED BY <2>2, <2>3, <2>4 DEF Launch!Browser
  <1>2. PageShape' /\ LauncherIsQuiet' /\ ClickHasScope'
    <2>1. launchScreen' \in BOOLEAN
      BY DEF Launch!Browser, Launch!Granted, Launch!Denied, Launch!LockSettled, Launch!ScreenLeft,
          PageShape
    <2>3. launchFaults' \in 0 .. LaunchFaults
      <3>1. launchFaults' = launchFaults \/ Launch!Denied(s)
        BY DEF Launch!Browser, Launch!Granted, Launch!LockSettled, Launch!ScreenLeft
      <3> QED BY <3>1 DEF Launch!Denied, PageShape
    <2>2. UNCHANGED <<offer, phone, launchPortrait, launchPage, launchLaunch, leaving, own,
                      current, session, launchActive,
                      effect>>
      BY DEF Launch!Browser, Launch!Granted, Launch!Denied, Launch!LockSettled, Launch!ScreenLeft
    <2> QED BY <2>1, <2>2, <2>3 DEF PageShape, LauncherIsQuiet, ClickHasScope
  <1>3. GamesShape'
    BY DEF Launch!Browser, Launch!Granted, Launch!Denied, Launch!LockSettled, Launch!ScreenLeft,
        GamesShape
  <1> QED BY <1>1, <1>2, <1>3, ShapeBecomes

LEMMA LoadsShape ==
  ASSUME Launch!BoundsArePositive, LaunchInv, NEW g \in Launch!Generations,
         Launch!Loads(g) \/ Launch!Ends(g)
  PROVE  Launch!TypeOK' /\ ClickHasScope'
  <1> USE ShapeIs DEF LaunchInv, Launch!BoundsArePositive, Launch!Fault, Launch!deviceVars,
      Launch!screenVars, Launch!Unchecked
  <1>1. ScopeShape' /\ PageShape' /\ ClickHasScope' /\ UNCHANGED <<effect, launchPage, leaving>>
    BY DEF Launch!Loads, Launch!Ends, Launch!Fetched, Launch!FetchFails, Launch!Imported,
        Launch!ImportFails, Launch!MountFrame, Launch!FrameReady,
           Launch!FrameFails, Launch!Mounted, Launch!GameExited, Launch!Disposed, ScopeShape,
               PageShape, ClickHasScope
  <1>2. GamesShape'
    <2>1. UNCHANGED <<effect, restore>> /\ ref' \in {ref, g} /\ completed' \in {completed, TRUE}
      BY DEF Launch!Loads, Launch!Ends, Launch!Fetched, Launch!FetchFails, Launch!Imported,
          Launch!ImportFails, Launch!MountFrame, Launch!FrameReady,
             Launch!FrameFails, Launch!Mounted, Launch!GameExited, Launch!Disposed
    <2>5. ref' \in 0 .. Effects
      BY <2>1 DEF GamesShape, Launch!Generations
    <2>6. completed' \in BOOLEAN
      BY <2>1 DEF GamesShape
    <2>2. launchPc' \in [Launch!Generations -> Launch!Places]
      BY DEF Launch!Loads, Launch!Ends, Launch!Fetched, Launch!FetchFails, Launch!Imported,
          Launch!ImportFails, Launch!MountFrame, Launch!FrameReady,
             Launch!FrameFails, Launch!Mounted, Launch!GameExited, Launch!Disposed, GamesShape,
                 Launch!GoesTo, Launch!Places
    <2>3. /\ aborted' \subseteq Launch!Generations /\ frames' \subseteq Launch!Generations
          /\ frames' \cap aborted' = {}
      BY DEF Launch!Loads, Launch!Ends, Launch!Fetched, Launch!FetchFails, Launch!Imported,
          Launch!ImportFails, Launch!MountFrame, Launch!FrameReady,
             Launch!FrameFails, Launch!Mounted, Launch!GameExited, Launch!Disposed, GamesShape
    <2>4. launchGame' \in [Launch!Generations ->
                             {"none", "created", "running", "exiting", "exited"}]
      BY DEF Launch!Loads, Launch!Ends, Launch!Fetched, Launch!FetchFails, Launch!Imported,
          Launch!ImportFails, Launch!MountFrame, Launch!FrameReady,
             Launch!FrameFails, Launch!Mounted, Launch!GameExited, Launch!Disposed, GamesShape
    <2> QED BY <2>1, <2>2, <2>3, <2>4, <2>5, <2>6 DEF GamesShape
  <1>3. LauncherIsQuiet'
    BY <1>1 DEF LauncherIsQuiet
  <1> QED BY <1>1, <1>2, <1>3, ShapeBecomes

LEMMA ClickShape ==
  ASSUME Launch!BoundsArePositive, LaunchInv,
         Launch!Launch \/ Launch!LaunchClicked \/ Launch!Confirmed \/ Launch!Declined
  PROVE  Launch!TypeOK' /\ ClickHasScope'
  <1> USE ShapeIs DEF LaunchInv, Launch!BoundsArePositive, Launch!Fault, Launch!deviceVars,
      Launch!screenVars, Launch!gameVars
  <1>1. GamesShape'
    BY DEF Launch!Launch, Launch!RunCreated, Launch!LaunchFails, Launch!FullscreenAwaited,
        Launch!RestoreAwaited, Launch!LaunchClicked,
           Launch!Confirmed, Launch!Declined, GamesShape
  <1>2. CASE Launch!LaunchClicked \/ Launch!Confirmed
    <2>1. ScopeShape' /\ current' \in 1 .. PlayScopes
      BY <1>2, BeginShape DEF Launch!LaunchClicked, Launch!Confirmed
    <2>2. PageShape' /\ LauncherIsQuiet' /\ ClickHasScope'
      BY <1>2, <2>1 DEF Launch!LaunchClicked, Launch!Confirmed, PageShape, LauncherIsQuiet,
          ClickHasScope, Launch!Nobody
    <2> QED BY <1>1, <2>1, <2>2, ShapeBecomes
  <1>3. CASE Launch!Launch \/ Launch!Declined
    <2>1. ScopeShape'
      BY <1>3, RestoredShape
      DEF Launch!Launch, Launch!RunCreated, Launch!LaunchFails, Launch!FullscreenAwaited,
          Launch!RestoreAwaited, Launch!Declined, ScopeShape,
          PageShape
    <2>2. UNCHANGED <<offer, phone, launchPortrait, own, launchScreen, current, effect, leaving>>
      BY <1>3 DEF Launch!Launch, Launch!RunCreated, Launch!LaunchFails, Launch!FullscreenAwaited,
          Launch!RestoreAwaited, Launch!Declined
    <2>3. launchFaults' \in 0 .. LaunchFaults
      BY <1>3
      DEF Launch!Launch, Launch!RunCreated, Launch!LaunchFails, Launch!FullscreenAwaited,
          Launch!RestoreAwaited, Launch!Declined, PageShape
    <2>4. /\ launchLaunch' \in
               {"idle", "creating", "entering", "warned", "restoring", "asking", "failing"}
          /\ launchLaunch # "idle"
      BY <1>3
      DEF Launch!Launch, Launch!RunCreated, Launch!LaunchFails, Launch!FullscreenAwaited,
          Launch!RestoreAwaited, Launch!Declined, Launch!Enter
    <2>5. \/ UNCHANGED <<launchPage, session, launchActive>>
          \/ launchPage' = "player" /\ session' = current /\ launchActive' = TRUE
      BY <1>3
      DEF Launch!Launch, Launch!RunCreated, Launch!LaunchFails, Launch!FullscreenAwaited,
          Launch!RestoreAwaited, Launch!Declined, Launch!Enter
    <2>6. PageShape' /\ LauncherIsQuiet' /\ ClickHasScope'
      BY <2>2, <2>3, <2>4, <2>5 DEF PageShape, LauncherIsQuiet, ClickHasScope
    <2> QED BY <1>1, <2>1, <2>6, ShapeBecomes
  <1> QED BY <1>2, <1>3

LEMMA UserShape ==
  ASSUME Launch!BoundsArePositive, LaunchInv,
         Launch!Rotate \/ Launch!Escape \/ Launch!RetryFullscreen \/ Launch!GameEnds
             \/ Launch!LeaveBegins
  PROVE  Launch!TypeOK' /\ ClickHasScope'
  <1> USE ShapeIs DEF LaunchInv, Launch!BoundsArePositive, Launch!Fault, Launch!deviceVars,
      Launch!screenVars, Launch!gameVars,
                      Launch!Unchecked
  <1>1. GamesShape'
    BY DEF Launch!Rotate, Launch!Escape, Launch!RetryFullscreen, Launch!GameEnds,
        Launch!LeaveBegins, GamesShape
  <1>2. ScopeShape'
    <2>1. CASE Launch!RetryFullscreen
      <3>1. scope' = [scope EXCEPT ![session] = Launch!Entered(scope[session])]
        BY <2>1 DEF Launch!RetryFullscreen
      <3>2. session \in Launch!Scopes => Launch!Entered(scope[session]) \in ScopeStates
        BY EnteredShape DEF ScopeShape, PageShape
      <3> QED BY <3>1, <3>2 DEF ScopeShape
    <2>2. CASE Launch!LeaveBegins
      BY <2>2 DEF Launch!LeaveBegins, ScopeShape, ScopeStates
    <2>3. CASE Launch!Rotate \/ Launch!Escape \/ Launch!GameEnds
      BY <2>3 DEF Launch!Rotate, Launch!Escape, Launch!GameEnds, ScopeShape
    <2> QED BY <2>1, <2>2, <2>3
  <1>3. PageShape' /\ LauncherIsQuiet' /\ ClickHasScope'
    <2>1. launchScreen' \in BOOLEAN /\ launchPortrait' \in BOOLEAN /\ launchActive' \in BOOLEAN
      BY DEF Launch!Rotate, Launch!Escape, Launch!RetryFullscreen, Launch!GameEnds,
          Launch!LeaveBegins, PageShape
    <2>2. launchFaults' \in 0 .. LaunchFaults /\ leaving' \in {"no", "game", "screen"}
      BY DEF Launch!Rotate, Launch!Escape, Launch!RetryFullscreen, Launch!GameEnds,
          Launch!LeaveBegins, PageShape
    <2>3. UNCHANGED <<offer, phone, launchPage, launchLaunch, own, current, session, effect>>
      BY DEF Launch!Rotate, Launch!Escape, Launch!RetryFullscreen, Launch!GameEnds,
          Launch!LeaveBegins
    <2>4. leaving' = leaving \/ launchPage = "player"
      BY DEF Launch!Rotate, Launch!Escape, Launch!RetryFullscreen, Launch!GameEnds,
          Launch!LeaveBegins
    <2> QED BY <2>1, <2>2, <2>3, <2>4 DEF PageShape, LauncherIsQuiet, ClickHasScope
  <1> QED BY <1>1, <1>2, <1>3, ShapeBecomes

LEMMA CleanupShape ==
  ASSUME Launch!BoundsArePositive, GamesShape, effect # Launch!Nobody, Launch!Cleanup,
         completed' \in BOOLEAN, restore' \in BOOLEAN
  PROVE  GamesShape' /\ effect' = Launch!Nobody
  <1>1. effect \in Launch!Generations
    BY DEF GamesShape, Launch!Nobody, Launch!Generations
  <1>2. effect' = Launch!Nobody /\ ref' = Launch!Nobody
    BY DEF Launch!Cleanup
  <1>3. launchPc' \in [Launch!Generations -> Launch!Places]
    BY <1>1 DEF Launch!Cleanup, Launch!GoesTo, GamesShape, Launch!Places
  <1>4. /\ aborted' \subseteq Launch!Generations /\ frames' \subseteq Launch!Generations
        /\ frames' \cap aborted' = {}
    BY <1>1 DEF Launch!Cleanup, GamesShape
  <1>5. launchGame' \in [Launch!Generations -> {"none", "created", "running", "exiting", "exited"}]
    BY <1>1 DEF Launch!Cleanup, GamesShape
  <1> QED BY <1>2, <1>3, <1>4, <1>5 DEF GamesShape, Launch!Nobody, Launch!BoundsArePositive

LEMMA EffectShape ==
  ASSUME Launch!BoundsArePositive, LaunchInv,
         Launch!EffectStarts \/ Launch!EffectStops \/ Launch!Restart
  PROVE  Launch!TypeOK' /\ ClickHasScope'
  <1> USE ShapeIs DEF LaunchInv, Launch!deviceVars, Launch!screenVars, Launch!Unchecked
  <1>1. GamesShape'
    <2>1. CASE Launch!EffectStarts
      <3> DEFINE g == Launch!Cardinality({h \in Launch!Generations : launchPc[h] # "none"}) + 1
      <3>1. /\ g \in Launch!Generations /\ effect' = g
            /\ launchPc' = [launchPc EXCEPT ![g] = "fetching"]
            /\ UNCHANGED <<ref, aborted, launchGame, frames, completed, restore>>
        BY <2>1 DEF Launch!EffectStarts
      <3> HIDE DEF g
      <3> QED BY <3>1 DEF GamesShape, Launch!Places, Launch!Generations
    <2>2. CASE Launch!EffectStops \/ Launch!Restart
      BY <2>2, CleanupShape DEF Launch!EffectStops, Launch!Restart, GamesShape
    <2> QED BY <2>1, <2>2
  <1>2. ScopeShape' /\ PageShape' /\ ClickHasScope'
    BY DEF Launch!EffectStarts, Launch!EffectStops, Launch!Restart, ScopeShape, PageShape,
        ClickHasScope
  <1>3. LauncherIsQuiet'
    <2>1. CASE Launch!EffectStarts
      BY <2>1 DEF Launch!EffectStarts, LauncherIsQuiet
    <2>2. CASE Launch!EffectStops \/ Launch!Restart
      BY <2>2, CleanupShape DEF Launch!EffectStops, Launch!Restart, LauncherIsQuiet, GamesShape
    <2> QED BY <2>1, <2>2
  <1> QED BY <1>1, <1>2, <1>3, ShapeBecomes

LEMMA LeavingShape ==
  ASSUME Launch!BoundsArePositive, LaunchInv,
         Launch!LeaveRestores \/ Launch!RunNotRemoved \/ Launch!Unmount
  PROVE  Launch!TypeOK' /\ ClickHasScope'
  <1> USE ShapeIs DEF LaunchInv, Launch!BoundsArePositive, Launch!Fault, Launch!deviceVars,
      Launch!screenVars, Launch!gameVars
  <1>1. GamesShape' /\ (Launch!Unmount => effect' = Launch!Nobody)
    BY CleanupShape DEF Launch!LeaveRestores, Launch!RunNotRemoved, Launch!Unmount, GamesShape
  <1>2. ScopeShape'
    BY RestoredShape DEF Launch!LeaveRestores, Launch!RunNotRemoved, Launch!Unmount, ScopeShape,
        PageShape
  <1>3. PageShape' /\ ClickHasScope'
    <2>1. launchFaults' \in 0 .. LaunchFaults /\ leaving' \in {"no", "game", "screen"}
      BY DEF Launch!LeaveRestores, Launch!RunNotRemoved, Launch!Unmount, PageShape
    <2>2. UNCHANGED <<offer, phone, launchPortrait, launchLaunch, own, launchScreen, current>>
      BY DEF Launch!LeaveRestores, Launch!RunNotRemoved, Launch!Unmount
    <2>3. \/ UNCHANGED <<launchPage, session, launchActive>>
          \/ launchPage' = "launcher" /\ session' = Launch!Nobody /\ launchActive' = FALSE
      BY DEF Launch!LeaveRestores, Launch!RunNotRemoved, Launch!Unmount
    <2> QED BY <2>1, <2>2, <2>3, NobodyIsNoScope DEF PageShape, ClickHasScope
  <1>4. LauncherIsQuiet'
    BY <1>1 DEF Launch!LeaveRestores, Launch!RunNotRemoved, Launch!Unmount, LauncherIsQuiet
  <1> QED BY <1>1, <1>2, <1>3, <1>4, ShapeBecomes
-------------------------------------------------------------------------------
LEMMA LaunchStep ==
  ASSUME Launch!BoundsArePositive, LaunchInv, Launch!Next
  PROVE  LaunchInv'
  <1>1. Launch!TypeOK' /\ ClickHasScope'
    BY BrowserShape, LoadsShape, ClickShape, UserShape, EffectShape, LeavingShape
    DEF Launch!Next, Launch!User, Launch!Page
  <1> QED BY <1>1, LaunchStepShown DEF LaunchInv

LEMMA LaunchRests ==
  ASSUME LaunchInv, UNCHANGED Launch!vars
  PROVE  LaunchInv'
  <1>1. LaunchShown'
    BY ShownKept DEF LaunchInv, Launch!vars, ShownVars
  <1>2. Launch!TypeOK' /\ ClickHasScope'
    BY DEF LaunchInv, Launch!vars, Launch!TypeOK, ClickHasScope
  <1> QED BY <1>1, <1>2 DEF LaunchInv

LEMMA SaysLaunchIsMine ==
  ASSUME LaunchInv
  PROVE  Launch!TypeOK /\ Launch!ShownIsMine /\ Launch!RestartAccepted
  BY DEF LaunchInv, LaunchShown, RefIsMine, OthersGo, AcceptsSnapshot, Launch!ShownIsMine,
      Launch!RestartAccepted, Checked

-------------------------------------------------------------------------------
(* Who commands a game.                                                      *)

Follows == {"save", "exit", "settings", "editor"}
Commands == [op : {"pause", "resume"}, by : Screen!Actors]
Turns == [target : {"PAUSED", "RUNNING"}, follow : SUBSET Follows, sent : BOOLEAN]
GateStates == [at : {"idle", "pausing", "resuming"}, owns : BOOLEAN]
ExitStates ==
  [at : {"closed", "waiting", "pausing", "open", "neutral", "resuming"}, paused : BOOLEAN]

ScreenTypes ==
  /\ screenGame \in {"RUNNING", "PAUSED", "CHECKPOINTING", "EXITED"}
  /\ before \in {"RUNNING", "PAUSED"}
  /\ cmds \in Seq(Commands) /\ surf \in Seq(Turns) /\ todo \subseteq Follows
  /\ gate \in GateStates /\ screenExit \in ExitStates
  /\ word \in {"none", "PAUSED", "RUNNING"}

(* Of those who wait for a command of the game, w is one, or none is.        *)
OneOf(q, w) == \E i \in DOMAIN q : q[i].by = w /\ \A j \in DOMAIN q : q[j].by = w => j = i
NoneOf(q, w) == \A i \in DOMAIN q : q[i].by # w

(* Who waits has one command in the game.                                    *)
Sent == surf # <<>> /\ surf[1].sent
WaitInv ==
  /\ gate.at # "idle" => OneOf(cmds, "gate")
  /\ gate.at = "idle" => NoneOf(cmds, "gate")
  /\ Sent => OneOf(cmds, "surface")
  /\ ~Sent => NoneOf(cmds, "surface")
  /\ screenExit.at \in {"pausing", "resuming"} => OneOf(cmds, "exit")
  /\ screenExit.at \notin {"pausing", "resuming"} => NoneOf(cmds, "exit")
  /\ editor = "opening" => OneOf(cmds, "editor")
  /\ editor # "opening" => NoneOf(cmds, "editor")

(* The first transition alone is sent, as what it goes to.                    *)
Order(target) == IF target = "PAUSED" THEN "pause" ELSE "resume"
SurfInv ==
  /\ \A i \in DOMAIN surf : surf[i].sent => i = 1
  /\ \A i \in DOMAIN cmds :
       cmds[i].by = "surface" => surf # <<>> /\ cmds[i].op = Order(surf[1].target)

(* With a pointer the gate never acts; a dialog that paused the game silenced *)
(* the user's word.                                                          *)
QuietInv ==
  /\ Screen!Pointer => ~screenPortrait /\ gate = Screen!NoGate
  /\ gate.owns => gate.at # "resuming"
  /\ screenExit.paused => screenExit.at # "closed" /\ word = "none"
  /\ saving = "taking" <=> screenGame = "CHECKPOINTING"

(* A word that counts is on its way: where the last transition goes, or, when  *)
(* all have ended, where the game is or will be after its checkpoint.          *)
WordInv ==
  Screen!Pointer /\ word # "none" =>
    /\ \A i \in DOMAIN cmds : cmds[i].by = "surface"
    /\ surf # <<>> => surf[Len(surf)].target = word
    /\ surf = <<>> => \/ screenGame = "EXITED" \/ screenGame = word
                      \/ screenGame = "CHECKPOINTING" /\ before = word

ScreenInv == ScreenTypes /\ WaitInv /\ SurfInv /\ QuietInv /\ WordInv
-------------------------------------------------------------------------------
LEMMA Adding ==
  ASSUME NEW q \in Seq(Commands), NEW c \in Commands, NEW w
  PROVE  /\ Append(q, c) \in Seq(Commands)
         /\ c.by # w => /\ OneOf(q, w) => OneOf(Append(q, c), w)
                        /\ NoneOf(q, w) => NoneOf(Append(q, c), w)
         /\ c.by = w /\ NoneOf(q, w) => OneOf(Append(q, c), w)
<1> DEFINE r == Append(q, c)
<1>1. /\ r \in Seq(Commands) /\ DOMAIN q = 1 .. Len(q) /\ DOMAIN r = 1 .. Len(q) + 1
      /\ Len(q) \in Nat /\ r[Len(q) + 1] = c /\ \A i \in 1 .. Len(q) : r[i] = q[i]
  OBVIOUS
<1> HIDE DEF r
<1>2. ASSUME c.by # w, OneOf(q, w) PROVE OneOf(r, w)
  BY <1>1, <1>2 DEF OneOf
<1>3. ASSUME c.by # w, NoneOf(q, w) PROVE NoneOf(r, w)
  BY <1>1, <1>3 DEF NoneOf
<1>4. ASSUME c.by = w, NoneOf(q, w) PROVE OneOf(r, w)
  <2>1. Len(q) + 1 \in DOMAIN r /\ r[Len(q) + 1].by = w
    BY <1>1, <1>4
  <2>2. ASSUME NEW j \in DOMAIN r, r[j].by = w PROVE j = Len(q) + 1
    BY <1>1, <1>4, <2>2 DEF NoneOf
  <2> QED BY <2>1, <2>2 DEF OneOf
<1> QED BY <1>1, <1>2, <1>3, <1>4 DEF r

LEMMA Dropping ==
  ASSUME NEW q \in Seq(Commands), q # <<>>, NEW w
  PROVE  /\ Tail(q) \in Seq(Commands) /\ Head(q) \in Commands /\ Head(q) = q[1] /\ 1 \in DOMAIN q
         /\ \A i \in DOMAIN Tail(q) : i + 1 \in DOMAIN q /\ Tail(q)[i] = q[i + 1]
         /\ Head(q).by # w => /\ OneOf(q, w) => OneOf(Tail(q), w)
                              /\ NoneOf(q, w) => NoneOf(Tail(q), w)
         /\ Head(q).by = w => ~NoneOf(q, w) /\ (OneOf(q, w) => NoneOf(Tail(q), w))
<1> DEFINE r == Tail(q)
<1>1. /\ r \in Seq(Commands) /\ Head(q) \in Commands /\ Head(q) = q[1] /\ 1 \in DOMAIN q
      /\ Len(q) \in Nat /\ DOMAIN q = 1 .. Len(q) /\ DOMAIN r = 1 .. Len(q) - 1
      /\ \A i \in DOMAIN r : i + 1 \in DOMAIN q /\ r[i] = q[i + 1]
  OBVIOUS
<1> HIDE DEF r
<1>2. ASSUME Head(q).by # w, OneOf(q, w) PROVE OneOf(r, w)
  <2>1. PICK i \in DOMAIN q : q[i].by = w /\ \A j \in DOMAIN q : q[j].by = w => j = i
    BY <1>2 DEF OneOf
  <2>2. i # 1 /\ i - 1 \in DOMAIN r /\ r[i - 1] = q[i]
    BY <1>1, <1>2, <2>1
  <2>3. ASSUME NEW j \in DOMAIN r, r[j].by = w PROVE j = i - 1
    BY <1>1, <2>1, <2>3
  <2> QED BY <2>1, <2>2, <2>3 DEF OneOf
<1>3. ASSUME Head(q).by # w, NoneOf(q, w) PROVE NoneOf(r, w)
  BY <1>1, <1>3 DEF NoneOf
<1>4. ASSUME Head(q).by = w, OneOf(q, w) PROVE NoneOf(r, w)
  <2> SUFFICES ASSUME NEW i \in DOMAIN r, r[i].by = w PROVE FALSE
    BY DEF NoneOf
  <2>1. i + 1 \in DOMAIN q /\ q[i + 1].by = w /\ q[1].by = w /\ i \in Nat /\ i > 0
    BY <1>1, <1>4
  <2>2. i + 1 = 1
    BY <1>1, <1>4, <2>1 DEF OneOf
  <2> QED BY <2>1, <2>2
<1>5. Head(q).by = w => ~NoneOf(q, w)
  BY <1>1 DEF NoneOf
<1> QED BY <1>1, <1>2, <1>3, <1>4, <1>5 DEF r
-------------------------------------------------------------------------------
(* What the steps make of the chain of transitions.                          *)
LEMMA SurfOf ==
  ASSUME NEW s \in Seq(Turns)
  PROVE  /\ Len(s) \in Nat /\ DOMAIN s = 1 .. Len(s) /\ \A i \in DOMAIN s : s[i] \in Turns
         /\ s # <<>> => Head(s) = s[1] /\ 1 \in DOMAIN s /\ Len(s) \in DOMAIN s
         /\ s = <<>> => DOMAIN s = {}
OBVIOUS

LEMMA SurfSends ==
  ASSUME NEW s \in Seq(Turns), s # <<>>
  PROVE  LET t == [s EXCEPT ![1].sent = TRUE] IN
           /\ t \in Seq(Turns) /\ t # <<>> /\ Len(t) = Len(s) /\ t[1].sent
           /\ \A i \in DOMAIN s : t[i].target = s[i].target /\ (i # 1 => t[i] = s[i])
<1> DEFINE m == [s[1] EXCEPT !.sent = TRUE]
<1> DEFINE t == [s EXCEPT ![1] = m]
<1>1. 1 \in DOMAIN s /\ DOMAIN s = 1 .. Len(s) /\ Len(s) \in Nat /\ s[1] \in Turns
  BY SurfOf
<1>2. m \in Turns /\ m.sent = TRUE /\ m.target = s[1].target
  BY <1>1 DEF Turns
<1> HIDE DEF m
<1>3. t \in [1 .. Len(s) -> Turns] /\ t[1] = m /\ \A i \in DOMAIN s : i # 1 => t[i] = s[i]
  BY <1>1, <1>2, SurfOf
<1>4. t \in Seq(Turns) /\ Len(t) = Len(s)
  BY <1>1, <1>3
<1> HIDE DEF t
<1>5. /\ t # <<>> /\ t[1].sent
      /\ \A i \in DOMAIN s : t[i].target = s[i].target /\ (i # 1 => t[i] = s[i])
  BY <1>1, <1>2, <1>3, <1>4
<1> QED BY <1>4, <1>5 DEF t, m

LEMMA SurfJoins ==
  ASSUME NEW s \in Seq(Turns), s # <<>>, NEW f \in SUBSET Follows
  PROVE  LET t == [s EXCEPT ![Len(s)].follow = @ \cup f] IN
           /\ t \in Seq(Turns) /\ t # <<>> /\ Len(t) = Len(s)
           /\ \A i \in DOMAIN s : t[i].target = s[i].target /\ t[i].sent = s[i].sent
<1> DEFINE m == [s[Len(s)] EXCEPT !.follow = @ \cup f]
<1> DEFINE t == [s EXCEPT ![Len(s)] = m]
<1>1. Len(s) \in DOMAIN s /\ DOMAIN s = 1 .. Len(s) /\ Len(s) \in Nat /\ s[Len(s)] \in Turns
  BY SurfOf
<1>2. m \in Turns /\ m.sent = s[Len(s)].sent /\ m.target = s[Len(s)].target
  BY <1>1 DEF Turns
<1> HIDE DEF m
<1>3. t \in [1 .. Len(s) -> Turns] /\ t[Len(s)] = m /\ \A i \in DOMAIN s : i # Len(s) => t[i] = s[i]
  BY <1>1, <1>2, SurfOf
<1>4. t \in Seq(Turns) /\ Len(t) = Len(s)
  BY <1>1, <1>3
<1> HIDE DEF t
<1>5. t # <<>> /\ \A i \in DOMAIN s : t[i].target = s[i].target /\ t[i].sent = s[i].sent
  BY <1>1, <1>2, <1>3, <1>4
<1> QED BY <1>4, <1>5 DEF t, m

LEMMA SurfAdds ==
  ASSUME NEW s \in Seq(Turns), NEW m \in Turns
  PROVE  /\ Append(s, m) \in Seq(Turns) /\ Append(s, m) # <<>> /\ Len(Append(s, m)) = Len(s) + 1
         /\ Append(s, m)[Len(s) + 1] = m
         /\ \A i \in DOMAIN s : Append(s, m)[i] = s[i]
OBVIOUS

LEMMA SurfEnds ==
  ASSUME NEW s \in Seq(Turns), s # <<>>
  PROVE  /\ Tail(s) \in Seq(Turns) /\ Len(Tail(s)) = Len(s) - 1
         /\ \A i \in DOMAIN Tail(s) : i + 1 \in DOMAIN s /\ Tail(s)[i] = s[i + 1]
OBVIOUS
-------------------------------------------------------------------------------
(* What a command makes of those who wait: one more of its own.                *)
LEMMA Issuing ==
  ASSUME ScreenTypes, NEW what \in {"pause", "resume"}, NEW by \in Screen!Actors,
         Screen!Issues(what, by)
  PROVE  /\ cmds' \in Seq(Commands)
         /\ \A w \in Screen!Actors \ {by} :
              /\ OneOf(cmds, w) => OneOf(cmds', w)
              /\ NoneOf(cmds, w) => NoneOf(cmds', w)
         /\ NoneOf(cmds, by) => OneOf(cmds', by)
         /\ \A i \in DOMAIN cmds' :
              \/ i \in DOMAIN cmds /\ cmds'[i] = cmds[i]
              \/ cmds'[i].by = by /\ cmds'[i].op = what
<1> DEFINE c == [op |-> what, by |-> by]
<1>1. c \in Commands /\ c.by = by /\ c.op = what
  BY DEF Commands
<1>2. cmds' = Append(cmds, c) /\ cmds \in Seq(Commands)
  BY DEF Screen!Issues, ScreenTypes
<1> HIDE DEF c
<1>3. \A i \in DOMAIN Append(cmds, c) :
        (i \in DOMAIN cmds /\ Append(cmds, c)[i] = cmds[i]) \/ Append(cmds, c)[i] = c
  BY <1>1, <1>2
<1> QED BY <1>1, <1>2, <1>3, Adding

LEMMA Quiet ==
  ASSUME ScreenInv, UNCHANGED <<device, screenPortrait, screenGame, before, cmds, gate, surf,
                                screenExit, word>>,
         todo' \subseteq Follows, saving' = "taking" <=> saving = "taking",
         editor' = "opening" <=> editor = "opening"
  PROVE  ScreenInv'
<1>1. ScreenTypes' /\ SurfInv'
  BY DEF ScreenInv, ScreenTypes, SurfInv
<1>2. WaitInv'
  BY DEF ScreenInv, WaitInv, Sent
<1>3. QuietInv' /\ WordInv'
  BY DEF ScreenInv, QuietInv, WordInv, Screen!Pointer
<1> QED BY <1>1, <1>2, <1>3 DEF ScreenInv

LEMMA ScreenStarts ==
  ASSUME Screen!Init
  PROVE  ScreenInv
<1>1. ScreenTypes
  BY DEF Screen!Init, ScreenTypes, Screen!NoGate, Screen!NoExit, GateStates, ExitStates
<1>2. WaitInv /\ SurfInv
  BY DEF Screen!Init, WaitInv, SurfInv, Sent, NoneOf, Screen!NoGate, Screen!NoExit
<1>3. QuietInv /\ WordInv
  BY DEF Screen!Init, QuietInv, WordInv, Screen!NoGate, Screen!NoExit
<1> QED BY <1>1, <1>2, <1>3 DEF ScreenInv

(* A command of one who is not the surface, which leaves the word without force.*)
LEMMA OthersIssue ==
  ASSUME ScreenInv, NEW what \in {"pause", "resume"}, NEW by \in Screen!Actors \ {"surface"},
         Screen!Issues(what, by),
         UNCHANGED <<device, screenPortrait, screenGame, before, surf,
                     saving>>, todo' \subseteq Follows,
         word' \in {"none", "PAUSED", "RUNNING"}, Screen!Pointer => word' = "none",
         gate' \in GateStates, screenExit' \in ExitStates, gate'.owns => gate'.at # "resuming",
         Screen!Pointer => gate' = Screen!NoGate,
         screenExit'.paused => screenExit'.at # "closed" /\ word' = "none",
         IF by = "gate" THEN gate.at = "idle" /\ gate'.at # "idle" ELSE gate'.at = gate.at,
         IF by = "exit" THEN /\ screenExit.at \notin {"pausing", "resuming"}
                             /\ screenExit'.at \in {"pausing", "resuming"}
         ELSE screenExit' = screenExit,
         IF by = "editor" THEN editor # "opening" /\ editor' = "opening" ELSE editor' = editor
  PROVE  ScreenInv'
<1> USE DEF ScreenInv
<1>1. ScreenTypes'
  BY Issuing DEF ScreenTypes
<1>2. WaitInv'
  <2>1. Sent' <=> Sent
    BY DEF Sent
  <2> QED BY <2>1, Issuing DEF WaitInv, Screen!Actors
<1>3. SurfInv'
  <2>1. ASSUME NEW i \in DOMAIN cmds', cmds'[i].by = "surface"
        PROVE  surf' # <<>> /\ cmds'[i].op = Order(surf'[1].target)
    <3>1. i \in DOMAIN cmds /\ cmds'[i] = cmds[i]
      BY <2>1, Issuing
    <3> QED BY <2>1, <3>1 DEF SurfInv
  <2> QED BY <2>1 DEF SurfInv
<1>4. QuietInv'
  BY DEF QuietInv, Screen!Pointer
<1>5. WordInv'
  BY DEF WordInv, Screen!Pointer
<1> QED BY <1>1, <1>2, <1>3, <1>4, <1>5

LEMMA GateKeeps ==
  ASSUME ScreenInv, Screen!GateActs
  PROVE  ScreenInv'
<1> USE DEF Screen!GateActs, Screen!GateDue, Screen!gateVars, Screen!where, Screen!panels
<1>0. /\ device' = device /\ screenPortrait' = screenPortrait /\ surf' = surf
      /\ screenGame' = screenGame /\ before' = before
      /\ saving' = saving /\ todo' = todo /\ screenExit' = screenExit /\ editor' = editor
      /\ word' = word
      /\ gate \in GateStates /\ screenExit \in ExitStates /\ todo \subseteq Follows
      /\ word \in {"none", "PAUSED", "RUNNING"} /\ gate.at = "idle"
      /\ (Screen!Pointer => ~screenPortrait /\ ~gate.owns)
      /\ (screenExit.paused => screenExit.at # "closed" /\ word = "none")
  BY DEF ScreenInv, ScreenTypes, QuietInv, Screen!NoGate
<1>1. CASE /\ screenPortrait /\ Screen!Issues("pause", "gate")
           /\ gate' = [gate EXCEPT !.at = "pausing"]
  <2>1. gate' \in GateStates /\ gate'.at = "pausing"
    BY <1>0, <1>1 DEF GateStates
  <2> QED BY <1>0, <1>1, <2>1, OthersIssue DEF Screen!Actors
<1>2. CASE /\ gate.owns /\ Screen!Issues("resume", "gate")
           /\ gate' = [at |-> "resuming", owns |-> FALSE]
  <2>1. gate' \in GateStates /\ gate'.at = "resuming" /\ ~gate'.owns
    BY <1>2 DEF GateStates
  <2> QED BY <1>0, <1>2, <2>1, OthersIssue DEF Screen!Actors
<1>3. CASE UNCHANGED <<cmds, gate>>
  BY <1>0, <1>3, Quiet
<1> QED BY <1>1, <1>2, <1>3

LEMMA AskingKeeps ==
  ASSUME ScreenInv, Screen!Asking, screenExit.at \in {"closed", "waiting"}, todo' \subseteq Follows,
         UNCHANGED <<device, screenPortrait, screenGame, before, gate, surf, saving, editor>>
  PROVE  ScreenInv'
<1>1. CASE /\ screenGame = "CHECKPOINTING" /\ screenExit' = [screenExit EXCEPT !.at = "waiting"]
           /\ UNCHANGED <<cmds, word>>
  <2>1. /\ screenExit' \in ExitStates /\ screenExit'.at = "waiting"
        /\ screenExit'.paused = screenExit.paused
    BY <1>1 DEF ScreenInv, ScreenTypes, ExitStates
  <2> QED BY <1>1, <2>1 DEF ScreenInv, ScreenTypes, WaitInv, Sent, SurfInv, QuietInv, WordInv,
      Screen!Pointer
<1>2. CASE /\ Screen!Issues("pause", "exit") /\ screenExit' = [at |-> "pausing", paused |-> TRUE]
           /\ word' = "none"
  <2>1. screenExit' \in ExitStates /\ screenExit'.at = "pausing" /\ gate' \in GateStates
    BY <1>2 DEF ScreenInv, ScreenTypes, ExitStates
  <2> QED BY <1>2, <2>1, OthersIssue DEF Screen!Actors, ScreenInv, QuietInv
<1>3. CASE screenExit' = [at |-> "open", paused |-> FALSE] /\ UNCHANGED <<cmds, word>>
  <2>1. screenExit' \in ExitStates /\ screenExit'.at = "open" /\ ~screenExit'.paused
    BY <1>3 DEF ExitStates
  <2> QED BY <1>3, <2>1 DEF ScreenInv, ScreenTypes, WaitInv, Sent, SurfInv, QuietInv, WordInv,
      Screen!Pointer
<1> QED BY <1>1, <1>2, <1>3 DEF Screen!Asking

LEMMA RequestKeeps ==
  ASSUME ScreenInv, Screen!RequestsExit, todo' \subseteq Follows,
         UNCHANGED <<device, screenPortrait, screenGame, before, gate, surf, saving, editor>>
  PROVE  ScreenInv'
<1>1. CASE screenExit.at = "closed"
  BY <1>1, AskingKeeps DEF Screen!RequestsExit
<1>2. CASE screenExit.at # "closed"
  BY <1>2, Quiet DEF Screen!RequestsExit
<1> QED BY <1>1, <1>2
(* The chain of transitions.                                                 *)
LEMMA SurfKeeps ==
  ASSUME ScreenInv, Screen!SurfActs
  PROVE  ScreenInv'
<1> USE DEF ScreenInv
<1> DEFINE s == surf[1]
<1>0. /\ surf \in Seq(Turns) /\ surf # <<>> /\ Head(surf) = s /\ ~s.sent /\ s \in Turns
      /\ 1 \in DOMAIN surf
      /\ NoneOf(cmds, "surface") /\ todo \subseteq Follows /\ DOMAIN surf = 1 .. Len(surf)
      /\ Len(surf) \in Nat
      /\ UNCHANGED <<device, screenPortrait, screenGame, before, gate, screenExit, editor, saving>>
  BY SurfOf DEF Screen!SurfActs, Screen!SurfDue, ScreenTypes, WaitInv, Sent, Screen!where,
      Screen!gateVars, Screen!panels
<1>1. CASE /\ \/ s.target = "PAUSED" /\ screenGame = "RUNNING"
              \/ s.target = "RUNNING" /\ screenGame = "PAUSED"
           /\ Screen!Issues(Order(s.target), "surface")
           /\ surf' = [surf EXCEPT ![1].sent = TRUE]
           /\ UNCHANGED <<todo, word>>
  <2>1. Order(s.target) \in {"pause", "resume"} /\ "surface" \in Screen!Actors
    BY DEF Order, Screen!Actors
  <2>2. /\ surf' \in Seq(Turns) /\ surf' # <<>> /\ Len(surf') = Len(surf) /\ surf'[1].sent
        /\ \A i \in DOMAIN surf : surf'[i].target = surf[i].target /\ (i # 1 => surf'[i] = surf[i])
    <3>1. surf' = [surf EXCEPT ![1].sent = TRUE] /\ surf \in Seq(Turns) /\ surf # <<>>
      BY <1>0, <1>1
    <3> QED BY <3>1, SurfSends
  <2>3. DOMAIN surf' = DOMAIN surf
    BY <1>0, <2>2, SurfOf
  <2>4. ScreenTypes'
    BY <1>0, <1>1, <2>1, <2>2, Issuing DEF ScreenTypes
  <2>5. WaitInv'
    BY <1>0, <1>1, <2>1, <2>2, Issuing DEF WaitInv, Sent, Screen!Actors
  <2>6. SurfInv'
    <3>1. ASSUME NEW i \in DOMAIN surf', surf'[i].sent PROVE i = 1
      BY <1>0, <2>2, <2>3, <3>1 DEF SurfInv
    <3>2. ASSUME NEW i \in DOMAIN cmds', cmds'[i].by = "surface"
          PROVE  cmds'[i].op = Order(surf'[1].target)
      <4>1. cmds'[i].op = Order(s.target)
        BY <1>0, <1>1, <2>1, <3>2, Issuing DEF NoneOf
      <4> QED BY <1>0, <2>2, <4>1
    <3> QED BY <2>2, <3>1, <3>2 DEF SurfInv
  <2>7. QuietInv'
    BY <1>0, <1>1 DEF QuietInv, Screen!Pointer
  <2>8. WordInv'
    <3> SUFFICES ASSUME Screen!Pointer, word # "none"
                 PROVE  /\ \A i \in DOMAIN cmds' : cmds'[i].by = "surface"
                        /\ surf'[Len(surf')].target = word
      BY <1>0, <1>1, <2>2 DEF WordInv, Screen!Pointer
    <3>1. \A i \in DOMAIN cmds' : cmds'[i].by = "surface"
      BY <1>1, <2>1, Issuing DEF WordInv
    <3>2. Len(surf) \in DOMAIN surf /\ surf[Len(surf)].target = word
      BY <1>0, SurfOf DEF WordInv
    <3> QED BY <2>2, <3>1, <3>2
  <2> QED BY <2>4, <2>5, <2>6, <2>7, <2>8
<1>2. CASE /\ s.target = screenGame \/ ~Screen!Ready(screenGame)
           /\ surf' = Tail(surf) /\ todo' = todo \cup s.follow
           /\ word' = IF Screen!Ready(screenGame) THEN word ELSE "none"
           /\ UNCHANGED cmds
  <2>1. /\ surf' \in Seq(Turns) /\ Len(surf') = Len(surf) - 1
        /\ \A i \in DOMAIN surf' : i + 1 \in DOMAIN surf /\ surf'[i] = surf[i + 1]
    BY <1>0, <1>2, SurfEnds
  <2>2. DOMAIN surf' = 1 .. Len(surf') /\ Len(surf') \in Nat /\ (surf' # <<>> => Len(surf') > 0)
    BY <2>1, SurfOf
  <2>3. \A i \in DOMAIN surf' : ~surf'[i].sent
    BY <1>0, <2>1, <2>2 DEF SurfInv
  <2>4. ScreenTypes'
    BY <1>0, <1>2, <2>1 DEF ScreenTypes, Turns
  <2>5. WaitInv'
    <3>1. ~Sent /\ ~Sent'
      BY <1>0, <2>2, <2>3 DEF Sent
    <3> QED BY <1>0, <1>2, <3>1 DEF WaitInv
  <2>6. SurfInv'
    BY <1>0, <1>2, <2>3 DEF SurfInv, NoneOf
  <2>7. QuietInv'
    BY <1>0, <1>2 DEF QuietInv, Screen!Pointer
  <2>8. WordInv'
    <3> SUFFICES ASSUME Screen!Pointer, word # "none", Screen!Ready(screenGame)
                 PROVE  /\ \A i \in DOMAIN cmds : cmds[i].by = "surface"
                        /\ surf' # <<>> => surf'[Len(surf')].target = word
                        /\ surf' = <<>> => screenGame = word
      BY <1>0, <1>2 DEF WordInv, Screen!Pointer
    <3>1. surf[Len(surf)].target = word /\ \A i \in DOMAIN cmds : cmds[i].by = "surface"
      BY <1>0 DEF WordInv
    <3>2. ASSUME surf' # <<>> PROVE surf'[Len(surf')].target = word
      <4>1. Len(surf') \in DOMAIN surf' /\ Len(surf') + 1 = Len(surf)
        BY <1>0, <2>1, <2>2, <3>2
      <4> QED BY <2>1, <3>1, <4>1
    <3>3. ASSUME surf' = <<>> PROVE screenGame = word
      <4>1. Len(surf') = 0 /\ Len(surf') = Len(surf) - 1 /\ Len(surf) \in Nat
        BY <1>0, <2>1, <3>3
      <4>2. Len(surf) = 1
        BY <4>1
      <4> QED BY <1>2, <3>1, <4>2
    <3> QED BY <3>1, <3>2, <3>3
  <2> QED BY <2>4, <2>5, <2>6, <2>7, <2>8
<1> QED BY <1>0, <1>1, <1>2 DEF Screen!SurfActs, Screen!SurfDue, Order

(* What followed a transition that has ended.                                 *)
LEMMA FollowKeeps ==
  ASSUME ScreenInv, NEW k \in todo, Screen!Continues(k)
  PROVE  ScreenInv'
<1>0. /\ todo' \subseteq Follows
      /\ UNCHANGED <<device, screenPortrait, screenGame, before, gate, surf>>
      /\ gate' \in GateStates /\ screenExit \in ExitStates /\ (gate'.owns => gate'.at # "resuming")
      /\ (Screen!Pointer => gate' = Screen!NoGate)
      /\ (screenExit.paused => screenExit.at # "closed" /\ word = "none")
      /\ word \in {"none", "PAUSED", "RUNNING"}
  BY DEF Screen!Continues, ScreenInv, ScreenTypes, QuietInv, Screen!where, Screen!gateVars
<1>1. CASE k = "exit"
  BY <1>0, <1>1, RequestKeeps DEF Screen!Continues
<1>2. CASE k = "settings"
  <2>0. /\ UNCHANGED <<screenExit, saving>>
        /\ Screen!Opens(settings' = "open" /\ UNCHANGED editor, "settings",
                        UNCHANGED <<settings, editor>>)
    BY <1>2 DEF Screen!Continues
  <2>1. CASE Screen!Issues("pause", "settings") /\ word' = "none" /\ UNCHANGED editor
    BY <1>0, <2>0, <2>1, OthersIssue DEF Screen!Actors
  <2>2. CASE UNCHANGED <<cmds, word, editor>>
    BY <1>0, <2>0, <2>2, Quiet
  <2> QED BY <2>0, <2>1, <2>2 DEF Screen!Opens
<1>3. CASE k = "editor" /\ editor = "closed"
  <2>0. UNCHANGED <<screenExit, saving>>
        /\ Screen!Opens(editor' = "open" /\ UNCHANGED settings, "editor",
                        editor' = "opening" /\ UNCHANGED settings)
    BY <1>3 DEF Screen!Continues
  <2>1. CASE Screen!Issues("pause", "editor") /\ word' = "none" /\ editor' = "opening"
    BY <1>0, <1>3, <2>0, <2>1, OthersIssue DEF Screen!Actors
  <2>2. CASE UNCHANGED <<cmds, word>> /\ editor' # "opening"
    BY <1>0, <1>3, <2>0, <2>2, Quiet
  <2> QED BY <1>3, <2>0, <2>1, <2>2 DEF Screen!Opens
<1>4. CASE k = "editor" /\ editor # "closed"
  BY <1>0, <1>4, Quiet DEF Screen!Continues, Screen!panels
<1>5. CASE k = "save"
  BY <1>0, <1>5, Quiet DEF Screen!Continues
<1> QED BY <1>1, <1>2, <1>3, <1>4, <1>5 DEF Screen!Continues
-------------------------------------------------------------------------------
(* What is left when the game has answered a command.                         *)
Again == [op |-> "pause", by |-> "session"]

LEMMA Leaving ==
  ASSUME ScreenTypes, cmds # <<>>, NEW left, left = Tail(cmds) \/ left = Append(Tail(cmds), Again)
  PROVE  /\ left \in Seq(Commands)
         /\ \A w \in Screen!Actors \ {"session"} :
              /\ Head(cmds).by # w => /\ OneOf(cmds, w) => OneOf(left, w)
                                      /\ NoneOf(cmds, w) => NoneOf(left, w)
              /\ Head(cmds).by = w => ~NoneOf(cmds, w) /\ (OneOf(cmds, w) => NoneOf(left, w))
         /\ Head(cmds).by \in Screen!Actors /\ Head(cmds) = cmds[1] /\ 1 \in DOMAIN cmds
         /\ \A i \in DOMAIN left :
              left[i].by = "surface" => \E j \in DOMAIN cmds : left[i] = cmds[j]
<1>1. cmds \in Seq(Commands) /\ Again \in Commands /\ Again.by = "session"
  BY DEF ScreenTypes, Again, Commands, Screen!Actors
<1>2. /\ Tail(cmds) \in Seq(Commands) /\ Head(cmds) \in Commands /\ Head(cmds) = cmds[1]
      /\ 1 \in DOMAIN cmds
      /\ \A i \in DOMAIN Tail(cmds) : i + 1 \in DOMAIN cmds /\ Tail(cmds)[i] = cmds[i + 1]
  BY <1>1, Dropping
<1>3. Head(cmds).by \in Screen!Actors
  BY <1>2 DEF Commands
<1>4. ASSUME NEW w \in Screen!Actors \ {"session"}
      PROVE  /\ Head(cmds).by # w => /\ OneOf(cmds, w) => OneOf(left, w)
                                     /\ NoneOf(cmds, w) => NoneOf(left, w)
             /\ Head(cmds).by = w => ~NoneOf(cmds, w) /\ (OneOf(cmds, w) => NoneOf(left, w))
  <2>1. /\ Head(cmds).by # w => /\ OneOf(cmds, w) => OneOf(Tail(cmds), w)
                                /\ NoneOf(cmds, w) => NoneOf(Tail(cmds), w)
        /\ Head(cmds).by = w => ~NoneOf(cmds, w) /\ (OneOf(cmds, w) => NoneOf(Tail(cmds), w))
    BY <1>1, Dropping
  <2>2. /\ OneOf(Tail(cmds), w) => OneOf(Append(Tail(cmds), Again), w)
        /\ NoneOf(Tail(cmds), w) => NoneOf(Append(Tail(cmds), Again), w)
    BY <1>1, <1>2, Adding
  <2>3. CASE left = Tail(cmds)
    BY <2>1, <2>3
  <2>4. CASE left = Append(Tail(cmds), Again)
    BY <2>1, <2>2, <2>4
  <2> QED BY <2>3, <2>4
<1>5. CASE left = Tail(cmds)
  BY <1>2, <1>3, <1>4, <1>5
<1>6. CASE left = Append(Tail(cmds), Again)
  <2>1. left \in Seq(Commands)
    BY <1>1, <1>2, <1>6
  <2>2. \A i \in DOMAIN left :
          left[i] = Again \/ (i \in DOMAIN Tail(cmds) /\ left[i] = Tail(cmds)[i])
    BY <1>1, <1>2, <1>6
  <2>3. \A i \in DOMAIN left : left[i].by = "surface" => \E j \in DOMAIN cmds : left[i] = cmds[j]
    BY <1>1, <1>2, <2>2
  <2> QED BY <1>2, <1>3, <1>4, <2>1, <2>3
<1> QED BY <1>5, <1>6

(* One goes on who waited for the command that the game has answered.          *)
LEMMA AnswerKeeps ==
  ASSUME ScreenInv, cmds # <<>>, screenGame # "CHECKPOINTING", NEW ok \in BOOLEAN,
         NEW state \in {"RUNNING", "PAUSED", "EXITED"}, NEW left,
         left = Tail(cmds) \/ left = Append(Tail(cmds), Again),
         Screen!Acknowledged(Head(cmds).by, ok, state, left),
         screenGame' = state, UNCHANGED <<device, screenPortrait, before, saving>>,
         word' = "none" \/ (word' = word /\ state = Screen!After(Head(cmds).op)),
         Screen!Pointer => left = Tail(cmds)
  PROVE  ScreenInv'
<1> DEFINE b == Head(cmds).by
<1> USE DEF ScreenInv
<1>0. /\ gate \in GateStates /\ screenExit \in ExitStates /\ todo \subseteq Follows
      /\ surf \in Seq(Turns)
      /\ before \in {"RUNNING", "PAUSED"} /\ word' \in {"none", "PAUSED", "RUNNING"}
      /\ (Screen!Pointer' <=> Screen!Pointer)
  BY DEF ScreenTypes, Screen!Pointer
<1>a. /\ left \in Seq(Commands) /\ b \in Screen!Actors /\ b = cmds[1].by /\ 1 \in DOMAIN cmds
      /\ \A w \in Screen!Actors \ {"session"} :
           /\ b # w => (OneOf(cmds, w) => OneOf(left, w)) /\ (NoneOf(cmds, w) => NoneOf(left, w))
           /\ b = w => ~NoneOf(cmds, w) /\ (OneOf(cmds, w) => NoneOf(left, w))
      /\ \A i \in DOMAIN left : left[i].by = "surface" => \E j \in DOMAIN cmds : left[i] = cmds[j]
  BY Leaving DEF ScreenTypes
<1>b. b # "surface" => word' = "none" \/ ~Screen!Pointer
  BY <1>a DEF WordInv
<1>c. ASSUME cmds' = left, UNCHANGED surf PROVE SurfInv'
  BY <1>a, <1>c DEF SurfInv
<1> HIDE DEF b
<1>1. CASE b = "gate"
  <2>0. gate.at # "idle" /\ ~Screen!Pointer
    BY <1>1, <1>a DEF WaitInv, QuietInv, Screen!NoGate, Screen!Actors
  <2>1. UNCHANGED <<surf, todo, screenExit, editor>>
    BY <1>1 DEF Screen!Acknowledged, b
  <2>2. CASE /\ gate' = [at |-> "resuming", owns |-> FALSE]
             /\ cmds' = Append(left, [op |-> "resume", by |-> "gate"])
    <3> DEFINE c == [op |-> "resume", by |-> "gate"]
    <3>1. /\ c \in Commands /\ c.by = "gate" /\ gate' \in GateStates /\ gate'.at = "resuming"
          /\ ~gate'.owns
      BY <2>2 DEF Commands, Screen!Actors, GateStates
    <3>2. cmds' = Append(left, c)
      BY <2>2
    <3> HIDE DEF c
    <3>3. NoneOf(left, "gate") /\ cmds' \in Seq(Commands) /\ OneOf(cmds', "gate")
      BY <1>1, <1>a, <2>0, <3>1, <3>2, Adding DEF WaitInv, Screen!Actors
    <3>4. \A w \in {"surface", "exit", "editor"} :
            (OneOf(cmds, w) => OneOf(cmds', w)) /\ (NoneOf(cmds, w) => NoneOf(cmds', w))
      BY <1>1, <1>a, <3>1, <3>2, Adding DEF Screen!Actors
    <3>5. ScreenTypes'
      BY <1>0, <2>1, <3>1, <3>3 DEF ScreenTypes
    <3>6. WaitInv'
      BY <2>1, <3>1, <3>3, <3>4 DEF WaitInv, Sent
    <3>7. SurfInv'
      <4>1. ASSUME NEW i \in DOMAIN cmds', cmds'[i].by = "surface"
            PROVE  surf' # <<>> /\ cmds'[i].op = Order(surf'[1].target)
        <5>1. i \in DOMAIN left /\ cmds'[i] = left[i]
          BY <1>a, <3>1, <3>2, <4>1
        <5> QED BY <1>a, <2>1, <4>1, <5>1 DEF SurfInv
      <4> QED BY <2>1, <4>1 DEF SurfInv
    <3>8. QuietInv' /\ WordInv'
      BY <1>0, <2>0, <2>1, <3>1 DEF QuietInv, WordInv
    <3> QED BY <3>5, <3>6, <3>7, <3>8
  <2>3. CASE /\ gate' = [at |-> "idle", owns |-> TRUE] \/ gate' = [gate EXCEPT !.at = "idle"]
             /\ cmds' = left
    <3>1. gate' \in GateStates /\ gate'.at = "idle"
      <4>1. CASE gate' = [at |-> "idle", owns |-> TRUE]
        BY <4>1 DEF GateStates
      <4>2. CASE gate' = [gate EXCEPT !.at = "idle"]
        BY <1>0, <4>2 DEF GateStates
      <4> QED BY <2>3, <4>1, <4>2
    <3>2. NoneOf(cmds', "gate")
      BY <1>1, <1>a, <2>0, <2>3 DEF WaitInv, Screen!Actors
    <3>5. ScreenTypes'
      BY <1>0, <1>a, <2>1, <2>3, <3>1 DEF ScreenTypes
    <3>6. WaitInv'
      BY <1>1, <1>a, <2>1, <2>3, <3>1, <3>2 DEF WaitInv, Sent, Screen!Actors
    <3>7. SurfInv'
      BY <1>c, <2>1, <2>3
    <3>8. QuietInv' /\ WordInv'
      BY <1>0, <2>0, <2>1, <3>1 DEF QuietInv, WordInv
    <3> QED BY <3>5, <3>6, <3>7, <3>8
  <2> QED BY <1>1, <2>2, <2>3 DEF Screen!Acknowledged, b
<1>2. CASE b = "surface"
  <2>0. /\ surf' = Tail(surf) /\ todo' = todo \cup Head(surf).follow /\ cmds' = left
        /\ UNCHANGED <<gate, screenExit, editor>>
    BY <1>2 DEF Screen!Acknowledged, b
  <2>1. Sent /\ NoneOf(left, "surface") /\ cmds[1].op = Order(surf[1].target)
    BY <1>2, <1>a DEF WaitInv, SurfInv, Screen!Actors
  <2>2. /\ surf # <<>> /\ DOMAIN surf = 1 .. Len(surf) /\ Len(surf) \in Nat /\ surf[1] \in Turns
        /\ Head(surf) = surf[1]
    BY <1>0, <2>1, SurfOf DEF Sent
  <2>3. /\ surf' \in Seq(Turns) /\ Len(surf') = Len(surf) - 1
        /\ \A i \in DOMAIN surf' : i + 1 \in DOMAIN surf /\ surf'[i] = surf[i + 1]
    BY <1>0, <2>0, <2>2, SurfEnds
  <2>4. DOMAIN surf' = 1 .. Len(surf') /\ Len(surf') \in Nat /\ (surf' # <<>> => Len(surf') > 0)
    BY <2>3, SurfOf
  <2>5. (\A i \in DOMAIN surf' : ~surf'[i].sent) /\ ~Sent'
    <3>1. \A i \in DOMAIN surf' : ~surf'[i].sent
      BY <2>2, <2>3, <2>4 DEF SurfInv
    <3> QED BY <2>4, <3>1 DEF Sent
  <2>6. ScreenTypes'
    BY <1>0, <1>a, <2>0, <2>2, <2>3 DEF ScreenTypes, Turns
  <2>7. WaitInv'
    BY <1>2, <1>a, <2>0, <2>1, <2>5 DEF WaitInv, Screen!Actors
  <2>8. SurfInv'
    BY <2>0, <2>1, <2>5 DEF SurfInv, NoneOf
  <2>9. QuietInv'
    BY <1>0, <2>0 DEF QuietInv
  <2>10. WordInv'
    <3> SUFFICES ASSUME Screen!Pointer, word' # "none"
                 PROVE  /\ \A i \in DOMAIN cmds' : cmds'[i].by = "surface"
                        /\ surf' # <<>> => surf'[Len(surf')].target = word
                        /\ surf' = <<>> => state = "EXITED" \/ state = word
      BY <1>0 DEF WordInv
    <3>1. /\ word' = word /\ state = Screen!After(Head(cmds).op) /\ left = Tail(cmds)
          /\ surf[Len(surf)].target = word /\ \A i \in DOMAIN cmds : cmds[i].by = "surface"
      BY <2>2 DEF WordInv
    <3>2. \A i \in DOMAIN cmds' : cmds'[i].by = "surface"
      <4>1. \A i \in DOMAIN Tail(cmds) : i + 1 \in DOMAIN cmds /\ Tail(cmds)[i] = cmds[i + 1]
        BY Dropping DEF ScreenTypes
      <4> QED BY <2>0, <3>1, <4>1
    <3>3. ASSUME surf' # <<>> PROVE surf'[Len(surf')].target = word
      <4>1. Len(surf') \in DOMAIN surf' /\ Len(surf') + 1 = Len(surf)
        BY <2>2, <2>3, <2>4, <3>3
      <4> QED BY <2>3, <3>1, <4>1
    <3>4. ASSUME surf' = <<>> PROVE state = "EXITED" \/ state = word
      <4>1. Len(surf') = 0 /\ Len(surf') = Len(surf) - 1 /\ Len(surf) \in Nat
        BY <2>2, <2>3, <3>4
      <4>2. Len(surf) = 1
        BY <4>1
      <4>3. Head(cmds).op = Order(word)
        BY <1>a, <2>1, <3>1, <4>2, Leaving DEF ScreenTypes
      <4>4. screenGame \in {"RUNNING", "PAUSED", "EXITED"} /\ word \in {"PAUSED", "RUNNING"}
        BY <3>1 DEF ScreenTypes
      <4> QED BY <3>1, <4>3, <4>4 DEF Screen!After, Order
    <3> QED BY <3>2, <3>3, <3>4
  <2> QED BY <2>6, <2>7, <2>8, <2>9, <2>10
<1>3. CASE b \in {"exit", "settings", "editor", "user", "session"}
  <2>0. /\ UNCHANGED <<gate, surf, todo>> /\ cmds' = left
        /\ b # "exit" => screenExit' = screenExit
        /\ b = "exit" => screenExit' \in {[screenExit EXCEPT !.at = "open"], Screen!NoExit}
        /\ b # "editor" => editor' = editor
        /\ b = "editor" => editor' # "opening"
    BY <1>3 DEF Screen!Acknowledged, b
  <2>1. screenExit' \in ExitStates /\ (b = "exit" => screenExit'.at \in {"open", "closed"})
        /\ (screenExit'.paused => screenExit.paused /\ (screenExit'.at # "closed" \/ b # "exit"))
    <3>1. CASE screenExit' = screenExit /\ b # "exit"
      BY <1>0, <3>1
    <3>2. CASE screenExit' = [screenExit EXCEPT !.at = "open"]
      BY <1>0, <3>2 DEF ExitStates
    <3>3. CASE screenExit' = Screen!NoExit
      BY <3>3 DEF ExitStates, Screen!NoExit
    <3> QED BY <2>0, <3>1, <3>2, <3>3
  <2>2. ScreenTypes'
    BY <1>0, <1>a, <2>0, <2>1 DEF ScreenTypes
  <2>3. WaitInv'
    BY <1>3, <1>a, <2>0, <2>1 DEF WaitInv, Sent, Screen!Actors
  <2>4. SurfInv'
    BY <1>c, <2>0
  <2>5. QuietInv'
    BY <1>0, <2>0, <2>1 DEF QuietInv
  <2>6. WordInv'
    BY <1>0, <1>3, <1>b DEF WordInv
  <2> QED BY <2>2, <2>3, <2>4, <2>5, <2>6
<1> QED BY <1>1, <1>2, <1>3, <1>a DEF Screen!Actors

LEMMA CommandsKeep ==
  ASSUME ScreenInv, Screen!Commanded \/ Screen!CommandFails
  PROVE  ScreenInv'
<1>0. /\ screenGame \in {"RUNNING", "PAUSED", "CHECKPOINTING", "EXITED"}
      /\ (Screen!Pointer => ~screenPortrait)
      /\ cmds # <<>> /\ screenGame # "CHECKPOINTING" /\ cmds \in Seq(Commands)
  BY DEF ScreenInv, ScreenTypes, QuietInv, Screen!Commanded, Screen!CommandFails
<1>1. CASE Screen!Commanded
  <2> DEFINE state == Screen!After(Head(cmds).op)
             left == Tail(cmds) \o Screen!PausedAgain(state)
  <2>1. screenGame' = state /\ Screen!Acknowledged(Head(cmds).by, TRUE, state, left)
        /\ UNCHANGED <<device, screenPortrait, before, saving, word>>
    BY <1>1 DEF Screen!Commanded, Screen!where
  <2>2. state \in {"RUNNING", "PAUSED", "EXITED"}
    BY <1>0 DEF Screen!After
  <2>3. left = Tail(cmds) \/ (left = Append(Tail(cmds), Again) /\ screenPortrait)
    <3>1. Tail(cmds) \in Seq(Commands) /\ Again \in Commands
      BY <1>0 DEF Again, Commands, Screen!Actors
    <3>2. CASE Screen!PausedAgain(state) = <<>>
      BY <3>1, <3>2, ConcatEmptySeq
    <3>3. CASE Screen!PausedAgain(state) = <<Again>> /\ screenPortrait
      BY <3>1, <3>3, AppendIsConcat
    <3> QED BY <3>2, <3>3 DEF Screen!PausedAgain, Again
  <2> HIDE DEF left
  <2>4. Screen!Pointer => left = Tail(cmds)
    BY <1>0, <2>3
  <2>5. word' = word /\ state = Screen!After(Head(cmds).op)
    BY <2>1
  <2> HIDE DEF state
  <2> QED BY <1>0, <2>1, <2>2, <2>3, <2>4, <2>5, AnswerKeeps
<1>2. CASE Screen!CommandFails
  BY <1>0, <1>2, AnswerKeeps DEF Screen!CommandFails, Screen!where
<1> QED BY <1>1, <1>2
-------------------------------------------------------------------------------
(* A checkpoint, and a game that ends.                                        *)
LEMMA CheckpointKeeps ==
  ASSUME ScreenInv, Screen!CheckpointStarts \/ Screen!CheckpointEnds
  PROVE  ScreenInv'
<1> USE DEF ScreenInv
<1>1. CASE Screen!CheckpointStarts
  <2>0. /\ cmds = <<>>
        /\ UNCHANGED <<device, screenPortrait, cmds, gate, surf, todo, screenExit, editor, word>>
        /\ saving = "asked"
        /\ \/ /\ Screen!Ready(screenGame) /\ saving' = "taking"
              /\ screenGame' = "CHECKPOINTING" /\ before' = screenGame
           \/ saving' = "none" /\ UNCHANGED <<screenGame, before>>
    BY <1>1 DEF Screen!CheckpointStarts, Screen!where, Screen!gateVars, Screen!panels
  <2>1. ScreenTypes'
    BY <2>0 DEF ScreenTypes, Screen!Ready
  <2>2. WaitInv' /\ SurfInv'
    BY <2>0 DEF WaitInv, Sent, SurfInv
  <2>3. QuietInv'
    BY <2>0 DEF QuietInv, Screen!Pointer, Screen!Ready
  <2>4. WordInv'
    BY <2>0 DEF WordInv, Screen!Pointer, Screen!Ready
  <2> QED BY <2>1, <2>2, <2>3, <2>4
<1>2. CASE Screen!CheckpointEnds
  <2>0. /\ saving = "taking" /\ screenGame = "CHECKPOINTING" /\ saving' = "sending"
        /\ screenGame' = before
        /\ before' = "RUNNING" /\ before \in {"RUNNING", "PAUSED"}
        /\ cmds' = cmds \o Screen!PausedAgain(before)
        /\ UNCHANGED <<device, screenPortrait, gate, surf, todo, screenExit, editor, word>>
        /\ cmds \in Seq(Commands) /\ word \in {"none", "PAUSED", "RUNNING"}
    BY <1>2 DEF Screen!CheckpointEnds, QuietInv, ScreenTypes, Screen!where, Screen!gateVars,
        Screen!panels
  <2>1. CASE Screen!PausedAgain(before) = <<>>
    <3>0. cmds' = cmds
      BY <2>0, <2>1, ConcatEmptySeq
    <3>1. ScreenTypes' /\ WaitInv' /\ SurfInv'
      BY <2>0, <3>0 DEF ScreenTypes, WaitInv, Sent, SurfInv
    <3>2. QuietInv' /\ WordInv'
      BY <2>0, <3>0 DEF QuietInv, WordInv, Screen!Pointer
    <3> QED BY <3>1, <3>2
  <2>2. CASE Screen!PausedAgain(before) = <<Again>> /\ screenPortrait
    <3>0. Again \in Commands
      BY DEF Again, Commands, Screen!Actors
    <3>1. cmds' = Append(cmds, Again)
      BY <2>0, <2>2, <3>0, AppendIsConcat
    <3>2. Screen!Issues("pause", "session") /\ ~Screen!Pointer
      BY <2>2, <3>1 DEF Screen!Issues, Again, QuietInv
    <3>3. ScreenTypes'
      BY <2>0, <3>2, Issuing DEF ScreenTypes, Screen!Actors
    <3>4. WaitInv'
      BY <2>0, <3>2, Issuing DEF WaitInv, Sent, Screen!Actors
    <3>5. SurfInv'
      <4>1. ASSUME NEW i \in DOMAIN cmds', cmds'[i].by = "surface"
            PROVE  i \in DOMAIN cmds /\ cmds'[i] = cmds[i]
        BY <3>2, <4>1, Issuing DEF Screen!Actors
      <4> QED BY <2>0, <4>1 DEF SurfInv
    <3>6. QuietInv' /\ WordInv'
      BY <2>0, <3>2 DEF QuietInv, WordInv, Screen!Pointer
    <3> QED BY <3>3, <3>4, <3>5, <3>6
  <2> QED BY <2>1, <2>2 DEF Screen!PausedAgain, Again
<1> QED BY <1>1, <1>2

LEMMA EndKeeps ==
  ASSUME ScreenInv, Screen!GameEnds
  PROVE  ScreenInv'
<1> USE DEF ScreenInv
<1>0. /\ screenGame' = "EXITED" /\ word' = "none" /\ saving \in {"none", "asked"}
      /\ screenExit \in ExitStates
      /\ screenExit' = IF screenExit.at = "closed" THEN [at |-> "open", paused |-> FALSE]
                       ELSE screenExit
      /\ UNCHANGED <<device, screenPortrait, before, cmds, gate, surf, todo, editor, saving>>
  BY DEF Screen!GameEnds, ScreenTypes, Screen!where, Screen!gateVars, Screen!panels
<1>1. /\ screenExit' \in ExitStates /\ (screenExit'.paused => screenExit'.at # "closed")
      /\ (screenExit'.at \in {"pausing", "resuming"} <=> screenExit.at \in {"pausing", "resuming"})
  BY <1>0 DEF ExitStates
<1>2. ScreenTypes' /\ SurfInv'
  BY <1>0, <1>1 DEF ScreenTypes, SurfInv
<1>3. WaitInv'
  BY <1>0, <1>1 DEF WaitInv, Sent
<1>4. QuietInv' /\ WordInv'
  BY <1>0, <1>1 DEF QuietInv, WordInv, Screen!Pointer
<1> QED BY <1>2, <1>3, <1>4
-------------------------------------------------------------------------------
(* The user.                                                                 *)
LEMMA ByHand ==
  ASSUME gate \in GateStates, Screen!ManualPause
  PROVE  /\ gate' \in GateStates /\ gate'.at = gate.at /\ ~gate'.owns
         /\ (gate = Screen!NoGate => gate' = Screen!NoGate)
<1>1. gate' \in GateStates /\ gate'.at = gate.at /\ gate'.owns = FALSE
  BY DEF Screen!ManualPause, GateStates
<1>2. ASSUME gate = Screen!NoGate PROVE gate' = Screen!NoGate
  BY <1>2 DEF Screen!ManualPause, Screen!NoGate
<1> QED BY <1>1, <1>2

LEMMA ClickKeeps ==
  ASSUME ScreenInv, screenExit.at = "closed",
         NEW target \in {"PAUSED", "RUNNING"}, NEW follow \in SUBSET Follows,
         Screen!Transition(target, follow),
         UNCHANGED <<device, screenPortrait, screenGame, before, cmds, screenExit, saving, editor>>
  PROVE  ScreenInv'
<1> USE DEF ScreenInv
<1>0. /\ gate \in GateStates /\ surf \in Seq(Turns) /\ todo \subseteq Follows
      /\ word \in {"none", "PAUSED", "RUNNING"} /\ ~screenExit.paused
      /\ DOMAIN surf = 1 .. Len(surf) /\ Len(surf) \in Nat
  BY SurfOf DEF ScreenTypes, QuietInv
<1>1. CASE todo' = todo \cup follow /\ UNCHANGED <<surf, gate, word>>
  BY <1>0, <1>1, Quiet
<1>2. CASE /\ \/ /\ surf # <<>> /\ surf[Len(surf)].target = target
                 /\ surf' = [surf EXCEPT ![Len(surf)].follow = @ \cup follow]
              \/ surf' = Append(surf, [target |-> target, follow |-> follow, sent |-> FALSE])
           /\ Screen!ManualPause /\ UNCHANGED todo
           /\ word' = IF \A i \in DOMAIN cmds : cmds[i].by = "surface" THEN target ELSE "none"
  <2>1. /\ gate' \in GateStates /\ gate'.at = gate.at /\ ~gate'.owns
        /\ (gate = Screen!NoGate => gate' = Screen!NoGate)
    BY <1>0, <1>2, ByHand
  <2>2. /\ surf' \in Seq(Turns) /\ surf' # <<>> /\ DOMAIN surf' = 1 .. Len(surf')
        /\ surf'[Len(surf')].target = target
        /\ \A i \in DOMAIN surf' : surf'[i].sent => i \in DOMAIN surf /\ surf[i].sent
        /\ surf # <<>> => surf'[1].target = surf[1].target /\ surf'[1].sent = surf[1].sent
        /\ surf = <<>> => ~surf'[1].sent
    <3>1. CASE /\ surf # <<>> /\ surf[Len(surf)].target = target
               /\ surf' = [surf EXCEPT ![Len(surf)].follow = @ \cup follow]
      <4>1. /\ surf' \in Seq(Turns) /\ surf' # <<>> /\ Len(surf') = Len(surf)
            /\ \A i \in DOMAIN surf :
                 surf'[i].target = surf[i].target /\ surf'[i].sent = surf[i].sent
        BY <1>0, <3>1, SurfJoins
      <4>2. DOMAIN surf' = DOMAIN surf /\ 1 \in DOMAIN surf /\ Len(surf) \in DOMAIN surf
        BY <1>0, <3>1, <4>1, SurfOf
      <4> QED BY <1>0, <3>1, <4>1, <4>2
    <3>2. CASE surf' = Append(surf, [target |-> target, follow |-> follow, sent |-> FALSE])
      <4> DEFINE m == [target |-> target, follow |-> follow, sent |-> FALSE]
      <4>1. m \in Turns /\ m.target = target /\ ~m.sent
        BY DEF Turns
      <4>2. surf' = Append(surf, m)
        BY <3>2
      <4> HIDE DEF m
      <4>3. /\ surf' \in Seq(Turns) /\ surf' # <<>> /\ Len(surf') = Len(surf) + 1
            /\ surf'[Len(surf) + 1] = m /\ \A i \in DOMAIN surf : surf'[i] = surf[i]
        BY <1>0, <4>1, <4>2, SurfAdds
      <4>4. /\ DOMAIN surf' = 1 .. Len(surf) + 1 /\ (surf = <<>> => Len(surf) = 0)
            /\ (surf # <<>> => 1 \in DOMAIN surf)
        BY <1>0, <4>3, SurfOf
      <4> QED BY <1>0, <4>1, <4>3, <4>4
    <3> QED BY <1>2, <3>1, <3>2
  <2>3. ScreenTypes'
    BY <1>0, <1>2, <2>1, <2>2 DEF ScreenTypes
  <2>4. WaitInv'
    <3>1. Sent' <=> Sent
      BY <2>2 DEF Sent
    <3> QED BY <2>1, <3>1 DEF WaitInv
  <2>5. SurfInv'
    BY <2>2 DEF SurfInv
  <2>6. QuietInv'
    BY <1>0, <2>1 DEF QuietInv, Screen!Pointer
  <2>7. WordInv'
    BY <1>2, <2>2 DEF WordInv
  <2> QED BY <2>3, <2>4, <2>5, <2>6, <2>7
<1> QED BY <1>1, <1>2 DEF Screen!Transition

LEMMA ToggleKeeps ==
  ASSUME ScreenInv, screenExit.at = "closed", Screen!Toggles,
         UNCHANGED <<device, screenPortrait, screenGame, before, surf, todo, screenExit, saving,
                     editor>>
  PROVE  ScreenInv'
<1>0. /\ gate \in GateStates /\ todo \subseteq Follows /\ screenExit \in ExitStates
      /\ ~screenExit.paused
      /\ (Screen!Pointer => gate = Screen!NoGate)
  BY DEF ScreenInv, ScreenTypes, QuietInv
<1>1. CASE UNCHANGED <<cmds, gate, word>>
  BY <1>0, <1>1, Quiet
<1>2. CASE /\ Screen!Issues(IF screenGame = "PAUSED" THEN "resume" ELSE "pause", "user")
           /\ Screen!ManualPause
           /\ word' = IF Screen!Pointer THEN "none"
                      ELSE IF screenGame = "PAUSED" THEN "RUNNING" ELSE "PAUSED"
  <2>1. /\ gate' \in GateStates /\ gate'.at = gate.at /\ ~gate'.owns
        /\ (gate = Screen!NoGate => gate' = Screen!NoGate)
    BY <1>0, <1>2, ByHand
  <2>2. PICK what \in {"pause", "resume"} : Screen!Issues(what, "user")
    BY <1>2
  <2> QED BY <1>0, <1>2, <2>1, <2>2, OthersIssue DEF Screen!Actors
<1> QED BY <1>1, <1>2 DEF Screen!Toggles

LEMMA UserKeeps ==
  ASSUME ScreenInv, Screen!User
  PROVE  ScreenInv'
<1>0. /\ screenExit \in ExitStates /\ todo \subseteq Follows /\ gate \in GateStates
      /\ (screenExit.paused => screenExit.at # "closed" /\ word = "none")
      /\ word \in {"none", "PAUSED", "RUNNING"}
      /\ (gate.owns => gate.at # "resuming") /\ (Screen!Pointer => gate = Screen!NoGate)
  BY DEF ScreenInv, ScreenTypes, QuietInv
<1>a. Screen!Same => UNCHANGED <<device, screenPortrait, screenGame, before, screenExit, saving,
                                 editor>>
  BY DEF Screen!Same, Screen!where
<1>b. ~Screen!DialogOpen => screenExit.at = "closed"
  BY DEF Screen!DialogOpen
<1>1. ASSUME NEW k \in {"save", "exit", "settings", "editor"}, Screen!ToolbarClick(k)
      PROVE  ScreenInv'
  BY <1>1, <1>a, <1>b, ClickKeeps DEF Screen!ToolbarClick, Screen!Free, Follows
<1>2. CASE Screen!MenuClick
  BY <1>2, <1>a, <1>b, ClickKeeps DEF Screen!MenuClick, Screen!Free, Follows
<1>3. CASE Screen!PauseClick
  BY <1>3, <1>a, <1>b, ClickKeeps, ToggleKeeps DEF Screen!PauseClick, Screen!Free, Follows
<1>4. CASE Screen!SurfaceClick
  <2>1. CASE Screen!Pointer
    BY <1>4, <2>1, <1>a, <1>b, ClickKeeps DEF Screen!SurfaceClick, Screen!Free, Follows
  <2>2. CASE ~Screen!Pointer
    BY <1>0, <1>4, <2>2, <1>a, <1>b, ToggleKeeps, Quiet DEF Screen!SurfaceClick, Screen!Free
  <2> QED BY <2>1, <2>2
<1>5. CASE Screen!KeyPause
  BY <1>5, <1>a, <1>b, ToggleKeeps DEF Screen!KeyPause, Screen!Owned
<1>6. CASE Screen!KeyMenu
  <2>1. /\ todo' \subseteq Follows
        /\ UNCHANGED <<device, screenPortrait, screenGame, before, gate, surf, saving, editor>>
    BY <1>0, <1>6 DEF Screen!KeyMenu, Screen!where, Screen!gateVars
  <2> QED BY <1>6, <2>1, RequestKeeps, Quiet DEF Screen!KeyMenu
<1>7. CASE Screen!ExitAsked
  <2>1. /\ todo' \subseteq Follows
        /\ UNCHANGED <<device, screenPortrait, screenGame, before, gate, surf, saving, editor>>
    BY <1>0, <1>7 DEF Screen!ExitAsked, Screen!where, Screen!gateVars
  <2> QED BY <1>7, <2>1, RequestKeeps DEF Screen!ExitAsked
<1>8. CASE Screen!ExitCancelled
  <2>0. /\ screenExit.at = "open"
        /\ screenExit' \in {[screenExit EXCEPT !.at = "neutral"], Screen!NoExit}
        /\ UNCHANGED <<device, screenPortrait, screenGame, before, cmds, gate, surf, todo, editor,
                       saving, word>>
    BY <1>8 DEF Screen!ExitCancelled, Screen!where, Screen!gateVars, Screen!panels
  <2>1. CASE screenExit' = [screenExit EXCEPT !.at = "neutral"]
    <3>1. /\ screenExit' \in ExitStates /\ screenExit'.at = "neutral"
          /\ screenExit'.paused = screenExit.paused
      BY <1>0, <2>1 DEF ExitStates
    <3> QED BY <1>0, <2>0, <3>1 DEF ScreenInv, ScreenTypes, WaitInv, Sent, SurfInv, QuietInv,
        WordInv, Screen!Pointer
  <2>2. CASE screenExit' = Screen!NoExit
    <3>1. screenExit' \in ExitStates /\ screenExit'.at = "closed" /\ ~screenExit'.paused
      BY <2>2 DEF ExitStates, Screen!NoExit
    <3> QED BY <1>0, <2>0, <3>1 DEF ScreenInv, ScreenTypes, WaitInv, Sent, SurfInv, QuietInv,
        WordInv, Screen!Pointer
  <2> QED BY <2>0, <2>1, <2>2
<1>9. CASE Screen!Neutral
  <2>0. /\ screenExit.at = "neutral"
        /\ UNCHANGED <<device, screenPortrait, screenGame, before, gate, surf, todo, editor,
                       saving, word>>
        /\ \/ /\ screenExit.paused /\ Screen!Issues("resume", "exit")
              /\ screenExit' = [screenExit EXCEPT !.at = "resuming"]
           \/ screenExit' = Screen!NoExit /\ UNCHANGED cmds
    BY <1>9 DEF Screen!Neutral, Screen!where, Screen!gateVars, Screen!panels
  <2>1. CASE /\ screenExit.paused /\ Screen!Issues("resume", "exit")
             /\ screenExit' = [screenExit EXCEPT !.at = "resuming"]
    <3>1. screenExit' \in ExitStates /\ screenExit'.at = "resuming" /\ word' = "none"
      BY <1>0, <2>0, <2>1 DEF ExitStates
    <3> QED BY <1>0, <2>0, <2>1, <3>1, OthersIssue DEF Screen!Actors
  <2>2. CASE screenExit' = Screen!NoExit /\ UNCHANGED cmds
    <3>1. screenExit' \in ExitStates /\ screenExit'.at = "closed" /\ ~screenExit'.paused
      BY <2>2 DEF ExitStates, Screen!NoExit
    <3> QED BY <1>0, <2>0, <2>2, <3>1 DEF ScreenInv, ScreenTypes, WaitInv, Sent, SurfInv,
        QuietInv, WordInv, Screen!Pointer
  <2> QED BY <2>0, <2>1, <2>2
<1>10. CASE \/ Screen!EditorFromExit \/ Screen!EditorCloses \/ Screen!SaveChosen
            \/ Screen!SettingsUsed \/ Screen!SettingsMoved \/ Screen!HidesOrShows
  <2>1. /\ UNCHANGED <<device, screenPortrait, screenGame, before, cmds, gate, surf, screenExit,
                       word>> /\ todo' \subseteq Follows
        /\ (saving' = "taking" <=> saving = "taking")
        /\ (editor' = "opening" <=> editor = "opening")
    BY <1>0, <1>10 DEF Screen!EditorFromExit, Screen!EditorCloses, Screen!SaveChosen,
        Screen!SettingsUsed, Screen!SettingsMoved, Screen!HidesOrShows,
                       Follows, Screen!where, Screen!gateVars, Screen!panels
  <2> QED BY <2>1, Quiet
<1>11. CASE Screen!Rotates
  <2>0. /\ ~Screen!Pointer /\ ~Screen!Pointer'
        /\ UNCHANGED <<screenGame, before, cmds, gate, surf, todo, screenExit, editor, saving,
                       word>>
    BY <1>11 DEF Screen!Rotates, Screen!Pointer, Screen!where, Screen!gateVars, Screen!panels
  <2> QED BY <2>0 DEF ScreenInv, ScreenTypes, WaitInv, Sent, SurfInv, QuietInv, WordInv
<1> QED BY <1>1, <1>2, <1>3, <1>4, <1>5, <1>6, <1>7, <1>8, <1>9, <1>10, <1>11 DEF Screen!User
-------------------------------------------------------------------------------
LEMMA ScreenStep ==
  ASSUME ScreenInv, [Screen!Next]_(Screen!vars)
  PROVE  ScreenInv'
<1>0. todo \subseteq Follows
  BY DEF ScreenInv, ScreenTypes
<1>1. CASE Screen!Micro
  <2>1. CASE Screen!Render
    BY <1>0, <2>1, Quiet DEF Screen!Render, Screen!where, Screen!panels
  <2>2. CASE Screen!ExitContinues
    BY <1>0, <2>2, AskingKeeps DEF Screen!ExitContinues, Screen!ExitWaits, Screen!where,
        Screen!gateVars, Screen!panels
  <2> QED BY <1>1, <2>1, <2>2, GateKeeps, SurfKeeps, FollowKeeps DEF Screen!Micro
<1>2. CASE Screen!Game
  <2>1. CASE Screen!ExportDue \/ Screen!SaveSent
    BY <1>0, <2>1, Quiet DEF Screen!ExportDue, Screen!SaveSent, Screen!where, Screen!gateVars,
        Screen!panels
  <2> QED BY <1>2, <2>1, CommandsKeep, CheckpointKeeps, EndKeeps DEF Screen!Game
<1>3. CASE Screen!Frame
  BY <1>0, <1>3, Quiet DEF Screen!Frame, Screen!where, Screen!gateVars, Screen!panels
<1>4. CASE UNCHANGED Screen!vars
  BY <1>0, <1>4, Quiet DEF Screen!vars, Screen!where, Screen!gateVars, Screen!panels
<1> QED BY <1>1, <1>2, <1>3, <1>4, UserKeeps DEF Screen!Next
-------------------------------------------------------------------------------
LEMMA CountOf ==
  ASSUME NEW q, NEW w
  PROVE  /\ NoneOf(q, w) => Cardinality({i \in DOMAIN q : q[i].by = w}) = 0
         /\ OneOf(q, w) => Cardinality({i \in DOMAIN q : q[i].by = w}) = 1
<1>1. ASSUME NoneOf(q, w) PROVE Cardinality({i \in DOMAIN q : q[i].by = w}) = 0
  <2>1. {i \in DOMAIN q : q[i].by = w} = {}
    BY <1>1 DEF NoneOf
  <2> QED BY <2>1, FS_EmptySet
<1>2. ASSUME OneOf(q, w) PROVE Cardinality({i \in DOMAIN q : q[i].by = w}) = 1
  <2>1. PICK i \in DOMAIN q : {j \in DOMAIN q : q[j].by = w} = {i}
    BY <1>2 DEF OneOf
  <2> QED BY <2>1, FS_Singleton
<1> QED BY <1>1, <1>2

LEMMA SaysLastClickCounts ==
  ASSUME ScreenInv
  PROVE  Screen!WaitersAgree /\ Screen!LastClickCounts
<1>1. \A i \in DOMAIN cmds : cmds[i].op \in {"pause", "resume"} /\ cmds[i].by \in Screen!Actors
  <2>1. \A i \in DOMAIN cmds : cmds[i] \in Commands
    BY DEF ScreenInv, ScreenTypes
  <2> QED BY <2>1 DEF Commands
<1>2. LET inGame(by) == Screen!Cardinality({i \in DOMAIN cmds : cmds[i].by = by}) IN
        /\ inGame("gate") = IF gate.at = "idle" THEN 0 ELSE 1
        /\ inGame("surface") = IF surf # <<>> /\ Head(surf).sent THEN 1 ELSE 0
        /\ inGame("exit") = IF screenExit.at \in {"pausing", "resuming"} THEN 1 ELSE 0
        /\ inGame("editor") = IF editor = "opening" THEN 1 ELSE 0
  <2> DEFINE inGame(by) == Screen!Cardinality({i \in DOMAIN cmds : cmds[i].by = by})
  <2>1. Sent <=> surf # <<>> /\ Head(surf).sent
    BY SurfOf DEF Sent, ScreenInv, ScreenTypes
  <2>2. ASSUME NEW w
        PROVE  (NoneOf(cmds, w) => inGame(w) = 0) /\ (OneOf(cmds, w) => inGame(w) = 1)
    <3>1. ASSUME NEW S PROVE Screen!Cardinality(S) = Cardinality(S)
      BY Zenon DEF Screen!Cardinality, Cardinality
    <3> QED BY <3>1, CountOf
  <2> HIDE DEF inGame
  <2>3. inGame("gate") = IF gate.at = "idle" THEN 0 ELSE 1
    BY <2>2 DEF ScreenInv, WaitInv
  <2>4. inGame("surface") = IF surf # <<>> /\ Head(surf).sent THEN 1 ELSE 0
    BY <2>1, <2>2 DEF ScreenInv, WaitInv
  <2>5. inGame("exit") = IF screenExit.at \in {"pausing", "resuming"} THEN 1 ELSE 0
    BY <2>2 DEF ScreenInv, WaitInv
  <2>6. inGame("editor") = IF editor = "opening" THEN 1 ELSE 0
    BY <2>2 DEF ScreenInv, WaitInv
  <2> QED BY <2>3, <2>4, <2>5, <2>6 DEF inGame
<1>3. /\ (\A i \in DOMAIN surf : surf[i].sent => i = 1)
      /\ (saving = "taking" <=> screenGame = "CHECKPOINTING")
      /\ (gate.owns => gate.at # "resuming")
  BY DEF ScreenInv, SurfInv, QuietInv
<1>4. Screen!LastClickCounts
  BY DEF ScreenInv, WordInv, Screen!LastClickCounts, Screen!Ready
<1> QED BY <1>1, <1>2, <1>3, <1>4 DEF Screen!WaitersAgree

-------------------------------------------------------------------------------
(* What lies over a game.                                                    *)

(* What the effects of the last render left: the shortcuts are the game's exactly when       *)
(* nothing was over it, and whatever a frame of the gamepads did since, an overlay that was   *)
(* seen has the input.  A game that is not ready keeps the input it had.                      *)
InputInv ==
  Screen!Ready(committed.state) =>
    /\ policy = ~committed.suppressed
    /\ key # "none" => asked = committed.suppressed
    /\ committed.suppressed => asked

LEMMA InputInit ==
  ASSUME Screen!Init
  PROVE  InputInv
BY DEF Screen!Init, InputInv, Screen!View, Screen!Suppressed, Screen!DialogOpen, Screen!NoExit,
    Screen!Ready

(* Nothing but a render and a frame touches the input.                                       *)
LEMMA InputRests ==
  ASSUME [Screen!Next]_(Screen!vars)
  PROVE  UNCHANGED Screen!inputVars \/ Screen!Render \/ Screen!Frame
<1>1. CASE Screen!Micro
  BY <1>1 DEF Screen!Micro, Screen!GateActs, Screen!SurfActs, Screen!ExitContinues,
      Screen!Continues, Screen!inputVars
<1>2. CASE Screen!Game
  BY <1>2 DEF Screen!Game, Screen!Commanded, Screen!CommandFails, Screen!ExportDue,
      Screen!CheckpointStarts, Screen!CheckpointEnds, Screen!SaveSent, Screen!GameEnds,
      Screen!inputVars
<1>3. CASE Screen!User
  BY <1>3 DEF Screen!User, Screen!ToolbarClick, Screen!MenuClick, Screen!PauseClick,
      Screen!SurfaceClick, Screen!KeyPause, Screen!KeyMenu, Screen!ExitAsked,
      Screen!ExitCancelled, Screen!Neutral, Screen!EditorFromExit, Screen!EditorCloses,
      Screen!SaveChosen, Screen!SettingsUsed, Screen!SettingsMoved, Screen!Rotates,
      Screen!HidesOrShows, Screen!Same, Screen!inputVars
<1> QED BY <1>1, <1>2, <1>3 DEF Screen!Next, Screen!vars

LEMMA InputStep ==
  ASSUME InputInv, [Screen!Next]_(Screen!vars)
  PROVE  InputInv'
<1>1. CASE UNCHANGED Screen!inputVars
  BY <1>1 DEF InputInv, Screen!inputVars, Screen!Ready
<1>2. CASE Screen!Render
  <2>1. committed'.suppressed = Screen!Suppressed /\ committed'.state = screenGame /\ key' = key
    BY <1>2 DEF Screen!Render, Screen!View
  <2>2. CASE /\ Screen!Ready(screenGame)
             /\ committed.suppressed # Screen!Suppressed \/ committed.state # screenGame
    <3>1. asked' = Screen!Suppressed /\ policy' = ~Screen!Suppressed
      BY <1>2, <2>2 DEF Screen!Render
    <3> QED BY <2>1, <3>1, Zenon DEF InputInv, Screen!Ready
  <2>3. CASE /\ Screen!Ready(screenGame)
             /\ committed.suppressed = Screen!Suppressed /\ committed.state = screenGame
    <3>1. asked' = asked /\ policy' = policy
      BY <1>2, <2>3 DEF Screen!Render
    <3> QED BY <2>1, <2>3, <3>1, Zenon DEF InputInv, Screen!Ready
  <2>4. CASE ~Screen!Ready(screenGame)
    BY <2>1, <2>4 DEF InputInv, Screen!Ready
  <2> QED BY <2>2, <2>3, <2>4
<1>3. CASE Screen!Frame
  <2>1. committed' = committed /\ policy' = policy /\ committed.suppressed = Screen!Suppressed
    BY <1>3 DEF Screen!Frame, Screen!Settled, Screen!View
  <2>2. CASE asked' = TRUE /\ key' = "none"
    BY <2>1, <2>2 DEF InputInv, Screen!Ready
  <2>3. CASE asked' = Screen!Suppressed
    BY <2>1, <2>3, Zenon DEF InputInv, Screen!Ready
  <2> QED BY <1>3, <2>2, <2>3 DEF Screen!Frame
<1> QED BY <1>1, <1>2, <1>3, InputRests

LEMMA SaysInputFollowsScreen ==
  ASSUME InputInv
  PROVE  Screen!InputFollowsScreen
<1> SUFFICES ASSUME Screen!Settled, Screen!Ready(screenGame)
             PROVE  /\ policy = ~Screen!Suppressed
                    /\ visible /\ key # "none" => asked = Screen!Suppressed
                    /\ ~visible /\ key = "none" /\ Screen!Suppressed => asked
  BY DEF Screen!InputFollowsScreen
<1>1. committed.suppressed = Screen!Suppressed /\ committed.state = screenGame
  BY DEF Screen!Settled, Screen!View
<1> QED BY <1>1, Zenon DEF InputInv

-------------------------------------------------------------------------------
(* Player: a behaviour is that of the launch or that of the screen.                           *)
PlayerInv ==
  /\ playerPart = "launch" => LaunchInv
  /\ playerPart = "screen" => ScreenInv /\ InputInv

LEMMA OnePlayer ==
  ASSUME [PlayerNext]_playerVars
  PROVE  /\ playerPart' = playerPart
         /\ playerPart = "launch" => [Launch!Next]_(Launch!vars)
         /\ playerPart = "screen" => [Screen!Next]_(Screen!vars)
<1>1. playerPart' = playerPart
  BY DEF PlayerNext, playerVars
<1>2. ASSUME playerPart = "launch" PROVE [Launch!Next]_(Launch!vars)
  BY <1>2 DEF PlayerNext, playerVars, launchVars, Launch!vars
<1>3. ASSUME playerPart = "screen" PROVE [Screen!Next]_(Screen!vars)
  BY <1>3 DEF PlayerNext, playerVars, screenVars, Screen!vars, Screen!where, Screen!gateVars,
              Screen!panels, Screen!inputVars
<1> QED BY <1>1, <1>2, <1>3

LEMMA PlayerAlways ==
  ASSUME PlayerConfigured
  PROVE  PlayerSpec => []PlayerInv
<1>1. PlayerInit => PlayerInv
  BY LaunchInit, ScreenStarts, InputInit DEF PlayerInit, PlayerConfigured, PlayerInv
<1>2. PlayerInv /\ [PlayerNext]_playerVars => PlayerInv'
  BY OnePlayer, LaunchStep, LaunchRests, ScreenStep, InputStep DEF PlayerInv, PlayerConfigured
<1> QED BY <1>1, <1>2, PTL DEF PlayerSpec

(* However late a module, a runtime or a frame of an earlier effect arrives, and whatever       *)
(* page, phone or user do meanwhile: the runtime the page acts on is the one its effect          *)
(* started, what runs beside it is being disposed of, and the snapshot a restart goes on from    *)
(* is one the envelope accepts (usePlayerSession, restartFrom).                                *)
THEOREM LaunchStaysMine == ASSUME PlayerConfigured PROVE PlayerSpec => []LaunchIsMine
<1>1. PlayerInv => LaunchIsMine
  BY SaysLaunchIsMine DEF PlayerInv, LaunchIsMine
<1> QED BY <1>1, PlayerAlways, PTL

(* However fast the clicks come and however late the game acknowledges: a game with a pointer  *)
(* ends up as the last click asked for, unless another asked it since or a command failed, and  *)
(* each command in it has one who waits for it (usePlayerSurfacePause, usePlayerExit,            *)
(* OrientationPauseGate).                                                                      *)
THEOREM LastClickAlwaysCounts == ASSUME PlayerConfigured PROVE PlayerSpec => []LastClickCounts
<1>1. PlayerInv => LastClickCounts
  BY SaysLastClickCounts DEF PlayerInv, LastClickCounts
<1> QED BY <1>1, PlayerAlways, PTL

(* Whatever opens, closes, rotates, hides or ends, in whatever order the effects and the      *)
(* frames of the gamepads see it: in every settled state of a game that is ready, shortcuts     *)
(* and gamepads are the game's exactly when nothing lies over it (player-shell.tsx,             *)
(* use-player-controls.ts).                                                                    *)
THEOREM InputStaysWithScreen == ASSUME PlayerConfigured PROVE PlayerSpec => []InputFollowsScreen
<1>1. PlayerInv => InputFollowsScreen
  BY SaysInputFollowsScreen DEF PlayerInv, InputFollowsScreen
<1> QED BY <1>1, PlayerAlways, PTL
================================================================================
