------------------------------ MODULE MCBackground ------------------------------
(* What the server must get done in the end: bytes nobody owns reclaimed, staging removed,     *)
(* calls answered, scans and replacements ended.  A behaviour is one of one of these modules, *)
(* chosen at the start; they share nothing but the database.                                  *)
EXTENDS Integers

CONSTANT None   \* a model value

VARIABLES
  part,  \* which of the modules this behaviour is one of
  game, file, owner, payload, origin, filesPc, op, inflight, stage, games, filesFiles, attachments,
  filesItem, filesFaults,
  uploadsSession, tree, age, uploadsPart, done, writing, scanned, mutex, req, listed, uploadsItem,
  uploadsFaults,
  workerPc, expired, workerProcess, answer, lease, workerQueue, workerActive, bytes, admission,
  encoding, current, state, pending, dying, writes, executing, closed, workerFaults,
  row, library, scansFlight, scansProcess, scansPc, scansItem, scan, next, cancelled, scansFaults,
  replacementActive, replacementQueue, byGame, replacementSession, ctx, replacementPc, error, redis,
  version, base, committed, replacementFlight, replacementProcess, asked, replacementFaults

Requests == {"r1", "r2"}

\* Two interactive calls for one slot.
Calls == {"c1", "c2"}
Processes == {"p1", "p2"}
OneLane == [c \in Calls |-> "interactive"]
OneSlot == [l \in {"interactive"} |-> 1]
Admitted == [l \in {"interactive"} |-> 3]

\* A scan for games, of which the source holds a copy, and one for BIOS files.
Scans == {"games", "bios"}
Kind == [s \in Scans |-> IF s = "games" THEN "game" ELSE "bios"]
Content == [games |-> <<"x", "x">>, bios |-> <<"y", "x">>]

\* Two operations, each for a game of its own: one is active, the other waits.
Ops == {"o1", "o2"}
Target == [o1 |-> "g1", o2 |-> "g2"]

filesVars == <<game, file, owner, payload, origin, filesPc, op, inflight, stage, games, filesFiles,
                attachments, filesItem, filesFaults>>
uploadsVars == <<uploadsSession, tree, age, uploadsPart, done, writing, scanned, mutex, req,
                  listed, uploadsItem, uploadsFaults>>
workerVars == <<workerPc, expired, workerProcess, answer, lease, workerQueue, workerActive, bytes,
                 admission, encoding, current, state, pending, dying, writes, executing, closed,
                 workerFaults>>
scansVars == <<row, library, scansFlight, scansProcess, scansPc, scansItem, scan, next, cancelled,
                scansFaults>>
replacementVars == <<replacementActive, replacementQueue, byGame, replacementSession, ctx,
                      replacementPc, error, redis, version, base, committed, replacementFlight,
                      replacementProcess, asked, replacementFaults>>
allVars == <<part, filesVars, uploadsVars, workerVars, scansVars, replacementVars>>

Files == INSTANCE ManagedFiles WITH
  Games <- {"g1"}, Files <- {"f1", "f2"}, Writers <- {"w1"}, Grace <- 1, Deadline <- 0,
  MaxVersion <- 1, MaxFaults <- 1, LateCommit <- FALSE, pc <- filesPc, files <- filesFiles,
  item <- filesItem, faults <- filesFaults
Staging == INSTANCE Uploads WITH
  UploadIds <- {"u1"}, Index <- 1 .. 2, Size <- <<2, 0>>, Requests <- Requests,
  MaximumSessions <- 1, MaximumScans <- 1, Window <- 2, MaxFaults <- 2, RedisFails <- FALSE,
  Overlap <- FALSE, session <- uploadsSession, part <- uploadsPart, item <- uploadsItem,
  faults <- uploadsFaults
Worker == INSTANCE RuntimeWorker WITH
  Calls <- Calls, Lanes <- {"interactive"}, LaneOf <- OneLane, Size <- [c \in Calls |-> 1],
  Concurrency <- OneSlot, Capacity <- Admitted, Budget <- 3, WriteBuffer <- 1,
  Processes <- Processes, MaxFaults <- 1, pc <- workerPc, process <- workerProcess,
  queue <- workerQueue, active <- workerActive, faults <- workerFaults
Jobs == INSTANCE ScanJobs WITH
  Scans <- Scans, ItemCount <- 2, KindOf <- Kind, ContentOf <- Content, MaxScans <- 2,
  MaxFaults <- 1, ProgressFails <- FALSE, LastMomentCancel <- FALSE, flight <- scansFlight,
  process <- scansProcess, pc <- scansPc, item <- scansItem, faults <- scansFaults
Executor == INSTANCE Replacement WITH
  Ops <- Ops, Games <- {"g1", "g2"}, GameOf <- Target, QueueLimit <- 1, LateCommit <- FALSE,
  MaxFaults <- 1, None <- None, active <- replacementActive, queue <- replacementQueue,
  session <- replacementSession, pc <- replacementPc, flight <- replacementFlight,
  process <- replacementProcess, faults <- replacementFaults

ASSUME Assumptions ==
  /\ Staging!UploadAssumption /\ Staging!UploadNames
  /\ Worker!RuntimeAssumption /\ Worker!RuntimeNames
  /\ Jobs!ScanAssumption /\ Executor!ReplacementAssumption

\* The variables of the modules that a behaviour is not one of stay at 0.
FilesOff ==
  /\ game = 0 /\ file = 0 /\ owner = 0 /\ payload = 0 /\ origin = 0 /\ filesPc = 0 /\ op = 0
  /\ inflight = 0 /\ stage = 0 /\ games = 0 /\ filesFiles = 0 /\ attachments = 0 /\ filesItem = 0
  /\ filesFaults = 0
StagingOff ==
  /\ uploadsSession = 0 /\ tree = 0 /\ age = 0 /\ uploadsPart = 0 /\ done = 0 /\ writing = 0
  /\ scanned = 0 /\ mutex = 0 /\ req = 0 /\ listed = 0 /\ uploadsItem = 0 /\ uploadsFaults = 0
WorkerOff ==
  /\ workerPc = 0 /\ expired = 0 /\ workerProcess = 0 /\ answer = 0 /\ lease = 0 /\ workerQueue = 0
  /\ workerActive = 0 /\ bytes = 0 /\ admission = 0 /\ encoding = 0 /\ current = 0 /\ state = 0
  /\ pending = 0 /\ dying = 0 /\ writes = 0 /\ executing = 0 /\ closed = 0 /\ workerFaults = 0
JobsOff ==
  /\ row = 0 /\ library = 0 /\ scansFlight = 0 /\ scansProcess = 0 /\ scansPc = 0 /\ scansItem = 0
  /\ scan = 0 /\ next = 0 /\ cancelled = 0 /\ scansFaults = 0
ExecutorOff ==
  /\ replacementActive = 0 /\ replacementQueue = 0 /\ byGame = 0 /\ replacementSession = 0 /\ ctx = 0
  /\ replacementPc = 0 /\ error = 0 /\ redis = 0 /\ version = 0 /\ base = 0 /\ committed = 0
  /\ replacementFlight = 0 /\ replacementProcess = 0 /\ asked = 0 /\ replacementFaults = 0

Init ==
  \/ /\ part = "files" /\ Files!Init
     /\ StagingOff /\ WorkerOff /\ JobsOff /\ ExecutorOff
  \/ /\ part = "uploads" /\ Staging!Init
     /\ FilesOff /\ WorkerOff /\ JobsOff /\ ExecutorOff
  \/ /\ part = "worker" /\ Worker!Init
     /\ FilesOff /\ StagingOff /\ JobsOff /\ ExecutorOff
  \/ /\ part = "scans" /\ Jobs!Init
     /\ FilesOff /\ StagingOff /\ WorkerOff /\ ExecutorOff
  \/ /\ part = "replacement" /\ Executor!Init
     /\ FilesOff /\ StagingOff /\ WorkerOff /\ JobsOff

Next ==
  \/ /\ part = "files" /\ Files!Next
     /\ UNCHANGED <<part, uploadsVars, workerVars, scansVars, replacementVars>>
  \/ /\ part = "uploads" /\ Staging!Next
     /\ UNCHANGED <<part, filesVars, workerVars, scansVars, replacementVars>>
  \/ /\ part = "worker" /\ Worker!Next
     /\ UNCHANGED <<part, filesVars, uploadsVars, scansVars, replacementVars>>
  \/ /\ part = "scans" /\ Jobs!Next
     /\ UNCHANGED <<part, filesVars, uploadsVars, workerVars, replacementVars>>
  \/ /\ part = "replacement" /\ Executor!Next
     /\ UNCHANGED <<part, filesVars, uploadsVars, workerVars, scansVars>>

\* The fairness of each module (see there): workers run, time passes, the database decides.
Fairness ==
  /\ WF_filesVars(part = "files" /\ Files!CleanerStep)
  /\ \A w \in {"w1"} : WF_filesVars(part = "files" /\ Files!WriterStep(w))
  /\ WF_filesVars(part = "files" /\ Files!DatabaseStep)
  /\ SF_filesVars(part = "files" /\ Files!Tick)
  /\ WF_uploadsVars(part = "uploads" /\ Staging!CleanupStep)
  /\ SF_uploadsVars(part = "uploads" /\ \E r \in Requests : Staging!RequestStep(r))
  /\ SF_uploadsVars(part = "uploads" /\ Staging!Tick)
  /\ \A c \in Calls : WF_workerVars(part = "worker" /\ Worker!CallStep(c))
  /\ \A p \in Processes : WF_workerVars(part = "worker" /\ Worker!FailStep(p))
  /\ \A p \in Processes : WF_workerVars(part = "worker" /\ Worker!Write(p))
  /\ WF_workerVars(part = "worker" /\ Worker!StopCurrent)
  /\ \A s \in Scans : WF_scansVars(part = "scans" /\ Jobs!Step(s))
  /\ \A s \in Scans : WF_scansVars(part = "scans" /\ Jobs!Land(s))
  /\ WF_scansVars(part = "scans" /\ Jobs!Exit)
  /\ WF_scansVars(part = "scans" /\ Jobs!Restart)
  /\ \A o \in Ops : WF_replacementVars(part = "replacement" /\ Executor!Run(o))
  /\ \A o \in Ops : WF_replacementVars(part = "replacement" /\ Executor!Land(o))

Spec == Init /\ [][Next]_allVars /\ Fairness

\* Every one of these behaviours comes to rest, because each file, upload, call, scan and
\* operation is used once and the faults are bounded: what must be done is done for good.

\* Property: the bytes of an aborted or crashed operation are reclaimed, and deleted games and
\* retired files are purged, whatever failed meanwhile (service/files/service.go).
EverythingReclaimed == <>[](part = "files" => Files!Reclaimed)

\* Property: a staging tree that no session can reach any more disappears (storage/uploads.go).
StagingReclaimed == <>[](part = "uploads" => ~Staging!Unreachable("u1"))

\* Property: every caller of the runtime worker has its answer or error before long, whether
\* or not Node ever answers, as long as deadlines pass (commandTimeout).
Deadlines == \A c \in Calls : WF_workerVars(part = "worker" /\ Worker!Expire(c))
CallsReturn == Deadlines => \A c \in Calls : []<>(part = "worker" => Worker!Returned(c))

\* Property: every scan ends, whatever failed (scans/service.go).
ScansEnd == <>[](part = "scans" => \A s \in Scans : ~Jobs!Running(s))

\* Property: every replacement that was accepted comes to an end (scans/replacement.go).
OperationsEnd == <>[](part = "replacement" => \A o \in Ops : Executor!Over(o))
===============================================================================
