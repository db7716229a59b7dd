------------------------------ MODULE Services ------------------------------
(* The background services of the server that share nothing but the database: the calls of   *)
(* the runtime worker, the scans (ScanJobs, which this module extends) and the replacement of *)
(* content.  A behaviour is one of one of these modules, chosen at the start.                 *)
EXTENDS ScanJobs

CONSTANTS   \* those of the modules, where they are explained
  Calls, Lanes, LaneOf, Size, Concurrency, Capacity, Budget, WriteBuffer,
  Processes, WorkerFaults,
  Ops, Games, GameOf, QueueLimit, None, LateCommit, ReplacementFaults

VARIABLES
  servicesPart,  \* which of the modules this behaviour is one of
  workerPc, expired, workerProcess, answer, lease, workerQueue, workerActive, bytes, admission,
  encoding, current, state, pending, dying, writes, executing, closed, workerFaults,
  replacementActive, replacementQueue, byGame, session, ctx, replacementPc, error, redis, version,
  base, committed, replacementFlight, replacementProcess, asked, replacementFaults

workerVars == <<workerPc, expired, workerProcess, answer, lease, workerQueue, workerActive, bytes,
                 admission, encoding, current, state, pending, dying, writes, executing, closed,
                 workerFaults>>
replacementVars == <<replacementActive, replacementQueue, byGame, session, ctx, replacementPc,
                      error, redis, version, base, committed, replacementFlight, replacementProcess,
                      asked, replacementFaults>>
servicesVars == <<servicesPart, workerVars, vars, replacementVars>>

\* With the proofs of the modules, so that their lemmas are facts of the services.
Worker == INSTANCE RuntimeWorkerProofs WITH
  MaxFaults <- WorkerFaults, pc <- workerPc, process <- workerProcess,
  queue <- workerQueue, active <- workerActive, faults <- workerFaults
Executor == INSTANCE ReplacementProofs WITH
  MaxFaults <- ReplacementFaults, active <- replacementActive,
  queue <- replacementQueue, pc <- replacementPc, flight <- replacementFlight,
  process <- replacementProcess, faults <- replacementFaults

\* The variables of the modules that a behaviour is not one of stay at 0.
WorkerOff ==
  /\ workerPc = 0 /\ expired = 0 /\ workerProcess = 0 /\ answer = 0 /\ lease = 0 /\ workerQueue = 0
  /\ workerActive = 0 /\ bytes = 0 /\ admission = 0 /\ encoding = 0 /\ current = 0 /\ state = 0
  /\ pending = 0 /\ dying = 0 /\ writes = 0 /\ executing = 0 /\ closed = 0 /\ workerFaults = 0
ScansOff ==
  /\ row = 0 /\ library = 0 /\ flight = 0 /\ process = 0 /\ pc = 0 /\ item = 0 /\ scan = 0
  /\ next = 0 /\ cancelled = 0 /\ faults = 0
ExecutorOff ==
  /\ replacementActive = 0 /\ replacementQueue = 0 /\ byGame = 0 /\ session = 0 /\ ctx = 0
  /\ replacementPc = 0 /\ error = 0 /\ redis = 0 /\ version = 0 /\ base = 0 /\ committed = 0
  /\ replacementFlight = 0 /\ replacementProcess = 0 /\ asked = 0 /\ replacementFaults = 0

ServicesInit ==
  \/ /\ servicesPart = "worker" /\ Worker!Init
     /\ ScansOff /\ ExecutorOff
  \/ /\ servicesPart = "scans" /\ Init
     /\ WorkerOff /\ ExecutorOff
  \/ /\ servicesPart = "replacement" /\ Executor!Init
     /\ WorkerOff /\ ScansOff

ServicesNext ==
  \/ /\ servicesPart = "worker" /\ Worker!Next
     /\ UNCHANGED <<servicesPart, vars, replacementVars>>
  \/ /\ servicesPart = "scans" /\ Next
     /\ UNCHANGED <<servicesPart, workerVars, replacementVars>>
  \/ /\ servicesPart = "replacement" /\ Executor!Next
     /\ UNCHANGED <<servicesPart, workerVars, vars>>

ServicesSpec == ServicesInit /\ [][ServicesNext]_servicesVars

\* Property: a call waits only while every slot of its lane is taken, the counters of a lane
\* are those of its leases, and what Node executes holds a slot (scheduling.go).
LanesServe ==
  servicesPart = "worker" =>
    Worker!TypeOK /\ Worker!CountersAgree /\ Worker!NoIdleSlot /\ Worker!ExecutionsHoldSlots

\* Property: the row of a scan adds up and counts as imported exactly what is in the library,
\* whatever replies were lost and wherever the process stopped; each item is accounted for
\* once, and each BIOS file installed once (scans/service.go).
RowsAgree ==
  servicesPart = "scans" =>
    /\ TypeOK /\ RowsAddUp /\ ImportsCounted /\ EachItemOnce /\ OneBiosFile

\* Property: content that clients read as completed is published, content that they read as
\* failed or cancelled will not be, and the executor knows its tasks (scans/replacement.go).
Truthful ==
  servicesPart = "replacement" =>
    Executor!TypeOK /\ Executor!ExecutorAgrees /\ Executor!CancelHonoured /\ Executor!Truthful

\* Property: the record of a publication names its file, so that a restart can verify it.
Recoverable == servicesPart = "replacement" => Executor!Recoverable

\* Property: a scan that ended, or the result of a replacement, is never changed by a
\* transaction or a statement that comes late.
KeepsResults ==
  /\ servicesPart = "scans" => EndsOnce
  /\ servicesPart = "replacement" => Executor!ResultsFinal

ResultsFinal == [][KeepsResults]_servicesVars
===============================================================================
