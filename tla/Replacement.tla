---------------------------- MODULE Replacement ----------------------------
(***************************************************************************)
(* The executor of content replacements (internal/service/scans/           *)
(* replacement.go, replace.go): one operation runs, a bounded queue waits, *)
(* and Redis keeps the latest operation of each game.  Everything that     *)
(* touches the executor holds one mutex, calls of Redis and the database   *)
(* included, and is one step here; preparation and the transaction that    *)
(* publishes run without it.                                               *)
(***************************************************************************)
EXTENDS Integers, Sequences, SequencesExt

CONSTANTS
  Ops,          \* operations, each submitted once
  Games, GameOf,
  QueueLimit,   \* operations that may wait
  None,
  LateCommit,   \* TRUE: a transaction whose reply is lost may still be under way
  MaxFaults     \* bound: failing calls, lost replies, edits, lost records, crashes

ReplacementAssumption ==
  /\ GameOf \in [Ops -> Games] /\ None \notin Ops
  /\ QueueLimit \in Nat /\ MaxFaults \in Nat /\ LateCommit \in BOOLEAN

VARIABLES
  active, queue, byGame,  \* the executor
  session,                \* the progress each task holds
  ctx,                    \* the context of a task: "live", "canceled" or "deadline"
  pc, error,              \* the goroutine of the active task and what it failed with
  redis,                  \* the record of each game: an operation and its progress
  version, base,          \* game_tab.version, and the one an operation was submitted for
  committed, flight,      \* operations published, and those whose transaction is under way
  process,                \* "up", "stopping" or "down"
  asked,                  \* history: operations whose cancellation was accepted
  faults

executor == <<active, queue, byGame>>
worker == <<pc, error>>
database == <<version, committed, flight>>
vars == <<executor, session, ctx, worker, redis, database, base, process, asked, faults>>

Ended == {"completed", "failed", "cancelled", "interrupted"}
Session == [status : Ended \cup {"queued", "running", "canceling"},
            canCancel : BOOLEAN,
            file : BOOLEAN,        \* FileID: the file the operation allocated is on record
            uncertain : BOOLEAN]   \* CONTENT_REPLACEMENT_COMMIT_UNCERTAIN
Queued == [status |-> "queued", canCancel |-> TRUE, file |-> FALSE, uncertain |-> FALSE]

Init ==
  /\ active = None /\ queue = <<>> /\ byGame = [g \in Games |-> None]
  /\ session = [o \in Ops |-> Queued]
  /\ ctx = [o \in Ops |-> "live"]
  /\ pc = [o \in Ops |-> "new"] /\ error = [o \in Ops |-> "none"]
  /\ redis = [g \in Games |-> None]
  /\ version = [g \in Games |-> 1] /\ base = [o \in Ops |-> 1]
  /\ committed = {} /\ flight = {} /\ asked = {}
  /\ process = "up" /\ faults = 0

-----------------------------------------------------------------------------
Fault == faults < MaxFaults /\ faults' = faults + 1
Goto(o, label) == pc' = [pc EXCEPT ![o] = label]
Fail(o, err) == Goto(o, "finish") /\ error' = [error EXCEPT ![o] = err]
Task(o) == byGame[GameOf[o]] = o

\* The queue once a task that waits has left it.
Places(o) == {i \in DOMAIN queue : queue[i] = o}
Without(o) == IF Places(o) = {} THEN queue ELSE RemoveAt(queue, CHOOSE i \in Places(o) : TRUE)

\* saveReplacement writes the record, and fails before or after it took effect.
Saved(o, s) == redis' = [redis EXCEPT ![GameOf[o]] = [op |-> o, session |-> s]]
SaveFails(o, s) == Fault /\ (Saved(o, s) \/ UNCHANGED redis)
Save(o, s) == (Saved(o, s) /\ UNCHANGED faults) \/ SaveFails(o, s)

-----------------------------------------------------------------------------
(* Replace: admission.                                                     *)

\* Slip: the queue has no bound.
EnqueueUnbounded(o) ==
  LET s == IF active = None THEN [Queued EXCEPT !.status = "running"] ELSE Queued IN
  /\ pc[o] = "new" /\ process = "up" /\ byGame[GameOf[o]] = None
  /\ Saved(o, s)
  /\ session' = [session EXCEPT ![o] = s]
  /\ base' = [base EXCEPT ![o] = version[GameOf[o]]]
  /\ byGame' = [byGame EXCEPT ![GameOf[o]] = o]
  /\ IF active = None THEN active' = o /\ queue' = queue /\ Goto(o, "prepare")
     ELSE active' = active /\ queue' = Append(queue, o) /\ Goto(o, "queued")
  /\ UNCHANGED <<ctx, error, database, process, asked, faults>>

Enqueue(o) ==
  LET s == IF active = None THEN [Queued EXCEPT !.status = "running"] ELSE Queued IN
  /\ pc[o] = "new" /\ process = "up"
  /\ byGame[GameOf[o]] = None
  /\ active = None \/ Len(queue) < QueueLimit
  /\ \/ /\ Saved(o, s)
        /\ session' = [session EXCEPT ![o] = s]
        /\ base' = [base EXCEPT ![o] = version[GameOf[o]]]
        /\ byGame' = [byGame EXCEPT ![GameOf[o]] = o]
        /\ IF active = None THEN active' = o /\ queue' = queue /\ Goto(o, "prepare")
           ELSE active' = active /\ queue' = Append(queue, o) /\ Goto(o, "queued")
        /\ UNCHANGED faults
     \/ SaveFails(o, s) /\ Goto(o, "ended") /\ UNCHANGED <<executor, session, base>>
  /\ UNCHANGED <<ctx, error, database, process, asked>>

-----------------------------------------------------------------------------
(* finishReplacementTask, replacementFailure.                              *)

\* Slip: an uncertain publication is reported as failed.
ResultUncertainFails(o, err) ==
  [session[o] EXCEPT !.canCancel = FALSE,
     !.status = CASE err = "none" -> "completed"
                  [] err = "canceled" -> "cancelled"
                  [] OTHER -> "failed"]

Result(o, err) ==
  [session[o] EXCEPT !.canCancel = FALSE, !.uncertain = (err = "uncertain"),
     !.status = CASE err = "none" -> "completed"
                  [] err = "uncertain" -> "interrupted"
                  [] err = "deadline" -> "failed"
                  [] err \notin {"none", "uncertain", "deadline"} /\ process # "up" -> "interrupted"
                  [] err = "canceled" /\ process = "up" -> "cancelled"
                  [] OTHER -> "failed"]

\* What the program keeps of tasks that left: nothing.
Forget(gone) ==
  /\ session' = [o \in Ops |-> IF o \in gone THEN Queued ELSE session[o]]
  /\ ctx' = [o \in Ops |-> IF o \in gone THEN "live" ELSE ctx[o]]
  /\ error' = [o \in Ops |-> IF o \in gone THEN "none" ELSE error[o]]
  /\ base' = [o \in Ops |-> IF o \in gone THEN 1 ELSE base[o]]

\* Slip: the queue does not move up.
FinishWithoutNext(o, err, waiting) ==
  /\ Save(o, Result(o, err)) /\ Forget({o})
  /\ byGame' = [byGame EXCEPT ![GameOf[o]] = None]
  /\ queue' = waiting /\ active' = IF active = o THEN None ELSE active
  /\ Goto(o, "ended")

\* The record is written, the task leaves, and the queue moves up.
FinishTask(o, err, waiting) ==
  /\ Save(o, Result(o, err)) /\ Forget({o})
  /\ byGame' = [byGame EXCEPT ![GameOf[o]] = None]
  /\ IF active # o THEN active' = active /\ queue' = waiting /\ Goto(o, "ended")
     ELSE IF waiting = <<>> THEN active' = None /\ queue' = <<>> /\ Goto(o, "ended")
     ELSE /\ active' = Head(waiting) /\ queue' = Tail(waiting)
          /\ pc' = [pc EXCEPT ![o] = "ended", ![Head(waiting)] = "prepare"]

Finish(o) ==
  /\ pc[o] = "finish"
  /\ FinishTask(o, error[o], queue)
  /\ UNCHANGED <<database, process, asked>>

-----------------------------------------------------------------------------
(* runReplacement, prepareReplacement.                                     *)

\* replacementPhase, for each phase of the preparation.
Prepare(o) ==
  /\ pc[o] = "prepare"
  /\ \/ ctx[o] # "live" /\ Fail(o, ctx[o]) /\ UNCHANGED <<session, redis, faults>>
     \/ /\ ctx[o] = "live"
        /\ session' = [session EXCEPT ![o].status = "running"]
        /\ \/ Saved(o, session'[o]) /\ Goto(o, "build") /\ UNCHANGED <<error, faults>>
           \/ SaveFails(o, session'[o]) /\ Fail(o, "other")
  /\ UNCHANGED <<executor, ctx, database, base, process, asked>>

\* buildReplacement: the version is read again, the content copied, normalized,
\* configured and packed.
Build(o) ==
  /\ pc[o] = "build"
  /\ \/ version[GameOf[o]] # base[o] /\ Fail(o, "other") /\ UNCHANGED faults
     \/ ctx[o] # "live" /\ Fail(o, ctx[o]) /\ UNCHANGED faults
     \/ Fault /\ Fail(o, "other")
     \/ Goto(o, "begin") /\ UNCHANGED <<error, faults>>
  /\ UNCHANGED <<executor, session, ctx, redis, database, base, process, asked>>

\* Slip: the file is kept in memory only.
BeginUnsaved(o) ==
  /\ pc[o] = "begin"
  /\ \/ ctx[o] # "live" /\ Fail(o, ctx[o]) /\ UNCHANGED session
     \/ /\ ctx[o] = "live"
        /\ session' = [session EXCEPT ![o].canCancel = FALSE, ![o].file = TRUE]
        /\ Goto(o, "commit") /\ UNCHANGED error
  /\ UNCHANGED <<executor, ctx, redis, database, base, process, asked, faults>>

\* beginReplacementPublication: from here on nobody cancels, and the record
\* names the file by which the publication can be verified.
Begin(o) ==
  /\ pc[o] = "begin"
  /\ \/ ctx[o] # "live" /\ Fail(o, ctx[o]) /\ UNCHANGED <<session, redis, faults>>
     \/ /\ ctx[o] = "live"
        /\ session' = [session EXCEPT ![o].canCancel = FALSE, ![o].file = TRUE]
        /\ \/ Saved(o, session'[o]) /\ Goto(o, "commit") /\ UNCHANGED <<error, faults>>
           \/ SaveFails(o, session'[o]) /\ Fail(o, "other")
  /\ UNCHANGED <<executor, ctx, database, base, process, asked>>

RowLocked(g) == \E o \in flight : GameOf[o] = g

\* ReplaceFiles compares the version and publishes.
Publish(o) ==
  /\ version' = [version EXCEPT ![GameOf[o]] = @ + 1]
  /\ committed' = committed \cup {o}

Commit(o) ==
  /\ pc[o] = "commit" /\ ~RowLocked(GameOf[o]) /\ ctx[o] = "live"
  /\ \/ version[GameOf[o]] = base[o] /\ Publish(o) /\ Fail(o, "none")
     \/ version[GameOf[o]] # base[o] /\ Fail(o, "other") /\ UNCHANGED <<version, committed>>
  /\ UNCHANGED <<executor, session, ctx, redis, flight, base, process, asked, faults>>

Disturbed(o) == (ctx[o] # "live" /\ UNCHANGED faults) \/ Fault

RollBack(o) ==
  /\ pc[o] = "commit" /\ Disturbed(o)
  /\ Fail(o, IF ctx[o] = "live" THEN "other" ELSE ctx[o])
  /\ UNCHANGED <<executor, session, ctx, redis, database, base, process, asked>>

\* What becomes of transactions cut off from the program.
CutOff(sent) ==
  \E applied \in SUBSET sent : \E late \in SUBSET (sent \ applied) :
    /\ late = {} \/ LateCommit
    /\ committed' = committed \cup applied
    /\ version' = [g \in Games |-> version[g] + (IF \E o \in applied : GameOf[o] = g THEN 1 ELSE 0)]
    /\ flight' = flight \cup late

Executed(o) == pc[o] = "commit" /\ ~RowLocked(GameOf[o]) /\ version[GameOf[o]] = base[o]

LoseReply(o) ==
  /\ Executed(o) /\ Disturbed(o)
  /\ CutOff({o}) /\ Goto(o, "confirm")
  /\ UNCHANGED <<executor, session, ctx, error, redis, base, process, asked>>

Land(o) ==
  /\ o \in flight /\ flight' = flight \ {o}
  /\ Publish(o) \/ UNCHANGED <<version, committed>>
  /\ UNCHANGED <<executor, session, ctx, worker, redis, base, process, asked, faults>>

\* finishReplacement: the allocated file decides.
Confirm(o) ==
  /\ pc[o] = "confirm"
  /\ \/ Fail(o, IF o \in committed THEN "none" ELSE "uncertain") /\ UNCHANGED faults
     \/ Fault /\ Fail(o, "uncertain")
  /\ UNCHANGED <<executor, session, ctx, redis, database, base, process, asked>>

-----------------------------------------------------------------------------
(* CancelReplacement, expireReplacement, ContentReplacement.               *)

Cancel(o) ==
  /\ process # "down" /\ Task(o) /\ session[o].canCancel
  /\ asked' = asked \cup {o}
  /\ \/ /\ active = o
        /\ ctx' = [ctx EXCEPT ![o] = IF @ = "live" THEN "canceled" ELSE @]
        /\ session' = [session EXCEPT ![o].status = "canceling", ![o].canCancel = FALSE]
        /\ Save(o, session'[o])
        /\ UNCHANGED <<executor, worker, base>>
     \/ active # o /\ FinishTask(o, "canceled", Without(o))
  /\ UNCHANGED <<database, process>>

Deadline(o) ==
  /\ Task(o) /\ ctx[o] = "live"
  /\ ctx' = [ctx EXCEPT ![o] = "deadline"]
  /\ UNCHANGED <<executor, session, worker, redis, database, base, process, asked, faults>>

\* The context of a waiting task is done.
Expire(o) ==
  /\ Task(o) /\ active # o /\ ctx[o] # "live"
  /\ FinishTask(o, ctx[o], Without(o))
  /\ UNCHANGED <<database, process, asked>>

Unsettled(s) == s.status \notin Ended \/ s.uncertain

\* replacementSession reads a record nobody works on: reconcileReplacement.
Reconciled(o, s) ==
  [s EXCEPT !.canCancel = FALSE, !.uncertain = FALSE,
            !.status = IF s.file /\ o \in committed THEN "completed" ELSE "interrupted"]

\* Slip: settled records are reconciled as well.
QueryAnything(g) ==
  /\ process # "down" /\ byGame[g] = None /\ redis[g] # None
  /\ Save(redis[g].op, Reconciled(redis[g].op, redis[g].session))
  /\ UNCHANGED <<executor, session, ctx, worker, database, base, process, asked>>

Query(g) ==
  /\ process # "down" /\ byGame[g] = None /\ redis[g] # None
  /\ Unsettled(redis[g].session)
  /\ Save(redis[g].op, Reconciled(redis[g].op, redis[g].session))
  /\ UNCHANGED <<executor, session, ctx, worker, database, base, process, asked>>

-----------------------------------------------------------------------------
(* The rest of the program and of the world.                               *)

\* Another change of the game, compared by its version as well.
Edit(g) ==
  /\ process # "down" /\ ~RowLocked(g) /\ Fault
  /\ version' = [version EXCEPT ![g] = @ + 1]
  /\ UNCHANGED <<executor, session, ctx, worker, redis, committed, flight, base, process, asked>>

\* A record expires, or Redis loses it.
LoseRecord(g) ==
  /\ redis[g] # None /\ Fault
  /\ redis' = [redis EXCEPT ![g] = None]
  /\ UNCHANGED <<executor, session, ctx, worker, database, base, process, asked>>

Shutdown ==
  /\ process = "up" /\ process' = "stopping"
  /\ ctx' = [o \in Ops |-> IF Task(o) /\ ctx[o] = "live" THEN "canceled" ELSE ctx[o]]
  /\ UNCHANGED <<executor, session, worker, redis, database, base, asked, faults>>

Exit ==
  /\ process = "stopping" /\ \A g \in Games : byGame[g] = None
  /\ process' = "down"
  /\ UNCHANGED <<executor, session, ctx, worker, redis, database, base, asked, faults>>

Crash ==
  /\ process # "down" /\ Fault
  /\ process' = "down"
  /\ active' = None /\ queue' = <<>> /\ byGame' = [g \in Games |-> None]
  /\ pc' = [o \in Ops |-> IF Task(o) THEN "ended" ELSE pc[o]]
  /\ CutOff({o \in Ops : Executed(o)}) /\ Forget({o \in Ops : Task(o)})
  /\ UNCHANGED <<redis, asked>>

Restart ==
  /\ process = "down" /\ process' = "up"
  /\ UNCHANGED <<executor, session, ctx, worker, redis, database, base, asked, faults>>

Run(o) ==
  \/ Prepare(o) \/ Build(o) \/ Begin(o) \/ Commit(o) \/ RollBack(o) \/ LoseReply(o)
  \/ Confirm(o) \/ Finish(o)

Next ==
  \/ \E o \in Ops : Enqueue(o) \/ Run(o) \/ Land(o) \/ Cancel(o) \/ Deadline(o) \/ Expire(o)
  \/ \E g \in Games : Query(g) \/ Edit(g) \/ LoseRecord(g)
  \/ Shutdown \/ Exit \/ Crash \/ Restart

Spec == Init /\ [][Next]_vars

\* The goroutine of the active task runs, and the database ends what is under way.
FairSpec == Spec /\ \A o \in Ops : WF_vars(Run(o)) /\ WF_vars(Land(o))

-----------------------------------------------------------------------------
TypeOK ==
  /\ active \in Ops \cup {None} /\ queue \in Seq(Ops) /\ Len(queue) <= QueueLimit
  /\ byGame \in [Games -> Ops \cup {None}]
  /\ session \in [Ops -> Session]
  /\ ctx \in [Ops -> {"live", "canceled", "deadline"}]
  /\ pc \in [Ops -> {"new", "queued", "prepare", "build", "begin", "commit", "confirm", "finish", "ended"}]
  /\ error \in [Ops -> {"none", "canceled", "deadline", "uncertain", "other"}]
  /\ \A g \in Games : redis[g] # None => redis[g] \in [op : Ops, session : Session]
  /\ version \in [Games -> Nat] /\ base \in [Ops -> Nat]
  /\ committed \in SUBSET Ops /\ flight \in SUBSET Ops /\ asked \in SUBSET Ops
  /\ process \in {"up", "stopping", "down"} /\ faults \in 0..MaxFaults

\* The tasks the executor knows are the active one, which has a goroutine, and
\* those that wait for it, each for a game of its own; nobody waits for nothing.
ExecutorAgrees ==
  LET waiting == {queue[i] : i \in DOMAIN queue}
      running == {active} \ {None} IN
  /\ {o \in Ops : Task(o)} = running \cup waiting
  /\ running \cap waiting = {} /\ IsInjective(queue)
  /\ running = {o \in Ops : pc[o] \notin {"new", "queued", "ended"}}
  /\ running = {} => waiting = {}

\* A cancellation that was accepted is honoured: the content is not replaced,
\* neither now nor by a transaction under way.
CancelHonoured == asked \cap (committed \cup flight) = {}

\* What a client may read is true: completed content is published, and content
\* reported failed or cancelled is not and will not be (docs/storage-and-database.md:
\* published content is never reported as cancelled).
TruthOf(o, s) ==
  /\ s.status = "completed" => o \in committed
  /\ s.status \in {"failed", "cancelled", "canceling"} => o \notin committed \cup flight

Truthful ==
  /\ \A o \in Ops : Task(o) => TruthOf(o, session[o])
  /\ \A g \in Games : redis[g] # None => TruthOf(redis[g].op, redis[g].session)

\* Whatever became of the process, the record of a publication names its file,
\* so that it can be verified.
Recoverable ==
  \A g \in Games :
    redis[g] # None /\ redis[g].op \in committed \cup flight => redis[g].session.file

\* A settled result is replaced by another operation or lost, never changed.
ResultsFinal ==
  \A g \in Games :
    /\ redis[g] # None /\ ~Unsettled(redis[g].session)
    /\ redis'[g] # None /\ redis'[g].op = redis[g].op
    => redis'[g] = redis[g]

\* Every operation that was accepted comes to an end, those that wait included.
Over(o) == ~Task(o)
=============================================================================
