------------------------------ MODULE ScanJobs ------------------------------
(***************************************************************************)
(* Game and BIOS scans (internal/service/scans/service.go, commit.go,      *)
(* bios.go): up to MaxScans workers each go through the items of a source, *)
(* prepare them outside any transaction and commit each of them together   *)
(* with the scan's counters.  A worker can be cancelled, a commit can lose *)
(* its reply, the process can be shut down, crash and start again.         *)
(*                                                                         *)
(* A transaction whose reply is lost may still be under way: it then holds *)
(* the row of its scan, and the name of the BIOS file it installs, which   *)
(* other statements wait for.                                              *)
(***************************************************************************)
EXTENDS Integers, FiniteSets

CONSTANTS
  Scans,             \* identifiers of scans, each used once
  ItemCount,         \* candidates or requirements of a scan
  KindOf,            \* "game" or "bios"
  ContentOf,         \* ContentOf[s][i]: the content hash or requirement of an item
  MaxScans,          \* slots (admit)
  MaxFaults,         \* bound: crashes, lost replies, failed items and statements
  ProgressFails,     \* TRUE: statements that write the row alone may fail
  LastMomentCancel   \* FALSE: nobody cancels a scan that opens its source or
                     \* has prepared its last item

Items == 1..ItemCount

ScanAssumption ==
  /\ ItemCount \in Nat /\ MaxScans \in Nat /\ MaxFaults \in Nat
  /\ KindOf \in [Scans -> {"game", "bios"}]
  /\ DOMAIN ContentOf = Scans /\ \A s \in Scans : DOMAIN ContentOf[s] = Items
  /\ ProgressFails \in BOOLEAN /\ LastMomentCancel \in BOOLEAN

VARIABLES
  row,        \* scan_progress_tab
  library,    \* games and BIOS files committed: pairs of a scan and an item
  flight,     \* scans whose transaction is still under way after its reply was lost
  process,    \* "up", "stopping" (the context is done) or "down"
  pc, item,   \* the workers and their loops
  scan, next, \* the worker's counters, and those of the transaction it commits
  cancelled,  \* the worker's context is done
  faults

database == <<row, library, flight>>
loop == <<item, scan, next>>
vars == <<database, process, pc, loop, cancelled, faults>>

Zero == [processed |-> 0, imported |-> 0, skipped |-> 0, failed |-> 0]
Counters == [processed : 0..ItemCount, imported : 0..ItemCount, skipped : 0..ItemCount, failed : 0..ItemCount]
Status == {"none", "running", "completed", "failed", "cancelled", "interrupted"}
PC == {"none", "insert", "open", "check", "prepare", "execute", "commit", "confirm",
       "interrupt", "abort", "record", "finish", "release", "ended"}

Init ==
  /\ row = [s \in Scans |-> [status |-> "none", count |-> Zero]]
  /\ library = {} /\ flight = {} /\ cancelled = {}
  /\ process = "up"
  /\ pc = [s \in Scans |-> "none"] /\ item = [s \in Scans |-> 1]
  /\ scan = [s \in Scans |-> Zero] /\ next = [s \in Scans |-> Zero]
  /\ faults = 0

-----------------------------------------------------------------------------
Goto(s, label) == pc' = [pc EXCEPT ![s] = label]
Fault == faults < MaxFaults /\ faults' = faults + 1

\* The workers the process waits for (workers); each has its slot (cancel).
Slots == {s \in Scans : pc[s] \notin {"none", "ended"}}

Processed(count) == [count EXCEPT !.processed = @ + 1]
Imported(count) == [Processed(count) EXCEPT !.imported = @ + 1]
FailedItem(count) == [Processed(count) EXCEPT !.failed = @ + 1]

Write(s, status, count) == row' = [row EXCEPT ![s] = [status |-> status, count |-> count]]

\* progress under a context that is not done: a failure is only logged.
Progress(s, status, count) ==
  \/ Write(s, status, count) /\ UNCHANGED faults
  \/ ProgressFails /\ Fault /\ UNCHANGED row

\* progress under the worker's context, which writes nothing when it is done.
OwnProgress(s, status, count) ==
  IF s \in cancelled THEN UNCHANGED <<row, faults>> ELSE Progress(s, status, count)

StopStatus == IF process = "stopping" THEN "interrupted" ELSE "cancelled"

Importing(s) == next[s].imported > scan[s].imported
SameContent(s, x) == KindOf[x[1]] = KindOf[s] /\ ContentOf[x[1]][x[2]] = ContentOf[s][item[s]]
InLibrary(s) == \E x \in library : SameContent(s, x)

\* Another transaction installs the same BIOS file (requirement_key, active_slot).
Installing(s) ==
  \E t \in Scans \ {s} :
    /\ KindOf[s] = "bios"
    /\ pc[t] = "commit" \/ t \in flight
    /\ Importing(t) /\ SameContent(s, <<t, item[t]>>)

-----------------------------------------------------------------------------
(* Create, CreateBios: a slot, the row, the worker.                        *)

Admit(s) ==
  /\ process # "down" /\ pc[s] = "none"
  /\ Cardinality(Slots) < MaxScans
  /\ Goto(s, "insert")
  /\ UNCHANGED <<database, process, loop, cancelled, faults>>

\* The row is written under the request's context, done when the process
\* stops; a worker started while it stops is cancelled at once (onShutdown).
InsertRow(s) ==
  /\ pc[s] = "insert"
  /\ \/ Write(s, "running", Zero) /\ Goto(s, "open") /\ UNCHANGED faults
     \/ /\ IF process = "stopping" THEN UNCHANGED faults ELSE ProgressFails /\ Fault
        /\ Write(s, "running", Zero) \/ UNCHANGED row
        /\ Goto(s, "release")
  /\ cancelled' = cancelled \cup (IF process = "stopping" THEN {s} ELSE {})
  /\ UNCHANGED <<library, flight, process, loop>>

\* The worker opens the source, and a BIOS scan looks for its candidates: it
\* tells its own cancellation from a source that cannot be read.
OpenSource(s) ==
  /\ pc[s] = "open"
  /\ \/ Goto(s, "check") /\ UNCHANGED <<row, faults>>
     \/ /\ Fault /\ Goto(s, "release")
        /\ \/ s \notin cancelled /\ Write(s, "failed", scan[s])
           \/ (s \in cancelled \/ ProgressFails) /\ UNCHANGED row
     \/ /\ KindOf[s] = "bios" /\ s \in cancelled
        /\ Goto(s, "release") /\ Progress(s, StopStatus, scan[s])
  /\ UNCHANGED <<library, flight, process, loop, cancelled>>

-----------------------------------------------------------------------------
(* run, runBios: the loop.                                                 *)

Stop(s) ==
  /\ Goto(s, "release") /\ Progress(s, StopStatus, scan[s])
  /\ UNCHANGED <<library, flight, process, loop, cancelled>>

CheckItem(s) ==
  /\ pc[s] = "check"
  /\ IF item[s] \in Items /\ s \in cancelled THEN Stop(s)
     ELSE /\ Goto(s, IF item[s] \in Items THEN "prepare" ELSE "finish")
          /\ UNCHANGED <<database, process, loop, cancelled, faults>>

\* importGame and prepareBios up to the transaction.  A BIOS file that could
\* not be prepared is counted in the transaction, a game is not.
Prepare(s) ==
  /\ pc[s] = "prepare"
  /\ \/ /\ s \notin cancelled /\ UNCHANGED faults
        /\ next' = [next EXCEPT ![s] = Processed(scan[s])] /\ Goto(s, "execute")
     \/ /\ KindOf[s] = "bios" /\ s \notin cancelled /\ Fault
        /\ next' = [next EXCEPT ![s] = FailedItem(scan[s])] /\ Goto(s, "execute")
     \/ /\ KindOf[s] = "game" /\ Fault /\ Goto(s, "abort") /\ UNCHANGED next
     \/ /\ s \in cancelled /\ Goto(s, "abort") /\ UNCHANGED <<next, faults>>
  /\ UNCHANGED <<database, process, item, scan, cancelled>>

-----------------------------------------------------------------------------
(* commitGame, commitBios: the item and the counters in one transaction.   *)

\* The statements of the transaction: DuplicateGame sees what is committed,
\* InstallBios waits for whoever installs the same file.  (A requirement without
\* a candidate, skipped without looking, is left out.)
Execute(s) ==
  /\ pc[s] = "execute" /\ s \notin cancelled /\ ~Installing(s)
  /\ \/ next[s].failed > scan[s].failed /\ UNCHANGED next
     \/ /\ next[s].failed = scan[s].failed
        /\ next' = IF InLibrary(s) THEN [next EXCEPT ![s].skipped = @ + 1]
                                   ELSE [next EXCEPT ![s].imported = @ + 1]
  /\ Goto(s, "commit")
  /\ UNCHANGED <<database, process, item, scan, cancelled, faults>>

Apply(s) ==
  /\ Write(s, "running", next[s])
  /\ library' = library \cup (IF Importing(s) THEN {<<s, item[s]>>} ELSE {})

Advance(s, count) ==
  /\ scan' = [scan EXCEPT ![s] = count]
  /\ item' = [item EXCEPT ![s] = @ + 1]

Commit(s) ==
  /\ pc[s] = "commit" /\ s \notin cancelled
  /\ Apply(s) /\ Advance(s, next[s]) /\ Goto(s, "check")
  /\ UNCHANGED <<flight, process, next, cancelled, faults>>

Disturbed(s) == (s \in cancelled /\ UNCHANGED faults) \/ Fault

\* A statement fails, or the database answers COMMIT with a rollback.
RollBack(s) ==
  /\ pc[s] \in {"execute", "commit"}
  /\ Disturbed(s) /\ Goto(s, "abort")
  /\ UNCHANGED <<database, process, loop, cancelled>>

\* Slip: a lost reply is taken for a rollback.
LoseReplyAsFailure(s) ==
  /\ pc[s] = "commit"
  /\ Disturbed(s) /\ Goto(s, "abort")
  /\ Apply(s) \/ UNCHANGED <<row, library>>
  /\ UNCHANGED <<flight, process, loop, cancelled>>

\* ErrCommitUncertain: the transaction took place, or not, or is under way.
LoseReply(s) ==
  /\ pc[s] = "commit"
  /\ Disturbed(s) /\ Goto(s, "confirm")
  /\ \/ Apply(s) /\ UNCHANGED flight
     \/ UNCHANGED database
     \/ flight' = flight \cup {s} /\ UNCHANGED <<row, library>>
  /\ UNCHANGED <<process, loop, cancelled>>

Land(s) ==
  /\ s \in flight
  /\ flight' = flight \ {s}
  /\ Apply(s) \/ UNCHANGED <<row, library>>
  /\ UNCHANGED <<process, pc, loop, cancelled, faults>>

\* confirmCommit: what is persisted decides.
Confirm(s) ==
  /\ pc[s] = "confirm"
  /\ \/ /\ row[s].count.processed >= next[s].processed
        /\ Importing(s) => <<s, item[s]>> \in library
        /\ Advance(s, row[s].count) /\ Goto(s, "check") /\ UNCHANGED faults
     \/ /\ row[s].count.processed < next[s].processed
        /\ Goto(s, "interrupt") /\ UNCHANGED <<scan, item, faults>>
     \/ /\ Fault /\ Goto(s, "interrupt") /\ UNCHANGED <<scan, item>>
  /\ UNCHANGED <<database, process, next, cancelled>>

\* Slip: the loop goes on after an uncertain commit.
InterruptAndGoOn(s) ==
  /\ pc[s] = "interrupt" /\ s \notin flight
  /\ Write(s, "interrupted", row[s].count)
  /\ Advance(s, row[s].count) /\ Goto(s, "check")
  /\ UNCHANGED <<library, flight, process, next, cancelled, faults>>

\* interruptUncertain: StopScan waits for a transaction that holds the row, and
\* is one of the faults when its five seconds are not enough.
Interrupt(s) ==
  /\ pc[s] = "interrupt"
  /\ \/ s \notin flight /\ Write(s, "interrupted", row[s].count) /\ UNCHANGED faults
     \/ ProgressFails /\ Fault /\ UNCHANGED row
  /\ Goto(s, "release")
  /\ UNCHANGED <<library, flight, process, loop, cancelled>>

\* An item that certainly was not committed.  A game is counted by a
\* statement of its own, a BIOS requirement ends the scan.
AbortItem(s) ==
  /\ pc[s] = "abort"
  /\ \/ KindOf[s] = "game" /\ s \in cancelled /\ Stop(s)
     \/ /\ KindOf[s] = "game" /\ s \notin cancelled
        /\ Advance(s, FailedItem(scan[s])) /\ Goto(s, "record")
        /\ UNCHANGED <<database, process, next, cancelled, faults>>
     \/ /\ KindOf[s] = "bios"
        /\ Goto(s, "release") /\ Progress(s, "failed", scan[s])
        /\ UNCHANGED <<library, flight, process, loop, cancelled>>

RecordFailure(s) ==
  /\ pc[s] = "record"
  /\ OwnProgress(s, "running", scan[s]) /\ Goto(s, "check")
  /\ UNCHANGED <<library, flight, process, loop, cancelled>>

Finish(s) ==
  /\ pc[s] = "finish"
  /\ OwnProgress(s, "completed", scan[s]) /\ Goto(s, "release")
  /\ UNCHANGED <<library, flight, process, loop, cancelled>>

\* release, and Done.  What the worker had in memory is gone; what it sent to
\* a transaction still under way is kept until that lands.
Release(s) ==
  /\ pc[s] = "release" /\ Goto(s, "ended")
  /\ cancelled' = cancelled \ {s}
  /\ IF s \in flight THEN UNCHANGED loop
     ELSE /\ item' = [item EXCEPT ![s] = 1]
          /\ scan' = [scan EXCEPT ![s] = Zero] /\ next' = [next EXCEPT ![s] = Zero]
  /\ UNCHANGED <<database, process, faults>>

-----------------------------------------------------------------------------
(* The administrator and the process.                                      *)

PastLastItem(s) ==
  \/ pc[s] \in {"open", "finish"} \/ item[s] \notin Items
  \/ item[s] = ItemCount /\ pc[s] \in {"execute", "commit", "confirm"}

Cancel(s) ==
  /\ process # "down" /\ s \in Slots \ cancelled /\ pc[s] # "insert"
  /\ PastLastItem(s) => LastMomentCancel
  /\ cancelled' = cancelled \cup {s}
  /\ UNCHANGED <<database, process, pc, loop, faults>>

Shutdown ==
  /\ process = "up" /\ process' = "stopping"
  /\ cancelled' = cancelled \cup {s \in Slots : pc[s] # "insert"}
  /\ UNCHANGED <<database, pc, loop, faults>>

\* The process waits for its workers (Wait).
Exit ==
  /\ process = "stopping" /\ Slots = {}
  /\ process' = "down"
  /\ UNCHANGED <<database, pc, loop, cancelled, faults>>

Crash ==
  /\ process # "down" /\ Fault
  /\ process' = "down" /\ cancelled' = {}
  /\ \E sent \in SUBSET {s \in Scans : pc[s] = "commit"} : flight' = flight \cup sent
  /\ pc' = [s \in Scans |-> IF s \in Slots THEN "ended" ELSE pc[s]]
  /\ UNCHANGED <<row, library, loop>>

\* Slip: the rows of an earlier process are left as they are.
RestartForgetting ==
  /\ process = "down" /\ process' = "up"
  /\ UNCHANGED <<database, pc, loop, cancelled, faults>>

\* InterruptScans waits for the transactions that hold rows of running scans.
Restart ==
  /\ process = "down"
  /\ \A s \in flight : row[s].status # "running"
  /\ process' = "up"
  /\ row' = [s \in Scans |-> IF row[s].status = "running" THEN [row[s] EXCEPT !.status = "interrupted"] ELSE row[s]]
  /\ UNCHANGED <<library, flight, pc, loop, cancelled, faults>>

Step(s) ==
  \/ InsertRow(s) \/ OpenSource(s) \/ CheckItem(s) \/ Prepare(s) \/ Execute(s) \/ Commit(s)
  \/ RollBack(s) \/ LoseReply(s) \/ Confirm(s) \/ Interrupt(s) \/ AbortItem(s)
  \/ RecordFailure(s) \/ Finish(s) \/ Release(s)

Next ==
  \/ \E s \in Scans : Admit(s) \/ Step(s) \/ Land(s) \/ Cancel(s)
  \/ Shutdown \/ Exit \/ Crash \/ Restart

Spec == Init /\ [][Next]_vars

\* Workers run, statements under way end, and a process that went down or was
\* told to stop is started again.
FairSpec ==
  /\ Spec
  /\ \A s \in Scans : WF_vars(Step(s)) /\ WF_vars(Land(s))
  /\ WF_vars(Exit) /\ WF_vars(Restart)

-----------------------------------------------------------------------------
TypeOK ==
  /\ row \in [Scans -> [status : Status, count : Counters]]
  /\ library \in SUBSET (Scans \X Items)
  /\ flight \in SUBSET Scans /\ cancelled \in SUBSET Scans
  /\ process \in {"up", "stopping", "down"}
  /\ pc \in [Scans -> PC] /\ item \in [Scans -> 1..ItemCount + 1]
  /\ scan \in [Scans -> Counters] /\ next \in [Scans -> Counters]
  /\ faults \in 0..MaxFaults
  /\ Cardinality(Slots) <= MaxScans

\* What the row of a scan says of its items adds up, and a scan that says it
\* is complete has accounted for each of them (docs/import-and-review.md).
RowsAddUp ==
  \A s \in Scans : LET count == row[s].count IN
    /\ count.processed = count.imported + count.skipped + count.failed
    /\ row[s].status = "completed" => count.processed = ItemCount

\* The row counts as imported exactly what is in the library, whatever replies
\* were lost and wherever the process stopped: nothing committed is called
\* failed, nothing is counted that is not there.
ImportsCounted ==
  \A s \in Scans : row[s].count.imported = Cardinality({i \in Items : <<s, i>> \in library})

\* A worker has accounted for each item before the present one once.
EachItemOnce ==
  \A s \in Scans : pc[s] \in {"check", "prepare"} => scan[s].processed = item[s] - 1

\* No two scans install the same BIOS file.
OneBiosFile ==
  \A x, y \in library :
    /\ KindOf[x[1]] = "bios" /\ KindOf[y[1]] = "bios"
    /\ ContentOf[x[1]][x[2]] = ContentOf[y[1]][y[2]]
    => x = y

\* A scan that ended stays as it ended, and no count ever goes down: a late
\* transaction or statement does not bring an ended scan back.
EndsOnce ==
  \A s \in Scans :
    /\ row[s].status \notin {"none", "running"} => row'[s] = row[s]
    /\ \A field \in DOMAIN Zero : row'[s].count[field] >= row[s].count[field]

\* Every scan ends.
Running(s) == row[s].status = "running"
=============================================================================
