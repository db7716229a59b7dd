---------------------------- MODULE RuntimeWorker ----------------------------
(***************************************************************************)
(* The client of the runtime CLI (internal/runtimeclient/worker.go and     *)
(* scheduling.go).  Calls are admitted into one of two lanes, encoded,     *)
(* queued, started when the lane has a free slot, and exchanged with one   *)
(* Node process that all of them share.  Callers may leave at any moment,  *)
(* the process may fail at any moment, and the pool may be closed.         *)
(*                                                                         *)
(* A slot, the accepted bytes and the admission of a call are held by its  *)
(* lease and given back by Release, which four goroutines compete to call: *)
(* the caller, the reader of responses, and whoever fails the process.     *)
(***************************************************************************)
EXTENDS Integers, Sequences, FiniteSets

CONSTANTS
  Calls,        \* concurrent users of the pool, each with one call at a time
  Lanes,        \* interactive and normalization
  LaneOf,       \* the lane of a call's command
  Size,         \* length of the encoded request
  Concurrency,  \* slots of a lane
  Capacity,     \* admitted calls of a lane
  Budget,       \* maximumMessage: accepted bytes of a lane
  WriteBuffer,  \* capacity of sharedProcess.writes
  Processes,    \* names of processes, reused once nothing remains of one
  MaxFaults     \* bound: failures of the transport or of a start

RuntimeAssumption ==
  /\ IsFiniteSet(Calls)
  /\ LaneOf \in [Calls -> Lanes] /\ Size \in [Calls -> Nat \ {0}]
  /\ Concurrency \in [Lanes -> Nat \ {0}] /\ Capacity \in [Lanes -> Nat]
  /\ Budget \in Nat /\ WriteBuffer \in Nat \ {0} /\ MaxFaults \in Nat

NoProcess == "no process"
NoCall == "no call"
RuntimeNames == NoProcess \notin Processes /\ NoCall \notin Calls

VARIABLES
  pc, expired,                      \* the callers; those whose context is done
  process,                          \* the process a call was given
  answer,                           \* pendingRequest.completed
  lease,                            \* requestLease
  queue, active, bytes, admission,  \* requestLane, counters and FIFO
  encoding,                         \* who encodes in a lane
  current,                          \* workerPool.process
  state, pending, dying,            \* sharedProcess: dying is fail's own list
  writes,                           \* sharedProcess.writes
  executing,                        \* requests the Node process has read and not answered
  closed,                           \* workerPool.context is done
  faults

callVars == <<pc, expired, process, answer>>
laneVars == <<lease, queue, active, bytes, admission>>
processVars == <<current, state, pending, dying, writes, executing>>
vars == <<callVars, laneVars, encoding, processVars, closed, faults>>

CallPC == {"idle", "encode", "enqueue", "wait", "start", "register", "send", "response", "done"}
LeaseState == {"none", "held", "queued", "running", "released"}
ProcessState == {"unused", "running", "failed", "detached", "killed"}
Message == [kind : {"request", "cancel"}, call : Calls]

In(l) == {c \in Calls : LaneOf[c] = l}
Holding == {"held", "queued", "running"}

TypeOK ==
  /\ pc \in [Calls -> CallPC] /\ expired \in SUBSET Calls
  /\ process \in [Calls -> Processes \cup {NoProcess}]
  /\ answer \in [Calls -> {"none", "result", "failure"}]
  /\ lease \in [Calls -> LeaseState]
  /\ \A l \in Lanes : queue[l] \in Seq(In(l)) /\ encoding[l] \in In(l) \cup {NoCall}
  /\ active \in [Lanes -> Nat] /\ bytes \in [Lanes -> 0..Budget] /\ admission \in [Lanes -> Nat]
  /\ current \in Processes \cup {NoProcess}
  /\ state \in [Processes -> ProcessState]
  /\ pending \in [Processes -> SUBSET Calls] /\ dying \in [Processes -> SUBSET Calls]
  /\ executing \in [Processes -> SUBSET Calls]
  /\ \A p \in Processes : writes[p] \in Seq(Message) /\ Len(writes[p]) <= WriteBuffer
  /\ closed \in BOOLEAN /\ faults \in 0..MaxFaults

Init ==
  /\ pc = [c \in Calls |-> "idle"] /\ expired = {}
  /\ process = [c \in Calls |-> NoProcess] /\ answer = [c \in Calls |-> "none"]
  /\ lease = [c \in Calls |-> "none"]
  /\ queue = [l \in Lanes |-> <<>>] /\ encoding = [l \in Lanes |-> NoCall]
  /\ active = [l \in Lanes |-> 0] /\ bytes = [l \in Lanes |-> 0] /\ admission = [l \in Lanes |-> 0]
  /\ current = NoProcess /\ state = [p \in Processes |-> "unused"]
  /\ pending = [p \in Processes |-> {}] /\ dying = [p \in Processes |-> {}]
  /\ writes = [p \in Processes |-> <<>>] /\ executing = [p \in Processes |-> {}]
  /\ closed = FALSE /\ faults = 0

-----------------------------------------------------------------------------
(* Lanes.                                                                  *)

Failed(p) == state[p] \in {"failed", "detached", "killed"}
Goto(c, next) == pc' = [pc EXCEPT ![c] = next]
Fault == faults < MaxFaults /\ faults' = faults + 1

\* dispatch: the head of the queue starts while there are slots.
Dispatch(l, waiting, busy, leases) ==
  LET free == Concurrency[l] - busy
      n == IF free < Len(waiting) THEN free ELSE Len(waiting)
      started == {waiting[i] : i \in 1..n}
  IN /\ queue' = [queue EXCEPT ![l] = SubSeq(waiting, n + 1, Len(waiting))]
     /\ active' = [active EXCEPT ![l] = busy + n]
     /\ lease' = [c \in Calls |-> IF c \in started THEN "running" ELSE leases[c]]

\* slices.Delete, and the queue of a lane without a call that waits in it.
Delete(q, k) == [i \in 1..Len(q) - 1 |-> q[IF i < k THEN i ELSE i + 1]]
Places(c) == {i \in DOMAIN queue[LaneOf[c]] : queue[LaneOf[c]][i] = c}
Without(c) ==
  IF Places(c) = {} THEN queue[LaneOf[c]] ELSE Delete(queue[LaneOf[c]], CHOOSE i \in Places(c) : TRUE)

\* Slip: a freed slot is not handed to the queue.
ReleaseWithoutDispatch(c) ==
  LET l == LaneOf[c] IN
  IF lease[c] \in Holding
  THEN /\ queue' = [queue EXCEPT ![l] = Without(c)]
       /\ active' = [active EXCEPT ![l] = @ - (IF lease[c] = "running" THEN 1 ELSE 0)]
       /\ lease' = [lease EXCEPT ![c] = "released"]
       /\ bytes' = [bytes EXCEPT ![l] = @ - (IF lease[c] = "held" THEN 0 ELSE Size[c])]
       /\ admission' = [admission EXCEPT ![l] = @ - 1]
  ELSE UNCHANGED laneVars

\* release: once per lease, whoever comes first.
Release(c) ==
  LET l == LaneOf[c] IN
  IF lease[c] \in Holding
  THEN /\ Dispatch(l, Without(c), active[l] - (IF lease[c] = "running" THEN 1 ELSE 0), [lease EXCEPT ![c] = "released"])
       /\ bytes' = [bytes EXCEPT ![l] = @ - (IF lease[c] = "held" THEN 0 ELSE Size[c])]
       /\ admission' = [admission EXCEPT ![l] = @ - 1]
  ELSE UNCHANGED laneVars

-----------------------------------------------------------------------------
(* Call: reserve, encode, wait, current, exchange.                         *)

Reserve(c) ==
  LET l == LaneOf[c] IN
  /\ pc[c] = "idle" /\ ~closed
  /\ admission[l] < Capacity[l]
  /\ admission' = [admission EXCEPT ![l] = @ + 1]
  /\ lease' = [lease EXCEPT ![c] = "held"]
  /\ Goto(c, "encode")
  /\ UNCHANGED <<expired, process, answer, queue, active, bytes, encoding, processVars, closed, faults>>

\* An error before the hand-over: the deferred release runs, after that of the encoder.
Leave(c) ==
  /\ Release(c) /\ Goto(c, "done")
  /\ encoding' = [l \in Lanes |-> IF encoding[l] = c THEN NoCall ELSE encoding[l]]
  /\ UNCHANGED <<expired, process, answer, processVars, closed>>

\* Slip: a queued call waits for its slot whatever its deadline.
GiveUpEncoding(c) ==
  /\ pc[c] \in {"encode", "enqueue"} /\ (c \in expired \/ closed)
  /\ Leave(c) /\ UNCHANGED faults

\* ctx or the lifetime of the pool ends while encode or wait blocks, or just after.
GiveUp(c) ==
  /\ pc[c] \in {"encode", "enqueue", "wait"} /\ (c \in expired \/ closed)
  /\ Leave(c) /\ UNCHANGED faults

TakeEncoder(c) ==
  /\ pc[c] = "encode" /\ encoding[LaneOf[c]] = NoCall
  /\ encoding' = [encoding EXCEPT ![LaneOf[c]] = c]
  /\ Goto(c, "enqueue")
  /\ UNCHANGED <<expired, process, answer, laneVars, processVars, closed, faults>>

\* Slip: the accepted bytes are not checked.
EnqueueUnbounded(c) ==
  LET l == LaneOf[c] IN
  /\ pc[c] = "enqueue" /\ c \notin expired /\ ~closed
  /\ Dispatch(l, Append(queue[l], c), active[l], [lease EXCEPT ![c] = "queued"])
  /\ bytes' = [bytes EXCEPT ![l] = @ + Size[c]]
  /\ encoding' = [encoding EXCEPT ![l] = NoCall]
  /\ Goto(c, "wait")
  /\ UNCHANGED <<expired, process, answer, admission, processVars, closed, faults>>

Enqueue(c) ==
  LET l == LaneOf[c] IN
  /\ pc[c] = "enqueue" /\ c \notin expired /\ ~closed
  /\ \/ Size[c] > Budget - bytes[l] /\ Leave(c)
     \/ /\ Size[c] <= Budget - bytes[l]
        /\ Dispatch(l, Append(queue[l], c), active[l], [lease EXCEPT ![c] = "queued"])
        /\ bytes' = [bytes EXCEPT ![l] = @ + Size[c]]
        /\ encoding' = [encoding EXCEPT ![l] = NoCall]
        /\ Goto(c, "wait")
        /\ UNCHANGED <<expired, process, answer, admission, processVars, closed>>
  /\ UNCHANGED faults

Wait(c) ==
  /\ pc[c] = "wait" /\ lease[c] = "running" /\ c \notin expired /\ ~closed
  /\ Goto(c, "start")
  /\ UNCHANGED <<expired, process, answer, laneVars, encoding, processVars, closed, faults>>

\* current: the shared process, started when there is none.
Start(c) ==
  /\ pc[c] = "start"
  /\ \/ closed /\ Leave(c) /\ UNCHANGED faults
     \/ Fault /\ ~closed /\ current = NoProcess /\ Leave(c)
     \/ /\ ~closed
        /\ \/ current # NoProcess /\ UNCHANGED <<current, state>>
           \/ /\ current = NoProcess
              /\ \E p \in Processes : /\ state[p] = "unused"
                                      /\ current' = p
                                      /\ state' = [state EXCEPT ![p] = "running"]
        /\ process' = [process EXCEPT ![c] = current']
        /\ Goto(c, "register")
        /\ UNCHANGED <<expired, answer, laneVars, encoding, pending, dying, writes, executing, closed, faults>>

Register(c) ==
  LET p == process[c] IN
  /\ pc[c] = "register"
  /\ IF Failed(p)
     THEN Release(c) /\ Goto(c, "done") /\ UNCHANGED pending
     ELSE /\ pending' = [pending EXCEPT ![p] = @ \cup {c}]
          /\ Goto(c, "send") /\ UNCHANGED laneVars
  /\ UNCHANGED <<expired, process, answer, encoding, current, state, dying, writes, executing, closed, faults>>

\* Nobody reads the channel of a killed process.
Put(p, message) == writes' = IF state[p] = "killed" THEN writes ELSE [writes EXCEPT ![p] = Append(@, message)]

Send(c) ==
  LET p == process[c] IN
  /\ pc[c] = "send" /\ Len(writes[p]) < WriteBuffer
  /\ Put(p, [kind |-> "request", call |-> c])
  /\ Goto(c, "response")
  /\ UNCHANGED <<expired, process, answer, laneVars, encoding, current, state, pending, dying, executing, closed, faults>>

\* forget: whoever takes the request out of pending releases its lease.
Forget(c) ==
  LET p == process[c] IN
  /\ pc[c] = "send" /\ (Failed(p) \/ c \in expired)
  /\ pending' = [pending EXCEPT ![p] = @ \ {c}]
  /\ IF c \in pending[p] THEN Release(c) ELSE UNCHANGED laneVars
  /\ Goto(c, "done")
  /\ UNCHANGED <<expired, process, answer, encoding, current, state, dying, writes, executing, closed, faults>>

Receive(c) ==
  /\ pc[c] = "response" /\ (answer[c] # "none" \/ closed)
  /\ Goto(c, "done")
  /\ UNCHANGED <<expired, process, answer, laneVars, encoding, processVars, closed, faults>>

\* fail, first part: under the mutex of the process.
MarkFailed(p) ==
  /\ state' = [state EXCEPT ![p] = "failed"]
  /\ dying' = [dying EXCEPT ![p] = pending[p]]
  /\ pending' = [pending EXCEPT ![p] = {}]

\* cancelRequest: the lease stays until a response or the end of the process.
CancelRequest(c) ==
  LET p == process[c] IN
  /\ pc[c] = "response" /\ c \in expired
  /\ \/ /\ Len(writes[p]) < WriteBuffer
        /\ Put(p, [kind |-> "cancel", call |-> c])
        /\ UNCHANGED <<state, pending, dying>>
     \/ Failed(p) /\ UNCHANGED <<state, pending, dying, writes>>
     \/ /\ Len(writes[p]) = WriteBuffer /\ ~Failed(p)
        /\ MarkFailed(p) /\ UNCHANGED writes
  /\ Goto(c, "done")
  /\ UNCHANGED <<expired, process, answer, laneVars, encoding, current, executing, closed, faults>>

-----------------------------------------------------------------------------
(* The shared process.                                                     *)

TransportFails(p) ==
  /\ state[p] = "running" /\ Fault
  /\ MarkFailed(p)
  /\ \/ UNCHANGED executing
     \/ executing' = [executing EXCEPT ![p] = {}]
  /\ UNCHANGED <<callVars, laneVars, encoding, current, writes, closed>>

Detach(p) ==
  /\ state[p] = "failed"
  /\ state' = [state EXCEPT ![p] = "detached"]
  /\ current' = IF current = p THEN NoProcess ELSE current
  /\ UNCHANGED <<callVars, laneVars, encoding, pending, dying, writes, executing, closed, faults>>

Kill(p) ==
  /\ state[p] = "detached"
  /\ state' = [state EXCEPT ![p] = "killed"]
  /\ executing' = [executing EXCEPT ![p] = {}]
  /\ writes' = [writes EXCEPT ![p] = <<>>]
  /\ UNCHANGED <<callVars, laneVars, encoding, current, pending, dying, closed, faults>>

ReleaseDying(p, c) ==
  /\ state[p] = "killed" /\ c \in dying[p]
  /\ dying' = [dying EXCEPT ![p] = @ \ {c}]
  /\ Release(c)
  /\ answer' = [answer EXCEPT ![c] = "failure"]
  /\ UNCHANGED <<pc, expired, process, encoding, current, state, pending, writes, executing, closed, faults>>

\* writeRequests, and the Node process reading its input; it ignores the
\* cancellation of a request it has answered.
Write(p) ==
  /\ writes[p] # <<>>
  /\ writes' = [writes EXCEPT ![p] = Tail(@)]
  /\ executing' = IF Head(writes[p]).kind = "request"
                  THEN [executing EXCEPT ![p] = @ \cup {Head(writes[p]).call}]
                  ELSE executing
  /\ UNCHANGED <<callVars, laneVars, encoding, current, state, pending, dying, closed, faults>>

\* The Node process answers and readResponses hands the answer over, if anybody
\* still waits for it.
ReadResponse(p, c) ==
  /\ c \in executing[p]
  /\ executing' = [executing EXCEPT ![p] = @ \ {c}]
  /\ IF c \in pending[p]
     THEN /\ pending' = [pending EXCEPT ![p] = @ \ {c}]
          /\ Release(c)
          /\ answer' = [answer EXCEPT ![c] = "result"]
     ELSE UNCHANGED <<pending, laneVars, answer>>
  /\ UNCHANGED <<pc, expired, process, encoding, current, state, dying, writes, closed, faults>>

-----------------------------------------------------------------------------
(* Close, deadlines, and the end of calls and processes.                   *)

Close ==
  /\ ~closed /\ closed' = TRUE
  /\ UNCHANGED <<callVars, laneVars, encoding, processVars, faults>>

StopCurrent ==
  /\ closed /\ current # NoProcess /\ ~Failed(current)
  /\ MarkFailed(current)
  /\ UNCHANGED <<callVars, laneVars, encoding, current, writes, executing, closed, faults>>

Expire(c) ==
  /\ pc[c] \notin {"idle", "done"} /\ c \notin expired
  /\ expired' = expired \cup {c}
  /\ UNCHANGED <<pc, process, answer, laneVars, encoding, processVars, closed, faults>>

Mentioned(c) == \E p \in Processes :
  c \in pending[p] \cup dying[p] \cup executing[p] \/ \E i \in DOMAIN writes[p] : writes[p][i].call = c

\* Nothing is left of a call, or of a process: the name serves the next one.
NextCall(c) ==
  /\ pc[c] = "done" /\ lease[c] = "released" /\ ~Mentioned(c)
  /\ Goto(c, "idle")
  /\ expired' = expired \ {c}
  /\ process' = [process EXCEPT ![c] = NoProcess]
  /\ answer' = [answer EXCEPT ![c] = "none"]
  /\ lease' = [lease EXCEPT ![c] = "none"]
  /\ UNCHANGED <<queue, active, bytes, admission, encoding, processVars, closed, faults>>

Bury(p) ==
  /\ state[p] = "killed" /\ dying[p] = {}
  /\ \A c \in Calls : process[c] = p => pc[c] \in {"idle", "done"}
  /\ state' = [state EXCEPT ![p] = "unused"]
  /\ UNCHANGED <<callVars, laneVars, encoding, current, pending, dying, writes, executing, closed, faults>>

-----------------------------------------------------------------------------
CallStep(c) ==
  \/ GiveUp(c) \/ TakeEncoder(c) \/ Enqueue(c) \/ Wait(c) \/ Start(c)
  \/ Register(c) \/ Send(c) \/ Forget(c) \/ Receive(c) \/ CancelRequest(c)

FailStep(p) == Detach(p) \/ Kill(p) \/ (\E c \in Calls : ReleaseDying(p, c)) \/ Bury(p)

Next ==
  \/ \E c \in Calls : Reserve(c) \/ CallStep(c) \/ Expire(c) \/ NextCall(c)
  \/ \E p \in Processes : TransportFails(p) \/ FailStep(p) \/ Write(p) \/ \E c \in Calls : ReadResponse(p, c)
  \/ Close \/ StopCurrent

Spec == Init /\ [][Next]_vars

\* Goroutines are scheduled.
Scheduling ==
  /\ \A c \in Calls : WF_vars(CallStep(c))
  /\ \A p \in Processes : WF_vars(FailStep(p)) /\ WF_vars(Write(p))
  /\ WF_vars(StopCurrent)

FairSpec == Spec /\ Scheduling

-----------------------------------------------------------------------------
\* However callers, responses and failures race for the release of a lease, a
\* lane's counters are those of the leases that are alive, within their bounds.
SlotsAgree(l) ==
  /\ active[l] = Cardinality({c \in In(l) : lease[c] = "running"}) /\ active[l] <= Concurrency[l]
  /\ admission[l] = Cardinality({c \in In(l) : lease[c] \in Holding}) /\ admission[l] <= Capacity[l]

\* The bytes of some calls, one by one.
BytesOf(calls) == UNION {{c} \X (1..Size[c]) : c \in calls}

AcceptedAgree(l) ==
  /\ {queue[l][i] : i \in DOMAIN queue[l]} = {c \in In(l) : lease[c] = "queued"}
  /\ bytes[l] = Cardinality(BytesOf({c \in In(l) : lease[c] \in {"queued", "running"}}))

CountersAgree == \A l \in Lanes : SlotsAgree(l) /\ AcceptedAgree(l)

\* "Each lane owns its accepted input and a FIFO queue": a call waits only
\* while every slot of its lane is taken.
NoIdleSlot == \A l \in Lanes : queue[l] # <<>> => active[l] = Concurrency[l]

\* What Node executes holds a slot, "even if the caller has already left" and
\* while a failing process makes room for a fresh one: never more executions
\* at once than slots.
ExecutionsHoldSlots == \A p \in Processes : \A c \in executing[p] : lease[c] = "running"

\* Every caller has its answer or error before long, whether or not Node ever
\* answers, as long as deadlines pass.
Returned(c) == pc[c] \in {"idle", "done"}
=============================================================================
