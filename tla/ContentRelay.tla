----------------------------- MODULE ContentRelay -----------------------------
(***************************************************************************)
(* The service worker of a web game (runtime-isolation/service-worker.js).  *)
(* Every file the game asks for is asked of the player, over a port that    *)
(* the player may have closed, that a reconnection replaces, and that is    *)
(* gone whenever the browser stops the worker.  At most MaxActive requests  *)
(* are on the way and MaxQueued wait; a read that the player has not begun  *)
(* is given more time for as long as others are being read.                 *)
(***************************************************************************)
EXTENDS Integers, Sequences, FiniteSets, SequencesExt

CONSTANTS
  MaxActive,   \* maximumActiveRequests
  MaxQueued,   \* maximumQueuedRequests
  Patience,    \* the 15 seconds of a request, in ticks
  Fetches,     \* the fetches of the game
  Large,       \* those of a file of two blocks of 256 KiB; the others have one
  MaxPorts,    \* bound: connections made
  MaxFaults    \* bound: ports that die, workers that are stopped

BoundsArePositive ==
  /\ MaxActive \in Nat \ {0} /\ MaxQueued \in Nat /\ Patience \in Nat \ {0}
  /\ Large \subseteq Fetches /\ MaxPorts \in Nat \ {0} /\ MaxFaults \in Nat

NoPort == 0

VARIABLES
  connection,    \* the port in use, or NoPort
  reconnecting,  \* the port offered to the page that has not answered yet
  late,          \* ports whose answer was given up and may still come
  dead,          \* ports that are closed, or whose other end is gone
  ports,         \* ports made so far
  active,        \* activeRequests
  waiting,       \* waitingRequests
  fetch,         \* fetch -> the request it has made
  quiet,         \* ticks since the player was last heard to read
  faults

workerVars == <<connection, reconnecting, late, dead, ports>>
vars == <<connection, reconnecting, late, dead, ports, active, waiting, fetch, quiet, faults>>

Fault == faults < MaxFaults /\ faults' = faults + 1
-------------------------------------------------------------------------------
(* A fetch is a STAT and then a READ for every block of the range it asks    *)
(* for, each a request with a timer of its own.                              *)
Fresh == [at |-> "new", kind |-> "STAT", port |-> NoPort, admitted |-> FALSE,
          network |-> 0, timer |-> 0, from |-> 0, to |-> 0]

Init ==
  /\ connection = NoPort /\ reconnecting = NoPort
  /\ late = {} /\ dead = {} /\ ports = 0
  /\ active = 0 /\ waiting = <<>>
  /\ fetch = [f \in Fetches |-> Fresh]
  /\ quiet = 0 /\ faults = 0

(* range(): the header of the request against the size of the file.  `first` *)
(* or `last` is Open where the header leaves it out.                         *)
Open == -1
MaxSize == 2
Size(f) == IF f \in Large THEN MaxSize ELSE 1
Min2(a, b) == IF a <= b THEN a ELSE b
Max2(a, b) == IF a >= b THEN a ELSE b
Ranges == {h \in [first : {Open} \cup 0 .. MaxSize, last : {Open} \cup 0 .. MaxSize] :
             h.first # Open \/ h.last # Open}
RangeOf(h, size) ==
  LET first == IF h.first # Open THEN h.first ELSE Max2(0, size - h.last)
      last == IF h.first # Open /\ h.last # Open THEN Min2(size - 1, h.last) ELSE size - 1
  IN  IF size = 0 \/ first >= size \/ last < first THEN {}
      ELSE {[from |-> first, to |-> last + 1]}
Whole(size) == [from |-> 0, to |-> size]
-------------------------------------------------------------------------------
(***************************************************************************)
(* acquireRequestSlot and releaseRequestSlot.                              *)
(***************************************************************************)
Holds(f) == fetch[f].at \in {"slot", "reconnect", "pending"}

(* A request takes a slot, waits for one, or is refused.                     *)
Asks(f) ==
  /\ fetch[f].at \in {"new", "pull"}
  /\ \/ /\ active < MaxActive
        /\ active' = active + 1
        /\ fetch' = [fetch EXCEPT ![f].at = "slot"]
        /\ UNCHANGED waiting
     \/ /\ active = MaxActive /\ Len(waiting) < MaxQueued
        /\ waiting' = Append(waiting, f)
        /\ fetch' = [fetch EXCEPT ![f].at = "waiting"]
        /\ UNCHANGED active
     \/ /\ active = MaxActive /\ Len(waiting) = MaxQueued
        /\ fetch' = [fetch EXCEPT ![f] = [Fresh EXCEPT !.at = "failed"]]
        /\ UNCHANGED <<active, waiting>>
  /\ UNCHANGED <<workerVars, quiet, faults>>

(* The slot goes to the one that has waited longest, or becomes free.        *)
Released(after) ==
  IF waiting = <<>>
  THEN active' = active - 1 /\ fetch' = after /\ UNCHANGED waiting
  ELSE /\ fetch' = [after EXCEPT ![Head(waiting)].at = "slot"]
       /\ waiting' = Tail(waiting)
       /\ UNCHANGED active
-------------------------------------------------------------------------------
(***************************************************************************)
(* request(), reconnect() and sendRequest().                               *)
(***************************************************************************)
Sent(f) == [fetch EXCEPT ![f].at = "pending", ![f].port = connection,
              ![f].admitted = FALSE, ![f].network = 0, ![f].timer = Patience]

Sends(f) ==
  /\ fetch[f].at = "slot" /\ connection # NoPort
  /\ fetch' = Sent(f)
  /\ UNCHANGED <<workerVars, active, waiting, quiet, faults>>

(* Without a connection the page is asked for one, once for all who need it. *)
(* After MaxPorts connections the game has no window left.                   *)
Reconnects(f) ==
  /\ fetch[f].at = "slot" /\ connection = NoPort
  /\ \/ /\ reconnecting # NoPort
        /\ fetch' = [fetch EXCEPT ![f].at = "reconnect"]
        /\ UNCHANGED <<reconnecting, ports>>
     \/ /\ reconnecting = NoPort /\ ports < MaxPorts
        /\ ports' = ports + 1 /\ reconnecting' = ports + 1
        /\ fetch' = [fetch EXCEPT ![f].at = "reconnect"]
     \/ /\ reconnecting = NoPort /\ ports = MaxPorts
        /\ fetch' = [fetch EXCEPT ![f].at = "unconnected"]
        /\ UNCHANGED <<reconnecting, ports>>
  /\ UNCHANGED <<connection, late, dead, active, waiting, quiet, faults>>

(* bind(): the port in use is closed; a port that was left because a request *)
(* over it timed out stays open, and the others are still answered over it.  *)
Bind(p) ==
  /\ connection' = p
  /\ dead' = dead \cup ({connection} \ {NoPort})

Reconnected ==
  /\ reconnecting # NoPort
  /\ Bind(reconnecting)
  /\ reconnecting' = NoPort
  /\ fetch' = [f \in Fetches |->
       IF fetch[f].at = "reconnect" THEN [fetch[f] EXCEPT !.at = "slot"] ELSE fetch[f]]
  /\ UNCHANGED <<late, ports, active, waiting, quiet, faults>>

(* No window of the game, or no answer in ten seconds; one that comes later  *)
(* still binds its port.                                                     *)
GivenUp ==
  /\ reconnecting # NoPort
  /\ Fault
  /\ late' \in {late, late \cup {reconnecting}}
  /\ reconnecting' = NoPort
  /\ fetch' = [f \in Fetches |->
       IF fetch[f].at = "reconnect" THEN [fetch[f] EXCEPT !.at = "unconnected"] ELSE fetch[f]]
  /\ UNCHANGED <<connection, dead, ports, active, waiting, quiet>>

Unconnected(f) ==
  /\ fetch[f].at = "unconnected"
  /\ Released([fetch EXCEPT ![f] = [Fresh EXCEPT !.at = "failed"]])
  /\ UNCHANGED <<workerVars, quiet, faults>>

BindsLate ==
  /\ \E p \in late : Bind(p) /\ late' = late \ {p}
  /\ UNCHANGED <<reconnecting, ports, active, waiting, fetch, quiet, faults>>

(* CONNECT of the shell, when the frame is prepared.                         *)
Connects ==
  /\ ports < MaxPorts /\ connection = NoPort
  /\ ports' = ports + 1
  /\ Bind(ports + 1)
  /\ UNCHANGED <<reconnecting, late, active, waiting, fetch, quiet, faults>>
-------------------------------------------------------------------------------
(***************************************************************************)
(* The answers of the player.                                              *)
(***************************************************************************)
Heard(f) == fetch[f].at = "pending" /\ fetch[f].port \notin dead
Read(f) == fetch[f].kind = "READ"

\* Slip: only the reads that have begun are given more time.
SlipRenewQueued(fs) == fs

(* renewQueuedReads                                                         *)
RenewQueued(fs) ==
  [f \in Fetches |->
     IF fs[f].at = "pending" /\ fs[f].kind = "READ" /\ ~fs[f].admitted
     THEN [fs[f] EXCEPT !.timer = Patience] ELSE fs[f]]

ReadStarted(f) ==
  /\ Heard(f) /\ Read(f) /\ ~fetch[f].admitted
  /\ fetch' = [fetch EXCEPT ![f].admitted = TRUE, ![f].timer = Patience]
  /\ UNCHANGED <<workerVars, active, waiting, quiet, faults>>

\* Slip: any sign of life renews the timer, new bytes or not.
SlipReadProgress(f) ==
  /\ Heard(f) /\ Read(f) /\ fetch[f].admitted
  /\ fetch' = RenewQueued([fetch EXCEPT ![f].network = 1, ![f].timer = Patience])
  /\ quiet' = 0
  /\ UNCHANGED <<workerVars, active, waiting, faults>>

(* READ_PROGRESS: only bytes that are new count.                             *)
ReadProgress(f) ==
  /\ Heard(f) /\ Read(f) /\ fetch[f].admitted /\ fetch[f].network = 0
  /\ fetch' = RenewQueued([fetch EXCEPT ![f].network = 1, ![f].timer = Patience])
  /\ quiet' = 0
  /\ UNCHANGED <<workerVars, active, waiting, faults>>

(* The reply to STAT: the range of the file that is asked for, all of it for *)
(* the entry page, nothing for HEAD, or 404, 416 and 502.                    *)
StatAnswered(f) ==
  /\ Heard(f) /\ fetch[f].kind = "STAT"
  /\ \/ \E h \in Ranges : \E r \in RangeOf(h, Size(f)) \cup {Whole(Size(f))} :
          Released([fetch EXCEPT ![f] = [Fresh EXCEPT !.at = "pull", !.kind = "READ",
                                           !.from = r.from, !.to = r.to]])
     \/ \E end \in {"done", "failed"} : Released([fetch EXCEPT ![f] = [Fresh EXCEPT !.at = end]])
  /\ UNCHANGED <<workerVars, quiet, faults>>

(* The reply to READ: the block, and the next one when the game wants it.    *)
BlockRead(f) ==
  /\ Heard(f) /\ Read(f)
  /\ LET next == fetch[f].from + 1 IN
       Released(RenewQueued([fetch EXCEPT ![f] =
         IF next = fetch[f].to THEN [Fresh EXCEPT !.at = "done", !.kind = "READ"]
         ELSE [Fresh EXCEPT !.at = "pull", !.kind = "READ", !.from = next, !.to = fetch[f].to]]))
  /\ quiet' = 0
  /\ UNCHANGED <<workerVars, faults>>

ReadFailed(f) ==
  /\ Heard(f) /\ Read(f)
  /\ Fault
  /\ Released([fetch EXCEPT ![f] = [Fresh EXCEPT !.at = "failed"]])
  /\ UNCHANGED <<workerVars, quiet>>
-------------------------------------------------------------------------------
(***************************************************************************)
(* Time, and what goes wrong.                                              *)
(***************************************************************************)
Due(f) == fetch[f].at = "pending" /\ fetch[f].timer = 0

Tick ==
  /\ \E f \in Fetches : fetch[f].at = "pending"
  /\ ~\E f \in Fetches : Due(f)
  /\ fetch' = [f \in Fetches |->
       IF fetch[f].at = "pending" THEN [fetch[f] EXCEPT !.timer = @ - 1] ELSE fetch[f]]
  /\ quiet' = Min2(Patience, quiet + 1)
  /\ UNCHANGED <<workerVars, active, waiting, faults>>

(* CONTENT_IO_TIMEOUT: a port that does not answer is not used again.        *)
Expires(f) ==
  /\ Due(f)
  /\ connection' = IF connection = fetch[f].port THEN NoPort ELSE connection
  /\ Released([fetch EXCEPT ![f] = [Fresh EXCEPT !.at = "failed"]])
  /\ UNCHANGED <<reconnecting, late, dead, ports, quiet, faults>>

(* The player no longer listens.                                            *)
PortDies ==
  /\ Fault
  /\ \E p \in (1 .. ports) \ dead : dead' = dead \cup {p}
  /\ UNCHANGED <<connection, reconnecting, late, ports, active, waiting, fetch, quiet>>

(* The browser stops the worker and starts it again when it is needed: all   *)
(* it knew is gone, and what was being fetched fails.                        *)
WorkerStops ==
  /\ Fault
  /\ connection' = NoPort /\ reconnecting' = NoPort /\ late' = {}
  /\ dead' = 1 .. ports
  /\ active' = 0 /\ waiting' = <<>>
  /\ fetch' = [f \in Fetches |->
       IF fetch[f].at \in {"new", "done", "failed"} THEN fetch[f]
       ELSE [Fresh EXCEPT !.at = "failed"]]
  /\ UNCHANGED <<ports, quiet>>
-------------------------------------------------------------------------------
Worker(f) == Sends(f) \/ Reconnects(f) \/ Unconnected(f) \/ Expires(f)
Player(f) == ReadStarted(f) \/ ReadProgress(f) \/ StatAnswered(f) \/ BlockRead(f) \/ ReadFailed(f)
Page == Reconnected \/ GivenUp \/ BindsLate \/ Connects

Next ==
  \/ \E f \in Fetches : Asks(f) \/ Worker(f) \/ Player(f)
  \/ Page \/ Tick \/ PortDies \/ WorkerStops

(* The player need not answer; the timers run, the slots are handed on, and  *)
(* a reconnection is answered or given up.                                   *)
Progress ==
  /\ WF_vars(Tick) /\ WF_vars(Page)
  /\ \A f \in Fetches : WF_vars(Worker(f)) /\ WF_vars(Asks(f))

Spec == Init /\ [][Next]_vars /\ Progress
-------------------------------------------------------------------------------
(***************************************************************************)
(* Properties.                                                             *)
(***************************************************************************)
(* The slots add up: as many are taken as requests hold one, nobody waits    *)
(* while one is free, and each waits once.                                   *)
SlotsAgree ==
  /\ active = Cardinality({f \in Fetches : Holds(f) \/ fetch[f].at = "unconnected"})
  /\ active <= MaxActive /\ Len(waiting) <= MaxQueued
  /\ waiting # <<>> => active = MaxActive
  /\ {waiting[i] : i \in DOMAIN waiting} = {f \in Fetches : fetch[f].at = "waiting"}
  /\ IsInjective(waiting)
  /\ connection \in 0 .. ports /\ late \subseteq 1 .. ports
  /\ \A f \in Fetches : fetch[f].from <= fetch[f].to /\ fetch[f].to <= Size(f)

(* A read that waits for its turn at the player has its 15 seconds counted   *)
(* from when the player was last heard to read anything (renewQueuedReads).  *)
NoReadGivenUpEarly ==
  \A f \in Fetches : Due(f) /\ Read(f) /\ ~fetch[f].admitted => quiet >= Patience

(* Every fetch of the game is answered, with the file or with an error,      *)
(* whatever the player and the browser do.                                   *)
Ended(f) == fetch[f].at \in {"done", "failed"}
===============================================================================
