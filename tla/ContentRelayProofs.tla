--------------------------- MODULE ContentRelayProofs ---------------------------
(***************************************************************************)
(* The slots of the relay add up whatever expires, dies or is stopped, and  *)
(* no read is given up before its time: for every number of fetches, slots,  *)
(* places to wait, ports and faults, and every patience.                    *)
(*                                                                         *)
(*   RequestInv  what a fetch asks for is inside its file, and a read that   *)
(*               has not begun has its time since the player was last heard  *)
(*   QueueInv    the slots and the queue are those of the requests            *)
(*   PortInv     the ports in use were made                                 *)
(***************************************************************************)
EXTENDS ContentRelay, SequenceTheorems, FiniteSetTheorems, TLAPS

At == {"new", "waiting", "slot", "reconnect", "unconnected", "pending", "pull", "done", "failed"}
Requests ==
  [at : At, kind : {"STAT", "READ"}, port : Nat, admitted : BOOLEAN, network : 0 .. 1,
   timer : 0 .. Patience, from : Nat, to : Nat]

(* A request is one of a file that ends, and was renewed no earlier than the   *)
(* player was heard.                                                         *)
Inside(f, r) ==
  /\ r.from <= r.to /\ r.to <= Size(f)
  /\ r.kind = "READ" /\ r.at # "done" => r.from < r.to
InTime(r, q) == r.at = "pending" /\ r.kind = "READ" /\ ~r.admitted => r.timer + q >= Patience
RequestInv(f, r, q) == r \in Requests /\ Inside(f, r) /\ InTime(r, q)

(* The requests that have a slot.                                            *)
SlotAt == {"slot", "reconnect", "pending", "unconnected"}
Taken(fs) == {f \in Fetches : fs[f].at \in SlotAt}

Distinct(w) == \A i, j \in 1 .. Len(w) : w[i] = w[j] => i = j
Has(w, f) == \E i \in 1 .. Len(w) : w[i] = f
QueueInv(busy, w, fs) ==
  /\ IsFiniteSet(Taken(fs)) /\ busy = Cardinality(Taken(fs)) /\ busy <= MaxActive
  /\ w \in Seq(Fetches) /\ Distinct(w) /\ Len(w) <= MaxQueued
  /\ \A f \in Fetches : fs[f].at = "waiting" <=> Has(w, f)
  /\ w # <<>> => busy = MaxActive

PortInv ==
  /\ ports \in 0 .. MaxPorts /\ connection \in 0 .. ports /\ reconnecting \in 0 .. ports
  /\ late \subseteq 1 .. ports /\ dead \subseteq 1 .. ports

RInv ==
  /\ faults \in 0 .. MaxFaults /\ quiet \in 0 .. Patience
  /\ PortInv
  /\ DOMAIN fetch = Fetches /\ fetch = [f \in Fetches |-> fetch[f]]
  /\ \A f \in Fetches : RequestInv(f, fetch[f], quiet)
  /\ QueueInv(active, waiting, fetch)
-------------------------------------------------------------------------------
LEMMA Bounds ==
  ASSUME BoundsArePositive
  PROVE  /\ MaxActive \in Nat /\ MaxActive > 0 /\ MaxQueued \in Nat /\ Patience \in Nat /\ Patience > 0
         /\ MaxPorts \in Nat /\ MaxFaults \in Nat
BY DEF BoundsArePositive

(* What is asked of a file is inside it.                                      *)
LEMMA RangeInside ==
  ASSUME NEW f \in Fetches, NEW h \in Ranges, NEW r \in RangeOf(h, Size(f)) \cup {Whole(Size(f))}
  PROVE  r.from \in Nat /\ r.to \in Nat /\ r.from < r.to /\ r.to <= Size(f)
<1>1. Size(f) \in 1 .. 2
  BY DEF Size, MaxSize
<1>2. CASE r = Whole(Size(f))
  BY <1>1, <1>2 DEF Whole
<1>3. CASE r \in RangeOf(h, Size(f))
  <2>1. h.first \in {-1} \cup 0 .. 2 /\ h.last \in {-1} \cup 0 .. 2 /\ (h.first # -1 \/ h.last # -1)
    BY DEF Ranges, Open, MaxSize
  <2>2. PICK s \in 1 .. 2 : s = Size(f)
    BY <1>1
  <2>3. PICK a, b : /\ a = IF h.first # -1 THEN h.first ELSE Max2(0, s - h.last)
                    /\ b = IF h.first # -1 /\ h.last # -1 THEN Min2(s - 1, h.last) ELSE s - 1
    OBVIOUS
  <2>4. ~(a >= s) /\ ~(b < a) /\ r = [from |-> a, to |-> b + 1]
    BY <1>3, <2>2, <2>3 DEF RangeOf, Open
  <2>5. a \in Nat /\ b \in Int /\ b <= s - 1
    BY <2>1, <2>3 DEF Max2, Min2
  <2> QED BY <2>2, <2>4, <2>5
<1> QED BY <1>2, <1>3

(* A request that is not on its way.                                          *)
Idle(at, kind, a, b) ==
  [at |-> at, kind |-> kind, port |-> 0, admitted |-> FALSE, network |-> 0, timer |-> 0, from |-> a, to |-> b]

(* One field of a request at a time.                                           *)
Request(x, k, p, d, n, t, a, b) ==
  [at |-> x, kind |-> k, port |-> p, admitted |-> d, network |-> n, timer |-> t, from |-> a, to |-> b]

LEMMA IdleBlock ==
  ASSUME NEW at, NEW kind, NEW a, NEW b
  PROVE  [Fresh EXCEPT !.at = at, !.kind = kind, !.from = a, !.to = b] = Idle(at, kind, a, b)
<1>1. PICK x, k, z, d : x = "new" /\ k = "STAT" /\ z = 0 /\ d = FALSE
  OBVIOUS
<1>2. PICK r0 : r0 = Fresh
  OBVIOUS
<1>3. r0 = Request(x, k, z, d, z, z, z, z)
  BY <1>1, <1>2 DEF Fresh, Request, NoPort
<1>4. PICK r1 : r1 = [r0 EXCEPT !.at = at]
  OBVIOUS
<1>5. r1 = Request(at, k, z, d, z, z, z, z)
  BY <1>3, <1>4 DEF Request
<1>6. PICK r2 : r2 = [r1 EXCEPT !.kind = kind]
  OBVIOUS
<1>7. r2 = Request(at, kind, z, d, z, z, z, z)
  BY <1>5, <1>6 DEF Request
<1>8. PICK r3 : r3 = [r2 EXCEPT !.from = a]
  OBVIOUS
<1>9. r3 = Request(at, kind, z, d, z, z, a, z)
  BY <1>7, <1>8 DEF Request
<1>10. PICK r4 : r4 = [r3 EXCEPT !.to = b]
  OBVIOUS
<1>11. r4 = Request(at, kind, z, d, z, z, a, b)
  BY <1>9, <1>10 DEF Request
<1>12. ASSUME NEW s, NEW t, NEW c, NEW e PROVE Idle(s, t, c, e) = Request(s, t, z, d, z, z, c, e)
  BY <1>1 DEF Idle, Request
<1>13. r4 = Idle(at, kind, a, b)
  BY <1>11, <1>12
<1> QED BY <1>2, <1>4, <1>6, <1>8, <1>10, <1>13
LEMMA IdleEnd ==
  ASSUME NEW at, NEW kind
  PROVE  [Fresh EXCEPT !.at = at] = Idle(at, "STAT", 0, 0) /\ [Fresh EXCEPT !.at = at, !.kind = kind] = Idle(at, kind, 0, 0)
<1>1. PICK x, k, z, d : x = "new" /\ k = "STAT" /\ z = 0 /\ d = FALSE
  OBVIOUS
<1>2. PICK r0 : r0 = Fresh
  OBVIOUS
<1>3. r0 = Request(x, k, z, d, z, z, z, z)
  BY <1>1, <1>2 DEF Fresh, Request, NoPort
<1>4. PICK r1 : r1 = [r0 EXCEPT !.at = at]
  OBVIOUS
<1>5. r1 = Request(at, k, z, d, z, z, z, z)
  BY <1>3, <1>4 DEF Request
<1>6. PICK r2 : r2 = [r1 EXCEPT !.kind = kind]
  OBVIOUS
<1>7. r2 = Request(at, kind, z, d, z, z, z, z)
  BY <1>5, <1>6 DEF Request
<1>8. ASSUME NEW s, NEW t PROVE Idle(s, t, 0, 0) = Request(s, t, z, d, z, z, z, z)
  BY <1>1 DEF Idle, Request
<1>9. r1 = Idle(at, "STAT", 0, 0) /\ r2 = Idle(at, kind, 0, 0)
  BY <1>1, <1>5, <1>7, <1>8
<1> QED BY <1>2, <1>4, <1>6, <1>9

LEMMA IdleRequest ==
  ASSUME BoundsArePositive, NEW f \in Fetches, NEW q, NEW at \in At \ {"pending"}, NEW kind \in {"STAT", "READ"},
         NEW a \in Nat, NEW b \in Nat, a <= b, b <= Size(f), kind = "READ" /\ at # "done" => a < b
  PROVE  RequestInv(f, Idle(at, kind, a, b), q)
<1>1. 0 \in 0 .. Patience /\ 0 \in 0 .. 1
  BY Bounds
<1>2. Idle(at, kind, a, b) \in Requests
  BY <1>1 DEF Idle, Requests
<1>3. Inside(f, Idle(at, kind, a, b))
  BY DEF Idle, Inside
<1>4. InTime(Idle(at, kind, a, b), q)
  BY DEF Idle, InTime
<1> QED BY <1>2, <1>3, <1>4 DEF RequestInv

(* A request that has failed or is done.                                       *)
LEMMA EndedRequest ==
  ASSUME BoundsArePositive, NEW f \in Fetches, NEW q
  PROVE  /\ RequestInv(f, Fresh, q)
         /\ \A end \in {"done", "failed"} : RequestInv(f, [Fresh EXCEPT !.at = end], q) /\ [Fresh EXCEPT !.at = end].at = end
         /\ RequestInv(f, [Fresh EXCEPT !.at = "done", !.kind = "READ"], q)
         /\ [Fresh EXCEPT !.at = "done", !.kind = "READ"].at = "done"
<1>1. 0 <= Size(f) /\ 0 \in Nat /\ "new" \in At \ {"pending"} /\ "done" \in At \ {"pending"} /\ "failed" \in At \ {"pending"}
  BY DEF At, Size, MaxSize
<1>2. /\ RequestInv(f, Idle("new", "STAT", 0, 0), q) /\ RequestInv(f, Idle("done", "STAT", 0, 0), q)
      /\ RequestInv(f, Idle("failed", "STAT", 0, 0), q) /\ RequestInv(f, Idle("done", "READ", 0, 0), q)
  BY <1>1, IdleRequest
<1>3. \A at, kind : Idle(at, kind, 0, 0).at = at
  BY DEF Idle
<1>4. RequestInv(f, Fresh, q)
  BY <1>2 DEF Fresh, Idle, NoPort
<1>5. ASSUME NEW end \in {"done", "failed"}
      PROVE  RequestInv(f, [Fresh EXCEPT !.at = end], q) /\ [Fresh EXCEPT !.at = end].at = end
  <2>1. [Fresh EXCEPT !.at = end] = Idle(end, "STAT", 0, 0)
    BY IdleEnd
  <2> QED BY <1>2, <1>3, <2>1
<1>6. [Fresh EXCEPT !.at = "done", !.kind = "READ"] = Idle("done", "READ", 0, 0)
  BY IdleEnd
<1> QED BY <1>2, <1>3, <1>4, <1>5, <1>6

(* A request that only moves to a place where it is not pending.               *)
LEMMA MovedRequest ==
  ASSUME NEW f \in Fetches, NEW q, NEW p, NEW r, RequestInv(f, r, p),
         NEW at \in At \ {"pending", "done"}, r.at # "done", NEW s, s = [r EXCEPT !.at = at]
  PROVE  RequestInv(f, s, q)
<1>1. r \in Requests /\ Inside(f, r)
  BY DEF RequestInv
<1>2. s \in Requests
  BY <1>1 DEF Requests
<1>3. s.at = at /\ s.kind = r.kind /\ s.from = r.from /\ s.to = r.to
  BY <1>1 DEF Requests
<1>4. Inside(f, s)
  BY <1>1, <1>3 DEF Inside
<1>5. InTime(s, q)
  BY <1>3 DEF InTime
<1> QED BY <1>2, <1>4, <1>5 DEF RequestInv

(* A request whose timer starts again, or that has begun.                      *)
LEMMA RenewedRequest ==
  ASSUME BoundsArePositive, NEW f \in Fetches, NEW q \in 0 .. Patience, NEW p, NEW r, RequestInv(f, r, p),
         r.at # "done", NEW s \in Requests, s.at # "done", s.kind = r.kind, s.from = r.from, s.to = r.to,
         s.timer = Patience \/ s.admitted
  PROVE  RequestInv(f, s, q)
<1>1. r \in Requests /\ Inside(f, r) /\ Patience \in Nat
  BY Bounds DEF RequestInv
<1>2. Inside(f, s)
  BY <1>1 DEF Inside
<1>3. InTime(s, q)
  BY <1>1 DEF InTime
<1> QED BY <1>2, <1>3 DEF RequestInv
-------------------------------------------------------------------------------
(* The slots and the queue.                                                   *)

LEMMA QueueTypes ==
  ASSUME NEW busy, NEW w, NEW fs, QueueInv(busy, w, fs)
  PROVE  busy \in Nat /\ Len(w) \in Nat /\ \A i \in 1 .. Len(w) : w[i] \in Fetches
<1>1. IsFiniteSet(Taken(fs)) /\ busy = Cardinality(Taken(fs)) /\ w \in Seq(Fetches)
  BY DEF QueueInv
<1>2. Len(w) \in Nat /\ \A i \in 1 .. Len(w) : w[i] \in Fetches
  BY <1>1, LenProperties, ElementOfSeq
<1> QED BY <1>1, <1>2, FS_CardinalityType

(* Requests that stay where they are, in a slot or out of it.                  *)
LEMMA QueueSame ==
  ASSUME NEW busy, NEW w, NEW fs, NEW gs, QueueInv(busy, w, fs),
         \A f \in Fetches : (gs[f].at \in SlotAt <=> fs[f].at \in SlotAt)
                         /\ (gs[f].at = "waiting" <=> fs[f].at = "waiting")
  PROVE  QueueInv(busy, w, gs)
<1>1. Taken(gs) = Taken(fs)
  BY DEF Taken
<1> QED BY <1>1 DEF QueueInv

LEMMA OneMore ==
  ASSUME NEW A, IsFiniteSet(A), NEW c, c \notin A
  PROVE  IsFiniteSet(A \cup {c}) /\ Cardinality(A \cup {c}) = Cardinality(A) + 1
BY FS_AddElement

LEMMA OneLess ==
  ASSUME NEW A, IsFiniteSet(A), NEW c \in A
  PROVE  IsFiniteSet(A \ {c}) /\ Cardinality(A \ {c}) = Cardinality(A) - 1
BY FS_RemoveElement

LEMMA SlotTaken ==
  ASSUME BoundsArePositive, NEW busy, NEW w, NEW fs, QueueInv(busy, w, fs), busy < MaxActive,
         NEW f \in Fetches, fs[f].at \notin SlotAt \cup {"waiting"},
         NEW gs, gs[f].at \in SlotAt, \A g \in Fetches \ {f} : gs[g].at = fs[g].at
  PROVE  QueueInv(busy + 1, w, gs)
<1>1. busy \in Nat /\ MaxActive \in Nat
  BY Bounds, QueueTypes
<1>2. IsFiniteSet(Taken(fs)) /\ busy = Cardinality(Taken(fs)) /\ f \notin Taken(fs)
  BY DEF QueueInv, Taken
<1>3. Taken(gs) = Taken(fs) \cup {f}
  BY DEF Taken
<1>4. IsFiniteSet(Taken(gs)) /\ Cardinality(Taken(gs)) = busy + 1
  BY <1>2, <1>3, OneMore
<1>5. w = <<>>
  BY <1>1 DEF QueueInv
<1>6. \A g \in Fetches : gs[g].at = "waiting" <=> Has(w, g)
  BY DEF QueueInv, SlotAt
<1>7. w \in Seq(Fetches) /\ Distinct(w) /\ Len(w) <= MaxQueued
  BY DEF QueueInv
<1> QED BY <1>1, <1>4, <1>5, <1>6, <1>7 DEF QueueInv

LEMMA Queued ==
  ASSUME BoundsArePositive, NEW w, NEW fs, QueueInv(MaxActive, w, fs), Len(w) < MaxQueued,
         NEW f \in Fetches, fs[f].at \notin SlotAt \cup {"waiting"},
         NEW gs, gs[f].at = "waiting", \A g \in Fetches \ {f} : gs[g].at = fs[g].at
  PROVE  QueueInv(MaxActive, Append(w, f), gs)
<1>1. w \in Seq(Fetches) /\ Distinct(w) /\ ~Has(w, f) /\ \A g \in Fetches : fs[g].at = "waiting" <=> Has(w, g)
  BY DEF QueueInv
<1>2. Len(w) \in Nat /\ MaxQueued \in Nat
  BY Bounds, QueueTypes
<1> DEFINE v == Append(w, f)
<1>3. v \in Seq(Fetches) /\ Len(v) = Len(w) + 1 /\ v[Len(w) + 1] = f /\ \A i \in 1 .. Len(w) : v[i] = w[i]
  BY <1>1, AppendProperties
<1> HIDE DEF v
<1>4. Distinct(v)
  <2> SUFFICES ASSUME NEW i \in 1 .. Len(v), NEW j \in 1 .. Len(v), v[i] = v[j] PROVE i = j
    BY DEF Distinct
  <2>1. CASE i \in 1 .. Len(w) /\ j \in 1 .. Len(w)
    BY <1>1, <1>3, <2>1 DEF Distinct
  <2>2. CASE i = Len(w) + 1 /\ j \in 1 .. Len(w)
    BY <1>1, <1>3, <2>2 DEF Has
  <2>3. CASE j = Len(w) + 1 /\ i \in 1 .. Len(w)
    BY <1>1, <1>3, <2>3 DEF Has
  <2> QED BY <1>2, <1>3, <2>1, <2>2, <2>3
<1>5. \A g \in Fetches : Has(v, g) <=> g = f \/ Has(w, g)
  <2> SUFFICES ASSUME NEW g \in Fetches PROVE Has(v, g) <=> g = f \/ Has(w, g)
    OBVIOUS
  <2>1. ASSUME NEW i \in 1 .. Len(v), v[i] = g PROVE g = f \/ Has(w, g)
    <3>1. i = Len(w) + 1 \/ i \in 1 .. Len(w)
      BY <1>2, <1>3
    <3> QED BY <1>3, <2>1, <3>1 DEF Has
  <2>2. ASSUME NEW i \in 1 .. Len(w), w[i] = g PROVE Has(v, g)
    <3>1. i \in 1 .. Len(v)
      BY <1>2, <1>3
    <3> QED BY <1>3, <2>2, <3>1 DEF Has
  <2>3. Len(w) + 1 \in 1 .. Len(v)
    BY <1>2, <1>3
  <2> QED BY <1>3, <2>1, <2>2, <2>3 DEF Has
<1>6. \A g \in Fetches : gs[g].at = "waiting" <=> Has(v, g)
  BY <1>1, <1>5
<1>7. Taken(gs) = Taken(fs)
  BY DEF Taken, SlotAt
<1> QED BY <1>2, <1>3, <1>4, <1>6, <1>7 DEF QueueInv, v

(* What waits behind the first.                                               *)
LEMMA TailOf ==
  ASSUME NEW w \in Seq(Fetches), w # <<>>, Distinct(w)
  PROVE  /\ Head(w) \in Fetches /\ Has(w, Head(w))
         /\ Tail(w) \in Seq(Fetches) /\ Len(Tail(w)) = Len(w) - 1 /\ Distinct(Tail(w))
         /\ \A f : Has(Tail(w), f) <=> f # Head(w) /\ Has(w, f)
<1>1. /\ Len(w) \in Nat /\ Len(w) >= 1 /\ Head(w) = w[1] /\ w[1] \in Fetches
      /\ Tail(w) \in Seq(Fetches) /\ Len(Tail(w)) = Len(w) - 1
      /\ \A i \in 1 .. Len(w) - 1 : Tail(w)[i] = w[i + 1]
  BY HeadTailProperties, LenProperties, ElementOfSeq, EmptySeq
<1>2. \A i \in 1 .. Len(w) - 1 : i + 1 \in 1 .. Len(w) /\ i + 1 # 1
  BY <1>1
<1>3. \A i \in 1 .. Len(w) : i # 1 => i - 1 \in 1 .. Len(w) - 1 /\ (i - 1) + 1 = i
  BY <1>1
<1> DEFINE v == Tail(w)
<1> HIDE DEF v
<1>4. Distinct(v)
  <2> SUFFICES ASSUME NEW i \in 1 .. Len(v), NEW j \in 1 .. Len(v), v[i] = v[j] PROVE i = j
    BY DEF Distinct
  <2>1. w[i + 1] = w[j + 1] /\ i + 1 \in 1 .. Len(w) /\ j + 1 \in 1 .. Len(w)
    BY <1>1, <1>2 DEF v
  <2>2. i + 1 = j + 1
    BY <2>1 DEF Distinct
  <2> QED BY <1>1, <2>2 DEF v
<1>5. 1 \in 1 .. Len(w)
  BY <1>1
<1>6. ASSUME NEW f, NEW i \in 1 .. Len(v), v[i] = f PROVE f # w[1] /\ Has(w, f)
  <2>1. i + 1 \in 1 .. Len(w) /\ i + 1 # 1 /\ w[i + 1] = f
    BY <1>1, <1>2, <1>6 DEF v
  <2> QED BY <1>5, <2>1 DEF Has, Distinct
<1>7. ASSUME NEW f, f # w[1], NEW i \in 1 .. Len(w), w[i] = f PROVE Has(v, f)
  <2>1. i - 1 \in 1 .. Len(w) - 1 /\ (i - 1) + 1 = i
    BY <1>3, <1>7
  <2>2. i - 1 \in 1 .. Len(v) /\ v[i - 1] = f
    BY <1>1, <1>7, <2>1 DEF v
  <2> QED BY <2>2 DEF Has
<1>8. ASSUME NEW f PROVE Has(v, f) <=> f # w[1] /\ Has(w, f)
  BY <1>6, <1>7 DEF Has
<1>9. Has(w, Head(w))
  BY <1>1, <1>5 DEF Has
<1> QED BY <1>1, <1>4, <1>8, <1>9 DEF v

(* A slot given back goes to whoever waits first.                              *)
LEMMA ReleasedKeeps ==
  ASSUME BoundsArePositive, QueueInv(active, waiting, fetch),
         NEW f \in Fetches, fetch[f].at \in SlotAt,
         NEW after, DOMAIN after = Fetches, after = [g \in Fetches |-> after[g]],
         after[f].at \notin SlotAt \cup {"waiting"},
         \A g \in Fetches \ {f} : after[g].at = fetch[g].at,
         \A g \in Fetches : RequestInv(g, after[g], quiet'),
         Released(after)
  PROVE  /\ QueueInv(active, waiting, fetch)'
         /\ DOMAIN fetch' = Fetches /\ fetch' = [g \in Fetches |-> fetch'[g]]
         /\ \A g \in Fetches : RequestInv(g, fetch'[g], quiet')
<1>1. active \in Nat /\ Len(waiting) \in Nat /\ MaxActive \in Nat
  BY Bounds, QueueTypes
<1>2. /\ IsFiniteSet(Taken(fetch)) /\ active = Cardinality(Taken(fetch)) /\ active <= MaxActive
      /\ waiting \in Seq(Fetches) /\ Distinct(waiting) /\ Len(waiting) <= MaxQueued
      /\ \A g \in Fetches : fetch[g].at = "waiting" <=> Has(waiting, g)
      /\ waiting # <<>> => active = MaxActive
  BY DEF QueueInv
<1>3. f \in Taken(fetch) /\ IsFiniteSet(Taken(fetch) \ {f}) /\ Cardinality(Taken(fetch) \ {f}) = active - 1
  <2>1. f \in Taken(fetch)
    BY DEF Taken
  <2> QED BY <1>2, <2>1, OneLess
<1>4. CASE waiting = <<>>
  <2>1. active' = active - 1 /\ fetch' = after /\ waiting' = waiting
    BY <1>4 DEF Released
  <2>2. Taken(after) = Taken(fetch) \ {f}
    BY DEF Taken
  <2>3. \A g \in Fetches : after[g].at = "waiting" <=> Has(waiting, g)
    BY <1>2 DEF SlotAt
  <2>4. active - 1 = Cardinality(Taken(after)) /\ active - 1 <= MaxActive /\ IsFiniteSet(Taken(after))
    <3>1. active - 1 <= MaxActive
      BY <1>1, <1>2
    <3> QED BY <1>3, <2>2, <3>1
  <2>5. QueueInv(active - 1, waiting, after)
    BY <1>2, <1>4, <2>3, <2>4 DEF QueueInv
  <2> QED BY <2>1, <2>5
<1>5. CASE waiting # <<>>
  <2>1. PICK h : h = Head(waiting)
    OBVIOUS
  <2>2. active' = active /\ fetch' = [after EXCEPT ![h].at = "slot"] /\ waiting' = Tail(waiting)
    BY <1>5, <2>1 DEF Released
  <2>3. /\ h \in Fetches /\ Has(waiting, h)
        /\ waiting' \in Seq(Fetches) /\ Len(waiting') = Len(waiting) - 1 /\ Distinct(waiting')
        /\ \A g : Has(waiting', g) <=> g # h /\ Has(waiting, g)
    BY <1>2, <1>5, <2>1, <2>2, TailOf
  <2>4. fetch[h].at = "waiting" /\ h # f /\ after[h].at = "waiting"
    BY <1>2, <2>3 DEF SlotAt
  <2>5. /\ DOMAIN fetch' = Fetches /\ fetch' = [g \in Fetches |-> fetch'[g]]
        /\ fetch'[h] = [after[h] EXCEPT !.at = "slot"]
        /\ \A g \in Fetches \ {h} : fetch'[g] = after[g]
    BY <2>2, <2>3
  <2>6. RequestInv(h, fetch'[h], quiet')
    <3>1. RequestInv(h, after[h], quiet') /\ after[h].at # "done" /\ "slot" \in At \ {"pending", "done"}
      BY <2>3, <2>4 DEF At
    <3> QED BY <2>3, <2>5, <3>1, MovedRequest
  <2>7. fetch'[h].at = "slot"
    <3>1. after[h] \in Requests
      BY <2>3 DEF RequestInv
    <3> QED BY <2>5, <3>1 DEF Requests
  <2>8. Taken(fetch') = (Taken(fetch) \ {f}) \cup {h}
    BY <2>3, <2>4, <2>5, <2>7 DEF Taken, SlotAt
  <2>9. IsFiniteSet(Taken(fetch')) /\ Cardinality(Taken(fetch')) = active
    <3>1. h \notin Taken(fetch) \ {f}
      BY <2>4 DEF Taken, SlotAt
    <3>2. IsFiniteSet(Taken(fetch')) /\ Cardinality(Taken(fetch')) = (active - 1) + 1
      <4>1. PICK A : A = Taken(fetch) \ {f}
        OBVIOUS
      <4>2. IsFiniteSet(A \cup {h}) /\ Cardinality(A \cup {h}) = Cardinality(A) + 1
        BY <1>3, <3>1, <4>1, OneMore
      <4> QED BY <1>3, <2>8, <4>1, <4>2
    <3> QED BY <1>1, <3>2
  <2>10. \A g \in Fetches : fetch'[g].at = "waiting" <=> Has(waiting', g)
    BY <1>2, <2>3, <2>4, <2>5, <2>7 DEF SlotAt
  <2>11. Len(waiting') <= MaxQueued
    <3>1. MaxQueued \in Nat
      BY Bounds
    <3> QED BY <1>1, <1>2, <2>3, <3>1
  <2>12. QueueInv(active', waiting', fetch')
    BY <1>2, <1>5, <2>2, <2>3, <2>9, <2>10, <2>11 DEF QueueInv
  <2> QED BY <2>5, <2>6, <2>12
<1> QED BY <1>4, <1>5
-------------------------------------------------------------------------------
(* Every action keeps the invariant.                                           *)

LEMMA FetchAt ==
  ASSUME RInv
  PROVE  /\ \A f \in Fetches : RequestInv(f, fetch[f], quiet) /\ fetch[f] \in Requests
         /\ QueueInv(active, waiting, fetch)
         /\ DOMAIN fetch = Fetches /\ fetch = [f \in Fetches |-> fetch[f]]
         /\ quiet \in 0 .. Patience
BY DEF RInv, RequestInv

(* What of the invariant an action that leaves the ports alone has to show.     *)
LEMMA PortsSame ==
  ASSUME PortInv, UNCHANGED workerVars
  PROVE  PortInv'
BY DEF PortInv, workerVars

(* A request that moves, where the slots are the same.                         *)
LEMMA OneMoves ==
  ASSUME BoundsArePositive, RInv, NEW f \in Fetches, NEW r, fetch' = [fetch EXCEPT ![f] = r],
         r.at \in SlotAt, fetch[f].at \in SlotAt, RequestInv(f, r, quiet),
         UNCHANGED <<active, waiting, quiet>>, faults' \in 0 .. MaxFaults, PortInv'
  PROVE  RInv'
<1>1. /\ DOMAIN fetch' = Fetches /\ fetch' = [g \in Fetches |-> fetch'[g]] /\ fetch'[f] = r
      /\ \A g \in Fetches \ {f} : fetch'[g] = fetch[g]
  BY FetchAt
<1>2. \A g \in Fetches : RequestInv(g, fetch'[g], quiet')
  BY <1>1, FetchAt
<1>3. QueueInv(active, waiting, fetch')
  BY <1>1, FetchAt, QueueSame DEF SlotAt
<1> QED BY <1>1, <1>2, <1>3, FetchAt DEF RInv

LEMMA RInit ==
  ASSUME BoundsArePositive, Init
  PROVE  RInv
<1>1. \A f \in Fetches : RequestInv(f, fetch[f], quiet)
  <2> SUFFICES ASSUME NEW f \in Fetches PROVE RequestInv(f, fetch[f], quiet)
    OBVIOUS
  <2>1. fetch[f] = Fresh
    BY DEF Init
  <2> QED BY <2>1, EndedRequest
<1>2. Taken(fetch) = {} /\ \A f \in Fetches : fetch[f].at # "waiting"
  BY DEF Init, Fresh, Taken, SlotAt
<1>3. QueueInv(active, waiting, fetch)
  <2>1. active = 0 /\ waiting = <<>> /\ Len(waiting) = 0 /\ waiting \in Seq(Fetches)
    BY DEF Init
  <2>2. IsFiniteSet({}) /\ Cardinality({}) = 0
    BY FS_EmptySet
  <2>3. MaxActive \in Nat /\ MaxQueued \in Nat
    BY Bounds
  <2>4. Distinct(waiting) /\ \A f \in Fetches : ~Has(waiting, f)
    BY <2>1 DEF Distinct, Has
  <2> QED BY <1>2, <2>1, <2>2, <2>3, <2>4 DEF QueueInv
<1>4. DOMAIN fetch = Fetches /\ fetch = [f \in Fetches |-> fetch[f]]
  BY DEF Init
<1>5. faults \in 0 .. MaxFaults /\ quiet \in 0 .. Patience /\ PortInv
  BY Bounds DEF Init, PortInv, NoPort
<1> QED BY <1>1, <1>3, <1>4, <1>5 DEF RInv

LEMMA AsksKeeps ==
  ASSUME BoundsArePositive, RInv, NEW f \in Fetches, Asks(f)
  PROVE  RInv'
<1>1. /\ fetch[f].at \in {"new", "pull"} /\ quiet' = quiet /\ faults' = faults /\ UNCHANGED workerVars
      /\ quiet \in 0 .. Patience
  BY FetchAt DEF Asks
<1>2. PortInv'
  BY <1>1, PortsSame DEF RInv
<1>3. fetch[f] \in Requests /\ RequestInv(f, fetch[f], quiet)
  BY FetchAt
<1>4. ASSUME NEW at \in {"slot", "waiting"}, fetch' = [fetch EXCEPT ![f].at = at]
      PROVE  /\ DOMAIN fetch' = Fetches /\ fetch' = [g \in Fetches |-> fetch'[g]]
             /\ \A g \in Fetches : RequestInv(g, fetch'[g], quiet)
             /\ fetch'[f].at = at /\ \A g \in Fetches \ {f} : fetch'[g] = fetch[g]
  <2>1. fetch'[f] = [fetch[f] EXCEPT !.at = at] /\ \A g \in Fetches \ {f} : fetch'[g] = fetch[g]
    BY <1>4, FetchAt
  <2>2. fetch'[f].at = at
    BY <1>3, <2>1 DEF Requests
  <2>3. RequestInv(f, fetch'[f], quiet)
    <3>1. at \in At \ {"pending", "done"} /\ fetch[f].at # "done"
      BY <1>1 DEF At
    <3> QED BY <1>3, <2>1, <3>1, MovedRequest
  <2>4. \A g \in Fetches : RequestInv(g, fetch'[g], quiet)
    BY <2>1, <2>3, FetchAt
  <2> QED BY <1>4, <2>1, <2>2, <2>4, FetchAt
<1>5. CASE active < MaxActive /\ active' = active + 1 /\ fetch' = [fetch EXCEPT ![f].at = "slot"] /\ waiting' = waiting
  <2>1. QueueInv(active', waiting', fetch')
    <3>1. fetch[f].at \notin SlotAt \cup {"waiting"} /\ fetch'[f].at \in SlotAt
      BY <1>1, <1>4, <1>5 DEF SlotAt
    <3>2. \A g \in Fetches \ {f} : fetch'[g].at = fetch[g].at
      BY <1>4, <1>5
    <3> QED BY <1>5, <3>1, <3>2, FetchAt, SlotTaken
  <2> QED BY <1>1, <1>2, <1>4, <1>5, <2>1 DEF RInv
<1>6. CASE active = MaxActive /\ Len(waiting) < MaxQueued /\ waiting' = Append(waiting, f)
           /\ fetch' = [fetch EXCEPT ![f].at = "waiting"] /\ active' = active
  <2>1. QueueInv(active', waiting', fetch')
    <3>1. fetch[f].at \notin SlotAt \cup {"waiting"} /\ fetch'[f].at = "waiting"
      BY <1>1, <1>4, <1>6 DEF SlotAt
    <3>2. \A g \in Fetches \ {f} : fetch'[g].at = fetch[g].at
      BY <1>4, <1>6
    <3> QED BY <1>6, <3>1, <3>2, FetchAt, Queued
  <2> QED BY <1>1, <1>2, <1>4, <1>6, <2>1 DEF RInv
<1>7. CASE fetch' = [fetch EXCEPT ![f] = [Fresh EXCEPT !.at = "failed"]] /\ active' = active /\ waiting' = waiting
  <2>1. PICK r : r = [Fresh EXCEPT !.at = "failed"]
    OBVIOUS
  <2>2. RequestInv(f, r, quiet) /\ r.at = "failed"
    BY <2>1, EndedRequest
  <2>3. /\ DOMAIN fetch' = Fetches /\ fetch' = [g \in Fetches |-> fetch'[g]]
        /\ fetch'[f] = r /\ \A g \in Fetches \ {f} : fetch'[g] = fetch[g]
    BY <1>7, <2>1, FetchAt
  <2>4. \A g \in Fetches : RequestInv(g, fetch'[g], quiet)
    BY <2>2, <2>3, FetchAt
  <2>5. QueueInv(active', waiting', fetch')
    BY <1>1, <1>7, <2>2, <2>3, FetchAt, QueueSame DEF SlotAt
  <2> QED BY <1>1, <1>2, <2>3, <2>4, <2>5 DEF RInv
<1> QED BY <1>5, <1>6, <1>7 DEF Asks

LEMMA SendsKeeps ==
  ASSUME BoundsArePositive, RInv, NEW f \in Fetches, Sends(f)
  PROVE  RInv'
<1>1. fetch[f].at = "slot" /\ fetch' = Sent(f) /\ UNCHANGED <<workerVars, active, waiting, quiet, faults>>
  BY DEF Sends
<1>2. fetch[f] \in Requests /\ RequestInv(f, fetch[f], quiet) /\ quiet \in 0 .. Patience /\ Patience \in Nat
  BY FetchAt, Bounds
<1>3. PICK r : r = [fetch[f] EXCEPT !.at = "pending", !.port = connection, !.admitted = FALSE,
                                    !.network = 0, !.timer = Patience]
  OBVIOUS
<1>4. fetch' = [fetch EXCEPT ![f] = r]
  BY <1>1, <1>3, FetchAt DEF Sent
<1>5. r \in Requests /\ r.at = "pending" /\ r.kind = fetch[f].kind /\ r.from = fetch[f].from
      /\ r.to = fetch[f].to /\ r.timer = Patience
  <2>1. connection \in Nat /\ Patience \in 0 .. Patience /\ "pending" \in At
    BY <1>2 DEF RInv, PortInv, At
  <2>2. PICK old : old = fetch[f]
    OBVIOUS
  <2>3. PICK to : to = connection
    OBVIOUS
  <2>4. old \in Requests /\ to \in Nat
    BY <1>2, <2>1, <2>2, <2>3
  <2>5. r = [old EXCEPT !.at = "pending", !.port = to, !.admitted = FALSE, !.network = 0, !.timer = Patience]
    BY <1>3, <2>2, <2>3
  <2>6. r = [at |-> "pending", kind |-> old.kind, port |-> to, admitted |-> FALSE, network |-> 0,
             timer |-> Patience, from |-> old.from, to |-> old.to]
    BY <2>4, <2>5 DEF Requests
  <2> HIDE <2>5
  <2> QED BY <2>1, <2>2, <2>4, <2>6 DEF Requests
<1>6. RequestInv(f, r, quiet)
  BY <1>1, <1>2, <1>5, RenewedRequest
<1>7. r.at \in SlotAt /\ fetch[f].at \in SlotAt
  BY <1>1, <1>5 DEF SlotAt
<1>8. PortInv' /\ faults' \in 0 .. MaxFaults
  BY <1>1, PortsSame DEF RInv
<1> QED BY <1>1, <1>4, <1>6, <1>7, <1>8, OneMoves

(* A request that stays in its slot, at another place.                         *)
LEMMA MovesInSlot ==
  ASSUME BoundsArePositive, RInv, NEW f \in Fetches, NEW at \in SlotAt \ {"pending"}, fetch[f].at \in SlotAt,
         fetch' = [fetch EXCEPT ![f].at = at],
         UNCHANGED <<active, waiting, quiet>>, faults' \in 0 .. MaxFaults, PortInv'
  PROVE  RInv'
<1>1. PICK r : r = [fetch[f] EXCEPT !.at = at]
  OBVIOUS
<1>2. fetch[f] \in Requests /\ RequestInv(f, fetch[f], quiet)
  BY FetchAt
<1>3. fetch' = [fetch EXCEPT ![f] = r]
  BY <1>1
<1>4. r.at = at
  BY <1>1, <1>2 DEF Requests
<1>5. RequestInv(f, r, quiet)
  <2>1. at \in At \ {"pending", "done"} /\ fetch[f].at # "done"
    BY DEF SlotAt, At
  <2> QED BY <1>1, <1>2, <2>1, MovedRequest
<1> QED BY <1>3, <1>4, <1>5, OneMoves

LEMMA ReconnectsKeeps ==
  ASSUME BoundsArePositive, RInv, NEW f \in Fetches, Reconnects(f)
  PROVE  RInv'
<1>1. fetch[f].at \in SlotAt /\ UNCHANGED <<connection, late, dead, active, waiting, quiet, faults>>
  BY DEF Reconnects, SlotAt
<1>2. faults' \in 0 .. MaxFaults
  BY <1>1 DEF RInv
<1>3. PICK at \in {"reconnect", "unconnected"} : fetch' = [fetch EXCEPT ![f].at = at]
  BY DEF Reconnects
<1>4. at \in SlotAt \ {"pending"}
  BY DEF SlotAt
<1>5. PortInv'
  <2>1. CASE ports < MaxPorts /\ ports' = ports + 1 /\ reconnecting' = ports + 1
    <3>1. MaxPorts \in Nat /\ ports \in 0 .. MaxPorts /\ connection \in 0 .. ports
          /\ late \subseteq 1 .. ports /\ dead \subseteq 1 .. ports
      BY Bounds DEF RInv, PortInv
    <3>2. ports' \in 0 .. MaxPorts /\ connection' \in 0 .. ports' /\ reconnecting' \in 0 .. ports'
      BY <1>1, <2>1, <3>1
    <3>3. 1 .. ports \subseteq 1 .. ports'
      BY <2>1, <3>1
    <3>4. late' \subseteq 1 .. ports' /\ dead' \subseteq 1 .. ports'
      BY <1>1, <3>1, <3>3
    <3> QED BY <3>2, <3>4 DEF PortInv
  <2>2. CASE UNCHANGED <<reconnecting, ports>>
    BY <1>1, <2>2 DEF RInv, PortInv
  <2> QED BY <2>1, <2>2 DEF Reconnects
<1> QED BY <1>1, <1>2, <1>3, <1>4, <1>5, MovesInSlot

(* The answer that every request waits for.                                    *)
LEMMA AllMove ==
  ASSUME BoundsArePositive, RInv, NEW at \in SlotAt \ {"pending"},
         fetch' = [f \in Fetches |-> IF fetch[f].at = "reconnect" THEN [fetch[f] EXCEPT !.at = at] ELSE fetch[f]],
         UNCHANGED <<active, waiting, quiet>>, faults' \in 0 .. MaxFaults, PortInv'
  PROVE  RInv'
<1>1. ASSUME NEW f \in Fetches
      PROVE  /\ RequestInv(f, fetch'[f], quiet)
             /\ fetch'[f].at \in SlotAt <=> fetch[f].at \in SlotAt
             /\ fetch'[f].at = "waiting" <=> fetch[f].at = "waiting"
  <2>1. fetch[f] \in Requests /\ RequestInv(f, fetch[f], quiet)
    BY FetchAt
  <2>2. CASE fetch[f].at = "reconnect"
    <3>1. fetch'[f] = [fetch[f] EXCEPT !.at = at]
      BY <2>2
    <3>2. fetch'[f].at = at
      BY <2>1, <3>1 DEF Requests
    <3>3. at \in At \ {"pending", "done"}
      BY DEF SlotAt, At
    <3>4. RequestInv(f, fetch'[f], quiet)
      BY <2>1, <2>2, <3>1, <3>3, MovedRequest
    <3> QED BY <2>2, <3>2, <3>4 DEF SlotAt
  <2>3. CASE fetch[f].at # "reconnect"
    BY <2>1, <2>3
  <2> QED BY <2>2, <2>3
<1>2. QueueInv(active, waiting, fetch')
  BY <1>1, FetchAt, QueueSame
<1>3. DOMAIN fetch' = Fetches /\ fetch' = [f \in Fetches |-> fetch'[f]]
  OBVIOUS
<1> QED BY <1>1, <1>2, <1>3, FetchAt DEF RInv

(* A port that is bound.                                                      *)
LEMMA BindKeeps ==
  ASSUME PortInv, NEW p \in 1 .. ports, Bind(p), ports' = ports, reconnecting' \in {reconnecting, NoPort},
         late' \subseteq late
  PROVE  PortInv'
<1>1. connection' = p /\ dead' = dead \cup ({connection} \ {0})
  BY DEF Bind, NoPort
<1>2. ports \in Nat /\ connection \in 0 .. ports /\ reconnecting \in 0 .. ports
      /\ late \subseteq 1 .. ports /\ dead \subseteq 1 .. ports
  BY DEF PortInv
<1>3. dead' \subseteq 1 .. ports
  BY <1>1, <1>2
<1>4. p \in 0 .. ports /\ 0 \in 0 .. ports
  BY <1>2
<1> QED BY <1>1, <1>2, <1>3, <1>4 DEF PortInv, NoPort

LEMMA ReconnectedKeeps ==
  ASSUME BoundsArePositive, RInv, Reconnected
  PROVE  RInv'
<1>1. /\ reconnecting # NoPort /\ Bind(reconnecting) /\ reconnecting' = NoPort
      /\ fetch' = [f \in Fetches |-> IF fetch[f].at = "reconnect" THEN [fetch[f] EXCEPT !.at = "slot"] ELSE fetch[f]]
      /\ UNCHANGED <<late, ports, active, waiting, quiet, faults>>
  BY DEF Reconnected
<1>2. reconnecting \in 1 .. ports
  BY <1>1 DEF RInv, PortInv, NoPort
<1>3. PortInv' /\ faults' \in 0 .. MaxFaults
  BY <1>1, <1>2, BindKeeps DEF RInv
<1>4. "slot" \in SlotAt \ {"pending"}
  BY DEF SlotAt
<1> QED BY <1>1, <1>3, <1>4, AllMove

LEMMA GivenUpKeeps ==
  ASSUME BoundsArePositive, RInv, GivenUp
  PROVE  RInv'
<1>1. /\ reconnecting # NoPort /\ Fault /\ reconnecting' = NoPort /\ late' \in {late, late \cup {reconnecting}}
      /\ fetch' = [f \in Fetches |-> IF fetch[f].at = "reconnect" THEN [fetch[f] EXCEPT !.at = "unconnected"] ELSE fetch[f]]
      /\ UNCHANGED <<connection, dead, ports, active, waiting, quiet>>
  BY DEF GivenUp
<1>2. reconnecting \in 1 .. ports /\ late \subseteq 1 .. ports
  BY <1>1 DEF RInv, PortInv, NoPort
<1>3. late' \subseteq 1 .. ports
  BY <1>1, <1>2
<1>4. PortInv'
  BY <1>1, <1>3 DEF RInv, PortInv, NoPort
<1>5. faults' \in 0 .. MaxFaults
  BY <1>1, Bounds DEF RInv, Fault
<1>6. "unconnected" \in SlotAt \ {"pending"}
  BY DEF SlotAt
<1> QED BY <1>1, <1>4, <1>5, <1>6, AllMove

(* What moves only ports.                                                     *)
LEMMA OnlyPorts ==
  ASSUME RInv, UNCHANGED <<active, waiting, fetch, quiet>>, faults' \in 0 .. MaxFaults, PortInv'
  PROVE  RInv'
BY DEF RInv

LEMMA PortsMove ==
  ASSUME BoundsArePositive, RInv, BindsLate \/ Connects \/ PortDies
  PROVE  RInv'
<1>1. CASE BindsLate
  <2>1. PICK p \in late : Bind(p) /\ late' = late \ {p}
    BY <1>1 DEF BindsLate
  <2>2. UNCHANGED <<reconnecting, ports, active, waiting, fetch, quiet, faults>>
    BY <1>1 DEF BindsLate
  <2>3. p \in 1 .. ports /\ PortInv
    BY DEF RInv, PortInv
  <2>4. PortInv' /\ faults' \in 0 .. MaxFaults
    BY <2>1, <2>2, <2>3, BindKeeps DEF RInv
  <2> QED BY <2>2, <2>4, OnlyPorts
<1>2. CASE Connects
  <2>1. /\ ports < MaxPorts /\ connection = 0 /\ ports' = ports + 1 /\ connection' = ports + 1
        /\ dead' = dead \cup ({connection} \ {0})
        /\ UNCHANGED <<reconnecting, late, active, waiting, fetch, quiet, faults>>
    BY <1>2 DEF Connects, Bind, NoPort
  <2>2. MaxPorts \in Nat /\ ports \in 0 .. MaxPorts /\ reconnecting \in 0 .. ports
        /\ late \subseteq 1 .. ports /\ dead \subseteq 1 .. ports
    BY Bounds DEF RInv, PortInv
  <2>3. ports' \in 0 .. MaxPorts /\ connection' \in 0 .. ports' /\ reconnecting' \in 0 .. ports'
    BY <2>1, <2>2
  <2>4. 1 .. ports \subseteq 1 .. ports' /\ dead' = dead
    BY <2>1, <2>2
  <2>5. late' \subseteq 1 .. ports' /\ dead' \subseteq 1 .. ports'
    BY <2>1, <2>2, <2>4
  <2>6. PortInv' /\ faults' \in 0 .. MaxFaults
    BY <2>1, <2>3, <2>5 DEF PortInv, RInv
  <2> QED BY <2>1, <2>6, OnlyPorts
<1>3. CASE PortDies
  <2>1. Fault /\ UNCHANGED <<connection, reconnecting, late, ports, active, waiting, fetch, quiet>>
    BY <1>3 DEF PortDies
  <2>2. PICK p \in 1 .. ports : dead' = dead \cup {p}
    BY <1>3 DEF PortDies
  <2>3. PortInv'
    BY <2>1, <2>2 DEF RInv, PortInv
  <2>4. faults' \in 0 .. MaxFaults
    BY <2>1, Bounds DEF RInv, Fault
  <2> QED BY <2>1, <2>3, <2>4, OnlyPorts
<1> QED BY <1>1, <1>2, <1>3

(* A request that has a slot no more, for whatever reason.                      *)
LEMMA OneEnds ==
  ASSUME BoundsArePositive, RInv, NEW f \in Fetches, fetch[f].at \in SlotAt,
         NEW r, RequestInv(f, r, quiet), r.at \notin SlotAt \cup {"waiting"},
         Released([fetch EXCEPT ![f] = r]),
         quiet' = quiet, faults' \in 0 .. MaxFaults, PortInv'
  PROVE  RInv'
<1>1. PICK after : after = [fetch EXCEPT ![f] = r]
  OBVIOUS
<1>2. /\ DOMAIN after = Fetches /\ after = [g \in Fetches |-> after[g]]
      /\ after[f] = r /\ \A g \in Fetches \ {f} : after[g] = fetch[g]
  BY <1>1, FetchAt
<1>3. Released(after)
  BY <1>1
<1>4. \A g \in Fetches : RequestInv(g, after[g], quiet')
  BY <1>2, FetchAt
<1>5. after[f].at \notin SlotAt \cup {"waiting"} /\ \A g \in Fetches \ {f} : after[g].at = fetch[g].at
  BY <1>2
<1> HIDE <1>1
<1>6. QueueInv(active, waiting, fetch)
  BY FetchAt
<1>7. /\ QueueInv(active, waiting, fetch)'
      /\ DOMAIN fetch' = Fetches /\ fetch' = [g \in Fetches |-> fetch'[g]]
      /\ \A g \in Fetches : RequestInv(g, fetch'[g], quiet')
  BY <1>2, <1>3, <1>4, <1>5, <1>6, ReleasedKeeps
<1> QED BY <1>7, FetchAt DEF RInv

LEMMA OneFails ==
  ASSUME BoundsArePositive, RInv, NEW f \in Fetches, fetch[f].at \in SlotAt,
         Released([fetch EXCEPT ![f] = [Fresh EXCEPT !.at = "failed"]]),
         quiet' = quiet, faults' \in 0 .. MaxFaults, PortInv'
  PROVE  RInv'
<1>1. PICK r : r = [Fresh EXCEPT !.at = "failed"]
  OBVIOUS
<1>2. RequestInv(f, r, quiet) /\ r.at \notin SlotAt \cup {"waiting"}
  BY <1>1, EndedRequest DEF SlotAt
<1>3. Released([fetch EXCEPT ![f] = r])
  BY <1>1
<1> QED BY <1>2, <1>3, OneEnds

LEMMA UnconnectedKeeps ==
  ASSUME BoundsArePositive, RInv, NEW f \in Fetches, Unconnected(f)
  PROVE  RInv'
<1>1. fetch[f].at \in SlotAt
  BY DEF Unconnected, SlotAt
<1>2. quiet' = quiet /\ UNCHANGED workerVars /\ faults' \in 0 .. MaxFaults
  BY DEF Unconnected, RInv
<1>3. PortInv'
  BY <1>2, PortsSame DEF RInv
<1>4. Released([fetch EXCEPT ![f] = [Fresh EXCEPT !.at = "failed"]])
  BY DEF Unconnected
<1> QED BY <1>1, <1>2, <1>3, <1>4, OneFails

LEMMA ReadFailedKeeps ==
  ASSUME BoundsArePositive, RInv, NEW f \in Fetches, ReadFailed(f)
  PROVE  RInv'
<1>1. fetch[f].at \in SlotAt
  BY DEF ReadFailed, Heard, SlotAt
<1>2. quiet' = quiet /\ UNCHANGED workerVars /\ Fault
  BY DEF ReadFailed
<1>3. PortInv' /\ faults' \in 0 .. MaxFaults
  BY <1>2, PortsSame, Bounds DEF RInv, Fault
<1>4. Released([fetch EXCEPT ![f] = [Fresh EXCEPT !.at = "failed"]])
  BY DEF ReadFailed
<1> QED BY <1>1, <1>2, <1>3, <1>4, OneFails

LEMMA ExpiresKeeps ==
  ASSUME BoundsArePositive, RInv, NEW f \in Fetches, Expires(f)
  PROVE  RInv'
<1>1. fetch[f].at \in SlotAt
  BY DEF Expires, Due, SlotAt
<1>2. quiet' = quiet /\ faults' \in 0 .. MaxFaults /\ UNCHANGED <<reconnecting, late, dead, ports>>
  BY DEF Expires, RInv
<1>3. PortInv'
  <2>1. connection' \in {connection, NoPort}
    BY DEF Expires
  <2> QED BY <1>2, <2>1 DEF RInv, PortInv, NoPort
<1>4. Released([fetch EXCEPT ![f] = [Fresh EXCEPT !.at = "failed"]])
  BY DEF Expires
<1> QED BY <1>1, <1>2, <1>3, <1>4, OneFails

LEMMA StatAnsweredKeeps ==
  ASSUME BoundsArePositive, RInv, NEW f \in Fetches, StatAnswered(f)
  PROVE  RInv'
<1>1. fetch[f].at \in SlotAt
  BY DEF StatAnswered, Heard, SlotAt
<1>2. quiet' = quiet /\ UNCHANGED workerVars /\ faults' \in 0 .. MaxFaults
  BY DEF StatAnswered, RInv
<1>3. PortInv'
  BY <1>2, PortsSame DEF RInv
<1>4. ASSUME NEW h \in Ranges, NEW r \in RangeOf(h, Size(f)) \cup {Whole(Size(f))},
             Released([fetch EXCEPT ![f] = [Fresh EXCEPT !.at = "pull", !.kind = "READ", !.from = r.from, !.to = r.to]])
      PROVE  RInv'
  <2>1. PICK a, b : a = r.from /\ b = r.to
    OBVIOUS
  <2>2. a \in Nat /\ b \in Nat /\ a < b /\ b <= Size(f)
    BY <2>1, RangeInside
  <2>3. PICK s : s = Idle("pull", "READ", a, b)
    OBVIOUS
  <2>4. Released([fetch EXCEPT ![f] = s])
    <3>1. s = [Fresh EXCEPT !.at = "pull", !.kind = "READ", !.from = a, !.to = b]
      BY <2>3, IdleBlock
    <3> QED BY <1>4, <2>1, <3>1
  <2>5. s.at \notin SlotAt \cup {"waiting"}
    BY <2>3 DEF Idle, SlotAt
  <2>6. RequestInv(f, s, quiet)
    <3>1. "pull" \in At \ {"pending"} /\ a <= b
      BY <2>2 DEF At
    <3> QED BY <2>2, <2>3, <3>1, IdleRequest
  <2> QED BY <1>1, <1>2, <1>3, <2>4, <2>5, <2>6, OneEnds
<1>5. ASSUME NEW end \in {"done", "failed"}, Released([fetch EXCEPT ![f] = [Fresh EXCEPT !.at = end]])
      PROVE  RInv'
  <2>1. PICK r : r = [Fresh EXCEPT !.at = end]
    OBVIOUS
  <2>2. RequestInv(f, r, quiet) /\ r.at \notin SlotAt \cup {"waiting"}
    BY <2>1, EndedRequest DEF SlotAt
  <2>3. Released([fetch EXCEPT ![f] = r])
    BY <1>5, <2>1
  <2> QED BY <1>1, <1>2, <1>3, <2>2, <2>3, OneEnds
<1> QED BY <1>4, <1>5 DEF StatAnswered

(* The player was heard: every read that has not begun has its time again.       *)
LEMMA RenewedAll ==
  ASSUME BoundsArePositive, NEW fs, \A g \in Fetches : RequestInv(g, fs[g], Patience)
  PROVE  /\ DOMAIN RenewQueued(fs) = Fetches /\ RenewQueued(fs) = [g \in Fetches |-> RenewQueued(fs)[g]]
         /\ \A g \in Fetches : RequestInv(g, RenewQueued(fs)[g], 0) /\ RenewQueued(fs)[g].at = fs[g].at
<1>1. DOMAIN RenewQueued(fs) = Fetches /\ RenewQueued(fs) = [g \in Fetches |-> RenewQueued(fs)[g]]
  BY DEF RenewQueued
<1>2. ASSUME NEW g \in Fetches
      PROVE  RequestInv(g, RenewQueued(fs)[g], 0) /\ RenewQueued(fs)[g].at = fs[g].at
  <2>1. PICK r : r = fs[g]
    OBVIOUS
  <2>2. RequestInv(g, r, Patience) /\ r \in Requests /\ Inside(g, r) /\ Patience \in Nat
    BY <2>1, Bounds DEF RequestInv
  <2>3. CASE r.at = "pending" /\ r.kind = "READ" /\ ~r.admitted
    <3>1. RenewQueued(fs)[g] = [r EXCEPT !.timer = Patience]
      BY <2>1, <2>3 DEF RenewQueued
    <3>2. PICK s : s = [r EXCEPT !.timer = Patience]
      OBVIOUS
    <3>3. /\ s \in Requests /\ s.at = r.at /\ s.kind = r.kind /\ s.from = r.from /\ s.to = r.to
          /\ s.timer = Patience
      BY <2>2, <3>2 DEF Requests
    <3>4. RequestInv(g, s, 0)
      BY <2>2, <2>3, <3>3, RenewedRequest
    <3> QED BY <2>1, <3>1, <3>2, <3>3, <3>4
  <2>4. CASE ~(r.at = "pending" /\ r.kind = "READ" /\ ~r.admitted)
    <3>1. RenewQueued(fs)[g] = r
      BY <2>1, <2>4 DEF RenewQueued
    <3>2. RequestInv(g, r, 0)
      BY <2>2, <2>4 DEF RequestInv, InTime
    <3> QED BY <2>1, <3>1, <3>2
  <2> QED BY <2>3, <2>4
<1> QED BY <1>1, <1>2

(* Before that, the player was heard no longer ago than it takes to give up.     *)
LEMMA NotLonger ==
  ASSUME BoundsArePositive, NEW g \in Fetches, NEW q \in 0 .. Patience, NEW r, RequestInv(g, r, q)
  PROVE  RequestInv(g, r, Patience)
<1>1. r \in Requests /\ Inside(g, r) /\ InTime(r, q) /\ Patience \in Nat
  BY Bounds DEF RequestInv
<1>2. r.timer \in Nat
  BY <1>1 DEF Requests
<1>3. InTime(r, Patience)
  BY <1>1, <1>2 DEF InTime
<1> QED BY <1>1, <1>3 DEF RequestInv

LEMMA HeardAt ==
  ASSUME RInv, NEW f \in Fetches, Heard(f), Read(f)
  PROVE  /\ fetch[f].at = "pending" /\ fetch[f].kind = "READ" /\ fetch[f] \in Requests
         /\ fetch[f].from < fetch[f].to /\ fetch[f].to <= Size(f)
         /\ fetch[f].from \in Nat /\ fetch[f].to \in Nat /\ fetch[f].at \in SlotAt
<1>1. fetch[f].at = "pending" /\ fetch[f].kind = "READ"
  BY DEF Heard, Read
<1>2. fetch[f] \in Requests /\ Inside(f, fetch[f])
  BY FetchAt DEF RequestInv
<1>3. fetch[f].from \in Nat /\ fetch[f].to \in Nat
  BY <1>2 DEF Requests
<1> QED BY <1>1, <1>2, <1>3 DEF Inside, SlotAt

(* A read that begins, and one that goes on.                                   *)
LEMMA BegunRequest ==
  ASSUME BoundsArePositive, NEW f \in Fetches, NEW q \in 0 .. Patience, NEW p, NEW r, RequestInv(f, r, p),
         r.at = "pending", NEW s, s = [r EXCEPT !.admitted = TRUE, !.timer = Patience]
  PROVE  RequestInv(f, s, q) /\ s.at = "pending"
<1>1. r \in Requests /\ Patience \in 0 .. Patience
  BY Bounds DEF RequestInv
<1>2. /\ s \in Requests /\ s.at = r.at /\ s.kind = r.kind /\ s.from = r.from /\ s.to = r.to
      /\ s.timer = Patience
  BY <1>1 DEF Requests
<1> QED BY <1>2, RenewedRequest

LEMMA GoesOnRequest ==
  ASSUME BoundsArePositive, NEW f \in Fetches, NEW q \in 0 .. Patience, NEW p, NEW r, RequestInv(f, r, p),
         r.at = "pending", NEW s, s = [r EXCEPT !.network = 1, !.timer = Patience]
  PROVE  RequestInv(f, s, q) /\ s.at = "pending"
<1>1. r \in Requests /\ Patience \in 0 .. Patience /\ 1 \in 0 .. 1
  BY Bounds DEF RequestInv
<1>2. /\ s \in Requests /\ s.at = r.at /\ s.kind = r.kind /\ s.from = r.from /\ s.to = r.to
      /\ s.timer = Patience
  BY <1>1 DEF Requests
<1> QED BY <1>2, RenewedRequest

LEMMA ReadStartedKeeps ==
  ASSUME BoundsArePositive, RInv, NEW f \in Fetches, ReadStarted(f)
  PROVE  RInv'
<1>1. Heard(f) /\ Read(f) /\ UNCHANGED <<workerVars, active, waiting, quiet, faults>>
  BY DEF ReadStarted
<1>2. PICK r : r = [fetch[f] EXCEPT !.admitted = TRUE, !.timer = Patience]
  OBVIOUS
<1>3. fetch' = [fetch EXCEPT ![f] = r]
  BY <1>2, FetchAt DEF ReadStarted
<1>4. RequestInv(f, fetch[f], quiet) /\ quiet \in 0 .. Patience /\ fetch[f].at = "pending"
  BY <1>1, FetchAt, HeardAt
<1>5. RequestInv(f, r, quiet) /\ r.at = "pending"
  BY <1>2, <1>4, BegunRequest
<1>6. r.at \in SlotAt /\ fetch[f].at \in SlotAt
  BY <1>1, <1>5, HeardAt DEF SlotAt
<1>7. PortInv' /\ faults' \in 0 .. MaxFaults
  BY <1>1, PortsSame DEF RInv
<1> QED BY <1>1, <1>3, <1>5, <1>6, <1>7, OneMoves

LEMMA ReadProgressKeeps ==
  ASSUME BoundsArePositive, RInv, NEW f \in Fetches, ReadProgress(f)
  PROVE  RInv'
<1>1. Heard(f) /\ Read(f) /\ UNCHANGED <<workerVars, active, waiting, faults>> /\ quiet' = 0
  BY DEF ReadProgress
<1>2. PICK r : r = [fetch[f] EXCEPT !.network = 1, !.timer = Patience]
  OBVIOUS
<1>3. PICK fs : fs = [fetch EXCEPT ![f] = r]
  OBVIOUS
<1>4. fetch' = RenewQueued(fs)
  <2>1. fetch' = RenewQueued([fetch EXCEPT ![f].network = 1, ![f].timer = Patience])
    BY DEF ReadProgress
  <2>2. fs = [fetch EXCEPT ![f].network = 1, ![f].timer = Patience]
    BY <1>2, <1>3, FetchAt
  <2> QED BY <2>1, <2>2
<1>5. Patience \in 0 .. Patience
  BY Bounds
<1>6. RequestInv(f, r, Patience) /\ r.at = "pending"
  <2>1. RequestInv(f, fetch[f], quiet) /\ fetch[f].at = "pending"
    BY <1>1, FetchAt, HeardAt
  <2> QED BY <1>2, <1>5, <2>1, GoesOnRequest
<1>7. \A g \in Fetches : fs[g] = IF g = f THEN r ELSE fetch[g]
  BY <1>3, FetchAt
<1>8. \A g \in Fetches : RequestInv(g, fs[g], Patience)
  BY <1>6, <1>7, FetchAt, NotLonger
<1>9. /\ DOMAIN fetch' = Fetches /\ fetch' = [g \in Fetches |-> fetch'[g]]
      /\ \A g \in Fetches : RequestInv(g, fetch'[g], 0) /\ fetch'[g].at = fs[g].at
  BY <1>4, <1>8, RenewedAll
<1>10. \A g \in Fetches : fetch'[g].at = fetch[g].at
  BY <1>1, <1>6, <1>7, <1>9, HeardAt
<1>11. QueueInv(active, waiting, fetch')
  BY <1>10, FetchAt, QueueSame
<1>12. PortInv' /\ faults' \in 0 .. MaxFaults /\ quiet' \in 0 .. Patience
  BY <1>1, PortsSame, Bounds DEF RInv
<1> QED BY <1>1, <1>9, <1>11, <1>12 DEF RInv

LEMMA BlockReadKeeps ==
  ASSUME BoundsArePositive, RInv, NEW f \in Fetches, BlockRead(f)
  PROVE  RInv'
<1>1. Heard(f) /\ Read(f) /\ UNCHANGED <<workerVars, faults>> /\ quiet' = 0
  BY DEF BlockRead
<1>2. PICK a, b : a = fetch[f].from + 1 /\ b = fetch[f].to
  OBVIOUS
<1>3. a \in Nat /\ b \in Nat /\ a <= b /\ b <= Size(f)
  BY <1>1, <1>2, HeardAt
<1>4. PICK r : r = IF a = b THEN [Fresh EXCEPT !.at = "done", !.kind = "READ"]
                   ELSE [Fresh EXCEPT !.at = "pull", !.kind = "READ", !.from = a, !.to = b]
  OBVIOUS
<1>5. PICK fs : fs = [fetch EXCEPT ![f] = r]
  OBVIOUS
<1>6. Released(RenewQueued(fs))
  BY <1>2, <1>4, <1>5 DEF BlockRead
<1>7. \A q : RequestInv(f, r, q)
  <2>1. CASE a = b
    BY <1>4, <2>1, EndedRequest
  <2>2. CASE a # b
    <3>1. r = Idle("pull", "READ", a, b)
      BY <1>4, <2>2, IdleBlock
    <3>2. a < b /\ "pull" \in At \ {"pending"}
      BY <1>3, <2>2 DEF At
    <3> QED BY <1>3, <3>1, <3>2, IdleRequest
  <2> QED BY <2>1, <2>2
<1>8. r.at \in {"done", "pull"}
  <2>1. CASE a = b
    BY <1>4, <2>1, EndedRequest
  <2>2. CASE a # b
    <3>1. r = Idle("pull", "READ", a, b)
      BY <1>4, <2>2, IdleBlock
    <3> QED BY <3>1 DEF Idle
  <2> QED BY <2>1, <2>2
<1>9. \A g \in Fetches : fs[g] = IF g = f THEN r ELSE fetch[g]
  BY <1>5, FetchAt
<1>10. \A g \in Fetches : RequestInv(g, fs[g], Patience)
  BY <1>7, <1>9, FetchAt, NotLonger
<1>11. PICK after : after = RenewQueued(fs)
  OBVIOUS
<1>12. /\ DOMAIN after = Fetches /\ after = [g \in Fetches |-> after[g]]
       /\ \A g \in Fetches : RequestInv(g, after[g], quiet') /\ after[g].at = fs[g].at
  BY <1>1, <1>10, <1>11, RenewedAll
<1>13. after[f].at \notin SlotAt \cup {"waiting"} /\ \A g \in Fetches \ {f} : after[g].at = fetch[g].at
  BY <1>8, <1>9, <1>12 DEF SlotAt
<1>14. Released(after) /\ QueueInv(active, waiting, fetch) /\ fetch[f].at \in SlotAt
  BY <1>1, <1>6, <1>11, FetchAt, HeardAt
<1> HIDE <1>11
<1>15. /\ QueueInv(active, waiting, fetch)'
       /\ DOMAIN fetch' = Fetches /\ fetch' = [g \in Fetches |-> fetch'[g]]
       /\ \A g \in Fetches : RequestInv(g, fetch'[g], quiet')
  BY <1>12, <1>13, <1>14, ReleasedKeeps
<1>16. PortInv' /\ faults' \in 0 .. MaxFaults /\ quiet' \in 0 .. Patience
  BY <1>1, PortsSame, Bounds DEF RInv
<1> QED BY <1>15, <1>16 DEF RInv
-------------------------------------------------------------------------------
(* Time runs only while nothing is due.                                        *)
LEMMA TickKeeps ==
  ASSUME BoundsArePositive, RInv, Tick
  PROVE  RInv'
<1>1. /\ UNCHANGED <<workerVars, active, waiting, faults>> /\ \A f \in Fetches : ~Due(f)
      /\ fetch' = [f \in Fetches |->
                     IF fetch[f].at = "pending" THEN [fetch[f] EXCEPT !.timer = fetch[f].timer - 1] ELSE fetch[f]]
  BY DEF Tick
<1>2. Patience \in Nat /\ quiet \in 0 .. Patience /\ quiet' = IF Patience <= quiet + 1 THEN Patience ELSE quiet + 1
  BY Bounds, FetchAt DEF Tick, Min2
<1>3. quiet' \in 0 .. Patience
  BY <1>2
<1>4. ASSUME NEW f \in Fetches
      PROVE  RequestInv(f, fetch'[f], quiet') /\ fetch'[f].at = fetch[f].at
  <2>1. PICK r : r = fetch[f]
    OBVIOUS
  <2>2. r \in Requests /\ Inside(f, r) /\ InTime(r, quiet)
    BY <2>1, FetchAt DEF RequestInv
  <2>3. CASE r.at = "pending"
    <3>1. r.timer \in 0 .. Patience /\ r.timer # 0
      BY <1>1, <2>1, <2>2, <2>3 DEF Due, Requests
    <3>2. PICK t : t = r.timer - 1
      OBVIOUS
    <3>3. t \in 0 .. Patience
      BY <1>2, <3>1, <3>2
    <3>4. fetch'[f] = [r EXCEPT !.timer = t]
      BY <1>1, <2>1, <2>3, <3>2
    <3>5. PICK s : s = [r EXCEPT !.timer = t]
      OBVIOUS
    <3>6. /\ s \in Requests /\ s.at = r.at /\ s.kind = r.kind /\ s.from = r.from /\ s.to = r.to
          /\ s.timer = t /\ s.admitted = r.admitted
      BY <2>2, <3>3, <3>5 DEF Requests
    <3>7. Inside(f, s)
      BY <2>2, <3>6 DEF Inside
    <3>8. InTime(s, quiet')
      <4> SUFFICES ASSUME s.kind = "READ", ~s.admitted PROVE t + quiet' >= Patience
        BY <3>6 DEF InTime
      <4>1. r.timer + quiet >= Patience
        BY <2>2, <2>3, <3>6 DEF InTime
      <4> QED BY <1>2, <3>1, <3>2, <4>1
    <3> QED BY <2>1, <3>4, <3>5, <3>6, <3>7, <3>8 DEF RequestInv
  <2>4. CASE r.at # "pending"
    <3>1. fetch'[f] = r
      BY <1>1, <2>1, <2>4
    <3>2. InTime(r, quiet')
      BY <2>4 DEF InTime
    <3> QED BY <2>1, <2>2, <3>1, <3>2 DEF RequestInv
  <2> QED BY <2>3, <2>4
<1>5. QueueInv(active, waiting, fetch')
  BY <1>4, FetchAt, QueueSame
<1>6. DOMAIN fetch' = Fetches /\ fetch' = [f \in Fetches |-> fetch'[f]]
  BY <1>1
<1>7. PortInv' /\ faults' \in 0 .. MaxFaults
  BY <1>1, PortsSame DEF RInv
<1> QED BY <1>1, <1>3, <1>4, <1>5, <1>6, <1>7 DEF RInv

LEMMA WorkerStopsKeeps ==
  ASSUME BoundsArePositive, RInv, WorkerStops
  PROVE  RInv'
<1>1. /\ connection' = 0 /\ reconnecting' = 0 /\ late' = {} /\ dead' = 1 .. ports
      /\ active' = 0 /\ waiting' = <<>> /\ UNCHANGED <<ports, quiet>> /\ Fault
      /\ fetch' = [f \in Fetches |-> IF fetch[f].at \in {"new", "done", "failed"} THEN fetch[f]
                                     ELSE [Fresh EXCEPT !.at = "failed"]]
  BY DEF WorkerStops, NoPort
<1>2. ASSUME NEW f \in Fetches
      PROVE  RequestInv(f, fetch'[f], quiet) /\ fetch'[f].at \in {"new", "done", "failed"}
  <2>1. CASE fetch[f].at \in {"new", "done", "failed"}
    BY <1>1, <2>1, FetchAt
  <2>2. CASE fetch[f].at \notin {"new", "done", "failed"}
    <3>1. fetch'[f] = [Fresh EXCEPT !.at = "failed"]
      BY <1>1, <2>2
    <3> QED BY <3>1, EndedRequest
  <2> QED BY <2>1, <2>2
<1>3. Taken(fetch') = {} /\ \A f \in Fetches : fetch'[f].at # "waiting"
  BY <1>2 DEF Taken, SlotAt
<1>4. QueueInv(active', waiting', fetch')
  <2>1. active' = 0 /\ waiting' = <<>> /\ Len(waiting') = 0 /\ waiting' \in Seq(Fetches)
    BY <1>1
  <2>2. IsFiniteSet({}) /\ Cardinality({}) = 0
    BY FS_EmptySet
  <2>3. MaxActive \in Nat /\ MaxQueued \in Nat
    BY Bounds
  <2>4. Distinct(waiting') /\ \A f \in Fetches : ~Has(waiting', f)
    BY <2>1 DEF Distinct, Has
  <2> QED BY <1>3, <2>1, <2>2, <2>3, <2>4 DEF QueueInv
<1>5. DOMAIN fetch' = Fetches /\ fetch' = [f \in Fetches |-> fetch'[f]]
  BY <1>1
<1>6. PortInv'
  BY <1>1 DEF RInv, PortInv
<1>7. faults' \in 0 .. MaxFaults
  BY <1>1, Bounds DEF RInv, Fault
<1> QED BY <1>1, <1>2, <1>4, <1>5, <1>6, <1>7, FetchAt DEF RInv

LEMMA RStep ==
  ASSUME BoundsArePositive, RInv, [Next]_vars
  PROVE  RInv'
<1>1. ASSUME NEW f \in Fetches, Asks(f) \/ Worker(f) \/ Player(f) PROVE RInv'
  BY <1>1, AsksKeeps, SendsKeeps, ReconnectsKeeps, UnconnectedKeeps, ExpiresKeeps, ReadStartedKeeps,
     ReadProgressKeeps, StatAnsweredKeeps, BlockReadKeeps, ReadFailedKeeps DEF Worker, Player
<1>2. CASE Page
  BY <1>2, ReconnectedKeeps, GivenUpKeeps, PortsMove DEF Page
<1>3. CASE Tick \/ PortDies \/ WorkerStops
  BY <1>3, TickKeeps, PortsMove, WorkerStopsKeeps
<1>4. CASE UNCHANGED vars
  BY <1>4 DEF vars, RInv, PortInv
<1> QED BY <1>1, <1>2, <1>3, <1>4 DEF Next

LEMMA RAlways ==
  ASSUME BoundsArePositive
  PROVE  Spec => []RInv
<1>1. Init => RInv
  BY RInit
<1>2. RInv /\ [Next]_vars => RInv'
  BY RStep
<1> QED BY <1>1, <1>2, PTL DEF Spec
-------------------------------------------------------------------------------
(* What the invariant says of the properties.                                  *)

LEMMA SaysNoReadGivenUpEarly ==
  ASSUME BoundsArePositive, RInv
  PROVE  NoReadGivenUpEarly
<1> SUFFICES ASSUME NEW f \in Fetches, Due(f), Read(f), ~fetch[f].admitted
             PROVE  quiet >= Patience
  BY DEF NoReadGivenUpEarly
<1>1. InTime(fetch[f], quiet) /\ quiet \in 0 .. Patience /\ Patience \in Nat
  BY FetchAt, Bounds DEF RequestInv
<1>2. fetch[f].at = "pending" /\ fetch[f].kind = "READ" /\ fetch[f].timer = 0
  BY DEF Due, Read
<1>3. 0 + quiet >= Patience
  BY <1>1, <1>2 DEF InTime
<1> QED BY <1>1, <1>3

LEMMA SaysSlotsAgree ==
  ASSUME BoundsArePositive, RInv
  PROVE  SlotsAgree
<1>1. QueueInv(active, waiting, fetch) /\ PortInv
  BY DEF RInv
<1>2. {f \in Fetches : Holds(f) \/ fetch[f].at = "unconnected"} = Taken(fetch)
  BY DEF Holds, Taken, SlotAt
<1>3. waiting \in Seq(Fetches) /\ DOMAIN waiting = 1 .. Len(waiting)
      /\ \A i \in 1 .. Len(waiting) : waiting[i] \in Fetches
  BY <1>1, LenProperties, ElementOfSeq DEF QueueInv
<1>4. {waiting[i] : i \in DOMAIN waiting} = {f \in Fetches : fetch[f].at = "waiting"}
  BY <1>1, <1>3 DEF QueueInv, Has
<1>5. IsInjective(waiting)
  BY <1>1, <1>3 DEF QueueInv, Distinct, IsInjective
<1>6. \A f \in Fetches : fetch[f].from <= fetch[f].to /\ fetch[f].to <= Size(f)
  BY FetchAt DEF RequestInv, Inside
<1> QED BY <1>1, <1>2, <1>4, <1>5, <1>6 DEF SlotsAgree, QueueInv, PortInv
===============================================================================
