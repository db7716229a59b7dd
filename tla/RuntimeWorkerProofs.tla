-------------------------- MODULE RuntimeWorkerProofs --------------------------
(***************************************************************************)
(* Whoever releases a lease, the counters of its lane are those of the      *)
(* leases that are alive, a call waits only while every slot is taken, and   *)
(* what Node executes holds a slot: for every number of calls, lanes, slots,  *)
(* bytes, processes and faults.                                            *)
(*                                                                         *)
(*   LaneInv  the queue and the counters of a lane are those of its leases    *)
(*   CallInv  where a call is tells what its lease may be                    *)
(*   ProcInv  what a process has pending, is losing, has to write and         *)
(*            executes is of calls that hold a slot                         *)
(***************************************************************************)
EXTENDS RuntimeWorker, SequenceTheorems, FiniteSetTheorems, TLAPS

(* The calls of a lane with such a lease.                                      *)
Of(l, leases, states) == {c \in In(l) : leases[c] \in states}

(* No call waits twice, whether one waits, and those that wait first.            *)
Distinct(q) == \A i, j \in 1 .. Len(q) : q[i] = q[j] => i = j
Has(q, c) == \E i \in 1 .. Len(q) : q[i] = c
Firsts(q, n) == {q[i] : i \in 1 .. n}

(* The queue of a lane and its busy slots are those of some leases.             *)
Fair(l, w, busy, leases) ==
  /\ w \in Seq(In(l))
  /\ Distinct(w)
  /\ \A c \in In(l) : leases[c] = "queued" <=> Has(w, c)
  /\ busy = Cardinality(Of(l, leases, {"running"})) /\ busy <= Concurrency[l]

LaneInv(l) ==
  /\ Fair(l, queue[l], active[l], lease)
  /\ queue[l] # <<>> => active[l] = Concurrency[l]
  /\ admission[l] = Cardinality(Of(l, lease, Holding)) /\ admission[l] <= Capacity[l]
  /\ bytes[l] = Cardinality(BytesOf(Of(l, lease, {"queued", "running"}))) /\ bytes[l] <= Budget

Lasting == {"send", "response", "done"}
Kept(p) == pending[p] \cup dying[p]
CallInv(c) ==
  /\ pc[c] = "idle" => lease[c] = "none"
  /\ pc[c] \in {"encode", "enqueue"} => lease[c] = "held"
  /\ pc[c] = "wait" => lease[c] \in {"queued", "running"}
  /\ pc[c] \in {"start", "register"} => lease[c] = "running"
  /\ pc[c] \in Lasting => lease[c] \in {"running", "released"}
  /\ pc[c] \in {"register", "send", "response"} => process[c] \in Processes /\ state[process[c]] # "unused"
  /\ pc[c] = "send" /\ state[process[c]] # "killed" => c \in Kept(process[c])

Requests(p) == {i \in 1 .. Len(writes[p]) : writes[p][i].kind = "request"}
Answerable(p, c) == c \in Kept(p) /\ pc[c] \in {"response", "done"}
ProcInv(p) ==
  /\ pending[p] # {} => state[p] = "running"
  /\ dying[p] # {} => Failed(p)
  /\ \A c \in Kept(p) : process[c] = p /\ pc[c] \in Lasting /\ lease[c] = "running"
  /\ \A c \in executing[p] : Answerable(p, c)
  /\ \A i \in Requests(p) : Answerable(p, writes[p][i].call) /\ writes[p][i].call \notin executing[p]
  /\ \A i, j \in Requests(p) : writes[p][i].call = writes[p][j].call => i = j
  /\ state[p] = "killed" => writes[p] = <<>> /\ executing[p] = {}

Leases ==
  /\ lease \in [Calls -> LeaseState] /\ queue \in [Lanes -> Seq(Calls)]
  /\ active \in [Lanes -> Nat] /\ bytes \in [Lanes -> Nat] /\ admission \in [Lanes -> Nat]
RestOfCalls ==
  /\ pc \in [Calls -> CallPC] /\ expired \in SUBSET Calls
  /\ process \in [Calls -> Processes \cup {NoProcess}]
  /\ answer \in [Calls -> {"none", "result", "failure"}]
  /\ encoding \in [Lanes -> Calls \cup {NoCall}] /\ \A l \in Lanes : encoding[l] \in In(l) \cup {NoCall}
  /\ closed \in BOOLEAN /\ faults \in 0..MaxFaults
RestOfProcesses ==
  /\ current \in Processes \cup {NoProcess} /\ state \in [Processes -> ProcessState]
  /\ pending \in [Processes -> SUBSET Calls] /\ dying \in [Processes -> SUBSET Calls]
  /\ executing \in [Processes -> SUBSET Calls]
  /\ writes \in [Processes -> Seq(Message)] /\ \A p \in Processes : Len(writes[p]) <= WriteBuffer
LanesInv == Leases /\ \A l \in Lanes : LaneInv(l)
CurrentInv == current # NoProcess => state[current] \in {"running", "failed"}

WInv ==
  /\ LanesInv /\ RestOfCalls /\ RestOfProcesses /\ CurrentInv
  /\ \A c \in Calls : CallInv(c)
  /\ \A p \in Processes : ProcInv(p)
-----------------------------------------------------------------------------
(* Sets of calls.                                                              *)

LEMMA OfIsFinite ==
  ASSUME IsFiniteSet(Calls), NEW l, NEW leases, NEW states
  PROVE  IsFiniteSet(Of(l, leases, states)) /\ Cardinality(Of(l, leases, states)) \in Nat
<1>1. Of(l, leases, states) \subseteq Calls
  BY DEF Of, In
<1>2. IsFiniteSet(Of(l, leases, states))
  BY <1>1, FS_Subset
<1> QED BY <1>2, FS_CardinalityType

LEMMA OneMore ==
  ASSUME NEW A, IsFiniteSet(A), NEW c, c \notin A
  PROVE  IsFiniteSet(A \cup {c}) /\ Cardinality(A \cup {c}) = Cardinality(A) + 1
BY FS_AddElement

LEMMA OneLess ==
  ASSUME NEW A, IsFiniteSet(A), NEW c \in A
  PROVE  IsFiniteSet(A \ {c}) /\ Cardinality(A \ {c}) = Cardinality(A) - 1
BY FS_RemoveElement

LEMMA UnitsOf ==
  ASSUME NEW c, NEW n \in Nat
  PROVE  IsFiniteSet({c} \X (1..n)) /\ Cardinality({c} \X (1..n)) = n
<1>1. IsFiniteSet({c}) /\ Cardinality({c}) = 1
  BY FS_Singleton
<1>2. IsFiniteSet(1..n) /\ Cardinality(1..n) = n
  BY FS_Interval
<1>3. PICK A, B : A = {c} /\ B = 1..n
  OBVIOUS
<1>4. IsFiniteSet(A \X B) /\ Cardinality(A \X B) = Cardinality(A) * Cardinality(B)
  BY <1>1, <1>2, <1>3, FS_Product
<1> QED BY <1>1, <1>2, <1>3, <1>4

(* The bytes of finitely many calls are finitely many, and those of one more add up. *)
LEMMA BytesFinite ==
  ASSUME Size \in [Calls -> Nat \ {0}], NEW A \in SUBSET Calls, IsFiniteSet(A)
  PROVE  IsFiniteSet(BytesOf(A)) /\ Cardinality(BytesOf(A)) \in Nat
<1> DEFINE U == {{c} \X (1..Size[c]) : c \in A}
<1>1. IsFiniteSet(U)
  <2>1. PICK f : f = [c \in A |-> {c} \X (1..Size[c])]
    OBVIOUS
  <2>2. f \in Surjection(A, U)
    BY <2>1 DEF Surjection
  <2> HIDE DEF U
  <2> QED BY <2>2, FS_Surjection
<1>2. ASSUME NEW u \in U PROVE IsFiniteSet(u)
  <2>1. PICK c \in A : u = {c} \X (1..Size[c])
    OBVIOUS
  <2>2. Size[c] \in Nat
    OBVIOUS
  <2> QED BY <2>1, <2>2, UnitsOf
<1> HIDE DEF U
<1>3. IsFiniteSet(UNION U)
  BY <1>1, <1>2, FS_UNION
<1>4. BytesOf(A) = UNION U
  BY DEF BytesOf, U
<1> QED BY <1>3, <1>4, FS_CardinalityType

LEMMA BytesAdd ==
  ASSUME Size \in [Calls -> Nat \ {0}], NEW A \in SUBSET Calls, IsFiniteSet(A), NEW c \in Calls, c \notin A
  PROVE  Cardinality(BytesOf(A \cup {c})) = Cardinality(BytesOf(A)) + Size[c]
<1> DEFINE B == BytesOf(A)
           U == {c} \X (1..Size[c])
<1>1. IsFiniteSet(B) /\ IsFiniteSet(U) /\ Cardinality(U) = Size[c] /\ Cardinality(B) \in Nat
  BY BytesFinite, UnitsOf
<1>2. B \cap U = {}
  BY DEF BytesOf
<1>3. BytesOf(A \cup {c}) = B \cup U
  BY DEF BytesOf
<1> HIDE DEF B, U
<1>4. Cardinality(B \cup U) = Cardinality(B) + Cardinality(U) - Cardinality(B \cap U)
  BY <1>1, FS_Union
<1>5. Cardinality(B \cap U) = 0
  BY <1>2, FS_EmptySet
<1>6. Cardinality(B \cup U) = Cardinality(B) + Size[c]
  BY <1>1, <1>4, <1>5
<1> QED BY <1>3, <1>6 DEF B

-----------------------------------------------------------------------------
(* Queues.                                                                     *)

LEMMA Deleted ==
  ASSUME NEW S, NEW q \in Seq(S), NEW k \in 1 .. Len(q)
  PROVE  /\ Delete(q, k) \in Seq(S) /\ Len(Delete(q, k)) = Len(q) - 1
         /\ \A i \in 1 .. Len(q) - 1 : Delete(q, k)[i] = q[IF i < k THEN i ELSE i + 1]
<1>1. Len(q) \in Nat /\ Len(q) - 1 \in Nat /\ \A i \in 1 .. Len(q) : q[i] \in S
  BY LenProperties, ElementOfSeq
<1>2. Delete(q, k) \in [1 .. Len(q) - 1 -> S]
  BY <1>1 DEF Delete
<1>3. Delete(q, k) \in Seq(S)
  BY <1>1, <1>2
<1>4. Len(Delete(q, k)) = Len(q) - 1
  BY <1>1, <1>3, LenProperties DEF Delete
<1> QED BY <1>3, <1>4 DEF Delete

(* A queue without one of its calls.                                           *)
LEMMA DeletedHolds ==
  ASSUME NEW S, NEW q \in Seq(S), NEW k \in 1 .. Len(q), Distinct(q),
         NEW w, w = Delete(q, k)
  PROVE  /\ w \in Seq(S) /\ Distinct(w)
         /\ \A c : Has(w, c) <=> c # q[k] /\ Has(q, c)
<1> DEFINE at(i) == IF i < k THEN i ELSE i + 1
<1>1. Len(q) \in Nat /\ w \in Seq(S) /\ Len(w) = Len(q) - 1 /\ \A i \in 1 .. Len(q) - 1 : w[i] = q[at(i)]
  BY Deleted, LenProperties
<1>2. \A i \in 1 .. Len(q) - 1 : at(i) \in 1 .. Len(q) /\ at(i) # k
  BY <1>1
<1>3. \A i, j \in 1 .. Len(q) - 1 : at(i) = at(j) => i = j
  BY <1>1
<1>4. \A j \in 1 .. Len(q) : j # k => \E i \in 1 .. Len(q) - 1 : at(i) = j
  <2> SUFFICES ASSUME NEW j \in 1 .. Len(q), j # k PROVE \E i \in 1 .. Len(q) - 1 : at(i) = j
    OBVIOUS
  <2>1. CASE j < k
    <3>1. j \in 1 .. Len(q) - 1 /\ at(j) = j
      BY <1>1, <2>1
    <3> QED BY <3>1
  <2>2. CASE j > k
    <3>1. j - 1 \in 1 .. Len(q) - 1 /\ at(j - 1) = j
      BY <1>1, <2>2
    <3> QED BY <3>1
  <2> QED BY <1>1, <2>1, <2>2
<1> HIDE DEF at
<1>5. Distinct(w)
  <2> SUFFICES ASSUME NEW i \in 1 .. Len(w), NEW j \in 1 .. Len(w), w[i] = w[j] PROVE i = j
    BY DEF Distinct
  <2>1. q[at(i)] = q[at(j)] /\ at(i) \in 1 .. Len(q) /\ at(j) \in 1 .. Len(q)
    BY <1>1, <1>2
  <2>2. at(i) = at(j)
    BY <2>1 DEF Distinct
  <2> QED BY <1>1, <1>3, <2>2
<1>6. \A c : Has(w, c) => c # q[k] /\ Has(q, c)
  <2> SUFFICES ASSUME NEW c, NEW i \in 1 .. Len(w), w[i] = c PROVE c # q[k] /\ Has(q, c)
    BY DEF Has
  <2>1. at(i) \in 1 .. Len(q) /\ at(i) # k /\ q[at(i)] = c
    BY <1>1, <1>2
  <2> QED BY <2>1 DEF Has, Distinct
<1>7. \A c : c # q[k] /\ Has(q, c) => Has(w, c)
  <2> SUFFICES ASSUME NEW c, c # q[k], NEW j \in 1 .. Len(q), q[j] = c PROVE Has(w, c)
    BY DEF Has
  <2>1. PICK i \in 1 .. Len(q) - 1 : at(i) = j
    BY <1>4
  <2>2. i \in 1 .. Len(w) /\ w[i] = c
    BY <1>1, <2>1
  <2> QED BY <2>2 DEF Has
<1> QED BY <1>1, <1>5, <1>6, <1>7

(* The first calls of a queue, and the others.                                 *)
After(w, n) == SubSeq(w, n + 1, Len(w))
Remains(w, first, others) == Distinct(others) /\ \A c : Has(others, c) <=> c \notin first /\ Has(w, c)

LEMMA Cut ==
  ASSUME NEW S, NEW w \in Seq(S), Distinct(w), NEW n \in 0 .. Len(w),
         NEW first, first = Firsts(w, n), NEW others, others = After(w, n)
  PROVE  /\ IsFiniteSet(first) /\ Cardinality(first) = n
         /\ others \in Seq(S) /\ Len(others) = Len(w) - n
         /\ Remains(w, first, others)
<1>0. first = Firsts(w, n) /\ others = SubSeq(w, n + 1, Len(w))
  BY DEF After
<1>1. Len(w) \in Nat /\ n \in Nat /\ n <= Len(w) /\ \A i \in 1 .. Len(w) : w[i] \in S
  BY LenProperties, ElementOfSeq
<1>2. IsFiniteSet(first) /\ Cardinality(first) = n
  <2>1. PICK f : f = [i \in 1 .. n |-> w[i]]
    OBVIOUS
  <2>2. \A i \in 1 .. n : i \in 1 .. Len(w)
    BY <1>1
  <2>3. f \in Bijection(1 .. n, first)
    <3>1. f \in [1 .. n -> first]
      BY <2>1 DEF Firsts
    <3>2. \A i, j \in 1 .. n : f[i] = f[j] => i = j
      BY <2>1, <2>2 DEF Distinct
    <3>3. \A c \in first : \E i \in 1 .. n : f[i] = c
      BY <2>1 DEF Firsts
    <3> QED BY <3>1, <3>2, <3>3 DEF Bijection, Injection, Surjection, IsInjective
  <2>4. IsFiniteSet(1 .. n) /\ Cardinality(1 .. n) = n
    BY <1>1, FS_Interval
  <2>5. ExistsBijection(1 .. n, first)
    BY <2>3 DEF ExistsBijection
  <2> QED BY <2>4, <2>5, FS_Bijection
<1> DEFINE m == n + 1
           k == Len(w)
<1>3. /\ others \in Seq(S) /\ Len(others) = Len(w) - n
      /\ \A i \in 1 .. Len(w) - n : others[i] = w[n + i]
  <2>1. m \in Int /\ k \in Int /\ \A i \in m .. k : w[i] \in S
    BY <1>1
  <2>2. others = SubSeq(w, m, k)
    BY <1>0
  <2> HIDE DEF m, k
  <2>3. /\ SubSeq(w, m, k) \in Seq(S)
        /\ Len(SubSeq(w, m, k)) = (IF m <= k THEN k - m + 1 ELSE 0)
        /\ \A i \in 1 .. k - m + 1 : SubSeq(w, m, k)[i] = w[m + i - 1]
    BY <2>1, SubSeqProperties
  <2> QED BY <1>1, <2>2, <2>3 DEF m, k
<1>4. \A i \in 1 .. Len(w) - n : n + i \in 1 .. Len(w) /\ n + i \notin 1 .. n
  BY <1>1
<1>5. \A i \in 1 .. n : i \in 1 .. Len(w)
  BY <1>1
<1>6. \A i \in 1 .. Len(w) : i \notin 1 .. n => i - n \in 1 .. Len(w) - n /\ n + (i - n) = i
  BY <1>1
<1>7. Distinct(others)
  <2> SUFFICES ASSUME NEW i \in 1 .. Len(others), NEW j \in 1 .. Len(others), others[i] = others[j] PROVE i = j
    BY DEF Distinct
  <2>1. w[n + i] = w[n + j] /\ n + i \in 1 .. Len(w) /\ n + j \in 1 .. Len(w)
    BY <1>3, <1>4
  <2>2. n + i = n + j
    BY <2>1 DEF Distinct
  <2> QED BY <1>1, <1>3, <2>2
<1>8. ASSUME NEW c, NEW i \in 1 .. Len(others), others[i] = c
      PROVE  c \notin first /\ Has(w, c)
  <2>1. n + i \in 1 .. Len(w) /\ n + i \notin 1 .. n /\ w[n + i] = c
    BY <1>3, <1>4, <1>8
  <2>2. \A j \in 1 .. n : w[j] # c
    BY <1>5, <2>1 DEF Distinct
  <2> QED BY <2>1, <2>2 DEF Has, Firsts
<1>9. ASSUME NEW c, c \notin first, NEW i \in 1 .. Len(w), w[i] = c
      PROVE  Has(others, c)
  <2>1. i \notin 1 .. n
    BY <1>9 DEF Firsts
  <2>2. i - n \in 1 .. Len(others) /\ others[i - n] = c
    BY <1>3, <1>6, <1>9, <2>1
  <2> QED BY <2>2 DEF Has
<1>10. ASSUME NEW c PROVE Has(others, c) <=> c \notin first /\ Has(w, c)
  BY <1>8, <1>9 DEF Has
<1> QED BY <1>2, <1>3, <1>7, <1>10 DEF Remains

-----------------------------------------------------------------------------
(* Lanes.                                                                      *)

LEMMA Sizes ==
  ASSUME RuntimeAssumption
  PROVE  /\ IsFiniteSet(Calls) /\ LaneOf \in [Calls -> Lanes] /\ Size \in [Calls -> Nat \ {0}]
         /\ Concurrency \in [Lanes -> Nat] /\ Capacity \in [Lanes -> Nat] /\ Budget \in Nat
BY DEF RuntimeAssumption

(* The other lanes see nothing of it.                                          *)
LEMMA LaneSame ==
  ASSUME NEW m \in Lanes, LaneInv(m), \A c \in In(m) : lease'[c] = lease[c],
         queue'[m] = queue[m], active'[m] = active[m], bytes'[m] = bytes[m], admission'[m] = admission[m]
  PROVE  LaneInv(m)'
<1>1. \A states : Of(m, lease', states) = Of(m, lease, states)
  BY DEF Of
<1>2. Fair(m, queue[m], active[m], lease)
  BY DEF LaneInv
<1>3. Fair(m, queue'[m], active'[m], lease')
  BY <1>1, <1>2 DEF Fair
<1> QED BY <1>1, <1>3 DEF LaneInv

(* Calls that waited may have started.                                         *)
Onward(old, l, c) == lease'[c] = old[c] \/ (LaneOf[c] = l /\ old[c] = "queued" /\ lease'[c] = "running")

LEMMA Dispatched ==
  ASSUME RuntimeAssumption, Leases, NEW l \in Lanes, NEW w, NEW busy, NEW old, old \in [Calls -> LeaseState],
         Fair(l, w, busy, old), Dispatch(l, w, busy, old)
  PROVE  /\ lease' \in [Calls -> LeaseState] /\ queue' \in [Lanes -> Seq(Calls)] /\ active' \in [Lanes -> Nat]
         /\ Fair(l, queue'[l], active'[l], lease') /\ (queue'[l] # <<>> => active'[l] = Concurrency[l])
         /\ \A m \in Lanes \ {l} : queue'[m] = queue[m] /\ active'[m] = active[m]
         /\ \A c \in Calls : Onward(old, l, c)
<1>1. /\ w \in Seq(In(l)) /\ w \in Seq(Calls) /\ Len(w) \in Nat /\ \A i \in 1 .. Len(w) : w[i] \in In(l)
      /\ Distinct(w)
      /\ \A c \in In(l) : old[c] = "queued" <=> Has(w, c)
  <2>1. w \in Seq(In(l)) /\ In(l) \subseteq Calls
    BY DEF Fair, In
  <2>2. w \in Seq(Calls)
    BY <2>1, SeqMonotonic
  <2>3. Len(w) \in Nat /\ \A i \in 1 .. Len(w) : w[i] \in In(l)
    BY <2>1, LenProperties, ElementOfSeq
  <2> QED BY <2>1, <2>2, <2>3 DEF Fair
<1>2. Concurrency[l] \in Nat /\ busy \in Nat /\ busy <= Concurrency[l] /\ IsFiniteSet(Calls)
      /\ busy = Cardinality(Of(l, old, {"running"}))
  <2>1. Concurrency[l] \in Nat /\ IsFiniteSet(Calls)
    BY Sizes
  <2> QED BY <2>1, OfIsFinite DEF Fair
<1>3. PICK n : n = IF Concurrency[l] - busy < Len(w) THEN Concurrency[l] - busy ELSE Len(w)
  OBVIOUS
<1>4. n \in 0 .. Len(w) /\ busy + n \in Nat /\ busy + n <= Concurrency[l] /\ (n # Len(w) => busy + n = Concurrency[l])
  BY <1>1, <1>2, <1>3
<1>5. PICK first, others : first = Firsts(w, n) /\ others = After(w, n)
  OBVIOUS
<1>6. /\ queue' = [queue EXCEPT ![l] = others] /\ active' = [active EXCEPT ![l] = busy + n]
      /\ lease' = [c \in Calls |-> IF c \in first THEN "running" ELSE old[c]]
  BY <1>3, <1>5 DEF Dispatch, Firsts, After
<1>7. /\ IsFiniteSet(first) /\ Cardinality(first) = n
      /\ others \in Seq(In(l)) /\ Len(others) = Len(w) - n
      /\ Distinct(others)
      /\ \A c : Has(others, c) <=> c \notin first /\ Has(w, c)
  <2>1. w \in Seq(In(l))
    BY <1>1
  <2>2. Distinct(w)
    BY <1>1
  <2>3. n \in 0 .. Len(w)
    BY <1>4
  <2>4. first = Firsts(w, n)
    BY <1>5
  <2>5. others = After(w, n)
    BY <1>5
  <2>6. PICK S : S = In(l)
    OBVIOUS
  <2>7. w \in Seq(S)
    BY <2>1, <2>6
  <2>8. IsFiniteSet(first) /\ Cardinality(first) = n
    BY <2>2, <2>3, <2>4, <2>5, <2>7, Cut
  <2>9. others \in Seq(S) /\ Len(others) = Len(w) - n
    BY <2>2, <2>3, <2>4, <2>5, <2>7, Cut
  <2>10. Remains(w, first, others)
    BY <2>2, <2>3, <2>4, <2>5, <2>7, Cut
  <2> QED BY <2>6, <2>8, <2>9, <2>10 DEF Remains
<1>8. others \in Seq(Calls)
  <2>1. In(l) \subseteq Calls
    BY DEF In
  <2> QED BY <1>7, <2>1, SeqMonotonic
<1>9. /\ queue'[l] = others /\ active'[l] = busy + n /\ queue' \in [Lanes -> Seq(Calls)] /\ active' \in [Lanes -> Nat]
      /\ \A m \in Lanes \ {l} : queue'[m] = queue[m] /\ active'[m] = active[m]
  BY <1>4, <1>6, <1>8 DEF Leases
<1>10. \A c \in first : c \in In(l) /\ old[c] = "queued"
  <2>1. \A i \in 1 .. n : i \in 1 .. Len(w)
    BY <1>1, <1>4
  <2>2. \A c \in first : \E i \in 1 .. n : w[i] = c
    BY <1>5 DEF Firsts
  <2> QED BY <1>1, <2>1, <2>2 DEF Has
<1>11. lease' \in [Calls -> LeaseState] /\ \A c \in Calls : Onward(old, l, c)
  BY <1>6, <1>10 DEF LeaseState, Onward, In
<1>12. Of(l, lease', {"running"}) = Of(l, old, {"running"}) \cup first
  BY <1>6, <1>10 DEF Of, In
<1>13. Of(l, old, {"running"}) \cap first = {}
  BY <1>10 DEF Of
<1>14. Cardinality(Of(l, lease', {"running"})) = busy + n
  <2>1. PICK A : A = Of(l, old, {"running"})
    OBVIOUS
  <2>2. IsFiniteSet(A) /\ Cardinality(A) = busy /\ A \cap first = {}
    BY <1>2, <1>13, <2>1, OfIsFinite
  <2>3. Cardinality(A \cup first) = Cardinality(A) + Cardinality(first) - Cardinality(A \cap first)
    BY <1>7, <2>2, FS_Union
  <2>4. Cardinality(A \cap first) = 0
    BY <2>2, FS_EmptySet
  <2>5. Of(l, lease', {"running"}) = A \cup first
    BY <1>12, <2>1
  <2>6. Cardinality(A \cup first) = busy + n
    BY <1>2, <1>4, <1>7, <2>2, <2>3, <2>4
  <2> QED BY <2>5, <2>6
<1>15. \A c \in In(l) : lease'[c] = "queued" <=> Has(others, c)
  <2>1. \A c \in In(l) : c \in Calls
    BY DEF In
  <2>2. \A c \in In(l) : lease'[c] = "queued" <=> c \notin first /\ old[c] = "queued"
    BY <1>6, <2>1
  <2> QED BY <1>1, <1>7, <2>2
<1>16. Fair(l, queue'[l], active'[l], lease')
  BY <1>4, <1>7, <1>9, <1>14, <1>15 DEF Fair
<1>17. queue'[l] # <<>> => active'[l] = Concurrency[l]
  <2>1. n = Len(w) => Len(others) = 0
    BY <1>1, <1>7
  <2>2. Len(others) = 0 => others = <<>>
    BY <1>7, EmptySeq
  <2> QED BY <1>4, <1>9, <2>1, <2>2
<1> QED BY <1>9, <1>11, <1>16, <1>17

(* The waiting calls without one.                                              *)
LEMMA WithoutFair ==
  ASSUME RuntimeAssumption, Leases, NEW c \in Calls, NEW l, l = LaneOf[c], LaneInv(l), lease[c] \in Holding,
         NEW old, old = [lease EXCEPT ![c] = "released"]
  PROVE  Fair(l, Without(c), active[l] - (IF lease[c] = "running" THEN 1 ELSE 0), old)
<1>1. /\ l \in Lanes /\ c \in In(l) /\ IsFiniteSet(Calls) /\ Concurrency[l] \in Nat
      /\ old \in [Calls -> LeaseState] /\ old[c] = "released" /\ \A d \in Calls \ {c} : old[d] = lease[d]
  BY Sizes DEF In, Leases, LeaseState
<1>2. PICK q : q = queue[l]
  OBVIOUS
<1>3. /\ q \in Seq(In(l)) /\ Len(q) \in Nat /\ DOMAIN q = 1 .. Len(q)
      /\ Distinct(q)
      /\ \A d \in In(l) : lease[d] = "queued" <=> Has(q, d)
      /\ active[l] = Cardinality(Of(l, lease, {"running"})) /\ active[l] <= Concurrency[l] /\ active[l] \in Nat
  <2>1. Fair(l, q, active[l], lease)
    BY <1>2 DEF LaneInv
  <2>2. q \in Seq(In(l))
    BY <2>1 DEF Fair
  <2>3. Len(q) \in Nat /\ DOMAIN q = 1 .. Len(q)
    BY <2>2, LenProperties
  <2> QED BY <1>1, <2>1, <2>3 DEF Fair, Leases
<1>4. /\ Without(c) \in Seq(In(l))
      /\ Distinct(Without(c))
      /\ \A d : Has(Without(c), d) <=> d # c /\ Has(q, d)
  <2>1. CASE Places(c) = {}
    <3>1. Without(c) = q
      BY <1>2, <2>1 DEF Without
    <3>2. ~Has(q, c)
      BY <1>2, <1>3, <2>1 DEF Places, Has
    <3> QED BY <1>3, <3>1, <3>2
  <2>2. CASE Places(c) # {}
    <3>1. PICK k \in 1 .. Len(q) : q[k] = c /\ Without(c) = Delete(q, k)
      <4>1. (CHOOSE i \in Places(c) : TRUE) \in Places(c)
        BY <2>2
      <4> QED BY <1>2, <1>3, <2>2, <4>1 DEF Without, Places
    <3>2. PICK w : w = Without(c)
      OBVIOUS
    <3>3. /\ w \in Seq(In(l)) /\ Distinct(w)
          /\ \A d : Has(w, d) <=> d # q[k] /\ Has(q, d)
      <4>1. q \in Seq(In(l)) /\ k \in 1 .. Len(q)
        BY <1>3, <3>1
      <4>2. Distinct(q)
        BY <1>3
      <4>3. w = Delete(q, k)
        BY <3>1, <3>2
      <4> QED BY <4>1, <4>2, <4>3, DeletedHolds
    <3> QED BY <3>1, <3>2, <3>3
  <2> QED BY <2>1, <2>2
<1>5. \A d \in In(l) : old[d] = "queued" <=> d # c /\ lease[d] = "queued"
  BY <1>1 DEF In
<1>6. PICK busy : busy = active[l] - (IF lease[c] = "running" THEN 1 ELSE 0)
  OBVIOUS
<1>7. busy = Cardinality(Of(l, old, {"running"})) /\ busy <= Concurrency[l]
  <2>1. CASE lease[c] = "running"
    <3>1. PICK A : A = Of(l, lease, {"running"})
      OBVIOUS
    <3>2. c \in A /\ Of(l, old, {"running"}) = A \ {c}
      BY <1>1, <2>1, <3>1 DEF Of, In
    <3>3. IsFiniteSet(A)
      BY <1>1, <3>1, OfIsFinite
    <3>4. Cardinality(A \ {c}) = Cardinality(A) - 1
      BY <3>2, <3>3, OneLess
    <3>5. busy = active[l] - 1
      BY <1>6, <2>1
    <3>6. active[l] = Cardinality(A) /\ active[l] \in Nat /\ active[l] <= Concurrency[l] /\ Concurrency[l] \in Nat
      BY <1>1, <1>3, <3>1
    <3>7. busy = Cardinality(A \ {c}) /\ busy <= Concurrency[l]
      BY <3>4, <3>5, <3>6
    <3> QED BY <3>2, <3>7
  <2>2. CASE lease[c] # "running"
    <3>1. Of(l, old, {"running"}) = Of(l, lease, {"running"})
      BY <1>1, <2>2 DEF Of, In
    <3> QED BY <1>3, <1>6, <2>2, <3>1
  <2> QED BY <2>1, <2>2
<1> QED BY <1>3, <1>4, <1>5, <1>6, <1>7 DEF Fair

(* What a step does to the leases: those of the lane of a call move on, and the lanes stay fair. *)
LanesMove(c, after) ==
  /\ Leases' /\ \A l \in Lanes : LaneInv(l)'
  /\ lease'[c] \in after
  /\ \A d \in Calls \ {c} : Onward(lease, LaneOf[c], d)

(* Starting a call that waits changes neither what holds the lane nor what it has accepted. *)
LEMMA OnwardCounts ==
  ASSUME NEW l \in Lanes, NEW old, \A d \in In(l) : Onward(old, l, d)
  PROVE  /\ Of(l, lease', Holding) = Of(l, old, Holding)
         /\ Of(l, lease', {"queued", "running"}) = Of(l, old, {"queued", "running"})
BY DEF Of, Onward, Holding

LEMMA OthersSame ==
  ASSUME RuntimeAssumption, NEW l \in Lanes, NEW old, NEW c \in Calls, l = LaneOf[c],
         \A d \in Calls : Onward(old, l, d), \A d \in Calls \ {c} : old[d] = lease[d],
         NEW m \in Lanes \ {l}, LaneInv(m), queue'[m] = queue[m], active'[m] = active[m],
         bytes'[m] = bytes[m], admission'[m] = admission[m]
  PROVE  LaneInv(m)'
<1>1. \A d \in In(m) : lease'[d] = lease[d]
  BY DEF In, Onward
<1> QED BY <1>1, LaneSame

LEMMA Released ==
  ASSUME RuntimeAssumption, Leases, \A l \in Lanes : LaneInv(l), NEW c \in Calls, lease[c] \in Holding, Release(c)
  PROVE  LanesMove(c, {"released"})
<1>1. PICK l, old, w, busy : /\ l = LaneOf[c] /\ old = [lease EXCEPT ![c] = "released"] /\ w = Without(c)
                            /\ busy = active[l] - (IF lease[c] = "running" THEN 1 ELSE 0)
  OBVIOUS
<1>2. /\ l \in Lanes /\ c \in In(l) /\ LaneInv(l) /\ IsFiniteSet(Calls)
      /\ old \in [Calls -> LeaseState] /\ old[c] = "released" /\ \A d \in Calls \ {c} : old[d] = lease[d]
  BY <1>1, Sizes DEF In, Leases, LeaseState
<1>3. Fair(l, w, busy, old)
  BY <1>1, <1>2, WithoutFair
<1>4. /\ Dispatch(l, w, busy, old)
      /\ bytes' = [bytes EXCEPT ![l] = @ - (IF lease[c] = "held" THEN 0 ELSE Size[c])]
      /\ admission' = [admission EXCEPT ![l] = @ - 1]
  BY <1>1 DEF Release
<1>5. /\ lease' \in [Calls -> LeaseState] /\ queue' \in [Lanes -> Seq(Calls)] /\ active' \in [Lanes -> Nat]
      /\ Fair(l, queue'[l], active'[l], lease') /\ (queue'[l] # <<>> => active'[l] = Concurrency[l])
      /\ \A m \in Lanes \ {l} : queue'[m] = queue[m] /\ active'[m] = active[m]
      /\ \A d \in Calls : Onward(old, l, d)
  BY <1>2, <1>3, <1>4, Dispatched
<1>6. /\ Of(l, lease', Holding) = Of(l, old, Holding)
      /\ Of(l, lease', {"queued", "running"}) = Of(l, old, {"queued", "running"})
  <2>1. \A d \in In(l) : Onward(old, l, d)
    BY <1>5 DEF In
  <2> QED BY <1>2, <2>1, OnwardCounts
<1>7. /\ admission'[l] = Cardinality(Of(l, lease', Holding)) /\ admission'[l] <= Capacity[l]
      /\ admission' \in [Lanes -> Nat]
  <2>1. PICK A : A = Of(l, lease, Holding)
    OBVIOUS
  <2>2. c \in A /\ Of(l, old, Holding) = A \ {c}
    BY <1>2, <2>1 DEF Of, In, Holding
  <2>3. IsFiniteSet(A)
    BY <1>2, <2>1, OfIsFinite
  <2>4. Cardinality(A \ {c}) = Cardinality(A) - 1 /\ Cardinality(A \ {c}) \in Nat
    BY <2>2, <2>3, OneLess, FS_CardinalityType
  <2>5. admission[l] = Cardinality(A) /\ admission[l] <= Capacity[l] /\ Capacity[l] \in Nat /\ admission[l] \in Nat
    BY <1>2, <2>1, Sizes DEF LaneInv, Leases
  <2>6. admission'[l] = admission[l] - 1
    BY <1>2, <1>4 DEF Leases
  <2>7. admission'[l] = Cardinality(A \ {c}) /\ admission'[l] <= Capacity[l] /\ admission'[l] \in Nat
    BY <2>4, <2>5, <2>6
  <2>8. admission' \in [Lanes -> Nat]
    BY <1>2, <1>4, <2>7 DEF Leases
  <2> QED BY <1>6, <2>2, <2>7, <2>8
<1>8. /\ bytes'[l] = Cardinality(BytesOf(Of(l, lease', {"queued", "running"}))) /\ bytes'[l] <= Budget
      /\ bytes' \in [Lanes -> Nat]
  <2>1. PICK A, B : A = Of(l, lease, {"queued", "running"}) /\ B = Of(l, old, {"queued", "running"})
    OBVIOUS
  <2>2. bytes[l] = Cardinality(BytesOf(A)) /\ bytes[l] <= Budget /\ bytes[l] \in Nat /\ Budget \in Nat
        /\ Size[c] \in Nat
    BY <1>2, <2>1, Sizes DEF LaneInv, Leases
  <2>3. IsFiniteSet(B) /\ B \in SUBSET Calls /\ c \notin B
    <3>1. IsFiniteSet(B)
      BY <1>2, <2>1, OfIsFinite
    <3> QED BY <1>2, <2>1, <3>1 DEF Of, In
  <2>4. Cardinality(BytesOf(B)) \in Nat
    BY <2>3, Sizes, BytesFinite
  <2>5. bytes'[l] = Cardinality(BytesOf(B))
    <3>1. CASE lease[c] = "held"
      <4>1. A = B
        BY <1>2, <2>1, <3>1 DEF Of, In, Holding
      <4>2. bytes'[l] = bytes[l] - 0
        BY <1>2, <1>4, <3>1 DEF Leases
      <4> QED BY <2>2, <4>1, <4>2
    <3>2. CASE lease[c] # "held"
      <4>1. A = B \cup {c}
        BY <1>2, <2>1, <3>2 DEF Of, In, Holding
      <4>2. bytes'[l] = bytes[l] - Size[c]
        BY <1>2, <1>4, <3>2 DEF Leases
      <4>3. Cardinality(BytesOf(A)) = Cardinality(BytesOf(B)) + Size[c]
        BY <2>3, <4>1, Sizes, BytesAdd
      <4> QED BY <2>2, <2>4, <4>2, <4>3
    <3> QED BY <3>1, <3>2
  <2>6. bytes'[l] <= Budget
    <3>1. bytes'[l] <= bytes[l]
      BY <1>2, <1>4, <2>2 DEF Leases
    <3> QED BY <2>2, <2>4, <2>5, <3>1
  <2>7. bytes' \in [Lanes -> Nat]
    BY <1>2, <1>4, <2>4, <2>5 DEF Leases
  <2> QED BY <1>6, <2>1, <2>5, <2>6, <2>7
<1>9. LaneInv(l)'
  BY <1>5, <1>7, <1>8 DEF LaneInv
<1>10. ASSUME NEW m \in Lanes \ {l} PROVE LaneInv(m)'
  <2>1. bytes'[m] = bytes[m] /\ admission'[m] = admission[m]
    BY <1>4 DEF Leases
  <2>2. LaneInv(m) /\ queue'[m] = queue[m] /\ active'[m] = active[m]
    BY <1>5
  <2> QED BY <1>1, <1>2, <1>5, <2>1, <2>2, OthersSame
<1>11. Leases'
  BY <1>5, <1>7, <1>8 DEF Leases
<1>12. lease'[c] = "released"
  BY <1>2, <1>5 DEF Onward
<1>13. \A d \in Calls \ {c} : Onward(lease, LaneOf[c], d)
  BY <1>1, <1>2, <1>5 DEF Onward
<1> QED BY <1>9, <1>10, <1>11, <1>12, <1>13 DEF LanesMove

(* A lane does not see a lease that neither waits nor holds a slot change.      *)
LEMMA FairSame ==
  ASSUME NEW c, NEW l, NEW old, \A d \in In(l) \ {c} : old[d] = lease[d],
         lease[c] \notin {"queued", "running"}, old[c] \notin {"queued", "running"},
         Fair(l, queue[l], active[l], lease)
  PROVE  Fair(l, queue[l], active[l], old)
<1>1. Of(l, old, {"running"}) = Of(l, lease, {"running"})
  BY DEF Of
<1>2. \A d \in In(l) : old[d] = "queued" <=> lease[d] = "queued"
  OBVIOUS
<1> QED BY <1>1, <1>2 DEF Fair

LEMMA Reserved ==
  ASSUME RuntimeAssumption, Leases, \A l \in Lanes : LaneInv(l), NEW c \in Calls, lease[c] = "none",
         NEW l, l = LaneOf[c], admission[l] < Capacity[l], admission' = [admission EXCEPT ![l] = @ + 1],
         lease' = [lease EXCEPT ![c] = "held"], UNCHANGED <<queue, active, bytes>>
  PROVE  LanesMove(c, {"held"})
<1>1. /\ l \in Lanes /\ c \in In(l) /\ LaneInv(l) /\ IsFiniteSet(Calls)
      /\ lease' \in [Calls -> LeaseState] /\ lease'[c] = "held" /\ \A d \in Calls \ {c} : lease'[d] = lease[d]
  BY Sizes DEF In, Leases, LeaseState
<1>2. Fair(l, queue[l], active[l], lease')
  <2>1. \A d \in In(l) \ {c} : lease'[d] = lease[d]
    BY <1>1 DEF In
  <2>2. Fair(l, queue[l], active[l], lease)
    BY <1>1 DEF LaneInv
  <2>3. PICK new : new = lease'
    OBVIOUS
  <2>4. Fair(l, queue[l], active[l], new)
    BY <1>1, <2>1, <2>2, <2>3, FairSame
  <2> QED BY <2>3, <2>4
<1>3. /\ admission'[l] = Cardinality(Of(l, lease', Holding)) /\ admission'[l] <= Capacity[l]
      /\ admission' \in [Lanes -> Nat]
  <2>1. PICK A : A = Of(l, lease, Holding)
    OBVIOUS
  <2>2. c \notin A /\ Of(l, lease', Holding) = A \cup {c}
    BY <1>1, <2>1 DEF Of, Holding, In
  <2>3. IsFiniteSet(A)
    BY <1>1, <2>1, OfIsFinite
  <2>4. Cardinality(A \cup {c}) = Cardinality(A) + 1
    BY <2>2, <2>3, OneMore
  <2>5. admission[l] = Cardinality(A) /\ Capacity[l] \in Nat /\ admission[l] \in Nat
    BY <1>1, <2>1, Sizes DEF LaneInv, Leases
  <2>6. admission'[l] = admission[l] + 1
    BY <1>1 DEF Leases
  <2>7. admission'[l] = Cardinality(A \cup {c}) /\ admission'[l] <= Capacity[l] /\ admission'[l] \in Nat
    BY <2>4, <2>5, <2>6
  <2>8. admission' \in [Lanes -> Nat]
    BY <1>1, <2>7 DEF Leases
  <2> QED BY <2>2, <2>7, <2>8
<1>4. LaneInv(l)'
  <2>1. Of(l, lease', {"queued", "running"}) = Of(l, lease, {"queued", "running"})
    BY <1>1 DEF Of, In
  <2> QED BY <1>1, <1>2, <1>3, <2>1 DEF LaneInv
<1>5. ASSUME NEW m \in Lanes \ {l} PROVE LaneInv(m)'
  <2>1. bytes'[m] = bytes[m] /\ admission'[m] = admission[m] /\ queue'[m] = queue[m] /\ active'[m] = active[m]
    BY DEF Leases
  <2>2. \A d \in In(m) : lease'[d] = lease[d]
    BY <1>1 DEF In
  <2> QED BY <2>1, <2>2, LaneSame
<1>6. Leases'
  BY <1>1, <1>3 DEF Leases
<1>7. \A d \in Calls \ {c} : Onward(lease, LaneOf[c], d)
  BY <1>1 DEF Onward
<1> QED BY <1>1, <1>4, <1>5, <1>6, <1>7 DEF LanesMove

LEMMA Renewed ==
  ASSUME RuntimeAssumption, Leases, \A l \in Lanes : LaneInv(l), NEW c \in Calls, lease[c] = "released",
         lease' = [lease EXCEPT ![c] = "none"], UNCHANGED <<queue, active, bytes, admission>>
  PROVE  LanesMove(c, {"none"})
<1>1. /\ lease' \in [Calls -> LeaseState] /\ lease'[c] = "none" /\ \A d \in Calls \ {c} : lease'[d] = lease[d]
  BY DEF Leases, LeaseState
<1>2. ASSUME NEW l \in Lanes PROVE LaneInv(l)'
  <2>1. \A d \in In(l) \ {c} : lease'[d] = lease[d]
    BY <1>1 DEF In
  <2>2. Fair(l, queue[l], active[l], lease)
    BY DEF LaneInv
  <2>3. PICK new : new = lease'
    OBVIOUS
  <2>4. Fair(l, queue[l], active[l], new)
    BY <1>1, <2>1, <2>2, <2>3, FairSame
  <2>5. /\ Of(l, lease', Holding) = Of(l, lease, Holding)
        /\ Of(l, lease', {"queued", "running"}) = Of(l, lease, {"queued", "running"})
    BY <1>1, <2>1 DEF Of, Holding, In
  <2> QED BY <2>3, <2>4, <2>5 DEF LaneInv
<1>3. Leases'
  BY <1>1 DEF Leases
<1>4. \A d \in Calls \ {c} : Onward(lease, LaneOf[c], d)
  BY <1>1 DEF Onward
<1> QED BY <1>1, <1>2, <1>3, <1>4 DEF LanesMove

LEMMA Appended ==
  ASSUME NEW S, NEW q \in Seq(S), NEW c \in S, Distinct(q), ~Has(q, c), NEW w, w = Append(q, c)
  PROVE  /\ w \in Seq(S) /\ Distinct(w)
         /\ \A d : Has(w, d) <=> d = c \/ Has(q, d)
<1>1. /\ w \in Seq(S) /\ Len(w) = Len(q) + 1 /\ Len(q) \in Nat
      /\ w[Len(q) + 1] = c /\ \A i \in 1 .. Len(q) : w[i] = q[i]
  BY AppendProperties, LenProperties
<1>2. \A i \in 1 .. Len(w) : i \in 1 .. Len(q) \/ i = Len(q) + 1
  BY <1>1
<1>3. \A i \in 1 .. Len(q) : i \in 1 .. Len(w) /\ w[i] # c
  BY <1>1 DEF Has
<1>4. Distinct(w)
  BY <1>1, <1>2, <1>3 DEF Distinct
<1>5. Len(q) + 1 \in 1 .. Len(w)
  BY <1>1
<1>6. ASSUME NEW d PROVE Has(w, d) <=> d = c \/ Has(q, d)
  BY <1>1, <1>2, <1>3, <1>5 DEF Has
<1> QED BY <1>1, <1>4, <1>6

LEMMA Queued ==
  ASSUME RuntimeAssumption, Leases, \A l \in Lanes : LaneInv(l), NEW c \in Calls, lease[c] = "held",
         NEW l, l = LaneOf[c], Size[c] <= Budget - bytes[l],
         Dispatch(l, Append(queue[l], c), active[l], [lease EXCEPT ![c] = "queued"]),
         bytes' = [bytes EXCEPT ![l] = @ + Size[c]], UNCHANGED admission
  PROVE  LanesMove(c, {"queued", "running"})
<1>1. PICK old, w, q : /\ old = [lease EXCEPT ![c] = "queued"] /\ q = queue[l] /\ w = Append(q, c)
  OBVIOUS
<1>2. /\ l \in Lanes /\ c \in In(l) /\ LaneInv(l) /\ IsFiniteSet(Calls)
      /\ old \in [Calls -> LeaseState] /\ old[c] = "queued" /\ \A d \in Calls \ {c} : old[d] = lease[d]
  BY <1>1, Sizes DEF In, Leases, LeaseState
<1>3. /\ Fair(l, q, active[l], lease) /\ q \in Seq(In(l)) /\ Distinct(q) /\ ~Has(q, c)
  <2>1. Fair(l, q, active[l], lease)
    BY <1>1, <1>2 DEF LaneInv
  <2>2. q \in Seq(In(l)) /\ Distinct(q) /\ \A d \in In(l) : lease[d] = "queued" <=> Has(q, d)
    BY <2>1 DEF Fair
  <2> QED BY <1>2, <2>1, <2>2
<1>4. Fair(l, w, active[l], old)
  <2>1. w \in Seq(In(l)) /\ Distinct(w) /\ \A d : Has(w, d) <=> d = c \/ Has(q, d)
    <3>1. PICK S : S = In(l)
      OBVIOUS
    <3>2. q \in Seq(S) /\ c \in S /\ w = Append(q, c)
      BY <1>1, <1>2, <1>3, <3>1
    <3>3. Distinct(q) /\ ~Has(q, c)
      BY <1>3
    <3>4. w \in Seq(S)
      BY <3>2, AppendProperties
    <3>5. Distinct(w)
      BY <3>2, <3>3, Appended
    <3>6. \A d : Has(w, d) <=> d = c \/ Has(q, d)
      BY <3>2, <3>3, Appended
    <3> QED BY <3>1, <3>4, <3>5, <3>6
  <2>2. Of(l, old, {"running"}) = Of(l, lease, {"running"})
    BY <1>2 DEF Of, In
  <2>3. \A d \in In(l) : old[d] = "queued" <=> d = c \/ lease[d] = "queued"
    BY <1>2 DEF In
  <2>4. \A d \in In(l) : old[d] = "queued" <=> Has(w, d)
    BY <1>3, <2>1, <2>3 DEF Fair
  <2> QED BY <1>3, <2>1, <2>2, <2>4 DEF Fair
<1>5. /\ lease' \in [Calls -> LeaseState] /\ queue' \in [Lanes -> Seq(Calls)] /\ active' \in [Lanes -> Nat]
      /\ Fair(l, queue'[l], active'[l], lease') /\ (queue'[l] # <<>> => active'[l] = Concurrency[l])
      /\ \A m \in Lanes \ {l} : queue'[m] = queue[m] /\ active'[m] = active[m]
      /\ \A d \in Calls : Onward(old, l, d)
  <2>1. Dispatch(l, w, active[l], old)
    BY <1>1
  <2> QED BY <1>2, <1>4, <2>1, Dispatched
<1>6. /\ Of(l, lease', Holding) = Of(l, old, Holding)
      /\ Of(l, lease', {"queued", "running"}) = Of(l, old, {"queued", "running"})
  <2>1. \A d \in In(l) : Onward(old, l, d)
    BY <1>5 DEF In
  <2> QED BY <1>2, <2>1, OnwardCounts
<1>7. Of(l, old, Holding) = Of(l, lease, Holding)
  BY <1>2 DEF Of, In, Holding
<1>8. bytes'[l] = Cardinality(BytesOf(Of(l, lease', {"queued", "running"}))) /\ bytes'[l] <= Budget
      /\ bytes' \in [Lanes -> Nat]
  <2>1. PICK A : A = Of(l, lease, {"queued", "running"})
    OBVIOUS
  <2>2. bytes[l] = Cardinality(BytesOf(A)) /\ bytes[l] \in Nat /\ Budget \in Nat /\ Size[c] \in Nat
    BY <1>2, <2>1, Sizes DEF LaneInv, Leases
  <2>3. IsFiniteSet(A)
    BY <1>2, <2>1, OfIsFinite
  <2>4. A \in SUBSET Calls /\ c \notin A
    BY <2>1 DEF Of, In
  <2>5. Of(l, old, {"queued", "running"}) = A \cup {c}
    BY <1>2, <2>1 DEF Of, In
  <2>6. Cardinality(BytesOf(A \cup {c})) = Cardinality(BytesOf(A)) + Size[c]
    BY <2>3, <2>4, Sizes, BytesAdd
  <2>7. bytes'[l] = bytes[l] + Size[c]
    BY <1>2 DEF Leases
  <2>8. bytes'[l] = Cardinality(BytesOf(A \cup {c})) /\ bytes'[l] <= Budget /\ bytes'[l] \in Nat
    BY <2>2, <2>6, <2>7
  <2>9. bytes' \in [Lanes -> Nat]
    BY <1>2, <2>8 DEF Leases
  <2> QED BY <1>6, <2>5, <2>8, <2>9
<1>9. LaneInv(l)'
  BY <1>2, <1>5, <1>6, <1>7, <1>8 DEF LaneInv
<1>10. ASSUME NEW m \in Lanes \ {l} PROVE LaneInv(m)'
  <2>1. bytes'[m] = bytes[m] /\ admission'[m] = admission[m]
    BY DEF Leases
  <2>2. LaneInv(m) /\ queue'[m] = queue[m] /\ active'[m] = active[m]
    BY <1>5
  <2> QED BY <1>2, <1>5, <2>1, <2>2, OthersSame
<1>11. Leases'
  BY <1>5, <1>8 DEF Leases
<1>12. lease'[c] \in {"queued", "running"}
  BY <1>2, <1>5 DEF Onward
<1>13. \A d \in Calls \ {c} : Onward(lease, LaneOf[c], d)
  BY <1>2, <1>5 DEF Onward
<1> QED BY <1>9, <1>10, <1>11, <1>12, <1>13 DEF LanesMove

LEMMA LanesStay ==
  ASSUME Leases, \A l \in Lanes : LaneInv(l), UNCHANGED laneVars
  PROVE  Leases' /\ \A l \in Lanes : LaneInv(l)'
<1>1. Leases'
  BY DEF Leases, laneVars
<1>2. ASSUME NEW l \in Lanes PROVE LaneInv(l)'
  BY LaneSame DEF laneVars
<1> QED BY <1>1, <1>2

-----------------------------------------------------------------------------
(* Calls and processes.                                                        *)

(* A call that has its slot keeps it, and its request stays where it was.          *)
Lives(c) ==
  /\ process'[c] = process[c] /\ lease'[c] = "running" /\ pc'[c] \in Lasting
  /\ pc[c] \in {"response", "done"} => pc'[c] \in {"response", "done"}
SameProcess(p) ==
  /\ state'[p] = state[p] /\ pending'[p] = pending[p] /\ dying'[p] = dying[p]
  /\ writes'[p] = writes[p] /\ executing'[p] = executing[p]

LEMMA ProcSame ==
  ASSUME NEW p \in Processes, ProcInv(p), SameProcess(p), \A c \in Kept(p) : Lives(c)
  PROVE  ProcInv(p)'
<1>1. Kept(p)' = Kept(p) /\ Requests(p)' = Requests(p) /\ (Failed(p)' <=> Failed(p))
  BY DEF SameProcess, Kept, Requests, Failed
<1>2. \A c : Answerable(p, c) => Answerable(p, c)'
  BY <1>1 DEF Answerable, Lives
<1>3. \A c \in Kept(p) : process'[c] = p /\ pc'[c] \in Lasting /\ lease'[c] = "running"
  BY DEF Lives, ProcInv
<1> QED BY <1>1, <1>2, <1>3 DEF ProcInv, SameProcess

(* What a call that does nothing sees of its process.                            *)
Stays(c) ==
  \A p \in Processes : p = process[c] /\ pc[c] \in {"register", "send", "response"} =>
    /\ state'[p] # "unused"
    /\ state'[p] # "killed" => state[p] # "killed" /\ (c \in Kept(p) => c \in Kept(p)')

LEMMA CallSame ==
  ASSUME NEW c \in Calls, CallInv(c), pc'[c] = pc[c], process'[c] = process[c], Stays(c),
         NEW l, Onward(lease, l, c)
  PROVE  CallInv(c)'
<1>1. PICK p : p = process[c]
  OBVIOUS
<1>2. lease'[c] = lease[c] \/ (lease[c] = "queued" /\ lease'[c] = "running")
  BY DEF Onward
<1>3. /\ pc[c] \in {"register", "send", "response"} => process[c] \in Processes /\ state'[p] # "unused"
      /\ pc[c] = "send" /\ state'[p] # "killed" => c \in Kept(p)'
  BY <1>1 DEF CallInv, Stays
<1>4. /\ pc[c] = "idle" => lease'[c] = "none"
      /\ pc[c] \in {"encode", "enqueue"} => lease'[c] = "held"
      /\ pc[c] = "wait" => lease'[c] \in {"queued", "running"}
      /\ pc[c] \in {"start", "register"} => lease'[c] = "running"
      /\ pc[c] \in Lasting => lease'[c] \in {"running", "released"}
  BY <1>2 DEF CallInv
<1> QED BY <1>1, <1>3, <1>4 DEF CallInv, Kept

(* A step of some calls, at most, as the others and the processes see it.          *)
Move(calls, l) == \A d \in Calls \ calls : pc'[d] = pc[d] /\ process'[d] = process[d] /\ Onward(lease, l, d)

LEMMA CallsElse ==
  ASSUME WInv, NEW calls, NEW l, Move(calls, l), NEW c \in Calls \ calls, Stays(c)
  PROVE  CallInv(c)'
<1>1. CallInv(c)
  BY DEF WInv
<1> QED BY <1>1, CallSame DEF Move

LEMMA ProcElse ==
  ASSUME WInv, NEW calls, NEW l, Move(calls, l), NEW p \in Processes, SameProcess(p),
         \A c \in Kept(p) \cap calls : Lives(c)
  PROVE  ProcInv(p)'
<1>1. ProcInv(p) /\ Kept(p) \subseteq Calls
  BY DEF WInv, RestOfProcesses, Kept
<1>2. ASSUME NEW c \in Kept(p) \ calls PROVE Lives(c)
  BY <1>1 DEF Move, ProcInv, Lives, Onward
<1>3. \A c \in Kept(p) : Lives(c)
  BY <1>2
<1> QED BY <1>1, <1>3, ProcSame

(* Where a process changes in nothing, its calls see nothing.                      *)
LEMMA StaysSame ==
  ASSUME WInv, NEW c \in Calls, \A p \in Processes : SameProcess(p)
  PROVE  Stays(c)
<1>1. CallInv(c)
  BY DEF WInv
<1>2. ASSUME NEW p \in Processes PROVE state'[p] = state[p] /\ Kept(p)' = Kept(p)
  BY DEF SameProcess, Kept
<1>3. ASSUME NEW p \in Processes, p = process[c], pc[c] \in {"register", "send", "response"}
      PROVE  state[p] # "unused"
  BY <1>1, <1>3 DEF CallInv
<1> QED BY <1>2, <1>3 DEF Stays

LEMMA OneCallMoves ==
  ASSUME WInv, NEW c \in Calls, NEW l, Move({c}, l), \A p \in Processes : SameProcess(p), CallInv(c)',
         \A p \in Processes : c \in Kept(p) => Lives(c)
  PROVE  (\A d \in Calls : CallInv(d)') /\ \A p \in Processes : ProcInv(p)'
<1>1. ASSUME NEW d \in Calls \ {c} PROVE CallInv(d)'
  BY StaysSame, CallsElse
<1>2. ASSUME NEW p \in Processes PROVE ProcInv(p)'
  <2>1. PICK calls : calls = {c}
    OBVIOUS
  <2>2. Move(calls, l) /\ \A d \in Kept(p) \cap calls : Lives(d)
    BY <2>1
  <2> QED BY <2>2, ProcElse
<1> QED BY <1>1, <1>2

LEMMA Unkept ==
  ASSUME WInv, NEW c \in Calls, pc[c] \notin Lasting \/ lease[c] # "running", NEW p \in Processes
  PROVE  c \notin Kept(p)
BY DEF WInv, ProcInv

(* A call has left without a request to the process.                              *)
LEMMA EndsEarly ==
  ASSUME RuntimeAssumption, WInv, NEW c \in Calls, pc[c] \in {"encode", "enqueue", "wait", "start", "register"},
         Release(c), Goto(c, "done"), UNCHANGED <<process, processVars>>
  PROVE  LanesInv' /\ CurrentInv' /\ (\A d \in Calls : CallInv(d)') /\ \A p \in Processes : ProcInv(p)'
<1>1. lease[c] \in Holding /\ Leases /\ \A l \in Lanes : LaneInv(l)
  BY DEF WInv, CallInv, Holding, LanesInv
<1>2. LanesMove(c, {"released"})
  BY <1>1, Released
<1>3. LanesInv' /\ lease'[c] = "released" /\ \A d \in Calls \ {c} : Onward(lease, LaneOf[c], d)
  BY <1>2 DEF LanesMove, LanesInv
<1>4. pc'[c] = "done" /\ (\A d \in Calls \ {c} : pc'[d] = pc[d])
  BY DEF Goto, WInv, RestOfCalls
<1>5. Move({c}, LaneOf[c])
  BY <1>3, <1>4 DEF Move
<1>6. \A p \in Processes : SameProcess(p) /\ c \notin Kept(p)
  BY Unkept DEF processVars, SameProcess, Lasting
<1>7. CallInv(c)'
  BY <1>3, <1>4 DEF CallInv, Lasting
<1>8. CurrentInv'
  BY DEF WInv, CurrentInv, processVars
<1> QED BY <1>3, <1>5, <1>6, <1>7, <1>8, OneCallMoves

-----------------------------------------------------------------------------
(* The steps of a call.                                                        *)

LEMMA LeaveKeeps ==
  ASSUME RuntimeAssumption, WInv, NEW c \in Calls, pc[c] \in {"encode", "enqueue", "wait", "start"},
         Leave(c), faults' \in 0..MaxFaults
  PROVE  WInv'
<1>1. LanesInv' /\ CurrentInv' /\ (\A d \in Calls : CallInv(d)') /\ \A p \in Processes : ProcInv(p)'
  BY EndsEarly DEF Leave
<1>2. RestOfCalls'
  BY DEF Leave, Goto, WInv, RestOfCalls, CallPC
<1>3. RestOfProcesses'
  BY DEF Leave, WInv, RestOfProcesses, processVars
<1> QED BY <1>1, <1>2, <1>3 DEF WInv

LEMMA ReserveKeeps ==
  ASSUME RuntimeAssumption, WInv, NEW c \in Calls, Reserve(c)
  PROVE  WInv'
<1>1. LanesMove(c, {"held"})
  <2>1. lease[c] = "none" /\ Leases /\ \A l \in Lanes : LaneInv(l)
    BY DEF Reserve, WInv, CallInv, LanesInv
  <2> QED BY <2>1, Reserved DEF Reserve
<1>2. LanesInv' /\ lease'[c] = "held" /\ \A d \in Calls \ {c} : Onward(lease, LaneOf[c], d)
  BY <1>1 DEF LanesMove, LanesInv
<1>3. pc[c] = "idle" /\ pc'[c] = "encode" /\ (\A d \in Calls \ {c} : pc'[d] = pc[d])
  BY DEF Reserve, Goto, WInv, RestOfCalls
<1>4. Move({c}, LaneOf[c])
  BY <1>2, <1>3 DEF Move, Reserve
<1>5. \A p \in Processes : SameProcess(p) /\ c \notin Kept(p)
  BY <1>3, Unkept DEF Reserve, processVars, SameProcess, Lasting
<1>6. CallInv(c)'
  BY <1>2, <1>3 DEF CallInv, Lasting
<1>7. (\A d \in Calls : CallInv(d)') /\ \A p \in Processes : ProcInv(p)'
  BY <1>4, <1>5, <1>6, OneCallMoves
<1>8. RestOfCalls' /\ RestOfProcesses' /\ CurrentInv'
  BY DEF Reserve, Goto, WInv, RestOfCalls, RestOfProcesses, CurrentInv, CallPC, processVars
<1> QED BY <1>2, <1>7, <1>8 DEF WInv

(* Steps that change neither a lease nor a process.                             *)
LEMMA QuietKeeps ==
  ASSUME WInv, NEW c \in Calls, UNCHANGED <<laneVars, processVars>>, RestOfCalls', process'[c] = process[c],
         \A d \in Calls \ {c} : pc'[d] = pc[d] /\ process'[d] = process[d],
         \/ pc'[c] = pc[c] \/ (pc[c] = "encode" /\ pc'[c] = "enqueue")
         \/ (pc[c] = "wait" /\ lease[c] = "running" /\ pc'[c] = "start")
         \/ (pc[c] = "response" /\ pc'[c] = "done")
  PROVE  WInv'
<1>1. LanesInv'
  BY LanesStay DEF WInv, LanesInv
<1>2. lease' = lease /\ \A p \in Processes : SameProcess(p)
  BY DEF laneVars, processVars, SameProcess
<1>3. Move({c}, LaneOf[c])
  BY <1>2 DEF Move, Onward
<1>4. CallInv(c)
  BY DEF WInv
<1>5. CallInv(c)'
  <2>1. CASE pc'[c] = pc[c]
    BY <1>2, <1>4, <2>1, StaysSame, CallSame DEF Onward
  <2>2. CASE pc'[c] # pc[c]
    BY <1>2, <1>4, <2>2 DEF CallInv, Lasting
  <2> QED BY <2>1, <2>2
<1>6. ASSUME NEW p \in Processes, c \in Kept(p) PROVE Lives(c)
  <2>1. pc[c] \in Lasting /\ lease[c] = "running"
    BY <1>6 DEF WInv, ProcInv
  <2> QED BY <1>2, <2>1 DEF Lives, Lasting
<1>7. (\A d \in Calls : CallInv(d)') /\ \A p \in Processes : ProcInv(p)'
  BY <1>2, <1>3, <1>5, <1>6, OneCallMoves
<1>8. RestOfProcesses' /\ CurrentInv'
  BY DEF WInv, RestOfProcesses, CurrentInv, processVars
<1> QED BY <1>1, <1>7, <1>8 DEF WInv

LEMMA QuietStepsKeep ==
  ASSUME WInv, NEW c \in Calls, TakeEncoder(c) \/ Wait(c) \/ Receive(c) \/ Expire(c)
  PROVE  WInv'
<1>1. RestOfCalls
  BY DEF WInv
<1>2. CASE TakeEncoder(c)
  <2>1. LaneOf[c] \in Lanes => c \in In(LaneOf[c])
    BY DEF In
  <2>2. RestOfCalls'
    BY <1>1, <1>2, <2>1 DEF TakeEncoder, Goto, RestOfCalls, CallPC
  <2>3. UNCHANGED <<laneVars, processVars, process>> /\ pc[c] = "encode" /\ pc'[c] = "enqueue" /\ \A d \in Calls \ {c} : pc'[d] = pc[d]
    BY <1>1, <1>2 DEF TakeEncoder, Goto, RestOfCalls
  <2> QED BY <2>2, <2>3, QuietKeeps
<1>3. CASE Wait(c)
  <2>2. RestOfCalls'
    BY <1>1, <1>3 DEF Wait, Goto, RestOfCalls, CallPC
  <2>3. UNCHANGED <<laneVars, processVars, process>> /\ pc[c] = "wait" /\ lease[c] = "running" /\ pc'[c] = "start" /\ \A d \in Calls \ {c} : pc'[d] = pc[d]
    BY <1>1, <1>3 DEF Wait, Goto, RestOfCalls
  <2> QED BY <2>2, <2>3, QuietKeeps
<1>4. CASE Receive(c)
  <2>2. RestOfCalls'
    BY <1>1, <1>4 DEF Receive, Goto, RestOfCalls, CallPC
  <2>3. UNCHANGED <<laneVars, processVars, process>> /\ pc[c] = "response" /\ pc'[c] = "done" /\ \A d \in Calls \ {c} : pc'[d] = pc[d]
    BY <1>1, <1>4 DEF Receive, Goto, RestOfCalls
  <2> QED BY <2>2, <2>3, QuietKeeps
<1>5. CASE Expire(c)
  <2>2. RestOfCalls'
    BY <1>1, <1>5 DEF Expire, RestOfCalls
  <2>3. UNCHANGED <<laneVars, processVars, process, pc>>
    BY <1>5 DEF Expire
  <2> QED BY <2>2, <2>3, QuietKeeps
<1> QED BY <1>2, <1>3, <1>4, <1>5

LEMMA FaultsStay ==
  ASSUME RuntimeAssumption, WInv, Fault \/ UNCHANGED faults
  PROVE  faults' \in 0..MaxFaults
BY DEF RuntimeAssumption, WInv, RestOfCalls, Fault

LEMMA GiveUpKeeps ==
  ASSUME RuntimeAssumption, WInv, NEW c \in Calls, GiveUp(c)
  PROVE  WInv'
<1>1. pc[c] \in {"encode", "enqueue", "wait", "start"} /\ Leave(c) /\ faults' \in 0..MaxFaults
  BY FaultsStay DEF GiveUp
<1> QED BY <1>1, LeaveKeeps

LEMMA EnqueueKeeps ==
  ASSUME RuntimeAssumption, WInv, NEW c \in Calls, Enqueue(c)
  PROVE  WInv'
<1>1. pc[c] = "enqueue" /\ faults' \in 0..MaxFaults
  BY FaultsStay DEF Enqueue
<1>2. CASE Leave(c)
  BY <1>1, <1>2, LeaveKeeps
<1>3. CASE /\ Size[c] <= Budget - bytes[LaneOf[c]]
           /\ Dispatch(LaneOf[c], Append(queue[LaneOf[c]], c), active[LaneOf[c]], [lease EXCEPT ![c] = "queued"])
           /\ bytes' = [bytes EXCEPT ![LaneOf[c]] = @ + Size[c]]
           /\ encoding' = [encoding EXCEPT ![LaneOf[c]] = NoCall]
           /\ Goto(c, "wait")
           /\ UNCHANGED <<expired, process, answer, admission, processVars, closed>>
  <2>1. LanesMove(c, {"queued", "running"})
    <3>1. lease[c] = "held" /\ Leases /\ \A l \in Lanes : LaneInv(l)
      BY <1>1 DEF WInv, CallInv, LanesInv
    <3> QED BY <1>3, <3>1, Queued
  <2>2. LanesInv' /\ lease'[c] \in {"queued", "running"} /\ \A d \in Calls \ {c} : Onward(lease, LaneOf[c], d)
    BY <2>1 DEF LanesMove, LanesInv
  <2>3. pc'[c] = "wait" /\ (\A d \in Calls \ {c} : pc'[d] = pc[d])
    BY <1>3 DEF Goto, WInv, RestOfCalls
  <2>4. Move({c}, LaneOf[c])
    BY <1>3, <2>2, <2>3 DEF Move
  <2>5. \A p \in Processes : SameProcess(p) /\ c \notin Kept(p)
    BY <1>1, <1>3, Unkept DEF processVars, SameProcess, Lasting
  <2>6. CallInv(c)'
    BY <2>2, <2>3 DEF CallInv, Lasting
  <2>7. (\A d \in Calls : CallInv(d)') /\ \A p \in Processes : ProcInv(p)'
    BY <2>4, <2>5, <2>6, OneCallMoves
  <2>8. RestOfCalls'
    BY <1>1, <1>3 DEF Goto, WInv, RestOfCalls, CallPC
  <2>9. RestOfProcesses' /\ CurrentInv'
    BY <1>3 DEF WInv, RestOfProcesses, CurrentInv, processVars
  <2> QED BY <2>2, <2>7, <2>8, <2>9 DEF WInv
<1> QED BY <1>2, <1>3 DEF Enqueue

LEMMA RegisterKeeps ==
  ASSUME RuntimeAssumption, WInv, NEW c \in Calls, Register(c)
  PROVE  WInv'
<1>1. pc[c] = "register" /\ UNCHANGED <<expired, process, answer, encoding, current, state, dying, writes, executing, closed, faults>>
  BY DEF Register
<1>2. CASE Release(c) /\ Goto(c, "done") /\ UNCHANGED pending
  <2>1. UNCHANGED <<process, processVars>>
    BY <1>1, <1>2 DEF processVars
  <2>2. LanesInv' /\ CurrentInv' /\ (\A d \in Calls : CallInv(d)') /\ \A p \in Processes : ProcInv(p)'
    BY <1>1, <1>2, <2>1, EndsEarly
  <2>3. RestOfCalls' /\ RestOfProcesses'
    BY <1>1, <1>2 DEF Goto, WInv, RestOfCalls, RestOfProcesses, CallPC
  <2> QED BY <2>2, <2>3 DEF WInv
<1>3. CASE /\ ~Failed(process[c]) /\ pending' = [pending EXCEPT ![process[c]] = @ \cup {c}]
           /\ Goto(c, "send") /\ UNCHANGED laneVars
  <2>1. PICK p : p = process[c]
    OBVIOUS
  <2>2. p \in Processes /\ state[p] = "running" /\ lease[c] = "running" /\ CallInv(c) /\ ProcInv(p)
    BY <1>1, <1>3, <2>1 DEF WInv, CallInv, Failed, RestOfProcesses, ProcessState
  <2>3. /\ pc'[c] = "send" /\ (\A d \in Calls \ {c} : pc'[d] = pc[d]) /\ lease' = lease /\ LanesInv'
        /\ pending'[p] = pending[p] \cup {c} /\ \A q \in Processes \ {p} : pending'[q] = pending[q]
    BY <1>3, <2>1, <2>2, LanesStay DEF Goto, WInv, RestOfCalls, RestOfProcesses, laneVars, LanesInv
  <2>4. Move({c}, LaneOf[c])
    BY <1>1, <2>3 DEF Move, Onward
  <2>5. Kept(p)' = Kept(p) \cup {c} /\ \A q \in Processes \ {p} : SameProcess(q) /\ Kept(q)' = Kept(q)
    BY <1>1, <2>3 DEF Kept, SameProcess
  <2>6. CallInv(c)'
    BY <1>1, <2>1, <2>2, <2>3 DEF CallInv, Lasting, Kept
  <2>7. ASSUME NEW d \in Calls \ {c} PROVE CallInv(d)'
    <3>1. Stays(d)
      BY <1>1, <2>5 DEF Stays, WInv, CallInv
    <3> QED BY <2>4, <3>1, CallsElse
  <2>8. ProcInv(p)'
    <3>1. Kept(p) \subseteq Calls
      BY <2>2 DEF WInv, RestOfProcesses, Kept
    <3>2. \A d : Answerable(p, d) => Answerable(p, d)'
      BY <1>1, <2>3, <2>5, <3>1 DEF Answerable
    <3>3. \A d \in Kept(p)' : process'[d] = p /\ pc'[d] \in Lasting /\ lease'[d] = "running"
      BY <1>1, <2>1, <2>2, <2>3, <2>5, <3>1 DEF ProcInv, Lasting
    <3>4. Requests(p)' = Requests(p) /\ (Failed(p)' <=> Failed(p))
      BY <1>1 DEF Requests, Failed
    <3>5. state'[p] = "running" /\ dying'[p] = dying[p] /\ writes'[p] = writes[p] /\ executing'[p] = executing[p]
      BY <1>1, <2>2
    <3> QED BY <2>2, <3>2, <3>3, <3>4, <3>5 DEF ProcInv
  <2>9. ASSUME NEW q \in Processes \ {p} PROVE ProcInv(q)'
    <3>1. c \notin Kept(q)
      BY <1>1, Unkept DEF Lasting
    <3> QED BY <2>4, <2>5, <3>1, ProcElse
  <2>10. RestOfCalls' /\ RestOfProcesses' /\ CurrentInv'
    BY <1>1, <1>3 DEF Goto, WInv, RestOfCalls, RestOfProcesses, CallPC, CurrentInv
  <2> QED BY <2>3, <2>6, <2>7, <2>8, <2>9, <2>10 DEF WInv
<1> QED BY <1>2, <1>3 DEF Register

(* A process that keeps its calls keeps their requests answerable.                 *)
LEMMA KeptLive ==
  ASSUME NEW p \in Processes, ProcInv(p), Kept(p)' = Kept(p), \A c \in Kept(p) : Lives(c)
  PROVE  /\ \A c \in Kept(p)' : process'[c] = p /\ pc'[c] \in Lasting /\ lease'[c] = "running"
         /\ \A c : Answerable(p, c) => Answerable(p, c)'
<1>1. \A c \in Kept(p) : process'[c] = p /\ pc'[c] \in Lasting /\ lease'[c] = "running"
  BY DEF ProcInv, Lives
<1>2. \A c : Answerable(p, c) => Answerable(p, c)'
  BY DEF Answerable, Lives
<1> QED BY <1>1, <1>2

(* A process without calls has no requests either.                               *)
LEMMA Spent ==
  ASSUME WInv, NEW p \in Processes, Kept(p) = {}
  PROVE  executing[p] = {} /\ Requests(p) = {}
BY DEF WInv, ProcInv, Answerable

LEMMA ProcEmpty ==
  ASSUME NEW p \in Processes, Kept(p)' = {}, executing'[p] = {}, Requests(p)' = {},
         state'[p] = "killed" => writes'[p] = <<>>
  PROVE  ProcInv(p)'
<1>1. pending'[p] = {} /\ dying'[p] = {}
  BY DEF Kept
<1> QED BY <1>1 DEF ProcInv

(* Some calls may have their answers.                                            *)
Finish(d) ==
  /\ process'[d] = process[d] /\ lease'[d] = lease[d]
  /\ pc'[d] = pc[d] \/ (pc[d] = "response" /\ pc'[d] = "done")

LEMMA Finishing ==
  ASSUME WInv, \A d \in Calls : Finish(d)
  PROVE  /\ \A d \in Calls : Stays(d) => CallInv(d)'
         /\ \A p \in Processes : \A d \in Kept(p) : Lives(d)
         /\ \A p \in Processes : SameProcess(p) => ProcInv(p)'
<1>1. ASSUME NEW d \in Calls, Stays(d) PROVE CallInv(d)'
  <2>1. CallInv(d)
    BY DEF WInv
  <2>2. CASE pc'[d] = pc[d]
    BY <1>1, <2>1, <2>2, CallSame DEF Finish, Onward
  <2>3. CASE pc[d] = "response" /\ pc'[d] = "done"
    BY <2>1, <2>3 DEF Finish, CallInv, Lasting
  <2> QED BY <2>2, <2>3 DEF Finish
<1>2. ASSUME NEW p \in Processes, NEW d \in Kept(p) PROVE Lives(d)
  <2>1. d \in Calls
    BY DEF WInv, RestOfProcesses, Kept
  <2>2. lease[d] = "running" /\ pc[d] \in Lasting
    BY DEF WInv, ProcInv
  <2> QED BY <2>1, <2>2 DEF Finish, Lives, Lasting
<1>3. ASSUME NEW p \in Processes, SameProcess(p) PROVE ProcInv(p)'
  <2>1. ProcInv(p)
    BY DEF WInv
  <2> QED BY <1>2, <1>3, <2>1, ProcSame
<1> QED BY <1>1, <1>2, <1>3

LEMMA FailsKeep ==
  ASSUME WInv, \A d \in Calls : Finish(d), NEW p \in Processes, state[p] = "running", MarkFailed(p),
         writes' = writes, executing' \in [Processes -> SUBSET Calls], executing'[p] \subseteq executing[p],
         \A q \in Processes \ {p} : executing'[q] = executing[q], current' = current
  PROVE  RestOfProcesses' /\ CurrentInv' /\ (\A d \in Calls : CallInv(d)') /\ \A q \in Processes : ProcInv(q)'
<1>1. ProcInv(p) /\ RestOfProcesses /\ dying[p] = {}
  BY DEF WInv, ProcInv, Failed
<1>2. /\ state' = [state EXCEPT ![p] = "failed"]
      /\ dying' = [dying EXCEPT ![p] = pending[p]]
      /\ pending' = [pending EXCEPT ![p] = {}]
  BY DEF MarkFailed
<1>3. state'[p] = "failed" /\ dying'[p] = pending[p] /\ pending'[p] = {} /\ Kept(p)' = Kept(p)
  BY <1>1, <1>2 DEF RestOfProcesses, Kept
<1>4. \A q \in Processes \ {p} : SameProcess(q) /\ Kept(q)' = Kept(q)
  BY <1>1, <1>2 DEF RestOfProcesses, SameProcess, Kept
<1>5. ASSUME NEW d \in Calls PROVE CallInv(d)'
  <2>1. Stays(d)
    BY <1>3, <1>4 DEF Stays, WInv, CallInv, SameProcess
  <2> QED BY <2>1, Finishing
<1>6. ProcInv(p)'
  <2>1. \A d \in Kept(p) : Lives(d)
    BY Finishing
  <2>2. /\ \A c \in Kept(p)' : process'[c] = p /\ pc'[c] \in Lasting /\ lease'[c] = "running"
        /\ \A c : Answerable(p, c) => Answerable(p, c)'
    BY <1>1, <1>3, <2>1, KeptLive
  <2>3. Requests(p)' = Requests(p) /\ Failed(p)'
    BY <1>3 DEF Requests, Failed
  <2> QED BY <1>1, <1>3, <2>2, <2>3 DEF ProcInv
<1>7. ASSUME NEW q \in Processes \ {p} PROVE ProcInv(q)'
  BY <1>4, Finishing
<1>8. RestOfProcesses'
  BY <1>1, <1>2 DEF RestOfProcesses, ProcessState
<1>9. CurrentInv'
  BY <1>1, <1>2 DEF WInv, CurrentInv, RestOfProcesses
<1> QED BY <1>5, <1>6, <1>7, <1>8, <1>9

LEMMA StartKeeps ==
  ASSUME RuntimeAssumption, RuntimeNames, WInv, NEW c \in Calls, Start(c)
  PROVE  WInv'
<1>1. pc[c] = "start"
  BY DEF Start
<1>2. CASE Leave(c) /\ (Fault \/ UNCHANGED faults)
  BY <1>1, <1>2, FaultsStay, LeaveKeeps
<1>3. CASE /\ ~closed
           /\ \/ current # NoProcess /\ UNCHANGED <<current, state>>
              \/ /\ current = NoProcess
                 /\ \E p \in Processes : /\ state[p] = "unused"
                                         /\ current' = p
                                         /\ state' = [state EXCEPT ![p] = "running"]
           /\ process' = [process EXCEPT ![c] = current']
           /\ Goto(c, "register")
           /\ UNCHANGED <<expired, answer, laneVars, encoding, pending, dying, writes, executing, closed, faults>>
  <2>1. PICK p \in Processes :
          /\ current' = p
          /\ \/ state' = state /\ state[p] \in {"running", "failed"}
             \/ state[p] = "unused" /\ state' = [state EXCEPT ![p] = "running"]
    BY <1>3 DEF WInv, CurrentInv, RestOfProcesses
  <2>2. state'[p] \in {"running", "failed"} /\ \A q \in Processes \ {p} : SameProcess(q) /\ Kept(q)' = Kept(q)
    BY <1>3, <2>1 DEF SameProcess, Kept, WInv, RestOfProcesses
  <2>3. \A q \in Processes : state'[q] = state[q] => SameProcess(q)
    BY <1>3 DEF SameProcess
  <2>4. /\ pc'[c] = "register" /\ process'[c] = p /\ lease' = lease /\ lease[c] = "running"
        /\ \A d \in Calls \ {c} : pc'[d] = pc[d] /\ process'[d] = process[d]
    BY <1>1, <1>3, <2>1 DEF Goto, WInv, RestOfCalls, CallInv, laneVars
  <2>5. Move({c}, LaneOf[c])
    BY <2>4 DEF Move, Onward
  <2>6. CallInv(c)'
    BY <2>1, <2>2, <2>4 DEF CallInv, Lasting
  <2>7. Kept(p)' = Kept(p)
    BY <1>3 DEF Kept
  <2>8. ASSUME NEW d \in Calls \ {c} PROVE CallInv(d)'
    <3>1. ASSUME NEW q \in Processes, q = process[d], pc[d] \in {"register", "send", "response"}
          PROVE  /\ state'[q] # "unused"
                 /\ state'[q] # "killed" => state[q] # "killed" /\ (d \in Kept(q) => d \in Kept(q)')
      <4>1. state[q] # "unused"
        BY <3>1 DEF WInv, CallInv
      <4> QED BY <2>1, <2>2, <2>7, <4>1 DEF SameProcess
    <3>2. Stays(d)
      BY <3>1 DEF Stays
    <3> QED BY <2>5, <3>2, CallsElse
  <2>9. \A q \in Processes : c \notin Kept(q)
    BY <1>1, Unkept DEF Lasting
  <2>10. ASSUME NEW q \in Processes PROVE ProcInv(q)'
    <3>1. CASE SameProcess(q)
      BY <2>5, <2>9, <3>1, ProcElse
    <3>2. CASE q = p /\ state[p] = "unused"
      <4>1. Kept(p) = {}
        BY <3>2 DEF Kept, WInv, ProcInv, Failed
      <4>2. executing[p] = {} /\ Requests(p) = {}
        BY <4>1, Spent
      <4>3. executing'[p] = {} /\ Requests(p)' = {}
        BY <1>3, <4>2 DEF Requests
      <4> QED BY <2>2, <2>7, <3>2, <4>1, <4>3, ProcEmpty
    <3>3. q = p /\ state[p] # "unused" => SameProcess(q)
      BY <2>1, <2>3
    <3> QED BY <2>2, <3>1, <3>2, <3>3
  <2>11. LanesInv'
    BY <1>3, LanesStay DEF WInv, LanesInv
  <2>12. RestOfCalls'
    BY <1>3, <2>1 DEF Goto, WInv, RestOfCalls, CallPC
  <2>13. RestOfProcesses' /\ CurrentInv'
    BY <1>3, <2>1, <2>2 DEF WInv, RestOfProcesses, CurrentInv, ProcessState
  <2> QED BY <2>6, <2>8, <2>10, <2>11, <2>12, <2>13 DEF WInv
<1> QED BY <1>2, <1>3 DEF Start

LEMMA SendKeeps ==
  ASSUME RuntimeAssumption, WInv, NEW c \in Calls, Send(c)
  PROVE  WInv'
<1>1. /\ pc[c] = "send" /\ Len(writes[process[c]]) < WriteBuffer
      /\ Put(process[c], [kind |-> "request", call |-> c]) /\ Goto(c, "response")
      /\ UNCHANGED <<expired, process, answer, laneVars, encoding, current, state, pending, dying, executing, closed, faults>>
  BY DEF Send
<1>2. PICK p, m : p = process[c] /\ m = [kind |-> "request", call |-> c]
  OBVIOUS
<1>3. p \in Processes /\ state[p] # "unused" /\ lease[c] \in {"running", "released"} /\ ProcInv(p) /\ writes[p] \in Seq(Message)
  BY <1>1, <1>2 DEF WInv, CallInv, Lasting, RestOfProcesses
<1>4. /\ pc'[c] = "response" /\ lease' = lease /\ LanesInv' /\ process' = process
      /\ \A d \in Calls \ {c} : pc'[d] = pc[d]
  BY <1>1, LanesStay DEF Goto, WInv, RestOfCalls, laneVars, LanesInv
<1>5. Move({c}, LaneOf[c])
  BY <1>4 DEF Move, Onward
<1>6. CallInv(c)'
  BY <1>1, <1>2, <1>3, <1>4 DEF CallInv, Lasting
<1>7. \A q \in Processes : Kept(q)' = Kept(q) /\ state'[q] = state[q]
  BY <1>1 DEF Kept
<1>8. ASSUME NEW d \in Calls \ {c} PROVE CallInv(d)'
  <2>1. Stays(d)
    BY <1>7 DEF Stays, WInv, CallInv
  <2> QED BY <1>5, <2>1, CallsElse
<1>9. \A q \in Processes : c \in Kept(q) => Lives(c)
  BY <1>1, <1>4 DEF Lives, WInv, ProcInv, Lasting
<1>10. writes' \in [Processes -> Seq(Message)] /\ (\A q \in Processes : Len(writes'[q]) <= WriteBuffer)
       /\ \A q \in Processes \ {p} : writes'[q] = writes[q]
  <2>1. m \in Message
    BY <1>2 DEF Message
  <2>2. Append(writes[p], m) \in Seq(Message) /\ Len(Append(writes[p], m)) = Len(writes[p]) + 1
    BY <1>3, <2>1, AppendProperties
  <2>3. Len(writes[p]) + 1 <= WriteBuffer
    <3>1. Len(writes[p]) \in Nat /\ WriteBuffer \in Nat
      BY <1>3, LenProperties DEF RuntimeAssumption
    <3> QED BY <1>1, <1>2, <3>1
  <2>4. writes' = writes \/ writes' = [writes EXCEPT ![p] = Append(writes[p], m)]
    BY <1>1, <1>2 DEF Put
  <2> QED BY <2>2, <2>3, <2>4 DEF WInv, RestOfProcesses
<1>11. ASSUME NEW q \in Processes PROVE ProcInv(q)'
  <2>1. CASE SameProcess(q)
    BY <1>5, <1>9, <2>1, ProcElse
  <2>2. CASE q = p /\ state[p] # "killed"
    <3>1. c \in Kept(p)
      BY <1>1, <1>2, <2>2 DEF WInv, CallInv
    <3>2. \A d \in Kept(p) : Lives(d)
      <4>1. Kept(p) \subseteq Calls
        BY <1>3 DEF WInv, RestOfProcesses, Kept
      <4>2. ASSUME NEW d \in Kept(p) \ {c} PROVE Lives(d)
        BY <1>3, <1>4, <4>1 DEF ProcInv, Lives
      <4> QED BY <1>9, <1>3, <4>2
    <3>3. /\ \A d \in Kept(p)' : process'[d] = p /\ pc'[d] \in Lasting /\ lease'[d] = "running"
          /\ \A d : Answerable(p, d) => Answerable(p, d)'
      BY <1>3, <1>7, <3>2, KeptLive
    <3>4. Answerable(p, c)' /\ c \notin executing[p] /\ \A i \in Requests(p) : writes[p][i].call # c
      BY <1>1, <1>3, <1>4, <1>7, <3>1 DEF Answerable, ProcInv
    <3>5. PICK n : n = Len(writes[p]) + 1
      OBVIOUS
    <3>6. /\ Len(writes'[p]) = n /\ writes'[p][n] = m /\ n \in Nat /\ n - 1 = Len(writes[p])
          /\ \A i \in 1 .. n - 1 : writes'[p][i] = writes[p][i]
      <4>1. writes'[p] = Append(writes[p], m)
        BY <1>1, <1>2, <1>3, <2>2 DEF Put, WInv, RestOfProcesses
      <4>2. m \in Message
        BY <1>2 DEF Message
      <4> QED BY <1>3, <3>5, <4>1, <4>2, AppendProperties, LenProperties
    <3>7. \A i \in Requests(p)' : i = n \/ (i \in Requests(p) /\ writes'[p][i] = writes[p][i])
      BY <3>6 DEF Requests
    <3>8. /\ \A i \in Requests(p)' : \A d : d = writes'[p][i].call => Answerable(p, d)' /\ d \notin executing[p]
          /\ \A i, j \in Requests(p)' : writes'[p][i].call = writes'[p][j].call => i = j
      <4>1. writes'[p][n].call = c
        BY <1>2, <3>6
      <4>2. ASSUME NEW i \in Requests(p), NEW d, d = writes[p][i].call PROVE Answerable(p, d)' /\ d \notin executing[p]
        BY <1>3, <3>3, <4>2 DEF ProcInv
      <4>3. \A i, j \in Requests(p) : writes[p][i].call = writes[p][j].call => i = j
        BY <1>3 DEF ProcInv
      <4>4. ASSUME NEW i \in Requests(p)', NEW d, d = writes'[p][i].call
            PROVE  Answerable(p, d)' /\ d \notin executing[p]
        BY <3>4, <3>7, <4>1, <4>2, <4>4
      <4>5. ASSUME NEW i \in Requests(p)', NEW j \in Requests(p)', writes'[p][i].call = writes'[p][j].call PROVE i = j
        BY <3>4, <3>7, <4>1, <4>3, <4>5
      <4> QED BY <4>4, <4>5
    <3>9. /\ state'[p] = state[p] /\ pending'[p] = pending[p] /\ dying'[p] = dying[p] /\ executing'[p] = executing[p]
          /\ (Failed(p)' <=> Failed(p))
      BY <1>1 DEF Failed
    <3>10. \A i \in Requests(p)' : Answerable(p, writes[p][i].call)' /\ writes'[p][i].call \notin executing'[p]
      BY <3>8, <3>9
    <3>11. \A d \in executing'[p] : Answerable(p, d)'
      BY <1>3, <3>3, <3>9 DEF ProcInv
    <3> QED BY <1>3, <2>2, <3>3, <3>8, <3>9, <3>10, <3>11 DEF ProcInv
  <2>3. q # p \/ state[p] = "killed" => SameProcess(q)
    BY <1>1, <1>2, <1>10 DEF SameProcess, Put
  <2> QED BY <2>1, <2>2, <2>3
<1>12. RestOfCalls' /\ RestOfProcesses' /\ CurrentInv'
  BY <1>1, <1>10 DEF Goto, WInv, RestOfCalls, RestOfProcesses, CallPC, CurrentInv
<1> QED BY <1>4, <1>6, <1>8, <1>11, <1>12 DEF WInv

(* The lease of a call is taken from its process and released.                     *)
LEMMA TakenOut ==
  ASSUME RuntimeAssumption, WInv, NEW p \in Processes, NEW c \in Kept(p), Release(c),
         UNCHANGED <<process, state, writes>>, Kept(p)' = Kept(p) \ {c},
         pending'[p] \subseteq pending[p], dying'[p] \subseteq dying[p], executing'[p] = executing[p] \ {c},
         \A q \in Processes \ {p} : SameProcess(q), \A d \in Calls \ {c} : pc'[d] = pc[d],
         pc'[c] = "done" \/ (pc'[c] = pc[c] /\ (pc[c] = "send" => state[p] = "killed")),
         \A i \in Requests(p) : writes[p][i].call # c
  PROVE  LanesInv' /\ (\A d \in Calls : CallInv(d)') /\ \A q \in Processes : ProcInv(q)'
<1>1. /\ c \in Calls /\ Kept(p) \subseteq Calls /\ ProcInv(p) /\ CallInv(c)
      /\ lease[c] = "running" /\ process[c] = p /\ pc[c] \in Lasting
  <2>1. ProcInv(p) /\ Kept(p) \subseteq Calls
    BY DEF WInv, RestOfProcesses, Kept
  <2>2. c \in Calls /\ CallInv(c)
    BY <2>1 DEF WInv
  <2> QED BY <2>1, <2>2 DEF ProcInv
<1>2. LanesMove(c, {"released"})
  <2>1. lease[c] \in Holding /\ Leases /\ \A l \in Lanes : LaneInv(l)
    BY <1>1 DEF WInv, Holding, LanesInv
  <2> QED BY <1>1, <2>1, Released
<1>3. LanesInv' /\ lease'[c] = "released" /\ \A d \in Calls \ {c} : Onward(lease, LaneOf[c], d)
  BY <1>2 DEF LanesMove, LanesInv
<1>4. Move({c}, LaneOf[c])
  BY <1>3 DEF Move
<1>5. CallInv(c)'
  <2>1. pc'[c] \in Lasting /\ process'[c] = p /\ state'[p] = state[p]
    BY <1>1 DEF Lasting
  <2>2. pc'[c] \in {"send", "response"} => state[p] # "unused" /\ pc'[c] = pc[c]
    BY <1>1 DEF CallInv
  <2> QED BY <1>1, <1>3, <2>1, <2>2 DEF CallInv, Lasting
<1>6. ASSUME NEW d \in Calls \ {c} PROVE CallInv(d)'
  <2>1. \A q \in Processes : state'[q] = state[q] /\ (d \in Kept(q) => d \in Kept(q)')
    <3>1. \A q \in Processes \ {p} : Kept(q)' = Kept(q)
      BY DEF SameProcess, Kept
    <3> QED BY <3>1
  <2>2. ASSUME NEW q \in Processes, q = process[d], pc[d] \in {"register", "send", "response"} PROVE state[q] # "unused"
    BY <2>2 DEF WInv, CallInv
  <2>3. Stays(d)
    BY <2>1, <2>2 DEF Stays
  <2> QED BY <1>4, <2>3, CallsElse
<1>7. ASSUME NEW q \in Processes \ {p} PROVE ProcInv(q)'
  <2>1. c \notin Kept(q)
    BY <1>1 DEF WInv, ProcInv
  <2>2. PICK calls : calls = {c}
    OBVIOUS
  <2>3. Move(calls, LaneOf[c]) /\ \A d \in Kept(q) \cap calls : Lives(d)
    BY <1>4, <2>1, <2>2
  <2> QED BY <2>3, ProcElse
<1>8. ProcInv(p)'
  <2>1. \A d \in Kept(p) \ {c} : Lives(d)
    BY <1>1, <1>3 DEF Lives, ProcInv, Onward
  <2>2. \A d \in Kept(p)' : process'[d] = p /\ pc'[d] \in Lasting /\ lease'[d] = "running"
    BY <1>1, <2>1 DEF Lives, ProcInv
  <2>3. ASSUME NEW d, d # c, Answerable(p, d) PROVE Answerable(p, d)'
    BY <2>1, <2>3 DEF Answerable, Lives
  <2>4. Requests(p)' = Requests(p) /\ (Failed(p)' <=> Failed(p)) /\ writes'[p] = writes[p] /\ state'[p] = state[p]
    BY DEF Requests, Failed
  <2>5. \A d \in executing'[p] : Answerable(p, d)'
    BY <1>1, <2>3 DEF ProcInv
  <2>6. ASSUME NEW i \in Requests(p), NEW d, d = writes[p][i].call PROVE Answerable(p, d)' /\ d \notin executing'[p]
    BY <1>1, <2>3, <2>6 DEF ProcInv
  <2>7. \A i \in Requests(p)' : Answerable(p, writes[p][i].call)' /\ writes'[p][i].call \notin executing'[p]
    BY <2>4, <2>6
  <2> QED BY <1>1, <2>2, <2>4, <2>5, <2>7 DEF ProcInv
<1> QED BY <1>3, <1>5, <1>6, <1>7, <1>8

LEMMA ForgetKeeps ==
  ASSUME RuntimeAssumption, WInv, NEW c \in Calls, Forget(c)
  PROVE  WInv'
<1>1. /\ pc[c] = "send" /\ Goto(c, "done") /\ pending' = [pending EXCEPT ![process[c]] = @ \ {c}]
      /\ IF c \in pending[process[c]] THEN Release(c) ELSE UNCHANGED laneVars
      /\ UNCHANGED <<expired, process, answer, encoding, current, state, dying, writes, executing, closed, faults>>
  BY DEF Forget
<1>2. PICK p : p = process[c]
  OBVIOUS
<1>3. p \in Processes /\ ProcInv(p) /\ pending[p] \subseteq Calls /\ dying[p] \subseteq Calls
  BY <1>1, <1>2 DEF WInv, CallInv, RestOfProcesses
<1>4. /\ pc'[c] = "done" /\ (\A d \in Calls \ {c} : pc'[d] = pc[d]) /\ pending'[p] = pending[p] \ {c}
      /\ \A q \in Processes \ {p} : SameProcess(q)
  BY <1>1, <1>2, <1>3 DEF Goto, WInv, RestOfCalls, RestOfProcesses, SameProcess
<1>5. LanesInv' /\ (\A d \in Calls : CallInv(d)') /\ \A q \in Processes : ProcInv(q)'
  <2>1. CASE c \in pending[p]
    <3>1. c \in Kept(p) /\ dying[p] = {} /\ Release(c)
      BY <1>1, <1>2, <1>3, <2>1 DEF Kept, ProcInv, Failed
    <3>2. Kept(p)' = Kept(p) \ {c} /\ pending'[p] \subseteq pending[p] /\ dying'[p] \subseteq dying[p]
      BY <1>1, <1>4, <3>1 DEF Kept
    <3>3. c \notin executing[p] /\ \A i \in Requests(p) : writes[p][i].call # c
      BY <1>1, <1>3 DEF ProcInv, Answerable
    <3>4. executing'[p] = executing[p] \ {c} /\ UNCHANGED <<process, state, writes>>
      BY <1>1, <3>3
    <3> QED BY <1>3, <1>4, <3>1, <3>2, <3>3, <3>4, TakenOut
  <2>2. CASE c \notin pending[p]
    <3>1. LanesInv' /\ lease' = lease
      BY <1>1, <1>2, <2>2, LanesStay DEF WInv, LanesInv, laneVars
    <3>2. \A q \in Processes : SameProcess(q)
      BY <1>1, <1>4, <2>2 DEF SameProcess
    <3>3. Move({c}, LaneOf[c])
      BY <1>1, <1>4, <3>1 DEF Move, Onward
    <3>4. CallInv(c)'
      BY <1>1, <1>4, <3>1 DEF WInv, CallInv, Lasting
    <3>5. ASSUME NEW q \in Processes, c \in Kept(q) PROVE Lives(c)
      <4>1. lease[c] = "running"
        BY <3>5 DEF WInv, ProcInv
      <4> QED BY <1>1, <1>4, <3>1, <4>1 DEF Lives, Lasting
    <3>6. (\A d \in Calls : CallInv(d)') /\ \A q \in Processes : ProcInv(q)'
      BY <3>2, <3>3, <3>4, <3>5, OneCallMoves
    <3> QED BY <3>1, <3>6
  <2> QED BY <2>1, <2>2
<1>6. RestOfCalls' /\ RestOfProcesses' /\ CurrentInv'
  BY <1>1 DEF Goto, WInv, RestOfCalls, RestOfProcesses, CallPC, CurrentInv
<1> QED BY <1>5, <1>6 DEF WInv

LEMMA CancelRequestKeeps ==
  ASSUME RuntimeAssumption, WInv, NEW c \in Calls, CancelRequest(c)
  PROVE  WInv'
<1>1. /\ pc[c] = "response" /\ Goto(c, "done")
      /\ UNCHANGED <<expired, process, answer, laneVars, encoding, current, executing, closed, faults>>
      /\ \/ /\ Len(writes[process[c]]) < WriteBuffer
            /\ Put(process[c], [kind |-> "cancel", call |-> c])
            /\ UNCHANGED <<state, pending, dying>>
         \/ UNCHANGED <<state, pending, dying, writes>>
         \/ ~Failed(process[c]) /\ MarkFailed(process[c]) /\ UNCHANGED writes
  BY DEF CancelRequest
<1>2. PICK p : p = process[c]
  OBVIOUS
<1>3. p \in Processes /\ ProcInv(p) /\ state[p] # "unused" /\ writes[p] \in Seq(Message)
  BY <1>1, <1>2 DEF WInv, CallInv, RestOfProcesses
<1>4. LanesInv' /\ lease' = lease
  BY <1>1, LanesStay DEF WInv, LanesInv, laneVars
<1>5. \A d \in Calls : Finish(d)
  BY <1>1, <1>4 DEF Finish, Goto, WInv, RestOfCalls
<1>6. RestOfCalls'
  BY <1>1 DEF Goto, WInv, RestOfCalls, CallPC
<1>7. CASE ~Failed(p) /\ MarkFailed(p) /\ UNCHANGED writes
  <2>1. state[p] = "running"
    BY <1>3, <1>7 DEF Failed, WInv, RestOfProcesses, ProcessState
  <2>2. executing' \in [Processes -> SUBSET Calls] /\ executing' = executing /\ current' = current
    BY <1>1 DEF WInv, RestOfProcesses
  <2>3. RestOfProcesses' /\ CurrentInv' /\ (\A d \in Calls : CallInv(d)') /\ \A q \in Processes : ProcInv(q)'
    BY <1>3, <1>5, <1>7, <2>1, <2>2, FailsKeep
  <2> QED BY <1>4, <1>6, <2>3 DEF WInv
<1>8. CASE UNCHANGED <<state, pending, dying>>
  <2>1. \A q \in Processes : state'[q] = state[q] /\ Kept(q)' = Kept(q) /\ (writes'[q] = writes[q] => SameProcess(q))
    BY <1>1, <1>8 DEF Kept, SameProcess
  <2>2. ASSUME NEW d \in Calls PROVE CallInv(d)'
    <3>1. Stays(d)
      BY <2>1 DEF Stays, WInv, CallInv
    <3> QED BY <1>5, <3>1, Finishing
  <2>3. CASE writes' = writes
    <3>1. \A q \in Processes : ProcInv(q)'
      BY <1>5, <2>1, <2>3, Finishing
    <3>2. RestOfProcesses' /\ CurrentInv'
      BY <1>1, <1>8, <2>3 DEF WInv, RestOfProcesses, CurrentInv
    <3> QED BY <1>4, <1>6, <2>2, <3>1, <3>2 DEF WInv
  <2>4. CASE /\ state[p] # "killed" /\ Len(writes[p]) < WriteBuffer
             /\ writes' = [writes EXCEPT ![p] = Append(writes[p], [kind |-> "cancel", call |-> c])]
    <3>1. PICK m, n : m = [kind |-> "cancel", call |-> c] /\ n = Len(writes[p]) + 1
      OBVIOUS
    <3>2. m \in Message /\ m.kind = "cancel"
      BY <3>1 DEF Message
    <3>3. writes'[p] = Append(writes[p], m) /\ \A q \in Processes \ {p} : writes'[q] = writes[q]
      BY <1>3, <2>4, <3>1 DEF WInv, RestOfProcesses
    <3>4. /\ writes'[p] \in Seq(Message) /\ Len(writes'[p]) = n /\ writes'[p][n] = m /\ n \in Nat /\ n - 1 = Len(writes[p])
          /\ \A i \in 1 .. n - 1 : writes'[p][i] = writes[p][i]
      BY <1>3, <3>1, <3>2, <3>3, AppendProperties, LenProperties
    <3>5. n <= WriteBuffer
      BY <2>4, <3>1, <3>4 DEF RuntimeAssumption
    <3>6. Requests(p)' = Requests(p) /\ \A i \in Requests(p) : writes'[p][i] = writes[p][i]
      BY <3>2, <3>4 DEF Requests
    <3>7. ProcInv(p)'
      <4>1. \A d \in Kept(p) : Lives(d)
        BY <1>3, <1>5, Finishing
      <4>2. /\ \A d \in Kept(p)' : process'[d] = p /\ pc'[d] \in Lasting /\ lease'[d] = "running"
            /\ \A d : Answerable(p, d) => Answerable(p, d)'
        BY <1>3, <2>1, <4>1, KeptLive
      <4>3. /\ state'[p] = state[p] /\ pending'[p] = pending[p] /\ dying'[p] = dying[p] /\ executing'[p] = executing[p]
            /\ (Failed(p)' <=> Failed(p))
        BY <1>1, <1>8 DEF Failed
      <4>4. ASSUME NEW i \in Requests(p), NEW d, d = writes[p][i].call PROVE Answerable(p, d)' /\ d \notin executing[p]
        BY <1>3, <4>2, <4>4 DEF ProcInv
      <4>5. \A i \in Requests(p)' : Answerable(p, writes[p][i].call)' /\ writes'[p][i].call \notin executing'[p]
        BY <3>6, <4>3, <4>4
      <4>6. \A i, j \in Requests(p)' : writes'[p][i].call = writes'[p][j].call => i = j
        BY <1>3, <3>6 DEF ProcInv
      <4>7. \A d \in executing'[p] : Answerable(p, d)'
        BY <1>3, <4>2, <4>3 DEF ProcInv
      <4> QED BY <1>3, <2>4, <4>2, <4>3, <4>5, <4>6, <4>7 DEF ProcInv
    <3>8. ASSUME NEW q \in Processes \ {p} PROVE ProcInv(q)'
      BY <1>5, <2>1, <3>3, Finishing
    <3>9. RestOfProcesses'
      <4>1. writes' \in [Processes -> Seq(Message)] /\ \A q \in Processes : Len(writes'[q]) <= WriteBuffer
        BY <1>3, <2>4, <3>1, <3>3, <3>4, <3>5 DEF WInv, RestOfProcesses
      <4> QED BY <1>1, <1>8, <4>1 DEF WInv, RestOfProcesses
    <3>10. CurrentInv'
      BY <1>1, <1>8 DEF WInv, CurrentInv
    <3> QED BY <1>4, <1>6, <2>2, <3>7, <3>8, <3>9, <3>10 DEF WInv
  <2>5. writes' = writes \/ (state[p] # "killed" /\ Len(writes[p]) < WriteBuffer
          /\ writes' = [writes EXCEPT ![p] = Append(writes[p], [kind |-> "cancel", call |-> c])])
    BY <1>1, <1>2 DEF Put
  <2> QED BY <2>3, <2>4, <2>5
<1> QED BY <1>1, <1>2, <1>7, <1>8

LEMMA NextCallKeeps ==
  ASSUME RuntimeAssumption, RuntimeNames, WInv, NEW c \in Calls, NextCall(c)
  PROVE  WInv'
<1>1. /\ pc[c] = "done" /\ lease[c] = "released" /\ pc'[c] = "idle"
      /\ \A d \in Calls \ {c} : pc'[d] = pc[d] /\ process'[d] = process[d]
  BY DEF NextCall, Goto, WInv, RestOfCalls
<1>2. LanesMove(c, {"none"})
  <2>1. Leases /\ \A l \in Lanes : LaneInv(l)
    BY DEF WInv, LanesInv
  <2> QED BY <1>1, <2>1, Renewed DEF NextCall
<1>3. LanesInv' /\ lease'[c] = "none" /\ \A d \in Calls \ {c} : Onward(lease, LaneOf[c], d)
  BY <1>2 DEF LanesMove, LanesInv
<1>4. Move({c}, LaneOf[c])
  BY <1>1, <1>3 DEF Move
<1>5. \A q \in Processes : SameProcess(q) /\ c \notin Kept(q)
  BY <1>1, Unkept DEF NextCall, processVars, SameProcess
<1>6. CallInv(c)'
  BY <1>1, <1>3 DEF CallInv, Lasting
<1>7. (\A d \in Calls : CallInv(d)') /\ \A p \in Processes : ProcInv(p)'
  BY <1>4, <1>5, <1>6, OneCallMoves
<1>8. RestOfCalls'
  BY DEF NextCall, Goto, WInv, RestOfCalls, CallPC
<1>9. RestOfProcesses' /\ CurrentInv'
  BY DEF NextCall, WInv, RestOfProcesses, CurrentInv, processVars
<1> QED BY <1>3, <1>7, <1>8, <1>9 DEF WInv

-----------------------------------------------------------------------------
(* The steps of a process, and the end of the pool.                              *)

LEMMA NothingMoves ==
  ASSUME WInv, UNCHANGED <<pc, process, laneVars>>
  PROVE  LanesInv' /\ lease' = lease /\ \A d \in Calls : Finish(d)
BY LanesStay DEF WInv, LanesInv, laneVars, Finish

LEMMA TransportFailsKeeps ==
  ASSUME RuntimeAssumption, WInv, NEW p \in Processes, TransportFails(p)
  PROVE  WInv'
<1>1. state[p] = "running" /\ MarkFailed(p) /\ UNCHANGED <<callVars, laneVars, encoding, current, writes, closed>>
  BY DEF TransportFails
<1>2. /\ executing' \in [Processes -> SUBSET Calls] /\ executing'[p] \subseteq executing[p]
      /\ \A q \in Processes \ {p} : executing'[q] = executing[q]
  BY DEF TransportFails, WInv, RestOfProcesses
<1>3. LanesInv' /\ \A d \in Calls : Finish(d)
  BY <1>1, NothingMoves DEF callVars
<1>4. RestOfProcesses' /\ CurrentInv' /\ (\A d \in Calls : CallInv(d)') /\ \A q \in Processes : ProcInv(q)'
  BY <1>1, <1>2, <1>3, FailsKeep
<1>5. faults' \in 0..MaxFaults
  BY FaultsStay DEF TransportFails
<1>6. RestOfCalls'
  BY <1>1, <1>5 DEF WInv, RestOfCalls, callVars
<1> QED BY <1>3, <1>4, <1>6 DEF WInv

LEMMA StopCurrentKeeps ==
  ASSUME RuntimeAssumption, WInv, StopCurrent
  PROVE  WInv'
<1>1. MarkFailed(current) /\ UNCHANGED <<callVars, laneVars, encoding, current, writes, executing, closed, faults>>
  BY DEF StopCurrent
<1>2. PICK p \in Processes : p = current /\ state[p] = "running"
  BY DEF StopCurrent, WInv, CurrentInv, RestOfProcesses, Failed
<1>3. LanesInv' /\ \A d \in Calls : Finish(d)
  BY <1>1, NothingMoves DEF callVars
<1>4. executing' \in [Processes -> SUBSET Calls] /\ executing' = executing
  BY <1>1 DEF WInv, RestOfProcesses
<1>5. RestOfProcesses' /\ CurrentInv' /\ (\A d \in Calls : CallInv(d)') /\ \A q \in Processes : ProcInv(q)'
  BY <1>1, <1>2, <1>3, <1>4, FailsKeep
<1>6. RestOfCalls'
  BY <1>1 DEF WInv, RestOfCalls, callVars
<1> QED BY <1>3, <1>5, <1>6 DEF WInv

(* The state of a process that keeps its calls changes.                            *)
LEMMA StateMoves ==
  ASSUME WInv, NEW p \in Processes, UNCHANGED <<callVars, laneVars, pending, dying>>,
         \A q \in Processes \ {p} : SameProcess(q),
         state[p] \in {"failed", "detached"}, state'[p] \in {"detached", "killed"},
         \/ writes'[p] = writes[p] /\ executing'[p] = executing[p] /\ state'[p] # "killed"
         \/ writes'[p] = <<>> /\ executing'[p] = {}
  PROVE  LanesInv' /\ (\A d \in Calls : CallInv(d)') /\ \A q \in Processes : ProcInv(q)'
<1>1. LanesInv' /\ lease' = lease /\ \A d \in Calls : Finish(d)
  BY NothingMoves DEF callVars
<1>2. ProcInv(p) /\ (\A q \in Processes : Kept(q)' = Kept(q)) /\ pending'[p] = pending[p] /\ dying'[p] = dying[p]
  BY DEF WInv, Kept
<1>3. ASSUME NEW d \in Calls PROVE CallInv(d)'
  <2>1. CallInv(d)
    BY DEF WInv
  <2>2. PICK q : q = process[d]
    OBVIOUS
  <2>3. process'[d] = q /\ pc'[d] = pc[d] /\ lease'[d] = lease[d]
    BY <1>1, <2>2 DEF callVars
  <2>4. pc[d] \in {"register", "send", "response"} => q \in Processes /\ state'[q] # "unused"
    BY <2>1, <2>2 DEF CallInv, SameProcess
  <2>5. pc[d] = "send" /\ state'[q] # "killed" => state[q] # "killed"
    BY <2>4 DEF SameProcess
  <2>6. pc[d] = "send" /\ state'[q] # "killed" => d \in pending'[q] \cup dying'[q]
    BY <1>2, <2>1, <2>2, <2>4, <2>5 DEF CallInv, Kept
  <2> QED BY <2>1, <2>2, <2>3, <2>4, <2>6 DEF CallInv, Kept
<1>4. ProcInv(p)'
  <2>1. \A d \in Kept(p) : Lives(d)
    BY <1>1, Finishing
  <2>2. /\ \A d \in Kept(p)' : process'[d] = p /\ pc'[d] \in Lasting /\ lease'[d] = "running"
        /\ \A d : Answerable(p, d) => Answerable(p, d)'
    BY <1>2, <2>1, KeptLive
  <2>3. pending'[p] = {} /\ Failed(p)'
    BY <1>2 DEF ProcInv, Failed
  <2>4. CASE writes'[p] = writes[p] /\ executing'[p] = executing[p] /\ state'[p] # "killed"
    <3>1. Requests(p)' = Requests(p)
      BY <2>4 DEF Requests
    <3>2. ASSUME NEW i \in Requests(p), NEW d, d = writes[p][i].call PROVE Answerable(p, d)' /\ d \notin executing[p]
      BY <1>2, <2>2, <3>2 DEF ProcInv
    <3>3. \A i \in Requests(p)' : Answerable(p, writes[p][i].call)' /\ writes'[p][i].call \notin executing'[p]
      BY <2>4, <3>1, <3>2
    <3>4. \A i, j \in Requests(p)' : writes'[p][i].call = writes'[p][j].call => i = j
      BY <1>2, <2>4, <3>1 DEF ProcInv
    <3>5. \A d \in executing'[p] : Answerable(p, d)'
      BY <1>2, <2>2, <2>4 DEF ProcInv
    <3> QED BY <2>2, <2>3, <2>4, <3>3, <3>4, <3>5 DEF ProcInv
  <2>5. CASE writes'[p] = <<>> /\ executing'[p] = {}
    <3>1. Requests(p)' = {}
      BY <2>5 DEF Requests
    <3> QED BY <2>2, <2>3, <2>5, <3>1 DEF ProcInv
  <2> QED BY <2>4, <2>5
<1>5. ASSUME NEW q \in Processes \ {p} PROVE ProcInv(q)'
  BY <1>1, Finishing
<1> QED BY <1>1, <1>3, <1>4, <1>5

LEMMA DetachKeeps ==
  ASSUME RuntimeNames, WInv, NEW p \in Processes, Detach(p)
  PROVE  WInv'
<1>1. /\ state[p] = "failed" /\ state' = [state EXCEPT ![p] = "detached"]
      /\ current' = (IF current = p THEN NoProcess ELSE current)
      /\ UNCHANGED <<callVars, laneVars, encoding, pending, dying, writes, executing, closed, faults>>
  BY DEF Detach
<1>2. state'[p] = "detached" /\ \A q \in Processes \ {p} : SameProcess(q)
  BY <1>1 DEF SameProcess, WInv, RestOfProcesses
<1>3. LanesInv' /\ (\A d \in Calls : CallInv(d)') /\ \A q \in Processes : ProcInv(q)'
  BY <1>1, <1>2, StateMoves
<1>4. CurrentInv' /\ RestOfCalls'
  BY <1>1, <1>2 DEF WInv, CurrentInv, RestOfCalls, RestOfProcesses, SameProcess, callVars
<1>5. RestOfProcesses'
  BY <1>1 DEF WInv, RestOfProcesses, ProcessState
<1> QED BY <1>3, <1>4, <1>5 DEF WInv

LEMMA KillKeeps ==
  ASSUME RuntimeAssumption, RuntimeNames, WInv, NEW p \in Processes, Kill(p)
  PROVE  WInv'
<1>1. /\ state[p] = "detached" /\ state' = [state EXCEPT ![p] = "killed"]
      /\ executing' = [executing EXCEPT ![p] = {}] /\ writes' = [writes EXCEPT ![p] = <<>>]
      /\ UNCHANGED <<callVars, laneVars, encoding, current, pending, dying, closed, faults>>
  BY DEF Kill
<1>2. /\ state'[p] = "killed" /\ writes'[p] = <<>> /\ executing'[p] = {}
      /\ \A q \in Processes \ {p} : SameProcess(q)
  BY <1>1 DEF SameProcess, WInv, RestOfProcesses
<1>3. LanesInv' /\ (\A d \in Calls : CallInv(d)') /\ \A q \in Processes : ProcInv(q)'
  BY <1>1, <1>2, StateMoves
<1>4. CurrentInv' /\ RestOfCalls'
  BY <1>1, <1>2 DEF WInv, CurrentInv, RestOfCalls, RestOfProcesses, SameProcess, callVars
<1>5. RestOfProcesses'
  <2>1. writes' \in [Processes -> Seq(Message)] /\ \A q \in Processes : Len(writes'[q]) <= WriteBuffer
    <3>1. Len(<<>>) = 0 /\ <<>> \in Seq(Message) /\ 0 <= WriteBuffer
      BY EmptySeq DEF RuntimeAssumption
    <3> QED BY <1>1, <1>2, <3>1 DEF WInv, RestOfProcesses, SameProcess
  <2> QED BY <1>1, <2>1 DEF WInv, RestOfProcesses, ProcessState
<1> QED BY <1>3, <1>4, <1>5 DEF WInv

LEMMA ReleaseDyingKeeps ==
  ASSUME RuntimeAssumption, WInv, NEW p \in Processes, NEW c \in Calls, ReleaseDying(p, c)
  PROVE  WInv'
<1>1. /\ state[p] = "killed" /\ c \in dying[p] /\ dying' = [dying EXCEPT ![p] = @ \ {c}]
      /\ Release(c) /\ answer' = [answer EXCEPT ![c] = "failure"]
      /\ UNCHANGED <<pc, expired, process, encoding, current, state, pending, writes, executing, closed, faults>>
  BY DEF ReleaseDying
<1>2. ProcInv(p) /\ c \in Kept(p) /\ dying'[p] = dying[p] \ {c} /\ \A q \in Processes \ {p} : SameProcess(q)
  BY <1>1 DEF WInv, Kept, SameProcess, RestOfProcesses
<1>3. pending[p] = {} /\ executing[p] = {} /\ Requests(p) = {}
  BY <1>1, <1>2 DEF ProcInv, Requests
<1>4. LanesInv' /\ (\A d \in Calls : CallInv(d)') /\ \A q \in Processes : ProcInv(q)'
  <2>1. Kept(p)' = Kept(p) \ {c}
    BY <1>1, <1>2, <1>3 DEF Kept
  <2>2. executing'[p] = executing[p] \ {c} /\ pending'[p] \subseteq pending[p] /\ dying'[p] \subseteq dying[p]
    BY <1>1, <1>2, <1>3
  <2>3. UNCHANGED <<process, state, writes>> /\ \A d \in Calls : pc'[d] = pc[d]
    BY <1>1
  <2> QED BY <1>1, <1>2, <1>3, <2>1, <2>2, <2>3, TakenOut
<1>5. RestOfCalls' /\ RestOfProcesses' /\ CurrentInv'
  BY <1>1 DEF WInv, RestOfCalls, RestOfProcesses, CurrentInv
<1> QED BY <1>4, <1>5 DEF WInv

LEMMA BuryKeeps ==
  ASSUME RuntimeAssumption, WInv, NEW p \in Processes, Bury(p)
  PROVE  WInv'
<1>1. /\ state[p] = "killed" /\ dying[p] = {}
      /\ \A c \in Calls : process[c] = p => pc[c] \in {"idle", "done"}
      /\ state' = [state EXCEPT ![p] = "unused"]
      /\ UNCHANGED <<callVars, laneVars, encoding, current, pending, dying, writes, executing, closed, faults>>
  BY DEF Bury
<1>2. LanesInv' /\ \A d \in Calls : Finish(d)
  BY <1>1, NothingMoves DEF callVars
<1>3. state'[p] = "unused" /\ \A q \in Processes \ {p} : SameProcess(q) /\ Kept(q)' = Kept(q)
  BY <1>1 DEF SameProcess, Kept, WInv, RestOfProcesses
<1>4. Kept(p) = {} /\ Kept(p)' = {}
  BY <1>1 DEF Kept, WInv, ProcInv
<1>5. ProcInv(p)'
  <2>1. executing[p] = {} /\ Requests(p) = {}
    BY <1>4, Spent
  <2>2. executing'[p] = {} /\ Requests(p)' = {}
    BY <1>1, <2>1 DEF Requests
  <2> QED BY <1>3, <1>4, <2>2, ProcEmpty
<1>6. ASSUME NEW q \in Processes \ {p} PROVE ProcInv(q)'
  BY <1>2, <1>3, Finishing
<1>7. ASSUME NEW d \in Calls PROVE CallInv(d)'
  <2>1. ASSUME NEW q \in Processes, q = process[d], pc[d] \in {"register", "send", "response"}
        PROVE  q # p /\ state[q] # "unused"
    BY <1>1, <2>1 DEF WInv, CallInv
  <2>2. Stays(d)
    BY <1>3, <2>1 DEF Stays, SameProcess
  <2> QED BY <1>2, <2>2, Finishing
<1>8. RestOfCalls' /\ RestOfProcesses'
  BY <1>1 DEF WInv, RestOfCalls, RestOfProcesses, ProcessState, callVars
<1>9. CurrentInv'
  BY <1>1, <1>3 DEF WInv, CurrentInv, SameProcess, RestOfProcesses
<1> QED BY <1>2, <1>5, <1>6, <1>7, <1>8, <1>9 DEF WInv

LEMMA WriteKeeps ==
  ASSUME RuntimeAssumption, WInv, NEW p \in Processes, Write(p)
  PROVE  WInv'
<1>1. /\ writes[p] # <<>> /\ writes' = [writes EXCEPT ![p] = Tail(@)]
      /\ executing' = IF Head(writes[p]).kind = "request"
                      THEN [executing EXCEPT ![p] = @ \cup {Head(writes[p]).call}]
                      ELSE executing
      /\ UNCHANGED <<callVars, laneVars, encoding, current, state, pending, dying, closed, faults>>
  BY DEF Write
<1>2. LanesInv' /\ \A d \in Calls : Finish(d)
  BY <1>1, NothingMoves DEF callVars
<1>3. PICK w : w = writes[p]
  OBVIOUS
<1>4. /\ ProcInv(p) /\ w \in Seq(Message) /\ w # <<>> /\ Len(w) <= WriteBuffer /\ writes'[p] = Tail(w)
      /\ executing[p] \subseteq Calls
  BY <1>1, <1>3 DEF WInv, RestOfProcesses
<1>5. /\ Tail(w) \in Seq(Message) /\ Len(Tail(w)) = Len(w) - 1 /\ Len(w) \in Nat \ {0}
      /\ \A i \in 1 .. Len(w) - 1 : Tail(w)[i] = w[i + 1]
      /\ Head(w) = w[1] /\ w[1] \in Message
  <2>1. Len(w) \in Nat \ {0} /\ 1 \in 1 .. Len(w)
    BY <1>4, LenProperties, EmptySeq
  <2>2. Head(w) = w[1] /\ w[1] \in Message
    BY <1>4, <2>1, ElementOfSeq
  <2> QED BY <1>4, <2>1, <2>2, HeadTailProperties
<1>6. /\ \A q \in Processes \ {p} : SameProcess(q)
      /\ \A q \in Processes : Kept(q)' = Kept(q) /\ state'[q] = state[q]
  BY <1>1 DEF SameProcess, Kept, WInv, RestOfProcesses
<1>7. ASSUME NEW d \in Calls PROVE CallInv(d)'
  <2>1. Stays(d)
    BY <1>6 DEF Stays, WInv, CallInv
  <2> QED BY <1>2, <2>1, Finishing
<1>8. ASSUME NEW q \in Processes \ {p} PROVE ProcInv(q)'
  BY <1>2, <1>6, Finishing
<1>9. ProcInv(p)'
  <2>1. \A d \in Kept(p) : Lives(d)
    BY <1>2, Finishing
  <2>2. /\ \A d \in Kept(p)' : process'[d] = p /\ pc'[d] \in Lasting /\ lease'[d] = "running"
        /\ \A d : Answerable(p, d) => Answerable(p, d)'
    BY <1>4, <1>6, <2>1, KeptLive
  <2>3. \A i \in Requests(p)' : i \in 1 .. Len(w) - 1 /\ i + 1 \in Requests(p) /\ i + 1 # 1 /\ writes'[p][i] = w[i + 1]
    BY <1>3, <1>4, <1>5 DEF Requests
  <2>4. \A d \in executing'[p] : d \in executing[p] \/ (1 \in Requests(p) /\ d = w[1].call)
    BY <1>1, <1>3, <1>4, <1>5 DEF Requests, WInv, RestOfProcesses
  <2>5. ASSUME NEW d \in executing'[p] PROVE Answerable(p, d)'
    BY <1>3, <1>4, <2>2, <2>4 DEF ProcInv
  <2>6. ASSUME NEW i \in Requests(p)', NEW d, d = writes'[p][i].call PROVE Answerable(p, d)' /\ d \notin executing'[p]
    <3>1. i + 1 \in Requests(p) /\ i + 1 # 1 /\ d = w[i + 1].call
      BY <2>3, <2>6
    <3>2. Answerable(p, d) /\ d \notin executing[p]
      BY <1>3, <1>4, <3>1 DEF ProcInv
    <3>3. 1 \in Requests(p) => d # w[1].call
      BY <1>3, <1>4, <3>1 DEF ProcInv
    <3> QED BY <2>2, <2>4, <3>2, <3>3
  <2>7. \A i \in Requests(p)' : Answerable(p, writes[p][i].call)' /\ writes'[p][i].call \notin executing'[p]
    BY <2>6
  <2>8. ASSUME NEW i \in Requests(p)', NEW j \in Requests(p)', writes'[p][i].call = writes'[p][j].call PROVE i = j
    <3>1. i \in Int /\ j \in Int /\ i + 1 \in Requests(p) /\ j + 1 \in Requests(p) /\ w[i + 1].call = w[j + 1].call
      BY <2>3, <2>8
    <3>2. i + 1 = j + 1
      BY <1>3, <1>4, <3>1 DEF ProcInv
    <3> QED BY <3>1, <3>2
  <2>9. state'[p] = state[p] /\ pending'[p] = pending[p] /\ dying'[p] = dying[p] /\ (Failed(p)' <=> Failed(p))
    BY <1>1 DEF Failed
  <2>10. state[p] # "killed"
    BY <1>3, <1>4 DEF ProcInv
  <2> QED BY <1>4, <2>2, <2>5, <2>7, <2>8, <2>9, <2>10 DEF ProcInv
<1>10. RestOfProcesses'
  <2>1. writes' \in [Processes -> Seq(Message)] /\ \A q \in Processes : Len(writes'[q]) <= WriteBuffer
    <3>1. Len(writes'[p]) <= WriteBuffer
      BY <1>4, <1>5 DEF RuntimeAssumption
    <3> QED BY <1>1, <1>3, <1>4, <1>5, <1>6, <3>1 DEF WInv, RestOfProcesses, SameProcess
  <2>2. executing' \in [Processes -> SUBSET Calls]
    <3>1. Head(w).call \in Calls
      BY <1>5 DEF Message
    <3> QED BY <1>1, <1>3, <3>1 DEF WInv, RestOfProcesses
  <2> QED BY <1>1, <2>1, <2>2 DEF WInv, RestOfProcesses
<1>11. CurrentInv' /\ RestOfCalls'
  BY <1>1 DEF WInv, CurrentInv, RestOfCalls, callVars
<1> QED BY <1>2, <1>7, <1>8, <1>9, <1>10, <1>11 DEF WInv

LEMMA ReadResponseKeeps ==
  ASSUME RuntimeAssumption, WInv, NEW p \in Processes, NEW c \in Calls, ReadResponse(p, c)
  PROVE  WInv'
<1>1. /\ c \in executing[p] /\ executing' = [executing EXCEPT ![p] = @ \ {c}]
      /\ \/ /\ c \in pending[p] /\ pending' = [pending EXCEPT ![p] = @ \ {c}]
            /\ Release(c) /\ answer' = [answer EXCEPT ![c] = "result"]
         \/ UNCHANGED <<pending, laneVars, answer>>
      /\ UNCHANGED <<pc, expired, process, encoding, current, state, dying, writes, closed, faults>>
  BY DEF ReadResponse
<1>2. ProcInv(p) /\ executing'[p] = executing[p] \ {c} /\ \A i \in Requests(p) : writes[p][i].call # c
  BY <1>1 DEF WInv, ProcInv, RestOfProcesses
<1>3. LanesInv' /\ (\A d \in Calls : CallInv(d)') /\ \A q \in Processes : ProcInv(q)'
  <2>1. CASE c \in pending[p] /\ pending' = [pending EXCEPT ![p] = @ \ {c}] /\ Release(c)
    <3>1. c \in Kept(p) /\ dying[p] = {} /\ pending'[p] = pending[p] \ {c} /\ pc[c] # "send"
      <4>1. c \in Kept(p) /\ dying[p] = {}
        BY <1>2, <2>1 DEF Kept, ProcInv, Failed
      <4>2. pc[c] # "send"
        BY <1>1, <1>2 DEF ProcInv, Answerable
      <4>3. pending'[p] = pending[p] \ {c}
        BY <2>1 DEF WInv, RestOfProcesses
      <4> QED BY <4>1, <4>2, <4>3
    <3>2. Kept(p)' = Kept(p) \ {c} /\ pending'[p] \subseteq pending[p] /\ dying'[p] \subseteq dying[p]
      BY <1>1, <3>1 DEF Kept
    <3>3. UNCHANGED <<process, state, writes>> /\ \A d \in Calls : pc'[d] = pc[d]
      BY <1>1
    <3>4. \A q \in Processes \ {p} : SameProcess(q)
      BY <1>1, <2>1 DEF SameProcess, WInv, RestOfProcesses
    <3> QED BY <1>2, <2>1, <3>1, <3>2, <3>3, <3>4, TakenOut
  <2>2. CASE UNCHANGED <<pending, laneVars, answer>>
    <3>1. LanesInv' /\ \A d \in Calls : Finish(d)
      BY <1>1, <2>2, NothingMoves
    <3>2. /\ \A q \in Processes \ {p} : SameProcess(q)
          /\ \A q \in Processes : Kept(q)' = Kept(q) /\ state'[q] = state[q]
      BY <1>1, <2>2 DEF SameProcess, Kept, WInv, RestOfProcesses
    <3>3. ASSUME NEW d \in Calls PROVE CallInv(d)'
      <4>1. Stays(d)
        BY <3>2 DEF Stays, WInv, CallInv
      <4> QED BY <3>1, <4>1, Finishing
    <3>4. ASSUME NEW q \in Processes \ {p} PROVE ProcInv(q)'
      BY <3>1, <3>2, Finishing
    <3>5. ProcInv(p)'
      <4>1. \A d \in Kept(p) : Lives(d)
        BY <3>1, Finishing
      <4>2. /\ \A d \in Kept(p)' : process'[d] = p /\ pc'[d] \in Lasting /\ lease'[d] = "running"
            /\ \A d : Answerable(p, d) => Answerable(p, d)'
        BY <1>2, <3>2, <4>1, KeptLive
      <4>3. /\ state'[p] = state[p] /\ pending'[p] = pending[p] /\ dying'[p] = dying[p] /\ writes'[p] = writes[p]
            /\ Requests(p)' = Requests(p) /\ (Failed(p)' <=> Failed(p))
        BY <1>1, <2>2 DEF Failed, Requests
      <4>4. ASSUME NEW i \in Requests(p), NEW d, d = writes[p][i].call PROVE Answerable(p, d)' /\ d \notin executing'[p]
        BY <1>2, <4>2, <4>4 DEF ProcInv
      <4>5. \A i \in Requests(p)' : Answerable(p, writes[p][i].call)' /\ writes'[p][i].call \notin executing'[p]
        BY <4>3, <4>4
      <4>6. \A d \in executing'[p] : Answerable(p, d)'
        BY <1>2, <4>2 DEF ProcInv
      <4> QED BY <1>1, <1>2, <4>2, <4>3, <4>5, <4>6 DEF ProcInv
    <3> QED BY <3>1, <3>3, <3>4, <3>5
  <2> QED BY <1>1, <2>1, <2>2
<1>4. RestOfCalls'
  BY <1>1 DEF WInv, RestOfCalls
<1>5. RestOfProcesses' /\ CurrentInv'
  <2>1. pending' \in [Processes -> SUBSET Calls] /\ executing' \in [Processes -> SUBSET Calls]
    BY <1>1 DEF WInv, RestOfProcesses
  <2> QED BY <1>1, <2>1 DEF WInv, RestOfProcesses, CurrentInv
<1> QED BY <1>3, <1>4, <1>5 DEF WInv

LEMMA CloseKeeps ==
  ASSUME WInv, Close \/ UNCHANGED vars
  PROVE  WInv'
<1>1. UNCHANGED <<callVars, laneVars, encoding, processVars, faults>> /\ closed' \in BOOLEAN
  BY DEF Close, vars, WInv, RestOfCalls
<1>2. LanesInv' /\ \A d \in Calls : Finish(d)
  BY <1>1, NothingMoves DEF callVars
<1>3. \A q \in Processes : SameProcess(q)
  BY <1>1 DEF SameProcess, processVars
<1>4. ASSUME NEW d \in Calls PROVE CallInv(d)'
  BY <1>2, <1>3, StaysSame, Finishing
<1>5. \A q \in Processes : ProcInv(q)'
  BY <1>2, <1>3, Finishing
<1>6. RestOfCalls' /\ RestOfProcesses' /\ CurrentInv'
  BY <1>1 DEF WInv, RestOfCalls, RestOfProcesses, CurrentInv, callVars, processVars
<1> QED BY <1>2, <1>4, <1>5, <1>6 DEF WInv

-----------------------------------------------------------------------------
(* The invariant.                                                              *)

LEMMA WInit ==
  ASSUME RuntimeAssumption, Init
  PROVE  WInv
<1>1. Leases
  <2>1. <<>> \in Seq(Calls)
    BY EmptySeq
  <2> QED BY <2>1 DEF Init, Leases, LeaseState
<1>2. ASSUME NEW l \in Lanes PROVE LaneInv(l)
  <2>1. PICK none : none = {}
    OBVIOUS
  <2>2. IsFiniteSet(none) /\ Cardinality(none) = 0
    BY <2>1, FS_EmptySet
  <2>3. \A states : "none" \notin states => Of(l, lease, states) = none
    BY <2>1 DEF Init, Of, In
  <2>4. Of(l, lease, {"running"}) = none /\ Of(l, lease, Holding) = none /\ Of(l, lease, {"queued", "running"}) = none
    BY <2>3 DEF Holding
  <2>5. BytesOf(none) = none
    BY <2>1 DEF BytesOf
  <2>6. /\ queue[l] = <<>> /\ active[l] = 0 /\ bytes[l] = 0 /\ admission[l] = 0
        /\ \A c \in In(l) : lease[c] = "none"
    BY DEF Init, In
  <2>7. /\ <<>> \in Seq(In(l)) /\ Len(<<>>) = 0
    BY EmptySeq
  <2>8. Distinct(<<>>) /\ \A c : ~Has(<<>>, c)
    BY <2>7 DEF Distinct, Has
  <2>9. Fair(l, queue[l], active[l], lease)
    BY <2>2, <2>4, <2>6, <2>7, <2>8, Sizes DEF Fair
  <2> QED BY <2>2, <2>4, <2>5, <2>6, <2>9, Sizes DEF LaneInv
<1>3. RestOfCalls
  <2>1. encoding \in [Lanes -> Calls \cup {NoCall}] /\ \A l \in Lanes : encoding[l] \in In(l) \cup {NoCall}
    BY DEF Init
  <2>2. faults \in 0..MaxFaults
    BY DEF Init, RuntimeAssumption
  <2>3. /\ pc \in [Calls -> CallPC] /\ answer \in [Calls -> {"none", "result", "failure"}]
        /\ process \in [Calls -> Processes \cup {NoProcess}]
    BY DEF Init, CallPC
  <2> QED BY <2>1, <2>2, <2>3 DEF Init, RestOfCalls
<1>4. RestOfProcesses
  <2>1. <<>> \in Seq(Message) /\ Len(<<>>) = 0
    BY EmptySeq
  <2> QED BY <2>1 DEF Init, RestOfProcesses, ProcessState, RuntimeAssumption
<1>5. CurrentInv
  BY DEF Init, CurrentInv
<1>6. ASSUME NEW c \in Calls PROVE CallInv(c)
  BY DEF Init, CallInv, Lasting
<1>7. ASSUME NEW p \in Processes PROVE ProcInv(p)
  <2>1. Len(writes[p]) = 0 /\ writes[p] = <<>>
    BY EmptySeq DEF Init
  <2>2. Requests(p) = {}
    BY <2>1 DEF Requests
  <2> QED BY <2>1, <2>2 DEF Init, ProcInv, Kept
<1> QED BY <1>1, <1>2, <1>3, <1>4, <1>5, <1>6, <1>7 DEF WInv, LanesInv

LEMMA CallStepKeeps ==
  ASSUME RuntimeAssumption, RuntimeNames, WInv, NEW c \in Calls, CallStep(c)
  PROVE  WInv'
BY GiveUpKeeps, QuietStepsKeep, EnqueueKeeps, StartKeeps, RegisterKeeps, SendKeeps, ForgetKeeps, CancelRequestKeeps
   DEF CallStep

LEMMA FailStepKeeps ==
  ASSUME RuntimeAssumption, RuntimeNames, WInv, NEW p \in Processes, FailStep(p)
  PROVE  WInv'
BY DetachKeeps, KillKeeps, ReleaseDyingKeeps, BuryKeeps DEF FailStep

LEMMA WStep ==
  ASSUME RuntimeAssumption, RuntimeNames, WInv, [Next]_vars
  PROVE  WInv'
<1>1. ASSUME NEW c \in Calls, Reserve(c) \/ CallStep(c) \/ Expire(c) \/ NextCall(c) PROVE WInv'
  BY <1>1, ReserveKeeps, CallStepKeeps, QuietStepsKeep, NextCallKeeps
<1>2. ASSUME NEW p \in Processes,
             TransportFails(p) \/ FailStep(p) \/ Write(p) \/ \E c \in Calls : ReadResponse(p, c)
      PROVE  WInv'
  BY <1>2, TransportFailsKeeps, FailStepKeeps, WriteKeeps, ReadResponseKeeps
<1>3. CASE Close \/ UNCHANGED vars
  BY <1>3, CloseKeeps
<1>4. CASE StopCurrent
  BY <1>4, StopCurrentKeeps
<1> QED BY <1>1, <1>2, <1>3, <1>4 DEF Next

LEMMA WAlways ==
  ASSUME RuntimeAssumption, RuntimeNames
  PROVE  Spec => []WInv
<1>1. Init => WInv
  BY WInit
<1>2. WInv /\ [Next]_vars => WInv'
  BY WStep
<1> QED BY <1>1, <1>2, PTL DEF Spec

-----------------------------------------------------------------------------
(* What it says.                                                               *)

LEMMA SaysTypeOK ==
  ASSUME RuntimeAssumption, WInv
  PROVE  TypeOK
<1>1. ASSUME NEW l \in Lanes PROVE queue[l] \in Seq(In(l)) /\ encoding[l] \in In(l) \cup {NoCall} /\ bytes[l] \in 0..Budget
  <2>1. LaneInv(l) /\ Leases /\ RestOfCalls
    BY DEF WInv, LanesInv
  <2>2. queue[l] \in Seq(In(l)) /\ bytes[l] <= Budget /\ bytes[l] \in Nat /\ Budget \in Nat
    BY <2>1 DEF LaneInv, Fair, Leases, RuntimeAssumption
  <2> QED BY <2>1, <2>2 DEF RestOfCalls
<1>2. bytes \in [Lanes -> 0..Budget]
  BY <1>1 DEF WInv, LanesInv, Leases
<1>3. Leases /\ RestOfCalls /\ RestOfProcesses
  BY DEF WInv, LanesInv
<1> QED BY <1>1, <1>2, <1>3 DEF TypeOK, Leases, RestOfCalls, RestOfProcesses

LEMMA SaysCountersAgree ==
  ASSUME WInv
  PROVE  CountersAgree
<1> SUFFICES ASSUME NEW l \in Lanes PROVE SlotsAgree(l) /\ AcceptedAgree(l)
  BY DEF CountersAgree
<1>1. LaneInv(l)
  BY DEF WInv, LanesInv
<1>2. /\ Of(l, lease, {"running"}) = {c \in In(l) : lease[c] = "running"}
      /\ Of(l, lease, Holding) = {c \in In(l) : lease[c] \in Holding}
      /\ Of(l, lease, {"queued", "running"}) = {c \in In(l) : lease[c] \in {"queued", "running"}}
  BY DEF Of
<1>3. {queue[l][i] : i \in DOMAIN queue[l]} = {c \in In(l) : lease[c] = "queued"}
  <2>1. PICK q : q = queue[l]
    OBVIOUS
  <2>2. q \in Seq(In(l)) /\ \A c \in In(l) : lease[c] = "queued" <=> Has(q, c)
    BY <1>1, <2>1 DEF LaneInv, Fair
  <2>3. DOMAIN q = 1 .. Len(q) /\ \A i \in 1 .. Len(q) : q[i] \in In(l)
    BY <2>2, LenProperties, ElementOfSeq
  <2> QED BY <2>1, <2>2, <2>3 DEF Has
<1>4. SlotsAgree(l)
  BY <1>1, <1>2 DEF SlotsAgree, LaneInv, Fair
<1>5. AcceptedAgree(l)
  BY <1>1, <1>2, <1>3 DEF AcceptedAgree, LaneInv
<1> QED BY <1>4, <1>5

LEMMA SaysNoIdleSlot ==
  ASSUME WInv
  PROVE  NoIdleSlot
BY DEF WInv, LanesInv, LaneInv, NoIdleSlot

LEMMA SaysExecutionsHoldSlots ==
  ASSUME WInv
  PROVE  ExecutionsHoldSlots
BY DEF WInv, ProcInv, Answerable, ExecutionsHoldSlots

(* The variables have their types.                                               *)
THEOREM WorkerTypeOK == ASSUME RuntimeAssumption, RuntimeNames PROVE Spec => []TypeOK
<1>1. WInv => TypeOK
  BY SaysTypeOK
<1> QED BY <1>1, WAlways, PTL

(* requestLane.reserve, enqueue, dispatch and release: whoever of the caller, the    *)
(* reader of responses and the failing process comes first to release a lease,      *)
(* and in whatever order, active, the accepted bytes, the admissions and the queue  *)
(* of a lane are those of the leases alive, and within their bounds.               *)
THEOREM CountersAlwaysAgree == ASSUME RuntimeAssumption, RuntimeNames PROVE Spec => []CountersAgree
<1>1. WInv => CountersAgree
  BY SaysCountersAgree
<1> QED BY <1>1, WAlways, PTL

(* dispatch: no call waits beside a free slot, after any release and any hand-over. *)
THEOREM NoSlotIsIdle == ASSUME RuntimeAssumption, RuntimeNames PROVE Spec => []NoIdleSlot
<1>1. WInv => NoIdleSlot
  BY SaysNoIdleSlot
<1> QED BY <1>1, WAlways, PTL

(* forget, cancelRequest, fail and readResponses: what Node executes holds a slot,   *)
(* though its caller has left and its process is failing.                         *)
THEOREM ExecutionsAlwaysHoldSlots == ASSUME RuntimeAssumption, RuntimeNames PROVE Spec => []ExecutionsHoldSlots
<1>1. WInv => ExecutionsHoldSlots
  BY SaysExecutionsHoldSlots
<1> QED BY <1>1, WAlways, PTL

=============================================================================
