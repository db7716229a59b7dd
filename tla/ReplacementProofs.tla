--------------------------- MODULE ReplacementProofs ---------------------------
(***************************************************************************)
(* What clients may read of a content replacement is true, for every number  *)
(* of operations, games, faults and places in the queue, and although a       *)
(* transaction whose reply was lost may be decided at any later moment.       *)
(*                                                                         *)
(*   ExecutorInv  which phase a task is in tells whether the executor knows   *)
(*                it, runs it or lets it wait                                *)
(*   OpInv        which phase a task is in tells whether its publication may   *)
(*                exist                                                      *)
(*   RecordInv    what the record of a game may say of its operation          *)
(*   QueueInv     who waits is in the queue, and waits for somebody            *)
(*   RestTyped    the types of what the others do not mention                  *)
(***************************************************************************)
EXTENDS Replacement, SequenceTheorems, TLAPS

Resting == {"new", "queued", "ended"}

(* The phase of a task tells whether the executor knows it, runs it, or lets it  *)
(* wait, once.                                                                *)
ExecutorInv ==
  /\ byGame \in [Games -> Ops \cup {None}] /\ queue \in Seq(Ops)
  /\ \A o \in Ops : Task(o) <=> pc[o] \notin {"new", "ended"}
  /\ \A o \in Ops : active = o <=> pc[o] \notin Resting
  /\ \A i \in 1 .. Len(queue) : pc[queue[i]] = "queued"
  /\ \A i, j \in 1 .. Len(queue) : queue[i] = queue[j] => i = j

Phases == {"new", "queued", "prepare", "build", "begin", "commit", "confirm", "finish", "ended"}
Records == [op : Ops, session : Session]
Contexts == {"live", "canceled", "deadline"}
Errors == {"none", "canceled", "deadline", "uncertain", "other"}
Typed ==
  /\ session \in [Ops -> Session] /\ ctx \in [Ops -> Contexts] /\ pc \in [Ops -> Phases]
  /\ error \in [Ops -> Errors]
RecordsTyped == redis \in [Games -> Records \cup {None}]

(* Nothing was published and nothing is under way.                             *)
Unpublished(o) == o \notin committed /\ o \notin flight
Refused(o) == pc[o] = "finish" /\ error[o] \notin {"none", "uncertain"}
Unfinished(s) == s.status \in {"queued", "running", "canceling"}
OpInv(o) ==
  /\ pc[o] \in {"new", "queued", "prepare", "build", "begin", "commit"} \/ Refused(o) => Unpublished(o)
  /\ pc[o] = "finish" /\ error[o] = "none" => o \in committed
  /\ o \in asked => /\ Unpublished(o)
                    /\ \/ pc[o] \in {"prepare", "build", "begin"} /\ ctx[o] # "live"
                       \/ Refused(o) \/ pc[o] = "ended"
  /\ Unfinished(session[o])
  /\ session[o].status = "canceling" => o \in asked
  /\ Task(o) /\ session[o].canCancel => pc[o] \in {"queued", "prepare", "build", "begin"} \/ Refused(o)
  /\ pc[o] \in {"commit", "confirm"} \/ (pc[o] = "finish" /\ error[o] \in {"none", "uncertain"})
       => session[o].file

(* The record of an operation that may have published names its file.          *)
MayPublish(o) == o \in committed \/ o \in flight \/ pc[o] \in {"commit", "confirm"}
RecordOf(o, s) ==
  /\ pc[o] # "new"
  /\ s.status = "completed" => o \in committed
  /\ s.status \in {"failed", "cancelled"} => pc[o] = "ended" /\ Unpublished(o)
  /\ s.status = "canceling" => o \in asked
  /\ Task(o) => Unfinished(s)
  /\ MayPublish(o) => s.file
RecordInv ==
  \A g \in Games : redis[g] # None => GameOf[redis[g].op] = g /\ RecordOf(redis[g].op, redis[g].session)

RInv == ExecutorInv /\ Typed /\ RecordsTyped /\ (\A o \in Ops : OpInv(o)) /\ RecordInv

-----------------------------------------------------------------------------
LEMMA RemovedAt ==
  ASSUME NEW S, NEW q \in Seq(S), NEW i \in 1..Len(q)
  PROVE  /\ RemoveAt(q, i) \in Seq(S) /\ Len(RemoveAt(q, i)) = Len(q) - 1
         /\ \A k \in 1..Len(q) - 1 : RemoveAt(q, i)[k] = q[IF k < i THEN k ELSE k + 1]
<1> DEFINE front == SubSeq(q, 1, i - 1)
           back == SubSeq(q, i + 1, Len(q))
<1>1. Len(q) \in Nat
  BY LenProperties
<1>2. \A k \in 1..Len(q) : q[k] \in S
  BY ElementOfSeq
<1>3. front \in Seq(S) /\ Len(front) = i - 1 /\ \A k \in 1..i - 1 : front[k] = q[k]
  <2>1. i - 1 \in Int /\ \A k \in 1..i - 1 : q[k] \in S
    BY <1>1, <1>2
  <2>2. /\ front \in Seq(S)
        /\ Len(front) = IF 1 <= i - 1 THEN i - 1 - 1 + 1 ELSE 0
        /\ \A k \in 1..i - 1 - 1 + 1 : front[k] = q[1 + k - 1]
    BY <2>1, SubSeqProperties
  <2> QED BY <1>1, <2>2
<1>4. back \in Seq(S) /\ Len(back) = Len(q) - i /\ \A k \in 1..Len(q) - i : back[k] = q[i + k]
  <2> DEFINE m == i + 1
             n == Len(q)
  <2>1. m \in Int /\ n \in Int /\ \A k \in m..n : q[k] \in S
    BY <1>1, <1>2
  <2>2. back \in Seq(S) /\ Len(back) = (IF m <= n THEN n - m + 1 ELSE 0)
        /\ \A k \in 1..n - m + 1 : back[k] = q[m + k - 1]
    <3> HIDE DEF m, n
    <3>1. /\ SubSeq(q, m, n) \in Seq(S)
          /\ Len(SubSeq(q, m, n)) = (IF m <= n THEN n - m + 1 ELSE 0)
          /\ \A k \in 1..n - m + 1 : SubSeq(q, m, n)[k] = q[m + k - 1]
      BY <2>1, SubSeqProperties
    <3>2. back = SubSeq(q, m, n)
      BY DEF m, n
    <3> QED BY <3>1, <3>2
  <2> QED BY <1>1, <2>2
<1> HIDE DEF front, back
<1>5. /\ front \o back \in Seq(S)
      /\ Len(front \o back) = Len(front) + Len(back)
      /\ \A k \in 1 .. Len(front) + Len(back) :
           (front \o back)[k] = IF k <= Len(front) THEN front[k] ELSE back[k - Len(front)]
  <2>1. front \in Seq(S) /\ back \in Seq(S)
    BY <1>3, <1>4
  <2> QED BY <2>1, ConcatProperties, Zenon
<1>6. RemoveAt(q, i) = front \o back
  BY DEF RemoveAt, front, back
<1> DEFINE joined == front \o back
<1>7. /\ joined \in Seq(S) /\ Len(joined) = Len(front) + Len(back)
      /\ \A k \in 1 .. Len(front) + Len(back) :
           joined[k] = IF k <= Len(front) THEN front[k] ELSE back[k - Len(front)]
  BY <1>5
<1> HIDE DEF joined
<1>8. ASSUME NEW k \in 1..Len(q) - 1 PROVE joined[k] = q[IF k < i THEN k ELSE k + 1]
  <2>1. CASE k < i
    <3>1. joined[k] = front[k]
      <4>1. Len(front) = i - 1 /\ Len(back) = Len(q) - i /\ i \in Nat /\ k \in Nat
        BY <1>1, <1>3, <1>4
      <4>2. k \in 1 .. Len(front) + Len(back) /\ k <= Len(front)
        BY <1>1, <2>1, <4>1
      <4> QED BY <1>7, <4>2
    <3> QED BY <1>1, <1>3, <2>1, <3>1
  <2>2. CASE ~(k < i)
    <3>1. k - (i - 1) \in 1..Len(q) - i
      BY <1>1, <2>2
    <3>2. joined[k] = back[k - (i - 1)]
      <4>1. Len(front) = i - 1 /\ Len(back) = Len(q) - i /\ i \in Nat /\ k \in Nat
        BY <1>1, <1>3, <1>4
      <4>2. k \in 1 .. Len(front) + Len(back) /\ ~(k <= Len(front))
        BY <1>1, <2>2, <4>1
      <4>3. joined[k] = back[k - Len(front)]
        BY <1>7, <4>2
      <4> QED BY <4>1, <4>3
    <3>3. back[k - (i - 1)] = q[i + (k - (i - 1))]
      BY <1>4, <3>1
    <3>4. i + (k - (i - 1)) = k + 1
      BY <1>1
    <3> QED BY <2>2, <3>2, <3>3, <3>4
  <2> QED BY <2>1, <2>2
<1>9. RemoveAt(q, i) = joined
  BY <1>6 DEF joined
<1>10. Len(joined) = Len(q) - 1
  BY <1>1, <1>3, <1>4, <1>7
<1> QED BY <1>7, <1>8, <1>9, <1>10

-----------------------------------------------------------------------------
(* The queue.                                                                *)

(* A queue of tasks that wait, once each, and not this one.                    *)
Waiting(w, o) ==
  /\ w \in Seq(Ops)
  /\ \A i \in 1 .. Len(w) : pc[w[i]] = "queued" /\ w[i] # o
  /\ \A i, j \in 1 .. Len(w) : w[i] = w[j] => i = j

LEMMA WaitingElse ==
  ASSUME ExecutorInv, NEW o \in Ops, pc[o] # "queued" PROVE Waiting(queue, o)
BY DEF ExecutorInv, Waiting

LEMMA WaitingWithout ==
  ASSUME ExecutorInv, NEW o \in Ops PROVE Waiting(Without(o), o)
<1>1. /\ queue \in Seq(Ops) /\ Len(queue) \in Nat /\ DOMAIN queue = 1 .. Len(queue)
      /\ \A i \in 1 .. Len(queue) : pc[queue[i]] = "queued"
      /\ \A i, j \in 1 .. Len(queue) : queue[i] = queue[j] => i = j
  BY LenProperties DEF ExecutorInv
<1>2. CASE Places(o) = {}
  <2>1. Without(o) = queue
    BY <1>2 DEF Without
  <2>2. \A i \in 1 .. Len(queue) : queue[i] # o
    BY <1>1, <1>2 DEF Places
  <2> QED BY <1>1, <2>1, <2>2 DEF Waiting
<1>3. CASE Places(o) # {}
  <2>1. PICK i \in 1 .. Len(queue) : queue[i] = o /\ Without(o) = RemoveAt(queue, i)
    <3>1. (CHOOSE i \in Places(o) : TRUE) \in Places(o)
      BY <1>3
    <3> QED BY <1>1, <1>3, <3>1 DEF Without, Places
  <2> DEFINE w == RemoveAt(queue, i)
             at(k) == IF k < i THEN k ELSE k + 1
  <2>2. /\ w \in Seq(Ops) /\ Len(w) = Len(queue) - 1
        /\ \A k \in 1 .. Len(queue) - 1 : w[k] = queue[at(k)]
    <3>1. queue \in Seq(Ops)
      BY <1>1
    <3> QED BY <3>1, RemovedAt, Zenon
  <2> HIDE DEF w
  <2>3. \A k \in 1 .. Len(queue) - 1 : at(k) \in 1 .. Len(queue) /\ at(k) # i
    BY <1>1
  <2>4. \A k, l \in 1 .. Len(queue) - 1 : at(k) = at(l) => k = l
    BY <1>1
  <2> HIDE DEF at
  <2>5. \A k \in 1 .. Len(w) : pc[w[k]] = "queued" /\ w[k] # o
    BY <1>1, <2>1, <2>2, <2>3
  <2>6. \A k, l \in 1 .. Len(w) : w[k] = w[l] => k = l
    BY <1>1, <2>2, <2>3, <2>4
  <2>7. Waiting(w, o)
    BY <2>2, <2>5, <2>6 DEF Waiting
  <2> QED BY <2>1, <2>7 DEF w
<1> QED BY <1>2, <1>3

(* The first of a queue, and the others.                                      *)
LEMMA WaitingTail ==
  ASSUME NEW o \in Ops, NEW w, Waiting(w, o), w # <<>>
  PROVE  /\ Head(w) \in Ops /\ Head(w) # o /\ pc[Head(w)] = "queued"
         /\ Waiting(Tail(w), o) /\ \A i \in 1 .. Len(Tail(w)) : Tail(w)[i] # Head(w)
<1>1. /\ w \in Seq(Ops) /\ Len(w) \in Nat /\ Len(w) # 0
      /\ \A i \in 1 .. Len(w) : w[i] \in Ops
      /\ \A i \in 1 .. Len(w) : pc[w[i]] = "queued" /\ w[i] # o
      /\ \A i, j \in 1 .. Len(w) : w[i] = w[j] => i = j
  BY LenProperties, ElementOfSeq, EmptySeq DEF Waiting
<1>2. /\ Head(w) = w[1] /\ Tail(w) \in Seq(Ops) /\ Len(Tail(w)) = Len(w) - 1
      /\ \A i \in 1 .. Len(w) - 1 : Tail(w)[i] = w[i + 1]
  BY <1>1, HeadTailProperties
<1> DEFINE t == Tail(w)
<1>3. t \in Seq(Ops) /\ Len(t) = Len(w) - 1 /\ \A i \in 1 .. Len(w) - 1 : t[i] = w[i + 1]
  BY <1>2
<1> HIDE DEF t
<1>4. \A i \in 1 .. Len(w) - 1 : i + 1 \in 1 .. Len(w) /\ i + 1 # 1
  BY <1>1
<1>5. \A i \in 1 .. Len(t) : pc[t[i]] = "queued" /\ t[i] # o /\ t[i] # w[1]
  BY <1>1, <1>3, <1>4
<1>6. \A i, j \in 1 .. Len(t) : t[i] = t[j] => i = j
  BY <1>1, <1>3, <1>4
<1>7. Waiting(t, o)
  BY <1>3, <1>5, <1>6 DEF Waiting
<1> QED BY <1>1, <1>2, <1>5, <1>7 DEF t

-----------------------------------------------------------------------------
(* How the phases of tasks and the tables of the executor change together.     *)

LEMMA ExecutorStays ==
  ASSUME ExecutorInv, UNCHANGED <<executor, pc>> PROVE ExecutorInv' /\ \A p \in Ops : Task(p)' <=> Task(p)
BY DEF ExecutorInv, executor, Task

(* The goroutine of the active task goes on.                                   *)
LEMMA ExecutorMoves ==
  ASSUME ExecutorInv, Typed, NEW o \in Ops, pc[o] \notin Resting,
         NEW to \in Phases \ Resting, Goto(o, to), UNCHANGED executor
  PROVE  /\ ExecutorInv' /\ \A p \in Ops : Task(p)' <=> Task(p)
         /\ pc' \in [Ops -> Phases] /\ pc'[o] = to /\ \A p \in Ops \ {o} : pc'[p] = pc[p]
<1>1. /\ pc' \in [Ops -> Phases] /\ pc'[o] = to /\ \A p \in Ops \ {o} : pc'[p] = pc[p]
  BY DEF Goto, Typed
<1>2. /\ byGame' = byGame /\ queue' = queue /\ active' = active
      /\ \A p \in Ops : Task(p)' <=> Task(p)
  BY DEF executor, Task
<1>3. to \notin {"new", "queued", "ended"} /\ pc[o] \notin {"new", "queued", "ended"}
  BY DEF Resting
<1>4. \A p \in Ops : Task(p)' <=> pc'[p] \notin {"new", "ended"}
  BY <1>1, <1>2, <1>3 DEF ExecutorInv
<1>5. \A p \in Ops : active' = p <=> pc'[p] \notin Resting
  BY <1>1, <1>2, <1>3 DEF ExecutorInv, Resting
<1>6. \A i \in 1 .. Len(queue) : queue[i] \in Ops \ {o}
  <2>1. \A i \in 1 .. Len(queue) : queue[i] \in Ops
    BY ElementOfSeq DEF ExecutorInv
  <2> QED BY <2>1, <1>3 DEF ExecutorInv
<1>7. \A i \in 1 .. Len(queue') : pc'[queue'[i]] = "queued"
  BY <1>1, <1>2, <1>6 DEF ExecutorInv
<1> QED BY <1>1, <1>2, <1>4, <1>5, <1>7 DEF ExecutorInv

(* A task leaves, whether it ran or waited, and the next one starts.            *)
LEMMA ExecutorFinishes ==
  ASSUME ReplacementAssumption, ExecutorInv, Typed, NEW o \in Ops, Task(o), NEW err, NEW w,
         Waiting(w, o), FinishTask(o, err, w)
  PROVE  /\ ExecutorInv' /\ pc' \in [Ops -> Phases] /\ pc'[o] = "ended" /\ ~Task(o)'
         /\ \A p \in Ops \ {o} : /\ Task(p)' <=> Task(p)
                                 /\ pc'[p] = pc[p] \/ (pc[p] = "queued" /\ pc'[p] = "prepare")
<1>1. /\ None \notin Ops /\ GameOf \in [Ops -> Games] /\ pc \in [Ops -> Phases]
      /\ byGame \in [Games -> Ops \cup {None}]
      /\ byGame' = [byGame EXCEPT ![GameOf[o]] = None] /\ byGame[GameOf[o]] = o
      /\ IF active # o THEN active' = active /\ queue' = w /\ Goto(o, "ended")
         ELSE IF w = <<>> THEN active' = None /\ queue' = <<>> /\ Goto(o, "ended")
         ELSE /\ active' = Head(w) /\ queue' = Tail(w)
              /\ pc' = [pc EXCEPT ![o] = "ended", ![Head(w)] = "prepare"]
  BY DEF ReplacementAssumption, ExecutorInv, Typed, FinishTask, Task
<1>2. /\ \A p \in Ops : Task(p) <=> pc[p] \notin {"new", "ended"}
      /\ \A p \in Ops : active = p <=> pc[p] \notin Resting
  BY DEF ExecutorInv
<1>3. byGame' \in [Games -> Ops \cup {None}] /\ ~Task(o)' /\ \A p \in Ops \ {o} : Task(p)' <=> Task(p)
  BY <1>1 DEF Task
<1>4. /\ w \in Seq(Ops)
      /\ \A i \in 1 .. Len(w) : w[i] \in Ops /\ pc[w[i]] = "queued" /\ w[i] # o
      /\ \A i, j \in 1 .. Len(w) : w[i] = w[j] => i = j
  BY ElementOfSeq DEF Waiting
<1>5. CASE active # o
  <2>1. pc' = [pc EXCEPT ![o] = "ended"] /\ active' = active /\ queue' = w
    BY <1>1, <1>5 DEF Goto
  <2>2. pc' \in [Ops -> Phases] /\ pc'[o] = "ended" /\ \A p \in Ops \ {o} : pc'[p] = pc[p]
    BY <1>1, <2>1 DEF Phases
  <2>3. \A p \in Ops : Task(p)' <=> pc'[p] \notin {"new", "ended"}
    BY <1>2, <1>3, <2>2
  <2>4. \A p \in Ops : active' = p <=> pc'[p] \notin Resting
    BY <1>2, <1>5, <2>1, <2>2 DEF Resting
  <2>5. \A i \in 1 .. Len(w) : pc'[w[i]] = "queued"
    BY <1>4, <2>2
  <2> QED BY <1>3, <1>4, <2>1, <2>2, <2>3, <2>4, <2>5 DEF ExecutorInv
<1>6. CASE active = o /\ w = <<>>
  <2>1. pc' = [pc EXCEPT ![o] = "ended"] /\ active' = None /\ queue' = w
    BY <1>1, <1>6 DEF Goto
  <2>2. pc' \in [Ops -> Phases] /\ pc'[o] = "ended" /\ \A p \in Ops \ {o} : pc'[p] = pc[p]
    BY <1>1, <2>1 DEF Phases
  <2>3. \A p \in Ops : Task(p)' <=> pc'[p] \notin {"new", "ended"}
    BY <1>2, <1>3, <2>2
  <2>4. \A p \in Ops : active' = p <=> pc'[p] \notin Resting
    BY <1>1, <1>2, <1>6, <2>1, <2>2 DEF Resting
  <2>5. \A i \in 1 .. Len(w) : pc'[w[i]] = "queued"
    BY <1>4, <2>2
  <2> QED BY <1>3, <1>4, <2>1, <2>2, <2>3, <2>4, <2>5 DEF ExecutorInv
<1>7. CASE active = o /\ w # <<>>
  <2>1. /\ Head(w) \in Ops /\ Head(w) # o /\ pc[Head(w)] = "queued"
        /\ Waiting(Tail(w), o) /\ \A i \in 1 .. Len(Tail(w)) : Tail(w)[i] # Head(w)
    BY <1>7, WaitingTail
  <2>2. PICK h, t : h = Head(w) /\ t = Tail(w)
    OBVIOUS
  <2>3. pc' = [pc EXCEPT ![o] = "ended", ![h] = "prepare"] /\ active' = h /\ queue' = t
    BY <1>1, <1>7, <2>2
  <2>4. h \in Ops /\ h # o /\ pc[h] = "queued" /\ Waiting(t, o) /\ \A i \in 1 .. Len(t) : t[i] # h
    BY <2>1, <2>2
  <2>5. /\ pc' \in [Ops -> Phases] /\ pc'[o] = "ended" /\ pc'[h] = "prepare"
        /\ \A p \in Ops \ {o, h} : pc'[p] = pc[p]
    BY <1>1, <2>3, <2>4 DEF Phases
  <2>6. \A p \in Ops : Task(p)' <=> pc'[p] \notin {"new", "ended"}
    BY <1>2, <1>3, <2>4, <2>5
  <2>7. \A p \in Ops : active' = p <=> pc'[p] \notin Resting
    BY <1>2, <1>7, <2>3, <2>4, <2>5 DEF Resting
  <2>8. /\ t \in Seq(Ops) /\ \A i, j \in 1 .. Len(t) : t[i] = t[j] => i = j
        /\ \A i \in 1 .. Len(t) : t[i] \in Ops /\ pc[t[i]] = "queued" /\ t[i] # o
    BY <2>4, ElementOfSeq DEF Waiting
  <2>9. \A i \in 1 .. Len(t) : pc'[t[i]] = "queued"
    BY <2>4, <2>5, <2>8
  <2> QED BY <1>3, <2>3, <2>4, <2>5, <2>6, <2>7, <2>8, <2>9 DEF ExecutorInv
<1> QED BY <1>5, <1>6, <1>7

(* A task is accepted: it runs or waits.                                       *)
Accepts(o) ==
  /\ pc[o] = "new" /\ byGame[GameOf[o]] = None
  /\ byGame' = [byGame EXCEPT ![GameOf[o]] = o]
  /\ IF active = None THEN active' = o /\ queue' = queue /\ Goto(o, "prepare")
     ELSE active' = active /\ queue' = Append(queue, o) /\ Goto(o, "queued")

LEMMA ExecutorAccepts ==
  ASSUME ReplacementAssumption, ExecutorInv, Typed, NEW o \in Ops, Accepts(o)
  PROVE  /\ ExecutorInv' /\ pc' \in [Ops -> Phases] /\ pc'[o] \in {"queued", "prepare"}
         /\ \A p \in Ops \ {o} : (Task(p)' <=> Task(p)) /\ pc'[p] = pc[p]
<1>1. /\ None \notin Ops /\ GameOf \in [Ops -> Games] /\ pc \in [Ops -> Phases]
      /\ byGame \in [Games -> Ops \cup {None}] /\ queue \in Seq(Ops) /\ Len(queue) \in Nat
      /\ \A p \in Ops : Task(p) <=> pc[p] \notin {"new", "ended"}
      /\ \A p \in Ops : active = p <=> pc[p] \notin Resting
      /\ \A i \in 1 .. Len(queue) : queue[i] \in Ops /\ pc[queue[i]] = "queued"
      /\ \A i, j \in 1 .. Len(queue) : queue[i] = queue[j] => i = j
  BY LenProperties, ElementOfSeq DEF ReplacementAssumption, ExecutorInv, Typed
<1>2. /\ byGame' \in [Games -> Ops \cup {None}] /\ Task(o)'
      /\ \A p \in Ops \ {o} : Task(p)' <=> Task(p)
  BY <1>1 DEF Accepts, Task
<1>3. CASE active = None
  <2>1. active' = o /\ queue' = queue /\ pc' = [pc EXCEPT ![o] = "prepare"] /\ pc[o] = "new"
    BY <1>3 DEF Accepts, Goto
  <2>2. pc' \in [Ops -> Phases] /\ pc'[o] = "prepare" /\ \A p \in Ops \ {o} : pc'[p] = pc[p]
    BY <1>1, <2>1 DEF Phases
  <2>3. \A p \in Ops : Task(p)' <=> pc'[p] \notin {"new", "ended"}
    BY <1>1, <1>2, <2>2
  <2>4. \A p \in Ops : active' = p <=> pc'[p] \notin Resting
    BY <1>1, <1>3, <2>1, <2>2 DEF Resting
  <2>5. \A i \in 1 .. Len(queue) : pc'[queue[i]] = "queued"
    BY <1>1, <2>1, <2>2
  <2> QED BY <1>1, <1>2, <2>1, <2>2, <2>3, <2>4, <2>5 DEF ExecutorInv
<1>4. CASE active # None
  <2>1. active' = active /\ queue' = Append(queue, o) /\ pc' = [pc EXCEPT ![o] = "queued"] /\ pc[o] = "new"
    BY <1>4 DEF Accepts, Goto
  <2>2. pc' \in [Ops -> Phases] /\ pc'[o] = "queued" /\ \A p \in Ops \ {o} : pc'[p] = pc[p]
    BY <1>1, <2>1 DEF Phases
  <2>3. \A p \in Ops : Task(p)' <=> pc'[p] \notin {"new", "ended"}
    BY <1>1, <1>2, <2>2
  <2>4. \A p \in Ops : active' = p <=> pc'[p] \notin Resting
    BY <1>1, <2>1, <2>2 DEF Resting
  <2>5. PICK w : w = Append(queue, o)
    OBVIOUS
  <2>6. /\ w \in Seq(Ops) /\ Len(w) = Len(queue) + 1 /\ w[Len(queue) + 1] = o
        /\ \A i \in 1 .. Len(queue) : w[i] = queue[i]
    <3>1. queue \in Seq(Ops)
      BY <1>1
    <3> QED BY <3>1, <2>5, AppendProperties, ZenonT(90)
  <2>7. \A i \in 1 .. Len(w) : i \in 1 .. Len(queue) \/ i = Len(queue) + 1
    BY <1>1, <2>6
  <2>8. \A i \in 1 .. Len(w) : pc'[w[i]] = "queued"
    BY <1>1, <2>1, <2>2, <2>6, <2>7
  <2>9. \A i, j \in 1 .. Len(w) : w[i] = w[j] => i = j
    BY <1>1, <2>1, <2>6, <2>7
  <2> QED BY <1>2, <2>1, <2>2, <2>3, <2>4, <2>5, <2>6, <2>8, <2>9 DEF ExecutorInv
<1> QED BY <1>3, <1>4

-----------------------------------------------------------------------------
(* How the operations and the records change together.                         *)

(* The step is not about this operation.                                       *)
Same(p) ==
  /\ pc'[p] = pc[p] /\ error'[p] = error[p] /\ session'[p] = session[p] /\ ctx'[p] = ctx[p]
  /\ p \in committed' <=> p \in committed
  /\ p \in flight' <=> p \in flight
  /\ p \in asked' <=> p \in asked
  /\ Task(p)' <=> Task(p)

(* What a record may say of this operation it may go on saying.                *)
Grows(p) == \A s \in Session : RecordOf(p, s) => RecordOf(p, s)'

LEMMA SameOp == ASSUME NEW p \in Ops, Same(p), OpInv(p) PROVE OpInv(p)'
BY DEF Same, OpInv, Unpublished, Refused, Unfinished

LEMMA GrowsIf ==
  ASSUME NEW p \in Ops, pc[p] # "new" => pc'[p] # "new",
         p \in committed => p \in committed', p \in asked => p \in asked',
         pc[p] = "ended" /\ Unpublished(p) => pc'[p] = "ended" /\ Unpublished(p)',
         Task(p)' => Task(p), MayPublish(p)' => MayPublish(p)
  PROVE  Grows(p)
BY DEF Grows, RecordOf

LEMMA SameGrows == ASSUME NEW p \in Ops, Same(p) PROVE Grows(p)
<1>1. Unpublished(p)' <=> Unpublished(p)
  BY DEF Same, Unpublished
<1>2. MayPublish(p)' <=> MayPublish(p)
  BY DEF Same, MayPublish
<1> QED BY <1>1, <1>2, GrowsIf DEF Same

LEMMA RecordsKept ==
  ASSUME RecordsTyped, RecordInv, redis' = redis, \A p \in Ops : Grows(p)
  PROVE  RecordsTyped' /\ RecordInv'
<1>1. ASSUME NEW g \in Games, redis[g] # None
      PROVE  GameOf[redis[g].op] = g /\ RecordOf(redis[g].op, redis[g].session)'
  <2>1. PICK p, s : p = redis[g].op /\ s = redis[g].session
    OBVIOUS
  <2>2. p \in Ops /\ s \in Session
    BY <1>1, <2>1 DEF RecordsTyped, Records
  <2>3. GameOf[p] = g /\ RecordOf(p, s)
    BY <1>1, <2>1 DEF RecordInv
  <2>4. RecordOf(p, s)'
    BY <2>2, <2>3 DEF Grows
  <2>5. redis'[g].op = p /\ redis'[g].session = s
    BY <2>1
  <2> QED BY <2>1, <2>3, <2>4, <2>5
<1> QED BY <1>1 DEF RecordsTyped, RecordInv

LEMMA RecordSaved ==
  ASSUME ReplacementAssumption, RecordsTyped, RecordInv, NEW o \in Ops, NEW s \in Session, Saved(o, s),
         RecordOf(o, s)', \A p \in Ops \ {o} : Grows(p)
  PROVE  RecordsTyped' /\ RecordInv'
<1>1. GameOf[o] \in Games /\ [op |-> o, session |-> s] \in Records
  BY DEF ReplacementAssumption, Records
<1>2. /\ redis' \in [Games -> Records \cup {None}] /\ redis'[GameOf[o]] = [op |-> o, session |-> s]
      /\ \A g \in Games \ {GameOf[o]} : redis'[g] = redis[g]
  BY <1>1 DEF Saved, RecordsTyped
<1>3. ASSUME NEW g \in Games, redis'[g] # None
      PROVE  GameOf[redis'[g].op] = g /\ RecordOf(redis[g].op, redis[g].session)'
  <2>1. CASE g = GameOf[o]
    <3>1. redis'[g].op = o /\ redis'[g].session = s
      BY <1>2, <2>1
    <3>2. RecordOf(o, s)'
      OBVIOUS
    <3> QED BY <2>1, <3>1, <3>2
  <2>2. CASE g # GameOf[o]
    <3>1. redis'[g] = redis[g]
      BY <1>2, <2>2
    <3>2. PICK p, t : p = redis[g].op /\ t = redis[g].session
      OBVIOUS
    <3>3. p \in Ops /\ t \in Session
      BY <1>3, <3>1, <3>2 DEF RecordsTyped, Records
    <3>4. GameOf[p] = g /\ RecordOf(p, t)
      BY <1>3, <3>1, <3>2 DEF RecordInv
    <3>5. RecordOf(p, t)'
      BY <2>2, <3>3, <3>4 DEF Grows
    <3>6. redis'[g].op = p /\ redis'[g].session = t
      BY <3>1, <3>2
    <3> QED BY <3>4, <3>5, <3>6
  <2> QED BY <2>1, <2>2
<1> QED BY <1>2, <1>3 DEF RecordsTyped, RecordInv

-----------------------------------------------------------------------------
(* The goroutine of the active task.                                          *)

(* Its step concerns its own operation; what it saves is what a record of it may *)
(* say afterwards.                                                            *)
LEMMA Stepped ==
  ASSUME ReplacementAssumption, RInv, NEW o \in Ops, pc[o] \notin Resting,
         NEW to \in Phases \ Resting, Goto(o, to), UNCHANGED executor,
         session' \in [Ops -> Session], ctx' \in [Ops -> Contexts], error' \in [Ops -> Errors],
         OpInv(o)', \A p \in Ops \ {o} : (Task(p)' <=> Task(p)) /\ pc'[p] = pc[p] => Same(p),
         \/ redis' = redis /\ Grows(o)
         \/ \E s \in Session : Saved(o, s) /\ RecordOf(o, s)'
  PROVE  RInv'
<1>1. ExecutorInv /\ Typed /\ RecordsTyped /\ RecordInv
  BY DEF RInv
<1>2. /\ ExecutorInv' /\ \A p \in Ops : Task(p)' <=> Task(p)
      /\ pc' \in [Ops -> Phases] /\ pc'[o] = to /\ \A p \in Ops \ {o} : pc'[p] = pc[p]
  BY <1>1, ExecutorMoves
<1>3. Typed'
  BY <1>2 DEF Typed
<1>4. \A p \in Ops \ {o} : Same(p)
  BY <1>2
<1>5. \A p \in Ops : OpInv(p)'
  BY <1>4, SameOp DEF RInv
<1>6. \A p \in Ops \ {o} : Grows(p)
  BY <1>4, SameGrows
<1>7. RecordsTyped' /\ RecordInv'
  <2>1. CASE redis' = redis /\ Grows(o)
    <3>1. \A p \in Ops : Grows(p)
      BY <1>6, <2>1
    <3> QED BY <1>1, <2>1, <3>1, RecordsKept
  <2>2. CASE \E s \in Session : Saved(o, s) /\ RecordOf(o, s)'
    <3>1. PICK s \in Session : Saved(o, s) /\ RecordOf(o, s)'
      BY <2>2
    <3> QED BY <1>1, <1>6, <3>1, RecordSaved
  <2> QED BY <2>1, <2>2
<1> QED BY <1>2, <1>3, <1>5, <1>7 DEF RInv

LEMMA Sessions ==
  ASSUME NEW s \in Session
  PROVE  /\ [s EXCEPT !.status = "running"] \in Session
         /\ [s EXCEPT !.canCancel = FALSE, !.file = TRUE] \in Session
         /\ [s EXCEPT !.status = "canceling", !.canCancel = FALSE] \in Session
BY DEF Session, Ended

(* What a task may do before its publication: go on, or fail.                  *)
LEMMA Works ==
  ASSUME ReplacementAssumption, RInv, NEW o \in Ops, NEW to, NEW err \in Errors, NEW s \in Session,
         pc[o] \in {"prepare", "build", "begin", "commit"},
         Goto(o, to), error' = [error EXCEPT ![o] = err], session' = [session EXCEPT ![o] = s],
         UNCHANGED <<executor, ctx, committed, flight, asked>>,
         Unfinished(s), s.status = "canceling" => session[o].status = "canceling",
         \/ to \in {"build", "begin"}
         \/ to = "commit" /\ ctx[o] = "live" /\ s.file /\ ~s.canCancel
         \/ to = "finish" /\ err \notin {"none", "uncertain"},
         (redis' = redis /\ to # "commit") \/ Saved(o, s)
  PROVE  RInv'
<1>1. ExecutorInv /\ Typed /\ OpInv(o)
  BY DEF RInv
<1>2. pc[o] \notin Resting /\ to \in Phases \ Resting
  BY DEF Resting, Phases
<1>3. /\ session' \in [Ops -> Session] /\ ctx' \in [Ops -> Contexts] /\ error' \in [Ops -> Errors]
      /\ session'[o] = s /\ error'[o] = err /\ ctx'[o] = ctx[o]
      /\ \A p \in Ops \ {o} : session'[p] = session[p] /\ error'[p] = error[p] /\ ctx'[p] = ctx[p]
  BY <1>1 DEF Typed
<1>4. /\ UNCHANGED executor /\ committed' = committed /\ flight' = flight /\ asked' = asked
      /\ pc' \in [Ops -> Phases] /\ pc'[o] = to
      /\ Task(o)' <=> Task(o)
  BY <1>1, <1>2, ExecutorMoves
<1>5. Unpublished(o) /\ Unpublished(o)'
  BY <1>1, <1>4 DEF OpInv, Unpublished
<1>6. OpInv(o)'
  <2>1. o \in asked => pc[o] \in {"prepare", "build", "begin"} /\ ctx[o] # "live"
    BY <1>1 DEF OpInv, Refused
  <2>2. s.status = "canceling" => o \in asked
    BY <1>1 DEF OpInv
  <2>3. CASE to \in {"build", "begin"}
    BY <1>3, <1>4, <1>5, <2>1, <2>2, <2>3 DEF OpInv, Refused
  <2>4. CASE to = "commit" /\ ctx[o] = "live" /\ s.file /\ ~s.canCancel
    BY <1>3, <1>4, <1>5, <2>1, <2>2, <2>4 DEF OpInv, Refused
  <2>5. CASE to = "finish" /\ err \notin {"none", "uncertain"}
    BY <1>3, <1>4, <1>5, <2>1, <2>2, <2>5 DEF OpInv, Refused
  <2> QED BY <2>3, <2>4, <2>5
<1>7. \A p \in Ops \ {o} : (Task(p)' <=> Task(p)) /\ pc'[p] = pc[p] => Same(p)
  BY <1>3, <1>4 DEF Same
<1>8. CASE redis' = redis /\ to # "commit"
  <2>1. MayPublish(o)' => MayPublish(o)
    BY <1>4, <1>5, <1>8 DEF MayPublish, Unpublished
  <2>2. pc'[o] # "new" /\ pc[o] # "ended"
    BY <1>2, <1>4 DEF Resting
  <2>3. Grows(o)
    BY <1>4, <2>1, <2>2, GrowsIf
  <2> QED BY <1>2, <1>3, <1>4, <1>6, <1>7, <1>8, <2>3, Stepped
<1>9. CASE Saved(o, s)
  <2>1. s.status = "canceling" => o \in asked'
    BY <1>1, <1>4 DEF OpInv
  <2>2. MayPublish(o)' => s.file
    BY <1>4, <1>5 DEF MayPublish, Unpublished
  <2>3. pc'[o] # "new"
    BY <1>2, <1>4 DEF Resting
  <2>4. RecordOf(o, s)'
    BY <2>1, <2>2, <2>3 DEF RecordOf, Unfinished
  <2> QED BY <1>2, <1>3, <1>4, <1>6, <1>7, <1>9, <2>4, Stepped
<1> QED BY <1>8, <1>9

LEMMA PrepareKeeps == ASSUME ReplacementAssumption, RInv, NEW o \in Ops, Prepare(o) PROVE RInv'
<1>1. pc[o] = "prepare" /\ session \in [Ops -> Session] /\ ctx[o] \in Contexts /\ error \in [Ops -> Errors]
      /\ Unfinished(session[o])
  BY DEF Prepare, RInv, Typed, OpInv
<1>2. UNCHANGED <<executor, ctx, committed, flight, asked>>
  BY DEF Prepare, database
<1>3. CASE ctx[o] # "live" /\ Fail(o, ctx[o]) /\ UNCHANGED <<session, redis, faults>>
  <2>1. /\ ctx[o] \in Errors /\ ctx[o] \notin {"none", "uncertain"}
        /\ session' = [session EXCEPT ![o] = session[o]] /\ session[o] \in Session
        /\ Goto(o, "finish") /\ error' = [error EXCEPT ![o] = ctx[o]] /\ redis' = redis
    BY <1>1, <1>3 DEF Contexts, Errors, Fail
  <2> QED BY <1>1, <1>2, <2>1, Works
<1>4. CASE /\ ctx[o] = "live" /\ session' = [session EXCEPT ![o].status = "running"]
           /\ \/ Saved(o, session'[o]) /\ Goto(o, "build") /\ UNCHANGED <<error, faults>>
              \/ SaveFails(o, session'[o]) /\ Fail(o, "other")
  <2>1. PICK s : s = [session[o] EXCEPT !.status = "running"]
    OBVIOUS
  <2>2. s \in Session /\ Unfinished(s) /\ s.status = "running"
    <3>1. session[o] \in Session
      BY <1>1
    <3> QED BY <1>1, <2>1, <3>1, Sessions DEF Session, Unfinished
  <2>3. session' = [session EXCEPT ![o] = s] /\ session'[o] = s
    BY <1>1, <1>4, <2>1
  <2>4. CASE Saved(o, session'[o]) /\ Goto(o, "build") /\ UNCHANGED <<error, faults>>
    <3>1. error' = [error EXCEPT ![o] = error[o]] /\ error[o] \in Errors /\ Saved(o, s)
      BY <1>1, <2>3, <2>4
    <3> QED BY <1>1, <1>2, <2>2, <2>3, <2>4, <3>1, Works
  <2>5. CASE SaveFails(o, session'[o]) /\ Fail(o, "other")
    <3>1. /\ Goto(o, "finish") /\ error' = [error EXCEPT ![o] = "other"] /\ "other" \in Errors
          /\ redis' = redis \/ Saved(o, s)
      BY <2>3, <2>5 DEF SaveFails, Fail, Errors
    <3> QED BY <1>1, <1>2, <2>2, <2>3, <3>1, Works
  <2> QED BY <1>4, <2>4, <2>5
<1> QED BY <1>3, <1>4 DEF Prepare

LEMMA BuildKeeps == ASSUME ReplacementAssumption, RInv, NEW o \in Ops, Build(o) PROVE RInv'
<1>1. /\ pc[o] = "build" /\ session[o] \in Session /\ ctx[o] \in Contexts /\ error[o] \in Errors
      /\ Unfinished(session[o]) /\ UNCHANGED <<executor, ctx, committed, flight, asked>> /\ redis' = redis
      /\ session' = [session EXCEPT ![o] = session[o]]
  BY DEF Build, RInv, Typed, OpInv, database
<1>2. CASE Goto(o, "begin") /\ UNCHANGED error
  <2>1. error' = [error EXCEPT ![o] = error[o]]
    BY <1>2 DEF RInv, Typed
  <2> QED BY <1>1, <1>2, <2>1, Works
<1>3. ASSUME NEW err \in Errors \ {"none", "uncertain"}, Fail(o, err) PROVE RInv'
  BY <1>1, <1>3, Works DEF Fail
<1>4. "other" \in Errors \ {"none", "uncertain"} /\ (ctx[o] # "live" => ctx[o] \in Errors \ {"none", "uncertain"})
  BY <1>1 DEF Contexts, Errors
<1> QED BY <1>2, <1>3, <1>4 DEF Build

LEMMA BeginKeeps == ASSUME ReplacementAssumption, RInv, NEW o \in Ops, Begin(o) PROVE RInv'
<1>1. pc[o] = "begin" /\ session \in [Ops -> Session] /\ ctx[o] \in Contexts /\ error \in [Ops -> Errors]
      /\ Unfinished(session[o])
  BY DEF Begin, RInv, Typed, OpInv
<1>2. UNCHANGED <<executor, ctx, committed, flight, asked>>
  BY DEF Begin, database
<1>3. CASE ctx[o] # "live" /\ Fail(o, ctx[o]) /\ UNCHANGED <<session, redis, faults>>
  <2>1. /\ ctx[o] \in Errors /\ ctx[o] \notin {"none", "uncertain"}
        /\ session' = [session EXCEPT ![o] = session[o]] /\ session[o] \in Session
        /\ Goto(o, "finish") /\ error' = [error EXCEPT ![o] = ctx[o]] /\ redis' = redis
    BY <1>1, <1>3 DEF Contexts, Errors, Fail
  <2> QED BY <1>1, <1>2, <2>1, Works
<1>4. CASE /\ ctx[o] = "live" /\ session' = [session EXCEPT ![o].canCancel = FALSE, ![o].file = TRUE]
           /\ \/ Saved(o, session'[o]) /\ Goto(o, "commit") /\ UNCHANGED <<error, faults>>
              \/ SaveFails(o, session'[o]) /\ Fail(o, "other")
  <2>1. PICK s : s = [session[o] EXCEPT !.canCancel = FALSE, !.file = TRUE]
    OBVIOUS
  <2>2. s \in Session /\ Unfinished(s) /\ s.status = session[o].status /\ s.file /\ ~s.canCancel
    <3>1. session[o] \in Session
      BY <1>1
    <3> QED BY <1>1, <2>1, <3>1, Sessions DEF Session, Unfinished
  <2>3. session' = [session EXCEPT ![o] = s] /\ session'[o] = s
    BY <1>1, <1>4, <2>1
  <2>4. CASE Saved(o, session'[o]) /\ Goto(o, "commit") /\ UNCHANGED <<error, faults>>
    <3>1. error' = [error EXCEPT ![o] = error[o]] /\ error[o] \in Errors /\ Saved(o, s)
      BY <1>1, <2>3, <2>4
    <3> QED BY <1>1, <1>2, <1>4, <2>2, <2>3, <2>4, <3>1, Works
  <2>5. CASE SaveFails(o, session'[o]) /\ Fail(o, "other")
    <3>1. /\ Goto(o, "finish") /\ error' = [error EXCEPT ![o] = "other"] /\ "other" \in Errors
          /\ redis' = redis \/ Saved(o, s)
      BY <2>3, <2>5 DEF SaveFails, Fail, Errors
    <3> QED BY <1>1, <1>2, <2>2, <2>3, <3>1, Works
  <2> QED BY <1>4, <2>4, <2>5
<1> QED BY <1>3, <1>4 DEF Begin

LEMMA RollBackKeeps == ASSUME ReplacementAssumption, RInv, NEW o \in Ops, RollBack(o) PROVE RInv'
<1>1. /\ pc[o] = "commit" /\ session[o] \in Session /\ ctx[o] \in Contexts
      /\ Unfinished(session[o]) /\ UNCHANGED <<executor, ctx, committed, flight, asked>> /\ redis' = redis
      /\ session' = [session EXCEPT ![o] = session[o]]
  BY DEF RollBack, RInv, Typed, OpInv, database
<1>2. PICK err : err = IF ctx[o] = "live" THEN "other" ELSE ctx[o]
  OBVIOUS
<1>3. err \in Errors \ {"none", "uncertain"} /\ Goto(o, "finish") /\ error' = [error EXCEPT ![o] = err]
  BY <1>1, <1>2 DEF Contexts, Errors, RollBack, Fail
<1> QED BY <1>1, <1>3, Works

LEMMA CommitKeeps == ASSUME ReplacementAssumption, RInv, NEW o \in Ops, Commit(o) PROVE RInv'
<1>1. /\ pc[o] = "commit" /\ session[o] \in Session /\ error \in [Ops -> Errors] /\ OpInv(o) /\ Typed
      /\ Unfinished(session[o]) /\ UNCHANGED <<executor, ctx, flight, asked>> /\ redis' = redis
      /\ session' = [session EXCEPT ![o] = session[o]] /\ session' = session
  BY DEF Commit, RInv, Typed, OpInv
<1>2. CASE Fail(o, "other") /\ UNCHANGED <<version, committed>>
  <2>1. Goto(o, "finish") /\ error' = [error EXCEPT ![o] = "other"] /\ "other" \in Errors
    BY <1>2 DEF Fail, Errors
  <2> QED BY <1>1, <1>2, <2>1, Works
<1>3. CASE Publish(o) /\ Fail(o, "none")
  <2>1. /\ committed' = committed \cup {o} /\ Goto(o, "finish") /\ "finish" \in Phases \ Resting
        /\ error' = [error EXCEPT ![o] = "none"] /\ pc[o] \notin Resting
    BY <1>1, <1>3 DEF Publish, Fail, Resting, Phases
  <2>2. /\ error' \in [Ops -> Errors] /\ error'[o] = "none"
        /\ \A p \in Ops \ {o} : error'[p] = error[p]
    BY <1>1, <2>1 DEF Errors
  <2>3. pc'[o] = "finish" /\ (Task(o)' <=> Task(o))
    BY <1>1, <2>1, ExecutorMoves DEF RInv
  <2>4. o \notin asked /\ session[o].file /\ (Task(o) => ~session[o].canCancel) /\ o \notin flight
        /\ session[o].status # "canceling"
    BY <1>1 DEF OpInv, Refused, Unpublished
  <2>5. OpInv(o)'
    BY <1>1, <2>1, <2>2, <2>3, <2>4 DEF OpInv, Refused
  <2>6. \A p \in Ops \ {o} : (Task(p)' <=> Task(p)) /\ pc'[p] = pc[p] => Same(p)
    BY <1>1, <2>1, <2>2 DEF Same
  <2>7. Grows(o)
    <3>1. MayPublish(o)
      BY <1>1 DEF MayPublish
    <3> QED BY <1>1, <2>1, <2>3, <3>1, GrowsIf
  <2>8. session' \in [Ops -> Session] /\ ctx' \in [Ops -> Contexts]
    BY <1>1 DEF Typed
  <2> QED BY <1>1, <2>1, <2>2, <2>5, <2>6, <2>7, <2>8, Stepped
<1> QED BY <1>2, <1>3 DEF Commit

LEMMA CutOffAdds ==
  ASSUME NEW sent, CutOff(sent)
  PROVE  \E applied, late \in SUBSET sent : committed' = committed \cup applied /\ flight' = flight \cup late
BY DEF CutOff

LEMMA LoseReplyKeeps == ASSUME ReplacementAssumption, RInv, NEW o \in Ops, LoseReply(o) PROVE RInv'
<1>1. /\ pc[o] = "commit" /\ OpInv(o) /\ Typed /\ ExecutorInv
      /\ UNCHANGED <<executor, session, ctx, error, asked>> /\ redis' = redis
      /\ Goto(o, "confirm") /\ pc[o] \notin Resting /\ "confirm" \in Phases \ Resting
  BY DEF LoseReply, Executed, RInv, Resting, Phases
<1>2. PICK applied, late \in SUBSET {o} : committed' = committed \cup applied /\ flight' = flight \cup late
  BY CutOffAdds DEF LoseReply
<1>3. pc'[o] = "confirm" /\ (Task(o)' <=> Task(o))
  BY <1>1, ExecutorMoves
<1>4. o \notin asked /\ session[o].file /\ (Task(o) => ~session[o].canCancel) /\ Unfinished(session[o])
      /\ session[o].status # "canceling"
  BY <1>1 DEF OpInv, Refused
<1>5. OpInv(o)'
  BY <1>1, <1>3, <1>4 DEF OpInv, Refused, Unfinished
<1>6. \A p \in Ops \ {o} : (Task(p)' <=> Task(p)) /\ pc'[p] = pc[p] => Same(p)
  BY <1>1, <1>2 DEF Same
<1>7. Grows(o)
  <2>1. MayPublish(o)
    BY <1>1 DEF MayPublish
  <2>2. o \in committed => o \in committed'
    BY <1>2
  <2> QED BY <1>1, <1>3, <2>1, <2>2, GrowsIf
<1>8. session' \in [Ops -> Session] /\ ctx' \in [Ops -> Contexts] /\ error' \in [Ops -> Errors]
  BY <1>1 DEF Typed
<1> QED BY <1>1, <1>5, <1>6, <1>7, <1>8, Stepped

LEMMA ConfirmKeeps == ASSUME ReplacementAssumption, RInv, NEW o \in Ops, Confirm(o) PROVE RInv'
<1>1. /\ pc[o] = "confirm" /\ OpInv(o) /\ Typed /\ ExecutorInv
      /\ UNCHANGED <<executor, session, ctx, committed, flight, asked>> /\ redis' = redis
      /\ pc[o] \notin Resting /\ "finish" \in Phases \ Resting
  BY DEF Confirm, RInv, Resting, Phases, database
<1>2. PICK err \in {"none", "uncertain"} : Fail(o, err) /\ (err = "none" => o \in committed)
  BY DEF Confirm
<1>3. Goto(o, "finish") /\ error' = [error EXCEPT ![o] = err]
  BY <1>2 DEF Fail
<1>4. /\ error' \in [Ops -> Errors] /\ error'[o] = err
      /\ \A p \in Ops \ {o} : error'[p] = error[p]
  BY <1>1, <1>3 DEF Errors, Typed
<1>5. pc'[o] = "finish" /\ (Task(o)' <=> Task(o))
  BY <1>1, <1>3, ExecutorMoves
<1>6. o \notin asked /\ session[o].file /\ (Task(o) => ~session[o].canCancel) /\ Unfinished(session[o])
      /\ session[o].status # "canceling"
  BY <1>1 DEF OpInv, Refused
<1>7. OpInv(o)'
  BY <1>1, <1>2, <1>4, <1>5, <1>6 DEF OpInv, Refused, Unfinished
<1>8. \A p \in Ops \ {o} : (Task(p)' <=> Task(p)) /\ pc'[p] = pc[p] => Same(p)
  BY <1>1, <1>4 DEF Same
<1>9. Grows(o)
  <2>1. MayPublish(o)
    BY <1>1 DEF MayPublish
  <2> QED BY <1>1, <1>5, <2>1, GrowsIf
<1>10. session' \in [Ops -> Session] /\ ctx' \in [Ops -> Contexts]
  BY <1>1 DEF Typed
<1> QED BY <1>1, <1>3, <1>4, <1>7, <1>8, <1>9, <1>10, Stepped

-----------------------------------------------------------------------------
(* A task leaves: Finish, Cancel of a task that waits, Expire.                 *)

Closed(s, st, b) == [s EXCEPT !.canCancel = FALSE, !.uncertain = b, !.status = st]

LEMMA SessionEnds ==
  ASSUME NEW s \in Session, NEW st \in Ended, NEW b, b \in BOOLEAN
  PROVE  Closed(s, st, b) \in Session /\ Closed(s, st, b).status = st /\ Closed(s, st, b).file = s.file
BY DEF Session, Closed

LEMMA ResultIs ==
  ASSUME Typed, NEW o \in Ops, NEW err \in Errors
  PROVE  /\ Result(o, err) \in Session /\ Result(o, err).file = session[o].file
         /\ Result(o, err).status \in Ended
         /\ Result(o, err).status = "completed" => err = "none"
         /\ Result(o, err).status \in {"failed", "cancelled"} => err \notin {"none", "uncertain"}
<1>1. PICK u : u = session[o]
  OBVIOUS
<1>2. u \in Session
  BY <1>1 DEF Typed
<1>3. PICK st : st = CASE err = "none" -> "completed"
                  [] err = "uncertain" -> "interrupted"
                  [] err = "deadline" -> "failed"
                  [] err \notin {"none", "uncertain", "deadline"} /\ process # "up" -> "interrupted"
                  [] err = "canceled" /\ process = "up" -> "cancelled"
                  [] OTHER -> "failed"
  OBVIOUS
<1>4. /\ st \in Ended
      /\ st = "completed" => err = "none"
      /\ st \in {"failed", "cancelled"} => err \notin {"none", "uncertain"}
  BY <1>3 DEF Ended
<1>5. Result(o, err) = [u EXCEPT !.canCancel = FALSE, !.uncertain = (err = "uncertain"), !.status = st]
  BY <1>1, <1>3 DEF Result
<1>6. PICK b : b = (err = "uncertain")
  OBVIOUS
<1>7. Result(o, err) = Closed(u, st, b)
  BY <1>5, <1>6 DEF Closed
<1>8. Result(o, err) \in Session /\ Result(o, err).status = st /\ Result(o, err).file = u.file
  <2>1. st \in Ended /\ b \in BOOLEAN
    BY <1>4, <1>6
  <2>2. Closed(u, st, b) \in Session /\ Closed(u, st, b).status = st /\ Closed(u, st, b).file = u.file
    BY <1>2, <2>1, SessionEnds
  <2> QED BY <1>7, <2>2
<1> QED BY <1>1, <1>4, <1>8

LEMMA Leaves ==
  ASSUME ReplacementAssumption, RInv, NEW o \in Ops, Task(o), NEW err \in Errors, NEW w,
         Waiting(w, o), FinishTask(o, err, w), UNCHANGED <<committed, flight>>,
         asked' = asked \/ (asked' = asked \cup {o} /\ Unpublished(o)),
         err = "none" => o \in committed,
         err \notin {"none", "uncertain"} => Unpublished(o),
         err \in {"none", "uncertain"} => session[o].file
  PROVE  RInv'
<1>1. ExecutorInv /\ Typed /\ RecordsTyped /\ RecordInv /\ \A p \in Ops : OpInv(p)
  BY DEF RInv
<1>2. /\ ExecutorInv' /\ pc' \in [Ops -> Phases] /\ pc'[o] = "ended" /\ ~Task(o)'
      /\ \A p \in Ops \ {o} : /\ Task(p)' <=> Task(p)
                              /\ pc'[p] = pc[p] \/ (pc[p] = "queued" /\ pc'[p] = "prepare")
  BY <1>1, ExecutorFinishes
<1>3. Forget({o}) /\ Save(o, Result(o, err))
  BY DEF FinishTask
<1>4. /\ session'[o] = Queued /\ ctx'[o] = "live" /\ error'[o] = "none"
      /\ \A p \in Ops \ {o} : session'[p] = session[p] /\ ctx'[p] = ctx[p] /\ error'[p] = error[p]
      /\ session' \in [Ops -> Session] /\ ctx' \in [Ops -> Contexts] /\ error' \in [Ops -> Errors]
  BY <1>1, <1>3 DEF Forget, Typed, Queued, Session, Contexts, Errors
<1>5. Typed'
  BY <1>2, <1>4 DEF Typed
<1>6. /\ \A p \in Ops : Unpublished(p)' <=> Unpublished(p)
      /\ \A p \in Ops \ {o} : p \in asked' <=> p \in asked
      /\ o \in asked' => o \in asked \/ Unpublished(o)
      /\ \A p \in Ops : p \in asked => p \in asked'
  BY DEF Unpublished
<1>7. pc[o] \notin {"new", "ended"}
  BY <1>1 DEF ExecutorInv
<1>8. OpInv(o)'
  <2>1. o \in asked' => Unpublished(o)
    BY <1>1, <1>6 DEF OpInv
  <2>2. Queued.status = "queued"
    BY DEF Queued
  <2> QED BY <1>2, <1>4, <1>6, <2>1, <2>2 DEF OpInv, Refused, Unfinished
<1>9. ASSUME NEW p \in Ops \ {o} PROVE OpInv(p)' /\ Grows(p)
  <2>1. CASE pc'[p] = pc[p]
    <3>1. Same(p)
      BY <1>2, <1>4, <1>6, <2>1 DEF Same
    <3> QED BY <1>1, <3>1, SameOp, SameGrows
  <2>2. CASE pc[p] = "queued" /\ pc'[p] = "prepare"
    <3>1. OpInv(p) /\ p \notin asked /\ Unpublished(p)
      BY <1>1, <2>2 DEF OpInv, Refused
    <3>2. OpInv(p)'
      BY <1>2, <1>4, <1>6, <2>2, <3>1 DEF OpInv, Refused, Unfinished
    <3>3. MayPublish(p)' => MayPublish(p)
      BY <2>2 DEF MayPublish
    <3>4. Grows(p)
      BY <1>2, <1>6, <2>2, <3>3, GrowsIf
    <3> QED BY <3>2, <3>4
  <2> QED BY <1>2, <2>1, <2>2
<1>10. Grows(o)
  <2>1. MayPublish(o)' => MayPublish(o)
    BY <1>2 DEF MayPublish
  <2> QED BY <1>2, <1>6, <1>7, <2>1, GrowsIf
<1>11. \A p \in Ops : Grows(p)
  BY <1>9, <1>10
<1>12. PICK s : s = Result(o, err)
  OBVIOUS
<1>13. /\ s \in Session /\ s.file = session[o].file /\ s.status \in Ended
       /\ s.status = "completed" => err = "none"
       /\ s.status \in {"failed", "cancelled"} => err \notin {"none", "uncertain"}
  BY <1>1, <1>12, ResultIs
<1>14. RecordOf(o, s)'
  <2>1. MayPublish(o)' => s.file
    BY <1>2, <1>13 DEF MayPublish, Unpublished
  <2> QED BY <1>2, <1>6, <1>13, <2>1 DEF RecordOf, Ended
<1>15. RecordsTyped' /\ RecordInv'
  <2>1. CASE Saved(o, s)
    BY <1>1, <1>11, <1>13, <1>14, <2>1, RecordSaved
  <2>2. CASE redis' = redis
    BY <1>1, <1>11, <2>2, RecordsKept
  <2> QED BY <1>3, <1>12, <2>1, <2>2 DEF Save, SaveFails
<1> QED BY <1>2, <1>5, <1>8, <1>9, <1>15 DEF RInv

LEMMA FinishKeeps == ASSUME ReplacementAssumption, RInv, NEW o \in Ops, Finish(o) PROVE RInv'
<1>1. /\ pc[o] = "finish" /\ FinishTask(o, error[o], queue) /\ UNCHANGED <<committed, flight>> /\ asked' = asked
      /\ ExecutorInv /\ OpInv(o) /\ error[o] \in Errors
  BY DEF Finish, database, RInv, Typed
<1>2. Task(o) /\ Waiting(queue, o)
  BY <1>1, WaitingElse DEF ExecutorInv
<1>3. /\ error[o] = "none" => o \in committed
      /\ error[o] \notin {"none", "uncertain"} => Unpublished(o)
      /\ error[o] \in {"none", "uncertain"} => session[o].file
  BY <1>1 DEF OpInv, Refused
<1> QED BY <1>1, <1>2, <1>3, Leaves

LEMMA ExpireKeeps == ASSUME ReplacementAssumption, RInv, NEW o \in Ops, Expire(o) PROVE RInv'
<1>1. /\ Task(o) /\ active # o /\ ctx[o] \in Contexts \ {"live"} /\ FinishTask(o, ctx[o], Without(o))
      /\ UNCHANGED <<committed, flight>> /\ asked' = asked
      /\ ExecutorInv /\ OpInv(o)
  BY DEF Expire, database, RInv, Typed
<1>2. Waiting(Without(o), o) /\ pc[o] = "queued"
  BY <1>1, WaitingWithout DEF ExecutorInv, Resting
<1>3. Unpublished(o)
  BY <1>1, <1>2 DEF OpInv
<1>4. ctx[o] \in Errors /\ ctx[o] \notin {"none", "uncertain"}
  BY <1>1 DEF Contexts, Errors
<1> QED BY <1>1, <1>2, <1>3, <1>4, Leaves

(* The active task is asked to stop, or one that waits leaves.                 *)
LEMMA CancelKeeps == ASSUME ReplacementAssumption, RInv, NEW o \in Ops, Cancel(o) PROVE RInv'
<1>1. /\ Task(o) /\ session[o].canCancel /\ asked' = asked \cup {o} /\ UNCHANGED <<committed, flight>>
      /\ ExecutorInv /\ OpInv(o) /\ Typed /\ RecordsTyped /\ RecordInv
  BY DEF Cancel, database, RInv
<1>2. pc[o] \in {"queued", "prepare", "build", "begin"} \/ Refused(o)
  BY <1>1 DEF OpInv
<1>3. Unpublished(o) /\ Unpublished(o)'
  BY <1>1, <1>2 DEF OpInv, Unpublished
<1>4. CASE active # o /\ FinishTask(o, "canceled", Without(o))
  <2>1. Waiting(Without(o), o) /\ "canceled" \in Errors
    BY <1>1, WaitingWithout DEF Errors
  <2> QED BY <1>1, <1>3, <1>4, <2>1, Leaves
<1>5. CASE /\ active = o
           /\ ctx' = [ctx EXCEPT ![o] = IF @ = "live" THEN "canceled" ELSE @]
           /\ session' = [session EXCEPT ![o].status = "canceling", ![o].canCancel = FALSE]
           /\ Save(o, session'[o])
           /\ UNCHANGED <<executor, worker, base>>
  <2>1. PICK s : s = [session[o] EXCEPT !.status = "canceling", !.canCancel = FALSE]
    OBVIOUS
  <2>2. s \in Session /\ s.status = "canceling" /\ ~s.canCancel
    <3>1. session[o] \in Session
      BY <1>1 DEF Typed
    <3> QED BY <2>1, <3>1, Sessions DEF Session
  <2>3. /\ session' = [session EXCEPT ![o] = s]
        /\ pc' = pc /\ error' = error /\ UNCHANGED <<executor, pc>>
    BY <1>1, <1>5, <2>1 DEF Typed, worker
  <2>4. /\ session'[o] = s /\ session' \in [Ops -> Session]
        /\ \A p \in Ops \ {o} : session'[p] = session[p] /\ ctx'[p] = ctx[p]
        /\ ctx' \in [Ops -> Contexts] /\ ctx'[o] # "live"
    BY <1>1, <1>5, <2>2, <2>3 DEF Typed, Contexts
  <2>5. ExecutorInv' /\ \A p \in Ops : Task(p)' <=> Task(p)
    BY <1>1, <2>3, ExecutorStays
  <2>6. Typed'
    BY <1>1, <2>3, <2>4 DEF Typed
  <2>7. pc[o] \in {"prepare", "build", "begin"} \/ Refused(o)
    <3>1. pc[o] # "queued"
      BY <1>1, <1>5 DEF ExecutorInv, Resting
    <3> QED BY <1>2, <3>1
  <2>8. OpInv(o)'
    BY <1>1, <1>3, <2>2, <2>3, <2>4, <2>7 DEF OpInv, Refused, Unfinished
  <2>9. \A p \in Ops \ {o} : Same(p)
    BY <1>1, <2>3, <2>4, <2>5 DEF Same
  <2>10. \A p \in Ops : OpInv(p)'
    BY <2>8, <2>9, SameOp DEF RInv
  <2>11. MayPublish(o)' => MayPublish(o)
    BY <1>1, <2>3 DEF MayPublish
  <2>12. Grows(o)
    BY <1>1, <1>3, <2>3, <2>5, <2>11, GrowsIf
  <2>13. \A p \in Ops : Grows(p)
    BY <2>9, <2>12, SameGrows
  <2>14. RecordOf(o, s)'
    <3>1. ~MayPublish(o)'
      BY <1>3, <2>3, <2>7 DEF MayPublish, Unpublished, Refused
    <3>2. pc'[o] # "new" /\ o \in asked'
      BY <1>1, <2>3, <2>7 DEF Refused
    <3> QED BY <2>2, <3>1, <3>2 DEF RecordOf, Unfinished
  <2>15. RecordsTyped' /\ RecordInv'
    <3>1. CASE Saved(o, s)
      BY <1>1, <2>2, <2>13, <2>14, <3>1, RecordSaved
    <3>2. CASE redis' = redis
      BY <1>1, <2>13, <3>2, RecordsKept
    <3> QED BY <1>5, <2>4, <3>1, <3>2 DEF Save, SaveFails
  <2> QED BY <2>5, <2>6, <2>10, <2>15 DEF RInv
<1> QED BY <1>4, <1>5 DEF Cancel

-----------------------------------------------------------------------------
(* Admission.                                                                *)

LEMMA EnqueueKeeps == ASSUME ReplacementAssumption, RInv, NEW o \in Ops, Enqueue(o) PROVE RInv'
<1>1. PICK s : s = IF active = None THEN [Queued EXCEPT !.status = "running"] ELSE Queued
  OBVIOUS
<1>2. s \in Session /\ Unfinished(s) /\ s.status # "canceling"
  BY <1>1 DEF Queued, Session, Unfinished
<1>3. /\ ExecutorInv /\ Typed /\ RecordsTyped /\ RecordInv /\ OpInv(o) /\ pc[o] = "new" /\ byGame[GameOf[o]] = None
      /\ ctx' = ctx /\ error' = error /\ committed' = committed /\ flight' = flight /\ asked' = asked
  BY DEF Enqueue, database, RInv
<1>4. o \notin asked /\ Unpublished(o)
  BY <1>3 DEF OpInv, Refused
<1>5. ~Task(o)
  BY <1>3 DEF ExecutorInv
<1>6. Grows(o)
  BY <1>3 DEF Grows, RecordOf
<1>7. CASE /\ Saved(o, s)
           /\ session' = [session EXCEPT ![o] = s]
           /\ byGame' = [byGame EXCEPT ![GameOf[o]] = o]
           /\ IF active = None THEN active' = o /\ queue' = queue /\ Goto(o, "prepare")
              ELSE active' = active /\ queue' = Append(queue, o) /\ Goto(o, "queued")
  <2>1. Accepts(o)
    BY <1>3, <1>7 DEF Accepts
  <2>2. /\ ExecutorInv' /\ pc' \in [Ops -> Phases] /\ pc'[o] \in {"queued", "prepare"}
        /\ \A p \in Ops \ {o} : (Task(p)' <=> Task(p)) /\ pc'[p] = pc[p]
    BY <1>3, <2>1, ExecutorAccepts
  <2>3. /\ session' \in [Ops -> Session] /\ session'[o] = s
        /\ \A p \in Ops \ {o} : session'[p] = session[p]
    BY <1>2, <1>3, <1>7 DEF Typed
  <2>4. Typed'
    BY <1>3, <2>2, <2>3 DEF Typed
  <2>5. OpInv(o)'
    BY <1>2, <1>3, <1>4, <2>2, <2>3 DEF OpInv, Unpublished, Refused, Unfinished
  <2>6. \A p \in Ops \ {o} : Same(p)
    BY <1>3, <2>2, <2>3 DEF Same
  <2>7. \A p \in Ops : OpInv(p)'
    BY <2>5, <2>6, SameOp DEF RInv
  <2>8. \A p \in Ops \ {o} : Grows(p)
    BY <2>6, SameGrows
  <2>9. RecordOf(o, s)'
    <3>1. ~MayPublish(o)'
      BY <1>3, <1>4, <2>2 DEF MayPublish, Unpublished
    <3> QED BY <1>2, <2>2, <3>1 DEF RecordOf, Unfinished
  <2>10. RecordsTyped' /\ RecordInv'
    BY <1>2, <1>3, <1>7, <2>8, <2>9, RecordSaved
  <2> QED BY <2>2, <2>4, <2>7, <2>10 DEF RInv
<1>8. CASE SaveFails(o, s) /\ Goto(o, "ended") /\ UNCHANGED <<executor, session, base>>
  <2>1. /\ pc' \in [Ops -> Phases] /\ pc'[o] = "ended" /\ \A p \in Ops \ {o} : pc'[p] = pc[p]
    BY <1>3, <1>8 DEF Goto, Typed, Phases
  <2>2. /\ active' = active /\ queue' = queue /\ byGame' = byGame /\ session' = session
        /\ \A p \in Ops : Task(p)' <=> Task(p)
    BY <1>8 DEF executor, Task
  <2>3. ExecutorInv'
    <3>1. \A p \in Ops : Task(p)' <=> pc'[p] \notin {"new", "ended"}
      BY <1>3, <2>1, <2>2 DEF ExecutorInv
    <3>2. \A p \in Ops : active' = p <=> pc'[p] \notin Resting
      BY <1>3, <2>1, <2>2 DEF ExecutorInv, Resting
    <3>3. \A i \in 1 .. Len(queue) : queue[i] \in Ops \ {o} /\ pc[queue[i]] = "queued"
      <4>1. queue \in Seq(Ops) /\ \A i \in 1 .. Len(queue) : queue[i] \in Ops /\ pc[queue[i]] = "queued"
        BY <1>3, ElementOfSeq DEF ExecutorInv
      <4> QED BY <1>3, <4>1
    <3>4. \A i \in 1 .. Len(queue') : pc'[queue'[i]] = "queued"
      BY <2>1, <2>2, <3>3
    <3> QED BY <1>3, <2>2, <3>1, <3>2, <3>4 DEF ExecutorInv
  <2>4. Typed'
    BY <1>3, <2>1, <2>2 DEF Typed
  <2>5. OpInv(o)'
    BY <1>3, <1>4, <1>5, <2>1, <2>2 DEF OpInv, Unpublished, Refused, Unfinished
  <2>6. \A p \in Ops \ {o} : Same(p)
    BY <1>3, <2>1, <2>2 DEF Same
  <2>7. \A p \in Ops : OpInv(p)'
    BY <2>5, <2>6, SameOp DEF RInv
  <2>8. \A p \in Ops : Grows(p)
    BY <1>6, <2>6, SameGrows
  <2>9. RecordOf(o, s)'
    <3>1. ~MayPublish(o)'
      BY <1>3, <1>4, <2>1 DEF MayPublish, Unpublished
    <3> QED BY <1>2, <2>1, <3>1 DEF RecordOf, Unfinished
  <2>10. RecordsTyped' /\ RecordInv'
    <3>1. CASE Saved(o, s)
      BY <1>2, <1>3, <2>8, <2>9, <3>1, RecordSaved
    <3>2. CASE redis' = redis
      BY <1>3, <2>8, <3>2, RecordsKept
    <3> QED BY <1>8, <3>1, <3>2 DEF SaveFails
  <2> QED BY <2>3, <2>4, <2>7, <2>10 DEF RInv
<1> QED BY <1>1, <1>7, <1>8 DEF Enqueue

-----------------------------------------------------------------------------
(* The rest of the program and of the world.                                   *)

(* A step that concerns no publication and no record.                          *)
LEMMA Stands ==
  ASSUME ReplacementAssumption, RInv,
         UNCHANGED <<executor, session, pc, error, redis, committed, flight, asked>>,
         ctx' \in [Ops -> Contexts], \A p \in Ops : ctx[p] # "live" => ctx'[p] # "live"
  PROVE  RInv'
<1>1. ExecutorInv /\ Typed /\ RecordsTyped /\ RecordInv
  BY DEF RInv
<1>2. ExecutorInv' /\ \A p \in Ops : Task(p)' <=> Task(p)
  BY <1>1, ExecutorStays
<1>3. Typed'
  BY <1>1 DEF Typed
<1>4. ASSUME NEW p \in Ops PROVE OpInv(p)' /\ Grows(p)
  <2>1. OpInv(p)
    BY DEF RInv
  <2>2. (Unpublished(p)' <=> Unpublished(p)) /\ (MayPublish(p)' <=> MayPublish(p)) /\ (Refused(p)' <=> Refused(p))
    BY DEF Unpublished, MayPublish, Refused
  <2>3. OpInv(p)'
    BY <1>2, <2>1, <2>2 DEF OpInv, Unfinished
  <2>4. Grows(p)
    BY <1>2, <2>2, GrowsIf
  <2> QED BY <2>3, <2>4
<1>5. RecordsTyped' /\ RecordInv'
  BY <1>1, <1>4, RecordsKept
<1> QED BY <1>2, <1>3, <1>4, <1>5 DEF RInv

LEMMA DeadlineKeeps == ASSUME ReplacementAssumption, RInv, NEW o \in Ops, Deadline(o) PROVE RInv'
<1>1. ctx' = [ctx EXCEPT ![o] = "deadline"] /\ ctx \in [Ops -> Contexts]
  BY DEF Deadline, RInv, Typed
<1>2. ctx' \in [Ops -> Contexts] /\ \A p \in Ops : ctx[p] # "live" => ctx'[p] # "live"
  BY <1>1 DEF Contexts
<1>3. UNCHANGED <<executor, session, pc, error, redis, committed, flight, asked>>
  BY DEF Deadline, worker, database
<1> QED BY <1>2, <1>3, Stands

LEMMA ShutdownKeeps == ASSUME ReplacementAssumption, RInv, Shutdown PROVE RInv'
<1>1. /\ ctx' = [o \in Ops |-> IF Task(o) /\ ctx[o] = "live" THEN "canceled" ELSE ctx[o]]
      /\ ctx \in [Ops -> Contexts]
  BY DEF Shutdown, RInv, Typed
<1>2. ctx' \in [Ops -> Contexts] /\ \A p \in Ops : ctx[p] # "live" => ctx'[p] # "live"
  BY <1>1 DEF Contexts
<1>3. UNCHANGED <<executor, session, pc, error, redis, committed, flight, asked>>
  BY DEF Shutdown, worker, database
<1> QED BY <1>2, <1>3, Stands

LEMMA OthersKeep ==
  ASSUME ReplacementAssumption, RInv, (\E g \in Games : Edit(g)) \/ Exit \/ Restart
  PROVE  RInv'
<1>1. ctx' = ctx /\ ctx \in [Ops -> Contexts]
  BY DEF Edit, Exit, Restart, RInv, Typed
<1>2. UNCHANGED <<executor, session, pc, error, redis, committed, flight, asked>>
  BY DEF Edit, Exit, Restart, worker, database
<1> QED BY <1>1, <1>2, Stands

(* What was under way is decided.                                             *)
LEMMA LandKeeps == ASSUME ReplacementAssumption, RInv, NEW o \in Ops, Land(o) PROVE RInv'
<1>1. /\ ExecutorInv /\ Typed /\ RecordsTyped /\ RecordInv /\ OpInv(o)
      /\ UNCHANGED <<executor, session, ctx, pc, error, redis, asked>>
      /\ o \in flight /\ flight' = flight \ {o} /\ (committed' = committed \cup {o} \/ committed' = committed)
  BY DEF Land, Publish, worker, RInv
<1>2. ExecutorInv' /\ \A p \in Ops : Task(p)' <=> Task(p)
  BY <1>1, ExecutorStays
<1>3. Typed'
  BY <1>1 DEF Typed
<1>4. \A p \in Ops \ {o} : Same(p)
  BY <1>1, <1>2 DEF Same
<1>5. OpInv(o)'
  <2>1. /\ ~Unpublished(o) /\ o \notin asked /\ ~Refused(o)
        /\ pc[o] \notin {"new", "queued", "prepare", "build", "begin", "commit"}
    BY <1>1 DEF OpInv, Unpublished
  <2>2. ~Refused(o)' /\ (o \in committed => o \in committed')
    BY <1>1, <2>1 DEF Refused
  <2> QED BY <1>1, <1>2, <2>1, <2>2 DEF OpInv, Unfinished
<1>6. \A p \in Ops : OpInv(p)'
  BY <1>4, <1>5, SameOp DEF RInv
<1>7. Grows(o)
  <2>1. MayPublish(o) /\ ~Unpublished(o)
    BY <1>1 DEF MayPublish, Unpublished
  <2>2. o \in committed => o \in committed'
    BY <1>1
  <2> QED BY <1>1, <1>2, <2>1, <2>2, GrowsIf
<1>8. \A p \in Ops : Grows(p)
  BY <1>4, <1>7, SameGrows
<1>9. RecordsTyped' /\ RecordInv'
  BY <1>1, <1>8, RecordsKept
<1> QED BY <1>2, <1>3, <1>6, <1>9 DEF RInv

LEMMA LoseRecordKeeps == ASSUME ReplacementAssumption, RInv, NEW g \in Games, LoseRecord(g) PROVE RInv'
<1>1. /\ ExecutorInv /\ Typed /\ RecordsTyped /\ RecordInv
      /\ UNCHANGED <<executor, session, ctx, pc, error, committed, flight, asked>>
      /\ redis' = [redis EXCEPT ![g] = None]
  BY DEF LoseRecord, worker, database, RInv
<1>2. ExecutorInv' /\ \A p \in Ops : Task(p)' <=> Task(p)
  BY <1>1, ExecutorStays
<1>3. Typed'
  BY <1>1 DEF Typed
<1>4. \A p \in Ops : Same(p)
  BY <1>1, <1>2 DEF Same
<1>5. \A p \in Ops : OpInv(p)' /\ Grows(p)
  BY <1>4, SameOp, SameGrows DEF RInv
<1>6. RecordsTyped'
  BY <1>1 DEF RecordsTyped
<1>7. RecordInv'
  <2>1. ASSUME NEW h \in Games, redis'[h] # None
        PROVE  GameOf[redis'[h].op] = h /\ RecordOf(redis[h].op, redis[h].session)'
    <3>1. h # g /\ redis'[h] = redis[h]
      BY <1>1, <2>1 DEF RecordsTyped
    <3>2. PICK p, s : p = redis[h].op /\ s = redis[h].session
      OBVIOUS
    <3>3. p \in Ops /\ s \in Session
      BY <1>1, <2>1, <3>1, <3>2 DEF RecordsTyped, Records
    <3>4. GameOf[p] = h /\ RecordOf(p, s)
      BY <1>1, <2>1, <3>1, <3>2 DEF RecordInv
    <3>5. RecordOf(p, s)'
      BY <1>5, <3>3, <3>4 DEF Grows
    <3>6. redis'[h].op = p /\ redis'[h].session = s
      BY <3>1, <3>2
    <3> QED BY <3>4, <3>5, <3>6
  <2> QED BY <2>1 DEF RecordInv
<1> QED BY <1>2, <1>3, <1>5, <1>6, <1>7 DEF RInv

(* The record of a task that left, or was never known to this process.          *)
LEMMA Settled ==
  ASSUME ReplacementAssumption, RInv, NEW g \in Games, byGame[g] = None, redis[g] # None
  PROVE  /\ redis[g].op \in Ops /\ redis[g].session \in Session
         /\ GameOf[redis[g].op] = g /\ RecordOf(redis[g].op, redis[g].session) /\ ~Task(redis[g].op)
<1>1. redis[g] \in Records /\ GameOf[redis[g].op] = g /\ RecordOf(redis[g].op, redis[g].session)
  BY DEF RInv, RecordsTyped, RecordInv
<1>2. redis[g].op \in Ops /\ redis[g].session \in Session
  BY <1>1 DEF Records
<1>3. ~Task(redis[g].op)
  BY <1>1, <1>2 DEF Task, ReplacementAssumption
<1> QED BY <1>1, <1>2, <1>3

LEMMA QueryKeeps == ASSUME ReplacementAssumption, RInv, NEW g \in Games, Query(g) PROVE RInv'
<1>1. /\ ExecutorInv /\ Typed /\ RecordsTyped /\ RecordInv
      /\ UNCHANGED <<executor, session, ctx, pc, error, committed, flight, asked>>
      /\ byGame[g] = None /\ redis[g] # None
  BY DEF Query, worker, database, RInv
<1>2. ExecutorInv' /\ \A p \in Ops : Task(p)' <=> Task(p)
  BY <1>1, ExecutorStays
<1>3. Typed'
  BY <1>1 DEF Typed
<1>4. \A p \in Ops : Same(p)
  BY <1>1, <1>2 DEF Same
<1>5. \A p \in Ops : OpInv(p)' /\ Grows(p)
  BY <1>4, SameOp, SameGrows DEF RInv
<1>6. PICK o, u, s : o = redis[g].op /\ u = redis[g].session /\ s = Reconciled(o, u)
  OBVIOUS
<1>7. o \in Ops /\ u \in Session /\ GameOf[o] = g /\ RecordOf(o, u) /\ ~Task(o)
  BY <1>1, <1>6, Settled
<1>8. /\ s \in Session /\ s.file = u.file /\ s.status \in {"completed", "interrupted"}
      /\ s.status = "completed" => o \in committed
  BY <1>6, <1>7 DEF Reconciled, Session, Ended
<1>9. RecordOf(o, s)'
  <2>1. MayPublish(o)' <=> MayPublish(o)
    BY <1>1 DEF MayPublish
  <2> QED BY <1>1, <1>2, <1>7, <1>8, <2>1 DEF RecordOf, Unfinished
<1>10. RecordsTyped' /\ RecordInv'
  <2>1. CASE Saved(o, s)
    BY <1>1, <1>5, <1>7, <1>8, <1>9, <2>1, RecordSaved
  <2>2. CASE redis' = redis
    BY <1>1, <1>5, <2>2, RecordsKept
  <2>3. Save(o, s)
    BY <1>6 DEF Query
  <2> QED BY <2>1, <2>2, <2>3 DEF Save, SaveFails
<1> QED BY <1>2, <1>3, <1>5, <1>10 DEF RInv

(* Every task is gone, and only what was being published may be published.       *)
LEMMA CrashKeeps == ASSUME ReplacementAssumption, RInv, Crash PROVE RInv'
<1>1. /\ ExecutorInv /\ Typed /\ RecordsTyped /\ RecordInv
      /\ active' = None /\ queue' = <<>> /\ byGame' = [g \in Games |-> None]
      /\ pc' = [o \in Ops |-> IF Task(o) THEN "ended" ELSE pc[o]]
      /\ redis' = redis /\ asked' = asked
      /\ Forget({o \in Ops : Task(o)}) /\ CutOff({o \in Ops : Executed(o)})
  BY DEF Crash, RInv
<1>2. \A p \in Ops : pc'[p] \in {"new", "ended"} /\ (Task(p) => pc'[p] = "ended") /\ (~Task(p) => pc'[p] = pc[p])
  BY <1>1 DEF ExecutorInv
<1>3. \A p \in Ops : ~Task(p)'
  BY <1>1 DEF Task, ReplacementAssumption
<1>4. ExecutorInv'
  <2>1. byGame' \in [Games -> Ops \cup {None}] /\ queue' \in Seq(Ops) /\ Len(queue') = 0
    BY <1>1, EmptySeq
  <2>2. \A p \in Ops : active' # p
    BY <1>1 DEF ReplacementAssumption
  <2> QED BY <1>2, <1>3, <2>1, <2>2 DEF ExecutorInv, Resting
<1>5. /\ session' \in [Ops -> Session] /\ ctx' \in [Ops -> Contexts] /\ error' \in [Ops -> Errors]
      /\ \A p \in Ops : session'[p] = Queued \/ session'[p] = session[p]
  BY <1>1 DEF Forget, Typed, Queued, Session, Contexts, Errors
<1>6. pc' \in [Ops -> Phases]
  BY <1>1 DEF Typed, Phases
<1>7. Typed'
  BY <1>5, <1>6 DEF Typed
<1>8. PICK applied, late \in SUBSET {o \in Ops : Executed(o)} :
        committed' = committed \cup applied /\ flight' = flight \cup late
  BY <1>1, CutOffAdds
<1>9. /\ \A p \in Ops : pc[p] # "commit" => (Unpublished(p)' <=> Unpublished(p))
      /\ \A p \in Ops : p \in committed => p \in committed'
      /\ \A p \in Ops : (p \in committed' \/ p \in flight') => MayPublish(p)
  BY <1>8 DEF Executed, Unpublished, MayPublish
<1>10. ASSUME NEW p \in Ops PROVE OpInv(p)' /\ Grows(p)
  <2>1. OpInv(p)
    BY DEF RInv
  <2>2. pc'[p] = "new" => Unpublished(p)'
    BY <1>2, <1>9, <2>1 DEF OpInv
  <2>3. p \in asked' => Unpublished(p)' /\ pc'[p] = "ended"
    <3>1. p \in asked => Unpublished(p) /\ pc[p] \notin {"commit", "new"}
      BY <2>1 DEF OpInv, Refused
    <3> QED BY <1>1, <1>2, <1>9, <3>1
  <2>4. Unfinished(session'[p]) /\ (session'[p].status = "canceling" => p \in asked')
    BY <1>1, <1>5, <2>1 DEF OpInv, Queued, Unfinished
  <2>5. OpInv(p)'
    BY <1>2, <1>3, <2>2, <2>3, <2>4 DEF OpInv, Refused, Unfinished
  <2>6. MayPublish(p)' => MayPublish(p)
    BY <1>2, <1>9 DEF MayPublish
  <2>7. pc[p] = "ended" /\ Unpublished(p) => pc'[p] = "ended" /\ Unpublished(p)'
    BY <1>2, <1>9
  <2>8. pc[p] # "new" => pc'[p] # "new"
    BY <1>2
  <2>9. Grows(p)
    BY <1>1, <1>3, <1>9, <2>6, <2>7, <2>8, GrowsIf
  <2> QED BY <2>5, <2>9
<1>11. RecordsTyped' /\ RecordInv'
  BY <1>1, <1>10, RecordsKept
<1> QED BY <1>4, <1>7, <1>10, <1>11 DEF RInv

-----------------------------------------------------------------------------
LEMMA RInvInit == ReplacementAssumption /\ Init => RInv
<1> SUFFICES ASSUME ReplacementAssumption, Init PROVE RInv
  OBVIOUS
<1>1. ExecutorInv
  <2>1. byGame \in [Games -> Ops \cup {None}] /\ queue \in Seq(Ops) /\ Len(queue) = 0
    BY EmptySeq DEF Init
  <2>2. \A p \in Ops : ~Task(p) /\ active # p /\ pc[p] = "new"
    BY DEF Init, Task, ReplacementAssumption
  <2> QED BY <2>1, <2>2 DEF ExecutorInv, Resting
<1>2. Typed
  BY DEF Init, Typed, Queued, Session, Contexts, Errors, Phases
<1>3. RecordsTyped /\ RecordInv
  BY DEF Init, RecordsTyped, RecordInv
<1>4. ASSUME NEW o \in Ops PROVE OpInv(o)
  <2>1. pc[o] = "new" /\ session[o].status = "queued" /\ o \notin committed \cup flight \cup asked
    BY DEF Init, Queued
  <2>2. ~Task(o)
    BY DEF Init, Task, ReplacementAssumption
  <2> QED BY <2>1, <2>2 DEF OpInv, Unpublished, Refused, Unfinished
<1> QED BY <1>1, <1>2, <1>3, <1>4 DEF RInv

LEMMA RInvStep == ReplacementAssumption /\ RInv /\ [Next]_vars => RInv'
<1> SUFFICES ASSUME ReplacementAssumption, RInv, [Next]_vars PROVE RInv'
  OBVIOUS
<1>1. ASSUME NEW o \in Ops, Enqueue(o) PROVE RInv'
  BY <1>1, EnqueueKeeps
<1>2. ASSUME NEW o \in Ops, Run(o) PROVE RInv'
  BY <1>2, PrepareKeeps, BuildKeeps, BeginKeeps, CommitKeeps, RollBackKeeps, LoseReplyKeeps, ConfirmKeeps,
     FinishKeeps DEF Run
<1>3. ASSUME NEW o \in Ops, Land(o) \/ Cancel(o) \/ Deadline(o) \/ Expire(o) PROVE RInv'
  BY <1>3, LandKeeps, CancelKeeps, DeadlineKeeps, ExpireKeeps
<1>4. ASSUME NEW g \in Games, Query(g) \/ Edit(g) \/ LoseRecord(g) PROVE RInv'
  BY <1>4, QueryKeeps, OthersKeep, LoseRecordKeeps
<1>5. ASSUME Shutdown \/ Exit \/ Crash \/ Restart PROVE RInv'
  BY <1>5, ShutdownKeeps, OthersKeep, CrashKeeps
<1>6. ASSUME UNCHANGED vars PROVE RInv'
  <2>1. UNCHANGED <<executor, session, pc, error, redis, committed, flight, asked>> /\ ctx' = ctx
    BY <1>6 DEF vars, worker, database
  <2>2. ctx \in [Ops -> Contexts]
    BY DEF RInv, Typed
  <2> QED BY <2>1, <2>2, Stands
<1> QED BY <1>1, <1>2, <1>3, <1>4, <1>5, <1>6 DEF Next

(* The step that saves a record over one of the same operation finds that record *)
(* unsettled, or is one of the operation's own goroutine.                       *)
LEMMA FinalStep ==
  ASSUME ReplacementAssumption, RInv, Next PROVE ResultsFinal
<1> SUFFICES ASSUME NEW g \in Games, redis[g] # None, ~Unsettled(redis[g].session),
                    redis'[g] # None, redis'[g].op = redis[g].op, redis'[g] # redis[g]
             PROVE  FALSE
  BY DEF ResultsFinal
<1>1. PICK o, s : o = redis[g].op /\ s = redis[g].session
  OBVIOUS
<1>2. /\ o \in Ops /\ s \in Session /\ GameOf[o] = g /\ s.status \in Ended /\ pc[o] # "new"
      /\ Task(o) => Unfinished(s)
  <2>1. redis[g] \in Records /\ GameOf[o] = g /\ RecordOf(o, s)
    BY <1>1 DEF RInv, RecordsTyped, RecordInv
  <2> QED BY <1>1, <2>1 DEF Records, RecordOf, Unsettled
<1>3. ~Task(o) /\ pc[o] = "ended"
  <2>1. ~Task(o)
    BY <1>2 DEF Unfinished, Ended
  <2> QED BY <1>2, <2>1 DEF RInv, ExecutorInv
<1>4. GameOf \in [Ops -> Games] /\ redis \in [Games -> Records \cup {None}]
  BY DEF ReplacementAssumption, RInv, RecordsTyped
<1>5. ASSUME NEW p \in Ops, NEW t, Saved(p, t) PROVE p = o
  <2>1. redis' = [redis EXCEPT ![GameOf[p]] = [op |-> p, session |-> t]] /\ GameOf[p] \in Games
    BY <1>4, <1>5 DEF Saved
  <2>2. GameOf[p] = g
    BY <1>4, <2>1
  <2>3. redis'[g].op = p
    BY <1>4, <2>1, <2>2
  <2> QED BY <1>1, <2>3
<1>6. ASSUME NEW p \in Ops, Task(p), NEW t, Save(p, t) PROVE FALSE
  <2>1. Saved(p, t)
    BY <1>6 DEF Save, SaveFails
  <2> QED BY <1>3, <1>5, <1>6, <2>1
<1>7. ASSUME NEW p \in Ops, pc[p] \in {"prepare", "begin", "finish"} PROVE Task(p)
  BY <1>7 DEF RInv, ExecutorInv
<1>8. ASSUME NEW p \in Ops, Enqueue(p) PROVE FALSE
  <2>1. PICK t : Saved(p, t)
    BY <1>8 DEF Enqueue, SaveFails
  <2>2. pc[p] = "new"
    BY <1>8 DEF Enqueue
  <2> QED BY <1>3, <1>5, <2>1, <2>2
<1>9. ASSUME NEW p \in Ops, Prepare(p) \/ Begin(p) \/ Finish(p) PROVE FALSE
  <2>1. pc[p] \in {"prepare", "begin", "finish"}
    BY <1>9 DEF Prepare, Begin, Finish
  <2>2. PICK t : Save(p, t)
    BY <1>9 DEF Prepare, Begin, Finish, FinishTask, Save
  <2> QED BY <1>6, <1>7, <2>1, <2>2
<1>10. ASSUME NEW p \in Ops, Cancel(p) \/ Expire(p) PROVE FALSE
  <2>1. Task(p) /\ \E t : Save(p, t)
    BY <1>10 DEF Cancel, Expire, FinishTask
  <2> QED BY <1>6, <2>1
<1>11. ASSUME NEW h \in Games, Query(h) PROVE FALSE
  <2>1. redis[h] # None /\ byGame[h] = None /\ Unsettled(redis[h].session)
    BY <1>11 DEF Query
  <2>2. redis[h].op \in Ops /\ GameOf[redis[h].op] = h
    BY <2>1, Settled
  <2>3. \E t : Saved(redis[h].op, t)
    BY <1>11 DEF Query, Save, SaveFails
  <2>4. redis[h].op = o
    BY <1>5, <2>2, <2>3
  <2> QED BY <1>2, <2>1, <2>2, <2>4
<1>12. ASSUME NEW h \in Games, LoseRecord(h) PROVE FALSE
  BY <1>4, <1>12 DEF LoseRecord
<1>13. redis' # redis
  OBVIOUS
<1> QED BY <1>8, <1>9, <1>10, <1>11, <1>12, <1>13
        DEF Next, Run, Build, Commit, RollBack, LoseReply, Confirm, Land, Deadline, Edit, Shutdown, Exit,
            Crash, Restart

-----------------------------------------------------------------------------
(* Who waits is in the queue, and nobody waits while nothing runs.             *)

Holds(w, o) == \E i \in 1 .. Len(w) : w[i] = o
QueueInv ==
  /\ active \in Ops \cup {None} /\ Len(queue) <= QueueLimit
  /\ active = None => queue = <<>>
  /\ \A o \in Ops : pc[o] = "queued" => Holds(queue, o)

LEMMA QueueStays ==
  ASSUME QueueInv, UNCHANGED executor, \A o \in Ops : pc'[o] = "queued" => pc[o] = "queued" PROVE QueueInv'
BY DEF QueueInv, executor, Holds

LEMMA WithoutHolds ==
  ASSUME ExecutorInv, NEW o \in Ops
  PROVE  /\ Len(Without(o)) <= Len(queue)
         /\ \A p \in Ops \ {o} : Holds(queue, p) => Holds(Without(o), p)
<1>1. /\ queue \in Seq(Ops) /\ Len(queue) \in Nat /\ DOMAIN queue = 1 .. Len(queue)
  BY LenProperties DEF ExecutorInv
<1>2. CASE Places(o) = {}
  <2>1. Without(o) = queue
    BY <1>2 DEF Without
  <2> QED BY <1>1, <2>1
<1>3. CASE Places(o) # {}
  <2>1. PICK i \in 1 .. Len(queue) : queue[i] = o /\ Without(o) = RemoveAt(queue, i)
    <3>1. (CHOOSE i \in Places(o) : TRUE) \in Places(o)
      BY <1>3
    <3> QED BY <1>1, <1>3, <3>1 DEF Without, Places
  <2> DEFINE w == RemoveAt(queue, i)
  <2>2. /\ Len(w) = Len(queue) - 1
        /\ \A k \in 1 .. Len(queue) - 1 : w[k] = queue[IF k < i THEN k ELSE k + 1]
    <3>1. queue \in Seq(Ops)
      BY <1>1
    <3> QED BY <3>1, RemovedAt, Zenon
  <2> HIDE DEF w
  <2>3. ASSUME NEW p \in Ops \ {o}, NEW j \in 1 .. Len(queue), queue[j] = p PROVE Holds(w, p)
    <3>1. j # i
      BY <2>1, <2>3
    <3>2. CASE j < i
      <4>1. j \in 1 .. Len(queue) - 1
        BY <1>1, <3>2
      <4>2. j \in 1 .. Len(w) /\ w[j] = p
        BY <2>2, <2>3, <3>2, <4>1
      <4> QED BY <4>2 DEF Holds
    <3>3. CASE j > i
      <4>1. j - 1 \in 1 .. Len(queue) - 1 /\ ~(j - 1 < i) /\ (j - 1) + 1 = j
        BY <1>1, <3>3
      <4>2. j - 1 \in 1 .. Len(w) /\ w[j - 1] = p
        BY <2>2, <2>3, <4>1
      <4> QED BY <4>2 DEF Holds
    <3> QED BY <1>1, <3>1, <3>2, <3>3
  <2>4. Len(w) <= Len(queue) /\ \A p \in Ops \ {o} : Holds(queue, p) => Holds(w, p)
    BY <1>1, <2>2, <2>3 DEF Holds
  <2> QED BY <2>1, <2>4 DEF w
<1> QED BY <1>2, <1>3

LEMMA LeavesQueue ==
  ASSUME ReplacementAssumption, RInv, QueueInv, NEW o \in Ops, Task(o), NEW err, NEW w, Waiting(w, o),
         Len(w) <= Len(queue), \A p \in Ops \ {o} : Holds(queue, p) => Holds(w, p), FinishTask(o, err, w)
  PROVE  QueueInv'
<1>1. /\ ExecutorInv /\ Typed /\ QueueLimit \in Nat /\ None \notin Ops
      /\ Len(queue) \in Nat /\ Len(queue) <= QueueLimit
  BY LenProperties DEF RInv, QueueInv, ReplacementAssumption, ExecutorInv
<1>2. /\ pc'[o] = "ended"
      /\ \A p \in Ops \ {o} : pc'[p] = pc[p] \/ (pc[p] = "queued" /\ pc'[p] = "prepare")
  BY <1>1, ExecutorFinishes
<1>3. \A p \in Ops : pc'[p] = "queued" => p # o /\ pc[p] = "queued" /\ Holds(w, p)
  BY <1>2 DEF QueueInv
<1>4. w \in Seq(Ops) /\ Len(w) \in Nat /\ Len(w) <= QueueLimit
  <2>1. w \in Seq(Ops)
    BY DEF Waiting
  <2>2. Len(w) \in Nat
    BY <2>1, LenProperties
  <2> QED BY <1>1, <2>1, <2>2
<1>5. CASE active # o
  <2>1. active' = active /\ queue' = w
    BY <1>5 DEF FinishTask
  <2>2. active # None
    <3>1. pc[o] = "queued"
      BY <1>1, <1>5 DEF ExecutorInv, Resting
    <3>2. Holds(queue, o)
      BY <3>1 DEF QueueInv
    <3> QED BY <3>2, EmptySeq DEF Holds, QueueInv
  <2> QED BY <1>3, <1>4, <2>1, <2>2 DEF QueueInv
<1>6. CASE active = o /\ w = <<>>
  <2>1. active' = None /\ queue' = w
    BY <1>6 DEF FinishTask
  <2> QED BY <1>3, <1>4, <1>6, <2>1 DEF QueueInv
<1>7. CASE active = o /\ w # <<>>
  <2>1. PICK h, t : h = Head(w) /\ t = Tail(w)
    OBVIOUS
  <2>2. active' = h /\ queue' = t /\ pc' = [pc EXCEPT ![o] = "ended", ![h] = "prepare"]
    BY <1>7, <2>1 DEF FinishTask
  <2>3. h \in Ops
    BY <1>7, <2>1, WaitingTail
  <2>4. Len(w) # 0 /\ h = w[1] /\ Len(t) = Len(w) - 1 /\ \A i \in 1 .. Len(w) - 1 : t[i] = w[i + 1]
    BY <1>4, <1>7, <2>1, HeadTailProperties, EmptySeq
  <2>5. pc'[h] = "prepare"
    BY <1>1, <2>2, <2>3 DEF Typed
  <2>6. ASSUME NEW p \in Ops, pc'[p] = "queued" PROVE Holds(t, p)
    <3>1. PICK i \in 1 .. Len(w) : w[i] = p
      BY <1>3, <2>6 DEF Holds
    <3>2. i # 1
      BY <2>4, <2>5, <2>6, <3>1
    <3>3. i - 1 \in 1 .. Len(w) - 1 /\ (i - 1) + 1 = i
      BY <1>4, <3>2
    <3>4. i - 1 \in 1 .. Len(t) /\ t[i - 1] = p
      BY <2>4, <3>1, <3>3
    <3> QED BY <3>4 DEF Holds
  <2>7. Len(t) <= QueueLimit
    BY <1>1, <1>4, <2>4
  <2> QED BY <1>1, <2>2, <2>3, <2>6, <2>7 DEF QueueInv
<1> QED BY <1>5, <1>6, <1>7

LEMMA EnqueueQueue == ASSUME ReplacementAssumption, RInv, QueueInv, NEW o \in Ops, Enqueue(o) PROVE QueueInv'
<1>1. /\ queue \in Seq(Ops) /\ Len(queue) \in Nat /\ QueueLimit \in Nat /\ None \notin Ops
      /\ pc \in [Ops -> Phases] /\ pc[o] = "new" /\ active \in Ops \cup {None}
      /\ active = None \/ Len(queue) < QueueLimit
  BY LenProperties DEF RInv, ExecutorInv, Typed, ReplacementAssumption, Enqueue, QueueInv
<1>2. CASE UNCHANGED executor /\ Goto(o, "ended")
  <2>1. \A p \in Ops : pc'[p] = "queued" => pc[p] = "queued"
    BY <1>1, <1>2 DEF Goto
  <2> QED BY <1>2, <2>1, QueueStays
<1>3. CASE active = None /\ active' = o /\ queue' = queue /\ Goto(o, "prepare")
  <2>1. \A p \in Ops : pc'[p] = "queued" => pc[p] = "queued"
    BY <1>1, <1>3 DEF Goto
  <2> QED BY <1>1, <1>3, <2>1 DEF QueueInv
<1>4. CASE active # None /\ active' = active /\ queue' = Append(queue, o) /\ Goto(o, "queued")
  <2>1. PICK w : w = Append(queue, o)
    OBVIOUS
  <2>2. /\ Len(w) = Len(queue) + 1 /\ w[Len(queue) + 1] = o /\ \A i \in 1 .. Len(queue) : w[i] = queue[i]
    BY <1>1, <2>1, AppendProperties
  <2>3. ASSUME NEW p \in Ops, pc'[p] = "queued" PROVE Holds(w, p)
    <3>1. CASE p = o
      <4>1. Len(w) \in 1 .. Len(w) /\ w[Len(w)] = o
        BY <1>1, <2>2
      <4> QED BY <3>1, <4>1 DEF Holds
    <3>2. CASE p # o
      <4>1. Holds(queue, p)
        BY <1>1, <1>4, <2>3, <3>2 DEF Goto, QueueInv
      <4>2. \A i \in 1 .. Len(queue) : i \in 1 .. Len(w)
        BY <1>1, <2>2
      <4> QED BY <2>2, <4>1, <4>2 DEF Holds
    <3> QED BY <3>1, <3>2
  <2>4. Len(w) <= QueueLimit
    BY <1>1, <1>4, <2>2
  <2> QED BY <1>1, <1>4, <2>1, <2>3, <2>4 DEF QueueInv
<1> QED BY <1>2, <1>3, <1>4 DEF Enqueue

LEMMA QueueStep == ReplacementAssumption /\ RInv /\ QueueInv /\ [Next]_vars => QueueInv'
<1> SUFFICES ASSUME ReplacementAssumption, RInv, QueueInv, [Next]_vars PROVE QueueInv'
  OBVIOUS
<1>1. ExecutorInv /\ pc \in [Ops -> Phases]
  BY DEF RInv, Typed
<1>2. ASSUME NEW o \in Ops, Finish(o) PROVE QueueInv'
  <2>1. pc[o] = "finish" /\ FinishTask(o, error[o], queue)
    BY <1>2 DEF Finish
  <2>2. Task(o) /\ Waiting(queue, o) /\ Len(queue) <= Len(queue)
    BY <1>1, <2>1, WaitingElse, LenProperties DEF ExecutorInv
  <2> QED BY <2>1, <2>2, LeavesQueue
<1>3. ASSUME NEW o \in Ops, Task(o), NEW err, FinishTask(o, err, Without(o)) PROVE QueueInv'
  BY <1>1, <1>3, WaitingWithout, WithoutHolds, LeavesQueue
<1>4. ASSUME NEW o \in Ops, NEW to \in Phases \ {"queued"}, Goto(o, to), UNCHANGED executor PROVE QueueInv'
  <2>1. \A p \in Ops : pc'[p] = "queued" => pc[p] = "queued"
    BY <1>1, <1>4 DEF Goto
  <2> QED BY <1>4, <2>1, QueueStays
<1>5. ASSUME NEW o \in Ops, Prepare(o) \/ Build(o) \/ Begin(o) \/ Commit(o) \/ RollBack(o) \/ LoseReply(o) \/ Confirm(o)
      PROVE  QueueInv'
  <2>1. UNCHANGED executor
    BY <1>5 DEF Prepare, Build, Begin, Commit, RollBack, LoseReply, Confirm
  <2>2. \E to \in Phases \ {"queued"} : Goto(o, to)
    BY <1>5 DEF Prepare, Build, Begin, Commit, RollBack, LoseReply, Confirm, Fail, Phases
  <2> QED BY <1>4, <2>1, <2>2
<1>6. ASSUME UNCHANGED <<executor, pc>> PROVE QueueInv'
  BY <1>6, QueueStays
<1>7. ASSUME NEW o \in Ops, Cancel(o) \/ Expire(o) PROVE QueueInv'
  <2>1. Task(o) /\ (UNCHANGED <<executor, pc>> \/ \E err : FinishTask(o, err, Without(o)))
    BY <1>7 DEF Cancel, Expire, worker
  <2> QED BY <1>3, <1>6, <2>1
<1>8. ASSUME NEW o \in Ops, Land(o) \/ Deadline(o) PROVE QueueInv'
  BY <1>6, <1>8 DEF Land, Deadline, worker
<1>9. ASSUME NEW g \in Games, Query(g) \/ Edit(g) \/ LoseRecord(g) PROVE QueueInv'
  BY <1>6, <1>9 DEF Query, Edit, LoseRecord, worker
<1>10. CASE Shutdown \/ Exit \/ Restart \/ UNCHANGED vars
  BY <1>6, <1>10 DEF Shutdown, Exit, Restart, vars, worker
<1>11. CASE Crash
  <2>1. active' = None /\ queue' = <<>> /\ \A o \in Ops : pc'[o] = IF Task(o) THEN "ended" ELSE pc[o]
    BY <1>11 DEF Crash
  <2>2. \A o \in Ops : pc'[o] # "queued"
    BY <1>1, <2>1 DEF ExecutorInv
  <2>3. Len(queue') <= QueueLimit
    BY <2>1, EmptySeq DEF ReplacementAssumption
  <2> QED BY <2>1, <2>2, <2>3 DEF QueueInv
<1> QED BY EnqueueQueue, <1>2, <1>5, <1>7, <1>8, <1>9, <1>10, <1>11 DEF Next, Run

LEMMA QueueInit == ReplacementAssumption /\ Init => QueueInv
BY EmptySeq DEF ReplacementAssumption, Init, QueueInv

(* The types of what the invariant above does not mention.                      *)
RestTyped ==
  /\ version \in [Games -> Nat] /\ base \in [Ops -> Nat]
  /\ committed \in SUBSET Ops /\ flight \in SUBSET Ops /\ asked \in SUBSET Ops
  /\ process \in {"up", "stopping", "down"} /\ faults \in 0..MaxFaults

LEMMA CutOffTyped ==
  ASSUME RestTyped, NEW sent \in SUBSET Ops, CutOff(sent)
  PROVE  version' \in [Games -> Nat] /\ committed' \in SUBSET Ops /\ flight' \in SUBSET Ops
BY DEF RestTyped, CutOff

LEMMA FaultTyped ==
  ASSUME ReplacementAssumption, RestTyped, Fault PROVE faults' \in 0..MaxFaults
BY DEF RestTyped, Fault, ReplacementAssumption

LEMMA ForgetTyped ==
  ASSUME RestTyped, NEW gone \in SUBSET Ops, Forget(gone) PROVE base' \in [Ops -> Nat]
BY DEF RestTyped, Forget

LEMMA RestStep == ReplacementAssumption /\ RestTyped /\ [Next]_vars => RestTyped'
<1> SUFFICES ASSUME ReplacementAssumption, RestTyped, [Next]_vars PROVE RestTyped'
  OBVIOUS
<1>1. ASSUME NEW o, NEW s, Save(o, s) PROVE faults' \in 0..MaxFaults
  BY <1>1, FaultTyped DEF Save, SaveFails, RestTyped
<1>2. ASSUME NEW o \in Ops, Enqueue(o) PROVE RestTyped'
  <2>1. UNCHANGED <<version, committed, flight, asked, process>>
    BY <1>2 DEF Enqueue, database
  <2>2. base' \in [Ops -> Nat]
    <3>1. version[GameOf[o]] \in Nat
      BY DEF ReplacementAssumption, RestTyped
    <3> QED BY <1>2, <3>1 DEF Enqueue, RestTyped
  <2>3. faults' \in 0..MaxFaults
    BY <1>2, FaultTyped DEF Enqueue, SaveFails, RestTyped
  <2> QED BY <2>1, <2>2, <2>3 DEF RestTyped
<1>3. ASSUME NEW o \in Ops, NEW err, NEW w, FinishTask(o, err, w), UNCHANGED <<database, process>>, asked' \in SUBSET Ops
      PROVE  RestTyped'
  <2>1. base' \in [Ops -> Nat] /\ faults' \in 0..MaxFaults
    BY <1>1, <1>3, ForgetTyped DEF FinishTask
  <2> QED BY <1>3, <2>1 DEF RestTyped, database
<1>4. ASSUME NEW o \in Ops, Finish(o) PROVE RestTyped'
  <2>1. asked' \in SUBSET Ops
    BY <1>4 DEF Finish, RestTyped
  <2> QED BY <1>3, <1>4, <2>1 DEF Finish
<1>5. ASSUME NEW o \in Ops, Prepare(o) \/ Build(o) \/ Begin(o) \/ RollBack(o) \/ Confirm(o) PROVE RestTyped'
  <2>1. UNCHANGED <<version, committed, flight, base, process, asked>>
    BY <1>5 DEF Prepare, Build, Begin, RollBack, Confirm, database
  <2>2. faults' \in 0..MaxFaults
    BY <1>5, FaultTyped DEF Prepare, Build, Begin, RollBack, Confirm, SaveFails, Disturbed, RestTyped
  <2> QED BY <2>1, <2>2 DEF RestTyped
<1>6. ASSUME NEW o \in Ops, Commit(o) \/ Land(o) PROVE RestTyped'
  <2>1. UNCHANGED <<base, process, asked, faults>> /\ flight' \in SUBSET Ops
    BY <1>6 DEF Commit, Land, RestTyped
  <2>2. version' \in [Games -> Nat] /\ committed' \in SUBSET Ops
    BY <1>6 DEF Commit, Land, Publish, RestTyped
  <2> QED BY <2>1, <2>2 DEF RestTyped
<1>7. ASSUME NEW o \in Ops, LoseReply(o) PROVE RestTyped'
  <2>1. version' \in [Games -> Nat] /\ committed' \in SUBSET Ops /\ flight' \in SUBSET Ops
    BY <1>7, CutOffTyped DEF LoseReply
  <2>2. faults' \in 0..MaxFaults
    BY <1>7, FaultTyped DEF LoseReply, Disturbed, RestTyped
  <2> QED BY <1>7, <2>1, <2>2 DEF LoseReply, RestTyped
<1>8. ASSUME NEW o \in Ops, Cancel(o) PROVE RestTyped'
  <2>1. asked' \in SUBSET Ops /\ UNCHANGED <<database, process>>
    BY <1>8 DEF Cancel, RestTyped
  <2>2. CASE UNCHANGED base /\ \E s : Save(o, s)
    BY <1>1, <2>1, <2>2 DEF RestTyped, database
  <2> QED BY <1>3, <1>8, <2>1, <2>2 DEF Cancel
<1>9. ASSUME NEW o \in Ops, Expire(o) PROVE RestTyped'
  <2>1. asked' \in SUBSET Ops
    BY <1>9 DEF Expire, RestTyped
  <2> QED BY <1>3, <1>9, <2>1 DEF Expire
<1>10. ASSUME NEW o \in Ops, Deadline(o) PROVE RestTyped'
  BY <1>10 DEF Deadline, RestTyped, database
<1>11. ASSUME NEW g \in Games, Query(g) PROVE RestTyped'
  <2>1. faults' \in 0..MaxFaults
    BY <1>1, <1>11 DEF Query
  <2> QED BY <1>11, <2>1 DEF Query, RestTyped, database
<1>12. ASSUME NEW g \in Games, Edit(g) PROVE RestTyped'
  <2>1. faults' \in 0..MaxFaults /\ version' \in [Games -> Nat]
    BY <1>12, FaultTyped DEF Edit, RestTyped
  <2> QED BY <1>12, <2>1 DEF Edit, RestTyped
<1>13. ASSUME NEW g \in Games, LoseRecord(g) PROVE RestTyped'
  <2>1. faults' \in 0..MaxFaults
    BY <1>13, FaultTyped DEF LoseRecord
  <2> QED BY <1>13, <2>1 DEF LoseRecord, RestTyped, database
<1>14. CASE Shutdown \/ Exit \/ Restart
  BY <1>14 DEF Shutdown, Exit, Restart, RestTyped, database
<1>15. CASE Crash
  <2>1. {o \in Ops : Executed(o)} \in SUBSET Ops /\ {o \in Ops : Task(o)} \in SUBSET Ops
    OBVIOUS
  <2>2. /\ version' \in [Games -> Nat] /\ committed' \in SUBSET Ops /\ flight' \in SUBSET Ops
        /\ base' \in [Ops -> Nat] /\ faults' \in 0..MaxFaults
    BY <1>15, <2>1, CutOffTyped, ForgetTyped, FaultTyped DEF Crash
  <2> QED BY <1>15, <2>2 DEF Crash, RestTyped
<1>16. CASE UNCHANGED vars
  BY <1>16 DEF vars, database, RestTyped
<1> QED BY <1>2, <1>4, <1>5, <1>6, <1>7, <1>8, <1>9, <1>10, <1>11, <1>12, <1>13, <1>14, <1>15, <1>16 DEF Next, Run

LEMMA RestInit == ReplacementAssumption /\ Init => RestTyped
BY DEF ReplacementAssumption, Init, RestTyped

(* Everything the theorems below need.                                         *)
IInv == RInv /\ QueueInv /\ RestTyped

LEMMA IInvInit == ReplacementAssumption /\ Init => IInv
BY RInvInit, QueueInit, RestInit DEF IInv

LEMMA IInvStep == ReplacementAssumption /\ IInv /\ [Next]_vars => IInv'
BY RInvStep, QueueStep, RestStep DEF IInv

LEMMA IInvAlways == ASSUME ReplacementAssumption PROVE Spec => []IInv
BY IInvInit, IInvStep, PTL DEF Spec

-----------------------------------------------------------------------------
(* What the invariant says.                                                    *)

LEMMA SaysTypeOK == IInv => TypeOK
<1> SUFFICES ASSUME RInv, QueueInv, RestTyped PROVE TypeOK
  BY DEF IInv
<1>1. /\ session \in [Ops -> Session] /\ ctx \in [Ops -> {"live", "canceled", "deadline"}]
      /\ pc \in [Ops -> {"new", "queued", "prepare", "build", "begin", "commit", "confirm", "finish", "ended"}]
      /\ error \in [Ops -> {"none", "canceled", "deadline", "uncertain", "other"}]
  BY DEF RInv, Typed, Contexts, Phases, Errors
<1>2. \A g \in Games : redis[g] # None => redis[g] \in [op : Ops, session : Session]
  BY DEF RInv, RecordsTyped, Records
<1>3. active \in Ops \cup {None} /\ queue \in Seq(Ops) /\ Len(queue) <= QueueLimit /\ byGame \in [Games -> Ops \cup {None}]
  BY DEF RInv, ExecutorInv, QueueInv
<1> QED BY <1>1, <1>2, <1>3 DEF RestTyped, TypeOK

LEMMA SaysExecutorAgrees == ReplacementAssumption /\ IInv => ExecutorAgrees
<1> SUFFICES ASSUME ReplacementAssumption, RInv, QueueInv PROVE ExecutorAgrees
  BY DEF IInv
<1> DEFINE waiting == {queue[i] : i \in DOMAIN queue}
           running == {active} \ {None}
<1>1. /\ ExecutorInv /\ queue \in Seq(Ops) /\ DOMAIN queue = 1 .. Len(queue) /\ None \notin Ops
      /\ \A i \in 1 .. Len(queue) : queue[i] \in Ops /\ pc[queue[i]] = "queued"
  BY LenProperties, ElementOfSeq DEF RInv, ExecutorInv, ReplacementAssumption
<1>2. waiting = {o \in Ops : pc[o] = "queued"}
  BY <1>1 DEF QueueInv, Holds
<1>3. running = {o \in Ops : pc[o] \notin Resting}
  BY <1>1 DEF QueueInv, ExecutorInv
<1>4. {o \in Ops : Task(o)} = running \cup waiting
  BY <1>1, <1>2, <1>3 DEF ExecutorInv, Resting
<1>5. running \cap waiting = {}
  BY <1>2, <1>3 DEF Resting
<1>6. IsInjective(queue)
  BY <1>1 DEF ExecutorInv, IsInjective
<1>7. running = {} => waiting = {}
  <2>1. running = {} => queue = <<>>
    BY <1>1 DEF QueueInv
  <2> QED BY <1>1, <2>1, EmptySeq
<1> QED BY <1>3, <1>4, <1>5, <1>6, <1>7 DEF ExecutorAgrees, Resting

LEMMA SaysTruthful == IInv => Truthful
<1> SUFFICES ASSUME RInv PROVE Truthful
  BY DEF IInv
<1>1. ASSUME NEW o \in Ops, Task(o) PROVE TruthOf(o, session[o])
  <2>1. OpInv(o)
    BY DEF RInv
  <2> QED BY <2>1 DEF OpInv, Unpublished, Unfinished, TruthOf
<1>2. ASSUME NEW g \in Games, redis[g] # None PROVE TruthOf(redis[g].op, redis[g].session)
  <2>1. PICK o, s : o = redis[g].op /\ s = redis[g].session
    OBVIOUS
  <2>2. o \in Ops /\ RecordOf(o, s)
    BY <1>2, <2>1 DEF RInv, RecordsTyped, Records, RecordInv
  <2>3. s.status = "canceling" => Unpublished(o)
    BY <2>2 DEF RecordOf, RInv, OpInv
  <2>4. TruthOf(o, s)
    BY <2>2, <2>3 DEF RecordOf, Unpublished, TruthOf
  <2> QED BY <2>1, <2>4
<1> QED BY <1>1, <1>2 DEF Truthful

LEMMA SaysCancelHonoured == IInv => CancelHonoured
<1> SUFFICES ASSUME RInv, NEW o \in asked, o \in Ops PROVE o \notin committed \cup flight
  BY DEF CancelHonoured, IInv, RestTyped
<1> QED BY DEF RInv, OpInv, Unpublished

LEMMA SaysRecoverable == IInv => Recoverable
<1> SUFFICES ASSUME RInv, NEW g \in Games, redis[g] # None, redis[g].op \in committed \cup flight
             PROVE  redis[g].session.file
  BY DEF Recoverable, IInv
<1>1. RecordOf(redis[g].op, redis[g].session)
  BY DEF RInv, RecordInv
<1> QED BY <1>1 DEF RecordOf, MayPublish

LEMMA SaysResultsFinal == ReplacementAssumption /\ IInv /\ [Next]_vars => ResultsFinal \/ UNCHANGED vars
BY FinalStep DEF IInv

-----------------------------------------------------------------------------
(* Theorems.                                                                   *)

(* The state of the executor, of its records and of the database has its type. *)
THEOREM ReplacementTypeOK == ASSUME ReplacementAssumption PROVE Spec => []TypeOK
BY IInvAlways, SaysTypeOK, PTL

(* What the executor knows of its tasks is what they are doing: the active one  *)
(* has a goroutine, the others are in the queue, once, and wait for something    *)
(* (finishReplacementTask).                                                    *)
THEOREM ExecutorKnowsItsTasks == ASSUME ReplacementAssumption PROVE Spec => []ExecutorAgrees
BY IInvAlways, SaysExecutorAgrees, PTL

(* A client that reads the progress of a replacement, from the task or from its *)
(* record, is told the truth (finishReplacementTask, reconcileReplacement): what *)
(* is completed is published, and what failed or was cancelled is not and will   *)
(* not be.                                                                    *)
THEOREM ReportsAreTrue == ASSUME ReplacementAssumption PROVE Spec => []Truthful
BY IInvAlways, SaysTruthful, PTL

(* A cancellation that was accepted (CancelReplacement) is honoured: the content *)
(* is not replaced, neither now nor by a transaction still under way.            *)
THEOREM CancelsAreHonoured == ASSUME ReplacementAssumption PROVE Spec => []CancelHonoured
BY IInvAlways, SaysCancelHonoured, PTL

(* Whatever became of the process, the record of an operation whose transaction  *)
(* was begun names the file by which reconcileReplacement verifies it.            *)
THEOREM PublicationsAreRecoverable == ASSUME ReplacementAssumption PROVE Spec => []Recoverable
BY IInvAlways, SaysRecoverable, PTL

(* A settled result is replaced by another operation or lost, never changed       *)
(* (replacementSession reconciles unsettled records only).                       *)
THEOREM ResultsStayFinal == ASSUME ReplacementAssumption PROVE Spec => [][ResultsFinal]_vars
<1>1. IInv /\ [Next]_vars => [ResultsFinal]_vars
  BY SaysResultsFinal
<1> QED BY <1>1, IInvAlways, PTL DEF Spec
=============================================================================
