----------------------------- MODULE ServicesProofs -----------------------------
(***************************************************************************)
(* What the background services promise.  First the scans: what the row of   *)
(* a scan says is what its worker did to the library, for every number of     *)
(* scans, items, slots and faults, and although a transaction whose reply was *)
(* lost may be decided at any later moment.                                   *)
(*                                                                         *)
(*   ScanInv  where a worker is tells what the row, the counters in memory    *)
(*            and the library know of its items                              *)
(*   BiosInv  BIOS files in the library, and those that are being installed,   *)
(*            are of different content                                       *)
(*   Fit      counters are those of at most ItemCount items                    *)
(*   SlotsInv no more workers than slots                                      *)
(*                                                                         *)
(* Then the services together: in each behaviour the variables of one module  *)
(* move as that module says, and the others not at all, so that its inductive *)
(* invariant is kept; those of the other two are proved in RuntimeWorkerProofs *)
(* and ReplacementProofs.                                                    *)
(***************************************************************************)
EXTENDS Services, FiniteSetTheorems, TLAPS

(* What the counters say adds up.                                             *)
Counts == [processed : Nat, imported : Nat, skipped : Nat, failed : Nat]
Adds(c) == c.processed = c.imported + c.skipped + c.failed
AtMost(c, d) ==
  /\ c.processed <= d.processed /\ c.imported <= d.imported
  /\ c.skipped <= d.skipped /\ c.failed <= d.failed

Rows == [status : Status, count : Counts]
Typed ==
  /\ row \in [Scans -> Rows]
  /\ library \subseteq Scans \X Items /\ flight \subseteq Scans
  /\ pc \in [Scans -> PC] /\ item \in [Scans -> Nat]
  /\ scan \in [Scans -> Counts] /\ next \in [Scans -> Counts]

Mine(s) == {i \in Items : <<s, i>> \in library}
Counted(s) == row[s].count.imported = Cardinality(Mine(s))

(* The worker has counted the items before the present one, of which the row    *)
(* knows, and none of the others is in the library.                            *)
Before(s) ==
  /\ row[s].status = "running" /\ item[s] >= 1 /\ item[s] <= ItemCount + 1
  /\ Adds(scan[s]) /\ scan[s].processed = item[s] - 1
  /\ AtMost(row[s].count, scan[s]) /\ row[s].count.imported = scan[s].imported
  /\ \A i \in Mine(s) : i < item[s]

(* The transaction counts the present item, once.                              *)
Carries(s) ==
  /\ item[s] \in Items /\ Adds(next[s]) /\ AtMost(scan[s], next[s])
  /\ next[s].processed = scan[s].processed + 1 /\ next[s].imported <= scan[s].imported + 1

(* It took effect.                                                            *)
After(s) ==
  /\ row[s] = [status |-> "running", count |-> next[s]]
  /\ next[s].processed = item[s] /\ item[s] \in Items /\ \A i \in Mine(s) : i <= item[s]

Working == {"open", "check", "prepare", "execute", "commit", "abort", "record", "finish"}
Sending(s) == pc[s] = "commit" \/ s \in flight
ScanInv(s) ==
  /\ Adds(row[s].count) /\ Counted(s)
  /\ row[s].status = "completed" => row[s].count.processed = ItemCount
  /\ s \in flight => pc[s] \in {"confirm", "interrupt", "release", "ended"}
  /\ pc[s] \in {"none", "insert"} =>
       row[s] = [status |-> "none", count |-> Zero] /\ scan[s] = Zero /\ item[s] = 1 /\ Mine(s) = {}
  /\ pc[s] \in Working \/ s \in flight => Before(s)
  /\ pc[s] \in {"prepare", "execute", "abort"} => item[s] \in Items
  /\ pc[s] = "finish" => item[s] = ItemCount + 1
  /\ pc[s] = "execute" => next[s] \in {Processed(scan[s]), FailedItem(scan[s])}
  /\ Sending(s) => Carries(s)
  /\ pc[s] = "confirm" => (Before(s) /\ Carries(s)) \/ After(s)
  /\ pc[s] = "interrupt" => row[s].status = "running"

(* BIOS files in the library, and those that a transaction is installing.        *)
Claim(s) == KindOf[s] = "bios" /\ Sending(s) /\ Importing(s)
Taken == {x \in Scans \X Items : KindOf[x[1]] = "bios" /\ (x \in library \/ (Claim(x[1]) /\ x[2] = item[x[1]]))}
BiosInv == \A x, y \in Taken : ContentOf[x[1]][x[2]] = ContentOf[y[1]][y[2]] => x = y

IInv == Typed /\ (\A s \in Scans : ScanInv(s)) /\ BiosInv

-----------------------------------------------------------------------------
(* Counters.                                                                 *)

LEMMA ZeroCounts == Zero \in Counts /\ Adds(Zero) /\ Zero.processed = 0 /\ Zero.imported = 0 /\ AtMost(Zero, Zero)
BY DEF Zero, Counts, Adds, AtMost

(* The counters with one item more.                                            *)
Tally(c, i, k, f) ==
  [processed |-> c.processed + 1, imported |-> c.imported + i, skipped |-> c.skipped + k, failed |-> c.failed + f]

LEMMA TallyIs ==
  ASSUME NEW c \in Counts, Adds(c), NEW i \in 0..1, NEW k \in 0..1, NEW f \in 0..1, i + k + f = 1
  PROVE  /\ Tally(c, i, k, f) \in Counts /\ Adds(Tally(c, i, k, f)) /\ AtMost(c, Tally(c, i, k, f))
         /\ Tally(c, i, k, f).processed = c.processed + 1 /\ Tally(c, i, k, f).imported = c.imported + i
         /\ Tally(c, i, k, f).failed = c.failed + f
BY DEF Counts, Adds, AtMost, Tally

LEMMA ProcessedIs ==
  ASSUME NEW c \in Counts
  PROVE  Processed(c) = [processed |-> c.processed + 1, imported |-> c.imported,
                         skipped |-> c.skipped, failed |-> c.failed]
BY DEF Counts, Processed

LEMMA CountsGrow ==
  ASSUME NEW c \in Counts
  PROVE  /\ Processed(c) \in Counts /\ Processed(c).failed = c.failed
         /\ FailedItem(c) = Tally(c, 0, 0, 1)
         /\ [Processed(c) EXCEPT !.skipped = @ + 1] = Tally(c, 0, 1, 0)
         /\ [Processed(c) EXCEPT !.imported = @ + 1] = Tally(c, 1, 0, 0)
<1>1. PICK p : p = Processed(c)
  OBVIOUS
<1>2. p = [processed |-> c.processed + 1, imported |-> c.imported, skipped |-> c.skipped, failed |-> c.failed]
  BY <1>1, ProcessedIs
<1>3. c.processed \in Nat /\ c.imported \in Nat /\ c.skipped \in Nat /\ c.failed \in Nat
  BY DEF Counts
<1>4. p \in Counts /\ p.failed = c.failed
  BY <1>2, <1>3 DEF Counts
<1>5. [p EXCEPT !.failed = @ + 1] = Tally(c, 0, 0, 1)
  BY <1>2, <1>3 DEF Tally
<1>6. [p EXCEPT !.skipped = @ + 1] = Tally(c, 0, 1, 0)
  BY <1>2, <1>3 DEF Tally
<1>7. [p EXCEPT !.imported = @ + 1] = Tally(c, 1, 0, 0)
  BY <1>2, <1>3 DEF Tally
<1> QED BY <1>1, <1>4, <1>5, <1>6, <1>7 DEF FailedItem

LEMMA AtMostStep ==
  ASSUME NEW b \in Counts, NEW c \in Counts, NEW d \in Counts, AtMost(b, c), AtMost(c, d)
  PROVE  AtMost(b, d)
<1>1. \A x \in {b, c, d} : x.processed \in Nat /\ x.imported \in Nat /\ x.skipped \in Nat /\ x.failed \in Nat
  BY DEF Counts
<1> QED BY <1>1 DEF AtMost

-----------------------------------------------------------------------------
(* The step of one scan leaves the others alone.                               *)

Untouched(t) ==
  /\ row'[t] = row[t] /\ pc'[t] = pc[t] /\ item'[t] = item[t] /\ scan'[t] = scan[t] /\ next'[t] = next[t]
  /\ t \in flight' <=> t \in flight
  /\ \A i \in Items : <<t, i>> \in library' <=> <<t, i>> \in library

LEMMA UntouchedKeeps ==
  ASSUME NEW t \in Scans, Untouched(t), ScanInv(t)
  PROVE  ScanInv(t)' /\ (Claim(t)' <=> Claim(t))
<1>1. Mine(t)' = Mine(t)
  BY DEF Untouched, Mine
<1>2. /\ row'[t] = row[t] /\ pc'[t] = pc[t] /\ item'[t] = item[t] /\ scan'[t] = scan[t] /\ next'[t] = next[t]
      /\ t \in flight' <=> t \in flight
  BY DEF Untouched
<1>3. (Before(t)' <=> Before(t)) /\ (Carries(t)' <=> Carries(t)) /\ (After(t)' <=> After(t)) /\ (Counted(t)' <=> Counted(t))
  BY <1>1, <1>2 DEF Before, Carries, After, Counted
<1>4. (Sending(t)' <=> Sending(t)) /\ (Importing(t)' <=> Importing(t))
  BY <1>2 DEF Sending, Importing
<1>5. ScanInv(t)'
  BY <1>1, <1>2, <1>3, <1>4 DEF ScanInv
<1> QED BY <1>4, <1>5 DEF Claim

(* A step of one scan that installs nothing it did not claim.                   *)
LEMMA Stepped ==
  ASSUME IInv, NEW s \in Scans, Typed', ScanInv(s)', \A t \in Scans \ {s} : Untouched(t),
         Claim(s)' => Claim(s) /\ item'[s] = item[s],
         \A i \in Items : <<s, i>> \in library' => <<s, i>> \in library \/ (Sending(s) /\ Importing(s) /\ i = item[s])
  PROVE  IInv'
<1>1. \A t \in Scans : ScanInv(t)'
  BY UntouchedKeeps DEF IInv
<1>2. \A t \in Scans \ {s} : (Claim(t)' <=> Claim(t)) /\ item'[t] = item[t]
  BY UntouchedKeeps DEF IInv, Untouched
<1>3. ASSUME NEW x \in Taken' PROVE x \in Taken
  <2>1. PICK t \in Scans, i \in Items : x = <<t, i>>
    BY <1>3 DEF Taken
  <2>2. KindOf[t] = "bios" /\ (<<t, i>> \in library' \/ (Claim(t)' /\ i = item'[t]))
    BY <1>3, <2>1 DEF Taken
  <2>3. <<t, i>> \in library \/ (Claim(t) /\ i = item[t])
    <3>1. CASE t = s
      BY <2>2, <3>1 DEF Claim
    <3>2. CASE t # s
      BY <1>2, <2>2, <3>2 DEF Untouched
    <3> QED BY <3>1, <3>2
  <2> QED BY <2>1, <2>2, <2>3 DEF Taken
<1>4. BiosInv'
  BY <1>3 DEF BiosInv, IInv
<1> QED BY <1>1, <1>4 DEF IInv

(* A step that changes only what is the worker's own, and the row.              *)
Sets(s, r, to, n, c, d) ==
  /\ r \in Rows /\ to \in PC /\ n \in Nat /\ c \in Counts /\ d \in Counts
  /\ row' = [row EXCEPT ![s] = r] /\ pc' = [pc EXCEPT ![s] = to] /\ item' = [item EXCEPT ![s] = n]
  /\ scan' = [scan EXCEPT ![s] = c] /\ next' = [next EXCEPT ![s] = d]
  /\ library' = library /\ flight' = flight

LEMMA Owns ==
  ASSUME Typed, NEW s \in Scans, NEW r, NEW to, NEW n, NEW c, NEW d, Sets(s, r, to, n, c, d)
  PROVE  /\ Typed' /\ row'[s] = r /\ pc'[s] = to /\ item'[s] = n /\ scan'[s] = c /\ next'[s] = d
         /\ Mine(s)' = Mine(s) /\ (s \in flight' <=> s \in flight) /\ \A t \in Scans \ {s} : Untouched(t)
         /\ \A i \in Items : <<s, i>> \in library' => <<s, i>> \in library
<1>1. Mine(s)' = Mine(s)
  BY DEF Mine, Sets
<1>2. \A t \in Scans \ {s} : Untouched(t)
  BY DEF Typed, Untouched, Sets
<1> QED BY <1>1, <1>2 DEF Typed, Sets

LEMMA Own ==
  ASSUME Typed, NEW s \in Scans
  PROVE  /\ row[s] \in Rows /\ row[s].count \in Counts /\ row[s].status \in Status
         /\ pc[s] \in PC /\ item[s] \in Nat /\ scan[s] \in Counts /\ next[s] \in Counts
         /\ row = [row EXCEPT ![s] = row[s]] /\ item = [item EXCEPT ![s] = item[s]]
         /\ scan = [scan EXCEPT ![s] = scan[s]] /\ next = [next EXCEPT ![s] = next[s]]
BY DEF Typed, Rows

LEMMA RowOf ==
  ASSUME NEW st \in Status, NEW c \in Counts, NEW r, r = [status |-> st, count |-> c]
  PROVE  r \in Rows /\ r.status = st /\ r.count = c
BY DEF Rows

(* The worker ends with its row as it is, or with what it has counted.           *)
LEMMA WorkerEnds ==
  ASSUME ScanAssumption, IInv, NEW s \in Scans, pc[s] \in Working, NEW r \in Rows,
         r = row[s] \/ (\E st \in Status : /\ r = [status |-> st, count |-> scan[s]]
                                           /\ st = "completed" => item[s] = ItemCount + 1),
         row' = [row EXCEPT ![s] = r], Goto(s, "release"), UNCHANGED <<library, flight, loop>>
  PROVE  IInv'
<1>1. Typed /\ ScanInv(s) /\ ItemCount \in Nat
  BY DEF IInv, ScanAssumption
<1>2. s \notin flight /\ Before(s) /\ Adds(row[s].count) /\ Counted(s) /\ row[s].status = "running"
  BY <1>1 DEF ScanInv, Working, Before
<1>3. "release" \in PC /\ pc' = [pc EXCEPT ![s] = "release"]
  BY DEF PC, Goto
<1>4. /\ Typed' /\ row'[s] = r /\ pc'[s] = "release" /\ Mine(s)' = Mine(s)
      /\ \A t \in Scans \ {s} : Untouched(t)
      /\ \A i \in Items : <<s, i>> \in library' => <<s, i>> \in library
  <2>1. Sets(s, r, "release", item[s], scan[s], next[s])
    BY <1>1, <1>3, Own DEF loop, Sets
  <2> QED BY <1>1, <2>1, Owns
<1>5. /\ Adds(r.count) /\ r.count.imported = Cardinality(Mine(s))
      /\ r.status = "completed" => r.count.processed = ItemCount
  <2>1. CASE r = row[s]
    BY <1>1, <1>2, <2>1 DEF Counted, ScanInv
  <2>2. CASE r # row[s]
    <3>1. PICK st \in Status : r = [status |-> st, count |-> scan[s]] /\ (st = "completed" => item[s] = ItemCount + 1)
      BY <2>2
    <3>2. r.status = st /\ r.count = scan[s]
      BY <1>1, <3>1, Own, RowOf
    <3>3. Adds(scan[s]) /\ scan[s].processed = item[s] - 1 /\ scan[s].imported = row[s].count.imported
      BY <1>2 DEF Before
    <3> QED BY <1>1, <1>2, <3>1, <3>2, <3>3 DEF Counted
  <2> QED BY <2>1, <2>2
<1>6. ScanInv(s)'
  BY <1>2, <1>4, <1>5 DEF ScanInv, Counted, Working, Sending
<1>7. ~Claim(s)'
  BY <1>2, <1>4 DEF Claim, Sending
<1> QED BY <1>4, <1>6, <1>7, Stepped

(* A step that changes only what is the worker's own, and the row, in one.       *)
LEMMA Moves ==
  ASSUME IInv, NEW s \in Scans, NEW r, NEW to, NEW n, NEW c, NEW d, Sets(s, r, to, n, c, d),
         ScanInv(s)', Claim(s)' => Claim(s) /\ n = item[s]
  PROVE  IInv'
<1>1. Typed
  BY DEF IInv
<1>2. /\ Typed' /\ item'[s] = n /\ \A t \in Scans \ {s} : Untouched(t)
      /\ \A i \in Items : <<s, i>> \in library' => <<s, i>> \in library
  BY <1>1, Owns
<1> QED BY <1>2, Stepped

LEMMA AdmitKeeps == ASSUME ScanAssumption, IInv, NEW s \in Scans, Admit(s) PROVE IInv'
<1>1. Typed /\ ScanInv(s) /\ pc[s] = "none" /\ "insert" \in PC
  BY DEF IInv, Admit, PC
<1>2. Sets(s, row[s], "insert", item[s], scan[s], next[s])
  BY <1>1, Own DEF Admit, Goto, database, loop, Sets
<1>3. /\ row'[s] = row[s] /\ pc'[s] = "insert" /\ item'[s] = item[s] /\ scan'[s] = scan[s]
      /\ Mine(s)' = Mine(s) /\ (s \in flight' <=> s \in flight)
  BY <1>1, <1>2, Owns
<1>4. s \notin flight
  BY <1>1 DEF ScanInv
<1>5. ScanInv(s)' /\ ~Claim(s)'
  BY <1>1, <1>3, <1>4 DEF ScanInv, Working, Sending, Claim, Counted
<1> QED BY <1>2, <1>5, Moves

LEMMA InsertRowKeeps == ASSUME ScanAssumption, IInv, NEW s \in Scans, InsertRow(s) PROVE IInv'
<1>1. Typed /\ ScanInv(s) /\ pc[s] = "insert" /\ "open" \in PC /\ "release" \in PC /\ ItemCount \in Nat
  BY DEF IInv, InsertRow, PC, ScanAssumption
<1>2. /\ row[s] = [status |-> "none", count |-> Zero] /\ scan[s] = Zero /\ item[s] = 1 /\ s \notin flight
      /\ Mine(s) = {} /\ row[s].count = Zero /\ row[s].status = "none" /\ Counted(s)
  BY <1>1 DEF ScanInv
<1>3. PICK r : r = [status |-> "running", count |-> Zero]
  OBVIOUS
<1>4. r \in Rows /\ r.status = "running" /\ r.count = Zero
  BY <1>3, ZeroCounts, RowOf DEF Status
<1>5. ASSUME NEW q \in Rows, row' = [row EXCEPT ![s] = q], NEW to \in PC, Goto(s, to)
      PROVE  Sets(s, q, to, item[s], scan[s], next[s])
  BY <1>1, <1>5, Own DEF InsertRow, loop, Goto, Sets
<1>6. CASE Write(s, "running", Zero) /\ Goto(s, "open")
  <2>1. Sets(s, r, "open", item[s], scan[s], next[s])
    BY <1>1, <1>3, <1>4, <1>5, <1>6 DEF Write
  <2>2. /\ row'[s] = r /\ pc'[s] = "open" /\ item'[s] = item[s] /\ scan'[s] = scan[s] /\ Mine(s)' = Mine(s)
        /\ (s \in flight' <=> s \in flight)
    BY <1>1, <2>1, Owns
  <2>3. Before(s)'
    BY <1>1, <1>2, <1>4, <2>2, ZeroCounts DEF Before
  <2>4. ScanInv(s)' /\ ~Claim(s)'
    BY <1>2, <1>4, <2>2, <2>3, ZeroCounts DEF ScanInv, Working, Sending, Claim, Counted
  <2> QED BY <2>1, <2>4, Moves
<1>7. ASSUME NEW q \in Rows, q.count = Zero, q.status \in {"none", "running"},
             row' = [row EXCEPT ![s] = q], Goto(s, "release")
      PROVE  IInv'
  <2>1. Sets(s, q, "release", item[s], scan[s], next[s])
    BY <1>1, <1>5, <1>7
  <2>2. /\ row'[s] = q /\ pc'[s] = "release" /\ Mine(s)' = Mine(s) /\ (s \in flight' <=> s \in flight)
    BY <1>1, <2>1, Owns
  <2>3. ScanInv(s)' /\ ~Claim(s)'
    BY <1>2, <1>7, <2>2, ZeroCounts DEF ScanInv, Working, Sending, Claim, Counted
  <2> QED BY <2>1, <2>3, Moves
<1>8. row[s] \in Rows /\ row = [row EXCEPT ![s] = row[s]]
  BY <1>1, Own
<1>9. CASE (Write(s, "running", Zero) \/ UNCHANGED row) /\ Goto(s, "release")
  <2>1. CASE Write(s, "running", Zero)
    <3>1. row' = [row EXCEPT ![s] = r]
      BY <1>3, <2>1 DEF Write
    <3> QED BY <1>4, <1>7, <1>9, <3>1
  <2>2. CASE UNCHANGED row
    BY <1>2, <1>7, <1>8, <1>9, <2>2
  <2> QED BY <1>9, <2>1, <2>2
<1> QED BY <1>6, <1>9 DEF InsertRow

(* What Progress may do to the row.                                            *)
LEMMA ProgressIs ==
  ASSUME Typed, NEW s \in Scans, NEW st \in Status, NEW c \in Counts, Progress(s, st, c) \/ OwnProgress(s, st, c)
  PROVE  \E r \in Rows : row' = [row EXCEPT ![s] = r] /\ (r = row[s] \/ r = [status |-> st, count |-> c])
<1>1. PICK r : r = [status |-> st, count |-> c]
  OBVIOUS
<1>2. r \in Rows /\ row[s] \in Rows /\ row = [row EXCEPT ![s] = row[s]]
  BY <1>1, Own, RowOf
<1>3. row' = row \/ row' = [row EXCEPT ![s] = r]
  BY <1>1 DEF Progress, OwnProgress, Write
<1> QED BY <1>1, <1>2, <1>3

LEMMA StopKeeps ==
  ASSUME ScanAssumption, IInv, NEW s \in Scans, pc[s] \in Working, NEW st \in Status,
         st = "completed" => item[s] = ItemCount + 1,
         Progress(s, st, scan[s]) \/ OwnProgress(s, st, scan[s]), Goto(s, "release"), UNCHANGED <<library, flight, loop>>
  PROVE  IInv'
<1>1. Typed /\ scan[s] \in Counts
  BY Own DEF IInv
<1>2. PICK r \in Rows : row' = [row EXCEPT ![s] = r] /\ (r = row[s] \/ r = [status |-> st, count |-> scan[s]])
  BY <1>1, ProgressIs
<1> QED BY <1>2, WorkerEnds

LEMMA OpenSourceKeeps == ASSUME ScanAssumption, IInv, NEW s \in Scans, OpenSource(s) PROVE IInv'
<1>1. /\ Typed /\ ScanInv(s) /\ pc[s] = "open" /\ "check" \in PC /\ pc[s] \in Working
      /\ UNCHANGED <<library, flight, loop>> /\ scan[s] \in Counts /\ StopStatus \in Status /\ "failed" \in Status
      /\ StopStatus # "completed"
  BY Own DEF IInv, OpenSource, PC, Working, StopStatus, Status
<1>2. CASE Goto(s, "check") /\ UNCHANGED row
  <2>1. Sets(s, row[s], "check", item[s], scan[s], next[s])
    BY <1>1, <1>2, Own DEF Goto, loop, Sets
  <2>2. /\ row'[s] = row[s] /\ pc'[s] = "check" /\ item'[s] = item[s] /\ scan'[s] = scan[s]
        /\ Mine(s)' = Mine(s) /\ (s \in flight' <=> s \in flight)
    BY <1>1, <2>1, Owns
  <2>3. Before(s) /\ s \notin flight
    BY <1>1 DEF ScanInv
  <2>4. Before(s)'
    BY <2>2, <2>3 DEF Before
  <2>5. ScanInv(s)' /\ ~Claim(s)'
    BY <1>1, <2>2, <2>3, <2>4 DEF ScanInv, Working, Sending, Claim, Counted
  <2> QED BY <2>1, <2>5, Moves
<1>3. CASE Goto(s, "release") /\ UNCHANGED row
  <2>1. row' = [row EXCEPT ![s] = row[s]] /\ row[s] \in Rows
    BY <1>1, <1>3, Own
  <2> QED BY <1>1, <1>3, <2>1, WorkerEnds
<1>4. CASE Goto(s, "release") /\ Write(s, "failed", scan[s])
  <2>1. PICK r : r = [status |-> "failed", count |-> scan[s]]
    OBVIOUS
  <2>2. r \in Rows /\ row' = [row EXCEPT ![s] = r]
    BY <1>1, <1>4, <2>1, RowOf DEF Write
  <2> QED BY <1>1, <1>4, <2>1, <2>2, WorkerEnds
<1>5. CASE Goto(s, "release") /\ Progress(s, StopStatus, scan[s])
  BY <1>1, <1>5, StopKeeps
<1> QED BY <1>2, <1>3, <1>4, <1>5 DEF OpenSource

LEMMA CheckItemKeeps == ASSUME ScanAssumption, IInv, NEW s \in Scans, CheckItem(s) PROVE IInv'
<1>1. /\ Typed /\ ScanInv(s) /\ pc[s] = "check" /\ pc[s] \in Working /\ ItemCount \in Nat
      /\ StopStatus \in Status /\ StopStatus # "completed" /\ item[s] \in Nat
  BY Own DEF IInv, CheckItem, Working, StopStatus, Status, ScanAssumption
<1>2. CASE Stop(s)
  BY <1>1, <1>2, StopKeeps DEF Stop
<1>3. Before(s) /\ s \notin flight
  BY <1>1 DEF ScanInv, Working
<1>4. ASSUME NEW to \in {"prepare", "finish"}, Goto(s, to), UNCHANGED <<database, loop>>,
             to = "prepare" => item[s] \in Items, to = "finish" => item[s] = ItemCount + 1
      PROVE  IInv'
  <2>1. Sets(s, row[s], to, item[s], scan[s], next[s])
    BY <1>1, <1>4, Own DEF Goto, database, loop, PC, Sets
  <2>2. /\ row'[s] = row[s] /\ pc'[s] = to /\ item'[s] = item[s] /\ scan'[s] = scan[s]
        /\ Mine(s)' = Mine(s) /\ (s \in flight' <=> s \in flight)
    BY <1>1, <2>1, Owns
  <2>3. Before(s)'
    BY <1>3, <2>2 DEF Before
  <2>4. ScanInv(s)' /\ ~Claim(s)'
    BY <1>1, <1>3, <1>4, <2>2, <2>3 DEF ScanInv, Working, Sending, Claim, Counted
  <2> QED BY <2>1, <2>4, Moves
<1>5. item[s] \notin Items => item[s] = ItemCount + 1
  BY <1>1, <1>3 DEF Before, Items
<1>6. CASE Goto(s, IF item[s] \in Items THEN "prepare" ELSE "finish") /\ UNCHANGED <<database, loop>>
  <2>1. CASE item[s] \in Items
    BY <1>4, <1>6, <2>1
  <2>2. CASE item[s] \notin Items
    BY <1>4, <1>5, <1>6, <2>2
  <2> QED BY <2>1, <2>2
<1> QED BY <1>2, <1>6 DEF CheckItem

LEMMA PrepareKeeps == ASSUME ScanAssumption, IInv, NEW s \in Scans, Prepare(s) PROVE IInv'
<1>1. /\ Typed /\ ScanInv(s) /\ pc[s] = "prepare" /\ scan[s] \in Counts /\ next[s] \in Counts
      /\ UNCHANGED <<row, item, scan, library, flight>>
  BY Own DEF IInv, Prepare, database
<1>2. Before(s) /\ s \notin flight /\ item[s] \in Items
  BY <1>1 DEF ScanInv, Working
<1>3. ASSUME NEW to \in {"execute", "abort"}, Goto(s, to), NEW d \in Counts, next' = [next EXCEPT ![s] = d],
             to = "execute" => d \in {Processed(scan[s]), FailedItem(scan[s])}
      PROVE  IInv'
  <2>1. Sets(s, row[s], to, item[s], scan[s], d)
    BY <1>1, <1>3, Own DEF Goto, PC, Sets
  <2>2. /\ row'[s] = row[s] /\ pc'[s] = to /\ item'[s] = item[s] /\ scan'[s] = scan[s] /\ next'[s] = d
        /\ Mine(s)' = Mine(s) /\ (s \in flight' <=> s \in flight)
    BY <1>1, <2>1, Owns
  <2>3. Before(s)'
    BY <1>2, <2>2 DEF Before
  <2>4. next'[s] \in {Processed(scan'[s]), FailedItem(scan'[s])} \/ to = "abort"
    BY <1>3, <2>2
  <2>5. ScanInv(s)' /\ ~Claim(s)'
    <3>1. (pc[s] = "execute" => next[s] \in {Processed(scan[s]), FailedItem(scan[s])})'
      BY <2>2, <2>4
    <3> QED BY <1>1, <1>2, <1>3, <2>2, <2>3, <3>1 DEF ScanInv, Working, Sending, Claim, Counted
  <2> QED BY <2>1, <2>5, Moves
<1>4. Processed(scan[s]) \in Counts /\ FailedItem(scan[s]) \in Counts /\ next = [next EXCEPT ![s] = next[s]]
  <2>1. Adds(scan[s])
    BY <1>2 DEF Before
  <2>2. FailedItem(scan[s]) = Tally(scan[s], 0, 0, 1)
    BY <1>1, CountsGrow
  <2>3. Tally(scan[s], 0, 0, 1) \in Counts
    BY <1>1, <2>1, TallyIs
  <2> QED BY <1>1, <2>2, <2>3, CountsGrow, Own
<1> QED BY <1>1, <1>3, <1>4 DEF Prepare

-----------------------------------------------------------------------------
(* The transaction.                                                          *)

LEMMA TallyCarries ==
  ASSUME Typed, NEW s \in Scans, Before(s), item[s] \in Items, NEW i \in 0..1, NEW k \in 0..1, NEW f \in 0..1,
         i + k + f = 1, next[s] = Tally(scan[s], i, k, f)
  PROVE  Carries(s)
<1>1. scan[s] \in Counts /\ Adds(scan[s])
  BY Own DEF Before
<1>2. /\ Tally(scan[s], i, k, f) \in Counts /\ Adds(Tally(scan[s], i, k, f)) /\ AtMost(scan[s], Tally(scan[s], i, k, f))
      /\ Tally(scan[s], i, k, f).processed = scan[s].processed + 1
      /\ Tally(scan[s], i, k, f).imported = scan[s].imported + i
  BY <1>1, TallyIs
<1>3. scan[s].imported \in Nat
  BY <1>1 DEF Counts
<1> QED BY <1>2, <1>3 DEF Carries

(* What the statements of a transaction count, and what they install.            *)
LEMMA ExecuteKeeps == ASSUME ScanAssumption, IInv, NEW s \in Scans, Execute(s) PROVE IInv'
<1>1. /\ Typed /\ ScanInv(s) /\ pc[s] = "execute" /\ scan[s] \in Counts /\ next[s] \in Counts
      /\ UNCHANGED <<row, item, scan, library, flight>> /\ Goto(s, "commit") /\ ~Installing(s)
      /\ BiosInv /\ \A t \in Scans : ScanInv(t)
  BY Own DEF IInv, Execute, database
<1>2. /\ Before(s) /\ s \notin flight /\ item[s] \in Items /\ Adds(scan[s])
      /\ next[s] \in {Processed(scan[s]), FailedItem(scan[s])}
  BY <1>1 DEF ScanInv, Working, Before
<1>3. scan[s].failed \in Nat /\ scan[s].imported \in Nat
  BY <1>1 DEF Counts
<1>4. PICK i \in 0..1, k \in 0..1, f \in 0..1 :
        /\ i + k + f = 1 /\ next' = [next EXCEPT ![s] = Tally(scan[s], i, k, f)]
        /\ i = 1 => ~InLibrary(s)
  <2>1. CASE next[s].failed > scan[s].failed /\ UNCHANGED next
    <3>1. next[s] # Processed(scan[s])
      <4>1. Processed(scan[s]).failed = scan[s].failed
        BY <1>1, CountsGrow
      <4> QED BY <1>3, <2>1, <4>1
    <3>2. next[s] = Tally(scan[s], 0, 0, 1)
      BY <1>1, <1>2, <3>1, CountsGrow
    <3>3. next' = [next EXCEPT ![s] = Tally(scan[s], 0, 0, 1)]
      BY <1>1, <2>1, <3>2, Own
    <3> QED BY <3>3
  <2>2. CASE /\ next[s].failed = scan[s].failed
             /\ next' = IF InLibrary(s) THEN [next EXCEPT ![s].skipped = @ + 1]
                                        ELSE [next EXCEPT ![s].imported = @ + 1]
    <3>1. next[s] = Processed(scan[s])
      <4>1. Tally(scan[s], 0, 0, 1).failed = scan[s].failed + 1
        BY <1>1, <1>2, TallyIs
      <4>2. FailedItem(scan[s]) = Tally(scan[s], 0, 0, 1)
        BY <1>1, CountsGrow
      <4> QED BY <1>2, <1>3, <2>2, <4>1, <4>2
    <3>2. /\ [next[s] EXCEPT !.skipped = @ + 1] = Tally(scan[s], 0, 1, 0)
          /\ [next[s] EXCEPT !.imported = @ + 1] = Tally(scan[s], 1, 0, 0)
      BY <1>1, <3>1, CountsGrow
    <3>3. CASE InLibrary(s)
      <4>1. next' = [next EXCEPT ![s] = Tally(scan[s], 0, 1, 0)]
        BY <2>2, <3>2, <3>3
      <4> QED BY <4>1
    <3>4. CASE ~InLibrary(s)
      <4>1. next' = [next EXCEPT ![s] = Tally(scan[s], 1, 0, 0)]
        BY <2>2, <3>2, <3>4
      <4> QED BY <3>4, <4>1
    <3> QED BY <3>3, <3>4
  <2> QED BY <2>1, <2>2 DEF Execute
<1>5. PICK d : d = Tally(scan[s], i, k, f)
  OBVIOUS
<1>6. d \in Counts /\ d.imported = scan[s].imported + i
  BY <1>1, <1>2, <1>4, <1>5, TallyIs
<1>7. Sets(s, row[s], "commit", item[s], scan[s], d)
  BY <1>1, <1>4, <1>5, <1>6, Own DEF Goto, PC, Sets
<1>8. /\ row'[s] = row[s] /\ pc'[s] = "commit" /\ item'[s] = item[s] /\ scan'[s] = scan[s] /\ next'[s] = d
      /\ Mine(s)' = Mine(s) /\ (s \in flight' <=> s \in flight) /\ Typed' /\ \A t \in Scans \ {s} : Untouched(t)
  BY <1>1, <1>7, Owns
<1>9. Before(s)'
  BY <1>2, <1>8 DEF Before
<1>10. Carries(s)'
  <2>1. next'[s] = Tally(scan'[s], i, k, f) /\ item'[s] \in Items
    BY <1>2, <1>5, <1>8
  <2>2. /\ Tally(scan[s], i, k, f) \in Counts /\ Adds(Tally(scan[s], i, k, f))
        /\ AtMost(scan[s], Tally(scan[s], i, k, f))
        /\ Tally(scan[s], i, k, f).processed = scan[s].processed + 1
    BY <1>1, <1>2, <1>4, TallyIs
  <2>3. d.imported <= scan[s].imported + 1
    BY <1>3, <1>6
  <2> QED BY <1>5, <1>8, <2>1, <2>2, <2>3 DEF Carries
<1>11. ScanInv(s)'
  BY <1>1, <1>2, <1>8, <1>9, <1>10 DEF ScanInv, Working, Sending, Counted
<1>12. \A t \in Scans \ {s} : ScanInv(t)' /\ (Claim(t)' <=> Claim(t)) /\ item'[t] = item[t]
  BY <1>1, <1>8, UntouchedKeeps DEF Untouched
<1>13. ASSUME NEW x \in Taken' PROVE x \in Taken \/ (x = <<s, item[s]>> /\ KindOf[s] = "bios" /\ i = 1)
  <2>1. PICK t \in Scans, j \in Items : x = <<t, j>>
    BY <1>13 DEF Taken
  <2>2. KindOf[t] = "bios" /\ (<<t, j>> \in library \/ (Claim(t)' /\ j = item'[t]))
    BY <1>1, <1>13, <2>1 DEF Taken
  <2>3. CASE t = s
    <3>1. Importing(s)' => i = 1
      BY <1>3, <1>6, <1>8 DEF Importing
    <3> QED BY <1>8, <2>1, <2>2, <2>3, <3>1 DEF Taken, Claim
  <2>4. CASE t # s
    BY <1>12, <2>1, <2>2, <2>4 DEF Taken
  <2> QED BY <2>3, <2>4
<1>14. ASSUME KindOf[s] = "bios", i = 1, NEW x \in Taken PROVE ContentOf[x[1]][x[2]] # ContentOf[s][item[s]]
  <2>1. PICK t \in Scans, j \in Items :
          x = <<t, j>> /\ KindOf[t] = "bios" /\ (<<t, j>> \in library \/ (Claim(t) /\ j = item[t]))
    BY <1>14 DEF Taken
  <2>2. <<t, j>> \in library => ContentOf[t][j] # ContentOf[s][item[s]]
    BY <1>4, <1>14, <2>1 DEF InLibrary, SameContent
  <2>3. Claim(t) => t # s
    BY <1>1, <1>2 DEF Claim, Sending
  <2>4. Claim(t) /\ j = item[t] => ContentOf[t][j] # ContentOf[s][item[s]]
    BY <1>1, <1>14, <2>1, <2>3 DEF Installing, Claim, Sending, SameContent
  <2> QED BY <2>1, <2>2, <2>4
<1>15. BiosInv'
  <2> SUFFICES ASSUME NEW x \in Taken', NEW y \in Taken', ContentOf[x[1]][x[2]] = ContentOf[y[1]][y[2]]
               PROVE  x = y
    BY DEF BiosInv
  <2>1. CASE x \in Taken /\ y \in Taken
    BY <1>1, <2>1 DEF BiosInv
  <2>2. CASE x = <<s, item[s]>> /\ KindOf[s] = "bios" /\ i = 1
    <3>1. CASE y \in Taken
      BY <1>14, <2>2, <3>1
    <3> QED BY <1>13, <2>2, <3>1
  <2>3. CASE y = <<s, item[s]>> /\ KindOf[s] = "bios" /\ i = 1
    <3>1. CASE x \in Taken
      BY <1>14, <2>3, <3>1
    <3> QED BY <1>13, <2>3, <3>1
  <2> QED BY <1>13, <2>1, <2>2, <2>3
<1> QED BY <1>8, <1>11, <1>12, <1>15 DEF IInv

(* What a transaction that takes effect leaves in the row and in the library.     *)
LEMMA Applied ==
  ASSUME ScanAssumption, Typed, NEW s \in Scans, Before(s), Carries(s), Counted(s), Apply(s)
  PROVE  /\ row' \in [Scans -> Rows] /\ row'[s] = [status |-> "running", count |-> next[s]]
         /\ row'[s].count = next[s] /\ row'[s].status = "running" /\ Adds(next[s])
         /\ library' \subseteq Scans \X Items
         /\ next[s].processed = item[s] /\ item[s] \in Items
         /\ Counted(s)' /\ \A i \in Mine(s)' : i <= item[s]
         /\ \A t \in Scans \ {s} : row'[t] = row[t] /\ \A i \in Items : <<t, i>> \in library' <=> <<t, i>> \in library
         /\ \A i \in Items : <<s, i>> \in library' => <<s, i>> \in library \/ (Importing(s) /\ i = item[s])
<1>1. /\ row \in [Scans -> Rows] /\ library \subseteq Scans \X Items
      /\ scan[s] \in Counts /\ next[s] \in Counts /\ item[s] \in Items /\ item[s] \in Nat /\ ItemCount \in Nat
  BY Own DEF Typed, Carries, ScanAssumption
<1>2. PICK r : r = [status |-> "running", count |-> next[s]]
  OBVIOUS
<1>3. r \in Rows /\ r.status = "running" /\ r.count = next[s]
  BY <1>1, <1>2, RowOf DEF Status
<1>4. /\ row' = [row EXCEPT ![s] = r]
      /\ library' = library \cup (IF Importing(s) THEN {<<s, item[s]>>} ELSE {})
  BY <1>2 DEF Apply, Write
<1>5. /\ row' \in [Scans -> Rows] /\ row'[s] = r /\ \A t \in Scans \ {s} : row'[t] = row[t]
  BY <1>1, <1>3, <1>4
<1>6. /\ library' \subseteq Scans \X Items
      /\ \A t \in Scans \ {s} : \A i \in Items : <<t, i>> \in library' <=> <<t, i>> \in library
      /\ \A i \in Items : <<s, i>> \in library' => <<s, i>> \in library \/ (Importing(s) /\ i = item[s])
  BY <1>1, <1>4
<1>7. Mine(s)' = Mine(s) \cup (IF Importing(s) THEN {item[s]} ELSE {})
  BY <1>1, <1>4 DEF Mine
<1>8. /\ Adds(next[s]) /\ next[s].processed = item[s] /\ next[s].imported <= scan[s].imported + 1
      /\ scan[s].imported <= next[s].imported /\ row[s].count.imported = scan[s].imported
      /\ \A i \in Mine(s) : i < item[s]
  <2>1. scan[s].processed = item[s] - 1 /\ next[s].processed = scan[s].processed + 1
    BY DEF Before, Carries
  <2>2. next[s].processed = item[s]
    BY <1>1, <2>1
  <2> QED BY <2>2 DEF Before, Carries, AtMost
<1>9. next[s].imported \in Nat /\ scan[s].imported \in Nat
  BY <1>1 DEF Counts
<1>10. IsFiniteSet(Mine(s)) /\ Mine(s) \subseteq Nat
  <2>1. IsFiniteSet(Items) /\ Mine(s) \subseteq Items
    BY <1>1, FS_Interval DEF Items, Mine
  <2> QED BY <1>1, <2>1, FS_Subset DEF Items
<1>11. Cardinality(Mine(s)) = scan[s].imported
  BY <1>8 DEF Counted
<1>12. Cardinality(Mine(s)') = next[s].imported
  <2>1. CASE Importing(s)
    <3>1. item[s] \notin Mine(s)
      BY <1>1, <1>8
    <3>2. Cardinality(Mine(s) \cup {item[s]}) = Cardinality(Mine(s)) + 1
      BY <1>10, <3>1, FS_AddElement
    <3>3. next[s].imported = scan[s].imported + 1
      BY <1>8, <1>9, <2>1 DEF Importing
    <3> QED BY <1>7, <1>11, <2>1, <3>2, <3>3
  <2>2. CASE ~Importing(s)
    <3>1. next[s].imported = scan[s].imported
      BY <1>8, <1>9, <2>2 DEF Importing
    <3> QED BY <1>7, <1>11, <2>2, <3>1
  <2> QED BY <2>1, <2>2
<1>13. \A i \in Mine(s)' : i <= item[s]
  <2>1. \A i \in Mine(s) : i <= item[s]
    BY <1>1, <1>8, <1>10
  <2> QED BY <1>1, <1>7, <2>1
<1>14. Counted(s)'
  BY <1>3, <1>5, <1>12 DEF Counted
<1> QED BY <1>1, <1>2, <1>3, <1>5, <1>6, <1>8, <1>13, <1>14

LEMMA AtMostSame == ASSUME NEW c \in Counts PROVE AtMost(c, c)
BY DEF Counts, AtMost

LEMMA CommitKeeps == ASSUME ScanAssumption, IInv, NEW s \in Scans, Commit(s) PROVE IInv'
<1>1. /\ Typed /\ ScanInv(s) /\ pc[s] = "commit" /\ Apply(s) /\ Advance(s, next[s]) /\ Goto(s, "check")
      /\ flight' = flight /\ next' = next /\ next[s] \in Counts /\ item[s] \in Nat /\ ItemCount \in Nat
  BY Own DEF IInv, Commit, ScanAssumption
<1>2. Before(s) /\ Carries(s) /\ Counted(s) /\ s \notin flight /\ Sending(s)
  BY <1>1 DEF ScanInv, Working, Sending
<1>3. /\ row' \in [Scans -> Rows] /\ row'[s].count = next[s] /\ row'[s].status = "running" /\ Adds(next[s])
      /\ library' \subseteq Scans \X Items
      /\ next[s].processed = item[s] /\ item[s] \in Items /\ Counted(s)' /\ \A i \in Mine(s)' : i <= item[s]
      /\ \A t \in Scans \ {s} : row'[t] = row[t] /\ \A i \in Items : <<t, i>> \in library' <=> <<t, i>> \in library
      /\ \A i \in Items : <<s, i>> \in library' => <<s, i>> \in library \/ (Importing(s) /\ i = item[s])
  BY <1>1, <1>2, Applied
<1>4. /\ pc' = [pc EXCEPT ![s] = "check"] /\ item' = [item EXCEPT ![s] = item[s] + 1]
      /\ scan' = [scan EXCEPT ![s] = next[s]]
  BY <1>1 DEF Goto, Advance, Typed
<1>5. /\ pc' \in [Scans -> PC] /\ item' \in [Scans -> Nat] /\ scan' \in [Scans -> Counts] /\ next' \in [Scans -> Counts]
      /\ pc'[s] = "check" /\ item'[s] = item[s] + 1 /\ scan'[s] = next[s] /\ next'[s] = next[s]
      /\ \A t \in Scans \ {s} : pc'[t] = pc[t] /\ item'[t] = item[t] /\ scan'[t] = scan[t] /\ next'[t] = next[t]
  BY <1>1, <1>4 DEF Typed, PC
<1>6. Typed' /\ \A t \in Scans \ {s} : Untouched(t)
  BY <1>1, <1>3, <1>5 DEF Typed, Untouched
<1>7. Before(s)'
  <2>1. Mine(s)' \subseteq Nat /\ item[s] \in 1 .. ItemCount
    BY <1>1, <1>3 DEF Mine, Items
  <2>2. \A i \in Mine(s)' : i < item[s] + 1
    BY <1>1, <1>3, <2>1
  <2>3. AtMost(next[s], next[s])
    BY <1>1, AtMostSame
  <2> QED BY <1>1, <1>3, <1>5, <2>1, <2>2, <2>3 DEF Before
<1>8. ScanInv(s)' /\ ~Claim(s)'
  BY <1>1, <1>2, <1>3, <1>5, <1>7 DEF ScanInv, Working, Sending, Claim
<1> QED BY <1>2, <1>3, <1>6, <1>8, Stepped

LEMMA RollBackKeeps == ASSUME ScanAssumption, IInv, NEW s \in Scans, RollBack(s) PROVE IInv'
<1>1. /\ Typed /\ ScanInv(s) /\ pc[s] \in {"execute", "commit"} /\ Goto(s, "abort")
      /\ UNCHANGED <<row, library, flight, item, scan, next>>
  BY DEF IInv, RollBack, database, loop
<1>2. Before(s) /\ s \notin flight /\ item[s] \in Items
  BY <1>1 DEF ScanInv, Working, Sending, Carries
<1>3. Sets(s, row[s], "abort", item[s], scan[s], next[s])
  BY <1>1, Own DEF Goto, PC, Sets
<1>4. /\ row'[s] = row[s] /\ pc'[s] = "abort" /\ item'[s] = item[s] /\ scan'[s] = scan[s]
      /\ Mine(s)' = Mine(s) /\ (s \in flight' <=> s \in flight)
  BY <1>1, <1>3, Owns
<1>5. Before(s)'
  BY <1>2, <1>4 DEF Before
<1>6. ScanInv(s)' /\ ~Claim(s)'
  BY <1>1, <1>2, <1>4, <1>5 DEF ScanInv, Working, Sending, Claim, Counted
<1> QED BY <1>3, <1>6, Moves

LEMMA LoseReplyKeeps == ASSUME ScanAssumption, IInv, NEW s \in Scans, LoseReply(s) PROVE IInv'
<1>1. /\ Typed /\ ScanInv(s) /\ pc[s] = "commit" /\ Goto(s, "confirm") /\ UNCHANGED <<item, scan, next>>
      /\ Adds(row[s].count) /\ row[s].status = "running"
  BY DEF IInv, LoseReply, loop, ScanInv, Working, Before
<1>2. Before(s) /\ Carries(s) /\ Counted(s) /\ s \notin flight /\ Sending(s)
  BY <1>1 DEF ScanInv, Working, Sending
<1>3. /\ pc' \in [Scans -> PC] /\ pc'[s] = "confirm" /\ item' = item /\ scan' = scan /\ next' = next
      /\ \A t \in Scans \ {s} : pc'[t] = pc[t]
  BY <1>1 DEF Goto, Typed, PC
<1>4. CASE Apply(s) /\ UNCHANGED flight
  <2>1. /\ row' \in [Scans -> Rows] /\ row'[s] = [status |-> "running", count |-> next[s]]
        /\ row'[s].count = next[s] /\ row'[s].status = "running" /\ Adds(next[s])
        /\ library' \subseteq Scans \X Items
        /\ next[s].processed = item[s] /\ item[s] \in Items /\ Counted(s)' /\ \A i \in Mine(s)' : i <= item[s]
        /\ \A t \in Scans \ {s} : row'[t] = row[t] /\ \A i \in Items : <<t, i>> \in library' <=> <<t, i>> \in library
        /\ \A i \in Items : <<s, i>> \in library' => <<s, i>> \in library \/ (Importing(s) /\ i = item[s])
    BY <1>1, <1>2, <1>4, Applied
  <2>2. Typed' /\ \A t \in Scans \ {s} : Untouched(t)
    BY <1>1, <1>3, <1>4, <2>1 DEF Typed, Untouched
  <2>3. After(s)'
    BY <1>3, <2>1 DEF After
  <2>4. ScanInv(s)' /\ ~Claim(s)'
    BY <1>2, <1>3, <1>4, <2>1, <2>3 DEF ScanInv, Working, Sending, Claim
  <2> QED BY <1>2, <2>1, <2>2, <2>4, Stepped
<1>5. CASE UNCHANGED <<row, library>> /\ flight' \in {flight, flight \cup {s}}
  <2>1. Mine(s)' = Mine(s)
    BY <1>5 DEF Mine
  <2>2. Before(s)' /\ Carries(s)' /\ Counted(s)'
    BY <1>2, <1>3, <1>5, <2>1 DEF Before, Carries, Counted
  <2>3. Typed' /\ \A t \in Scans \ {s} : Untouched(t)
    BY <1>1, <1>3, <1>5 DEF Typed, Untouched
  <2>4. ScanInv(s)'
    BY <1>1, <1>3, <1>5, <2>2 DEF ScanInv, Working, Sending
  <2>5. Claim(s)' => Claim(s)
    BY <1>2, <1>3 DEF Claim, Importing
  <2>6. \A i \in Items : <<s, i>> \in library' => <<s, i>> \in library
    BY <1>5
  <2> QED BY <1>3, <2>3, <2>4, <2>5, <2>6, Stepped
<1> QED BY <1>4, <1>5 DEF LoseReply, database

(* A transaction under way is decided, wherever its worker is by then.            *)
LEMMA LandKeeps == ASSUME ScanAssumption, IInv, NEW s \in Scans, Land(s) PROVE IInv'
<1>1. /\ Typed /\ ScanInv(s) /\ s \in flight /\ flight' = flight \ {s} /\ UNCHANGED <<pc, item, scan, next>>
      /\ pc[s] \in {"confirm", "interrupt", "release", "ended"}
  BY DEF IInv, Land, loop, ScanInv
<1>2. Before(s) /\ Carries(s) /\ Counted(s) /\ Sending(s) /\ row[s].status = "running" /\ Adds(row[s].count)
  BY <1>1 DEF ScanInv, Sending, Before
<1>3. CASE Apply(s)
  <2>1. /\ row' \in [Scans -> Rows] /\ row'[s] = [status |-> "running", count |-> next[s]]
        /\ row'[s].count = next[s] /\ row'[s].status = "running" /\ Adds(next[s])
        /\ library' \subseteq Scans \X Items
        /\ next[s].processed = item[s] /\ item[s] \in Items /\ Counted(s)' /\ \A i \in Mine(s)' : i <= item[s]
        /\ \A t \in Scans \ {s} : row'[t] = row[t] /\ \A i \in Items : <<t, i>> \in library' <=> <<t, i>> \in library
        /\ \A i \in Items : <<s, i>> \in library' => <<s, i>> \in library \/ (Importing(s) /\ i = item[s])
    BY <1>1, <1>2, <1>3, Applied
  <2>2. Typed' /\ \A t \in Scans \ {s} : Untouched(t)
    BY <1>1, <2>1 DEF Typed, Untouched
  <2>3. After(s)'
    BY <1>1, <2>1 DEF After
  <2>4. ScanInv(s)' /\ ~Claim(s)'
    BY <1>1, <2>1, <2>3 DEF ScanInv, Working, Sending, Claim
  <2> QED BY <1>2, <2>1, <2>2, <2>4, Stepped
<1>4. CASE UNCHANGED <<row, library>>
  <2>1. Mine(s)' = Mine(s)
    BY <1>4 DEF Mine
  <2>2. Before(s)' /\ Carries(s)' /\ Counted(s)'
    BY <1>1, <1>2, <1>4, <2>1 DEF Before, Carries, Counted
  <2>3. Typed' /\ \A t \in Scans \ {s} : Untouched(t)
    BY <1>1, <1>4 DEF Typed, Untouched
  <2>4. ScanInv(s)' /\ ~Claim(s)'
    BY <1>1, <1>2, <1>4, <2>2 DEF ScanInv, Working, Sending, Claim
  <2>5. \A i \in Items : <<s, i>> \in library' => <<s, i>> \in library
    BY <1>4
  <2> QED BY <2>3, <2>4, <2>5, Stepped
<1> QED BY <1>3, <1>4 DEF Land

(* What is persisted tells which of the two happened.                           *)
LEMMA ConfirmKeeps == ASSUME ScanAssumption, IInv, NEW s \in Scans, Confirm(s) PROVE IInv'
<1>1. /\ Typed /\ ScanInv(s) /\ pc[s] = "confirm" /\ UNCHANGED <<row, library, flight, next>>
      /\ row[s].count \in Counts /\ scan[s] \in Counts /\ next[s] \in Counts /\ item[s] \in Nat /\ ItemCount \in Nat
      /\ scan = [scan EXCEPT ![s] = scan[s]] /\ item = [item EXCEPT ![s] = item[s]]
      /\ next = [next EXCEPT ![s] = next[s]] /\ row = [row EXCEPT ![s] = row[s]] /\ row[s] \in Rows
  BY Own DEF IInv, Confirm, database, ScanAssumption
<1>2. (Before(s) /\ Carries(s)) \/ After(s)
  BY <1>1 DEF ScanInv
<1>3. Adds(row[s].count) /\ Counted(s) /\ row[s].status = "running" /\ (s \in flight => Before(s) /\ Carries(s))
  BY <1>1, <1>2 DEF ScanInv, Sending, Before, After
<1>4. CASE Goto(s, "interrupt") /\ UNCHANGED <<scan, item>>
  <2>1. Sets(s, row[s], "interrupt", item[s], scan[s], next[s])
    BY <1>1, <1>4 DEF Sets, Goto, PC
  <2>2. /\ row'[s] = row[s] /\ pc'[s] = "interrupt" /\ item'[s] = item[s] /\ scan'[s] = scan[s] /\ next'[s] = next[s]
        /\ Mine(s)' = Mine(s) /\ (s \in flight' <=> s \in flight)
    BY <1>1, <2>1, Owns
  <2>3. /\ s \in flight => Before(s)' /\ Carries(s)'
        /\ Importing(s)' <=> Importing(s)
    BY <1>3, <2>2 DEF Before, Carries, Importing
  <2>4. ScanInv(s)'
    BY <1>1, <1>3, <2>2, <2>3 DEF ScanInv, Working, Sending, Counted
  <2>5. Claim(s)' => Claim(s)
    BY <2>2, <2>3 DEF Claim, Sending
  <2> QED BY <2>1, <2>4, <2>5, Moves
<1>5. CASE row[s].count.processed >= next[s].processed /\ Advance(s, row[s].count) /\ Goto(s, "check")
  <2>1. ~(Before(s) /\ Carries(s))
    <3>1. row[s].count.processed \in Nat /\ scan[s].processed \in Nat
      BY <1>1 DEF Counts
    <3>2. Before(s) /\ Carries(s) => row[s].count.processed < next[s].processed
      BY <3>1 DEF Before, Carries, AtMost
    <3>3. next[s].processed \in Nat
      BY <1>1 DEF Counts
    <3> QED BY <1>5, <3>1, <3>2, <3>3
  <2>2. After(s) /\ s \notin flight
    BY <1>2, <1>3, <2>1
  <2>3. row[s].count = next[s] /\ next[s].processed = item[s] /\ item[s] \in Items
    BY <2>2 DEF After
  <2>4. Sets(s, row[s], "check", item[s] + 1, row[s].count, next[s])
    BY <1>1, <1>5 DEF Sets, Goto, PC, Advance
  <2>5. /\ row'[s] = row[s] /\ pc'[s] = "check" /\ item'[s] = item[s] + 1 /\ scan'[s] = row[s].count
        /\ Mine(s)' = Mine(s) /\ (s \in flight' <=> s \in flight)
    BY <1>1, <2>4, Owns
  <2>6. Before(s)'
    <3>1. Mine(s) \subseteq Nat /\ item[s] \in 1 .. ItemCount
      BY <1>1, <2>3 DEF Mine, Items
    <3>2. \A i \in Mine(s) : i < item[s] + 1
      BY <1>1, <2>2, <3>1 DEF After
    <3>3. AtMost(row[s].count, row[s].count)
      BY <1>1, AtMostSame
    <3> QED BY <1>1, <1>3, <2>3, <2>5, <3>1, <3>2, <3>3 DEF Before
  <2>7. ScanInv(s)' /\ ~Claim(s)'
    BY <1>3, <2>2, <2>5, <2>6 DEF ScanInv, Working, Sending, Claim, Counted
  <2> QED BY <2>4, <2>7, Moves
<1> QED BY <1>4, <1>5 DEF Confirm

LEMMA InterruptKeeps == ASSUME ScanAssumption, IInv, NEW s \in Scans, Interrupt(s) PROVE IInv'
<1>1. /\ Typed /\ ScanInv(s) /\ pc[s] = "interrupt" /\ Goto(s, "release")
      /\ UNCHANGED <<library, flight, item, scan, next>> /\ row[s].count \in Counts
      /\ row[s] \in Rows /\ row = [row EXCEPT ![s] = row[s]]
  BY Own DEF IInv, Interrupt, loop
<1>2. Adds(row[s].count) /\ Counted(s) /\ row[s].status = "running" /\ (s \in flight => Before(s) /\ Carries(s))
  BY <1>1 DEF ScanInv, Sending
<1>3. ASSUME NEW r \in Rows, r.count = row[s].count, r.status # "completed", row' = [row EXCEPT ![s] = r],
             s \in flight => r = row[s]
      PROVE  IInv'
  <2>1. Sets(s, r, "release", item[s], scan[s], next[s])
    BY <1>1, <1>3, Own DEF Sets, Goto, PC
  <2>2. /\ row'[s] = r /\ pc'[s] = "release" /\ item'[s] = item[s] /\ scan'[s] = scan[s] /\ next'[s] = next[s]
        /\ Mine(s)' = Mine(s) /\ (s \in flight' <=> s \in flight)
    BY <1>1, <2>1, Owns
  <2>3. /\ s \in flight => Before(s)' /\ Carries(s)'
        /\ Importing(s)' <=> Importing(s)
    BY <1>2, <1>3, <2>2 DEF Before, Carries, Importing
  <2>4. ScanInv(s)'
    BY <1>1, <1>2, <1>3, <2>2, <2>3 DEF ScanInv, Working, Sending, Counted
  <2>5. Claim(s)' => Claim(s)
    BY <2>2, <2>3 DEF Claim, Sending
  <2> QED BY <2>1, <2>4, <2>5, Moves
<1>4. CASE s \notin flight /\ Write(s, "interrupted", row[s].count)
  <2>1. PICK r : r = [status |-> "interrupted", count |-> row[s].count]
    OBVIOUS
  <2>2. r \in Rows /\ r.status = "interrupted" /\ r.count = row[s].count
    BY <1>1, <2>1, RowOf DEF Status
  <2>3. row' = [row EXCEPT ![s] = r]
    BY <1>4, <2>1 DEF Write
  <2> QED BY <1>3, <1>4, <2>2, <2>3
<1>5. CASE row' = row
  BY <1>1, <1>2, <1>3, <1>5
<1> QED BY <1>4, <1>5 DEF Interrupt

-----------------------------------------------------------------------------
(* What follows the transaction.                                               *)

LEMMA AbortItemKeeps == ASSUME ScanAssumption, IInv, NEW s \in Scans, AbortItem(s) PROVE IInv'
<1>1. /\ Typed /\ ScanInv(s) /\ pc[s] = "abort" /\ pc[s] \in Working /\ scan[s] \in Counts /\ item[s] \in Nat
      /\ row[s].count \in Counts /\ StopStatus \in Status /\ StopStatus # "completed" /\ "failed" \in Status
      /\ ItemCount \in Nat
  BY Own DEF IInv, AbortItem, Working, StopStatus, Status, ScanAssumption
<1>2. Before(s) /\ s \notin flight /\ item[s] \in Items /\ Adds(scan[s]) /\ Adds(row[s].count) /\ Counted(s)
  BY <1>1 DEF ScanInv, Before
<1>3. CASE Stop(s)
  BY <1>1, <1>3, StopKeeps DEF Stop
<1>4. CASE Goto(s, "release") /\ Progress(s, "failed", scan[s]) /\ UNCHANGED <<library, flight, loop>>
  BY <1>1, <1>4, StopKeeps
<1>5. CASE Advance(s, FailedItem(scan[s])) /\ Goto(s, "record") /\ UNCHANGED <<database, next>>
  <2>1. PICK c : c = FailedItem(scan[s])
    OBVIOUS
  <2>2. /\ c \in Counts /\ Adds(c) /\ AtMost(scan[s], c) /\ c.processed = scan[s].processed + 1
        /\ c.imported = scan[s].imported + 0
    <3>1. FailedItem(scan[s]) = Tally(scan[s], 0, 0, 1)
      BY <1>1, CountsGrow
    <3> QED BY <1>1, <1>2, <2>1, <3>1, TallyIs
  <2>3. Sets(s, row[s], "record", item[s] + 1, c, next[s])
    BY <1>1, <1>5, <2>1, <2>2, Own DEF Sets, Goto, PC, Advance, database
  <2>4. /\ row'[s] = row[s] /\ pc'[s] = "record" /\ item'[s] = item[s] + 1 /\ scan'[s] = c
        /\ Mine(s)' = Mine(s) /\ (s \in flight' <=> s \in flight)
    BY <1>1, <2>3, Owns
  <2>5. Before(s)'
    <3>1. Mine(s) \subseteq Nat /\ item[s] \in 1 .. ItemCount
      BY <1>1, <1>2 DEF Mine, Items
    <3>2. \A i \in Mine(s) : i < item[s] + 1
      BY <1>1, <1>2, <3>1 DEF Before
    <3>3. AtMost(row[s].count, c)
      BY <1>1, <1>2, <2>2, AtMostStep DEF Before
    <3>4. c.processed = item[s] + 1 - 1 /\ row[s].count.imported = c.imported
      <4>1. scan[s].imported \in Nat
        BY <1>1 DEF Counts
      <4> QED BY <1>1, <1>2, <2>2, <4>1 DEF Before
    <3>5. row[s].status = "running"
      BY <1>2 DEF Before
    <3> QED BY <1>1, <2>2, <2>4, <3>1, <3>2, <3>3, <3>4, <3>5 DEF Before
  <2>6. ScanInv(s)' /\ ~Claim(s)'
    BY <1>1, <1>2, <2>4, <2>5 DEF ScanInv, Working, Sending, Claim, Counted
  <2> QED BY <2>3, <2>6, Moves
<1> QED BY <1>3, <1>4, <1>5 DEF AbortItem

LEMMA RecordFailureKeeps == ASSUME ScanAssumption, IInv, NEW s \in Scans, RecordFailure(s) PROVE IInv'
<1>1. /\ Typed /\ ScanInv(s) /\ pc[s] = "record" /\ Goto(s, "check") /\ UNCHANGED <<library, flight, loop>>
      /\ scan[s] \in Counts /\ "running" \in Status /\ OwnProgress(s, "running", scan[s])
  BY Own DEF IInv, RecordFailure, Status
<1>2. Before(s) /\ s \notin flight /\ Adds(scan[s]) /\ Adds(row[s].count) /\ Counted(s)
  BY <1>1 DEF ScanInv, Working, Before
<1>3. PICK r \in Rows : row' = [row EXCEPT ![s] = r] /\ (r = row[s] \/ r = [status |-> "running", count |-> scan[s]])
  BY <1>1, ProgressIs
<1>4. /\ r.status = "running" /\ AtMost(r.count, scan[s]) /\ r.count.imported = scan[s].imported
      /\ Adds(r.count) /\ r.count.imported = Cardinality(Mine(s))
  <2>1. row[s].count.imported = scan[s].imported /\ row[s].count.imported = Cardinality(Mine(s))
    BY <1>2 DEF Before, Counted
  <2>2. CASE r = row[s]
    BY <1>2, <2>1, <2>2 DEF Before
  <2>3. CASE r = [status |-> "running", count |-> scan[s]]
    <3>1. r.status = "running" /\ r.count = scan[s]
      BY <1>1, <2>3, RowOf
    <3>2. AtMost(scan[s], scan[s])
      BY <1>1, AtMostSame
    <3> QED BY <1>2, <2>1, <3>1, <3>2
  <2> QED BY <1>3, <2>2, <2>3
<1>5. Sets(s, r, "check", item[s], scan[s], next[s])
  BY <1>1, <1>3, Own DEF Sets, Goto, PC, loop
<1>6. /\ row'[s] = r /\ pc'[s] = "check" /\ item'[s] = item[s] /\ scan'[s] = scan[s]
      /\ Mine(s)' = Mine(s) /\ (s \in flight' <=> s \in flight)
  BY <1>1, <1>5, Owns
<1>7. Before(s)'
  BY <1>2, <1>4, <1>6 DEF Before
<1>8. ScanInv(s)' /\ ~Claim(s)'
  BY <1>2, <1>4, <1>6, <1>7 DEF ScanInv, Working, Sending, Claim, Counted
<1> QED BY <1>5, <1>8, Moves

LEMMA FinishKeeps == ASSUME ScanAssumption, IInv, NEW s \in Scans, Finish(s) PROVE IInv'
<1>1. /\ pc[s] = "finish" /\ pc[s] \in Working /\ "completed" \in Status /\ item[s] = ItemCount + 1
      /\ Goto(s, "release") /\ UNCHANGED <<library, flight, loop>> /\ OwnProgress(s, "completed", scan[s])
  BY DEF IInv, ScanInv, Finish, Working, Status
<1> QED BY <1>1, StopKeeps

LEMMA ReleaseKeeps == ASSUME ScanAssumption, IInv, NEW s \in Scans, Release(s) PROVE IInv'
<1>1. /\ Typed /\ ScanInv(s) /\ pc[s] = "release" /\ Goto(s, "ended") /\ UNCHANGED <<row, library, flight>>
      /\ row[s] \in Rows /\ row = [row EXCEPT ![s] = row[s]]
  BY Own DEF IInv, Release, database
<1>2. /\ Adds(row[s].count) /\ Counted(s) /\ (s \in flight => Before(s) /\ Carries(s))
      /\ row[s].status = "completed" => row[s].count.processed = ItemCount
  BY <1>1 DEF ScanInv, Sending
<1>3. CASE s \in flight /\ UNCHANGED loop
  <2>1. Sets(s, row[s], "ended", item[s], scan[s], next[s])
    BY <1>1, <1>3, Own DEF Sets, Goto, PC, loop
  <2>2. /\ row'[s] = row[s] /\ pc'[s] = "ended" /\ item'[s] = item[s] /\ scan'[s] = scan[s] /\ next'[s] = next[s]
        /\ Mine(s)' = Mine(s) /\ (s \in flight' <=> s \in flight)
    BY <1>1, <2>1, Owns
  <2>3. Before(s)' /\ Carries(s)' /\ (Importing(s)' <=> Importing(s))
    BY <1>2, <1>3, <2>2 DEF Before, Carries, Importing
  <2>4. ScanInv(s)'
    BY <1>2, <2>2, <2>3 DEF ScanInv, Working, Sending, Counted
  <2>5. Claim(s)' => Claim(s)
    BY <2>2, <2>3 DEF Claim, Sending
  <2> QED BY <2>1, <2>4, <2>5, Moves
<1>4. CASE /\ s \notin flight
           /\ item' = [item EXCEPT ![s] = 1]
           /\ scan' = [scan EXCEPT ![s] = Zero] /\ next' = [next EXCEPT ![s] = Zero]
  <2>1. Sets(s, row[s], "ended", 1, Zero, Zero)
    BY <1>1, <1>4, ZeroCounts DEF Sets, Goto, PC
  <2>2. row'[s] = row[s] /\ pc'[s] = "ended" /\ Mine(s)' = Mine(s) /\ (s \in flight' <=> s \in flight)
    BY <1>1, <2>1, Owns
  <2>3. ScanInv(s)' /\ ~Claim(s)'
    BY <1>2, <1>4, <2>2 DEF ScanInv, Working, Sending, Counted, Claim
  <2> QED BY <2>1, <2>3, Moves
<1> QED BY <1>3, <1>4 DEF Release

-----------------------------------------------------------------------------
(* The administrator and the process.                                          *)

LEMMA StandsStill ==
  ASSUME IInv, UNCHANGED <<database, pc, loop>> PROVE IInv'
<1>1. UNCHANGED <<row, library, flight, pc, item, scan, next>>
  BY DEF database, loop
<1>2. Typed'
  BY <1>1 DEF IInv, Typed
<1>3. \A t \in Scans : Untouched(t)
  BY <1>1 DEF Untouched
<1>4. \A t \in Scans : ScanInv(t)' /\ (Claim(t)' <=> Claim(t))
  BY <1>3, UntouchedKeeps DEF IInv
<1>5. Taken' \subseteq Taken
  BY <1>1, <1>4 DEF Taken
<1>6. BiosInv'
  BY <1>5 DEF BiosInv, IInv
<1> QED BY <1>2, <1>4, <1>6 DEF IInv

LEMMA CrashKeeps == ASSUME ScanAssumption, IInv, Crash PROVE IInv'
<1>1. /\ Typed /\ BiosInv /\ \A s \in Scans : ScanInv(s)
      /\ UNCHANGED <<row, library, item, scan, next>>
      /\ pc' = [s \in Scans |-> IF s \in Slots THEN "ended" ELSE pc[s]]
  BY DEF IInv, Crash, loop
<1>2. PICK sent \in SUBSET {s \in Scans : pc[s] = "commit"} : flight' = flight \cup sent
  BY DEF Crash
<1>3. Typed'
  BY <1>1, <1>2 DEF Typed, PC
<1>4. ASSUME NEW s \in Scans PROVE ScanInv(s)' /\ (Claim(s)' => Claim(s))
  <2>1. ScanInv(s) /\ pc[s] \in PC
    BY <1>1, Own
  <2>2. /\ pc'[s] \in {"none", "ended"} /\ (pc'[s] = "none" => pc[s] = "none")
        /\ (s \in flight' => Sending(s) /\ pc[s] # "none")
    BY <1>1, <1>2, <2>1 DEF Slots, Sending, ScanInv
  <2>3. Mine(s)' = Mine(s)
    BY <1>1 DEF Mine
  <2>4. (Before(s)' <=> Before(s)) /\ (Carries(s)' <=> Carries(s)) /\ (Counted(s)' <=> Counted(s)) /\ (Importing(s)' <=> Importing(s))
    BY <1>1, <2>3 DEF Before, Carries, Counted, Importing
  <2>5. Sending(s) => Before(s) /\ Carries(s)
    BY <2>1 DEF ScanInv, Sending, Working
  <2>6. Sending(s)' => Sending(s) /\ s \in flight' /\ pc'[s] = "ended"
    BY <2>2 DEF Sending
  <2>7. ScanInv(s)'
    BY <1>1, <2>1, <2>2, <2>3, <2>4, <2>5, <2>6 DEF ScanInv, Working
  <2>8. Claim(s)' => Claim(s)
    BY <2>4, <2>6 DEF Claim
  <2> QED BY <2>7, <2>8
<1>5. Taken' \subseteq Taken
  BY <1>1, <1>4 DEF Taken
<1>6. BiosInv'
  BY <1>1, <1>5 DEF BiosInv
<1> QED BY <1>3, <1>4, <1>6 DEF IInv

(* A process that is down has no workers.                                      *)
DownInv == process = "down" => \A s \in Scans : pc[s] \in {"none", "ended"}

LEMMA DownStep == DownInv /\ [Next]_vars => DownInv'
<1> SUFFICES ASSUME DownInv, [Next]_vars, process' = "down" PROVE \A s \in Scans : pc'[s] \in {"none", "ended"}
  BY DEF DownInv
<1>1. CASE Exit
  BY <1>1 DEF Exit, Slots
<1>2. CASE Crash
  BY <1>2 DEF Crash, Slots
<1>3. ASSUME NEW s \in Scans, Admit(s) \/ Step(s) PROVE FALSE
  <2>1. process # "down" /\ process' = process
    BY <1>3 DEF DownInv, Admit, Step, InsertRow, OpenSource, CheckItem, Stop, Prepare, Execute, Commit, RollBack,
       LoseReply, Confirm, Interrupt, AbortItem, RecordFailure, Finish, Release
  <2> QED BY <2>1
<1>4. ASSUME NEW s \in Scans, Land(s) \/ Cancel(s) PROVE process' = process /\ pc' = pc
  BY <1>4 DEF Land, Cancel
<1>5. ~Shutdown /\ ~Restart
  BY DEF Shutdown, Restart
<1>6. UNCHANGED vars => process' = process /\ pc' = pc
  BY DEF vars
<1> QED BY <1>1, <1>2, <1>3, <1>4, <1>5, <1>6 DEF Next, DownInv

(* Rows of an earlier process are interrupted once nothing is under way.           *)
LEMMA RestartKeeps == ASSUME ScanAssumption, IInv, DownInv, Restart PROVE IInv'
<1>1. /\ Typed /\ BiosInv /\ \A s \in Scans : ScanInv(s) /\ pc[s] \in {"none", "ended"}
      /\ UNCHANGED <<library, flight, pc, item, scan, next>>
      /\ \A s \in flight : row[s].status # "running"
      /\ row' = [s \in Scans |-> IF row[s].status = "running" THEN [row[s] EXCEPT !.status = "interrupted"] ELSE row[s]]
  BY DEF IInv, Restart, loop, DownInv
<1>2. \A s \in Scans : s \notin flight
  <2>1. \A s \in Scans : s \in flight => row[s].status = "running"
    BY <1>1 DEF ScanInv, Before
  <2> QED BY <1>1, <2>1
<1>3. ASSUME NEW s \in Scans
      PROVE  /\ row'[s] \in Rows /\ row'[s].count = row[s].count
             /\ row'[s] = row[s] \/ (row[s].status = "running" /\ row'[s].status = "interrupted")
  <2>1. row[s] \in Rows
    BY <1>1, Own
  <2>2. CASE row[s].status = "running"
    <3>1. row'[s] = [row[s] EXCEPT !.status = "interrupted"]
      BY <1>1, <2>2
    <3> QED BY <2>1, <2>2, <3>1 DEF Rows, Status
  <2>3. CASE row[s].status # "running"
    BY <1>1, <2>1, <2>3
  <2> QED BY <2>2, <2>3
<1>4. Typed'
  <2>1. row' \in [Scans -> Rows]
    BY <1>1, <1>3
  <2> QED BY <1>1, <2>1 DEF Typed
<1>5. ASSUME NEW s \in Scans PROVE ScanInv(s)' /\ ~Claim(s)'
  <2>1. Mine(s)' = Mine(s)
    BY <1>1 DEF Mine
  <2>2. Counted(s)'
    BY <1>1, <1>3, <2>1 DEF ScanInv, Counted
  <2>3. pc[s] = "none" => row[s].status = "none"
    BY <1>1 DEF ScanInv
  <2>4. ScanInv(s)'
    BY <1>1, <1>2, <1>3, <2>1, <2>2, <2>3 DEF ScanInv, Working, Sending
  <2> QED BY <1>1, <1>2, <2>4 DEF Claim, Sending
<1>6. Taken' \subseteq Taken
  BY <1>1, <1>5 DEF Taken
<1>7. BiosInv'
  BY <1>1, <1>6 DEF BiosInv
<1> QED BY <1>4, <1>5, <1>7 DEF IInv

-----------------------------------------------------------------------------
(* The invariant.                                                              *)

LEMMA InitKeeps == ASSUME ScanAssumption, Init PROVE IInv /\ DownInv
<1>1. Typed
  BY ZeroCounts DEF Init, Typed, Rows, Status, PC, ScanAssumption
<1>2. ASSUME NEW s \in Scans PROVE ScanInv(s)
  <2>1. Mine(s) = {}
    BY DEF Init, Mine
  <2>2. row[s] = [status |-> "none", count |-> Zero] /\ scan[s] = Zero /\ item[s] = 1 /\ pc[s] = "none" /\ s \notin flight
    BY DEF Init
  <2>3. Counted(s)
    BY <2>1, <2>2, ZeroCounts, FS_EmptySet DEF Counted
  <2> QED BY <2>1, <2>2, <2>3, ZeroCounts DEF ScanInv, Working, Sending
<1>3. Taken = {}
  BY DEF Init, Taken, Claim, Sending
<1> QED BY <1>1, <1>2, <1>3 DEF IInv, BiosInv, DownInv, Init

LEMMA StepKeeps == ScanAssumption /\ IInv /\ DownInv /\ [Next]_vars => IInv' /\ DownInv'
<1> SUFFICES ASSUME ScanAssumption, IInv, DownInv, [Next]_vars PROVE IInv'
  BY DownStep
<1>1. ASSUME NEW s \in Scans, Step(s) PROVE IInv'
  BY <1>1, InsertRowKeeps, OpenSourceKeeps, CheckItemKeeps, PrepareKeeps, ExecuteKeeps, CommitKeeps, RollBackKeeps,
     LoseReplyKeeps, ConfirmKeeps, InterruptKeeps, AbortItemKeeps, RecordFailureKeeps, FinishKeeps, ReleaseKeeps DEF Step
<1>2. ASSUME NEW s \in Scans, Admit(s) \/ Land(s) PROVE IInv'
  BY <1>2, AdmitKeeps, LandKeeps
<1>3. ASSUME NEW s \in Scans, Cancel(s) PROVE IInv'
  BY <1>3, StandsStill DEF Cancel
<1>4. CASE Shutdown
  BY <1>4, StandsStill DEF Shutdown
<1>5. CASE Exit
  BY <1>5, StandsStill DEF Exit
<1>6. CASE Crash \/ Restart
  BY <1>6, CrashKeeps, RestartKeeps
<1>7. CASE UNCHANGED vars
  BY <1>7, StandsStill DEF vars
<1> QED BY <1>1, <1>2, <1>3, <1>4, <1>5, <1>6, <1>7 DEF Next

-----------------------------------------------------------------------------
(* A step writes rows of scans that have not ended, and counts no less.            *)

Grows(s) ==
  \/ row' = row
  \/ /\ row[s].status \in {"none", "running"}
     /\ \E st \in Status, c \in Counts :
          AtMost(row[s].count, c) /\ row' = [row EXCEPT ![s] = [status |-> st, count |-> c]]

LEMMA OwnGrows ==
  ASSUME IInv, NEW s \in Scans, Before(s), NEW st \in Status, Write(s, st, scan[s]) PROVE Grows(s)
<1>1. scan[s] \in Counts /\ AtMost(row[s].count, scan[s]) /\ row[s].status = "running"
  BY DEF IInv, Typed, Before
<1> QED BY <1>1 DEF Grows, Write

LEMMA ApplyGrows ==
  ASSUME IInv, NEW s \in Scans, Sending(s), Apply(s) PROVE Grows(s)
<1>1. Before(s) /\ Carries(s)
  BY DEF IInv, ScanInv, Sending, Working
<1>2. row[s] \in Rows /\ scan[s] \in Counts /\ next[s] \in Counts
  BY DEF IInv, Typed
<1>3. AtMost(row[s].count, scan[s]) /\ AtMost(scan[s], next[s]) /\ row[s].count \in Counts
  BY <1>1, <1>2 DEF Before, Carries, Rows
<1>4. AtMost(row[s].count, next[s])
  BY <1>2, <1>3, AtMostStep
<1> QED BY <1>1, <1>2, <1>4 DEF Grows, Apply, Write, Before, Status

LEMMA StepGrows ==
  ASSUME IInv, NEW s \in Scans, Admit(s) \/ Step(s) \/ Land(s) \/ Cancel(s) PROVE Grows(s)
<1>1. ScanInv(s) /\ row[s] \in Rows /\ row[s].count \in Counts
  BY DEF IInv, Typed, Rows
<1>2. CASE InsertRow(s)
  <2>1. row[s] = [status |-> "none", count |-> Zero]
    BY <1>1, <1>2 DEF InsertRow, ScanInv
  <2>2. row' = row \/ row' = [row EXCEPT ![s] = [status |-> "running", count |-> Zero]]
    BY <1>2 DEF InsertRow, Write
  <2> QED BY <2>1, <2>2, ZeroCounts DEF Grows, Status
<1>3. CASE OpenSource(s) \/ CheckItem(s) \/ AbortItem(s) \/ RecordFailure(s) \/ Finish(s)
  <2>1. Before(s)
    BY <1>1, <1>3 DEF OpenSource, CheckItem, AbortItem, RecordFailure, Finish, ScanInv, Working
  <2>2. row' = row \/ \E st \in Status : Write(s, st, scan[s])
    BY <1>3 DEF OpenSource, CheckItem, AbortItem, RecordFailure, Finish, Stop, OwnProgress, Progress, StopStatus, Status, database
  <2> QED BY <2>1, <2>2, OwnGrows DEF Grows
<1>4. CASE Commit(s) \/ LoseReply(s) \/ Land(s)
  <2>1. Sending(s)
    BY <1>4 DEF Commit, LoseReply, Land, Sending
  <2>2. row' = row \/ Apply(s)
    BY <1>4 DEF Commit, LoseReply, Land, database
  <2> QED BY <2>1, <2>2, ApplyGrows DEF Grows
<1>5. CASE Interrupt(s)
  <2>1. row[s].status = "running" /\ AtMost(row[s].count, row[s].count)
    BY <1>1, <1>5, AtMostSame DEF Interrupt, ScanInv
  <2>2. row' = row \/ Write(s, "interrupted", row[s].count)
    BY <1>5 DEF Interrupt
  <2> QED BY <1>1, <2>1, <2>2 DEF Grows, Write, Status
<1>6. CASE Admit(s) \/ Prepare(s) \/ Execute(s) \/ RollBack(s) \/ Confirm(s) \/ Release(s) \/ Cancel(s)
  <2>1. row' = row
    BY <1>6 DEF Admit, Prepare, Execute, RollBack, Confirm, Release, Cancel, database
  <2> QED BY <2>1 DEF Grows
<1> QED BY <1>2, <1>3, <1>4, <1>5, <1>6 DEF Step

Ends(t) ==
  /\ row[t].status \notin {"none", "running"} => row'[t] = row[t]
  /\ \A field \in DOMAIN Zero : row'[t].count[field] >= row[t].count[field]

LEMMA GrowsEnds ==
  ASSUME IInv, NEW s \in Scans, Grows(s), NEW t \in Scans PROVE Ends(t)
<1>1. row \in [Scans -> Rows] /\ row[t] \in Rows
  BY DEF IInv, Typed
<1>2. DOMAIN Zero = {"processed", "imported", "skipped", "failed"}
  BY DEF Zero
<1>3. row[t].count \in Counts
  BY <1>1 DEF Rows
<1>4. \A field \in DOMAIN Zero : row[t].count[field] \in Nat
  BY <1>2, <1>3 DEF Counts
<1>5. CASE row'[t] = row[t]
  BY <1>4, <1>5 DEF Ends
<1>6. CASE row'[t] # row[t]
  <2>1. PICK st \in Status, c \in Counts : AtMost(row[s].count, c) /\ row' = [row EXCEPT ![s] = [status |-> st, count |-> c]]
    BY <1>6 DEF Grows
  <2>2. t = s /\ row'[t] = [status |-> st, count |-> c] /\ row[t].status \in {"none", "running"}
    BY <1>1, <1>6, <2>1 DEF Grows
  <2>3. AtMost(row[t].count, c) /\ row'[t].count = c
    BY <2>1, <2>2
  <2>4. \A field \in DOMAIN Zero : c[field] >= row[t].count[field]
    <3>1. c.processed \in Nat /\ c.imported \in Nat /\ c.skipped \in Nat /\ c.failed \in Nat
      BY DEF Counts
    <3> QED BY <1>2, <1>4, <2>3, <3>1 DEF AtMost
  <2> QED BY <2>2, <2>3, <2>4 DEF Ends
<1> QED BY <1>5, <1>6

LEMMA RestartEnds == ASSUME IInv, Restart, NEW t \in Scans PROVE Ends(t)
<1>1. row[t] \in Rows
  BY DEF IInv, Typed
<1>2. \A field \in DOMAIN Zero : row[t].count[field] \in Nat
  BY <1>1 DEF Zero, Rows, Counts
<1>3. row'[t] = IF row[t].status = "running" THEN [row[t] EXCEPT !.status = "interrupted"] ELSE row[t]
  BY DEF Restart
<1>4. row'[t].count = row[t].count
  BY <1>1, <1>3 DEF Rows
<1> QED BY <1>2, <1>3, <1>4 DEF Ends

LEMMA StepEndsOnce == IInv /\ [Next]_vars => EndsOnce
<1> SUFFICES ASSUME IInv, [Next]_vars PROVE \A t \in Scans : Ends(t)
  BY DEF EndsOnce, Ends
<1>1. ASSUME NEW s \in Scans, Admit(s) \/ Step(s) \/ Land(s) \/ Cancel(s) PROVE \A t \in Scans : Ends(t)
  BY <1>1, StepGrows, GrowsEnds
<1>2. CASE Restart
  BY <1>2, RestartEnds
<1>3. CASE Shutdown \/ Exit \/ Crash \/ UNCHANGED vars
  <2>1. row' = row
    BY <1>3 DEF Shutdown, Exit, Crash, vars, database
  <2> QED BY <2>1, GrowsEnds DEF Grows
<1> QED BY <1>1, <1>2, <1>3 DEF Next

-----------------------------------------------------------------------------
(* Types, and the bounds of the counters and of the slots.                      *)

(* Counters of at most ItemCount items, one of which may not be decided yet.     *)
Fits(c) ==
  /\ c \in Counts /\ c.processed <= ItemCount
  /\ c.imported + c.skipped + c.failed <= c.processed
Fit(s) == Fits(row[s].count) /\ Fits(scan[s]) /\ Fits(next[s]) /\ item[s] \in 1 .. ItemCount + 1
SlotsInv == IsFiniteSet(Slots) /\ Cardinality(Slots) <= MaxScans
RestTyped ==
  /\ cancelled \in SUBSET Scans /\ process \in {"up", "stopping", "down"} /\ faults \in 0..MaxFaults

LEMMA FitsCounters == ASSUME ItemCount \in Nat, NEW c, Fits(c) PROVE c \in Counters
<1>1. /\ c.processed \in Nat /\ c.imported \in Nat /\ c.skipped \in Nat /\ c.failed \in Nat
      /\ c = [processed |-> c.processed, imported |-> c.imported, skipped |-> c.skipped, failed |-> c.failed]
  BY DEF Fits, Counts
<1>2. /\ c.processed \in 0..ItemCount /\ c.imported \in 0..ItemCount
      /\ c.skipped \in 0..ItemCount /\ c.failed \in 0..ItemCount
  BY <1>1 DEF Fits
<1> QED BY <1>1, <1>2 DEF Counters

LEMMA ZeroFits == ItemCount \in Nat => Fits(Zero)
BY ZeroCounts DEF Fits, Zero

(* One item more.                                                              *)
LEMMA CountsFit ==
  ASSUME ItemCount \in Nat, NEW s \in Scans, scan[s] \in Counts, Before(s), item[s] \in Items
  PROVE  /\ Fits(Processed(scan[s])) /\ Fits(FailedItem(scan[s]))
         /\ Fits([Processed(scan[s]) EXCEPT !.skipped = @ + 1])
         /\ Fits([Processed(scan[s]) EXCEPT !.imported = @ + 1])
<1>1. PICK c : c = scan[s]
  OBVIOUS
<1>2. /\ c \in Counts /\ Adds(c) /\ c.processed + 1 = item[s] /\ item[s] <= ItemCount
      /\ c.processed \in Nat /\ c.imported \in Nat /\ c.skipped \in Nat /\ c.failed \in Nat
  BY <1>1 DEF Before, Items, Counts
<1>3. Fits(Processed(c))
  BY <1>2, ProcessedIs, CountsGrow DEF Fits, Adds
<1>4. ASSUME NEW i \in 0..1, NEW k \in 0..1, NEW f \in 0..1, i + k + f = 1 PROVE Fits(Tally(c, i, k, f))
  <2>1. /\ Tally(c, i, k, f) \in Counts /\ Adds(Tally(c, i, k, f))
        /\ Tally(c, i, k, f).processed = c.processed + 1
    BY <1>2, <1>4, TallyIs
  <2>2. PICK d : d = Tally(c, i, k, f)
    OBVIOUS
  <2>3. d.imported \in Nat /\ d.skipped \in Nat /\ d.failed \in Nat /\ d.processed \in Nat
    BY <2>1, <2>2 DEF Counts
  <2> QED BY <1>2, <2>1, <2>2, <2>3 DEF Fits, Adds
<1>5. Fits(Tally(c, 0, 0, 1)) /\ Fits(Tally(c, 0, 1, 0)) /\ Fits(Tally(c, 1, 0, 0))
  BY <1>4
<1> QED BY <1>1, <1>2, <1>3, <1>5, CountsGrow

(* A worker's step takes every counter from one that fits.                      *)
Taking(s) ==
  \E r, c, d, n :
    /\ Fits(r.count) /\ Fits(c) /\ Fits(d) /\ n \in 1 .. ItemCount + 1
    /\ row' = [row EXCEPT ![s] = r] /\ scan' = [scan EXCEPT ![s] = c]
    /\ next' = [next EXCEPT ![s] = d] /\ item' = [item EXCEPT ![s] = n]

LEMMA TakingFits ==
  ASSUME Typed, \A t \in Scans : Fit(t), NEW s \in Scans, Taking(s) PROVE \A t \in Scans : Fit(t)'
BY DEF Typed, Taking, Fit

LEMMA WritesFit ==
  ASSUME NEW s \in Scans, Typed, Fit(s), NEW st, NEW c, Fits(c), Write(s, st, c)
  PROVE  \E r : Fits(r.count) /\ row' = [row EXCEPT ![s] = r]
<1>1. [status |-> st, count |-> c].count = c
  OBVIOUS
<1> QED BY <1>1 DEF Write

LEMMA StepFits ==
  ASSUME ScanAssumption, IInv, \A t \in Scans : Fit(t),
         NEW s \in Scans, Admit(s) \/ Step(s) \/ Land(s) \/ Cancel(s)
  PROVE  Taking(s)
<1>1. Typed /\ ScanInv(s) /\ Fit(s) /\ ItemCount \in Nat /\ Fits(Zero)
  BY ZeroFits DEF IInv, ScanAssumption
<1>2. /\ row = [row EXCEPT ![s] = row[s]] /\ item = [item EXCEPT ![s] = item[s]]
      /\ scan = [scan EXCEPT ![s] = scan[s]] /\ next = [next EXCEPT ![s] = next[s]]
      /\ scan[s] \in Counts
  BY <1>1, Own
<1>3. Fits(row[s].count) /\ Fits(scan[s]) /\ Fits(next[s]) /\ item[s] \in 1 .. ItemCount + 1
  BY <1>1 DEF Fit
<1>4. ASSUME NEW c, Fits(c), NEW d, Fits(d), NEW n \in 1 .. ItemCount + 1,
             scan' = [scan EXCEPT ![s] = c], next' = [next EXCEPT ![s] = d], item' = [item EXCEPT ![s] = n],
             row' = row \/ \E st : Write(s, st, scan[s]) \/ Write(s, st, next[s]) \/ Write(s, st, Zero) \/ Write(s, st, row[s].count)
      PROVE  Taking(s)
  <2>1. \E r : Fits(r.count) /\ row' = [row EXCEPT ![s] = r]
    BY <1>1, <1>2, <1>3, <1>4, WritesFit
  <2> QED BY <1>4, <2>1 DEF Taking
<1>5. CASE UNCHANGED loop /\ (row' = row \/ \E st : Write(s, st, scan[s]) \/ Write(s, st, next[s]) \/ Write(s, st, Zero)
                                                     \/ Write(s, st, row[s].count))
  BY <1>2, <1>3, <1>4, <1>5 DEF loop
<1>6. CASE InsertRow(s)
  BY <1>5, <1>6 DEF InsertRow
<1>7. CASE OpenSource(s) \/ CheckItem(s) \/ RecordFailure(s) \/ Finish(s)
  <2>1. UNCHANGED loop /\ (row' = row \/ \E st : Write(s, st, scan[s]))
    BY <1>7 DEF OpenSource, CheckItem, RecordFailure, Finish, Stop, OwnProgress, Progress, database
  <2> QED BY <1>5, <2>1
<1>8. CASE Admit(s) \/ RollBack(s) \/ Cancel(s)
  BY <1>5, <1>8 DEF Admit, RollBack, Cancel, database
<1>9. CASE LoseReply(s) \/ Land(s)
  BY <1>5, <1>9 DEF LoseReply, Land, Apply, database
<1>10. CASE Interrupt(s)
  BY <1>5, <1>10 DEF Interrupt
<1>11. CASE Prepare(s)
  <2>1. Before(s) /\ item[s] \in Items
    BY <1>1, <1>11 DEF Prepare, ScanInv, Working
  <2>2. Fits(Processed(scan[s])) /\ Fits(FailedItem(scan[s]))
    BY <1>1, <1>2, <2>1, CountsFit
  <2>3. PICK d : Fits(d) /\ next' = [next EXCEPT ![s] = d]
    BY <1>2, <1>3, <1>11, <2>2 DEF Prepare
  <2> QED BY <1>2, <1>3, <1>4, <1>11, <2>3 DEF Prepare, database
<1>12. CASE Execute(s)
  <2>1. Before(s) /\ item[s] \in Items /\ next[s] \in {Processed(scan[s]), FailedItem(scan[s])} /\ pc[s] = "execute"
    BY <1>1, <1>12 DEF Execute, ScanInv, Working
  <2>2. /\ Fits([Processed(scan[s]) EXCEPT !.skipped = @ + 1])
        /\ Fits([Processed(scan[s]) EXCEPT !.imported = @ + 1])
    BY <1>1, <1>2, <2>1, CountsFit
  <2>3. CASE UNCHANGED next
    BY <1>2, <1>3, <1>4, <1>12, <2>3 DEF Execute, database
  <2>4. CASE /\ next[s].failed = scan[s].failed
             /\ next' = IF InLibrary(s) THEN [next EXCEPT ![s].skipped = @ + 1]
                                        ELSE [next EXCEPT ![s].imported = @ + 1]
    <3>1. next[s] = Processed(scan[s])
      <4>1. FailedItem(scan[s]) = Tally(scan[s], 0, 0, 1) /\ Tally(scan[s], 0, 0, 1).failed = scan[s].failed + 1
        BY <1>2, CountsGrow DEF Tally
      <4>2. scan[s].failed \in Nat
        BY <1>2 DEF Counts
      <4> QED BY <2>1, <2>4, <4>1, <4>2
    <3>2. PICK d : Fits(d) /\ next' = [next EXCEPT ![s] = d]
      BY <1>1, <2>2, <2>4, <3>1 DEF Typed
    <3> QED BY <1>2, <1>3, <1>4, <1>12, <3>2 DEF Execute, database
  <2> QED BY <1>12, <2>3, <2>4 DEF Execute
<1>13. ASSUME item[s] \in Items, NEW c, Fits(c), Advance(s, c), UNCHANGED next,
              row' = row \/ \E st : Write(s, st, next[s])
       PROVE  Taking(s)
  <2>1. PICK n : n = item[s] + 1
    OBVIOUS
  <2>2. n \in 1 .. ItemCount + 1 /\ item' = [item EXCEPT ![s] = n]
    BY <1>1, <1>13, <2>1 DEF Items, Advance
  <2> QED BY <1>2, <1>3, <1>4, <1>13, <2>2 DEF Advance
<1>14. CASE Commit(s)
  <2>1. item[s] \in Items
    BY <1>1, <1>14 DEF Commit, ScanInv, Sending, Carries
  <2> QED BY <1>3, <1>13, <1>14, <2>1 DEF Commit, Apply
<1>15. CASE Confirm(s)
  <2>1. item[s] \in Items
    BY <1>1, <1>15 DEF Confirm, ScanInv, Carries, After
  <2>2. CASE Advance(s, row[s].count)
    BY <1>3, <1>13, <1>15, <2>1, <2>2 DEF Confirm, database
  <2>3. CASE UNCHANGED <<scan, item>>
    BY <1>5, <1>15, <2>3 DEF Confirm, database, loop
  <2> QED BY <1>15, <2>2, <2>3 DEF Confirm
<1>16. CASE AbortItem(s)
  <2>1. Before(s) /\ item[s] \in Items
    BY <1>1, <1>16 DEF AbortItem, ScanInv, Working
  <2>2. Fits(FailedItem(scan[s]))
    BY <1>1, <1>2, <2>1, CountsFit
  <2>3. CASE Advance(s, FailedItem(scan[s])) /\ UNCHANGED <<database, next>>
    BY <1>13, <2>1, <2>2, <2>3 DEF database
  <2>4. CASE UNCHANGED loop /\ (row' = row \/ \E st : Write(s, st, scan[s]))
    BY <1>5, <2>4
  <2> QED BY <1>16, <2>3, <2>4 DEF AbortItem, Stop, Progress
<1>17. CASE Release(s)
  <2>1. CASE UNCHANGED loop
    BY <1>5, <1>17, <2>1 DEF Release, database
  <2>2. CASE /\ item' = [item EXCEPT ![s] = 1]
             /\ scan' = [scan EXCEPT ![s] = Zero] /\ next' = [next EXCEPT ![s] = Zero]
    <3>1. 1 \in 1 .. ItemCount + 1 /\ row' = row
      BY <1>1, <1>17 DEF Release, database
    <3> QED BY <1>1, <1>4, <2>2, <3>1
  <2> QED BY <1>17, <2>1, <2>2 DEF Release
<1> QED BY <1>6, <1>7, <1>8, <1>9, <1>10, <1>11, <1>12, <1>14, <1>15, <1>16, <1>17 DEF Step

LEMMA FitStep ==
  ScanAssumption /\ IInv /\ (\A t \in Scans : Fit(t)) /\ [Next]_vars => \A t \in Scans : Fit(t)'
<1> SUFFICES ASSUME ScanAssumption, IInv, \A t \in Scans : Fit(t), [Next]_vars PROVE \A t \in Scans : Fit(t)'
  OBVIOUS
<1>1. Typed
  BY DEF IInv
<1>2. ASSUME NEW s \in Scans, Admit(s) \/ Step(s) \/ Land(s) \/ Cancel(s) PROVE \A t \in Scans : Fit(t)'
  BY <1>1, <1>2, StepFits, TakingFits
<1>3. CASE Shutdown \/ Exit \/ Crash \/ UNCHANGED vars
  BY <1>3 DEF Shutdown, Exit, Crash, vars, database, loop, Fit
<1>4. CASE Restart
  <2>1. \A t \in Scans : row'[t].count = row[t].count
    <3> SUFFICES ASSUME NEW t \in Scans PROVE row'[t].count = row[t].count
      OBVIOUS
    <3>1. row[t] \in Rows
      BY <1>1 DEF Typed
    <3>2. row'[t] = IF row[t].status = "running" THEN [row[t] EXCEPT !.status = "interrupted"] ELSE row[t]
      BY <1>4 DEF Restart
    <3> QED BY <3>1, <3>2 DEF Rows
  <2> QED BY <1>4, <2>1 DEF Restart, loop, Fit
<1> QED BY <1>2, <1>3, <1>4 DEF Next

LEMMA SlotsShrink ==
  ASSUME SlotsInv, MaxScans \in Nat, Slots' \subseteq Slots PROVE SlotsInv'
<1>1. IsFiniteSet(Slots') /\ Cardinality(Slots') <= Cardinality(Slots)
  BY FS_Subset DEF SlotsInv
<1>2. Cardinality(Slots) \in Nat /\ Cardinality(Slots') \in Nat
  BY <1>1, FS_CardinalityType DEF SlotsInv
<1> QED BY <1>1, <1>2 DEF SlotsInv

LEMMA SlotsStep == ScanAssumption /\ IInv /\ SlotsInv /\ [Next]_vars => SlotsInv'
<1> SUFFICES ASSUME ScanAssumption, IInv, SlotsInv, [Next]_vars PROVE SlotsInv'
  OBVIOUS
<1>1. pc \in [Scans -> PC] /\ MaxScans \in Nat
  BY DEF IInv, Typed, ScanAssumption
<1>2. ASSUME NEW s \in Scans, Admit(s) PROVE SlotsInv'
  <2>1. pc[s] = "none" /\ pc' = [pc EXCEPT ![s] = "insert"] /\ Cardinality(Slots) < MaxScans
    BY <1>2 DEF Admit, Goto
  <2>2. s \notin Slots /\ Slots' = Slots \cup {s}
    BY <1>1, <2>1 DEF Slots
  <2>3. IsFiniteSet(Slots') /\ Cardinality(Slots') = Cardinality(Slots) + 1
    BY <2>2, FS_AddElement DEF SlotsInv
  <2>4. Cardinality(Slots) \in Nat
    BY FS_CardinalityType DEF SlotsInv
  <2> QED BY <1>1, <2>1, <2>3, <2>4 DEF SlotsInv
<1>3. ASSUME NEW s \in Scans, Step(s) PROVE SlotsInv'
  <2>1. pc[s] \notin {"none", "ended"}
    BY <1>3 DEF Step, InsertRow, OpenSource, CheckItem, Prepare, Execute, Commit, RollBack, LoseReply, Confirm,
       Interrupt, AbortItem, RecordFailure, Finish, Release
  <2>2. \E label : pc' = [pc EXCEPT ![s] = label]
    BY <1>3 DEF Step, InsertRow, OpenSource, CheckItem, Stop, Prepare, Execute, Commit, RollBack, LoseReply, Confirm,
       Interrupt, AbortItem, RecordFailure, Finish, Release, Goto
  <2>3. Slots' \subseteq Slots
    BY <1>1, <2>1, <2>2 DEF Slots
  <2> QED BY <1>1, <2>3, SlotsShrink
<1>4. CASE pc' = pc
  BY <1>1, <1>4, SlotsShrink DEF Slots
<1>5. ASSUME NEW s \in Scans, Land(s) \/ Cancel(s) PROVE pc' = pc
  BY <1>5 DEF Land, Cancel
<1>6. Shutdown \/ Exit \/ Restart \/ UNCHANGED vars => pc' = pc
  BY DEF Shutdown, Exit, Restart, vars
<1>7. CASE Crash
  BY <1>1, <1>7, SlotsShrink DEF Crash, Slots
<1> QED BY <1>2, <1>3, <1>4, <1>5, <1>6, <1>7 DEF Next

LEMMA RestStep == ScanAssumption /\ RestTyped /\ [Next]_vars => RestTyped'
<1> SUFFICES ASSUME ScanAssumption, RestTyped, [Next]_vars PROVE RestTyped'
  OBVIOUS
<1>1. Fault => faults' \in 0..MaxFaults
  BY DEF RestTyped, Fault, ScanAssumption
<1>2. ASSUME NEW s \in Scans, Admit(s) \/ Step(s) \/ Land(s) \/ Cancel(s) PROVE RestTyped'
  <2>1. UNCHANGED faults \/ Fault
    BY <1>2 DEF Admit, Step, Land, Cancel, InsertRow, OpenSource, CheckItem, Stop, Prepare, Execute, Commit, RollBack,
       LoseReply, Confirm, Interrupt, AbortItem, RecordFailure, Finish, Release, Disturbed, OwnProgress, Progress
  <2>2. UNCHANGED process
    BY <1>2 DEF Admit, Step, Land, Cancel, InsertRow, OpenSource, CheckItem, Stop, Prepare, Execute, Commit, RollBack,
       LoseReply, Confirm, Interrupt, AbortItem, RecordFailure, Finish, Release
  <2>3. cancelled' \subseteq cancelled \cup {s}
    BY <1>2 DEF Admit, Step, Land, Cancel, InsertRow, OpenSource, CheckItem, Stop, Prepare, Execute, Commit, RollBack,
       LoseReply, Confirm, Interrupt, AbortItem, RecordFailure, Finish, Release
  <2> QED BY <1>1, <2>1, <2>2, <2>3 DEF RestTyped
<1>3. CASE Shutdown \/ Exit \/ Restart \/ UNCHANGED vars
  BY <1>3 DEF Shutdown, Exit, Restart, RestTyped, Slots, vars
<1>4. CASE Crash
  BY <1>1, <1>4 DEF Crash, RestTyped
<1> QED BY <1>2, <1>3, <1>4 DEF Next

-----------------------------------------------------------------------------
(* Everything the theorems need, and what it says.                              *)

AllInv == IInv /\ DownInv /\ (\A s \in Scans : Fit(s)) /\ SlotsInv /\ RestTyped

LEMMA AllInit == ScanAssumption /\ Init => AllInv
<1> SUFFICES ASSUME ScanAssumption, Init PROVE AllInv
  OBVIOUS
<1>1. \A s \in Scans : Fit(s)
  <2>1. Fits(Zero) /\ 1 \in 1 .. ItemCount + 1
    BY ZeroFits DEF ScanAssumption
  <2> QED BY <2>1 DEF Init, Fit
<1>2. SlotsInv
  <2>1. Slots = {}
    BY DEF Init, Slots
  <2> QED BY <2>1, FS_EmptySet DEF SlotsInv, ScanAssumption
<1>3. RestTyped
  BY DEF Init, RestTyped, ScanAssumption
<1> QED BY <1>1, <1>2, <1>3, InitKeeps DEF AllInv

LEMMA AllStep == ScanAssumption /\ AllInv /\ [Next]_vars => AllInv'
BY StepKeeps, FitStep, SlotsStep, RestStep DEF AllInv

LEMMA Always == ASSUME ScanAssumption PROVE Spec => []AllInv
BY AllInit, AllStep, PTL DEF Spec

LEMMA SaysTypeOK == ScanAssumption /\ AllInv => TypeOK
<1> SUFFICES ASSUME ScanAssumption, AllInv PROVE TypeOK
  OBVIOUS
<1>1. Typed /\ ItemCount \in Nat /\ \A s \in Scans : Fit(s)
  BY DEF AllInv, IInv, ScanAssumption
<1>2. \A s \in Scans : row[s].count \in Counters /\ scan[s] \in Counters /\ next[s] \in Counters /\ item[s] \in 1 .. ItemCount + 1
  BY <1>1, FitsCounters DEF Fit
<1>3. \A s \in Scans : row[s] \in [status : Status, count : Counters]
  <2> SUFFICES ASSUME NEW s \in Scans PROVE row[s] \in [status : Status, count : Counters]
    OBVIOUS
  <2>1. row[s] \in Rows
    BY <1>1 DEF Typed
  <2> QED BY <1>2, <2>1 DEF Rows
<1>4. /\ row \in [Scans -> [status : Status, count : Counters]] /\ scan \in [Scans -> Counters]
      /\ next \in [Scans -> Counters] /\ item \in [Scans -> 1 .. ItemCount + 1]
  BY <1>1, <1>2, <1>3 DEF Typed
<1>5. Cardinality(Slots) <= MaxScans
  BY DEF AllInv, SlotsInv
<1>6. library \in SUBSET (Scans \X Items) /\ flight \in SUBSET Scans /\ pc \in [Scans -> PC]
  BY <1>1 DEF Typed
<1>7. cancelled \in SUBSET Scans /\ process \in {"up", "stopping", "down"} /\ faults \in 0..MaxFaults
  BY DEF AllInv, RestTyped
<1> QED BY <1>4, <1>5, <1>6, <1>7 DEF TypeOK

LEMMA SaysRowsAddUp == AllInv => RowsAddUp
BY DEF AllInv, IInv, ScanInv, Adds, RowsAddUp

LEMMA SaysImportsCounted == AllInv => ImportsCounted
BY DEF AllInv, IInv, ScanInv, Counted, Mine, ImportsCounted

LEMMA SaysEachItemOnce == AllInv => EachItemOnce
BY DEF AllInv, IInv, ScanInv, Working, Before, EachItemOnce

LEMMA SaysOneBiosFile == AllInv => OneBiosFile
<1> SUFFICES ASSUME IInv PROVE OneBiosFile
  BY DEF AllInv
<1>1. \A x \in library : KindOf[x[1]] = "bios" => x \in Taken
  BY DEF IInv, Typed, Taken
<1> QED BY <1>1 DEF IInv, BiosInv, OneBiosFile

LEMMA SaysEndsOnce == AllInv /\ [Next]_vars => EndsOnce
BY StepEndsOnce DEF AllInv

-----------------------------------------------------------------------------
(* Theorems.                                                                   *)

\* The counters of a scan stay within its items, and no more scans than slots are
\* at work (admit).
THEOREM ScansTypeOK == ASSUME ScanAssumption PROVE Spec => []TypeOK
BY Always, SaysTypeOK, PTL

\* What the row of a scan says of its items adds up after every transaction,
\* lost reply, crash and restart, and a scan that finish calls complete has
\* accounted for each of its items.
THEOREM RowsAlwaysAddUp == ASSUME ScanAssumption PROVE Spec => []RowsAddUp
BY Always, SaysRowsAddUp, PTL

\* commitGame and commitBios count as imported what they put into the library,
\* whichever of them loses its reply, and however late that one is decided.
THEOREM ImportsAreCounted == ASSUME ScanAssumption PROVE Spec => []ImportsCounted
BY Always, SaysImportsCounted, PTL

\* The loop of run and runBios has accounted for each item before the present
\* one exactly once, after an uncertain commit that confirmCommit found as well.
THEOREM ItemsAreCountedOnce == ASSUME ScanAssumption PROVE Spec => []EachItemOnce
BY Always, SaysEachItemOnce, PTL

\* InstallBios waits for a transaction that installs the same file: no two
\* scans ever both install it.
THEOREM BiosFilesAreUnique == ASSUME ScanAssumption PROVE Spec => []OneBiosFile
BY Always, SaysOneBiosFile, PTL

\* The row of a scan that ended is written by nobody, a transaction decided
\* late included, and no statement lowers a count.
THEOREM ScansEndOnce == ASSUME ScanAssumption PROVE Spec => [][EndsOnce]_vars
<1>1. AllInv /\ [Next]_vars => [EndsOnce]_vars
  BY SaysEndsOnce
<1> QED BY <1>1, Always, PTL DEF Spec
-------------------------------------------------------------------------------
(* The constants are those of a server.                                                       *)
Configured ==
  /\ Worker!RuntimeAssumption /\ Worker!RuntimeNames
  /\ ScanAssumption /\ Executor!ReplacementAssumption

SInv ==
  /\ servicesPart \in {"worker", "scans", "replacement"}
  /\ servicesPart = "worker" => Worker!WInv
  /\ servicesPart = "scans" => AllInv
  /\ servicesPart = "replacement" => Executor!IInv

(* A step is one of the module whose behaviour this is.                                        *)
LEMMA OnePart ==
  ASSUME SInv, [ServicesNext]_servicesVars
  PROVE  /\ servicesPart' = servicesPart
         /\ servicesPart = "worker" => [Worker!Next]_(Worker!vars)
         /\ servicesPart = "scans" => [Next]_vars
         /\ servicesPart = "replacement" => [Executor!Next]_(Executor!vars)
<1>1. servicesPart' = servicesPart
  BY DEF ServicesNext, servicesVars
<1>2. ASSUME servicesPart = "worker" PROVE [Worker!Next]_(Worker!vars)
  BY <1>2 DEF ServicesNext, servicesVars, workerVars, Worker!vars, Worker!callVars, Worker!laneVars, Worker!processVars
<1>3. ASSUME servicesPart = "scans" PROVE [Next]_vars
  BY <1>3 DEF ServicesNext, servicesVars
<1>4. ASSUME servicesPart = "replacement" PROVE [Executor!Next]_(Executor!vars)
  BY <1>4 DEF ServicesNext, servicesVars, replacementVars, Executor!vars, Executor!executor, Executor!worker, Executor!database
<1> QED BY <1>1, <1>2, <1>3, <1>4

LEMMA SInit ==
  ASSUME Configured, ServicesInit
  PROVE  SInv
BY Worker!WInit, AllInit, Executor!IInvInit DEF Configured, ServicesInit, SInv

LEMMA SStep ==
  ASSUME Configured, SInv, [ServicesNext]_servicesVars
  PROVE  SInv'
<1>1. servicesPart' = servicesPart /\ servicesPart \in {"worker", "scans", "replacement"}
  BY OnePart DEF SInv
<1>2. ASSUME servicesPart = "worker" PROVE Worker!WInv'
  BY <1>2, OnePart, Worker!WStep DEF SInv, Configured
<1>3. ASSUME servicesPart = "scans" PROVE AllInv'
  BY <1>3, OnePart, AllStep DEF SInv, Configured
<1>4. ASSUME servicesPart = "replacement" PROVE Executor!IInv'
  BY <1>4, OnePart, Executor!IInvStep DEF SInv, Configured
<1> QED BY <1>1, <1>2, <1>3, <1>4 DEF SInv

LEMMA SAlways ==
  ASSUME Configured
  PROVE  ServicesSpec => []SInv
<1>1. ServicesInit => SInv
  BY SInit
<1>2. SInv /\ [ServicesNext]_servicesVars => SInv'
  BY SStep
<1> QED BY <1>1, <1>2, PTL DEF ServicesSpec

(* scheduling.go and worker.go: a call waits only while every slot of its lane is taken, the    *)
(* counters are those of the leases, and what Node executes holds a slot.                      *)
THEOREM LanesAlwaysServe == ASSUME Configured PROVE ServicesSpec => []LanesServe
<1>1. SInv => LanesServe
  BY Worker!SaysTypeOK, Worker!SaysCountersAgree, Worker!SaysNoIdleSlot, Worker!SaysExecutionsHoldSlots
     DEF Configured, SInv, LanesServe
<1> QED BY <1>1, SAlways, PTL

(* scans/service.go: the row of a scan adds up and counts exactly what is in the library,       *)
(* whatever replies were lost and wherever the process stopped.                               *)
THEOREM RowsAlwaysAgree == ASSUME Configured PROVE ServicesSpec => []RowsAgree
<1>1. SInv => RowsAgree
  BY SaysTypeOK, SaysRowsAddUp, SaysImportsCounted, SaysEachItemOnce, SaysOneBiosFile
     DEF Configured, SInv, RowsAgree
<1> QED BY <1>1, SAlways, PTL

(* replacement.go: a session reported as completed has published, one reported as failed or     *)
(* cancelled never will.                                                                     *)
THEOREM ServicesTellTheTruth == ASSUME Configured PROVE ServicesSpec => []Truthful
<1>1. SInv => Truthful
  BY Executor!SaysTypeOK, Executor!SaysExecutorAgrees, Executor!SaysCancelHonoured, Executor!SaysTruthful
     DEF Configured, SInv, Truthful
<1> QED BY <1>1, SAlways, PTL

(* replacement.go, beginPublication: what a restart finds published is recorded with its file.  *)
THEOREM ServicesRecover == ASSUME Configured PROVE ServicesSpec => []Recoverable
<1>1. SInv => Recoverable
  BY Executor!SaysRecoverable DEF SInv, Recoverable
<1> QED BY <1>1, SAlways, PTL

(* What a scan or a replacement ended with stays, whatever transaction comes late.             *)
THEOREM ServicesEndOnce == ASSUME Configured PROVE ServicesSpec => ResultsFinal
<1>1. SInv /\ [ServicesNext]_servicesVars => [KeepsResults]_servicesVars
  <2> SUFFICES ASSUME SInv, [ServicesNext]_servicesVars PROVE KeepsResults \/ UNCHANGED servicesVars
    OBVIOUS
  <2>1. ASSUME servicesPart = "scans" PROVE EndsOnce
    BY <2>1, OnePart, SaysEndsOnce DEF SInv
  <2>2. ASSUME servicesPart = "replacement" PROVE Executor!ResultsFinal \/ UNCHANGED Executor!vars
    BY <2>2, OnePart, Executor!SaysResultsFinal DEF SInv, Configured
  <2>3. UNCHANGED Executor!vars => Executor!ResultsFinal
    BY DEF Executor!vars, Executor!ResultsFinal
  <2> QED BY <2>1, <2>2, <2>3 DEF KeepsResults
<1> QED BY <1>1, SAlways, PTL DEF ServicesSpec, ResultsFinal
==============================================================================
