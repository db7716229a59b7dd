---------------------------- MODULE TransfersProofs ----------------------------
(***************************************************************************)
(* What the upload of games and the relay of their content promise.          *)
(*                                                                           *)
(* The invariant UInv of UploadClient says of every session what the server  *)
(* holds of it, of every transfer what its workers have still to send, and   *)
(* of the sheet and the page which of them they show.  In a behaviour of     *)
(* Transfers the variables of the upload move as UploadClient says, or those *)
(* of the relay as ContentRelay says, and the others not at all; so UInv     *)
(* beside the invariant of ContentRelayProofs is inductive for the whole.    *)
(***************************************************************************)
EXTENDS Transfers, SequenceTheorems, TLAPS

FileLists == {<<>>, <<"a">>, <<"b">>, <<"a", "b">>}

(* A session of the server: the first chunks of each of its files.            *)
SessionType ==
  [state : {"none", "open", "gone", "scanning"}, format : Formats, files : FileLists,
   got : UNION {[1 .. n -> Seq(Files \X Nat)] : n \in 0 .. 2}]
FirstChunks(f, got) == Len(got) <= Size[f] /\ \A k \in 1 .. Len(got) : got[k] = <<f, k - 1>>
Served(r) ==
  /\ r \in SessionType /\ DOMAIN r.got = DOMAIN r.files
  /\ \A i \in DOMAIN r.files : FirstChunks(r.files[i], r.got[i])
ServerInv(sv) ==
  /\ DOMAIN sv = Sessions /\ sv = [s \in Sessions |-> sv[s]]
  /\ \A s \in Sessions : Served(sv[s])

OpenIn(s, sv) == s # 0 /\ sv[s].state = "open"
WholeIn(s, sv) == \A i \in DOMAIN sv[s].files : Len(sv[s].got[i]) = Size[sv[s].files[i]]
Known(s, sv) == s \in 0 .. MaxSessions /\ (s # 0 => sv[s].state # "none")

(* What is done to the server leaves what a session has where it was.          *)
Goes(r, q) ==
  r.state # "none" =>
    /\ q.state # "none"
    /\ q.state = "open" =>
         /\ r.state = "open" /\ q.files = r.files
         /\ \A i \in DOMAIN r.files : Len(q.got[i]) >= Len(r.got[i])
Later(sv, tv) == \A s \in Sessions : Goes(sv[s], tv[s])

StrayInv(c, sv) ==
  /\ Known(c.session, sv) /\ c.session # 0 /\ c.offset \in Nat
  /\ OpenIn(c.session, sv) =>
       /\ c.index \in DOMAIN sv[c.session].files
       /\ c.file = sv[c.session].files[c.index] /\ c.offset < Size[c.file]
-------------------------------------------------------------------------------
LEMMA UBounds ==
  ASSUME BoundsArePositive
  PROVE  MaxSessions \in Nat /\ MaxTransfers \in Nat /\ MaxActs \in Nat
BY DEF BoundsArePositive

LEMMA ListFacts ==
  ASSUME NEW fl \in FileLists
  PROVE  /\ Len(fl) \in 0 .. 2 /\ DOMAIN fl = 1 .. Len(fl) /\ DOMAIN fl \subseteq 1 .. 2
         /\ \A i \in DOMAIN fl : fl[i] \in Files /\ Size[fl[i]] \in 1 .. 2
<1>1. CASE fl = <<>>
  BY <1>1 DEF Files, Size
<1>2. CASE fl = <<"a">>
  BY <1>2 DEF Files, Size
<1>3. CASE fl = <<"b">>
  BY <1>3 DEF Files, Size
<1>4. CASE fl = <<"a", "b">>
  BY <1>4 DEF Files, Size
<1> QED BY <1>1, <1>2, <1>3, <1>4 DEF FileLists

LEMMA OrderIs ==
  ASSUME NEW fs
  PROVE  Order(fs) \in FileLists
BY DEF Order, FileLists

LEMMA EntriesIs ==
  ASSUME NEW fl \in FileLists
  PROVE  EntriesOf(fl) = fl
<1>1. EntriesOf(fl) = [i \in DOMAIN fl |-> fl[i]]
  <2>1. \A i \in DOMAIN fl : (CHOOSE f \in Files : f = fl[i]) = fl[i]
    BY ListFacts
  <2> QED BY <2>1 DEF EntriesOf
<1>2. fl \in Seq(Files)
  <2>1. CASE fl = <<>>
    BY <2>1
  <2>2. CASE fl = <<"a">>
    BY <2>2 DEF Files
  <2>3. CASE fl = <<"b">>
    BY <2>3 DEF Files
  <2>4. CASE fl = <<"a", "b">>
    BY <2>4 DEF Files
  <2> QED BY <2>1, <2>2, <2>3, <2>4 DEF FileLists
<1>3. fl = [i \in DOMAIN fl |-> fl[i]]
  BY <1>2
<1> QED BY <1>1, <1>3

LEMMA ServedAt ==
  ASSUME NEW sv, ServerInv(sv), NEW s \in Sessions
  PROVE  /\ Served(sv[s]) /\ sv[s] \in SessionType /\ sv[s].files \in FileLists
         /\ sv[s].state \in {"none", "open", "gone", "scanning"}
         /\ DOMAIN sv[s].got = DOMAIN sv[s].files
         /\ \A i \in DOMAIN sv[s].files :
              /\ sv[s].got[i] \in Seq(Files \X Nat) /\ Len(sv[s].got[i]) \in Nat
              /\ FirstChunks(sv[s].files[i], sv[s].got[i])
<1>1. Served(sv[s]) /\ sv[s] \in SessionType /\ DOMAIN sv[s].got = DOMAIN sv[s].files
  BY DEF ServerInv, Served
<1>2. sv[s].files \in FileLists /\ sv[s].state \in {"none", "open", "gone", "scanning"}
      /\ sv[s].got \in UNION {[1 .. n -> Seq(Files \X Nat)] : n \in 0 .. 2}
  BY <1>1 DEF SessionType
<1>3. PICK n \in 0 .. 2 : sv[s].got \in [1 .. n -> Seq(Files \X Nat)]
  BY <1>2
<1>4. \A i \in DOMAIN sv[s].files : sv[s].got[i] \in Seq(Files \X Nat)
  BY <1>1, <1>3
<1>5. \A i \in DOMAIN sv[s].files : Len(sv[s].got[i]) \in Nat
  BY <1>4, LenProperties
<1> QED BY <1>1, <1>2, <1>4, <1>5 DEF Served

LEMMA LaterSame ==
  ASSUME NEW sv, ServerInv(sv)
  PROVE  Later(sv, sv)
<1> SUFFICES ASSUME NEW s \in Sessions PROVE Goes(sv[s], sv[s])
  BY DEF Later
<1>1. \A i \in DOMAIN sv[s].files : Len(sv[s].got[i]) \in Nat
  BY ServedAt
<1> QED BY <1>1 DEF Goes

(* One session changes.                                                       *)
LEMMA OneSession ==
  ASSUME NEW sv, ServerInv(sv), NEW s \in Sessions, NEW r, Served(r), Goes(sv[s], r)
  PROVE  ServerInv([sv EXCEPT ![s] = r]) /\ Later(sv, [sv EXCEPT ![s] = r]) /\ [sv EXCEPT ![s] = r][s] = r
<1>0. PICK tv : tv = [sv EXCEPT ![s] = r]
  OBVIOUS
<1>1. /\ DOMAIN tv = Sessions /\ tv = [q \in Sessions |-> tv[q]]
      /\ tv[s] = r /\ \A q \in Sessions \ {s} : tv[q] = sv[q]
  BY <1>0 DEF ServerInv
<1>2. ServerInv(tv)
  BY <1>1 DEF ServerInv
<1>3. Later(sv, tv)
  <2>1. Later(sv, sv)
    BY LaterSame
  <2> QED BY <1>1, <2>1 DEF Later
<1> QED BY <1>0, <1>1, <1>2, <1>3

(* PUT: where the file ends and only there, the chunk that comes next.          *)
LEMMA StoredIs ==
  ASSUME ServerInv(server), NEW c, StrayInv(c, server), NEW tv, tv = Stored(c)
  PROVE  /\ ServerInv(tv) /\ Later(server, tv)
         /\ Fits(c) => Len(tv[c.session].got[c.index]) = c.offset + 1
<1>1. CASE ~Fits(c)
  BY <1>1, LaterSame DEF Stored
<1>2. CASE Fits(c)
  <2>0. PICK s, i, o, old, got : /\ s = c.session /\ i = c.index /\ o = c.offset /\ old = server[s]
                                /\ got = [old.got EXCEPT ![i] = Append(old.got[i], <<c.file, o>>)]
    OBVIOUS
  <2>1. /\ s \in Sessions /\ old.state = "open" /\ i \in DOMAIN old.files /\ c.file = old.files[i]
        /\ o \in Nat /\ o < Size[c.file] /\ o = Len(old.got[i])
    <3>1. OpenIn(s, server) /\ o = Len(old.got[i])
      BY <1>2, <2>0 DEF Fits, Open, None, OpenIn
    <3>2. Known(s, server) /\ s # 0
      BY <2>0 DEF StrayInv
    <3>3. s \in Sessions
      BY <3>2 DEF Known, Sessions
    <3> QED BY <2>0, <3>1, <3>3 DEF StrayInv, OpenIn
  <2>2. /\ old \in SessionType /\ old.files \in FileLists /\ DOMAIN old.got = DOMAIN old.files
        /\ \A j \in DOMAIN old.files : old.got[j] \in Seq(Files \X Nat) /\ Len(old.got[j]) \in Nat
             /\ FirstChunks(old.files[j], old.got[j])
    BY <2>0, <2>1, ServedAt
  <2>3. tv = [server EXCEPT ![s] = [old EXCEPT !.got = got]]
    BY <1>2, <2>0 DEF Stored
  <2>4. PICK n \in 0 .. 2 : old.got \in [1 .. n -> Seq(Files \X Nat)] /\ DOMAIN old.files = 1 .. n
    <3>1. old.got \in UNION {[1 .. n -> Seq(Files \X Nat)] : n \in 0 .. 2}
      BY <2>2 DEF SessionType
    <3> QED BY <2>2, <3>1
  <2>5. PICK more : more = Append(old.got[i], <<c.file, o>>)
    OBVIOUS
  <2>6. /\ more \in Seq(Files \X Nat) /\ Len(more) = o + 1 /\ more[o + 1] = <<c.file, o>>
        /\ \A k \in 1 .. o : more[k] = old.got[i][k]
    <3>1. c.file \in Files
      BY <2>1, <2>2, ListFacts
    <3>2. <<c.file, o>> \in Files \X Nat
      BY <2>1, <3>1
    <3>3. old.got[i] \in Seq(Files \X Nat) /\ Len(old.got[i]) = o
      BY <2>1, <2>2
    <3> QED BY <2>5, <3>2, <3>3, AppendProperties
  <2>7. got \in [1 .. n -> Seq(Files \X Nat)] /\ got[i] = more /\ \A j \in DOMAIN old.files \ {i} : got[j] = old.got[j]
    BY <2>0, <2>1, <2>4, <2>5, <2>6, Zenon
  <2>8. FirstChunks(c.file, more)
    <3>1. FirstChunks(c.file, old.got[i])
      BY <2>1, <2>2
    <3>2. Size[c.file] \in 1 .. 2
      BY <2>1, <2>2, ListFacts
    <3>3. Len(more) <= Size[c.file]
      BY <2>1, <2>6, <3>2
    <3>4. ASSUME NEW k \in 1 .. Len(more) PROVE more[k] = <<c.file, k - 1>>
      <4>1. CASE k \in 1 .. o
        BY <2>1, <2>6, <3>1, <4>1 DEF FirstChunks
      <4>2. CASE k = o + 1
        <5>1. k - 1 = o
          BY <2>1, <4>2
        <5> QED BY <2>6, <4>2, <5>1
      <4> QED BY <2>1, <2>6, <4>1, <4>2
    <3> QED BY <3>3, <3>4 DEF FirstChunks
  <2>9. PICK r : r = [old EXCEPT !.got = got]
    OBVIOUS
  <2>10. r \in SessionType /\ r.files = old.files /\ r.got = got /\ r.state = old.state
    <3>1. got \in UNION {[1 .. m -> Seq(Files \X Nat)] : m \in 0 .. 2}
      BY <2>7
    <3> QED BY <2>2, <2>9, <3>1 DEF SessionType
  <2>11. Served(r)
    BY <2>1, <2>2, <2>4, <2>7, <2>8, <2>10 DEF Served
  <2>12. Goes(old, r)
    <3>1. \A j \in DOMAIN old.files : Len(got[j]) >= Len(old.got[j])
      <4>1. ASSUME NEW j \in DOMAIN old.files, j # i PROVE Len(got[j]) >= Len(old.got[j])
        BY <2>2, <2>7, <4>1
      <4>2. Len(got[i]) >= Len(old.got[i])
        BY <2>1, <2>6, <2>7
      <4> QED BY <4>1, <4>2
    <3> QED BY <2>10, <3>1 DEF Goes
  <2>13. ServerInv(tv) /\ Later(server, tv) /\ tv[s] = r
    <3>1. Goes(server[s], r) /\ s \in Sessions
      BY <2>0, <2>1, <2>12
    <3>2. ServerInv([server EXCEPT ![s] = r]) /\ Later(server, [server EXCEPT ![s] = r]) /\ [server EXCEPT ![s] = r][s] = r
      BY <2>11, <3>1, OneSession, Zenon
    <3> QED BY <2>3, <2>9, <3>2
  <2> QED BY <2>0, <2>6, <2>7, <2>10, <2>13
<1> QED BY <1>1, <1>2

LEMMA EmptyServed ==
  ASSUME NEW st \in {"none", "open", "gone", "scanning"}, NEW r, r = [NoSession EXCEPT !.state = st] \/ r = NoSession
  PROVE  Served(r) /\ r.state \in {st, "none"} /\ (r # NoSession => r.state = st)
<1>1. NoSession.got \in UNION {[1 .. n -> Seq(Files \X Nat)] : n \in 0 .. 2} /\ NoSession.got = <<>>
  <2>1. <<>> \in [1 .. 0 -> Seq(Files \X Nat)]
    OBVIOUS
  <2>2. NoSession.got = <<>> /\ 0 \in 0 .. 2
    BY DEF NoSession
  <2> QED BY <2>1, <2>2
<1>2. r \in SessionType /\ r.files = <<>> /\ r.got = <<>> /\ r.state \in {st, "none"} /\ (r # NoSession => r.state = st)
  <2>1. NoSession \in SessionType
    BY <1>1 DEF NoSession, SessionType, Formats, FileLists
  <2>2. NoSession.files = <<>> /\ NoSession.state = "none"
    BY DEF NoSession
  <2> QED BY <1>1, <2>1, <2>2 DEF SessionType
<1> QED BY <1>2 DEF Served

(* The session that is declared was none before.                               *)
LEMMA FreshIs ==
  ASSUME BoundsArePositive, \E s \in Sessions : server[s].state = "none"
  PROVE  Fresh \in Sessions /\ server[Fresh].state = "none"
BY DEF Fresh

LEMMA DeclaredIs ==
  ASSUME BoundsArePositive, ServerInv(server), \E s \in Sessions : server[s].state = "none",
         NEW fs, NEW format \in Formats, NEW tv, tv = Declared(fs, format)
  PROVE  ServerInv(tv) /\ Later(server, tv) /\ Known(Fresh, tv) /\ Fresh # 0 /\ tv[Fresh].state = "open"
<1>1. Fresh \in Sessions /\ server[Fresh].state = "none"
  BY FreshIs
<1>2. PICK fl, s : fl = Order(fs) /\ s = Fresh
  OBVIOUS
<1>3. fl \in FileLists /\ Len(fl) \in 0 .. 2 /\ DOMAIN fl = 1 .. Len(fl) /\ \A i \in DOMAIN fl : Size[fl[i]] \in 1 .. 2
  BY <1>2, OrderIs, ListFacts
<1>4. PICK got : got = [i \in 1 .. Len(fl) |-> <<>>]
  OBVIOUS
<1>5. got \in UNION {[1 .. n -> Seq(Files \X Nat)] : n \in 0 .. 2} /\ DOMAIN got = DOMAIN fl
  <2>1. <<>> \in Seq(Files \X Nat)
    OBVIOUS
  <2>2. got \in [1 .. Len(fl) -> Seq(Files \X Nat)]
    BY <1>4, <2>1
  <2> QED BY <1>3, <1>4, <2>2
<1>6. PICK r : r = [state |-> "open", format |-> format, files |-> fl, got |-> got]
  OBVIOUS
<1>7. r \in SessionType
  BY <1>3, <1>5, <1>6 DEF SessionType
<1>8. Served(r)
  <2>1. r.files = fl /\ r.got = got
    BY <1>6
  <2>2. \A i \in DOMAIN fl : FirstChunks(fl[i], got[i])
    BY <1>3, <1>4 DEF FirstChunks
  <2> QED BY <1>5, <1>7, <2>1, <2>2 DEF Served
<1>9. Goes(server[s], r)
  BY <1>1, <1>2 DEF Goes
<1>10. tv = [server EXCEPT ![s] = r]
  BY <1>2, <1>4, <1>6 DEF Declared
<1>11. s \in Sessions
  BY <1>1, <1>2
<1>12. ServerInv(tv) /\ Later(server, tv) /\ tv[s] = r
  <2>1. ServerInv([server EXCEPT ![s] = r]) /\ Later(server, [server EXCEPT ![s] = r]) /\ [server EXCEPT ![s] = r][s] = r
    BY <1>8, <1>9, <1>11, OneSession, ZenonT(60)
  <2> QED BY <1>10, <2>1
<1>13. r.state = "open"
  BY <1>6
<1> QED BY <1>2, <1>11, <1>12, <1>13, UBounds DEF Known, Sessions

(* A session that ends: cancelled, or handed to a scan.                         *)
LEMMA EndedIs ==
  ASSUME ServerInv(server), NEW s \in Sessions, NEW st \in {"gone", "scanning"},
         NEW tv, tv = [server EXCEPT ![s] = [NoSession EXCEPT !.state = st]]
  PROVE  ServerInv(tv) /\ Later(server, tv)
<1>1. PICK r : r = [NoSession EXCEPT !.state = st]
  OBVIOUS
<1>2. Served(r)
  BY <1>1, EmptyServed
<1>3. r.state = st
  BY <1>1 DEF NoSession
<1>4. Goes(server[s], r)
  BY <1>3 DEF Goes
<1> QED BY <1>1, <1>2, <1>4, OneSession

LEMMA CancelledIs ==
  ASSUME ServerInv(server), NEW s \in 0 .. MaxSessions, NEW tv, tv = Cancelled(s)
  PROVE  ServerInv(tv) /\ Later(server, tv)
<1>1. CASE Open(s)
  <2>1. s \in Sessions
    BY <1>1 DEF Open, None, Sessions
  <2> QED BY <1>1, <2>1, EndedIs DEF Cancelled
<1>2. CASE ~Open(s)
  BY <1>2, LaterSame DEF Cancelled
<1> QED BY <1>1, <1>2

LEMMA FormatIs ==
  ASSUME ServerInv(server), NEW s \in Sessions, NEW format \in Formats,
         NEW tv, tv = [server EXCEPT ![s].format = format]
  PROVE  ServerInv(tv) /\ Later(server, tv)
<1>1. PICK old, r : old = server[s] /\ r = [old EXCEPT !.format = format]
  OBVIOUS
<1>2. Served(old) /\ old \in SessionType /\ \A i \in DOMAIN old.files : Len(old.got[i]) \in Nat
  BY <1>1, ServedAt
<1>3. r \in SessionType /\ r.files = old.files /\ r.got = old.got /\ r.state = old.state
  BY <1>1, <1>2 DEF SessionType
<1>4. Served(r)
  BY <1>2, <1>3 DEF Served
<1>5. Goes(old, r)
  BY <1>2, <1>3 DEF Goes
<1>6. tv = [server EXCEPT ![s] = r]
  BY <1>1
<1>7. Goes(server[s], r)
  BY <1>1, <1>5
<1>8. ServerInv([server EXCEPT ![s] = r]) /\ Later(server, [server EXCEPT ![s] = r])
  BY <1>4, <1>7, OneSession, Zenon
<1> QED BY <1>6, <1>8
-------------------------------------------------------------------------------
(* What is known of a session stays known.                                     *)
LEMMA LaterKnown ==
  ASSUME NEW sv, NEW tv, Later(sv, tv), NEW s, Known(s, sv)
  PROVE  /\ Known(s, tv)
         /\ OpenIn(s, tv) => OpenIn(s, sv) /\ s \in Sessions /\ tv[s].files = sv[s].files
<1>1. CASE s = 0
  BY <1>1 DEF Known, OpenIn
<1>2. CASE s # 0
  <2>1. s \in Sessions
    BY <1>2 DEF Known, Sessions
  <2>2. Goes(sv[s], tv[s]) /\ sv[s].state # "none"
    BY <1>2, <2>1 DEF Later, Known
  <2> QED BY <1>2, <2>1, <2>2 DEF Goes, Known, OpenIn
<1> QED BY <1>1, <1>2

(* A file that is whole stays so.                                              *)
LEMMA LaterWhole ==
  ASSUME NEW sv, ServerInv(sv), NEW tv, ServerInv(tv), Later(sv, tv), NEW s, Known(s, sv),
         OpenIn(s, sv) => WholeIn(s, sv), OpenIn(s, tv)
  PROVE  WholeIn(s, tv)
<1>1. OpenIn(s, sv) /\ s \in Sessions /\ tv[s].files = sv[s].files /\ WholeIn(s, sv)
  BY LaterKnown
<1>2. sv[s].state # "none" /\ tv[s].state = "open"
  BY <1>1 DEF OpenIn
<1>3. \A i \in DOMAIN sv[s].files : Len(tv[s].got[i]) >= Len(sv[s].got[i])
  BY <1>1, <1>2 DEF Later, Goes
<1> SUFFICES ASSUME NEW i \in DOMAIN tv[s].files PROVE Len(tv[s].got[i]) = Size[tv[s].files[i]]
  BY DEF WholeIn
<1>4. Len(sv[s].got[i]) = Size[tv[s].files[i]] /\ Len(tv[s].got[i]) >= Len(sv[s].got[i])
  BY <1>1, <1>3 DEF WholeIn
<1>5. Len(tv[s].got[i]) \in Nat /\ Len(tv[s].got[i]) <= Size[tv[s].files[i]] /\ Size[tv[s].files[i]] \in 1 .. 2
  BY <1>1, ServedAt, ListFacts DEF FirstChunks
<1> QED BY <1>4, <1>5

LEMMA LaterStray ==
  ASSUME NEW sv, NEW tv, Later(sv, tv), NEW c, StrayInv(c, sv)
  PROVE  StrayInv(c, tv)
<1>1. Known(c.session, sv) /\ c.session # 0
  BY DEF StrayInv
<1>2. Known(c.session, tv) /\ (OpenIn(c.session, tv) => OpenIn(c.session, sv) /\ tv[c.session].files = sv[c.session].files)
  BY <1>1, LaterKnown
<1> QED BY <1>2 DEF StrayInv
-------------------------------------------------------------------------------
(* The transfers and their workers.                                            *)
TransferAt == {"none", "opening", "sending", "inspecting", "over"}
WorkerAt == {"none", "take", "send", "wait", "reread", "done", "failed"}
TransferType ==
  [at : TransferAt, session : 0 .. MaxSessions, aborted : BOOLEAN, entries : FileLists,
   received : UNION {[1 .. n -> Nat] : n \in 0 .. 2}, queue : SUBSET (1 .. 2), format : Formats]
WorkerType == [at : WorkerAt, index : 0 .. 2]

Shape(r) ==
  /\ r \in TransferType /\ DOMAIN r.received = DOMAIN r.entries /\ r.queue \subseteq DOMAIN r.entries
  /\ r.at = "none" => r.entries = <<>> /\ ~r.aborted
(* What is sent are the files of the session, and the server has no less of them *)
(* than the transfer believes.                                               *)
Linked(r, sv) ==
  (r.at = "sending" \/ r.entries # <<>>) /\ OpenIn(r.session, sv) =>
    /\ sv[r.session].files = r.entries
    /\ \A i \in DOMAIN r.entries : r.received[i] <= Len(sv[r.session].got[i])
Holding(r, k) ==
  /\ k.at \in {"none", "take", "done"} => k.index = 0
  /\ k.at \in {"send", "wait", "reread", "failed"} => k.index \in DOMAIN r.entries /\ k.index \notin r.queue
  /\ k.at \in {"send", "wait"} => r.received[k.index] < Size[r.entries[k.index]]
  /\ k.at = "done" => r.queue = {}
Workforce(r, ws) ==
  /\ ws \in [Workers -> WorkerType]
  /\ \A i \in r.queue : r.received[i] < Size[r.entries[i]]
  /\ \A w \in Workers : Holding(r, ws[w])
  /\ ws[1].index = ws[2].index => ws[1].index = 0
(* Every file is queued, held or sent.                                        *)
Covered(r, ws, i) == i \in r.queue \/ ws[1].index = i \/ ws[2].index = i \/ r.received[i] >= Size[r.entries[i]]
Covers(r, ws) == r.at = "sending" => \A i \in DOMAIN r.entries : Covered(r, ws, i)
TransferInv(r, ws, sv) ==
  /\ Shape(r) /\ Known(r.session, sv) /\ Linked(r, sv)
  /\ Workforce(r, ws) /\ Covers(r, ws)
  /\ r.at = "inspecting" /\ OpenIn(r.session, sv) => WholeIn(r.session, sv)
AllTransfers(tf, wk, sv) ==
  /\ DOMAIN tf = Transfers /\ tf = [t \in Transfers |-> tf[t]]
  /\ DOMAIN wk = Transfers /\ wk = [t \in Transfers |-> wk[t]]
  /\ \A t \in Transfers : TransferInv(tf[t], wk[t], sv)

LEMMA ShapeFacts ==
  ASSUME NEW r, Shape(r)
  PROVE  /\ r \in TransferType /\ r.at \in TransferAt /\ r.session \in 0 .. MaxSessions /\ r.entries \in FileLists
         /\ DOMAIN r.received = DOMAIN r.entries /\ r.queue \subseteq DOMAIN r.entries
         /\ DOMAIN r.entries = 1 .. Len(r.entries) /\ Len(r.entries) \in 0 .. 2
         /\ r.received \in [1 .. Len(r.entries) -> Nat]
         /\ \A i \in DOMAIN r.entries : r.received[i] \in Nat /\ Size[r.entries[i]] \in 1 .. 2 /\ i \in 1 .. 2
                                      /\ r.entries[i] \in Files
<1>1. /\ r \in TransferType /\ r.at \in TransferAt /\ r.session \in 0 .. MaxSessions /\ r.entries \in FileLists
      /\ r.received \in UNION {[1 .. n -> Nat] : n \in 0 .. 2}
      /\ DOMAIN r.received = DOMAIN r.entries /\ r.queue \subseteq DOMAIN r.entries
  BY DEF Shape, TransferType
<1>2. PICK n \in 0 .. 2 : r.received \in [1 .. n -> Nat]
  BY <1>1
<1>3. /\ DOMAIN r.entries = 1 .. Len(r.entries) /\ Len(r.entries) \in 0 .. 2
      /\ \A i \in DOMAIN r.entries : Size[r.entries[i]] \in 1 .. 2 /\ i \in 1 .. 2 /\ r.entries[i] \in Files
  BY <1>1, ListFacts
<1>4. r.received \in [1 .. Len(r.entries) -> Nat]
  BY <1>1, <1>2, <1>3
<1>5. \A i \in DOMAIN r.entries : r.received[i] \in Nat
  BY <1>3, <1>4
<1> QED BY <1>1, <1>3, <1>4, <1>5

LEMMA LaterTransfer ==
  ASSUME NEW sv, ServerInv(sv), NEW tv, ServerInv(tv), Later(sv, tv), NEW r, NEW ws, TransferInv(r, ws, sv)
  PROVE  TransferInv(r, ws, tv)
<1>1. Known(r.session, sv) /\ Shape(r) /\ Linked(r, sv)
      /\ (r.at = "inspecting" /\ OpenIn(r.session, sv) => WholeIn(r.session, sv))
  BY DEF TransferInv
<1>2. PICK s : s = r.session
  OBVIOUS
<1>3. Known(s, tv) /\ (OpenIn(s, tv) => OpenIn(s, sv) /\ s \in Sessions /\ tv[s].files = sv[s].files)
  BY <1>1, <1>2, LaterKnown
<1>4. Linked(r, tv)
  <2> SUFFICES ASSUME r.at = "sending" \/ r.entries # <<>>, OpenIn(s, tv)
               PROVE  tv[s].files = r.entries /\ \A i \in DOMAIN r.entries : r.received[i] <= Len(tv[s].got[i])
    BY <1>2 DEF Linked
  <2>1. /\ sv[s].files = r.entries /\ tv[s].files = r.entries /\ s \in Sessions /\ OpenIn(s, sv)
        /\ \A i \in DOMAIN r.entries : r.received[i] <= Len(sv[s].got[i])
    BY <1>1, <1>2, <1>3 DEF Linked
  <2>2. \A i \in DOMAIN r.entries : Len(tv[s].got[i]) >= Len(sv[s].got[i])
    BY <2>1 DEF Later, Goes, OpenIn
  <2>3. \A i \in DOMAIN r.entries : Len(tv[s].got[i]) \in Nat /\ Len(sv[s].got[i]) \in Nat /\ r.received[i] \in Nat
    BY <1>1, <2>1, ServedAt, ShapeFacts
  <2>4. ASSUME NEW i \in DOMAIN r.entries PROVE r.received[i] <= Len(tv[s].got[i])
    <3>1. r.received[i] <= Len(sv[s].got[i]) /\ Len(tv[s].got[i]) >= Len(sv[s].got[i])
      BY <2>1, <2>2
    <3>2. Len(tv[s].got[i]) \in Nat /\ Len(sv[s].got[i]) \in Nat /\ r.received[i] \in Nat
      BY <2>3
    <3> QED BY <3>1, <3>2
  <2> QED BY <2>1, <2>4
<1>5. r.at = "inspecting" /\ OpenIn(s, tv) => WholeIn(s, tv)
  BY <1>1, <1>2, <1>3, LaterWhole
<1> QED BY <1>2, <1>3, <1>4, <1>5 DEF TransferInv

(* One transfer moves.                                                        *)
LEMMA OneTransfer ==
  ASSUME NEW sv, ServerInv(sv), NEW tv, ServerInv(tv), Later(sv, tv), NEW tf, NEW wk, AllTransfers(tf, wk, sv),
         NEW t \in Transfers, NEW r, NEW ws, TransferInv(r, ws, tv)
  PROVE  AllTransfers([tf EXCEPT ![t] = r], [wk EXCEPT ![t] = ws], tv)
<1>1. PICK tg, wl : tg = [tf EXCEPT ![t] = r] /\ wl = [wk EXCEPT ![t] = ws]
  OBVIOUS
<1>2. /\ DOMAIN tg = Transfers /\ tg = [u \in Transfers |-> tg[u]] /\ tg[t] = r /\ \A u \in Transfers \ {t} : tg[u] = tf[u]
      /\ DOMAIN wl = Transfers /\ wl = [u \in Transfers |-> wl[u]] /\ wl[t] = ws /\ \A u \in Transfers \ {t} : wl[u] = wk[u]
  BY <1>1 DEF AllTransfers
<1>3. ASSUME NEW u \in Transfers PROVE TransferInv(tg[u], wl[u], tv)
  <2>1. TransferInv(tf[u], wk[u], tv)
    BY LaterTransfer DEF AllTransfers
  <2> QED BY <1>2, <2>1
<1> QED BY <1>1, <1>2, <1>3 DEF AllTransfers

LEMMA AllLater ==
  ASSUME NEW sv, ServerInv(sv), NEW tv, ServerInv(tv), Later(sv, tv), NEW tf, NEW wk, AllTransfers(tf, wk, sv)
  PROVE  AllTransfers(tf, wk, tv)
BY LaterTransfer DEF AllTransfers

(* A transfer that ends, or whose user has gone.                               *)
LEMMA OverIs ==
  ASSUME NEW r, NEW ws, NEW sv, TransferInv(r, ws, sv), NEW q, q = [r EXCEPT !.at = "over"]
  PROVE  TransferInv(q, ws, sv) /\ q.at = "over" /\ q.aborted = r.aborted /\ q.session = r.session
<1>1. r \in TransferType
  BY DEF TransferInv, Shape
<1>2. /\ q \in TransferType /\ q.at = "over" /\ q.session = r.session /\ q.aborted = r.aborted /\ q.entries = r.entries
      /\ q.received = r.received /\ q.queue = r.queue
  BY <1>1 DEF TransferType, TransferAt
<1>3. Shape(q) /\ Linked(q, sv) /\ Workforce(q, ws)
  BY <1>2 DEF TransferInv, Shape, Linked, Workforce, Holding
<1> QED BY <1>2, <1>3 DEF TransferInv, Covers

LEMMA AbortedIs ==
  ASSUME NEW r, NEW ws, NEW sv, TransferInv(r, ws, sv), r.at # "none", NEW q, q = [r EXCEPT !.aborted = TRUE]
  PROVE  TransferInv(q, ws, sv) /\ q.at = r.at /\ q.session = r.session
<1>1. r \in TransferType
  BY DEF TransferInv, Shape
<1>2. /\ q \in TransferType /\ q.at = r.at /\ q.session = r.session /\ q.entries = r.entries
      /\ q.received = r.received /\ q.queue = r.queue
  BY <1>1 DEF TransferType
<1>3. Shape(q) /\ Linked(q, sv) /\ Workforce(q, ws) /\ Covers(q, ws)
  BY <1>2 DEF TransferInv, Shape, Linked, Workforce, Holding, Covers, Covered
<1> QED BY <1>2, <1>3 DEF TransferInv

LEMMA StaffFacts ==
  ASSUME NEW r, NEW ws, NEW sv, TransferInv(r, ws, sv)
  PROVE  /\ ws \in [Workers -> WorkerType] /\ 1 \in Workers /\ 2 \in Workers
         /\ \A w \in Workers : /\ ws[w] \in WorkerType /\ ws[w].at \in WorkerAt /\ ws[w].index \in 0 .. 2 /\ Holding(r, ws[w])
                              /\ (w = 1 \/ w = 2)
         /\ Shape(r) /\ Linked(r, sv) /\ Covers(r, ws)
         /\ (ws[1].index = ws[2].index => ws[1].index = 0)
BY DEF TransferInv, Workforce, Workers, WorkerType

(* A worker that keeps its file.                                              *)
LEMMA PlacedIs ==
  ASSUME NEW r, NEW ws, NEW sv, TransferInv(r, ws, sv), NEW w \in Workers,
         ws[w].at \in {"send", "wait", "reread"}, NEW p \in {"send", "wait", "reread", "failed"},
         p \in {"send", "wait"} => ws[w].at # "reread",
         NEW xs, xs = [ws EXCEPT ![w].at = p]
  PROVE  TransferInv(r, xs, sv)
<1>1. PICK old, k : old = ws[w] /\ k = [old EXCEPT !.at = p]
  OBVIOUS
<1>2. old \in WorkerType /\ Holding(r, old) /\ ws \in [Workers -> WorkerType]
  BY <1>1, StaffFacts
<1>3. k \in WorkerType /\ k.at = p /\ k.index = old.index
  BY <1>1, <1>2 DEF WorkerType, WorkerAt
<1>4. Holding(r, k)
  BY <1>1, <1>2, <1>3 DEF Holding
<1>5. xs[w] = k /\ xs \in [Workers -> WorkerType] /\ \A v \in Workers \ {w} : xs[v] = ws[v]
  BY <1>1, <1>2, <1>3
<1>6. \A v \in Workers : xs[v].index = ws[v].index /\ Holding(r, xs[v])
  BY <1>1, <1>3, <1>4, <1>5, StaffFacts
<1>7. Workforce(r, xs)
  BY <1>5, <1>6, StaffFacts DEF TransferInv, Workforce
<1>8. Covers(r, xs)
  BY <1>6, StaffFacts DEF Covers, Covered
<1> QED BY <1>7, <1>8 DEF TransferInv

(* Of its file i, n bytes are with the server: worker w goes on with what is   *)
(* left (k), or takes the next file.                                          *)
Believes(r, ws, sv, w, n, k) ==
  LET i == ws[w].index
  IN  /\ TransferInv(r, ws, sv) /\ w \in Workers /\ ws[w].at \in {"send", "reread"}
      /\ n \in Nat /\ OpenIn(r.session, sv) /\ n <= Len(sv[r.session].got[i]) /\ k \in WorkerType
      /\ n >= Size[r.entries[i]] => k.at = "take" /\ k.index = 0
      /\ ~(n >= Size[r.entries[i]]) => k.at \in {"send", "failed"} /\ k.index = i

(* The next chunk of its file, or the next file.                               *)
LEMMA ReceivedIs ==
  ASSUME NEW r, NEW ws, NEW sv, NEW w, NEW n, NEW k, Believes(r, ws, sv, w, n, k)
  PROVE  LET q == [r EXCEPT !.received[ws[w].index] = n]
         IN  /\ TransferInv(q, [ws EXCEPT ![w] = k], sv)
             /\ q.at = r.at /\ q.session = r.session /\ q.aborted = r.aborted
<1>a. PICK i : i = ws[w].index
  OBVIOUS
<1>b. /\ TransferInv(r, ws, sv) /\ w \in Workers /\ ws[w].at \in {"send", "reread"}
      /\ n \in Nat /\ OpenIn(r.session, sv) /\ n <= Len(sv[r.session].got[i]) /\ k \in WorkerType
      /\ n >= Size[r.entries[i]] => k.at = "take" /\ k.index = 0
      /\ ~(n >= Size[r.entries[i]]) => k.at \in {"send", "failed"} /\ k.index = i
  BY <1>a DEF Believes
<1>0. PICK q, xs : q = [r EXCEPT !.received[i] = n] /\ xs = [ws EXCEPT ![w] = k]
  OBVIOUS
<1> USE <1>0, <1>a, <1>b
<1>1. /\ i \in DOMAIN r.entries /\ i \notin r.queue /\ ws \in [Workers -> WorkerType] /\ ws[w] \in WorkerType
      /\ i \in 1 .. 2
  BY StaffFacts, ShapeFacts DEF Holding
<1>2. PICK rec : rec = [r.received EXCEPT ![i] = n]
  OBVIOUS
<1>3. r \in TransferType /\ r.received \in [1 .. Len(r.entries) -> Nat] /\ Len(r.entries) \in 0 .. 2
      /\ DOMAIN r.entries = 1 .. Len(r.entries) /\ Shape(r)
  BY StaffFacts, ShapeFacts
<1>4. rec \in [1 .. Len(r.entries) -> Nat] /\ rec[i] = n /\ \A j \in DOMAIN r.entries \ {i} : rec[j] = r.received[j]
  BY <1>1, <1>2, <1>3
<1>5. q = [r EXCEPT !.received = rec]
  BY <1>2
<1>6. /\ q \in TransferType /\ q.at = r.at /\ q.session = r.session /\ q.aborted = r.aborted /\ q.entries = r.entries
      /\ q.received = rec /\ q.queue = r.queue
  <2>1. rec \in UNION {[1 .. m -> Nat] : m \in 0 .. 2}
    BY <1>3, <1>4
  <2> QED BY <1>3, <1>5, <2>1 DEF TransferType
<1>7. Shape(q)
  BY <1>3, <1>4, <1>6 DEF Shape
<1>8. Linked(q, sv)
  BY <1>4, <1>6, StaffFacts DEF Linked
<1>9. Size[r.entries[i]] \in 1 .. 2
  BY <1>1, <1>3, ShapeFacts
<1>10. k.index \in {0, i} /\ k.at \in {"take", "send", "failed"}
  OBVIOUS
<1>11. Holding(q, k)
  <2>1. CASE n >= Size[r.entries[i]]
    BY <1>10, <2>1 DEF Holding
  <2>2. CASE ~(n >= Size[r.entries[i]])
    <3>1. n < Size[r.entries[i]]
      BY <1>9, <2>2
    <3> QED BY <1>1, <1>4, <1>6, <1>10, <2>2, <3>1 DEF Holding
  <2> QED BY <2>1, <2>2
<1>12. xs[w] = k /\ xs \in [Workers -> WorkerType] /\ \A v \in Workers \ {w} : xs[v] = ws[v]
  BY <1>1, <1>10
<1>13. \A v \in Workers \ {w} : ws[v].index # i
  BY <1>1, StaffFacts
<1>14. ASSUME NEW v \in Workers \ {w} PROVE Holding(q, xs[v])
  <2>1. Holding(r, ws[v]) /\ ws[v].index # i
    BY <1>13, StaffFacts
  <2> QED BY <1>4, <1>6, <1>12, <2>1 DEF Holding
<1>15. k.index \in {0, i}
  BY <1>10
<1>16. Workforce(q, xs)
  <2>1. xs[1].index = xs[2].index => xs[1].index = 0
    BY <1>1, <1>12, <1>13, <1>15, StaffFacts
  <2>2. \A j \in q.queue : q.received[j] < Size[q.entries[j]]
    BY <1>1, <1>3, <1>4, <1>6 DEF TransferInv, Workforce, Shape
  <2>3. \A v \in Workers : Holding(q, xs[v])
    BY <1>11, <1>12, <1>14
  <2> QED BY <1>12, <2>1, <2>2, <2>3 DEF Workforce
<1>17. Covers(q, xs)
  <2> SUFFICES ASSUME r.at = "sending", NEW j \in DOMAIN r.entries PROVE Covered(q, xs, j)
    BY <1>6 DEF Covers
  <2>1. Covered(r, ws, j)
    BY StaffFacts DEF Covers
  <2>2. CASE j = i
    <3>1. CASE n >= Size[r.entries[i]]
      BY <1>4, <1>6, <2>2, <3>1 DEF Covered
    <3>2. CASE ~(n >= Size[r.entries[i]])
      <4>1. xs[w].index = i /\ (w = 1 \/ w = 2)
        BY <1>10, <1>12, <3>2, StaffFacts
      <4> QED BY <2>2, <4>1 DEF Covered
    <3> QED BY <3>1, <3>2
  <2>3. CASE j # i
    <3>1. ws[w].index # j /\ rec[j] = r.received[j]
      BY <1>4, <2>3
    <3>2. \A v \in Workers : ws[v].index = j => xs[v].index = j
      BY <1>12, <3>1
    <3> QED BY <1>6, <2>1, <3>1, <3>2, StaffFacts DEF Covered
  <2> QED BY <2>2, <2>3
<1> QED BY <1>6, <1>7, <1>8, <1>16, <1>17 DEF TransferInv

(* The file that has waited longest.                                          *)
LEMMA FirstIs ==
  ASSUME NEW queue \in SUBSET (1 .. 2), queue # {}
  PROVE  First(queue) \in queue
<1>1. \E i \in queue : \A j \in queue : i <= j
  <2>1. CASE 1 \in queue
    BY <2>1
  <2>2. CASE 1 \notin queue
    <3>1. \A j \in queue : j = 2
      BY <2>2
    <3>2. \E j : j \in queue
      OBVIOUS
    <3>3. 2 \in queue /\ 2 <= 2
      BY <3>1, <3>2
    <3> QED BY <3>1, <3>3
  <2> QED BY <2>1, <2>2
<1> QED BY <1>1 DEF First

LEMMA NothingTaken ==
  ASSUME NEW r, NEW ws, NEW sv, TransferInv(r, ws, sv), NEW w \in Workers, ws[w].at = "take", r.queue = {},
         NEW xs, xs = [ws EXCEPT ![w] = [NoWorker EXCEPT !.at = "done"]]
  PROVE  TransferInv(r, xs, sv)
<1>1. PICK k : k = [NoWorker EXCEPT !.at = "done"]
  OBVIOUS
<1>2. k \in WorkerType /\ k.at = "done" /\ k.index = 0
  BY <1>1 DEF NoWorker, WorkerType, WorkerAt
<1>3. ws \in [Workers -> WorkerType] /\ ws[w].index = 0
  BY StaffFacts DEF Holding
<1>4. xs[w] = k /\ xs \in [Workers -> WorkerType] /\ \A v \in Workers \ {w} : xs[v] = ws[v]
  BY <1>1, <1>2, <1>3
<1>5. Holding(r, k)
  BY <1>2 DEF Holding
<1>6. \A v \in Workers : xs[v].index = ws[v].index /\ Holding(r, xs[v])
  BY <1>2, <1>3, <1>4, <1>5, StaffFacts
<1>7. Workforce(r, xs)
  BY <1>4, <1>6, StaffFacts DEF TransferInv, Workforce
<1>8. Covers(r, xs)
  BY <1>6, StaffFacts DEF Covers, Covered
<1> QED BY <1>7, <1>8 DEF TransferInv

LEMMA TakenIs ==
  ASSUME NEW r, NEW ws, NEW sv, TransferInv(r, ws, sv), NEW w \in Workers, ws[w].at = "take",
         NEW k \in WorkerType, k.at \in {"send", "failed"}, NEW i \in r.queue, k.index = i,
         NEW rest, rest = r.queue \ {i}
  PROVE  TransferInv([r EXCEPT !.queue = rest], [ws EXCEPT ![w] = k], sv)
<1>0. PICK q, xs : q = [r EXCEPT !.queue = rest] /\ xs = [ws EXCEPT ![w] = k]
  OBVIOUS
<1>1. r \in TransferType /\ r.queue \in SUBSET (1 .. 2) /\ r.queue \subseteq DOMAIN r.entries /\ Shape(r)
  BY StaffFacts, ShapeFacts
<1>2. i \in r.queue /\ i \in 1 .. 2 /\ i \in DOMAIN r.entries
  BY <1>1
<1>4. k \in WorkerType /\ k.index = i
  OBVIOUS
<1>5. ws \in [Workers -> WorkerType] /\ ws[w].index = 0
  BY StaffFacts DEF Holding
<1>6. xs[w] = k /\ xs \in [Workers -> WorkerType] /\ \A v \in Workers \ {w} : xs[v] = ws[v]
  BY <1>0, <1>4, <1>5
<1>7. /\ q \in TransferType /\ q.at = r.at /\ q.session = r.session /\ q.aborted = r.aborted /\ q.entries = r.entries
      /\ q.received = r.received /\ q.queue = rest
  BY <1>0, <1>1 DEF TransferType
<1>8. rest \subseteq r.queue /\ i \notin rest
  OBVIOUS
<1>9. r.received[i] < Size[r.entries[i]] /\ \A j \in r.queue : r.received[j] < Size[r.entries[j]]
  BY <1>2 DEF TransferInv, Workforce
<1>10. \A v \in Workers : ws[v].index \notin r.queue
  <2> SUFFICES ASSUME NEW v \in Workers PROVE ws[v].index \notin r.queue
    OBVIOUS
  <2>1. Holding(r, ws[v]) /\ ws[v].at \in WorkerAt
    BY StaffFacts
  <2>2. 0 \notin r.queue
    BY <1>1
  <2> QED BY <2>1, <2>2 DEF Holding, WorkerAt
<1>11. Holding(q, k)
  BY <1>2, <1>4, <1>7, <1>8, <1>9 DEF Holding
<1>12. ASSUME NEW v \in Workers \ {w} PROVE Holding(q, xs[v])
  <2>1. Holding(r, ws[v])
    BY StaffFacts
  <2>2. r.queue = {} => rest = {}
    BY <1>8
  <2> QED BY <1>6, <1>7, <1>8, <2>1, <2>2 DEF Holding
<1>13. Workforce(q, xs)
  <2>1. xs[1].index = xs[2].index => xs[1].index = 0
    BY <1>2, <1>4, <1>6, <1>10, StaffFacts
  <2>2. \A j \in q.queue : q.received[j] < Size[q.entries[j]]
    BY <1>7, <1>8, <1>9
  <2>3. \A v \in Workers : Holding(q, xs[v])
    BY <1>6, <1>11, <1>12
  <2> QED BY <1>6, <2>1, <2>2, <2>3 DEF Workforce
<1>14. Covers(q, xs)
  <2> SUFFICES ASSUME r.at = "sending", NEW j \in DOMAIN r.entries PROVE Covered(q, xs, j)
    BY <1>7 DEF Covers
  <2>1. Covered(r, ws, j)
    BY StaffFacts DEF Covers
  <2>2. CASE j = i
    <3>1. xs[w].index = i /\ (w = 1 \/ w = 2)
      BY <1>4, <1>6, StaffFacts
    <3> QED BY <2>2, <3>1 DEF Covered
  <2>3. CASE j # i
    <3>1. j \in r.queue => j \in rest
      BY <2>3
    <3>2. j # 0
      BY <1>1, ShapeFacts
    <3>3. \A v \in Workers : ws[v].index = j => xs[v].index = j
      BY <1>5, <1>6, <3>2
    <3> QED BY <1>7, <2>1, <3>1, <3>3, StaffFacts DEF Covered
  <2> QED BY <2>2, <2>3
<1>15. Shape(q) /\ Linked(q, sv)
  BY <1>1, <1>7, <1>8, StaffFacts DEF Shape, Linked
<1> QED BY <1>0, <1>7, <1>13, <1>14, <1>15 DEF TransferInv

(* What is missing of an upload is queued for both workers.                     *)
Begins(q, r, s, sv) ==
  \E got : /\ got = [i \in DOMAIN sv[s].files |-> Len(sv[s].got[i])]
           /\ q = [r EXCEPT !.at = "sending", !.session = s, !.received = got, !.entries = EntriesOf(sv[s].files),
                            !.queue = {i \in DOMAIN got : got[i] < Size[sv[s].files[i]]}]
Staffed(xs) == xs = [w \in Workers |-> [NoWorker EXCEPT !.at = "take"]]
LEMMA OpenedIs ==
  ASSUME NEW sv, ServerInv(sv), NEW s \in Sessions, sv[s].state = "open", NEW r, NEW ws, TransferInv(r, ws, sv),
         NEW q, Begins(q, r, s, sv), NEW xs, Staffed(xs)
  PROVE  TransferInv(q, xs, sv) /\ q.at = "sending" /\ q.session = s /\ q.aborted = r.aborted
<1>0. PICK got : /\ got = [i \in DOMAIN sv[s].files |-> Len(sv[s].got[i])]
                 /\ q = [r EXCEPT !.at = "sending", !.session = s, !.received = got, !.entries = EntriesOf(sv[s].files),
                                  !.queue = {i \in DOMAIN got : got[i] < Size[sv[s].files[i]]}]
  BY Zenon DEF Begins
<1>1. PICK fl, rest, k : /\ fl = sv[s].files /\ rest = {i \in DOMAIN got : got[i] < Size[fl[i]]}
                         /\ k = [NoWorker EXCEPT !.at = "take"]
  OBVIOUS
<1>2. /\ fl \in FileLists /\ Len(fl) \in 0 .. 2 /\ DOMAIN fl = 1 .. Len(fl) /\ DOMAIN fl \subseteq 1 .. 2
      /\ \A i \in DOMAIN fl : Size[fl[i]] \in 1 .. 2 /\ Len(sv[s].got[i]) \in Nat
  BY <1>1, ServedAt, ListFacts
<1>3. got \in [1 .. Len(fl) -> Nat] /\ DOMAIN got = DOMAIN fl /\ \A i \in DOMAIN fl : got[i] = Len(sv[s].got[i])
  BY <1>0, <1>1, <1>2
<1>4. rest \in SUBSET (1 .. 2) /\ rest \subseteq DOMAIN fl
  BY <1>1, <1>2, <1>3
<1>5. EntriesOf(sv[s].files) = fl
  BY <1>1, <1>2, EntriesIs
<1>6. q = [r EXCEPT !.at = "sending", !.session = s, !.received = got, !.entries = fl, !.queue = rest]
  BY <1>0, <1>1, <1>5
<1>7. /\ q \in TransferType /\ q.at = "sending" /\ q.session = s /\ q.aborted = r.aborted /\ q.entries = fl
      /\ q.received = got /\ q.queue = rest
  <2>1. r \in TransferType
    BY DEF TransferInv, Shape
  <2>2. got \in UNION {[1 .. n -> Nat] : n \in 0 .. 2} /\ s \in 0 .. MaxSessions /\ "sending" \in TransferAt
    <3>1. got \in UNION {[1 .. n -> Nat] : n \in 0 .. 2}
      BY <1>2, <1>3
    <3>2. s \in 0 .. MaxSessions
      BY DEF Sessions
    <3> QED BY <3>1, <3>2 DEF TransferAt
  <2>3. q \in TransferType
    BY <1>2, <1>4, <1>6, <2>1, <2>2 DEF TransferType
  <2> QED BY <1>6, <2>1, <2>3 DEF TransferType
<1>8. Shape(q)
  BY <1>3, <1>4, <1>7 DEF Shape
<1>9. Known(s, sv)
  BY DEF Known, Sessions
<1>10. Linked(q, sv)
  BY <1>1, <1>2, <1>3, <1>7 DEF Linked
<1>11. k \in WorkerType /\ k.at = "take" /\ k.index = 0
  BY <1>1 DEF NoWorker, WorkerType, WorkerAt
<1>12. xs \in [Workers -> WorkerType] /\ \A w \in Workers : xs[w] = k
  BY <1>1, <1>11 DEF Staffed
<1>13. Workforce(q, xs)
  <2>1. \A i \in rest : got[i] < Size[fl[i]]
    BY <1>1
  <2>2. 1 \in Workers /\ 2 \in Workers
    BY DEF Workers
  <2> QED BY <1>7, <1>11, <1>12, <2>1, <2>2 DEF Workforce, Holding
<1>14. Covers(q, xs)
  <2> SUFFICES ASSUME NEW j \in DOMAIN fl PROVE Covered(q, xs, j)
    BY <1>7 DEF Covers
  <2>1. j \in rest \/ ~(got[j] < Size[fl[j]])
    BY <1>1, <1>3
  <2>2. got[j] \in Nat /\ Size[fl[j]] \in 1 .. 2
    BY <1>2, <1>3
  <2>3. j \in rest \/ got[j] >= Size[fl[j]]
    BY <2>1, <2>2
  <2> QED BY <1>7, <2>3 DEF Covered
<1> QED BY <1>0, <1>7, <1>8, <1>9, <1>10, <1>13, <1>14 DEF TransferInv

(* Both workers are done: the session is whole, if it is still open.             *)
Finishes(q, r) == q = [NoTransfer EXCEPT !.at = "inspecting", !.session = r.session, !.format = r.format]
Dismissed(xs) == xs = [w \in Workers |-> NoWorker]
LEMMA EndsIs ==
  ASSUME BoundsArePositive, NEW sv, ServerInv(sv), NEW r, NEW ws, TransferInv(r, ws, sv), r.at = "sending",
         \A w \in Workers : ws[w].at = "done",
         NEW q, Finishes(q, r), NEW xs, Dismissed(xs)
  PROVE  /\ TransferInv(q, xs, sv) /\ q.at = "inspecting" /\ q.session = r.session /\ ~q.aborted
         /\ OpenIn(r.session, sv) => WholeIn(r.session, sv)
<1>1. PICK s : s = r.session
  OBVIOUS
<1>2. ws[1].index = 0 /\ ws[2].index = 0 /\ r.queue = {}
  BY StaffFacts DEF Holding
<1>3. OpenIn(s, sv) => WholeIn(s, sv)
  <2> SUFFICES ASSUME OpenIn(s, sv), NEW i \in DOMAIN sv[s].files PROVE Len(sv[s].got[i]) = Size[sv[s].files[i]]
    BY DEF WholeIn
  <2>1. sv[s].files = r.entries /\ r.received[i] <= Len(sv[s].got[i])
    BY <1>1, StaffFacts DEF Linked
  <2>2. Covered(r, ws, i) /\ i # 0 /\ r.received[i] \in Nat /\ Size[r.entries[i]] \in 1 .. 2
    BY <2>1, StaffFacts, ShapeFacts DEF Covers
  <2>3. r.received[i] >= Size[r.entries[i]]
    BY <1>2, <2>2 DEF Covered
  <2>4. s \in Sessions
    BY <1>1 DEF TransferInv, Known, OpenIn, Sessions
  <2>5. Len(sv[s].got[i]) \in Nat /\ Len(sv[s].got[i]) <= Size[sv[s].files[i]]
    BY <2>4, ServedAt DEF FirstChunks
  <2> QED BY <2>1, <2>2, <2>3, <2>5
<1>4. /\ q \in TransferType /\ q.at = "inspecting" /\ q.session = s /\ q.aborted = FALSE /\ q.entries = <<>>
      /\ q.received = <<>> /\ q.queue = {}
  <2>1. <<>> \in UNION {[1 .. n -> Nat] : n \in 0 .. 2}
    <3>1. <<>> \in [1 .. 0 -> Nat] /\ 0 \in 0 .. 2
      OBVIOUS
    <3> QED BY <3>1
  <2>2. s \in 0 .. MaxSessions /\ 0 \in 0 .. MaxSessions
    <3>1. r.session \in 0 .. MaxSessions
      BY StaffFacts, ShapeFacts
    <3> QED BY <1>1, <3>1, UBounds
  <2>3. NoTransfer \in TransferType
    BY <2>1, <2>2 DEF NoTransfer, TransferType, TransferAt, FileLists, None, Formats
  <2>4. NoTransfer.aborted = FALSE /\ NoTransfer.entries = <<>> /\ NoTransfer.received = <<>> /\ NoTransfer.queue = {}
    BY DEF NoTransfer
  <2>5. PICK f : f = r.format
    OBVIOUS
  <2>6. f \in Formats
    BY <2>5 DEF TransferInv, Shape, TransferType
  <2>7. q = [NoTransfer EXCEPT !.at = "inspecting", !.session = s, !.format = f]
    BY <1>1, <2>5 DEF Finishes
  <2> QED BY <2>2, <2>3, <2>4, <2>6, <2>7 DEF TransferType, TransferAt
<1>5. Shape(q) /\ Linked(q, sv) /\ Covers(q, xs)
  BY <1>4 DEF Shape, Linked, Covers
<1>6. NoWorker \in WorkerType /\ NoWorker.at = "none" /\ NoWorker.index = 0
  BY DEF NoWorker, WorkerType, WorkerAt
<1>7. Workforce(q, xs)
  <2>1. 1 \in Workers /\ 2 \in Workers /\ \A w \in Workers : xs[w] = NoWorker
    BY DEF Workers, Dismissed
  <2>2. xs \in [Workers -> WorkerType]
    BY <1>6 DEF Dismissed
  <2> QED BY <1>4, <1>6, <2>1, <2>2 DEF Workforce, Holding
<1>8. Known(s, sv)
  BY <1>1 DEF TransferInv
<1> QED BY <1>1, <1>3, <1>4, <1>5, <1>7, <1>8 DEF TransferInv
-------------------------------------------------------------------------------
(* The sheet works on a transfer that its user has not given up.                *)
SheetType ==
  [open : BOOLEAN, resume : 0 .. MaxSessions, phase : {"select", "uploading", "uploaded"}, session : 0 .. MaxSessions,
   entries : SUBSET Files, format : Formats, transfer : 0 .. MaxTransfers]
AtWork(sh, r, sv) ==
  /\ ~r.aborted /\ r.at # "none"
  /\ sh.phase = "uploading" <=> r.at \in {"opening", "sending"}
  /\ sh.phase = "uploaded" /\ OpenIn(r.session, sv) => WholeIn(r.session, sv)
SheetInv(sh, tf, sv) ==
  /\ sh \in SheetType /\ Known(sh.session, sv)
  /\ sh.open \/ sh = ClosedSheet
  /\ sh.phase # "select" => sh.transfer # 0
  /\ sh.transfer # 0 => AtWork(sh, tf[sh.transfer], sv)

(* The page shows what was read, or the picker strayed from it; so does what is *)
(* being read of a directory.                                                  *)
SourceType == [kind : {"none", "path", "upload"}, path : Paths, upload : 0 .. MaxSessions, format : Formats]
ScanType ==
  [path : Paths, format : Formats \cup {Unset}, upload : 0 .. MaxSessions, entries : SourceType,
   selecting : BOOLEAN, mapped : BOOLEAN, busy : BOOLEAN, strayed : BOOLEAN]
NamedBy(sc) ==
  IF sc.upload = 0
  THEN [NoSource EXCEPT !.kind = "path", !.path = sc.path, !.format = sc.format]
  ELSE [NoSource EXCEPT !.kind = "upload", !.upload = sc.upload, !.format = sc.format]
Shows(sc) ==
  sc.entries # NoSource =>
    /\ NamedBy(sc).kind = sc.entries.kind /\ NamedBy(sc).upload = sc.entries.upload
    /\ sc.strayed \/ NamedBy(sc) = sc.entries
Asked(r) == r \in SourceType /\ r.kind # "none" /\ (r.kind = "path" => r.upload = 0)
Aimed(r, sc) == r.kind = "path" => sc.strayed \/ (r.path = sc.path /\ r.format = sc.format)
ScanInv(sc, asked) ==
  /\ sc \in ScanType
  /\ sc.mapped => sc.entries # NoSource
  /\ Shows(sc)
  /\ \A r \in asked : Asked(r) /\ Aimed(r, sc)

UInv ==
  /\ ServerInv(server)
  /\ \A c \in strays : StrayInv(c, server)
  /\ AllTransfers(transfer, worker, server)
  /\ SheetInv(sheet, transfer, server)
  /\ listed \subseteq Sessions /\ \A s \in listed : Known(s, server)
  /\ ScanInv(scan, reading)
  /\ acts \in 0 .. MaxActs

LEMMA TransferAtIs ==
  ASSUME UInv, NEW t \in Transfers
  PROVE  TransferInv(transfer[t], worker[t], server) /\ transfer[t] \in TransferType
BY DEF UInv, AllTransfers, TransferInv, Shape

LEMMA SheetIs ==
  ASSUME UInv
  PROVE  /\ sheet \in SheetType /\ sheet.session \in 0 .. MaxSessions /\ sheet.transfer \in 0 .. MaxTransfers
         /\ sheet.phase \in {"select", "uploading", "uploaded"} /\ sheet.entries \in SUBSET Files
         /\ sheet.format \in Formats /\ sheet.resume \in 0 .. MaxSessions
         /\ (sheet.open \/ sheet = ClosedSheet)
         /\ (sheet.phase # "select" => sheet.transfer # 0)
         /\ (sheet.transfer # 0 => sheet.transfer \in Transfers /\ AtWork(sheet, transfer[sheet.transfer], server))
BY DEF UInv, SheetInv, SheetType, Transfers

LEMMA ClosedIs ==
  ASSUME BoundsArePositive, NEW tf, NEW sv
  PROVE  /\ SheetInv(ClosedSheet, tf, sv) /\ ~ClosedSheet.open /\ ClosedSheet.transfer = 0 /\ ClosedSheet.phase = "select"
         /\ ClosedSheet.session = 0
<1>1. 0 \in 0 .. MaxSessions /\ 0 \in 0 .. MaxTransfers
  BY UBounds
<1>2. ClosedSheet \in SheetType /\ ClosedSheet.transfer = 0 /\ ClosedSheet.phase = "select" /\ ClosedSheet.session = 0
      /\ ~ClosedSheet.open
  BY <1>1 DEF ClosedSheet, SheetType, None, Formats
<1> QED BY <1>1, <1>2 DEF SheetInv, Known

(* What the sheet works on is at the same place.                                *)
LEMMA SheetStays ==
  ASSUME NEW sv, ServerInv(sv), NEW tv, ServerInv(tv), Later(sv, tv), NEW sh, NEW tf, SheetInv(sh, tf, sv), NEW tg,
         \A t \in Transfers : Known(tf[t].session, sv),
         \A t \in Transfers : tg[t].at = tf[t].at /\ tg[t].aborted = tf[t].aborted /\ tg[t].session = tf[t].session
  PROVE  SheetInv(sh, tg, tv)
<1>1. Known(sh.session, tv)
  BY LaterKnown DEF SheetInv
<1>2. ASSUME sh.transfer # 0 PROVE AtWork(sh, tg[sh.transfer], tv)
  <2>1. PICK t : t = sh.transfer
    OBVIOUS
  <2>2. t \in Transfers /\ AtWork(sh, tf[t], sv)
    BY <1>2, <2>1 DEF SheetInv, SheetType, Transfers
  <2>3. PICK s : s = tf[t].session
    OBVIOUS
  <2>4. tg[t].at = tf[t].at /\ tg[t].aborted = tf[t].aborted /\ tg[t].session = s /\ Known(s, sv)
    BY <2>2, <2>3
  <2>5. sh.phase = "uploaded" /\ OpenIn(s, tv) => WholeIn(s, tv)
    <3>1. sh.phase = "uploaded" /\ OpenIn(s, sv) => WholeIn(s, sv)
      BY <2>2, <2>3 DEF AtWork
    <3>2. OpenIn(s, tv) => OpenIn(s, sv)
      BY <2>4, LaterKnown
    <3> QED BY <2>4, <3>1, <3>2, LaterWhole
  <2> QED BY <2>1, <2>2, <2>4, <2>5 DEF AtWork
<1> QED BY <1>1, <1>2 DEF SheetInv
-------------------------------------------------------------------------------
(* Every action keeps the invariant.                                           *)

(* What the server promised stays, and what was not looked at.                   *)
LEMMA ServerGoesOn ==
  ASSUME UInv, ServerInv(server'), Later(server, server')
  PROVE  /\ \A c \in strays : StrayInv(c, server')
         /\ AllTransfers(transfer, worker, server')
         /\ SheetInv(sheet, transfer, server')
         /\ \A s \in listed : Known(s, server')
<1>1. \A c \in strays : StrayInv(c, server')
  BY LaterStray DEF UInv
<1>2. AllTransfers(transfer, worker, server')
  BY AllLater DEF UInv
<1>3. \A s \in listed : Known(s, server')
  BY LaterKnown DEF UInv
<1>4. SheetInv(sheet, transfer, server')
  <2>1. \A t \in Transfers : Known(transfer[t].session, server)
    BY TransferAtIs DEF TransferInv
  <2>2. ServerInv(server) /\ SheetInv(sheet, transfer, server)
    BY DEF UInv
  <2> QED BY <2>1, <2>2, SheetStays
<1> QED BY <1>1, <1>2, <1>3, <1>4

LEMMA SameServer ==
  ASSUME UInv, server' = server
  PROVE  ServerInv(server') /\ Later(server, server')
BY LaterSame DEF UInv

LEMMA ScanFacts ==
  ASSUME UInv
  PROVE  /\ scan \in ScanType /\ scan.path \in Paths /\ scan.format \in Formats \cup {Unset}
         /\ scan.upload \in 0 .. MaxSessions /\ scan.entries \in SourceType
         /\ scan.busy \in BOOLEAN /\ scan.strayed \in BOOLEAN
         /\ (scan.mapped => scan.entries # NoSource)
         /\ Shows(scan) /\ \A r \in reading : Asked(r) /\ Aimed(r, scan)
BY DEF UInv, ScanInv, ScanType

(* The page may be busy, or have its picker closed, without showing anything else.  *)
LEMMA SameShown ==
  ASSUME UInv, scan' \in ScanType, reading' \subseteq reading,
         scan'.entries = scan.entries, scan'.path = scan.path, scan'.format = scan.format,
         scan'.upload = scan.upload, scan'.strayed = scan.strayed,
         scan'.mapped => scan.entries # NoSource
  PROVE  ScanInv(scan', reading')
<1>1. Shows(scan') /\ \A r \in reading' : Asked(r) /\ Aimed(r, scan')
  BY ScanFacts DEF Shows, NamedBy, Aimed
<1> QED BY <1>1, ScanFacts DEF ScanInv

(* A picker that goes elsewhere shows nothing.                                  *)
LEMMA Emptied ==
  ASSUME UInv, scan' \in ScanType, reading' = reading,
         scan'.entries = NoSource, ~scan'.mapped, scan'.strayed = PathUnderWay
  PROVE  ScanInv(scan', reading')
<1>1. ASSUME NEW r \in reading' PROVE Asked(r) /\ Aimed(r, scan')
  <2>1. r.kind = "path" => PathUnderWay
    BY DEF PathUnderWay
  <2> QED BY <2>1, ScanFacts DEF Aimed
<1> QED BY <1>1 DEF ScanInv, Shows

LEMMA NoSourceIs ==
  ASSUME BoundsArePositive
  PROVE  NoSource \in SourceType /\ NoSource.kind = "none" /\ NoSource.upload = 0
<1>1. 0 \in 0 .. MaxSessions
  BY UBounds
<1> QED BY <1>1 DEF NoSource, SourceType, Paths, Formats, None

LEMMA NewPageIs ==
  ASSUME BoundsArePositive
  PROVE  ScanInv(NewPage, {})
<1>1. 0 \in 0 .. MaxSessions /\ "/roms" \in Paths
  BY UBounds DEF Paths
<1>2. NewPage \in ScanType /\ NewPage.entries = NoSource /\ NewPage.mapped = FALSE
  BY <1>1, NoSourceIs DEF NewPage, ScanType, None
<1> QED BY <1>2 DEF ScanInv, Shows

LEMMA UInit ==
  ASSUME BoundsArePositive, Init
  PROVE  UInv
<1>0. 0 \in 0 .. MaxSessions /\ acts \in 0 .. MaxActs
  BY UBounds DEF Init
<1>1. ServerInv(server)
  <2>1. Served(NoSession)
    BY EmptyServed
  <2> QED BY <2>1 DEF Init, ServerInv
<1>2. AllTransfers(transfer, worker, server)
  <2> SUFFICES ASSUME NEW t \in Transfers PROVE TransferInv(transfer[t], worker[t], server)
    BY DEF Init, AllTransfers
  <2>1. PICK r, ws : r = NoTransfer /\ ws = [w \in Workers |-> NoWorker]
    OBVIOUS
  <2>2. <<>> \in UNION {[1 .. n -> Nat] : n \in 0 .. 2}
    <3>1. <<>> \in [1 .. 0 -> Nat] /\ 0 \in 0 .. 2
      OBVIOUS
    <3> QED BY <3>1
  <2>3. /\ r \in TransferType /\ r.at = "none" /\ ~r.aborted /\ r.session = 0 /\ r.entries = <<>> /\ r.received = <<>> /\ r.queue = {}
    BY <1>0, <2>1, <2>2 DEF NoTransfer, TransferType, TransferAt, FileLists, None, Formats
  <2>4. NoWorker \in WorkerType /\ NoWorker.at = "none" /\ NoWorker.index = 0
    BY DEF NoWorker, WorkerType, WorkerAt
  <2>5. Workforce(r, ws)
    <3>1. 1 \in Workers /\ 2 \in Workers /\ \A w \in Workers : ws[w] = NoWorker
      BY <2>1 DEF Workers
    <3> QED BY <2>1, <2>3, <2>4, <3>1 DEF Workforce, Holding
  <2>6. TransferInv(r, ws, server)
    BY <1>0, <2>3, <2>5 DEF TransferInv, Shape, Known, Linked, Covers
  <2> QED BY <2>1, <2>6 DEF Init
<1>3. SheetInv(sheet, transfer, server)
  BY ClosedIs DEF Init
<1>4. ScanInv(scan, reading)
  <2>1. scan = NewPage /\ reading = {}
    BY DEF Init
  <2> QED BY <2>1, NewPageIs
<1> QED BY <1>0, <1>1, <1>2, <1>3, <1>4 DEF Init, UInv

LEMMA StrayArrivesKeeps ==
  ASSUME UInv, StrayArrives
  PROVE  UInv'
<1>1. PICK c \in strays : strays' = strays \ {c} /\ server' = Stored(c)
  BY DEF StrayArrives
<1>2. UNCHANGED <<sheet, transfer, worker, listed, scan, reading, acts>>
  BY DEF StrayArrives
<1>3. ServerInv(server') /\ Later(server, server')
  BY <1>1, StoredIs DEF UInv
<1> QED BY <1>1, <1>2, <1>3, ServerGoesOn DEF UInv

(* Only the sheet, and the sessions of the server.                             *)
LEMMA OnlySheet ==
  ASSUME UInv, ServerInv(server'), Later(server, server'), SheetInv(sheet', transfer, server'),
         UNCHANGED <<strays, transfer, worker, listed, scan, reading>>, acts' \in 0 .. MaxActs
  PROVE  UInv'
BY ServerGoesOn DEF UInv

LEMMA ActsIs ==
  ASSUME BoundsArePositive, UInv, Acts \/ Visit \/ UNCHANGED acts
  PROVE  acts' \in 0 .. MaxActs
BY UBounds DEF UInv, Acts, Visit

LEMMA SheetOpensKeeps ==
  ASSUME BoundsArePositive, UInv, SheetOpens
  PROVE  UInv'
<1>1. PICK r \in {None} \cup listed : sheet' = [ClosedSheet EXCEPT !.open = TRUE, !.resume = r, !.session = r,
                   !.format = IF r = None THEN "files" ELSE server[r].format]
  BY Zenon DEF SheetOpens
<1>2. UNCHANGED <<server, strays, transfer, worker, listed, scan, reading, acts>>
  BY DEF SheetOpens, Untouched
<1>3. PICK f : f = IF r = None THEN "files" ELSE server[r].format
  OBVIOUS
<1>4. r \in 0 .. MaxSessions /\ Known(r, server) /\ f \in Formats
  <2>1. CASE r = 0
    BY <1>3, <2>1, UBounds DEF None, Known, Formats
  <2>2. CASE r # 0
    <3>1. r \in Sessions /\ Known(r, server)
      BY <1>1, <2>2 DEF UInv, None
    <3>2. server[r] \in SessionType
      BY <3>1, ServedAt DEF UInv
    <3> QED BY <1>3, <2>2, <3>1, <3>2 DEF SessionType, None, Known
  <2> QED BY <2>1, <2>2
<1>5. ClosedSheet \in SheetType /\ ClosedSheet.transfer = 0 /\ ClosedSheet.phase = "select"
  BY ClosedIs DEF SheetInv
<1>6. sheet' = [ClosedSheet EXCEPT !.open = TRUE, !.resume = r, !.session = r, !.format = f]
  BY <1>1, <1>3
<1>7. sheet' \in SheetType /\ sheet'.open /\ sheet'.session = r /\ sheet'.phase = "select" /\ sheet'.transfer = 0
  BY <1>4, <1>5, <1>6 DEF SheetType
<1>8. SheetInv(sheet', transfer, server)
  BY <1>4, <1>7 DEF SheetInv
<1>9. ServerInv(server') /\ Later(server, server')
  BY <1>2, SameServer
<1> QED BY <1>2, <1>8, <1>9, OnlySheet, ActsIs

LEMMA FilesChosenKeeps ==
  ASSUME BoundsArePositive, UInv, FilesChosen
  PROVE  UInv'
<1>1. PICK fs \in SUBSET Files : \E own \in BOOLEAN :
        /\ sheet' = [sheet EXCEPT !.entries = fs, !.session = IF own THEN 0 ELSE sheet.session]
        /\ server' = IF own THEN Cancelled(sheet.session) ELSE server
  BY Zenon DEF FilesChosen, None
<1>2. PICK own \in BOOLEAN :
        /\ sheet' = [sheet EXCEPT !.entries = fs, !.session = IF own THEN 0 ELSE sheet.session]
        /\ server' = IF own THEN Cancelled(sheet.session) ELSE server
  BY <1>1, Zenon
<1>3. UNCHANGED <<strays, transfer, worker, listed, scan, reading>> /\ (Acts \/ UNCHANGED acts)
      /\ sheet.open /\ sheet.phase = "select"
  BY DEF FilesChosen, Untouched
<1>4. ServerInv(server') /\ Later(server, server')
  <2>1. CASE own
    BY <1>2, <2>1, CancelledIs, SheetIs DEF UInv
  <2>2. CASE ~own
    BY <1>2, <2>2, SameServer
  <2> QED BY <2>1, <2>2
<1>5. PICK k : k = IF own THEN 0 ELSE sheet.session
  OBVIOUS
<1>6. sheet' = [sheet EXCEPT !.entries = fs, !.session = k]
  BY <1>2, <1>5
<1>7. SheetInv(sheet, transfer, server')
  BY <1>4, ServerGoesOn
<1>8. k \in 0 .. MaxSessions /\ Known(k, server')
  <2>1. Known(sheet.session, server')
    BY <1>7 DEF SheetInv
  <2> QED BY <1>5, <2>1, UBounds DEF Known
<1>9. /\ sheet' \in SheetType /\ sheet'.open /\ sheet'.session = k /\ sheet'.phase = sheet.phase
      /\ sheet'.transfer = sheet.transfer
  BY <1>3, <1>6, <1>8, SheetIs DEF SheetType
<1>10. SheetInv(sheet', transfer, server')
  BY <1>7, <1>8, <1>9 DEF SheetInv, AtWork
<1> QED BY <1>3, <1>4, <1>10, OnlySheet, ActsIs

LEMMA FormatChosenKeeps ==
  ASSUME BoundsArePositive, UInv, FormatChosen
  PROVE  UInv'
<1>1. PICK f \in Formats : sheet' = [sheet EXCEPT !.format = f]
  BY DEF FormatChosen
<1>2. UNCHANGED <<server, strays, transfer, worker, listed, scan, reading>> /\ Acts /\ sheet.open
  BY DEF FormatChosen, Untouched
<1>3. /\ sheet' \in SheetType /\ sheet'.open /\ sheet'.session = sheet.session /\ sheet'.phase = sheet.phase
      /\ sheet'.transfer = sheet.transfer
  BY <1>1, <1>2, SheetIs DEF SheetType
<1>4. SheetInv(sheet', transfer, server)
  BY <1>3 DEF UInv, SheetInv, AtWork
<1>5. ServerInv(server') /\ Later(server, server')
  BY <1>2, SameServer
<1> QED BY <1>2, <1>4, <1>5, OnlySheet, ActsIs

LEMMA OneMoves ==
  ASSUME UInv, ServerInv(server'), Later(server, server'), NEW t \in Transfers, NEW r, NEW ws,
         TransferInv(r, ws, server'), transfer' = [transfer EXCEPT ![t] = r], worker' = [worker EXCEPT ![t] = ws],
         \A c \in strays' : StrayInv(c, server'), SheetInv(sheet', transfer', server'),
         UNCHANGED <<listed, scan, reading>>, acts' \in 0 .. MaxActs
  PROVE  UInv'
<1>1. AllTransfers(transfer', worker', server')
  <2>1. AllTransfers(transfer, worker, server) /\ ServerInv(server)
    BY DEF UInv
  <2>2. AllTransfers([transfer EXCEPT ![t] = r], [worker EXCEPT ![t] = ws], server')
    BY <2>1, OneTransfer, Zenon
  <2> QED BY <2>2
<1>2. \A s \in listed : Known(s, server')
  BY ServerGoesOn
<1> QED BY <1>1, <1>2 DEF UInv

(* The sheet, when a transfer moves.                                           *)
LEMMA SheetOf ==
  ASSUME UInv, ServerInv(server'), Later(server, server'), NEW t \in Transfers, NEW r,
         transfer' = [transfer EXCEPT ![t] = r],
         sheet' \in SheetType, Known(sheet'.session, server'), sheet'.open \/ sheet' = ClosedSheet,
         sheet'.phase # "select" => sheet'.transfer # 0,
         sheet'.transfer # 0 /\ sheet'.transfer # t => sheet'.transfer = sheet.transfer /\ sheet'.phase = sheet.phase,
         sheet'.transfer = t => AtWork(sheet', r, server')
  PROVE  SheetInv(sheet', transfer', server')
<1> SUFFICES ASSUME sheet'.transfer # 0 PROVE AtWork(sheet', transfer'[sheet'.transfer], server')
  BY DEF SheetInv
<1>1. DOMAIN transfer = Transfers /\ sheet'.transfer \in Transfers
  BY DEF UInv, AllTransfers, SheetType, Transfers
<1>2. CASE sheet'.transfer = t
  BY <1>1, <1>2
<1>3. CASE sheet'.transfer # t
  <2>1. sheet'.transfer = sheet.transfer /\ sheet'.phase = sheet.phase
    BY <1>3
  <2>2. AtWork(sheet, transfer[sheet.transfer], server')
    BY <2>1, ServerGoesOn DEF SheetInv
  <2>3. transfer'[sheet'.transfer] = transfer[sheet.transfer]
    BY <1>1, <1>3, <2>1
  <2> QED BY <2>1, <2>2, <2>3 DEF AtWork
<1> QED BY <1>2, <1>3

(* A worker moves: the transfer stays where it is.                             *)
LEMMA WorkerMoves ==
  ASSUME BoundsArePositive, UInv, ServerInv(server'), Later(server, server'), NEW t \in Transfers, NEW r, NEW ws,
         TransferInv(r, ws, server'), r.at = transfer[t].at, r.session = transfer[t].session,
         r.aborted = transfer[t].aborted,
         transfer' = [transfer EXCEPT ![t] = r], worker' = [worker EXCEPT ![t] = ws],
         \A c \in strays' : StrayInv(c, server'), UNCHANGED <<sheet, listed, scan, reading>>, Acts \/ UNCHANGED acts
  PROVE  UInv'
<1>1. DOMAIN transfer = Transfers
  BY DEF UInv, AllTransfers
<1>2. \A u \in Transfers : /\ transfer'[u].at = transfer[u].at /\ transfer'[u].aborted = transfer[u].aborted
                          /\ transfer'[u].session = transfer[u].session
  BY <1>1
<1>3. \A u \in Transfers : Known(transfer[u].session, server)
  BY TransferAtIs DEF TransferInv
<1>4. ServerInv(server) /\ SheetInv(sheet, transfer, server)
  BY DEF UInv
<1>5. SheetInv(sheet, transfer', server')
  BY <1>2, <1>3, <1>4, SheetStays
<1>6. SheetInv(sheet', transfer', server') /\ acts' \in 0 .. MaxActs
  BY <1>5, ActsIs
<1> QED BY <1>6, OneMoves

LEMMA PlaceMoves ==
  ASSUME BoundsArePositive, UInv, ServerInv(server'), Later(server, server'), NEW t \in Transfers, NEW w \in Workers,
         NEW p \in {"send", "wait", "reread", "failed"}, Place(t, w, p),
         worker[t][w].at \in {"send", "wait", "reread"}, p \in {"send", "wait"} => worker[t][w].at # "reread",
         \A c \in strays' : StrayInv(c, server'), UNCHANGED <<transfer, sheet, listed, scan, reading>>,
         Acts \/ UNCHANGED acts
  PROVE  UInv'
<1>1. PICK r, ws, xs : r = transfer[t] /\ ws = worker[t] /\ xs = [ws EXCEPT ![w].at = p]
  OBVIOUS
<1>2. TransferInv(r, ws, server')
  BY <1>1, ServerGoesOn DEF AllTransfers
<1>3. TransferInv(r, xs, server')
  BY <1>1, <1>2, PlacedIs
<1>4. worker' = [worker EXCEPT ![t] = xs] /\ transfer' = [transfer EXCEPT ![t] = r]
  BY <1>1 DEF Place, UInv, AllTransfers
<1> QED BY <1>1, <1>3, <1>4, WorkerMoves

LEMMA TakesKeeps ==
  ASSUME BoundsArePositive, UInv, NEW t \in Transfers, NEW w \in Workers, Takes(t, w)
  PROVE  UInv'
<1>1. PICK r, ws : r = transfer[t] /\ ws = worker[t]
  OBVIOUS
<1>2. /\ UNCHANGED <<server, strays, sheet, listed, scan, reading, acts>> /\ ws[w].at = "take"
      /\ TransferInv(r, ws, server)
  BY <1>1, TransferAtIs DEF Takes, ByWorker, Untouched
<1>3. ServerInv(server') /\ Later(server, server') /\ (\A c \in strays' : StrayInv(c, server'))
  BY <1>2, SameServer DEF UInv
<1>4. DOMAIN transfer = Transfers /\ transfer = [u \in Transfers |-> transfer[u]]
      /\ DOMAIN worker = Transfers /\ worker = [u \in Transfers |-> worker[u]]
  BY DEF UInv, AllTransfers
<1>5. CASE r.queue = {}
  <2>1. PICK xs : xs = [ws EXCEPT ![w] = [NoWorker EXCEPT !.at = "done"]]
    OBVIOUS
  <2>2. TransferInv(r, xs, server')
    BY <1>2, <1>5, <2>1, NothingTaken
  <2>3. transfer' = [transfer EXCEPT ![t] = r] /\ worker' = [worker EXCEPT ![t] = xs]
    BY <1>1, <1>4, <1>5, <2>1 DEF Takes
  <2> QED BY <1>1, <1>2, <1>3, <2>2, <2>3, WorkerMoves
<1>6. CASE r.queue # {}
  <2>1. PICK at, i : at = (IF r.aborted THEN "failed" ELSE "send") /\ i = First(r.queue)
    OBVIOUS
  <2>2. PICK k, rest, q, xs : /\ k = [at |-> at, index |-> i] /\ rest = r.queue \ {i}
                              /\ q = [r EXCEPT !.queue = rest] /\ xs = [ws EXCEPT ![w] = k]
    OBVIOUS
  <2>3. at \in {"send", "failed"}
    BY <2>1
  <2>4. TransferInv(q, xs, server') /\ q.at = r.at /\ q.session = r.session /\ q.aborted = r.aborted
    <3>1. TransferInv(r, ws, server') /\ ws[w].at = "take"
      BY <1>2
    <3>2. r.queue \in SUBSET (1 .. 2)
      BY <1>2 DEF TransferInv, Shape, TransferType
    <3>3. i \in r.queue
      BY <1>6, <2>1, <3>2, FirstIs
    <3>4. k \in WorkerType /\ k.at \in {"send", "failed"} /\ k.index = i
      BY <2>2, <2>3, <3>2, <3>3 DEF WorkerType, WorkerAt
    <3>5. rest = r.queue \ {i}
      BY <2>2
    <3>6. TransferInv([r EXCEPT !.queue = rest], [ws EXCEPT ![w] = k], server')
      BY <3>1, <3>3, <3>4, <3>5, TakenIs, Zenon
    <3>7. q.at = r.at /\ q.session = r.session /\ q.aborted = r.aborted
      BY <1>2, <2>2 DEF TransferInv, Shape, TransferType
    <3> QED BY <2>2, <3>6, <3>7
  <2>5. transfer' = [transfer EXCEPT ![t] = q] /\ worker' = [worker EXCEPT ![t] = xs]
    BY <1>1, <1>4, <1>6, <2>1, <2>2 DEF Takes
  <2> QED BY <1>1, <1>2, <1>3, <2>4, <2>5, WorkerMoves
<1> QED BY <1>5, <1>6

(* The server has more of a file than was believed.                            *)
LEMMA ReceivedKeeps ==
  ASSUME BoundsArePositive, UInv, ServerInv(server'), Later(server, server'), NEW t \in Transfers, NEW w \in Workers,
         worker[t][w].at \in {"send", "reread"}, NEW n \in Nat, Received(t, w, n), OpenIn(transfer[t].session, server'),
         n <= Len(server'[transfer[t].session].got[worker[t][w].index]),
         UNCHANGED <<strays, sheet, listed, scan, reading, acts>>
  PROVE  UInv'
<1>1. PICK r, ws, i : r = transfer[t] /\ ws = worker[t] /\ i = ws[w].index
  OBVIOUS
<1>2. TransferInv(r, ws, server')
  BY <1>1, ServerGoesOn DEF AllTransfers
<1>3. PICK at, k : /\ at = (IF r.aborted THEN "failed" ELSE "send")
                   /\ k = IF n >= Size[r.entries[i]] THEN [NoWorker EXCEPT !.at = "take"] ELSE [ws[w] EXCEPT !.at = at]
  OBVIOUS
<1>4. PICK q, xs : q = [r EXCEPT !.received[i] = n] /\ xs = [ws EXCEPT ![w] = k]
  OBVIOUS
<1>5. at \in {"send", "failed"} /\ ws[w].at \in {"send", "reread"} /\ OpenIn(r.session, server')
      /\ n <= Len(server'[r.session].got[i])
  BY <1>1, <1>3
<1>6. TransferInv(q, xs, server') /\ q.at = r.at /\ q.session = r.session /\ q.aborted = r.aborted
  <2>1. ws[w] \in WorkerType /\ i = ws[w].index
    BY <1>1, <1>2, StaffFacts
  <2>2. /\ k \in WorkerType /\ (n >= Size[r.entries[i]] => k.at = "take" /\ k.index = 0)
        /\ (~(n >= Size[r.entries[i]]) => k.at \in {"send", "failed"} /\ k.index = i)
    <3>1. /\ [NoWorker EXCEPT !.at = "take"] \in WorkerType /\ [NoWorker EXCEPT !.at = "take"].at = "take"
          /\ [NoWorker EXCEPT !.at = "take"].index = 0
      BY DEF NoWorker, WorkerType, WorkerAt
    <3>2. PICK old, m : old = ws[w] /\ m = [old EXCEPT !.at = at]
      OBVIOUS
    <3>3. m \in WorkerType /\ m.at = at /\ m.index = i
      BY <1>5, <2>1, <3>2 DEF WorkerType, WorkerAt
    <3> QED BY <1>3, <1>5, <3>1, <3>2, <3>3
  <2>3. Believes(r, ws, server', w, n, k)
    BY <1>2, <1>5, <2>1, <2>2 DEF Believes
  <2>4. LET p == [r EXCEPT !.received[ws[w].index] = n]
        IN  /\ TransferInv(p, [ws EXCEPT ![w] = k], server')
            /\ p.at = r.at /\ p.session = r.session /\ p.aborted = r.aborted
    BY <2>3, ReceivedIs
  <2> QED BY <1>4, <2>1, <2>4
<1>7. transfer' = [transfer EXCEPT ![t] = q]
  BY <1>1, <1>4 DEF Received
<1>8. worker' = [worker EXCEPT ![t] = xs]
  BY <1>1, <1>3, <1>4 DEF Received
<1>9. \A c \in strays' : StrayInv(c, server')
  BY ServerGoesOn
<1> QED BY <1>1, <1>6, <1>7, <1>8, <1>9, WorkerMoves

(* The chunk that a worker has in hand.                                        *)
LEMMA ChunkIs ==
  ASSUME UInv, NEW t \in Transfers, NEW w \in Workers, worker[t][w].at = "send", NEW c, c = Chunk(t, w)
  PROVE  /\ c.session = transfer[t].session /\ c.index = worker[t][w].index
         /\ c.offset = transfer[t].received[worker[t][w].index] /\ c.offset \in Nat
         /\ c.session # 0 => StrayInv(c, server)
<1>1. PICK r, ws, i : r = transfer[t] /\ ws = worker[t] /\ i = ws[w].index
  OBVIOUS
<1>2. TransferInv(r, ws, server) /\ ws[w].at = "send"
  BY <1>1, TransferAtIs
<1>3. c = [session |-> r.session, index |-> i, offset |-> r.received[i], file |-> r.entries[i]]
  BY <1>1 DEF Chunk
<1>4. Holding(r, ws[w]) /\ Shape(r) /\ Linked(r, server) /\ Known(r.session, server)
  BY <1>2, StaffFacts DEF TransferInv
<1>5. i \in DOMAIN r.entries /\ r.received[i] < Size[r.entries[i]] /\ r.entries # <<>>
  BY <1>1, <1>2, <1>4 DEF Holding
<1>6. r.received[i] \in Nat
  BY <1>4, <1>5, ShapeFacts
<1>7. OpenIn(r.session, server) => server[r.session].files = r.entries
  BY <1>4, <1>5 DEF Linked
<1> QED BY <1>1, <1>3, <1>4, <1>5, <1>6, <1>7 DEF StrayInv

LEMMA AcceptedKeeps ==
  ASSUME BoundsArePositive, UInv, NEW t \in Transfers, NEW w \in Workers, Accepted(t, w)
  PROVE  UInv'
<1>1. PICK c, i, s : c = Chunk(t, w) /\ i = worker[t][w].index /\ s = transfer[t].session
  OBVIOUS
<1>2. /\ worker[t][w].at = "send" /\ Fits(c) /\ server' = Stored(c) /\ Received(t, w, transfer[t].received[i] + 1)
      /\ UNCHANGED <<strays, sheet, listed, scan, reading, acts>>
  BY <1>1 DEF Accepted, ByWorker, Untouched
<1>3. /\ c.session = s /\ c.index = i /\ c.offset = transfer[t].received[i] /\ c.offset \in Nat
      /\ (c.session # 0 => StrayInv(c, server))
  BY <1>1, <1>2, ChunkIs
<1>4. s # 0 /\ StrayInv(c, server)
  BY <1>2, <1>3 DEF Fits, Open, None
<1>5. ServerInv(server') /\ Later(server, server') /\ Len(server'[s].got[i]) = c.offset + 1
  BY <1>2, <1>3, <1>4, StoredIs DEF UInv
<1>6. OpenIn(s, server')
  <2>1. server[s].state = "open"
    BY <1>2, <1>3 DEF Fits, Open
  <2>2. server'[s].state = server[s].state
    <3>1. Known(s, server)
      BY <1>3, <1>4 DEF StrayInv
    <3>2. s \in DOMAIN server
      BY <1>4, <3>1 DEF Known, Sessions, UInv, ServerInv
    <3>3. PICK old, got : old = server[s] /\ got = [old.got EXCEPT ![i] = Append(@, <<c.file, c.offset>>)]
      OBVIOUS
    <3>4. server' = [server EXCEPT ![s] = [old EXCEPT !.got = got]]
      BY <1>2, <1>3, <3>3 DEF Stored
    <3>5. s \in Sessions /\ old \in SessionType
      BY <3>2, <3>3, ServedAt DEF UInv, ServerInv
    <3>6. [old EXCEPT !.got = got].state = old.state
      BY <3>5 DEF SessionType
    <3> QED BY <3>2, <3>3, <3>4, <3>6
  <2> QED BY <1>4, <2>1, <2>2 DEF OpenIn
<1>7. PICK n \in Nat : n = transfer[t].received[i] + 1
  BY <1>3
<1>8. n <= Len(server'[s].got[i]) /\ Received(t, w, n)
  BY <1>2, <1>3, <1>5, <1>7
<1> QED BY <1>1, <1>2, <1>5, <1>6, <1>8, ReceivedKeeps

LEMMA ConflictKeeps ==
  ASSUME BoundsArePositive, UInv, NEW t \in Transfers, NEW w \in Workers, Conflict(t, w)
  PROVE  UInv'
<1>1. /\ worker[t][w].at = "send" /\ Place(t, w, "reread")
      /\ UNCHANGED <<server, strays, transfer, sheet, listed, scan, reading, acts>>
  BY DEF Conflict, ByWorker, Untouched
<1>2. ServerInv(server') /\ Later(server, server') /\ (\A c \in strays' : StrayInv(c, server'))
  BY <1>1, SameServer DEF UInv
<1> QED BY <1>1, <1>2, PlaceMoves

LEMMA RereadKeeps ==
  ASSUME BoundsArePositive, UInv, NEW t \in Transfers, NEW w \in Workers, Reread(t, w)
  PROVE  UInv'
<1>1. PICK s, i, n : s = transfer[t].session /\ i = worker[t][w].index /\ n = Len(server[s].got[i])
  OBVIOUS
<1>2. /\ worker[t][w].at = "reread" /\ Open(s) /\ Received(t, w, n)
      /\ UNCHANGED <<server, strays, sheet, listed, scan, reading, acts>>
  BY <1>1 DEF Reread, ByWorker, Untouched
<1>3. ServerInv(server') /\ Later(server, server')
  BY <1>2, SameServer
<1>4. OpenIn(s, server)
  BY <1>2 DEF Open, OpenIn, None
<1>5. n \in Nat
  <2>1. TransferInv(transfer[t], worker[t], server)
    BY TransferAtIs
  <2>2. i \in DOMAIN transfer[t].entries /\ Known(s, server) /\ Linked(transfer[t], server)
    BY <1>1, <1>2, <2>1, StaffFacts DEF Holding, TransferInv
  <2>3. server[s].files = transfer[t].entries /\ s \in Sessions
    BY <1>1, <1>4, <2>2 DEF Linked, Known, OpenIn, Sessions
  <2> QED BY <1>1, <2>2, <2>3, ServedAt DEF UInv
<1>6. n <= Len(server'[s].got[i]) /\ OpenIn(s, server')
  <2>1. n <= n
    BY <1>5
  <2> QED BY <1>1, <1>2, <1>4, <2>1
<1> QED BY <1>1, <1>2, <1>3, <1>5, <1>6, ReceivedKeeps, Zenon

LEMMA LostKeeps ==
  ASSUME BoundsArePositive, UInv, NEW t \in Transfers, NEW w \in Workers, Lost(t, w)
  PROVE  UInv'
<1>1. PICK c : c = Chunk(t, w)
  OBVIOUS
<1>2. /\ worker[t][w].at = "send" /\ Open(transfer[t].session) /\ (Acts \/ UNCHANGED acts)
      /\ UNCHANGED <<transfer, sheet, listed, scan, reading>>
  BY DEF Lost, ByWorker, Untouched
<1>3. \/ server' = Stored(c) /\ UNCHANGED strays
      \/ strays' \in {strays, strays \cup {c}} /\ UNCHANGED server
  BY <1>1 DEF Lost
<1>4. PICK p \in {"wait", "failed"} : Place(t, w, p)
  BY DEF Lost
<1>5. StrayInv(c, server)
  BY <1>1, <1>2, ChunkIs DEF Open, None
<1>6. ServerInv(server') /\ Later(server, server')
  BY <1>3, <1>5, StoredIs, SameServer DEF UInv
<1>7. \A d \in strays' : StrayInv(d, server')
  <2>1. CASE UNCHANGED strays
    BY <1>6, <2>1, ServerGoesOn
  <2>2. CASE strays' \in {strays, strays \cup {c}} /\ UNCHANGED server
    BY <1>5, <2>2 DEF UInv
  <2> QED BY <1>3, <2>1, <2>2
<1> QED BY <1>2, <1>4, <1>6, <1>7, PlaceMoves

LEMMA WaitedKeeps ==
  ASSUME BoundsArePositive, UInv, NEW t \in Transfers, NEW w \in Workers, Waited(t, w)
  PROVE  UInv'
<1>1. /\ worker[t][w].at = "wait"
      /\ UNCHANGED <<server, strays, transfer, sheet, listed, scan, reading, acts>>
  BY DEF Waited, ByWorker, Untouched
<1>2. PICK p \in {"send", "failed"} : Place(t, w, p)
  BY DEF Waited
<1>3. ServerInv(server') /\ Later(server, server') /\ (\A c \in strays' : StrayInv(c, server'))
  BY <1>1, SameServer DEF UInv
<1> QED BY <1>1, <1>2, <1>3, PlaceMoves

LEMMA RefusedKeeps ==
  ASSUME BoundsArePositive, UInv, NEW t \in Transfers, NEW w \in Workers, Refused(t, w)
  PROVE  UInv'
<1>1. /\ worker[t][w].at \in {"send", "reread"} /\ Place(t, w, "failed")
      /\ UNCHANGED <<server, strays, transfer, sheet, listed, scan, reading, acts>>
  BY DEF Refused, ByWorker, Untouched
<1>2. ServerInv(server') /\ Later(server, server') /\ (\A c \in strays' : StrayInv(c, server'))
  BY <1>1, SameServer DEF UInv
<1> QED BY <1>1, <1>2, PlaceMoves

LEMMA MineIs ==
  ASSUME UInv, NEW t \in Transfers
  PROVE  Mine(t) <=> sheet.transfer = t
<1>1. ~sheet.open => sheet.transfer = 0
  BY SheetIs DEF ClosedSheet, None
<1>2. t # 0
  BY DEF Transfers
<1> QED BY <1>1, <1>2 DEF Mine

LEMMA SameTables ==
  ASSUME UInv, NEW t \in Transfers
  PROVE  /\ transfer = [transfer EXCEPT ![t] = transfer[t]] /\ worker = [worker EXCEPT ![t] = worker[t]]
         /\ DOMAIN transfer = Transfers
BY DEF UInv, AllTransfers

LEMMA StartKeeps ==
  ASSUME BoundsArePositive, UInv, Start
  PROVE  UInv'
<1>1. PICK t \in Transfers :
        /\ transfer[t].at = "none"
        /\ transfer' = [transfer EXCEPT ![t].at = "opening", ![t].format = sheet.format,
             ![t].session = IF Matches(sheet.entries, sheet.session) THEN sheet.session ELSE None]
        /\ sheet' = [sheet EXCEPT !.phase = "uploading", !.transfer = t]
  BY Zenon DEF Start
<1>2. /\ sheet.open /\ sheet.phase = "select"
      /\ UNCHANGED <<server, strays, worker, listed, scan, reading, acts>>
  BY DEF Start, Untouched
<1>3. ServerInv(server') /\ Later(server, server') /\ (\A c \in strays' : StrayInv(c, server'))
  BY <1>2, SameServer DEF UInv
<1>4. PICK r, ws, k, f, q : /\ r = transfer[t] /\ ws = worker[t] /\ f = sheet.format
                        /\ k = (IF Matches(sheet.entries, sheet.session) THEN sheet.session ELSE 0)
                        /\ q = [r EXCEPT !.at = "opening", !.format = f, !.session = k]
  BY Zenon
<1>5. TransferInv(r, ws, server') /\ r \in TransferType
  BY <1>2, <1>4, TransferAtIs
<1>6. Known(k, server') /\ k \in 0 .. MaxSessions
  BY <1>2, <1>4, UBounds DEF UInv, SheetInv, Known
<1>7. /\ q \in TransferType /\ q.at = "opening" /\ q.session = k /\ q.aborted = r.aborted /\ q.entries = r.entries
      /\ q.received = r.received /\ q.queue = r.queue
  BY <1>4, <1>5, <1>6, SheetIs DEF TransferType, TransferAt
<1>8. r.entries = <<>> /\ ~r.aborted
  BY <1>1, <1>4, <1>5 DEF TransferInv, Shape
<1>9. TransferInv(q, ws, server')
  <2>1. Shape(q) /\ Linked(q, server') /\ Covers(q, ws)
    BY <1>5, <1>7, <1>8 DEF TransferInv, Shape, Linked, Covers
  <2>2. Workforce(q, ws)
    BY <1>5, <1>7 DEF TransferInv, Workforce, Holding
  <2> QED BY <1>6, <1>7, <2>1, <2>2 DEF TransferInv
<1>10. transfer' = [transfer EXCEPT ![t] = q] /\ worker' = [worker EXCEPT ![t] = ws]
  <2>1. worker' = [worker EXCEPT ![t] = ws]
    BY <1>2, <1>4, SameTables
  <2>2. transfer' = [transfer EXCEPT ![t].at = "opening", ![t].format = f, ![t].session = k]
    BY <1>1, <1>4 DEF None
  <2> QED BY <1>4, <2>1, <2>2, SameTables
<1>11. /\ sheet' \in SheetType /\ sheet'.open /\ sheet'.session = sheet.session /\ sheet'.phase = "uploading"
       /\ sheet'.transfer = t /\ t # 0
  <2>1. t \in 0 .. MaxTransfers /\ t # 0
    BY DEF Transfers
  <2> QED BY <1>1, <1>2, <2>1, SheetIs DEF SheetType
<1>12. AtWork(sheet', q, server')
  BY <1>7, <1>8, <1>11 DEF AtWork
<1>13. Known(sheet'.session, server')
  BY <1>2, <1>11 DEF UInv, SheetInv
<1>14. SheetInv(sheet', transfer', server')
  BY <1>3, <1>10, <1>11, <1>12, <1>13, SheetOf
<1>15. acts' \in 0 .. MaxActs
  BY <1>2, ActsIs
<1> QED BY <1>2, <1>3, <1>9, <1>10, <1>14, <1>15, OneMoves

(* A transfer that has failed before it was whole.                             *)
LEMMA FailedKeeps ==
  ASSUME BoundsArePositive, UInv, ServerInv(server'), Later(server, server'), NEW t \in Transfers,
         transfer[t].at \in {"opening", "sending"}, Failed(t, "select"),
         transfer' = [transfer EXCEPT ![t].at = "over"],
         UNCHANGED <<strays, worker, listed, scan, reading>>, Acts \/ UNCHANGED acts
  PROVE  UInv'
<1>1. PICK r, ws, q : r = transfer[t] /\ ws = worker[t] /\ q = [r EXCEPT !.at = "over"]
  OBVIOUS
<1>2. TransferInv(r, ws, server')
  BY <1>1, ServerGoesOn DEF AllTransfers
<1>3. TransferInv(q, ws, server') /\ q.at = "over" /\ q.aborted = r.aborted /\ q.session = r.session
  BY <1>1, <1>2, OverIs
<1>4. transfer' = [transfer EXCEPT ![t] = q] /\ worker' = [worker EXCEPT ![t] = ws]
  BY <1>1, SameTables
<1>5. SheetInv(sheet, transfer, server') /\ t # 0
  BY ServerGoesOn DEF Transfers
<1>6. CASE sheet.transfer = t
  <2>1. AtWork(sheet, r, server')
    BY <1>1, <1>5, <1>6 DEF SheetInv
  <2>2. sheet' = [sheet EXCEPT !.phase = "select"] /\ sheet.open
    BY <1>1, <1>6, <2>1, MineIs DEF Failed, AtWork, Mine
  <2>3. /\ sheet' \in SheetType /\ sheet'.open /\ sheet'.session = sheet.session /\ sheet'.phase = "select"
        /\ sheet'.transfer = t
    BY <1>6, <2>2, SheetIs DEF SheetType
  <2>4. AtWork(sheet', q, server')
    BY <1>3, <2>1, <2>3 DEF AtWork
  <2>5. Known(sheet'.session, server')
    BY <1>5, <2>3 DEF SheetInv
  <2>6. SheetInv(sheet', transfer', server')
    BY <1>4, <2>3, <2>4, <2>5, SheetOf
  <2>7. (\A c \in strays' : StrayInv(c, server')) /\ acts' \in 0 .. MaxActs
    BY ServerGoesOn, ActsIs
  <2> QED BY <1>3, <1>4, <2>6, <2>7, OneMoves
<1>7. CASE sheet.transfer # t
  <2>1. sheet' = sheet
    BY <1>7, MineIs DEF Failed
  <2>2. /\ sheet' \in SheetType /\ Known(sheet'.session, server') /\ (sheet'.open \/ sheet' = ClosedSheet)
        /\ (sheet'.phase # "select" => sheet'.transfer # 0)
    BY <1>5, <2>1 DEF SheetInv
  <2>3. SheetInv(sheet', transfer', server')
    BY <1>4, <1>7, <2>1, <2>2, SheetOf
  <2>4. (\A c \in strays' : StrayInv(c, server')) /\ acts' \in 0 .. MaxActs
    BY ServerGoesOn, ActsIs
  <2> QED BY <1>3, <1>4, <2>3, <2>4, OneMoves
<1> QED BY <1>6, <1>7

LEMMA NotOpenedKeeps ==
  ASSUME BoundsArePositive, UInv, NEW t \in Transfers, NotOpened(t)
  PROVE  UInv'
<1>1. /\ transfer[t].at = "opening" /\ Failed(t, "select") /\ transfer' = [transfer EXCEPT ![t].at = "over"]
      /\ UNCHANGED <<strays, worker, listed, scan, reading>>
  BY DEF NotOpened, Untouched
<1>2. Acts \/ UNCHANGED acts
  BY DEF NotOpened
<1>3. \/ UNCHANGED server
      \/ (\E f \in Sessions : server[f].state = "none") /\ server' = Declared(Files, "files")
  BY DEF NotOpened
<1>4. ServerInv(server') /\ Later(server, server')
  <2>1. CASE UNCHANGED server
    BY <2>1, SameServer
  <2>2. CASE (\E f \in Sessions : server[f].state = "none") /\ server' = Declared(Files, "files")
    <3>1. "files" \in Formats /\ ServerInv(server)
      BY DEF Formats, UInv
    <3> QED BY <2>2, <3>1, DeclaredIs
  <2> QED BY <1>3, <2>1, <2>2
<1> QED BY <1>1, <1>2, <1>4, FailedKeeps

LEMMA TransferFailsKeeps ==
  ASSUME BoundsArePositive, UInv, NEW t \in Transfers, TransferFails(t)
  PROVE  UInv'
<1>1. /\ transfer[t].at = "sending" /\ Failed(t, "select") /\ transfer' = [transfer EXCEPT ![t].at = "over"]
      /\ UNCHANGED <<server, strays, worker, listed, scan, reading, acts>>
  BY DEF TransferFails, Untouched
<1>2. ServerInv(server') /\ Later(server, server')
  BY <1>1, SameServer
<1> QED BY <1>1, <1>2, FailedKeeps

LEMMA OpenedKeeps ==
  ASSUME BoundsArePositive, UInv, NEW t \in Transfers, Opened(t)
  PROVE  UInv'
<1>1. PICK r, ws, new, s, got, k :
        /\ r = transfer[t] /\ ws = worker[t] /\ new = (r.session = 0) /\ s = (IF new THEN Fresh ELSE r.session)
        /\ got = [i \in DOMAIN server'[s].files |-> Len(server'[s].got[i])]
        /\ k = [w \in Workers |-> [NoWorker EXCEPT !.at = "take"]]
  BY Zenon
<1>2. /\ r.at = "opening" /\ Mine(t) /\ (new => \E f \in Sessions : server[f].state = "none")
      /\ (new \/ Open(s)) /\ server' = IF new THEN Declared(sheet.entries, sheet.format) ELSE server
      /\ sheet' = [sheet EXCEPT !.session = s]
      /\ UNCHANGED <<strays, listed, scan, reading, acts>>
  BY <1>1, Zenon DEF Opened, None, Untouched
<1>3. PICK q : q = [r EXCEPT !.at = "sending", !.session = s, !.received = got,
                              !.entries = EntriesOf(server'[s].files),
                              !.queue = {i \in DOMAIN got : got[i] < Size[server'[s].files[i]]}]
  OBVIOUS
<1>4. transfer' = [transfer EXCEPT ![t] = q] /\ worker' = [worker EXCEPT ![t] = k]
  BY <1>1, <1>2, <1>3, ZenonT(30) DEF Opened, None
<1>5. ServerInv(server') /\ Later(server, server') /\ s \in Sessions /\ server'[s].state = "open" /\ Known(s, server')
  <2>1. ServerInv(server) /\ sheet.format \in Formats
    BY SheetIs DEF UInv
  <2>2. CASE new
    <3>1. ServerInv(server') /\ Later(server, server') /\ Known(Fresh, server') /\ Fresh # 0 /\ server'[Fresh].state = "open"
      BY <1>2, <2>1, <2>2, DeclaredIs
    <3> QED BY <1>1, <2>2, <3>1 DEF Known, Sessions
  <2>3. CASE ~new
    <3>1. server' = server /\ ServerInv(server') /\ Later(server, server')
      BY <1>2, <2>3, SameServer
    <3>2. TransferInv(r, ws, server) /\ s = r.session /\ s # 0 /\ server[s].state = "open"
      BY <1>1, <1>2, <2>3, TransferAtIs DEF Open
    <3>3. Known(s, server)
      BY <3>2 DEF TransferInv
    <3> QED BY <3>1, <3>2, <3>3 DEF Known, Sessions
  <2> QED BY <2>2, <2>3
<1>6. TransferInv(r, ws, server')
  BY <1>1, <1>5, ServerGoesOn DEF AllTransfers
<1>7. TransferInv(q, k, server') /\ q.at = "sending" /\ q.session = s /\ q.aborted = r.aborted
  <2>1. Begins(q, r, s, server') /\ Staffed(k)
    <3>1. Staffed(k)
      BY <1>1 DEF Staffed
    <3>2. got = [i \in DOMAIN server'[s].files |-> Len(server'[s].got[i])]
      BY <1>1
    <3>3. Begins(q, r, s, server')
      BY <1>3, <3>2, Zenon DEF Begins
    <3> QED BY <3>1, <3>3
  <2> QED BY <1>5, <1>6, <2>1, OpenedIs
<1>8. sheet.transfer = t /\ sheet.open /\ t # 0
  BY <1>2, MineIs DEF Mine, Transfers
<1>9. AtWork(sheet, r, server')
  BY <1>1, <1>5, <1>8, ServerGoesOn DEF SheetInv
<1>10. /\ sheet' \in SheetType /\ sheet'.open /\ sheet'.session = s /\ sheet'.phase = sheet.phase
       /\ sheet'.transfer = t
  <2>1. s \in 0 .. MaxSessions
    BY <1>5 DEF Sessions
  <2> QED BY <1>2, <1>8, <2>1, SheetIs DEF SheetType
<1>11. AtWork(sheet', q, server')
  BY <1>2, <1>7, <1>9, <1>10 DEF AtWork
<1>12. SheetInv(sheet', transfer', server')
  BY <1>4, <1>5, <1>8, <1>10, <1>11, SheetOf
<1>13. (\A c \in strays' : StrayInv(c, server')) /\ acts' \in 0 .. MaxActs
  BY <1>2, <1>5, ServerGoesOn, ActsIs
<1> QED BY <1>2, <1>4, <1>5, <1>7, <1>12, <1>13, OneMoves

LEMMA TransferEndsKeeps ==
  ASSUME BoundsArePositive, UInv, NEW t \in Transfers, TransferEnds(t)
  PROVE  UInv'
<1>1. PICK r, ws, q, xs : /\ r = transfer[t] /\ ws = worker[t] /\ xs = [w \in Workers |-> NoWorker]
                         /\ q = [NoTransfer EXCEPT !.at = "inspecting", !.session = r.session, !.format = r.format]
  BY Zenon
<1>2. /\ r.at = "sending" /\ (\A w \in Workers : ws[w].at = "done")
      /\ transfer' = [transfer EXCEPT ![t] = q] /\ worker' = [worker EXCEPT ![t] = xs]
      /\ sheet' = IF Mine(t) THEN [sheet EXCEPT !.phase = "uploaded"] ELSE sheet
      /\ UNCHANGED <<server, strays, listed, scan, reading, acts>>
  BY <1>1 DEF TransferEnds, Untouched
<1>3. ServerInv(server') /\ Later(server, server')
  BY <1>2, SameServer
<1>4. TransferInv(r, ws, server')
  BY <1>1, <1>3, ServerGoesOn DEF AllTransfers
<1>5. /\ TransferInv(q, xs, server') /\ q.at = "inspecting" /\ q.session = r.session /\ ~q.aborted
      /\ (OpenIn(r.session, server') => WholeIn(r.session, server'))
  <2>1. Finishes(q, r) /\ Dismissed(xs)
    BY <1>1 DEF Finishes, Dismissed
  <2> QED BY <1>2, <1>3, <1>4, <2>1, EndsIs
<1>6. SheetInv(sheet, transfer, server') /\ t # 0 /\ (sheet.transfer = t <=> Mine(t))
  BY <1>3, ServerGoesOn, MineIs DEF Transfers
<1>7. /\ sheet' \in SheetType /\ sheet'.session = sheet.session /\ sheet'.transfer = sheet.transfer
      /\ sheet'.open = sheet.open /\ (sheet.transfer = t => sheet'.phase = "uploaded")
      /\ (sheet.transfer # t => sheet' = sheet)
  BY <1>2, <1>6, SheetIs DEF SheetType
<1>8. sheet'.open \/ sheet' = ClosedSheet
  BY <1>6, <1>7 DEF SheetInv, Mine
<1>9. Known(sheet'.session, server') /\ (sheet'.phase # "select" => sheet'.transfer # 0)
  BY <1>6, <1>7 DEF SheetInv
<1>10. sheet'.transfer = t => AtWork(sheet', q, server')
  BY <1>5, <1>7 DEF AtWork
<1>11. SheetInv(sheet', transfer', server')
  BY <1>2, <1>3, <1>7, <1>8, <1>9, <1>10, SheetOf
<1>12. (\A c \in strays' : StrayInv(c, server')) /\ acts' \in 0 .. MaxActs
  BY <1>2, <1>3, ServerGoesOn, ActsIs
<1> QED BY <1>2, <1>3, <1>5, <1>11, <1>12, OneMoves

LEMMA NotInspectedKeeps ==
  ASSUME BoundsArePositive, UInv, NEW t \in Transfers, NotInspected(t)
  PROVE  UInv'
<1>1. PICK r, ws, q : r = transfer[t] /\ ws = worker[t] /\ q = [r EXCEPT !.at = "over"]
  OBVIOUS
<1>2. /\ r.at = "inspecting" /\ (Acts \/ UNCHANGED acts) /\ transfer' = [transfer EXCEPT ![t] = q]
      /\ UNCHANGED <<server, strays, sheet, worker, listed, scan, reading>>
  BY <1>1 DEF NotInspected, Untouched
<1>3. ServerInv(server') /\ Later(server, server')
  BY <1>2, SameServer
<1>4. TransferInv(q, ws, server') /\ q.at = "over" /\ q.aborted = r.aborted /\ q.session = r.session
  <2>1. TransferInv(r, ws, server')
    BY <1>1, <1>3, ServerGoesOn DEF AllTransfers
  <2> QED BY <1>1, <2>1, OverIs
<1>5. worker' = [worker EXCEPT ![t] = ws]
  BY <1>1, <1>2, SameTables
<1>6. SheetInv(sheet, transfer, server') /\ t # 0
  BY <1>3, ServerGoesOn DEF Transfers
<1>7. sheet'.transfer = t => AtWork(sheet', q, server')
  BY <1>1, <1>2, <1>4, <1>6 DEF SheetInv, AtWork
<1>8. SheetInv(sheet', transfer', server')
  <2>1. /\ sheet' \in SheetType /\ Known(sheet'.session, server') /\ (sheet'.open \/ sheet' = ClosedSheet)
        /\ (sheet'.phase # "select" => sheet'.transfer # 0) /\ sheet' = sheet
    BY <1>2, <1>6 DEF SheetInv
  <2> QED BY <1>2, <1>3, <1>7, <2>1, SheetOf
<1>9. (\A c \in strays' : StrayInv(c, server')) /\ acts' \in 0 .. MaxActs
  BY <1>2, <1>3, ServerGoesOn, ActsIs
<1> QED BY <1>2, <1>3, <1>4, <1>5, <1>8, <1>9, OneMoves

LEMMA RetryInspectKeeps ==
  ASSUME BoundsArePositive, UInv, RetryInspect
  PROVE  UInv'
<1>1. PICK t, r, ws, f, q : /\ t = sheet.transfer /\ r = transfer[t] /\ ws = worker[t] /\ f = sheet.format
                            /\ q = [r EXCEPT !.at = "inspecting", !.format = f]
  BY Zenon
<1>2. /\ sheet.open /\ sheet.phase = "uploaded" /\ r.at = "over"
      /\ transfer' = [transfer EXCEPT ![t].at = "inspecting", ![t].format = f]
      /\ UNCHANGED <<server, strays, sheet, worker, listed, scan, reading, acts>>
  BY <1>1 DEF RetryInspect, Untouched
<1>3. t \in Transfers /\ AtWork(sheet, r, server)
  BY <1>1, <1>2, SheetIs
<1>4. ServerInv(server') /\ Later(server, server')
  BY <1>2, SameServer
<1>5. TransferInv(r, ws, server) /\ r \in TransferType
  BY <1>1, <1>3, TransferAtIs
<1>6. /\ q \in TransferType /\ q.at = "inspecting" /\ q.session = r.session /\ q.aborted = r.aborted /\ q.entries = r.entries
      /\ q.received = r.received /\ q.queue = r.queue
  BY <1>1, <1>5, SheetIs DEF TransferType, TransferAt
<1>7. OpenIn(r.session, server) => WholeIn(r.session, server)
  BY <1>2, <1>3 DEF AtWork
<1>8. TransferInv(q, ws, server)
  <2>1. Shape(q) /\ Linked(q, server) /\ Workforce(q, ws) /\ Covers(q, ws)
    BY <1>5, <1>6 DEF TransferInv, Shape, Linked, Workforce, Holding, Covers
  <2> QED BY <1>5, <1>6, <1>7, <2>1 DEF TransferInv
<1>9. transfer' = [transfer EXCEPT ![t] = q] /\ worker' = [worker EXCEPT ![t] = ws]
  BY <1>1, <1>2, <1>3, SameTables
<1>10. AtWork(sheet', q, server')
  BY <1>2, <1>3, <1>6 DEF AtWork
<1>11. SheetInv(sheet', transfer', server')
  <2>1. /\ sheet' \in SheetType /\ Known(sheet'.session, server') /\ (sheet'.open \/ sheet' = ClosedSheet)
        /\ (sheet'.phase # "select" => sheet'.transfer # 0) /\ sheet' = sheet
    BY <1>2 DEF UInv, SheetInv
  <2> QED BY <1>3, <1>4, <1>9, <1>10, <2>1, SheetOf
<1>12. (\A c \in strays' : StrayInv(c, server')) /\ acts' \in 0 .. MaxActs
  BY <1>2, <1>4, ServerGoesOn, ActsIs
<1>13. TransferInv(q, ws, server')
  BY <1>2, <1>8
<1> QED BY <1>2, <1>3, <1>4, <1>9, <1>11, <1>12, <1>13, OneMoves

(* The transfer of a sheet that goes.                                          *)
LEMMA AbortedAll ==
  ASSUME UInv, ServerInv(server'), Later(server, server')
  PROVE  AllTransfers(Aborted, worker, server') /\ \A u \in Transfers : Aborted[u].at = transfer[u].at
<1>1. CASE sheet.transfer = 0
  BY <1>1, ServerGoesOn DEF Aborted, None
<1>2. CASE sheet.transfer # 0
  <2>1. PICK t, r, ws, q : t = sheet.transfer /\ r = transfer[t] /\ ws = worker[t] /\ q = [r EXCEPT !.aborted = TRUE]
    OBVIOUS
  <2>2. t \in Transfers /\ AtWork(sheet, r, server)
    BY <1>2, <2>1, SheetIs
  <2>3. TransferInv(r, ws, server') /\ r.at # "none"
    BY <2>1, <2>2, ServerGoesOn DEF AllTransfers, AtWork
  <2>4. TransferInv(q, ws, server') /\ q.at = r.at
    BY <2>1, <2>3, AbortedIs
  <2>5. AllTransfers([transfer EXCEPT ![t] = q], [worker EXCEPT ![t] = ws], server')
    <3>1. ServerInv(server) /\ AllTransfers(transfer, worker, server)
      BY DEF UInv
    <3> QED BY <2>2, <2>4, <3>1, OneTransfer, Zenon
  <2>6. worker = [worker EXCEPT ![t] = ws]
    BY <2>1, <2>2, SameTables
  <2>7. Aborted = [transfer EXCEPT ![t] = q]
    BY <1>2, <2>1 DEF Aborted, None
  <2>8. DOMAIN transfer = Transfers
    BY DEF UInv, AllTransfers
  <2> QED BY <2>1, <2>2, <2>4, <2>5, <2>6, <2>7, <2>8
<1> QED BY <1>1, <1>2

(* The sheet goes, and the list is read anew.                                  *)
LEMMA SheetGone ==
  ASSUME BoundsArePositive, UInv, ServerInv(server'), Later(server, server'), AllTransfers(transfer', worker', server'),
         NEW kept \in SUBSET OpenSessions, CloseWith(kept), UNCHANGED strays,
         ScanInv(scan', reading'), acts' \in 0 .. MaxActs
  PROVE  UInv'
<1>1. sheet' = ClosedSheet /\ listed' = kept
  BY DEF CloseWith
<1>2. SheetInv(sheet', transfer', server')
  BY <1>1, ClosedIs
<1>3. listed' \subseteq Sessions /\ \A s \in listed' : Known(s, server')
  <2> SUFFICES ASSUME NEW s \in listed' PROVE s \in Sessions /\ Known(s, server')
    OBVIOUS
  <2>1. s \in Sessions /\ server[s].state = "open"
    BY <1>1 DEF OpenSessions
  <2>2. Known(s, server)
    BY <2>1 DEF Known, Sessions
  <2> QED BY <2>1, <2>2, LaterKnown
<1>4. \A c \in strays' : StrayInv(c, server')
  BY ServerGoesOn
<1> QED BY <1>2, <1>3, <1>4 DEF UInv

LEMMA NamedIs ==
  ASSUME NEW s \in Sessions, NEW format \in Formats, NEW busy \in BOOLEAN, ScanInv(scan, reading),
         ShowUpload(s, format, busy), reading' \subseteq reading
  PROVE  ScanInv(scan', reading')
<1>1. PICK e, d : e = [NoSource EXCEPT !.kind = "upload", !.upload = s, !.format = format] /\ d = PathUnderWay
  OBVIOUS
<1>2. s # 0 /\ s \in 0 .. MaxSessions /\ d \in BOOLEAN
  BY <1>1 DEF Sessions, PathUnderWay
<1>3. e \in SourceType /\ e.kind = "upload" /\ e.upload = s
  BY <1>1, <1>2 DEF NoSource, SourceType, Paths, None
<1>4. scan' = [scan EXCEPT !.format = format, !.upload = s, !.mapped = FALSE, !.busy = busy, !.strayed = d,
                           !.entries = e]
  BY <1>1, Zenon DEF ShowUpload
<1>5. /\ scan' \in ScanType /\ scan'.format = format /\ scan'.upload = s /\ scan'.mapped = FALSE /\ scan'.entries = e
      /\ scan'.strayed = d
  BY <1>2, <1>3, <1>4 DEF ScanInv, ScanType
<1>6. NamedBy(scan') = e
  BY <1>1, <1>2, <1>5 DEF NamedBy
<1>7. ASSUME NEW r \in reading' PROVE Asked(r) /\ Aimed(r, scan')
  <2>1. r \in reading /\ Asked(r)
    BY DEF ScanInv
  <2>2. r.kind = "path" => d
    BY <1>1, <2>1 DEF PathUnderWay
  <2> QED BY <1>5, <2>1, <2>2 DEF Aimed
<1> QED BY <1>3, <1>5, <1>6, <1>7 DEF ScanInv, Shows

LEMMA InspectedKeeps ==
  ASSUME BoundsArePositive, UInv, NEW t \in Transfers, Inspected(t)
  PROVE  UInv'
<1>1. PICK s, format : s = transfer[t].session /\ format = transfer[t].format
  OBVIOUS
<1>2. /\ transfer[t].at = "inspecting" /\ Open(s) /\ server' = [server EXCEPT ![s].format = format]
      /\ transfer' = [Aborted EXCEPT ![t].at = "over"] /\ CloseWith(OpenSessions) /\ ShowUpload(s, format, scan.busy)
      /\ UNCHANGED <<strays, worker, reading, acts>>
  BY <1>1 DEF Inspected
<1>3. s \in Sessions
  BY <1>1, <1>2, TransferAtIs DEF TransferInv, Known, Open, None, Sessions
<1>4. format \in Formats
  BY <1>1, TransferAtIs DEF TransferType
<1>5. ServerInv(server') /\ Later(server, server')
  BY <1>2, <1>3, <1>4, FormatIs DEF UInv
<1>6. AllTransfers(transfer', worker', server')
  <2>1. PICK tf, r, q, ws : tf = Aborted /\ r = tf[t] /\ q = [r EXCEPT !.at = "over"] /\ ws = worker[t]
    OBVIOUS
  <2>2. AllTransfers(tf, worker, server')
    BY <1>5, <2>1, AbortedAll
  <2>3. TransferInv(r, ws, server')
    BY <2>1, <2>2 DEF AllTransfers
  <2>4. TransferInv(q, ws, server')
    BY <2>1, <2>3, OverIs
  <2>5. Later(server', server')
    BY <1>5, LaterSame
  <2>6. AllTransfers([tf EXCEPT ![t] = q], [worker EXCEPT ![t] = ws], server')
    BY <1>5, <2>2, <2>4, <2>5, OneTransfer, Zenon
  <2>7. worker' = [worker EXCEPT ![t] = ws] /\ transfer' = [tf EXCEPT ![t] = q]
    BY <1>2, <2>1, SameTables
  <2> QED BY <2>6, <2>7
<1>7. ScanInv(scan', reading')
  <2>1. scan.busy \in BOOLEAN /\ reading' \subseteq reading
    BY <1>2, ScanFacts
  <2> QED BY <1>2, <1>3, <1>4, <2>1, NamedIs DEF UInv
<1>8. acts' \in 0 .. MaxActs
  BY <1>2 DEF UInv
<1> QED BY <1>2, <1>5, <1>6, <1>7, <1>8, SheetGone

LEMMA AbandonKeeps ==
  ASSUME BoundsArePositive, UInv, Abandon
  PROVE  UInv'
<1>1. /\ Acts /\ transfer' = Aborted
      /\ server' = IF sheet.session = 0 THEN server ELSE Cancelled(sheet.session)
      /\ CloseWith(OpenSessions \ {sheet.session})
      /\ UNCHANGED <<strays, worker, scan, reading>>
  BY DEF Abandon, None, Untouched
<1>2. ServerInv(server') /\ Later(server, server')
  <2>1. CASE sheet.session = 0
    BY <1>1, <2>1, SameServer
  <2>2. CASE sheet.session # 0
    BY <1>1, <2>2, CancelledIs, SheetIs DEF UInv
  <2> QED BY <2>1, <2>2
<1>3. AllTransfers(transfer', worker', server')
  BY <1>1, <1>2, AbortedAll
<1>4. ScanInv(scan', reading') /\ acts' \in 0 .. MaxActs
  BY <1>1, ActsIs DEF UInv
<1> QED BY <1>1, <1>2, <1>3, <1>4, SheetGone

LEMMA SheetClosesKeeps ==
  ASSUME BoundsArePositive, UInv, SheetCloses
  PROVE  UInv'
<1>1. /\ Acts /\ transfer' = Aborted /\ CloseWith(OpenSessions)
      /\ UNCHANGED <<server, strays, worker, scan, reading>>
  BY DEF SheetCloses, Untouched
<1>2. ServerInv(server') /\ Later(server, server')
  BY <1>1, SameServer
<1>3. AllTransfers(transfer', worker', server')
  BY <1>1, <1>2, AbortedAll
<1>4. ScanInv(scan', reading') /\ acts' \in 0 .. MaxActs
  BY <1>1, ActsIs DEF UInv
<1> QED BY <1>1, <1>2, <1>3, <1>4, SheetGone
-------------------------------------------------------------------------------
(* The page beside the sheet.                                                  *)
LEMMA OnlyPage ==
  ASSUME UInv, ServerInv(server'), Later(server, server'), UNCHANGED <<strays, sheet, transfer, worker>>,
         listed' \subseteq Sessions, \A s \in listed' : Known(s, server'),
         ScanInv(scan', reading'), acts' \in 0 .. MaxActs
  PROVE  UInv'
BY ServerGoesOn DEF UInv

(* Only what the page shows of a source, and what was asked.                    *)
LEMMA OnlyScan ==
  ASSUME BoundsArePositive, UInv, UNCHANGED <<server, strays, sheet, transfer, worker, listed>>,
         ScanInv(scan', reading'), Visit \/ UNCHANGED acts
  PROVE  UInv'
<1>1. ServerInv(server') /\ Later(server, server') /\ acts' \in 0 .. MaxActs
  BY SameServer, ActsIs
<1> QED BY <1>1, OnlyPage DEF UInv

LEMMA KeptIs ==
  ASSUME UInv, ServerInv(server'), Later(server, server'), NEW kept \in SUBSET OpenSessions
  PROVE  kept \subseteq Sessions /\ \A s \in kept : Known(s, server')
<1> SUFFICES ASSUME NEW s \in kept PROVE s \in Sessions /\ Known(s, server')
  OBVIOUS
<1>1. s \in Sessions /\ server[s].state = "open"
  BY DEF OpenSessions
<1>2. Known(s, server)
  BY <1>1 DEF Known, Sessions
<1> QED BY <1>1, <1>2, LaterKnown

LEMMA PendingAbandonedKeeps ==
  ASSUME BoundsArePositive, UInv, PendingAbandoned
  PROVE  UInv'
<1>1. PICK s \in listed : server' = Cancelled(s) /\ listed' = OpenSessions \ {s}
  BY DEF PendingAbandoned
<1>2. Visit /\ UNCHANGED <<strays, sheet, transfer, worker, scan, reading>>
  BY DEF PendingAbandoned, ByPage, Untouched
<1>3. s \in 0 .. MaxSessions
  BY DEF UInv, Known
<1>4. ServerInv(server') /\ Later(server, server')
  BY <1>1, <1>3, CancelledIs DEF UInv
<1>5. listed' \subseteq Sessions /\ \A r \in listed' : Known(r, server')
  BY <1>1, <1>4, KeptIs
<1>6. ScanInv(scan', reading') /\ acts' \in 0 .. MaxActs
  BY <1>2, ActsIs DEF UInv
<1> QED BY <1>2, <1>4, <1>5, <1>6, OnlyPage

LEMMA MapAskedKeeps ==
  ASSUME BoundsArePositive, UInv, MapAsked
  PROVE  UInv'
<1>1. PICK s \in listed :
        Ask([NoSource EXCEPT !.kind = "upload", !.upload = s, !.format = server[s].format])
  BY Zenon DEF MapAsked
<1>2. UNCHANGED <<server, strays, sheet, transfer, worker, listed>> /\ scan' = [scan EXCEPT !.busy = TRUE]
  BY DEF MapAsked, ByPage
<1>3. PICK f, r : f = server[s].format /\ r = [NoSource EXCEPT !.kind = "upload", !.upload = s, !.format = f]
  BY Zenon
<1>4. s \in 0 .. MaxSessions /\ f \in Formats
  <2>1. s \in Sessions /\ s \in 0 .. MaxSessions
    BY DEF UInv, Known
  <2>2. server[s] \in SessionType
    BY <2>1, ServedAt DEF UInv
  <2> QED BY <1>3, <2>1, <2>2 DEF SessionType
<1>5. Asked(r) /\ r.kind # "path"
  BY <1>3, <1>4, NoSourceIs DEF SourceType, Asked
<1>6. Visit /\ reading' = reading \cup {r}
  BY <1>1, <1>3 DEF Ask
<1>7. ScanInv(scan', reading')
  <2>1. /\ scan' \in ScanType /\ scan'.entries = scan.entries /\ scan'.mapped = scan.mapped
        /\ scan'.strayed = scan.strayed /\ scan'.upload = scan.upload /\ scan'.path = scan.path
        /\ scan'.format = scan.format
    BY <1>2, ScanFacts DEF ScanType
  <2>2. Shows(scan')
    BY <2>1, ScanFacts DEF Shows, NamedBy
  <2>3. \A q \in reading' : Asked(q) /\ Aimed(q, scan')
    BY <1>5, <1>6, <2>1, ScanFacts DEF Aimed
  <2> QED BY <2>1, <2>2, <2>3, ScanFacts DEF ScanInv
<1> QED BY <1>2, <1>6, <1>7, OnlyScan

LEMMA PathAskedKeeps ==
  ASSUME BoundsArePositive, UInv, PathAsked
  PROVE  UInv'
<1>1. UNCHANGED <<server, strays, sheet, transfer, worker, listed>> /\ scan.format # Unset
  BY DEF PathAsked, ByPage
<1>2. PICK p, f, r, d : /\ p = scan.path /\ f = scan.format
                       /\ r = [NoSource EXCEPT !.kind = "path", !.path = p, !.format = f]
                       /\ d = (PathUnderWay \/ (scan.strayed /\ scan.entries # NoSource))
  BY Zenon
<1>3. p \in Paths /\ f \in Formats /\ d \in BOOLEAN
  BY <1>1, <1>2, ScanFacts DEF PathUnderWay
<1>4. Asked(r) /\ r.path = p /\ r.format = f
  BY <1>2, <1>3, NoSourceIs DEF SourceType, Asked
<1>5. Visit /\ reading' = reading \cup {r} /\ scan' = [scan EXCEPT !.busy = TRUE, !.strayed = d]
  BY <1>2, Zenon DEF PathAsked, Ask
<1>6. /\ scan' \in ScanType /\ scan'.entries = scan.entries /\ scan'.mapped = scan.mapped /\ scan'.strayed = d
      /\ scan'.upload = scan.upload /\ scan'.path = p /\ scan'.format = f
  BY <1>2, <1>3, <1>5, ScanFacts DEF ScanType
<1>7. Shows(scan')
  BY <1>2, <1>6, ScanFacts DEF Shows, NamedBy
<1>8. ASSUME NEW q \in reading' PROVE Asked(q) /\ Aimed(q, scan')
  <2>1. CASE q = r
    BY <1>4, <1>6, <2>1 DEF Aimed
  <2>2. CASE q \in reading
    <3>1. q.kind = "path" => d
      BY <1>2, <2>2 DEF PathUnderWay
    <3> QED BY <1>6, <2>2, <3>1, ScanFacts DEF Aimed
  <2> QED BY <1>5, <2>1, <2>2
<1>9. ScanInv(scan', reading')
  BY <1>6, <1>7, <1>8, ScanFacts DEF ScanInv
<1> QED BY <1>1, <1>5, <1>9, OnlyScan

LEMMA SelectOpensKeeps ==
  ASSUME BoundsArePositive, UInv, SelectOpens
  PROVE  UInv'
<1>1. PICK d : d = PathUnderWay
  OBVIOUS
<1>2. UNCHANGED <<server, strays, sheet, transfer, worker, listed, reading, acts>>
      /\ scan' = [scan EXCEPT !.selecting = TRUE, !.format = Unset, !.entries = NoSource, !.mapped = FALSE,
                              !.strayed = d]
  BY <1>1, Zenon DEF SelectOpens, ByPage
<1>3. d \in BOOLEAN
  BY <1>1 DEF PathUnderWay
<1>4. scan' \in ScanType /\ scan'.entries = NoSource /\ ~scan'.mapped /\ scan'.strayed = d
  BY <1>2, <1>3, NoSourceIs, ScanFacts DEF ScanType
<1>5. ScanInv(scan', reading')
  BY <1>1, <1>2, <1>4, Emptied
<1> QED BY <1>2, <1>5, OnlyScan

LEMMA PathChosenKeeps ==
  ASSUME BoundsArePositive, UInv, PathChosen
  PROVE  UInv'
<1>1. PICK d : d = PathUnderWay
  OBVIOUS
<1>2. PICK p \in Paths : scan' = [scan EXCEPT !.path = p, !.entries = NoSource, !.mapped = FALSE, !.strayed = d]
  BY <1>1, Zenon DEF PathChosen
<1>3. UNCHANGED <<server, strays, sheet, transfer, worker, listed, reading>> /\ Visit
  BY DEF PathChosen, ByPage
<1>4. d \in BOOLEAN
  BY <1>1 DEF PathUnderWay
<1>5. scan' \in ScanType /\ scan'.entries = NoSource /\ ~scan'.mapped /\ scan'.strayed = d
  BY <1>2, <1>4, NoSourceIs, ScanFacts DEF ScanType
<1>6. ScanInv(scan', reading')
  BY <1>1, <1>3, <1>5, Emptied
<1> QED BY <1>3, <1>6, OnlyScan

LEMMA ScanFormatChosenKeeps ==
  ASSUME BoundsArePositive, UInv, ScanFormatChosen
  PROVE  UInv'
<1>1. PICK d : d = (scan.strayed \/ PathUnderWay \/ scan.entries # NoSource)
  OBVIOUS
<1>2. PICK f \in Formats : scan' = [scan EXCEPT !.format = f, !.strayed = d]
  BY <1>1, Zenon DEF ScanFormatChosen
<1>3. UNCHANGED <<server, strays, sheet, transfer, worker, listed, reading>> /\ (Visit \/ UNCHANGED acts)
  BY DEF ScanFormatChosen, ByPage
<1>4. d \in BOOLEAN
  BY <1>1, ScanFacts DEF PathUnderWay
<1>5. /\ scan' \in ScanType /\ scan'.entries = scan.entries /\ scan'.mapped = scan.mapped
      /\ scan'.strayed = d /\ scan'.upload = scan.upload
  BY <1>2, <1>4, ScanFacts DEF ScanType
<1>6. Shows(scan')
  <2> SUFFICES ASSUME scan'.entries # NoSource
               PROVE  /\ NamedBy(scan').kind = scan.entries.kind /\ NamedBy(scan').upload = scan.entries.upload
                      /\ scan'.strayed
    BY <1>5 DEF Shows
  <2>1. NamedBy(scan).kind = scan.entries.kind /\ NamedBy(scan).upload = scan.entries.upload
    BY <1>5, ScanFacts DEF Shows
  <2>2. NamedBy(scan').kind = NamedBy(scan).kind /\ NamedBy(scan').upload = NamedBy(scan).upload
    BY <1>5 DEF NamedBy, NoSource
  <2> QED BY <1>1, <1>5, <2>1, <2>2
<1>7. ASSUME NEW r \in reading' PROVE Asked(r) /\ Aimed(r, scan')
  <2>1. r.kind = "path" => d
    BY <1>1, <1>3 DEF PathUnderWay
  <2> QED BY <1>3, <1>5, <2>1, ScanFacts DEF Aimed
<1>8. ScanInv(scan', reading')
  BY <1>5, <1>6, <1>7, ScanFacts DEF ScanInv
<1> QED BY <1>3, <1>8, OnlyScan

LEMMA SelectClosesKeeps ==
  ASSUME BoundsArePositive, UInv, SelectCloses
  PROVE  UInv'
<1>1. UNCHANGED <<server, strays, sheet, transfer, worker, listed, reading, acts>>
      /\ scan' = [scan EXCEPT !.selecting = FALSE]
  BY DEF SelectCloses, ByPage
<1>2. ScanInv(scan', reading')
  BY <1>1, SameShown, ScanFacts DEF ScanType
<1> QED BY <1>1, <1>2, OnlyScan

LEMMA PathReadKeeps ==
  ASSUME BoundsArePositive, UInv, PathRead
  PROVE  UInv'
<1>1. PICK r \in reading :
        /\ r.kind = "path" /\ reading' = reading \ {r}
        /\ scan' = [scan EXCEPT !.upload = 0, !.entries = r, !.selecting = FALSE, !.mapped = FALSE, !.busy = FALSE]
        /\ UNCHANGED <<server, strays, sheet, transfer, worker, listed, acts>>
  BY Zenon DEF PathRead, ByPage, None
<1>2. r \in SourceType /\ r.upload = 0 /\ (scan.strayed \/ (r.path = scan.path /\ r.format = scan.format))
  BY <1>1, ScanFacts DEF Asked, Aimed
<1>3. /\ scan' \in ScanType /\ scan'.entries = r /\ ~scan'.mapped /\ scan'.upload = 0
      /\ scan'.path = scan.path /\ scan'.format = scan.format /\ scan'.strayed = scan.strayed
  <2>1. 0 \in 0 .. MaxSessions
    BY UBounds
  <2> QED BY <1>1, <1>2, <2>1, ScanFacts DEF ScanType
<1>4. NamedBy(scan').kind = "path" /\ NamedBy(scan').upload = 0
  BY <1>3 DEF NamedBy, NoSource, None
<1>5. scan'.strayed \/ NamedBy(scan') = r
  <2> SUFFICES ASSUME ~scan'.strayed PROVE NamedBy(scan') = r
    OBVIOUS
  <2>1. PICK p, f : p = r.path /\ f = r.format
    OBVIOUS
  <2>2. NamedBy(scan') = [NoSource EXCEPT !.kind = "path", !.path = p, !.format = f]
    BY <1>2, <1>3, <2>1 DEF NamedBy
  <2>3. PICK m : m = [NoSource EXCEPT !.kind = "path", !.path = p, !.format = f]
    OBVIOUS
  <2>4. p \in Paths /\ f \in Formats
    BY <1>2, <2>1 DEF SourceType
  <2>5. m \in SourceType /\ m.kind = "path" /\ m.path = p /\ m.upload = 0 /\ m.format = f
    BY <2>3, <2>4, NoSourceIs DEF SourceType
  <2>6. m = r
    BY <1>1, <1>2, <2>1, <2>5 DEF SourceType
  <2> QED BY <2>2, <2>3, <2>6
<1>6. \A q \in reading' : Asked(q) /\ Aimed(q, scan')
  BY <1>1, <1>3, ScanFacts DEF Aimed
<1>7. ScanInv(scan', reading')
  BY <1>1, <1>2, <1>3, <1>4, <1>5, <1>6 DEF ScanInv, Shows
<1> QED BY <1>1, <1>7, OnlyScan

LEMMA MapReadKeeps ==
  ASSUME BoundsArePositive, UInv, MapRead
  PROVE  UInv'
<1>1. PICK r \in reading :
        /\ Open(r.upload) /\ reading' = reading \ {r} /\ transfer' = Aborted /\ CloseWith(OpenSessions)
        /\ ShowUpload(r.upload, r.format, FALSE) /\ UNCHANGED <<server, strays, worker, acts>>
  BY DEF MapRead
<1>2. r.upload \in Sessions /\ r.format \in Formats
  <2>1. r \in SourceType
    BY DEF UInv, ScanInv, Asked
  <2> QED BY <1>1, <2>1 DEF Open, None, SourceType, Sessions
<1>3. ServerInv(server') /\ Later(server, server')
  BY <1>1, SameServer
<1>4. AllTransfers(transfer', worker', server')
  BY <1>1, <1>3, AbortedAll
<1>5. ScanInv(scan', reading')
  BY <1>1, <1>2, NamedIs DEF UInv
<1>6. acts' \in 0 .. MaxActs
  BY <1>1 DEF UInv
<1> QED BY <1>1, <1>3, <1>4, <1>5, <1>6, SheetGone

LEMMA NotReadKeeps ==
  ASSUME BoundsArePositive, UInv, NotRead
  PROVE  UInv'
<1>1. PICK r \in reading :
        /\ reading' = reading \ {r} /\ UNCHANGED <<server, strays, sheet, transfer, worker, listed>>
        /\ scan' = [scan EXCEPT !.busy = FALSE] /\ (Visit \/ UNCHANGED acts)
  BY DEF NotRead, ByPage
<1>2. ScanInv(scan', reading')
  BY <1>1, SameShown, ScanFacts DEF ScanType
<1> QED BY <1>1, <1>2, OnlyScan

LEMMA MappingChosenKeeps ==
  ASSUME BoundsArePositive, UInv, MappingChosen
  PROVE  UInv'
<1>1. /\ UNCHANGED <<server, strays, sheet, transfer, worker, listed, reading, acts>>
      /\ scan' = [scan EXCEPT !.mapped = TRUE] /\ scan.entries # NoSource
  BY DEF MappingChosen, ByPage
<1>2. ScanInv(scan', reading')
  BY <1>1, SameShown, ScanFacts DEF ScanType
<1> QED BY <1>1, <1>2, OnlyScan

LEMMA NamedSession ==
  ASSUME UInv
  PROVE  Named.upload \in 0 .. MaxSessions
BY ScanFacts DEF Named, NoSource, None

LEMMA TakenUpload ==
  ASSUME BoundsArePositive, UInv, server' = Taken
  PROVE  ServerInv(server') /\ Later(server, server')
<1>1. PICK s : s = Named.upload
  OBVIOUS
<1>2. server' = IF s = 0 THEN server ELSE [server EXCEPT ![s] = [NoSession EXCEPT !.state = "scanning"]]
  BY <1>1 DEF Taken, None
<1>3. CASE s = 0
  BY <1>2, <1>3, SameServer
<1>4. CASE s # 0
  <2>1. s \in Sessions
    BY <1>1, <1>4, NamedSession DEF Sessions
  <2> QED BY <1>2, <1>4, <2>1, EndedIs DEF UInv
<1> QED BY <1>3, <1>4

LEMMA ScanStartsKeeps ==
  ASSUME BoundsArePositive, UInv, ScanStarts
  PROVE  UInv'
<1>1. /\ server' = Taken /\ listed' = OpenSessions \ {Named.upload}
      /\ scan' = NewPage /\ reading' = {}
      /\ UNCHANGED <<strays, sheet, transfer, worker, acts>>
  BY DEF ScanStarts, ByPage
<1>2. ServerInv(server') /\ Later(server, server')
  BY <1>1, TakenUpload
<1>3. ScanInv(scan', reading') /\ acts' \in 0 .. MaxActs
  BY <1>1, NewPageIs DEF UInv
<1>4. listed' \subseteq Sessions /\ \A r \in listed' : Known(r, server')
  BY <1>1, <1>2, KeptIs
<1> QED BY <1>1, <1>2, <1>3, <1>4, OnlyPage

LEMMA ScanNotStartedKeeps ==
  ASSUME BoundsArePositive, UInv, ScanNotStarted
  PROVE  UInv'
<1>1. /\ Visit /\ (server' = server \/ server' = Taken)
      /\ UNCHANGED <<listed, strays, sheet, transfer, worker, scan, reading>>
  BY DEF ScanNotStarted, ByPage, Untouched
<1>2. ServerInv(server') /\ Later(server, server')
  BY <1>1, TakenUpload, SameServer
<1>3. ScanInv(scan', reading') /\ acts' \in 0 .. MaxActs
  BY <1>1, ActsIs DEF UInv
<1>4. listed' \subseteq Sessions /\ \A s \in listed' : Known(s, server')
  BY <1>1, <1>2, ServerGoesOn DEF UInv
<1> QED BY <1>1, <1>2, <1>3, <1>4, OnlyPage
-------------------------------------------------------------------------------
LEMMA USends ==
  ASSUME BoundsArePositive, UInv, NEW t \in Transfers, NEW w \in Workers, Sends(t, w)
  PROVE  UInv'
BY TakesKeeps, AcceptedKeeps, ConflictKeeps, RereadKeeps, LostKeeps, WaitedKeeps, RefusedKeeps DEF Sends

LEMMA UTransfer ==
  ASSUME BoundsArePositive, UInv, NEW t \in Transfers, Transfer(t)
  PROVE  UInv'
BY OpenedKeeps, NotOpenedKeeps, TransferFailsKeeps, TransferEndsKeeps, InspectedKeeps, NotInspectedKeeps DEF Transfer

LEMMA USheet ==
  ASSUME BoundsArePositive, UInv, SheetUsed
  PROVE  UInv'
BY SheetOpensKeeps, FilesChosenKeeps, FormatChosenKeeps, StartKeeps, RetryInspectKeeps, AbandonKeeps, SheetClosesKeeps
   DEF SheetUsed

LEMMA UPage ==
  ASSUME BoundsArePositive, UInv, PageUsed
  PROVE  UInv'
BY PendingAbandonedKeeps, MapAskedKeeps, SelectOpensKeeps, PathAskedKeeps, PathChosenKeeps, ScanFormatChosenKeeps,
   SelectClosesKeeps, PathReadKeeps, MapReadKeeps, NotReadKeeps, MappingChosenKeeps, ScanStartsKeeps,
   ScanNotStartedKeeps DEF PageUsed

LEMMA UIdle ==
  ASSUME UInv, UNCHANGED vars
  PROVE  UInv'
BY DEF UInv, vars

LEMMA UStep ==
  ASSUME BoundsArePositive, UInv, [Next]_vars
  PROVE  UInv'
<1>1. CASE Next
  BY <1>1, USends, UTransfer, USheet, UPage, StrayArrivesKeeps DEF Next
<1>2. CASE UNCHANGED vars
  BY <1>2, UIdle
<1> QED BY <1>1, <1>2

(* What the invariant says.                                                    *)
LEMMA SaysRightBytes ==
  ASSUME UInv
  PROVE  RightBytes
<1> SUFFICES ASSUME NEW s \in Sessions, NEW i \in DOMAIN server[s].got, NEW got, got = server[s].got[i]
             PROVE  /\ Len(got) <= Size[server[s].files[i]]
                    /\ \A k \in DOMAIN got : got[k] = <<server[s].files[i], k - 1>>
  BY DEF RightBytes
<1>1. i \in DOMAIN server[s].files /\ got \in Seq(Files \X Nat) /\ FirstChunks(server[s].files[i], got)
  BY ServedAt DEF UInv
<1>2. DOMAIN got = 1 .. Len(got)
  BY <1>1, LenProperties
<1> QED BY <1>1, <1>2 DEF FirstChunks

LEMMA SaysUploadedIsWhole ==
  ASSUME UInv
  PROVE  UploadedIsWhole
<1> SUFFICES ASSUME NEW t \in Transfers, transfer[t].at = "inspecting", Open(transfer[t].session)
             PROVE  Whole(transfer[t].session)
  BY DEF UploadedIsWhole
<1>1. TransferInv(transfer[t], worker[t], server)
  BY TransferAtIs
<1>2. OpenIn(transfer[t].session, server)
  BY DEF Open, OpenIn, None
<1>3. WholeIn(transfer[t].session, server)
  BY <1>1, <1>2 DEF TransferInv
<1> QED BY <1>3 DEF Whole, WholeIn

LEMMA SaysScanFitsReading ==
  ASSUME UInv
  PROVE  ScanFitsReading
<1>1. NamedBy(scan) = Named
  BY DEF NamedBy, Named, None
<1> QED BY <1>1, ScanFacts DEF ScanFitsReading, Shows

LEMMA SaysTypeOK ==
  ASSUME UInv
  PROVE  TypeOK
<1>1. \A s \in Sessions : server[s].state \in {"none", "open", "gone", "scanning"}
  BY ServedAt DEF UInv
<1>2. ASSUME NEW t \in Transfers
      PROVE  /\ transfer[t].at \in {"none", "opening", "sending", "inspecting", "over"}
             /\ \A w \in Workers :
                  worker[t][w].at \in {"none", "take", "send", "wait", "reread", "done", "failed"}
             /\ worker[t][1].index = worker[t][2].index => worker[t][1].index = 0
  BY TransferAtIs, StaffFacts, ShapeFacts DEF TransferAt, WorkerAt
<1>3. sheet.phase = "uploading" => transfer[sheet.transfer].at \in {"opening", "sending"}
  BY SheetIs DEF AtWork
<1>4. listed \subseteq Sessions /\ acts \in 0 .. MaxActs /\ (scan.mapped => scan.entries # NoSource)
  BY ScanFacts DEF UInv
<1> QED BY <1>1, <1>2, <1>3, <1>4, SheetIs DEF TypeOK

-------------------------------------------------------------------------------
(* Transfers: the upload as above, the relay of a game with its own invariant.                 *)
TransfersConfigured == BoundsArePositive /\ Relay!BoundsArePositive /\ Narrow!BoundsArePositive

TransfersInv ==
  /\ transfersPart \in {"upload", "relay", "narrow"}
  /\ transfersPart = "upload" => UInv
  /\ transfersPart = "relay" => Relay!RInv
  /\ transfersPart = "narrow" => Narrow!RInv

LEMMA OneTransfersPart ==
  ASSUME TransfersInv, [TransfersNext]_transfersVars
  PROVE  /\ transfersPart' = transfersPart
         /\ transfersPart = "upload" => [Next]_vars
         /\ transfersPart = "relay" => [Relay!Next]_(Relay!vars)
         /\ transfersPart = "narrow" => [Narrow!Next]_(Narrow!vars)
<1>1. transfersPart' = transfersPart
  BY DEF TransfersNext, transfersVars
<1>2. ASSUME transfersPart = "upload" PROVE [Next]_vars
  BY <1>2 DEF TransfersNext, transfersVars
<1>3. ASSUME transfersPart = "relay" PROVE [Relay!Next]_(Relay!vars)
  BY <1>3 DEF TransfersNext, transfersVars, relayVars, Relay!vars
<1>4. ASSUME transfersPart = "narrow" PROVE [Narrow!Next]_(Narrow!vars)
  BY <1>4 DEF TransfersNext, transfersVars, relayVars, Narrow!vars
<1> QED BY <1>1, <1>2, <1>3, <1>4

LEMMA TransfersStarts ==
  ASSUME TransfersConfigured, TransfersInit
  PROVE  TransfersInv
<1>1. transfersPart \in {"upload", "relay", "narrow"}
  BY DEF TransfersInit
<1>2. ASSUME transfersPart = "upload" PROVE UInv
  BY <1>2, UInit DEF TransfersInit, TransfersConfigured
<1>3. ASSUME transfersPart = "relay" PROVE Relay!RInv
  BY <1>3, Relay!RInit DEF TransfersInit, TransfersConfigured
<1>4. ASSUME transfersPart = "narrow" PROVE Narrow!RInv
  BY <1>4, Narrow!RInit DEF TransfersInit, TransfersConfigured
<1> QED BY <1>1, <1>2, <1>3, <1>4 DEF TransfersInv

LEMMA TransfersStep ==
  ASSUME TransfersConfigured, TransfersInv, [TransfersNext]_transfersVars
  PROVE  TransfersInv'
<1>1. transfersPart' = transfersPart /\ transfersPart \in {"upload", "relay", "narrow"}
  BY OneTransfersPart DEF TransfersInv
<1>2. ASSUME transfersPart = "upload" PROVE UInv'
  <2>1. [Next]_vars /\ UInv
    BY <1>2, OneTransfersPart DEF TransfersInv
  <2> QED BY <2>1, UStep DEF TransfersConfigured
<1>3. ASSUME transfersPart = "relay" PROVE Relay!RInv'
  <2>1. [Relay!Next]_(Relay!vars) /\ Relay!RInv
    BY <1>3, OneTransfersPart DEF TransfersInv
  <2> QED BY <2>1, Relay!RStep DEF TransfersConfigured
<1>4. ASSUME transfersPart = "narrow" PROVE Narrow!RInv'
  <2>1. [Narrow!Next]_(Narrow!vars) /\ Narrow!RInv
    BY <1>4, OneTransfersPart DEF TransfersInv
  <2> QED BY <2>1, Narrow!RStep DEF TransfersConfigured
<1> QED BY <1>1, <1>2, <1>3, <1>4 DEF TransfersInv

LEMMA TransfersAlways ==
  ASSUME TransfersConfigured
  PROVE  TransfersSpec => []TransfersInv
<1>1. TransfersInit => TransfersInv
  BY TransfersStarts
<1>2. TransfersInv /\ [TransfersNext]_transfersVars => TransfersInv'
  BY TransfersStep
<1> QED BY <1>1, <1>2, PTL DEF TransfersSpec

(* upload-transfer.ts and uploads.go: whatever is lost, repeated or late, and whoever sends     *)
(* beside whom, the server holds the first chunks of each file in their order, and an upload   *)
(* announced as finished is whole.                                                            *)
THEOREM BytesAlwaysArrive == ASSUME TransfersConfigured PROVE TransfersSpec => []BytesArrive
<1>1. TransfersInv => BytesArrive
  BY SaysTypeOK, SaysRightBytes, SaysUploadedIsWhole DEF TransfersInv, BytesArrive
<1> QED BY <1>1, TransfersAlways, PTL

(* game-scan.tsx: whatever answers late, the collections mapped and the source a scan names are   *)
(* both of the same upload or both of a directory, and of the very same source unless the picker   *)
(* went on after they were asked for.                                                            *)
THEOREM ScanAlwaysIsOfOneSource ==
  ASSUME TransfersConfigured PROVE TransfersSpec => []ScanIsOfOneSource
<1>1. TransfersInv => ScanIsOfOneSource
  BY SaysScanFitsReading DEF TransfersInv, ScanIsOfOneSource
<1> QED BY <1>1, TransfersAlways, PTL

(* service-worker.js of the runtime: a read that goes on is not given up before its time, and   *)
(* the counters of the slots agree with the requests, with any number of slots.                *)
THEOREM ReadsAlwaysGoOn == ASSUME TransfersConfigured PROVE TransfersSpec => []ReadsGoOn
<1>1. ASSUME TransfersInv, transfersPart = "relay"
      PROVE  Relay!NoReadGivenUpEarly /\ Relay!SlotsAgree
  BY <1>1, Relay!SaysNoReadGivenUpEarly, Relay!SaysSlotsAgree DEF TransfersConfigured, TransfersInv
<1>2. ASSUME TransfersInv, transfersPart = "narrow"
      PROVE  Narrow!NoReadGivenUpEarly /\ Narrow!SlotsAgree
  BY <1>2, Narrow!SaysNoReadGivenUpEarly, Narrow!SaysSlotsAgree DEF TransfersConfigured,
       TransfersInv
<1>3. TransfersInv => ReadsGoOn
  BY <1>1, <1>2 DEF ReadsGoOn
<1> QED BY <1>3, TransfersAlways, PTL
================================================================================
