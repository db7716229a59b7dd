------------------------------- MODULE Uploads -------------------------------
(***************************************************************************)
(* Browser uploads (internal/service/scans/upload.go, internal/storage/    *)
(* uploads.go): an administrator declares a tree of files, sends each file *)
(* in chunks, resumes from the received bytes after a failure, and starts  *)
(* a scan that reads the staged tree and removes it.                       *)
(*                                                                         *)
(* The session lives in Redis and expires Window after its last write; the *)
(* tree lives on disk; which uploads a scan reads, which files are being   *)
(* written and the mutex live in the memory of the process.  Nothing makes *)
(* a read of one and a write of another atomic.                            *)
(*                                                                         *)
(* Requests by others than the owner of the session end before any effect  *)
(* and are left out.  A byte of a file is its position, 1..Size[i].        *)
(***************************************************************************)
EXTENDS Integers, Sequences, FiniteSets

CONSTANTS
  UploadIds,        \* fresh identifiers, never reused
  Index,            \* indices of the declared files
  Size,             \* the declared size of each of them
  Requests,         \* HTTP requests handled at the same time, scans included
  MaximumSessions,  \* model.UploadMaximumSessions
  MaximumScans,     \* scans.Service.admit
  Window,           \* uploadWindow: session TTL and age of leftovers
  MaxFaults,        \* bound: number of crashes and failed requests
  RedisFails,       \* TRUE: calls of Redis may fail
  Overlap           \* FALSE: a client asks for a scan or a removal only while it
                    \* has no other request about the same upload under way

ASSUME UploadAssumption ==
  /\ Size \in [Index -> Nat]
  /\ MaximumSessions \in Nat /\ MaximumScans \in Nat /\ Window \in Nat \ {0}
  /\ MaxFaults \in Nat /\ RedisFails \in BOOLEAN /\ Overlap \in BOOLEAN

Expired == -1
NoUpload == "no upload"
NoIndex == -1
Free == "free"
Cleanup == "cleanup"
ASSUME UploadNames == /\ NoUpload \notin UploadIds /\ Index \subseteq Nat
                      /\ Free \notin Requests /\ Cleanup \notin Requests

VARIABLES
  session,  \* Redis: age of the session since its last write, or Expired
  tree,     \* staging directory: "none" before, "staged", "gone" after
  age,      \* age of the directory, saturating at Window
  part,     \* bytes of parts/<index> that are on disk
  done,     \* files published into files/
  writing,  \* uploadState.writing: files with a chunk being written
  scanned,  \* uploadState.scanned
  mutex,    \* holder of uploadState.mutex
  req,      \* the requests
  listed,   \* uploads the cleanup has found and not worked through
  item,     \* the upload the cleanup is about to remove
  faults

diskVars == <<tree, age, part, done>>
memoryVars == <<writing, scanned, mutex>>
cleanupVars == <<listed, item>>
vars == <<session, diskVars, memoryVars, req, cleanupVars, faults>>

ChunkPC == {"lock chunk", "touch", "open part", "copy", "settle"}
ScanPC == {"inspect", "admit", "consume", "take", "insert", "scanning", "remove scanned", "forget"}
RequestPC == {"idle", "open session", "drop session", "drop tree"} \cup ChunkPC \cup ScanPC

Idle == [pc |-> "idle", upload |-> NoUpload, index |-> NoIndex, offset |-> 0]
RequestType == [pc : RequestPC, upload : UploadIds \cup {NoUpload},
                index : Index \cup {NoIndex}, offset : Nat]

TypeOK ==
  /\ session \in [UploadIds -> 0..Window - 1 \cup {Expired}]
  /\ tree \in [UploadIds -> {"none", "staged", "gone"}]
  /\ age \in [UploadIds -> 0..Window]
  /\ part \in [UploadIds -> [Index -> Seq(Nat)]]
  /\ done \in [UploadIds -> SUBSET Index]
  /\ writing \in SUBSET (UploadIds \X Index)
  /\ scanned \in SUBSET UploadIds
  /\ mutex \in Requests \cup {Free, Cleanup}
  /\ req \in [Requests -> RequestType]
  /\ listed \in SUBSET UploadIds
  /\ item \in UploadIds \cup {NoUpload}
  /\ faults \in 0..MaxFaults

Init ==
  /\ session = [u \in UploadIds |-> Expired]
  /\ tree = [u \in UploadIds |-> "none"]
  /\ age = [u \in UploadIds |-> 0]
  /\ part = [u \in UploadIds |-> [i \in Index |-> <<>>]]
  /\ done = [u \in UploadIds |-> {}]
  /\ writing = {} /\ scanned = {} /\ mutex = Free
  /\ req = [r \in Requests |-> Idle]
  /\ listed = {} /\ item = NoUpload
  /\ faults = 0

-----------------------------------------------------------------------------
Session(u) == session[u] # Expired
Staged(u) == tree[u] = "staged"

\* receivedBytes: a published file is complete, a part has the bytes on disk.
Received(u, i) == IF i \in done[u] THEN Size[i] ELSE Len(part[u][i])

\* uploadSource and uploadView go by the received bytes.
Complete(u) == Staged(u) /\ \A i \in Index : Received(u, i) = Size[i]

ActiveUploads == {u \in UploadIds : Staged(u) /\ Session(u)}
Admitted == {r \in Requests : req[r].pc \in {"consume", "take", "insert", "scanning"}}

Busy(u) == \E r \in Requests : req[r].upload = u /\ req[r].pc \notin {"scanning", "remove scanned", "forget"}
Exclusive(u) == \E r \in Requests : req[r].upload = u /\ req[r].pc \notin ChunkPC \cup {"idle", "scanning", "remove scanned", "forget"}

Goto(r, pc) == req' = [req EXCEPT ![r].pc = pc]
Answer(r) == req' = [req EXCEPT ![r] = Idle]
Fault == faults < MaxFaults /\ faults' = faults + 1
RedisFault == RedisFails /\ Fault

Save(u) == session' = [session EXCEPT ![u] = 0]
Drop(u) == session' = [session EXCEPT ![u] = Expired]

\* Uploads.Remove, whose failure is logged or answered and nothing more.
RemoveTree(u) ==
  \/ tree' = [tree EXCEPT ![u] = "gone"] /\ UNCHANGED faults
  \/ Fault /\ UNCHANGED tree

-----------------------------------------------------------------------------
(* CreateUpload, under the mutex.                                          *)

CreateTree(r, u) ==
  /\ req[r].pc = "idle" /\ tree[u] = "none" /\ mutex = Free
  /\ Cardinality(ActiveUploads) < MaximumSessions
  /\ mutex' = r
  /\ tree' = [tree EXCEPT ![u] = "staged"]
  /\ done' = [done EXCEPT ![u] = {i \in Index : Size[i] = 0}]
  /\ req' = [req EXCEPT ![r] = [Idle EXCEPT !.pc = "open session", !.upload = u]]
  /\ UNCHANGED <<session, age, part, writing, scanned, cleanupVars, faults>>

\* A failed Set may have taken effect, and the removal after it may fail too.
OpenSession(r) ==
  LET u == req[r].upload IN
  /\ req[r].pc = "open session"
  /\ mutex' = Free /\ Answer(r)
  /\ \/ Save(u) /\ UNCHANGED <<tree, faults>>
     \/ /\ RedisFault
        /\ Save(u) \/ UNCHANGED session
        /\ tree' = [tree EXCEPT ![u] = "gone"] \/ UNCHANGED tree
  /\ UNCHANGED <<age, part, done, writing, scanned, cleanupVars>>

-----------------------------------------------------------------------------
(* WriteUpload: read the session, exclude other chunks of the file, renew  *)
(* the session, append, publish.                                           *)

BeginChunk(r, u, i, offset) ==
  /\ req[r].pc = "idle" /\ Session(u)
  /\ Overlap \/ ~Exclusive(u)
  /\ req' = [req EXCEPT ![r] = [pc |-> "lock chunk", upload |-> u, index |-> i, offset |-> offset]]
  /\ UNCHANGED <<session, diskVars, memoryVars, cleanupVars, faults>>

Chunk(r) == <<req[r].upload, req[r].index>>

LockChunk(r) ==
  /\ req[r].pc = "lock chunk"
  /\ IF Chunk(r) \in writing
     THEN Answer(r) /\ UNCHANGED writing
     ELSE Goto(r, "touch") /\ writing' = writing \cup {Chunk(r)}
  /\ UNCHANGED <<session, diskVars, scanned, mutex, cleanupVars, faults>>

EndChunk(r) == Answer(r) /\ writing' = writing \ {Chunk(r)}

Touch(r) ==
  /\ req[r].pc = "touch"
  /\ \/ Save(req[r].upload) /\ Goto(r, "open part") /\ UNCHANGED <<writing, faults>>
     \/ RedisFault /\ EndChunk(r) /\ UNCHANGED session
  /\ UNCHANGED <<diskVars, scanned, mutex, cleanupVars>>

OpenPart(r) ==
  LET u == req[r].upload  i == req[r].index IN
  /\ req[r].pc = "open part"
  /\ IF Staged(u) /\ req[r].offset = Received(u, i) /\ Received(u, i) # Size[i]
     THEN Goto(r, "copy") /\ UNCHANGED writing
     ELSE EndChunk(r)
  /\ UNCHANGED <<session, diskVars, scanned, mutex, cleanupVars, faults>>

\* io.Copy reads at most one byte more than is missing.
Copy(r) ==
  LET u == req[r].upload  i == req[r].index IN
  /\ req[r].pc = "copy"
  /\ \E count \in 0..Size[i] - req[r].offset + 1 :
       part' = IF Staged(u)
               THEN [part EXCEPT ![u][i] = @ \o [k \in 1..count |-> req[r].offset + k]]
               ELSE part
  /\ Goto(r, "settle")
  /\ UNCHANGED <<session, tree, age, done, memoryVars, cleanupVars, faults>>

Truncated(bytes, length) == SubSeq(bytes, 1, IF length < Len(bytes) THEN length ELSE Len(bytes))

\* A complete part is renamed into files/; a failed Sync or rename leaves it as
\* it is; an interrupted or oversized body is cut off at the client's offset.
Settle(r) ==
  LET u == req[r].upload  i == req[r].index IN
  /\ req[r].pc = "settle"
  /\ \/ /\ Staged(u) /\ Len(part[u][i]) = Size[i]
        /\ done' = [done EXCEPT ![u] = @ \cup {i}]
        /\ part' = [part EXCEPT ![u][i] = <<>>]
        /\ UNCHANGED faults
     \/ /\ ~Staged(u) \/ Len(part[u][i]) < Size[i]
        /\ UNCHANGED <<part, done, faults>>
     \/ Fault /\ UNCHANGED <<part, done>>
     \/ /\ Fault \/ (Len(part[u][i]) > Size[i] /\ UNCHANGED faults)
        /\ part' = [part EXCEPT ![u][i] = Truncated(@, req[r].offset)]
        /\ UNCHANGED done
  /\ EndChunk(r)
  /\ UNCHANGED <<session, tree, age, scanned, mutex, cleanupVars>>

-----------------------------------------------------------------------------
(* Inspect and Create: resolve the upload, take a scan slot, consume the   *)
(* session, scan the tree, remove it.                                      *)

BeginScan(r, u) ==
  /\ req[r].pc = "idle" /\ Session(u)
  /\ Overlap \/ ~Busy(u)
  /\ req' = [req EXCEPT ![r] = [Idle EXCEPT !.pc = "inspect", !.upload = u]]
  /\ UNCHANGED <<session, diskVars, memoryVars, cleanupVars, faults>>

\* uploadSource: every file is complete; a new format is remembered in the session.
ResolveSource(r) ==
  LET u == req[r].upload IN
  /\ req[r].pc = "inspect"
  /\ \/ ~Complete(u) /\ Answer(r) /\ UNCHANGED session
     \/ Complete(u) /\ (Save(u) \/ UNCHANGED session) /\ (Goto(r, "admit") \/ Answer(r))
  /\ UNCHANGED <<diskVars, memoryVars, cleanupVars, faults>>

Admit(r) ==
  /\ req[r].pc = "admit"
  /\ IF Cardinality(Admitted) < MaximumScans THEN Goto(r, "consume") ELSE Answer(r)
  /\ UNCHANGED <<session, diskVars, memoryVars, cleanupVars, faults>>

Consume(r) ==
  /\ req[r].pc = "consume"
  /\ IF Session(req[r].upload) /\ Complete(req[r].upload) THEN Goto(r, "take") ELSE Answer(r)
  /\ UNCHANGED <<session, diskVars, memoryVars, cleanupVars, faults>>

\* consumeUpload under the mutex: marked as scanned, then the session is deleted.
Take(r) ==
  /\ req[r].pc = "take" /\ mutex = Free
  /\ scanned' = scanned \cup {req[r].upload}
  /\ \/ Drop(req[r].upload) /\ Goto(r, "insert") /\ UNCHANGED faults
     \/ RedisFault /\ Answer(r) /\ (Drop(req[r].upload) \/ UNCHANGED session)
  /\ UNCHANGED <<diskVars, writing, mutex, cleanupVars>>

\* Slip: a scan whose row cannot be inserted leaves the upload to nobody.
InsertOrLeave(r) ==
  /\ req[r].pc = "insert"
  /\ \/ Goto(r, "scanning") /\ UNCHANGED faults
     \/ Fault /\ Answer(r)
  /\ UNCHANGED <<session, diskVars, memoryVars, cleanupVars>>

\* CreateScan; when it fails the slot is released and the upload removed.
InsertScan(r) ==
  /\ req[r].pc = "insert"
  /\ \/ Goto(r, "scanning") /\ UNCHANGED faults
     \/ Fault /\ Goto(r, "remove scanned")
  /\ UNCHANGED <<session, diskVars, memoryVars, cleanupVars>>

\* The scan completes, fails or is cancelled.
EndScan(r) ==
  /\ req[r].pc = "scanning"
  /\ Goto(r, "remove scanned")
  /\ UNCHANGED <<session, diskVars, memoryVars, cleanupVars, faults>>

\* finishUpload
RemoveScanned(r) ==
  /\ req[r].pc = "remove scanned"
  /\ RemoveTree(req[r].upload)
  /\ Goto(r, "forget")
  /\ UNCHANGED <<session, age, part, done, memoryVars, cleanupVars>>

Forget(r) ==
  /\ req[r].pc = "forget" /\ mutex = Free
  /\ scanned' = scanned \ {req[r].upload}
  /\ Answer(r)
  /\ UNCHANGED <<session, diskVars, writing, mutex, cleanupVars, faults>>

-----------------------------------------------------------------------------
(* DeleteUpload.                                                           *)

BeginDelete(r, u) ==
  /\ req[r].pc = "idle" /\ Session(u)
  /\ Overlap \/ ~Busy(u)
  /\ req' = [req EXCEPT ![r] = [Idle EXCEPT !.pc = "drop session", !.upload = u]]
  /\ UNCHANGED <<session, diskVars, memoryVars, cleanupVars, faults>>

DropSession(r) ==
  /\ req[r].pc = "drop session"
  /\ \/ Drop(req[r].upload) /\ Goto(r, "drop tree") /\ UNCHANGED faults
     \/ RedisFault /\ Answer(r) /\ (Drop(req[r].upload) \/ UNCHANGED session)
  /\ UNCHANGED <<diskVars, memoryVars, cleanupVars>>

DropTree(r) ==
  /\ req[r].pc = "drop tree"
  /\ RemoveTree(req[r].upload)
  /\ Answer(r)
  /\ UNCHANGED <<session, age, part, done, memoryVars, cleanupVars>>

-----------------------------------------------------------------------------
(* CleanupUploads holds the mutex from its listing to its last removal.    *)

ListLeftovers ==
  /\ mutex = Free
  /\ mutex' = Cleanup
  /\ listed' = {u \in UploadIds : Staged(u) /\ age[u] = Window}
  /\ UNCHANGED <<session, diskVars, writing, scanned, req, item, faults>>

\* Slip: a running scan does not protect its tree.
CheckSessionOnly(u) ==
  /\ mutex = Cleanup /\ item = NoUpload /\ u \in listed
  /\ listed' = listed \ {u}
  /\ item' = IF Session(u) THEN NoUpload ELSE u
  /\ UNCHANGED <<session, diskVars, memoryVars, req, faults>>

CheckLeftover(u) ==
  /\ mutex = Cleanup /\ item = NoUpload /\ u \in listed
  /\ listed' = listed \ {u}
  /\ item' = IF u \in scanned \/ Session(u) THEN NoUpload ELSE u
  /\ UNCHANGED <<session, diskVars, memoryVars, req, faults>>

RemoveLeftover ==
  /\ item # NoUpload
  /\ RemoveTree(item)
  /\ item' = NoUpload
  /\ UNCHANGED <<session, age, part, done, memoryVars, req, listed>>

EndCleanup ==
  /\ mutex = Cleanup /\ listed = {} /\ item = NoUpload
  /\ mutex' = Free
  /\ UNCHANGED <<session, diskVars, writing, scanned, req, cleanupVars, faults>>

-----------------------------------------------------------------------------
\* The process stops and starts again: what was in memory is lost.
Crash ==
  /\ Fault
  /\ req' = [r \in Requests |-> Idle]
  /\ writing' = {} /\ scanned' = {} /\ mutex' = Free
  /\ listed' = {} /\ item' = NoUpload
  /\ UNCHANGED <<session, diskVars>>

Older(a) == IF a + 1 < Window THEN a + 1 ELSE Expired

\* Time passes while nothing but scans is running: a request takes no time
\* compared with the window.
Tick ==
  /\ \A r \in Requests : req[r].pc \in {"idle", "scanning"}
  /\ mutex = Free
  /\ session' = [u \in UploadIds |-> IF Session(u) THEN Older(session[u]) ELSE Expired]
  /\ age' = [u \in UploadIds |-> IF Staged(u) /\ age[u] < Window THEN age[u] + 1 ELSE age[u]]
  /\ UNCHANGED <<tree, part, done, memoryVars, req, cleanupVars, faults>>

-----------------------------------------------------------------------------
Begin(r) == \E u \in UploadIds :
  \/ CreateTree(r, u) \/ BeginScan(r, u) \/ BeginDelete(r, u)
  \/ \E i \in Index : \E offset \in 0..Size[i] : BeginChunk(r, u, i, offset)

RequestStep(r) ==
  \/ OpenSession(r)
  \/ LockChunk(r) \/ Touch(r) \/ OpenPart(r) \/ Copy(r) \/ Settle(r)
  \/ ResolveSource(r) \/ Admit(r) \/ Consume(r) \/ Take(r) \/ InsertScan(r)
  \/ EndScan(r) \/ RemoveScanned(r) \/ Forget(r)
  \/ DropSession(r) \/ DropTree(r)

CleanupStep ==
  ListLeftovers \/ (\E u \in UploadIds : CheckLeftover(u)) \/ RemoveLeftover \/ EndCleanup

Next ==
  \/ \E r \in Requests : Begin(r) \/ RequestStep(r)
  \/ CleanupStep
  \/ Crash
  \/ Tick

Spec == Init /\ [][Next]_vars

\* The ticker starts cleanups, some handler or scan goes on whenever one can
\* again and again (Go's mutex hands itself to the longest waiter), and time
\* passes.
Fairness == WF_vars(CleanupStep) /\ SF_vars(\E r \in Requests : RequestStep(r)) /\ SF_vars(Tick)

FairSpec == Spec /\ Fairness

-----------------------------------------------------------------------------
\* However chunks are repeated, overlap, fail half way or die with the process,
\* a part holds the bytes of its file from the first on, without gap or
\* repetition: a resumed upload need not know what failed attempts left behind.
PartsArePrefixes ==
  \A u \in UploadIds, i \in Index : \A k \in 1..Len(part[u][i]) : part[u][i][k] = k

\* From the moment a scan has consumed an upload until it ends, all the bytes
\* stay on disk, in files/ or as a complete part that was not renamed: no
\* cleanup, removal or other scan takes them away.
Reading(r) == req[r].pc \in {"insert", "scanning"}
ScansKeepTheirBytes == \A r \in Requests : Reading(r) => Complete(req[r].upload)

\* "files/ is the completed source tree a scan reads" (storage/uploads.go): every
\* declared file is in it.  False of the code: a complete part whose rename
\* failed, or was cut off by a crash, counts as received and is never renamed.
ScanReadsEveryFile == \A r \in Requests : Reading(r) => done[req[r].upload] = Index

\* A consumed upload belongs to its scan: "it can no longer be written,
\* inspected or scanned again" (consumeUpload).  Two scans of one tree read it
\* while the first that ends removes it.
ScannedOnce ==
  \A r, q \in Requests : Reading(r) /\ Reading(q) /\ r # q => req[r].upload # req[q].upload
ScanOwnsUpload == ScannedOnce /\ \A r \in Requests : Reading(r) => ~Session(req[r].upload)

\* Parts grow in order and stay for the scan that alone has consumed them; and as
\* long as nothing has failed that scan reads every declared file, whichever
\* chunks were under way before.
StagingIsSound ==
  /\ TypeOK /\ PartsArePrefixes /\ ScansKeepTheirBytes /\ ScanOwnsUpload
  /\ faults = 0 => ScanReadsEveryFile

\* A tree that no session can reach any more disappears, whatever became of
\* the request that left it: "staging that has no session and belongs to no
\* running scan ... is cleaned up" (docs/import-and-review.md).
Unreachable(u) == Staged(u) /\ ~Session(u)
=============================================================================
