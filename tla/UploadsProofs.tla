------------------------------ MODULE UploadsProofs ------------------------------
(***************************************************************************)
(* Staging, for every number of uploads, requests and faults.                *)
(*                                                                         *)
(*   PartInv     the types; a file being written belongs to one handler,     *)
(*               whose offset is the end of the part when it copies          *)
(*   ScanInv     who may be about an upload together, and what is known of   *)
(*               its session, its mark and the cleanup then (without Overlap) *)
(*   FileInv     a complete part that is not in files/ yet is about to be      *)
(*               renamed, as long as nothing has failed                       *)
(*                                                                         *)
(* After them three lists that are read in pages, for lists of any length:    *)
(* what Ordering leaves of a sequence, then                                   *)
(*                                                                         *)
(*   LbInv       the cards of the favorites, of FavoriteLibrary               *)
(*   EdInv       the rows of the game editor, of GameEditor                   *)
(*   EnInv       the window over a list of games, of EntryList                *)
(***************************************************************************)
EXTENDS Uploads, Pages, Shell, Ordering, SequenceTheorems, FiniteSetTheorems, FunctionTheorems,
        TLAPS

(* The handlers of a chunk that hold its file in uploadState.writing.          *)
WritingPC == {"touch", "open part", "copy", "settle"}
WritesAlone ==
  /\ \A r \in Requests : req[r].pc \in WritingPC => Chunk(r) \in writing
  /\ \A r, q \in Requests :
       req[r].pc \in WritingPC /\ req[q].pc \in WritingPC /\ Chunk(r) = Chunk(q) => r = q
CopiesAtEnd ==
  \A r \in Requests : req[r].pc = "copy" => req[r].offset = Len(part[req[r].upload][req[r].index])
OnUpload ==
  \A r \in Requests :
    /\ req[r].pc # "idle" => req[r].upload \in UploadIds
    /\ req[r].pc \in ChunkPC => req[r].index \in Index
    /\ req[r].pc = "idle" => req[r] = Idle

PartInv == TypeOK /\ OnUpload /\ WritesAlone /\ CopiesAtEnd /\ PartsArePrefixes

-----------------------------------------------------------------------------
(* How the steps of a handler change the table of requests.                   *)
LEMMA RequestsTyped == Idle \in RequestType
BY DEF Idle, RequestType, RequestPC

LEMMA Went ==
  ASSUME TypeOK, NEW r \in Requests, NEW pc \in RequestPC, Goto(r, pc)
  PROVE  /\ req' \in [Requests -> RequestType]
         /\ req'[r] = [req[r] EXCEPT !.pc = pc]
         /\ req'[r].pc = pc /\ req'[r].upload = req[r].upload
         /\ req'[r].index = req[r].index /\ req'[r].offset = req[r].offset
         /\ \A q \in Requests \ {r} : req'[q] = req[q]
<1>1. req \in [Requests -> RequestType] /\ req' = [req EXCEPT ![r].pc = pc]
  BY DEF TypeOK, Goto
<1>2. /\ [req[r] EXCEPT !.pc = pc] \in RequestType
      /\ [req[r] EXCEPT !.pc = pc].pc = pc
      /\ [req[r] EXCEPT !.pc = pc].upload = req[r].upload
      /\ [req[r] EXCEPT !.pc = pc].index = req[r].index
      /\ [req[r] EXCEPT !.pc = pc].offset = req[r].offset
  BY <1>1 DEF RequestType
<1>3. req' = [req EXCEPT ![r] = [req[r] EXCEPT !.pc = pc]]
  BY <1>1
<1> QED BY <1>1, <1>2, <1>3

LEMMA Answered ==
  ASSUME TypeOK, NEW r \in Requests, Answer(r)
  PROVE  /\ req' \in [Requests -> RequestType]
         /\ req'[r] = Idle
         /\ req'[r].pc = "idle" /\ req'[r].upload = NoUpload
         /\ \A q \in Requests \ {r} : req'[q] = req[q]
BY RequestsTyped DEF TypeOK, Answer, Idle

LEMMA Began ==
  ASSUME TypeOK, NEW r \in Requests, NEW x \in RequestType, req' = [req EXCEPT ![r] = x]
  PROVE  /\ req' \in [Requests -> RequestType] /\ req'[r] = x
         /\ \A q \in Requests \ {r} : req'[q] = req[q]
BY DEF TypeOK

(* Steps about no file that is being written.                                 *)
QuietRequests ==
  \A q \in Requests : \/ req'[q] = req[q]
                      \/ req[q].pc \notin WritingPC /\ req'[q].pc \notin WritingPC
Parts == WritesAlone /\ CopiesAtEnd /\ PartsArePrefixes

LEMMA QuietParts ==
  ASSUME Parts, QuietRequests, part' = part, writing' = writing PROVE Parts'
<1>1. \A q \in Requests : req'[q].pc \in WritingPC => req'[q] = req[q]
  BY DEF QuietRequests
<1>2. WritesAlone'
  BY <1>1 DEF Parts, WritesAlone, Chunk
<1>3. CopiesAtEnd'
  BY <1>1 DEF Parts, CopiesAtEnd, WritingPC
<1>4. PartsArePrefixes'
  BY DEF Parts, PartsArePrefixes
<1> QED BY <1>2, <1>3, <1>4 DEF Parts

-----------------------------------------------------------------------------
(* Types.                                                                    *)
Known == TypeOK /\ OnUpload

LEMMA SavedTyped ==
  ASSUME TypeOK, NEW u \in UploadIds, Save(u)
  PROVE session' \in [UploadIds -> 0..Window - 1 \cup {Expired}]
BY UploadAssumption DEF TypeOK, Save

LEMMA DroppedTyped ==
  ASSUME TypeOK, NEW u \in UploadIds, Drop(u)
  PROVE session' \in [UploadIds -> 0..Window - 1 \cup {Expired}]
BY DEF TypeOK, Drop

LEMMA FaultTyped ==
  ASSUME TypeOK, Fault PROVE faults' \in 0..MaxFaults
BY UploadAssumption DEF TypeOK, Fault

LEMMA RemovedTyped ==
  ASSUME TypeOK, NEW u \in UploadIds, RemoveTree(u)
  PROVE  tree' \in [UploadIds -> {"none", "staged", "gone"}] /\ faults' \in 0..MaxFaults
BY FaultTyped DEF TypeOK, RemoveTree

LEMMA KnownWent ==
  ASSUME Known, NEW r \in Requests, NEW pc \in RequestPC \ {"idle"}, Goto(r, pc),
             req[r].pc # "idle",
         pc \in ChunkPC => req[r].pc \in ChunkPC
  PROVE  OnUpload' /\ req' \in [Requests -> RequestType]
<1>1. /\ req' \in [Requests -> RequestType]
      /\ req'[r].pc = pc /\ req'[r].upload = req[r].upload /\ req'[r].index = req[r].index
      /\ \A q \in Requests \ {r} : req'[q] = req[q]
  BY Went DEF Known
<1>2. OnUpload
  BY DEF Known
<1> QED BY <1>1, <1>2 DEF OnUpload

LEMMA KnownAnswered ==
  ASSUME Known, NEW r \in Requests, Answer(r)
  PROVE  OnUpload' /\ req' \in [Requests -> RequestType]
<1>1. /\ req' \in [Requests -> RequestType]
      /\ req'[r] = Idle /\ req'[r].pc = "idle"
      /\ \A q \in Requests \ {r} : req'[q] = req[q]
  BY Answered DEF Known
<1>2. req'[r].pc \notin ChunkPC
  BY <1>1 DEF ChunkPC
<1>3. OnUpload
  BY DEF Known
<1> QED BY <1>1, <1>2, <1>3 DEF OnUpload

LEMMA KnownBegan ==
  ASSUME Known, NEW r \in Requests, NEW x \in RequestType, req' = [req EXCEPT ![r] = x],
         x.pc # "idle", x.upload \in UploadIds, x.pc \in ChunkPC => x.index \in Index
  PROVE  OnUpload' /\ req' \in [Requests -> RequestType]
BY Began DEF Known, OnUpload

LEMMA PlainBegins ==
  ASSUME Known, NEW r \in Requests, NEW u \in UploadIds,
             NEW pc \in {"open session", "inspect", "drop session"},
         req' = [req EXCEPT ![r] = [Idle EXCEPT !.pc = pc, !.upload = u]]
  PROVE  /\ OnUpload' /\ req' \in [Requests -> RequestType]
         /\ req'[r].pc = pc /\ req'[r].upload = u
         /\ \A q \in Requests \ {r} : req'[q] = req[q]
<1> DEFINE x == [Idle EXCEPT !.pc = pc, !.upload = u]
<1>1. x \in RequestType /\ x.pc = pc /\ x.upload = u
  BY DEF Idle, RequestType, RequestPC, ScanPC
<1>2. x.pc # "idle" /\ x.pc \notin ChunkPC
  BY <1>1 DEF ChunkPC
<1>3. req' = [req EXCEPT ![r] = x]
  OBVIOUS
<1> HIDE DEF x
<1> QED BY <1>1, <1>2, <1>3, KnownBegan, Began DEF Known

LEMMA ChunkBegins ==
  ASSUME Known, NEW r \in Requests, NEW u \in UploadIds, NEW i \in Index, NEW offset \in Nat,
         req' = [req EXCEPT ![r] = [pc |-> "lock chunk", upload |-> u, index |-> i,
             offset |-> offset]]
  PROVE  /\ OnUpload' /\ req' \in [Requests -> RequestType]
         /\ req'[r].pc = "lock chunk" /\ req'[r].upload = u
         /\ \A q \in Requests \ {r} : req'[q] = req[q]
<1> DEFINE x == [pc |-> "lock chunk", upload |-> u, index |-> i, offset |-> offset]
<1>1. x \in RequestType
  BY DEF RequestType, RequestPC, ChunkPC
<1>2. x.pc = "lock chunk" /\ x.upload = u /\ x.index \in Index
  OBVIOUS
<1>3. req' = [req EXCEPT ![r] = x]
  OBVIOUS
<1> HIDE DEF x
<1> QED BY <1>1, <1>2, <1>3, KnownBegan, Began DEF Known

-----------------------------------------------------------------------------
(* Every step keeps the types and what is known of the requests.               *)
LEMMA BeginKnown ==
  ASSUME Known, NEW r \in Requests, Begin(r)
  PROVE  Known'
<1>1. ASSUME NEW u \in UploadIds, CreateTree(r, u) PROVE Known'
  <2>1. OnUpload' /\ req' \in [Requests -> RequestType]
    BY <1>1, PlainBegins DEF CreateTree
  <2> QED BY <1>1, <2>1 DEF CreateTree, Known, TypeOK, cleanupVars
<1>2. ASSUME NEW u \in UploadIds, BeginScan(r, u) PROVE Known'
  <2>1. OnUpload' /\ req' \in [Requests -> RequestType]
    BY <1>2, PlainBegins DEF BeginScan
  <2> QED BY <1>2, <2>1 DEF BeginScan, Known, TypeOK, diskVars, memoryVars, cleanupVars
<1>3. ASSUME NEW u \in UploadIds, BeginDelete(r, u) PROVE Known'
  <2>1. OnUpload' /\ req' \in [Requests -> RequestType]
    BY <1>3, PlainBegins DEF BeginDelete
  <2> QED BY <1>3, <2>1 DEF BeginDelete, Known, TypeOK, diskVars, memoryVars, cleanupVars
<1>4. ASSUME NEW u \in UploadIds, NEW i \in Index, NEW offset \in 0..Size[i],
                 BeginChunk(r, u, i, offset)
      PROVE  Known'
  <2>1. req' = [req EXCEPT ![r] = [pc |-> "lock chunk", upload |-> u, index |-> i,
            offset |-> offset]]
    BY <1>4 DEF BeginChunk
  <2>2. offset \in Nat
    BY UploadAssumption
  <2>3. OnUpload' /\ req' \in [Requests -> RequestType]
    BY <2>1, <2>2, ChunkBegins
  <2> QED BY <1>4, <2>3 DEF BeginChunk, Known, TypeOK, diskVars, memoryVars, cleanupVars
<1> QED BY <1>1, <1>2, <1>3, <1>4 DEF Begin

LEMMA ChunkKnown ==
  ASSUME Known, NEW r \in Requests, LockChunk(r) \/ Touch(r) \/ OpenPart(r)
  PROVE  Known'
<1> USE DEF ChunkPC, RequestPC
<1>1. ASSUME EndChunk(r), r \in Requests
      PROVE OnUpload' /\ req' \in [Requests -> RequestType] /\ writing' = writing \ {Chunk(r)}
  BY <1>1, KnownAnswered DEF EndChunk
<1>2. CASE LockChunk(r)
  <2>1. OnUpload' /\ req' \in [Requests -> RequestType]
    BY <1>2, KnownAnswered, KnownWent DEF LockChunk
  <2>2. Chunk(r) \in UploadIds \X Index
    BY <1>2 DEF LockChunk, Chunk, Known, OnUpload
  <2> QED BY <1>2, <2>1, <2>2, ZenonT(90) DEF LockChunk, Known, TypeOK, diskVars, cleanupVars
<1>3. CASE Touch(r)
  <2>1. OnUpload' /\ req' \in [Requests -> RequestType]
    BY <1>1, <1>3, KnownWent DEF Touch
  <2>2. req[r].upload \in UploadIds
    BY <1>3 DEF Touch, Known, OnUpload
  <2>3. session' \in [UploadIds -> 0..Window - 1 \cup {Expired}] /\ faults' \in 0..MaxFaults
    BY <1>3, <2>2, SavedTyped, FaultTyped DEF Touch, RedisFault, Known, TypeOK
  <2>4. writing' \in SUBSET (UploadIds \X Index)
    BY <1>1, <1>3 DEF Touch, Known, TypeOK
  <2> QED BY <1>3, <2>1, <2>3, <2>4 DEF Touch, Known, TypeOK, diskVars, cleanupVars
<1>4. CASE OpenPart(r)
  <2>1. OnUpload' /\ req' \in [Requests -> RequestType]
    BY <1>1, <1>4, KnownWent DEF OpenPart
  <2>2. writing' \in SUBSET (UploadIds \X Index)
    BY <1>1, <1>4 DEF OpenPart, Known, TypeOK
  <2> QED BY <1>4, <2>1, <2>2 DEF OpenPart, Known, TypeOK, diskVars, cleanupVars
<1> QED BY <1>2, <1>3, <1>4

LEMMA ScanKnown ==
  ASSUME Known, NEW r \in Requests,
         \/ OpenSession(r) \/ ResolveSource(r) \/ Admit(r) \/ Consume(r) \/ Take(r) \/ InsertScan(r)
         \/ EndScan(r) \/ RemoveScanned(r) \/ Forget(r) \/ DropSession(r) \/ DropTree(r)
  PROVE  Known'
<1> DEFINE u == req[r].upload
<1>1. req[r].pc # "idle" /\ u \in UploadIds
  <2>1. req[r].pc # "idle"
    BY DEF OpenSession, ResolveSource, Admit, Consume, Take, InsertScan, EndScan,
           RemoveScanned, Forget, DropSession, DropTree
  <2> QED BY <2>1 DEF Known, OnUpload
<1>2. ASSUME NEW pc \in {"admit", "consume", "take", "insert", "scanning", "remove scanned",
                 "forget", "drop tree"},
             Goto(r, pc)
      PROVE  OnUpload' /\ req' \in [Requests -> RequestType]
  <2>1. pc \in RequestPC \ {"idle"} /\ pc \notin ChunkPC
    BY DEF RequestPC, ScanPC, ChunkPC
  <2> QED BY <2>1, <1>1, <1>2, KnownWent
<1>3. OnUpload' /\ req' \in [Requests -> RequestType]
  BY <1>2, KnownAnswered DEF OpenSession, ResolveSource, Admit, Consume, Take, InsertScan, EndScan,
           RemoveScanned, Forget, DropSession, DropTree
<1>4. session' \in [UploadIds -> 0..Window - 1 \cup {Expired}]
  <2>1. Save(u) \/ Drop(u) \/ UNCHANGED session
    BY DEF OpenSession, ResolveSource, Admit, Consume, Take, InsertScan, EndScan, RemoveScanned,
           Forget, DropSession, DropTree
  <2> QED BY <2>1, <1>1, SavedTyped, DroppedTyped DEF Known, TypeOK
<1>5. tree' \in [UploadIds -> {"none", "staged", "gone"}] /\ faults' \in 0..MaxFaults
  <2>1. CASE RemoveScanned(r) \/ DropTree(r)
    BY <2>1, <1>1, RemovedTyped DEF RemoveScanned, DropTree, Known
  <2>2. CASE OpenSession(r)
    BY <2>2, <1>1, FaultTyped DEF OpenSession, RedisFault, Known, TypeOK
  <2>3. CASE Take(r) \/ InsertScan(r) \/ DropSession(r)
    BY <2>3, FaultTyped DEF Take, InsertScan, DropSession, RedisFault, Known, TypeOK, diskVars
  <2>4. CASE ResolveSource(r) \/ Admit(r) \/ Consume(r) \/ EndScan(r) \/ Forget(r)
    BY <2>4 DEF ResolveSource, Admit, Consume, EndScan, Forget, Known, TypeOK, diskVars
  <2> QED BY <2>1, <2>2, <2>3, <2>4
<1>6. scanned' \in SUBSET UploadIds /\ mutex' \in Requests \cup {Free, Cleanup}
  BY <1>1 DEF OpenSession, ResolveSource, Admit, Consume, Take, InsertScan, EndScan, RemoveScanned,
              Forget, DropSession, DropTree, Known, TypeOK, memoryVars
<1>7. UNCHANGED <<age, part, done, writing, cleanupVars>>
  BY DEF OpenSession, ResolveSource, Admit, Consume, Take, InsertScan, EndScan, RemoveScanned,
         Forget, DropSession, DropTree, memoryVars, diskVars
<1> HIDE DEF u
<1> QED BY <1>3, <1>4, <1>5, <1>6, <1>7 DEF Known, TypeOK, cleanupVars

-----------------------------------------------------------------------------
(* The bytes of a part: what a copy appends and what a failure cuts off.       *)
IsPrefix(bytes) == \A k \in 1..Len(bytes) : bytes[k] = k

LEMMA Appended ==
  ASSUME NEW bytes \in Seq(Nat), NEW count \in Nat, IsPrefix(bytes)
  PROVE  LET more == bytes \o [k \in 1..count |-> Len(bytes) + k]
         IN more \in Seq(Nat) /\ IsPrefix(more)
<1> DEFINE tail == [k \in 1..count |-> Len(bytes) + k]
           more == bytes \o tail
<1>1. Len(bytes) \in Nat
  BY LenProperties
<1>2. tail \in Seq(Nat) /\ Len(tail) = count /\ \A k \in 1..count : tail[k] = Len(bytes) + k
  <2>1. tail \in [1..count -> Nat]
    BY <1>1
  <2>2. tail \in Seq(Nat)
    BY <2>1, IsASeq
  <2>3. Len(tail) = count
    BY <2>1, <2>2, LenProperties
  <2> QED BY <2>2, <2>3
<1> HIDE DEF tail
<1>3. /\ more \in Seq(Nat) /\ Len(more) = Len(bytes) + count
      /\ \A k \in 1..Len(bytes) + count :
           more[k] = IF k <= Len(bytes) THEN bytes[k] ELSE tail[k - Len(bytes)]
  BY <1>2, ConcatProperties
<1> HIDE DEF more
<1>4. ASSUME NEW k \in 1..Len(more) PROVE more[k] = k
  <2>1. CASE k <= Len(bytes)
    BY <1>1, <1>3, <2>1 DEF IsPrefix
  <2>2. CASE k > Len(bytes)
    <3>1. k - Len(bytes) \in 1..count
      BY <1>1, <1>3, <2>2
    <3>2. tail[k - Len(bytes)] = Len(bytes) + (k - Len(bytes))
      BY <3>1, <1>2
    <3> QED BY <1>1, <1>3, <2>2, <3>2
  <2> QED BY <1>1, <1>3, <2>1, <2>2
<1>5. more \in Seq(Nat) /\ IsPrefix(more)
  BY <1>3, <1>4 DEF IsPrefix
<1> QED BY <1>5 DEF more, tail

LEMMA CutOff ==
  ASSUME NEW bytes \in Seq(Nat), NEW length \in Nat, IsPrefix(bytes)
  PROVE  Truncated(bytes, length) \in Seq(Nat) /\ IsPrefix(Truncated(bytes, length))
<1> DEFINE most == IF length < Len(bytes) THEN length ELSE Len(bytes)
           cut == SubSeq(bytes, 1, most)
<1>1. Len(bytes) \in Nat /\ most \in 0..Len(bytes)
  BY LenProperties
<1> HIDE DEF most
<1>2. /\ cut \in Seq(Nat) /\ Len(cut) = most
      /\ \A k \in 1..most : cut[k] = bytes[k]
  <2>1. \A k \in 1..most : bytes[k] \in Nat
    BY <1>1, ElementOfSeq
  <2>2. /\ cut \in Seq(Nat)
        /\ Len(cut) = IF 1 <= most THEN most - 1 + 1 ELSE 0
        /\ \A k \in 1..most - 1 + 1 : cut[k] = bytes[1 + k - 1]
    BY <1>1, <2>1, SubSeqProperties
  <2> QED BY <1>1, <2>2
<1>3. IsPrefix(cut)
  BY <1>1, <1>2 DEF IsPrefix
<1> QED BY <1>2, <1>3 DEF Truncated, most

LEMMA PartWritten ==
  ASSUME Known, PartsArePrefixes, NEW u \in UploadIds, NEW i \in Index,
         NEW bytes \in Seq(Nat), IsPrefix(bytes), part' = [part EXCEPT ![u][i] = bytes]
  PROVE  /\ part' \in [UploadIds -> [Index -> Seq(Nat)]] /\ PartsArePrefixes'
         /\ \A v \in UploadIds, j \in Index : <<v, j>> # <<u, i>> => part'[v][j] = part[v][j]
<1>1. part \in [UploadIds -> [Index -> Seq(Nat)]]
  BY DEF Known, TypeOK
<1>2. part' \in [UploadIds -> [Index -> Seq(Nat)]]
  BY <1>1
<1>3. part'[u][i] = bytes
  BY <1>1
<1>4. \A v \in UploadIds, j \in Index : <<v, j>> # <<u, i>> => part'[v][j] = part[v][j]
  BY <1>1
<1>5. PartsArePrefixes'
  BY <1>3, <1>4 DEF PartsArePrefixes, IsPrefix
<1> QED BY <1>2, <1>4, <1>5

LEMMA PartRead ==
  ASSUME Known, PartsArePrefixes, NEW u \in UploadIds, NEW i \in Index
  PROVE  part[u][i] \in Seq(Nat) /\ IsPrefix(part[u][i])
BY DEF Known, TypeOK, PartsArePrefixes, IsPrefix

(* A step of the handler that holds a file touches no other file, and no other  *)
(* handler is about this one.                                                *)
LEMMA HolderStep ==
  ASSUME Known, WritesAlone, CopiesAtEnd, NEW r \in Requests, req[r].pc \in WritingPC,
         \A q \in Requests \ {r} : req'[q] = req[q],
         \/ req'[r].upload = req[r].upload /\ req'[r].index = req[r].index /\ writing' = writing
         \/ req'[r].pc \notin WritingPC /\ writing' = writing \ {Chunk(r)},
         \A v \in UploadIds, j \in Index : <<v, j>> # Chunk(r) => part'[v][j] = part[v][j],
         req'[r].pc = "copy" => req'[r].offset = Len(part'[req'[r].upload][req'[r].index])
  PROVE  WritesAlone' /\ CopiesAtEnd'
<1>1. \A q \in Requests \ {r} : req[q].pc \in WritingPC => Chunk(q) # Chunk(r)
  BY DEF WritesAlone
<1>2. \A q \in Requests \ {r} : Chunk(q)' = Chunk(q)
  BY DEF Chunk
<1>3. req'[r].pc \in WritingPC => Chunk(r)' = Chunk(r) /\ writing' = writing
  BY DEF Chunk
<1>4. ASSUME NEW q \in Requests, req'[q].pc \in WritingPC PROVE Chunk(q)' \in writing'
  <2>1. CASE q = r
    BY <2>1, <1>3, <1>4 DEF WritesAlone
  <2>2. CASE q # r
    BY <2>2, <1>1, <1>2, <1>4 DEF WritesAlone
  <2> QED BY <2>1, <2>2
<1>5. ASSUME NEW p \in Requests, NEW q \in Requests, req'[p].pc \in WritingPC,
                 req'[q].pc \in WritingPC,
             Chunk(p)' = Chunk(q)'
      PROVE  p = q
  <2>1. CASE p # r /\ q # r
    BY <2>1, <1>2, <1>5 DEF WritesAlone
  <2>2. CASE p = r /\ q # r
    BY <2>2, <1>1, <1>2, <1>3, <1>5
  <2>3. CASE p # r /\ q = r
    BY <2>3, <1>1, <1>2, <1>3, <1>5
  <2> QED BY <2>1, <2>2, <2>3
<1>6. ASSUME NEW q \in Requests, req'[q].pc = "copy"
      PROVE  req'[q].offset = Len(part'[req'[q].upload][req'[q].index])
  <2>1. CASE q = r
    BY <2>1, <1>6
  <2>2. CASE q # r
    <3>1. req'[q] = req[q] /\ req[q].pc = "copy"
      BY <2>2, <1>6
    <3>2. Chunk(q) # Chunk(r)
      BY <3>1, <2>2, <1>1 DEF WritingPC
    <3>3. req[q].upload \in UploadIds /\ req[q].index \in Index
      BY <3>1 DEF Known, OnUpload, ChunkPC
    <3>4. part'[req[q].upload][req[q].index] = part[req[q].upload][req[q].index]
      BY <3>2, <3>3 DEF Chunk
    <3> QED BY <3>1, <3>4 DEF CopiesAtEnd
  <2> QED BY <2>1, <2>2
<1> QED BY <1>4, <1>5, <1>6 DEF WritesAlone, CopiesAtEnd

-----------------------------------------------------------------------------
(* PartInv, step by step.                                                    *)
LEMMA BeginParts ==
  ASSUME PartInv, NEW r \in Requests, Begin(r) PROVE PartInv'
<1>1. Known' /\ Known
  BY BeginKnown DEF PartInv, Known
<1>2. part' = part /\ writing' = writing /\ req[r].pc = "idle"
  BY DEF Begin, CreateTree, BeginScan, BeginDelete, BeginChunk, diskVars, memoryVars
<1>3. /\ req'[r].pc \in {"open session", "inspect", "drop session", "lock chunk"}
      /\ \A q \in Requests \ {r} : req'[q] = req[q]
  <2> DEFINE Entered == /\ req'[r].pc \in {"open session", "inspect", "drop session", "lock chunk"}
                        /\ \A q \in Requests \ {r} : req'[q] = req[q]
  <2>1. ASSUME NEW u \in UploadIds, CreateTree(r, u) PROVE Entered
    BY <1>1, <2>1, PlainBegins DEF CreateTree
  <2>2. ASSUME NEW u \in UploadIds, BeginScan(r, u) PROVE Entered
    BY <1>1, <2>2, PlainBegins DEF BeginScan
  <2>3. ASSUME NEW u \in UploadIds, BeginDelete(r, u) PROVE Entered
    BY <1>1, <2>3, PlainBegins DEF BeginDelete
  <2>4. ASSUME NEW u \in UploadIds, NEW i \in Index, NEW offset \in 0..Size[i],
                   BeginChunk(r, u, i, offset)
        PROVE  Entered
    <3>1. req' = [req EXCEPT ![r] = [pc |-> "lock chunk", upload |-> u, index |-> i,
              offset |-> offset]]
      BY <2>4 DEF BeginChunk
    <3>2. offset \in Nat
      BY UploadAssumption
    <3> QED BY <1>1, <3>1, <3>2, ChunkBegins
  <2> HIDE DEF Entered
  <2>5. Entered
    BY <2>1, <2>2, <2>3, <2>4 DEF Begin
  <2> QED BY <2>5 DEF Entered
<1>4. QuietRequests
  BY <1>2, <1>3 DEF QuietRequests, WritingPC
<1> QED BY <1>1, <1>2, <1>4, QuietParts DEF PartInv, Parts, Known

LEMMA ScanParts ==
  ASSUME PartInv, NEW r \in Requests,
         \/ OpenSession(r) \/ ResolveSource(r) \/ Admit(r) \/ Consume(r) \/ Take(r) \/ InsertScan(r)
         \/ EndScan(r) \/ RemoveScanned(r) \/ Forget(r) \/ DropSession(r) \/ DropTree(r)
  PROVE  PartInv'
<1>1. Known' /\ Known
  BY ScanKnown DEF PartInv, Known
<1>2. part' = part /\ writing' = writing
  BY DEF OpenSession, ResolveSource, Admit, Consume, Take, InsertScan, EndScan, RemoveScanned,
         Forget, DropSession, DropTree, memoryVars, diskVars
<1>3. req[r].pc \notin WritingPC
  BY DEF OpenSession, ResolveSource, Admit, Consume, Take, InsertScan, EndScan, RemoveScanned,
         Forget, DropSession, DropTree, WritingPC
<1>4. \/ Answer(r)
      \/ \E pc \in {"admit", "consume", "take", "insert", "scanning", "remove scanned", "forget",
             "drop tree"} :
           Goto(r, pc)
  BY DEF OpenSession, ResolveSource, Admit, Consume, Take, InsertScan, EndScan, RemoveScanned,
         Forget, DropSession, DropTree
<1>5. QuietRequests
  <2>1. CASE Answer(r)
    BY <1>1, <1>3, <2>1, Answered DEF QuietRequests, WritingPC, Known
  <2>2. ASSUME NEW pc \in {"admit", "consume", "take", "insert", "scanning", "remove scanned",
                   "forget", "drop tree"},
               Goto(r, pc)
        PROVE  QuietRequests
    <3>1. pc \in RequestPC /\ pc \notin WritingPC
      BY DEF RequestPC, ScanPC, WritingPC
    <3>2. req'[r].pc = pc /\ \A q \in Requests \ {r} : req'[q] = req[q]
      BY <1>1, <2>2, <3>1, Went DEF Known
    <3> QED BY <1>3, <3>1, <3>2 DEF QuietRequests
  <2> QED BY <1>4, <2>1, <2>2
<1> QED BY <1>1, <1>2, <1>5, QuietParts DEF PartInv, Parts, Known

LEMMA HandlerParts ==
  ASSUME PartInv, NEW r \in Requests, LockChunk(r) \/ Touch(r) \/ OpenPart(r) PROVE PartInv'
<1> USE DEF RequestPC, ChunkPC
<1>1. Known' /\ Known
  BY ChunkKnown DEF PartInv, Known
<1>2. part' = part
  BY DEF LockChunk, Touch, OpenPart, diskVars
<1>3. TypeOK /\ WritesAlone /\ CopiesAtEnd /\ PartsArePrefixes
  BY DEF PartInv
<1>4. PartsArePrefixes'
  BY <1>2, <1>3 DEF PartsArePrefixes
<1>5. CASE LockChunk(r) /\ Chunk(r) \in writing
  <2>1. QuietRequests
    BY <1>3, <1>5, Answered DEF LockChunk, QuietRequests, WritingPC
  <2> QED BY <1>1, <1>2, <1>5, <2>1, QuietParts DEF LockChunk, PartInv, Parts, Known
<1>6. CASE LockChunk(r) /\ Chunk(r) \notin writing
  <2>1. /\ req'[r].pc = "touch" /\ Chunk(r)' = Chunk(r) /\ writing' = writing \cup {Chunk(r)}
        /\ \A q \in Requests \ {r} : req'[q] = req[q]
    BY <1>3, <1>6, Went DEF LockChunk, Chunk
  <2>2. \A q \in Requests \ {r} : req[q].pc \in WritingPC =>
            Chunk(q) # Chunk(r) /\ Chunk(q)' = Chunk(q)
    BY <1>3, <1>6, <2>1 DEF WritesAlone, Chunk
  <2>3. WritesAlone'
    BY <1>3, <2>1, <2>2 DEF WritesAlone
  <2>4. CopiesAtEnd'
    BY <1>2, <1>3, <2>1 DEF CopiesAtEnd
  <2> QED BY <1>1, <1>4, <2>3, <2>4 DEF PartInv, Known
<1>7. CASE Touch(r) \/ OpenPart(r)
  <2>1. \/ EndChunk(r)
        \/ writing' = writing /\ Goto(r, "open part")
        \/ writing' = writing /\ Goto(r, "copy") /\ Staged(req[r].upload)
           /\ req[r].offset = Received(req[r].upload, req[r].index)
           /\ Received(req[r].upload, req[r].index) # Size[req[r].index]
    BY <1>7 DEF Touch, OpenPart
  <2>2. req[r].pc \in WritingPC
    BY <1>7 DEF Touch, OpenPart, WritingPC
  <2>3. /\ \A q \in Requests \ {r} : req'[q] = req[q]
        /\ \/ req'[r].upload = req[r].upload /\ req'[r].index = req[r].index /\ writing' = writing
           \/ req'[r].pc \notin WritingPC /\ writing' = writing \ {Chunk(r)}
    BY <1>3, <2>1, Went, Answered DEF EndChunk, WritingPC
  <2>4. req'[r].pc = "copy" => req'[r].offset = Len(part'[req'[r].upload][req'[r].index])
    <3>1. CASE EndChunk(r)
      <4>1. req'[r].pc = "idle"
        BY <1>3, <3>1, Answered DEF EndChunk
      <4> QED BY <4>1
    <3>2. CASE Goto(r, "open part")
      <4>1. req'[r].pc = "open part"
        BY <1>3, <3>2, Went
      <4> QED BY <4>1
    <3>3. CASE /\ Goto(r, "copy")
               /\ req[r].offset = Received(req[r].upload, req[r].index)
               /\ Received(req[r].upload, req[r].index) # Size[req[r].index]
      <4>1. req[r].offset = Len(part[req[r].upload][req[r].index])
        BY <3>3 DEF Received
      <4>2. /\ req'[r].upload = req[r].upload /\ req'[r].index = req[r].index
            /\ req'[r].offset = req[r].offset
        BY <1>3, <3>3, Went
      <4> QED BY <1>2, <4>1, <4>2
    <3> QED BY <2>1, <3>1, <3>2, <3>3
  <2>5. WritesAlone' /\ CopiesAtEnd'
    BY <1>1, <1>2, <1>3, <2>2, <2>3, <2>4, HolderStep
  <2> QED BY <1>1, <1>4, <2>5 DEF PartInv, Known
<1> QED BY <1>5, <1>6, <1>7

LEMMA CopyParts ==
  ASSUME PartInv, NEW r \in Requests, Copy(r) PROVE PartInv'
<1> DEFINE u == req[r].upload
           i == req[r].index
<1>1. Known /\ WritesAlone /\ CopiesAtEnd /\ PartsArePrefixes
  BY DEF PartInv, Known
<1>2. u \in UploadIds /\ i \in Index /\ req[r].pc \in WritingPC
  BY <1>1 DEF Copy, Known, OnUpload, ChunkPC, WritingPC
<1>3. /\ OnUpload' /\ req' \in [Requests -> RequestType] /\ req'[r].pc = "settle"
      /\ req'[r].upload = u /\ req'[r].index = i
      /\ \A q \in Requests \ {r} : req'[q] = req[q]
  <2>1. Goto(r, "settle") /\ req[r].pc = "copy"
    BY DEF Copy
  <2>2. "settle" \in RequestPC \ {"idle"} /\ req[r].pc \in ChunkPC
    BY <2>1 DEF RequestPC, ChunkPC
  <2> QED BY <1>1, <2>1, <2>2, Went, KnownWent DEF Known
<1>4. /\ part' \in [UploadIds -> [Index -> Seq(Nat)]] /\ PartsArePrefixes'
      /\ \A v \in UploadIds, j \in Index : <<v, j>> # <<u, i>> => part'[v][j] = part[v][j]
  <2>1. CASE part' = part
    BY <1>1, <2>1 DEF Known, TypeOK, PartsArePrefixes
  <2>2. CASE part' # part
    <3>1. PICK count \in 0..Size[i] - req[r].offset + 1 :
            part' = [part EXCEPT ![u][i] = @ \o [k \in 1..count |-> req[r].offset + k]]
      BY <2>2 DEF Copy
    <3>2. req[r].offset = Len(part[u][i])
      BY <1>1 DEF Copy, CopiesAtEnd
    <3>3. count \in Nat
      <4>1. Size[i] \in Nat /\ Len(part[u][i]) \in Nat
        BY <1>1, <1>2, PartRead, LenProperties, UploadAssumption
      <4> QED BY <3>1, <3>2, <4>1
    <3> DEFINE more == part[u][i] \o [k \in 1..count |-> Len(part[u][i]) + k]
    <3>4. part' = [part EXCEPT ![u][i] = more]
      BY <3>1, <3>2
    <3>5. more \in Seq(Nat) /\ IsPrefix(more)
      BY <1>1, <1>2, <3>3, PartRead, Appended
    <3> HIDE DEF more
    <3> QED BY <1>1, <1>2, <3>4, <3>5, PartWritten, ZenonT(90)
  <2> QED BY <2>1, <2>2
<1>5. WritesAlone' /\ CopiesAtEnd'
  <2>1. writing' = writing
    BY DEF Copy, memoryVars
  <2> QED BY <1>1, <1>2, <1>3, <1>4, <2>1, HolderStep DEF Chunk
<1>6. TypeOK'
  BY <1>1, <1>3, <1>4 DEF Copy, Known, TypeOK, memoryVars, cleanupVars
<1> QED BY <1>3, <1>4, <1>5, <1>6 DEF PartInv

LEMMA SettleParts ==
  ASSUME PartInv, NEW r \in Requests, Settle(r) PROVE PartInv'
<1> DEFINE u == req[r].upload
           i == req[r].index
<1>1. Known /\ WritesAlone /\ CopiesAtEnd /\ PartsArePrefixes
  BY DEF PartInv, Known
<1>2. u \in UploadIds /\ i \in Index /\ req[r].pc \in WritingPC
  BY <1>1 DEF Settle, Known, OnUpload, ChunkPC, WritingPC
<1>3. /\ OnUpload' /\ req' \in [Requests -> RequestType] /\ req'[r].pc = "idle"
      /\ \A q \in Requests \ {r} : req'[q] = req[q]
      /\ writing' = writing \ {Chunk(r)}
  BY <1>1, Answered, KnownAnswered DEF Settle, EndChunk, Known
<1>4. /\ part' \in [UploadIds -> [Index -> Seq(Nat)]] /\ PartsArePrefixes'
      /\ \A v \in UploadIds, j \in Index : <<v, j>> # <<u, i>> => part'[v][j] = part[v][j]
  <2>1. CASE part' = part
    BY <1>1, <2>1 DEF Known, TypeOK, PartsArePrefixes
  <2>2. CASE part' = [part EXCEPT ![u][i] = <<>>]
    <3>1. <<>> \in Seq(Nat) /\ IsPrefix(<<>>)
      BY EmptySeq DEF IsPrefix
    <3> QED BY <1>1, <1>2, <2>2, <3>1, PartWritten
  <2>3. CASE part' = [part EXCEPT ![u][i] = Truncated(@, req[r].offset)]
    <3> DEFINE cut == Truncated(part[u][i], req[r].offset)
    <3>1. req[r].offset \in Nat
      BY <1>1 DEF Known, TypeOK, RequestType
    <3>2. cut \in Seq(Nat) /\ IsPrefix(cut)
      BY <1>1, <1>2, <3>1, PartRead, CutOff
    <3>3. part' = [part EXCEPT ![u][i] = cut]
      BY <2>3
    <3> HIDE DEF cut
    <3> QED BY <1>1, <1>2, <3>2, <3>3, PartWritten
  <2> QED BY <2>1, <2>2, <2>3 DEF Settle
<1>5. WritesAlone' /\ CopiesAtEnd'
  <2>1. req'[r].pc \notin WritingPC
    BY <1>3 DEF WritingPC
  <2> QED BY <1>1, <1>2, <1>3, <1>4, <2>1, HolderStep DEF Chunk
<1>6. done' \in [UploadIds -> SUBSET Index] /\ faults' \in 0..MaxFaults
  <2>1. done' = done \/ done' = [done EXCEPT ![u] = @ \cup {i}]
    BY DEF Settle
  <2>2. done' \in [UploadIds -> SUBSET Index]
    <3>1. done \in [UploadIds -> SUBSET Index]
      BY <1>1 DEF Known, TypeOK
    <3>2. done[u] \cup {i} \in SUBSET Index
      BY <1>2, <3>1
    <3> HIDE DEF u
    <3> QED BY <1>2, <2>1, <3>1, <3>2
  <2>3. Fault \/ faults' = faults
    BY DEF Settle
  <2> QED BY <1>1, <2>2, <2>3, FaultTyped DEF Known, TypeOK
<1>7. writing' \in SUBSET (UploadIds \X Index)
  BY <1>1, <1>3 DEF Known, TypeOK
<1>8. TypeOK'
  BY <1>1, <1>3, <1>4, <1>6, <1>7 DEF Settle, Known, TypeOK, cleanupVars
<1> QED BY <1>3, <1>4, <1>5, <1>8 DEF PartInv

LEMMA CleanupParts ==
  ASSUME PartInv, CleanupStep \/ Tick \/ UNCHANGED vars PROVE PartInv'
<1>1. Known /\ TypeOK /\ Parts
  BY DEF PartInv, Known, Parts
<1>2. req' = req /\ part' = part /\ writing' = writing
  BY DEF CleanupStep, ListLeftovers, CheckLeftover, RemoveLeftover, EndCleanup, Tick, vars,
      diskVars,
         memoryVars
<1>3. QuietRequests
  BY <1>2 DEF QuietRequests
<1>4. Parts'
  BY <1>1, <1>2, <1>3, QuietParts
<1>5. OnUpload'
  BY <1>1, <1>2 DEF Known, OnUpload
<1>6. TypeOK'
  <2>1. CASE ListLeftovers \/ EndCleanup \/ UNCHANGED vars \/ \E u \in UploadIds : CheckLeftover(u)
    BY <1>1, <2>1 DEF ListLeftovers, EndCleanup, CheckLeftover, TypeOK, vars, diskVars,
        memoryVars, cleanupVars
  <2>2. CASE RemoveLeftover
    <3>1. item \in UploadIds
      BY <1>1, <2>2 DEF RemoveLeftover, TypeOK
    <3> QED BY <1>1, <2>2, <3>1, RemovedTyped DEF RemoveLeftover, TypeOK, memoryVars
  <2>3. CASE Tick
    <3>1. session' \in [UploadIds -> 0..Window - 1 \cup {Expired}]
      BY <1>1, <2>3, UploadAssumption DEF Tick, TypeOK, Session, Older, Expired
    <3>2. age' \in [UploadIds -> 0..Window]
      BY <1>1, <2>3, UploadAssumption DEF Tick, TypeOK
    <3> QED BY <1>1, <2>3, <3>1, <3>2 DEF Tick, TypeOK, memoryVars, cleanupVars
  <2> QED BY <2>1, <2>2, <2>3 DEF CleanupStep
<1> QED BY <1>4, <1>5, <1>6 DEF PartInv, Parts

LEMMA CrashParts ==
  ASSUME PartInv, Crash PROVE PartInv'
<1>1. TypeOK /\ PartsArePrefixes
  BY DEF PartInv
<1>2. req' = [r \in Requests |-> Idle] /\ writing' = {} /\ part' = part
  BY DEF Crash, diskVars
<1>3. \A r \in Requests : req'[r] = Idle /\ req'[r].pc = "idle"
  BY <1>2 DEF Idle
<1>4. OnUpload' /\ WritesAlone' /\ CopiesAtEnd' /\ PartsArePrefixes'
  BY <1>1, <1>2, <1>3 DEF OnUpload, WritesAlone, CopiesAtEnd, PartsArePrefixes, WritingPC, ChunkPC
<1>5. req' \in [Requests -> RequestType] /\ faults' \in 0..MaxFaults
  BY <1>1, <1>2, RequestsTyped, FaultTyped DEF Crash
<1>6. TypeOK'
  BY <1>1, <1>5 DEF Crash, TypeOK, diskVars
<1> QED BY <1>4, <1>6 DEF PartInv

LEMMA InitParts == Init => PartInv
<1>1. \A r \in Requests : Init => req[r] = Idle /\ req[r].pc = "idle"
  BY DEF Init, Idle
<1>2. Init => TypeOK
  BY RequestsTyped, UploadAssumption, EmptySeq DEF Init, TypeOK
<1>3. ASSUME Init PROVE PartsArePrefixes
  BY <1>3, EmptySeq DEF Init, PartsArePrefixes
<1> QED BY <1>1, <1>2, <1>3 DEF Init, PartInv, OnUpload, WritesAlone, CopiesAtEnd, WritingPC,
    ChunkPC

LEMMA StepParts ==
  ASSUME PartInv, [Next]_vars PROVE PartInv'
BY BeginParts, ScanParts, HandlerParts, CopyParts, SettleParts, CleanupParts, CrashParts
   DEF Next, RequestStep

-----------------------------------------------------------------------------
(* Who is about an upload (no Overlap).  Requests that share one write chunks;  *)
(* the session is there while a request may still need it, and gone when an     *)
(* upload is created, scanned or removed.                                     *)
LivePC == ChunkPC \cup {"inspect", "admit", "consume", "take", "drop session"}
AlonePC == {"open session", "insert", "scanning", "remove scanned", "forget", "drop tree"}
MarkedPC == {"insert", "scanning", "remove scanned", "forget"}
WholePC == {"take", "insert", "scanning"}
Active(r) == req[r].pc # "idle"

Placed ==
  /\ \A r \in Requests : Active(r) => tree[req[r].upload] # "none"
  /\ \A u \in UploadIds : Session(u) => tree[u] # "none"
Sessions ==
  /\ \A r \in Requests : req[r].pc \in LivePC => Session(req[r].upload)
  /\ \A r \in Requests : req[r].pc \in AlonePC => ~Session(req[r].upload)
Shared ==
  \A r, q \in Requests : r # q /\ Active(r) /\ Active(q) /\ req[r].upload = req[q].upload
    => req[r].pc \in ChunkPC /\ req[q].pc \in ChunkPC
Marks ==
  /\ \A r \in Requests : req[r].pc \in MarkedPC => req[r].upload \in scanned
  /\ \A r \in Requests : req[r].pc = "open session" => mutex = r
  /\ item # NoUpload => mutex = Cleanup /\ ~Session(item) /\ item \notin scanned
Whole == \A r \in Requests : req[r].pc \in WholePC => Complete(req[r].upload)

ScanInv == Known /\ Placed /\ Sessions /\ Shared /\ Marks /\ Whole

LEMMA PhasesSplit ==
  /\ RequestPC = LivePC \cup AlonePC \cup {"idle"}
  /\ LivePC \cap AlonePC = {} /\ "idle" \notin LivePC \cup AlonePC
  /\ ChunkPC \subseteq LivePC /\ MarkedPC \subseteq AlonePC
  /\ WholePC \cap ChunkPC = {} /\ WholePC \subseteq LivePC \cup AlonePC
BY DEF RequestPC, ScanPC, LivePC, AlonePC, ChunkPC, MarkedPC, WholePC

(* A step of the request r touches its own upload u and nothing of the others.  *)
Own(r, u) ==
  /\ \A q \in Requests \ {r} : req'[q] = req[q]
  /\ \A v \in UploadIds \ {u} :
       session'[v] = session[v] /\ tree'[v] = tree[v] /\ done'[v] = done[v] /\ part'[v] = part[v]
       /\ (v \in scanned' <=> v \in scanned)
  /\ item' = item

LEMMA OthersOfUpload ==
  ASSUME ScanInv, NEW r \in Requests, NEW q \in Requests \ {r}, Active(r), Active(q),
         req[q].upload = req[r].upload
  PROVE  req[r].pc \in ChunkPC /\ req[q].pc \in ChunkPC /\ Session(req[r].upload)
BY PhasesSplit DEF ScanInv, Shared, Sessions

(* What such a step owes to the rest.                                         *)
LEMMA OwnStep ==
  ASSUME ScanInv, Known', NEW r \in Requests, NEW u \in UploadIds, u = req[r].upload, Active(r),
             Own(r, u),
         tree'[u] # "none",
         Active(r)' => req'[r].upload = u,
         req'[r].pc \in LivePC => Session(u)',
         req'[r].pc \in AlonePC => ~Session(u)',
         req[r].pc \in ChunkPC =>
             Session(u)' /\ req'[r].pc \in ChunkPC \cup {"idle"} /\ UNCHANGED mutex,
         req'[r].pc \in MarkedPC => u \in scanned',
         req'[r].pc # "open session",
         mutex' = mutex \/ (mutex = r /\ req[r].pc = "open session"),
         mutex = Cleanup => (Session(u)' => Session(u)) /\ (u \in scanned' => u \in scanned),
         req'[r].pc \in WholePC => Complete(u)'
  PROVE  ScanInv'
<1> USE UploadNames
<1>1. ASSUME NEW q \in Requests \ {r}, Active(q)'
      PROVE  /\ req'[q] = req[q] /\ Active(q) /\ req[q].upload \in UploadIds
             /\ req[q].upload = u => /\ req[r].pc \in ChunkPC /\ req[q].pc \in ChunkPC
  <2>1. req'[q] = req[q] /\ Active(q)
    BY <1>1 DEF Own, Active
  <2>2. req[q].upload \in UploadIds
    BY <2>1 DEF ScanInv, Known, OnUpload, Active
  <2> QED BY <2>1, <2>2, OthersOfUpload
<1>2. Placed'
  <2>1. \A v \in UploadIds : tree[v] # "none" => tree'[v] # "none"
    BY DEF Own
  <2>2. ASSUME NEW q \in Requests, Active(q)' PROVE tree'[req'[q].upload] # "none"
    <3>1. CASE q = r
      BY <2>2, <3>1
    <3>2. CASE q # r
      BY <1>1, <2>1, <2>2, <3>2 DEF ScanInv, Placed
    <3> QED BY <3>1, <3>2
  <2>3. ASSUME NEW v \in UploadIds, Session(v)' PROVE tree'[v] # "none"
    <3>1. CASE v = u
      BY <3>1
    <3>2. CASE v # u
      <4>1. session'[v] = session[v]
        BY <3>2 DEF Own
      <4>2. Session(v)
        BY <2>3, <4>1 DEF Session
      <4> QED BY <2>1, <4>2 DEF ScanInv, Placed
    <3> QED BY <3>1, <3>2
  <2> QED BY <2>2, <2>3 DEF Placed
<1>3. Sessions'
  <2>1. ASSUME NEW q \in Requests \ {r}, Active(q)', req[q].upload # u
        PROVE  Session(req[q].upload)' <=> Session(req[q].upload)
    <3>1. req'[q] = req[q] /\ req[q].upload \in UploadIds
      BY <1>1, <2>1
    <3>2. session'[req[q].upload] = session[req[q].upload]
      BY <2>1, <3>1 DEF Own
    <3> QED BY <3>1, <3>2 DEF Session
  <2>2. ASSUME NEW q \in Requests, req'[q].pc \in LivePC PROVE Session(req[q].upload)'
    <3>1. Active(q)'
      BY <2>2, PhasesSplit DEF Active
    <3>2. CASE q = r
      BY <2>2, <3>1, <3>2 DEF Session
    <3>3. CASE q # r /\ req[q].upload = u
      BY <1>1, <3>1, <3>3 DEF Session
    <3>4. CASE q # r /\ req[q].upload # u
      BY <1>1, <2>1, <2>2, <3>1, <3>4 DEF ScanInv, Sessions
    <3> QED BY <3>2, <3>3, <3>4
  <2>3. ASSUME NEW q \in Requests, req'[q].pc \in AlonePC PROVE ~Session(req[q].upload)'
    <3>1. Active(q)'
      BY <2>3, PhasesSplit DEF Active
    <3>2. CASE q = r
      BY <2>3, <3>1, <3>2 DEF Session
    <3>3. CASE q # r /\ req[q].upload = u
      BY <1>1, <2>3, <3>1, <3>3, PhasesSplit
    <3>4. CASE q # r /\ req[q].upload # u
      BY <1>1, <2>1, <2>3, <3>1, <3>4 DEF ScanInv, Sessions
    <3> QED BY <3>2, <3>3, <3>4
  <2> QED BY <2>2, <2>3 DEF Sessions
<1>4. Shared'
  <2>1. ASSUME NEW q \in Requests \ {r}, Active(q)', Active(r)', req'[q].upload = req'[r].upload
        PROVE  req'[q].pc \in ChunkPC /\ req'[r].pc \in ChunkPC
    BY <1>1, <2>1 DEF Active
  <2>2. ASSUME NEW p \in Requests \ {r}, NEW q \in Requests \ {r}, p # q, Active(p)', Active(q)',
               req'[p].upload = req'[q].upload
        PROVE  req'[p].pc \in ChunkPC /\ req'[q].pc \in ChunkPC
    BY <1>1, <2>2 DEF ScanInv, Shared
  <2> QED BY <2>1, <2>2 DEF Shared
<1>5. Marks'
  <2>1. ASSUME NEW q \in Requests, req'[q].pc \in MarkedPC PROVE req'[q].upload \in scanned'
    <3>1. Active(q)'
      BY <2>1, PhasesSplit DEF Active
    <3>2. CASE q = r
      BY <2>1, <3>1, <3>2
    <3>3. CASE q # r
      <4>1. req[q].upload # u
        BY <1>1, <2>1, <3>1, <3>3, PhasesSplit
      <4> QED BY <1>1, <2>1, <3>1, <3>3, <4>1 DEF ScanInv, Marks, Own
    <3> QED BY <3>2, <3>3
  <2>2. ASSUME NEW q \in Requests, req'[q].pc = "open session" PROVE mutex' = q
    BY <1>1, <2>2 DEF ScanInv, Marks, Active
  <2>3. ASSUME item' # NoUpload PROVE mutex' = Cleanup /\ ~Session(item)' /\ item' \notin scanned'
    <3>1. /\ item' = item /\ mutex = Cleanup /\ ~Session(item) /\ item \notin scanned
          /\ item \in UploadIds
      BY <2>3 DEF Own, ScanInv, Marks, Known, TypeOK
    <3>2. mutex' = Cleanup
      BY <3>1
    <3>3. CASE item = u
      BY <3>1, <3>2, <3>3 DEF Session
    <3>4. CASE item # u
      BY <3>1, <3>2, <3>4 DEF Own, Session
    <3> QED BY <3>3, <3>4
  <2> QED BY <2>1, <2>2, <2>3 DEF Marks, Session
<1>6. Whole'
  <2>1. ASSUME NEW q \in Requests, req'[q].pc \in WholePC PROVE Complete(req[q].upload)'
    <3>1. Active(q)'
      BY <2>1, PhasesSplit DEF Active
    <3>2. CASE q = r
      BY <2>1, <3>1, <3>2 DEF Complete, Staged, Received
    <3>3. CASE q # r
      <4>1. req[q].upload # u /\ req'[q] = req[q] /\ req[q].upload \in UploadIds
        BY <1>1, <2>1, <3>1, <3>3, PhasesSplit
      <4>2. Complete(req[q].upload)
        BY <2>1, <4>1 DEF ScanInv, Whole
      <4>3. PICK v \in UploadIds : v = req[q].upload
        BY <4>1
      <4>4. tree'[v] = tree[v] /\ part'[v] = part[v] /\ done'[v] = done[v]
        BY <4>1, <4>3 DEF Own
      <4>5. Complete(v)' <=> Complete(v)
        BY <4>4 DEF Complete, Staged, Received
      <4>6. Complete(v)'
        BY <4>2, <4>3, <4>5
      <4> QED BY <4>1, <4>3, <4>6 DEF Complete, Staged, Received
    <3> QED BY <3>2, <3>3
  <2> QED BY <2>1 DEF Whole
<1> QED BY <1>2, <1>3, <1>4, <1>5, <1>6 DEF ScanInv

-----------------------------------------------------------------------------
(* ScanInv, step by step.                                                    *)
LEMMA ActiveKnown ==
  ASSUME ScanInv, NEW r \in Requests, Active(r)
  PROVE  /\ req[r].upload \in UploadIds /\ tree[req[r].upload] # "none"
         /\ req[r].pc \in LivePC => Session(req[r].upload)
         /\ req[r].pc \in AlonePC => ~Session(req[r].upload)
         /\ req[r].pc \in MarkedPC => req[r].upload \in scanned
         /\ req[r].pc \in WholePC => Complete(req[r].upload)
BY DEF ScanInv, Known, OnUpload, Placed, Sessions, Marks, Whole, Active

LEMMA SavedOnly ==
  ASSUME TypeOK, NEW u \in UploadIds, Save(u)
  PROVE  Session(u)' /\ \A v \in UploadIds \ {u} : session'[v] = session[v]
BY DEF TypeOK, Save, Session, Expired

LEMMA DroppedOnly ==
  ASSUME TypeOK, NEW u \in UploadIds, Drop(u)
  PROVE  ~Session(u)' /\ \A v \in UploadIds \ {u} : session'[v] = session[v]
BY DEF TypeOK, Drop, Session

LEMMA RemovedOnly ==
  ASSUME TypeOK, NEW u \in UploadIds, RemoveTree(u), tree[u] # "none"
  PROVE  tree'[u] # "none" /\ \A v \in UploadIds \ {u} : tree'[v] = tree[v]
BY DEF TypeOK, RemoveTree

LEMMA OpenSessionOwn ==
  ASSUME ScanInv, NEW r \in Requests, OpenSession(r) PROVE ScanInv'
<1> DEFINE u == req[r].upload
<1>1. TypeOK /\ Known' /\ mutex = r
  BY ScanKnown DEF ScanInv, Known, OpenSession, Marks
<1>2. /\ Active(r) /\ u \in UploadIds /\ tree[u] # "none" /\ req[r].pc = "open session"
      /\ req[r].pc \notin ChunkPC
  BY ActiveKnown DEF OpenSession, Active, ChunkPC
<1>3. /\ req'[r].pc = "idle" /\ req'[r].pc \notin LivePC \cup AlonePC \cup MarkedPC \cup WholePC
      /\ ~Active(r)' /\ \A q \in Requests \ {r} : req'[q] = req[q]
  BY <1>1, Answered DEF OpenSession, LivePC, AlonePC, MarkedPC, WholePC, ChunkPC, Active
<1>4. tree'[u] # "none" /\ Own(r, u)
  <2>1. \A v \in UploadIds \ {u} : session'[v] = session[v]
    BY <1>1, <1>2, SavedOnly DEF OpenSession
  <2>2. tree'[u] # "none" /\ \A v \in UploadIds \ {u} : tree'[v] = tree[v]
    BY <1>1, <1>2 DEF OpenSession, TypeOK
  <2> QED BY <1>3, <2>1, <2>2 DEF OpenSession, Own, cleanupVars
<1>5. mutex # Cleanup
  BY <1>1, UploadNames
<1> HIDE DEF u
<1> QED BY <1>1, <1>2, <1>3, <1>4, <1>5, OwnStep DEF u

LEMMA AnswersOwn ==
  ASSUME ScanInv, Known', NEW r \in Requests, NEW u \in UploadIds, u = req[r].upload, Active(r),
             Answer(r),
         req[r].pc \in ChunkPC => Session(u)',
         \A v \in UploadIds \ {u} :
             session'[v] = session[v] /\ tree'[v] = tree[v] /\ done'[v] = done[v] /\ part'[v] =
                 part[v],
         UNCHANGED <<item, mutex>>,
         \A v \in UploadIds : v \in scanned' => v \in scanned,
         \A v \in UploadIds \ {u} : v \in scanned => v \in scanned',
         tree'[u] # "none",
         mutex = Cleanup => (Session(u)' => Session(u))
  PROVE  ScanInv'
<1>1. /\ req'[r].pc = "idle" /\ ~Active(r)'
      /\ \A q \in Requests \ {r} : req'[q] = req[q]
  BY Answered DEF ScanInv, Known, Active
<1>2. /\ req'[r].pc \notin LivePC /\ req'[r].pc \notin AlonePC /\ req'[r].pc \notin MarkedPC
      /\ req'[r].pc \notin WholePC
  BY <1>1, PhasesSplit
<1>3. Own(r, u)
  BY <1>1 DEF Own
<1> QED BY <1>1, <1>2, <1>3, OwnStep

(* From one phase to another.                                                 *)
LEMMA GoesOwn ==
  ASSUME ScanInv, Known', NEW r \in Requests, NEW u \in UploadIds, u = req[r].upload, Active(r),
         NEW pc \in RequestPC \ {"idle", "open session"}, Goto(r, pc),
         pc \in LivePC => Session(u)', pc \in AlonePC => ~Session(u)',
         req[r].pc \in ChunkPC => Session(u)' /\ pc \in ChunkPC,
         \A v \in UploadIds \ {u} :
             session'[v] = session[v] /\ tree'[v] = tree[v] /\ done'[v] = done[v] /\ part'[v] =
                 part[v],
         UNCHANGED <<item, mutex>>,
         \A v \in UploadIds \ {u} : v \in scanned' <=> v \in scanned,
         mutex = Cleanup => (u \in scanned' => u \in scanned),
         tree'[u] # "none",
         mutex = Cleanup => (Session(u)' => Session(u)),
         pc \in MarkedPC => u \in scanned',
         pc \in WholePC => Complete(u)'
  PROVE  ScanInv'
<1>1. /\ req'[r].pc = pc /\ req'[r].upload = u
      /\ \A q \in Requests \ {r} : req'[q] = req[q]
  BY Went DEF ScanInv, Known
<1>2. Own(r, u)
  BY <1>1 DEF Own
<1> QED BY <1>1, <1>2, OwnStep

(* The same when only the table of requests changes.                          *)
LEMMA QuietAnswers ==
  ASSUME ScanInv, Known', NEW r \in Requests, Active(r), Answer(r),
         UNCHANGED <<session, tree, part, done, item, mutex, scanned>>
  PROVE  ScanInv'
<1>1. PICK u \in UploadIds : u = req[r].upload
  BY ActiveKnown
<1>2. tree[u] # "none" /\ (req[r].pc \in ChunkPC => Session(u)) /\ (Session(u)' <=> Session(u))
  BY <1>1, ActiveKnown, PhasesSplit DEF Session
<1> QED BY <1>1, <1>2, AnswersOwn

LEMMA QuietGoes ==
  ASSUME ScanInv, Known', NEW r \in Requests, Active(r),
         NEW pc \in RequestPC \ {"idle", "open session"}, Goto(r, pc),
         pc \in LivePC => req[r].pc \in LivePC, pc \in AlonePC => req[r].pc \in AlonePC,
         req[r].pc \in ChunkPC => pc \in ChunkPC,
         pc \in MarkedPC => req[r].pc \in MarkedPC,
         pc \in WholePC => Complete(req[r].upload),
         UNCHANGED <<session, tree, part, done, item, mutex, scanned>>
  PROVE  ScanInv'
<1>1. PICK u \in UploadIds : u = req[r].upload
  BY ActiveKnown
<1>2. /\ tree[u] # "none" /\ (Session(u)' <=> Session(u))
      /\ (req[r].pc \in LivePC => Session(u)) /\ (req[r].pc \in AlonePC => ~Session(u))
      /\ (req[r].pc \in MarkedPC => u \in scanned)
  BY <1>1, ActiveKnown DEF Session
<1>3. Complete(u)' <=> Complete(u)
  BY DEF Complete, Staged, Received
<1> QED BY <1>1, <1>2, <1>3, GoesOwn, PhasesSplit

LEMMA ResolveOwn ==
  ASSUME ScanInv, NEW r \in Requests, ResolveSource(r) PROVE ScanInv'
<1>1. /\ TypeOK /\ Known' /\ Active(r) /\ req[r].pc = "inspect"
      /\ UNCHANGED <<tree, part, done, item, mutex, scanned>>
  BY ScanKnown DEF ScanInv, Known, ResolveSource, Active, diskVars, memoryVars, cleanupVars
<1>2. PICK u \in UploadIds : u = req[r].upload
  BY <1>1, ActiveKnown
<1>3. tree[u] # "none" /\ Session(u) /\ req[r].pc \notin ChunkPC
  BY <1>1, <1>2, ActiveKnown DEF LivePC, ChunkPC
<1>4. Session(u)' /\ \A v \in UploadIds \ {u} : session'[v] = session[v]
  BY <1>1, <1>2, <1>3, SavedOnly DEF ResolveSource, Session
<1>5. CASE Answer(r)
  BY <1>1, <1>2, <1>3, <1>4, <1>5, AnswersOwn
<1>6. CASE Goto(r, "admit")
  <2>1. /\ "admit" \in RequestPC \ {"idle", "open session"} /\ "admit" \in LivePC
        /\ "admit" \notin AlonePC \cup MarkedPC \cup WholePC
    BY DEF RequestPC, ScanPC, LivePC, AlonePC, MarkedPC, WholePC
  <2> QED BY <1>1, <1>2, <1>3, <1>4, <1>6, <2>1, GoesOwn
<1> QED BY <1>5, <1>6 DEF ResolveSource

LEMMA AdmitOwn ==
  ASSUME ScanInv, NEW r \in Requests, Admit(r) \/ Consume(r) PROVE ScanInv'
<1>1. /\ Known' /\ Active(r) /\ req[r].pc \in {"admit", "consume"}
      /\ UNCHANGED <<session, tree, part, done, item, mutex, scanned>>
  BY ScanKnown DEF ScanInv, Known, Admit, Consume, Active, diskVars, memoryVars, cleanupVars
<1>2. req[r].pc \in LivePC /\ req[r].pc \notin ChunkPC
  BY <1>1 DEF LivePC, ChunkPC
<1>3. CASE Answer(r)
  BY <1>1, <1>3, QuietAnswers
<1>4. CASE Goto(r, "consume")
  <2>1. /\ "consume" \in RequestPC \ {"idle", "open session"}
        /\ "consume" \notin AlonePC \cup MarkedPC \cup WholePC
    BY DEF RequestPC, ScanPC, AlonePC, MarkedPC, WholePC
  <2> QED BY <1>1, <1>2, <1>4, <2>1, QuietGoes
<1>5. CASE Goto(r, "take") /\ Complete(req[r].upload)
  <2>1. "take" \in RequestPC \ {"idle", "open session"} /\ "take" \notin AlonePC \cup MarkedPC
    BY DEF RequestPC, ScanPC, AlonePC, MarkedPC
  <2> QED BY <1>1, <1>2, <1>5, <2>1, QuietGoes
<1> QED BY <1>3, <1>4, <1>5 DEF Admit, Consume

LEMMA TakeOwn ==
  ASSUME ScanInv, NEW r \in Requests, Take(r) PROVE ScanInv'
<1>1. /\ TypeOK /\ Known' /\ Active(r) /\ req[r].pc = "take" /\ mutex = Free
      /\ UNCHANGED <<tree, part, done, item, mutex>>
  BY ScanKnown DEF ScanInv, Known, Take, Active, diskVars, cleanupVars
<1>2. PICK u \in UploadIds : u = req[r].upload
  BY <1>1, ActiveKnown
<1>3. tree[u] # "none" /\ req[r].pc \notin ChunkPC /\ Complete(u) /\ mutex # Cleanup
  BY <1>1, <1>2, ActiveKnown DEF ChunkPC, WholePC, Free, Cleanup
<1>4. scanned' = scanned \cup {u} /\ \A v \in UploadIds \ {u} : session'[v] = session[v]
  BY <1>1, <1>2, DroppedOnly DEF Take
<1>5. CASE Answer(r)
  <2>1. /\ req'[r].pc = "idle" /\ ~Active(r)' /\ \A q \in Requests \ {r} : req'[q] = req[q]
    BY <1>1, <1>5, Answered DEF Active
  <2>2. /\ req'[r].pc \notin LivePC /\ req'[r].pc \notin AlonePC /\ req'[r].pc \notin MarkedPC
        /\ req'[r].pc \notin WholePC
    BY <2>1, PhasesSplit
  <2>3. Own(r, u)
    BY <1>1, <1>4, <2>1 DEF Own
  <2> QED BY <1>1, <1>2, <1>3, <2>1, <2>2, <2>3, OwnStep
<1>6. CASE Goto(r, "insert") /\ Drop(u)
  <2>1. "insert" \in RequestPC \ {"idle", "open session"} /\ "insert" \notin LivePC
    BY DEF RequestPC, ScanPC, LivePC, ChunkPC
  <2>2. ~Session(u)'
    BY <1>1, <1>6, DroppedOnly
  <2>3. Complete(u)'
    BY <1>1, <1>3 DEF Complete, Staged, Received
  <2> QED BY <1>1, <1>2, <1>3, <1>4, <1>6, <2>1, <2>2, <2>3, GoesOwn
<1> QED BY <1>2, <1>5, <1>6 DEF Take

LEMMA InsertOwn ==
  ASSUME ScanInv, NEW r \in Requests, InsertScan(r) \/ EndScan(r) PROVE ScanInv'
<1>1. /\ Known' /\ Active(r) /\ req[r].pc \in {"insert", "scanning"}
      /\ UNCHANGED <<session, tree, part, done, item, mutex, scanned>>
  BY ScanKnown DEF ScanInv, Known, InsertScan, EndScan, Active, diskVars, memoryVars, cleanupVars
<1>2. /\ req[r].pc \in AlonePC /\ req[r].pc \in MarkedPC /\ req[r].pc \notin ChunkPC
      /\ Complete(req[r].upload)
  BY <1>1, ActiveKnown DEF AlonePC, MarkedPC, ChunkPC, WholePC
<1>3. \E pc \in {"scanning", "remove scanned"} : Goto(r, pc)
  BY DEF InsertScan, EndScan
<1>4. ASSUME NEW pc \in {"scanning", "remove scanned"}
      PROVE  pc \in RequestPC \ {"idle", "open session"} /\ pc \notin LivePC
  BY DEF RequestPC, ScanPC, LivePC, ChunkPC
<1> QED BY <1>1, <1>2, <1>3, <1>4, QuietGoes

LEMMA RemoveOwn ==
  ASSUME ScanInv, NEW r \in Requests, RemoveScanned(r) \/ DropTree(r) PROVE ScanInv'
<1>1. /\ TypeOK /\ Known' /\ Active(r) /\ req[r].pc \in {"remove scanned", "drop tree"}
      /\ UNCHANGED <<session, part, done, item, mutex, scanned>>
  BY ScanKnown DEF ScanInv, Known, RemoveScanned, DropTree, Active, memoryVars, cleanupVars
<1>2. PICK u \in UploadIds : u = req[r].upload
  BY <1>1, ActiveKnown
<1>3. req[r].pc \notin ChunkPC /\ ~Session(u) /\ ~Session(u)'
  BY <1>1, <1>2, ActiveKnown DEF ChunkPC, AlonePC, Session
<1>4. tree'[u] # "none" /\ \A v \in UploadIds \ {u} : tree'[v] = tree[v]
  BY <1>1, <1>2, ActiveKnown, RemovedOnly DEF RemoveScanned, DropTree
<1>5. CASE DropTree(r)
  BY <1>1, <1>2, <1>3, <1>4, <1>5, AnswersOwn DEF DropTree
<1>6. CASE RemoveScanned(r)
  <2>1. u \in scanned
    BY <1>2, <1>6, ActiveKnown, <1>1 DEF RemoveScanned, MarkedPC
  <2>2. "forget" \in RequestPC \ {"idle", "open session"} /\ "forget" \notin LivePC \cup WholePC
    BY DEF RequestPC, ScanPC, LivePC, ChunkPC, WholePC
  <2> QED BY <1>1, <1>2, <1>3, <1>4, <1>6, <2>1, <2>2, GoesOwn DEF RemoveScanned
<1> QED BY <1>5, <1>6

LEMMA ForgetOwn ==
  ASSUME ScanInv, NEW r \in Requests, Forget(r) PROVE ScanInv'
<1>1. /\ Known' /\ Active(r) /\ req[r].pc = "forget" /\ Answer(r)
      /\ scanned' = scanned \ {req[r].upload}
      /\ UNCHANGED <<session, tree, part, done, item, mutex>>
  BY ScanKnown DEF ScanInv, Known, Forget, Active, diskVars, cleanupVars
<1>2. PICK u \in UploadIds : u = req[r].upload
  BY <1>1, ActiveKnown
<1>3. req[r].pc \notin ChunkPC /\ tree[u] # "none" /\ (Session(u)' <=> Session(u))
  BY <1>1, <1>2, ActiveKnown DEF ChunkPC, Session
<1> QED BY <1>1, <1>2, <1>3, AnswersOwn

LEMMA DropSessionOwn ==
  ASSUME ScanInv, NEW r \in Requests, DropSession(r) PROVE ScanInv'
<1>1. /\ TypeOK /\ Known' /\ Active(r) /\ req[r].pc = "drop session"
      /\ UNCHANGED <<tree, part, done, item, mutex, scanned>>
  BY ScanKnown DEF ScanInv, Known, DropSession, Active, diskVars, memoryVars, cleanupVars
<1>2. PICK u \in UploadIds : u = req[r].upload
  BY <1>1, ActiveKnown
<1>3. tree[u] # "none" /\ req[r].pc \notin ChunkPC /\ Session(u)
  BY <1>1, <1>2, ActiveKnown DEF ChunkPC, LivePC
<1>4. \A v \in UploadIds \ {u} : session'[v] = session[v]
  BY <1>1, <1>2, DroppedOnly DEF DropSession
<1>5. CASE Answer(r)
  BY <1>1, <1>2, <1>3, <1>4, <1>5, AnswersOwn
<1>6. CASE Goto(r, "drop tree") /\ Drop(u)
  <2>1. /\ "drop tree" \in RequestPC \ {"idle", "open session"}
        /\ "drop tree" \notin LivePC \cup MarkedPC \cup WholePC
    BY DEF RequestPC, LivePC, ChunkPC, MarkedPC, WholePC
  <2>2. ~Session(u)'
    BY <1>1, <1>6, DroppedOnly
  <2> QED BY <1>1, <1>2, <1>3, <1>4, <1>6, <2>1, <2>2, GoesOwn
<1> QED BY <1>2, <1>5, <1>6 DEF DropSession

LEMMA HandlerOwn ==
  ASSUME ScanInv, NEW r \in Requests, LockChunk(r) \/ Touch(r) \/ OpenPart(r) PROVE ScanInv'
<1>1. /\ TypeOK /\ Known' /\ Active(r) /\ req[r].pc \in ChunkPC
      /\ UNCHANGED <<tree, part, done, item, mutex, scanned>>
  BY ChunkKnown DEF ScanInv, Known, LockChunk, Touch, OpenPart, ChunkPC, Active, diskVars,
      cleanupVars
<1>2. PICK u \in UploadIds : u = req[r].upload
  BY <1>1, ActiveKnown
<1>3. tree[u] # "none" /\ Session(u) /\ req[r].pc \in LivePC
  BY <1>1, <1>2, ActiveKnown, PhasesSplit
<1>4. Session(u)' /\ \A v \in UploadIds \ {u} : session'[v] = session[v]
  BY <1>1, <1>2, <1>3, SavedOnly DEF LockChunk, Touch, OpenPart, Session
<1>5. \/ Answer(r) \/ \E pc \in {"touch", "open part", "copy"} : Goto(r, pc)
  BY DEF LockChunk, Touch, OpenPart, EndChunk
<1>6. CASE Answer(r)
  BY <1>1, <1>2, <1>3, <1>4, <1>6, AnswersOwn
<1>7. ASSUME NEW pc \in {"touch", "open part", "copy"}, Goto(r, pc) PROVE ScanInv'
  <2>1. pc \in ChunkPC /\ pc \in RequestPC \ {"idle", "open session"}
    BY DEF ChunkPC, RequestPC
  <2>2. pc \in LivePC /\ pc \notin AlonePC /\ pc \notin MarkedPC /\ pc \notin WholePC
    BY <2>1, PhasesSplit
  <2> QED BY <1>1, <1>2, <1>3, <1>4, <1>7, <2>1, <2>2, GoesOwn
<1> QED BY <1>5, <1>6, <1>7

LEMMA CopyOwn ==
  ASSUME ScanInv, Known', NEW r \in Requests, Copy(r) \/ Settle(r) PROVE ScanInv'
<1>1. /\ TypeOK /\ Active(r) /\ req[r].pc \in ChunkPC
      /\ UNCHANGED <<session, tree, item, mutex, scanned>>
  <2>1. TypeOK
    BY DEF ScanInv, Known
  <2>2. req[r].pc \in {"copy", "settle"}
    BY ZenonT(60) DEF Copy, Settle
  <2>3. UNCHANGED <<session, tree, item, mutex, scanned>>
    <3>1. ASSUME Copy(r) PROVE UNCHANGED <<session, tree, item, mutex, scanned>>
      BY <3>1, ZenonT(60) DEF Copy, memoryVars, cleanupVars
    <3>2. ASSUME Settle(r) PROVE UNCHANGED <<session, tree, item, mutex, scanned>>
      BY <3>2, ZenonT(60) DEF Settle, cleanupVars
    <3> QED BY <3>1, <3>2, Zenon
  <2>4. {"copy", "settle"} \subseteq ChunkPC /\ "idle" \notin {"copy", "settle"}
    BY DEF ChunkPC
  <2> QED BY <2>1, <2>2, <2>3, <2>4 DEF Active
<1>2. PICK u \in UploadIds : u = req[r].upload
  BY <1>1, ActiveKnown
<1>3. tree[u] # "none" /\ Session(u) /\ Session(u)'
  BY <1>1, <1>2, ActiveKnown, PhasesSplit DEF Session
<1>4. \A v \in UploadIds \ {u} : done'[v] = done[v] /\ part'[v] = part[v]
  <2>1. \A v \in UploadIds \ {u} : part'[v] = part[v]
    BY <1>1, <1>2 DEF Copy, Settle, TypeOK
  <2>2. \A v \in UploadIds \ {u} : done'[v] = done[v]
    BY <1>1, <1>2 DEF Copy, Settle, TypeOK
  <2> QED BY <2>1, <2>2, Zenon
<1>4b. tree'[u] # "none" /\ UNCHANGED <<item, mutex>> /\ scanned' = scanned
       /\ \A v \in UploadIds \ {u} : session'[v] = session[v] /\ tree'[v] = tree[v]
       /\ (Session(u)' => Session(u))
  BY <1>1, <1>3
<1>5. CASE Settle(r)
  <2>1. Answer(r)
    BY <1>5 DEF Settle, EndChunk
  <2> QED BY <1>1, <1>2, <1>3, <1>4, <1>4b, <2>1, AnswersOwn
<1>6. CASE Copy(r)
  <2>1. "settle" \in ChunkPC /\ "settle" \in RequestPC \ {"idle", "open session"}
    BY DEF ChunkPC, RequestPC
  <2>2. /\ "settle" \in LivePC /\ "settle" \notin AlonePC /\ "settle" \notin MarkedPC
        /\ "settle" \notin WholePC
    BY <2>1, PhasesSplit
  <2>3. Goto(r, "settle")
    BY <1>6, ZenonT(60) DEF Copy
  <2> QED BY <1>1, <1>2, <1>3, <1>4, <1>4b, <2>1, <2>2, <2>3, GoesOwn, ZenonT(90)
<1>7. Copy(r) \/ Settle(r)
  OBVIOUS
<1> HIDE DEF Copy, Settle
<1> QED BY <1>5, <1>6, <1>7

(* A request that begins: nobody else is about its upload, or all write chunks. *)
LEMMA BegunOwn ==
  ASSUME ScanInv, Known', NEW r \in Requests, NEW u \in UploadIds, ~Active(r), Session(u),
         req'[r].upload = u, req'[r].pc \in LivePC \ WholePC,
         \A q \in Requests \ {r} : req'[q] = req[q],
         \A q \in Requests \ {r} : Active(q) /\ req[q].upload = u
           => req[q].pc \in ChunkPC /\ req'[r].pc \in ChunkPC,
         UNCHANGED <<session, tree, part, done, item, mutex, scanned>>
  PROVE  ScanInv'
<1>1. /\ tree[u] # "none" /\ req'[r].pc \notin AlonePC /\ req'[r].pc \notin MarkedPC
      /\ req'[r].pc # "open session"
  BY PhasesSplit DEF ScanInv, Placed, AlonePC
<1>2. ASSUME NEW q \in Requests PROVE Active(q)' => q = r \/ (req'[q] = req[q] /\ Active(q))
  BY DEF Active
<1>3. Placed'
  BY <1>1, <1>2 DEF ScanInv, Placed, Session, Active
<1>4. Sessions'
  BY <1>1 DEF ScanInv, Sessions, Session
<1>5. Shared'
  BY <1>2 DEF ScanInv, Shared, Active
<1>6. Marks'
  BY <1>1 DEF ScanInv, Marks, Session
<1>7. Whole'
  BY DEF ScanInv, Whole, Complete, Staged, Received
<1> QED BY <1>3, <1>4, <1>5, <1>6, <1>7 DEF ScanInv

LEMMA AloneAfterSession ==
  ASSUME ScanInv, NEW q \in Requests, Session(req[q].upload) PROVE req[q].pc \notin AlonePC
BY DEF ScanInv, Sessions

LEMMA BeginOwn ==
  ASSUME ScanInv, Overlap = FALSE, NEW r \in Requests, Begin(r) PROVE ScanInv'
<1>1. Known' /\ Known /\ ~Active(r)
  BY BeginKnown DEF ScanInv, Begin, CreateTree, BeginScan, BeginDelete, BeginChunk, Active
<1>2. ASSUME NEW u \in UploadIds, BeginScan(r, u) \/ BeginDelete(r, u) PROVE ScanInv'
  <2>1. Session(u) /\ ~Busy(u) /\ UNCHANGED <<session, tree, part, done, item, mutex, scanned>>
    BY <1>2 DEF BeginScan, BeginDelete, diskVars, memoryVars, cleanupVars
  <2>2. /\ req'[r].pc \in {"inspect", "drop session"} /\ req'[r].upload = u
        /\ \A q \in Requests \ {r} : req'[q] = req[q]
    <3>1. CASE BeginScan(r, u)
      BY <1>1, <3>1, PlainBegins DEF BeginScan
    <3>2. CASE BeginDelete(r, u)
      BY <1>1, <3>2, PlainBegins DEF BeginDelete
    <3> QED BY <1>2, <3>1, <3>2
  <2>3. ASSUME NEW q \in Requests, Active(q), req[q].upload = u PROVE FALSE
    <3>1. req[q].pc \notin AlonePC
      BY <2>1, <2>3, AloneAfterSession
    <3>2. req[q].pc \in {"scanning", "remove scanned", "forget"}
      BY <2>1, <2>3 DEF Busy
    <3> QED BY <3>1, <3>2 DEF AlonePC
  <2>4. req'[r].pc \in LivePC \ WholePC
    BY <2>2 DEF LivePC, WholePC
  <2> QED BY <1>1, <2>1, <2>2, <2>3, <2>4, BegunOwn
<1>3. ASSUME NEW u \in UploadIds, NEW i \in Index, NEW offset \in 0..Size[i],
                 BeginChunk(r, u, i, offset)
      PROVE  ScanInv'
  <2>1. Session(u) /\ ~Exclusive(u) /\ UNCHANGED <<session, tree, part, done, item, mutex, scanned>>
    BY <1>3 DEF BeginChunk, diskVars, memoryVars, cleanupVars
  <2>2. req' = [req EXCEPT ![r] = [pc |-> "lock chunk", upload |-> u, index |-> i,
            offset |-> offset]]
    BY <1>3 DEF BeginChunk
  <2>3. offset \in Nat
    BY UploadAssumption
  <2>4. /\ req'[r].pc = "lock chunk" /\ req'[r].upload = u
        /\ \A q \in Requests \ {r} : req'[q] = req[q]
    BY <1>1, <2>2, <2>3, ChunkBegins
  <2>5. ASSUME NEW q \in Requests, Active(q), req[q].upload = u PROVE req[q].pc \in ChunkPC
    <3>1. req[q].pc \notin AlonePC
      BY <2>1, <2>5, AloneAfterSession
    <3>2. req[q].pc \in ChunkPC \cup {"scanning", "remove scanned", "forget"}
      BY <2>1, <2>5 DEF Exclusive, Active
    <3> QED BY <3>1, <3>2 DEF AlonePC
  <2>6. req'[r].pc \in LivePC \ WholePC /\ req'[r].pc \in ChunkPC
    BY <2>4 DEF LivePC, WholePC, ChunkPC
  <2> QED BY <1>1, <2>1, <2>4, <2>5, <2>6, BegunOwn
<1>4. ASSUME NEW u \in UploadIds, CreateTree(r, u) PROVE ScanInv'
  <2>1. /\ tree[u] = "none" /\ mutex = Free /\ mutex' = r
        /\ UNCHANGED <<session, part, item, scanned>>
    BY <1>4 DEF CreateTree, cleanupVars
  <2>2. /\ req'[r].pc = "open session" /\ req'[r].upload = u
        /\ \A q \in Requests \ {r} : req'[q] = req[q]
    BY <1>1, <1>4, PlainBegins DEF CreateTree
  <2>3. /\ tree'[u] = "staged"
        /\ \A v \in UploadIds \ {u} : tree'[v] = tree[v] /\ done'[v] = done[v]
    BY <1>1, <1>4 DEF CreateTree, Known, TypeOK
  <2>4. \A q \in Requests \ {r} : Active(q) =>
            req[q].upload \in UploadIds \ {u} /\ tree[req[q].upload] # "none"
    BY <1>1, <2>1 DEF ScanInv, Placed, Known, OnUpload, Active
  <2>5. ~Session(u)
    BY <2>1 DEF ScanInv, Placed
  <2>6. item = NoUpload /\ \A q \in Requests : req[q].pc # "open session"
    BY <2>1, UploadNames DEF ScanInv, Marks, Free, Cleanup
  <2>7. /\ req'[r].pc \notin LivePC /\ req'[r].pc \notin MarkedPC /\ req'[r].pc \notin WholePC
        /\ req'[r].pc # "idle"
    BY <2>2 DEF LivePC, ChunkPC, MarkedPC, WholePC
  <2>8. ASSUME NEW q \in Requests \ {r}, Active(q)'
        PROVE  /\ Active(q) /\ req'[q] = req[q] /\ req[q].upload \in UploadIds \ {u}
               /\ tree[req[q].upload] # "none"
    BY <2>2, <2>4, <2>8 DEF Active
  <2>9. Placed'
    <3>1. ASSUME NEW q \in Requests, Active(q)' PROVE tree'[req'[q].upload] # "none"
      <4>1. CASE q = r
        BY <2>2, <2>3, <4>1
      <4>2. CASE q # r
        BY <2>3, <2>8, <3>1, <4>2
      <4> QED BY <4>1, <4>2
    <3>2. ASSUME NEW v \in UploadIds, Session(v)' PROVE tree'[v] # "none"
      BY <2>1, <2>3, <3>2 DEF ScanInv, Placed, Session
    <3> QED BY <3>1, <3>2 DEF Placed
  <2>10. Sessions'
    BY <2>1, <2>2, <2>5, <2>7 DEF ScanInv, Sessions, Session
  <2>11. Shared'
    <3>1. ASSUME NEW p \in Requests, NEW q \in Requests, p # q, Active(p)', Active(q)',
                 req'[p].upload = req'[q].upload
          PROVE  req'[p].pc \in ChunkPC /\ req'[q].pc \in ChunkPC
      <4>1. p # r /\ q # r
        BY <2>2, <2>8, <3>1
      <4> QED BY <2>8, <3>1, <4>1 DEF ScanInv, Shared
    <3> QED BY <3>1 DEF Shared
  <2>12. Marks'
    BY <2>1, <2>2, <2>6, <2>7 DEF ScanInv, Marks
  <2>13. Whole'
    <3>1. ASSUME NEW q \in Requests, req'[q].pc \in WholePC PROVE Complete(req[q].upload)'
      <4>1. q # r /\ req'[q] = req[q]
        BY <2>2, <2>7, <3>1
      <4>2. Active(q) /\ Complete(req[q].upload)
        BY <3>1, <4>1, PhasesSplit DEF Active, ScanInv, Whole
      <4>3. PICK v \in UploadIds \ {u} : v = req[q].upload
        BY <2>4, <4>1, <4>2
      <4>4. Complete(v)' <=> Complete(v)
        BY <2>1, <2>3 DEF Complete, Staged, Received
      <4>5. Complete(v)'
        BY <4>2, <4>3, <4>4
      <4> QED BY <4>1, <4>3, <4>5 DEF Complete, Staged, Received
    <3> QED BY <3>1 DEF Whole
  <2> QED BY <1>1, <2>9, <2>10, <2>11, <2>12, <2>13 DEF ScanInv
<1> QED BY <1>2, <1>3, <1>4 DEF Begin

LEMMA CleanupOwn ==
  ASSUME ScanInv, Known', CleanupStep PROVE ScanInv'
<1>1. TypeOK /\ UNCHANGED <<session, part, done, scanned, req>>
  BY DEF ScanInv, Known, CleanupStep, ListLeftovers, CheckLeftover, RemoveLeftover, EndCleanup,
      diskVars, memoryVars
<1>2. CASE ListLeftovers \/ EndCleanup
  <2>1. UNCHANGED tree /\ item = NoUpload /\ item' = item /\ mutex \in {Free, Cleanup}
    BY <1>2, UploadNames DEF ListLeftovers, EndCleanup, ScanInv, Marks, diskVars, cleanupVars,
        Free, Cleanup
  <2>2. Placed' /\ Sessions' /\ Shared'
    BY <1>1, <2>1 DEF ScanInv, Placed, Sessions, Shared, Session, Active
  <2>3. Whole'
    BY <1>1, <2>1 DEF ScanInv, Whole, Complete, Staged, Received
  <2>4. Marks'
    BY <1>1, <2>1, UploadNames DEF ScanInv, Marks
  <2> QED BY <2>2, <2>3, <2>4 DEF ScanInv
<1>3. ASSUME NEW u \in UploadIds, CheckLeftover(u) PROVE ScanInv'
  <2>1. /\ UNCHANGED <<tree, mutex>> /\ mutex = Cleanup
        /\ item' # NoUpload => item' \notin scanned /\ ~Session(item')
    BY <1>3 DEF CheckLeftover, diskVars, memoryVars
  <2>2. Placed' /\ Sessions' /\ Shared'
    BY <1>1, <2>1 DEF ScanInv, Placed, Sessions, Shared, Session, Active
  <2>3. Whole'
    BY <1>1, <2>1 DEF ScanInv, Whole, Complete, Staged, Received
  <2>4. Marks'
    BY <1>1, <2>1 DEF ScanInv, Marks, Session
  <2> QED BY <2>2, <2>3, <2>4 DEF ScanInv
<1>4. CASE RemoveLeftover
  <2>1. /\ item \in UploadIds /\ ~Session(item) /\ item \notin scanned /\ mutex = Cleanup
        /\ item' = NoUpload /\ UNCHANGED mutex
    BY <1>4, <1>1 DEF RemoveLeftover, ScanInv, Marks, TypeOK, memoryVars
  <2>2. \A v \in UploadIds : tree'[v] = tree[v] \/ (v = item /\ tree'[v] = "gone")
    BY <1>1, <1>4, <2>1 DEF RemoveLeftover, RemoveTree, TypeOK
  <2>3. Placed'
    BY <1>1, <2>2 DEF ScanInv, Placed, Known, OnUpload, Session, Active
  <2>4. Sessions' /\ Shared'
    BY <1>1 DEF ScanInv, Sessions, Shared, Session, Active
  <2>5. Marks'
    BY <1>1, <2>1 DEF ScanInv, Marks
  <2>6. Whole'
    <3>1. ASSUME NEW q \in Requests, req[q].pc \in WholePC PROVE Complete(req[q].upload)'
      <4>1. Active(q) /\ Complete(req[q].upload)
        BY <3>1, PhasesSplit DEF ScanInv, Whole, Active
      <4>2. PICK v \in UploadIds : v = req[q].upload
        BY <4>1, ActiveKnown
      <4>3. v # item
        <5>1. CASE req[q].pc = "take"
          BY <2>1, <4>1, <4>2, <5>1, ActiveKnown DEF LivePC
        <5>2. CASE req[q].pc \in {"insert", "scanning"}
          BY <2>1, <4>1, <4>2, <5>2, ActiveKnown DEF MarkedPC
        <5> QED BY <3>1, <5>1, <5>2 DEF WholePC
      <4>4. Complete(v)' <=> Complete(v)
        BY <1>1, <2>2, <4>3 DEF Complete, Staged, Received
      <4>5. Complete(v)'
        BY <4>1, <4>2, <4>4
      <4> QED BY <1>1, <4>2, <4>5 DEF Complete, Staged, Received
    <3> QED BY <1>1, <3>1 DEF Whole
  <2> QED BY <2>3, <2>4, <2>5, <2>6 DEF ScanInv
<1> QED BY <1>2, <1>3, <1>4 DEF CleanupStep

LEMMA TickOwn ==
  ASSUME ScanInv, Known', Tick PROVE ScanInv'
<1>1. /\ UNCHANGED <<tree, part, done, scanned, req, mutex, item>> /\ mutex = Free
      /\ \A r \in Requests : req[r].pc \in {"idle", "scanning"}
      /\ \A u \in UploadIds : Session(u)' => Session(u)
  BY DEF Tick, Session, Older, Expired, memoryVars, cleanupVars
<1>2. item = NoUpload
  BY <1>1, UploadNames DEF ScanInv, Marks, Free, Cleanup
<1>3. Placed'
  BY <1>1 DEF ScanInv, Placed, Active
<1>4. Sessions'
  <2>1. \A r \in Requests : req[r].pc \notin LivePC
    BY <1>1 DEF LivePC, ChunkPC
  <2>2. ASSUME NEW r \in Requests, req[r].pc \in AlonePC PROVE ~Session(req[r].upload)'
    <3>1. Active(r)
      BY <2>2, PhasesSplit DEF Active
    <3>2. PICK u \in UploadIds : u = req[r].upload
      BY <3>1, ActiveKnown
    <3>3. ~Session(u)'
      BY <1>1, <2>2, <3>1, <3>2, ActiveKnown
    <3> QED BY <1>1, <3>2, <3>3 DEF Session
  <2> QED BY <1>1, <2>1, <2>2 DEF Sessions
<1>5. Shared' /\ Marks'
  BY <1>1, <1>2 DEF ScanInv, Shared, Marks, Active
<1>6. Whole'
  BY <1>1 DEF ScanInv, Whole, Complete, Staged, Received
<1> QED BY <1>3, <1>4, <1>5, <1>6 DEF ScanInv

LEMMA CrashOwn ==
  ASSUME ScanInv, Known', Crash PROVE ScanInv'
<1>1. /\ UNCHANGED <<session, tree, part, done>> /\ item' = NoUpload
      /\ \A r \in Requests : req'[r].pc = "idle"
  BY DEF Crash, diskVars, Idle
<1>2. \A r \in Requests : /\ req'[r].pc \notin LivePC /\ req'[r].pc \notin AlonePC
                          /\ req'[r].pc \notin MarkedPC /\ req'[r].pc \notin WholePC
                          /\ req'[r].pc # "open session"
  BY <1>1, PhasesSplit DEF AlonePC
<1>3. Placed' /\ Sessions' /\ Shared' /\ Marks' /\ Whole'
  BY <1>1, <1>2 DEF ScanInv, Placed, Sessions, Shared, Marks, Whole, Active, Session
<1> QED BY <1>3 DEF ScanInv

LEMMA InitOwn == Init => ScanInv
<1> SUFFICES ASSUME Init PROVE ScanInv
  OBVIOUS
<1>1. \A r \in Requests : req[r].pc = "idle"
  BY DEF Init, Idle
<1>2. \A r \in Requests : /\ req[r].pc \notin LivePC /\ req[r].pc \notin AlonePC
                          /\ req[r].pc \notin MarkedPC /\ req[r].pc \notin WholePC
                          /\ req[r].pc # "open session"
  BY <1>1, PhasesSplit DEF AlonePC
<1>3. Placed /\ Sessions /\ Shared /\ Marks /\ Whole
  BY <1>1, <1>2 DEF Init, Placed, Sessions, Shared, Marks, Whole, Active, Session
<1> QED BY <1>3, InitParts DEF ScanInv, PartInv, Known

LEMMA StepOwn ==
  ASSUME Overlap = FALSE, PartInv, ScanInv, [Next]_vars PROVE ScanInv'
<1>1. Known'
  BY StepParts DEF PartInv, Known
<1>2. CASE UNCHANGED vars
  BY <1>1, <1>2 DEF ScanInv, Placed, Sessions, Shared, Marks, Whole, Active, Session, Complete,
      Staged,
                    Received, vars, diskVars, memoryVars, cleanupVars
<1> QED BY <1>1, <1>2, BeginOwn, OpenSessionOwn, HandlerOwn, CopyOwn, ResolveOwn, AdmitOwn,
    TakeOwn, InsertOwn,
           RemoveOwn, ForgetOwn, DropSessionOwn, CleanupOwn, TickOwn, CrashOwn DEF Next, RequestStep

-----------------------------------------------------------------------------
(* As long as nothing has failed, a complete part that is not renamed yet has   *)
(* a handler that is about to rename it.                                      *)
OffsetRight(r) ==
  /\ req[r].pc \in ChunkPC => req[r].offset \in 0..Size[req[r].index]
  /\ req[r].pc \in {"copy", "settle"} => req[r].offset # Size[req[r].index]
Settling(u, i) == \E r \in Requests : req[r].pc = "settle" /\ req[r].upload = u /\ req[r].index = i
Unstarted == \A u \in UploadIds : tree[u] = "none" => \A i \in Index : part[u][i] = <<>>
Renamed ==
  faults = 0 =>
    \A u \in UploadIds : Staged(u) =>
      \A i \in Index \ done[u] : Len(part[u][i]) = Size[i] => Settling(u, i)

FileInv == (\A r \in Requests : OffsetRight(r)) /\ Unstarted /\ Renamed

LEMMA QuietFiles ==
  ASSUME FileInv, UNCHANGED <<part, done>>, faults' = 0 => faults = 0,
         \A u \in UploadIds : tree'[u] \in {tree[u], "gone"},
         \A r \in Requests : \/ req'[r] = req[r]
                             \/ OffsetRight(r)' /\ (req[r].pc # "settle" \/ faults' # 0)
  PROVE  FileInv'
<1>1. \A r \in Requests : OffsetRight(r)'
  BY DEF FileInv, OffsetRight
<1>2. Unstarted'
  BY DEF FileInv, Unstarted
<1>3. Renamed'
  <2>1. ASSUME NEW u \in UploadIds, NEW i \in Index, Settling(u, i), faults' = 0
        PROVE  Settling(u, i)'
    BY <2>1 DEF Settling
  <2> QED BY <2>1 DEF FileInv, Renamed, Staged
<1> QED BY <1>1, <1>2, <1>3 DEF FileInv

LEMMA FaultCounts ==
  ASSUME TypeOK, Fault PROVE faults' # 0
BY UploadAssumption DEF TypeOK, Fault

LEMMA IdleOffset ==
  ASSUME NEW r \in Requests, req'[r].pc \notin ChunkPC PROVE OffsetRight(r)'
BY DEF OffsetRight, ChunkPC

LEMMA BeginFiles ==
  ASSUME FileInv, Known, NEW r \in Requests, Begin(r) PROVE FileInv'
<1> USE UploadAssumption
<1>1. req[r].pc = "idle" /\ faults' = faults /\ part' = part
  BY DEF Begin, CreateTree, BeginScan, BeginDelete, BeginChunk, diskVars
<1>2. ASSUME NEW u \in UploadIds, BeginScan(r, u) \/ BeginDelete(r, u) PROVE FileInv'
  <2>1. /\ req'[r].pc \in {"inspect", "drop session"} /\ UNCHANGED <<part, done, tree>>
        /\ \A q \in Requests \ {r} : req'[q] = req[q]
    BY <1>2, PlainBegins DEF BeginScan, BeginDelete, diskVars
  <2>2. req'[r].pc \notin ChunkPC
    BY <2>1 DEF ChunkPC
  <2> QED BY <1>1, <2>1, <2>2, IdleOffset, QuietFiles
<1>3. ASSUME NEW u \in UploadIds, NEW i \in Index, NEW offset \in 0..Size[i],
             BeginChunk(r, u, i, offset)
      PROVE  FileInv'
  <2> DEFINE x == [pc |-> "lock chunk", upload |-> u, index |-> i, offset |-> offset]
  <2>1. /\ req'[r] = x /\ x.pc = "lock chunk" /\ x.index = i /\ x.offset = offset
        /\ \A q \in Requests \ {r} : req'[q] = req[q]
    BY <1>3 DEF BeginChunk, Known, TypeOK
  <2> HIDE DEF x
  <2>2. UNCHANGED <<part, done, tree>>
    BY <1>3 DEF BeginChunk, diskVars
  <2>3. req'[r].pc = "lock chunk" /\ req'[r].index = i /\ req'[r].offset = offset
    BY <2>1
  <2>4. OffsetRight(r)'
    BY <2>3 DEF OffsetRight
  <2> QED BY <1>1, <2>1, <2>2, <2>4, QuietFiles
<1>4. ASSUME NEW u \in UploadIds, CreateTree(r, u) PROVE FileInv'
  <2>1. /\ req'[r].pc = "open session" /\ \A q \in Requests \ {r} : req'[q] = req[q]
    BY <1>4, PlainBegins DEF CreateTree
  <2>2. req'[r].pc \notin ChunkPC
    BY <2>1 DEF ChunkPC
  <2>3. \A q \in Requests : OffsetRight(q)'
    BY <2>1, <2>2, IdleOffset DEF FileInv, OffsetRight
  <2>4. /\ tree[u] = "none" /\ tree'[u] = "staged" /\ done'[u] = {i \in Index : Size[i] = 0}
        /\ \A v \in UploadIds \ {u} : tree'[v] = tree[v] /\ done'[v] = done[v]
    BY <1>4 DEF CreateTree, Known, TypeOK
  <2>5. Unstarted'
    BY <1>1, <2>4 DEF FileInv, Unstarted
  <2>6. \A i \in Index \ done'[u] : Len(part'[u][i]) # Size[i]
    BY <1>1, <2>4 DEF FileInv, Unstarted
  <2>7. \A v \in UploadIds, i \in Index : Settling(v, i) => Settling(v, i)'
    BY <1>1, <2>1 DEF Settling
  <2>8. Renamed'
    BY <1>1, <2>4, <2>6, <2>7 DEF FileInv, Renamed, Staged
  <2> QED BY <2>3, <2>5, <2>8 DEF FileInv
<1> QED BY <1>2, <1>3, <1>4 DEF Begin

LEMMA HandlerFiles ==
  ASSUME FileInv, Known, NEW r \in Requests, LockChunk(r) \/ Touch(r) \/ OpenPart(r)
  PROVE  FileInv'
<1>1. /\ req[r].pc \in {"lock chunk", "touch", "open part"} /\ UNCHANGED <<tree, part, done>>
      /\ faults' = 0 => faults = 0
  <2>1. /\ req[r].pc \in {"lock chunk", "touch", "open part"} /\ UNCHANGED <<tree, part, done>>
    BY DEF LockChunk, Touch, OpenPart, diskVars
  <2>2. UNCHANGED faults \/ Fault
    BY DEF LockChunk, Touch, OpenPart, RedisFault
  <2> QED BY <2>1, <2>2, FaultCounts DEF Known
<1>2. CASE Answer(r)
  <2>1. /\ req'[r].pc = "idle" /\ \A q \in Requests \ {r} : req'[q] = req[q]
    BY <1>2, Answered DEF Known
  <2>2. req'[r].pc \notin ChunkPC
    BY <2>1 DEF ChunkPC
  <2> QED BY <1>1, <2>1, <2>2, IdleOffset, QuietFiles
<1>3. ASSUME NEW pc \in {"touch", "open part", "copy"}, Goto(r, pc),
             pc = "copy" => req[r].offset # Size[req[r].index]
      PROVE  FileInv'
  <2>1. pc \in RequestPC /\ req[r].pc \in ChunkPC
    BY <1>1 DEF ChunkPC, RequestPC
  <2>2. /\ req'[r].pc = pc /\ req'[r].index = req[r].index /\ req'[r].offset = req[r].offset
        /\ \A q \in Requests \ {r} : req'[q] = req[q]
    BY <1>3, <2>1, Went DEF Known
  <2>3. OffsetRight(r)'
    BY <1>3, <2>1, <2>2 DEF FileInv, OffsetRight
  <2> QED BY <1>1, <2>2, <2>3, QuietFiles
<1> QED BY <1>2, <1>3 DEF LockChunk, Touch, OpenPart, EndChunk

LEMMA ScanFiles ==
  ASSUME FileInv, Known, NEW r \in Requests,
         \/ OpenSession(r) \/ ResolveSource(r) \/ Admit(r) \/ Consume(r) \/ Take(r) \/ InsertScan(r)
         \/ EndScan(r) \/ RemoveScanned(r) \/ Forget(r) \/ DropSession(r) \/ DropTree(r)
  PROVE  FileInv'
<1>1. req[r].pc # "settle" /\ UNCHANGED <<part, done>> /\ (faults' = 0 => faults = 0)
  <2>1. UNCHANGED faults \/ Fault
    BY DEF OpenSession, ResolveSource, Admit, Consume, Take, InsertScan, EndScan, RemoveScanned,
           Forget, DropSession, DropTree, RedisFault, RemoveTree
  <2>2. req[r].pc # "settle" /\ UNCHANGED <<part, done>>
    BY DEF OpenSession, ResolveSource, Admit, Consume, Take, InsertScan, EndScan, RemoveScanned,
           Forget, DropSession, DropTree, diskVars
  <2> QED BY <2>1, <2>2, FaultCounts DEF Known
<1>2. \A u \in UploadIds : tree'[u] \in {tree[u], "gone"}
  BY DEF OpenSession, ResolveSource, Admit, Consume, Take, InsertScan, EndScan, RemoveScanned, Forget,
         DropSession, DropTree, diskVars, RemoveTree, Known, TypeOK
<1>3. \/ Answer(r)
      \/ \E pc \in {"admit", "consume", "take", "insert", "scanning", "remove scanned", "forget",
                    "drop tree"} : Goto(r, pc)
  BY DEF OpenSession, ResolveSource, Admit, Consume, Take, InsertScan, EndScan, RemoveScanned, Forget,
         DropSession, DropTree
<1>4. /\ req'[r].pc \in {"idle", "admit", "consume", "take", "insert", "scanning", "remove scanned",
                         "forget", "drop tree"}
      /\ \A q \in Requests \ {r} : req'[q] = req[q]
  BY <1>3, Answered, Went DEF Known, RequestPC, ScanPC
<1>5. req'[r].pc \notin ChunkPC
  BY <1>4 DEF ChunkPC
<1> QED BY <1>1, <1>2, <1>4, <1>5, IdleOffset, QuietFiles

LEMMA CopyFiles ==
  ASSUME FileInv, Known, NEW r \in Requests, Copy(r) PROVE FileInv'
<1> DEFINE u == req[r].upload  i == req[r].index
<1>1. /\ req[r].pc = "copy" /\ Goto(r, "settle") /\ UNCHANGED <<tree, done, faults>>
      /\ u \in UploadIds /\ i \in Index
  BY DEF Copy, Known, OnUpload, ChunkPC
<1>2. "settle" \in RequestPC
  BY DEF RequestPC, ChunkPC
<1>3. /\ req'[r].pc = "settle" /\ req'[r].upload = u /\ req'[r].index = i
      /\ req'[r].offset = req[r].offset
      /\ \A q \in Requests \ {r} : req'[q] = req[q]
  BY <1>1, <1>2, Went DEF Known
<1>4. /\ \A v \in UploadIds, k \in Index : <<v, k>> # <<u, i>> => part'[v][k] = part[v][k]
      /\ ~Staged(u) => part' = part
  BY <1>1 DEF Copy, Known, TypeOK
<1>5. \A q \in Requests : OffsetRight(q)'
  BY <1>1, <1>3 DEF FileInv, OffsetRight, ChunkPC
<1>6. Unstarted'
  BY <1>1, <1>4 DEF FileInv, Unstarted, Staged
<1>7. \A v \in UploadIds, k \in Index : Settling(v, k) => Settling(v, k)'
  BY <1>1, <1>3 DEF Settling
<1>8. Renamed'
  <2>1. ASSUME faults' = 0, NEW v \in UploadIds, Staged(v)', NEW k \in Index \ done'[v],
               Len(part'[v][k]) = Size[k]
        PROVE  Settling(v, k)'
    <3>1. faults = 0 /\ Staged(v) /\ k \in Index \ done[v]
      BY <1>1, <2>1 DEF Staged
    <3>2. CASE <<v, k>> = <<u, i>>
      <4>1. v = u /\ k = i
        BY <3>2
      <4> QED BY <1>3, <4>1 DEF Settling
    <3>3. CASE <<v, k>> # <<u, i>>
      <4>1. part'[v][k] = part[v][k]
        BY <1>4, <3>1, <3>3
      <4>2. Settling(v, k)
        BY <2>1, <3>1, <4>1 DEF FileInv, Renamed
      <4> QED BY <1>7, <3>1, <4>2
    <3> QED BY <3>2, <3>3
  <2> QED BY <2>1 DEF Renamed
<1> QED BY <1>5, <1>6, <1>8 DEF FileInv

LEMMA SettleFiles ==
  ASSUME FileInv, Known, NEW r \in Requests, Settle(r) PROVE FileInv'
<1> DEFINE u == req[r].upload  i == req[r].index
<1>1. /\ req[r].pc = "settle" /\ Answer(r) /\ UNCHANGED tree /\ (faults' = 0 => faults = 0)
      /\ u \in UploadIds /\ i \in Index
  <2>1. UNCHANGED faults \/ Fault
    BY DEF Settle
  <2>2. req[r].pc = "settle" /\ Answer(r) /\ UNCHANGED tree
    BY DEF Settle, EndChunk
  <2>3. u \in UploadIds /\ i \in Index
    BY <2>2 DEF Known, OnUpload, ChunkPC
  <2> QED BY <2>1, <2>2, <2>3, FaultCounts DEF Known
<1>2. req'[r].pc = "idle" /\ \A q \in Requests \ {r} : req'[q] = req[q]
  BY <1>1, Answered DEF Known
<1>3. req'[r].pc \notin ChunkPC
  BY <1>2 DEF ChunkPC
<1>4. \A q \in Requests : OffsetRight(q)'
  BY <1>2, <1>3, IdleOffset DEF FileInv, OffsetRight
<1>5. /\ part[u][i] \in Seq(Nat)
      /\ part'[u][i] \in {part[u][i], <<>>, Truncated(part[u][i], req[r].offset)}
      /\ \A v \in UploadIds, k \in Index : <<v, k>> # <<u, i>> => part'[v][k] = part[v][k]
      /\ \A v \in UploadIds : done[v] \subseteq done'[v]
  <2>1. /\ part \in [UploadIds -> [Index -> Seq(Nat)]] /\ done \in [UploadIds -> SUBSET Index]
    BY DEF Known, TypeOK
  <2>2. UNCHANGED done \/ done' = [done EXCEPT ![u] = @ \cup {i}]
    BY DEF Settle
  <2>3. \/ UNCHANGED part \/ part' = [part EXCEPT ![u][i] = <<>>]
        \/ part' = [part EXCEPT ![u][i] = Truncated(@, req[r].offset)]
    BY DEF Settle
  <2>4. \A v \in UploadIds : done[v] \subseteq done'[v]
    BY <1>1, <2>1, <2>2
  <2>5. /\ part'[u][i] \in {part[u][i], <<>>, Truncated(part[u][i], req[r].offset)}
        /\ \A v \in UploadIds, k \in Index : <<v, k>> # <<u, i>> => part'[v][k] = part[v][k]
    BY <1>1, <2>1, <2>3
  <2>6. part[u][i] \in Seq(Nat)
    BY <1>1, <2>1
  <2> QED BY <2>4, <2>5, <2>6
<1>6. req[r].offset \in 0..Size[i] /\ req[r].offset # Size[i] /\ Size[i] \in Nat
  BY <1>1, UploadAssumption DEF FileInv, OffsetRight, ChunkPC
<1>7. Unstarted'
  <2>1. Truncated(<<>>, req[r].offset) = <<>>
    BY <1>6 DEF Truncated
  <2> QED BY <1>1, <1>5, <2>1 DEF FileInv, Unstarted
<1>8. \A v \in UploadIds, k \in Index :
          Settling(v, k) /\ <<v, k>> # <<u, i>> => Settling(v, k)'
  BY <1>1, <1>2 DEF Settling
<1>9. ASSUME faults' = 0, Staged(u), i \notin done'[u] PROVE Len(part'[u][i]) # Size[i]
  <2>1. ~Fault
    BY <1>9, UploadAssumption DEF Fault, Known, TypeOK
  <2>2. CASE Len(part[u][i]) < Size[i] /\ UNCHANGED part
    BY <1>5, <1>6, <2>2
  <2>3. CASE Len(part[u][i]) > Size[i] /\ part'[u][i] = Truncated(part[u][i], req[r].offset)
    BY <1>5, <1>6, <2>3 DEF Truncated
  <2>4. \/ i \in done'[u]
        \/ Len(part[u][i]) < Size[i] /\ UNCHANGED part
        \/ Len(part[u][i]) > Size[i] /\ part'[u][i] = Truncated(part[u][i], req[r].offset)
    BY <1>1, <1>9, <2>1 DEF Settle, Known, TypeOK
  <2> QED BY <1>9, <2>2, <2>3, <2>4
<1>10. Renamed'
  <2>1. ASSUME faults' = 0, NEW v \in UploadIds, Staged(v)', NEW k \in Index \ done'[v],
               Len(part'[v][k]) = Size[k]
        PROVE  Settling(v, k)'
    <3>1. Staged(v) /\ k \in Index /\ k \notin done'[v] /\ k \notin done[v] /\ faults = 0
      BY <1>1, <1>5, <2>1 DEF Staged
    <3>2. v # u \/ k # i
      BY <1>9, <2>1, <3>1
    <3>3. <<v, k>> # <<u, i>>
      BY <3>2
    <3>4. Settling(v, k)
      BY <1>5, <2>1, <3>1, <3>3 DEF FileInv, Renamed
    <3> QED BY <1>8, <3>1, <3>3, <3>4
  <2> QED BY <2>1 DEF Renamed
<1> QED BY <1>4, <1>7, <1>10 DEF FileInv

LEMMA OtherFiles ==
  ASSUME FileInv, Known, CleanupStep \/ Crash \/ Tick PROVE FileInv'
<1>1. CASE CleanupStep
  <2>1. UNCHANGED <<part, done, req>> /\ (faults' = 0 => faults = 0)
    BY <1>1, UploadAssumption DEF CleanupStep, ListLeftovers, CheckLeftover, RemoveLeftover, EndCleanup,
       diskVars, memoryVars, RemoveTree, Fault, Known, TypeOK
  <2>2. \A u \in UploadIds : tree'[u] \in {tree[u], "gone"}
    BY <1>1 DEF CleanupStep, ListLeftovers, CheckLeftover, RemoveLeftover, EndCleanup,
       diskVars, RemoveTree, Known, TypeOK
  <2> QED BY <2>1, <2>2, QuietFiles
<1>2. CASE Crash
  <2>1. /\ UNCHANGED <<part, done, tree>> /\ faults' # 0
        /\ \A r \in Requests : req'[r].pc = "idle"
    BY <1>2, UploadAssumption DEF Crash, Fault, diskVars, Idle, Known, TypeOK
  <2>2. \A r \in Requests : req'[r].pc \notin ChunkPC
    BY <2>1 DEF ChunkPC
  <2> QED BY <2>1, <2>2, IdleOffset, QuietFiles
<1>3. CASE Tick
  BY <1>3, QuietFiles DEF Tick
<1> QED BY <1>1, <1>2, <1>3

LEMMA InitFiles == Init => FileInv
<1> SUFFICES ASSUME Init PROVE FileInv
  OBVIOUS
<1>1. \A r \in Requests : req[r].pc = "idle"
  BY DEF Init, Idle
<1>2. \A r \in Requests : OffsetRight(r)
  BY <1>1 DEF OffsetRight, ChunkPC
<1> QED BY <1>2 DEF Init, FileInv, Unstarted, Renamed, Staged

LEMMA StepFiles ==
  ASSUME FileInv, Known, [Next]_vars PROVE FileInv'
<1>1. CASE UNCHANGED vars
  BY <1>1, QuietFiles DEF vars, diskVars
<1> QED BY <1>1, BeginFiles, HandlerFiles, ScanFiles, CopyFiles, SettleFiles, OtherFiles
    DEF Next, RequestStep

(* A scan shares its upload with no handler, so nothing is left to be renamed.  *)
LEMMA AllRead ==
  ASSUME PartInv, ScanInv, FileInv, faults = 0 PROVE ScanReadsEveryFile
<1> SUFFICES ASSUME NEW r \in Requests, Reading(r) PROVE done[req[r].upload] = Index
  BY DEF ScanReadsEveryFile
<1>1. Active(r) /\ req[r].pc \in WholePC /\ req[r].pc \notin ChunkPC
  BY DEF Reading, Active, WholePC, ChunkPC
<1>2. PICK u \in UploadIds : u = req[r].upload /\ Complete(u)
  BY <1>1, ActiveKnown
<1>3. ASSUME NEW i \in Index, Settling(u, i) PROVE FALSE
  BY <1>1, <1>2, <1>3 DEF Settling, ScanInv, Shared, Active, ChunkPC
<1>4. \A i \in Index \ done[u] : Len(part[u][i]) = Size[i]
  BY <1>2 DEF Complete, Received
<1>5. Index \subseteq done[u]
  BY <1>2, <1>3, <1>4 DEF FileInv, Renamed, Complete
<1> QED BY <1>2, <1>5 DEF PartInv, TypeOK

-----------------------------------------------------------------------------
(* Whatever chunks overlap, are repeated, break off or die with the process, a  *)
(* part is a prefix of its file (WriteUpload).                                *)
THEOREM PartsStayPrefixes == Spec => []PartsArePrefixes
<1>1. PartInv => PartsArePrefixes
  BY DEF PartInv
<1> QED BY <1>1, InitParts, StepParts, PTL DEF Spec

(* A scan that is under way has consumed its upload: no other scan reads it and no *)
(* session leads to it.                                                       *)
LEMMA ConsumedIsOwned ==
  ASSUME ScanInv PROVE ScanOwnsUpload
BY DEF ScanInv, Sessions, Shared, AlonePC, ChunkPC, Active, ScanOwnsUpload, ScannedOnce, Reading

(* As long as a client has one kind of request about an upload under way at a   *)
(* time, an upload that was consumed can no longer be written or scanned again   *)
(* (consumeUpload), no cleanup, removal, expiry or other scan takes a byte from a *)
(* running scan (CleanupUploads); and while no step has failed, a scan finds     *)
(* every declared file in files/, however its chunks were sent.  After a failed   *)
(* or unfinished rename it need not.                                          *)
THEOREM StagingStaysSound ==
  ASSUME Overlap = FALSE PROVE Spec => []StagingIsSound
<1>1. PartInv /\ ScanInv /\ FileInv => StagingIsSound
  BY AllRead, ConsumedIsOwned
     DEF PartInv, ScanInv, Whole, WholePC, StagingIsSound, ScansKeepTheirBytes, Reading
<1>2. Init => PartInv /\ ScanInv /\ FileInv
  BY InitParts, InitOwn, InitFiles
<1>3. PartInv /\ ScanInv /\ FileInv /\ [Next]_vars => PartInv' /\ ScanInv' /\ FileInv'
  BY StepParts, StepOwn, StepFiles DEF PartInv, Known
<1> QED BY <1>1, <1>2, <1>3, PTL DEF Spec

-----------------------------------------------------------------------------
(* Sequences in ascending order and what a filter leaves of one (Ordering).     *)

LEMMA RankIs ==
  ASSUME NEW S, S \subseteq Nat, IsFiniteSet(S)
  PROVE  /\ Cardinality(S) \in Nat
         /\ \A i \in S : Rank(S, i) \in 1 .. Cardinality(S)
         /\ \A i, j \in S : i < j => Rank(S, i) < Rank(S, j)
<1>1. Cardinality(S) \in Nat
  BY FS_CardinalityType
<1> DEFINE B(i) == {j \in S : j <= i}
<1>2. \A i \in S : /\ IsFiniteSet(B(i))
                   /\ Cardinality(B(i)) <= Cardinality(S) /\ Cardinality(B(i)) \in Nat
  <2> TAKE i \in S
  <2>1. B(i) \in SUBSET S
    OBVIOUS
  <2> HIDE DEF B
  <2> QED BY <2>1, FS_Subset, FS_CardinalityType
<1>3. \A i \in S : Cardinality(B(i)) # 0
  <2> TAKE i \in S
  <2>1. B(i) # {}
    OBVIOUS
  <2> HIDE DEF B
  <2> QED BY <1>2, <2>1, FS_EmptySet
<1>4. ASSUME NEW i \in S, NEW j \in S, i < j
      PROVE  Cardinality(B(i)) < Cardinality(B(j))
  <2>1. B(i) \in SUBSET B(j) /\ j \in B(j) /\ j \notin B(i)
    <3>1. i \in Nat /\ j \in Nat /\ ~(j <= i)
      BY <1>4
    <3>2. ASSUME NEW x \in S, x <= i PROVE x <= j
      BY <1>4, <3>1, <3>2
    <3>3. j <= j
      BY <3>1
    <3> QED BY Zenon, <3>1, <3>2, <3>3
  <2> HIDE DEF B
  <2>2. IsFiniteSet(B(j)) /\ Cardinality(B(i)) \in Nat /\ Cardinality(B(j)) \in Nat
    BY <1>2
  <2>3. /\ Cardinality(B(i)) <= Cardinality(B(j))
        /\ (Cardinality(B(j)) = Cardinality(B(i)) => B(j) = B(i))
    BY <2>1, <2>2, FS_Subset
  <2> QED BY <2>1, <2>2, <2>3
<1>5. \A i \in S : Rank(S, i) = Cardinality(B(i))
  BY DEF Rank
<1> HIDE DEF B
<1>6. \A i \in S : Rank(S, i) \in 1 .. Cardinality(S)
  BY <1>1, <1>2, <1>3, <1>5
<1> QED BY <1>1, <1>4, <1>5, <1>6

LEMMA OrderedIs ==
  ASSUME NEW S, S \subseteq Nat, IsFiniteSet(S)
  PROVE  /\ Ordered(S) \in Seq(S) /\ Len(Ordered(S)) = Cardinality(S) /\ Cardinality(S) \in Nat
         /\ \A k, l \in 1 .. Cardinality(S) : k < l => Ordered(S)[k] < Ordered(S)[l]
<1> DEFINE n == Cardinality(S)
           rank == [i \in S |-> Rank(S, i)]
<1>1. /\ n \in Nat /\ \A i \in S : Rank(S, i) \in 1 .. n
      /\ \A i, j \in S : i < j => Rank(S, i) < Rank(S, j)
  BY RankIs
<1>2. rank \in Injection(S, 1 .. n)
  <2>1. rank \in [S -> 1 .. n]
    BY <1>1
  <2>2. ASSUME NEW a \in S, NEW b \in S, rank[a] = rank[b] PROVE a = b
    <3>1. Rank(S, a) = Rank(S, b) /\ Rank(S, a) \in Nat
      BY <1>1, <2>2
    <3>2. ~(a < b) /\ ~(b < a)
      BY <1>1, <3>1
    <3> QED BY <3>2
  <2> HIDE DEF rank
  <2> QED BY <2>1, <2>2 DEF Injection, IsInjective
<1>3. IsFiniteSet(1 .. n) /\ Cardinality(1 .. n) = n
  BY <1>1, FS_Interval
<1>4. rank \in Surjection(S, 1 .. n)
  <2> HIDE DEF rank
  <2> QED BY <1>2, <1>3, FS_Injection
<1>5. \A k \in 1 .. n : \E i \in S : Rank(S, i) = k
  BY <1>4 DEF Surjection
<1>6. \A k \in 1 .. n : Ordered(S)[k] \in S /\ Rank(S, Ordered(S)[k]) = k
  BY <1>5 DEF Ordered
<1>7. Ordered(S) \in Seq(S) /\ Len(Ordered(S)) = n
  BY <1>1, <1>6 DEF Ordered
<1>8. ASSUME NEW k \in 1 .. n, NEW l \in 1 .. n, k < l
      PROVE  Ordered(S)[k] < Ordered(S)[l]
  <2> DEFINE a == Ordered(S)[k]
             b == Ordered(S)[l]
  <2>1. a \in S /\ b \in S /\ Rank(S, a) = k /\ Rank(S, b) = l /\ a \in Nat /\ b \in Nat
    BY <1>6
  <2> HIDE DEF a, b
  <2>2. a # b /\ ~(b < a)
    BY <1>1, <1>8, <2>1
  <2>3. a < b
    BY <2>1, <2>2
  <2> QED BY <2>3 DEF a, b
<1> QED BY <1>1, <1>7, <1>8

(* All places of an initial segment are their own rank.                        *)
LEMMA OrderedAll ==
  ASSUME NEW n \in Nat
  PROVE  Ordered(1 .. n) = [k \in 1 .. n |-> k] /\ Cardinality(1 .. n) = n
<1>1. \A m \in 0 .. n : Cardinality(1 .. m) = m
  BY FS_Interval
<1>2. \A i \in 1 .. n : Rank(1 .. n, i) = i
  <2> TAKE i \in 1 .. n
  <2>1. {j \in 1 .. n : j <= i} = 1 .. i
    OBVIOUS
  <2>2. i \in 0 .. n
    OBVIOUS
  <2>3. Rank(1 .. n, i) = Cardinality(1 .. i)
    BY <2>1 DEF Rank
  <2> QED BY <1>1, <2>2, <2>3
<1>3. \A k \in 1 .. n : (CHOOSE i \in 1 .. n : Rank(1 .. n, i) = k) = k
  BY <1>2
<1>4. Cardinality(1 .. n) = n
  BY <1>1
<1> QED BY <1>3, <1>4 DEF Ordered

LEMMA KeptIs ==
  ASSUME NEW A, NEW s \in Seq(A), NEW S \in SUBSET DOMAIN s
  PROVE  /\ Kept(s, S) \in Seq(A) /\ Len(Kept(s, S)) \in Nat
         /\ DOMAIN Kept(s, S) = 1 .. Len(Kept(s, S))
         /\ \A k \in DOMAIN Kept(s, S) : \E i \in S : Kept(s, S)[k] = s[i]
         /\ \A k, l \in DOMAIN Kept(s, S) : k # l =>
                \E i, j \in S : i # j /\ Kept(s, S)[k] = s[i] /\ Kept(s, S)[l] = s[j]
         /\ S = DOMAIN s => Kept(s, S) = s
<1>1. DOMAIN s = 1 .. Len(s) /\ Len(s) \in Nat
  OBVIOUS
<1>2. S \subseteq Nat /\ IsFiniteSet(S)
  <2>1. IsFiniteSet(1 .. Len(s))
    BY <1>1, FS_Interval
  <2>2. S \in SUBSET (1 .. Len(s))
    BY <1>1
  <2> QED BY <2>1, <2>2, FS_Subset
<1> DEFINE n == Cardinality(S)
           o == Ordered(S)
<1>3. /\ o \in Seq(S) /\ Len(o) = n /\ n \in Nat
      /\ \A k, l \in 1 .. n : k < l => o[k] < o[l]
  BY <1>2, OrderedIs
<1>4. Kept(s, S) = [k \in 1 .. n |-> s[o[k]]]
  BY DEF Kept
<1>5. \A k \in 1 .. n : o[k] \in S /\ o[k] \in Nat /\ s[o[k]] \in A
  BY <1>1, <1>2, <1>3
<1> HIDE DEF n, o
<1>6. /\ Kept(s, S) \in Seq(A) /\ Len(Kept(s, S)) = n /\ DOMAIN Kept(s, S) = 1 .. n
      /\ \A k \in 1 .. n : Kept(s, S)[k] = s[o[k]]
  BY <1>3, <1>4, <1>5
<1>7. \A k, l \in 1 .. n : k # l => o[k] # o[l]
  <2> TAKE k, l \in 1 .. n
  <2>1. k < l \/ l < k \/ k = l
    BY <1>3
  <2> QED BY <1>3, <1>5, <2>1
<1>8. ASSUME S = DOMAIN s PROVE Kept(s, S) = s
  <2>1. n = Len(s) /\ \A k \in 1 .. n : o[k] = k
    BY <1>1, <1>8, OrderedAll DEF n, o
  <2> QED BY <1>1, <1>6, <2>1
<1> QED BY <1>3, <1>5, <1>6, <1>7, <1>8

LEMMA Concatenation ==
  ASSUME NEW S, NEW s \in Seq(S), NEW t \in Seq(S)
  PROVE  /\ s \o t \in Seq(S) /\ Len(s \o t) = Len(s) + Len(t)
         /\ DOMAIN (s \o t) = 1 .. Len(s) + Len(t)
         /\ \A i \in 1 .. Len(s) + Len(t) : (s \o t)[i] = IF i <= Len(s) THEN s[i]
                ELSE t[i - Len(s)]
OBVIOUS

-----------------------------------------------------------------------------
(* The favorites (FavoriteLibrary): what is read, and what a request has read so   *)
(* far, are the first games of the list as the server has it.                  *)

(* Library has these operators as its own.                                        *)
LEMMA LibraryOrders ==
  ASSUME NEW S, NEW s
  PROVE  Library!Ordered(S) = Ordered(S) /\ Library!Kept(s, S) = Kept(s, S)
<1>1. ASSUME NEW T PROVE Library!Cardinality(T) = Cardinality(T)
  BY Zenon DEF Library!Cardinality, Cardinality
<1>2. ASSUME NEW i PROVE Library!Rank(S, i) = Rank(S, i)
  BY <1>1 DEF Library!Rank, Rank
<1>3. Library!Ordered(S) = Ordered(S)
  <2>1. ASSUME NEW k
        PROVE  (CHOOSE i \in S : Library!Rank(S, i) = k) = (CHOOSE i \in S : Rank(S, i) = k)
    BY <1>2, SMT
  <2> QED BY <1>1, <2>1 DEF Library!Ordered, Ordered
<1>4. Library!Kept(s, S) = Kept(s, S)
  BY <1>1, <1>3 DEF Library!Kept, Kept
<1> QED BY <1>3, <1>4

LibraryKinds == {"none", "refresh", "more"}
States == [read : BOOLEAN, items : Seq(Nat), next : Nat, more : BOOLEAN, failed : BOOLEAN,
    refresh : BOOLEAN]
LibraryRequests == [kind : LibraryKinds, offset : Nat, target : Nat, items : Seq(Nat)]
FirstOf(s, items, n) == Len(items) = n /\ n <= Len(s) /\ \A i \in DOMAIN items : items[i] = s[i]

LbTypes ==
  /\ libraryList \in States /\ request \in LibraryRequests
  /\ (request.kind = "none" => request = Library!None)
  /\ unread \in BOOLEAN /\ batch \in {"none", "remove", "clear", "organize"}
  /\ request.kind = "refresh" => libraryList.refresh
ReadInv ==
  batch = "none" /\ ~unread =>
    /\ request.kind # "none" => FirstOf(Library!Listed(folder), request.items, request.offset)
    /\ request.kind # "refresh" /\ libraryList.read /\ ~(libraryList.failed /\ libraryList.refresh) =>
         /\ FirstOf(Library!Listed(folder), libraryList.items, libraryList.next)
         /\ (libraryList.more <=> libraryList.next < Len(Library!Listed(folder)))
LbInv == LbTypes /\ ReadInv
LEMMA LibraryMostIs ==
  ASSUME NEW a \in Int, NEW b \in Int
  PROVE  /\ Library!Least(a, b) \in Int /\ Library!Least(a, b) <= a /\ Library!Least(a, b) <= b
         /\ (Library!Least(a, b) = a \/ Library!Least(a, b) = b)
         /\ Library!Most(a, b) \in Int /\ Library!Most(a, b) >= a /\ Library!Most(a, b) >= b
         /\ (Library!Most(a, b) = a \/ Library!Most(a, b) = b)
BY DEF Library!Least, Library!Most


LEMMA LibraryMergeIs ==
  ASSUME NEW a \in Seq(Nat), NEW b \in Seq(Nat)
  PROVE  /\ Library!Merge(a, b) \in Seq(Nat)
         /\ ((\A i \in DOMAIN a, j \in DOMAIN b : a[i] # b[j]) => Library!Merge(a, b) = a \o b)
<1> DEFINE S == {j \in DOMAIN b : \A i \in DOMAIN a : a[i] # b[j]}
<1>1. S \in SUBSET DOMAIN b
  OBVIOUS
<1>2. Library!Merge(a, b) = a \o Library!Kept(b, S)
  BY DEF Library!Merge
<1>3. (\A i \in DOMAIN a, j \in DOMAIN b : a[i] # b[j]) => S = DOMAIN b
  OBVIOUS
<1> HIDE DEF S
<1>4. Library!Kept(b, S) \in Seq(Nat) /\ (S = DOMAIN b => Library!Kept(b, S) = b)
  BY <1>1, KeptIs, LibraryOrders
<1>5. a \o Library!Kept(b, S) \in Seq(Nat)
  BY <1>4, Concatenation
<1> QED BY <1>2, <1>3, <1>4, <1>5

(* The list of a folder: every game once.                                      *)
ListOnce(s) == /\ s \in Seq(Nat) /\ Len(s) \in Nat /\ DOMAIN s = 1 .. Len(s)
               /\ \A i, j \in DOMAIN s : s[i] = s[j] => i = j
LEMMA GamesOnce ==
  ASSUME NEW S \in SUBSET Library!Games
  PROVE  ListOnce(Library!Ordered(S))
<1> DEFINE s == Library!Ordered(S)
           n == Cardinality(S)
<1>1. S \in SUBSET (1 .. GameCount) /\ S \subseteq Nat
  BY LibraryAssumption DEF Library!Games
<1>2. IsFiniteSet(1 .. GameCount)
  BY FS_Interval, LibraryAssumption
<1>3. IsFiniteSet(S)
  BY <1>1, <1>2, FS_Subset
<1>4. /\ s \in Seq(S) /\ Len(s) = n /\ n \in Nat
      /\ \A k, l \in 1 .. n : k < l => s[k] < s[l]
  BY <1>1, <1>3, OrderedIs, LibraryOrders
<1> HIDE DEF s, n
<1>5. DOMAIN s = 1 .. n /\ \A k \in 1 .. n : s[k] \in Nat
  <2>1. DOMAIN s = 1 .. n
    BY <1>4
  <2>2. \A k \in 1 .. n : s[k] \in S
    BY <1>4
  <2> QED BY <1>1, <2>1, <2>2
<1>6. s \in Seq(Nat)
  <2>1. s = [k \in 1 .. n |-> s[k]]
    BY <1>4, <1>5
  <2> QED BY <1>4, <1>5, <2>1
<1>7. ASSUME NEW i \in 1 .. n, NEW j \in 1 .. n, s[i] = s[j] PROVE i = j
  <2>1. s[i] \in Nat
    BY <1>5
  <2>2. ~(i < j) /\ ~(j < i)
    BY <1>4, <1>7, <2>1
  <2> QED BY <1>4, <2>2
<1> QED BY <1>4, <1>5, <1>6, <1>7 DEF ListOnce, s

LEMMA ListedIs ==
  ASSUME NEW f
  PROVE  ListOnce(Library!Listed(f))
BY GamesOnce DEF Library!Listed

LEMMA LibraryPageIs ==
  ASSUME NEW offset \in Nat
  PROVE  /\ Library!Page(offset) \in Seq(Nat) /\ Len(Library!Page(offset)) \in Nat
         /\ DOMAIN Library!Page(offset) = 1 .. Len(Library!Page(offset))
         /\ \A i \in DOMAIN Library!Page(offset) :
              /\ offset + i \in DOMAIN Library!Listed(folder)
              /\ Library!Page(offset)[i] = Library!Listed(folder)[offset + i]
         /\ offset < Len(Library!Listed(folder)) => Len(Library!Page(offset)) > 0
<1> DEFINE s == Library!Listed(folder)
           g == Library!Least(PageSize, Len(s) - offset)
<1>1. s \in Seq(Nat) /\ Len(s) \in Nat /\ DOMAIN s = 1 .. Len(s)
  BY ListedIs DEF ListOnce
<1>2. \A i \in DOMAIN s : s[i] \in Nat
  BY <1>1
<1>3. Library!Page(offset) = [i \in 1 .. g |-> s[offset + i]]
  BY DEF Library!Page
<1>4. g \in Int /\ g <= Len(s) - offset /\ (offset < Len(s) => g > 0)
  <2>1. /\ PageSize \in Int /\ PageSize > 0 /\ Len(s) - offset \in Int
        /\ (offset < Len(s) => Len(s) - offset > 0)
    BY <1>1, LibraryAssumption
  <2> HIDE DEF s
  <2>2. g \in Int /\ g <= Len(s) - offset /\ (g = PageSize \/ g = Len(s) - offset)
    BY <2>1, LibraryMostIs
  <2> HIDE DEF g
  <2> QED BY <2>1, <2>2
<1> HIDE DEF s, g
<1>5. \A i \in 1 .. g : offset + i \in DOMAIN s /\ s[offset + i] \in Nat
  BY <1>1, <1>2, <1>4
<1>6. CASE g >= 0
  <2>1. g \in Nat
    BY <1>4, <1>6
  <2>2. /\ Library!Page(offset) \in Seq(Nat) /\ Len(Library!Page(offset)) = g
        /\ DOMAIN Library!Page(offset) = 1 .. g
    <3>1. \A i \in 1 .. g : s[offset + i] \in Nat
      BY <1>5
    <3> DEFINE p == [i \in 1 .. g |-> s[offset + i]]
    <3>2. p \in [1 .. g -> Nat]
      BY <3>1
    <3> HIDE DEF p
    <3>3. p \in Seq(Nat) /\ Len(p) = g /\ DOMAIN p = 1 .. g
      BY <2>1, <3>2
    <3> QED BY <1>3, <3>3 DEF p
  <2>3. \A i \in 1 .. g : Library!Page(offset)[i] = s[offset + i]
    BY <1>3
  <2> QED BY <1>4, <1>5, <2>1, <2>2, <2>3 DEF s
<1>7. CASE ~(g >= 0)
  <2>1. 1 .. g = {} /\ ~(offset < Len(s))
    BY <1>4, <1>7
  <2>2. Library!Page(offset) = <<>>
    BY <1>3, <2>1
  <2> QED BY <2>1, <2>2 DEF s
<1> QED BY <1>6, <1>7

(* The first games of a list and those that follow.                            *)
LEMMA MergeFirst ==
  ASSUME NEW a \in Seq(Nat), NEW n \in Nat, FirstOf(Library!Listed(folder), a, n)
  PROVE  LET items == Library!Merge(a, Library!Page(n))
             end == n + Len(Library!Page(n)) IN
         /\ FirstOf(Library!Listed(folder), items, end)
         /\ (Library!Page(n) # <<>> /\ end < Len(Library!Listed(folder))) <=>
                end < Len(Library!Listed(folder))
<1> DEFINE s == Library!Listed(folder)
           b == Library!Page(n)
           m == Len(b)
<1>1. s \in Seq(Nat) /\ Len(s) \in Nat /\ DOMAIN s = 1 .. Len(s) /\ \A i, j \in DOMAIN s :
          s[i] = s[j] => i = j
  BY ListedIs DEF ListOnce
<1>2. /\ b \in Seq(Nat) /\ m \in Nat /\ DOMAIN b = 1 .. m
      /\ \A i \in DOMAIN b : n + i \in DOMAIN s /\ b[i] = s[n + i]
      /\ n < Len(s) => m > 0
  BY LibraryPageIs
<1>3. /\ Len(a) = n /\ n <= Len(s) /\ DOMAIN a = 1 .. n
      /\ \A i \in 1 .. n : a[i] = s[i] /\ i \in DOMAIN s
  <2>1. Len(a) = n /\ n <= Len(s) /\ \A i \in DOMAIN a : a[i] = s[i]
    BY DEF FirstOf
  <2>2. DOMAIN a = 1 .. n
    BY <2>1
  <2> HIDE DEF s
  <2>3. \A i \in 1 .. n : i \in DOMAIN s
    BY <1>1, <2>1
  <2> QED BY <2>1, <2>2, <2>3
<1> HIDE DEF s, b, m
<1>4. \A i \in DOMAIN a, j \in DOMAIN b : a[i] # b[j]
  <2> SUFFICES ASSUME NEW i \in DOMAIN a, NEW j \in DOMAIN b, a[i] = b[j] PROVE FALSE
    OBVIOUS
  <2>1. i = n + j
    BY <1>1, <1>2, <1>3
  <2> QED BY <1>2, <1>3, <2>1
<1>5. Library!Merge(a, b) = a \o b
  BY <1>2, <1>4, LibraryMergeIs
<1>6. /\ a \o b \in Seq(Nat) /\ Len(a \o b) = n + m /\ DOMAIN (a \o b) = 1 .. n + m
      /\ \A i \in 1 .. n + m : (a \o b)[i] = IF i <= n THEN a[i] ELSE b[i - n]
  <2>1. /\ a \o b \in Seq(Nat) /\ Len(a \o b) = Len(a) + Len(b)
        /\ DOMAIN (a \o b) = 1 .. Len(a) + Len(b)
        /\ \A i \in 1 .. Len(a) + Len(b) : (a \o b)[i] = IF i <= Len(a) THEN a[i] ELSE b[i - Len(a)]
    BY <1>2, Concatenation
  <2>2. Len(a) = n /\ Len(b) = m
    BY <1>3 DEF m
  <2> QED BY <2>1, <2>2
<1>7. ASSUME NEW i \in 1 .. n + m PROVE (a \o b)[i] = s[i]
  <2>1. CASE i <= n
    <3>1. i \in 1 .. n /\ (a \o b)[i] = a[i]
      BY <1>2, <1>6, <2>1
    <3> QED BY <1>3, <3>1
  <2>2. CASE ~(i <= n)
    <3>1. i - n \in 1 .. m /\ (a \o b)[i] = b[i - n] /\ n + (i - n) = i
      BY <1>2, <1>6, <2>2
    <3> QED BY <1>2, <3>1
  <2> QED BY <2>1, <2>2
<1>8. n + m <= Len(s)
  <2>1. CASE m = 0
    BY <1>3, <2>1
  <2>2. CASE m # 0
    <3>1. n + m \in DOMAIN s
      <4>1. m \in DOMAIN b
        BY <1>2, <2>2
      <4> QED BY <1>2, <4>1
    <3> QED BY <1>1, <3>1
  <2> QED BY <2>1, <2>2
<1>9. FirstOf(s, Library!Merge(a, b), n + m)
  BY <1>5, <1>6, <1>7, <1>8 DEF FirstOf
<1>10. (b # <<>> /\ n + m < Len(s)) <=> n + m < Len(s)
  <2> SUFFICES ASSUME b = <<>>, n + m < Len(s) PROVE FALSE
    OBVIOUS
  <2>1. m = 0
    BY DEF m
  <2> QED BY <1>1, <1>2, <2>1
<1> QED BY <1>9, <1>10 DEF s, b, m
-------------------------------------------------------------------------------
LEMMA ListedLater == Len(Library!Listed(folder)') \in Nat
<1> DEFINE S == {g \in Library!Games : Library!Matches(folder, g)'}
<1>1. Library!Listed(folder)' = Library!Ordered(S)
  BY DEF Library!Listed, Library!Games
<1>2. S \in SUBSET Library!Games
  OBVIOUS
<1> HIDE DEF S
<1> QED BY <1>1, <1>2, GamesOnce DEF ListOnce

LEMMA RefreshIs ==
  ASSUME LbTypes, NEW l \in States, Library!Refresh(l)
  PROVE  /\ libraryList' \in States /\ libraryList'.refresh /\ request' \in LibraryRequests
         /\ request'.kind = "refresh"
         /\ request'.offset = 0 /\ request'.items = <<>> /\ unread' = FALSE
<1>1. libraryList' = [l EXCEPT !.failed = FALSE, !.refresh = TRUE]
  BY DEF Library!Refresh
<1>2. libraryList' \in States /\ libraryList'.refresh
  BY <1>1 DEF States
<1>3. request' = [Library!None EXCEPT !.kind = "refresh",
          !.target = Library!Most(PageSize, l.next)] /\ unread' = FALSE
  BY DEF Library!Refresh
<1>4. Library!Most(PageSize, l.next) \in Nat
  BY LibraryAssumption DEF Library!Most, States
<1> DEFINE t == Library!Most(PageSize, l.next)
<1>5. request' = [kind |-> "refresh", offset |-> 0, target |-> t, items |-> <<>>]
  BY <1>3 DEF Library!None
<1> HIDE DEF t
<1>6. /\ request' \in LibraryRequests /\ request'.kind = "refresh" /\ request'.offset = 0
      /\ request'.items = <<>>
  BY <1>4, <1>5 DEF LibraryRequests, LibraryKinds, t
<1> QED BY <1>2, <1>3, <1>6

LEMMA RefreshKeeps ==
  ASSUME LbInv, NEW l \in States, Library!Refresh(l),
             batch' \in {"none", "remove", "clear", "organize"}
  PROVE  LbInv'
<1>1. /\ libraryList' \in States /\ libraryList'.refresh /\ request' \in LibraryRequests
      /\ request'.kind = "refresh"
      /\ request'.offset = 0 /\ request'.items = <<>> /\ unread' = FALSE
  BY RefreshIs DEF LbInv
<1>2. unread' \in BOOLEAN
  BY <1>1
<1>3. LbTypes'
  BY <1>1, <1>2 DEF LbTypes, States, LibraryRequests, LibraryKinds
<1>4. Len(Library!Listed(folder)') \in Nat
  BY ListedLater
<1>5. FirstOf(Library!Listed(folder)', request'.items, request'.offset)
  BY <1>1, <1>4 DEF FirstOf
<1>6. ReadInv'
  <2>1. ReadInv' <=> (batch' = "none" /\ ~unread' =>
          /\ request'.kind # "none" =>
                 FirstOf(Library!Listed(folder)', request'.items, request'.offset)
          /\ request'.kind # "refresh" /\ libraryList'.read /\ ~(libraryList'.failed /\ libraryList'.refresh) =>
               /\ FirstOf(Library!Listed(folder)', libraryList'.items, libraryList'.next)
               /\ (libraryList'.more <=> libraryList'.next < Len(Library!Listed(folder)')))
    BY DEF ReadInv, FirstOf
  <2> QED BY <1>1, <1>5, <2>1
<1> QED BY <1>3, <1>6 DEF LbInv

(* Nothing that the reads are about changes.                                    *)
ReadsUntouched == UNCHANGED <<favorites, filed, folder, libraryList, request, unread>>
LEMMA UnreadKeeps ==
  ASSUME LbInv, ReadsUntouched, batch' \in {"none", "remove", "clear", "organize"},
             batch' = "none" => batch = "none"
  PROVE  LbInv'
<1>1. Library!Listed(folder)' = Library!Listed(folder)
  BY DEF ReadsUntouched, Library!Listed, Library!Matches, Library!Games
<1>2. LbTypes'
  BY DEF LbInv, LbTypes, ReadsUntouched, States, LibraryRequests, LibraryKinds
<1>3. ReadInv'
  BY <1>1 DEF LbInv, ReadInv, ReadsUntouched, FirstOf
<1> QED BY <1>2, <1>3 DEF LbInv

(* Whatever was read does not count.                                           *)
LEMMA StaleKeeps ==
  ASSUME LbInv, UNCHANGED <<libraryList, request>>, unread' \in BOOLEAN, unread' \/ batch' # "none",
         batch' \in {"none", "remove", "clear", "organize"}
  PROVE  LbInv'
<1>1. LbTypes'
  BY DEF LbInv, LbTypes, States, LibraryRequests, LibraryKinds
<1> QED BY <1>1 DEF LbInv, ReadInv
-------------------------------------------------------------------------------
LEMMA AnsweredKeeps ==
  ASSUME LbInv, Library!Answered
  PROVE  LbInv'
<1> DEFINE page == Library!Page(request.offset)
           items == Library!Merge(request.items, page)
           offset == request.offset + Len(page)
           more == page # <<>> /\ offset < Len(Library!Listed(folder))
<1>1. /\ request \in LibraryRequests /\ libraryList \in States /\ request.offset \in Nat
      /\ request.items \in Seq(Nat) /\ unread \in BOOLEAN
  BY DEF LbInv, LbTypes, LibraryRequests
<1>2. page \in Seq(Nat) /\ Len(page) \in Nat
  BY <1>1, LibraryPageIs
<1>3. offset \in Nat /\ items \in Seq(Nat) /\ more \in BOOLEAN
  <2>1. offset \in Nat
    BY <1>1, <1>2
  <2>2. items \in Seq(Nat)
    BY <1>1, <1>2, LibraryMergeIs
  <2>3. more \in BOOLEAN
    OBVIOUS
  <2> QED BY <2>1, <2>2, <2>3
<1>4. FirstOf(Library!Listed(folder), request.items, request.offset) =>
        /\ FirstOf(Library!Listed(folder), items, offset)
        /\ (more <=> offset < Len(Library!Listed(folder)))
  BY <1>1, MergeFirst
<1>5. UNCHANGED <<favorites, filed, folder, batch, unread>>
  BY DEF Library!Answered, Library!server
<1>6. Library!Listed(folder)' = Library!Listed(folder)
  BY <1>5 DEF Library!Listed, Library!Matches, Library!Games
<1>7. request.kind # "none"
  BY DEF Library!Answered, LbInv, LbTypes
<1>8. \/ /\ request.kind = "refresh" /\ request' = [request EXCEPT !.offset = offset,
                !.items = items]
         /\ UNCHANGED libraryList
      \/ /\ libraryList' = [libraryList EXCEPT !.read = TRUE, !.items = items, !.next = offset,
                !.more = more]
         /\ request' = Library!None
  BY DEF Library!Answered
<1>9. batch \in {"none", "remove", "clear", "organize"}
  BY DEF LbInv, LbTypes
<1>10. batch = "none" /\ ~unread =>
           FirstOf(Library!Listed(folder), items, offset) /\ (more <=>
               offset < Len(Library!Listed(folder)))
  BY <1>4, <1>7 DEF LbInv, ReadInv
<1> HIDE DEF page, items, offset, more
<1>11. CASE /\ request.kind = "refresh"
            /\ request' = [request EXCEPT !.offset = offset, !.items = items]
            /\ UNCHANGED libraryList
  <2>1. /\ request' \in LibraryRequests /\ request'.kind = "refresh" /\ request'.offset = offset
        /\ request'.items = items
    BY <1>1, <1>3, <1>11 DEF LibraryRequests
  <2>2. LbTypes'
    BY <1>1, <1>5, <1>9, <1>11, <2>1 DEF LbInv, LbTypes, States, LibraryRequests, LibraryKinds
  <2>3. ReadInv'
    BY <1>5, <1>6, <1>10, <2>1 DEF ReadInv, FirstOf
  <2> QED BY <2>2, <2>3 DEF LbInv
<1>12. CASE /\ libraryList' = [libraryList EXCEPT !.read = TRUE, !.items = items, !.next = offset,
                   !.more = more]
            /\ request' = Library!None
  <2>1. request' \in LibraryRequests /\ request'.kind = "none"
    BY <1>12 DEF LibraryRequests, LibraryKinds, Library!None
  <2>2. /\ libraryList' \in States /\ libraryList'.items = items /\ libraryList'.next = offset
        /\ libraryList'.more = more
    BY <1>1, <1>3, <1>12 DEF States
  <2>3. LbTypes'
    BY <1>1, <1>5, <1>9, <1>12, <2>1, <2>2 DEF LbInv, LbTypes, States, LibraryRequests,
        LibraryKinds, Library!None
  <2>4. ReadInv'
    BY <1>5, <1>6, <1>10, <2>1, <2>2 DEF ReadInv, FirstOf
  <2> QED BY <2>3, <2>4 DEF LbInv
<1> QED BY <1>8, <1>11, <1>12

LEMMA ReadFailsKeeps ==
  ASSUME LbInv, Library!ReadFails
  PROVE  LbInv'
<1>1. /\ request' = Library!None /\ libraryList' = [libraryList EXCEPT !.failed = TRUE]
      /\ UNCHANGED <<favorites, filed, folder, batch, unread>> /\ request.kind # "none"
  BY DEF Library!ReadFails, Library!server, LbInv, LbTypes
<1>2. libraryList \in States /\ (request.kind = "refresh" => libraryList.refresh)
  BY DEF LbInv, LbTypes
<1>3. request' \in LibraryRequests /\ request'.kind = "none"
  BY <1>1 DEF LibraryRequests, LibraryKinds, Library!None
<1>4. /\ libraryList' \in States /\ libraryList'.items = libraryList.items
      /\ libraryList'.next = libraryList.next /\ libraryList'.more = libraryList.more
      /\ libraryList'.read = libraryList.read /\ libraryList'.refresh = libraryList.refresh
      /\ libraryList'.failed
  BY <1>1, <1>2 DEF States
<1>5. Library!Listed(folder)' = Library!Listed(folder)
  BY <1>1 DEF Library!Listed, Library!Matches, Library!Games
<1>6. LbTypes'
  BY <1>1, <1>3, <1>4 DEF LbInv, LbTypes, States, LibraryRequests, LibraryKinds, Library!None
<1>7. ReadInv'
  BY <1>1, <1>2, <1>3, <1>4, <1>5 DEF LbInv, ReadInv, FirstOf
<1> QED BY <1>6, <1>7 DEF LbInv

LEMMA MoreKeeps ==
  ASSUME LbInv, Library!More
  PROVE  LbInv'
<1>1. libraryList.read /\ request = Library!None /\ UNCHANGED <<favorites, filed, folder, batch>>
  BY DEF Library!More, Library!server
<1>2. batch' \in {"none", "remove", "clear", "organize"} /\ libraryList \in States
  BY <1>1 DEF LbInv, LbTypes
<1>3. CASE libraryList.failed /\ libraryList.refresh /\ Library!Refresh(libraryList)
  BY <1>2, <1>3, RefreshKeeps
<1>4. CASE /\ libraryList.more /\ (libraryList.failed => ~libraryList.refresh)
           /\ libraryList' = [libraryList EXCEPT !.failed = FALSE, !.refresh = FALSE]
           /\ request' = [Library!None EXCEPT !.kind = "more", !.offset = libraryList.next,
                  !.items = libraryList.items]
           /\ UNCHANGED unread
  <2>1. request' = [kind |-> "more", offset |-> libraryList.next, target |-> 0,
            items |-> libraryList.items]
    BY <1>4 DEF Library!None
  <2>2. /\ request' \in LibraryRequests /\ request'.kind = "more"
        /\ request'.offset = libraryList.next
        /\ request'.items = libraryList.items
    BY <1>2, <2>1 DEF LibraryRequests, States, LibraryKinds
  <2>3. /\ libraryList' \in States /\ libraryList'.items = libraryList.items
        /\ libraryList'.next = libraryList.next /\ libraryList'.more = libraryList.more
    BY <1>2, <1>4 DEF States
  <2>4. Library!Listed(folder)' = Library!Listed(folder)
    BY <1>1 DEF Library!Listed, Library!Matches, Library!Games
  <2>5. LbTypes'
    BY <1>2, <1>4, <2>2, <2>3 DEF LbInv, LbTypes, States, LibraryRequests, LibraryKinds
  <2>6. request.kind = "none"
    BY <1>1 DEF Library!None
  <2>7. ReadInv'
    BY <1>1, <1>4, <2>2, <2>3, <2>4, <2>6 DEF LbInv, ReadInv, FirstOf
  <2> QED BY <2>5, <2>7 DEF LbInv
<1> QED BY <1>3, <1>4 DEF Library!More

LEMMA BlankIs == Library!Blank \in States
BY DEF Library!Blank, States

LEMMA ServedKeeps ==
  ASSUME LbInv, Library!Changed \/ Library!Retry \/ Library!Makes \/ Library!Deletes \/ (\E f \in
             {"all", "none", "folder"} : Library!Filters(f))
  PROVE  LbInv'
<1>1. libraryList \in States /\ batch \in {"none", "remove", "clear", "organize"}
  BY DEF LbInv, LbTypes
<1>2. CASE Library!Changed
  BY <1>1, <1>2, RefreshKeeps DEF Library!Changed
<1>3. CASE Library!Retry
  BY <1>1, <1>3, RefreshKeeps DEF Library!Retry
<1>4. CASE Library!Makes
  BY <1>1, <1>4, RefreshKeeps DEF Library!Makes
<1>5. CASE Library!Deletes
  BY <1>1, <1>5, BlankIs, RefreshKeeps DEF Library!Deletes
<1>6. CASE \E f \in {"all", "none", "folder"} : Library!Filters(f)
  BY <1>1, <1>6, BlankIs, RefreshKeeps DEF Library!Filters
<1> QED BY <1>2, <1>3, <1>4, <1>5, <1>6

LEMMA CallsKeep ==
  ASSUME LbInv, NEW c \in calls, Library!Lands(c) \/ Library!CallFails(c)
  PROVE  LbInv'
<1>1. /\ libraryList \in States /\ unread \in BOOLEAN
      /\ batch \in {"none", "remove", "clear", "organize"}
  BY DEF LbInv, LbTypes
<1>2. CASE Library!Lands(c)
  <2>1. UNCHANGED <<libraryList, request, batch>> /\ unread' = (unread \/ batch = "none")
    BY <1>2 DEF Library!Lands
  <2>2. unread' \in BOOLEAN
    BY <2>1
  <2> QED BY <1>1, <2>1, <2>2, StaleKeeps
<1>3. CASE Library!CallFails(c) /\ batch \in {"remove", "clear"}
  BY <1>1, <1>3, RefreshKeeps DEF Library!CallFails
<1>4. CASE Library!CallFails(c) /\ batch = "organize"
  <2>1. /\ UNCHANGED <<libraryList, request>> /\ unread' = (unread \/ batch = "organize")
        /\ batch' = "none"
    BY <1>4 DEF Library!CallFails
  <2>2. unread' \in BOOLEAN
    BY <2>1
  <2> QED BY <1>4, <2>1, <2>2, StaleKeeps
<1>5. CASE Library!CallFails(c) /\ batch = "none"
  <2>1. /\ UNCHANGED <<libraryList, request, favorites, filed, folder>>
        /\ unread' = (unread \/ batch = "organize") /\ batch' = "none"
    BY <1>5 DEF Library!CallFails, Library!server
  <2>2. unread' = unread
    BY <1>1, <1>5, <2>1
  <2> QED BY <1>5, <2>1, <2>2, UnreadKeeps DEF ReadsUntouched
<1> QED BY <1>1, <1>2, <1>3, <1>4, <1>5

LEMMA UsesKeep ==
  ASSUME LbInv,
         \/ Library!FoldersRead \/ Library!Toggles \/ Library!AsksRemove \/ Library!Removes \/ Library!Clears
         \/ Library!DetailsRead \/ Library!Checks \/ Library!Saves \/ Library!Cancels \/ Library!AsksFolder
         \/ \E g \in Library!Games : Library!Chooses(g) \/ Library!RemovesOne(g)
         \/ \E ids \in SUBSET Library!Games : Library!Organizes(ids)
  PROVE  LbInv'
<1>1. batch \in {"none", "remove", "clear", "organize"}
  BY DEF LbInv, LbTypes
<1>2. ReadsUntouched
  BY DEF ReadsUntouched, Library!server, Library!FoldersRead, Library!Toggles, Library!AsksRemove,
      Library!Removes, Library!Clears, Library!DetailsRead, Library!Checks, Library!Saves,
      Library!Cancels,
         Library!AsksFolder, Library!Chooses, Library!RemovesOne, Library!Organizes
<1>3. batch' = batch \/ batch' \in {"remove", "clear", "organize"}
  BY DEF Library!FoldersRead, Library!Toggles, Library!AsksRemove, Library!Removes,
      Library!Clears, Library!DetailsRead, Library!Checks, Library!Saves, Library!Cancels,
         Library!AsksFolder, Library!Chooses, Library!RemovesOne, Library!Organizes, Library!Starts
<1> QED BY <1>1, <1>2, <1>3, UnreadKeeps

LEMMA LibraryStep == LbInv /\ [Library!Next]_Library!vars => LbInv'
<1> SUFFICES ASSUME LbInv, [Library!Next]_Library!vars PROVE LbInv'
  OBVIOUS
<1>1. CASE UNCHANGED Library!vars
  <2>1. UNCHANGED <<favorites, filed, folder, libraryList, request, unread, batch>>
    BY <1>1 DEF Library!vars
  <2>2. batch \in {"none", "remove", "clear", "organize"}
    BY DEF LbInv, LbTypes
  <2> QED BY <2>1, <2>2, UnreadKeeps DEF ReadsUntouched
<1>2. CASE Library!Next
  BY <1>2, MoreKeeps, AnsweredKeeps, ReadFailsKeeps, ServedKeeps, CallsKeep,
      UsesKeep DEF Library!Next
<1> QED BY <1>1, <1>2

LEMMA LibraryInit == Library!Init => LbInv
<1> SUFFICES ASSUME Library!Init PROVE LbInv
  OBVIOUS
<1>1. /\ libraryList = Library!Blank
      /\ request = [Library!None EXCEPT !.kind = "refresh", !.target = PageSize] /\ batch = "none"
      /\ unread = FALSE
  BY DEF Library!Init
<1>2. request = [kind |-> "refresh", offset |-> 0, target |-> PageSize, items |-> <<>>]
  BY <1>1 DEF Library!None
<1>3. /\ request \in LibraryRequests /\ request.kind = "refresh" /\ request.offset = 0
      /\ request.items = <<>>
  BY <1>2, LibraryAssumption DEF LibraryRequests, LibraryKinds
<1>4. libraryList \in States /\ libraryList.refresh
  BY <1>1 DEF Library!Blank, States
<1>5. LbTypes
  <2>1. unread \in BOOLEAN
    BY <1>1
  <2> QED BY <1>1, <1>3, <1>4, <2>1 DEF LbTypes
<1>6. Len(Library!Listed(folder)) \in Nat
  BY ListedIs DEF ListOnce
<1>7. FirstOf(Library!Listed(folder), request.items, request.offset)
  BY <1>3, <1>6 DEF FirstOf
<1>8. ReadInv
  BY <1>3, <1>7 DEF ReadInv
<1> QED BY <1>5, <1>8 DEF LbInv

LEMMA LibraryImplies == LbInv => Library!ListIsCurrent
<1> SUFFICES ASSUME LbInv, libraryList.read, request = Library!None, batch = "none", ~unread,
        ~libraryList.failed
             PROVE  /\ Len(libraryList.items) <= Len(Library!Listed(folder))
                    /\ \A i \in DOMAIN libraryList.items :
                           libraryList.items[i] = Library!Listed(folder)[i]
                    /\ libraryList.more <=> Len(libraryList.items) < Len(Library!Listed(folder))
  BY DEF Library!ListIsCurrent
<1>1. request.kind = "none"
  BY DEF Library!None
<1> QED BY <1>1 DEF LbInv, ReadInv, FirstOf

LibraryPart == pagesPart = "library" => LbInv

(* However pages, changes of several games, failures and filters overtake one another: once     *)
(* everything is answered the cards are the first of the server's list, and it is known whether *)
(* more follow (useInfiniteResource).                                                        *)
THEOREM ListStaysCurrent == PagesSpec => []ListIsCurrent
<1>1. PagesInit => LibraryPart
  BY LibraryInit DEF PagesInit, LibraryPart
<1>2. LibraryPart /\ [PagesNext]_pagesVars => LibraryPart'
  <2> SUFFICES ASSUME LibraryPart, [PagesNext]_pagesVars, pagesPart' = "library" PROVE LbInv'
    BY DEF LibraryPart
  <2>1. pagesPart' = pagesPart /\ [Library!Next]_Library!vars
    <3>1. CASE PagesNext
      BY <3>1 DEF PagesNext
    <3>2. CASE UNCHANGED pagesVars
      BY <3>2 DEF pagesVars, libraryVars, Library!vars
    <3> QED BY <3>1, <3>2
  <2> QED BY <2>1, LibraryStep DEF LibraryPart
<1>3. LibraryPart => ListIsCurrent
  BY LibraryImplies DEF LibraryPart, ListIsCurrent
<1> QED BY <1>1, <1>2, <1>3, PTL DEF PagesSpec

-----------------------------------------------------------------------------
(* The game editor (GameEditor): at most one request for a page has a say; the rows *)
(* are the first of what is found; an edit whose answer is due is still awaited.    *)
SearchTexts == {"", "text"}
PageCalls == [kind : {"page", "refresh"}, list : Editor!Lists, text : SearchTexts, offset : Nat,
    live : BOOLEAN]
SetCalls == [kind : {"set"}, list : Editor!Lists, id : Nat, value : BOOLEAN, live : BOOLEAN]
RowType == [id : Nat, value : BOOLEAN]
EdTypes ==
  /\ picked \in Editor!Lists /\ editorFilter \in SearchTexts /\ due \in BOOLEAN
  /\ editorRows \in Seq(RowType) /\ nextOffset \in Nat \cup {Editor!None}
  /\ loading \in BOOLEAN /\ failed \in BOOLEAN /\ overtaken \in BOOLEAN
  /\ editorCalls \in Seq(PageCalls \cup SetCalls)
  /\ DOMAIN values = Editor!Lists
  /\ \A l \in Editor!Lists : values[l] \in [Editor!Rows(l) -> BOOLEAN]

(* Who still has a say: what was asked for the list that is shown, and of pages one. *)
LiveCall(i) == i \in DOMAIN editorCalls /\ editorCalls[i].live
LiveFirstPage(i) == LiveCall(i) /\ editorCalls[i].kind = "page" /\ editorCalls[i].offset = 0
CallsInv ==
  /\ \A i \in DOMAIN editorCalls : editorCalls[i].live => editorCalls[i].list = picked /\ ~due
  /\ \A i \in DOMAIN editorCalls : editorCalls[i].live /\ editorCalls[i].kind # "set" =>
         editorCalls[i].text = editorFilter
  /\ \A i \in DOMAIN editorCalls : editorCalls[i].live /\ editorCalls[i].kind = "refresh" =>
         picked[1] = "party"
  /\ \A i, j \in DOMAIN editorCalls :
         /\ editorCalls[i].live /\ editorCalls[i].kind = "page"
         /\ editorCalls[j].live /\ editorCalls[j].kind = "page"
         => i = j
  /\ \A i \in DOMAIN editorCalls : LiveFirstPage(i) =>
         i = Len(editorCalls) /\ \A j \in DOMAIN editorCalls : editorCalls[j].live => j = i
  /\ due => loading
  /\ ~due => (loading <=> \E i \in DOMAIN editorCalls : LiveFirstPage(i))

RowsInv ==
  LET found == Editor!Matches(picked, editorFilter) IN
  /\ Len(editorRows) <= Len(found)
  /\ \A i \in DOMAIN editorRows : editorRows[i].id = found[i]
  /\ nextOffset # Editor!None =>
       /\ nextOffset = Len(editorRows) /\ Len(editorRows) < Len(found)
       /\ Len(editorRows) >= EditorPageSize
  /\ nextOffset = Editor!None /\ ~loading =>
         \/ Len(editorRows) = Len(found)
         \/ failed /\ editorRows = <<>> /\ \A i \in DOMAIN editorCalls : ~editorCalls[i].live
  /\ \A i \in DOMAIN editorCalls :
         editorCalls[i].live /\ editorCalls[i].kind = "page" /\ editorCalls[i].offset # 0 =>
             editorCalls[i].offset = nextOffset

ValuesShown == \A i \in DOMAIN editorRows : editorRows[i].value = values[picked][editorRows[i].id]
ValuesInv ==
  ~due /\ ~loading /\ ~overtaken =>
    /\ \A i \in DOMAIN editorCalls : editorCalls[i].kind = "set" => editorCalls[i].live
    /\ \/ ValuesShown
       \/ /\ picked[1] = "party"
          /\ failed \/ \E i \in DOMAIN editorCalls :
                 editorCalls[i].live /\ editorCalls[i].kind = "refresh"
EdInv == EdTypes /\ CallsInv /\ RowsInv /\ ValuesInv

-------------------------------------------------------------------------------
LEMMA ListIs ==
  ASSUME NEW list \in Editor!Lists
  PROVE  list[1] \in {"variables", "party", "classes", "actors"}
BY DEF Editor!Lists

LEMMA FoundIs ==
  ASSUME NEW list \in Editor!Lists, NEW text \in SearchTexts
  PROVE  LET found == Editor!Matches(list, text) IN
         /\ Editor!Length(list) \in Nat
         /\ (list[1] = "party" => Editor!Length(list) = EditorPageSize)
         /\ Len(found) \in Nat /\ DOMAIN found = 1 .. Len(found)
         /\ Len(found) <= Editor!Length(list)
         /\ \A i \in DOMAIN found : found[i] \in Editor!Rows(list)
<1>1. Editor!Length(list) \in Nat /\ (list[1] = "party" => Editor!Length(list) = EditorPageSize)
  BY ShellAssumption DEF Editor!Length
<1> DEFINE n == Editor!Length(list)
<1>2. CASE text = ""
  <2>1. Editor!Matches(list, text) = [i \in 1 .. n |-> i]
    BY <1>2 DEF Editor!Matches, Editor!Rows
  <2>2. Editor!Matches(list, text) \in Seq(Nat) /\ Len(Editor!Matches(list, text)) = n
    BY <1>1, <2>1
  <2> QED BY <1>1, <2>1, <2>2 DEF Editor!Rows
<1>3. CASE text # ""
  <2> DEFINE m == (n + 1) \div 2
  <2>1. Editor!Matches(list, text) = [i \in 1 .. m |-> 2 * i - 1]
    BY <1>3 DEF Editor!Matches
  <2>2. m \in Nat /\ m <= n /\ 2 * m - 1 <= n
    BY <1>1
  <2>3. Editor!Matches(list, text) \in Seq(Nat) /\ Len(Editor!Matches(list, text)) = m
    <3> HIDE DEF m
    <3>1. \A i \in 1 .. m : 2 * i - 1 \in Nat
      BY <2>2
    <3> QED BY <2>1, <2>2, <3>1
  <2>4. \A i \in 1 .. m : 2 * i - 1 \in 1 .. n
    <3> HIDE DEF m
    <3> QED BY <1>1, <2>2
  <2> HIDE DEF m, n
  <2> QED BY <1>1, <2>1, <2>2, <2>3, <2>4 DEF Editor!Rows, n
<1> QED BY <1>2, <1>3

LEMMA EditorPageIs ==
  ASSUME EdTypes, NEW list \in Editor!Lists, NEW text \in SearchTexts, NEW offset \in Nat,
             offset <= Len(Editor!Matches(list, text))
  PROVE  LET found == Editor!Matches(list, text)
             page == Editor!Page(list, text, offset)
             got == Len(page.entries)
         IN  /\ page.entries \in Seq(RowType) /\ got \in Nat /\ offset + got <= Len(found)
             /\ DOMAIN page.entries = 1 .. got
             /\ \A i \in 1 .. got : /\ page.entries[i].id = found[offset + i]
                                    /\ page.entries[i].value = values[list][found[offset + i]]
             /\ page.nextOffset = IF offset + got < Len(found) THEN offset + got ELSE Editor!None
             /\ page.nextOffset # Editor!None => got = EditorPageSize
<1> DEFINE found == Editor!Matches(list, text)
           last == IF offset + EditorPageSize < Len(found) THEN offset + EditorPageSize
               ELSE Len(found)
           at(i) == [id |-> found[offset + i], value |-> values[list][found[offset + i]]]
           entries == [i \in 1 .. (last - offset) |-> at(i)]
<1>0. Len(found) \in Nat
  BY FoundIs
<1>1. \A i \in 1 .. Len(found) : found[i] \in Editor!Rows(list)
  BY FoundIs
<1>a. Editor!Length(list) \in Nat
  BY FoundIs
<1> HIDE DEF found
<1>2. /\ last \in Nat /\ offset <= last /\ last <= Len(found) /\ last - offset \in Nat
      /\ last # Len(found) => last = offset + EditorPageSize
  BY <1>0, ShellAssumption DEF found
<1>3. Editor!Page(list, text, offset) = [entries |-> entries, nextOffset |-> IF last < Len(found)
          THEN last ELSE Editor!None]
  BY DEF Editor!Page, found
<1> HIDE DEF last
<1>4. ASSUME NEW i \in 1 .. (last - offset)
      PROVE  /\ at(i) \in RowType /\ at(i).id = found[offset + i]
             /\ at(i).value = values[list][found[offset + i]]
  <2>1. offset + i \in 1 .. Len(found)
    <3>1. i \in Nat /\ 1 <= i /\ i <= last - offset
      BY <1>2
    <3> QED BY <1>0, <1>2, <3>1
  <2>2. found[offset + i] \in Editor!Rows(list) /\ found[offset + i] \in Nat
    BY <1>1, <1>a, <2>1 DEF Editor!Rows
  <2>3. values[list][found[offset + i]] \in BOOLEAN
    BY <2>2 DEF EdTypes
  <2> QED BY <2>2, <2>3 DEF RowType
<1> HIDE DEF at
<1>5. /\ entries \in Seq(RowType) /\ Len(entries) = last - offset
      /\ DOMAIN entries = 1 .. (last - offset)
  BY <1>2, <1>4
<1>6. \A i \in 1 .. (last - offset) : entries[i] = at(i)
  OBVIOUS
<1> HIDE DEF entries
<1>7. /\ Editor!Page(list, text, offset).entries = entries
      /\ Editor!Page(list, text, offset).nextOffset = IF last < Len(found) THEN last
             ELSE Editor!None
  BY <1>3
<1>8. offset + (last - offset) = last
  BY <1>2
<1>9. Editor!None \notin Nat
  BY DEF Editor!None
<1> DEFINE page == Editor!Page(list, text, offset)
           got == Len(page.entries)
<1>10. page.entries \in Seq(RowType) /\ got = last - offset /\ DOMAIN page.entries = 1 .. got
  BY <1>5, <1>7
<1>11. got \in Nat /\ offset + got = last
  BY <1>2, <1>8, <1>10
<1>12. \A i \in 1 .. got : page.entries[i] = at(i)
  BY <1>6, <1>7, <1>10
<1>13. page.nextOffset = IF last < Len(found) THEN last ELSE Editor!None
  BY <1>7
<1>14. page.nextOffset # Editor!None => got = EditorPageSize
  BY <1>0, <1>2, <1>11, <1>13, ShellAssumption DEF Editor!None
<1> HIDE DEF got, page
<1>15. \A i \in 1 .. got : /\ page.entries[i].id = found[offset + i]
                          /\ page.entries[i].value = values[list][found[offset + i]]
  BY <1>4, <1>10, <1>11, <1>12
<1> QED BY <1>2, <1>10, <1>11, <1>13, <1>14, <1>15 DEF found, page, got
-------------------------------------------------------------------------------
GameCalls == PageCalls \cup SetCalls

LEMMA CallDies ==
  ASSUME NEW c \in GameCalls
  PROVE  LET d == [c EXCEPT !.live = FALSE] IN d \in GameCalls /\ ~d.live /\ d.kind = c.kind
<1>1. CASE c \in PageCalls
  BY <1>1 DEF GameCalls, PageCalls
<1>2. CASE c \in SetCalls
  BY <1>2 DEF GameCalls, SetCalls
<1> QED BY <1>1, <1>2 DEF GameCalls

LEMMA DeadIs ==
  ASSUME editorCalls \in Seq(GameCalls)
  PROVE  /\ Editor!Dead \in Seq(GameCalls) /\ Len(Editor!Dead) = Len(editorCalls)
         /\ \A i \in DOMAIN Editor!Dead :
                ~Editor!Dead[i].live /\ Editor!Dead[i].kind = editorCalls[i].kind
<1>1. \A i \in DOMAIN editorCalls :
          LET d == [editorCalls[i] EXCEPT !.live = FALSE] IN d \in GameCalls /\ ~d.live /\ d.kind =
              editorCalls[i].kind
  <2> TAKE i \in DOMAIN editorCalls
  <2>1. editorCalls[i] \in GameCalls
    OBVIOUS
  <2> QED BY <2>1, CallDies
<1>2. DOMAIN editorCalls = 1 .. Len(editorCalls) /\ Len(editorCalls) \in Nat
  OBVIOUS
<1>3. Editor!Dead = [i \in 1 .. Len(editorCalls) |-> [editorCalls[i] EXCEPT !.live = FALSE]]
  BY <1>2 DEF Editor!Dead
<1>4. /\ Editor!Dead \in Seq(GameCalls) /\ Len(Editor!Dead) = Len(editorCalls)
      /\ DOMAIN Editor!Dead = 1 .. Len(editorCalls)
  BY <1>1, <1>2, <1>3
<1> QED BY <1>1, <1>2, <1>3, <1>4

LEMMA TailIs ==
  ASSUME NEW q \in Seq(GameCalls), q # <<>>
  PROVE  /\ Tail(q) \in Seq(GameCalls) /\ Len(Tail(q)) = Len(q) - 1
         /\ DOMAIN Tail(q) = 1 .. Len(q) - 1
         /\ \A i \in DOMAIN Tail(q) : i + 1 \in DOMAIN q /\ Tail(q)[i] = q[i + 1]
         /\ Len(q) \in Nat \ {0} /\ DOMAIN q = 1 .. Len(q) /\ Head(q) = q[1] /\ q[1] \in GameCalls
OBVIOUS

LEMMA AppendIs ==
  ASSUME NEW q \in Seq(GameCalls), NEW c \in GameCalls
  PROVE  /\ Append(q, c) \in Seq(GameCalls) /\ Len(Append(q, c)) = Len(q) + 1 /\ Len(q) \in Nat
         /\ DOMAIN Append(q, c) = 1 .. Len(q) + 1 /\ DOMAIN q = 1 .. Len(q)
         /\ Append(q, c)[Len(q) + 1] = c /\ \A i \in DOMAIN q : Append(q, c)[i] = q[i]
OBVIOUS

(* load: of all that was asked for, the new page alone has a say.             *)
LEMMA LoadIs ==
  ASSUME EdInv, NEW offset \in Nat, NEW asked, Editor!Load(offset, asked)
  PROVE  /\ editorCalls' \in Seq(GameCalls)
         /\ \A i \in DOMAIN editorCalls' : editorCalls'[i].live =>
              /\ i = Len(editorCalls') /\ editorCalls'[i].kind = "page"
              /\ editorCalls'[i].list = picked
              /\ editorCalls'[i].text = editorFilter /\ editorCalls'[i].offset = offset
         /\ Len(editorCalls') \in DOMAIN editorCalls' /\ editorCalls'[Len(editorCalls')].live
         /\ editorCalls'[Len(editorCalls')].kind = "page"
         /\ editorCalls'[Len(editorCalls')].offset = offset
         /\ \A i \in DOMAIN editorCalls' : i # Len(editorCalls') =>
                i \in DOMAIN editorCalls /\ editorCalls'[i].kind = editorCalls[i].kind
         /\ offset # 0 /\ ~overtaken' =>
                ~overtaken /\ \A i \in DOMAIN editorCalls : editorCalls[i].live =>
                    editorCalls[i].kind # "set"
         /\ loading' = (offset = 0 \/ loading) /\ failed' = FALSE
<1> DEFINE c == [kind |-> "page", list |-> picked, text |-> editorFilter, offset |-> offset,
        live |-> TRUE]
<1>1. /\ c \in GameCalls /\ c.live /\ c.kind = "page" /\ c.list = picked /\ c.text = editorFilter
      /\ c.offset = offset
  BY DEF EdInv, EdTypes, GameCalls, PageCalls
<1>2. editorCalls' = Append(Editor!Dead, c)
  BY DEF Editor!Load
<1>3. editorCalls \in Seq(GameCalls)
  BY DEF EdInv, EdTypes, GameCalls
<1>4. /\ Editor!Dead \in Seq(GameCalls) /\ Len(Editor!Dead) = Len(editorCalls)
      /\ \A i \in DOMAIN Editor!Dead :
             ~Editor!Dead[i].live /\ Editor!Dead[i].kind = editorCalls[i].kind
  BY <1>3, DeadIs
<1> HIDE DEF c
<1>5. /\ editorCalls' \in Seq(GameCalls) /\ Len(editorCalls') = Len(Editor!Dead) + 1
      /\ Len(Editor!Dead) \in Nat
      /\ DOMAIN editorCalls' = 1 .. Len(Editor!Dead) + 1
      /\ DOMAIN Editor!Dead = 1 .. Len(Editor!Dead)
      /\ editorCalls'[Len(Editor!Dead) + 1] = c
      /\ \A i \in DOMAIN Editor!Dead : editorCalls'[i] = Editor!Dead[i]
  BY <1>1, <1>2, <1>4, AppendIs
<1>6. \A i \in DOMAIN editorCalls' : i # Len(editorCalls') =>
          i \in DOMAIN editorCalls /\ editorCalls'[i].kind =
              editorCalls[i].kind /\ ~editorCalls'[i].live
  BY <1>3, <1>4, <1>5
<1>7. Len(editorCalls') \in DOMAIN editorCalls' /\ editorCalls'[Len(editorCalls')] = c
  BY <1>5
<1>8. offset # 0 /\ ~overtaken' =>
          ~overtaken /\ \A i \in DOMAIN editorCalls : editorCalls[i].live =>
              editorCalls[i].kind # "set"
  BY DEF Editor!Load, Editor!LiveEdits
<1>9. loading' = (offset = 0 \/ loading) /\ failed' = FALSE
  BY DEF Editor!Load, EdInv, EdTypes
<1> QED BY <1>1, <1>5, <1>6, <1>7, <1>8, <1>9

(* The party has one page.                                                    *)
LEMMA PartyWhole ==
  ASSUME EdInv, picked[1] = "party"
  PROVE  nextOffset = Editor!None
<1>1. picked \in Editor!Lists /\ editorFilter \in SearchTexts /\ Len(editorRows) \in Nat
  BY DEF EdInv, EdTypes
<1>2. /\ Len(Editor!Matches(picked, editorFilter)) \in Nat
      /\ Len(Editor!Matches(picked, editorFilter)) <= EditorPageSize
  BY <1>1, FoundIs
<1> QED BY <1>1, <1>2, ShellAssumption DEF EdInv, RowsInv

LEMMA LoadKeeps ==
  ASSUME EdInv, NEW offset, NEW asked, Editor!Load(offset, asked), due' = FALSE,
         UNCHANGED <<picked, editorFilter, editorRows, nextOffset, values>>,
         offset = 0 \/ (offset = nextOffset /\ nextOffset # Editor!None /\ ~due /\ ~loading)
  PROVE  EdInv'
<1>1. /\ offset \in Nat
      /\ (offset # 0 => offset = nextOffset /\ nextOffset # Editor!None /\ ~due /\ ~loading)
  BY DEF EdInv, EdTypes
<1>2. EdTypes'
  <2>1. overtaken' \in BOOLEAN
    BY DEF Editor!Load, EdInv, EdTypes
  <2>2. editorCalls' \in Seq(GameCalls) /\ loading' \in BOOLEAN /\ failed' = FALSE
    BY <1>1, LoadIs DEF EdInv, EdTypes
  <2> QED BY <2>1, <2>2 DEF EdInv, EdTypes, GameCalls, Editor!Rows, Editor!Length
<1>3. CallsInv'
  <2>1. loading' <=> \E i \in DOMAIN editorCalls' :
            editorCalls'[i].live /\ editorCalls'[i].kind = "page" /\ editorCalls'[i].offset = 0
    BY <1>1, LoadIs
  <2>2. \A i \in DOMAIN editorCalls' : LiveFirstPage(i)' =>
            i = Len(editorCalls') /\ \A j \in DOMAIN editorCalls' : editorCalls'[j].live => j = i
    <3>1. \A j \in DOMAIN editorCalls' : editorCalls'[j].live => j = Len(editorCalls')
      BY <1>1, LoadIs
    <3> QED BY <3>1 DEF LiveFirstPage, LiveCall
  <2> QED BY <1>1, <2>1, <2>2, LoadIs DEF CallsInv, LiveFirstPage, LiveCall
<1>4. RowsInv'
  <2>1. nextOffset = Editor!None /\ ~loading' => FALSE
    BY <1>1, LoadIs
  <2>2. \A i \in DOMAIN editorCalls' : editorCalls'[i].live /\ editorCalls'[i].offset # 0 =>
            editorCalls'[i].offset = nextOffset
    BY <1>1, LoadIs
  <2> QED BY <2>1, <2>2 DEF EdInv, RowsInv, Editor!Matches, Editor!Rows, Editor!Length
<1>5. ValuesInv'
  <2> SUFFICES ASSUME ~loading', ~overtaken'
               PROVE  /\ \A i \in DOMAIN editorCalls' : editorCalls'[i].kind = "set" =>
                             editorCalls'[i].live
                      /\ ValuesShown'
    BY DEF ValuesInv
  <2>1. offset # 0 /\ ~overtaken /\ \A i \in DOMAIN editorCalls : editorCalls[i].live =>
            editorCalls[i].kind # "set"
    BY <1>1, LoadIs
  <2>2. \A i \in DOMAIN editorCalls : editorCalls[i].kind # "set"
    BY <1>1, <2>1 DEF EdInv, ValuesInv
  <2>3. ValuesShown
    BY <1>1, <2>1, PartyWhole DEF EdInv, ValuesInv
  <2>4. \A i \in DOMAIN editorCalls' : editorCalls'[i].kind # "set"
    BY <1>1, <2>2, LoadIs
  <2> QED BY <2>3, <2>4 DEF ValuesShown
<1> QED BY <1>2, <1>3, <1>4, <1>5 DEF EdInv

(* Another list, or another search: nothing that was asked for has a say.      *)
LEMMA ClearedKeeps ==
  ASSUME EdInv, Editor!Cleared, picked' \in Editor!Lists, editorFilter' \in SearchTexts,
             overtaken' = FALSE
  PROVE  EdInv'
<1>1. editorCalls \in Seq(GameCalls)
  BY DEF EdInv, EdTypes, GameCalls
<1>2. editorCalls' \in Seq(GameCalls) /\ \A i \in DOMAIN editorCalls' : ~editorCalls'[i].live
  BY <1>1, DeadIs DEF Editor!Cleared
<1>3. /\ editorRows' = <<>> /\ nextOffset' = Editor!None /\ loading' /\ due' /\ values' = values
      /\ failed' = failed
  BY DEF Editor!Cleared
<1>4. Len(Editor!Matches(picked', editorFilter')) \in Nat
  BY FoundIs
<1>5. EdTypes'
  <2>1. due' \in BOOLEAN /\ loading' \in BOOLEAN /\ overtaken' \in BOOLEAN
    BY DEF Editor!Cleared
  <2> QED BY <1>2, <1>3, <2>1 DEF EdInv, EdTypes, GameCalls, Editor!Rows, Editor!Length
<1>6. CallsInv'
  BY <1>2, <1>3 DEF CallsInv, LiveFirstPage, LiveCall
<1>7. RowsInv'
  <2>1. Editor!Matches(picked, editorFilter)' = Editor!Matches(picked', editorFilter')
    BY DEF Editor!Matches, Editor!Rows, Editor!Length
  <2> QED BY <1>2, <1>3, <1>4, <2>1 DEF RowsInv
<1>8. ValuesInv'
  BY <1>3 DEF ValuesInv
<1> QED BY <1>5, <1>6, <1>7, <1>8 DEF EdInv

LEMMA EditsKeeps ==
  ASSUME EdInv, NEW i \in DOMAIN editorRows, NEW value \in BOOLEAN, Editor!Edits(i, value)
  PROVE  EdInv'
<1> DEFINE c == [kind |-> "set", list |-> picked, id |-> editorRows[i].id, value |-> value,
        live |-> TRUE]
<1>1. c \in GameCalls /\ c.live /\ c.kind = "set" /\ c.list = picked
  <2>1. editorRows[i] \in RowType
    BY DEF EdInv, EdTypes
  <2> QED BY <2>1 DEF EdInv, EdTypes, GameCalls, SetCalls, RowType
<1>2. editorCalls' = Append(editorCalls, c) /\ ~due /\ ~loading
  BY DEF Editor!Edits, Editor!Settled
<1>3. UNCHANGED <<picked, editorFilter, due, editorRows, nextOffset, loading, failed, values,
                  overtaken>>
  BY DEF Editor!Edits, Editor!listVars
<1> HIDE DEF c
<1>4. editorCalls \in Seq(GameCalls)
  BY DEF EdInv, EdTypes, GameCalls
<1>5. /\ editorCalls' \in Seq(GameCalls) /\ Len(editorCalls') = Len(editorCalls) + 1
      /\ Len(editorCalls) \in Nat
      /\ DOMAIN editorCalls' = 1 .. Len(editorCalls) + 1
      /\ DOMAIN editorCalls = 1 .. Len(editorCalls)
      /\ editorCalls'[Len(editorCalls) + 1] = c
      /\ \A j \in DOMAIN editorCalls : editorCalls'[j] = editorCalls[j]
  BY <1>1, <1>2, <1>4, AppendIs
<1>6. \A j \in DOMAIN editorCalls' :
          editorCalls'[j] = c \/ (j \in DOMAIN editorCalls /\ editorCalls'[j] = editorCalls[j])
  BY <1>5
<1>7. \A j \in DOMAIN editorCalls : j \in DOMAIN editorCalls' /\ editorCalls'[j] = editorCalls[j]
  BY <1>5
<1>8. EdTypes'
  BY <1>3, <1>5 DEF EdInv, EdTypes, GameCalls, Editor!Rows, Editor!Length
<1>9. CallsInv'
  <2>1. \A j \in DOMAIN editorCalls : ~LiveFirstPage(j)
    BY <1>2 DEF EdInv, CallsInv
  <2>2. \A j \in DOMAIN editorCalls' :
            ~(editorCalls'[j].live /\ editorCalls'[j].kind = "page" /\ editorCalls'[j].offset = 0)
    BY <1>1, <1>6, <2>1 DEF LiveFirstPage, LiveCall
  <2> QED BY <1>1, <1>2, <1>3, <1>6, <2>2 DEF EdInv, CallsInv, LiveFirstPage, LiveCall
<1>10. RowsInv'
  <2>1. editorRows # <<>>
    BY DEF EdInv, EdTypes
  <2>2. Editor!Matches(picked, editorFilter)' = Editor!Matches(picked, editorFilter)
    BY <1>3 DEF Editor!Matches, Editor!Rows, Editor!Length
  <2> QED BY <1>1, <1>2, <1>3, <1>6, <2>1, <2>2 DEF EdInv, RowsInv
<1>11. ValuesInv'
  <2>1. ValuesShown' <=> ValuesShown
    BY <1>3 DEF ValuesShown
  <2> QED BY <1>1, <1>2, <1>3, <1>6, <1>7, <2>1 DEF EdInv, ValuesInv
<1> QED BY <1>8, <1>9, <1>10, <1>11 DEF EdInv
-------------------------------------------------------------------------------
(* Answers.  What is left to answer.                                          *)
LEMMA RestIs ==
  ASSUME EdInv, Editor!Answered
  PROVE  /\ ~due /\ editorCalls \in Seq(GameCalls) /\ Len(editorCalls) \in Nat \ {0}
         /\ DOMAIN editorCalls = 1 .. Len(editorCalls)
         /\ 1 \in DOMAIN editorCalls /\ Editor!Call = editorCalls[1] /\ Editor!Call \in GameCalls
         /\ Tail(editorCalls) \in Seq(GameCalls) /\ Len(Tail(editorCalls)) = Len(editorCalls) - 1
         /\ DOMAIN Tail(editorCalls) = 1 .. Len(editorCalls) - 1
         /\ \A i \in DOMAIN Tail(editorCalls) :
                i + 1 \in DOMAIN editorCalls /\ Tail(editorCalls)[i] = editorCalls[i + 1]
         /\ \A j \in DOMAIN editorCalls :
                j = 1 \/ (j - 1 \in DOMAIN Tail(editorCalls) /\ Tail(editorCalls)[j - 1] =
                    editorCalls[j])
<1>1. ~due /\ editorCalls # <<>> /\ editorCalls \in Seq(GameCalls)
  BY DEF EdInv, EdTypes, GameCalls, Editor!Answered, Editor!Settled
<1>2. /\ Tail(editorCalls) \in Seq(GameCalls) /\ Len(Tail(editorCalls)) = Len(editorCalls) - 1
      /\ DOMAIN Tail(editorCalls) = 1 .. Len(editorCalls) - 1
      /\ Len(editorCalls) \in Nat \ {0} /\ DOMAIN editorCalls = 1 .. Len(editorCalls)
      /\ Editor!Call = editorCalls[1] /\ editorCalls[1] \in GameCalls
  BY <1>1, TailIs DEF Editor!Call
<1>3. \A i \in DOMAIN Tail(editorCalls) :
          i + 1 \in DOMAIN editorCalls /\ Tail(editorCalls)[i] = editorCalls[i + 1]
  BY <1>1, TailIs
<1>4. \A j \in DOMAIN editorCalls :
          j = 1 \/ (j - 1 \in DOMAIN Tail(editorCalls) /\ Tail(editorCalls)[j - 1] = editorCalls[j])
  <2> TAKE j \in DOMAIN editorCalls
  <2> SUFFICES ASSUME j # 1
               PROVE j - 1 \in DOMAIN Tail(editorCalls) /\ Tail(editorCalls)[j - 1] = editorCalls[j]
    OBVIOUS
  <2>1. j - 1 \in 1 .. Len(editorCalls) - 1 /\ (j - 1) + 1 = j
    BY <1>2
  <2> QED BY <1>2, <1>3, <2>1
<1> QED BY <1>1, <1>2, <1>3, <1>4

LEMMA RestCalls ==
  ASSUME EdInv, Editor!Answered, editorCalls' = Tail(editorCalls),
             ~(Editor!Call.live /\ Editor!Call.kind = "page"),
         UNCHANGED <<picked, editorFilter, due, loading>>
  PROVE  CallsInv'
<1>1. \A i \in DOMAIN editorCalls' :
          i + 1 \in DOMAIN editorCalls /\ editorCalls'[i] = editorCalls[i + 1]
  BY RestIs
<1>2. \A j \in DOMAIN editorCalls : editorCalls[j].live /\ editorCalls[j].kind = "page" =>
          j - 1 \in DOMAIN editorCalls' /\ editorCalls'[j - 1] = editorCalls[j]
  BY RestIs
<1>3. /\ Len(editorCalls') = Len(editorCalls) - 1 /\ Len(editorCalls) \in Nat /\ ~due
      /\ DOMAIN editorCalls' \subseteq Nat
  BY RestIs
<1>4. \A i \in DOMAIN editorCalls' : LiveFirstPage(i)' => LiveFirstPage(i + 1)
  BY <1>1 DEF LiveFirstPage, LiveCall
<1>5. \A i \in DOMAIN editorCalls' : LiveFirstPage(i)' =>
          i = Len(editorCalls') /\ \A j \in DOMAIN editorCalls' : editorCalls'[j].live => j = i
  <2> TAKE i \in DOMAIN editorCalls'
  <2> HAVE LiveFirstPage(i)'
  <2>1. i + 1 = Len(editorCalls) /\ \A j \in DOMAIN editorCalls' : editorCalls'[j].live =>
            j + 1 = i + 1
    BY <1>1, <1>4 DEF EdInv, CallsInv
  <2> QED BY <1>3, <2>1
<1>6. (\E i \in DOMAIN editorCalls : LiveFirstPage(i)) <=>
          (\E i \in DOMAIN editorCalls' : LiveFirstPage(i)')
  BY <1>1, <1>2, <1>4 DEF LiveFirstPage, LiveCall
<1>7. \A i, j \in DOMAIN editorCalls' :
        editorCalls'[i].live /\ editorCalls'[i].kind =
            "page" /\ editorCalls'[j].live /\ editorCalls'[j].kind = "page" => i = j
  <2> TAKE i, j \in DOMAIN editorCalls'
  <2> HAVE editorCalls'[i].live /\ editorCalls'[i].kind =
          "page" /\ editorCalls'[j].live /\ editorCalls'[j].kind = "page"
  <2>1. i + 1 = j + 1
    BY <1>1 DEF EdInv, CallsInv
  <2> QED BY <1>3, <2>1
<1>8. \A i \in DOMAIN editorCalls' :
        /\ editorCalls'[i].live => editorCalls'[i].list = picked
        /\ editorCalls'[i].live /\ editorCalls'[i].kind # "set" =>
               editorCalls'[i].text = editorFilter
        /\ editorCalls'[i].live /\ editorCalls'[i].kind = "refresh" => picked[1] = "party"
  BY <1>1 DEF EdInv, CallsInv
<1> QED BY <1>3, <1>5, <1>6, <1>7, <1>8 DEF EdInv, CallsInv

LEMMA RestRows ==
  ASSUME EdInv, Editor!Answered, editorCalls' = Tail(editorCalls),
             ~(Editor!Call.live /\ Editor!Call.kind = "page"),
         UNCHANGED <<picked, editorFilter, nextOffset, loading>>,
         editorRows' \in Seq(RowType), Len(editorRows') = Len(editorRows),
             DOMAIN editorRows' = DOMAIN editorRows, \A i \in DOMAIN editorRows :
                 editorRows'[i].id = editorRows[i].id,
         ~failed' => ~failed \/ Editor!Call.live
  PROVE  RowsInv'
<1>1. \A i \in DOMAIN editorCalls' :
          i + 1 \in DOMAIN editorCalls /\ editorCalls'[i] = editorCalls[i + 1]
  BY RestIs
<1>2. Editor!Matches(picked, editorFilter)' = Editor!Matches(picked, editorFilter)
  BY DEF Editor!Matches, Editor!Rows, Editor!Length
<1>3. Editor!Call = editorCalls[1] /\ 1 \in DOMAIN editorCalls
  BY RestIs
<1>4. ASSUME failed, editorRows = <<>>, \A i \in DOMAIN editorCalls : ~editorCalls[i].live
      PROVE  failed' /\ editorRows' = <<>> /\ \A i \in DOMAIN editorCalls' : ~editorCalls'[i].live
  <2>1. ~Editor!Call.live /\ \A i \in DOMAIN editorCalls' : ~editorCalls'[i].live
    BY <1>1, <1>3, <1>4
  <2>2. editorRows' = <<>>
    BY <1>4
  <2> QED BY <1>4, <2>1, <2>2
<1>5. \A i \in DOMAIN editorCalls' :
          editorCalls'[i].live /\ editorCalls'[i].kind = "page" /\ editorCalls'[i].offset # 0 =>
              editorCalls'[i].offset = nextOffset
  BY <1>1 DEF EdInv, RowsInv
<1> QED BY <1>2, <1>4, <1>5 DEF EdInv, RowsInv

(* The page that has a say.                                                   *)
LEMMA ReadIs ==
  ASSUME EdInv, Editor!Answered, Editor!Call.live, Editor!Call.kind = "page"
  PROVE  /\ Editor!Call.list = picked /\ Editor!Call.text = editorFilter
         /\ Editor!Call.offset \in Nat
         /\ Editor!Call.offset = 0 => Tail(editorCalls) = <<>>
         /\ Editor!Call.offset # 0 =>
                Editor!Call.offset =
                    nextOffset /\ ~loading /\ nextOffset # Editor!None /\ picked[1] # "party"
         /\ \A i \in DOMAIN Tail(editorCalls) : Tail(editorCalls)[i].live =>
                Tail(editorCalls)[i].kind # "page"
<1>1. /\ ~due /\ Len(editorCalls) \in Nat \ {0} /\ 1 \in DOMAIN editorCalls
      /\ Editor!Call = editorCalls[1] /\ Editor!Call \in GameCalls
      /\ Tail(editorCalls) \in Seq(GameCalls) /\ Len(Tail(editorCalls)) = Len(editorCalls) - 1
      /\ DOMAIN Tail(editorCalls) = 1 .. Len(editorCalls) - 1
      /\ \A i \in DOMAIN Tail(editorCalls) :
             i + 1 \in DOMAIN editorCalls /\ Tail(editorCalls)[i] = editorCalls[i + 1]
  BY RestIs
<1>2. Editor!Call.list = picked /\ Editor!Call.text = editorFilter /\ Editor!Call.offset \in Nat
  BY <1>1 DEF EdInv, CallsInv, GameCalls, PageCalls, SetCalls
<1>3. ASSUME Editor!Call.offset = 0 PROVE Tail(editorCalls) = <<>>
  <2>1. Len(editorCalls) = 1
    BY <1>1, <1>3 DEF EdInv, CallsInv, LiveFirstPage, LiveCall
  <2> QED BY <1>1, <2>1
<1>4. ASSUME Editor!Call.offset # 0
      PROVE Editor!Call.offset =
                nextOffset /\ ~loading /\ nextOffset # Editor!None /\ picked[1] # "party"
  <2>1. \A i \in DOMAIN editorCalls : ~LiveFirstPage(i)
    BY <1>1, <1>4 DEF EdInv, CallsInv, LiveFirstPage, LiveCall
  <2>2. ~loading
    BY <1>1, <2>1 DEF EdInv, CallsInv
  <2>3. Editor!Call.offset = nextOffset
    BY <1>1, <1>4 DEF EdInv, RowsInv
  <2>4. nextOffset # Editor!None
    BY <1>2, <2>3 DEF Editor!None
  <2> QED BY <2>2, <2>3, <2>4, PartyWhole
<1>5. \A i \in DOMAIN Tail(editorCalls) : Tail(editorCalls)[i].live =>
          Tail(editorCalls)[i].kind # "page"
  <2> SUFFICES ASSUME NEW i \in DOMAIN Tail(editorCalls), Tail(editorCalls)[i].live,
          Tail(editorCalls)[i].kind = "page" PROVE FALSE
    OBVIOUS
  <2>1. i + 1 = 1 /\ i \in 1 .. Len(editorCalls) - 1
    BY <1>1 DEF EdInv, CallsInv
  <2> QED BY <1>1, <2>1
<1> QED BY <1>2, <1>3, <1>4, <1>5

(* What the game has of a list, from an offset on.                            *)
PageOf(page, list, text, offset) ==
  LET found == Editor!Matches(list, text) IN
  /\ page.entries \in Seq(RowType) /\ offset + Len(page.entries) <= Len(found)
  /\ \A i \in 1 .. Len(page.entries) : /\ page.entries[i].id = found[offset + i]
                                        /\ page.entries[i].value = values[list][found[offset + i]]
  /\ page.nextOffset = IF offset + Len(page.entries) < Len(found) THEN offset + Len(page.entries)
         ELSE Editor!None
  /\ page.nextOffset # Editor!None => Len(page.entries) = EditorPageSize

LEMMA PageIsOf ==
  ASSUME EdTypes, NEW list \in Editor!Lists, NEW text \in SearchTexts, NEW offset \in Nat,
             offset <= Len(Editor!Matches(list, text))
  PROVE  PageOf(Editor!Page(list, text, offset), list, text, offset)
<1> DEFINE page == Editor!Page(list, text, offset)
<1>1. /\ page.entries \in Seq(RowType)
      /\ offset + Len(page.entries) <= Len(Editor!Matches(list, text))
      /\ page.nextOffset = IF offset + Len(page.entries) < Len(Editor!Matches(list, text))
                           THEN offset + Len(page.entries) ELSE Editor!None
      /\ page.nextOffset # Editor!None => Len(page.entries) = EditorPageSize
  BY EditorPageIs
<1>2. \A i \in 1 .. Len(page.entries) :
        /\ page.entries[i].id = Editor!Matches(list, text)[offset + i]
        /\ page.entries[i].value = values[list][Editor!Matches(list, text)[offset + i]]
  BY EditorPageIs
<1> HIDE DEF page
<1> QED BY <1>1, <1>2 DEF PageOf, page

(* The rows that a page adds: those that follow, as the game has them.        *)
LEMMA RowsStart ==
  ASSUME EdInv, NEW page, PageOf(page, picked, editorFilter, 0)
  PROVE  LET found == Editor!Matches(picked, editorFilter)
             new == page.entries IN
         /\ new \in Seq(RowType) /\ Len(new) <= Len(found)
         /\ \A i \in DOMAIN new : new[i].id = found[i]
         /\ page.nextOffset = IF Len(new) < Len(found) THEN Len(new) ELSE Editor!None
         /\ page.nextOffset # Editor!None => Len(new) >= EditorPageSize
         /\ \A i \in DOMAIN new : new[i].value = values[picked][new[i].id]
<1> DEFINE new == page.entries
<1>1. new \in Seq(RowType) /\ DOMAIN new = 1 .. Len(new) /\ Len(new) \in Nat
  BY DEF PageOf
<1>2. 0 + Len(new) = Len(new)
  BY <1>1
<1>3. /\ Len(new) <= Len(Editor!Matches(picked, editorFilter))
      /\ page.nextOffset = IF Len(new) < Len(Editor!Matches(picked, editorFilter)) THEN Len(new)
             ELSE Editor!None
      /\ page.nextOffset # Editor!None => Len(new) = EditorPageSize
  BY <1>2 DEF PageOf
<1>4. \A i \in DOMAIN new :
          new[i].id = Editor!Matches(picked,
              editorFilter)[i] /\ new[i].value = values[picked][new[i].id]
  <2> TAKE i \in DOMAIN new
  <2>1. i \in 1 .. Len(new) /\ 0 + i = i
    BY <1>1
  <2> QED BY <2>1 DEF PageOf
<1> HIDE DEF new
<1>5. page.nextOffset # Editor!None => Len(new) >= EditorPageSize
  BY <1>1, <1>3
<1> QED BY <1>1, <1>3, <1>4, <1>5 DEF new


LEMMA RowsGrow ==
  ASSUME EdInv, NEW page, PageOf(page, picked, editorFilter, Len(editorRows)),
             Len(editorRows) >= EditorPageSize
  PROVE  LET found == Editor!Matches(picked, editorFilter)
             new == editorRows \o page.entries IN
         /\ new \in Seq(RowType) /\ Len(new) <= Len(found)
         /\ \A i \in DOMAIN new : new[i].id = found[i]
         /\ page.nextOffset = IF Len(new) < Len(found) THEN Len(new) ELSE Editor!None
         /\ page.nextOffset # Editor!None => Len(new) >= EditorPageSize
         /\ ValuesShown => \A i \in DOMAIN new : new[i].value = values[picked][new[i].id]
<1> DEFINE found == Editor!Matches(picked, editorFilter)
           entries == page.entries
           n == Len(editorRows)
           m == Len(entries)
           new == editorRows \o entries
<1>1. /\ editorRows \in Seq(RowType) /\ entries \in Seq(RowType) /\ n \in Nat /\ m \in Nat
      /\ DOMAIN editorRows = 1 .. n
  BY DEF EdInv, EdTypes, PageOf
<1>2. /\ new \in Seq(RowType) /\ Len(new) = n + m /\ DOMAIN new = 1 .. n + m
      /\ \A i \in 1 .. n + m : new[i] = IF i <= n THEN editorRows[i] ELSE entries[i - n]
  <2> HIDE DEF entries
  <2> QED BY <1>1, Concatenation
<1>3. /\ n + m <= Len(found) /\ page.nextOffset = IF n + m < Len(found) THEN n + m ELSE Editor!None
      /\ \A i \in 1 .. m :
             entries[i].id = found[n + i] /\ entries[i].value = values[picked][found[n + i]]
  BY DEF PageOf
<1>4. \A i \in 1 .. n :
          editorRows[i].id = found[i] /\ (ValuesShown =>
              editorRows[i].value = values[picked][editorRows[i].id])
  BY <1>1 DEF EdInv, RowsInv, ValuesShown
<1> HIDE DEF found, entries, new, n, m
<1>5. ASSUME NEW i \in 1 .. n + m
      PROVE new[i].id = found[i] /\ (ValuesShown => new[i].value = values[picked][new[i].id])
  <2>1. CASE i <= n
    <3>1. i \in 1 .. n /\ new[i] = editorRows[i]
      BY <1>1, <1>2, <2>1
    <3> QED BY <1>4, <3>1
  <2>2. CASE ~(i <= n)
    <3>1. i - n \in 1 .. m /\ n + (i - n) = i /\ new[i] = entries[i - n]
      BY <1>1, <1>2, <2>2
    <3>2. entries[i - n].id = found[i] /\ entries[i - n].value = values[picked][found[i]]
      BY <1>3, <3>1
    <3> QED BY <3>1, <3>2
  <2> QED BY <2>1, <2>2
<1>6. Len(new) >= EditorPageSize
  BY <1>1, <1>2, ShellAssumption DEF n
<1> QED BY <1>2, <1>3, <1>5, <1>6 DEF found, new, entries
(* A call that has nothing to say goes, or one that changes nothing.           *)
LEMMA RestValues ==
  ASSUME EdInv, Editor!Answered, editorCalls' = Tail(editorCalls),
         UNCHANGED <<picked, due, editorRows, loading, overtaken, values>>,
         failed => failed', Editor!Call.live /\ Editor!Call.kind = "refresh" => failed'
  PROVE  ValuesInv'
<1>1. \A i \in DOMAIN editorCalls' :
          i + 1 \in DOMAIN editorCalls /\ editorCalls'[i] = editorCalls[i + 1]
  BY RestIs
<1>2. \A j \in DOMAIN editorCalls :
          j = 1 \/ (j - 1 \in DOMAIN editorCalls' /\ editorCalls'[j - 1] = editorCalls[j])
  BY RestIs
<1>3. Editor!Call = editorCalls[1] /\ ~due
  BY RestIs
<1>4. ValuesShown' <=> ValuesShown
  BY DEF ValuesShown
<1> SUFFICES ASSUME ~loading, ~overtaken
             PROVE  /\ \A i \in DOMAIN editorCalls' : editorCalls'[i].kind = "set" =>
                           editorCalls'[i].live
                    /\ \/ ValuesShown'
                       \/ /\ picked'[1] = "party"
                          /\ failed' \/ \E i \in DOMAIN editorCalls' :
                                 editorCalls'[i].live /\ editorCalls'[i].kind = "refresh"
  BY DEF ValuesInv
<1>5. \A i \in DOMAIN editorCalls' : editorCalls'[i].kind = "set" => editorCalls'[i].live
  BY <1>1, <1>3 DEF EdInv, ValuesInv
<1>6. ValuesShown \/ (picked[1] = "party" /\ (failed \/ \E i \in DOMAIN editorCalls :
          editorCalls[i].live /\ editorCalls[i].kind = "refresh"))
  BY <1>3 DEF EdInv, ValuesInv
<1>7. ASSUME NEW i \in DOMAIN editorCalls, editorCalls[i].live, editorCalls[i].kind = "refresh"
      PROVE  failed' \/ \E j \in DOMAIN editorCalls' :
                 editorCalls'[j].live /\ editorCalls'[j].kind = "refresh"
  BY <1>2, <1>3, <1>7
<1> QED BY <1>4, <1>5, <1>6, <1>7

(* After the page that had a say, no page has one.                            *)
LEMMA RestNoPage ==
  ASSUME EdInv, Editor!Answered, editorCalls' = Tail(editorCalls), Editor!Call.live,
             Editor!Call.kind = "page",
         UNCHANGED <<picked, editorFilter, due>>, loading' = FALSE
  PROVE  CallsInv' /\ \A i \in DOMAIN editorCalls' : editorCalls'[i].live =>
             editorCalls'[i].kind # "page"
<1>1. \A i \in DOMAIN editorCalls' :
          i + 1 \in DOMAIN editorCalls /\ editorCalls'[i] = editorCalls[i + 1]
  BY RestIs
<1>2. \A i \in DOMAIN editorCalls' : editorCalls'[i].live => editorCalls'[i].kind # "page"
  BY ReadIs
<1>3. ~due
  BY RestIs
<1>4. \A i \in DOMAIN editorCalls' :
        /\ editorCalls'[i].live => editorCalls'[i].list = picked
        /\ editorCalls'[i].live /\ editorCalls'[i].kind # "set" =>
               editorCalls'[i].text = editorFilter
        /\ editorCalls'[i].live /\ editorCalls'[i].kind = "refresh" => picked[1] = "party"
  BY <1>1 DEF EdInv, CallsInv
<1> QED BY <1>2, <1>3, <1>4 DEF CallsInv, LiveFirstPage, LiveCall

LEMMA PageReadKeeps ==
  ASSUME EdInv, Editor!PageRead
  PROVE  EdInv'
<1>1. /\ Editor!Answered /\ Editor!Call.kind = "page" /\ editorCalls' = Tail(editorCalls)
      /\ UNCHANGED <<picked, editorFilter, due, failed, values>>
  BY DEF Editor!PageRead
<1>2. Tail(editorCalls) \in Seq(GameCalls) /\ ~due /\ Editor!Call \in GameCalls
  BY <1>1, RestIs
<1>3. Editor!Matches(picked, editorFilter)' = Editor!Matches(picked, editorFilter)
  BY <1>1 DEF Editor!Matches, Editor!Rows, Editor!Length
<1>4. CASE ~Editor!Call.live
  <2>1. UNCHANGED <<editorRows, nextOffset, loading, overtaken>>
    BY <1>4 DEF Editor!PageRead
  <2>2. EdTypes'
    BY <1>1, <1>2, <2>1 DEF EdInv, EdTypes, GameCalls, Editor!Rows, Editor!Length
  <2>3. CallsInv'
    BY <1>1, <1>4, <2>1, RestCalls
  <2>4. editorRows \in Seq(RowType)
    BY DEF EdInv, EdTypes
  <2>5. RowsInv'
    BY <1>1, <1>4, <2>1, <2>4, RestRows
  <2>6. ValuesInv'
    BY <1>1, <1>4, <2>1, RestValues
  <2> QED BY <2>2, <2>3, <2>5, <2>6 DEF EdInv
<1>5. CASE Editor!Call.live
  <2> DEFINE page == Editor!Page(picked, editorFilter, Editor!Call.offset)
  <2>1. /\ Editor!Call.list = picked /\ Editor!Call.text = editorFilter
        /\ Editor!Call.offset \in Nat
        /\ Editor!Call.offset = 0 => Tail(editorCalls) = <<>>
        /\ Editor!Call.offset # 0 =>
               Editor!Call.offset =
                   nextOffset /\ ~loading /\ nextOffset # Editor!None /\ picked[1] # "party"
    BY <1>1, <1>5, ReadIs
  <2>2. /\ editorRows' = IF Editor!Call.offset = 0 THEN page.entries ELSE editorRows \o page.entries
        /\ nextOffset' = page.nextOffset /\ loading' = FALSE
        /\ overtaken' = (overtaken /\ Editor!Call.offset > 0)
    BY <1>5, <2>1 DEF Editor!PageRead
  <2>3. Editor!Call.offset # 0 =>
            Editor!Call.offset = Len(editorRows) /\ Len(editorRows) >= EditorPageSize
    BY <2>1 DEF EdInv, RowsInv
  <2>4. /\ Len(Editor!Matches(picked, editorFilter)) \in Nat
        /\ Len(editorRows) <= Len(Editor!Matches(picked, editorFilter))
        /\ picked \in Editor!Lists /\ editorFilter \in SearchTexts /\ EdTypes
    BY FoundIs DEF EdInv, EdTypes, RowsInv
  <2>5. PageOf(page, picked, editorFilter, Editor!Call.offset)
    <3>1. Editor!Call.offset <= Len(Editor!Matches(picked, editorFilter))
      BY <2>1, <2>3, <2>4
    <3> QED BY <2>1, <2>4, <3>1, PageIsOf
  <2> HIDE DEF page
  <2>6. /\ editorRows' \in Seq(RowType)
        /\ Len(editorRows') <= Len(Editor!Matches(picked, editorFilter))
        /\ \A i \in DOMAIN editorRows' : editorRows'[i].id = Editor!Matches(picked, editorFilter)[i]
        /\ nextOffset' = IF Len(editorRows') < Len(Editor!Matches(picked, editorFilter))
               THEN Len(editorRows') ELSE Editor!None
        /\ nextOffset' # Editor!None => Len(editorRows') >= EditorPageSize
        /\ Editor!Call.offset = 0 \/ ValuesShown =>
               \A i \in DOMAIN editorRows' :
                   editorRows'[i].value = values[picked][editorRows'[i].id]
    <3>1. CASE Editor!Call.offset = 0
      <4>1. editorRows' = page.entries /\ PageOf(page, picked, editorFilter, 0)
        BY <2>2, <2>5, <3>1
      <4> QED BY <2>2, <3>1, <4>1, RowsStart
    <3>2. CASE Editor!Call.offset # 0
      <4>1. /\ editorRows' = editorRows \o page.entries
            /\ PageOf(page, picked, editorFilter, Len(editorRows))
            /\ Len(editorRows) >= EditorPageSize
        BY <2>2, <2>3, <2>5, <3>2
      <4> QED BY <2>2, <3>2, <4>1, RowsGrow
    <3> QED BY <3>1, <3>2
  <2>7. CallsInv' /\ \A i \in DOMAIN editorCalls' : editorCalls'[i].live =>
            editorCalls'[i].kind # "page"
    BY <1>1, <1>5, <2>2, RestNoPage
  <2>8. Len(editorRows') \in Nat
    BY <2>6
  <2>9. overtaken' \in BOOLEAN /\ loading' \in BOOLEAN
    BY <2>2
  <2>10. EdTypes'
    <3>1. nextOffset' \in Nat \cup {Editor!None}
      BY <2>6, <2>8
    <3> QED BY <1>1, <1>2, <2>6, <2>9, <3>1 DEF EdInv, EdTypes, GameCalls, Editor!Rows,
        Editor!Length
  <2>11. RowsInv'
    BY <1>3, <2>4, <2>6, <2>7, <2>8 DEF RowsInv, Editor!None
  <2>12. ValuesInv'
    <3> SUFFICES ASSUME ~overtaken'
                 PROVE  ValuesShown' /\ \A i \in DOMAIN editorCalls' :
                            editorCalls'[i].kind = "set" => editorCalls'[i].live
      BY DEF ValuesInv
    <3>1. CASE Editor!Call.offset = 0
      <4>1. editorCalls' = <<>>
        BY <1>1, <2>1, <3>1
      <4> QED BY <1>1, <2>6, <3>1, <4>1 DEF ValuesShown
    <3>2. CASE Editor!Call.offset # 0
      <4>1. ~overtaken
        <5>1. Editor!Call.offset > 0
          BY <2>1, <3>2
        <5>2. overtaken' = (overtaken /\ Editor!Call.offset > 0) /\ ~overtaken'
          BY <2>2
        <5> QED BY Zenon, <5>1, <5>2
      <4>2. ValuesShown /\ \A i \in DOMAIN editorCalls : editorCalls[i].kind = "set" =>
                editorCalls[i].live
        BY <1>2, <2>1, <3>2, <4>1 DEF EdInv, ValuesInv
      <4>3. \A i \in DOMAIN editorCalls' :
                i + 1 \in DOMAIN editorCalls /\ editorCalls'[i] = editorCalls[i + 1]
        BY <1>1, RestIs
      <4> QED BY <1>1, <2>6, <4>2, <4>3 DEF ValuesShown
    <3> QED BY <3>1, <3>2
  <2> QED BY <2>7, <2>10, <2>11, <2>12 DEF EdInv
<1> QED BY <1>4, <1>5
LEMMA PartyReadKeeps ==
  ASSUME EdInv, Editor!PartyRead
  PROVE  EdInv'
<1>1. /\ Editor!Answered /\ Editor!Call.kind = "refresh" /\ editorCalls' = Tail(editorCalls)
      /\ UNCHANGED <<picked, editorFilter, due, loading, failed, overtaken, values>>
  BY DEF Editor!PartyRead
<1>2. /\ Tail(editorCalls) \in Seq(GameCalls) /\ ~due /\ Editor!Call \in GameCalls
      /\ Editor!Call = editorCalls[1] /\ 1 \in DOMAIN editorCalls
      /\ \A i \in DOMAIN Tail(editorCalls) :
             i + 1 \in DOMAIN editorCalls /\ Tail(editorCalls)[i] = editorCalls[i + 1]
  BY <1>1, RestIs
<1>3. Editor!Matches(picked, editorFilter)' = Editor!Matches(picked, editorFilter)
  BY <1>1 DEF Editor!Matches, Editor!Rows, Editor!Length
<1>4. CallsInv'
  BY <1>1, RestCalls
<1>5. CASE ~Editor!Call.live
  <2>1. UNCHANGED <<editorRows, nextOffset>>
    BY <1>5 DEF Editor!PartyRead
  <2>2. EdTypes'
    BY <1>1, <1>2, <2>1 DEF EdInv, EdTypes, GameCalls, Editor!Rows, Editor!Length
  <2>3. editorRows \in Seq(RowType)
    BY DEF EdInv, EdTypes
  <2>4. RowsInv'
    BY <1>1, <1>5, <2>1, <2>3, RestRows
  <2>5. ValuesInv'
    BY <1>1, <1>5, <2>1, RestValues
  <2> QED BY <1>4, <2>2, <2>4, <2>5 DEF EdInv
<1>6. CASE Editor!Call.live
  <2> DEFINE page == Editor!Page(picked, editorFilter, 0)
  <2>1. Editor!Call.list = picked /\ Editor!Call.text = editorFilter /\ picked[1] = "party"
    BY <1>1, <1>2, <1>6 DEF EdInv, CallsInv
  <2>2. editorRows' = page.entries /\ nextOffset' = page.nextOffset
    BY <1>6, <2>1 DEF Editor!PartyRead
  <2>3. nextOffset = Editor!None
    BY <2>1, PartyWhole
  <2>4. /\ picked \in Editor!Lists /\ editorFilter \in SearchTexts /\ EdTypes
        /\ Len(Editor!Matches(picked, editorFilter)) \in Nat
    BY FoundIs DEF EdInv, EdTypes
  <2>5. PageOf(page, picked, editorFilter, 0)
    BY <2>4, PageIsOf
  <2> HIDE DEF page
  <2>6. /\ editorRows' \in Seq(RowType)
        /\ Len(editorRows') <= Len(Editor!Matches(picked, editorFilter))
        /\ \A i \in DOMAIN editorRows' : editorRows'[i].id = Editor!Matches(picked, editorFilter)[i]
        /\ nextOffset' = IF Len(editorRows') < Len(Editor!Matches(picked, editorFilter))
               THEN Len(editorRows') ELSE Editor!None
        /\ nextOffset' # Editor!None => Len(editorRows') >= EditorPageSize
        /\ \A i \in DOMAIN editorRows' : editorRows'[i].value = values[picked][editorRows'[i].id]
    BY <2>2, <2>5, RowsStart
  <2>7. Len(editorRows') \in Nat
    BY <2>6
  <2>8. EdTypes'
    <3>1. nextOffset' \in Nat \cup {Editor!None}
      BY <2>6, <2>7
    <3> QED BY <1>1, <1>2, <2>6, <3>1 DEF EdInv, EdTypes, GameCalls, Editor!Rows, Editor!Length
  <2>9. RowsInv'
    <3>1. \A i \in DOMAIN editorCalls' :
              ~(editorCalls'[i].live /\ editorCalls'[i].kind = "page" /\ editorCalls'[i].offset # 0)
      <4> SUFFICES ASSUME NEW i \in DOMAIN editorCalls',
                          editorCalls'[i].live, editorCalls'[i].kind = "page",
                              editorCalls'[i].offset # 0
                   PROVE  FALSE
        OBVIOUS
      <4>1. editorCalls'[i].offset = nextOffset
        BY <1>1, <1>2 DEF EdInv, RowsInv
      <4>2. editorCalls'[i] \in GameCalls
        BY <1>1, <1>2
      <4>3. editorCalls'[i].offset \in Nat
        BY <4>2 DEF GameCalls, PageCalls, SetCalls
      <4> QED BY <2>3, <4>1, <4>3 DEF Editor!None
    <3> QED BY <1>3, <2>4, <2>6, <2>7, <3>1 DEF RowsInv, Editor!None
  <2>10. ValuesInv'
    <3>1. ValuesShown'
      BY <1>1, <2>6 DEF ValuesShown
    <3> QED BY <1>1, <1>2, <3>1 DEF EdInv, ValuesInv
  <2> QED BY <1>4, <2>8, <2>9, <2>10 DEF EdInv
<1> QED BY <1>5, <1>6

LEMMA CallFailsKeeps ==
  ASSUME EdInv, Editor!CallFails
  PROVE  EdInv'
<1>1. /\ Editor!Answered /\ editorCalls' = Tail(editorCalls)
      /\ UNCHANGED <<picked, editorFilter, due, overtaken, values>>
  BY DEF Editor!CallFails
<1>2. /\ Tail(editorCalls) \in Seq(GameCalls) /\ ~due /\ Editor!Call \in GameCalls
      /\ Editor!Call = editorCalls[1] /\ 1 \in DOMAIN editorCalls
      /\ \A i \in DOMAIN Tail(editorCalls) :
             i + 1 \in DOMAIN editorCalls /\ Tail(editorCalls)[i] = editorCalls[i + 1]
  BY <1>1, RestIs
<1>3. Editor!Matches(picked, editorFilter)' = Editor!Matches(picked, editorFilter)
  BY <1>1 DEF Editor!Matches, Editor!Rows, Editor!Length
<1>4. editorRows \in Seq(RowType) /\ failed \in BOOLEAN
  BY DEF EdInv, EdTypes
<1>5. ASSUME ~(Editor!Call.live /\ Editor!Call.kind = "page"),
                 UNCHANGED <<editorRows, nextOffset, loading>>, failed' \in BOOLEAN,
             failed => failed', Editor!Call.live => failed'
      PROVE  EdInv'
  <2>1. EdTypes'
    BY <1>1, <1>2, <1>5 DEF EdInv, EdTypes, GameCalls, Editor!Rows, Editor!Length
  <2>2. CallsInv'
    BY <1>1, <1>5, RestCalls
  <2>3. RowsInv'
    BY <1>1, <1>4, <1>5, RestRows
  <2>4. ValuesInv'
    BY <1>1, <1>5, RestValues
  <2> QED BY <2>1, <2>2, <2>3, <2>4 DEF EdInv
<1>6. CASE /\ Editor!Call.kind \in {"set", "refresh"} /\ failed' = TRUE
           /\ UNCHANGED <<editorRows, nextOffset, loading>>
  <2>1. failed' \in BOOLEAN
    BY <1>6
  <2> QED BY <1>5, <1>6, <2>1
<1>7. CASE /\ Editor!Call.kind = "page" /\ ~Editor!Call.live
           /\ UNCHANGED <<editorRows, nextOffset, loading, failed>>
  BY <1>4, <1>5, <1>7
<1>8. CASE /\ Editor!Call.kind = "page" /\ Editor!Call.live /\ loading' = FALSE
           /\ IF Editor!Call.offset = 0
                  THEN editorRows' = <<>> /\ nextOffset' = Editor!None /\ failed' = TRUE
              ELSE UNCHANGED <<editorRows, nextOffset, failed>>
  <2>1. /\ Editor!Call.offset = 0 => editorCalls' = <<>>
        /\ Editor!Call.offset # 0 => ~loading /\ nextOffset # Editor!None /\ picked[1] # "party"
    BY <1>1, <1>8, ReadIs
  <2>2. CallsInv' /\ \A i \in DOMAIN editorCalls' : editorCalls'[i].live =>
            editorCalls'[i].kind # "page"
    BY <1>1, <1>8, RestNoPage
  <2>3. /\ loading' \in BOOLEAN /\ failed' \in BOOLEAN /\ editorRows' \in Seq(RowType)
        /\ nextOffset' \in Nat \cup {Editor!None}
    <3>1. editorRows \in Seq(RowType) /\ nextOffset \in Nat \cup {Editor!None} /\ failed \in BOOLEAN
      BY DEF EdInv, EdTypes
    <3>2. loading' \in BOOLEAN
      BY <1>8
    <3>3. CASE Editor!Call.offset = 0
      <4>1. failed' \in BOOLEAN
        BY <1>8, <3>3
      <4>2. editorRows' = <<>> /\ nextOffset' = Editor!None
        BY <1>8, <3>3
      <4> QED BY <3>2, <4>1, <4>2
    <3>4. CASE Editor!Call.offset # 0
      <4>1. editorRows' = editorRows /\ nextOffset' = nextOffset /\ failed' = failed
        BY <1>8, <3>4
      <4> QED BY <3>1, <3>2, <4>1
    <3> QED BY <3>3, <3>4
  <2>4. EdTypes'
    BY <1>1, <1>2, <2>3 DEF EdInv, EdTypes, GameCalls, Editor!Rows, Editor!Length
  <2>5. CASE Editor!Call.offset = 0
    <3>1. editorRows' = <<>> /\ nextOffset' = Editor!None /\ failed' /\ editorCalls' = <<>>
      BY <1>8, <2>1, <2>5
    <3>2. Len(Editor!Matches(picked, editorFilter)) \in Nat
      BY FoundIs DEF EdInv, EdTypes
    <3>3. RowsInv'
      BY <1>3, <3>1, <3>2 DEF RowsInv
    <3>4. ValuesInv'
      BY <3>1 DEF ValuesInv, ValuesShown
    <3> QED BY <2>2, <2>4, <3>3, <3>4 DEF EdInv
  <2>6. CASE Editor!Call.offset # 0
    <3>1. UNCHANGED <<editorRows, nextOffset, failed>> /\ ~loading /\ nextOffset # Editor!None
      BY <1>8, <2>1, <2>6
    <3>2. loading' = loading
      BY <1>8, <3>1 DEF EdInv, EdTypes
    <3>3. RowsInv'
      BY <1>3, <2>2, <3>1 DEF EdInv, RowsInv
    <3>4. ValuesInv'
      BY <1>1, <1>8, <3>1, <3>2, RestValues
    <3> QED BY <2>2, <2>4, <3>3, <3>4 DEF EdInv
  <2> QED BY <2>5, <2>6
<1> QED BY <1>6, <1>7, <1>8 DEF Editor!CallFails
(* What was asked for before an actor's list is read again.                    *)
LEMMA StaleIs ==
  ASSUME editorCalls \in Seq(GameCalls), editorCalls # <<>>
  PROVE  LET stale == [i \in 1 .. Len(editorCalls) - 1 |->
             [editorCalls[i + 1] EXCEPT !.live = FALSE]] IN
         stale \in Seq(GameCalls) /\ \A i \in DOMAIN stale : ~stale[i].live
<1> DEFINE n == Len(editorCalls) - 1
           stale == [i \in 1 .. n |-> [editorCalls[i + 1] EXCEPT !.live = FALSE]]
<1>1. n \in Nat /\ \A i \in 1 .. n : editorCalls[i + 1] \in GameCalls
  OBVIOUS
<1>2. \A i \in 1 .. n :
          LET d == [editorCalls[i + 1] EXCEPT !.live = FALSE] IN d \in GameCalls /\ ~d.live
  <2> TAKE i \in 1 .. n
  <2> QED BY <1>1, CallDies
<1> HIDE DEF n
<1>3. stale \in Seq(GameCalls) /\ DOMAIN stale = 1 .. n
  BY <1>1, <1>2
<1>4. \A i \in DOMAIN stale : ~stale[i].live
  BY <1>2, <1>3
<1> QED BY <1>3, <1>4 DEF n

(* What an edit leaves in the game.                                            *)
LEMMA EditedIs ==
  ASSUME EdInv, NEW c \in SetCalls
  PROVE  /\ c.list \in Editor!Lists
         /\ Editor!Edited(c.list, c.id, c.value) \in [Editor!Rows(c.list) -> BOOLEAN]
         /\ \A r \in Editor!Rows(c.list) :
              /\ c.list[1] = "variables" =>
                   Editor!Edited(c.list, c.id, c.value)[r] = IF r = c.id THEN c.value
                       ELSE values[c.list][r]
              /\ c.list[1] = "classes" => Editor!Edited(c.list, c.id, c.value)[r] = (r = c.id)
<1>1. c.list \in Editor!Lists /\ c.value \in BOOLEAN
  BY DEF SetCalls
<1>2. values[c.list] \in [Editor!Rows(c.list) -> BOOLEAN]
  BY <1>1 DEF EdInv, EdTypes
<1> DEFINE e(r) == CASE c.list[1] = "variables" -> IF r = c.id THEN c.value ELSE values[c.list][r]
                     [] c.list[1] = "classes" -> r = c.id
                     [] OTHER -> c.value
<1>3. Editor!Edited(c.list, c.id, c.value) = [r \in Editor!Rows(c.list) |-> e(r)]
  BY DEF Editor!Edited
<1>4. ASSUME NEW r \in Editor!Rows(c.list)
      PROVE  /\ e(r) \in BOOLEAN
             /\ c.list[1] = "variables" => e(r) = IF r = c.id THEN c.value ELSE values[c.list][r]
             /\ c.list[1] = "classes" => e(r) = (r = c.id)
  <2>1. values[c.list][r] \in BOOLEAN
    BY <1>2
  <2>2. CASE c.list[1] = "variables"
    <3>1. e(r) = IF r = c.id THEN c.value ELSE values[c.list][r]
      BY <2>2
    <3> HIDE DEF e
    <3> QED BY <1>1, <2>1, <2>2, <3>1
  <2>3. CASE c.list[1] = "classes"
    <3>1. e(r) = (r = c.id)
      BY <2>3
    <3> HIDE DEF e
    <3> QED BY <2>3, <3>1
  <2>4. CASE c.list[1] \notin {"variables", "classes"}
    <3>1. e(r) = c.value
      BY <2>4
    <3> HIDE DEF e
    <3> QED BY <1>1, <2>4, <3>1
  <2> QED BY <2>2, <2>3, <2>4
<1> HIDE DEF e
<1> QED BY <1>1, <1>3, <1>4

LEMMA RowOfList ==
  ASSUME EdInv, NEW j \in DOMAIN editorRows
  PROVE  editorRows[j] \in RowType /\ editorRows[j].id \in Editor!Rows(picked)
<1>1. /\ editorRows \in Seq(RowType) /\ picked \in Editor!Lists /\ editorFilter \in SearchTexts
      /\ DOMAIN editorRows = 1 .. Len(editorRows) /\ Len(editorRows) \in Nat
  BY DEF EdInv, EdTypes
<1>2. /\ editorRows[j].id = Editor!Matches(picked, editorFilter)[j]
      /\ Len(editorRows) <= Len(Editor!Matches(picked, editorFilter))
  BY DEF EdInv, RowsInv
<1>3. /\ Len(Editor!Matches(picked, editorFilter)) \in Nat /\ DOMAIN Editor!Matches(picked,
             editorFilter) = 1 .. Len(Editor!Matches(picked, editorFilter))
      /\ \A i \in DOMAIN Editor!Matches(picked, editorFilter) :
             Editor!Matches(picked, editorFilter)[i] \in Editor!Rows(picked)
  BY <1>1, FoundIs
<1>4. j \in DOMAIN Editor!Matches(picked, editorFilter)
  BY <1>1, <1>2, <1>3
<1> QED BY <1>1, <1>2, <1>3, <1>4
(* Another value in some of the rows.                                          *)
Revalued(v) == [j \in DOMAIN editorRows |-> [id |-> editorRows[j].id, value |-> v[j]]]
LEMMA RevaluedIs ==
  ASSUME EdInv, NEW v \in [DOMAIN editorRows -> BOOLEAN]
  PROVE  /\ Revalued(v) \in Seq(RowType) /\ Len(Revalued(v)) = Len(editorRows)
         /\ DOMAIN Revalued(v) = DOMAIN editorRows
         /\ \A j \in DOMAIN editorRows :
                Revalued(v)[j].id = editorRows[j].id /\ Revalued(v)[j].value = v[j]
<1>1. DOMAIN editorRows = 1 .. Len(editorRows) /\ Len(editorRows) \in Nat
  BY DEF EdInv, EdTypes
<1>2. \A j \in DOMAIN editorRows : editorRows[j].id \in Nat
  BY RowOfList DEF RowType
<1>3. \A j \in DOMAIN editorRows : [id |-> editorRows[j].id, value |-> v[j]] \in RowType
  BY <1>2 DEF RowType
<1>4. Revalued(v) \in Seq(RowType) /\ Len(Revalued(v)) = Len(editorRows)
  BY <1>1, <1>3 DEF Revalued
<1> QED BY <1>4 DEF Revalued

LEMMA ShownIs ==
  ASSUME EdInv, NEW c \in SetCalls
  PROVE  [j \in DOMAIN editorRows |-> IF editorRows[j].id = c.id
             THEN [id |-> c.id, value |-> c.value] ELSE editorRows[j]]
         = Revalued([j \in DOMAIN editorRows |-> IF editorRows[j].id = c.id THEN c.value
             ELSE editorRows[j].value])
<1>1. ASSUME NEW j \in DOMAIN editorRows
      PROVE  (IF editorRows[j].id = c.id THEN [id |-> c.id, value |-> c.value] ELSE editorRows[j])
             = [id |-> editorRows[j].id, value |-> IF editorRows[j].id = c.id THEN c.value
                 ELSE editorRows[j].value]
  <2>1. editorRows[j] \in RowType
    BY RowOfList
  <2>2. editorRows[j] = [id |-> editorRows[j].id, value |-> editorRows[j].value]
    BY <2>1 DEF RowType
  <2> QED BY <2>2
<1> QED BY <1>1 DEF Revalued

LEMMA ChosenIs ==
  ASSUME EdInv, NEW id
  PROVE  [j \in DOMAIN editorRows |-> [editorRows[j] EXCEPT !.value = editorRows[j].id = id]]
         = Revalued([j \in DOMAIN editorRows |-> editorRows[j].id = id])
<1>1. ASSUME NEW j \in DOMAIN editorRows
      PROVE  [editorRows[j] EXCEPT !.value = editorRows[j].id = id] = [id |-> editorRows[j].id,
                 value |-> editorRows[j].id = id]
  <2>1. editorRows[j] \in RowType
    BY RowOfList
  <2> QED BY <2>1 DEF RowType
<1> QED BY <1>1 DEF Revalued

LEMMA EditDoneKeeps ==
  ASSUME EdInv, Editor!EditDone
  PROVE  EdInv'
<1>1. /\ Editor!Answered /\ Editor!Call.kind = "set"
      /\ UNCHANGED <<picked, editorFilter, due, nextOffset>>
      /\ values' = [values EXCEPT ![Editor!Call.list] = Editor!Edited(Editor!Call.list,
             Editor!Call.id, Editor!Call.value)]
  BY DEF Editor!EditDone
<1>2. /\ Tail(editorCalls) \in Seq(GameCalls) /\ ~due /\ editorCalls \in Seq(GameCalls)
      /\ Editor!Call = editorCalls[1] /\ 1 \in DOMAIN editorCalls
      /\ \A i \in DOMAIN Tail(editorCalls) :
             i + 1 \in DOMAIN editorCalls /\ Tail(editorCalls)[i] = editorCalls[i + 1]
      /\ Editor!Call \in GameCalls /\ editorCalls # <<>>
  BY <1>1, RestIs DEF Editor!Answered
<1>3. Editor!Call \in SetCalls
  BY <1>1, <1>2 DEF GameCalls, PageCalls
<1>4. Editor!Matches(picked, editorFilter)' = Editor!Matches(picked, editorFilter)
  BY <1>1 DEF Editor!Matches, Editor!Rows, Editor!Length
<1>5. /\ DOMAIN values' = Editor!Lists
      /\ \A l \in Editor!Lists : values'[l] \in [Editor!Rows(l) -> BOOLEAN]
  <2>1. Editor!Call.list \in Editor!Lists /\ Editor!Edited(Editor!Call.list, Editor!Call.id,
            Editor!Call.value) \in [Editor!Rows(Editor!Call.list) -> BOOLEAN]
    BY <1>3, EditedIs
  <2> HIDE DEF Editor!Call
  <2> QED BY <1>1, <2>1 DEF EdInv, EdTypes
<1>6. ASSUME editorCalls' \in Seq(GameCalls), editorRows' \in Seq(RowType), loading' \in BOOLEAN,
                 failed' \in BOOLEAN,
             overtaken' \in BOOLEAN
      PROVE  EdTypes'
  BY <1>1, <1>5, <1>6 DEF EdInv, EdTypes, GameCalls, Editor!Rows, Editor!Length
<1>7. /\ editorRows \in Seq(RowType) /\ loading \in BOOLEAN /\ failed \in BOOLEAN
      /\ overtaken \in BOOLEAN /\ picked \in Editor!Lists
  BY DEF EdInv, EdTypes
<1>8. Editor!Call.live => Editor!Call.list = picked
  BY <1>2 DEF EdInv, CallsInv
<1>9. CASE ~Editor!Call.live
  <2>1. editorCalls' = Tail(editorCalls) /\ UNCHANGED <<editorRows, loading, overtaken, failed>>
    BY <1>9 DEF Editor!EditDone
  <2>2. EdTypes'
    BY <1>2, <1>6, <1>7, <2>1
  <2>3. CallsInv'
    BY <1>1, <1>9, <2>1, RestCalls
  <2>4. RowsInv'
    BY <1>1, <1>7, <1>9, <2>1, RestRows
  <2>5. ValuesInv'
    BY <1>1, <1>2, <1>9, <2>1 DEF EdInv, ValuesInv
  <2> QED BY <2>2, <2>3, <2>4, <2>5 DEF EdInv
<1>10. ASSUME Editor!Call.live, editorCalls' = Tail(editorCalls), UNCHANGED <<loading, overtaken>>,
                  failed' = FALSE,
              NEW v \in [DOMAIN editorRows -> BOOLEAN], editorRows' = Revalued(v),
              ValuesShown => \A j \in DOMAIN editorRows : v[j] = values'[picked][editorRows[j].id],
              picked[1] # "party"
       PROVE  EdInv'
  <2>1. /\ editorRows' \in Seq(RowType) /\ Len(editorRows') = Len(editorRows)
        /\ DOMAIN editorRows' = DOMAIN editorRows
        /\ \A j \in DOMAIN editorRows :
               editorRows'[j].id = editorRows[j].id /\ editorRows'[j].value = v[j]
    BY <1>10, RevaluedIs
  <2>2. failed' \in BOOLEAN
    BY <1>10
  <2>3. EdTypes'
    BY <1>2, <1>6, <1>7, <1>10, <2>1, <2>2
  <2>4. CallsInv'
    BY <1>1, <1>10, RestCalls
  <2>5. RowsInv'
    BY <1>1, <1>10, <2>1, RestRows
  <2>6. ValuesInv'
    <3> SUFFICES ASSUME ~loading, ~overtaken
                 PROVE  ValuesShown' /\ \A i \in DOMAIN editorCalls' :
                            editorCalls'[i].kind = "set" => editorCalls'[i].live
      BY <1>10 DEF ValuesInv
    <3>1. ValuesShown /\ \A i \in DOMAIN editorCalls : editorCalls[i].kind = "set" =>
              editorCalls[i].live
      BY <1>2, <1>10 DEF EdInv, ValuesInv
    <3>2. ValuesShown'
      BY <1>1, <1>10, <2>1, <3>1 DEF ValuesShown
    <3> QED BY <1>2, <1>10, <3>1, <3>2
  <2> QED BY <2>3, <2>4, <2>5, <2>6 DEF EdInv
<1>11. CASE Editor!Call.live /\ picked[1] = "variables"
  <2> DEFINE v == [j \in DOMAIN editorRows |-> IF editorRows[j].id = Editor!Call.id
          THEN Editor!Call.value ELSE editorRows[j].value]
  <2>1. /\ editorCalls' = Tail(editorCalls) /\ failed' = FALSE /\ UNCHANGED <<loading, overtaken>>
        /\ editorRows' = [j \in DOMAIN editorRows |-> IF editorRows[j].id = Editor!Call.id
               THEN [id |-> Editor!Call.id, value |-> Editor!Call.value] ELSE editorRows[j]]
    BY <1>11 DEF Editor!EditDone
  <2>2. editorRows' = Revalued(v)
    BY <1>3, <2>1, ShownIs
  <2>3. v \in [DOMAIN editorRows -> BOOLEAN]
    <3>1. \A j \in DOMAIN editorRows : editorRows[j].value \in BOOLEAN
      BY RowOfList DEF RowType
    <3>2. Editor!Call.value \in BOOLEAN
      BY <1>3 DEF SetCalls
    <3> QED BY <3>1, <3>2
  <2>4. ValuesShown => \A j \in DOMAIN editorRows : v[j] = values'[picked][editorRows[j].id]
    <3> SUFFICES ASSUME ValuesShown, NEW j \in DOMAIN editorRows
                 PROVE v[j] = values'[picked][editorRows[j].id]
      OBVIOUS
    <3>1. editorRows[j].id \in Editor!Rows(picked)
      BY RowOfList
    <3>2. Editor!Edited(picked, Editor!Call.id,
              Editor!Call.value)[editorRows[j].id] = IF editorRows[j].id = Editor!Call.id
                  THEN Editor!Call.value ELSE values[picked][editorRows[j].id]
      BY <1>3, <1>8, <1>11, <3>1, EditedIs
    <3>3. values'[picked] = Editor!Edited(picked, Editor!Call.id, Editor!Call.value)
      BY <1>1, <1>7, <1>8, <1>11 DEF EdInv, EdTypes
    <3>4. editorRows[j].value = values[picked][editorRows[j].id]
      BY DEF ValuesShown
    <3> QED BY <3>2, <3>3, <3>4
  <2> HIDE DEF v
  <2> QED BY <1>10, <1>11, <2>1, <2>2, <2>3, <2>4
<1>12. CASE Editor!Call.live /\ picked[1] = "classes"
  <2> DEFINE v == [j \in DOMAIN editorRows |-> editorRows[j].id = Editor!Call.id]
  <2>1. /\ editorCalls' = Tail(editorCalls) /\ failed' = FALSE /\ UNCHANGED <<loading, overtaken>>
        /\ editorRows' = [j \in DOMAIN editorRows |->
               [editorRows[j] EXCEPT !.value = editorRows[j].id = Editor!Call.id]]
    BY <1>12 DEF Editor!EditDone
  <2>2. editorRows' = Revalued(v)
    BY <2>1, ChosenIs
  <2>3. v \in [DOMAIN editorRows -> BOOLEAN]
    OBVIOUS
  <2>4. ValuesShown => \A j \in DOMAIN editorRows : v[j] = values'[picked][editorRows[j].id]
    <3> SUFFICES ASSUME NEW j \in DOMAIN editorRows PROVE v[j] = values'[picked][editorRows[j].id]
      OBVIOUS
    <3>1. editorRows[j].id \in Editor!Rows(picked)
      BY RowOfList
    <3>2. Editor!Edited(picked, Editor!Call.id,
              Editor!Call.value)[editorRows[j].id] = (editorRows[j].id = Editor!Call.id)
      BY <1>3, <1>8, <1>12, <3>1, EditedIs
    <3>3. values'[picked] = Editor!Edited(picked, Editor!Call.id, Editor!Call.value)
      BY <1>1, <1>7, <1>8, <1>12 DEF EdInv, EdTypes
    <3> QED BY <3>2, <3>3
  <2> HIDE DEF v
  <2> QED BY <1>10, <1>12, <2>1, <2>2, <2>3, <2>4
<1>13. CASE Editor!Call.live /\ picked[1] = "party"
  <2> DEFINE c == [kind |-> "refresh", list |-> picked, text |-> editorFilter, offset |-> 0,
          live |-> TRUE]
  <2>1. /\ editorCalls' = Append(Tail(editorCalls), c) /\ failed' = FALSE
        /\ UNCHANGED <<editorRows, loading, overtaken>>
    BY <1>13 DEF Editor!EditDone
  <2>2. c \in GameCalls /\ c.live /\ c.kind = "refresh" /\ c.list = picked /\ c.text = editorFilter
    BY DEF EdInv, EdTypes, GameCalls, PageCalls
  <2> HIDE DEF c
  <2>3. /\ editorCalls' \in Seq(GameCalls) /\ Len(editorCalls') \in DOMAIN editorCalls'
        /\ editorCalls'[Len(editorCalls')] = c
        /\ \A i \in DOMAIN editorCalls' :
               editorCalls'[i] = c \/ (i \in DOMAIN Tail(editorCalls) /\ editorCalls'[i] =
                   Tail(editorCalls)[i])
    BY <1>2, <2>1, <2>2, AppendIs
  <2>4. \A i \in DOMAIN editorCalls' :
            editorCalls'[i] = c \/ (i + 1 \in DOMAIN editorCalls /\ editorCalls'[i] =
                editorCalls[i + 1])
    BY <1>2, <2>3
  <2>5. ~loading /\ \A i \in DOMAIN editorCalls : ~LiveFirstPage(i)
    <3>1. \A i \in DOMAIN editorCalls : ~LiveFirstPage(i)
      <4> SUFFICES ASSUME NEW i \in DOMAIN editorCalls, LiveFirstPage(i) PROVE FALSE
        OBVIOUS
      <4>1. i = 1
        BY <1>2, <1>13 DEF EdInv, CallsInv
      <4> QED BY <1>1, <1>2, <4>1 DEF LiveFirstPage
    <3> QED BY <1>2, <3>1 DEF EdInv, CallsInv
  <2>6. EdTypes'
    <3>1. failed' \in BOOLEAN
      BY <2>1
    <3> QED BY <1>6, <1>7, <2>1, <2>3, <3>1
  <2>7. CallsInv'
    <3>1. \A i \in DOMAIN editorCalls' : editorCalls'[i].live =>
              editorCalls'[i].kind \in {"set", "refresh"}
      <4> SUFFICES ASSUME NEW i \in DOMAIN editorCalls', editorCalls'[i].live, editorCalls'[i] # c
                   PROVE  editorCalls'[i].kind \in {"set", "refresh"}
        BY <2>2
      <4>1. /\ i + 1 \in DOMAIN editorCalls /\ editorCalls'[i] = editorCalls[i + 1]
            /\ editorCalls[i + 1] \in GameCalls
        BY <1>2, <2>4
      <4>2. editorCalls[i + 1].kind # "page"
        <5> SUFFICES ASSUME editorCalls[i + 1].kind = "page" PROVE FALSE
          OBVIOUS
        <5>1. editorCalls[i + 1].offset # 0 /\ editorCalls[i + 1].offset \in Nat
          BY <2>5, <4>1 DEF LiveFirstPage, LiveCall, GameCalls, PageCalls, SetCalls
        <5>2. editorCalls[i + 1].offset = nextOffset
          BY <4>1, <5>1 DEF EdInv, RowsInv
        <5> QED BY <1>13, <5>1, <5>2, PartyWhole DEF Editor!None
      <4> QED BY <4>1, <4>2 DEF GameCalls, PageCalls, SetCalls
    <3>2. \A i \in DOMAIN editorCalls' :
            /\ editorCalls'[i].live => editorCalls'[i].list = picked
            /\ editorCalls'[i].live /\ editorCalls'[i].kind # "set" =>
                   editorCalls'[i].text = editorFilter
      BY <2>2, <2>4 DEF EdInv, CallsInv
    <3> QED BY <1>1, <1>2, <1>13, <2>1, <2>5, <3>1, <3>2 DEF CallsInv, LiveFirstPage, LiveCall
  <2>8. RowsInv'
    <3>1. \A i \in DOMAIN editorCalls' :
              editorCalls'[i].live /\ editorCalls'[i].kind =
                  "page" /\ editorCalls'[i].offset # 0 => editorCalls'[i].offset = nextOffset
      BY <2>2, <2>4 DEF EdInv, RowsInv
    <3>2. ~(failed /\ editorRows = <<>> /\ \A i \in DOMAIN editorCalls : ~editorCalls[i].live)
      BY <1>2, <1>13
    <3> QED BY <1>1, <1>4, <2>1, <3>1, <3>2 DEF EdInv, RowsInv
  <2>9. ValuesInv'
    <3> SUFFICES ASSUME ~overtaken
                 PROVE  \A i \in DOMAIN editorCalls' : editorCalls'[i].kind = "set" =>
                            editorCalls'[i].live
      BY <1>1, <1>13, <2>1, <2>2, <2>3 DEF ValuesInv
    <3>1. \A i \in DOMAIN editorCalls : editorCalls[i].kind = "set" => editorCalls[i].live
      BY <1>2, <2>5 DEF EdInv, ValuesInv
    <3> QED BY <2>2, <2>4, <3>1
  <2> QED BY <2>6, <2>7, <2>8, <2>9 DEF EdInv
<1>14. CASE Editor!Call.live /\ picked[1] = "actors"
  <2> DEFINE c == [kind |-> "page", list |-> picked, text |-> editorFilter, offset |-> 0,
          live |-> TRUE]
             stale == [i \in 1 .. Len(editorCalls) - 1 |->
                 [editorCalls[i + 1] EXCEPT !.live = FALSE]]
             v == [j \in DOMAIN editorRows |-> IF editorRows[j].id = Editor!Call.id
                 THEN Editor!Call.value ELSE editorRows[j].value]
  <2>1. /\ editorCalls' = Append(stale, c) /\ failed' = FALSE /\ loading' = TRUE
        /\ editorRows' = [j \in DOMAIN editorRows |-> IF editorRows[j].id = Editor!Call.id
               THEN [id |-> Editor!Call.id, value |-> Editor!Call.value] ELSE editorRows[j]]
        /\ overtaken' = (overtaken \/ Editor!LiveEdits # {1})
    BY <1>14 DEF Editor!EditDone
  <2>2. /\ c \in GameCalls /\ c.live /\ c.kind = "page" /\ c.list = picked
        /\ c.text = editorFilter /\ c.offset = 0
    BY DEF EdInv, EdTypes, GameCalls, PageCalls
  <2>3. stale \in Seq(GameCalls) /\ \A i \in DOMAIN stale : ~stale[i].live
    BY <1>2, StaleIs
  <2>4. editorRows' = Revalued(v)
    BY <1>3, <2>1, ShownIs
  <2>5. v \in [DOMAIN editorRows -> BOOLEAN]
    <3>1. \A j \in DOMAIN editorRows : editorRows[j].value \in BOOLEAN
      BY RowOfList DEF RowType
    <3>2. Editor!Call.value \in BOOLEAN
      BY <1>3 DEF SetCalls
    <3> QED BY <3>1, <3>2
  <2> HIDE DEF c, stale, v
  <2>6. /\ editorCalls' \in Seq(GameCalls) /\ Len(editorCalls') \in DOMAIN editorCalls'
        /\ editorCalls'[Len(editorCalls')] = c
        /\ \A i \in DOMAIN editorCalls' :
               (i = Len(editorCalls') /\ editorCalls'[i] = c) \/ ~editorCalls'[i].live
    BY <2>1, <2>2, <2>3, AppendIs
  <2>7. /\ editorRows' \in Seq(RowType) /\ Len(editorRows') = Len(editorRows)
        /\ DOMAIN editorRows' = DOMAIN editorRows
        /\ \A j \in DOMAIN editorRows : editorRows'[j].id = editorRows[j].id
    BY <2>4, <2>5, RevaluedIs
  <2>8. EdTypes'
    <3>1. failed' \in BOOLEAN /\ loading' \in BOOLEAN /\ overtaken' \in BOOLEAN
      BY <2>1
    <3> QED BY <1>6, <2>6, <2>7, <3>1
  <2>9. CallsInv'
    <3>1. \A i \in DOMAIN editorCalls' : editorCalls'[i].live =>
              i = Len(editorCalls') /\ editorCalls'[i] = c
      BY <2>6
    <3>2. \E i \in DOMAIN editorCalls' : LiveFirstPage(i)'
      BY <2>2, <2>6 DEF LiveFirstPage, LiveCall
    <3> QED BY <1>1, <1>2, <2>1, <2>2, <3>1, <3>2 DEF CallsInv, LiveFirstPage, LiveCall
  <2>10. RowsInv'
    <3>1. \A i \in DOMAIN editorCalls' : editorCalls'[i].live => editorCalls'[i].offset = 0
      BY <2>2, <2>6
    <3> QED BY <1>1, <1>4, <2>1, <2>7, <3>1 DEF EdInv, RowsInv
  <2>11. ValuesInv'
    BY <2>1 DEF ValuesInv
  <2> QED BY <2>8, <2>9, <2>10, <2>11 DEF EdInv
<1> QED BY <1>7, <1>9, <1>11, <1>12, <1>13, <1>14, ListIs

LEMMA EditorStep == EdInv /\ [Editor!Next]_Editor!vars => EdInv'
<1> SUFFICES ASSUME EdInv, [Editor!Next]_Editor!vars PROVE EdInv'
  OBVIOUS
<1>1. CASE Editor!LoadDue
  BY <1>1, LoadKeeps DEF Editor!LoadDue
<1>2. CASE Editor!EndInView
  <2>1. due' = FALSE
    BY <1>2 DEF Editor!EndInView, Editor!Settled, EdInv, EdTypes
  <2> QED BY <1>2, <2>1, LoadKeeps DEF Editor!EndInView, Editor!Settled
<1>3. CASE Editor!RetryPage
  <2>1. due' = FALSE
    BY <1>3 DEF Editor!RetryPage, Editor!Settled, EdInv, EdTypes
  <2> QED BY <1>3, <2>1, LoadKeeps DEF Editor!RetryPage, Editor!Settled
<1>4. CASE Editor!Refresh
  <2>1. due' = FALSE
    BY <1>4 DEF Editor!Refresh, Editor!Settled, EdInv, EdTypes
  <2> QED BY <1>4, <2>1, LoadKeeps DEF Editor!Refresh
<1>5. ASSUME NEW list \in Editor!Lists, Editor!Chooses(list)
      PROVE  EdInv'
  BY <1>5, ClearedKeeps DEF Editor!Chooses, SearchTexts
<1>6. ASSUME NEW text \in {"", "text"}, Editor!Searches(text)
      PROVE  EdInv'
  BY <1>6, ClearedKeeps DEF Editor!Searches, SearchTexts, EdInv, EdTypes
<1>7. ASSUME NEW i \in DOMAIN editorRows, NEW value \in BOOLEAN, Editor!Edits(i, value)
      PROVE  EdInv'
  BY <1>7, EditsKeeps
<1>8. CASE Editor!Game
  BY <1>8, PageReadKeeps, EditDoneKeeps, PartyReadKeeps, CallFailsKeeps DEF Editor!Game
<1>9. CASE UNCHANGED Editor!vars
  <2>1. /\ editorCalls' = editorCalls /\ editorRows' = editorRows /\ picked' = picked
        /\ editorFilter' = editorFilter /\ due' = due
        /\ nextOffset' = nextOffset /\ loading' = loading /\ failed' = failed
        /\ overtaken' = overtaken
        /\ values' = values
    BY <1>9 DEF Editor!vars, Editor!listVars
  <2>2. EdTypes'
    BY <2>1 DEF EdInv, EdTypes, Editor!Rows, Editor!Length
  <2>3. CallsInv'
    BY <2>1 DEF EdInv, CallsInv, LiveFirstPage, LiveCall
  <2>4. RowsInv'
    BY <2>1 DEF EdInv, RowsInv, Editor!Matches, Editor!Rows, Editor!Length
  <2>5. ValuesInv'
    BY <2>1 DEF EdInv, ValuesInv, ValuesShown
  <2> QED BY <2>2, <2>3, <2>4, <2>5 DEF EdInv
<1> QED BY <1>1, <1>2, <1>3, <1>4, <1>5, <1>6, <1>7, <1>8, <1>9 DEF Editor!Next, Editor!User

LEMMA EditorInit == Editor!Init => EdInv
<1> SUFFICES ASSUME Editor!Init PROVE EdInv
  OBVIOUS
<1>1. /\ picked = <<"variables", "all">> /\ picked \in Editor!Lists /\ editorFilter = ""
      /\ editorFilter \in SearchTexts
  BY DEF Editor!Init, Editor!Lists, SearchTexts
<1>2. /\ due = TRUE /\ loading = TRUE /\ editorRows = <<>> /\ nextOffset = Editor!None
      /\ editorCalls = <<>> /\ failed = FALSE
  BY DEF Editor!Init
<1>3. overtaken = FALSE
  BY DEF Editor!Init
<1>4. /\ DOMAIN values = Editor!Lists
      /\ \A l \in Editor!Lists : values[l] \in [Editor!Rows(l) -> BOOLEAN]
  <2>1. values = [l \in Editor!Lists |-> [r \in Editor!Rows(l) |-> l[1] = "classes" /\ r = 1]]
    BY DEF Editor!Init
  <2> QED BY <2>1
<1>5. EdTypes
  <2>1. due \in BOOLEAN /\ loading \in BOOLEAN /\ failed \in BOOLEAN /\ overtaken \in BOOLEAN
    BY <1>2, <1>3
  <2>2. /\ editorRows \in Seq(RowType) /\ editorCalls \in Seq(PageCalls \cup SetCalls)
        /\ nextOffset \in Nat \cup {Editor!None}
    BY <1>2
  <2> QED BY <1>1, <1>4, <2>1, <2>2 DEF EdTypes
<1>6. CallsInv
  BY <1>2 DEF CallsInv, LiveFirstPage, LiveCall
<1>7. RowsInv
  <2>1. Len(Editor!Matches(picked, editorFilter)) \in Nat
    BY <1>1, FoundIs
  <2> QED BY <1>2, <2>1 DEF RowsInv
<1>8. ValuesInv
  BY <1>2 DEF ValuesInv
<1> QED BY <1>5, <1>6, <1>7, <1>8 DEF EdInv

LEMMA EditorImplies == EdInv => Editor!RowsAreOfSelection /\ Editor!RowsAreCurrent
<1> SUFFICES ASSUME EdInv PROVE Editor!RowsAreOfSelection /\ Editor!RowsAreCurrent
  OBVIOUS
<1>1. Editor!RowsAreOfSelection
  <2> SUFFICES ASSUME ~loading, ~failed
               PROVE  LET found == Editor!Matches(picked, editorFilter) IN
                        /\ Len(editorRows) <= Len(found)
                        /\ \A i \in DOMAIN editorRows : editorRows[i].id = found[i]
                        /\ nextOffset = IF Len(editorRows) < Len(found) THEN Len(editorRows)
                               ELSE Editor!None
    BY DEF Editor!RowsAreOfSelection
  <2>1. Len(Editor!Matches(picked, editorFilter)) \in Nat /\ Len(editorRows) \in Nat
    BY FoundIs DEF EdInv, EdTypes
  <2> QED BY <2>1 DEF EdInv, RowsInv
<1>2. Editor!RowsAreCurrent
  BY DEF Editor!RowsAreCurrent, EdInv, ValuesInv, ValuesShown
<1> QED BY <1>1, <1>2

EditorPart == shellPart = "editor" => EdInv

(* Whatever the user picks, searches, scrolls or edits while the game still owes answers: the     *)
(* rows are the first of the selected list, each with the value it has in the game (load, edit). *)
THEOREM RowsStayRight == ShellSpec => []RowsAreRight
<1>1. ShellInit => EditorPart
  BY EditorInit DEF ShellInit, EditorPart
<1>2. EditorPart /\ [ShellNext]_shellVars => EditorPart'
  <2> SUFFICES ASSUME EditorPart, [ShellNext]_shellVars, shellPart' = "editor" PROVE EdInv'
    BY DEF EditorPart
  <2>1. shellPart' = shellPart /\ [Editor!Next]_Editor!vars
    <3>1. CASE ShellNext
      BY <3>1 DEF ShellNext
    <3>2. CASE UNCHANGED shellVars
      BY <3>2 DEF shellVars, editorVars, Editor!vars, Editor!listVars
    <3> QED BY <3>1, <3>2
  <2> QED BY <2>1, EditorStep DEF EditorPart
<1>3. EditorPart => RowsAreRight
  BY EditorImplies DEF EditorPart, RowsAreRight
<1> QED BY <1>1, <1>2, <1>3, PTL DEF ShellSpec

-----------------------------------------------------------------------------
(* The window over a list (EntryList): it is a part of the list, and a request      *)
(* continues it at the end it is for.                                          *)

(* Entries has these operators as its own.                                        *)
LEMMA EntriesOrders ==
  ASSUME NEW S, NEW s
  PROVE  Entries!Ordered(S) = Ordered(S) /\ Entries!Kept(s, S) = Kept(s, S)
<1>1. ASSUME NEW T PROVE Entries!Cardinality(T) = Cardinality(T)
  BY Zenon DEF Entries!Cardinality, Cardinality
<1>2. ASSUME NEW i PROVE Entries!Rank(S, i) = Rank(S, i)
  BY <1>1 DEF Entries!Rank, Rank
<1>3. Entries!Ordered(S) = Ordered(S)
  <2>1. ASSUME NEW k
        PROVE  (CHOOSE i \in S : Entries!Rank(S, i) = k) = (CHOOSE i \in S : Rank(S, i) = k)
    BY <1>2, SMT
  <2> QED BY <1>1, <2>1 DEF Entries!Ordered, Ordered
<1>4. Entries!Kept(s, S) = Kept(s, S)
  BY <1>1, <1>3 DEF Entries!Kept, Kept
<1> QED BY <1>3, <1>4

EntriesKinds == {"none", "open", "more", "before", "reload"}
EntriesWindows == [read : BOOLEAN, base : Nat, items : Seq(Nat), total : Nat, loading : BOOLEAN,
    more : BOOLEAN, before : BOOLEAN, failed : BOOLEAN]
EntriesRequests == [kind : EntriesKinds, list : Entries!Lists \cup {0}, offset : Nat, limit : Nat,
    then : Int, items : Seq(Nat)]
EachOnce(s) == \A i, j \in DOMAIN s : s[i] = s[j] => i = j
PartOf(s, items, base) == \A i \in DOMAIN items : base + i \in DOMAIN s /\ items[i] = s[base + i]
OfList(t) == t # <<>> => Head(t).list \in Entries!Lists

EnTypes ==
  /\ entriesList \in Entries!Lists /\ games \in [Entries!Lists -> Seq(Nat)]
  /\ \A l \in Entries!Lists : EachOnce(games[l])
  /\ window \in EntriesWindows /\ entriesRequest \in EntriesRequests
  /\ (entriesRequest.kind # "none" => entriesRequest.list \in Entries!Lists)
  /\ start \in Nat /\ position \in Int /\ entriesStale \in BOOLEAN
  /\ OfList(toggling)
WindowInv ==
  window.read /\ ~entriesStale =>
    /\ PartOf(games[entriesList], window.items, window.base)
    /\ window.total = Len(games[entriesList])
RequestInv ==
  /\ entriesRequest.kind \in {"more", "before"} => entriesRequest.list = entriesList
  /\ entriesRequest.kind = "more" => entriesRequest.offset = Entries!End
  /\ entriesRequest.kind = "before" => entriesRequest.offset + entriesRequest.limit = window.base
  /\ entriesRequest.kind = "reload" =>
       LET first == entriesRequest.offset - Len(entriesRequest.items) IN
         first \in Nat /\ PartOf(games[entriesRequest.list], entriesRequest.items, first)
EnInv == EnTypes /\ WindowInv /\ RequestInv
LEMMA EntriesMostIs ==
  ASSUME NEW a \in Int, NEW b \in Int
  PROVE  /\ Entries!Least(a, b) \in Int /\ Entries!Least(a, b) <= a /\ Entries!Least(a, b) <= b
         /\ (Entries!Least(a, b) = a \/ Entries!Least(a, b) = b)
         /\ Entries!Most(a, b) \in Int /\ Entries!Most(a, b) >= a /\ Entries!Most(a, b) >= b
         /\ (Entries!Most(a, b) = a \/ Entries!Most(a, b) = b)
BY DEF Entries!Least, Entries!Most

LEMMA EndIs ==
  ASSUME EnTypes
  PROVE  /\ window.items \in Seq(Nat) /\ Len(window.items) \in Nat /\ window.base \in Nat
         /\ window.total \in Nat
         /\ window.read \in BOOLEAN /\ Entries!End \in Nat
         /\ Entries!End = window.base + Len(window.items)
         /\ DOMAIN window.items = 1 .. Len(window.items) /\ Entries!Selected \in Int
         /\ Entries!At \in Int
<1>1. /\ window.items \in Seq(Nat) /\ window.base \in Nat /\ window.total \in Nat
      /\ window.read \in BOOLEAN
      /\ position \in Int
  BY DEF EnTypes, EntriesWindows
<1>2. Len(window.items) \in Nat /\ DOMAIN window.items = 1 .. Len(window.items)
  BY <1>1
<1>3. Entries!End \in Nat /\ Entries!End = window.base + Len(window.items)
  BY <1>1, <1>2 DEF Entries!End
<1>4. Entries!Selected \in Int
  <2>1. CASE \E i \in DOMAIN window.items : window.items[i] = restored
    <3> DEFINE c == CHOOSE i \in DOMAIN window.items : window.items[i] = restored
    <3>1. c \in DOMAIN window.items
      BY <2>1
    <3>2. Entries!Selected = c - 1
      BY <2>1 DEF Entries!Selected
    <3> HIDE DEF c
    <3> QED BY <1>2, <3>1, <3>2
  <2>2. CASE ~\E i \in DOMAIN window.items : window.items[i] = restored
    <3>1. Entries!Selected = Entries!Most(0,
              Entries!Least(position - window.base, Len(window.items) - 1))
      BY <2>2 DEF Entries!Selected
    <3>2. Entries!Least(position - window.base, Len(window.items) - 1) \in Int
      <4>1. position - window.base \in Int /\ Len(window.items) - 1 \in Int
        BY <1>1, <1>2
      <4> QED BY <4>1, EntriesMostIs
    <3> QED BY <3>1, <3>2, EntriesMostIs
  <2> QED BY <2>1, <2>2
<1>5. Entries!At \in Int
  BY <1>1, <1>4 DEF Entries!At
<1> QED BY <1>1, <1>2, <1>3, <1>4, <1>5

(* What a request returns: the part of its list that it names.                 *)
LEMMA EntriesPageIs ==
  ASSUME EnTypes, entriesRequest.kind # "none"
  PROVE  /\ Entries!Page(entriesRequest) \in Seq(Nat)
         /\ PartOf(games[entriesRequest.list], Entries!Page(entriesRequest), entriesRequest.offset)
         /\ DOMAIN Entries!Page(entriesRequest) = 1 .. Len(Entries!Page(entriesRequest))
         /\ Len(Entries!Page(entriesRequest)) \in Nat
         /\ entriesRequest.offset + entriesRequest.limit <= Len(games[entriesRequest.list]) =>
                Len(Entries!Page(entriesRequest)) = entriesRequest.limit
<1> DEFINE s == games[entriesRequest.list]
           o == entriesRequest.offset
           g == Entries!Least(entriesRequest.limit, Len(s) - o)
<1>1. /\ s \in Seq(Nat) /\ o \in Nat /\ entriesRequest.limit \in Nat
      /\ entriesRequest.list \in Entries!Lists
  BY DEF EnTypes, EntriesRequests
<1>2. Len(s) \in Nat /\ DOMAIN s = 1 .. Len(s) /\ \A i \in DOMAIN s : s[i] \in Nat
  BY <1>1
<1>3. Entries!Page(entriesRequest) = [i \in 1 .. g |-> s[o + i]]
  BY DEF Entries!Page
<1>4. /\ g \in Int /\ g <= Len(s) - o
      /\ (o + entriesRequest.limit <= Len(s) => g = entriesRequest.limit)
  <2>1. entriesRequest.limit \in Int /\ Len(s) - o \in Int /\ Len(s) \in Int
    BY <1>1, <1>2
  <2>2. g \in Int /\ g <= Len(s) - o
    BY <2>1, EntriesMostIs
  <2>3. ASSUME o + entriesRequest.limit <= Len(s) PROVE g = entriesRequest.limit
    <3>1. entriesRequest.limit <= Len(s) - o
      BY <1>1, <1>2, <2>3
    <3> HIDE DEF s, o
    <3> QED BY <2>1, <3>1 DEF Entries!Least
  <2> QED BY <2>2, <2>3
<1> HIDE DEF s, o, g
<1>5. \A i \in 1 .. g : o + i \in DOMAIN s /\ s[o + i] \in Nat
  BY <1>1, <1>2, <1>4
<1>6. CASE g >= 0
  <2>1. g \in Nat
    BY <1>4, <1>6
  <2>2. /\ Entries!Page(entriesRequest) \in Seq(Nat) /\ Len(Entries!Page(entriesRequest)) = g
        /\ DOMAIN Entries!Page(entriesRequest) = 1 .. g
    BY <1>3, <1>5, <2>1
  <2>3. PartOf(s, Entries!Page(entriesRequest), o)
    BY <1>3, <1>5, <2>2 DEF PartOf
  <2> QED BY <1>4, <2>1, <2>2, <2>3 DEF s, o
<1>7. CASE ~(g >= 0)
  <2>1. 1 .. g = {}
    BY <1>4, <1>7
  <2>2. Entries!Page(entriesRequest) = <<>>
    BY <1>3, <2>1
  <2> QED BY <1>1, <1>4, <1>7, <2>2 DEF s, o, PartOf
<1> QED BY <1>6, <1>7


LEMMA EntriesMergeIs ==
  ASSUME NEW a \in Seq(Nat), NEW b \in Seq(Nat)
  PROVE  /\ Entries!Merge(a, b) \in Seq(Nat)
         /\ ((\A i \in DOMAIN a, j \in DOMAIN b : a[i] # b[j]) => Entries!Merge(a, b) = a \o b)
<1> DEFINE S == {j \in DOMAIN b : \A i \in DOMAIN a : a[i] # b[j]}
<1>1. S \in SUBSET DOMAIN b
  OBVIOUS
<1>2. Entries!Merge(a, b) = a \o Entries!Kept(b, S)
  BY DEF Entries!Merge
<1>3. (\A i \in DOMAIN a, j \in DOMAIN b : a[i] # b[j]) => S = DOMAIN b
  OBVIOUS
<1> HIDE DEF S
<1>4. Entries!Kept(b, S) \in Seq(Nat) /\ (S = DOMAIN b => Entries!Kept(b, S) = b)
  BY <1>1, KeptIs, EntriesOrders
<1>5. a \o Entries!Kept(b, S) \in Seq(Nat)
  BY <1>4, Concatenation
<1> QED BY <1>2, <1>3, <1>4, <1>5

(* Two parts of a list of which one begins where the other ends.                *)
LEMMA MergeParts ==
  ASSUME NEW s \in Seq(Nat), EachOnce(s), NEW a \in Seq(Nat), NEW b \in Seq(Nat), NEW base \in Nat,
         PartOf(s, a, base), PartOf(s, b, base + Len(a))
  PROVE  /\ Entries!Merge(a, b) \in Seq(Nat) /\ Len(Entries!Merge(a, b)) = Len(a) + Len(b)
         /\ PartOf(s, Entries!Merge(a, b), base)
<1> DEFINE n == Len(a)
           m == Len(b)
<1>1. n \in Nat /\ m \in Nat /\ DOMAIN a = 1 .. n /\ DOMAIN b = 1 .. m
  OBVIOUS
<1>2. \A i \in 1 .. n : base + i \in DOMAIN s /\ a[i] = s[base + i]
  BY <1>1 DEF PartOf
<1>3. \A i \in 1 .. m : (base + n) + i \in DOMAIN s /\ b[i] = s[(base + n) + i]
  BY <1>1 DEF PartOf
<1> HIDE DEF n, m
<1>4. \A i \in DOMAIN a, j \in DOMAIN b : a[i] # b[j]
  <2> SUFFICES ASSUME NEW i \in 1 .. n, NEW j \in 1 .. m, a[i] = b[j] PROVE FALSE
    BY <1>1
  <2>1. base + i = (base + n) + j
    BY <1>2, <1>3 DEF EachOnce
  <2> QED BY <1>1, <2>1
<1>5. Entries!Merge(a, b) = a \o b
  BY <1>4, EntriesMergeIs
<1>6. /\ a \o b \in Seq(Nat) /\ Len(a \o b) = n + m /\ DOMAIN (a \o b) = 1 .. n + m
      /\ \A i \in 1 .. n + m : (a \o b)[i] = IF i <= n THEN a[i] ELSE b[i - n]
  BY Concatenation DEF n, m
<1>7. ASSUME NEW i \in 1 .. n + m PROVE base + i \in DOMAIN s /\ (a \o b)[i] = s[base + i]
  <2>1. CASE i <= n
    <3>1. i \in 1 .. n /\ (a \o b)[i] = a[i]
      BY <1>1, <1>6, <2>1
    <3> QED BY <1>2, <3>1
  <2>2. CASE ~(i <= n)
    <3>1. i - n \in 1 .. m /\ (a \o b)[i] = b[i - n] /\ (base + n) + (i - n) = base + i
      BY <1>1, <1>6, <2>2
    <3> QED BY <1>3, <3>1
  <2> QED BY <2>1, <2>2
<1>8. PartOf(s, a \o b, base)
  BY <1>6, <1>7 DEF PartOf
<1> QED BY <1>5, <1>6, <1>8 DEF n, m

(* A game leaves a list.                                                       *)
LEMMA LeavesIs ==
  ASSUME NEW s \in Seq(Nat), EachOnce(s), NEW g
  PROVE  LET t == Entries!Kept(s, {i \in DOMAIN s : s[i] # g}) IN t \in Seq(Nat) /\ EachOnce(t)
<1> DEFINE S == {i \in DOMAIN s : s[i] # g}
           t == Entries!Kept(s, S)
<1>1. S \in SUBSET DOMAIN s
  OBVIOUS
<1> HIDE DEF S
<1>2. /\ t \in Seq(Nat)
      /\ \A k, l \in DOMAIN t : k # l => \E i, j \in S : i # j /\ t[k] = s[i] /\ t[l] = s[j]
  BY <1>1, KeptIs, EntriesOrders
<1> HIDE DEF t
<1>3. ASSUME NEW k \in DOMAIN t, NEW l \in DOMAIN t, t[k] = t[l] PROVE k = l
  BY <1>1, <1>2, <1>3 DEF EachOnce
<1>4. t \in Seq(Nat) /\ EachOnce(t)
  BY <1>2, <1>3 DEF EachOnce
<1> QED BY <1>4 DEF t, S
-------------------------------------------------------------------------------
(* The flags of the window change, and what is asked for: not what is shown.    *)
FlagsChange ==
  /\ window' \in EntriesWindows /\ window'.read = window.read /\ window'.base = window.base
  /\ window'.items = window.items /\ window'.total = window.total
RequestSound ==
  /\ entriesRequest' \in EntriesRequests
  /\ (entriesRequest'.kind # "none" => entriesRequest'.list \in Entries!Lists)
  /\ RequestInv'

LEMMA FlagsKeep ==
  ASSUME EnInv, FlagsChange, RequestSound, UNCHANGED <<games, entriesList, start,
                                                       entriesStale>>, position' \in Int,
         OfList(toggling')
  PROVE  EnInv'
<1>1. EnTypes'
  BY DEF EnInv, EnTypes, FlagsChange, RequestSound, Entries!Lists, Entries!Lengths,
      EntriesRequests, EntriesWindows, EachOnce, EntriesKinds
<1>2. WindowInv'
  BY DEF EnInv, WindowInv, FlagsChange, PartOf
<1> QED BY <1>1, <1>2 DEF EnInv, RequestSound

LEMMA NoRequestIs == Entries!NoRequest \in EntriesRequests /\ Entries!NoRequest.kind = "none"
BY DEF Entries!NoRequest, EntriesRequests, EntriesKinds, Entries!None

LEMMA SameRequested ==
  ASSUME EnInv, FlagsChange, UNCHANGED <<games, entriesList>>, entriesRequest' = entriesRequest
  PROVE  RequestSound
<1>1. Entries!End' = Entries!End
  BY DEF FlagsChange, Entries!End
<1> QED BY <1>1 DEF EnInv, EnTypes, RequestInv, RequestSound, FlagsChange, PartOf

LEMMA NoneRequested ==
  ASSUME entriesRequest' = Entries!NoRequest
  PROVE  RequestSound
BY NoRequestIs DEF RequestSound, RequestInv

LEMMA MoreRequested ==
  ASSUME EnInv, Entries!LoadMore, UNCHANGED <<games, entriesList>>
  PROVE  FlagsChange /\ RequestSound
<1>1. window' = [window EXCEPT !.more = TRUE, !.failed = FALSE] /\ window \in EntriesWindows
  BY DEF Entries!LoadMore, EnInv, EnTypes
<1>2. FlagsChange
  BY <1>1 DEF FlagsChange, EntriesWindows
<1>3. entriesRequest' = [Entries!NoRequest EXCEPT !.kind = "more", !.list = entriesList,
          !.offset = Entries!End, !.limit = EntriesPageSize]
  BY DEF Entries!LoadMore
<1>4. entriesRequest' = [kind |-> "more", list |-> entriesList, offset |-> Entries!End,
          limit |-> EntriesPageSize, then |-> Entries!None, items |-> <<>>]
  BY <1>3 DEF Entries!NoRequest
<1>5. /\ Entries!End \in Nat /\ entriesList \in Entries!Lists /\ EntriesPageSize \in Nat
      /\ Entries!End' = Entries!End
  BY <1>2, EndIs, ShellAssumption DEF EnInv, EnTypes, FlagsChange, Entries!End
<1>6. /\ entriesRequest' \in EntriesRequests /\ entriesRequest'.kind = "more"
      /\ entriesRequest'.list = entriesList /\ entriesRequest'.offset = Entries!End
  BY <1>4, <1>5 DEF EntriesRequests, EntriesKinds, Entries!None
<1> QED BY <1>2, <1>5, <1>6 DEF RequestSound, RequestInv

LEMMA BeforeRequested ==
  ASSUME EnInv, NEW t \in Int, Entries!LoadBefore(t), UNCHANGED <<games, entriesList>>
  PROVE  FlagsChange /\ RequestSound
<1>1. window' = [window EXCEPT !.before = TRUE, !.failed = FALSE] /\ window \in EntriesWindows
  BY DEF Entries!LoadBefore, EnInv, EnTypes
<1>2. FlagsChange
  BY <1>1 DEF FlagsChange, EntriesWindows
<1> DEFINE o == Entries!Most(0, window.base - EntriesPageSize)
<1>3. entriesRequest' = [Entries!NoRequest EXCEPT !.kind = "before", !.list = entriesList,
          !.then = t, !.offset = o, !.limit = window.base - o]
  BY DEF Entries!LoadBefore
<1>4. entriesRequest' = [kind |-> "before", list |-> entriesList, offset |-> o,
          limit |-> window.base - o, then |-> t, items |-> <<>>]
  BY <1>3 DEF Entries!NoRequest
<1>5. window.base \in Nat /\ EntriesPageSize \in Nat /\ entriesList \in Entries!Lists
  BY EndIs, ShellAssumption DEF EnInv, EnTypes
<1>6. /\ o \in Nat /\ o <= window.base /\ window.base - o \in Nat
      /\ o + (window.base - o) = window.base
  BY <1>5 DEF Entries!Most
<1> HIDE DEF o
<1>7. /\ entriesRequest' \in EntriesRequests /\ entriesRequest'.kind = "before"
      /\ entriesRequest'.list = entriesList
      /\ entriesRequest'.offset = o /\ entriesRequest'.limit = window.base - o
  BY <1>4, <1>5, <1>6 DEF EntriesRequests, EntriesKinds
<1> QED BY <1>2, <1>5, <1>6, <1>7 DEF RequestSound, RequestInv, FlagsChange

LEMMA OpenRequested ==
  ASSUME EnInv, NEW l \in Entries!Lists, NEW o \in Nat, NEW t \in Int, Entries!Open(l, o, t)
  PROVE  FlagsChange /\ RequestSound
<1>1. /\ window' = [window EXCEPT !.loading = ~window.read, !.more = window.read,
                     !.before = FALSE, !.failed = FALSE]
      /\ window \in EntriesWindows /\ window.read \in BOOLEAN
  BY DEF Entries!Open, EnInv, EnTypes, EntriesWindows
<1>2. FlagsChange
  BY <1>1 DEF FlagsChange, EntriesWindows
<1>3. entriesRequest' = [Entries!NoRequest EXCEPT !.kind = "open", !.list = l, !.offset = o,
          !.limit = EntriesPageSize, !.then = t]
  BY DEF Entries!Open
<1>4. entriesRequest' = [kind |-> "open", list |-> l, offset |-> o, limit |-> EntriesPageSize,
          then |-> t, items |-> <<>>]
  BY <1>3 DEF Entries!NoRequest
<1>5. /\ entriesRequest' \in EntriesRequests /\ entriesRequest'.kind = "open"
      /\ entriesRequest'.list = l
  BY <1>4, ShellAssumption DEF EntriesRequests, EntriesKinds
<1> QED BY <1>2, <1>5 DEF RequestSound, RequestInv
-------------------------------------------------------------------------------
LEMMA RequestIs ==
  ASSUME EnInv, entriesRequest.kind # "none"
  PROVE  /\ entriesRequest.list \in Entries!Lists /\ entriesRequest.offset \in Nat
         /\ entriesRequest.limit \in Nat /\ entriesRequest.then \in Int
         /\ entriesRequest.items \in Seq(Nat) /\ Len(entriesRequest.items) \in Nat
         /\ games[entriesRequest.list] \in Seq(Nat) /\ EachOnce(games[entriesRequest.list])
         /\ Len(games[entriesRequest.list]) \in Nat
<1>1. entriesRequest \in EntriesRequests /\ entriesRequest.list \in Entries!Lists
  BY DEF EnInv, EnTypes
<1>2. /\ entriesRequest.items \in Seq(Nat) /\ games[entriesRequest.list] \in Seq(Nat)
      /\ EachOnce(games[entriesRequest.list])
  BY <1>1 DEF EnInv, EnTypes, EntriesRequests
<1> QED BY <1>1, <1>2 DEF EntriesRequests

LEMMA MovesPosition ==
  ASSUME EnTypes, NEW p \in Int
  PROVE  Entries!MoveTo(p) => position' \in Int
BY EntriesMostIs DEF Entries!MoveTo


LEMMA OpenAnsweredKeeps ==
  ASSUME EnInv, Entries!OpenAnswered
  PROVE  EnInv'
<1> DEFINE page == Entries!Page(entriesRequest)
           total == Len(games[entriesRequest.list])
           last == Entries!Most(0, total - EntriesPageSize)
<1>1. /\ entriesRequest.kind = "open" /\ UNCHANGED <<games, start, entriesList, toggling>>
  BY DEF Entries!OpenAnswered
<1>2. /\ entriesRequest.list \in Entries!Lists /\ entriesRequest.offset \in Nat
      /\ entriesRequest.then \in Int /\ total \in Nat /\ entriesRequest \in EntriesRequests
  BY <1>1, RequestIs DEF EnInv, EnTypes
<1>3. page \in Seq(Nat) /\ PartOf(games[entriesRequest.list], page, entriesRequest.offset)
  BY <1>1, EntriesPageIs DEF EnInv
<1>4. last \in Nat
  BY <1>2, ShellAssumption DEF Entries!Most
<1>5. OfList(toggling') /\ position \in Int /\ window \in EntriesWindows
  BY <1>1 DEF EnInv, EnTypes
<1> HIDE DEF page, total, last
<1>6. CASE /\ entriesRequest' = [entriesRequest EXCEPT !.offset = last]
           /\ UNCHANGED <<window, position, entriesStale>>
  <2>1. FlagsChange
    BY <1>5, <1>6 DEF FlagsChange
  <2>2. /\ entriesRequest' \in EntriesRequests /\ entriesRequest'.kind = "open"
        /\ entriesRequest'.list = entriesRequest.list
    BY <1>1, <1>2, <1>4, <1>6 DEF EntriesRequests
  <2>3. RequestSound
    BY <1>2, <2>2 DEF RequestSound, RequestInv
  <2> QED BY <1>1, <1>5, <1>6, <2>1, <2>3, FlagsKeep
<1>7. CASE /\ entriesRequest' = Entries!NoRequest
           /\ entriesStale' = (entriesRequest.list # entriesList)
           /\ window' = [window EXCEPT !.read = TRUE, !.base = entriesRequest.offset,
                          !.items = page, !.total = total, !.loading = FALSE, !.more = FALSE]
           /\ IF entriesRequest.then = Entries!None THEN UNCHANGED <<position, restored>>
                  ELSE Entries!MoveTo(entriesRequest.then)
  <2>1. /\ window' \in EntriesWindows /\ window'.base = entriesRequest.offset
        /\ window'.items = page /\ window'.total = total
    BY <1>2, <1>3, <1>5, <1>7 DEF EntriesWindows
  <2>2. position' \in Int
    BY <1>2, <1>5, <1>7, MovesPosition DEF EnInv
  <2>3. RequestSound
    BY <1>7, NoneRequested
  <2>4. EnTypes'
    <3>1. entriesStale' \in BOOLEAN
      BY <1>7
    <3> QED BY <1>1, <1>5, <2>1, <2>2, <2>3, <3>1 DEF EnInv, EnTypes, RequestSound, Entries!Lists,
        Entries!Lengths, EachOnce
  <2>5. WindowInv'
    BY <1>1, <1>3, <1>7, <2>1 DEF WindowInv, PartOf, total
  <2> QED BY <2>3, <2>4, <2>5 DEF EnInv, RequestSound
<1>8. \/ /\ entriesRequest' = [entriesRequest EXCEPT !.offset = last]
         /\ UNCHANGED <<window, position, entriesStale>>
      \/ /\ entriesRequest' = Entries!NoRequest
         /\ entriesStale' = (entriesRequest.list # entriesList)
         /\ window' = [window EXCEPT !.read = TRUE, !.base = entriesRequest.offset,
                        !.items = page, !.total = total, !.loading = FALSE, !.more = FALSE]
         /\ IF entriesRequest.then = Entries!None THEN UNCHANGED <<position, restored>>
                ELSE Entries!MoveTo(entriesRequest.then)
  BY DEF Entries!OpenAnswered, page, total, last
<1> QED BY <1>6, <1>7, <1>8

LEMMA AbortedIs ==
  ASSUME EnInv
  PROVE  Entries!AbortedTo \in Int
<1>1. CASE entriesRequest.kind = "before"
  <2>1. entriesRequest.then \in Int
    BY <1>1, RequestIs
  <2> QED BY <1>1, <2>1 DEF Entries!AbortedTo
<1>2. CASE entriesRequest.kind # "before"
  BY <1>2 DEF Entries!AbortedTo, Entries!None
<1> QED BY <1>1, <1>2

LEMMA MoreAnsweredKeeps ==
  ASSUME EnInv, Entries!MoreAnswered
  PROVE  EnInv'
<1> DEFINE page == Entries!Page(entriesRequest)
           items == Entries!Merge(window.items, page)
           total == Len(games[entriesRequest.list])
<1>1. /\ entriesRequest.kind = "more" /\ entriesRequest' = Entries!NoRequest
      /\ UNCHANGED <<games, start, entriesList, position, toggling, entriesStale>>
      /\ window' = [window EXCEPT !.items = items, !.total = total, !.more = FALSE]
  BY DEF Entries!MoreAnswered
<1>2. entriesRequest.list = entriesList /\ entriesRequest.offset = Entries!End /\ total \in Nat
  BY <1>1, RequestIs DEF EnInv, RequestInv
<1>3. page \in Seq(Nat) /\ PartOf(games[entriesList], page, Entries!End)
  BY <1>1, <1>2, EntriesPageIs DEF EnInv
<1>4. /\ window.items \in Seq(Nat) /\ window.base \in Nat
      /\ Entries!End = window.base + Len(window.items) /\ window \in EntriesWindows
  BY EndIs DEF EnInv, EnTypes
<1>5. games[entriesList] \in Seq(Nat) /\ EachOnce(games[entriesList])
  BY DEF EnInv, EnTypes
<1> HIDE DEF page
<1>6. items \in Seq(Nat)
  BY <1>3, <1>4, EntriesMergeIs
<1>7. PartOf(games[entriesList], window.items, window.base) =>
          PartOf(games[entriesList], items, window.base)
  BY <1>3, <1>4, <1>5, MergeParts
<1> HIDE DEF items
<1>8. /\ window' \in EntriesWindows /\ window'.items = items /\ window'.base = window.base
      /\ window'.total = total /\ window'.read = window.read
  BY <1>1, <1>2, <1>4, <1>6 DEF EntriesWindows
<1>9. RequestSound
  BY <1>1, NoneRequested
<1>10. EnTypes'
  BY <1>1, <1>8, <1>9 DEF EnInv, EnTypes, RequestSound, Entries!Lists, Entries!Lengths, EachOnce
<1>11. WindowInv'
  BY <1>1, <1>2, <1>7, <1>8 DEF EnInv, WindowInv, PartOf, total
<1> QED BY <1>9, <1>10, <1>11 DEF EnInv, RequestSound

LEMMA BeforeAnsweredKeeps ==
  ASSUME EnInv, Entries!BeforeAnswered
  PROVE  EnInv'
<1> DEFINE page == Entries!Page(entriesRequest)
           items == Entries!Merge(page, window.items)
           total == Len(games[entriesRequest.list])
           o == entriesRequest.offset
<1>1. /\ entriesRequest.kind = "before" /\ entriesRequest' = Entries!NoRequest
      /\ UNCHANGED <<games, start, entriesList, toggling, entriesStale>>
      /\ window' = [window EXCEPT !.base = o, !.items = items, !.total = total, !.before = FALSE]
  BY DEF Entries!BeforeAnswered
<1>2. /\ entriesRequest.list = entriesList /\ o + entriesRequest.limit = window.base
      /\ total \in Nat /\ o \in Nat /\ entriesRequest.limit \in Nat
      /\ entriesRequest.then \in Int
  BY <1>1, RequestIs DEF EnInv, RequestInv
<1>3. /\ page \in Seq(Nat) /\ PartOf(games[entriesList], page, o)
      /\ o + entriesRequest.limit <= total => Len(page) = entriesRequest.limit
  BY <1>1, <1>2, EntriesPageIs DEF EnInv
<1>4. /\ window.items \in Seq(Nat) /\ window.base \in Nat /\ window \in EntriesWindows
      /\ position \in Int
      /\ DOMAIN window.items = 1 .. Len(window.items) /\ Len(window.items) \in Nat
  BY EndIs DEF EnInv, EnTypes
<1>5. /\ games[entriesList] \in Seq(Nat) /\ EachOnce(games[entriesList])
      /\ DOMAIN games[entriesList] = 1 .. total
  BY <1>2 DEF EnInv, EnTypes
<1> HIDE DEF page, total, o
<1>6. items \in Seq(Nat)
  BY <1>3, <1>4, EntriesMergeIs
<1>7. ASSUME PartOf(games[entriesList], window.items, window.base)
      PROVE PartOf(games[entriesList], items, o)
  <2>1. PartOf(games[entriesList], window.items, o + Len(page))
    <3>1. CASE Len(window.items) = 0
      BY <1>4, <3>1 DEF PartOf
    <3>2. CASE Len(window.items) # 0
      <4>1. window.base + 1 \in DOMAIN games[entriesList]
        BY <1>4, <1>7, <3>2 DEF PartOf
      <4>2. Len(page) = entriesRequest.limit
        BY <1>2, <1>3, <1>4, <1>5, <4>1
      <4> QED BY <1>2, <1>7, <4>2
    <3> QED BY <3>1, <3>2
  <2> QED BY <1>2, <1>3, <1>4, <1>5, <2>1, MergeParts
<1> HIDE DEF items
<1>8. /\ window' \in EntriesWindows /\ window'.items = items /\ window'.base = o
      /\ window'.total = total /\ window'.read = window.read
  BY <1>1, <1>2, <1>4, <1>6 DEF EntriesWindows
<1>9. RequestSound
  BY <1>1, NoneRequested
<1>10. position' \in Int
  BY <1>2, <1>4, MovesPosition DEF Entries!BeforeAnswered, EnInv
<1>11. EnTypes'
  BY <1>1, <1>8, <1>9, <1>10 DEF EnInv, EnTypes, RequestSound, Entries!Lists, Entries!Lengths,
      EachOnce
<1>12. WindowInv'
  BY <1>1, <1>2, <1>7, <1>8 DEF EnInv, WindowInv, PartOf, total
<1> QED BY <1>9, <1>11, <1>12 DEF EnInv, RequestSound

LEMMA ReloadAnsweredKeeps ==
  ASSUME EnInv, Entries!ReloadAnswered
  PROVE  EnInv'
<1> DEFINE page == Entries!Page(entriesRequest)
           s == games[entriesRequest.list]
           total == Len(s)
           first == entriesRequest.offset - Len(entriesRequest.items)
           items == Entries!Merge(entriesRequest.items, page)
<1>1. entriesRequest.kind = "reload" /\ UNCHANGED <<games, start, entriesList, position, toggling>>
  BY DEF Entries!ReloadAnswered
<1>2. /\ entriesRequest.list \in Entries!Lists /\ entriesRequest.offset \in Nat
      /\ entriesRequest.items \in Seq(Nat) /\ Len(entriesRequest.items) \in Nat
      /\ s \in Seq(Nat) /\ EachOnce(s) /\ total \in Nat /\ entriesRequest \in EntriesRequests
  BY <1>1, RequestIs DEF EnInv, EnTypes
<1>3. first \in Nat /\ PartOf(s, entriesRequest.items, first)
  BY <1>1 DEF EnInv, RequestInv
<1>4. first + Len(entriesRequest.items) = entriesRequest.offset
  BY <1>2, <1>3
<1>5. page \in Seq(Nat) /\ PartOf(s, page, entriesRequest.offset)
  BY <1>1, EntriesPageIs DEF EnInv
<1>6. \/ /\ entriesRequest' = [entriesRequest EXCEPT !.offset = first + Len(items), !.items = items]
         /\ UNCHANGED <<window, entriesStale>>
      \/ /\ entriesRequest' = Entries!NoRequest
         /\ entriesStale' = (entriesRequest.list # entriesList)
         /\ window' = [window EXCEPT !.read = TRUE, !.base = first, !.items = items,
                        !.total = total, !.loading = FALSE, !.more = FALSE]
  BY DEF Entries!ReloadAnswered
<1> HIDE DEF page, s, total, first
<1>7. items \in Seq(Nat) /\ PartOf(s, items, first)
  BY <1>2, <1>3, <1>4, <1>5, MergeParts
<1> HIDE DEF items
<1>8. OfList(toggling') /\ position' \in Int /\ window \in EntriesWindows /\ Len(items) \in Nat
  BY <1>1, <1>7 DEF EnInv, EnTypes
<1>9. CASE entriesRequest' = [entriesRequest EXCEPT !.offset = first + Len(items),
               !.items = items] /\ UNCHANGED <<window, entriesStale>>
  <2>1. /\ entriesRequest' \in EntriesRequests /\ entriesRequest'.kind = "reload"
        /\ entriesRequest'.list = entriesRequest.list
        /\ entriesRequest'.offset = first + Len(items) /\ entriesRequest'.items = items
    <3> DEFINE n == first + Len(items)
    <3>1. n \in Nat /\ entriesRequest' = [entriesRequest EXCEPT !.offset = n, !.items = items]
      BY <1>3, <1>8, <1>9
    <3> HIDE DEF n
    <3>2. /\ entriesRequest' \in EntriesRequests /\ entriesRequest'.kind = "reload"
          /\ entriesRequest'.list = entriesRequest.list
          /\ entriesRequest'.offset = n /\ entriesRequest'.items = items
      BY <1>1, <1>2, <1>7, <3>1 DEF EntriesRequests
    <3> QED BY <3>2 DEF n
  <2>2. entriesRequest'.offset - Len(entriesRequest'.items) = first
    BY <1>3, <1>8, <2>1
  <2>3. PartOf(games'[entriesRequest'.list], entriesRequest'.items, first)
    BY <1>1, <1>7, <2>1 DEF s
  <2>4. RequestSound
    BY <1>2, <1>3, <2>1, <2>2, <2>3 DEF RequestSound, RequestInv, PartOf
  <2>5. FlagsChange
    BY <1>8, <1>9 DEF FlagsChange
  <2> QED BY <1>1, <1>8, <1>9, <2>4, <2>5, FlagsKeep
<1>10. CASE /\ entriesRequest' = Entries!NoRequest
            /\ entriesStale' = (entriesRequest.list # entriesList)
            /\ window' = [window EXCEPT !.read = TRUE, !.base = first, !.items = items,
                           !.total = total, !.loading = FALSE, !.more = FALSE]
  <2>1. /\ window' \in EntriesWindows /\ window'.base = first /\ window'.items = items
        /\ window'.total = total
    BY <1>2, <1>3, <1>7, <1>8, <1>10 DEF EntriesWindows
  <2>2. RequestSound
    BY <1>10, NoneRequested
  <2>3. EnTypes'
    <3>1. entriesStale' \in BOOLEAN
      BY <1>10
    <3> QED BY <1>1, <1>8, <2>1, <2>2, <3>1 DEF EnInv, EnTypes, RequestSound, Entries!Lists,
        Entries!Lengths, EachOnce
  <2>4. WindowInv'
    BY <1>1, <1>7, <1>10, <2>1 DEF WindowInv, PartOf, total, s
  <2> QED BY <2>2, <2>3, <2>4 DEF EnInv, RequestSound
<1> QED BY <1>6, <1>9, <1>10

LEMMA FailsKeeps ==
  ASSUME EnInv, Entries!Fails
  PROVE  EnInv'
<1>1. /\ entriesRequest' = Entries!NoRequest
      /\ UNCHANGED <<games, start, entriesList, toggling, entriesStale>>
      /\ window' = [window EXCEPT !.loading = FALSE,
                     !.more = IF entriesRequest.kind = "before" THEN @ ELSE FALSE,
                     !.before = IF entriesRequest.kind = "before" THEN FALSE ELSE @,
                     !.failed = TRUE]
      /\ IF Entries!AbortedTo # Entries!None THEN Entries!MoveTo(Entries!AbortedTo)
             ELSE UNCHANGED <<position, restored>>
  BY DEF Entries!Fails
<1>2. /\ window \in EntriesWindows /\ position \in Int /\ Entries!AbortedTo \in Int
      /\ OfList(toggling')
  BY <1>1, AbortedIs DEF EnInv, EnTypes, Entries!Ready
<1>3. FlagsChange
  BY <1>1, <1>2 DEF FlagsChange, EntriesWindows
<1>4. position' \in Int
  BY <1>1, <1>2, MovesPosition DEF EnInv
<1>5. RequestSound
  BY <1>1, NoneRequested
<1> QED BY <1>1, <1>2, <1>3, <1>4, <1>5, FlagsKeep
-------------------------------------------------------------------------------
(* The user moves: the window stays, and at most one request is made for it.    *)
LEMMA MovesKeep ==
  ASSUME EnInv, UNCHANGED <<games, entriesList, start, entriesStale, toggling>>, position' \in Int,
         \/ UNCHANGED <<window, entriesRequest>>
         \/ Entries!LoadMore
         \/ \E t \in Int : Entries!LoadBefore(t)
         \/ \E o \in Nat, t \in Int : Entries!Open(entriesList, o, t)
  PROVE  EnInv'
<1>1. OfList(toggling') /\ entriesList \in Entries!Lists
  BY DEF EnInv, EnTypes
<1>2. FlagsChange /\ RequestSound
  <2>1. CASE UNCHANGED <<window, entriesRequest>>
    <3>1. FlagsChange
      BY <2>1 DEF FlagsChange, EnInv, EnTypes
    <3> QED BY <2>1, <3>1, SameRequested
  <2>2. CASE Entries!LoadMore
    BY <2>2, MoreRequested
  <2>3. CASE \E t \in Int : Entries!LoadBefore(t)
    BY <2>3, BeforeRequested
  <2>4. CASE \E o \in Nat, t \in Int : Entries!Open(entriesList, o, t)
    BY <1>1, <2>4, OpenRequested
  <2> QED BY <2>1, <2>2, <2>3, <2>4
<1> QED BY <1>1, <1>2, FlagsKeep

LEMMA PlacesAre ==
  ASSUME EnInv
  PROVE  /\ Entries!At \in Int /\ Entries!At - 1 \in Int /\ position \in Int
         /\ Entries!Most(0, Entries!At - VisibleRows) \in Int
         /\ Entries!Least(Entries!At + 1,
                (Entries!End - 1) + (IF Entries!HasMore THEN 1 ELSE 0)) \in Int
         /\ window.base + Entries!Least(Len(window.items) - 1,
                Entries!Selected + VisibleRows) \in Int
<1>1. /\ Entries!At \in Int /\ Entries!End \in Int /\ Entries!Selected \in Int
      /\ window.base \in Int /\ Len(window.items) \in Int
  BY EndIs DEF EnInv
<1>2. /\ Entries!At - 1 \in Int /\ Entries!At + 1 \in Int /\ Entries!At - VisibleRows \in Int
      /\ (Entries!End - 1) + (IF Entries!HasMore THEN 1 ELSE 0) \in Int
      /\ Len(window.items) - 1 \in Int /\ Entries!Selected + VisibleRows \in Int
  BY <1>1, ShellAssumption
<1>3. position \in Int
  BY DEF EnInv, EnTypes
<1>4. /\ Entries!Most(0, Entries!At - VisibleRows) \in Int
      /\ Entries!Least(Entries!At + 1,
             (Entries!End - 1) + (IF Entries!HasMore THEN 1 ELSE 0)) \in Int
  BY <1>2, EntriesMostIs
<1>5. Entries!Least(Len(window.items) - 1, Entries!Selected + VisibleRows) \in Int
  BY <1>2, EntriesMostIs
<1>6. window.base + Entries!Least(Len(window.items) - 1, Entries!Selected + VisibleRows) \in Int
  BY <1>1, <1>5
<1> QED BY <1>1, <1>2, <1>3, <1>4, <1>6

LEMMA UserKeeps ==
  ASSUME EnInv,
         \/ Entries!StepUp \/ Entries!StepDown \/ Entries!PagePrevious \/ Entries!PageNext
         \/ Entries!ScrollsUp \/ Entries!ScrollsDown
  PROVE  EnInv'
<1>1. CASE Entries!StepUp
  <2>1. UNCHANGED <<games, entriesList, start, entriesStale, toggling>>
    BY <1>1 DEF Entries!StepUp
  <2>2. (Entries!LoadBefore(Entries!At - 1) /\ position' =
            position) \/ (Entries!MoveTo(Entries!At - 1) /\ UNCHANGED <<window, entriesRequest>>)
    BY <1>1 DEF Entries!StepUp
  <2> QED BY <2>1, <2>2, PlacesAre, MovesPosition, MovesKeep DEF EnInv
<1>2. CASE Entries!StepDown
  <2>1. UNCHANGED <<games, entriesList, start, entriesStale, toggling>>
    BY <1>2 DEF Entries!StepDown
  <2>2. Entries!LoadMore \/ UNCHANGED <<window, entriesRequest>>
    BY <1>2 DEF Entries!StepDown
  <2>3. Entries!MoveTo(Entries!Least(Entries!At + 1,
            (Entries!End - 1) + (IF Entries!HasMore THEN 1 ELSE 0)))
    BY <1>2 DEF Entries!StepDown
  <2> QED BY <2>1, <2>2, <2>3, PlacesAre, MovesPosition, MovesKeep DEF EnInv
<1>3. CASE Entries!PagePrevious
  <2> DEFINE p == Entries!Most(0, Entries!At - VisibleRows)
  <2>1. UNCHANGED <<games, entriesList, start, entriesStale, toggling>>
    BY <1>3 DEF Entries!PagePrevious
  <2>2. (Entries!LoadBefore(p) /\ position' =
            position) \/ (Entries!MoveTo(p) /\ UNCHANGED <<window, entriesRequest>>)
    BY <1>3 DEF Entries!PagePrevious
  <2>3. p \in Int
    BY PlacesAre
  <2> HIDE DEF p
  <2> QED BY <2>1, <2>2, <2>3, PlacesAre, MovesPosition, MovesKeep DEF EnInv
<1>4. CASE Entries!PageNext
  <2>1. UNCHANGED <<games, entriesList, start, entriesStale, toggling>>
    BY <1>4 DEF Entries!PageNext
  <2>2. Entries!LoadMore \/ UNCHANGED <<window, entriesRequest>>
    BY <1>4 DEF Entries!PageNext
  <2>3. Entries!MoveTo(window.base + Entries!Least(Len(window.items) - 1,
            Entries!Selected + VisibleRows))
    BY <1>4 DEF Entries!PageNext
  <2> QED BY <2>1, <2>2, <2>3, PlacesAre, MovesPosition, MovesKeep DEF EnInv
<1>5. CASE Entries!ScrollsUp
  <2>1. Entries!None \in Int
    BY DEF Entries!None
  <2> QED BY <1>5, <2>1, PlacesAre, MovesKeep DEF Entries!ScrollsUp
<1>6. CASE Entries!ScrollsDown
  BY <1>6, PlacesAre, MovesKeep DEF Entries!ScrollsDown
<1> QED BY <1>1, <1>2, <1>3, <1>4, <1>5, <1>6

LEMMA JumpToKeeps ==
  ASSUME EnInv, NEW p \in Entries!Letters, Entries!JumpTo(p)
  PROVE  EnInv'
<1>1. p \in Nat
  <2>1. entriesList \in Entries!Lists /\ games[entriesList] \in Seq(Nat)
    BY DEF EnInv, EnTypes
  <2>2. p \in 0 .. Len(games[entriesList]) - 1 /\ Len(games[entriesList]) \in Nat
    BY <2>1 DEF Entries!Letters
  <2> QED BY <2>2
<1>2. UNCHANGED <<games, entriesList, start, entriesStale, toggling>>
  BY DEF Entries!JumpTo
<1>3. \/ Entries!MoveTo(p) /\ UNCHANGED <<window, entriesRequest>>
      \/ Entries!Open(entriesList, p, p) /\ IF Entries!AbortedTo # Entries!None
             THEN Entries!MoveTo(Entries!AbortedTo) ELSE UNCHANGED <<position, restored>>
  BY DEF Entries!JumpTo
<1>4. position' \in Int
  BY <1>1, <1>3, AbortedIs, PlacesAre, MovesPosition DEF EnInv
<1> QED BY <1>1, <1>2, <1>3, <1>4, MovesKeep

LEMMA ChoosesKeeps ==
  ASSUME EnInv, NEW l \in Entries!Lists, Entries!Chooses(l)
  PROVE  EnInv'
<1>1. /\ entriesList' = l /\ window' = Entries!Empty /\ entriesStale' = FALSE
      /\ UNCHANGED <<games, start, toggling>>
      /\ entriesRequest' = [Entries!NoRequest EXCEPT !.kind = "open", !.list = l,
             !.offset = Entries!RestoreOffset(l), !.limit = EntriesPageSize]
      /\ Entries!MoveTo(IF Entries!AbortedTo # Entries!None THEN Entries!AbortedTo ELSE window.base)
  BY DEF Entries!Chooses
<1>2. Entries!RestoreOffset(l) \in Nat
  BY DEF Entries!RestoreOffset, EnInv, EnTypes
<1>3. entriesRequest' = [kind |-> "open", list |-> l, offset |-> Entries!RestoreOffset(l),
          limit |-> EntriesPageSize, then |-> Entries!None, items |-> <<>>]
  BY <1>1 DEF Entries!NoRequest
<1>4. /\ entriesRequest' \in EntriesRequests /\ entriesRequest'.kind = "open"
      /\ entriesRequest'.list = l
  BY <1>2, <1>3, ShellAssumption DEF EntriesRequests, EntriesKinds, Entries!None
<1>5. position' \in Int
  <2>1. (IF Entries!AbortedTo # Entries!None THEN Entries!AbortedTo ELSE window.base) \in Int
    BY AbortedIs, EndIs DEF EnInv
  <2> QED BY <1>1, <2>1, MovesPosition DEF EnInv
<1>6. window' \in EntriesWindows /\ window'.read = FALSE
  BY <1>1 DEF Entries!Empty, EntriesWindows
<1>7. RequestSound
  BY <1>1, <1>4 DEF RequestSound, RequestInv
<1>8. EnTypes'
  <2>1. entriesStale' \in BOOLEAN /\ OfList(toggling')
    BY <1>1 DEF EnInv, EnTypes
  <2> QED BY <1>1, <1>5, <1>6, <1>7, <2>1 DEF EnInv, EnTypes, RequestSound, Entries!Lists,
      Entries!Lengths, EachOnce
<1>9. WindowInv'
  BY <1>6 DEF WindowInv
<1> QED BY <1>7, <1>8, <1>9 DEF EnInv, RequestSound

LEMMA TogglesKeeps ==
  ASSUME EnInv, Entries!Toggles
  PROVE  EnInv'
<1>1. toggling' = <<[list |-> entriesList, game |-> window.items[Entries!Selected + 1]]>>
      /\ UNCHANGED <<games, start, entriesList, window, entriesRequest, position, entriesStale>>
  BY DEF Entries!Toggles
<1>2. entriesList \in Entries!Lists /\ position' \in Int
  BY <1>1 DEF EnInv, EnTypes
<1>3. OfList(toggling')
  BY <1>1, <1>2 DEF OfList
<1>4. FlagsChange
  BY <1>1 DEF FlagsChange, EnInv, EnTypes
<1>5. RequestSound
  BY <1>1, <1>4, SameRequested
<1> QED BY <1>1, <1>2, <1>3, <1>4, <1>5, FlagsKeep

LEMMA ToggledKeeps ==
  ASSUME EnInv, Entries!Toggled
  PROVE  EnInv'
<1> DEFINE l == Head(toggling).list
           g == Head(toggling).game
           left == Entries!Kept(games[l], {i \in DOMAIN games[l] : games[l][i] # g})
           o == IF window.read THEN window.base ELSE Entries!RestoreOffset(entriesList)
<1>1. /\ toggling # <<>> /\ toggling' = <<>> /\ entriesStale' = TRUE
      /\ UNCHANGED <<start, entriesList>>
      /\ games' = [games EXCEPT ![l] = left]
      /\ window' = [window EXCEPT !.loading = ~window.read, !.more = window.read,
                     !.before = FALSE, !.failed = FALSE]
      /\ entriesRequest' = [Entries!NoRequest EXCEPT !.kind = "reload", !.list = l,
             !.limit = EntriesPageSize, !.offset = o]
      /\ IF Entries!AbortedTo # Entries!None THEN Entries!MoveTo(Entries!AbortedTo)
             ELSE UNCHANGED <<position, restored>>
  BY DEF Entries!Toggled, Entries!Reload
<1>2. /\ l \in Entries!Lists /\ games[l] \in Seq(Nat) /\ EachOnce(games[l])
      /\ games \in [Entries!Lists -> Seq(Nat)]
  BY <1>1 DEF EnInv, EnTypes, OfList
<1>3. o \in Nat
  BY EndIs DEF EnInv, EnTypes, Entries!RestoreOffset
<1>4. left \in Seq(Nat) /\ EachOnce(left)
  BY <1>2, LeavesIs
<1> HIDE DEF l, left, o
<1>5. games' \in [Entries!Lists -> Seq(Nat)] /\ \A k \in Entries!Lists : EachOnce(games'[k])
  <2>1. games' \in [Entries!Lists -> Seq(Nat)] /\ \A k \in Entries!Lists :
            games'[k] = left \/ games'[k] = games[k]
    BY <1>1, <1>2, <1>4
  <2>2. \A k \in Entries!Lists : EachOnce(games[k])
    BY DEF EnInv, EnTypes
  <2> QED BY <1>4, <2>1, <2>2
<1>6. entriesRequest' = [kind |-> "reload", list |-> l, offset |-> o, limit |-> EntriesPageSize,
          then |-> Entries!None, items |-> <<>>]
  BY <1>1 DEF Entries!NoRequest
<1>7. /\ entriesRequest' \in EntriesRequests /\ entriesRequest'.kind = "reload"
      /\ entriesRequest'.list = l
      /\ entriesRequest'.offset = o /\ entriesRequest'.items = <<>>
  BY <1>2, <1>3, <1>6, ShellAssumption DEF EntriesRequests, EntriesKinds, Entries!None
<1>8. entriesRequest'.offset - Len(entriesRequest'.items) = o
  BY <1>3, <1>7
<1>9. RequestSound
  BY <1>2, <1>3, <1>7, <1>8 DEF RequestSound, RequestInv, PartOf, Entries!Lists, Entries!Lengths
<1>10. /\ window \in EntriesWindows /\ window.read \in BOOLEAN /\ position \in Int
       /\ Entries!AbortedTo \in Int
  BY AbortedIs DEF EnInv, EnTypes, EntriesWindows
<1>11. window' \in EntriesWindows /\ position' \in Int
  <2>1. window' \in EntriesWindows
    BY <1>1, <1>10 DEF EntriesWindows
  <2> QED BY <1>1, <1>10, <2>1, MovesPosition DEF EnInv
<1>12. EnTypes'
  <2>1. entriesStale' \in BOOLEAN /\ OfList(toggling')
    BY <1>1 DEF OfList
  <2> QED BY <1>1, <1>5, <1>9, <1>11, <2>1 DEF EnInv, EnTypes, RequestSound, Entries!Lists,
      Entries!Lengths, OfList, EachOnce
<1>13. WindowInv'
  BY <1>1 DEF WindowInv
<1> QED BY <1>9, <1>12, <1>13 DEF EnInv, RequestSound

LEMMA EntriesStep == EnInv /\ [Entries!Next]_Entries!vars => EnInv'
<1> SUFFICES ASSUME EnInv, [Entries!Next]_Entries!vars PROVE EnInv'
  OBVIOUS
<1>1. CASE Entries!Answers
  BY <1>1, OpenAnsweredKeeps, MoreAnsweredKeeps, BeforeAnsweredKeeps,
      ReloadAnsweredKeeps DEF Entries!Answers
<1>2. CASE Entries!Fails
  BY <1>2, FailsKeeps
<1>3. CASE Entries!Toggled
  BY <1>3, ToggledKeeps
<1>4. CASE Entries!ScrollsUp \/ Entries!ScrollsDown
  BY <1>4, UserKeeps
<1>5. CASE Entries!User
  BY <1>5, UserKeeps, TogglesKeeps, JumpToKeeps, ChoosesKeeps DEF Entries!User
<1>6. CASE UNCHANGED Entries!vars
  <2>1. UNCHANGED <<games, entriesList, start, entriesStale, toggling, window, entriesRequest,
                    position>>
    BY <1>6 DEF Entries!vars
  <2> QED BY <2>1, MovesKeep, PlacesAre
<1> QED BY <1>1, <1>2, <1>3, <1>4, <1>5, <1>6 DEF Entries!Next

LEMMA EntriesInit == Entries!Init => EnInv
<1> SUFFICES ASSUME Entries!Init PROVE EnInv
  OBVIOUS
<1>1. /\ entriesList = 1 /\ window = Entries!Empty /\ start \in {0, StartOffset} /\ position = 0
      /\ toggling = <<>> /\ entriesStale = FALSE
      /\ entriesRequest = [Entries!NoRequest EXCEPT !.kind = "open", !.list = 1, !.offset = start,
             !.limit = EntriesPageSize]
      /\ games = [l \in Entries!Lists |-> [i \in 1 .. Entries!Lengths[l] |-> 10 * l + i]]
  BY DEF Entries!Init
<1>2. start \in Nat /\ entriesList \in Entries!Lists /\ 1 \in Entries!Lists
  BY <1>1, ShellAssumption DEF Entries!Lists, Entries!Lengths
<1>3. entriesRequest = [kind |-> "open", list |-> 1, offset |-> start, limit |-> EntriesPageSize,
          then |-> Entries!None, items |-> <<>>]
  BY <1>1 DEF Entries!NoRequest
<1>4. /\ entriesRequest \in EntriesRequests /\ entriesRequest.kind = "open"
      /\ entriesRequest.list \in Entries!Lists
  BY <1>2, <1>3, ShellAssumption DEF EntriesRequests, EntriesKinds, Entries!None
<1>5. window \in EntriesWindows /\ window.read = FALSE
  BY <1>1 DEF Entries!Empty, EntriesWindows
<1>6. games \in [Entries!Lists -> Seq(Nat)] /\ \A l \in Entries!Lists : EachOnce(games[l])
  <2>1. \A l \in Entries!Lists : l \in Nat /\ Entries!Lengths[l] \in Nat
    BY ShellAssumption DEF Entries!Lists, Entries!Lengths
  <2>2. ASSUME NEW l \in Entries!Lists PROVE games[l] \in Seq(Nat) /\ EachOnce(games[l])
    <3>1. games[l] = [i \in 1 .. Entries!Lengths[l] |-> 10 * l + i]
      BY <1>1
    <3> DEFINE n == Entries!Lengths[l]
               b == 10 * l
    <3>2. n \in Nat /\ b \in Nat
      BY <2>1
    <3> HIDE DEF n, b
    <3>3. games[l] = [i \in 1 .. n |-> b + i]
      BY <3>1 DEF n, b
    <3>4. games[l] \in Seq(Nat) /\ DOMAIN games[l] = 1 .. n
      BY <3>2, <3>3
    <3>5. EachOnce(games[l])
      BY <3>2, <3>3 DEF EachOnce
    <3> QED BY <3>4, <3>5
  <2> QED BY <1>1, <2>2
<1>7. EnTypes
  <2>1. entriesStale \in BOOLEAN
    BY <1>1
  <2>2. position \in Int /\ OfList(toggling)
    BY <1>1 DEF OfList
  <2> QED BY <1>2, <1>4, <1>5, <1>6, <2>1, <2>2 DEF EnTypes
<1>8. WindowInv /\ RequestInv
  BY <1>4, <1>5 DEF WindowInv, RequestInv
<1> QED BY <1>7, <1>8 DEF EnInv

LEMMA EntriesImplies == EnInv => Entries!WindowIsContiguous
BY DEF EnInv, WindowInv, PartOf, Entries!WindowIsContiguous

EntriesPart == shellPart = "entries" => EnInv

(* However jumps, steps, scrolling, changes of a favorite and failures overtake one another: the  *)
(* window is a part of its list without a gap, at the place it says (useEntryWindow).         *)
THEOREM WindowStaysContiguous == ShellSpec => []WindowIsContiguous
<1>1. ShellInit => EntriesPart
  BY EntriesInit DEF ShellInit, EntriesPart
<1>2. EntriesPart /\ [ShellNext]_shellVars => EntriesPart'
  <2> SUFFICES ASSUME EntriesPart, [ShellNext]_shellVars, shellPart' = "entries" PROVE EnInv'
    BY DEF EntriesPart
  <2>1. shellPart' = shellPart /\ [Entries!Next]_Entries!vars
    <3>1. CASE ShellNext
      BY <3>1 DEF ShellNext
    <3>2. CASE UNCHANGED shellVars
      BY <3>2 DEF shellVars, entriesVars, Entries!vars
    <3> QED BY <3>1, <3>2
  <2> QED BY <2>1, EntriesStep DEF EntriesPart
<1>3. EntriesPart => WindowIsContiguous
  BY EntriesImplies DEF EntriesPart, WindowIsContiguous
<1> QED BY <1>1, <1>2, <1>3, PTL DEF ShellSpec
==================================================================================
