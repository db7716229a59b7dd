----------------------------- MODULE UploadClient -----------------------------
(***************************************************************************)
(* The browser side of a game scan: the sheet that chooses files and sends  *)
(* them chunk by chunk (UploadSheet, upload-transfer), the uploads of the   *)
(* administrator that wait for a scan (PendingUploads), and the page that   *)
(* reads the collections of a source and starts the scan (GameScan).        *)
(*                                                                         *)
(* A transfer is one click on start.  Its two workers share a queue of      *)
(* files; when one fails the transfer has failed, and the other goes on     *)
(* beside whatever transfer the user begins next.                           *)
(***************************************************************************)
EXTENDS Integers, Sequences, FiniteSets

CONSTANTS
  MaxSessions,    \* bound: upload sessions declared
  MaxTransfers,   \* bound: clicks on start
  MaxActs         \* bound: readings and changes of mind on the page; a lost request or a
                  \* change of mind about an upload counts as two of them

BoundsArePositive ==
  MaxSessions \in Nat \ {0} /\ MaxTransfers \in Nat \ {0} /\ MaxActs \in Nat

Sessions == 1 .. MaxSessions
Transfers == 1 .. MaxTransfers
Workers == 1 .. 2
None == 0
Formats == {"pegasus", "files"}
Paths == {"/roms", "/more"}

(* Two files, in the order the server lists them; sizes in chunks.           *)
Files == {"a", "b"}
Size == [f \in Files |-> IF f = "a" THEN 2 ELSE 1]
Order(fs) == IF fs = Files THEN <<"a", "b">> ELSE IF "a" \in fs THEN <<"a">> ELSE <<"b">>

VARIABLES
  server,    \* session -> what the server has of it
  strays,    \* chunks whose sender gave up and that may still arrive
  sheet,     \* the upload sheet
  transfer,  \* transfer -> the call of start()
  worker,    \* transfer -> worker -> its place
  listed,    \* the sessions the page shows as pending
  scan,      \* the state of GameScan
  reading,   \* inspections of directories and listed uploads under way
  acts

vars == <<server, strays, sheet, transfer, worker, listed, scan, reading,
          acts>>

Acts == acts + 1 < MaxActs /\ acts' = acts + 2
Visit == acts < MaxActs /\ acts' = acts + 1
-------------------------------------------------------------------------------
NoSession == [state |-> "none", files |-> <<>>, got |-> <<>>, format |-> "files"]
NoTransfer == [at |-> "none", session |-> None, aborted |-> FALSE, entries |-> <<>>,
               received |-> <<>>, queue |-> {}, format |-> "files"]
NoWorker == [at |-> "none", index |-> 0]
ClosedSheet == [open |-> FALSE, resume |-> None, phase |-> "select", session |-> None,
                entries |-> {}, format |-> "files", transfer |-> None]
NoSource == [kind |-> "none", path |-> "/roms", upload |-> None, format |-> "files"]

(* GameScan as it is mounted; `strayed` records that the picker went to       *)
(* another directory or format after what is, or will be, shown was asked.   *)
Unset == "unset"
NewPage == [path |-> "/roms", format |-> Unset, upload |-> None, entries |-> NoSource,
            selecting |-> FALSE, mapped |-> FALSE, busy |-> FALSE, strayed |-> FALSE]

Init ==
  /\ server = [s \in Sessions |-> NoSession]
  /\ strays = {}
  /\ sheet = ClosedSheet
  /\ transfer = [t \in Transfers |-> NoTransfer]
  /\ worker = [t \in Transfers |-> [w \in Workers |-> NoWorker]]
  /\ listed = {}
  /\ scan = NewPage
  /\ reading = {}
  /\ acts = 0

Open(s) == s # None /\ server[s].state = "open"
Whole(s) == \A i \in DOMAIN server[s].files : Len(server[s].got[i]) = Size[server[s].files[i]]
OpenSessions == {s \in Sessions : server[s].state = "open"}
-------------------------------------------------------------------------------
(***************************************************************************)
(* The server, as upload-transfer uses it.                                 *)
(***************************************************************************)
Fresh == CHOOSE s \in Sessions : server[s].state = "none"

Declared(fs, format) ==
  [server EXCEPT ![Fresh] =
     [state |-> "open", format |-> format, files |-> Order(fs),
      got |-> [i \in 1 .. Len(Order(fs)) |-> <<>>]]]

(* PUT: a chunk is taken where the file ends, and only there.                *)
Fits(c) == Open(c.session) /\ c.offset = Len(server[c.session].got[c.index])
Stored(c) ==
  IF Fits(c)
  THEN [server EXCEPT ![c.session].got[c.index] = Append(@, <<c.file, c.offset>>)]
  ELSE server

Cancelled(s) ==
  IF Open(s) THEN [server EXCEPT ![s] = [NoSession EXCEPT !.state = "gone"]]
  ELSE server

StrayArrives ==
  \E c \in strays :
    /\ strays' = strays \ {c}
    /\ server' = Stored(c)
    /\ UNCHANGED <<sheet, transfer, worker, listed, scan, reading, acts>>
-------------------------------------------------------------------------------
(***************************************************************************)
(* The sheet.                                                              *)
(***************************************************************************)
Untouched == <<scan, reading>>

(* useBrowserUploads.open, and onResume of a listed upload that is not whole. *)
SheetOpens ==
  /\ ~sheet.open /\ ~scan.selecting
  /\ \E r \in {None} \cup {s \in listed : ~Whole(s)} :
       sheet' = [ClosedSheet EXCEPT !.open = TRUE, !.resume = r, !.session = r,
                   !.format = IF r = None THEN "files" ELSE server[r].format]
  /\ UNCHANGED <<server, strays, transfer, worker, listed, Untouched, acts>>

(* replaceSelection: a session declared here no longer matches.  The files of *)
(* a folder may come in any order, and may repeat ones chosen before.        *)
FilesChosen ==
  /\ sheet.open /\ sheet.phase = "select"
  /\ \E fs \in SUBSET Files :
       /\ fs # sheet.entries
       /\ IF sheet.entries = {} THEN UNCHANGED acts ELSE Acts
       /\ LET own == sheet.session # None /\ sheet.session # sheet.resume
          IN  /\ sheet' = [sheet EXCEPT !.entries = fs,
                             !.session = IF own THEN None ELSE @]
              /\ server' = IF own THEN Cancelled(sheet.session) ELSE server
  /\ UNCHANGED <<strays, transfer, worker, listed, Untouched>>

FormatChosen ==
  /\ sheet.open /\ sheet.phase # "uploading"
  /\ Acts
  /\ \E f \in Formats \ {sheet.format} : sheet' = [sheet EXCEPT !.format = f]
  /\ UNCHANGED <<server, strays, transfer, worker, listed, Untouched>>

(* matchesUpload: the same paths of the same sizes.                          *)
Matches(fs, s) == s # None /\ {server[s].files[i] : i \in DOMAIN server[s].files} = fs
(* uploadProblem: of its limits on numbers, sizes and paths the files here    *)
(* can break one, that there be any.                                         *)
Uploadable(fs) == fs # {}
(* selectionProblem: a resumed upload needs its own files.                   *)
Problem == \/ ~Uploadable(sheet.entries)
           \/ sheet.resume # None /\ ~Matches(sheet.entries, sheet.resume)

(* start(): a controller of its own, and openUpload.                         *)
Start ==
  /\ sheet.open /\ sheet.phase = "select" /\ ~Problem
  /\ \E t \in Transfers :
       /\ transfer[t].at = "none" /\ \A u \in Transfers : u < t => transfer[u].at # "none"
       /\ transfer' = [transfer EXCEPT ![t].at = "opening", ![t].format = sheet.format,
            ![t].session = IF Matches(sheet.entries, sheet.session) THEN sheet.session ELSE None]
       /\ sheet' = [sheet EXCEPT !.phase = "uploading", !.transfer = t]
  /\ UNCHANGED <<server, strays, worker, listed, Untouched, acts>>

Mine(t) == sheet.open /\ sheet.transfer = t

(* The catch of start(): an aborted transfer says nothing.                   *)
Failed(t, phase) ==
  sheet' = IF Mine(t) /\ ~transfer[t].aborted THEN [sheet EXCEPT !.phase = phase] ELSE sheet

\* Slip: the entries stay in the order in which they were chosen.
SlipEntriesOf(files) == [i \in DOMAIN files |-> CHOOSE f \in Files : f # files[i] \/ Len(files) = 1]

(* openUpload: the entries in the order of the session's files.              *)
EntriesOf(files) == [i \in DOMAIN files |-> CHOOSE f \in Files : f = files[i]]

(* The answer to openUpload: what is missing is queued for the two workers.  *)
Opened(t) ==
  LET new == transfer[t].session = None
      s == IF new THEN Fresh ELSE transfer[t].session
      held == IF new THEN Declared(sheet.entries, sheet.format) ELSE server
      got == [i \in DOMAIN held[s].files |-> Len(held[s].got[i])]
  IN
  /\ transfer[t].at = "opening" /\ Mine(t)
  /\ new => \E f \in Sessions : server[f].state = "none"
  /\ new \/ Open(s)
  /\ server' = held
  /\ sheet' = [sheet EXCEPT !.session = s]
  /\ transfer' = [transfer EXCEPT ![t] =
       [@ EXCEPT !.at = "sending", !.session = s, !.received = got,
                 !.entries = EntriesOf(held[s].files),
                 !.queue = {i \in DOMAIN got : got[i] < Size[held[s].files[i]]}]]
  /\ worker' = [worker EXCEPT ![t] = [w \in Workers |-> [NoWorker EXCEPT !.at = "take"]]]
  /\ UNCHANGED <<strays, listed, Untouched, acts>>

(* No answer, a refusal, or an answer after the sheet has gone: a session    *)
(* that was declared all the same is known to the list only.                 *)
NotOpened(t) ==
  LET declares == transfer[t].session = None /\ \E f \in Sessions : server[f].state = "none" IN
  /\ transfer[t].at = "opening"
  /\ IF Mine(t) /\ (transfer[t].session = None \/ Open(transfer[t].session))
     THEN Acts ELSE UNCHANGED acts
  /\ \/ UNCHANGED server
     \/ declares /\ server' = Declared(Files, "files")
  /\ transfer' = [transfer EXCEPT ![t].at = "over"]
  /\ Failed(t, "select")
  /\ UNCHANGED <<strays, worker, listed, Untouched>>
-------------------------------------------------------------------------------
(***************************************************************************)
(* transferFile and sendChunk: one worker.                                 *)
(***************************************************************************)
Place(t, w, place) == worker' = [worker EXCEPT ![t][w].at = place]
ByWorker == <<sheet, listed, Untouched>>

Chunk(t, w) ==
  LET i == worker[t][w].index IN
  [session |-> transfer[t].session, index |-> i, offset |-> transfer[t].received[i],
   file |-> transfer[t].entries[i]]

(* pending.shift(): the files are queued in their order.  An aborted signal   *)
(* throws before anything is sent.                                           *)
First(queue) == CHOOSE i \in queue : \A j \in queue : i <= j
Takes(t, w) ==
  /\ worker[t][w].at = "take"
  /\ IF transfer[t].queue = {}
     THEN worker' = [worker EXCEPT ![t][w] = [NoWorker EXCEPT !.at = "done"]] /\ UNCHANGED transfer
     ELSE /\ worker' = [worker EXCEPT ![t][w] =
               [at |-> IF transfer[t].aborted THEN "failed" ELSE "send",
                index |-> First(transfer[t].queue)]]
          /\ transfer' = [transfer EXCEPT ![t].queue = @ \ {First(@)}]
  /\ UNCHANGED <<server, strays, ByWorker, acts>>

(* The server has `n` chunks of the file: the next one, or the next file.    *)
Received(t, w, n) ==
  LET i == worker[t][w].index IN
  /\ transfer' = [transfer EXCEPT ![t].received[i] = n]
  /\ worker' = [worker EXCEPT ![t][w] =
       IF n >= Size[transfer[t].entries[i]] THEN [NoWorker EXCEPT !.at = "take"]
       ELSE [@ EXCEPT !.at = IF transfer[t].aborted THEN "failed" ELSE "send"]]

Accepted(t, w) ==
  /\ worker[t][w].at = "send" /\ Fits(Chunk(t, w))
  /\ server' = Stored(Chunk(t, w))
  /\ Received(t, w, transfer[t].received[worker[t][w].index] + 1)
  /\ UNCHANGED <<strays, ByWorker, acts>>

(* 409: another worker, or a request given up, was faster.                   *)
Conflict(t, w) ==
  /\ worker[t][w].at = "send" /\ Open(transfer[t].session) /\ ~Fits(Chunk(t, w))
  /\ Place(t, w, "reread")
  /\ UNCHANGED <<server, strays, transfer, ByWorker, acts>>

\* Slip: the offset that was refused is tried again.
SlipReread(t, w) ==
  /\ worker[t][w].at = "reread" /\ Open(transfer[t].session)
  /\ Place(t, w, "send")
  /\ UNCHANGED <<server, strays, transfer, ByWorker, acts>>

Reread(t, w) ==
  /\ worker[t][w].at = "reread" /\ Open(transfer[t].session)
  /\ Received(t, w, Len(server[transfer[t].session].got[worker[t][w].index]))
  /\ UNCHANGED <<server, strays, ByWorker, acts>>

(* No answer or a 5xx: wait and try again, or give up after the last of the  *)
(* retries.  The chunk may have been stored, may never be, or may arrive     *)
(* later.                                                                    *)
Lost(t, w) ==
  /\ worker[t][w].at = "send" /\ Open(transfer[t].session)
  /\ IF transfer[t].aborted THEN UNCHANGED acts ELSE Acts
  /\ \/ server' = Stored(Chunk(t, w)) /\ UNCHANGED strays
     \/ strays' \in {strays, strays \cup {Chunk(t, w)}} /\ UNCHANGED server
  /\ \/ Place(t, w, "failed")
     \/ ~transfer[t].aborted /\ Place(t, w, "wait")
  /\ UNCHANGED <<transfer, ByWorker>>

Waited(t, w) ==
  /\ worker[t][w].at = "wait"
  /\ Place(t, w, IF transfer[t].aborted THEN "failed" ELSE "send")
  /\ UNCHANGED <<server, strays, transfer, ByWorker, acts>>

(* 404: the session was cancelled, has expired or is being scanned.          *)
Refused(t, w) ==
  /\ worker[t][w].at \in {"send", "reread"} /\ ~Open(transfer[t].session)
  /\ Place(t, w, "failed")
  /\ UNCHANGED <<server, strays, transfer, ByWorker, acts>>

WorkerFailed(t) == \E w \in Workers : worker[t][w].at = "failed"

(* Promise.all rejects with the first worker that fails.                     *)
TransferFails(t) ==
  /\ transfer[t].at = "sending" /\ WorkerFailed(t)
  /\ transfer' = [transfer EXCEPT ![t].at = "over"]
  /\ Failed(t, "select")
  /\ UNCHANGED <<server, strays, worker, listed, Untouched, acts>>

TransferEnds(t) ==
  /\ transfer[t].at = "sending" /\ \A w \in Workers : worker[t][w].at = "done"
  /\ transfer' = [transfer EXCEPT ![t] =
       [NoTransfer EXCEPT !.at = "inspecting", !.session = transfer[t].session,
                          !.format = transfer[t].format]]
  /\ worker' = [worker EXCEPT ![t] = [w \in Workers |-> NoWorker]]
  /\ sheet' = IF Mine(t) THEN [sheet EXCEPT !.phase = "uploaded"] ELSE sheet
  /\ UNCHANGED <<server, strays, listed, Untouched, acts>>
-------------------------------------------------------------------------------
(***************************************************************************)
(* Reading a finished upload, and closing the sheet.                       *)
(***************************************************************************)
(* close(): the component goes, with its controller; the list is read anew.  *)
Aborted == IF sheet.transfer = None THEN transfer
           ELSE [transfer EXCEPT ![sheet.transfer].aborted = TRUE]
CloseWith(kept) ==
  /\ sheet' = ClosedSheet
  /\ listed' = kept

(* uploaded() of GameScan.                                                   *)
PathUnderWay == \E r \in reading : r.kind = "path"
ShowUpload(s, format, busy) ==
  scan' = [scan EXCEPT !.format = format, !.upload = s, !.mapped = FALSE, !.busy = busy,
             !.strayed = PathUnderWay,
             !.entries = [NoSource EXCEPT !.kind = "upload", !.upload = s, !.format = format]]

(* inspect() answers, although the sheet that asked may be closed: whatever  *)
(* sheet is open then is closed.  The format is that of the click.           *)
Inspected(t) ==
  LET s == transfer[t].session  format == transfer[t].format IN
  /\ transfer[t].at = "inspecting" /\ Open(s)
  /\ server' = [server EXCEPT ![s].format = format]
  /\ transfer' = [Aborted EXCEPT ![t].at = "over"]
  /\ CloseWith(OpenSessions)
  /\ ShowUpload(s, format, scan.busy)
  /\ UNCHANGED <<strays, worker, reading, acts>>

NotInspected(t) ==
  /\ transfer[t].at = "inspecting"
  /\ IF Open(transfer[t].session) THEN Acts ELSE UNCHANGED acts
  /\ transfer' = [transfer EXCEPT ![t].at = "over"]
  /\ UNCHANGED <<server, strays, sheet, worker, listed, Untouched>>

RetryInspect ==
  /\ sheet.open /\ sheet.phase = "uploaded" /\ transfer[sheet.transfer].at = "over"
  /\ transfer' = [transfer EXCEPT ![sheet.transfer].at = "inspecting",
                                  ![sheet.transfer].format = sheet.format]
  /\ UNCHANGED <<server, strays, sheet, worker, listed, Untouched, acts>>

(* The button of the footer: with a session, abandon(); the session of an    *)
(* upload that is still being opened is not known to it.                     *)
Abandon ==
  /\ sheet.open /\ (sheet.session # None \/ sheet.phase = "uploading")
  /\ Acts
  /\ transfer' = Aborted
  /\ server' = IF sheet.session = None THEN server ELSE Cancelled(sheet.session)
  /\ CloseWith(OpenSessions \ {sheet.session})
  /\ UNCHANGED <<strays, worker, Untouched>>

(* Closing keeps the session, for the list.                                  *)
SheetCloses ==
  /\ sheet.open /\ sheet.phase # "uploading"
  /\ Acts
  /\ transfer' = Aborted
  /\ CloseWith(OpenSessions)
  /\ UNCHANGED <<server, strays, worker, Untouched>>
-------------------------------------------------------------------------------
(***************************************************************************)
(* The page: pending uploads, server directories, the scan.                *)
(***************************************************************************)
Modal == sheet.open \/ scan.selecting
ByPage == <<strays, sheet, transfer, worker>>

(* PendingUploads: give up a session, or read it as a source.                *)
PendingAbandoned ==
  /\ ~Modal /\ Visit
  /\ \E s \in listed : server' = Cancelled(s) /\ listed' = OpenSessions \ {s}
  /\ UNCHANGED <<ByPage, Untouched>>

(* setBusy(true) and the request to inspect().                               *)
Ask(source) ==
  /\ Visit
  /\ reading' = reading \cup {source}

MapAsked ==
  /\ ~Modal
  /\ \E s \in listed : Whole(s) /\
       Ask([NoSource EXCEPT !.kind = "upload", !.upload = s, !.format = server[s].format])
  /\ scan' = [scan EXCEPT !.busy = TRUE]
  /\ UNCHANGED <<server, listed, ByPage>>

(* onSelect: the picker opens on a clean page.                               *)
SelectOpens ==
  /\ ~Modal
  /\ scan' = [scan EXCEPT !.selecting = TRUE, !.format = Unset, !.entries = NoSource,
                          !.mapped = FALSE, !.strayed = PathUnderWay]
  /\ UNCHANGED <<server, listed, ByPage, reading, acts>>

PathAsked ==
  /\ scan.selecting /\ ~scan.busy /\ scan.format # Unset
  /\ Ask([NoSource EXCEPT !.kind = "path", !.path = scan.path, !.format = scan.format])
  /\ scan' = [scan EXCEPT !.busy = TRUE,
                          !.strayed = PathUnderWay \/ (@ /\ scan.entries # NoSource)]
  /\ UNCHANGED <<server, listed, ByPage>>

(* changeSource: nothing stops the user from walking on while a directory is *)
(* being read.                                                               *)
PathChosen ==
  /\ scan.selecting /\ Visit
  /\ \E p \in Paths \ {scan.path} :
       scan' = [scan EXCEPT !.path = p, !.entries = NoSource, !.mapped = FALSE,
                              !.strayed = PathUnderWay]
  /\ UNCHANGED <<server, listed, ByPage, reading>>

(* The format of the picker, locked while the page is busy.  Collections of   *)
(* an upload that arrived behind the picker are kept.                        *)
ScanFormatChosen ==
  /\ scan.selecting /\ ~scan.busy
  /\ IF scan.format = Unset THEN UNCHANGED acts ELSE Visit
  /\ \E f \in Formats \ {scan.format} :
       scan' = [scan EXCEPT !.format = f,
                  !.strayed = @ \/ PathUnderWay \/ scan.entries # NoSource]
  /\ UNCHANGED <<server, listed, ByPage, reading>>

SelectCloses ==
  /\ scan.selecting /\ ~scan.busy
  /\ scan' = [scan EXCEPT !.selecting = FALSE]
  /\ UNCHANGED <<server, listed, ByPage, reading, acts>>

\* Slip: the upload of an earlier reading stays.
SlipPathRead ==
  \E r \in reading :
    /\ r.kind = "path"
    /\ reading' = reading \ {r}
    /\ scan' = [scan EXCEPT !.entries = r, !.selecting = FALSE, !.mapped = FALSE, !.busy = FALSE]
    /\ UNCHANGED <<server, listed, ByPage, acts>>

(* The answer to inspect() of a directory: what is shown was read from the   *)
(* directory that was asked for, the page may be at another by now.          *)
PathRead ==
  \E r \in reading :
    /\ r.kind = "path"
    /\ reading' = reading \ {r}
    /\ scan' = [scan EXCEPT !.upload = None, !.entries = r, !.selecting = FALSE, !.mapped = FALSE,
                            !.busy = FALSE]
    /\ UNCHANGED <<server, listed, ByPage, acts>>

(* The answer to map(): as after an upload, the sheet is closed.             *)
MapRead ==
  \E r \in reading :
    /\ r.kind = "upload" /\ Open(r.upload)
    /\ reading' = reading \ {r}
    /\ transfer' = Aborted
    /\ CloseWith(OpenSessions)
    /\ ShowUpload(r.upload, r.format, FALSE)
    /\ UNCHANGED <<server, strays, worker, acts>>

NotRead ==
  \E r \in reading :
    /\ r.kind = "path" \/ ~Open(r.upload)
    /\ IF r.kind = "path" THEN Visit ELSE UNCHANGED acts
    /\ reading' = reading \ {r}
    /\ scan' = [scan EXCEPT !.busy = FALSE]
    /\ UNCHANGED <<server, listed, ByPage>>

(* CollectionMapping: every collection has its game directory.               *)
MappingChosen ==
  /\ ~Modal /\ scan.entries # NoSource /\ ~scan.mapped
  /\ scan' = [scan EXCEPT !.mapped = TRUE]
  /\ UNCHANGED <<server, listed, ByPage, reading, acts>>

(* start() of GameScan: the source it names, with the mappings of what was   *)
(* read.                                                                     *)
Named == IF scan.upload = None
         THEN [NoSource EXCEPT !.kind = "path", !.path = scan.path, !.format = scan.format]
         ELSE [NoSource EXCEPT !.kind = "upload", !.upload = scan.upload, !.format = scan.format]

Startable == ~Modal /\ scan.mapped /\ ~scan.busy /\ scan.format # Unset
Taken == IF Named.upload = None THEN server
         ELSE [server EXCEPT ![Named.upload] = [NoSession EXCEPT !.state = "scanning"]]

(* The page goes to the reviews, and is mounted anew when it is next opened.  *)
ScanStarts ==
  /\ Startable /\ (Named.upload # None => Open(Named.upload))
  /\ server' = Taken
  /\ listed' = OpenSessions \ {Named.upload}
  /\ scan' = NewPage /\ reading' = {}
  /\ UNCHANGED <<ByPage, acts>>

(* A refusal, or no answer: the scan may have begun all the same.            *)
ScanNotStarted ==
  /\ Startable /\ Visit
  /\ \/ UNCHANGED server
     \/ (Named.upload # None => Open(Named.upload)) /\ server' = Taken
  /\ UNCHANGED <<listed, ByPage, Untouched>>
-------------------------------------------------------------------------------
Sends(t, w) ==
  \/ Takes(t, w) \/ Accepted(t, w) \/ Conflict(t, w) \/ Reread(t, w) \/ Lost(t, w)
  \/ Waited(t, w) \/ Refused(t, w)
Transfer(t) ==
  \/ Opened(t) \/ NotOpened(t) \/ TransferFails(t) \/ TransferEnds(t)
  \/ Inspected(t) \/ NotInspected(t)
SheetUsed == SheetOpens \/ FilesChosen \/ FormatChosen \/ Start \/ RetryInspect
             \/ Abandon \/ SheetCloses
PageUsed ==
  \/ PendingAbandoned \/ MapAsked \/ SelectOpens \/ PathAsked \/ PathChosen
  \/ ScanFormatChosen \/ SelectCloses \/ PathRead \/ MapRead \/ NotRead \/ MappingChosen
  \/ ScanStarts \/ ScanNotStarted

Next ==
  \/ \E t \in Transfers : Transfer(t) \/ \E w \in Workers : Sends(t, w)
  \/ StrayArrives \/ SheetUsed \/ PageUsed

Progress ==
  \A t \in Transfers :
    WF_vars(Transfer(t)) /\ \A w \in Workers : WF_vars(Sends(t, w))

Spec == Init /\ [][Next]_vars /\ Progress
-------------------------------------------------------------------------------
(***************************************************************************)
(* Properties.                                                             *)
(***************************************************************************)
(* The shape of the state: only an open sheet works on a session, and two    *)
(* workers of a transfer never hold the same file.                           *)
TypeOK ==
  /\ \A s \in Sessions : server[s].state \in {"none", "open", "gone", "scanning"}
  /\ sheet.phase \in {"select", "uploading", "uploaded"}
  /\ sheet.session \in 0 .. MaxSessions /\ sheet.transfer \in 0 .. MaxTransfers
  /\ sheet.open \/ sheet = ClosedSheet
  /\ sheet.phase = "uploading" => transfer[sheet.transfer].at \in {"opening", "sending"}
  /\ \A t \in Transfers :
       /\ transfer[t].at \in {"none", "opening", "sending", "inspecting", "over"}
       /\ \A w \in Workers :
            worker[t][w].at \in {"none", "take", "send", "wait", "reread", "done", "failed"}
       /\ worker[t][1].index = worker[t][2].index => worker[t][1].index = 0
  /\ listed \subseteq Sessions
  /\ scan.mapped => scan.entries # NoSource
  /\ acts \in 0 .. MaxActs

(* Whatever is lost, repeated or late, and whoever sends beside whom: the    *)
(* server holds the first chunks of each file, in their order.               *)
RightBytes ==
  \A s \in Sessions : \A i \in DOMAIN server[s].got :
    LET got == server[s].got[i] IN
    /\ Len(got) <= Size[server[s].files[i]]
    /\ \A k \in DOMAIN got : got[k] = <<server[s].files[i], k - 1>>

(* An upload that is announced as finished is whole on the server.           *)
UploadedIsWhole ==
  \A t \in Transfers :
    (transfer[t].at = "inspecting" /\ Open(transfer[t].session)) => Whole(transfer[t].session)

(* A sheet does not stay at uploading: it is finished, or says that it       *)
(* failed.                                                                   *)
UploadOver == sheet.phase # "uploading"

(* The collections that are mapped and the source that the scan will name:    *)
(* both are of the same upload, or both of a directory; and unless the picker *)
(* went on after the collections were asked for, of the very same directory   *)
(* and format.                                                               *)
ScanFitsReading ==
  scan.entries # NoSource =>
    /\ Named.kind = scan.entries.kind /\ Named.upload = scan.entries.upload
    /\ scan.strayed \/ Named = scan.entries

(* What can be started is a scan of the source whose collections the user      *)
(* mapped: "choose a source by its absolute path, inspect [it], then map the   *)
(* collections" (docs/import-and-review.md).  False of the page: collections   *)
(* that arrive after the user has walked on are mapped under the directory he  *)
(* has walked to.                                                            *)
ScansWhatWasRead == Startable => Named = scan.entries
===============================================================================
