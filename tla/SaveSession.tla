------------------------------ MODULE SaveSession ------------------------------
(***************************************************************************)
(* Saving from the player page: the save session of one run (useSave-     *)
(* Session), the unsynced drafts of the browser (save-drafts, draft-       *)
(* upload), the exit dialog (usePlayerExit), the disposal of an unmounted  *)
(* page (disposeRuntime) and the recovery list (DraftRecovery), with the   *)
(* server's answer to a commit (service/saves).                            *)
(*                                                                         *)
(* Three uploaders share the drafts:                                       *)
(*   "work"      the operation inFlight points at: a capture or a retry    *)
(*   "final"     commit(snapshot, null): the game ended or the page is left*)
(*   "recovery"  uploadDraft of the list of unsynced saves                 *)
(* A request may break off, and then still arrive at the server at any     *)
(* later time, or never.  Everything between two awaits of the code is one *)
(* step.  A run that restores the save of another core (restoreWarning)    *)
(* starts without a selected save.                                         *)
(***************************************************************************)
EXTENDS Integers, FiniteSets

CONSTANTS
  MaxDrafts,     \* bound: drafts made, on this page
  MaxRevision,   \* bound: revisions of the game's own save, or positions of play
  MaxFaults      \* bound: failures, and disturbances from outside the page

ASSUME BoundsAreNatural ==
  MaxDrafts \in Nat /\ MaxRevision \in Nat /\ MaxFaults \in Nat

Drafts == 1 .. MaxDrafts          \* commit ids, in the order they are made
None == -1                        \* no draft, no save
Source == 0                       \* id of the save the run was started from
SaveIds == {Source} \cup Drafts   \* a created save takes the id of its commit
Uploaders == {"work", "final", "recovery"}
Versions == 0 .. 4

Absent == [version |-> 0, commit |-> None, revision |-> 0]
NoTarget == [id |-> None, version |-> 0]

VARIABLES
  native,      \* the checkpoint is the game's own save (semantics GAME_SAVE)
  page,        \* "playing", "unmounted" (another page of the same tab), "reloaded"
  game,        \* state of the runtime: "running", "exited"
  revision,    \* revision of the game's data, or position of play
  acked,       \* last revision whose checkpoint the runtime knows as saved
  made,        \* drafts made so far
  info,        \* draft -> the save and version it was made for, its revision
  store,       \* drafts in IndexedDB
  volatile,    \* drafts in volatileDrafts, the memory of the tab
  pending,     \* pending.current and the draft the page shows
  selected,    \* selectedSave.current: id and version
  queued,      \* queued.current
  pc,          \* uploader -> where it is
  item,        \* uploader -> the draft it works on
  stray,       \* drafts with a request on the way that nobody waits for
  op,          \* what the work in flight is: its kind, the save it may write
  report,      \* the status line: the last work ended with a failure
  exit,        \* the exit dialog
  context,     \* the run on the server: "live" or "expired"
  drifted,     \* the game's content or core changed since the run was made
  mismatched,  \* drafts with a recoveryError
  saves,       \* save id -> row of the server
  applied,     \* draft -> times the server wrote it
  discarded,   \* drafts the user deleted
  lost,        \* drafts that were only in the memory of a tab that went away
  faults

pageVars == <<page, game, revision, acked>>
draftVars == <<made, info, pending, selected, queued>>
storeVars == <<store, volatile, mismatched, discarded, lost>>
upVars == <<pc, item, op, report>>
serverVars == <<context, drifted, saves, applied, stray>>
vars == <<native, page, game, revision, acked, made, info, store,
          volatile, pending, selected, queued, pc, item, stray, op, report, exit,
          context, drifted, mismatched, saves, applied, discarded, lost,
          faults>>

Fault == faults < MaxFaults /\ faults' = faults + 1
(* A checkpoint also fails when the game is over, or where the bound leaves   *)
(* no draft to make.                                                         *)
FaultOrBound(over) == IF made = Drafts \/ over THEN UNCHANGED faults ELSE Fault
-------------------------------------------------------------------------------
Idle(u) == pc[u] = "idle"
Busy == ~Idle("work")                              \* inFlight.current # null
(* getCheckpointAvailability().available.                                    *)
Available == game = "running" /\ (native => revision > acked)

ClosedDialog == [at |-> "closed", error |-> FALSE, draft |-> FALSE, due |-> 0]

Init ==
  /\ native \in BOOLEAN
  /\ page = "playing" /\ game = "running" /\ revision = 0 /\ acked = 0
  /\ made = {} /\ info = [d \in Drafts |-> [base |-> NoTarget, revision |-> 0]]
  /\ store = {} /\ volatile = {} /\ mismatched = {} /\ discarded = {} /\ lost = {}
  /\ pending = None /\ queued = FALSE
  /\ selected \in {NoTarget, [id |-> Source, version |-> 1]}
  /\ saves = [s \in SaveIds |->
                IF s = Source /\ selected.id = Source
                THEN [Absent EXCEPT !.version = 1] ELSE Absent]
  /\ pc = [u \in Uploaders |-> "idle"]
  /\ item = [u \in Uploaders |-> None]
  /\ stray = {}
  /\ op = [kind |-> "none", target |-> NoTarget]
  /\ report = FALSE
  /\ exit = ClosedDialog
  /\ context = "live" /\ drifted = FALSE
  /\ applied = [d \in Drafts |-> 0]
  /\ faults = 0
-------------------------------------------------------------------------------
(***************************************************************************)
(* Work: capture(), captureWork(), retry() and retryWork().                *)
(***************************************************************************)
(* captureWork() of an idle session: refused while a draft is unsynced.      *)
StartCapture(target) ==
  IF pending # None
  THEN queued' = native /\ UNCHANGED <<pc, op, report>>
  ELSE /\ queued' = FALSE
       /\ pc' = [pc EXCEPT !["work"] = "checkpoint"]
       /\ op' = [kind |-> "capture", target |-> target]
       /\ report' = FALSE

\* Slip: a capture that finds work in flight just takes its promise.
SlipCapture(target) ==
  IF Busy THEN UNCHANGED <<queued, pc, op, report>> ELSE StartCapture(target)

(* capture(): while something is in flight only note that there is more.     *)
Capture(target) ==
  IF Busy THEN queued' = TRUE /\ UNCHANGED <<pc, op, report>>
          ELSE StartCapture(target)

(* retryWork() of an idle session with a draft: putDraft comes first.        *)
StartRetry ==
  /\ pc' = [pc EXCEPT !["work"] = "put"]
  /\ item' = [item EXCEPT !["work"] = pending]
  /\ volatile' = volatile \cup {pending}
  /\ op' = [kind |-> "retry", target |-> NoTarget]
  /\ report' = FALSE

(* The game wrote its own save; the change reaches nativeChanged while the   *)
(* page is mounted.                                                          *)
GameAdvances ==
  /\ native /\ game = "running" /\ revision < MaxRevision
  /\ revision' = revision + 1
  /\ IF page = "playing" THEN Capture(NoTarget)
     ELSE UNCHANGED <<queued, pc, op, report>>
  /\ UNCHANGED <<native, page, game, acked, made, info, store, volatile,
                 pending, selected, item, exit, context, drifted,
                 mismatched, saves, applied, stray, discarded, lost,
                 faults>>

(* PlayerSaveChoice: a new save, or the current one is overwritten.          *)
SaveTargets == {NoTarget, selected}

(* The save button.  It is disabled while the session is busy, but the click *)
(* first waits for the pause, so that a second click can find work in flight;*)
(* the choice to overwrite the current save closes its sheet at once.        *)
SaveClicked ==
  /\ page = "playing" /\ Available /\ exit.at = "closed"
  /\ \E target \in SaveTargets :
       /\ target # NoTarget => ~native /\ ~Busy
       /\ Capture(target)
  /\ UNCHANGED <<native, pageVars, made, info, store, volatile, pending,
                 selected, item, exit, serverVars, mismatched, discarded,
                 lost, faults>>

(* The button that synchronises the draft again.                             *)
RetryClicked ==
  /\ page = "playing" /\ pending # None /\ ~Busy /\ pending \notin mismatched
  /\ StartRetry
  /\ UNCHANGED <<native, pageVars, made, info, store, mismatched,
                 discarded, lost, pending, selected, queued, exit,
                 serverVars, faults>>

\* Slip: the loop of captureWork does not look at what was queued.
SlipGoesOn(ok, free, idle) == ok /\ op.kind = "retry" /\ native /\ idle

(* The work ends with `ok`: the loop of captureWork, the capture after a     *)
(* retry, or the end of the operation, whose promise confirm(), save() and a *)
(* final snapshot may be waiting for.                                        *)
GoesOn(ok, free, idle) ==
  /\ ok
  /\ IF op.kind = "retry" THEN native /\ idle ELSE queued /\ free /\ idle

Reopened(error) == [ClosedDialog EXCEPT !.at = "open", !.error = error]
DialogHears(ok) ==
  CASE exit.at = "saving"  -> Reopened(~ok)
    [] exit.at = "syncing" -> IF ok THEN [exit EXCEPT !.at = "leaving"]
                              ELSE Reopened(TRUE)
    [] OTHER -> exit

WorkEnds(ok, free, idle) ==
  IF GoesOn(ok, free, idle)
  THEN /\ queued' = FALSE
       /\ pc' = [pc EXCEPT !["work"] = "checkpoint"]
       /\ op' = [op EXCEPT !.kind = "capture"]
       /\ item' = [item EXCEPT !["work"] = None]
       /\ UNCHANGED <<report, exit>>
  ELSE /\ pc' = [pc EXCEPT !["work"] = "idle",
                           !["final"] = IF @ = "await" THEN "make"
                                        ELSE IF @ = "settle" THEN "dispose" ELSE @]
       /\ op' = [kind |-> "none", target |-> NoTarget]
       /\ item' = [item EXCEPT !["work"] = None]
       /\ report' = ~ok
       /\ exit' = DialogHears(ok)
       /\ UNCHANGED queued

(* The record of commit(), of the game's revision or of the moment of play:  *)
(* a native save goes on with the selected save, any other takes the target. *)
MakeDraft(u, target) ==
  LET d == Cardinality(made) + 1
      base == IF native THEN selected ELSE target
  IN  /\ d \in Drafts
      /\ made' = made \cup {d}
      /\ revision' = IF ~native /\ revision < MaxRevision THEN revision + 1 ELSE revision
      /\ info' = [info EXCEPT ![d] = [base |-> base, revision |-> revision']]
      /\ pending' = d
      /\ volatile' = volatile \cup {d}
      /\ item' = [item EXCEPT ![u] = d]
      /\ pc' = [pc EXCEPT ![u] = "put"]

(* sameDraftCheckpoint: the draft that is pending has the game's own bytes.  *)
SameDraft == native /\ pending # None /\ info[pending].revision = revision

(* The checkpoint is made; a native draft with the same bytes is kept.       *)
Checkpointed ==
  /\ pc["work"] = "checkpoint" /\ game = "running"
  /\ IF SameDraft
     THEN /\ WorkEnds(FALSE, FALSE, Available)
          /\ UNCHANGED <<made, info, pending, volatile, revision>>
     ELSE /\ MakeDraft("work", op.target)
          /\ UNCHANGED <<op, report, exit, queued>>
  /\ UNCHANGED <<native, page, game, acked, store, selected, serverVars,
                 mismatched, discarded, lost, faults>>

(* runtime.checkpoint() or the format check throws.                          *)
CheckpointFails ==
  /\ pc["work"] = "checkpoint"
  /\ FaultOrBound(game # "running")
  /\ WorkEnds(FALSE, FALSE, Available)
  /\ UNCHANGED <<native, pageVars, made, info, pending, selected, store,
                 volatile, serverVars, mismatched, discarded, lost>>
-------------------------------------------------------------------------------
(***************************************************************************)
(* An upload: putDraft, the commit, its renewal, removeDraft.              *)
(***************************************************************************)
(* An uploader is done with its draft.  A final snapshot of a page that is   *)
(* still shown is kept to start the game again ("ended", exitSnapshot).      *)
Ends(u, ok, free) ==
  IF u = "work" THEN WorkEnds(ok, free, Available)
  ELSE /\ pc' = [pc EXCEPT ![u] = IF u = "final" /\ ok /\ page = "playing"
                                  THEN "ended" ELSE "idle"]
       /\ item' = [item EXCEPT ![u] = None]
       /\ UNCHANGED <<queued, op, report, exit>>

(* The end of the disposal: runtime.exit() follows whatever happened.        *)
GameAfter(u) ==
  game' = IF u = "final" /\ page = "unmounted" THEN "exited" ELSE game

(* putDraft writes the database: before an upload ("put"), after a mismatch  *)
(* ("keep"), after an acknowledgement that failed ("reput").                 *)
Put(u) ==
  /\ pc[u] \in {"put", "keep", "reput"}
  /\ store' = store \cup {item[u]}
  /\ volatile' = volatile \ {item[u]}
  /\ IF pc[u] = "put"
     THEN /\ pc' = [pc EXCEPT ![u] = "wait"]
          /\ UNCHANGED <<item, queued, op, report, exit, game>>
     ELSE Ends(u, FALSE, FALSE) /\ GameAfter(u)
  /\ UNCHANGED <<native, page, revision, acked, made, info, pending,
                 selected, serverVars, mismatched, discarded, lost, faults>>

(* The database refuses the draft, reclaimed space or not: it stays in the   *)
(* memory of the tab.                                                        *)
PutFails(u) ==
  /\ pc[u] \in {"put", "keep", "reput"}
  /\ Fault
  /\ Ends(u, FALSE, FALSE) /\ GameAfter(u)
  /\ UNCHANGED <<native, page, revision, acked, made, info, pending,
                 selected, store, volatile, serverVars, mismatched,
                 discarded, lost>>

(* Service.Write: a commit that was written before is answered again; any    *)
(* other needs a live run, and then the version it was made for.             *)
TargetOf(d) == IF info[d].base.id = None THEN d ELSE info[d].base.id
Creates(d) == info[d].base.id = None
\* Slip: the server does not recognise a commit it has already written.
SlipAnswer(d, live) ==
  LET row == saves[TargetOf(d)] IN
  CASE row.version = 0 /\ ~Creates(d) -> "refused"
    [] ~live -> "expired"
    [] OTHER -> "write"

\* Slip: the server writes whatever version the draft was made for.
SlipVersion(d, live) ==
  LET row == saves[TargetOf(d)] IN
  CASE row.version > 0 /\ row.commit = d -> "saved"
    [] row.version = 0 /\ ~Creates(d) -> "refused"
    [] ~live -> "expired"
    [] OTHER -> "write"

Answer(d, live) ==
  LET row == saves[TargetOf(d)] IN
  CASE row.version > 0 /\ row.commit = d -> "saved"
    [] row.version = 0 /\ ~Creates(d) -> "refused"
    [] ~live -> "expired"
    [] row.version > 0 /\ (Creates(d) \/ row.version # info[d].base.version) -> "conflict"
    [] OTHER -> "write"

Write(d) ==
  LET target == TargetOf(d) IN
  /\ saves[target].version + 1 \in Versions
  /\ saves' = [saves EXCEPT ![target] = [version |-> @.version + 1, commit |-> d,
                                          revision |-> info[d].revision]]
  /\ applied' = [applied EXCEPT ![d] = @ + 1]

(* sameIdentity of the draft and of a renewed run.                           *)
SameIdentity == ~drifted

(* The server handles the request and the reply arrives.  CONTEXT_EXPIRED    *)
(* leads to one renewal: a new run, or, when the game has another identity,  *)
(* a draft that says so.                                                     *)
Answered(u) ==
  LET d == item[u]
      answer == Answer(d, pc[u] = "rewait" \/ context = "live")
  IN  /\ pc[u] \in {"wait", "rewait"}
      /\ IF answer = "write" THEN Write(d) ELSE UNCHANGED <<saves, applied>>
      /\ CASE answer \in {"write", "saved"} ->
                /\ pc' = [pc EXCEPT ![u] = "remove"]
                /\ UNCHANGED <<item, queued, op, report, exit, game, mismatched, volatile>>
           [] answer = "expired" /\ SameIdentity ->
                /\ pc' = [pc EXCEPT ![u] = "rewait"]
                /\ UNCHANGED <<item, queued, op, report, exit, game, mismatched, volatile>>
           [] answer = "expired" /\ ~SameIdentity ->
                /\ pc' = [pc EXCEPT ![u] = "keep"]
                /\ mismatched' = mismatched \cup {d}
                /\ volatile' = volatile \cup {d}
                /\ UNCHANGED <<item, queued, op, report, exit, game>>
           [] OTHER ->
                /\ Ends(u, FALSE, FALSE) /\ GameAfter(u)
                /\ UNCHANGED <<mismatched, volatile>>
      /\ UNCHANGED <<native, page, revision, acked, made, info, pending, selected,
                     store, discarded, lost, context, drifted, stray, faults>>

(* The connection breaks: the page gives up, and the request may still arrive*)
(* later, or have been handled already.                                      *)
Unreachable(u) ==
  /\ pc[u] \in {"wait", "rewait"}
  /\ Fault
  /\ stray' = stray \cup {item[u]}
  /\ Ends(u, FALSE, FALSE) /\ GameAfter(u)
  /\ UNCHANGED <<native, page, revision, acked, made, info, pending, selected,
                 storeVars, context, drifted, saves, applied>>

StrayArrives(d) ==
  /\ d \in stray
  /\ stray' = stray \ {d}
  /\ IF Answer(d, context = "live") = "write" THEN Write(d)
     ELSE UNCHANGED <<saves, applied>>
  /\ UNCHANGED <<native, pageVars, draftVars, storeVars, upVars, exit, context,
                 drifted, faults>>

(* What persist() does with a save the server has: the page goes on with it, *)
(* and the draft is no longer pending.                                       *)
Persisted(u) ==
  /\ selected' = [id |-> TargetOf(item[u]), version |-> saves[TargetOf(item[u])].version]
  /\ pending' = None
  /\ Ends(u, TRUE, TRUE) /\ GameAfter(u)

(* removeDraft succeeds.  The list of unsynced saves is then done; the page  *)
(* selects the save, and a native one is acknowledged to a running game.     *)
Removed(u) ==
  /\ pc[u] = "remove"
  /\ store' = store \ {item[u]}
  /\ volatile' = volatile \ {item[u]}
  /\ CASE u = "recovery" ->
            /\ Ends(u, TRUE, TRUE)
            /\ UNCHANGED <<selected, pending, game>>
       [] u = "work" /\ native /\ game = "running" ->
            /\ selected' = [id |-> TargetOf(item[u]),
                            version |-> saves[TargetOf(item[u])].version]
            /\ pc' = [pc EXCEPT ![u] = "ack"]
            /\ UNCHANGED <<pending, item, queued, op, report, exit, game>>
       [] OTHER -> Persisted(u)
  /\ UNCHANGED <<native, page, revision, acked, made, info,
                 mismatched, discarded, lost, serverVars, faults>>

RemoveFails(u) ==
  /\ pc[u] = "remove"
  /\ Fault
  /\ Ends(u, FALSE, FALSE) /\ GameAfter(u)
  /\ UNCHANGED <<native, page, revision, acked, made, info, pending,
                 selected, storeVars, serverVars>>

(* acknowledgeCheckpoint of the running game; after it ended nothing is left *)
(* to acknowledge.                                                           *)
Acknowledged ==
  /\ pc["work"] = "ack"
  /\ acked' = IF game = "running" /\ info[item["work"]].revision > acked
              THEN info[item["work"]].revision ELSE acked
  /\ pending' = None
  /\ WorkEnds(TRUE, TRUE, game = "running" /\ (native => revision > acked'))
  /\ UNCHANGED <<native, page, game, revision, made, info, selected,
                 storeVars, serverVars, faults>>

(* The acknowledgement fails while the game runs: the draft is kept, so that *)
(* the retry has the same commit identity.                                   *)
AcknowledgeFails ==
  /\ pc["work"] = "ack" /\ game = "running"
  /\ Fault
  /\ pc' = [pc EXCEPT !["work"] = "reput"]
  /\ volatile' = volatile \cup {item["work"]}
  /\ UNCHANGED <<native, pageVars, draftVars, store, mismatched, discarded,
                 lost, item, op, report, exit, serverVars>>
-------------------------------------------------------------------------------
(***************************************************************************)
(* The end of play.                                                        *)
(***************************************************************************)
(* The game ends itself and hands over its final snapshot (EXIT_REQUESTED):  *)
(* commit(snapshot, null) first lets the work in flight finish.              *)
GameExits ==
  /\ page = "playing" /\ game = "running" /\ Idle("final")
  /\ game' = "exited"
  /\ revision' \in {r \in {revision, revision + 1} : r <= MaxRevision}
  /\ pc' = [pc EXCEPT !["final"] = IF Busy THEN "await" ELSE "make"]
  /\ UNCHANGED <<native, page, acked, draftVars, storeVars, item,
                 op, report, exit, serverVars, faults>>

(* restartFrom(): the dialog of a game that ended by itself starts it again  *)
(* from its final snapshot, which is saved.                                  *)
Restart ==
  /\ page = "playing" /\ pc["final"] = "ended"
  /\ exit.at = "open" /\ ~Busy /\ pending = None
  /\ game' = "running" /\ acked' = revision
  /\ pc' = [pc EXCEPT !["final"] = "idle"]
  /\ exit' = ClosedDialog
  /\ UNCHANGED <<native, page, revision, draftVars, storeVars, item, op, report,
                 serverVars, faults>>

(* The page is unmounted by a navigation while the game runs: disposeRuntime *)
(* settles the work in flight, then asks for the game's own save.            *)
Unmount ==
  /\ page = "playing" /\ exit.at \in {"closed", "open"}
  /\ page' = "unmounted"
  /\ exit' = ClosedDialog
  /\ IF game = "running"
     THEN pc' = [pc EXCEPT !["final"] = IF Busy THEN "settle" ELSE "dispose"]
     ELSE UNCHANGED pc
  /\ UNCHANGED <<native, game, revision, acked, draftVars, storeVars, item,
                 op, report, serverVars, faults>>

(* waitForNativeSave and the last export; without anything to save the game  *)
(* just ends, and a failure is reported by an event of the window.           *)
Dispose ==
  /\ pc["final"] = "dispose"
  /\ IF native /\ Available
     THEN /\ pc' = [pc EXCEPT !["final"] = IF Busy THEN "await" ELSE "make"]
          /\ UNCHANGED game
     ELSE pc' = [pc EXCEPT !["final"] = "idle"] /\ game' = "exited"
  /\ UNCHANGED <<native, page, revision, acked, draftVars, storeVars, item,
                 op, report, exit, serverVars, faults>>

DisposeFails ==
  /\ pc["final"] = "dispose"
  /\ Fault
  /\ pc' = [pc EXCEPT !["final"] = "idle"]
  /\ game' = "exited"
  /\ UNCHANGED <<native, page, revision, acked, draftVars, storeVars, item,
                 op, report, exit, serverVars>>

(* The final snapshot becomes a draft, unless it is the one that is pending. *)
MakeFinal ==
  /\ pc["final"] = "make"
  /\ IF SameDraft
     THEN /\ pc' = [pc EXCEPT !["final"] = "idle"]
          /\ GameAfter("final")
          /\ UNCHANGED <<made, info, pending, volatile, item, revision>>
     ELSE MakeDraft("final", NoTarget) /\ UNCHANGED game
  /\ UNCHANGED <<native, page, acked, store, selected, queued,
                 op, report, exit, serverVars, mismatched, discarded, lost,
                 faults>>

(* commit() throws: the format does not match, or the image cannot be read.  *)
FinalFails ==
  /\ pc["final"] = "make"
  /\ FaultOrBound(FALSE)
  /\ pc' = [pc EXCEPT !["final"] = "idle"]
  /\ GameAfter("final")
  /\ UNCHANGED <<native, page, revision, acked, draftVars, storeVars, item,
                 op, report, exit, serverVars>>
-------------------------------------------------------------------------------
(***************************************************************************)
(* The exit dialog.                                                        *)
(***************************************************************************)
(* request(): the dialog opens once no checkpoint is being taken.            *)
RequestExit ==
  /\ page = "playing" /\ exit.at = "closed" /\ pc["work"] # "checkpoint"
  /\ exit' = [ClosedDialog EXCEPT !.at = "open"]
  /\ UNCHANGED <<native, pageVars, draftVars, storeVars, upVars,
                 serverVars, faults>>

CancelExit ==
  /\ exit.at = "open" /\ ~Busy
  /\ exit' = ClosedDialog
  /\ UNCHANGED <<native, pageVars, draftVars, storeVars, upVars,
                 serverVars, faults>>

(* What the dialog offers to save: the draft, or progress.                   *)
SaveOffered == pending # None \/ Available

(* save(): a draft is synchronised again, otherwise progress is captured.    *)
SaveInDialog ==
  /\ exit.at = "open" /\ ~Busy /\ SaveOffered
  /\ exit' = [exit EXCEPT !.at = "saving"]
  /\ IF pending # None
     THEN StartRetry /\ UNCHANGED queued
     ELSE /\ StartCapture(NoTarget)
          /\ UNCHANGED <<item, volatile>>
  /\ UNCHANGED <<native, pageVars, made, info, store, pending, selected,
                 mismatched, discarded, lost, serverVars, faults>>

(* confirm(): a native game is checked first, unless its failure was shown.  *)
(* `draft` is the hasDraft of the page that was clicked.                     *)
ConfirmExit ==
  /\ exit.at = "open" /\ ~Busy
  /\ exit' = [exit EXCEPT !.draft = pending # None,
                          !.at = IF native /\ ~exit.error THEN "checking" ELSE "leaving"]
  /\ UNCHANGED <<native, pageVars, draftVars, storeVars, upVars,
                 serverVars, faults>>

(* waitForNativeSave has answered: synchronise what the game has written.    *)
CheckExit ==
  /\ exit.at = "checking"
  /\ CASE exit.draft /\ Busy ->
            /\ exit' = [exit EXCEPT !.at = "syncing"]
            /\ UNCHANGED <<queued, pc, op, report, item, volatile>>
       [] exit.draft /\ ~Busy /\ pending # None ->
            /\ exit' = [exit EXCEPT !.at = "syncing", !.due = revision]
            /\ StartRetry
            /\ UNCHANGED queued
       [] exit.draft /\ ~Busy /\ pending = None ->
            /\ exit' = Reopened(TRUE)
            /\ UNCHANGED <<queued, pc, op, report, item, volatile>>
       [] ~exit.draft /\ Available ->
            /\ exit' = IF ~Busy /\ pending # None
                       THEN Reopened(TRUE)
                       ELSE [exit EXCEPT !.at = "syncing", !.due = revision]
            /\ Capture(NoTarget)
            /\ UNCHANGED <<item, volatile>>
       [] OTHER ->
            /\ exit' = [exit EXCEPT !.at = "leaving"]
            /\ UNCHANGED <<queued, pc, op, report, item, volatile>>
  /\ UNCHANGED <<native, pageVars, made, info, store, pending, selected,
                 mismatched, discarded, lost, serverVars, faults>>

(* The check takes too long or the game's data cannot be confirmed.          *)
CheckFails ==
  /\ exit.at = "checking" /\ game = "running"
  /\ Fault
  /\ exit' = Reopened(TRUE)
  /\ UNCHANGED <<native, pageVars, draftVars, storeVars, upVars,
                 serverVars>>

(* leave(): the game exits, and a run that left no draft is closed; then the *)
(* page is replaced.                                                         *)
Leave ==
  /\ exit.at = "leaving"
  /\ game' = "exited"
  /\ \/ /\ context' = IF exit.draft THEN context ELSE "expired"
        /\ page' = "unmounted"
        /\ exit' = [ClosedDialog EXCEPT !.at = "left"]
        /\ UNCHANGED faults
     \/ /\ Fault                               \* the exit or the DELETE fails
        /\ exit' = Reopened(native)
        /\ UNCHANGED <<context, page>>
  /\ UNCHANGED <<native, revision, acked, draftVars, storeVars, upVars,
                 drifted, saves, applied, stray>>
-------------------------------------------------------------------------------
(***************************************************************************)
(* The list of unsynced saves, the tab, and the world outside.             *)
(***************************************************************************)
(* listDrafts: the database, and the memory when the tab is the same.  A     *)
(* second tab beside a page that plays counts as a disturbance.              *)
Listed == store \cup (IF page = "playing" THEN {} ELSE volatile)

RecoverDraft(d) ==
  /\ Idle("recovery") /\ d \in Listed \ mismatched
  /\ IF page = "playing" THEN Fault ELSE UNCHANGED faults
  /\ item' = [item EXCEPT !["recovery"] = d]
  /\ pc' = [pc EXCEPT !["recovery"] = "wait"]
  /\ UNCHANGED <<native, pageVars, draftVars, storeVars, op, report,
                 exit, serverVars>>

(* The user deletes a draft in the list; a page that still shows it keeps it.*)
DiscardDraft(d) ==
  /\ Idle("recovery") /\ d \in Listed
  /\ Fault
  /\ store' = store \ {d}
  /\ volatile' = IF page = "playing" THEN volatile ELSE volatile \ {d}
  /\ discarded' = discarded \cup {d}
  /\ UNCHANGED <<native, pageVars, draftVars, mismatched, lost, upVars,
                 exit, serverVars>>

(* The tab is closed or reloaded: everything in memory is gone.  Requests    *)
(* that were under way have been handled or are not any more.                *)
Reload ==
  /\ page # "reloaded"
  /\ Fault
  /\ page' = "reloaded" /\ game' = "exited"
  /\ lost' = lost \cup (volatile \ store)
  /\ volatile' = {} /\ pending' = None /\ queued' = FALSE
  /\ pc' = [u \in Uploaders |-> "idle"]
  /\ item' = [u \in Uploaders |-> None]
  /\ stray' = stray \cup {item[u] : u \in {v \in Uploaders : pc[v] \in {"wait", "rewait"}}}
  /\ op' = [kind |-> "none", target |-> NoTarget]
  /\ exit' = ClosedDialog /\ report' = FALSE
  /\ UNCHANGED <<native, revision, acked, made, info, store, selected,
                 mismatched, discarded, context, drifted, saves, applied>>

(* The lease of the run ends.                                                *)
RunExpires ==
  /\ context = "live"
  /\ Fault
  /\ context' = "expired"
  /\ UNCHANGED <<native, pageVars, draftVars, storeVars, upVars, exit,
                 drifted, saves, applied, stray>>

(* The content or the core of the game is replaced.                          *)
Drift ==
  /\ ~drifted
  /\ Fault
  /\ drifted' = TRUE
  /\ UNCHANGED <<native, pageVars, draftVars, storeVars, upVars, exit,
                 context, saves, applied, stray>>

(* Another page writes the save the run was started from.                    *)
WrittenElsewhere ==
  /\ saves[Source].version > 0 /\ saves[Source].version < 3
  /\ Fault
  /\ saves' = [saves EXCEPT ![Source] =
                 [version |-> @.version + 1, commit |-> None, revision |-> 0]]
  /\ UNCHANGED <<native, pageVars, draftVars, storeVars, upVars, exit,
                 context, drifted, applied, stray>>

Upload(u) ==
  \/ Put(u) \/ PutFails(u) \/ Answered(u) \/ Unreachable(u)
  \/ Removed(u) \/ RemoveFails(u)
Work == Checkpointed \/ CheckpointFails \/ Acknowledged \/ AcknowledgeFails
Final == Dispose \/ DisposeFails \/ MakeFinal \/ FinalFails
Dialog ==
  \/ RequestExit \/ CancelExit \/ SaveInDialog \/ ConfirmExit \/ CheckExit
  \/ CheckFails \/ Leave
User ==
  \/ SaveClicked \/ RetryClicked \/ Restart \/ Unmount \/ Reload
  \/ \E d \in Drafts : RecoverDraft(d) \/ DiscardDraft(d)
World ==
  \/ \E d \in Drafts : StrayArrives(d)
  \/ GameAdvances \/ GameExits \/ RunExpires \/ Drift \/ WrittenElsewhere

Next ==
  \/ \E u \in Uploaders : Upload(u)
  \/ Work \/ Final \/ Dialog \/ User \/ World

Spec == Init /\ [][Next]_vars

(* What goes on by itself: the promises of the page and the server.          *)
Progress ==
  /\ \A u \in Uploaders : WF_vars(Upload(u))
  /\ WF_vars(Work) /\ WF_vars(Final)
FairSpec == Spec /\ Progress
-------------------------------------------------------------------------------
(***************************************************************************)
(* Properties.                                                             *)
(***************************************************************************)
Places == {"idle", "ended", "checkpoint", "settle", "dispose", "await", "make", "put",
           "keep", "reput", "wait", "rewait", "remove", "ack"}
Targets == [id : SaveIds \cup {None}, version : Versions]

(* The shape of the state.                                                   *)
TypeOK ==
  /\ native \in BOOLEAN
  /\ page \in {"playing", "unmounted", "reloaded"}
  /\ game \in {"running", "exited"}
  /\ revision \in 0 .. MaxRevision /\ acked \in 0 .. MaxRevision
  /\ made \in SUBSET Drafts
  /\ info \in [Drafts -> [base : Targets, revision : 0 .. MaxRevision]]
  /\ store \in SUBSET Drafts /\ volatile \in SUBSET Drafts
  /\ pending \in Drafts \cup {None}
  /\ selected \in Targets
  /\ queued \in BOOLEAN
  /\ pc \in [Uploaders -> Places]
  /\ item \in [Uploaders -> Drafts \cup {None}]
  /\ stray \in SUBSET Drafts
  /\ op \in [kind : {"none", "capture", "retry"}, target : Targets]
  /\ report \in BOOLEAN
  /\ exit \in [at : {"closed", "open", "saving", "checking", "syncing", "leaving", "left"},
               error : BOOLEAN, draft : BOOLEAN, due : 0 .. MaxRevision]
  /\ context \in {"live", "expired"} /\ drifted \in BOOLEAN
  /\ mismatched \in SUBSET Drafts
  /\ saves \in [SaveIds -> [version : Versions, commit : Drafts \cup {None},
                            revision : 0 .. MaxRevision]]
  /\ applied \in [Drafts -> Nat]
  /\ discarded \in SUBSET Drafts /\ lost \in SUBSET Drafts
  /\ faults \in 0 .. MaxFaults

(* "Keep the same commit identity so retry never creates a second save"      *)
(* (use-save-session.ts:52): however often a draft is sent, by whichever     *)
(* page, and whatever replies are lost, the server writes it at most once.   *)
CommittedOnce == \A d \in Drafts : applied[d] <= 1

(* A draft leaves the browser only when the server has it or the user        *)
(* deleted it: until then it is in the database, or in the memory of the tab *)
(* that could not write the database and says so.                            *)
NothingLost ==
  \A d \in made : \/ d \in store \cup volatile \cup discarded \cup lost
                  \/ applied[d] > 0

(* Between the page, the browser and the server no draft is lost or doubled. *)
DraftsKept == TypeOK /\ CommittedOnce /\ NothingLost

(* Leaving a native game without an error shown means that what the game had *)
(* written when the exit was confirmed is on the server, unless the game     *)
(* ended meanwhile, which hands over a snapshot of its own.                  *)
Synced == {info[d].revision : d \in {e \in Drafts : applied[e] > 0}}
ExitSynced ==
  exit.at = "leaving" /\ native /\ ~exit.error /\ game = "running" /\ exit.due > 0
     => \E r \in Synced : r >= exit.due

(* A save never falls back to older progress of this session: a draft made   *)
(* for an earlier version conflicts instead.                                 *)
NoneOlder ==
  \A s \in SaveIds :
    saves[s].commit # None /\ saves'[s].commit # None
      => saves'[s].revision >= saves[s].revision
NeverOlder == [][NoneOlder]_vars

(* Every revision a native game announces is captured without another        *)
(* request, although captures are refused while one is in flight: or the     *)
(* page shows a draft or a failure, or play has ended.                       *)
Captured(r) ==
  \/ acked >= r \/ \E d \in made : info[d].revision >= r
  \/ pending # None \/ report \/ game # "running" \/ page # "playing"
NoRevisionForgotten == (native /\ revision > 0) ~> Captured(revision)

===============================================================================
