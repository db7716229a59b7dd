----------------------------- MODULE ClientProofs -----------------------------
(***************************************************************************)
(* What the web client promises about state that others change as well.      *)
(* First SaveSession, for any number of drafts, revisions and faults; then   *)
(* the pages of Pages: the invariants of accounts and directories say that   *)
(* what was shown of a row is of an earlier version or the truth, that of    *)
(* the application update that workers are told in order, that of the        *)
(* dialogs that the stack leads home.  In a behaviour of Pages the variables *)
(* of one page move as its module says, and the others not at all.           *)
(***************************************************************************)
EXTENDS SaveSession, Pages, SequenceTheorems, FiniteSetTheorems, TLAPS

Uploading == {"put", "keep", "reput", "wait", "rewait", "remove", "ack"}

Applied(d) == applied[d] > 0
SyncedTo(r) == \E d \in Drafts : Applied(d) /\ info[d].revision >= r

(* A save with the version it had when it was seen: the row has that or a later one. *)
Seen(t) == IF t.id = None THEN t.version = 0 ELSE t.version <= saves[t.id].version
Current(t) == t.id # None /\ t.version = saves[t.id].version /\ saves[t.id].commit # None

(* The drafts and the rows of the server.  A draft that was written has moved its *)
(* row beyond the version it was made for, so that it is not written again; and a *)
(* draft whose version is still the present one is newer than what is there.      *)
RowsInv ==
  /\ made = 1 .. Cardinality(made)
  /\ \A d \in Drafts : applied[d] <= 1
  /\ \A d \in Drafts : Applied(d) => d \in made /\ saves[TargetOf(d)].version > info[d].base.version
  /\ \A s \in SaveIds : saves[s].commit # None => saves[s].version > 0 /\ Applied(saves[s].commit)
  /\ \A s \in SaveIds : saves[s].revision <= revision
  /\ \A d \in Drafts : info[d].revision <= revision
  /\ \A d \in made : Seen(info[d].base)
  /\ \A d \in made : Current(info[d].base) => saves[info[d].base.id].revision <= info[d].revision

(* What the page and the requests under way refer to has been made and seen.      *)
RefsInv ==
  /\ pending \in made \cup {None}
  /\ store \subseteq made /\ volatile \subseteq made /\ stray \subseteq made
  /\ Seen(selected) /\ Seen(op.target)

PlaceInv(u) ==
  /\ pc[u] \in Uploading => item[u] \in made
  /\ pc[u] \in {"remove", "ack"} => Applied(item[u])
PlacesInv == \A u \in Uploaders : PlaceInv(u)

(* The final snapshot of a game that ended on its page is of its last revision.   *)
FinalInv ==
  /\ page = "playing" /\ pc["final"] # "idle" => game = "exited"
  /\ native /\ page = "playing" /\ pc["final"] \in Uploading => info[item["final"]].revision = revision
  /\ native /\ page = "playing" /\ pc["final"] = "ended" => SyncedTo(revision)
  /\ native /\ acked > 0 => SyncedTo(acked)

(* While the dialog waits for the work in flight, what is due is in the draft of  *)
(* that work, or will be in the one that follows it.                              *)
Covered ==
  \/ op.kind = "retry" \/ queued \/ pc["work"] = "checkpoint"
  \/ pc["work"] \in Uploading /\ info[item["work"]].revision >= exit.due
ExitInv ==
  /\ exit.at \notin {"syncing", "leaving"} => exit.due = 0
  /\ exit.at = "syncing" => Busy
  /\ exit.due <= revision
  /\ exit.at = "syncing" /\ native /\ game = "running" /\ exit.due > 0 => Covered
  /\ exit.at = "leaving" /\ native /\ game = "running" /\ exit.due > 0 => SyncedTo(exit.due)

SaveInv ==
  TypeOK /\ RowsInv /\ RefsInv /\ PlacesInv /\ NothingLost /\ FinalInv /\ ExitInv

LEMMA Names ==
  /\ None \notin Drafts /\ None \notin SaveIds /\ Drafts \subseteq SaveIds /\ Source \in SaveIds
  /\ NoTarget \in Targets /\ Versions \subseteq Nat
BY BoundsAreNatural DEF Drafts, None, SaveIds, Source, NoTarget, Targets, Versions

ExitDialogs == [at : {"closed", "open", "saving", "checking", "syncing", "leaving", "left"},
            error : BOOLEAN, draft : BOOLEAN, due : 0 .. MaxRevision]

LEMMA ReopenedType ==
  ASSUME NEW error \in BOOLEAN
  PROVE  Reopened(error) \in ExitDialogs /\ ClosedDialog \in ExitDialogs
         /\ Reopened(error).at = "open" /\ Reopened(error).due = 0
<1>1. 0 \in 0 .. MaxRevision
  BY BoundsAreNatural
<1>2. ClosedDialog \in ExitDialogs
  BY <1>1 DEF ClosedDialog, ExitDialogs
<1>3. Reopened(error) \in ExitDialogs /\ Reopened(error).at = "open"
  BY <1>2 DEF Reopened, ExitDialogs
<1>4. Reopened(error).due = ClosedDialog.due
  BY <1>2 DEF Reopened, ExitDialogs
<1> QED BY <1>2, <1>3, <1>4 DEF ClosedDialog

(* The work ends: what it writes has its type.                                 *)
LEMMA WorkTypes ==
  ASSUME TypeOK, NEW ok \in BOOLEAN, NEW free \in BOOLEAN, NEW idle \in BOOLEAN, WorkEnds(ok, free, idle)
  PROVE  /\ queued' \in BOOLEAN /\ report' \in BOOLEAN
         /\ pc' \in [Uploaders -> Places]
         /\ op' \in [kind : {"none", "capture", "retry"}, target : Targets]
         /\ item' \in [Uploaders -> Drafts \cup {None}]
         /\ exit' \in ExitDialogs
<1> USE Names
<1>1. CASE GoesOn(ok, free, idle)
  <2>1. /\ queued' = FALSE /\ pc' = [pc EXCEPT !["work"] = "checkpoint"]
        /\ op' = [op EXCEPT !.kind = "capture"] /\ item' = [item EXCEPT !["work"] = None]
        /\ UNCHANGED <<report, exit>>
    BY <1>1 DEF WorkEnds
  <2> QED BY <2>1 DEF TypeOK, ExitDialogs, Places, Uploaders
<1>2. CASE ~GoesOn(ok, free, idle)
  <2>1. queued' \in BOOLEAN /\ report' \in BOOLEAN
    BY <1>2 DEF TypeOK, WorkEnds
  <2>2. pc' \in [Uploaders -> Places]
    BY <1>2 DEF TypeOK, WorkEnds, Places, Uploaders
  <2>3. op' \in [kind : {"none", "capture", "retry"}, target : Targets]
    BY <1>2 DEF TypeOK, WorkEnds
  <2>4. item' \in [Uploaders -> Drafts \cup {None}]
    BY <1>2 DEF TypeOK, WorkEnds
  <2>5. exit' = DialogHears(ok)
    BY <1>2 DEF WorkEnds
  <2>6. exit' \in ExitDialogs
    <3>1. Reopened(~ok) \in ExitDialogs /\ Reopened(TRUE) \in ExitDialogs
      BY ReopenedType
    <3>2. exit \in ExitDialogs /\ [exit EXCEPT !.at = "leaving"] \in ExitDialogs
      BY DEF TypeOK, ExitDialogs
    <3>3. exit' \in {Reopened(~ok), Reopened(TRUE), exit, [exit EXCEPT !.at = "leaving"]}
      BY <2>5 DEF DialogHears
    <3> QED BY <3>1, <3>2, <3>3
  <2> QED BY <2>1, <2>2, <2>3, <2>4, <2>6
<1> QED BY <1>1, <1>2

LEMMA EndTypes ==
  ASSUME TypeOK, NEW u \in Uploaders, NEW ok \in BOOLEAN, NEW free \in BOOLEAN, Ends(u, ok, free)
  PROVE  /\ queued' \in BOOLEAN /\ report' \in BOOLEAN
         /\ pc' \in [Uploaders -> Places]
         /\ op' \in [kind : {"none", "capture", "retry"}, target : Targets]
         /\ item' \in [Uploaders -> Drafts \cup {None}]
         /\ exit' \in ExitDialogs
<1>0. Available \in BOOLEAN
  BY DEF TypeOK, Available
<1>1. CASE u = "work"
  BY <1>0, <1>1, WorkTypes DEF Ends
<1>2. CASE u # "work"
  BY <1>2 DEF TypeOK, ExitDialogs, Ends, Places, Uploaders
<1> QED BY <1>1, <1>2

LEMMA DraftTypes ==
  ASSUME TypeOK, NEW u \in Uploaders, NEW target \in Targets, MakeDraft(u, target)
  PROVE  /\ made' \in SUBSET Drafts /\ revision' \in 0 .. MaxRevision
         /\ info' \in [Drafts -> [base : Targets, revision : 0 .. MaxRevision]]
         /\ pending' \in Drafts \cup {None} /\ volatile' \in SUBSET Drafts
         /\ item' \in [Uploaders -> Drafts \cup {None}]
         /\ pc' \in [Uploaders -> Places]
<1> DEFINE d == Cardinality(made) + 1
           base == IF native THEN selected ELSE target
<1>1. d \in Drafts
  BY DEF MakeDraft
<1>2. base \in Targets
  BY DEF TypeOK
<1>3. revision' \in 0 .. MaxRevision
  BY BoundsAreNatural DEF MakeDraft, TypeOK
<1>4. info' = [info EXCEPT ![d] = [base |-> base, revision |-> revision']]
  BY DEF MakeDraft
<1>5. [base |-> base, revision |-> revision'] \in [base : Targets, revision : 0 .. MaxRevision]
  BY <1>2, <1>3
<1>6. made' = made \cup {d} /\ pending' = d /\ volatile' = volatile \cup {d} /\ item' = [item EXCEPT ![u] = d]
      /\ pc' = [pc EXCEPT ![u] = "put"]
  BY DEF MakeDraft
<1> HIDE DEF d, base
<1>7. info' \in [Drafts -> [base : Targets, revision : 0 .. MaxRevision]]
  BY <1>1, <1>4, <1>5 DEF TypeOK
<1> QED BY <1>1, <1>3, <1>6, <1>7 DEF TypeOK, Places

LEMMA WriteTypes ==
  ASSUME TypeOK, NEW d \in Drafts, Write(d)
  PROVE  /\ TargetOf(d) \in SaveIds
         /\ saves' \in [SaveIds -> [version : Versions, commit : Drafts \cup {None}, revision : 0 .. MaxRevision]]
         /\ applied' \in [Drafts -> Nat]
<1>1. TargetOf(d) \in SaveIds
  BY Names DEF TargetOf, TypeOK, Targets
<1>2. info[d].revision \in 0 .. MaxRevision
  BY DEF TypeOK
<1> QED BY <1>1, <1>2 DEF Write, TypeOK

LEMMA CaptureTypes ==
  ASSUME TypeOK, NEW target \in Targets, Capture(target) \/ StartCapture(target)
  PROVE  /\ queued' \in BOOLEAN /\ report' \in BOOLEAN
         /\ pc' \in [Uploaders -> Places]
         /\ op' \in [kind : {"none", "capture", "retry"}, target : Targets]
<1>1. CASE UNCHANGED <<pc, op, report>> /\ queued' \in BOOLEAN
  BY <1>1 DEF TypeOK
<1>2. CASE ~(UNCHANGED <<pc, op, report>> /\ queued' \in BOOLEAN)
  <2>1. /\ queued' = FALSE /\ report' = FALSE
        /\ pc' = [pc EXCEPT !["work"] = "checkpoint"]
        /\ op' = [kind |-> "capture", target |-> target]
    BY <1>2 DEF TypeOK, Capture, StartCapture
  <2> QED BY <2>1 DEF TypeOK, Places, Uploaders
<1> QED BY <1>1, <1>2

LEMMA FaultTypes ==
  ASSUME TypeOK, Fault \/ UNCHANGED faults
  PROVE  faults' \in 0 .. MaxFaults
BY BoundsAreNatural DEF TypeOK, Fault

LEMMA RetryTypes ==
  ASSUME TypeOK, StartRetry
  PROVE  /\ report' \in BOOLEAN
         /\ pc' \in [Uploaders -> Places]
         /\ op' \in [kind : {"none", "capture", "retry"}, target : Targets]
         /\ item' \in [Uploaders -> Drafts \cup {None}]
         /\ pending # None => volatile' \in SUBSET Drafts
BY Names DEF TypeOK, StartRetry, Places, Uploaders

(* Every step keeps the types.                                                 *)
LEMMA UploadKeepsTypes ==
  ASSUME TypeOK, NEW u \in Uploaders, pc[u] \in Uploading => item[u] \in Drafts, Upload(u)
  PROVE  TypeOK'
<1> USE DEF Uploading, pageVars, draftVars, storeVars, upVars, serverVars
<1>1. ASSUME Put(u) PROVE TypeOK'
  <2>1. CASE pc[u] = "put"
    <3>1. pc' = [pc EXCEPT ![u] = "wait"] /\ store' = store \cup {item[u]} /\ volatile' = volatile \ {item[u]}
          /\ item[u] \in Drafts
      BY <1>1, <2>1 DEF Put
    <3>2. pc' \in [Uploaders -> Places] /\ store' \in SUBSET Drafts /\ volatile' \in SUBSET Drafts
      BY <3>1 DEF TypeOK, Places
    <3> QED BY <1>1, <2>1, <3>2 DEF Put, TypeOK
  <2>2. CASE pc[u] # "put"
    <3>1. Ends(u, FALSE, FALSE) /\ GameAfter(u)
      BY <1>1, <2>2 DEF Put
    <3> QED BY <1>1, <2>2, <3>1, EndTypes DEF Put, TypeOK, GameAfter, ExitDialogs
  <2> QED BY <2>1, <2>2
<1>2. ASSUME PutFails(u) PROVE TypeOK'
  BY <1>2, EndTypes, FaultTypes DEF PutFails, TypeOK, GameAfter, ExitDialogs
<1>3. ASSUME Answered(u) PROVE TypeOK'
  <2> DEFINE d == item[u]
             answer == Answer(d, pc[u] = "rewait" \/ context = "live")
  <2>1. d \in Drafts
    BY <1>3 DEF Answered
  <2>2. saves' \in [SaveIds -> [version : Versions, commit : Drafts \cup {None}, revision : 0 .. MaxRevision]]
        /\ applied' \in [Drafts -> Nat]
    BY <1>3, <2>1, WriteTypes DEF Answered, TypeOK
  <2>3. CASE answer \in {"write", "saved"} \/ (answer = "expired" /\ SameIdentity)
    <3>1. \E place \in {"remove", "rewait"} : pc' = [pc EXCEPT ![u] = place]
      BY <1>3, <2>3 DEF Answered
    <3>2. UNCHANGED <<item, queued, op, report, exit, game, mismatched, volatile>>
      BY <1>3, <2>3 DEF Answered
    <3> QED BY <1>3, <2>2, <3>1, <3>2 DEF Answered, TypeOK, Places, ExitDialogs
  <2>4. CASE answer = "expired" /\ ~SameIdentity
    BY <1>3, <2>1, <2>2, <2>4 DEF Answered, TypeOK, Places, ExitDialogs
  <2>5. CASE answer \notin {"write", "saved", "expired"}
    <3>1. Ends(u, FALSE, FALSE) /\ GameAfter(u)
      BY <1>3, <2>5 DEF Answered
    <3> QED BY <1>3, <2>2, <2>5, <3>1, EndTypes DEF Answered, TypeOK, GameAfter, ExitDialogs
  <2> QED BY <2>3, <2>4, <2>5
<1>4. ASSUME Unreachable(u) PROVE TypeOK'
  BY <1>4, EndTypes, FaultTypes DEF Unreachable, TypeOK, GameAfter, ExitDialogs
<1>5. ASSUME Removed(u) PROVE TypeOK'
  <2>1. item[u] \in Drafts /\ TargetOf(item[u]) \in SaveIds
    BY <1>5, Names DEF Removed, TargetOf, TypeOK, Targets
  <2>2. [id |-> TargetOf(item[u]), version |-> saves[TargetOf(item[u])].version] \in Targets
    BY <2>1 DEF Targets, TypeOK
  <2>3. CASE u = "recovery"
    BY <1>5, <2>3, EndTypes DEF Removed, TypeOK, ExitDialogs
  <2>4. CASE u = "work" /\ native /\ game = "running"
    BY <1>5, <2>2, <2>4 DEF Removed, TypeOK, ExitDialogs, Places
  <2>5. CASE u # "recovery" /\ ~(u = "work" /\ native /\ game = "running")
    <3>1. Persisted(u)
      BY <1>5, <2>5 DEF Removed
    <3>2. Ends(u, TRUE, TRUE) /\ GameAfter(u) /\ selected' \in Targets /\ pending' = None
      BY <2>2, <3>1 DEF Persisted
    <3> QED BY <1>5, <3>2, EndTypes DEF Removed, TypeOK, ExitDialogs, GameAfter
  <2> QED BY <2>3, <2>4, <2>5
<1>6. ASSUME RemoveFails(u) PROVE TypeOK'
  BY <1>6, EndTypes, FaultTypes DEF RemoveFails, TypeOK, GameAfter, ExitDialogs
<1> QED BY <1>1, <1>2, <1>3, <1>4, <1>5, <1>6 DEF Upload

LEMMA WorkKeepsTypes ==
  ASSUME TypeOK, pc["work"] \in Uploading => item["work"] \in Drafts, Work
  PROVE  TypeOK'
<1> USE DEF Uploading, pageVars, draftVars, storeVars, upVars, serverVars
<1>0. Available \in BOOLEAN /\ "work" \in Uploaders
  BY DEF TypeOK, Available, Uploaders
<1>1. ASSUME Checkpointed PROVE TypeOK'
  <2>1. CASE SameDraft
    BY <1>0, <1>1, <2>1, WorkTypes DEF Checkpointed, TypeOK, ExitDialogs
  <2>2. CASE ~SameDraft
    <3>1. op.target \in Targets /\ MakeDraft("work", op.target)
      BY <1>1, <2>2 DEF Checkpointed, TypeOK
    <3> QED BY <1>0, <1>1, <2>2, <3>1, DraftTypes DEF Checkpointed, TypeOK
  <2> QED BY <2>1, <2>2
<1>2. ASSUME CheckpointFails PROVE TypeOK'
  <2>1. WorkEnds(FALSE, FALSE, Available) /\ faults' \in 0 .. MaxFaults
    BY <1>2, FaultTypes DEF CheckpointFails, FaultOrBound
  <2> QED BY <1>0, <1>2, <2>1, WorkTypes DEF CheckpointFails, TypeOK, ExitDialogs
<1>3. ASSUME Acknowledged PROVE TypeOK'
  <2>1. acked' \in 0 .. MaxRevision
    BY <1>3 DEF Acknowledged, TypeOK
  <2>2. (game = "running" /\ (native => revision > acked')) \in BOOLEAN
    BY DEF TypeOK
  <2> QED BY <1>3, <2>1, <2>2, WorkTypes DEF Acknowledged, TypeOK, ExitDialogs
<1>4. ASSUME AcknowledgeFails PROVE TypeOK'
  BY <1>0, <1>4, FaultTypes DEF AcknowledgeFails, TypeOK, ExitDialogs, Places
<1> QED BY <1>1, <1>2, <1>3, <1>4 DEF Work

LEMMA FinalKeepsTypes ==
  ASSUME TypeOK, Final
  PROVE  TypeOK'
<1> USE DEF Uploading, pageVars, draftVars, storeVars, upVars, serverVars
<1>0. "final" \in Uploaders /\ "idle" \in Places /\ "await" \in Places /\ "make" \in Places
  BY DEF Uploaders, Places
<1>1. ASSUME Dispose PROVE TypeOK'
  BY <1>0, <1>1 DEF Dispose, TypeOK, ExitDialogs
<1>2. ASSUME DisposeFails PROVE TypeOK'
  BY <1>0, <1>2, FaultTypes DEF DisposeFails, TypeOK, ExitDialogs
<1>3. ASSUME MakeFinal PROVE TypeOK'
  <2>1. CASE SameDraft
    BY <1>0, <1>3, <2>1 DEF MakeFinal, GameAfter, TypeOK, ExitDialogs
  <2>2. CASE ~SameDraft
    BY <1>0, <1>3, <2>2, DraftTypes, Names DEF MakeFinal, TypeOK, ExitDialogs
  <2> QED BY <2>1, <2>2
<1>4. ASSUME FinalFails PROVE TypeOK'
  BY <1>0, <1>4, FaultTypes DEF FinalFails, FaultOrBound, GameAfter, TypeOK, ExitDialogs
<1> QED BY <1>1, <1>2, <1>3, <1>4 DEF Final

LEMMA DialogKeepsTypes ==
  ASSUME TypeOK, Dialog
  PROVE  TypeOK'
<1> USE DEF pageVars, draftVars, storeVars, upVars, serverVars
<1>0. exit \in ExitDialogs /\ ClosedDialog \in ExitDialogs /\ Reopened(TRUE) \in ExitDialogs
      /\ Reopened(native) \in ExitDialogs /\ NoTarget \in Targets
  BY ReopenedType, Names DEF TypeOK, ExitDialogs
<1>1. ASSUME RequestExit PROVE TypeOK'
  BY <1>0, <1>1 DEF RequestExit, TypeOK, ExitDialogs
<1>2. ASSUME CancelExit PROVE TypeOK'
  BY <1>0, <1>2 DEF CancelExit, TypeOK, ExitDialogs
<1>3. ASSUME SaveInDialog PROVE TypeOK'
  <2>1. CASE pending # None
    BY <1>3, <2>1, RetryTypes DEF SaveInDialog, TypeOK
  <2>2. CASE pending = None
    BY <1>0, <1>3, <2>2, CaptureTypes DEF SaveInDialog, TypeOK
  <2> QED BY <2>1, <2>2
<1>4. ASSUME ConfirmExit PROVE TypeOK'
  <2>1. \E draft \in BOOLEAN, at \in {"checking", "leaving"} :
          exit' = [exit EXCEPT !.draft = draft, !.at = at]
    BY <1>4 DEF ConfirmExit
  <2>2. exit' \in ExitDialogs
    BY <1>0, <2>1 DEF ExitDialogs
  <2> QED BY <1>4, <2>2 DEF ConfirmExit, TypeOK, ExitDialogs
<1>5. ASSUME CheckExit PROVE TypeOK'
  <2> DEFINE same == UNCHANGED <<queued, pc, op, report, item, volatile>>
  <2>1. /\ exit' = [exit EXCEPT !.at = "syncing"] \/ exit' = [exit EXCEPT !.at = "syncing", !.due = revision]
           \/ exit' = Reopened(TRUE) \/ exit' = [exit EXCEPT !.at = "leaving"]
        /\ same \/ (pending # None /\ StartRetry /\ UNCHANGED queued)
           \/ (Capture(NoTarget) /\ UNCHANGED <<item, volatile>>)
    BY <1>5 DEF CheckExit
  <2>2. exit' \in ExitDialogs
    <3>1. revision \in 0 .. MaxRevision
      BY DEF TypeOK
    <3>2. exit \in ExitDialogs /\ Reopened(TRUE) \in ExitDialogs
      BY <1>0
    <3>3. [exit EXCEPT !.at = "syncing"] \in ExitDialogs /\ [exit EXCEPT !.at = "leaving"] \in ExitDialogs
          /\ [exit EXCEPT !.at = "syncing", !.due = revision] \in ExitDialogs
      BY <3>1, <3>2 DEF ExitDialogs
    <3> QED BY <2>1, <3>2, <3>3
  <2>3. CASE same
    BY <1>5, <2>2, <2>3 DEF CheckExit, TypeOK, ExitDialogs
  <2>4. CASE pending # None /\ StartRetry /\ UNCHANGED queued
    <3>1. /\ report' \in BOOLEAN /\ pc' \in [Uploaders -> Places]
          /\ op' \in [kind : {"none", "capture", "retry"}, target : Targets]
          /\ item' \in [Uploaders -> Drafts \cup {None}] /\ volatile' \in SUBSET Drafts
      BY <2>4, RetryTypes
    <3>2. /\ UNCHANGED <<queued, native, pageVars, made, info, store, pending, selected>>
          /\ UNCHANGED <<mismatched, discarded, lost, serverVars, faults>>
      BY <1>5, <2>4 DEF CheckExit
    <3> QED BY <2>2, <3>1, <3>2 DEF TypeOK, ExitDialogs
  <2>5. CASE Capture(NoTarget) /\ UNCHANGED <<item, volatile>>
    <3>1. /\ queued' \in BOOLEAN /\ report' \in BOOLEAN /\ pc' \in [Uploaders -> Places]
          /\ op' \in [kind : {"none", "capture", "retry"}, target : Targets]
      BY <1>0, <2>5, CaptureTypes
    <3>2. /\ UNCHANGED <<item, volatile, native, pageVars, made, info, store, pending, selected>>
          /\ UNCHANGED <<mismatched, discarded, lost, serverVars, faults>>
      BY <1>5, <2>5 DEF CheckExit
    <3> QED BY <2>2, <3>1, <3>2 DEF TypeOK, ExitDialogs
  <2> QED BY <2>1, <2>3, <2>4, <2>5
<1>6. ASSUME CheckFails PROVE TypeOK'
  <2>1. exit' \in ExitDialogs /\ faults' \in 0 .. MaxFaults
    BY <1>0, <1>6, FaultTypes DEF CheckFails
  <2>2. UNCHANGED <<native, pageVars, draftVars, storeVars, upVars, serverVars>>
    BY <1>6 DEF CheckFails
  <2> QED BY <2>1, <2>2 DEF TypeOK, ExitDialogs
<1>7. ASSUME Leave PROVE TypeOK'
  <2>1. exit' \in ExitDialogs
    BY <1>0, <1>7 DEF Leave, ExitDialogs
  <2> QED BY <1>7, <2>1, FaultTypes DEF Leave, TypeOK, ExitDialogs
<1> QED BY <1>1, <1>2, <1>3, <1>4, <1>5, <1>6, <1>7 DEF Dialog

LEMMA UserKeepsTypes ==
  ASSUME TypeOK, \A u \in Uploaders : pc[u] \in Uploading => item[u] \in Drafts, User
  PROVE  TypeOK'
<1> USE DEF pageVars, draftVars, storeVars, upVars, serverVars
<1>0. /\ ClosedDialog \in ExitDialogs /\ NoTarget \in Targets
      /\ \A u \in Uploaders, place \in Places : [pc EXCEPT ![u] = place] \in [Uploaders -> Places]
      /\ "final" \in Uploaders /\ "recovery" \in Uploaders
      /\ {"idle", "settle", "dispose", "wait"} \subseteq Places
  BY ReopenedType, Names DEF TypeOK, Uploaders, Places
<1>1. ASSUME SaveClicked PROVE TypeOK'
  <2>1. PICK target \in SaveTargets : Capture(target)
    BY <1>1 DEF SaveClicked
  <2>2. target \in Targets
    BY <1>0 DEF SaveTargets, TypeOK
  <2> QED BY <1>1, <2>1, <2>2, CaptureTypes DEF SaveClicked, TypeOK
<1>2. ASSUME RetryClicked PROVE TypeOK'
  BY <1>2, RetryTypes DEF RetryClicked, TypeOK
<1>3. ASSUME Restart PROVE TypeOK'
  BY <1>0, <1>3 DEF Restart, TypeOK, ExitDialogs
<1>4. ASSUME Unmount PROVE TypeOK'
  BY <1>0, <1>4 DEF Unmount, TypeOK, ExitDialogs
<1>5. ASSUME Reload PROVE TypeOK'
  <2>1. pc' \in [Uploaders -> Places] /\ item' \in [Uploaders -> Drafts \cup {None}]
    BY <1>0, <1>5 DEF Reload
  <2>2. stray' \in SUBSET Drafts
    BY <1>5 DEF Reload, TypeOK, Uploading
  <2>3. op' \in [kind : {"none", "capture", "retry"}, target : Targets] /\ exit' \in ExitDialogs
        /\ lost' \in SUBSET Drafts /\ faults' \in 0 .. MaxFaults
    BY <1>0, <1>5, FaultTypes DEF Reload, TypeOK
  <2> QED BY <1>5, <2>1, <2>2, <2>3, Names DEF Reload, TypeOK, ExitDialogs
<1>6. ASSUME NEW d \in Drafts, RecoverDraft(d) PROVE TypeOK'
  <2>1. pc' \in [Uploaders -> Places] /\ item' \in [Uploaders -> Drafts \cup {None}]
    BY <1>0, <1>6 DEF RecoverDraft, TypeOK
  <2> QED BY <1>6, <2>1, FaultTypes DEF RecoverDraft, TypeOK
<1>7. ASSUME NEW d \in Drafts, DiscardDraft(d) PROVE TypeOK'
  BY <1>7, FaultTypes DEF DiscardDraft, TypeOK
<1> QED BY <1>1, <1>2, <1>3, <1>4, <1>5, <1>6, <1>7 DEF User

LEMMA WorldKeepsTypes ==
  ASSUME TypeOK, World
  PROVE  TypeOK'
<1> USE DEF pageVars, draftVars, storeVars, upVars, serverVars
<1>1. ASSUME NEW d \in Drafts, StrayArrives(d) PROVE TypeOK'
  <2>1. saves' \in [SaveIds -> [version : Versions, commit : Drafts \cup {None}, revision : 0 .. MaxRevision]]
        /\ applied' \in [Drafts -> Nat]
    BY <1>1, WriteTypes DEF StrayArrives, TypeOK
  <2> QED BY <1>1, <2>1 DEF StrayArrives, TypeOK
<1>2. ASSUME GameAdvances PROVE TypeOK'
  <2>1. CASE page = "playing"
    BY <1>2, <2>1, CaptureTypes, Names, BoundsAreNatural DEF GameAdvances, TypeOK
  <2>2. CASE page # "playing"
    BY <1>2, <2>2, BoundsAreNatural DEF GameAdvances, TypeOK
  <2> QED BY <2>1, <2>2
<1>3. ASSUME GameExits PROVE TypeOK'
  <2>1. revision' \in 0 .. MaxRevision
    BY <1>3, BoundsAreNatural DEF GameExits, TypeOK
  <2>2. pc' \in [Uploaders -> Places]
    BY <1>3 DEF GameExits, TypeOK, Places, Uploaders
  <2> QED BY <1>3, <2>1, <2>2 DEF GameExits, TypeOK
<1>4. ASSUME RunExpires PROVE TypeOK'
  BY <1>4, FaultTypes DEF RunExpires, TypeOK
<1>5. ASSUME Drift PROVE TypeOK'
  BY <1>5, FaultTypes DEF Drift, TypeOK
<1>6. ASSUME WrittenElsewhere PROVE TypeOK'
  <2>1. saves[Source].version + 1 \in Versions /\ 0 \in 0 .. MaxRevision
    BY <1>6, Names, BoundsAreNatural DEF WrittenElsewhere, TypeOK, Versions
  <2>2. saves' = [saves EXCEPT ![Source] = [version |-> saves[Source].version + 1, commit |-> None, revision |-> 0]]
    BY <1>6 DEF WrittenElsewhere
  <2>3. saves' \in [SaveIds -> [version : Versions, commit : Drafts \cup {None}, revision : 0 .. MaxRevision]]
    BY <2>1, <2>2, Names DEF TypeOK
  <2> QED BY <1>6, <2>3, FaultTypes DEF WrittenElsewhere, TypeOK
<1> QED BY <1>1, <1>2, <1>3, <1>4, <1>5, <1>6 DEF World

(* What a step does to the drafts and to the rows of the server: nothing, a draft *)
(* that is made, a draft that is written, or a row that another page writes.      *)
Untouched == UNCHANGED <<made, info, saves, applied>> /\ revision <= revision'
NewDraft(d, base) ==
  /\ d = Cardinality(made) + 1 /\ d \in Drafts /\ base \in Targets /\ Seen(base)
  /\ made' = made \cup {d} /\ info' = [info EXCEPT ![d] = [base |-> base, revision |-> revision']]
  /\ revision <= revision' /\ UNCHANGED <<saves, applied>>
NewRow(d) ==
  /\ d \in made /\ saves[TargetOf(d)].version = info[d].base.version
  /\ Write(d) /\ UNCHANGED <<made, info, revision>>
OtherRow ==
  /\ saves' = [saves EXCEPT ![Source] = [version |-> @.version + 1, commit |-> None, revision |-> 0]]
  /\ UNCHANGED <<made, info, applied, revision>>
RowsMove ==
  \/ Untouched \/ OtherRow
  \/ \E d \in Drafts, base \in Targets : NewDraft(d, base)
  \/ \E d \in made : NewRow(d)

(* In each case nothing is forgotten.                                          *)
Grows ==
  /\ made \subseteq made' /\ \A d \in made : info'[d] = info[d]
  /\ \A d \in Drafts : applied[d] <= applied'[d]
  /\ \A s \in SaveIds : saves[s].version <= saves'[s].version
  /\ revision <= revision'

LEMMA NextIsNew ==
  ASSUME TypeOK, RowsInv
  PROVE  /\ Cardinality(made) \in Nat /\ Cardinality(made) + 1 \notin made
         /\ made \cup {Cardinality(made) + 1} = 1 .. Cardinality(made) + 1
         /\ Cardinality(1 .. Cardinality(made) + 1) = Cardinality(made) + 1
<1>1. IsFiniteSet(made)
  <2>1. IsFiniteSet(Drafts)
    BY FS_Interval, BoundsAreNatural DEF Drafts
  <2> QED BY <2>1, FS_Subset DEF TypeOK
<1>2. Cardinality(made) \in Nat
  BY <1>1, FS_CardinalityType
<1> DEFINE n == Cardinality(made)
<1>3. made = 1 .. n
  BY DEF RowsInv
<1> HIDE DEF n
<1>4. n \in Nat
  BY <1>2 DEF n
<1>5. n + 1 \notin made /\ made \cup {n + 1} = 1 .. n + 1
  BY <1>3, <1>4
<1>6. Cardinality(1 .. n + 1) = n + 1
  BY <1>4, FS_Interval
<1> QED BY <1>4, <1>5, <1>6 DEF n

LEMMA Numbers ==
  ASSUME TypeOK
  PROVE  /\ revision \in Nat /\ acked \in Nat /\ exit.due \in Nat
         /\ \A s \in SaveIds : saves[s].version \in Nat /\ saves[s].revision \in Nat
         /\ \A d \in Drafts : /\ applied[d] \in Nat /\ info[d].revision \in Nat
                              /\ info[d].base \in Targets /\ info[d].base.version \in Nat
                              /\ TargetOf(d) \in SaveIds
         /\ \A t \in Targets : t.version \in Nat /\ (t.id # None => t.id \in SaveIds)
<1>1. \A n \in 0 .. MaxRevision : n \in Nat
  BY BoundsAreNatural
<1>2. revision \in Nat /\ acked \in Nat /\ exit.due \in Nat
  BY <1>1 DEF TypeOK
<1>3. \A t \in Targets : t.version \in Nat /\ (t.id # None => t.id \in SaveIds)
  BY Names DEF Targets
<1>4. ASSUME NEW s \in SaveIds PROVE saves[s].version \in Nat /\ saves[s].revision \in Nat
  BY <1>1, Names DEF TypeOK
<1>5. ASSUME NEW d \in Drafts
      PROVE  applied[d] \in Nat /\ info[d].revision \in Nat /\ info[d].base \in Targets
  BY <1>1 DEF TypeOK
<1>6. ASSUME NEW d \in Drafts PROVE TargetOf(d) \in SaveIds
  BY <1>3, <1>5, Names DEF TargetOf
<1> QED BY <1>2, <1>3, <1>4, <1>5, <1>6

LEMMA NumbersNext ==
  ASSUME TypeOK'
  PROVE  /\ revision' \in Nat
         /\ \A s \in SaveIds : saves'[s].version \in Nat /\ saves'[s].revision \in Nat
         /\ \A d \in Drafts : info'[d].revision \in Nat /\ info'[d].base \in Targets
<1>1. \A n \in 0 .. MaxRevision : n \in Nat
  BY BoundsAreNatural
<1>2. revision' \in Nat
  BY <1>1 DEF TypeOK
<1>3. ASSUME NEW s \in SaveIds PROVE saves'[s].version \in Nat /\ saves'[s].revision \in Nat
  BY <1>1, Names DEF TypeOK
<1>4. ASSUME NEW d \in Drafts PROVE info'[d].revision \in Nat /\ info'[d].base \in Targets
  BY <1>1 DEF TypeOK
<1> QED BY <1>2, <1>3, <1>4

LEMMA RowsGrow ==
  ASSUME TypeOK, RowsInv, RowsMove
  PROVE  Grows
<1>1. CASE Untouched
  BY <1>1, Numbers DEF Untouched, Grows
<1>2. CASE OtherRow
  <2>1. \A s \in SaveIds : saves[s].version <= saves'[s].version
    BY <1>2, Numbers DEF OtherRow, TypeOK
  <2> QED BY <1>2, <2>1, Numbers DEF OtherRow, Grows
<1>3. ASSUME NEW d \in Drafts, NEW base \in Targets, NewDraft(d, base) PROVE Grows
  <2>1. \A e \in made : e # d /\ e \in Drafts
    BY <1>3, NextIsNew DEF NewDraft, TypeOK
  <2>2. \A e \in made : info'[e] = info[e]
    BY <1>3, <2>1 DEF NewDraft, TypeOK
  <2> QED BY <1>3, <2>2, Numbers DEF NewDraft, Grows
<1>4. ASSUME NEW d \in made, NewRow(d) PROVE Grows
  <2>1. d \in Drafts /\ TargetOf(d) \in SaveIds
    BY Names DEF TypeOK, TargetOf, Targets
  <2>2. \A e \in Drafts : applied[e] <= applied'[e]
    BY <1>4, <2>1, Numbers DEF NewRow, Write, TypeOK
  <2>3. \A s \in SaveIds : saves[s].version <= saves'[s].version
    BY <1>4, <2>1, Numbers DEF NewRow, Write, TypeOK
  <2> QED BY <1>4, <2>2, <2>3, Numbers DEF NewRow, Grows
<1> QED BY <1>1, <1>2, <1>3, <1>4 DEF RowsMove

LEMMA UntouchedSafe ==
  ASSUME TypeOK, TypeOK', RowsInv, Untouched
  PROVE  RowsInv'
<1>1. UNCHANGED <<made, info, saves, applied>> /\ revision <= revision'
  BY DEF Untouched
<1>2. \A s \in SaveIds : saves[s].revision <= revision'
  BY <1>1, Numbers, NumbersNext DEF RowsInv
<1>3. \A d \in Drafts : info[d].revision <= revision'
  BY <1>1, Numbers, NumbersNext DEF RowsInv
<1> QED BY <1>1, <1>2, <1>3 DEF RowsInv, Applied, TargetOf, Seen, Current

LEMMA OtherRowSafe ==
  ASSUME TypeOK, TypeOK', RowsInv, OtherRow
  PROVE  RowsInv'
<1> DEFINE row == [version |-> saves[Source].version + 1, commit |-> None, revision |-> 0]
<1>1. UNCHANGED <<made, info, applied, revision>> /\ saves' = [saves EXCEPT ![Source] = row]
  BY DEF OtherRow
<1>2. \A s \in SaveIds : saves'[s] = IF s = Source THEN row ELSE saves[s]
  BY <1>1 DEF TypeOK
<1>3. \A s \in SaveIds : saves[s].version <= saves'[s].version
  BY <1>2, Numbers
<1>4. ASSUME NEW d \in Drafts, Applied(d)' PROVE d \in made' /\ saves'[TargetOf(d)'].version > info'[d].base.version
  <2>1. Applied(d) /\ TargetOf(d)' = TargetOf(d) /\ TargetOf(d) \in SaveIds
    BY <1>1, <1>4, Numbers DEF Applied, TargetOf
  <2> QED BY <1>1, <1>3, <2>1, Numbers, NumbersNext DEF RowsInv
<1>5. ASSUME NEW s \in SaveIds, saves'[s].commit # None PROVE saves'[s].version > 0 /\ applied'[saves'[s].commit] > 0
  BY <1>1, <1>2, <1>5 DEF RowsInv, Applied
<1>6. \A s \in SaveIds : saves'[s].revision <= revision'
  BY <1>1, <1>2, Numbers DEF RowsInv
<1>7. ASSUME NEW d \in made' PROVE Seen(info[d].base)'
  <2>1. d \in made /\ d \in Drafts /\ info'[d] = info[d] /\ Seen(info[d].base)
    BY <1>1, <1>7 DEF RowsInv, TypeOK
  <2> QED BY <1>3, <2>1, Numbers, NumbersNext DEF Seen
<1>8. ASSUME NEW d \in made', Current(info[d].base)'
      PROVE  saves'[info'[d].base.id].revision <= info'[d].revision
  <2>1. d \in made /\ d \in Drafts /\ info'[d] = info[d] /\ info[d].base \in Targets
    BY <1>1, <1>7, <1>8, Numbers DEF TypeOK
  <2>2. info[d].base.id # Source /\ info[d].base.id # None
    BY <1>2, <1>8, <2>1, Names DEF Current
  <2>3. saves'[info[d].base.id] = saves[info[d].base.id]
    BY <1>2, <2>1, <2>2, Numbers
  <2> QED BY <1>8, <2>1, <2>3 DEF Current, RowsInv
<1>9. /\ made' = 1 .. Cardinality(made') /\ \A d \in Drafts : applied'[d] <= 1
      /\ \A d \in Drafts : info'[d].revision <= revision'
  BY <1>1 DEF RowsInv
<1> QED BY <1>4, <1>5, <1>6, <1>7, <1>8, <1>9 DEF RowsInv, Applied

LEMMA NewDraftSafe ==
  ASSUME TypeOK, TypeOK', RowsInv, NEW d \in Drafts, NEW base \in Targets, NewDraft(d, base)
  PROVE  RowsInv'
<1>0. made \subseteq Drafts /\ info \in [Drafts -> [base : Targets, revision : 0 .. MaxRevision]]
  BY DEF TypeOK
<1>1. /\ d \notin made /\ made' = made \cup {d} /\ UNCHANGED <<saves, applied>>
      /\ \A e \in Drafts : info'[e] = IF e = d THEN [base |-> base, revision |-> revision'] ELSE info[e]
      /\ revision <= revision'
  BY <1>0, NextIsNew DEF NewDraft
<1>2. made' = 1 .. Cardinality(made')
  BY NextIsNew DEF NewDraft
<1>3. ASSUME NEW e \in Drafts, Applied(e)' PROVE e \in made' /\ saves'[TargetOf(e)'].version > info'[e].base.version
  <2>1. Applied(e) /\ e \in made /\ e # d
    BY <1>1, <1>3 DEF Applied, RowsInv
  <2>2. info'[e] = info[e] /\ TargetOf(e)' = TargetOf(e)
    BY <1>1, <2>1 DEF TargetOf
  <2> QED BY <1>1, <2>1, <2>2 DEF RowsInv
<1>4. \A s \in SaveIds : saves'[s].commit # None => saves'[s].version > 0 /\ applied'[saves'[s].commit] > 0
  BY <1>1 DEF RowsInv, Applied
<1>5. \A s \in SaveIds : saves'[s].revision <= revision'
  BY <1>1, Numbers, NumbersNext DEF RowsInv
<1>6. \A e \in Drafts : info'[e].revision <= revision'
  BY <1>1, Numbers, NumbersNext DEF RowsInv
<1>7. ASSUME NEW e \in made' PROVE Seen(info[e].base)'
  <2>1. CASE e = d
    <3>1. info'[e].base = base /\ UNCHANGED saves /\ Seen(base)
      BY <1>1, <2>1 DEF NewDraft
    <3> QED BY <3>1 DEF Seen
  <2>2. CASE e # d
    <3>1. e \in made /\ info'[e] = info[e] /\ UNCHANGED saves
      BY <1>0, <1>1, <1>7, <2>2
    <3>2. Seen(info[e].base)
      BY <3>1 DEF RowsInv
    <3> QED BY <3>1, <3>2 DEF Seen
  <2> QED BY <2>1, <2>2
<1>8. ASSUME NEW e \in made', Current(info[e].base)'
      PROVE  saves'[info'[e].base.id].revision <= info'[e].revision
  <2>1. CASE e = d
    <3>1. base.id \in SaveIds /\ info'[e].base = base /\ info'[e].revision = revision'
      BY <1>1, <1>8, <2>1, Numbers DEF Current
    <3> QED BY <1>5, <3>1
  <2>2. CASE e # d
    <3>1. e \in made /\ info'[e] = info[e] /\ UNCHANGED saves
      BY <1>0, <1>1, <1>8, <2>2
    <3>2. Current(info[e].base)
      BY <1>8, <3>1 DEF Current
    <3> QED BY <3>1, <3>2 DEF RowsInv
  <2> QED BY <2>1, <2>2
<1>9. \A e \in Drafts : applied'[e] <= 1
  BY <1>1 DEF RowsInv
<1> QED BY <1>2, <1>3, <1>4, <1>5, <1>6, <1>7, <1>8, <1>9 DEF RowsInv, Applied

(* A draft is written where it was not yet, and what it replaces is older.      *)
LEMMA NewRowIsFirst ==
  ASSUME TypeOK, RowsInv, NEW d \in made, NewRow(d)
  PROVE  /\ d \in Drafts /\ TargetOf(d) \in SaveIds /\ applied[d] = 0
         /\ saves[TargetOf(d)].commit # None => saves[TargetOf(d)].revision <= info[d].revision
<1>1. d \in Drafts /\ TargetOf(d) \in SaveIds
  BY Numbers DEF TypeOK
<1>2. saves[TargetOf(d)].version = info[d].base.version
  BY DEF NewRow
<1>3. ~Applied(d)
  BY <1>1, <1>2, Numbers DEF RowsInv
<1>4. applied[d] = 0
  BY <1>1, <1>3, Numbers DEF Applied
<1>5. ASSUME saves[TargetOf(d)].commit # None PROVE saves[TargetOf(d)].revision <= info[d].revision
  <2>1. saves[TargetOf(d)].version > 0
    BY <1>1, <1>5 DEF RowsInv
  <2>2. info[d].base.id # None
    BY <1>1, <1>2, <2>1, Numbers DEF RowsInv, Seen
  <2> QED BY <1>2, <1>5, <2>2 DEF RowsInv, Current, TargetOf
<1> QED BY <1>1, <1>4, <1>5

LEMMA NewRowSafe ==
  ASSUME TypeOK, TypeOK', RowsInv, NEW d \in made, NewRow(d)
  PROVE  RowsInv'
<1> DEFINE target == TargetOf(d)
           row == [version |-> saves[target].version + 1, commit |-> d, revision |-> info[d].revision]
<1>1. d \in Drafts /\ target \in SaveIds /\ applied[d] = 0
  BY NewRowIsFirst
<1>2. UNCHANGED <<made, info, revision>> /\ saves' = [saves EXCEPT ![target] = row]
      /\ applied' = [applied EXCEPT ![d] = @ + 1]
  BY DEF NewRow, Write
<1>3. \A s \in SaveIds : saves'[s] = IF s = target THEN row ELSE saves[s]
  BY <1>1, <1>2 DEF TypeOK
<1>4. \A e \in Drafts : applied'[e] = IF e = d THEN 1 ELSE applied[e]
  BY <1>1, <1>2, Numbers DEF TypeOK
<1>5. \A s \in SaveIds : saves[s].version <= saves'[s].version
  BY <1>1, <1>3, Numbers
<1>6. \A e \in Drafts : applied'[e] <= 1
  BY <1>4 DEF RowsInv
<1>7. ASSUME NEW e \in Drafts, Applied(e)' PROVE e \in made' /\ saves'[TargetOf(e)'].version > info'[e].base.version
  <2>1. TargetOf(e)' = TargetOf(e) /\ TargetOf(e) \in SaveIds
    BY <1>2, Numbers DEF TargetOf
  <2>2. CASE e = d
    BY <1>1, <1>2, <1>3, <2>1, <2>2, Numbers DEF NewRow
  <2>3. CASE e # d
    <3>1. Applied(e)
      BY <1>4, <1>7, <2>3 DEF Applied
    <3>2. e \in made /\ saves[TargetOf(e)].version > info[e].base.version
      BY <3>1 DEF RowsInv
    <3> QED BY <1>2, <1>5, <2>1, <3>2, Numbers, NumbersNext
  <2> QED BY <2>2, <2>3
<1>8. ASSUME NEW s \in SaveIds, saves'[s].commit # None PROVE saves'[s].version > 0 /\ applied'[saves'[s].commit] > 0
  <2>1. CASE s = target
    BY <1>1, <1>3, <1>4, <2>1, Numbers DEF Applied
  <2>2. CASE s # target
    <3>1. saves'[s] = saves[s] /\ saves[s].version > 0 /\ Applied(saves[s].commit)
      BY <1>3, <1>8, <2>2 DEF RowsInv
    <3>2. saves[s].commit \in Drafts
      BY <1>8, <3>1 DEF TypeOK
    <3> QED BY <1>4, <3>1, <3>2 DEF Applied
  <2> QED BY <2>1, <2>2
<1>9. \A s \in SaveIds : saves'[s].revision <= revision'
  BY <1>1, <1>2, <1>3 DEF RowsInv
<1>10. ASSUME NEW e \in made' PROVE Seen(info[e].base)'
  <2>1. e \in made /\ e \in Drafts /\ info'[e] = info[e] /\ Seen(info[e].base)
    BY <1>2, <1>10 DEF RowsInv, TypeOK
  <2> QED BY <1>5, <2>1, Numbers, NumbersNext DEF Seen
<1>11. ASSUME NEW e \in made', Current(info[e].base)'
       PROVE  saves'[info'[e].base.id].revision <= info'[e].revision
  <2>1. e \in made /\ e \in Drafts /\ info'[e] = info[e] /\ Seen(info[e].base) /\ info[e].base \in Targets
    BY <1>2, <1>11, Numbers DEF RowsInv, TypeOK
  <2>2. info[e].base.id \in SaveIds /\ info[e].base.id # None
    BY <1>11, <2>1, Numbers DEF Current
  <2>3. info[e].base.id # target
    <3>1. ASSUME info[e].base.id = target PROVE FALSE
      <4>1. saves'[target].version = info[e].base.version
        BY <1>11, <2>1, <3>1 DEF Current
      <4>2. saves'[target].version = saves[target].version + 1
        BY <1>1, <1>3
      <4>3. info[e].base.version <= saves[target].version
        BY <2>1, <2>2, <3>1 DEF Seen
      <4> QED BY <1>1, <4>1, <4>2, <4>3, Numbers
    <3> QED BY <3>1
  <2>4. saves'[info[e].base.id] = saves[info[e].base.id]
    BY <1>3, <2>2, <2>3
  <2> QED BY <1>11, <2>1, <2>4 DEF Current, RowsInv
<1>12. made' = 1 .. Cardinality(made') /\ \A e \in Drafts : info'[e].revision <= revision'
  BY <1>2 DEF RowsInv
<1> QED BY <1>6, <1>7, <1>8, <1>9, <1>10, <1>11, <1>12 DEF RowsInv, Applied

LEMMA RowsSafe ==
  ASSUME TypeOK, TypeOK', RowsInv, RowsMove
  PROVE  RowsInv'
BY UntouchedSafe, OtherRowSafe, NewDraftSafe, NewRowSafe DEF RowsMove

LEMMA WriteIsNew ==
  ASSUME TypeOK, RowsInv, NEW d \in made, NEW live \in BOOLEAN, Answer(d, live) = "write", Write(d),
         UNCHANGED <<made, info, revision>>
  PROVE  NewRow(d)
<1>1. d \in Drafts /\ TargetOf(d) \in SaveIds /\ Seen(info[d].base)
  BY Numbers DEF TypeOK, RowsInv
<1>2. CASE saves[TargetOf(d)].version = 0
  <2>1. Creates(d)
    BY <1>2 DEF Answer
  <2> QED BY <1>1, <1>2, <2>1 DEF Creates, Seen, NewRow
<1>3. CASE saves[TargetOf(d)].version # 0
  <2>1. saves[TargetOf(d)].version > 0
    BY <1>1, <1>3, Numbers
  <2>2. ~(Creates(d) \/ saves[TargetOf(d)].version # info[d].base.version)
    BY <1>3, <2>1 DEF Answer
  <2> QED BY <2>2 DEF NewRow
<1> QED BY <1>2, <1>3

LEMMA DraftIsNew ==
  ASSUME TypeOK, RowsInv, Seen(selected), NEW u, NEW target \in Targets, Seen(target), MakeDraft(u, target),
         UNCHANGED <<saves, applied>>
  PROVE  RowsMove
<1> DEFINE d == Cardinality(made) + 1
           base == IF native THEN selected ELSE target
<1>1. d \in Drafts /\ base \in Targets /\ Seen(base)
  BY DEF MakeDraft, TypeOK
<1>2. revision <= revision'
  BY Numbers DEF MakeDraft
<1>3. NewDraft(d, base)
  BY <1>1, <1>2 DEF MakeDraft, NewDraft
<1> QED BY <1>1, <1>3 DEF RowsMove

LEMMA NextMovesRows ==
  ASSUME TypeOK, RowsInv, RefsInv, PlacesInv, Next
  PROVE  RowsMove
<1> USE DEF pageVars, draftVars, storeVars, upVars, serverVars
<1>0. revision <= revision
  BY Numbers
<1>1. ASSUME NEW u \in Uploaders, Upload(u) PROVE RowsMove
  <2>1. CASE Answered(u)
    <3>1. item[u] \in made
      BY <1>1, <2>1 DEF Answered, PlacesInv, PlaceInv, Uploading
    <3>2. CASE Write(item[u]) /\ Answer(item[u], pc[u] = "rewait" \/ context = "live") = "write"
      <4>1. NewRow(item[u])
        BY <2>1, <3>1, <3>2, WriteIsNew DEF Answered
      <4> QED BY <3>1, <4>1 DEF RowsMove
    <3>3. CASE UNCHANGED <<saves, applied>>
      BY <1>0, <2>1, <3>3 DEF Answered, RowsMove, Untouched
    <3> QED BY <2>1, <3>2, <3>3 DEF Answered
  <2>2. CASE ~Answered(u)
    BY <1>0, <1>1, <2>2 DEF Upload, Put, PutFails, Unreachable, Removed, RemoveFails, RowsMove,
         Untouched
  <2> QED BY <2>1, <2>2
<1>2. ASSUME Work PROVE RowsMove
  <2>1. CASE Checkpointed
    <3>1. CASE SameDraft
      BY <1>0, <2>1, <3>1 DEF Checkpointed, RowsMove, Untouched
    <3>2. CASE ~SameDraft
      BY <2>1, <3>2, DraftIsNew DEF Checkpointed, RefsInv, TypeOK
    <3> QED BY <3>1, <3>2
  <2>2. CASE CheckpointFails \/ Acknowledged \/ AcknowledgeFails
    BY <1>0, <2>2 DEF CheckpointFails, Acknowledged, AcknowledgeFails, RowsMove, Untouched
  <2> QED BY <1>2, <2>1, <2>2 DEF Work
<1>3. ASSUME Final PROVE RowsMove
  <2>1. CASE MakeFinal
    <3>1. CASE SameDraft
      BY <1>0, <2>1, <3>1 DEF MakeFinal, RowsMove, Untouched
    <3>2. CASE ~SameDraft
      <4>1. NoTarget \in Targets /\ Seen(NoTarget)
        BY Names DEF NoTarget, Seen
      <4> QED BY <2>1, <3>2, <4>1, DraftIsNew DEF MakeFinal, RefsInv
    <3> QED BY <3>1, <3>2
  <2>2. CASE Dispose \/ DisposeFails \/ FinalFails
    BY <1>0, <2>2 DEF Dispose, DisposeFails, FinalFails, RowsMove, Untouched
  <2> QED BY <1>3, <2>1, <2>2 DEF Final
<1>4. ASSUME Dialog PROVE RowsMove
  BY <1>0, <1>4 DEF Dialog, RequestExit, CancelExit, SaveInDialog, ConfirmExit, CheckExit,
       CheckFails, Leave, RowsMove, Untouched
<1>5. ASSUME User PROVE RowsMove
  BY <1>0, <1>5 DEF User, SaveClicked, RetryClicked, Restart, Unmount, Reload, RecoverDraft,
       DiscardDraft, RowsMove, Untouched
<1>6. ASSUME World PROVE RowsMove
  <2>1. ASSUME NEW d \in Drafts, StrayArrives(d) PROVE RowsMove
    <3>1. d \in made
      BY <2>1 DEF StrayArrives, RefsInv
    <3>2. CASE Write(d) /\ Answer(d, context = "live") = "write"
      <4>1. NewRow(d)
        BY <2>1, <3>1, <3>2, WriteIsNew DEF StrayArrives
      <4> QED BY <3>1, <4>1 DEF RowsMove
    <3>3. CASE UNCHANGED <<saves, applied>>
      BY <1>0, <2>1, <3>3 DEF StrayArrives, RowsMove, Untouched
    <3> QED BY <2>1, <3>2, <3>3 DEF StrayArrives
  <2>2. CASE GameAdvances
    BY <2>2, Numbers DEF GameAdvances, RowsMove, Untouched
  <2>3. CASE GameExits
    BY <2>3, Numbers DEF GameExits, RowsMove, Untouched
  <2>4. CASE RunExpires \/ Drift
    BY <1>0, <2>4 DEF RunExpires, Drift, RowsMove, Untouched
  <2>5. CASE WrittenElsewhere
    BY <2>5 DEF WrittenElsewhere, RowsMove, OtherRow
  <2> QED BY <1>6, <2>1, <2>2, <2>3, <2>4, <2>5 DEF World
<1> QED BY <1>1, <1>2, <1>3, <1>4, <1>5, <1>6 DEF Next

LEMMA RowsNeverOlder ==
  ASSUME TypeOK, RowsInv, RowsMove
  PROVE  NoneOlder
<1>1. CASE Untouched \/ \E d \in Drafts, base \in Targets : NewDraft(d, base)
  BY <1>1, Numbers DEF Untouched, NewDraft, NoneOlder
<1>2. CASE OtherRow
  BY <1>2, Numbers DEF OtherRow, NoneOlder, TypeOK
<1>3. ASSUME NEW d \in made, NewRow(d) PROVE NoneOlder
  <2>1. \A s \in SaveIds : saves'[s] = IF s = TargetOf(d)
                               THEN [version |-> saves[s].version + 1, commit |-> d, revision |-> info[d].revision]
                               ELSE saves[s]
    BY <1>3, NewRowIsFirst DEF NewRow, Write, TypeOK
  <2>2. ASSUME NEW s \in SaveIds, saves[s].commit # None PROVE saves'[s].revision >= saves[s].revision
    <3>1. CASE s = TargetOf(d)
      <4>1. saves'[s] = [version |-> saves[s].version + 1, commit |-> d, revision |-> info[d].revision]
        BY <2>1, <3>1
      <4>2. d \in Drafts /\ saves[s].revision <= info[d].revision
        BY <1>3, <2>2, <3>1, NewRowIsFirst
      <4>3. saves[s].revision \in Nat /\ info[d].revision \in Nat
        BY <4>2, Numbers
      <4>4. saves'[s].revision = info[d].revision
        BY <4>1
      <4> QED BY <4>2, <4>3, <4>4
    <3>2. CASE s # TargetOf(d)
      <4>1. saves'[s].revision = saves[s].revision
        BY <2>1, <3>2
      <4>2. saves[s].revision \in Nat
        BY Numbers
      <4> QED BY <4>1, <4>2
    <3> QED BY <3>1, <3>2
  <2> QED BY <2>2 DEF NoneOlder
<1> QED BY <1>1, <1>2, <1>3 DEF RowsMove

(* What WorkEnds, Ends, Capture and StartRetry leave alone.                    *)
Same(v) == pc'[v] \in Uploading => pc'[v] = pc[v] /\ item'[v] = item[v]

LEMMA EndLeaves ==
  ASSUME TypeOK, NEW u \in Uploaders, NEW ok \in BOOLEAN, NEW free \in BOOLEAN, Ends(u, ok, free)
  PROVE  /\ \A v \in Uploaders : Same(v)
         /\ pc'[u] \notin Uploading
         /\ op'.target \in {op.target, NoTarget}
<1>1. CASE u = "work"
  <2>1. WorkEnds(ok, free, Available)
    BY <1>1 DEF Ends
  <2>2. CASE GoesOn(ok, free, Available)
    BY <1>1, <2>1, <2>2 DEF WorkEnds, Same, TypeOK, Uploading, Uploaders
  <2>3. CASE ~GoesOn(ok, free, Available)
    BY <1>1, <2>1, <2>3 DEF WorkEnds, Same, TypeOK, Uploading, Uploaders
  <2> QED BY <2>2, <2>3
<1>2. CASE u # "work"
  BY <1>2 DEF Ends, Same, TypeOK, Uploading, Uploaders
<1> QED BY <1>1, <1>2

LEMMA WorkLeaves ==
  ASSUME TypeOK, NEW ok \in BOOLEAN, NEW free \in BOOLEAN, NEW idle \in BOOLEAN, WorkEnds(ok, free, idle)
  PROVE  /\ \A v \in Uploaders : Same(v)
         /\ op'.target \in {op.target, NoTarget}
<1>1. CASE GoesOn(ok, free, idle)
  BY <1>1 DEF WorkEnds, Same, TypeOK, Uploading, Uploaders
<1>2. CASE ~GoesOn(ok, free, idle)
  BY <1>2 DEF WorkEnds, Same, TypeOK, Uploading, Uploaders
<1> QED BY <1>1, <1>2

LEMMA CaptureLeaves ==
  ASSUME TypeOK, NEW target, Capture(target) \/ StartCapture(target), UNCHANGED item
  PROVE  /\ \A v \in Uploaders : Same(v)
         /\ op'.target \in {op.target, target}
BY DEF Capture, StartCapture, Same, TypeOK, Uploading, Uploaders

LEMMA RetryLeaves ==
  ASSUME TypeOK, StartRetry
  PROVE  /\ \A v \in Uploaders : v # "work" => Same(v)
         /\ pc'["work"] = "put" /\ item'["work"] = pending
         /\ op'.target = NoTarget /\ op'.kind = "retry" /\ volatile' = volatile \cup {pending}
BY DEF StartRetry, Same, TypeOK, Uploading, Uploaders

(* References and places, from what a step did to them.                        *)
SeenThen(t) == IF t.id = None THEN t.version = 0 ELSE t.version <= saves'[t.id].version

LEMMA SeenStays ==
  ASSUME TypeOK, TypeOK', Grows, NEW t \in Targets, Seen(t)
  PROVE  SeenThen(t)
BY Numbers, NumbersNext DEF Grows, Seen, SeenThen

LEMMA RefsKept ==
  ASSUME TypeOK, TypeOK', RefsInv, Grows,
         pending' \in made' \cup {None}, store' \subseteq made', volatile' \subseteq made', stray' \subseteq made',
         selected' = selected \/ SeenThen(selected'),
         op'.target \in {op.target, NoTarget, selected}
  PROVE  RefsInv'
<1>1. SeenThen(selected) /\ SeenThen(op.target) /\ SeenThen(NoTarget)
  <2>1. selected \in Targets /\ op.target \in Targets /\ NoTarget \in Targets /\ Seen(NoTarget)
    BY Names DEF TypeOK, Seen, NoTarget
  <2> QED BY <2>1, SeenStays DEF RefsInv
<1>2. SeenThen(selected') /\ SeenThen(op'.target)
  BY <1>1
<1> QED BY <1>2 DEF RefsInv, Seen, SeenThen

LEMMA PlacesKept ==
  ASSUME TypeOK, TypeOK', PlacesInv, Grows, NEW u \in Uploaders, \A v \in Uploaders : v # u => Same(v),
         PlaceInv(u)' \/ Same(u)
  PROVE  PlacesInv'
<1>1. ASSUME NEW v \in Uploaders, Same(v) PROVE PlaceInv(v)'
  <2>1. {"remove", "ack"} \subseteq Uploading
    BY DEF Uploading
  <2>2. ASSUME pc'[v] \in Uploading PROVE item'[v] \in made' /\ item'[v] = item[v] /\ item[v] \in Drafts
    BY <1>1, <2>2 DEF Same, PlacesInv, PlaceInv, Grows, TypeOK
  <2>3. ASSUME pc'[v] \in {"remove", "ack"} PROVE applied'[item'[v]] > 0
    <3>1. applied[item[v]] > 0 /\ item'[v] = item[v] /\ item[v] \in Drafts
      BY <1>1, <2>1, <2>2, <2>3 DEF Same, PlacesInv, PlaceInv, Applied
    <3> QED BY <3>1 DEF Grows, TypeOK
  <2> QED BY <2>2, <2>3 DEF PlaceInv, Applied
<1> QED BY <1>1 DEF PlacesInv

LEMMA DraftsNotLost ==
  ASSUME TypeOK, TypeOK', NothingLost, Grows,
         \A d \in made : d \in store \cup volatile \cup discarded \cup lost
                        => d \in store' \cup volatile' \cup discarded' \cup lost' \/ applied'[d] > 0,
         \A d \in made' \ made : d \in store' \cup volatile'
  PROVE  NothingLost'
<1>1. ASSUME NEW d \in made
      PROVE  d \in store' \cup volatile' \cup discarded' \cup lost' \/ applied'[d] > 0
  <2>1. d \in Drafts /\ applied[d] \in Nat /\ applied'[d] \in Nat
    BY DEF TypeOK
  <2> QED BY <2>1 DEF NothingLost, Grows
<1> QED BY <1>1 DEF NothingLost

LEMMA UploadKeepsRefs ==
  ASSUME TypeOK, TypeOK', RowsInv, RefsInv, PlacesInv, NothingLost, Grows, NEW u \in Uploaders, Upload(u)
  PROVE  RefsInv' /\ PlacesInv' /\ NothingLost'
<1> USE DEF storeVars, serverVars
<1>0. /\ pc[u] \in Uploading => item[u] \in made
      /\ pc[u] \in {"remove", "ack"} => applied[item[u]] > 0 /\ applied'[item[u]] > 0
  <2>1. pc[u] \in Uploading => item[u] \in made
    BY DEF PlacesInv, PlaceInv
  <2>2. ASSUME pc[u] \in {"remove", "ack"} PROVE applied[item[u]] > 0 /\ applied'[item[u]] > 0
    BY <2>1, <2>2 DEF PlacesInv, PlaceInv, Applied, Grows, TypeOK, Uploading
  <2> QED BY <2>1, <2>2
<1>1. ASSUME Put(u) PROVE RefsInv' /\ PlacesInv' /\ NothingLost'
  <2>1. item[u] \in made /\ made' = made /\ UNCHANGED <<pending, selected, stray, discarded, lost>>
        /\ store' = store \cup {item[u]} /\ volatile' = volatile \ {item[u]}
    BY <1>0, <1>1 DEF Put, Uploading
  <2>2. op'.target \in {op.target, NoTarget} /\ (\A v \in Uploaders : v # u => Same(v)) /\ (PlaceInv(u)' \/ Same(u))
    <3>1. CASE pc[u] = "put"
      BY <1>1, <2>1, <3>1 DEF Put, Same, PlaceInv, TypeOK
    <3>2. CASE pc[u] # "put"
      <4>1. Ends(u, FALSE, FALSE)
        BY <1>1, <3>2 DEF Put
      <4> QED BY <4>1, EndLeaves
    <3> QED BY <3>1, <3>2
  <2>3. RefsInv'
    BY <2>1, <2>2, RefsKept DEF RefsInv
  <2>4. PlacesInv'
    BY <2>2, PlacesKept
  <2>5. NothingLost'
    BY <2>1, DraftsNotLost
  <2> QED BY <2>3, <2>4, <2>5
<1>2. ASSUME PutFails(u) \/ RemoveFails(u) PROVE RefsInv' /\ PlacesInv' /\ NothingLost'
  <2>1. Ends(u, FALSE, FALSE) /\ UNCHANGED <<made, pending, selected, stray, discarded, lost, store, volatile>>
    BY <1>2 DEF PutFails, RemoveFails
  <2>2. RefsInv'
    BY <2>1, EndLeaves, RefsKept DEF RefsInv
  <2>3. PlacesInv'
    BY <2>1, EndLeaves, PlacesKept
  <2>4. NothingLost'
    BY <2>1, DraftsNotLost
  <2> QED BY <2>2, <2>3, <2>4
<1>3. ASSUME Answered(u) PROVE RefsInv' /\ PlacesInv' /\ NothingLost'
  <2> DEFINE d == item[u]
             answer == Answer(d, pc[u] = "rewait" \/ context = "live")
  <2>1. d \in made /\ UNCHANGED <<made, pending, selected, stray, discarded, lost, store>>
        /\ volatile \subseteq volatile' /\ volatile' \subseteq volatile \cup {d}
    <3>1. d \in made
      BY <1>0, <1>3 DEF Answered, Uploading
    <3>2. volatile' \in {volatile, volatile \cup {d}}
      BY <1>3 DEF Answered
    <3> QED BY <1>3, <3>1, <3>2 DEF Answered
  <2>2. op'.target \in {op.target, NoTarget} /\ (\A v \in Uploaders : v # u => Same(v)) /\ (PlaceInv(u)' \/ Same(u))
    <3>1. CASE answer \in {"write", "saved"}
      <4>1. pc' = [pc EXCEPT ![u] = "remove"] /\ UNCHANGED <<item, op>>
        BY <1>3, <3>1 DEF Answered
      <4>2. applied'[d] > 0
        <5>1. d \in Drafts /\ TargetOf(d) \in SaveIds
          BY <2>1, Numbers DEF TypeOK
        <5>2. CASE answer = "write"
          BY <1>3, <5>1, <5>2, Numbers DEF Answered, Write, TypeOK
        <5>3. CASE answer = "saved"
          <6>1. saves[TargetOf(d)].commit = d
            BY <5>3 DEF Answer
          <6>2. applied[d] > 0
            BY <5>1, <6>1, Names DEF RowsInv, Applied
          <6> QED BY <5>1, <6>2 DEF Grows, TypeOK
        <5> QED BY <3>1, <5>2, <5>3
      <4> QED BY <2>1, <4>1, <4>2 DEF Same, PlaceInv, Applied, TypeOK
    <3>2. CASE answer = "expired"
      <4>1. \E place \in {"rewait", "keep"} : pc' = [pc EXCEPT ![u] = place]
        BY <1>3, <3>2 DEF Answered
      <4>2. UNCHANGED <<item, op>>
        BY <1>3, <3>2 DEF Answered
      <4> QED BY <2>1, <4>1, <4>2 DEF Same, PlaceInv, TypeOK
    <3>3. CASE answer \notin {"write", "saved", "expired"}
      <4>1. Ends(u, FALSE, FALSE)
        BY <1>3, <3>3 DEF Answered
      <4> QED BY <4>1, EndLeaves
    <3> QED BY <3>1, <3>2, <3>3
  <2>3. RefsInv'
    BY <2>1, <2>2, RefsKept DEF RefsInv
  <2>4. PlacesInv'
    BY <2>2, PlacesKept
  <2>5. NothingLost'
    BY <2>1, DraftsNotLost
  <2> QED BY <2>3, <2>4, <2>5
<1>4. ASSUME Unreachable(u) PROVE RefsInv' /\ PlacesInv' /\ NothingLost'
  <2>1. item[u] \in made
    BY <1>0, <1>4 DEF Unreachable, Uploading
  <2>2. Ends(u, FALSE, FALSE) /\ UNCHANGED <<made, pending, selected, discarded, lost, store, volatile>>
        /\ stray' = stray \cup {item[u]}
    BY <1>4 DEF Unreachable
  <2>3. RefsInv'
    BY <2>1, <2>2, EndLeaves, RefsKept DEF RefsInv
  <2>4. PlacesInv'
    BY <2>2, EndLeaves, PlacesKept
  <2>5. NothingLost'
    BY <2>2, DraftsNotLost
  <2> QED BY <2>3, <2>4, <2>5
<1>5. ASSUME Removed(u) PROVE RefsInv' /\ PlacesInv' /\ NothingLost'
  <2>1. /\ item[u] \in made /\ item[u] \in Drafts /\ applied'[item[u]] > 0 /\ applied[item[u]] > 0
        /\ UNCHANGED <<made, stray, discarded, lost, saves, applied>>
        /\ store' = store \ {item[u]} /\ volatile' = volatile \ {item[u]}
    BY <1>0, <1>5 DEF Removed, Uploading, TypeOK
  <2>2. TargetOf(item[u]) \in SaveIds
    BY <2>1, Numbers
  <2>3. SeenThen([id |-> TargetOf(item[u]), version |-> saves[TargetOf(item[u])].version])
    BY <2>1, <2>2, Names, Numbers DEF SeenThen
  <2>4. pending' \in {pending, None} /\ (selected' = selected \/ SeenThen(selected'))
    BY <1>5, <2>3 DEF Removed, Persisted
  <2>5. op'.target \in {op.target, NoTarget} /\ (\A v \in Uploaders : v # u => Same(v)) /\ (PlaceInv(u)' \/ Same(u))
    <3>1. CASE u = "work" /\ native /\ game = "running"
      <4>1. pc' = [pc EXCEPT ![u] = "ack"] /\ UNCHANGED <<item, op>>
        BY <1>5, <3>1 DEF Removed
      <4> QED BY <2>1, <4>1 DEF Same, PlaceInv, Applied, TypeOK
    <3>2. CASE ~(u = "work" /\ native /\ game = "running")
      <4>1. Ends(u, TRUE, TRUE)
        BY <1>5, <3>2 DEF Removed, Persisted
      <4> QED BY <4>1, EndLeaves
    <3> QED BY <3>1, <3>2
  <2>6. RefsInv'
    BY <2>1, <2>4, <2>5, RefsKept DEF RefsInv
  <2>7. PlacesInv'
    BY <2>5, PlacesKept
  <2>8. NothingLost'
    BY <2>1, DraftsNotLost
  <2> QED BY <2>6, <2>7, <2>8
<1> QED BY <1>1, <1>2, <1>3, <1>4, <1>5 DEF Upload

LEMMA WorkKeepsRefs ==
  ASSUME TypeOK, TypeOK', RowsInv, RefsInv, PlacesInv, NothingLost, Grows, Work
  PROVE  RefsInv' /\ PlacesInv' /\ NothingLost'
<1> USE DEF storeVars, serverVars, pageVars, draftVars
<1>0. "work" \in Uploaders /\ Available \in BOOLEAN
  BY DEF Uploaders, Available, TypeOK
<1>1. ASSUME Checkpointed, ~SameDraft PROVE RefsInv' /\ PlacesInv' /\ NothingLost'
  <2> DEFINE d == Cardinality(made) + 1
  <2>1. /\ d \in Drafts /\ made' = made \cup {d} /\ pending' = d /\ volatile' = volatile \cup {d}
        /\ item' = [item EXCEPT !["work"] = d] /\ pc' = [pc EXCEPT !["work"] = "put"]
        /\ UNCHANGED <<store, selected, stray, discarded, lost, op>>
    BY <1>1 DEF Checkpointed, MakeDraft
  <2> HIDE DEF d
  <2>2. RefsInv'
    BY <2>1, RefsKept DEF RefsInv
  <2>3. (\A v \in Uploaders : v # "work" => Same(v)) /\ PlaceInv("work")'
    BY <1>0, <2>1 DEF Same, PlaceInv, TypeOK
  <2>4. PlacesInv'
    BY <1>0, <2>3, PlacesKept
  <2>5. NothingLost'
    BY <2>1, DraftsNotLost
  <2> QED BY <2>2, <2>4, <2>5
<1>2. ASSUME CheckpointFails \/ (Checkpointed /\ SameDraft) PROVE RefsInv' /\ PlacesInv' /\ NothingLost'
  <2>1. WorkEnds(FALSE, FALSE, Available)
        /\ UNCHANGED <<made, pending, selected, stray, discarded, lost, store, volatile>>
    BY <1>2 DEF CheckpointFails, Checkpointed
  <2>2. (\A v \in Uploaders : Same(v)) /\ op'.target \in {op.target, NoTarget}
    BY <1>0, <2>1, WorkLeaves
  <2>3. RefsInv'
    BY <2>1, <2>2, RefsKept DEF RefsInv
  <2>4. PlacesInv'
    BY <1>0, <2>2, PlacesKept
  <2>5. NothingLost'
    BY <2>1, DraftsNotLost
  <2> QED BY <2>3, <2>4, <2>5
<1>3. ASSUME Acknowledged PROVE RefsInv' /\ PlacesInv' /\ NothingLost'
  <2> DEFINE idle == game = "running" /\ (native => revision > acked')
  <2>1. WorkEnds(TRUE, TRUE, idle) /\ pending' = None
        /\ UNCHANGED <<made, selected, stray, discarded, lost, store, volatile>>
    BY <1>3 DEF Acknowledged
  <2>2. idle \in BOOLEAN
    OBVIOUS
  <2>3. (\A v \in Uploaders : Same(v)) /\ op'.target \in {op.target, NoTarget}
    BY <2>1, <2>2, WorkLeaves
  <2>4. RefsInv'
    BY <2>1, <2>3, RefsKept DEF RefsInv
  <2>5. PlacesInv'
    BY <1>0, <2>3, PlacesKept
  <2>6. NothingLost'
    BY <2>1, DraftsNotLost
  <2> QED BY <2>4, <2>5, <2>6
<1>4. ASSUME AcknowledgeFails PROVE RefsInv' /\ PlacesInv' /\ NothingLost'
  <2>1. /\ item["work"] \in made /\ pc' = [pc EXCEPT !["work"] = "reput"]
        /\ volatile' = volatile \cup {item["work"]}
        /\ UNCHANGED <<made, pending, selected, stray, discarded, lost, store, item, op>>
    BY <1>0, <1>4 DEF AcknowledgeFails, PlacesInv, PlaceInv, Uploading
  <2>2. RefsInv'
    BY <2>1, RefsKept DEF RefsInv
  <2>3. (\A v \in Uploaders : v # "work" => Same(v)) /\ PlaceInv("work")'
    BY <1>0, <2>1 DEF Same, PlaceInv, TypeOK
  <2>4. PlacesInv'
    BY <1>0, <2>3, PlacesKept
  <2>5. NothingLost'
    BY <2>1, DraftsNotLost
  <2> QED BY <2>2, <2>4, <2>5
<1> QED BY <1>1, <1>2, <1>3, <1>4 DEF Work

LEMMA FinalKeepsRefs ==
  ASSUME TypeOK, TypeOK', RowsInv, RefsInv, PlacesInv, NothingLost, Grows, Final
  PROVE  RefsInv' /\ PlacesInv' /\ NothingLost'
<1> USE DEF storeVars, serverVars, pageVars, draftVars
<1>0. "final" \in Uploaders
  BY DEF Uploaders
<1>1. ASSUME MakeFinal, ~SameDraft PROVE RefsInv' /\ PlacesInv' /\ NothingLost'
  <2> DEFINE d == Cardinality(made) + 1
  <2>1. /\ d \in Drafts /\ made' = made \cup {d} /\ pending' = d /\ volatile' = volatile \cup {d}
        /\ item' = [item EXCEPT !["final"] = d] /\ pc' = [pc EXCEPT !["final"] = "put"]
        /\ UNCHANGED <<store, selected, stray, discarded, lost, op>>
    BY <1>1 DEF MakeFinal, MakeDraft
  <2> HIDE DEF d
  <2>2. RefsInv'
    BY <2>1, RefsKept DEF RefsInv
  <2>3. (\A v \in Uploaders : v # "final" => Same(v)) /\ PlaceInv("final")'
    BY <1>0, <2>1 DEF Same, PlaceInv, TypeOK
  <2>4. PlacesInv'
    BY <1>0, <2>3, PlacesKept
  <2>5. NothingLost'
    BY <2>1, DraftsNotLost
  <2> QED BY <2>2, <2>4, <2>5
<1>2. ASSUME Dispose \/ DisposeFails \/ FinalFails \/ (MakeFinal /\ SameDraft)
      PROVE  RefsInv' /\ PlacesInv' /\ NothingLost'
  <2>1. /\ \E place \in {"idle", "await", "make"} : pc' = [pc EXCEPT !["final"] = place]
        /\ UNCHANGED <<made, pending, selected, stray, discarded, lost, store, volatile, item, op>>
    BY <1>2 DEF Dispose, DisposeFails, FinalFails, MakeFinal
  <2>2. RefsInv'
    BY <2>1, RefsKept DEF RefsInv
  <2>3. \A v \in Uploaders : Same(v)
    BY <1>0, <2>1 DEF Same, TypeOK, Uploading
  <2>4. PlacesInv'
    BY <1>0, <2>3, PlacesKept
  <2>5. NothingLost'
    BY <2>1, DraftsNotLost
  <2> QED BY <2>2, <2>4, <2>5
<1> QED BY <1>1, <1>2 DEF Final

(* A step that starts work, or that moves nothing but the page and the server.    *)
LEMMA StartKeepsRefs ==
  ASSUME TypeOK, TypeOK', RefsInv, PlacesInv, NothingLost, Grows,
         UNCHANGED <<made, pending, selected, discarded, lost, store>>, stray' \subseteq stray,
         \/ UNCHANGED <<pc, item, op, volatile>>
         \/ /\ \E target \in {NoTarget, selected} : Capture(target) \/ StartCapture(target)
            /\ UNCHANGED <<item, volatile>>
         \/ StartRetry /\ pending # None
  PROVE  RefsInv' /\ PlacesInv' /\ NothingLost'
<1>0. "work" \in Uploaders
  BY DEF Uploaders
<1>1. CASE UNCHANGED <<pc, item, op, volatile>>
  <2>1. RefsInv'
    BY <1>1, RefsKept DEF RefsInv
  <2>2. \A v \in Uploaders : Same(v)
    BY <1>1 DEF Same
  <2> QED BY <1>0, <1>1, <2>1, <2>2, PlacesKept, DraftsNotLost
<1>2. ASSUME NEW target \in {NoTarget, selected}, Capture(target) \/ StartCapture(target), UNCHANGED <<item, volatile>>
      PROVE  RefsInv' /\ PlacesInv' /\ NothingLost'
  <2>1. (\A v \in Uploaders : Same(v)) /\ op'.target \in {op.target, NoTarget, selected}
    BY <1>2, CaptureLeaves
  <2>2. RefsInv'
    BY <1>2, <2>1, RefsKept DEF RefsInv
  <2> QED BY <1>0, <1>2, <2>1, <2>2, PlacesKept, DraftsNotLost
<1>3. CASE StartRetry /\ pending # None
  <2>1. pending \in made /\ volatile' = volatile \cup {pending} /\ op'.target = NoTarget
    BY <1>3, RetryLeaves DEF RefsInv
  <2>2. RefsInv'
    BY <2>1, RefsKept DEF RefsInv
  <2>3. (\A v \in Uploaders : v # "work" => Same(v)) /\ PlaceInv("work")'
    BY <1>3, <2>1, RetryLeaves DEF PlaceInv
  <2> QED BY <1>0, <2>1, <2>2, <2>3, PlacesKept, DraftsNotLost
<1> QED BY <1>1, <1>2, <1>3

LEMMA DialogKeepsRefs ==
  ASSUME TypeOK, TypeOK', RefsInv, PlacesInv, NothingLost, Grows, Dialog
  PROVE  RefsInv' /\ PlacesInv' /\ NothingLost'
<1> USE DEF storeVars, serverVars, pageVars, draftVars, upVars
<1>1. UNCHANGED <<made, pending, selected, discarded, lost, store, stray>>
  BY DEF Dialog, RequestExit, CancelExit, SaveInDialog, ConfirmExit, CheckExit, CheckFails, Leave
<1>2. \/ UNCHANGED <<pc, item, op, volatile>>
      \/ (Capture(NoTarget) \/ StartCapture(NoTarget)) /\ UNCHANGED <<item, volatile>>
      \/ StartRetry /\ pending # None
  BY DEF Dialog, RequestExit, CancelExit, SaveInDialog, ConfirmExit, CheckExit, CheckFails, Leave
<1> QED BY <1>1, <1>2, StartKeepsRefs

LEMMA UserKeepsRefs ==
  ASSUME TypeOK, TypeOK', RefsInv, PlacesInv, NothingLost, Grows, User
  PROVE  RefsInv' /\ PlacesInv' /\ NothingLost'
<1> USE DEF storeVars, serverVars, pageVars, draftVars, upVars
<1>0. "final" \in Uploaders /\ "recovery" \in Uploaders
  BY DEF Uploaders
<1>1. ASSUME SaveClicked \/ RetryClicked PROVE RefsInv' /\ PlacesInv' /\ NothingLost'
  BY <1>1, StartKeepsRefs DEF SaveClicked, RetryClicked, SaveTargets
<1>2. ASSUME Restart \/ Unmount PROVE RefsInv' /\ PlacesInv' /\ NothingLost'
  <2>1. /\ pc' = pc \/ \E place \in {"idle", "settle", "dispose"} : pc' = [pc EXCEPT !["final"] = place]
        /\ UNCHANGED <<made, pending, selected, stray, discarded, lost, store, volatile, item, op>>
    BY <1>2 DEF Restart, Unmount
  <2>2. RefsInv'
    BY <2>1, RefsKept DEF RefsInv
  <2>3. \A v \in Uploaders : Same(v)
    BY <1>0, <2>1 DEF Same, TypeOK, Uploading
  <2> QED BY <1>0, <2>1, <2>2, <2>3, PlacesKept, DraftsNotLost
<1>3. ASSUME Reload PROVE RefsInv' /\ PlacesInv' /\ NothingLost'
  <2>1. /\ UNCHANGED <<made, selected, store, discarded>> /\ pending' = None /\ volatile' = {}
        /\ lost' = lost \cup (volatile \ store) /\ op'.target = NoTarget
        /\ \A v \in Uploaders : pc'[v] = "idle"
    BY <1>3 DEF Reload
  <2>2. stray' \subseteq made
    BY <1>3 DEF Reload, RefsInv, PlacesInv, PlaceInv, Uploading
  <2>3. RefsInv'
    BY <2>1, <2>2, RefsKept DEF RefsInv
  <2>4. \A v \in Uploaders : Same(v)
    BY <2>1 DEF Same, Uploading
  <2> QED BY <1>0, <2>1, <2>3, <2>4, PlacesKept, DraftsNotLost
<1>4. ASSUME NEW d \in Drafts, RecoverDraft(d) PROVE RefsInv' /\ PlacesInv' /\ NothingLost'
  <2>1. d \in made
    BY <1>4 DEF RecoverDraft, Listed, RefsInv
  <2>2. /\ pc' = [pc EXCEPT !["recovery"] = "wait"] /\ item' = [item EXCEPT !["recovery"] = d]
        /\ UNCHANGED <<made, pending, selected, stray, discarded, lost, store, volatile, op>>
    BY <1>4 DEF RecoverDraft
  <2>3. RefsInv'
    BY <2>2, RefsKept DEF RefsInv
  <2>4. (\A v \in Uploaders : v # "recovery" => Same(v)) /\ PlaceInv("recovery")'
    BY <1>0, <2>1, <2>2 DEF Same, PlaceInv, TypeOK
  <2> QED BY <1>0, <2>2, <2>3, <2>4, PlacesKept, DraftsNotLost
<1>5. ASSUME NEW d \in Drafts, DiscardDraft(d) PROVE RefsInv' /\ PlacesInv' /\ NothingLost'
  <2>1. /\ UNCHANGED <<made, pending, selected, stray, lost, pc, item, op>>
        /\ store' = store \ {d} /\ volatile' \in {volatile, volatile \ {d}} /\ discarded' = discarded \cup {d}
    BY <1>5 DEF DiscardDraft
  <2>2. RefsInv'
    BY <2>1, RefsKept DEF RefsInv
  <2>3. \A v \in Uploaders : Same(v)
    BY <2>1 DEF Same
  <2> QED BY <1>0, <2>1, <2>2, <2>3, PlacesKept, DraftsNotLost
<1> QED BY <1>1, <1>2, <1>3, <1>4, <1>5 DEF User

LEMMA WorldKeepsRefs ==
  ASSUME TypeOK, TypeOK', RefsInv, PlacesInv, NothingLost, Grows, World
  PROVE  RefsInv' /\ PlacesInv' /\ NothingLost'
<1> USE DEF storeVars, serverVars, pageVars, draftVars, upVars
<1>1. ASSUME NEW d \in Drafts, StrayArrives(d) PROVE RefsInv' /\ PlacesInv' /\ NothingLost'
  BY <1>1, StartKeepsRefs DEF StrayArrives
<1>2. ASSUME GameAdvances PROVE RefsInv' /\ PlacesInv' /\ NothingLost'
  BY <1>2, StartKeepsRefs DEF GameAdvances
<1>3. ASSUME GameExits PROVE RefsInv' /\ PlacesInv' /\ NothingLost'
  <2>0. "final" \in Uploaders
    BY DEF Uploaders
  <2>1. /\ \E place \in {"await", "make"} : pc' = [pc EXCEPT !["final"] = place]
        /\ UNCHANGED <<made, pending, selected, stray, discarded, lost, store, volatile, item, op>>
    BY <1>3 DEF GameExits
  <2>2. RefsInv'
    BY <2>1, RefsKept DEF RefsInv
  <2>3. \A v \in Uploaders : Same(v)
    BY <2>1 DEF Same, TypeOK, Uploading
  <2> QED BY <2>0, <2>1, <2>2, <2>3, PlacesKept, DraftsNotLost
<1>4. ASSUME RunExpires \/ Drift \/ WrittenElsewhere PROVE RefsInv' /\ PlacesInv' /\ NothingLost'
  BY <1>4, StartKeepsRefs DEF RunExpires, Drift, WrittenElsewhere
<1> QED BY <1>1, <1>2, <1>3, <1>4 DEF World

(* What the server had is still there.                                         *)
SyncedThen(r) == \E d \in Drafts : applied'[d] > 0 /\ info'[d].revision >= r

LEMMA SyncedStays ==
  ASSUME TypeOK, TypeOK', RowsInv, Grows, NEW r, SyncedTo(r)
  PROVE  SyncedThen(r)
<1>1. PICK d \in Drafts : Applied(d) /\ info[d].revision >= r
  BY DEF SyncedTo
<1>2. d \in made /\ info'[d] = info[d]
  BY <1>1 DEF RowsInv, Grows
<1>3. applied'[d] > 0
  BY <1>1 DEF Applied, Grows, TypeOK
<1> QED BY <1>1, <1>2, <1>3 DEF SyncedThen

LEMMA FinalKept ==
  ASSUME TypeOK, TypeOK', RowsInv, PlacesInv, FinalInv, Grows,
         native' = native, page' = "playing" => page = "playing",
         page' = "playing" /\ pc'["final"] # "idle"
           => game' = "exited" \/ (pc["final"] # "idle" /\ game' \in {game, "exited"}),
         native /\ game = "exited" => revision' = revision,
         native /\ page' = "playing" /\ pc'["final"] \in Uploading
           => \/ pc["final"] \in Uploading /\ item'["final"] = item["final"]
              \/ info'[item'["final"]].revision = revision',
         native /\ page' = "playing" /\ pc'["final"] = "ended" => pc["final"] = "ended" \/ SyncedThen(revision'),
         native /\ acked' > 0 => acked' = acked \/ SyncedThen(acked')
  PROVE  FinalInv'
<1>1. page' = "playing" /\ pc'["final"] # "idle" => game' = "exited"
  BY DEF FinalInv
<1>2. ASSUME native, page' = "playing", pc'["final"] \in Uploading
      PROVE  info'[item'["final"]].revision = revision'
  <2>1. ASSUME pc["final"] \in Uploading, item'["final"] = item["final"]
        PROVE  info'[item'["final"]].revision = revision'
    <3>1. item["final"] \in made
      BY <2>1 DEF PlacesInv, PlaceInv, Uploaders
    <3>2. game = "exited" /\ info[item["final"]].revision = revision
      BY <1>2, <2>1 DEF FinalInv, Uploading
    <3> QED BY <1>2, <2>1, <3>1, <3>2 DEF Grows
  <2> QED BY <1>2, <2>1
<1>3. ASSUME native, page' = "playing", pc'["final"] = "ended" PROVE SyncedThen(revision')
  <2>1. ASSUME pc["final"] = "ended" PROVE SyncedThen(revision')
    BY <1>3, <2>1, SyncedStays DEF FinalInv
  <2> QED BY <1>3, <2>1
<1>4. ASSUME native, acked' > 0 PROVE SyncedThen(acked')
  <2>1. ASSUME acked' = acked PROVE SyncedThen(acked')
    BY <1>4, <2>1, SyncedStays DEF FinalInv
  <2> QED BY <1>4, <2>1
<1> QED BY <1>1, <1>2, <1>3, <1>4 DEF FinalInv, SyncedTo, SyncedThen, Applied

(* The places of a final snapshot after a work or an upload has ended.           *)
LEMMA EndOfFinal ==
  ASSUME TypeOK, NEW u \in Uploaders, NEW ok \in BOOLEAN, NEW free \in BOOLEAN,
         pc[u] # "idle", Ends(u, ok, free)
  PROVE  /\ pc'["final"] # "idle" => pc["final"] # "idle"
         /\ pc'["final"] = "ended" => pc["final"] = "ended" \/ (u = "final" /\ ok)
         /\ u # "work" => pc'["work"] = pc["work"] /\ item'["work"] = item["work"] /\ UNCHANGED <<queued, op, exit>>
<1>1. CASE u = "work"
  <2>1. WorkEnds(ok, free, Available)
    BY <1>1 DEF Ends
  <2>2. CASE GoesOn(ok, free, Available)
    BY <1>1, <2>1, <2>2 DEF WorkEnds, TypeOK, Uploaders
  <2>3. CASE ~GoesOn(ok, free, Available)
    BY <1>1, <2>1, <2>3 DEF WorkEnds, TypeOK, Uploaders
  <2> QED BY <1>1, <2>2, <2>3
<1>2. CASE u # "work"
  <2>1. /\ pc' = [pc EXCEPT ![u] = IF u = "final" /\ ok /\ page = "playing" THEN "ended" ELSE "idle"]
        /\ item' = [item EXCEPT ![u] = None] /\ UNCHANGED <<queued, op, exit>>
    BY <1>2 DEF Ends
  <2>2. pc \in [Uploaders -> Places] /\ item \in [Uploaders -> Drafts \cup {None}]
        /\ "work" \in Uploaders /\ "final" \in Uploaders
    BY DEF TypeOK, Uploaders
  <2>3. pc'["work"] = pc["work"] /\ item'["work"] = item["work"]
    BY <1>2, <2>1, <2>2
  <2>4. u = "final" => pc'["final"] = IF ok /\ page = "playing" THEN "ended" ELSE "idle"
    BY <2>1, <2>2
  <2>5. u # "final" => pc'["final"] = pc["final"]
    BY <2>1, <2>2
  <2> QED BY <1>2, <2>1, <2>3, <2>4, <2>5
<1> QED BY <1>1, <1>2

LEMMA WorkOfFinal ==
  ASSUME TypeOK, NEW ok \in BOOLEAN, NEW free \in BOOLEAN, NEW idle \in BOOLEAN, WorkEnds(ok, free, idle)
  PROVE  /\ pc'["final"] # "idle" => pc["final"] # "idle"
         /\ pc'["final"] = "ended" => pc["final"] = "ended"
<1>1. CASE GoesOn(ok, free, idle)
  BY <1>1 DEF WorkEnds, TypeOK, Uploaders
<1>2. CASE ~GoesOn(ok, free, idle)
  BY <1>2 DEF WorkEnds, TypeOK, Uploaders
<1> QED BY <1>1, <1>2

LEMMA UploadKeepsFinal ==
  ASSUME TypeOK, TypeOK', RowsInv, PlacesInv, FinalInv, Grows, NEW u \in Uploaders, Upload(u)
  PROVE  FinalInv'
<1> USE DEF storeVars, serverVars
<1>0. UNCHANGED <<native, page, revision, acked>> /\ game' \in {game, "exited"}
  <2>1. UNCHANGED <<native, page, revision, acked>>
    BY DEF Upload, Put, PutFails, Answered, Unreachable, Removed, RemoveFails
  <2>2. game' = game \/ GameAfter(u)
    BY DEF Upload, Put, PutFails, Answered, Unreachable, Removed, Persisted, RemoveFails
  <2> QED BY <2>1, <2>2 DEF GameAfter
<1>0b. pc[u] # "idle"
  BY DEF Upload, Put, PutFails, Answered, Unreachable, Removed, RemoveFails
<1>1. ASSUME NEW ok \in BOOLEAN, Ends(u, ok, ok), ok => Removed(u) PROVE FinalInv'
  <2>1. \A v \in Uploaders : Same(v)
    BY <1>1, EndLeaves
  <2>2. pc'["final"] \in Uploading => pc["final"] \in Uploading /\ item'["final"] = item["final"]
    BY <2>1 DEF Same, Uploaders
  <2>3. ASSUME native, page = "playing", u = "final", ok PROVE SyncedThen(revision)
    <3>1. item[u] \in made /\ Applied(item[u]) /\ item[u] \in Drafts /\ info[item[u]].revision = revision
      BY <1>1, <2>3 DEF Removed, PlacesInv, PlaceInv, Uploading, FinalInv, TypeOK
    <3>2. SyncedTo(revision)
      BY <3>1, Numbers DEF SyncedTo
    <3> QED BY <3>2, SyncedStays
  <2>4. native /\ page' = "playing" /\ pc'["final"] = "ended" => pc["final"] = "ended" \/ SyncedThen(revision')
    BY <1>0, <1>0b, <1>1, <2>3, EndOfFinal
  <2>5. pc'["final"] # "idle" => pc["final"] # "idle"
    BY <1>0b, <1>1, EndOfFinal
  <2> QED BY <1>0, <2>2, <2>4, <2>5, FinalKept
<1>2. ASSUME NEW place \in Uploading, pc[u] \in Uploading, pc' = [pc EXCEPT ![u] = place], UNCHANGED item
      PROVE  FinalInv'
  <2>1. pc'["final"] \in Uploading => pc["final"] \in Uploading /\ item'["final"] = item["final"]
    BY <1>2 DEF TypeOK
  <2>2. (pc'["final"] # "idle" => pc["final"] # "idle") /\ (pc'["final"] = "ended" => pc["final"] = "ended")
    BY <1>2 DEF TypeOK, Uploading
  <2> QED BY <1>0, <2>1, <2>2, FinalKept
<1>3. CASE Put(u)
  <2>1. CASE pc[u] = "put"
    BY <1>2, <1>3, <2>1 DEF Put, Uploading
  <2>2. CASE pc[u] # "put"
    BY <1>1, <1>3, <2>2 DEF Put
  <2> QED BY <2>1, <2>2
<1>4. CASE PutFails(u) \/ Unreachable(u) \/ RemoveFails(u)
  BY <1>1, <1>4 DEF PutFails, Unreachable, RemoveFails
<1>5. CASE Answered(u)
  <2>1. Ends(u, FALSE, FALSE) \/ (UNCHANGED item /\ \E place \in {"remove", "rewait", "keep"} : pc' = [pc EXCEPT ![u] = place])
    BY <1>5 DEF Answered
  <2>2. pc[u] \in Uploading /\ {"remove", "rewait", "keep"} \subseteq Uploading
    BY <1>5 DEF Answered, Uploading
  <2> QED BY <1>1, <1>2, <2>1, <2>2
<1>6. CASE Removed(u)
  <2>1. Ends(u, TRUE, TRUE) \/ (UNCHANGED item /\ pc' = [pc EXCEPT ![u] = "ack"])
    BY <1>6 DEF Removed, Persisted
  <2>2. pc[u] \in Uploading /\ "ack" \in Uploading
    BY <1>6 DEF Removed, Uploading
  <2> QED BY <1>1, <1>2, <1>6, <2>1, <2>2
<1> QED BY <1>3, <1>4, <1>5, <1>6 DEF Upload

LEMMA WorkKeepsFinal ==
  ASSUME TypeOK, TypeOK', RowsInv, PlacesInv, FinalInv, Grows, Work
  PROVE  FinalInv'
<1> USE DEF storeVars, serverVars, pageVars, draftVars
<1>0. "work" \in Uploaders /\ "final" \in Uploaders /\ Available \in BOOLEAN
  BY DEF Uploaders, Available, TypeOK
<1>1. ASSUME Checkpointed, ~SameDraft PROVE FinalInv'
  <2>1. /\ UNCHANGED <<native, page, game, acked>> /\ game = "running"
        /\ pc'["final"] = pc["final"] /\ item'["final"] = item["final"]
    BY <1>0, <1>1 DEF Checkpointed, MakeDraft, TypeOK
  <2> QED BY <2>1, FinalKept
<1>2. ASSUME CheckpointFails \/ (Checkpointed /\ SameDraft) PROVE FinalInv'
  <2>1. WorkEnds(FALSE, FALSE, Available) /\ UNCHANGED <<native, page, game, acked, revision>>
    BY <1>2 DEF CheckpointFails, Checkpointed
  <2>2. Same("final")
    BY <1>0, <2>1, WorkLeaves
  <2>3. (pc'["final"] # "idle" => pc["final"] # "idle") /\ (pc'["final"] = "ended" => pc["final"] = "ended")
    BY <1>0, <2>1, WorkOfFinal
  <2> QED BY <2>1, <2>2, <2>3, FinalKept DEF Same
<1>3. ASSUME Acknowledged PROVE FinalInv'
  <2> DEFINE idle == game = "running" /\ (native => revision > acked')
  <2>1. WorkEnds(TRUE, TRUE, idle) /\ UNCHANGED <<native, page, game, revision>>
    BY <1>3 DEF Acknowledged
  <2>2. idle \in BOOLEAN
    OBVIOUS
  <2>3. Same("final")
    BY <1>0, <2>1, <2>2, WorkLeaves
  <2>4. (pc'["final"] # "idle" => pc["final"] # "idle") /\ (pc'["final"] = "ended" => pc["final"] = "ended")
    BY <2>1, <2>2, WorkOfFinal
  <2>5. ASSUME acked' # acked PROVE SyncedThen(acked')
    <3>1. acked' = info[item["work"]].revision /\ pc["work"] = "ack"
      BY <1>3, <2>5 DEF Acknowledged
    <3>2. item["work"] \in Drafts /\ Applied(item["work"])
      BY <1>0, <3>1 DEF PlacesInv, PlaceInv, Uploading, TypeOK
    <3>3. SyncedTo(info[item["work"]].revision)
      BY <3>2, Numbers DEF SyncedTo
    <3> QED BY <3>1, <3>3, SyncedStays
  <2> HIDE DEF idle
  <2> QED BY <2>1, <2>3, <2>4, <2>5, FinalKept DEF Same
<1>4. ASSUME AcknowledgeFails PROVE FinalInv'
  <2>1. UNCHANGED <<native, page, game, acked, revision, item>> /\ pc'["final"] = pc["final"]
    BY <1>4 DEF AcknowledgeFails, TypeOK
  <2> QED BY <2>1, FinalKept
<1> QED BY <1>1, <1>2, <1>3, <1>4 DEF Work

LEMMA RestKeepsFinal ==
  ASSUME TypeOK, TypeOK', RowsInv, RefsInv, PlacesInv, FinalInv, Grows, Final \/ Dialog \/ User \/ World
  PROVE  FinalInv'
<1> USE DEF storeVars, serverVars, pageVars, draftVars, upVars
<1>0. "final" \in Uploaders
  BY DEF Uploaders
(* Steps that leave the final snapshot alone.                                  *)
<1>1. ASSUME UNCHANGED <<native, acked>>, page' \in {page, "unmounted"}, game' \in {game, "exited"},
             pc'["final"] = pc["final"], item'["final"] = item["final"], game = "exited" => revision' = revision
      PROVE  FinalInv'
  BY <1>1, FinalKept
<1>2. ASSUME Dispose \/ DisposeFails \/ FinalFails \/ (MakeFinal /\ SameDraft) PROVE FinalInv'
  <2>1. /\ \E place \in {"idle", "await", "make"} : pc'["final"] = place
        /\ pc["final"] # "idle" /\ game' \in {game, "exited"}
        /\ UNCHANGED <<native, page, acked, revision>>
    BY <1>0, <1>2 DEF Dispose, DisposeFails, FinalFails, MakeFinal, GameAfter, TypeOK
  <2>2. pc'["final"] \notin Uploading \cup {"ended"}
    BY <2>1 DEF Uploading
  <2> QED BY <2>1, <2>2, FinalKept
<1>3. ASSUME MakeFinal, ~SameDraft PROVE FinalInv'
  <2> DEFINE d == Cardinality(made) + 1
  <2>1. /\ pc["final"] = "make" /\ pc'["final"] = "put" /\ UNCHANGED <<native, page, game, acked>>
        /\ d \in Drafts /\ item'["final"] = d /\ (native => revision' = revision)
    BY <1>0, <1>3 DEF MakeFinal, MakeDraft, TypeOK
  <2>2. info'[d].revision = revision'
    BY <1>3, <2>1 DEF MakeFinal, MakeDraft, TypeOK
  <2> HIDE DEF d
  <2> QED BY <2>1, <2>2, FinalKept
<1>4. ASSUME Dialog PROVE FinalInv'
  <2>1. UNCHANGED <<native, acked, revision>> /\ page' \in {page, "unmounted"} /\ game' \in {game, "exited"}
    BY <1>4 DEF Dialog, RequestExit, CancelExit, SaveInDialog, ConfirmExit, CheckExit,
         CheckFails, Leave
  <2>2. UNCHANGED <<pc, item>> \/ StartRetry \/ ((Capture(NoTarget) \/ StartCapture(NoTarget)) /\ UNCHANGED item)
    BY <1>4 DEF Dialog, RequestExit, CancelExit, SaveInDialog, ConfirmExit, CheckExit,
         CheckFails, Leave
  <2>3. pc'["final"] = pc["final"] /\ item'["final"] = item["final"]
    BY <1>0, <2>2 DEF StartRetry, Capture, StartCapture, TypeOK
  <2> QED BY <1>1, <2>1, <2>3
<1>5. ASSUME SaveClicked \/ RetryClicked PROVE FinalInv'
  <2>1. pc'["final"] = pc["final"] /\ item'["final"] = item["final"]
    BY <1>0, <1>5 DEF SaveClicked, RetryClicked, StartRetry, Capture, StartCapture, TypeOK
  <2> QED BY <1>1, <1>5, <2>1 DEF SaveClicked, RetryClicked
<1>6. ASSUME Restart PROVE FinalInv'
  <2>1. /\ pc'["final"] = "idle" /\ UNCHANGED <<native, page, revision, item>>
        /\ acked' = revision /\ pc["final"] = "ended" /\ page = "playing"
    BY <1>0, <1>6 DEF Restart, TypeOK
  <2>2. native => SyncedThen(acked')
    BY <2>1, SyncedStays DEF FinalInv
  <2>3. pc'["final"] \notin Uploading
    BY <2>1 DEF Uploading
  <2> QED BY <2>1, <2>2, <2>3, FinalKept
<1>7. ASSUME Unmount \/ Reload PROVE FinalInv'
  <2>1. page' # "playing" /\ UNCHANGED <<native, revision, acked>>
    BY <1>7 DEF Unmount, Reload
  <2> QED BY <2>1, FinalKept
<1>8. ASSUME NEW d \in Drafts, RecoverDraft(d) \/ DiscardDraft(d) PROVE FinalInv'
  <2>1. pc'["final"] = pc["final"] /\ item'["final"] = item["final"]
    BY <1>0, <1>8 DEF RecoverDraft, DiscardDraft, TypeOK
  <2> QED BY <1>1, <1>8, <2>1 DEF RecoverDraft, DiscardDraft
<1>9. ASSUME GameAdvances PROVE FinalInv'
  <2>1. pc'["final"] = pc["final"] /\ item'["final"] = item["final"]
    BY <1>0, <1>9 DEF GameAdvances, Capture, StartCapture, TypeOK
  <2> QED BY <1>1, <1>9, <2>1 DEF GameAdvances
<1>10. ASSUME GameExits PROVE FinalInv'
  <2>1. /\ pc'["final"] \in {"await", "make"} /\ game' = "exited" /\ game = "running"
        /\ UNCHANGED <<native, page, acked>>
    BY <1>0, <1>10 DEF GameExits, TypeOK
  <2>2. pc'["final"] \notin Uploading \cup {"ended"}
    BY <2>1 DEF Uploading
  <2> QED BY <2>1, <2>2, FinalKept
<1>11. ASSUME (\E d \in Drafts : StrayArrives(d)) \/ RunExpires \/ Drift \/ WrittenElsewhere PROVE FinalInv'
  BY <1>1, <1>11 DEF StrayArrives, RunExpires, Drift, WrittenElsewhere
<1> QED BY <1>2, <1>3, <1>4, <1>5, <1>6, <1>7, <1>8, <1>9, <1>10, <1>11 DEF Final, User, World

(* The exit dialog: it stays as it is, or is done with, or begins to wait.      *)
LEMMA ExitKept ==
  ASSUME TypeOK, TypeOK', RowsInv, ExitInv, Grows, exit' = exit, native' = native,
         game' = "running" => game = "running",
         exit.at = "syncing" => Busy',
         exit.at = "syncing" /\ native /\ game' = "running" /\ Covered => Covered'
  PROVE  ExitInv'
<1>1. exit.due <= revision'
  BY Numbers, NumbersNext DEF ExitInv, Grows
<1>2. ASSUME exit.at = "leaving", native, game' = "running", exit.due > 0 PROVE SyncedThen(exit.due)
  BY <1>2, SyncedStays DEF ExitInv
<1>3. exit.at = "syncing" /\ native /\ game' = "running" /\ exit.due > 0 => Covered'
  BY DEF ExitInv
<1> QED BY <1>1, <1>2, <1>3 DEF ExitInv, SyncedTo, SyncedThen, Applied

LEMMA ExitAside ==
  ASSUME TypeOK', exit'.due = 0, exit'.at # "syncing"
  PROVE  ExitInv'
BY NumbersNext DEF ExitInv

LEMMA ExitWaits ==
  ASSUME exit'.at = "syncing", exit'.due <= revision', Busy', exit'.due > 0 => Covered'
  PROVE  ExitInv'
BY DEF ExitInv

LEMMA SameWork ==
  ASSUME TypeOK, PlacesInv, Grows, exit' = exit, op' = op, queued => queued', item'["work"] = item["work"],
         pc'["work"] = pc["work"] \/ (pc["work"] \in Uploading /\ pc'["work"] \in Uploading)
  PROVE  (Busy => Busy') /\ (Covered => Covered')
<1>1. "work" \in Uploaders /\ "idle" \notin Uploading /\ "checkpoint" \notin Uploading
  BY DEF Uploaders, Uploading
<1>2. pc["work"] \in Uploading => info'[item["work"]] = info[item["work"]]
  BY <1>1 DEF PlacesInv, PlaceInv, Grows
<1>3. Busy => Busy'
  BY <1>1 DEF Busy, Idle
<1>4. Covered => Covered'
  BY <1>1, <1>2 DEF Covered
<1> QED BY <1>3, <1>4

(* The work ends while the dialog waits: it goes on, or what was due is written. *)
LEMMA WorkEndsExit ==
  ASSUME TypeOK, TypeOK', RowsInv, ExitInv, Grows, native' = native, game' = "running" => game = "running",
         NEW ok \in BOOLEAN, NEW free \in BOOLEAN, NEW idle \in BOOLEAN, WorkEnds(ok, free, idle),
         ok /\ native /\ game' = "running"
           => /\ free /\ pc["work"] \in Uploading /\ item["work"] \in Drafts /\ Applied(item["work"])
              /\ idle \/ revision = 0 \/ SyncedThen(revision)
  PROVE  ExitInv'
<1>0. "work" \in Uploaders /\ "checkpoint" \notin Uploading
  BY DEF Uploaders, Uploading
<1>1. CASE GoesOn(ok, free, idle)
  <2>1. exit' = exit /\ pc'["work"] = "checkpoint"
    BY <1>0, <1>1 DEF WorkEnds, TypeOK
  <2>2. Busy' /\ Covered'
    BY <2>1 DEF Busy, Idle, Covered
  <2> QED BY <2>1, <2>2, ExitKept
<1>2. CASE ~GoesOn(ok, free, idle)
  <2>1. exit' = DialogHears(ok)
    BY <1>2 DEF WorkEnds
  <2>2. CASE exit.at = "saving" \/ (exit.at = "syncing" /\ ~ok)
    <3>1. exit' = Reopened(~ok) \/ exit' = Reopened(TRUE)
      BY <2>1, <2>2 DEF DialogHears
    <3>2. exit'.due = 0 /\ exit'.at = "open"
      BY <3>1, ReopenedType
    <3> QED BY <3>2, ExitAside
  <2>3. CASE exit.at = "syncing" /\ ok
    <3>1. exit' = [exit EXCEPT !.at = "leaving"]
      BY <2>1, <2>3 DEF DialogHears
    <3>2. exit'.at = "leaving" /\ exit'.due = exit.due
      BY <3>1 DEF TypeOK
    <3>3. exit.due <= revision /\ exit.due <= revision'
      BY Numbers, NumbersNext DEF ExitInv, Grows
    <3>4. ASSUME native, game' = "running", exit.due > 0 PROVE SyncedThen(exit.due)
      <4>1. /\ free /\ pc["work"] \in Uploading /\ item["work"] \in Drafts /\ Applied(item["work"])
            /\ idle \/ revision = 0 \/ SyncedThen(revision)
        BY <2>3, <3>4
      <4>2. Covered
        BY <2>3, <3>4 DEF ExitInv
      <4>3. CASE ~idle
        <5>1. SyncedThen(revision)
          BY <3>3, <3>4, <4>1, <4>3, Numbers
        <5>2. PICK d \in Drafts : applied'[d] > 0 /\ info'[d].revision >= revision
          BY <5>1 DEF SyncedThen
        <5>3. info'[d].revision >= exit.due
          BY <3>3, <5>2, Numbers, NumbersNext
        <5> QED BY <5>2, <5>3 DEF SyncedThen
      <4>4. CASE idle
        <5>1. op.kind # "retry" /\ ~queued
          BY <1>2, <2>3, <3>4, <4>1, <4>4 DEF GoesOn
        <5>2. info[item["work"]].revision >= exit.due
          BY <1>0, <4>1, <4>2, <5>1 DEF Covered
        <5>3. SyncedTo(exit.due)
          BY <4>1, <5>2 DEF SyncedTo
        <5> QED BY <5>3, SyncedStays
      <4> QED BY <4>3, <4>4
    <3> QED BY <3>2, <3>3, <3>4 DEF ExitInv, SyncedTo, SyncedThen, Applied
  <2>4. CASE exit.at \notin {"saving", "syncing"}
    <3>1. exit' = exit
      BY <2>1, <2>4 DEF DialogHears
    <3> QED BY <2>4, <3>1, ExitKept
  <2> QED BY <2>2, <2>3, <2>4
<1> QED BY <1>1, <1>2

LEMMA UploadKeepsExit ==
  ASSUME TypeOK, TypeOK', RowsInv, PlacesInv, ExitInv, Grows, NEW u \in Uploaders, Upload(u)
  PROVE  ExitInv'
<1> USE DEF storeVars, serverVars
<1>0. native' = native /\ (game' = "running" => game = "running") /\ pc[u] # "idle"
  <2>1. native' = native /\ pc[u] # "idle"
    BY DEF Upload, Put, PutFails, Answered, Unreachable, Removed, RemoveFails
  <2>2. game' = game \/ GameAfter(u)
    BY DEF Upload, Put, PutFails, Answered, Unreachable, Removed, Persisted, RemoveFails
  <2> QED BY <2>1, <2>2 DEF GameAfter
<1>1. ASSUME NEW ok \in BOOLEAN, Ends(u, ok, ok), ok /\ u = "work" => ~(native /\ game = "running")
      PROVE  ExitInv'
  <2>1. CASE u = "work"
    <3>1. WorkEnds(ok, ok, Available) /\ Available \in BOOLEAN
      BY <1>1, <2>1 DEF Ends, Available, TypeOK
    <3> QED BY <1>0, <1>1, <2>1, <3>1, WorkEndsExit
  <2>2. CASE u # "work"
    <3>1. pc'["work"] = pc["work"] /\ item'["work"] = item["work"] /\ UNCHANGED <<queued, op, exit>>
      BY <1>0, <1>1, <2>2, EndOfFinal
    <3>2. (Busy => Busy') /\ (Covered => Covered')
      BY <3>1, SameWork
    <3> QED BY <1>0, <3>1, <3>2, ExitKept DEF ExitInv
  <2> QED BY <2>1, <2>2
<1>2. ASSUME NEW place \in Uploading, pc[u] \in Uploading, pc' = [pc EXCEPT ![u] = place],
             UNCHANGED <<item, queued, op, exit>>
      PROVE  ExitInv'
  <2>1. pc'["work"] = pc["work"] \/ (pc["work"] \in Uploading /\ pc'["work"] \in Uploading)
    BY <1>2 DEF TypeOK
  <2>2. (Busy => Busy') /\ (Covered => Covered')
    BY <1>2, <2>1, SameWork
  <2> QED BY <1>0, <1>2, <2>2, ExitKept DEF ExitInv
<1>3. CASE Put(u)
  <2>1. CASE pc[u] = "put"
    BY <1>2, <1>3, <2>1 DEF Put, Uploading
  <2>2. CASE pc[u] # "put"
    BY <1>1, <1>3, <2>2 DEF Put
  <2> QED BY <2>1, <2>2
<1>4. CASE PutFails(u) \/ Unreachable(u) \/ RemoveFails(u)
  BY <1>1, <1>4 DEF PutFails, Unreachable, RemoveFails
<1>5. CASE Answered(u)
  <2>1. \/ Ends(u, FALSE, FALSE)
        \/ /\ UNCHANGED <<item, queued, op, exit>>
           /\ \E place \in {"remove", "rewait", "keep"} : pc' = [pc EXCEPT ![u] = place]
    BY <1>5 DEF Answered
  <2>2. pc[u] \in Uploading /\ {"remove", "rewait", "keep"} \subseteq Uploading
    BY <1>5 DEF Answered, Uploading
  <2> QED BY <1>1, <1>2, <2>1, <2>2
<1>6. CASE Removed(u)
  <2>1. \/ Ends(u, TRUE, TRUE) /\ (u = "work" => ~(native /\ game = "running"))
        \/ UNCHANGED <<item, queued, op, exit>> /\ pc' = [pc EXCEPT ![u] = "ack"]
    BY <1>6 DEF Removed, Persisted
  <2>2. pc[u] \in Uploading /\ "ack" \in Uploading
    BY <1>6 DEF Removed, Uploading
  <2> QED BY <1>1, <1>2, <2>1, <2>2
<1> QED BY <1>3, <1>4, <1>5, <1>6 DEF Upload

LEMMA WorkKeepsExit ==
  ASSUME TypeOK, TypeOK', RowsInv, PlacesInv, ExitInv, FinalInv', Grows, Work
  PROVE  ExitInv'
<1> USE DEF storeVars, serverVars, pageVars, draftVars
<1>0. "work" \in Uploaders /\ Available \in BOOLEAN
  BY DEF Uploaders, Available, TypeOK
<1>1. ASSUME Checkpointed, ~SameDraft PROVE ExitInv'
  <2> DEFINE d == Cardinality(made) + 1
  <2>1. UNCHANGED <<native, game, op, exit, queued>> /\ MakeDraft("work", op.target)
    BY <1>1 DEF Checkpointed
  <2>2. d \in Drafts /\ pc'["work"] = "put" /\ item'["work"] = d /\ info'[d].revision = revision'
    BY <1>0, <2>1 DEF MakeDraft, TypeOK
  <2> HIDE DEF d
  <2>3. exit'.due <= revision'
    BY <2>1, Numbers, NumbersNext DEF ExitInv, Grows
  <2>4. info'[item'["work"]].revision >= exit'.due
    BY <2>1, <2>2, <2>3
  <2>5. Busy' /\ Covered'
    BY <2>2, <2>4 DEF Busy, Idle, Covered, Uploading
  <2> QED BY <2>1, <2>5, ExitKept
<1>2. ASSUME CheckpointFails \/ (Checkpointed /\ SameDraft) PROVE ExitInv'
  <2>1. WorkEnds(FALSE, FALSE, Available) /\ UNCHANGED <<native, game>>
    BY <1>2 DEF CheckpointFails, Checkpointed
  <2> QED BY <1>0, <2>1, WorkEndsExit
<1>3. ASSUME Acknowledged PROVE ExitInv'
  <2> DEFINE idle == game = "running" /\ (native => revision > acked')
  <2>1. WorkEnds(TRUE, TRUE, idle) /\ UNCHANGED <<native, page, game, revision>> /\ pc["work"] = "ack"
    BY <1>3 DEF Acknowledged
  <2>2. idle \in BOOLEAN
    OBVIOUS
  <2>3. pc["work"] \in Uploading /\ item["work"] \in Drafts /\ Applied(item["work"])
    BY <1>0, <2>1 DEF PlacesInv, PlaceInv, Uploading, TypeOK
  <2>4. ASSUME native, game = "running", ~idle, revision # 0 PROVE SyncedThen(revision)
    <3>1. acked' >= revision /\ acked' \in Nat
      BY <2>4, Numbers DEF TypeOK
    <3>2. acked' > 0
      BY <2>4, <3>1, Numbers
    <3>3. PICK d \in Drafts : applied'[d] > 0 /\ info'[d].revision >= acked'
      BY <2>1, <2>4, <3>2 DEF FinalInv, SyncedTo, Applied
    <3>4. info'[d].revision >= revision
      BY <3>1, <3>3, Numbers, NumbersNext
    <3> QED BY <3>3, <3>4 DEF SyncedThen
  <2> HIDE DEF idle
  <2> QED BY <2>1, <2>2, <2>3, <2>4, WorkEndsExit
<1>4. ASSUME AcknowledgeFails PROVE ExitInv'
  <2>1. /\ UNCHANGED <<native, game, op, exit, queued, item>>
        /\ pc["work"] \in Uploading /\ pc'["work"] \in Uploading
    BY <1>0, <1>4 DEF AcknowledgeFails, Uploading, TypeOK
  <2>2. (Busy => Busy') /\ (Covered => Covered')
    BY <2>1, SameWork
  <2> QED BY <2>1, <2>2, ExitKept DEF ExitInv
<1> QED BY <1>1, <1>2, <1>3, <1>4 DEF Work

LEMMA RestKeepsExit ==
  ASSUME TypeOK, TypeOK', RowsInv, RefsInv, PlacesInv, ExitInv, Grows, Final \/ Dialog \/ User \/ World
  PROVE  ExitInv'
<1> USE DEF storeVars, serverVars, pageVars, draftVars, upVars
<1>0. "work" \in Uploaders
  BY DEF Uploaders
(* Steps that leave the work in flight alone.                                  *)
<1>1. ASSUME UNCHANGED <<native, op, exit>>, game' = "running" => game = "running", queued => queued',
             pc'["work"] = pc["work"], item'["work"] = item["work"]
      PROVE  ExitInv'
  <2>1. (Busy => Busy') /\ (Covered => Covered')
    BY <1>1, SameWork
  <2> QED BY <1>1, <2>1, ExitKept DEF ExitInv
<1>2. ASSUME Final PROVE ExitInv'
  <2>1. /\ UNCHANGED <<native, op, exit, queued>> /\ game' \in {game, "exited"}
        /\ pc'["work"] = pc["work"] /\ item'["work"] = item["work"]
    <3>1. CASE Dispose \/ DisposeFails \/ FinalFails \/ (MakeFinal /\ SameDraft)
      <4>1. /\ \E place \in {"await", "make", "idle"} : pc' = [pc EXCEPT !["final"] = place]
            /\ UNCHANGED <<native, op, exit, queued, item>> /\ game' \in {game, "exited"}
        BY <3>1 DEF Dispose, DisposeFails, FinalFails, MakeFinal, GameAfter
      <4> QED BY <1>0, <4>1 DEF TypeOK
    <3>2. CASE MakeFinal /\ ~SameDraft
      BY <1>0, <3>2 DEF MakeFinal, MakeDraft, TypeOK
    <3> QED BY <1>2, <3>1, <3>2 DEF Final
  <2> QED BY <1>1, <2>1
<1>3. ASSUME RequestExit \/ CancelExit \/ ConfirmExit \/ CheckFails \/ Leave \/ SaveInDialog PROVE ExitInv'
  <2> DEFINE closes == exit' \in {ClosedDialog, Reopened(TRUE), Reopened(native)}
             opens == \E at \in {"open", "left"} : exit' = [ClosedDialog EXCEPT !.at = at]
             keeps == exit.at = "open" /\ exit' = [exit EXCEPT !.at = "saving"]
             confirms == exit.at = "open" /\ \E draft \in BOOLEAN, at \in {"checking", "leaving"} :
                                               exit' = [exit EXCEPT !.draft = draft, !.at = at]
  <2>1. closes \/ opens \/ keeps \/ confirms
    <3>1. CASE RequestExit \/ CancelExit \/ CheckFails
      BY <3>1 DEF RequestExit, CancelExit, CheckFails
    <3>2. CASE Leave
      BY <3>2 DEF Leave
    <3>3. CASE SaveInDialog
      BY <3>3 DEF SaveInDialog
    <3>4. CASE ConfirmExit
      <4>1. (pending # None) \in BOOLEAN
        OBVIOUS
      <4> QED BY <3>4, <4>1 DEF ConfirmExit
    <3> HIDE DEF closes, opens, keeps, confirms
    <3> QED BY <1>3, <3>1, <3>2, <3>3, <3>4
  <2>2. native \in BOOLEAN /\ exit \in ExitDialogs /\ (exit.at = "open" => exit.due = 0)
    BY DEF TypeOK, ExitDialogs, ExitInv
  <2>3. exit'.due = 0 /\ exit'.at # "syncing"
    <3>1. CASE exit' \in {ClosedDialog, Reopened(TRUE), Reopened(native)}
      <4>1. ClosedDialog.due = 0 /\ ClosedDialog.at = "closed"
        BY DEF ClosedDialog
      <4>2. /\ Reopened(TRUE).due = 0 /\ Reopened(native).due = 0
            /\ Reopened(TRUE).at = "open" /\ Reopened(native).at = "open"
        BY <2>2, ReopenedType
      <4> QED BY <3>1, <4>1, <4>2
    <3>2. ASSUME NEW at \in {"open", "left"}, exit' = [ClosedDialog EXCEPT !.at = at]
          PROVE  exit'.due = 0 /\ exit'.at # "syncing"
      BY <3>2 DEF ClosedDialog
    <3>3. CASE exit.at = "open" /\ exit' = [exit EXCEPT !.at = "saving"]
      BY <2>2, <3>3 DEF ExitDialogs
    <3>4. ASSUME exit.at = "open", NEW draft \in BOOLEAN, NEW at \in {"checking", "leaving"},
                 exit' = [exit EXCEPT !.draft = draft, !.at = at]
          PROVE  exit'.due = 0 /\ exit'.at # "syncing"
      BY <2>2, <3>4 DEF ExitDialogs
    <3> QED BY <2>1, <3>1, <3>2, <3>3, <3>4
  <2> QED BY <2>3, ExitAside
<1>4. ASSUME CheckExit PROVE ExitInv'
  <2>1. exit \in ExitDialogs /\ exit.due = 0 /\ UNCHANGED revision
    BY <1>4 DEF CheckExit, ExitInv, TypeOK, ExitDialogs
  <2>2. \/ exit' = Reopened(TRUE) \/ exit' = [exit EXCEPT !.at = "leaving"]
        \/ Busy /\ UNCHANGED pc /\ exit' = [exit EXCEPT !.at = "syncing"]
        \/ /\ exit' = [exit EXCEPT !.at = "syncing", !.due = revision]
           /\ StartRetry \/ (Capture(NoTarget) /\ (Busy \/ pending = None))
    BY <1>4 DEF CheckExit
  <2>3. CASE exit' = Reopened(TRUE) \/ exit' = [exit EXCEPT !.at = "leaving"]
    <3>1. exit'.due = 0 /\ exit'.at # "syncing"
      BY <2>1, <2>3, ReopenedType DEF ExitDialogs
    <3> QED BY <3>1, ExitAside
  <2>4. CASE Busy /\ UNCHANGED pc /\ exit' = [exit EXCEPT !.at = "syncing"]
    <3>1. exit'.due = 0 /\ exit'.at = "syncing" /\ Busy'
      BY <2>1, <2>4 DEF ExitDialogs, Busy, Idle
    <3> QED BY <3>1, ExitWaits, NumbersNext
  <2>5. CASE /\ exit' = [exit EXCEPT !.at = "syncing", !.due = revision]
             /\ StartRetry \/ (Capture(NoTarget) /\ (Busy \/ pending = None))
    <3>1. exit'.due = revision /\ exit'.at = "syncing"
      BY <2>1, <2>5 DEF ExitDialogs
    <3>2. Busy' /\ Covered'
      <4>1. CASE StartRetry
        BY <4>1, RetryLeaves DEF Busy, Idle, Covered
      <4>2. CASE Capture(NoTarget) /\ Busy
        BY <4>2 DEF Capture, Busy, Idle, Covered
      <4>3. CASE Capture(NoTarget) /\ ~Busy /\ pending = None
        <5>1. pc'["work"] = "checkpoint"
          BY <1>0, <4>3 DEF Capture, StartCapture, TypeOK
        <5> QED BY <5>1 DEF Busy, Idle, Covered
      <4> QED BY <2>5, <4>1, <4>2, <4>3
    <3> QED BY <2>1, <3>1, <3>2, ExitWaits, Numbers
  <2> QED BY <2>2, <2>3, <2>4, <2>5
<1>5. ASSUME SaveClicked PROVE ExitInv'
  BY <1>5, ExitAside DEF SaveClicked, ExitInv
<1>6. ASSUME RetryClicked PROVE ExitInv'
  BY <1>6, ExitKept DEF RetryClicked, ExitInv
<1>7. ASSUME Restart \/ Unmount \/ Reload PROVE ExitInv'
  BY <1>7, ExitAside DEF Restart, Unmount, Reload, ClosedDialog
<1>8. ASSUME NEW d \in Drafts, RecoverDraft(d) \/ DiscardDraft(d) \/ StrayArrives(d) PROVE ExitInv'
  BY <1>0, <1>1, <1>8 DEF RecoverDraft, DiscardDraft, StrayArrives, TypeOK
<1>9. ASSUME GameAdvances PROVE ExitInv'
  <2>1. CASE Busy \/ page # "playing"
    BY <1>1, <1>9, <2>1 DEF GameAdvances, Capture
  <2>2. CASE ~Busy
    BY <1>9, <2>2, ExitKept DEF GameAdvances, ExitInv
  <2> QED BY <2>1, <2>2
<1>10. ASSUME GameExits \/ RunExpires \/ Drift \/ WrittenElsewhere PROVE ExitInv'
  BY <1>0, <1>1, <1>10 DEF GameExits, RunExpires, Drift, WrittenElsewhere, TypeOK
<1> QED BY <1>2, <1>3, <1>4, <1>5, <1>6, <1>7, <1>8, <1>9, <1>10 DEF Dialog, User, World

(* The invariant holds at the start, and every step keeps it.                   *)
LEMMA SaveInit == Init => SaveInv
<1> SUFFICES ASSUME Init PROVE SaveInv
  OBVIOUS
<1> USE DEF Init
<1>1. 0 \in 0 .. MaxRevision /\ 0 \in 0 .. MaxFaults /\ ClosedDialog \in ExitDialogs
  BY BoundsAreNatural, ReopenedType
<1>2. selected \in Targets /\ NoTarget \in Targets /\ selected \in {NoTarget, [id |-> Source, version |-> 1]}
  BY Names DEF Targets, Versions
<1>3. Absent.version = 0 /\ Absent.commit = None /\ Absent.revision = 0
      /\ Absent \in [version : Versions, commit : Drafts \cup {None}, revision : 0 .. MaxRevision]
  BY <1>1 DEF Absent, Versions
<1> DEFINE first == [Absent EXCEPT !.version = 1]
<1>4. first.version = 1 /\ first.commit = None /\ first.revision = 0
      /\ first \in [version : Versions, commit : Drafts \cup {None}, revision : 0 .. MaxRevision]
  BY <1>1 DEF Absent, Versions
<1> HIDE DEF first
<1>5. \A s \in SaveIds : saves[s] = IF s = Source /\ selected.id = Source THEN first ELSE Absent
  BY DEF first
<1>6. \A s \in SaveIds : saves[s].commit = None /\ saves[s].revision = 0
  BY <1>3, <1>4, <1>5
<1>7. saves \in [SaveIds -> [version : Versions, commit : Drafts \cup {None}, revision : 0 .. MaxRevision]]
  BY <1>3, <1>4 DEF first
<1>8. \A d \in Drafts : info[d] = [base |-> NoTarget, revision |-> 0] /\ applied[d] = 0
  OBVIOUS
<1>9. TypeOK
  <2>1. info \in [Drafts -> [base : Targets, revision : 0 .. MaxRevision]]
    BY <1>1, <1>2
  <2>2. op \in [kind : {"none", "capture", "retry"}, target : Targets]
    BY <1>2
  <2>3. pc \in [Uploaders -> Places] /\ item \in [Uploaders -> Drafts \cup {None}]
    BY DEF Places
  <2> QED BY <1>1, <1>2, <1>7, <2>1, <2>2, <2>3 DEF TypeOK, ExitDialogs
<1>10. Seen(NoTarget) /\ Seen(selected)
  <2>1. Seen(NoTarget)
    BY DEF Seen, NoTarget
  <2>2. CASE selected # NoTarget
    <3>1. selected.id = Source /\ selected.version = 1
      BY <1>2, <2>2
    <3>2. saves[Source].version = 1
      BY <1>4, <1>5, <3>1, Names
    <3>3. Source # None
      BY DEF Source, None
    <3> QED BY <2>1, <3>1, <3>2, <3>3 DEF Seen
  <2> QED BY <2>1, <2>2
<1>11. RowsInv
  <2>1. made = 1 .. Cardinality(made)
    BY FS_EmptySet
  <2>2. \A d \in Drafts : info[d].revision <= revision
    BY <1>8
  <2>3. \A d \in Drafts : ~Applied(d) /\ applied[d] <= 1
    BY <1>8 DEF Applied
  <2> QED BY <1>6, <2>1, <2>2, <2>3 DEF RowsInv
<1>12. RefsInv
  <2>1. op.target = NoTarget
    OBVIOUS
  <2> QED BY <1>10, <2>1 DEF RefsInv
<1>13. PlacesInv /\ FinalInv
  BY DEF PlacesInv, PlaceInv, FinalInv, Uploading, Uploaders
<1>14. NothingLost
  BY DEF NothingLost
<1>15. ExitInv
  BY DEF ExitInv, ClosedDialog
<1> QED BY <1>9, <1>11, <1>12, <1>13, <1>14, <1>15 DEF SaveInv

LEMMA SaveStep == SaveInv /\ [Next]_vars => SaveInv'
<1> SUFFICES ASSUME SaveInv, [Next]_vars PROVE SaveInv'
  OBVIOUS
<1> USE DEF SaveInv
<1>1. CASE Next
  <2>1. TypeOK'
    <3>1. \A u \in Uploaders : pc[u] \in Uploading => item[u] \in Drafts
      BY DEF PlacesInv, PlaceInv, TypeOK
    <3>2. "work" \in Uploaders
      BY DEF Uploaders
    <3> QED BY <1>1, <3>1, <3>2, UploadKeepsTypes, WorkKeepsTypes, FinalKeepsTypes, DialogKeepsTypes,
            UserKeepsTypes, WorldKeepsTypes DEF Next
  <2>2. RowsMove
    BY <1>1, NextMovesRows
  <2>3. Grows /\ RowsInv'
    BY <2>1, <2>2, RowsGrow, RowsSafe
  <2>4. RefsInv' /\ PlacesInv' /\ NothingLost'
    BY <1>1, <2>1, <2>3, UploadKeepsRefs, WorkKeepsRefs, FinalKeepsRefs, DialogKeepsRefs,
       UserKeepsRefs, WorldKeepsRefs DEF Next
  <2>5. FinalInv'
    BY <1>1, <2>1, <2>3, UploadKeepsFinal, WorkKeepsFinal, RestKeepsFinal DEF Next
  <2>6. ExitInv'
    BY <1>1, <2>1, <2>3, <2>5, UploadKeepsExit, WorkKeepsExit, RestKeepsExit DEF Next
  <2> QED BY <2>1, <2>3, <2>4, <2>5, <2>6
<1>2. CASE UNCHANGED vars
  <2>1. TypeOK'
    BY <1>2 DEF TypeOK, vars
  <2>2. RowsInv'
    BY <1>2 DEF RowsInv, Applied, TargetOf, Seen, Current, vars
  <2>3. RefsInv' /\ PlacesInv' /\ NothingLost'
    BY <1>2 DEF RefsInv, PlacesInv, PlaceInv, NothingLost, Seen, Applied, vars
  <2>4. FinalInv' /\ ExitInv'
    BY <1>2 DEF FinalInv, ExitInv, SyncedTo, Applied, Covered, Busy, Idle, vars
  <2> QED BY <2>1, <2>2, <2>3, <2>4
<1> QED BY <1>1, <1>2

LEMMA SaveAlways == Spec => []SaveInv
BY SaveInit, SaveStep, PTL DEF Spec
-------------------------------------------------------------------------------
(* A draft that captureWork() or commit() has made is in the database, in the   *)
(* memory of the tab, deleted by the user, gone with the tab, or written on     *)
(* the server - and it is written once, whatever replies of its upload are lost *)
(* and whoever sends it again (persist() of use-save-session, uploadDraft).     *)
THEOREM DraftsAreKept == Spec => []DraftsKept
<1>1. SaveInv => DraftsKept
  BY DEF SaveInv, DraftsKept, CommittedOnce, RowsInv
<1> QED BY <1>1, SaveAlways, PTL

(* confirm() of usePlayerExit leaves a native game only when what it had written *)
(* at that moment is on the server: by the work it waited for, by the capture   *)
(* that work goes on with, or by an earlier acknowledgement.                     *)
THEOREM ExitIsSynced == Spec => []ExitSynced
<1>1. SaveInv => ExitSynced
  <2> SUFFICES ASSUME SaveInv, exit.at = "leaving", native, game = "running", exit.due > 0
               PROVE  \E r \in Synced : r >= exit.due
    BY DEF ExitSynced
  <2>1. PICK d \in Drafts : applied[d] > 0 /\ info[d].revision >= exit.due
    BY DEF SaveInv, ExitInv, SyncedTo, Applied
  <2>2. info[d].revision \in Synced
    BY <2>1 DEF Synced
  <2> QED BY <2>1, <2>2
<1> QED BY <1>1, SaveAlways, PTL

(* Service.Write lets a commit through only for the version it was made for, and *)
(* so never puts an older revision of a session over a newer one, in whatever    *)
(* order the requests of its drafts arrive.                                      *)
THEOREM SavesGetNoOlder == Spec => NeverOlder
<1>1. SaveInv /\ [Next]_vars => [NoneOlder]_vars
  BY NextMovesRows, RowsNeverOlder DEF SaveInv
<1> QED BY <1>1, SaveAlways, PTL DEF Spec, NeverOlder

-------------------------------------------------------------------------------
(* Accounts.  The version of the account only grows, and every change of its status or         *)
(* credential raises it; so what was recorded with a version - a session, a row of the list, an *)
(* opened sheet - is either of an earlier version, and then useless, or agrees with it.        *)
AccountIsRecord ==
  /\ DOMAIN user = {"status", "version", "hash"}
  /\ user.version \in Nat /\ user.version > 0

(* A session of the present version was opened with the present credential.   *)
SessionAgrees(s) ==
  /\ s.version \in Nat /\ s.version <= user.version
  /\ s.version = user.version => s.hash = user.hash
SessionsAgree == AccountIsRecord /\ \A s \in sessions : SessionAgrees(s)

(* Steps that leave the account alone and open no session.                    *)
LeavesAccount == user' = user /\ sessions' \subseteq sessions

LEMMA UntouchedAgrees ==
  ASSUME SessionsAgree, LeavesAccount PROVE SessionsAgree'
BY DEF SessionsAgree, LeavesAccount, AccountIsRecord, SessionAgrees

(* Steps that raise the version and keep at most the sessions there were.      *)
Raised == /\ DOMAIN user' = DOMAIN user /\ user'.version = user.version + 1
          /\ sessions' \subseteq sessions

LEMMA RaisedAgrees ==
  ASSUME SessionsAgree, Raised PROVE SessionsAgree'
<1>1. AccountIsRecord'
  BY DEF SessionsAgree, Raised, AccountIsRecord
<1>2. ASSUME NEW s \in sessions' PROVE SessionAgrees(s)'
  <2>1. s.version \in Nat /\ s.version <= user.version
    BY <1>2 DEF SessionsAgree, Raised, SessionAgrees
  <2>2. s.version < user'.version
    BY <2>1 DEF SessionsAgree, Raised, AccountIsRecord
  <2> QED BY <2>1, <2>2, <1>1 DEF SessionAgrees, AccountIsRecord
<1> QED BY <1>1, <1>2 DEF SessionsAgree

LEMMA UpdatedRaises ==
  ASSUME SessionsAgree, NEW status, Accounts!Updated(status) PROVE Raised
BY DEF SessionsAgree, AccountIsRecord, Accounts!Updated, Raised

LEMMA LoginAgrees ==
  ASSUME SessionsAgree, Accounts!LoginCommits PROVE SessionsAgree'
<1>1. CASE ~Accounts!Fenced(checked.login)
  BY <1>1, UntouchedAgrees DEF Accounts!LoginCommits, LeavesAccount
<1>2. CASE Accounts!Fenced(checked.login)
  <2> DEFINE opened == Accounts!Session(user.version, checked.login)
  <2>1. sessions' = sessions \union {opened} /\ user' = user
    BY <1>2 DEF Accounts!LoginCommits
  <2>2. SessionAgrees(opened)
    BY <1>2 DEF Accounts!Fenced, Accounts!Session, SessionAgrees, SessionsAgree, AccountIsRecord
  <2>3. \A s \in sessions' : SessionAgrees(s)
    BY <2>1, <2>2 DEF SessionsAgree
  <2> QED BY <2>1, <2>3 DEF SessionsAgree, AccountIsRecord, SessionAgrees
<1> QED BY <1>1, <1>2

LEMMA ChangeAgrees ==
  ASSUME SessionsAgree, Accounts!ChangeCommits PROVE SessionsAgree'
<1>1. CASE Accounts!Fenced(checked.change) /\ user.version < AccountVersions
  <2>1. /\ user' = [user EXCEPT !.hash = @ + 1, !.version = @ + 1]
        /\ sessions' = {Accounts!Session(user.version + 1, user.hash + 1)}
    BY <1>1 DEF Accounts!ChangeCommits
  <2>2. /\ DOMAIN user' = {"status", "version", "hash"}
        /\ user'.version = user.version + 1 /\ user'.hash = user.hash + 1
    BY <2>1 DEF SessionsAgree, AccountIsRecord
  <2>3. \A s \in sessions' : s.version = user'.version /\ s.hash = user'.hash
    BY <2>1, <2>2 DEF Accounts!Session
  <2>4. AccountIsRecord'
    BY <2>2 DEF SessionsAgree, AccountIsRecord
  <2> QED BY <2>3, <2>4 DEF SessionsAgree, SessionAgrees, AccountIsRecord
<1>2. CASE ~(Accounts!Fenced(checked.change) /\ user.version < AccountVersions)
  BY <1>2, UntouchedAgrees DEF Accounts!ChangeCommits, LeavesAccount
<1> QED BY <1>1, <1>2

LEMMA UsesAgrees ==
  ASSUME SessionsAgree, NEW l \in Accounts!Links, Accounts!Uses(l) PROVE SessionsAgree'
<1>1. CASE links[l].kind = "reset"
  <2>1. Raised
    BY <1>1 DEF Accounts!Uses, Raised, SessionsAgree, AccountIsRecord
  <2> QED BY <2>1, RaisedAgrees
<1>2. CASE links[l].kind # "reset"
  BY <1>2, UntouchedAgrees DEF Accounts!Uses, LeavesAccount
<1> QED BY <1>1, <1>2

LEMMA SavedAgrees ==
  ASSUME SessionsAgree, Accounts!Saved PROVE SessionsAgree'
<1>1. PICK status : Accounts!Updated(status)
  BY DEF Accounts!Saved
<1> QED BY <1>1, UpdatedRaises, RaisedAgrees

LEMMA OtherUpdatesAgrees ==
  ASSUME SessionsAgree, Accounts!OtherUpdates PROVE SessionsAgree'
<1>1. PICK status : Accounts!Updated(status)
  BY DEF Accounts!OtherUpdates
<1> QED BY <1>1, UpdatedRaises, RaisedAgrees

(* What the page and the links do to neither.                                 *)
LEMMA OthersAgree ==
  ASSUME SessionsAgree,
         \/ Accounts!LoginVerified \/ Accounts!Logout \/ Accounts!ChangeVerified
         \/ \E c \in Accounts!Creators : Accounts!Requires(c) \/ Accounts!Supersedes(c) \/ \E l \in Accounts!Links : Accounts!Inserted(c, l)
         \/ Accounts!OtherMakes \/ Accounts!OtherRefused
         \/ \E l \in Accounts!Links : Accounts!Expires(l) \/ Accounts!Targets(l)
         \/ Accounts!ListRead \/ Accounts!OpenEdit \/ Accounts!Edits \/ Accounts!AsksDelete \/ Accounts!Invites \/ Accounts!Cancels \/ Accounts!Submits
         \/ Accounts!LinkRevoked \/ Accounts!Fails \/ Accounts!LinksRead
         \/ UNCHANGED Accounts!vars
  PROVE SessionsAgree'
<1>1. LeavesAccount
  BY DEF LeavesAccount, Accounts!LoginVerified, Accounts!Logout, Accounts!ChangeVerified,
       Accounts!Requires, Accounts!Supersedes, Accounts!Inserted, Accounts!OtherMakes,
       Accounts!OtherRefused, Accounts!Expires, Accounts!Targets, Accounts!ListRead,
       Accounts!OpenEdit, Accounts!Edits, Accounts!AsksDelete, Accounts!Invites,
       Accounts!Cancels, Accounts!Submits, Accounts!LinkRevoked, Accounts!Fails,
       Accounts!LinksRead, Accounts!vars, Accounts!server
<1> QED BY <1>1, UntouchedAgrees

LEMMA SessionsStep ==
  ASSUME SessionsAgree, [Accounts!Next]_(Accounts!vars) PROVE SessionsAgree'
<1>1. CASE Accounts!LoginCommits BY <1>1, LoginAgrees
<1>2. CASE Accounts!ChangeCommits BY <1>2, ChangeAgrees
<1>3. CASE \E l \in Accounts!Links : Accounts!Uses(l) BY <1>3, UsesAgrees
<1>4. CASE Accounts!Saved BY <1>4, SavedAgrees
<1>5. CASE Accounts!OtherUpdates BY <1>5, OtherUpdatesAgrees
<1> QED BY <1>1, <1>2, <1>3, <1>4, <1>5, OthersAgree DEF Accounts!Next

-------------------------------------------------------------------------------
(* What the page knows of the account: an old version, or the truth.          *)
Shown(a) ==
  /\ a = [status |-> a.status, version |-> a.version]
  /\ a.version \in Nat /\ a.version <= user.version
  /\ a.version = user.version => a.status = user.status
FormShown(f) ==
  /\ DOMAIN f = {"on", "seen", "now"} /\ DOMAIN f.now = {"status", "version"}
  /\ Shown(f.seen) /\ f.now.version = f.seen.version
PageIsTrue == AccountIsRecord /\ Shown(accountsList) /\ FormShown(accountsEditing) /\ FormShown(accountsDeleting)

(* The account changes with its version or not at all.                        *)
Moved == \/ user' = user
         \/ DOMAIN user' = DOMAIN user /\ user'.version = user.version + 1

LEMMA MovedIsRecord ==
  ASSUME AccountIsRecord, Moved PROVE AccountIsRecord'
BY DEF AccountIsRecord, Moved

LEMMA ShownMoves ==
  ASSUME AccountIsRecord, Moved, NEW a, Shown(a) PROVE Shown(a)'
BY DEF AccountIsRecord, Moved, Shown

LEMMA FormMoves ==
  ASSUME AccountIsRecord, Moved, NEW f, FormShown(f) PROVE FormShown(f)'
BY ShownMoves DEF FormShown

LEMMA NoUserShown ==
  ASSUME AccountIsRecord PROVE Shown(Accounts!NoUser) /\ FormShown(Accounts!NotOpen)
BY DEF AccountIsRecord, Shown, Accounts!NoUser, FormShown, Accounts!NotOpen

LEMMA UpdatedMoves ==
  ASSUME AccountIsRecord, NEW status, Accounts!Updated(status) PROVE Moved
BY DEF AccountIsRecord, Accounts!Updated, Moved

(* The steps that may change the account.                                     *)
Changes == Accounts!ChangeCommits \/ (\E l \in Accounts!Links : Accounts!Uses(l)) \/ Accounts!OtherUpdates \/ Accounts!Saved

LEMMA OnlyChanges ==
  ASSUME [Accounts!Next]_(Accounts!vars), ~Changes PROVE user' = user
BY DEF Accounts!Next, Changes, Accounts!LoginCommits, Accounts!LoginVerified, Accounts!Logout,
     Accounts!ChangeVerified, Accounts!Requires, Accounts!Supersedes, Accounts!Inserted,
     Accounts!OtherMakes, Accounts!OtherRefused, Accounts!Expires, Accounts!Targets,
     Accounts!ListRead, Accounts!OpenEdit, Accounts!Edits, Accounts!AsksDelete,
     Accounts!Invites, Accounts!Cancels, Accounts!Submits, Accounts!LinkRevoked,
     Accounts!Fails, Accounts!LinksRead, Accounts!vars, Accounts!server

LEMMA UserMoves ==
  ASSUME AccountIsRecord, [Accounts!Next]_(Accounts!vars) PROVE Moved
<1>1. CASE ~Changes
  BY <1>1, OnlyChanges DEF Moved
<1>2. CASE Accounts!ChangeCommits
  BY <1>2 DEF AccountIsRecord, Accounts!ChangeCommits, Moved
<1>3. ASSUME NEW l \in Accounts!Links, Accounts!Uses(l) PROVE Moved
  BY <1>3 DEF AccountIsRecord, Accounts!Uses, Moved
<1>4. CASE Accounts!OtherUpdates
  BY <1>4, UpdatedMoves DEF Accounts!OtherUpdates
<1>5. CASE Accounts!Saved
  BY <1>5, UpdatedMoves DEF Accounts!Saved
<1> QED BY <1>1, <1>2, <1>3, <1>4, <1>5 DEF Changes

(* How a step can leave the list and the forms.                               *)
LEMMA ListMoves ==
  ASSUME [Accounts!Next]_(Accounts!vars)
  PROVE  accountsList' = accountsList \/ (accountsList' = Accounts!Row /\ user' = user)
BY DEF Accounts!Next, Accounts!ChangeCommits, Accounts!Uses, Accounts!OtherUpdates,
     Accounts!Saved, Accounts!LoginCommits, Accounts!LoginVerified, Accounts!Logout,
     Accounts!ChangeVerified, Accounts!Requires, Accounts!Supersedes, Accounts!Inserted,
     Accounts!OtherMakes, Accounts!OtherRefused, Accounts!Expires, Accounts!Targets,
     Accounts!ListRead, Accounts!OpenEdit, Accounts!Edits, Accounts!AsksDelete,
     Accounts!Invites, Accounts!Cancels, Accounts!Submits, Accounts!LinkRevoked,
     Accounts!Fails, Accounts!LinksRead, Accounts!vars, Accounts!page, Accounts!server

LEMMA EditingMoves ==
  ASSUME [Accounts!Next]_(Accounts!vars)
  PROVE  \/ accountsEditing' = accountsEditing \/ accountsEditing' = Accounts!NotOpen
         \/ accountsEditing' = [on |-> TRUE, seen |-> accountsList, now |-> accountsList]
         \/ \E status : accountsEditing' = [accountsEditing EXCEPT !.now.status = status]
<1>1. CASE Accounts!Edits
  BY <1>1 DEF Accounts!Edits
<1>2. CASE Accounts!OpenEdit
  BY <1>2 DEF Accounts!OpenEdit
<1>3. ASSUME ~Accounts!Edits, ~Accounts!OpenEdit PROVE accountsEditing' = accountsEditing \/ accountsEditing' = Accounts!NotOpen
  BY <1>3 DEF Accounts!Next, Accounts!ChangeCommits, Accounts!Uses, Accounts!OtherUpdates,
       Accounts!Saved, Accounts!LoginCommits, Accounts!LoginVerified, Accounts!Logout,
       Accounts!ChangeVerified, Accounts!Requires, Accounts!Supersedes, Accounts!Inserted,
       Accounts!OtherMakes, Accounts!OtherRefused, Accounts!Expires, Accounts!Targets,
       Accounts!ListRead, Accounts!AsksDelete, Accounts!Invites, Accounts!Cancels,
       Accounts!Submits, Accounts!LinkRevoked, Accounts!Fails, Accounts!LinksRead,
       Accounts!vars, Accounts!page, Accounts!forms
<1> QED BY <1>1, <1>2, <1>3

LEMMA DeletingMoves ==
  ASSUME [Accounts!Next]_(Accounts!vars)
  PROVE  accountsDeleting' = accountsDeleting \/ accountsDeleting' = Accounts!NotOpen \/ accountsDeleting' = accountsEditing
BY DEF Accounts!Next, Accounts!ChangeCommits, Accounts!Uses, Accounts!OtherUpdates,
     Accounts!Saved, Accounts!LoginCommits, Accounts!LoginVerified, Accounts!Logout,
     Accounts!ChangeVerified, Accounts!Requires, Accounts!Supersedes, Accounts!Inserted,
     Accounts!OtherMakes, Accounts!OtherRefused, Accounts!Expires, Accounts!Targets,
     Accounts!ListRead, Accounts!OpenEdit, Accounts!Edits, Accounts!AsksDelete,
     Accounts!Invites, Accounts!Cancels, Accounts!Submits, Accounts!LinkRevoked,
     Accounts!Fails, Accounts!LinksRead, Accounts!vars, Accounts!page, Accounts!forms

LEMMA PageStep ==
  ASSUME PageIsTrue, [Accounts!Next]_(Accounts!vars) PROVE PageIsTrue'
<1> USE DEF PageIsTrue
<1>1. Moved /\ AccountIsRecord'
  BY UserMoves, MovedIsRecord
<1>2. Shown(accountsList)'
  <2>1. PICK a : a = accountsList'
    OBVIOUS
  <2>2. Shown(a)'
    <3>1. CASE accountsList' = accountsList
      BY <3>1, <2>1, <1>1, ShownMoves
    <3>2. CASE accountsList' = Accounts!Row /\ user' = user
      BY <3>2, <2>1 DEF Accounts!Row, Shown, AccountIsRecord
    <3> QED BY <3>1, <3>2, ListMoves
  <2> QED BY <2>1, <2>2 DEF Shown
<1>3. FormShown(accountsEditing)'
  <2>1. PICK f : f = accountsEditing'
    OBVIOUS
  <2>2. FormShown(f)'
    <3>1. CASE f = accountsEditing
      BY <3>1, <1>1, FormMoves
    <3>2. CASE f = Accounts!NotOpen
      BY <3>2, <1>1, NoUserShown, FormMoves
    <3>3. CASE f = [on |-> TRUE, seen |-> accountsList, now |-> accountsList]
      <4>1. FormShown(f)
        BY <3>3 DEF FormShown, Shown
      <4> QED BY <4>1, <1>1, FormMoves
    <3>4. ASSUME NEW status, f = [accountsEditing EXCEPT !.now.status = status] PROVE FormShown(f)'
      <4>1. FormShown(f)
        BY <3>4 DEF FormShown
      <4> QED BY <4>1, <1>1, FormMoves
    <3> QED BY <2>1, <3>1, <3>2, <3>3, <3>4, EditingMoves
  <2> QED BY <2>1, <2>2 DEF FormShown, Shown
<1>4. FormShown(accountsDeleting)'
  <2>1. PICK f : f = accountsDeleting'
    OBVIOUS
  <2>2. FormShown(f)
    BY <2>1, DeletingMoves, NoUserShown
  <2>3. FormShown(f)'
    BY <2>2, <1>1, FormMoves
  <2> QED BY <2>1, <2>3 DEF FormShown, Shown
<1> QED BY <1>1, <1>2, <1>3, <1>4

(* Only save and removeUser write, and the version they send is the shown one. *)
LEMMA WritesOverTheShown ==
  ASSUME PageIsTrue, [Accounts!Next]_(Accounts!vars) PROVE Accounts!ReplacesTheAccountShown
<1>1. ASSUME accountsCall' = "none", accountsCall \in {"save", "delete"}, user' # user
      PROVE  /\ accountsCall = "save" => Accounts!Row = accountsEditing.seen
             /\ accountsCall = "delete" => Accounts!Row = accountsDeleting.seen
  <2>1. Changes
    BY <1>1, OnlyChanges
  <2>2. Accounts!Saved
    BY <2>1, <1>1 DEF Changes, Accounts!ChangeCommits, Accounts!Uses, Accounts!OtherUpdates,
         Accounts!page
  <2>3. CASE accountsCall = "save"
    <3>1. user.version = accountsEditing.seen.version
      BY <2>2, <2>3 DEF Accounts!Saved, Accounts!Sent, PageIsTrue, FormShown
    <3> QED BY <3>1, <2>3 DEF PageIsTrue, FormShown, Shown, Accounts!Row
  <2>4. CASE accountsCall = "delete"
    <3>1. user.version = accountsDeleting.seen.version
      BY <2>2, <2>4 DEF Accounts!Saved, Accounts!Sent, PageIsTrue, FormShown
    <3> QED BY <3>1, <2>4 DEF PageIsTrue, FormShown, Shown, Accounts!Row
  <2> QED BY <1>1, <2>3, <2>4
<1> QED BY <1>1 DEF Accounts!ReplacesTheAccountShown

-------------------------------------------------------------------------------
(* Directories: likewise, what was shown of a directory is of an earlier version or the truth.   *)
DirectoryRow ==
  [version : Nat, platform : Directories!Platforms, cores : SUBSET Directories!Cores, default : 0 .. 2, games : BOOLEAN]
RowOK(r) == r \in DirectoryRow /\ r.cores \subseteq Directories!Available(r.platform)

(* What was shown of a directory: nothing, an earlier version, or what there is; and whether   *)
(* it was deleted.                                                                            *)
DirectorySeen(r, now) ==
  r.version > 0 =>
    /\ now # Directories!Absent
    /\ now.version > 0 => r.version <= now.version
    /\ r.version = now.version => Directories!Content(r) = Directories!Content(now)
Snapshot(e, rw) == e.id \in Directories!Directories => RowOK(e.row) /\ DirectorySeen(e.row, rw[e.id])
FormOK(f) ==
  /\ f \in [on : BOOLEAN, platform : Directories!Platforms, cores : SUBSET (0 .. 2), default : 0 .. 2]
  /\ f.cores \subseteq Directories!Available(f.platform) \cup {Directories!NoCore}

DirectoriesInv(rw) ==
  /\ DOMAIN rw = Directories!Directories
  /\ \A d \in Directories!Directories : RowOK(rw[d]) /\ (rw[d].version = 0 => rw[d] \in {Directories!Absent, Directories!Gone})
ShownInv(sh, rw) ==
  /\ DOMAIN sh.rows = Directories!Directories
  /\ \A d \in Directories!Directories : RowOK(sh.rows[d]) /\ DirectorySeen(sh.rows[d], rw[d])
Picked(e) == e \in {Directories!None, Directories!New} \/ e.id \in Directories!Directories
DInv ==
  /\ DirectoriesInv(rows) /\ ShownInv(shown, rows)
  /\ menu \in Directories!Directories \cup {0}
  /\ Picked(directoriesEditing) /\ Snapshot(directoriesEditing, rows)
  /\ Snapshot(directoriesDeleting, rows)
  /\ FormOK(form)

(* How the row of a directory moves: it is deleted, gets games, or is written.                 *)
Moves(a, b) ==
  \/ b = a
  \/ a.version > 0 /\ b = Directories!Gone
  \/ a.version > 0 /\ b.version = a.version /\ Directories!Content(b) = Directories!Content(a)
  \/ (a = Directories!Absent \/ a.version > 0) /\ b.version = a.version + 1
DirectoriesMove == \A d \in Directories!Directories : Moves(rows[d], rows'[d])

LEMMA AbsentOK ==
  /\ RowOK(Directories!Absent) /\ RowOK(Directories!Gone) /\ Directories!Absent # Directories!Gone
  /\ Directories!Absent.version = 0 /\ Directories!Gone.version = 0 /\ FormOK(Directories!NoForm)
<1>1. Directories!Gone = [version |-> 0, platform |-> 1, cores |-> {}, default |-> 0, games |-> TRUE]
  <2>1. PICK a : a = [version |-> 0, platform |-> 1, cores |-> {}, default |-> 0, games |-> FALSE]
    OBVIOUS
  <2>2. Directories!Gone = [a EXCEPT !.games = TRUE]
    BY <2>1 DEF Directories!Gone, Directories!Absent, Directories!NoCore
  <2> QED BY <2>1, <2>2
<1>2. Directories!Absent = [version |-> 0, platform |-> 1, cores |-> {}, default |-> 0, games |-> FALSE]
  BY DEF Directories!Absent, Directories!NoCore
<1>3. RowOK(Directories!Absent) /\ RowOK(Directories!Gone)
  BY <1>1, <1>2 DEF RowOK, DirectoryRow, Directories!Platforms, Directories!Cores
<1>4. FormOK(Directories!NoForm)
  BY DEF FormOK, Directories!NoForm, Directories!NoCore, Directories!Platforms
<1>5. Directories!Absent.games # Directories!Gone.games
  BY <1>1, <1>2
<1> QED BY <1>1, <1>2, <1>3, <1>4, <1>5

LEMMA CoresAre ==
  /\ Directories!Available(1) = {1, 2} /\ Directories!Available(2) = {2}
  /\ \A p \in Directories!Platforms : Directories!FirstCore(p) \in Directories!Available(p) /\ Directories!Available(p) \subseteq Directories!Cores
BY DEF Directories!Available, Directories!Supports, Directories!Platforms, Directories!Cores,
     Directories!FirstCore

LEMMA SeenMoves ==
  ASSUME NEW r, NEW a, NEW b, RowOK(r), RowOK(a), RowOK(b),
         DirectorySeen(r, a), Moves(a, b)
  PROVE  DirectorySeen(r, b)
<1>1. r.version \in Nat /\ a.version \in Nat /\ b.version \in Nat
  BY DEF RowOK, DirectoryRow
<1>2. CASE b = a
  BY <1>2
<1>3. CASE a.version > 0 /\ b = Directories!Gone
  BY <1>1, <1>3, AbsentOK DEF DirectorySeen
<1>4. CASE a.version > 0 /\ b.version = a.version /\ Directories!Content(b) = Directories!Content(a)
  BY <1>1, <1>4, AbsentOK DEF DirectorySeen
<1>5. CASE (a = Directories!Absent \/ a.version > 0) /\ b.version = a.version + 1
  <2>1. b # Directories!Absent
    BY <1>1, <1>5, AbsentOK
  <2>2. ASSUME r.version > 0 PROVE r.version < b.version
    <3>1. a # Directories!Absent
      BY <2>2 DEF DirectorySeen
    <3>2. r.version <= a.version
      BY <1>5, <2>2, <3>1 DEF DirectorySeen
    <3> QED BY <1>1, <1>5, <3>2
  <2> QED BY <1>1, <2>1, <2>2 DEF DirectorySeen
<1> QED BY <1>2, <1>3, <1>4, <1>5 DEF Moves

LEMMA SeenNow ==
  ASSUME NEW r, RowOK(r)
  PROVE  DirectorySeen(r, r)
<1>1. r.version \in Nat
  BY DEF RowOK, DirectoryRow
<1> QED BY <1>1, AbsentOK DEF DirectorySeen

LEMMA SnapshotMoves ==
  ASSUME DirectoriesInv(rows), DirectoriesInv(rows'), DirectoriesMove, NEW e, Snapshot(e, rows)
  PROVE  Snapshot(e, rows')
BY SeenMoves DEF Snapshot, DirectoriesInv, DirectoriesMove

(* The row of one directory moves.                                                            *)
LEMMA OneRowMoves ==
  ASSUME DirectoriesInv(rows), NEW d, NEW b, rows' = [rows EXCEPT ![d] = b],
         d \in Directories!Directories => RowOK(b) /\ Moves(rows[d], b) /\ (b.version = 0 => b \in {Directories!Absent, Directories!Gone})
  PROVE  DirectoriesInv(rows') /\ DirectoriesMove
<1>1. DOMAIN rows' = Directories!Directories
  BY DEF DirectoriesInv
<1>2. ASSUME NEW x \in Directories!Directories
      PROVE  /\ RowOK(rows'[x]) /\ (rows'[x].version = 0 => rows'[x] \in {Directories!Absent, Directories!Gone})
             /\ Moves(rows[x], rows'[x])
  <2>1. CASE x = d
    <3>1. rows'[x] = b
      BY <2>1 DEF DirectoriesInv
    <3> QED BY <2>1, <3>1
  <2>2. CASE x # d
    <3>1. rows'[x] = rows[x]
      BY <2>2 DEF DirectoriesInv
    <3> QED BY <3>1 DEF DirectoriesInv, Moves
  <2> QED BY <2>1, <2>2
<1> QED BY <1>1, <1>2 DEF DirectoriesInv, DirectoriesMove

(* A save writes what the form says.                                                          *)
LEMMA WrittenOK ==
  ASSUME DirectoriesInv(rows), FormOK(form), Directories!NoCore \notin form.cores,
         directoriesEditing = Directories!New \/ (directoriesEditing.id \in Directories!Directories /\ rows[directoriesEditing.id].version > 0)
  PROVE  /\ RowOK(Directories!Written) /\ Directories!Written.cores \subseteq Directories!Available(Directories!Written.platform)
         /\ Directories!Written.version > 0
         /\ directoriesEditing = Directories!New => Directories!Written.version = 1
         /\ directoriesEditing # Directories!New => Directories!Written.version = rows[directoriesEditing.id].version + 1
<1>1. /\ form.platform \in Directories!Platforms /\ form.default \in 0 .. 2 /\ form.cores \subseteq Directories!Available(form.platform)
      /\ form.cores \in SUBSET Directories!Cores
  BY CoresAre DEF FormOK
<1>2. CASE directoriesEditing = Directories!New
  BY <1>1, <1>2 DEF Directories!Written, RowOK, DirectoryRow
<1>3. CASE directoriesEditing # Directories!New
  <2>1. rows[directoriesEditing.id].version \in Nat /\ rows[directoriesEditing.id].games \in BOOLEAN
    BY <1>3 DEF DirectoriesInv, RowOK, DirectoryRow
  <2> QED BY <1>1, <1>3, <2>1 DEF Directories!Written, RowOK, DirectoryRow
<1> QED BY <1>2, <1>3

LEMMA RowsStep ==
  ASSUME DInv, [Directories!Next]_(Directories!vars)
  PROVE  DirectoriesInv(rows') /\ DirectoriesMove
<1>0. DirectoriesInv(rows) /\ FormOK(form)
  BY DEF DInv
<1>1. CASE Directories!Saved
  <2>1. PICK d \in Directories!Directories :
          /\ IF directoriesEditing = Directories!New THEN rows[d] = Directories!Absent
             ELSE d = directoriesEditing.id /\ rows[d].version > 0 /\ rows[d].version = Directories!Sent(directoriesEditing)
          /\ rows' = [rows EXCEPT ![d] = Directories!Written]
    BY <1>1 DEF Directories!Saved
  <2>2. Directories!NoCore \notin form.cores
    BY <1>1 DEF Directories!Saved
  <2>3. RowOK(Directories!Written) /\ Directories!Written.version > 0 /\ Moves(rows[d], Directories!Written)
    <3>1. CASE directoriesEditing = Directories!New
      BY <1>0, <2>1, <2>2, <3>1, WrittenOK, AbsentOK DEF Moves
    <3>2. CASE directoriesEditing # Directories!New
      BY <1>0, <2>1, <2>2, <3>2, WrittenOK DEF Moves
    <3> QED BY <3>1, <3>2
  <2>4. PICK b : b = Directories!Written
    OBVIOUS
  <2>5. RowOK(b) /\ Moves(rows[d], b) /\ b.version # 0
    BY <2>3, <2>4
  <2>6. rows' = [rows EXCEPT ![d] = b]
    BY <2>1, <2>4
  <2> QED BY <1>0, <2>5, <2>6, OneRowMoves
<1>2. CASE Directories!Deleted
  BY <1>0, <1>2, OneRowMoves, AbsentOK DEF Directories!Deleted, Moves
<1>3. ASSUME NEW d \in Directories!Directories, Directories!OtherWrites(d) PROVE DirectoriesInv(rows') /\ DirectoriesMove
  <2>1. rows' = [rows EXCEPT ![d] = [rows[d] EXCEPT !.version = @ + 1, !.cores = {2}, !.default = 2]]
    BY <1>3 DEF Directories!OtherWrites
  <2>2. rows[d] \in DirectoryRow /\ rows[d].platform \in Directories!Platforms /\ rows[d].version \in Nat /\ rows[d].version > 0
    BY <1>0, <1>3 DEF Directories!OtherWrites, DirectoriesInv, RowOK, DirectoryRow
  <2>3. PICK b : b = [rows[d] EXCEPT !.version = @ + 1, !.cores = {2}, !.default = 2]
    OBVIOUS
  <2>4. b \in DirectoryRow /\ b.version = rows[d].version + 1 /\ b.cores = {2} /\ b.platform = rows[d].platform
    <3>1. PICK r : r = rows[d]
      OBVIOUS
    <3>2. /\ b = [r EXCEPT !.version = @ + 1, !.cores = {2}, !.default = 2]
          /\ r = [version |-> r.version, platform |-> r.platform, cores |-> r.cores,
                  default |-> r.default, games |-> r.games]
      BY <2>2, <2>3, <3>1 DEF DirectoryRow
    <3>3. b = [version |-> r.version + 1, platform |-> r.platform, cores |-> {2}, default |-> 2,
               games |-> r.games]
      BY <3>2
    <3>4. r.version \in Nat /\ r.platform \in Directories!Platforms /\ r.games \in BOOLEAN
      BY <2>2, <3>1 DEF DirectoryRow
    <3> QED BY <3>1, <3>3, <3>4 DEF DirectoryRow, Directories!Cores
  <2>5. RowOK(b) /\ Moves(rows[d], b) /\ b.version # 0
    BY <2>2, <2>4, CoresAre DEF RowOK, Moves, Directories!Platforms
  <2> QED BY <1>0, <2>1, <2>3, <2>5, OneRowMoves
<1>4. ASSUME NEW d \in Directories!Directories, Directories!OtherDeletes(d) PROVE DirectoriesInv(rows') /\ DirectoriesMove
  BY <1>0, <1>4, OneRowMoves, AbsentOK DEF Directories!OtherDeletes, Moves
<1>5. ASSUME NEW d \in Directories!Directories, Directories!Imports(d) PROVE DirectoriesInv(rows') /\ DirectoriesMove
  <2>1. rows' = [rows EXCEPT ![d] = [rows[d] EXCEPT !.games = TRUE]]
    BY <1>5 DEF Directories!Imports
  <2>2. RowOK(rows[d]) /\ rows[d] \in DirectoryRow /\ rows[d].version \in Nat /\ rows[d].version > 0
    BY <1>0, <1>5 DEF Directories!Imports, DirectoriesInv, RowOK, DirectoryRow
  <2>3. PICK b : b = [rows[d] EXCEPT !.games = TRUE]
    OBVIOUS
  <2>4. /\ b \in DirectoryRow /\ b.version = rows[d].version /\ b.cores = rows[d].cores
        /\ b.platform = rows[d].platform /\ b.default = rows[d].default
    BY <2>2, <2>3 DEF DirectoryRow
  <2>5. RowOK(b) /\ Moves(rows[d], b) /\ b.version # 0
    BY <2>2, <2>4 DEF RowOK, Moves, Directories!Content
  <2> QED BY <1>0, <2>1, <2>3, <2>5, OneRowMoves
<1>6. ASSUME rows' = rows PROVE DirectoriesInv(rows') /\ DirectoriesMove
  BY <1>0, <1>6 DEF DirectoriesMove, Moves
<1> QED BY <1>1, <1>2, <1>3, <1>4, <1>5, <1>6 DEF Directories!Next, Directories!vars,
             Directories!page, Directories!ListRead, Directories!ListFails, Directories!Retry,
             Directories!CatalogRead, Directories!TogglesAll, Directories!MenuKey,
             Directories!Edits, Directories!Creates, Directories!AsksDelete,
             Directories!Closes, Directories!Saves, Directories!ConfirmsDelete,
             Directories!CancelsDelete, Directories!Refused, Directories!Recommended,
             Directories!Filters, Directories!TogglesGroup, Directories!PicksPlatform,
             Directories!PicksDefault, Directories!TogglesCore, Directories!TogglesMenu

-------------------------------------------------------------------------------
LEMMA ShownStep ==
  ASSUME [Directories!Next]_(Directories!vars)
  PROVE  shown'.rows = shown.rows \/ (shown'.rows = rows /\ rows' = rows)
<1>1. CASE Directories!ListRead
  BY <1>1 DEF Directories!ListRead
<1>2. CASE Directories!ListFails
  BY <1>2 DEF Directories!ListFails
<1> QED BY <1>1, <1>2 DEF Directories!Next, Directories!vars, Directories!page,
             Directories!Retry, Directories!CatalogRead, Directories!Saved,
             Directories!Deleted, Directories!OtherWrites, Directories!OtherDeletes,
             Directories!Imports, Directories!TogglesAll, Directories!MenuKey,
             Directories!Edits, Directories!Creates, Directories!AsksDelete,
             Directories!Closes, Directories!Saves, Directories!ConfirmsDelete,
             Directories!CancelsDelete, Directories!Refused, Directories!Recommended,
             Directories!Filters, Directories!TogglesGroup, Directories!PicksPlatform,
             Directories!PicksDefault, Directories!TogglesCore, Directories!TogglesMenu

LEMMA MenuStep ==
  ASSUME menu \in Directories!Directories \cup {0}, [Directories!Next]_(Directories!vars)
  PROVE  menu' \in Directories!Directories \cup {0}
BY Zenon DEF Directories!Next, Directories!vars, Directories!page, Directories!ListRead,
     Directories!ListFails, Directories!Retry, Directories!CatalogRead, Directories!Saved,
     Directories!Deleted, Directories!OtherWrites, Directories!OtherDeletes,
     Directories!Imports, Directories!TogglesAll, Directories!MenuKey, Directories!Edits,
     Directories!Creates, Directories!AsksDelete, Directories!Closes, Directories!Saves,
     Directories!ConfirmsDelete, Directories!CancelsDelete, Directories!Refused,
     Directories!Recommended, Directories!Filters, Directories!TogglesGroup,
     Directories!PicksPlatform, Directories!PicksDefault, Directories!TogglesCore,
     Directories!TogglesMenu

FromList(e) == menu # 0 /\ e = [id |-> menu, row |-> shown.rows[menu]]

LEMMA EditingStep ==
  ASSUME [Directories!Next]_(Directories!vars)
  PROVE  directoriesEditing' \in {directoriesEditing, Directories!None, Directories!New} \/ (FromList(directoriesEditing') /\ rows' = rows)
<1>1. CASE Directories!Edits
  BY <1>1 DEF Directories!Edits, FromList
<1> QED BY <1>1, Zenon DEF Directories!Next, Directories!vars, Directories!page,
             Directories!ListRead, Directories!ListFails, Directories!Retry,
             Directories!CatalogRead, Directories!Saved, Directories!Deleted,
             Directories!OtherWrites, Directories!OtherDeletes, Directories!Imports,
             Directories!TogglesAll, Directories!MenuKey, Directories!Creates,
             Directories!AsksDelete, Directories!Closes, Directories!Saves,
             Directories!ConfirmsDelete, Directories!CancelsDelete, Directories!Refused,
             Directories!Recommended, Directories!Filters, Directories!TogglesGroup,
             Directories!PicksPlatform, Directories!PicksDefault, Directories!TogglesCore,
             Directories!TogglesMenu

LEMMA DeletingStep ==
  ASSUME [Directories!Next]_(Directories!vars)
  PROVE  directoriesDeleting' \in {directoriesDeleting, Directories!None} \/ (FromList(directoriesDeleting') /\ rows' = rows)
<1>1. CASE Directories!AsksDelete
  BY <1>1 DEF Directories!AsksDelete, FromList
<1> QED BY <1>1 DEF Directories!Next, Directories!vars, Directories!page, Directories!ListRead,
             Directories!ListFails, Directories!Retry, Directories!CatalogRead,
             Directories!Saved, Directories!Deleted, Directories!OtherWrites,
             Directories!OtherDeletes, Directories!Imports, Directories!TogglesAll,
             Directories!MenuKey, Directories!Creates, Directories!Edits, Directories!Closes,
             Directories!Saves, Directories!ConfirmsDelete, Directories!CancelsDelete,
             Directories!Refused, Directories!Recommended, Directories!Filters,
             Directories!TogglesGroup, Directories!PicksPlatform, Directories!PicksDefault,
             Directories!TogglesCore, Directories!TogglesMenu

LEMMA NotDirectories ==
  ASSUME DirectoryCount \in Nat
  PROVE  Directories!None.id \notin Directories!Directories /\ Directories!New.id \notin Directories!Directories /\ 0 \notin Directories!Directories /\ Directories!New.id # 0
BY DEF Directories!None, Directories!New, Directories!Directories

LEMMA FromListOK ==
  ASSUME DirectoryCount \in Nat, DInv, NEW e, FromList(e)
  PROVE  Snapshot(e, rows) /\ e.id \in Directories!Directories
<1>1. e.id = menu /\ e.row = shown.rows[menu] /\ menu \in Directories!Directories
  BY DEF FromList, DInv
<1> QED BY <1>1 DEF DInv, ShownInv, Snapshot

LEMMA MountedOK ==
  ASSUME DirectoryCount \in Nat, NEW e, e.id = Directories!New.id \/ (e.id \in Directories!Directories /\ RowOK(e.row))
  PROVE  FormOK(Directories!Mounted(e))
<1>1. CASE e.id = Directories!New.id
  <2>1. Directories!Mounted(e) = [on |-> TRUE, platform |-> 1, cores |-> {1}, default |-> 1]
    BY <1>1 DEF Directories!Mounted, Directories!FirstCore
  <2> QED BY <2>1, CoresAre DEF FormOK, Directories!Platforms
<1>2. CASE e.id # Directories!New.id
  <2>1. Directories!Mounted(e) = [on |-> TRUE, platform |-> e.row.platform, cores |-> e.row.cores, default |-> e.row.default]
    BY <1>2 DEF Directories!Mounted
  <2>2. /\ e.row.platform \in Directories!Platforms /\ e.row.default \in 0 .. 2 /\ e.row.cores \subseteq Directories!Available(e.row.platform)
        /\ e.row.cores \in SUBSET (0 .. 2)
    BY <1>2 DEF RowOK, DirectoryRow, Directories!Cores
  <2> QED BY <2>1, <2>2 DEF FormOK
<1> QED BY <1>1, <1>2

LEMMA FormStep ==
  ASSUME DirectoryCount \in Nat, DInv, [Directories!Next]_(Directories!vars)
  PROVE  FormOK(form')
<1>0. /\ FormOK(form)
      /\ form.platform \in Directories!Platforms /\ form.default \in 0 .. 2 /\ form.cores \subseteq Directories!Available(form.platform) \cup {Directories!NoCore}
      /\ form = [on |-> form.on, platform |-> form.platform, cores |-> form.cores, default |-> form.default]
      /\ form.on \in BOOLEAN
  BY DEF DInv, FormOK
<1>1. CASE Directories!CatalogRead
  <2>1. CASE directoriesEditing # Directories!None
    <3>1. directoriesEditing = Directories!New \/ (directoriesEditing.id \in Directories!Directories /\ RowOK(directoriesEditing.row))
      BY <2>1 DEF DInv, Picked, Snapshot
    <3>2. FormOK(Directories!Mounted(directoriesEditing))
      BY <3>1, MountedOK
    <3> QED BY <1>0, <1>1, <2>1, <3>2 DEF Directories!CatalogRead
  <2>2. CASE directoriesEditing = Directories!None
    BY <1>0, <1>1, <2>2, AbsentOK DEF Directories!CatalogRead
  <2> QED BY <2>1, <2>2
<1>2. CASE Directories!Edits
  <2>1. PICK e : e = [id |-> menu, row |-> shown.rows[menu]]
    OBVIOUS
  <2>2. FromList(e)
    BY <1>2, <2>1 DEF Directories!Edits, FromList
  <2>3. FormOK(Directories!Mounted(e))
    BY <2>2, FromListOK, MountedOK DEF Snapshot
  <2>4. form' \in {Directories!Mounted(e), Directories!NoForm}
    BY <1>2, <2>1 DEF Directories!Edits
  <2> QED BY <2>3, <2>4, AbsentOK
<1>3. CASE Directories!Creates
  <2>1. FormOK(Directories!Mounted(Directories!New))
    BY MountedOK
  <2> QED BY <1>3, <2>1, AbsentOK DEF Directories!Creates
<1>4. ASSUME NEW p \in Directories!Platforms, Directories!PicksPlatform(p) PROVE FormOK(form')
  <2>1. form' = [on |-> form.on, platform |-> p, cores |-> {Directories!FirstCore(p)}, default |-> Directories!FirstCore(p)]
    BY <1>0, <1>4 DEF Directories!PicksPlatform, Directories!PlatformPicked
  <2>2. Directories!FirstCore(p) \in 0 .. 2 /\ Directories!FirstCore(p) \in Directories!Available(p)
    BY CoresAre DEF Directories!FirstCore
  <2> QED BY <1>0, <2>1, <2>2 DEF FormOK
<1>5. ASSUME NEW c \in Directories!Cores \cup {Directories!NoCore}, Directories!PicksDefault(c) PROVE FormOK(form')
  <2>1. form' = [on |-> form.on, platform |-> form.platform, cores |-> form.cores \cup {c}, default |-> c]
    BY <1>0, <1>5 DEF Directories!PicksDefault
  <2>2. c \in 0 .. 2 /\ c \in Directories!Available(form.platform) \cup {Directories!NoCore}
    BY <1>5 DEF Directories!PicksDefault, Directories!Cores, Directories!NoCore
  <2>3. form.cores \cup {c} \in SUBSET (0 .. 2)
    BY <1>0, <2>2 DEF FormOK
  <2> QED BY <1>0, <2>1, <2>2, <2>3 DEF FormOK
<1>6. ASSUME NEW c \in Directories!Cores \cup {Directories!NoCore}, Directories!TogglesCore(c) PROVE FormOK(form')
  <2>1. PICK cs : /\ cs \in {form.cores \ {c}, form.cores \cup {c}}
                  /\ form' = [on |-> form.on, platform |-> form.platform, cores |-> cs, default |-> form.default]
    BY <1>0, <1>6 DEF Directories!TogglesCore
  <2>2. c \in 0 .. 2 /\ c \in Directories!Available(form.platform) \cup {Directories!NoCore}
    BY <1>6 DEF Directories!TogglesCore, Directories!Cores, Directories!NoCore
  <2>3. cs \in SUBSET (0 .. 2) /\ cs \subseteq Directories!Available(form.platform) \cup {Directories!NoCore}
    BY <1>0, <2>1, <2>2 DEF FormOK
  <2> QED BY <1>0, <2>1, <2>3 DEF FormOK
<1>7. ASSUME form' \in {form, Directories!NoForm} PROVE FormOK(form')
  BY <1>0, <1>7, AbsentOK
<1> QED BY <1>1, <1>2, <1>3, <1>4, <1>5, <1>6, <1>7 DEF Directories!Next, Directories!vars,
             Directories!page, Directories!ListRead, Directories!ListFails, Directories!Retry,
             Directories!Saved, Directories!Deleted, Directories!OtherWrites,
             Directories!OtherDeletes, Directories!Imports, Directories!TogglesAll,
             Directories!MenuKey, Directories!AsksDelete, Directories!Closes,
             Directories!Saves, Directories!ConfirmsDelete, Directories!CancelsDelete,
             Directories!Refused, Directories!Recommended, Directories!Filters,
             Directories!TogglesGroup, Directories!TogglesMenu

LEMMA DStep ==
  ASSUME DirectoryCount \in Nat, DInv, [Directories!Next]_(Directories!vars)
  PROVE  DInv'
<1>0. DirectoriesInv(rows) /\ DirectoriesInv(rows') /\ DirectoriesMove
  BY RowsStep DEF DInv
<1>1. ShownInv(shown', rows')
  <2>1. CASE shown'.rows = shown.rows
    BY <1>0, <2>1, SeenMoves DEF DInv, ShownInv, DirectoriesInv, DirectoriesMove
  <2>2. CASE shown'.rows = rows /\ rows' = rows
    BY <1>0, <2>2, SeenNow DEF ShownInv, DirectoriesInv
  <2> QED BY <2>1, <2>2, ShownStep
<1>2. menu' \in Directories!Directories \cup {0}
  BY MenuStep DEF DInv
<1>3. PICK e : e = directoriesEditing'
  OBVIOUS
<1>4. Picked(e) /\ Snapshot(e, rows')
  <2>1. CASE e = directoriesEditing
    BY <1>0, <2>1, SnapshotMoves DEF DInv
  <2>2. CASE e \in {Directories!None, Directories!New}
    BY <2>2, NotDirectories DEF Picked, Snapshot
  <2>3. CASE FromList(e) /\ rows' = rows
    BY <2>3, FromListOK DEF Picked
  <2> QED BY <1>3, <2>1, <2>2, <2>3, EditingStep
<1>5. PICK u : u = directoriesDeleting'
  OBVIOUS
<1>6. Snapshot(u, rows')
  <2>1. CASE u = directoriesDeleting
    BY <1>0, <2>1, SnapshotMoves DEF DInv
  <2>2. CASE u = Directories!None
    BY <2>2, NotDirectories DEF Snapshot
  <2>3. CASE FromList(u) /\ rows' = rows
    BY <2>3, FromListOK
  <2> QED BY <1>5, <2>1, <2>2, <2>3, DeletingStep
<1>7. FormOK(form')
  BY FormStep
<1> QED BY <1>0, <1>1, <1>2, <1>3, <1>4, <1>5, <1>6, <1>7 DEF DInv, DirectoriesInv, ShownInv,
             Picked, Snapshot, FormOK, DirectorySeen

LEMMA DInit ==
  ASSUME DirectoryCount \in Nat, Directories!Init
  PROVE  DInv
<1>1. PICK r : r = [version |-> 1, platform |-> 1, cores |-> {1, 2}, default |-> 1, games |-> FALSE]
  OBVIOUS
<1>2. RowOK(r) /\ r.version # 0
  BY <1>1, CoresAre DEF RowOK, DirectoryRow, Directories!Platforms, Directories!Cores
<1>3. rows \in [Directories!Directories -> {Directories!Absent, r}]
  BY <1>1 DEF Directories!Init
<1>4. DirectoriesInv(rows)
  BY <1>2, <1>3, AbsentOK DEF DirectoriesInv
<1>5. ShownInv(shown, rows)
  BY <1>3, AbsentOK DEF Directories!Init, ShownInv, DirectorySeen
<1> QED BY <1>4, <1>5, AbsentOK, NotDirectories DEF Directories!Init, DInv, Picked, Snapshot

LEMMA WritesOverTheSeen ==
  ASSUME DirectoryCount \in Nat, DInv, [Directories!Next]_(Directories!vars)
  PROVE  Directories!ReplacesWhatWasSeen
<1> SUFFICES ASSUME NEW d \in Directories!Directories, rows'[d] # rows[d], directoriesCall' = "none", directoriesCall \in {"save", "delete"}
             PROVE  /\ directoriesCall = "save" => /\ directoriesEditing.id = d => Directories!Content(rows[d]) = Directories!Content(directoriesEditing.row)
                                        /\ rows'[d].cores \subseteq Directories!Available(rows'[d].platform)
                    /\ directoriesCall = "delete" => Directories!Content(rows[d]) = Directories!Content(directoriesDeleting.row)
  BY DEF Directories!ReplacesWhatWasSeen
<1>1. Directories!Saved \/ Directories!Deleted
  BY DEF Directories!Next, Directories!vars, Directories!page, Directories!ListRead,
       Directories!ListFails, Directories!Retry, Directories!CatalogRead,
       Directories!OtherWrites, Directories!OtherDeletes, Directories!Imports,
       Directories!TogglesAll, Directories!MenuKey, Directories!Edits, Directories!Creates,
       Directories!AsksDelete, Directories!Closes, Directories!Saves,
       Directories!ConfirmsDelete, Directories!CancelsDelete, Directories!Refused,
       Directories!Recommended, Directories!Filters, Directories!TogglesGroup,
       Directories!PicksPlatform, Directories!PicksDefault, Directories!TogglesCore,
       Directories!TogglesMenu
<1>2. DirectoriesInv(rows) /\ DirectoriesInv(rows')
  BY RowsStep DEF DInv
<1>3. rows'[d].cores \subseteq Directories!Available(rows'[d].platform)
  BY <1>2 DEF DirectoriesInv, RowOK
<1>4. ASSUME directoriesCall = "save", directoriesEditing.id = d PROVE Directories!Content(rows[d]) = Directories!Content(directoriesEditing.row)
  <2>1. directoriesEditing # Directories!New
    BY <1>4, NotDirectories
  <2>2. rows[d].version > 0 /\ rows[d].version = directoriesEditing.row.version
    BY <1>1, <1>4, <2>1 DEF Directories!Saved, Directories!Deleted, Directories!Sent
  <2> QED BY <1>4, <2>2 DEF DInv, Snapshot, DirectorySeen
<1>5. ASSUME directoriesCall = "delete" PROVE Directories!Content(rows[d]) = Directories!Content(directoriesDeleting.row)
  <2>1. Directories!Deleted
    BY <1>1, <1>5 DEF Directories!Saved
  <2>2. d = directoriesDeleting.id
    BY <1>2, <2>1 DEF Directories!Deleted, DirectoriesInv
  <2>3. rows[d].version > 0 /\ rows[d].version = directoriesDeleting.row.version
    BY <2>1, <2>2 DEF Directories!Deleted, Directories!Sent
  <2> QED BY <2>2, <2>3 DEF DInv, Snapshot, DirectorySeen
<1> QED BY <1>3, <1>4, <1>5
-------------------------------------------------------------------------------
(* The application update.                                                                     *)
AskedUpdate == [worker : Nat, approved : BOOLEAN, controlled : BOOLEAN]

(* The versions of the workers: the active one is the oldest, the one that     *)
(* installs the newest.                                                       *)
WorkersInOrder ==
  /\ latest \in Nat /\ installing \in Nat /\ updateWaiting \in Nat /\ active \in Nat
  /\ active <= latest /\ updateWaiting <= latest /\ installing <= latest
  /\ updateWaiting # 0 => active < updateWaiting
  /\ installing # 0 => active < installing /\ updateWaiting < installing

(* What a window asked for took over, or waits, or was overtaken by what       *)
(* waits; a window that is to hear, or has heard, of its new controller has a  *)
(* worker that is no older than what it asked for.                            *)
Asked(u, told) ==
  /\ u.worker <= active \/ (updateWaiting # 0 /\ u.worker <= updateWaiting)
  /\ told => u.worker <= active
AskedFor(w) == Asked(updateUpdate[w], w \in changed \/ updateUpdate[w].controlled)

AUInv ==
  /\ WorkersInOrder
  /\ updateUpdate \in [Windows -> AskedUpdate] /\ updatePage \in [Windows -> {"closed", "normal", "playing"}]
  /\ \A w \in registered : w \in Windows /\ Update!Open(w)
  /\ \A w \in Windows : AskedFor(w)

LEMMA NoUpdateIs == Update!NoUpdate \in AskedUpdate /\ Update!NoUpdate.worker = 0 /\ ~Update!NoUpdate.controlled /\ ~Update!NoUpdate.approved
BY DEF Update!NoUpdate, AskedUpdate

LEMMA AUInit == ASSUME Update!Init PROVE AUInv
<1>1. WorkersInOrder
  BY DEF Update!Init, WorkersInOrder
<1>2. updateUpdate \in [Windows -> AskedUpdate] /\ updatePage \in [Windows -> {"closed", "normal", "playing"}]
  BY NoUpdateIs DEF Update!Init
<1>3. ASSUME NEW w \in Windows PROVE AskedFor(w)
  <2>1. updateUpdate[w] = Update!NoUpdate /\ active = 0
    BY DEF Update!Init
  <2> QED BY <2>1, NoUpdateIs DEF AskedFor, Asked
<1> QED BY <1>1, <1>2, <1>3 DEF AUInv, Update!Init

-------------------------------------------------------------------------------
(* The workers.  They leave the windows alone, but for those that activation   *)
(* gives a new controller.                                                   *)
(* What a step of the workers may do to those that wait and to the active one. *)
WorkersMoved ==
  \/ active' = active /\ updateWaiting' = updateWaiting
  \/ active' = active /\ updateWaiting <= updateWaiting' /\ updateWaiting' # 0
  \/ active' = updateWaiting /\ updateWaiting # 0 /\ updateWaiting' = 0

LEMMA WorkersMove ==
  ASSUME WorkersInOrder, [Update!Next]_(Update!vars)
  PROVE  WorkersInOrder' /\ WorkersMoved
<1>0. /\ latest \in Nat /\ installing \in Nat /\ updateWaiting \in Nat /\ active \in Nat
      /\ active <= latest /\ updateWaiting <= latest /\ installing <= latest
      /\ updateWaiting # 0 => active < updateWaiting
      /\ installing # 0 => active < installing /\ updateWaiting < installing
  BY DEF WorkersInOrder
<1>1. ASSUME Update!Deploys PROVE WorkersInOrder' /\ WorkersMoved
  BY <1>0, <1>1 DEF Update!Deploys, Update!workers, WorkersInOrder, WorkersMoved
<1>2. ASSUME Update!InstallFails PROVE WorkersInOrder' /\ WorkersMoved
  BY <1>0, <1>2 DEF Update!InstallFails, WorkersInOrder, WorkersMoved
<1>3. ASSUME Update!Installed PROVE WorkersInOrder' /\ WorkersMoved
  BY <1>0, <1>3 DEF Update!Installed, WorkersInOrder, WorkersMoved
<1>4. ASSUME Update!Activates PROVE WorkersInOrder' /\ WorkersMoved
  BY <1>0, <1>4 DEF Update!Activates, WorkersInOrder, WorkersMoved
<1>5. ASSUME NEW w \in Windows, Update!Checks(w) PROVE WorkersInOrder' /\ WorkersMoved
  BY <1>0, <1>5 DEF Update!Checks, Update!NewWorker, WorkersInOrder, WorkersMoved
<1>6. ASSUME UNCHANGED <<latest, installing, updateWaiting, active>> PROVE WorkersInOrder' /\ WorkersMoved
  BY <1>0, <1>6 DEF WorkersInOrder, WorkersMoved
<1>7. Update!Next /\ (\A w \in Windows : ~Update!Checks(w)) /\ ~Update!Deploys /\ ~Update!InstallFails /\ ~Update!Installed /\ ~Update!Activates =>
        UNCHANGED <<latest, installing, updateWaiting, active>>
  BY DEF Update!Next, Update!InWindow, Update!Stores, Update!Puts, Update!Opens, Update!Closes,
       Update!Plays, Update!Ends, Update!Applies, Update!Answered, Update!ControllerChanged,
       Update!TimesOut, Update!Forgets, Update!Looks, Update!Skips, Update!Reads,
       Update!workers
<1> QED BY <1>1, <1>2, <1>3, <1>4, <1>5, <1>6, <1>7 DEF Update!vars

(* What a step does to what a window asked for.                               *)
AskMoves(w) ==
  \/ updateUpdate'[w] = updateUpdate[w] /\ (w \in changed' => w \in changed)
  \/ updateUpdate'[w] = updateUpdate[w] /\ updateWaiting # 0 /\ active' = updateWaiting
  \/ updateUpdate'[w] = Update!NoUpdate
  \/ updateUpdate'[w] = [worker |-> updateWaiting, approved |-> FALSE, controlled |-> FALSE] /\ w \notin changed' /\ updateWaiting' = updateWaiting /\ updateWaiting # 0
  \/ updateUpdate'[w].worker = updateUpdate[w].worker /\ (w \in changed \/ updateUpdate[w].controlled = updateUpdate'[w].controlled) /\ (w \in changed' => w \in changed) /\ active' = active

LEMMA AskStays ==
  ASSUME WorkersInOrder, WorkersInOrder', WorkersMoved, NEW w \in Windows,
         updateUpdate[w] \in AskedUpdate, updateUpdate'[w] \in AskedUpdate, AskedFor(w), AskMoves(w)
  PROVE  AskedFor(w)'
<1>0. active \in Nat /\ updateWaiting \in Nat /\ active' \in Nat /\ updateWaiting' \in Nat
      /\ updateUpdate[w].worker \in Nat /\ updateUpdate'[w].worker \in Nat
      /\ (updateWaiting # 0 => active < updateWaiting)
  BY DEF WorkersInOrder, AskedUpdate
<1>1. CASE updateUpdate'[w] = updateUpdate[w] /\ (w \in changed' => w \in changed)
  BY <1>0, <1>1 DEF AskedFor, Asked, WorkersMoved
<1>2. CASE updateUpdate'[w] = updateUpdate[w] /\ updateWaiting # 0 /\ active' = updateWaiting
  BY <1>0, <1>2 DEF AskedFor, Asked, WorkersMoved
<1>3. CASE updateUpdate'[w] = Update!NoUpdate
  BY <1>0, <1>3, NoUpdateIs DEF AskedFor, Asked
<1>4. CASE updateUpdate'[w] = [worker |-> updateWaiting, approved |-> FALSE, controlled |-> FALSE] /\ w \notin changed' /\ updateWaiting' = updateWaiting /\ updateWaiting # 0
  BY <1>0, <1>4 DEF AskedFor, Asked
<1>5. CASE updateUpdate'[w].worker = updateUpdate[w].worker /\ (w \in changed \/ updateUpdate[w].controlled = updateUpdate'[w].controlled) /\ (w \in changed' => w \in changed) /\ active' = active
  BY <1>0, <1>5 DEF AskedFor, Asked, WorkersMoved
<1> QED BY <1>1, <1>2, <1>3, <1>4, <1>5 DEF AskMoves

(* A window.                                                                  *)
WindowsFit == updateUpdate \in [Windows -> AskedUpdate] /\ updatePage \in [Windows -> {"closed", "normal", "playing"}] /\ (\A w \in registered : w \in Windows /\ Update!Open(w))

LEMMA LoadedMoves ==
  ASSUME WindowsFit, NEW w \in Windows, NEW v, Update!Loaded(w, v)
  PROVE  WindowsFit' /\ (\A x \in Windows : AskMoves(x))
<1>1. updateUpdate' \in [Windows -> AskedUpdate] /\ updatePage' \in [Windows -> {"closed", "normal", "playing"}]
  BY NoUpdateIs DEF WindowsFit, Update!Loaded
<1>2. \A x \in registered' : x \in Windows /\ updatePage'[x] # "closed"
  BY DEF WindowsFit, Update!Loaded, Update!Open
<1>3. \A x \in Windows : AskMoves(x)
  BY DEF WindowsFit, Update!Loaded, AskMoves
<1> QED BY <1>1, <1>2, <1>3 DEF WindowsFit, Update!Open

LEMMA FinishedMoves ==
  ASSUME WindowsFit, NEW w \in Windows, Update!Finished(w)
  PROVE  WindowsFit' /\ (\A x \in Windows : AskMoves(x))
<1>1. CASE updatePage[w] = "playing"
  <2>1. updateUpdate' = [updateUpdate EXCEPT ![w] = Update!NoUpdate] /\ changed' = changed \ {w} /\ UNCHANGED <<updatePage, document, registered>>
    BY <1>1 DEF Update!Finished
  <2>2. WindowsFit'
    BY <2>1, NoUpdateIs DEF WindowsFit, Update!Open
  <2>3. \A x \in Windows : AskMoves(x)
    BY <2>1 DEF WindowsFit, AskMoves
  <2> QED BY <2>2, <2>3
<1>2. CASE updatePage[w] # "playing"
  BY <1>2, LoadedMoves DEF Update!Finished
<1> QED BY <1>1, <1>2

LEMMA WindowMoves ==
  ASSUME WindowsFit, NEW w \in Windows, Update!InWindow(w), WorkersInOrder
  PROVE  WindowsFit' /\ (\A x \in Windows : AskMoves(x))
<1>0. /\ updateUpdate \in [Windows -> AskedUpdate] /\ updatePage \in [Windows -> {"closed", "normal", "playing"}]
      /\ \A x \in registered : x \in Windows /\ updatePage[x] # "closed"
  BY DEF WindowsFit, Update!Open
<1>1. CASE Update!Opens(w)
  BY <1>1, LoadedMoves DEF Update!Opens
<1>2. CASE Update!Closes(w)
  <2>1. updateUpdate' = [updateUpdate EXCEPT ![w] = Update!NoUpdate] /\ changed' = changed \ {w} /\ registered' = registered \ {w}
        /\ updatePage' = [updatePage EXCEPT ![w] = "closed"]
    BY <1>2 DEF Update!Closes
  <2>2. WindowsFit'
    BY <1>0, <2>1, NoUpdateIs DEF WindowsFit, Update!Open
  <2>3. \A x \in Windows : AskMoves(x)
    BY <1>0, <2>1 DEF AskMoves
  <2> QED BY <2>2, <2>3
<1>3. CASE Update!Plays(w) \/ Update!Ends(w)
  <2>1. updateUpdate' = updateUpdate /\ changed' = changed /\ registered' = registered
        /\ updatePage[w] # "closed" /\ \E p \in {"normal", "playing"} : updatePage' = [updatePage EXCEPT ![w] = p]
    BY <1>3 DEF Update!Plays, Update!Ends
  <2>2. WindowsFit'
    BY <1>0, <2>1 DEF WindowsFit, Update!Open
  <2> QED BY <2>1, <2>2 DEF AskMoves
<1>4. CASE Update!Checks(w)
  <2>1. updateUpdate' = updateUpdate /\ changed' = changed /\ registered' = registered \union {w} /\ updatePage' = updatePage /\ updatePage[w] # "closed"
    BY <1>4 DEF Update!Checks, Update!Open
  <2>2. WindowsFit'
    BY <1>0, <2>1 DEF WindowsFit, Update!Open
  <2> QED BY <2>1, <2>2 DEF AskMoves
<1>5. CASE Update!Applies(w)
  <2>1. /\ updateUpdate[w] = Update!NoUpdate /\ updateUpdate' = [updateUpdate EXCEPT ![w].worker = updateWaiting] /\ w \notin changed /\ updateWaiting # 0
        /\ UNCHANGED <<updatePage, registered, changed, updateWaiting>>
    BY <1>5 DEF Update!Applies, Update!workers
  <2>2. updateWaiting \in Nat
    BY DEF WorkersInOrder
  <2>3. PICK r : r = [updateUpdate[w] EXCEPT !.worker = updateWaiting]
    OBVIOUS
  <2>4. r = [worker |-> updateWaiting, approved |-> FALSE, controlled |-> FALSE]
    <3>1. updateUpdate[w] = [worker |-> 0, approved |-> FALSE, controlled |-> FALSE]
      BY <2>1 DEF Update!NoUpdate
    <3>2. r = [[worker |-> 0, approved |-> FALSE, controlled |-> FALSE] EXCEPT !.worker = updateWaiting]
      BY <2>3, <3>1, Zenon
    <3> QED BY <3>2
  <2>5. r \in AskedUpdate
    BY <2>2, <2>4 DEF AskedUpdate
  <2>6. updateUpdate' = [updateUpdate EXCEPT ![w] = r]
    BY <1>0, <2>1, <2>3
  <2>7. WindowsFit'
    BY <1>0, <2>1, <2>5, <2>6 DEF WindowsFit, Update!Open
  <2>8. ASSUME NEW x \in Windows PROVE AskMoves(x)
    <3>1. CASE x = w
      <4>1. updateUpdate'[x] = r
        BY <1>0, <2>6, <3>1
      <4> QED BY <4>1, <2>1, <2>4, <3>1 DEF AskMoves
    <3>2. CASE x # w
      <4>1. updateUpdate'[x] = updateUpdate[x]
        BY <1>0, <2>6, <3>2
      <4> QED BY <4>1, <2>1 DEF AskMoves
    <3> QED BY <3>1, <3>2
  <2> QED BY <2>7, <2>8
<1>6. CASE Update!Answered(w)
  <2>1. CASE Update!Finished(w)
    BY <2>1, FinishedMoves
  <2>2. CASE updateUpdate' = [updateUpdate EXCEPT ![w] = Update!NoUpdate] /\ UNCHANGED <<updatePage, registered, changed>>
    <3>1. WindowsFit'
      BY <1>0, <2>2, NoUpdateIs DEF WindowsFit, Update!Open
    <3>2. \A x \in Windows : AskMoves(x)
      BY <1>0, <2>2 DEF AskMoves
    <3> QED BY <3>1, <3>2
  <2>3. CASE updateUpdate' = [updateUpdate EXCEPT ![w].approved = TRUE] /\ UNCHANGED <<updatePage, registered, changed, active>>
    <3>1. PICK r : r = [updateUpdate[w] EXCEPT !.approved = TRUE]
      OBVIOUS
    <3>2. r \in AskedUpdate /\ r.worker = updateUpdate[w].worker /\ r.controlled = updateUpdate[w].controlled
      BY <1>0, <3>1 DEF AskedUpdate
    <3>3. updateUpdate' = [updateUpdate EXCEPT ![w] = r]
      BY <1>0, <2>3, <3>1
    <3>4. WindowsFit'
      BY <1>0, <2>3, <3>2, <3>3 DEF WindowsFit, Update!Open
    <3>5. ASSUME NEW x \in Windows PROVE AskMoves(x)
      <4>1. updateUpdate'[x] = IF x = w THEN r ELSE updateUpdate[x]
        BY <1>0, <3>3
      <4> QED BY <4>1, <2>3, <3>2 DEF AskMoves
    <3> QED BY <3>4, <3>5
  <2> QED BY <1>6, <2>1, <2>2, <2>3 DEF Update!Answered, Update!workers
<1>7. CASE Update!ControllerChanged(w)
  <2>1. CASE Update!Finished(w)
    BY <2>1, FinishedMoves
  <2>2. CASE updateUpdate' = updateUpdate /\ changed' = changed \ {w} /\ UNCHANGED <<updatePage, registered>>
    BY <1>0, <2>2 DEF WindowsFit, Update!Open, AskMoves
  <2>3. CASE w \in changed /\ updateUpdate' = [updateUpdate EXCEPT ![w].controlled = TRUE] /\ changed' = changed \ {w} /\ UNCHANGED <<updatePage, registered, active>>
    <3>1. PICK r : r = [updateUpdate[w] EXCEPT !.controlled = TRUE]
      OBVIOUS
    <3>2. r \in AskedUpdate /\ r.worker = updateUpdate[w].worker
      BY <1>0, <3>1 DEF AskedUpdate
    <3>3. updateUpdate' = [updateUpdate EXCEPT ![w] = r]
      BY <1>0, <2>3, <3>1
    <3>4. WindowsFit'
      BY <1>0, <2>3, <3>2, <3>3 DEF WindowsFit, Update!Open
    <3>5. ASSUME NEW x \in Windows PROVE AskMoves(x)
      <4>1. updateUpdate'[x] = IF x = w THEN r ELSE updateUpdate[x]
        BY <1>0, <3>3
      <4> QED BY <4>1, <2>3, <3>2 DEF AskMoves
    <3> QED BY <3>4, <3>5
  <2> QED BY <1>7, <2>1, <2>2, <2>3 DEF Update!ControllerChanged, Update!workers
<1>8. CASE Update!TimesOut(w)
  <2>1. updateUpdate' = [updateUpdate EXCEPT ![w] = Update!NoUpdate] /\ UNCHANGED <<updatePage, registered, changed>>
    BY <1>8 DEF Update!TimesOut
  <2>2. WindowsFit'
    BY <1>0, <2>1, NoUpdateIs DEF WindowsFit, Update!Open
  <2>3. \A x \in Windows : AskMoves(x)
    BY <1>0, <2>1 DEF AskMoves
  <2> QED BY <2>2, <2>3
<1>9. CASE Update!Forgets(w) \/ Update!Looks(w) \/ Update!Skips(w) \/ Update!Reads(w)
  <2>1. UNCHANGED <<updateUpdate, updatePage, registered, changed>>
    BY <1>9 DEF Update!Forgets, Update!Looks, Update!Skips, Update!Reads, Update!windows
  <2> QED BY <1>0, <2>1 DEF WindowsFit, Update!Open, AskMoves
<1> QED BY <1>1, <1>2, <1>3, <1>4, <1>5, <1>6, <1>7, <1>8, <1>9 DEF Update!InWindow

LEMMA AUStep == ASSUME AUInv, [Update!Next]_(Update!vars) PROVE AUInv'
<1>1. WorkersInOrder /\ WorkersInOrder' /\ WorkersMoved
  BY WorkersMove DEF AUInv
<1>2. WindowsFit
  BY DEF AUInv, WindowsFit
<1>3. WindowsFit' /\ (\A x \in Windows : AskMoves(x))
  <2>1. CASE \E w \in Windows : Update!InWindow(w)
    BY <1>1, <1>2, <2>1, WindowMoves
  <2>2. CASE Update!Activates
    <3>1. UNCHANGED <<updateUpdate, updatePage, registered>> /\ updateWaiting # 0 /\ active' = updateWaiting
      BY <2>2 DEF Update!Activates
    <3> QED BY <1>2, <3>1 DEF WindowsFit, Update!Open, AskMoves
  <2>3. CASE Update!Deploys \/ Update!Stores \/ Update!InstallFails \/ Update!Installed \/ Update!Puts \/ UNCHANGED Update!vars
    <3>1. UNCHANGED <<updateUpdate, updatePage, registered, changed>>
      BY <2>3 DEF Update!Deploys, Update!Stores, Update!InstallFails, Update!Installed,
           Update!Puts, Update!vars, Update!windows
    <3> QED BY <1>2, <3>1 DEF WindowsFit, Update!Open, AskMoves
  <2> QED BY <2>1, <2>2, <2>3 DEF Update!Next
<1>4. ASSUME NEW w \in Windows PROVE AskedFor(w)'
  <2>1. updateUpdate[w] \in AskedUpdate /\ updateUpdate'[w] \in AskedUpdate /\ AskedFor(w) /\ AskMoves(w)
    BY <1>2, <1>3 DEF WindowsFit, AUInv
  <2> QED BY <1>1, <2>1, AskStays
<1> QED BY <1>1, <1>3, <1>4 DEF AUInv, WindowsFit

(* A document is replaced by finish only, whose window does not play and has    *)
(* the controller it waited for.                                              *)
LEMMA ReplacedInPeace == ASSUME AUInv, [Update!Next]_(Update!vars) PROVE Update!UpdatesInPeace
<1> SUFFICES ASSUME NEW w \in Windows, w \in registered, w \notin registered', updatePage'[w] # "closed"
             PROVE  updatePage[w] # "playing" /\ active >= updateUpdate[w].worker
  BY DEF Update!UpdatesInPeace
<1>1. /\ updateUpdate[w] \in AskedUpdate /\ updatePage \in [Windows -> {"closed", "normal", "playing"}] /\ updatePage[w] # "closed"
      /\ AskedFor(w) /\ active \in Nat /\ updateUpdate[w].worker \in Nat
  BY DEF AUInv, Update!Open, AskedUpdate, WorkersInOrder
<1>2. PICK x \in Windows : Update!Opens(x) \/ Update!Closes(x) \/ Update!Answered(x) \/ Update!ControllerChanged(x)
  BY DEF Update!Next, Update!vars, Update!InWindow, Update!Deploys, Update!Stores,
       Update!InstallFails, Update!Installed, Update!Activates, Update!Puts, Update!Plays,
       Update!Ends, Update!Checks, Update!Applies, Update!TimesOut, Update!Forgets,
       Update!Looks, Update!Skips, Update!Reads, Update!windows
<1>3. ~Update!Opens(x) /\ ~Update!Closes(x)
  BY <1>1 DEF Update!Opens, Update!Closes, Update!Loaded, Update!Open
<1>4. Update!Finished(x)
  BY <1>2, <1>3 DEF Update!Answered, Update!ControllerChanged
<1>5. x = w /\ updatePage[w] # "playing"
  BY <1>4 DEF Update!Finished, Update!Loaded
<1>6. CASE Update!Answered(w)
  <2>1. updateUpdate[w].controlled \/ active = updateUpdate[w].worker
    BY <1>6 DEF Update!Answered
  <2> QED BY <1>1, <1>5, <2>1 DEF AskedFor, Asked
<1>7. CASE Update!ControllerChanged(w)
  <2>1. w \in changed
    BY <1>7 DEF Update!ControllerChanged
  <2> QED BY <1>1, <1>5, <2>1 DEF AskedFor, Asked
<1> QED BY <1>2, <1>3, <1>5, <1>6, <1>7

-------------------------------------------------------------------------------
(* The stack of dialogs.                                                                       *)
NoPage == DialogStack!Page \notin Dialogs

ElementType ==
  [at : DialogStack!Places, is : {"body", "none", "button", "row", "panel", "first", "initial", "option"}]
Outside == {DialogStack!Body, DialogStack!Element(DialogStack!Page, "button"), DialogStack!Element(DialogStack!Page, "row")}

(* An element of dialog d that can have the focus.                             *)
InDialog(e, d, lock, exp) ==
  /\ e \in ElementType /\ e.at = d
  /\ e.is \in {"first", "initial"} => d \notin lock
  /\ e.is = "option" => d \in exp

(* The stack: each dialog once, and the locked ones are on it.                  *)
StackInv(ls, lock, exp) ==
  /\ ls \in Seq(Dialogs) /\ \A i, j \in 1 .. Len(ls) : ls[i] = ls[j] => i = j
  /\ \A d \in lock : \E i \in 1 .. Len(ls) : ls[i] = d
(* The focus: in the top dialog, or outside if there is none.                   *)
FocusInv(ls, lock, exp, f) ==
  /\ f \in ElementType
  /\ ls # <<>> => f = DialogStack!Body \/ InDialog(f, DialogStack!Top(ls), lock, exp)
  /\ ls = <<>> => f \in Outside
(* The way back: the first dialog of an untangled stack leads home.             *)
HomeInv(ls, prev, h, t) ==
  /\ prev \in [Dialogs -> ElementType]
  /\ ls # <<>> => h \in Outside
  /\ ls # <<>> /\ ~t => prev[ls[1]] = h

DFInv ==
  /\ StackInv(layers, locked, expanded) /\ DOMAIN lastFocused = Dialogs
  /\ FocusInv(layers, locked, expanded, dialogsFocus) /\ HomeInv(layers, previous, home, tangled)

LEMMA ElementsAre ==
  /\ Outside \subseteq ElementType
  /\ DialogStack!None \in ElementType
  /\ \A d \in Dialogs : \A p \in {"panel", "first", "initial", "option"} :
       DialogStack!Element(d, p) \in ElementType /\ DialogStack!Element(d, p).at = d /\ DialogStack!Element(d, p).is = p
BY DEF Outside, ElementType, DialogStack!Element, DialogStack!Body, DialogStack!None,
     DialogStack!Page, DialogStack!Places

LEMMA ChoicesAre ==
  ASSUME NEW d \in Dialogs
  PROVE  /\ Len(DialogStack!Choices(d)) \in 2 .. 3 /\ DOMAIN DialogStack!Choices(d) = 1 .. Len(DialogStack!Choices(d))
         /\ DialogStack!Choices(d)[1] = DialogStack!Element(d, "first") /\ DialogStack!Choices(d)[2] = DialogStack!Element(d, "initial")
         /\ Len(DialogStack!Choices(d)) = 3 => d \in expanded /\ DialogStack!Choices(d)[3] = DialogStack!Element(d, "option")
<1>1. CASE d \in expanded
  BY <1>1 DEF DialogStack!Choices
<1>2. CASE d \notin expanded
  BY <1>2 DEF DialogStack!Choices
<1> QED BY <1>1, <1>2

LEMMA ChoiceIsInside ==
  ASSUME NEW d \in Dialogs, NEW lock, d \notin lock, NEW i \in 1 .. Len(DialogStack!Choices(d))
  PROVE  InDialog(DialogStack!Choices(d)[i], d, lock, expanded)
<1>1. CASE i = 1
  <2>1. DialogStack!Choices(d)[i] = DialogStack!Element(d, "first")
    BY <1>1, ChoicesAre
  <2> QED BY <2>1, ElementsAre DEF InDialog
<1>2. CASE i = 2
  <2>1. DialogStack!Choices(d)[i] = DialogStack!Element(d, "initial")
    BY <1>2, ChoicesAre
  <2> QED BY <2>1, ElementsAre DEF InDialog
<1>3. CASE i = 3
  <2>1. DialogStack!Choices(d)[i] = DialogStack!Element(d, "option") /\ d \in expanded
    BY <1>3, ChoicesAre
  <2> QED BY <2>1, ElementsAre DEF InDialog
<1> QED BY <1>1, <1>2, <1>3, ChoicesAre

LEMMA PanelIsInside ==
  ASSUME NEW d \in Dialogs, NEW lock, NEW exp
  PROVE  InDialog(DialogStack!Element(d, "panel"), d, lock, exp)
BY ElementsAre DEF InDialog

LEMMA RestoredIsInside ==
  ASSUME NEW d \in Dialogs, NEW lock, NEW last
  PROVE  InDialog(DialogStack!Restored(d, d \in lock, last), d, lock, expanded)
<1>1. CASE d \in lock
  BY <1>1, PanelIsInside DEF DialogStack!Restored
<1>2. CASE d \notin lock
  <2>1. PICK p : p = IF last = DialogStack!None THEN DialogStack!Element(d, "initial") ELSE last
    OBVIOUS
  <2>2. DialogStack!Restored(d, d \in lock, last) = IF DialogStack!IsChoice(d, p) THEN p ELSE DialogStack!Choices(d)[1]
    BY <1>2, <2>1 DEF DialogStack!Restored
  <2>3. InDialog(DialogStack!Choices(d)[1], d, lock, expanded)
    BY <1>2, ChoiceIsInside, ChoicesAre
  <2>4. ASSUME DialogStack!IsChoice(d, p) PROVE InDialog(p, d, lock, expanded)
    <3>1. PICK i \in DOMAIN DialogStack!Choices(d) : DialogStack!Choices(d)[i] = p
      BY <2>4 DEF DialogStack!IsChoice
    <3> QED BY <1>2, <3>1, ChoiceIsInside, ChoicesAre
  <2> QED BY <2>2, <2>3, <2>4
<1> QED BY <1>1, <1>2

LEMMA TopIs ==
  ASSUME NEW ls \in Seq(Dialogs), ls # <<>>
  PROVE  DialogStack!Top(ls) \in Dialogs /\ DialogStack!Top(ls) = ls[Len(ls)] /\ Len(ls) \in Nat \ {0}
BY EmptySeq DEF DialogStack!Top

(* Whatever takes the focus, the top dialog catches it.                         *)
LEMMA FocusesInside ==
  ASSUME NEW ls \in Seq(Dialogs), ls # <<>>, NEW lock, NEW last, NEW e,
         NoPage, DOMAIN last = Dialogs, DialogStack!Focuses(e, ls, lock, last),
         e.at = DialogStack!Top(ls) => InDialog(e, DialogStack!Top(ls), lock, expanded)
  PROVE  InDialog(dialogsFocus', DialogStack!Top(ls), lock, expanded) /\ DOMAIN lastFocused' = Dialogs
<1>1. DialogStack!Top(ls) \in Dialogs
  BY TopIs
<1>2. InDialog(DialogStack!Caught(e, ls, lock, last), DialogStack!Top(ls), lock, expanded)
  BY <1>1, RestoredIsInside DEF DialogStack!Caught
<1>3. dialogsFocus' = DialogStack!Caught(e, ls, lock, last)
  BY DEF DialogStack!Focuses
<1>4. DOMAIN lastFocused' = Dialogs
  BY DEF DialogStack!Focuses
<1> QED BY <1>2, <1>3, <1>4

LEMMA SaysFocusStaysInside == ASSUME NoPage, DFInv PROVE DialogStack!FocusStaysInside
<1> SUFFICES ASSUME layers # <<>>, dialogsFocus # DialogStack!Body PROVE dialogsFocus.at = DialogStack!Top(layers) /\ DialogStack!Takes(dialogsFocus, layers)
  BY DEF DialogStack!FocusStaysInside
<1>1. layers \in Seq(Dialogs) /\ InDialog(dialogsFocus, DialogStack!Top(layers), locked, expanded)
  BY DEF DFInv, StackInv, FocusInv
<1>2. DialogStack!Top(layers) \in Dialogs /\ DialogStack!Top(layers) = layers[Len(layers)] /\ Len(layers) \in Nat \ {0}
  BY <1>1, TopIs
<1>3. dialogsFocus.at = DialogStack!Top(layers) /\ dialogsFocus.at # DialogStack!Page /\ \E i \in DOMAIN layers : layers[i] = dialogsFocus.at
  BY <1>1, <1>2 DEF InDialog, NoPage
<1> QED BY <1>1, <1>3 DEF DialogStack!Takes, DialogStack!Connected, InDialog

LEMMA DFInit == ASSUME NoPage, DialogStack!Init PROVE DFInv
<1>1. layers = <<>> /\ locked = {} /\ dialogsFocus \in Outside /\ previous = [d \in Dialogs |-> DialogStack!None]
      /\ lastFocused = [d \in Dialogs |-> DialogStack!None]
  BY DEF DialogStack!Init, Outside
<1>2. StackInv(layers, locked, expanded)
  BY <1>1 DEF StackInv
<1>3. FocusInv(layers, locked, expanded, dialogsFocus)
  BY <1>1, ElementsAre DEF FocusInv
<1>4. HomeInv(layers, previous, home, tangled)
  BY <1>1, ElementsAre DEF HomeInv
<1> QED BY <1>1, <1>2, <1>3, <1>4 DEF DFInv
-------------------------------------------------------------------------------
(* A dialog opens.                                                            *)
LEMMA OpensKeeps ==
  ASSUME NoPage, DFInv, NEW d \in Dialogs, DialogStack!Opens(d)
  PROVE  DFInv'
<1>0. /\ layers \in Seq(Dialogs) /\ (\A i, j \in 1 .. Len(layers) : layers[i] = layers[j] => i = j)
      /\ \A x \in locked : \E i \in 1 .. Len(layers) : layers[i] = x
      /\ DOMAIN lastFocused = Dialogs /\ dialogsFocus \in ElementType /\ previous \in [Dialogs -> ElementType]
      /\ layers = <<>> => dialogsFocus \in Outside
      /\ layers # <<>> => home \in Outside
      /\ layers # <<>> /\ ~tangled => previous[layers[1]] = home
  BY DEF DFInv, StackInv, FocusInv, HomeInv
<1>1. PICK lock \in BOOLEAN, to \in {dialogsFocus, DialogStack!Element(DialogStack!Page, "button")} :
        /\ layers' = Append(layers, d) /\ locked' = (IF lock THEN locked \union {d} ELSE locked)
        /\ previous' = [previous EXCEPT ![d] = to]
        /\ DialogStack!Focuses(DialogStack!Restored(d, lock, DialogStack!None), Append(layers, d), IF lock THEN locked \union {d} ELSE locked,
                   [lastFocused EXCEPT ![d] = DialogStack!None])
        /\ home' = IF layers = <<>> THEN to ELSE home
  BY DEF DialogStack!Opens
<1>2. expanded' = expanded /\ tangled' = tangled /\ \A i \in 1 .. Len(layers) : layers[i] # d
  BY <1>0 DEF DialogStack!Opens, DialogStack!Open
<1>3. PICK ls : ls = Append(layers, d)
  OBVIOUS
<1>4. /\ ls \in Seq(Dialogs) /\ Len(ls) = Len(layers) + 1 /\ ls[Len(ls)] = d /\ Len(layers) \in Nat
      /\ \A i \in 1 .. Len(layers) : ls[i] = layers[i]
  BY <1>0, <1>3
<1>5. ls # <<>> /\ DialogStack!Top(ls) = d
  BY <1>4 DEF DialogStack!Top
<1>6. PICK lk : lk = IF lock THEN locked \union {d} ELSE locked
  OBVIOUS
<1>7. d \in lk <=> lock
  BY <1>0, <1>2, <1>6
<1>8. layers' = ls /\ locked' = lk
  BY <1>1, <1>3, <1>6
<1>9. StackInv(ls, lk, expanded)
  <2>1. \A i, j \in 1 .. Len(ls) : ls[i] = ls[j] => i = j
    BY <1>0, <1>2, <1>4
  <2>2. ASSUME NEW x \in lk PROVE \E i \in 1 .. Len(ls) : ls[i] = x
    <3>1. CASE x = d
      BY <1>4, <3>1
    <3>2. CASE x # d
      <4>1. PICK i \in 1 .. Len(layers) : layers[i] = x
        BY <1>0, <1>6, <3>2
      <4> QED BY <1>4, <4>1
    <3> QED BY <3>1, <3>2
  <2> QED BY <1>4, <2>1, <2>2 DEF StackInv
<1>10. InDialog(dialogsFocus', d, lk, expanded) /\ DOMAIN lastFocused' = Dialogs
  <2>1. PICK last : last = [lastFocused EXCEPT ![d] = DialogStack!None]
    OBVIOUS
  <2>2. PICK e : e = DialogStack!Restored(d, lock, DialogStack!None)
    OBVIOUS
  <2>3. DOMAIN last = Dialogs
    BY <1>0, <2>1
  <2>4. DialogStack!Focuses(e, ls, lk, last)
    BY <1>1, <1>3, <1>6, <2>1, <2>2
  <2>5. InDialog(DialogStack!Restored(d, d \in lk, DialogStack!None), d, lk, expanded)
    BY RestoredIsInside
  <2>6. (d \in lk) = lock
    BY <1>7
  <2>7. InDialog(e, d, lk, expanded)
    BY <2>2, <2>5, <2>6
  <2> QED BY <1>4, <1>5, <2>3, <2>4, <2>7, FocusesInside
<1>11. FocusInv(ls, lk, expanded, dialogsFocus')
  BY <1>5, <1>10 DEF FocusInv, InDialog
<1>12. to \in ElementType /\ (layers = <<>> => to \in Outside)
  BY <1>0, <1>1, ElementsAre DEF Outside
<1>13. HomeInv(ls, previous', home', tangled)
  <2>1. previous' \in [Dialogs -> ElementType] /\ previous'[d] = to
    BY <1>0, <1>1, <1>12
  <2>2. CASE layers = <<>>
    <3>1. ls[1] = d /\ home' = to
      BY <1>1, <1>4, <2>2
    <3> QED BY <1>12, <2>1, <2>2, <3>1 DEF HomeInv
  <2>3. CASE layers # <<>>
    <3>1. Len(layers) >= 1
      BY <1>0, <1>4, <2>3, EmptySeq
    <3>2. ls[1] = layers[1] /\ layers[1] # d /\ home' = home
      BY <1>1, <1>2, <1>4, <2>3, <3>1
    <3>3. previous'[layers[1]] = previous[layers[1]]
      BY <1>0, <1>1, <3>1, <3>2
    <3> QED BY <1>0, <2>1, <2>3, <3>2, <3>3 DEF HomeInv
  <2> QED BY <2>2, <2>3
<1> QED BY <1>2, <1>8, <1>9, <1>10, <1>11, <1>13 DEF DFInv

-------------------------------------------------------------------------------
(* A dialog leaves the stack: those above it move down.                         *)
LEMMA StackWithout ==
  ASSUME NEW ls \in Seq(Dialogs), \A i, j \in 1 .. Len(ls) : ls[i] = ls[j] => i = j,
         NEW k \in 1 .. Len(ls), NEW d, d = ls[k]
  PROVE  /\ DialogStack!WithoutDialog(ls, d) \in Seq(Dialogs) /\ Len(DialogStack!WithoutDialog(ls, d)) = Len(ls) - 1
         /\ \A i \in 1 .. Len(ls) - 1 :
              DialogStack!WithoutDialog(ls, d)[i] = IF i < k THEN ls[i] ELSE ls[i + 1]
<1>0. Len(ls) \in Nat /\ DOMAIN ls = 1 .. Len(ls) /\ \A i \in 1 .. Len(ls) : ls[i] \in Dialogs
  OBVIOUS
<1>1. (CHOOSE i \in DOMAIN ls : ls[i] = d) = k
  BY <1>0
<1>2. DialogStack!WithoutDialog(ls, d) = [i \in 1 .. Len(ls) - 1 |-> IF i < k THEN ls[i] ELSE ls[i + 1]]
  BY <1>1, Zenon DEF DialogStack!WithoutDialog
<1>3. PICK w : w = [i \in 1 .. Len(ls) - 1 |-> IF i < k THEN ls[i] ELSE ls[i + 1]]
  OBVIOUS
<1>4. \A i \in 1 .. Len(ls) - 1 : w[i] = IF i < k THEN ls[i] ELSE ls[i + 1]
  BY <1>3
<1>5. \A i \in 1 .. Len(ls) - 1 : w[i] \in Dialogs
  BY <1>0, <1>4
<1>6. w \in [1 .. Len(ls) - 1 -> Dialogs] /\ Len(ls) - 1 \in Nat
  BY <1>0, <1>3, <1>5
<1>7. w \in Seq(Dialogs) /\ Len(w) = Len(ls) - 1
  BY <1>6, IsASeq, LenProperties
<1> QED BY <1>2, <1>3, <1>4, <1>7

LeavesRest(ls, k, d, lock, exp) ==
  /\ StackInv(ls, lock \ {d}, exp \ {d}) /\ Len(ls) = Len(layers) - 1
  /\ \A i \in 1 .. Len(ls) : ls[i] # d
  /\ k # Len(layers) => ls # <<>> /\ DialogStack!Top(ls) = DialogStack!Top(layers)
  /\ k = Len(layers) => \A i \in 1 .. Len(ls) : ls[i] = layers[i]

LEMMA StackKeepsRest ==
  ASSUME NEW lock, NEW exp, StackInv(layers, lock, exp), layers # <<>>, NEW k \in 1 .. Len(layers), NEW d, d = layers[k],
         NEW ls, ls = DialogStack!WithoutDialog(layers, d)
  PROVE  LeavesRest(ls, k, d, lock, exp)
<1>0. layers \in Seq(Dialogs) /\ (\A i, j \in 1 .. Len(layers) : layers[i] = layers[j] => i = j)
      /\ \A x \in lock : \E i \in 1 .. Len(layers) : layers[i] = x
  BY DEF StackInv
<1>1. /\ ls \in Seq(Dialogs) /\ Len(ls) = Len(layers) - 1 /\ Len(layers) \in Nat /\ Len(ls) \in Nat
      /\ \A i \in 1 .. Len(layers) - 1 : ls[i] = IF i < k THEN layers[i] ELSE layers[i + 1]
  BY <1>0, StackWithout
<1>2. \A i \in 1 .. Len(ls) : ls[i] # d
  BY <1>0, <1>1
<1>3. \A i, j \in 1 .. Len(ls) : ls[i] = ls[j] => i = j
  <2> SUFFICES ASSUME NEW i \in 1 .. Len(ls), NEW j \in 1 .. Len(ls), ls[i] = ls[j] PROVE i = j
    OBVIOUS
  <2>1. PICK x \in 1 .. Len(layers) : ls[i] = layers[x] /\ x = IF i < k THEN i ELSE i + 1
    BY <1>1
  <2>2. PICK y \in 1 .. Len(layers) : ls[j] = layers[y] /\ y = IF j < k THEN j ELSE j + 1
    BY <1>1
  <2>3. x = y
    BY <1>0, <2>1, <2>2
  <2> QED BY <1>1, <2>1, <2>2, <2>3
<1>4. ASSUME NEW x \in lock \ {d} PROVE \E i \in 1 .. Len(ls) : ls[i] = x
  <2>1. PICK j \in 1 .. Len(layers) : layers[j] = x
    BY <1>0, <1>4
  <2>2. j # k
    BY <1>4, <2>1
  <2>3. CASE j < k
    <3>1. j \in 1 .. Len(ls) /\ ls[j] = x
      BY <1>1, <2>1, <2>3
    <3> QED BY <3>1
  <2>4. CASE j > k
    <3>1. j - 1 \in 1 .. Len(ls) /\ ls[j - 1] = layers[j - 1 + 1]
      BY <1>1, <2>4
    <3>2. j - 1 + 1 = j
      BY <1>1
    <3> QED BY <2>1, <3>1, <3>2
  <2> QED BY <2>2, <2>3, <2>4
<1>5. ASSUME k # Len(layers) PROVE ls # <<>> /\ DialogStack!Top(ls) = DialogStack!Top(layers)
  <2>1. Len(ls) \in 1 .. Len(layers) - 1 /\ Len(ls) >= k /\ Len(ls) + 1 = Len(layers)
    BY <1>1, <1>5
  <2>2. PICK n \in 1 .. Len(layers) - 1 : n = Len(ls)
    BY <2>1
  <2>3. ls[n] = layers[n + 1] /\ n + 1 = Len(layers)
    <3>1. ls[n] = IF n < k THEN layers[n] ELSE layers[n + 1]
      BY <1>1
    <3>2. ~(n < k) /\ n + 1 = Len(layers)
      BY <2>1, <2>2
    <3> QED BY <3>1, <3>2
  <2>4. DialogStack!Top(ls) = DialogStack!Top(layers)
    BY <2>2, <2>3 DEF DialogStack!Top
  <2>5. ls # <<>>
    <3>1. Len(ls) # 0
      BY <2>1
    <3> QED BY <3>1
  <2> QED BY <2>4, <2>5
<1> QED BY <1>1, <1>2, <1>3, <1>4, <1>5 DEF StackInv, LeavesRest

LEMMA ClosedKeeps ==
  ASSUME NoPage, DFInv, NEW d \in Dialogs, d \in DialogStack!Open, DialogStack!Closed(d)
  PROVE  DFInv' /\ DialogStack!FocusComesBack
<1>0. /\ StackInv(layers, locked, expanded) /\ layers \in Seq(Dialogs) /\ DOMAIN lastFocused = Dialogs
      /\ dialogsFocus \in ElementType /\ previous \in [Dialogs -> ElementType]
      /\ layers # <<>> => dialogsFocus = DialogStack!Body \/ InDialog(dialogsFocus, DialogStack!Top(layers), locked, expanded)
      /\ layers # <<>> => home \in Outside
      /\ layers # <<>> /\ ~tangled => previous[layers[1]] = home
  BY DEF DFInv, StackInv, FocusInv, HomeInv
<1>1. PICK k \in 1 .. Len(layers) : layers[k] = d
  BY <1>0 DEF DialogStack!Open
<1>2. layers # <<>> /\ Len(layers) \in Nat \ {0}
  BY <1>0, <1>1, EmptySeq
<1>3. PICK ls : ls = DialogStack!WithoutDialog(layers, d)
  OBVIOUS
<1>4. /\ StackInv(ls, locked \ {d}, expanded \ {d}) /\ Len(ls) = Len(layers) - 1
      /\ \A i \in 1 .. Len(ls) : ls[i] # d
      /\ k # Len(layers) => ls # <<>> /\ DialogStack!Top(ls) = DialogStack!Top(layers)
      /\ k = Len(layers) => \A i \in 1 .. Len(ls) : ls[i] = layers[i]
  <2>1. d = layers[k]
    BY <1>1
  <2>2. StackInv(layers, locked, expanded) /\ layers # <<>>
    BY <1>0, <1>2
  <2>3. LeavesRest(ls, k, d, locked, expanded)
    BY <1>1, <1>3, <2>1, <2>2, StackKeepsRest
  <2> QED BY <2>3 DEF LeavesRest
<1>5. ls \in Seq(Dialogs) /\ Len(ls) \in Nat /\ (ls = <<>> <=> Len(ls) = 0)
  BY <1>4, EmptySeq DEF StackInv
<1>6. DialogStack!Top(layers) = d <=> k = Len(layers)
  BY <1>0, <1>1, <1>2 DEF DialogStack!Top, StackInv
<1>7. PICK last : last = [lastFocused EXCEPT ![d] = DialogStack!None]
  OBVIOUS
<1>8. /\ layers' = ls /\ locked' = locked \ {d} /\ expanded' = expanded \ {d}
      /\ previous' = [previous EXCEPT ![d] = DialogStack!None] /\ dialogsRow' = dialogsRow
      /\ home' = IF ls = <<>> THEN DialogStack!None ELSE home
      /\ tangled' = (ls # <<>> /\ (tangled \/ ~(DialogStack!Top(layers) = d)))
  BY <1>3 DEF DialogStack!Closed
<1>9. IF DialogStack!Top(layers) = d /\ DialogStack!Takes(previous[d], ls)
      THEN DialogStack!Focuses(previous[d], ls, locked \ {d}, last)
      ELSE dialogsFocus' = (IF dialogsFocus.at = d THEN DialogStack!Body ELSE dialogsFocus) /\ lastFocused' = last
  BY <1>3, <1>7 DEF DialogStack!Closed, DialogStack!Returned
<1>10. DOMAIN last = Dialogs /\ previous[d] \in ElementType
  BY <1>0, <1>7
<1>11. ls # <<>> => DialogStack!Top(ls) \in Dialogs /\ DialogStack!Top(ls) # d
  <2> SUFFICES ASSUME ls # <<>> PROVE DialogStack!Top(ls) \in Dialogs /\ DialogStack!Top(ls) # d
    OBVIOUS
  <2>1. Len(ls) \in 1 .. Len(ls) /\ DialogStack!Top(ls) = ls[Len(ls)] /\ DialogStack!Top(ls) \in Dialogs
    BY <1>5, TopIs
  <2> QED BY <1>4, <2>1
<1>12. DialogStack!Body \in ElementType /\ DialogStack!Body \in Outside
  BY ElementsAre DEF Outside
<1>13. FocusInv(ls, locked \ {d}, expanded \ {d}, dialogsFocus') /\ DOMAIN lastFocused' = Dialogs
  <2>1. CASE DialogStack!Top(layers) = d /\ DialogStack!Takes(previous[d], ls)
    <3>1. DialogStack!Focuses(previous[d], ls, locked \ {d}, last)
      BY <1>9, <2>1
    <3>2. CASE ls = <<>>
      <4>1. dialogsFocus' = previous[d] /\ DOMAIN lastFocused' = Dialogs
        BY <1>10, <3>1, <3>2 DEF DialogStack!Focuses, DialogStack!Caught
      <4>2. (previous[d].at = DialogStack!Page /\ previous[d].is \in {"button", "row"}) \/ previous[d] = DialogStack!Body
        BY <1>10, <2>1, <3>2 DEF DialogStack!Takes, DialogStack!Connected
      <4>3. previous[d] \in Outside
        BY <1>10, <4>2 DEF Outside, DialogStack!Element, ElementType
      <4> QED BY <1>10, <3>2, <4>1, <4>3 DEF FocusInv
    <3>3. CASE ls # <<>>
      <4>1. previous[d].at = DialogStack!Top(ls) => InDialog(previous[d], DialogStack!Top(ls), locked \ {d}, expanded)
        BY <1>10, <1>11, <2>1, <3>3 DEF InDialog, DialogStack!Takes, DialogStack!Connected, NoPage
      <4>2. InDialog(dialogsFocus', DialogStack!Top(ls), locked \ {d}, expanded) /\ DOMAIN lastFocused' = Dialogs
        BY <1>5, <1>10, <3>1, <3>3, <4>1, FocusesInside
      <4> QED BY <1>11, <3>3, <4>2 DEF FocusInv, InDialog
    <3> QED BY <3>2, <3>3
  <2>2. CASE ~(DialogStack!Top(layers) = d /\ DialogStack!Takes(previous[d], ls))
    <3>1. dialogsFocus' = (IF dialogsFocus.at = d THEN DialogStack!Body ELSE dialogsFocus) /\ lastFocused' = last
      BY <1>9, <2>2
    <3>2. CASE DialogStack!Top(layers) = d
      <4>1. dialogsFocus' = DialogStack!Body
        BY <1>0, <1>2, <3>1, <3>2 DEF InDialog
      <4> QED BY <1>10, <1>12, <3>1, <4>1 DEF FocusInv
    <3>3. CASE DialogStack!Top(layers) # d
      <4>1. ls # <<>> /\ DialogStack!Top(ls) = DialogStack!Top(layers)
        BY <1>4, <1>6, <3>3
      <4>2. CASE dialogsFocus = DialogStack!Body
        <5>1. dialogsFocus' = DialogStack!Body
          BY <3>1, <4>2
        <5> QED BY <1>10, <1>12, <3>1, <4>1, <5>1 DEF FocusInv
      <4>3. CASE dialogsFocus # DialogStack!Body
        <5>1. InDialog(dialogsFocus, DialogStack!Top(layers), locked, expanded)
          BY <1>0, <1>2, <4>3
        <5>2. dialogsFocus' = dialogsFocus
          BY <3>1, <3>3, <5>1 DEF InDialog
        <5>3. InDialog(dialogsFocus, DialogStack!Top(ls), locked \ {d}, expanded \ {d})
          BY <3>3, <4>1, <5>1 DEF InDialog
        <5> QED BY <1>0, <1>10, <3>1, <4>1, <5>2, <5>3 DEF FocusInv
      <4> QED BY <4>2, <4>3
    <3> QED BY <3>2, <3>3
  <2> QED BY <2>1, <2>2
<1>14. HomeInv(ls, previous', home', tangled')
  <2>1. previous' \in [Dialogs -> ElementType]
    BY <1>0, <1>8, ElementsAre
  <2>2. ASSUME ls # <<>>, ~tangled' PROVE previous'[ls[1]] = home
    <3>1. k = Len(layers) /\ ~tangled
      BY <1>6, <1>8, <2>2
    <3>2. 1 \in 1 .. Len(ls)
      BY <1>5, <2>2
    <3>3. ls[1] = layers[1] /\ ls[1] # d /\ ls[1] \in Dialogs
      BY <1>4, <1>5, <3>1, <3>2
    <3>4. previous'[ls[1]] = previous[layers[1]]
      BY <1>0, <1>8, <3>3
    <3> QED BY <1>0, <1>2, <3>1, <3>4
  <2> QED BY <1>0, <1>2, <1>8, <2>1, <2>2 DEF HomeInv
<1>15. DFInv'
  BY <1>4, <1>8, <1>13, <1>14 DEF DFInv
<1>16. DialogStack!FocusComesBack
  <2> SUFFICES ASSUME layers' = <<>>, ~tangled, home # DialogStack!Body, home.is = "row" => dialogsRow PROVE dialogsFocus' = home
    BY DEF DialogStack!FocusComesBack
  <2>1. ls = <<>> /\ Len(layers) = 1
    BY <1>2, <1>4, <1>5, <1>8
  <2>2. k = 1 /\ DialogStack!Top(layers) = d /\ previous[d] = home /\ home \in Outside
    BY <1>0, <1>1, <1>2, <1>6, <2>1
  <2>3. home \in {DialogStack!Element(DialogStack!Page, "button"), DialogStack!Element(DialogStack!Page, "row")}
    BY <2>2 DEF Outside
  <2>4. home.at = DialogStack!Page /\ home.is \in {"button", "row"}
    BY <2>3 DEF DialogStack!Element
  <2>5. DialogStack!Takes(home, ls)
    BY <2>4 DEF DialogStack!Takes, DialogStack!Connected
  <2>6. DialogStack!Focuses(home, ls, locked \ {d}, last)
    BY <1>9, <2>2, <2>5
  <2> QED BY <2>1, <2>6 DEF DialogStack!Focuses, DialogStack!Caught
<1> QED BY <1>15, <1>16

-------------------------------------------------------------------------------
(* The rest leaves the stack alone.                                            *)
LEMMA FocusKeeps ==
  ASSUME NoPage, DFInv, UNCHANGED <<layers, previous, home, tangled>>,
         \A d \in locked' : d \in locked \/ d \in DialogStack!Open,
         FocusInv(layers, locked', expanded', dialogsFocus'), DOMAIN lastFocused' = Dialogs
  PROVE  DFInv'
<1>1. StackInv(layers, locked', expanded')
  <2>1. \A d \in locked' : \E i \in 1 .. Len(layers) : layers[i] = d
    BY DEF DFInv, StackInv, DialogStack!Open
  <2> QED BY <2>1 DEF DFInv, StackInv
<1> QED BY <1>1 DEF DFInv

LEMMA CatchKeeps ==
  ASSUME NoPage, DFInv, UNCHANGED <<layers, expanded, previous, home, tangled>>, NEW lock, locked' = lock,
         \A d \in lock : d \in locked \/ d \in DialogStack!Open, NEW e, e \in ElementType,
         DialogStack!Focuses(e, layers, lock, lastFocused),
         layers # <<>> /\ e.at = DialogStack!Top(layers) => InDialog(e, DialogStack!Top(layers), lock, expanded),
         layers = <<>> => e \in Outside
  PROVE  DFInv'
<1>1. layers \in Seq(Dialogs) /\ DOMAIN lastFocused = Dialogs
  BY DEF DFInv, StackInv
<1>2. FocusInv(layers, lock, expanded, dialogsFocus') /\ DOMAIN lastFocused' = Dialogs
  <2>1. CASE layers = <<>>
    <3>1. dialogsFocus' = e
      BY <2>1 DEF DialogStack!Focuses, DialogStack!Caught
    <3>2. DOMAIN lastFocused' = Dialogs
      BY <1>1 DEF DialogStack!Focuses
    <3> QED BY <2>1, <3>1, <3>2 DEF FocusInv
  <2>2. CASE layers # <<>>
    <3>1. InDialog(dialogsFocus', DialogStack!Top(layers), lock, expanded) /\ DOMAIN lastFocused' = Dialogs
      BY <1>1, <2>2, FocusesInside
    <3> QED BY <2>2, <3>1 DEF FocusInv, InDialog
  <2> QED BY <2>1, <2>2
<1> QED BY <1>2, FocusKeeps

LEMMA DFStep == ASSUME NoPage, DFInv, [DialogStack!Next]_(DialogStack!vars) PROVE DFInv' /\ DialogStack!FocusComesBack
<1>0. /\ layers \in Seq(Dialogs) /\ DOMAIN lastFocused = Dialogs /\ dialogsFocus \in ElementType
      /\ layers # <<>> => dialogsFocus = DialogStack!Body \/ InDialog(dialogsFocus, DialogStack!Top(layers), locked, expanded)
      /\ layers = <<>> => dialogsFocus \in Outside
      /\ layers # <<>> => DialogStack!Top(layers) \in Dialogs /\ DialogStack!Top(layers) \in DialogStack!Open
  <2>1. layers \in Seq(Dialogs)
    BY DEF DFInv, StackInv
  <2>2. layers # <<>> => DialogStack!Top(layers) \in Dialogs /\ DialogStack!Top(layers) \in DialogStack!Open
    BY <2>1, TopIs DEF DialogStack!Open
  <2> QED BY <2>1, <2>2 DEF DFInv, FocusInv
<1>1. ASSUME NEW d \in Dialogs, DialogStack!Opens(d) PROVE DFInv' /\ layers' # <<>>
  <2>1. layers' # <<>>
    BY <1>0, <1>1 DEF DialogStack!Opens
  <2> QED BY <1>1, <2>1, OpensKeeps
<1>2. ASSUME NEW d \in Dialogs, DialogStack!Closes(d) PROVE DFInv' /\ DialogStack!FocusComesBack
  BY <1>2, ClosedKeeps DEF DialogStack!Closes
<1>3. ASSUME NEW d \in Dialogs, DialogStack!Locks(d) PROVE DFInv' /\ layers' = layers
  <2>1. PICK locks : locks = IF d \in locked THEN locked \ {d} ELSE locked \union {d}
    OBVIOUS
  <2>2. /\ d \in DialogStack!Open /\ locked' = locks /\ UNCHANGED <<layers, expanded, previous, dialogsRow, home, tangled>>
        /\ IF DialogStack!Top(layers) = d THEN DialogStack!Focuses(DialogStack!Restored(d, d \in locks, lastFocused[d]), layers, locks, lastFocused)
           ELSE UNCHANGED <<dialogsFocus, lastFocused>>
    BY <1>3, <2>1 DEF DialogStack!Locks
  <2>3. layers # <<>>
    BY <1>0, <2>2 DEF DialogStack!Open
  <2>4. \A x \in locks : x \in locked \/ x \in DialogStack!Open
    BY <2>1, <2>2
  <2>5. CASE DialogStack!Top(layers) = d
    <3>1. InDialog(DialogStack!Restored(d, d \in locks, lastFocused[d]), d, locks, expanded)
      BY RestoredIsInside
    <3> QED BY <2>2, <2>3, <2>4, <2>5, <3>1, CatchKeeps DEF InDialog
  <2>6. CASE DialogStack!Top(layers) # d
    <3>1. dialogsFocus = DialogStack!Body \/ InDialog(dialogsFocus, DialogStack!Top(layers), locks, expanded)
      BY <1>0, <2>1, <2>3, <2>6 DEF InDialog
    <3>2. FocusInv(layers, locks, expanded, dialogsFocus)
      BY <1>0, <2>3, <3>1 DEF FocusInv
    <3> QED BY <1>0, <2>2, <2>4, <2>6, <3>2, FocusKeeps
  <2> QED BY <2>2, <2>5, <2>6
<1>4. ASSUME NEW e \in DialogStack!Elements, DialogStack!Moves(e) PROVE DFInv' /\ layers' = layers
  <2>1. DialogStack!Takes(e, layers) /\ DialogStack!Focuses(e, layers, locked, lastFocused) /\ UNCHANGED <<layers, locked, expanded, previous, dialogsRow, home, tangled>>
    BY <1>4 DEF DialogStack!Moves
  <2>2. e \in ElementType
    BY <1>4 DEF DialogStack!Elements, ElementType, DialogStack!Element, DialogStack!Places,
         DialogStack!Page
  <2>3. layers = <<>> => e \in Outside
    <3> SUFFICES ASSUME layers = <<>> PROVE e \in Outside
      OBVIOUS
    <3>1. e.at = DialogStack!Page /\ (e = DialogStack!Body \/ e.is \in {"button", "row"})
      BY <2>1 DEF DialogStack!Takes, DialogStack!Connected
    <3> QED BY <2>2, <3>1 DEF Outside, DialogStack!Element, ElementType
  <2>4. layers # <<>> /\ e.at = DialogStack!Top(layers) => InDialog(e, DialogStack!Top(layers), locked, expanded)
    BY <1>0, <2>1, <2>2 DEF InDialog, DialogStack!Takes, DialogStack!Connected, NoPage
  <2> QED BY <2>1, <2>2, <2>3, <2>4, CatchKeeps
<1>5. ASSUME DialogStack!Leaves PROVE DFInv' /\ layers' = layers
  <2>1. dialogsFocus' = DialogStack!Body /\ UNCHANGED <<layers, locked, expanded, lastFocused, previous, dialogsRow, home, tangled>>
    BY <1>5 DEF DialogStack!Leaves
  <2>2. FocusInv(layers, locked, expanded, DialogStack!Body)
    BY ElementsAre DEF FocusInv, Outside
  <2> QED BY <1>0, <2>1, <2>2, FocusKeeps
<1>6. ASSUME NEW back \in BOOLEAN, DialogStack!Tab(back) PROVE DFInv' /\ layers' = layers
  <2>1. PICK d : d = DialogStack!Top(layers)
    OBVIOUS
  <2>2. layers # <<>> /\ d \in Dialogs /\ UNCHANGED <<layers, locked, expanded, previous, dialogsRow, home, tangled>>
    BY <1>0, <1>6, <2>1 DEF DialogStack!Tab
  <2>3. \E to : DialogStack!Focuses(to, layers, locked, lastFocused) /\ InDialog(to, d, locked, expanded)
    <3>1. CASE d \in locked
      <4>1. DialogStack!Focuses(DialogStack!Element(d, "panel"), layers, locked, lastFocused)
        BY <1>6, <2>1, <3>1 DEF DialogStack!Tab
      <4> QED BY <2>2, <4>1, PanelIsInside
    <3>2. CASE d \notin locked
      <4>1. \E i \in 1 .. Len(DialogStack!Choices(d)) : DialogStack!Focuses(DialogStack!Choices(d)[i], layers, locked, lastFocused)
        <5>1. Len(DialogStack!Choices(d)) \in 2 .. 3 /\ DOMAIN DialogStack!Choices(d) = 1 .. Len(DialogStack!Choices(d))
          BY <2>2, ChoicesAre
        <5>2. CASE ~DialogStack!IsChoice(d, dialogsFocus)
          <6>1. DialogStack!Focuses(DialogStack!Choices(d)[IF back THEN Len(DialogStack!Choices(d)) ELSE 1], layers, locked, lastFocused)
            BY <1>6, <2>1, <3>2, <5>2 DEF DialogStack!Tab
          <6> QED BY <5>1, <6>1
        <5>3. CASE DialogStack!IsChoice(d, dialogsFocus)
          <6>1. PICK n : n = Len(DialogStack!Choices(d))
            OBVIOUS
          <6>2. PICK i : i = CHOOSE j \in 1..n : DialogStack!Choices(d)[j] = dialogsFocus
            OBVIOUS
          <6>3. i \in 1 .. n
            BY <5>1, <5>3, <6>1, <6>2 DEF DialogStack!IsChoice
          <6>4. DialogStack!Focuses(DialogStack!Choices(d)[IF back THEN (IF i = 1 THEN n ELSE i - 1) ELSE (IF i = n THEN 1 ELSE i + 1)],
                        layers, locked, lastFocused)
            BY <1>6, <2>1, <3>2, <5>3, <6>1, <6>2 DEF DialogStack!Tab
          <6>5. (IF back THEN (IF i = 1 THEN n ELSE i - 1) ELSE (IF i = n THEN 1 ELSE i + 1)) \in 1 .. n
            <7>1. n \in Nat /\ i \in Nat /\ 1 <= i /\ i <= n
              BY <5>1, <6>1, <6>3
            <7>2. CASE back
              BY <7>1, <7>2
            <7>3. CASE ~back
              BY <7>1, <7>3
            <7> QED BY <7>2, <7>3
          <6> QED BY <6>1, <6>4, <6>5
        <5> QED BY <5>2, <5>3
      <4> QED BY <2>2, <3>2, <4>1, ChoiceIsInside
    <3> QED BY <3>1, <3>2
  <2>4. PICK to : DialogStack!Focuses(to, layers, locked, lastFocused) /\ InDialog(to, d, locked, expanded)
    BY <2>3
  <2> QED BY <2>1, <2>2, <2>4, CatchKeeps DEF InDialog
<1>7. ASSUME DialogStack!Escape PROVE DFInv' /\ DialogStack!FocusComesBack
  BY <1>0, <1>7, ClosedKeeps DEF DialogStack!Escape
<1>8. ASSUME DialogStack!Lists PROVE DFInv' /\ layers' = layers
  <2>1. PICK d : d = DialogStack!Top(layers)
    OBVIOUS
  <2>2. layers # <<>> /\ UNCHANGED <<layers, locked, lastFocused, previous, dialogsRow, home, tangled>>
    BY <1>8 DEF DialogStack!Lists
  <2>3. FocusInv(layers, locked, expanded', dialogsFocus')
    <3>1. CASE dialogsFocus = DialogStack!Element(d, "initial") /\ d \notin expanded /\ expanded' = expanded \union {d} /\ UNCHANGED dialogsFocus
      BY <1>0, <2>2, <3>1 DEF FocusInv, InDialog
    <3>2. CASE d \in expanded /\ expanded' = expanded \ {d} /\ dialogsFocus' = (IF dialogsFocus = DialogStack!Element(d, "option") THEN DialogStack!Body ELSE dialogsFocus)
      <4>1. CASE dialogsFocus = DialogStack!Body \/ dialogsFocus = DialogStack!Element(d, "option")
        <5>1. dialogsFocus' = DialogStack!Body
          BY <3>2, <4>1
        <5> QED BY <2>2, <5>1, ElementsAre DEF FocusInv, Outside
      <4>2. CASE dialogsFocus # DialogStack!Body /\ dialogsFocus # DialogStack!Element(d, "option")
        <5>1. dialogsFocus' = dialogsFocus /\ InDialog(dialogsFocus, d, locked, expanded)
          BY <1>0, <2>1, <2>2, <3>2, <4>2
        <5>2. dialogsFocus.is # "option"
          BY <1>0, <4>2, <5>1 DEF InDialog, DialogStack!Element, ElementType
        <5> QED BY <1>0, <2>1, <2>2, <5>1, <5>2 DEF FocusInv, InDialog
      <4> QED BY <4>1, <4>2
    <3> QED BY <1>8, <2>1, <3>1, <3>2 DEF DialogStack!Lists
  <2> QED BY <1>0, <2>2, <2>3, FocusKeeps
<1>9. ASSUME DialogStack!RowGoes PROVE DFInv' /\ layers' = layers
  <2>1. /\ dialogsFocus' = (IF dialogsFocus = DialogStack!Element(DialogStack!Page, "row") THEN DialogStack!Body ELSE dialogsFocus)
        /\ UNCHANGED <<layers, locked, expanded, lastFocused, previous, home, tangled>>
    BY <1>9 DEF DialogStack!RowGoes
  <2>2. FocusInv(layers, locked, expanded, DialogStack!Body) /\ FocusInv(layers, locked, expanded, dialogsFocus)
    BY <1>0, ElementsAre DEF FocusInv, Outside
  <2> QED BY <1>0, <2>1, <2>2, FocusKeeps
<1>10. ASSUME UNCHANGED DialogStack!vars PROVE DFInv' /\ layers' = layers
  <2>1. FocusInv(layers, locked, expanded, dialogsFocus)
    BY DEF DFInv
  <2> QED BY <1>0, <1>10, <2>1, FocusKeeps DEF DialogStack!vars
<1>11. layers' = layers \/ layers' # <<>> => DialogStack!FocusComesBack
  BY DEF DialogStack!FocusComesBack
<1> QED BY <1>1, <1>2, <1>3, <1>4, <1>5, <1>6, <1>7, <1>8, <1>9, <1>10, <1>11 DEF DialogStack!Next

-------------------------------------------------------------------------------
(* Pages: a behaviour is that of one of them.                                                 *)
PagesInv ==
  /\ pagesPart = "accounts" => SessionsAgree /\ PageIsTrue
  /\ pagesPart = "directories" => DInv
  /\ pagesPart = "update" => AUInv
  /\ pagesPart = "dialogs" => DFInv

LEMMA OnePage ==
  ASSUME [PagesNext]_pagesVars
  PROVE  /\ pagesPart' = pagesPart
         /\ pagesPart = "accounts" => [Accounts!Next]_(Accounts!vars)
         /\ pagesPart = "directories" => [Directories!Next]_(Directories!vars)
         /\ pagesPart = "update" => [Update!Next]_(Update!vars)
         /\ pagesPart = "dialogs" => [DialogStack!Next]_(DialogStack!vars)
<1>1. pagesPart' = pagesPart
  BY DEF PagesNext, pagesVars
<1>2. ASSUME pagesPart = "accounts" PROVE [Accounts!Next]_(Accounts!vars)
  BY <1>2 DEF PagesNext, pagesVars, accountsVars, Accounts!vars
<1>3. ASSUME pagesPart = "directories" PROVE [Directories!Next]_(Directories!vars)
  BY <1>3 DEF PagesNext, pagesVars, directoriesVars, Directories!vars
<1>4. ASSUME pagesPart = "update" PROVE [Update!Next]_(Update!vars)
  BY <1>4 DEF PagesNext, pagesVars, updateVars, Update!vars
<1>5. ASSUME pagesPart = "dialogs" PROVE [DialogStack!Next]_(DialogStack!vars)
  BY <1>5 DEF PagesNext, pagesVars, dialogsVars, DialogStack!vars
<1> QED BY <1>1, <1>2, <1>3, <1>4, <1>5

LEMMA AccountsStart ==
  ASSUME Accounts!Init
  PROVE  SessionsAgree /\ PageIsTrue
<1>1. SessionsAgree
  BY DEF Accounts!Init, SessionsAgree, AccountIsRecord
<1>2. PageIsTrue
  BY DEF Accounts!Init, PageIsTrue, AccountIsRecord, Shown, FormShown, Accounts!NoUser,
       Accounts!NotOpen
<1> QED BY <1>1, <1>2

LEMMA PagesStart ==
  ASSUME PagesConfigured, PagesInit
  PROVE  PagesInv
<1>1. ASSUME pagesPart = "accounts" PROVE SessionsAgree /\ PageIsTrue
  BY <1>1, AccountsStart DEF PagesInit
<1>2. ASSUME pagesPart = "directories" PROVE DInv
  BY <1>2, DInit DEF PagesInit, PagesConfigured
<1>3. ASSUME pagesPart = "update" PROVE AUInv
  BY <1>3, AUInit DEF PagesInit
<1>4. ASSUME pagesPart = "dialogs" PROVE DFInv
  BY <1>4, DFInit DEF PagesInit, PagesConfigured, NoPage, DialogStack!Page
<1> QED BY <1>1, <1>2, <1>3, <1>4 DEF PagesInv

LEMMA PagesStep ==
  ASSUME PagesConfigured, PagesInv, [PagesNext]_pagesVars
  PROVE  PagesInv'
<1>1. pagesPart' = pagesPart
  BY OnePage
<1>2. ASSUME pagesPart = "accounts" PROVE SessionsAgree' /\ PageIsTrue'
  BY <1>2, OnePage, SessionsStep, PageStep DEF PagesInv
<1>3. ASSUME pagesPart = "directories" PROVE DInv'
  BY <1>3, OnePage, DStep DEF PagesInv, PagesConfigured
<1>4. ASSUME pagesPart = "update" PROVE AUInv'
  BY <1>4, OnePage, AUStep DEF PagesInv
<1>5. ASSUME pagesPart = "dialogs" PROVE DFInv'
  BY <1>5, OnePage, DFStep DEF PagesInv, PagesConfigured, NoPage, DialogStack!Page
<1> QED BY <1>1, <1>2, <1>3, <1>4, <1>5 DEF PagesInv

LEMMA PagesAlways ==
  ASSUME PagesConfigured
  PROVE  PagesSpec => []PagesInv
<1>1. PagesInit => PagesInv
  BY PagesStart
<1>2. PagesInv /\ [PagesNext]_pagesVars => PagesInv'
  BY PagesStep
<1> QED BY <1>1, <1>2, PTL DEF PagesSpec

(* However logins, changes of the password, links and administrators overtake one another, no   *)
(* session that authenticates was opened with a credential that the account no longer has       *)
(* (FenceCredential, ResolveSession).                                                         *)
THEOREM SessionsStayCurrent == ASSUME PagesConfigured PROVE PagesSpec => []SessionsAreCurrent
<1>1. SessionsAgree => Accounts!SessionsAreCurrent
  BY DEF SessionsAgree, SessionAgrees, Accounts!SessionsAreCurrent, Accounts!Authenticates
<1>2. PagesInv => SessionsAreCurrent
  BY <1>1 DEF PagesInv, SessionsAreCurrent
<1> QED BY <1>2, PagesAlways, PTL

(* Whatever other administrators do while a form, a sheet or a dialog is open or its call is    *)
(* under way, a save or a deletion that succeeds replaces what the administrator was shown, and *)
(* a directory gets cores of its platform (the version checks of directories and UpdateUser).   *)
Replaces ==
  /\ pagesPart = "directories" => Directories!ReplacesWhatWasSeen
  /\ pagesPart = "accounts" => Accounts!ReplacesTheAccountShown
THEOREM SeenIsReplaced == ASSUME PagesConfigured PROVE PagesSpec => ReplacesWhatWasSeen
<1>1. PagesInv /\ [PagesNext]_pagesVars => [Replaces]_pagesVars
  BY OnePage, WritesOverTheSeen, WritesOverTheShown DEF PagesInv, Replaces, PagesConfigured
<1> QED BY <1>1, PagesAlways, PTL DEF PagesSpec, ReplacesWhatWasSeen, Replaces

(* However windows, versions and workers come and go, and whenever answers and controllers do:  *)
(* a document is replaced only in a window that does not play, and by the version that was      *)
(* asked for or a newer one (applyUpdate).                                                     *)
Replaced == pagesPart = "update" => Update!UpdatesInPeace
THEOREM UpdatesKeepThePeace == ASSUME PagesConfigured PROVE PagesSpec => UpdatesInPeace
<1>1. PagesInv /\ [PagesNext]_pagesVars => [Replaced]_pagesVars
  BY OnePage, ReplacedInPeace DEF PagesInv, Replaced
<1> QED BY <1>1, PagesAlways, PTL DEF PagesSpec, UpdatesInPeace, Replaced

(* In whatever order dialogs open, become busy and close: nothing behind the top one has the    *)
(* focus, and the last of them gives it back to where it was before the first (modal-focus.ts). *)
Focused == pagesPart = "dialogs" => DialogStack!FocusStaysInside /\ DialogStack!FocusComesBack
THEOREM FocusAlwaysComesBack == ASSUME PagesConfigured PROVE PagesSpec => FocusComesBack
<1>1. PagesInv /\ [PagesNext]_pagesVars => [Focused]_pagesVars
  BY OnePage, DFStep, SaysFocusStaysInside
     DEF PagesInv, PagesConfigured, NoPage, DialogStack!Page, Focused
<1> QED BY <1>1, PagesAlways, PTL DEF PagesSpec, FocusComesBack, Focused
================================================================================
