------------------------------ MODULE AccountAdmin ------------------------------
(***************************************************************************)
(* An account, its sessions and the links that administrators make           *)
(* (internal/service/accounts, persistence/accounts), beside the page that    *)
(* administers it (features/accounts).  A password is checked outside the     *)
(* transaction that uses the result; a link is made in a transaction whose    *)
(* statements see what is committed.  One account is managed, by the          *)
(* administrator of the page and by another one; version and session_version  *)
(* of an account always change together and are one number here.             *)
(***************************************************************************)
EXTENDS Naturals, FiniteSets

CONSTANTS
  LinkCount,      \* links that are made
  MaxVersion      \* bound: changes of the account

VARIABLES
  user,      \* the account: status, version; `hash` numbers its credentials
  sessions,  \* its sessions that are not revoked, with the credential that opened them
  checked,   \* passwords that were verified: of a login, of a change; 0 if none
  links,     \* account_link_tab
  making,    \* links being made: by "page" and "other": the step they are at
  list,      \* UserManager: the account as listed; 0 versions: not read
  editing,   \* UserEditor's account: as it was listed, and as it was edited
  deleting,  \* the same for the dialog
  inviting,  \* the sheet for an invitation is open
  link,      \* AccountLinkDialog: the link that is shown in full, 0 if none is
  summary,   \* AccountLinkList: versions of the links it shows as active
  target,    \* its dialog: a link, and the version it had in the list
  call       \* the page is busy with it

vars == <<user, sessions, checked, links, making, list, editing, deleting, inviting, link, summary, target, call>>
server == <<user, sessions, checked, links>>
forms == <<editing, deleting, inviting>>
page == <<list, forms, link, summary, target, call>>

Links == 1..LinkCount
Creators == {"page", "other"}
Unmade == [state |-> "none", kind |-> "reset", version |-> 0]
NoUser == [status |-> "active", version |-> 0]
NoTarget == [id |-> 0, version |-> 0]
NotOpen == [on |-> FALSE, seen |-> NoUser, now |-> NoUser]
Row == [status |-> user.status, version |-> user.version]

Init ==
  /\ user = [status |-> "active", version |-> 1, hash |-> 1]
  /\ sessions = {} /\ checked = [login |-> 0, change |-> 0]
  /\ links = [l \in Links |-> Unmade] /\ making = [c \in Creators |-> "none"]
  /\ list = NoUser /\ editing = NotOpen /\ deleting = NotOpen /\ inviting = FALSE
  /\ link = 0 /\ summary = [l \in Links |-> 0] /\ target = NoTarget /\ call = "none"
-------------------------------------------------------------------------------
(* Sessions.                                                                 *)
Authenticates(s) == s \in sessions /\ user.status = "active" /\ s.version = user.version
Session(version, hash) == [version |-> version, hash |-> hash]

\* Slip: the status is looked at again, but not the credential.
SlipFenced(hash) == user.status = "active"

(* FenceCredential: the credential is the one that was verified, and the       *)
(* account is active; both are locked until the transaction ends.             *)
Fenced(hash) == user.hash = hash /\ user.status = "active"

LoginVerified ==
  /\ checked.login = 0 /\ user.status = "active"
  /\ checked' = [checked EXCEPT !.login = user.hash]
  /\ UNCHANGED <<user, sessions, links, making, page>>
LoginCommits ==
  /\ checked.login # 0 /\ checked' = [checked EXCEPT !.login = 0]
  /\ sessions' = IF Fenced(checked.login) THEN sessions \union {Session(user.version, checked.login)} ELSE sessions
  /\ UNCHANGED <<user, links, making, page>>
Logout ==
  /\ \E s \in sessions : Authenticates(s) /\ sessions' = sessions \ {s}
  /\ UNCHANGED <<user, checked, links, making, page>>

(* ChangePassword by the user: the other sessions end, one begins.            *)
ChangeVerified ==
  /\ checked.change = 0 /\ \E s \in sessions : Authenticates(s)
  /\ checked' = [checked EXCEPT !.change = user.hash]
  /\ UNCHANGED <<user, sessions, links, making, page>>
ChangeCommits ==
  /\ checked.change # 0 /\ checked' = [checked EXCEPT !.change = 0]
  /\ IF Fenced(checked.change) /\ user.version < MaxVersion
     THEN /\ user' = [user EXCEPT !.hash = @ + 1, !.version = @ + 1]
          /\ sessions' = {Session(user.version + 1, user.hash + 1)}
     ELSE UNCHANGED <<user, sessions>>
  /\ UNCHANGED <<links, making, page>>
-------------------------------------------------------------------------------
(* Links.                                                                    *)
Pending(l) == links[l].state \in {"active", "expired"}
Revoked(set) == [l \in Links |-> IF l \in set THEN [links[l] EXCEPT !.state = "revoked", !.version = @ + 1] ELSE links[l]]
Resets == {l \in Links : links[l].kind = "reset"}

(* Reset: the status of the account is not looked at.                         *)
Uses(l) ==
  /\ links[l].state = "active"
  /\ links' = [links EXCEPT ![l].state = "consumed", ![l].version = @ + 1]
  /\ IF links[l].kind = "reset"
     THEN /\ user.version < MaxVersion
          /\ user' = [user EXCEPT !.hash = @ + 1, !.version = @ + 1] /\ sessions' = {}
     ELSE UNCHANGED <<user, sessions>>
  /\ UNCHANGED <<checked, making, page>>
Expires(l) ==
  /\ links[l].state = "active" /\ links' = [links EXCEPT ![l].state = "expired"]
  /\ UNCHANGED <<user, sessions, checked, making, page>>

(* CreateLink: RequireUser, then a transaction with two statements.            *)
Requires(c) ==
  /\ making[c] = "reset"
  /\ making' = [making EXCEPT ![c] = IF user.status = "deleted" THEN "refused" ELSE "required"]
  /\ UNCHANGED <<server, page>>
Supersedes(c) ==
  /\ making[c] = "required" /\ making' = [making EXCEPT ![c] = "superseded"]
  /\ links' = Revoked({l \in Resets : Pending(l)})
  /\ UNCHANGED <<user, sessions, checked, page>>
Inserted(c, l) ==
  /\ making[c] \in {"superseded", "invitation"} /\ links[l].state = "none"
  /\ links' = [links EXCEPT ![l] = [state |-> "active", kind |-> IF making[c] = "invitation" THEN "invitation" ELSE "reset", version |-> 1]]
  /\ making' = [making EXCEPT ![c] = "none"]
  /\ IF c = "page"
     THEN \* The page shows it, closes its sheet, and mounts the list of links again.
          link' = l /\ inviting' = (inviting /\ call # "invitation") /\ call' = "none"
          /\ editing' = (IF call = "reset" THEN NotOpen ELSE editing)
          /\ summary' = [x \in Links |-> 0] /\ target' = NoTarget
     ELSE UNCHANGED <<link, inviting, call, editing, summary, target>>
  /\ UNCHANGED <<user, sessions, checked, list, deleting>>

(* RevokeLink.                                                               *)
Revokes(l, version) == Pending(l) /\ links[l].version = version
-------------------------------------------------------------------------------
(* UpdateUser: of a version, and what depends on the account ends with it.     *)
Updated(status) ==
  /\ user.version < MaxVersion
  /\ user' = [user EXCEPT !.status = status, !.version = @ + 1]
  /\ sessions' = IF status = "active" THEN sessions ELSE {}
  /\ links' = IF status = "active" THEN links ELSE Revoked({l \in Resets : Pending(l)})
  /\ UNCHANGED checked

OtherUpdates ==
  /\ user.status # "deleted" /\ \E status \in {"active", "disabled", "deleted"} : Updated(status)
  /\ UNCHANGED <<making, page>>
OtherMakes ==
  /\ making["other"] = "none" /\ making' = [making EXCEPT !["other"] = "reset"]
  /\ (\E l \in Links : links[l].state = "none") /\ UNCHANGED <<server, page>>
OtherRefused ==
  /\ making["other"] = "refused" /\ making' = [making EXCEPT !["other"] = "none"] /\ UNCHANGED <<server, page>>
-------------------------------------------------------------------------------
(* UserManager: one sheet or dialog at a time, and busy while its call runs.   *)
Free == ~editing.on /\ ~deleting.on /\ ~inviting /\ link = 0 /\ target = NoTarget
Idle == call = "none"

ListRead ==
  /\ list' = Row /\ UNCHANGED <<server, making, forms, link, summary, target, call>>
OpenEdit ==
  /\ Free /\ list.version > 0 /\ editing' = [on |-> TRUE, seen |-> list, now |-> list]
  /\ UNCHANGED <<server, making, list, deleting, inviting, link, summary, target, call>>
Edits ==
  /\ Idle /\ editing.on /\ ~deleting.on /\ editing.now.status # "deleted"
  /\ \E status \in {"active", "disabled"} : editing' = [editing EXCEPT !.now.status = status]
  /\ UNCHANGED <<server, making, list, deleting, inviting, link, summary, target, call>>
AsksDelete ==
  /\ Idle /\ editing.on /\ ~deleting.on /\ editing.now.status # "deleted" /\ deleting' = editing
  /\ UNCHANGED <<server, making, list, editing, inviting, link, summary, target, call>>
Invites ==
  /\ Free /\ inviting' = TRUE
  /\ UNCHANGED <<server, making, list, editing, deleting, link, summary, target, call>>

(* Cancel, escape and the buttons that close.                                *)
Cancels ==
  /\ Idle
  /\ \/ deleting.on /\ deleting' = NotOpen /\ UNCHANGED <<editing, inviting, link, target>>
     \/ editing.on /\ ~deleting.on /\ editing' = NotOpen /\ UNCHANGED <<deleting, inviting, link, target>>
     \/ inviting /\ inviting' = FALSE /\ UNCHANGED <<editing, deleting, link, target>>
     \/ link # 0 /\ link' = 0 /\ UNCHANGED <<editing, deleting, inviting, target>>
     \/ target # NoTarget /\ target' = NoTarget /\ UNCHANGED <<editing, deleting, inviting, link>>
  /\ UNCHANGED <<server, making, list, summary, call>>

(* The buttons of the sheets and dialogs.                                    *)
Submits ==
  /\ Idle
  /\ \/ deleting.on /\ call' = "delete" /\ UNCHANGED making
     \/ editing.on /\ ~deleting.on /\ editing.now.status # "deleted" /\ call' = "save" /\ UNCHANGED making
     \/ /\ editing.on /\ ~deleting.on /\ editing.now.status # "deleted" /\ call' = "reset"
        /\ making' = [making EXCEPT !["page"] = "reset"]
     \/ inviting /\ call' = "invitation" /\ making' = [making EXCEPT !["page"] = "invitation"]
     \/ link # 0 /\ call' = "revoke" /\ UNCHANGED making
     \/ target # NoTarget /\ call' = "revoke" /\ UNCHANGED making
  /\ UNCHANGED <<server, list, forms, link, summary, target>>

\* Slip: the account is written over whatever it is now.
SlipSent(form) == user.version

(* The version that is sent: of the account as it was listed.                 *)
Sent(form) == form.now.version

(* save and removeUser.  Name and role, which a deletion sends, too, are data.  *)
Saved ==
  /\ \/ call = "save" /\ user.version = Sent(editing) /\ Updated(editing.now.status)
     \/ call = "delete" /\ user.version = Sent(deleting) /\ Updated("deleted")
  /\ call' = "none" /\ editing' = NotOpen /\ deleting' = NotOpen
  /\ UNCHANGED <<making, list, inviting, link, summary, target>>

(* revoke, of the dialog with the full link and of the list.                  *)
LinkRevoked ==
  /\ call = "revoke" /\ call' = "none"
  /\ LET l == IF link # 0 THEN link ELSE target.id
         version == IF link # 0 THEN 1 ELSE target.version
     IN Revokes(l, version) /\ links' = Revoked({l})
  /\ link' = 0 /\ target' = NoTarget
  /\ summary' = IF link # 0 THEN [x \in Links |-> 0] ELSE summary
  /\ UNCHANGED <<user, sessions, checked, making, list, forms>>

(* A conflict or another failure: everything stays open.                      *)
Fails ==
  /\ \/ call \in {"save", "delete", "revoke"} /\ UNCHANGED making
     \/ making["page"] \in {"reset", "invitation", "refused"} /\ making' = [making EXCEPT !["page"] = "none"]
  /\ call' = "none" /\ UNCHANGED <<server, list, forms, link, summary, target>>

(* AccountLinkList.                                                          *)
LinksRead ==
  /\ summary' = [l \in Links |-> IF links[l].state = "active" THEN links[l].version ELSE 0]
  /\ UNCHANGED <<server, making, list, forms, link, target, call>>
Targets(l) ==
  /\ Free /\ summary[l] > 0 /\ target' = [id |-> l, version |-> summary[l]]
  /\ UNCHANGED <<server, making, list, forms, link, summary, call>>

Next ==
  \/ LoginVerified \/ LoginCommits \/ Logout \/ ChangeVerified \/ ChangeCommits
  \/ \E c \in Creators : Requires(c) \/ Supersedes(c) \/ \E l \in Links : Inserted(c, l)
  \/ OtherUpdates \/ OtherMakes \/ OtherRefused
  \/ \E l \in Links : Uses(l) \/ Expires(l) \/ Targets(l)
  \/ ListRead \/ OpenEdit \/ Edits \/ AsksDelete \/ Invites \/ Cancels \/ Submits
  \/ Saved \/ LinkRevoked \/ Fails \/ LinksRead
Spec == Init /\ [][Next]_vars
-------------------------------------------------------------------------------
(* A verification that was finished before the password changed opens no       *)
(* session after it (backend-api-and-operations.md:5): a session that          *)
(* authenticates was opened with the credential the account has now.           *)
SessionsAreCurrent == \A s \in sessions : Authenticates(s) => s.hash = user.hash

(* What the page writes replaces the account that it showed, whoever changed    *)
(* it meanwhile.                                                             *)
ReplacesTheAccountShown ==
  /\ call = "save" /\ call' = "none" /\ user' # user => Row = editing.seen
  /\ call = "delete" /\ call' = "none" /\ user' # user => Row = deleting.seen
===============================================================================
