------------------------------- MODULE AppUpdate -------------------------------
(***************************************************************************)
(* The installed application (features/pwa): its service worker with the    *)
(* caches of a version, and the windows that notice a new version and ask   *)
(* for it.  How a browser installs, holds back and activates workers is     *)
(* modelled as the code relies on it: one worker installs at a time, the    *)
(* newest installed one waits, and it takes over when it skips waiting or   *)
(* no window uses the active one, once that one has no event pending.       *)
(***************************************************************************)
EXTENDS Naturals, Sequences, FiniteSets

CONSTANTS
  Windows,
  Versions,            \* how many versions the server is given, one after the other
  StaticEntries,       \* how many chunks a static cache holds (192)
  MaxActs      \* bound: windows opened and updates asked for

(* Every window belongs to the active worker: activation claims them all.     *)
VARIABLES
  latest,      \* APP_VERSION of the server
  installing, waiting, active,   \* versions of the workers, 0 if there is none
  skip,        \* the waiting worker called skipWaiting
  stored,      \* the installing worker has put its shell into its cache
  shells,      \* shell caches, in the order they were made
  statics,     \* static caches: version and the versions whose chunks are in it, oldest first
  chunk,       \* a chunk that was read and is about to be put: of which version
  page,        \* per window: "closed", "normal" or "playing"
  document,    \* the version of its document, 0 for the offline page
  registered,  \* windows that observe the registration
  changed,     \* windows that were not yet told of a new controller
  update,      \* applyUpdate: the worker that is asked, approved and controlled
  letter,      \* the message on its way: to the worker, or its answer
  acts

vars == <<latest, installing, waiting, active, skip, stored, shells, statics, chunk, page, document,
          registered, changed, update, letter, acts>>
windows == <<page, document, registered, changed, update, letter>>
workers == <<installing, waiting, active, skip, stored, shells, statics, chunk>>

NoUpdate == [worker |-> 0, approved |-> FALSE, controlled |-> FALSE]
Open(w) == page[w] # "closed"
Playing == \E w \in Windows : page[w] = "playing"

Init ==
  /\ latest = 1 /\ installing = 0 /\ waiting = 0 /\ active = 0 /\ skip = FALSE /\ stored = FALSE
  /\ shells = <<>> /\ statics = <<>> /\ chunk = {}
  /\ page = [w \in Windows |-> "closed"] /\ document = [w \in Windows |-> 0]
  /\ registered = {} /\ changed = {} /\ update = [w \in Windows |-> NoUpdate]
  /\ letter = [w \in Windows |-> "none"] /\ acts = 0
-------------------------------------------------------------------------------
(* The worker.                                                               *)

(* A first worker, or one newer than all there are, is installed.             *)
NewWorker ==
  IF installing = 0 /\ latest \notin {waiting, active} THEN latest ELSE installing

Without(owned, v) == SelectSeq(owned, LAMBDA u : u # v)

(* installShell: all of the shell is read before any of it is put.            *)
Stores ==
  /\ installing # 0 /\ ~stored /\ stored' = TRUE
  /\ shells' = Without(shells, installing) \o <<installing>>
  /\ UNCHANGED <<latest, installing, waiting, active, skip, statics, chunk, windows, acts>>
InstallFails ==
  /\ installing # 0 /\ ~stored
  /\ installing' = 0
  /\ UNCHANGED <<latest, waiting, active, skip, stored, shells, statics, chunk, windows, acts>>
Installed ==
  /\ installing # 0 /\ stored
  /\ waiting' = installing /\ installing' = 0 /\ stored' = FALSE /\ skip' = FALSE
  /\ UNCHANGED <<latest, active, shells, statics, chunk, windows, acts>>

\* Slip: the oldest of the other caches is kept, not the newest.
SlipKept(owned, v) ==
  LET others == Without(owned, v)
  IN SelectSeq(owned, LAMBDA u : u = v \/ (others # <<>> /\ u = others[1]))

(* What activation keeps: the worker's own cache and the one made last of the *)
(* others.                                                                   *)
Kept(owned, v) ==
  LET others == Without(owned, v)
  IN SelectSeq(owned, LAMBDA u : u = v \/ (others # <<>> /\ u = others[Len(others)]))

OfVersions(kept) == SelectSeq(statics, LAMBDA c : \E i \in DOMAIN kept : kept[i] = c.version)

(* In one step: the keys are read once and decide what is deleted, requests   *)
(* wait until it is done, and a shell that is stored meanwhile is not among  *)
(* the keys.                                                                 *)
Activates ==
  /\ waiting # 0 /\ chunk = {}
  /\ active = 0 \/ skip \/ \A w \in Windows : ~Open(w)
  /\ active' = waiting /\ waiting' = 0 /\ skip' = FALSE
  /\ shells' = Kept(shells, waiting)
  /\ statics' = OfVersions(Kept([i \in DOMAIN statics |-> statics[i].version], waiting))
  /\ changed' = {w \in Windows : Open(w)}
  /\ UNCHANGED <<latest, installing, stored, chunk, page, document, registered, update, letter, acts>>

(* The message of a window: all windows are looked at, and then the worker    *)
(* skips waiting.                                                            *)
Looks(w) ==
  /\ letter[w] = "ask"
  /\ letter' = [letter EXCEPT ![w] = IF Playing THEN "playing" ELSE "idle"]
  /\ UNCHANGED <<latest, workers, page, document, registered, changed, update, acts>>
Skips(w) ==
  /\ letter[w] = "idle" /\ letter' = [letter EXCEPT ![w] = "activating"]
  /\ skip' = (skip \/ update[w].worker = waiting)
  /\ UNCHANGED <<latest, installing, waiting, active, stored, shells, statics, chunk, page, document, registered, changed, update, acts>>

(* staticResource: a chunk that no cache has is read from the server, which   *)
(* has those of its own version only, and put into the cache of the worker.   *)
Cached(v) == \E i \in DOMAIN statics : \E k \in DOMAIN statics[i].chunks : statics[i].chunks[k] = v
Reads(w) ==
  /\ Open(w) /\ active # 0 /\ chunk = {} /\ document[w] = latest /\ ~Cached(document[w])
  /\ chunk' = {document[w]}
  /\ UNCHANGED <<latest, installing, waiting, active, skip, stored, shells, statics, windows, acts>>
Newest(chunks) ==
  SubSeq(chunks, IF Len(chunks) > StaticEntries THEN Len(chunks) - StaticEntries + 1 ELSE 1, Len(chunks))
Puts ==
  /\ \E v \in chunk :
       LET old == {i \in DOMAIN statics : statics[i].version = active}
           made == IF old # {} THEN statics ELSE Append(statics, [version |-> active, chunks |-> <<>>])
       IN statics' = [i \in DOMAIN made |->
            IF made[i].version = active THEN [made[i] EXCEPT !.chunks = Newest(Append(@, v))] ELSE made[i]]
  /\ chunk' = {}
  /\ UNCHANGED <<latest, installing, waiting, active, skip, stored, shells, windows, acts>>
-------------------------------------------------------------------------------
(* A window.                                                                 *)

(* navigate: the document of the server, or the offline page of the worker.   *)
Loaded(w, v) ==
  /\ page' = [page EXCEPT ![w] = "normal"] /\ document' = [document EXCEPT ![w] = v]
  /\ registered' = registered \ {w} /\ changed' = changed \ {w}
  /\ update' = [update EXCEPT ![w] = NoUpdate]
  /\ letter' = [letter EXCEPT ![w] = "none"]

Opens(w) ==
  /\ ~Open(w) /\ acts < MaxActs /\ acts' = acts + 1
  /\ \/ Loaded(w, latest)
     \/ active # 0 /\ Loaded(w, 0)
  /\ UNCHANGED <<latest, workers>>
Closes(w) ==
  /\ Open(w)
  /\ page' = [page EXCEPT ![w] = "closed"] /\ document' = [document EXCEPT ![w] = 0]
  /\ registered' = registered \ {w} /\ changed' = changed \ {w}
  /\ update' = [update EXCEPT ![w] = NoUpdate]
  /\ letter' = [letter EXCEPT ![w] = "none"]
  /\ UNCHANGED <<latest, workers, acts>>
Plays(w) ==
  /\ page[w] = "normal" /\ document[w] # 0 /\ page' = [page EXCEPT ![w] = "playing"]
  /\ UNCHANGED <<latest, workers, document, registered, changed, update, letter, acts>>
Ends(w) ==
  /\ page[w] = "playing" /\ page' = [page EXCEPT ![w] = "normal"]
  /\ UNCHANGED <<latest, workers, document, registered, changed, update, letter, acts>>

(* check: on mounting, when the window is shown again or the network is back. *)
Checks(w) ==
  /\ Open(w) /\ document[w] # 0
  /\ installing' = NewWorker
  /\ registered' = registered \union {w}
  /\ UNCHANGED <<latest, waiting, active, skip, stored, shells, statics, chunk, page, document, changed, update, letter, acts>>

(* The user asks once a worker waits, and after the window was told of the    *)
(* controller it got from an activation before.                              *)
Applies(w) ==
  /\ w \in registered \ changed /\ update[w] = NoUpdate /\ letter[w] = "none" /\ waiting # 0
  /\ update' = [update EXCEPT ![w].worker = waiting]
  /\ letter' = [letter EXCEPT ![w] = "ask"]
  /\ acts < MaxActs /\ acts' = acts + 1
  /\ UNCHANGED <<latest, workers, page, document, registered, changed>>

\* Slip: what the window shows is not looked at again when the update is there.
SlipFinished(w) == Loaded(w, latest)

(* finish: the window is loaded anew unless it plays by now.                  *)
Finished(w) ==
  IF page[w] = "playing"
  THEN /\ update' = [update EXCEPT ![w] = NoUpdate] /\ letter' = [letter EXCEPT ![w] = "none"]
       /\ changed' = changed \ {w} /\ UNCHANGED <<page, document, registered>>
  ELSE Loaded(w, latest)

Answered(w) ==
  /\ update[w] # NoUpdate
  /\ \/ /\ letter[w] = "playing"
        /\ update' = [update EXCEPT ![w] = NoUpdate] /\ letter' = [letter EXCEPT ![w] = "none"]
        /\ UNCHANGED <<page, document, registered, changed>>
     \/ /\ letter[w] = "activating" /\ ~update[w].approved
        /\ IF update[w].controlled \/ active = update[w].worker
           THEN Finished(w)
           ELSE /\ update' = [update EXCEPT ![w].approved = TRUE]
                /\ UNCHANGED <<page, document, registered, changed, letter>>
  /\ UNCHANGED <<latest, workers, acts>>

ControllerChanged(w) ==
  /\ w \in changed
  /\ \/ /\ update[w].approved /\ Finished(w)
     \/ /\ ~update[w].approved /\ changed' = changed \ {w}
        /\ update' = IF update[w] = NoUpdate THEN update ELSE [update EXCEPT ![w].controlled = TRUE]
        /\ UNCHANGED <<page, document, registered, letter>>
  /\ UNCHANGED <<latest, workers, acts>>

(* Ten seconds: the answer, if it comes, finds nobody.                        *)
TimesOut(w) ==
  /\ update[w] # NoUpdate
  /\ update' = [update EXCEPT ![w] = NoUpdate]
  /\ UNCHANGED <<latest, workers, page, document, registered, changed, letter, acts>>
Forgets(w) ==
  /\ update[w] = NoUpdate /\ letter[w] \in {"playing", "activating"} /\ letter' = [letter EXCEPT ![w] = "none"]
  /\ UNCHANGED <<latest, workers, page, document, registered, changed, update, acts>>

Deploys ==
  /\ latest < Versions /\ latest' = latest + 1
  /\ UNCHANGED <<workers, windows, acts>>

InWindow(w) ==
  \/ Opens(w) \/ Closes(w) \/ Plays(w) \/ Ends(w) \/ Checks(w) \/ Applies(w) \/ Answered(w)
  \/ ControllerChanged(w) \/ TimesOut(w) \/ Forgets(w) \/ Looks(w) \/ Skips(w) \/ Reads(w)
Next == Deploys \/ Stores \/ InstallFails \/ Installed \/ Activates \/ Puts \/ \E w \in Windows : InWindow(w)
Spec == Init /\ [][Next]_vars
-------------------------------------------------------------------------------
(* A document is replaced under the user only in a window that does not play, *)
(* and by then the window belongs to the version that was asked for or a      *)
(* newer one.                                                                *)
UpdatesInPeace ==
  \A w \in Windows : w \in registered /\ w \notin registered' /\ page'[w] # "closed"
    => page[w] # "playing" /\ active >= update[w].worker

(* "Retain the preceding revision for lazy chunks in other open windows"      *)
(* (service-worker, line 24): the worker that is replaced leaves its static   *)
(* cache whole, and before that loses chunks to the limit only; and the shell *)
(* of every worker that may have to show it stays: the next version may be   *)
(* installed while this one takes over.                                      *)
Holds(cache) == {cache.chunks[k] : k \in DOMAIN cache.chunks}
CachesKept ==
  /\ \A v \in {waiting', active'} \ {0} : \E i \in DOMAIN shells' : shells'[i] = v
  /\ stored' => \E i \in DOMAIN shells' : shells'[i] = installing'
  /\ \A i \in DOMAIN statics : statics[i].version = active =>
       \E j \in DOMAIN statics' : statics'[j].version = active /\
         \/ Holds(statics[i]) \subseteq Holds(statics'[j])
         \/ active' = active /\ Len(statics'[j].chunks) = StaticEntries
===============================================================================
