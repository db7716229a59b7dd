----------------------------- MODULE DirectoryPage -----------------------------
(***************************************************************************)
(* The administration of game directories (features/directories): a list     *)
(* read again after every change, a form that starts from the directory as   *)
(* it was shown, and its deletion, beside another administrator who changes  *)
(* the same directories.  The server's part is the version check of a write. *)
(***************************************************************************)
EXTENDS Naturals, FiniteSets

CONSTANTS
  Count,                      \* directories that there can be
  MaxVersion                  \* bound: writes of a directory

VARIABLES
  rows,       \* the server's directories; version 0: there is none
  shown,      \* directories of useResource, and whether they were read
  reading,    \* the list is read
  catalog,    \* declarations: "reading", "read" or "failed"
  filter,     \* DirectoryList: the platform that is listed, 0 for all
  open,       \* the groups that are open
  menu,       \* the directory whose menu is open, 0 if none is
  focus,      \* the entry of the menu that has the focus
  editing,    \* None, New or a directory as it was shown
  form,       \* DirectoryForm: its platform, cores and default core
  deleting,   \* None or a directory as it was shown
  call        \* "none", "save" or "delete": the form or the dialog is busy

vars == <<rows, shown, reading, catalog, filter, open, menu, focus, editing, form, deleting, call>>
page == <<filter, open, menu, focus>>

Directories == 1..Count
Platforms == {1, 2}
Cores == {1, 2}
NoCore == 0
Supports(c) == IF c = 1 THEN {1} ELSE {1, 2}
Available(p) == {c \in Cores : p \in Supports(c)}
FirstCore(p) == IF p = 1 THEN 1 ELSE 2

Absent == [version |-> 0, platform |-> 1, cores |-> {}, default |-> NoCore, games |-> FALSE]
Gone == [Absent EXCEPT !.games = TRUE]   \* its identifier is not used again
None == [id |-> 0, row |-> Absent]
New == [id |-> Count + 1, row |-> Absent]
NoForm == [on |-> FALSE, platform |-> 1, cores |-> {}, default |-> NoCore]
Content(row) == [version |-> row.version, platform |-> row.platform, cores |-> row.cores, default |-> row.default]

Init ==
  /\ rows \in [Directories -> {Absent, [version |-> 1, platform |-> 1, cores |-> {1, 2}, default |-> 1, games |-> FALSE]}]
  /\ shown = [read |-> FALSE, failed |-> FALSE, rows |-> [d \in Directories |-> Absent]] /\ reading = TRUE
  /\ catalog = "reading" /\ filter = 0 /\ open = {} /\ menu = 0 /\ focus = 1
  /\ editing = None /\ form = NoForm /\ deleting = None /\ call = "none"
-------------------------------------------------------------------------------
(* The list and the catalog.                                                 *)
Present(d) == shown.rows[d].version > 0
Listed(d) == shown.read /\ Present(d) /\ (filter = 0 \/ shown.rows[d].platform = filter)
Groups == {shown.rows[d].platform : d \in {d \in Directories : Listed(d)}}
InView(d) == Listed(d) /\ shown.rows[d].platform \in open

ListRead ==
  /\ reading /\ reading' = FALSE
  /\ shown' = [read |-> TRUE, failed |-> FALSE, rows |-> rows]
  /\ menu' = IF menu # 0 /\ rows[menu].version > 0 /\ rows[menu].platform \in open /\ filter \in {0, rows[menu].platform} THEN menu ELSE 0
  /\ UNCHANGED <<rows, catalog, filter, open, focus, editing, form, deleting, call>>
ListFails ==
  /\ reading
  /\ reading' = FALSE /\ shown' = [shown EXCEPT !.read = FALSE, !.failed = TRUE]
  /\ open' = {} /\ filter' = 0 /\ menu' = 0
  /\ UNCHANGED <<rows, catalog, focus, editing, form, deleting, call>>
Retry ==
  /\ shown.failed /\ ~reading /\ reading' = TRUE
  /\ UNCHANGED <<rows, shown, catalog, page, editing, form, deleting, call>>

(* initialValues: of the directory, or of the first platform and its core.    *)
Mounted(e) ==
  IF e.id = New.id
  THEN [on |-> TRUE, platform |-> 1, cores |-> {FirstCore(1)}, default |-> FirstCore(1)]
  ELSE [on |-> TRUE, platform |-> e.row.platform, cores |-> e.row.cores, default |-> e.row.default]

CatalogRead ==
  /\ catalog = "reading"
  /\ \/ catalog' = "read" /\ form' = (IF editing = None THEN NoForm ELSE Mounted(editing))
     \/ catalog' = "failed" /\ UNCHANGED form
  /\ UNCHANGED <<rows, shown, reading, page, editing, deleting, call>>
-------------------------------------------------------------------------------
(* DirectoryList and DirectoryMenu.  Form and dialog are modal.               *)
Free == ~form.on /\ deleting = None

Filters(p) ==
  /\ Free /\ shown.read /\ p # filter /\ filter' = p
  /\ (p # 0 => \E d \in Directories : Present(d) /\ shown.rows[d].platform = p)
  /\ menu' = 0 /\ UNCHANGED <<rows, shown, reading, catalog, open, focus, editing, form, deleting, call>>
TogglesGroup(p) ==
  /\ Free /\ p \in Groups /\ menu' = 0
  /\ open' = IF p \in open THEN open \ {p} ELSE open \union {p}
  /\ UNCHANGED <<rows, shown, reading, catalog, filter, focus, editing, form, deleting, call>>
TogglesAll ==
  /\ Free /\ shown.read /\ open' \in {Groups, {}} /\ menu' = 0
  /\ UNCHANGED <<rows, shown, reading, catalog, filter, focus, editing, form, deleting, call>>

(* The menu: the first of its two entries has the focus; the second is        *)
(* disabled for a directory with games.                                      *)
TogglesMenu(d) ==
  /\ Free /\ InView(d) /\ menu' = (IF menu = d THEN 0 ELSE d) /\ focus' = 1
  /\ UNCHANGED <<rows, shown, reading, catalog, filter, open, editing, form, deleting, call>>
MenuKey ==
  /\ Free /\ menu # 0
  /\ \/ menu' = 0 /\ UNCHANGED focus
     \/ ~shown.rows[menu].games /\ focus' = 3 - focus /\ UNCHANGED menu
  /\ UNCHANGED <<rows, shown, reading, catalog, filter, open, editing, form, deleting, call>>

Edits ==
  /\ Free /\ menu # 0 /\ menu' = 0
  /\ editing' = [id |-> menu, row |-> shown.rows[menu]]
  /\ form' = IF catalog = "read" THEN Mounted(editing') ELSE NoForm
  /\ UNCHANGED <<rows, shown, reading, catalog, filter, open, focus, deleting, call>>
Creates ==
  /\ Free /\ editing' = New /\ menu' = 0
  /\ form' = IF catalog = "read" THEN Mounted(New) ELSE NoForm
  /\ UNCHANGED <<rows, shown, reading, catalog, filter, open, focus, deleting, call>>
AsksDelete ==
  /\ Free /\ menu # 0 /\ ~shown.rows[menu].games /\ menu' = 0
  /\ deleting' = [id |-> menu, row |-> shown.rows[menu]]
  /\ UNCHANGED <<rows, shown, reading, catalog, filter, open, focus, editing, form, call>>
-------------------------------------------------------------------------------
(* DirectoryForm.                                                            *)
Editable == form.on /\ call = "none"

PlatformPicked(p) == [form EXCEPT !.platform = p, !.default = FirstCore(p), !.cores = {FirstCore(p)}]
PicksPlatform(p) ==
  /\ Editable /\ p # form.platform /\ form' = PlatformPicked(p)
  /\ UNCHANGED <<rows, shown, reading, catalog, page, editing, deleting, call>>

(* The default core is one of the cores; to pick none counts as one, too.     *)
PicksDefault(c) ==
  /\ Editable /\ c \in Available(form.platform) \union {NoCore}
  /\ form' = [form EXCEPT !.default = c, !.cores = @ \union {c}]
  /\ UNCHANGED <<rows, shown, reading, catalog, page, editing, deleting, call>>
TogglesCore(c) ==
  /\ Editable /\ c \in Available(form.platform) \ {form.default}
  /\ form' = [form EXCEPT !.cores = IF c \in @ THEN @ \ {c} ELSE @ \union {c}]
  /\ UNCHANGED <<rows, shown, reading, catalog, page, editing, deleting, call>>
Closes ==
  /\ Editable /\ editing' = None /\ form' = NoForm
  /\ UNCHANGED <<rows, shown, reading, catalog, page, deleting, call>>

Saves ==
  /\ Editable /\ form.cores # {} /\ form.default \in form.cores /\ call' = "save"
  /\ UNCHANGED <<rows, shown, reading, catalog, page, editing, form, deleting>>

\* Slip: the version of the list as it is shown now is sent.
SlipSent(snapshot) == shown.rows[snapshot.id].version

(* The version that is sent is that of the directory the form or the dialog    *)
(* was opened for.                                                           *)
Sent(snapshot) == snapshot.row.version

(* The server takes a write of the version it has, with cores it knows.       *)
Written == [version |-> 1 + (IF editing = New THEN 0 ELSE rows[editing.id].version), platform |-> form.platform,
            cores |-> form.cores, default |-> form.default,
            games |-> IF editing = New THEN FALSE ELSE rows[editing.id].games]
Saved ==
  /\ call = "save" /\ call' = "none"
  /\ NoCore \notin form.cores
  /\ \E d \in Directories :
       /\ IF editing = New THEN rows[d] = Absent ELSE d = editing.id /\ rows[d].version > 0 /\ rows[d].version = Sent(editing)
       /\ rows[d].version < MaxVersion
       /\ rows' = [rows EXCEPT ![d] = Written]
  /\ editing' = None /\ form' = NoForm /\ reading' = TRUE
  /\ UNCHANGED <<shown, catalog, page, deleting>>

ConfirmsDelete ==
  /\ deleting # None /\ call = "none" /\ call' = "delete"
  /\ UNCHANGED <<rows, shown, reading, catalog, page, editing, form, deleting>>
CancelsDelete ==
  /\ deleting # None /\ call = "none" /\ deleting' = None
  /\ UNCHANGED <<rows, shown, reading, catalog, page, editing, form, call>>
Deleted ==
  /\ call = "delete" /\ call' = "none"
  /\ rows[deleting.id].version > 0 /\ rows[deleting.id].version = Sent(deleting) /\ ~rows[deleting.id].games
  /\ rows' = [rows EXCEPT ![deleting.id] = Gone]
  /\ deleting' = None /\ reading' = TRUE
  /\ UNCHANGED <<shown, catalog, page, editing, form>>

(* Refused, or failed on the way: form and dialog stay as they are.           *)
Refused ==
  /\ call # "none" /\ call' = "none"
  /\ UNCHANGED <<rows, shown, reading, catalog, page, editing, form, deleting>>

(* The other administrator, and games that are imported.                     *)
OtherWrites(d) ==
  /\ rows[d].version \in 1..(MaxVersion - 1)
  /\ rows' = [rows EXCEPT ![d].version = @ + 1, ![d].cores = {2}, ![d].default = 2]
  /\ UNCHANGED <<shown, reading, catalog, page, editing, form, deleting, call>>
OtherDeletes(d) ==
  /\ rows[d].version > 0 /\ ~rows[d].games /\ rows' = [rows EXCEPT ![d] = Gone]
  /\ UNCHANGED <<shown, reading, catalog, page, editing, form, deleting, call>>
Imports(d) ==
  /\ rows[d].version > 0 /\ ~rows[d].games /\ rows' = [rows EXCEPT ![d].games = TRUE]
  /\ UNCHANGED <<shown, reading, catalog, page, editing, form, deleting, call>>

(* Recommended directories were created elsewhere on the page.                *)
Recommended ==
  /\ Free /\ ~reading /\ reading' = TRUE
  /\ UNCHANGED <<rows, shown, catalog, page, editing, form, deleting, call>>

Next ==
  \/ ListRead \/ ListFails \/ Retry \/ CatalogRead \/ TogglesAll \/ MenuKey \/ Edits \/ Creates \/ AsksDelete
  \/ Closes \/ Saves \/ Saved \/ ConfirmsDelete \/ CancelsDelete \/ Deleted \/ Refused \/ Recommended
  \/ \E p \in Platforms : Filters(p) \/ TogglesGroup(p) \/ PicksPlatform(p)
  \/ Filters(0)
  \/ \E c \in Cores \union {NoCore} : PicksDefault(c) \/ TogglesCore(c)
  \/ \E d \in Directories : TogglesMenu(d) \/ OtherWrites(d) \/ OtherDeletes(d) \/ Imports(d)
Spec == Init /\ [][Next]_vars
-------------------------------------------------------------------------------
(* What a form or a deletion replaces is what the administrator saw when it    *)
(* was opened, although the list is read again and another administrator      *)
(* writes meanwhile; and the cores that are written are of the platform.      *)
ReplacesWhatWasSeen ==
  \A d \in Directories :
    /\ call = "save" /\ rows'[d] # rows[d] /\ call' = "none" /\ editing.id = d
         => Content(rows[d]) = Content(editing.row)
    /\ call = "save" /\ rows'[d] # rows[d] /\ call' = "none" => rows'[d].cores \subseteq Available(rows'[d].platform)
    /\ call = "delete" /\ rows'[d] # rows[d] /\ call' = "none" => Content(rows[d]) = Content(deleting.row)
===============================================================================
