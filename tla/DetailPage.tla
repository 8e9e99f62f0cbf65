----------------------------- MODULE DetailPage -----------------------------
(***************************************************************************)
(* The detail page of a spider: its document in a form, and the editor of  *)
(* its files with tabs, unsaved text and a cache of saved text.  Requests  *)
(* are answered in any order, also after the user has moved on to another  *)
(* spider, closed the editor or left the page.  What a document says is    *)
(* known by the document it was read from (None: blank).  The file tree is *)
(* left out: it may be stale, so any path can be clicked.                  *)
(***************************************************************************)
EXTENDS Integers, Sequences, SequencesExt, Bags

CONSTANTS
  Docs,        \* the spiders
  Paths,       \* paths of files
  None,        \* no document, no file, no path
  MaxSteps,    \* bound: steps of the user
  MaxInFlight, \* bound: requests under way
  MaxFaults    \* bound: failed requests

ASSUME NoneAssumption == None \notin Docs \cup Paths
ASSUME BoundsAssumption == MaxSteps \in Nat /\ MaxInFlight \in Nat /\ MaxFaults \in Nat

VARIABLES
  docs,       \* hub: what each document says
  files,      \* hub: the files of each spider
  activeId,   \* the spider of the route; None: another page
  form,       \* state.form
  navLoading, \* the spinner over the page
  editor,     \* the files tab is mounted
  tabs,       \* open files, in order
  active,     \* activeFileNavItem
  content,    \* state.fileContent
  cache,      \* editorFileContentCache
  shown,      \* the text in the editor
  due,        \* the editor's 100 ms update timer is set
  requests,   \* bag of requests under way
  steps, faults

hubVars == <<docs, files>>
pageVars == <<activeId, form, navLoading>>
fileVars == <<editor, tabs, active, content, cache, shown, due>>
vars == <<hubVars, pageVars, fileVars, requests, steps, faults>>

Typed == {"typed", "retyped"}
NoText == ""
Texts == Typed \cup {NoText, "old", "uploaded"}
NewForm == [id |-> None, text |-> None]

\* Requests whose answer the client does nothing with.
Silent == {"after", "rename", "copy", "delete", "upload"}

Step == steps < MaxSteps /\ steps' = steps + 1
Fault == faults < MaxFaults /\ faults' = faults + 1

\* key: the path asked about, or the _id of the document sent; live: the
\* component that waits for the answer is still mounted.
Request(op, i, key, data) ==
  [op |-> op, id |-> i, key |-> key, data |-> data, st |-> "sent", live |-> TRUE]
One(r) == SetToBag({r})
Send(bag) ==
  /\ BagCardinality(requests (+) bag) <= MaxInFlight
  /\ requests' = requests (+) bag
Done(r) == requests' = requests (-) One(r)
Become(r, s) == requests' = (requests (-) One(r)) (+) One(s)

\* Every request of these operations is answered to nobody from now on.
Orphan(ops) ==
  LET lost == {r \in BagToSet(requests) : r.op \in ops /\ r.live}
      orphans == {[r EXCEPT !.live = FALSE] : r \in lost}
  IN  requests' = [r \in BagToSet(requests) \ lost |-> requests[r]]
                    (+) [r \in orphans |-> requests[[r EXCEPT !.live = TRUE]]]
EditorOps == {"list", "new", "info", "open"}

Init ==
  /\ docs = [d \in Docs |-> d]
  /\ files = [d \in Docs |-> [p \in Paths |-> "old"]]
  /\ activeId = None
  /\ form = NewForm
  /\ navLoading = FALSE
  /\ editor = FALSE
  /\ tabs = <<>>
  /\ active = None
  /\ content = NoText
  /\ cache = [p \in Paths |-> None]
  /\ shown = NoText
  /\ due = FALSE
  /\ requests = EmptyBag
  /\ steps = 0
  /\ faults = 0

-----------------------------------------------------------------------------
(* What the editor is given, and how it follows *)

\* The fileContent getter: cached text wins over the text of the store.
FileContent ==
  IF active # None /\ cache[active] # None THEN cache[active] ELSE content

\* Variant for comparison: the tab passes the getter, as the git files tab does.
EditorContentCached == FileContent

\* The text the spider files tab passes to the editor and Ctrl+S saves.
EditorContent == content

\* The watcher of content puts a changed text into the editor.
Follow == shown' = IF editor /\ EditorContent' # EditorContent THEN EditorContent' ELSE shown

\* setActiveFileNavItem; the watcher of the active item sets the timer.
SetActive(p) ==
  /\ active' = p
  /\ due' = (due \/ p # active)

\* The timer: setValue, which the editor reports as a change of content.
Update ==
  /\ editor
  /\ due
  /\ due' = FALSE
  /\ content' = IF active = None THEN content ELSE EditorContent
  /\ shown' = EditorContent
  /\ UNCHANGED <<hubVars, pageVars, editor, tabs, active, cache, requests, steps, faults>>

-----------------------------------------------------------------------------
(* The page *)

\* onBeforeMount of the layout.
Enter(d) ==
  /\ activeId = None
  /\ Step
  /\ activeId' = d
  /\ Send(One(Request("form", d, None, None)))
  /\ UNCHANGED <<hubVars, form, navLoading, fileVars, faults>>

\* onNavSelect, and the watcher of activeId: each asks for the document.
OnNavSelect(d) ==
  /\ activeId \notin {None, d}
  /\ Step
  /\ activeId' = d
  /\ navLoading' = TRUE
  /\ Send(One(Request("form", d, None, None)) (+) One(Request("nav", d, None, None)))
  /\ UNCHANGED <<hubVars, form, fileVars, faults>>

\* onSave; afterSave follows when the answer is there.
OnSave ==
  /\ activeId # None
  /\ Step
  /\ Send(One(Request("put", activeId, form.id, form.text)))
  /\ UNCHANGED <<hubVars, pageVars, fileVars, faults>>

\* onBeforeUnmount of FileTab and onUnmounted of FileEditor.
EditorGone ==
  /\ editor' = FALSE
  /\ tabs' = <<>>
  /\ active' = None
  /\ content' = IF editor THEN NoText ELSE content
  /\ shown' = NoText
  /\ due' = FALSE
  /\ UNCHANGED cache

\* onBack: the layout and what is in it are unmounted.
OnBack ==
  /\ activeId # None
  /\ Step
  /\ activeId' = None
  /\ form' = NewForm
  /\ navLoading' = FALSE
  /\ EditorGone
  /\ Orphan(EditorOps \cup {"nav"})
  /\ UNCHANGED <<hubVars, faults>>

-----------------------------------------------------------------------------
(* The files tab *)

\* onBeforeMount: the list, and then the file the route names, if any.
OpenEditor(p) ==
  /\ activeId # None
  /\ ~editor
  /\ Step
  /\ editor' = TRUE
  /\ shown' = EditorContent
  /\ IF p = None THEN UNCHANGED requests ELSE Send(One(Request("list", activeId, p, None)))
  /\ UNCHANGED <<hubVars, pageVars, tabs, active, content, cache, due, faults>>

CloseEditor ==
  /\ editor
  /\ Step
  /\ EditorGone
  /\ Orphan(EditorOps)
  /\ UNCHANGED <<hubVars, pageVars, faults>>

\* Variant for comparison: a file that is open already gets a second tab.
WithTabTwice(p) == Append(tabs, p)

\* updateTabs
WithTab(p) == IF p \in Range(tabs) THEN tabs ELSE Append(tabs, p)

OnNavItemDbClick(p) ==
  /\ editor
  /\ Step
  /\ SetActive(p)
  /\ tabs' = WithTab(p)
  /\ Send(One(Request("info", activeId, p, None)))
  /\ UNCHANGED <<hubVars, pageVars, editor, content, cache, faults>>
  /\ Follow

OnTabClick(p) ==
  /\ p \in Range(tabs)
  /\ Step
  /\ SetActive(p)
  /\ Send(One(Request("read", activeId, p, None)))
  /\ UNCHANGED <<hubVars, pageVars, editor, tabs, content, cache, faults>>
  /\ Follow

\* Variant for comparison: the tab on the left, also of the first one.
NeighbourLeft(t, k) == IF k > 1 THEN t[k - 1] ELSE None

\* The tab that becomes active when the active one, at position k, is closed.
Neighbour(t, k) == IF k = 1 THEN (IF Len(t) = 1 THEN None ELSE t[2]) ELSE t[k - 1]

CloseTab(k) ==
  /\ k \in DOMAIN tabs
  /\ Step
  /\ tabs' = RemoveAt(tabs, k)
  /\ SetActive(IF active = tabs[k] THEN Neighbour(tabs, k) ELSE active)
  /\ UNCHANGED <<hubVars, pageVars, editor, content, cache, requests, faults>>
  /\ Follow

OnTabCloseOthers(p) ==
  /\ p \in Range(tabs)
  /\ Step
  /\ tabs' = <<p>>
  /\ SetActive(p)
  /\ UNCHANGED <<hubVars, pageVars, editor, content, cache, requests, faults>>
  /\ Follow

OnTabCloseAll ==
  /\ tabs # <<>>
  /\ Step
  /\ tabs' = <<>>
  /\ SetActive(None)
  /\ UNCHANGED <<hubVars, pageVars, editor, content, cache, requests, faults>>
  /\ Follow

OnTabDragEnd ==
  /\ Step
  /\ \E s \in SetToSeqs(Range(tabs)) \ {tabs} : tabs' = s
  /\ UNCHANGED <<hubVars, pageVars, editor, active, content, cache, shown, due, requests, faults>>

\* The user types: onContentChange.
OnContentChange(t) ==
  /\ editor
  /\ active # None
  /\ Step
  /\ content' = t
  /\ shown' = t
  /\ UNCHANGED <<hubVars, pageVars, editor, tabs, active, cache, due, requests, faults>>

\* Ctrl+S: onSaveFile
OnSaveFile ==
  /\ editor
  /\ active # None
  /\ Step
  /\ Send(One(Request("save", activeId, active, EditorContent)))
  /\ UNCHANGED <<hubVars, pageVars, fileVars, faults>>

OnContextMenuNewFile(p) ==
  /\ editor
  /\ Step
  /\ Send(One(Request("new", activeId, p, NoText)))
  /\ UNCHANGED <<hubVars, pageVars, fileVars, faults>>

\* The upload dialog of an item takes the item as the active one.
OnContextMenuUploadFiles(p) ==
  /\ editor
  /\ Step
  /\ SetActive(p)
  /\ UNCHANGED <<hubVars, pageVars, editor, tabs, content, cache, requests, faults>>
  /\ Follow

\* onUploadConfirm and onDropFiles
OnUpload(p) ==
  /\ activeId # None
  /\ Step
  /\ Send(One(Request("upload", activeId, p, "uploaded")))
  /\ UNCHANGED <<hubVars, pageVars, fileVars, faults>>

\* onContextMenuRename, onNavItemDrop, onContextMenuClone, onContextMenuDelete
OnFileOperation(op, p, q) ==
  /\ editor
  /\ p # q
  /\ Step
  /\ Send(One(Request(op, activeId, p, q)))
  /\ UNCHANGED <<hubVars, pageVars, fileVars, faults>>

-----------------------------------------------------------------------------
(* The hub *)

\* Variant for comparison: the document of the route takes any body.
AcceptsAny(r) == TRUE

\* PutById: a body without an _id takes the one of the route.  Another _id than the one
\* of the route goes to ReplaceOne as it is, and MongoDB does not change the _id of a
\* document: the write fails.
Accepts(r) == r.key \in {None, r.id}

Exists(r) == files[r.id][r.key] # None

\* Errors: another document's _id, operations on a file that is not there, and renames:
\* the client names the new path new_path, the hub reads newPath, so that it moves the
\* file to the root directory itself, which is there already.
Refuses(r) ==
  \/ r.op = "put" /\ ~Accepts(r)
  \/ r.op \in {"info", "read", "open", "copy"} /\ ~Exists(r)
  \/ r.op = "rename"

HubDocs(r) == IF r.op = "put" THEN [docs EXCEPT ![r.id] = r.data] ELSE docs

HubFiles(r) ==
  CASE r.op \in {"save", "after", "new", "upload"} -> [files EXCEPT ![r.id][r.key] = r.data]
    [] r.op = "delete" -> [files EXCEPT ![r.id][r.key] = None]
    [] r.op = "copy" -> [files EXCEPT ![r.id][r.data] = files[r.id][r.key]]
    [] OTHER -> files

Answer(r) ==
  CASE r.op \in {"form", "nav"} -> docs[r.id]
    [] r.op \in {"read", "open"} -> files[r.id][r.key]
    [] OTHER -> r.data

Hub(r) ==
  /\ r.st = "sent"
  /\ ~Refuses(r)
  /\ docs' = HubDocs(r)
  /\ files' = HubFiles(r)
  /\ IF r.op \in Silent
     THEN Done(r)
     ELSE Become(r, [r EXCEPT !.st = "answered", !.data = Answer(r)])
  /\ UNCHANGED <<pageVars, fileVars, steps, faults>>

-----------------------------------------------------------------------------
(* Answers *)

\* getById commits whatever arrives; onNavSelect then ends its spinner.
FormArrives(r) ==
  /\ r.op \in {"form", "nav"}
  /\ r.st = "answered"
  /\ form' = [id |-> r.id, text |-> r.data]
  /\ navLoading' = (navLoading /\ ~(r.op = "nav" /\ r.live))
  /\ Done(r)
  /\ UNCHANGED <<hubVars, activeId, fileVars, steps, faults>>

\* onSave goes on with afterSave: saveActiveFile saves what the getter says.
SaveArrives(r) ==
  /\ r.op = "put"
  /\ r.st = "answered"
  /\ IF activeId # None /\ active # None
     THEN Become(r, Request("after", activeId, active, FileContent))
     ELSE Done(r)
  /\ UNCHANGED <<hubVars, pageVars, fileVars, steps, faults>>

\* getFile commits whatever arrives.
FileArrives(r) ==
  /\ r.op = "read"
  /\ r.st = "answered"
  /\ content' = r.data
  /\ Done(r)
  /\ UNCHANGED <<hubVars, pageVars, editor, tabs, active, cache, due, steps, faults>>
  /\ Follow

\* openFile: the first tab becomes active, another one does not.
OpenFileArrives(r) ==
  /\ r.op = "open"
  /\ r.st = "answered"
  /\ content' = r.data
  /\ tabs' = IF r.live THEN WithTab(r.key) ELSE tabs
  /\ SetActive(IF r.live /\ tabs = <<>> THEN r.key ELSE active)
  /\ Done(r)
  /\ UNCHANGED <<hubVars, pageVars, editor, cache, steps, faults>>
  /\ Follow

\* openFile goes on from the information to the content; a new file and the
\* file the route names are opened once the list is there, for the spider
\* the tab names by then.
OpenFile(r) ==
  /\ r.op \in EditorOps \ {"open"}
  /\ r.st = "answered"
  /\ \E i \in IF r.op = "info" THEN {r.id} ELSE IF r.live THEN {activeId} ELSE Docs :
       Become(r, [r EXCEPT !.op = IF @ = "info" THEN "open" ELSE "info", !.id = i, !.st = "sent"])
  /\ UNCHANGED <<hubVars, pageVars, fileVars, steps, faults>>

\* onSaveFile caches what it has saved.
SaveFileArrives(r) ==
  /\ r.op = "save"
  /\ r.st = "answered"
  /\ cache' = [cache EXCEPT ![r.key] = r.data]
  /\ Done(r)
  /\ UNCHANGED <<hubVars, pageVars, editor, tabs, active, content, due, steps, faults>>
  /\ Follow

\* Variant for comparison: the spinner stays when the request fails.
EndsSpinning(r) == UNCHANGED navLoading

\* What waits for a failing request ends; onNavSelect ends its spinner.
Ends(r) == navLoading' = (navLoading /\ ~(r.op = "nav" /\ r.live))

HubRefuses(r) ==
  /\ r.st = "sent"
  /\ Refuses(r)
  /\ Ends(r)
  /\ Done(r)
  /\ UNCHANGED <<hubVars, activeId, form, fileVars, steps, faults>>

\* No answer: before the hub has acted, or after it.
Fails(r) ==
  /\ Fault
  /\ Ends(r)
  /\ Done(r)
  /\ UNCHANGED <<hubVars, activeId, form, fileVars, steps>>

User ==
  \/ \E d \in Docs : Enter(d) \/ OnNavSelect(d)
  \/ OnSave \/ OnBack \/ CloseEditor \/ OnTabCloseAll \/ OnTabDragEnd \/ OnSaveFile
  \/ \E p \in Paths \cup {None} : OpenEditor(p)
  \/ \E p \in Paths : OnNavItemDbClick(p) \/ OnTabClick(p) \/ OnTabCloseOthers(p)
  \/ \E p \in Paths : OnContextMenuNewFile(p) \/ OnContextMenuUploadFiles(p) \/ OnUpload(p)
  \/ \E k \in DOMAIN tabs : CloseTab(k)
  \/ \E t \in Typed : OnContentChange(t)
  \/ \E op \in {"rename", "copy", "delete"}, p, q \in Paths : OnFileOperation(op, p, q)

Reply ==
  \E r \in BagToSet(requests) :
    \/ Hub(r) \/ HubRefuses(r)
    \/ FormArrives(r) \/ SaveArrives(r) \/ FileArrives(r) \/ OpenFileArrives(r)
    \/ OpenFile(r) \/ SaveFileArrives(r)

Next == User \/ Update \/ Reply \/ \E r \in BagToSet(requests) : Fails(r)

Spec == Init /\ [][Next]_vars

-----------------------------------------------------------------------------
TypeOK ==
  /\ docs \in [Docs -> Docs \cup {None}]
  /\ files \in [Docs -> [Paths -> Texts \cup {None}]]
  /\ activeId \in Docs \cup {None}
  /\ form \in [id : Docs \cup {None}, text : Docs \cup {None}]
  /\ navLoading \in BOOLEAN
  /\ editor \in BOOLEAN
  /\ tabs \in Seq(Paths)
  /\ active \in Paths \cup {None}
  /\ content \in Texts
  /\ cache \in [Paths -> Texts \cup {None}]
  /\ shown \in Texts
  /\ due \in BOOLEAN
  /\ steps \in 0..MaxSteps
  /\ faults \in 0..MaxFaults

\* Saving never gives one spider the document of another, although the form
\* may still hold, or again hold, the answer of a spider looked at before.
NoForeignDocument == \A d \in Docs : docs[d] \in {d, None}

\* The text Ctrl+S saves is the text the user sees: the editor and the store
\* agree whatever was typed, cached, closed or answered late.
KeySaveWritesShown == editor /\ active # None => shown = EditorContent

\* The spinner over the page is on only while a request will end it.
SpinnerMeansRequest == navLoading => \E r \in BagToSet(requests) : r.op = "nav" /\ r.live

\* A file has one tab, whether it was opened by a click or by an answer.
TabsAreDistinct == IsInjective(tabs)

\* While tabs are open one file is active: the editor is never left empty.
OpenTabsShown == tabs # <<>> => active # None
=============================================================================
