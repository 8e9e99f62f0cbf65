------------------------------ MODULE ListPage ------------------------------
(***************************************************************************)
(* A list page of the web client: the rows of one page of a collection,    *)
(* refreshed on a timer and after every operation, while requests of       *)
(* earlier pages, filters and ticks are still under way; the operations on *)
(* rows; and the create and edit dialog.  A document is what its switch    *)
(* says (on) and the rest of it (text).  A page has one row.               *)
(***************************************************************************)
EXTENDS ListViews, Integers, FiniteSets, Bags

CONSTANTS
  Views,       \* the list views considered
  NumIds,      \* documents 1..NumIds; the last one does not exist at first
  MaxSteps,    \* bound: steps of users
  MaxInFlight, \* bound: list requests under way
  MaxFaults    \* bound: failed requests

ASSUME ViewsAssumption == Views \subseteq AllViews
ASSUME BoundsAssumption == NumIds \in Nat \ {0} /\ MaxSteps \in Nat /\ MaxInFlight \in Nat /\ MaxFaults \in Nat

VARIABLES
  view,       \* the list view shown
  docs,       \* hub: the collection
  mounted,    \* the page is mounted
  rows,       \* tableData
  query,      \* tablePagination.page; tableListFilter and tableListSort as one choice
  loading,    \* tableLoading
  inflight,   \* getList calls under way
  ops,        \* row operations under way
  dialog,     \* activeDialogKey
  form,       \* the form of the dialog
  confirming, \* confirmLoading
  confirms,   \* onConfirm calls under way
  steps, faults

tableVars == <<mounted, rows, query>>
dialogVars == <<dialog, form, confirming, confirms>>
vars == <<view, docs, mounted, rows, query, loading, inflight, ops, dialog, form,
          confirming, confirms, steps, faults>>

Ids == 1..NumIds
Pages == 1..2
Texts == {"old", "mine", "other"}
Document == [on : BOOLEAN, text : Texts]
NotYet == [on |-> FALSE, text |-> "unborn"]
Gone == [on |-> FALSE, text |-> "gone"]
Exists(d, i) == d[i] \in Document

-----------------------------------------------------------------------------
(* The hub *)

\* GetList: the documents that match the filter, sorted by id, one page of them.
Hits(d, q) == {i \in Ids : Exists(d, i) /\ (q.only => d[i].on)}
Content(d, q) ==
  LET hits == Hits(d, q)
      rank(i) == Cardinality({j \in hits : j <= i})
  IN  {[id |-> i, doc |-> d[i]] : i \in {h \in hits : rank(h) = q.page}}

\* Variant for comparison: a document that does not exist is inserted.
PutByIdUpsert(i, value) == [docs EXCEPT ![i] = value]

\* PutById replaces the whole document, if there is one.
PutById(i, value) == IF Exists(docs, i) THEN [docs EXCEPT ![i] = value] ELSE docs

Delete(ids) == [i \in Ids |-> IF i \in ids /\ Exists(docs, i) THEN Gone ELSE docs[i]]

\* Post inserts a document with an id of its own.
Post(value) == [docs EXCEPT ![CHOOSE i \in Ids : docs[i] = NotYet] = value]
RoomToPost == \E i \in Ids : docs[i] = NotYet

-----------------------------------------------------------------------------
Bag(x) == SetToBag({x})
Replace(b, x, y) == (b (-) Bag(x)) (+) Bag(y)

Blank == [on |-> FALSE, text |-> "old"]
NoForm == [id |-> 0, doc |-> Blank, row |-> FALSE]

Init ==
  /\ view \in Views
  /\ docs = [i \in Ids |-> IF i = NumIds THEN NotYet ELSE [on |-> TRUE, text |-> "old"]]
  /\ mounted = FALSE
  /\ rows = {}
  /\ query = [page |-> 1, only |-> FALSE]
  /\ loading = FALSE
  /\ inflight = EmptyBag
  /\ ops = EmptyBag
  /\ dialog = "none"
  /\ form = NoForm
  /\ confirming = FALSE
  /\ confirms = EmptyBag
  /\ steps = 0
  /\ faults = 0

Step == steps < MaxSteps /\ steps' = steps + 1
Fault == faults < MaxFaults /\ faults' = faults + 1

\* n calls of getList for the query q: what is asked is read when it is sent.
GetList(n, q) ==
  /\ BagCardinality(inflight) + n <= MaxInFlight
  /\ loading' = TRUE
  /\ inflight' = inflight (+) [r \in {[st |-> "sent", q |-> q, rows |-> {}]} |-> n]

-----------------------------------------------------------------------------
(* The page and its queries *)

Mount ==
  /\ ~mounted
  /\ Step
  /\ mounted' = TRUE
  /\ GetList(1, query)
  /\ UNCHANGED <<view, docs, rows, query, ops, dialogVars, faults>>

\* onBeforeUnmount: the rows, the filter and the sorting are reset, the page is not.
Unmount ==
  /\ mounted
  /\ Step
  /\ mounted' = FALSE
  /\ rows' = {}
  /\ form' = [form EXCEPT !.row = FALSE]
  /\ query' = [query EXCEPT !.only = FALSE]
  /\ UNCHANGED <<view, docs, loading, inflight, ops, dialog, confirming, confirms, faults>>

\* The interval does not wait for the answer of the tick before.
AutoUpdate ==
  /\ mounted
  /\ view.auto
  /\ GetList(1, query)
  /\ UNCHANGED <<view, docs, tableVars, ops, dialogVars, steps, faults>>

\* setTablePagination, with a new page or page size, seen by every watcher.
SetPage(p) ==
  /\ mounted
  /\ Step
  /\ query' = [query EXCEPT !.page = p]
  /\ GetList(view.watchers, query')
  /\ UNCHANGED <<view, docs, mounted, rows, ops, dialogVars, faults>>

\* onHeaderChange and onListFilterChangeByKey.
SetFilter(only) ==
  /\ mounted
  /\ Step
  /\ query' = [query EXCEPT !.only = only]
  /\ GetList(1, query')
  /\ UNCHANGED <<view, docs, mounted, rows, ops, dialogVars, faults>>

HubAnswer(r) ==
  /\ r.st = "sent"
  /\ inflight' = Replace(inflight, r, [r EXCEPT !.st = "answered", !.rows = Content(docs, r.q)])
  /\ UNCHANGED <<view, docs, tableVars, loading, ops, dialogVars, steps, faults>>

\* The table takes over other rows; the form of a dialog is no longer one of them.
SetTableData(new) ==
  /\ rows' = new
  /\ form' = IF new = rows THEN form ELSE [form EXCEPT !.row = FALSE]

\* Variant for comparison: an answer is taken over when it has another number of rows.
DeliverByCount(r) ==
  /\ r.st = "answered"
  /\ inflight' = inflight (-) Bag(r)
  /\ loading' = FALSE
  /\ SetTableData(IF Cardinality(r.rows) # Cardinality(rows) THEN r.rows ELSE rows)
  /\ UNCHANGED <<view, docs, mounted, query, ops, dialog, confirming, confirms, steps, faults>>

\* The answer is shown whenever it arrives, for the query it was sent with; the first
\* answer ends the spinner.
Deliver(r) ==
  /\ r.st = "answered"
  /\ inflight' = inflight (-) Bag(r)
  /\ loading' = FALSE
  /\ SetTableData(r.rows)
  /\ UNCHANGED <<view, docs, mounted, query, ops, dialog, confirming, confirms, steps, faults>>

\* Variant for comparison: the spinner is ended by an answer only.
ListFailsSpinning(r) ==
  /\ Fault
  /\ inflight' = inflight (-) Bag(r)
  /\ UNCHANGED <<view, docs, tableVars, loading, ops, dialogVars, steps>>

\* The request fails.
ListFails(r) ==
  /\ Fault
  /\ inflight' = inflight (-) Bag(r)
  /\ loading' = FALSE
  /\ UNCHANGED <<view, docs, tableVars, ops, dialogVars, steps>>

\* A 401 that could not be repaired resolves to no response, which is an empty list.
ListUnauthorized(r) ==
  /\ Fault
  /\ r.st = "sent"
  /\ inflight' = inflight (-) Bag(r)
  /\ loading' = FALSE
  /\ SetTableData({})
  /\ UNCHANGED <<view, docs, mounted, query, ops, dialog, confirming, confirms, steps>>

-----------------------------------------------------------------------------
(* Operations on rows *)

Op(kind, ids, value) == [kind |-> kind, st |-> "sent", ids |-> ids, value |-> value]
Start(op) == ops' = ops (+) Bag(op)
Posted == {"post", "refresh"}

\* deleteByIdConfirm and the onDelete of a row, confirmed.
DeleteRow(row) ==
  /\ mounted /\ view.delete
  /\ Step
  /\ Start(Op("delete", {row.id}, Blank))
  /\ UNCHANGED <<view, docs, tableVars, loading, inflight, dialogVars, faults>>

\* Restart or cancel a task, clone a repository.
Act(row) ==
  /\ mounted /\ view.act
  /\ Step
  /\ Start(Op("act", {row.id}, Blank))
  /\ UNCHANGED <<view, docs, tableVars, loading, inflight, dialogVars, faults>>

\* The switch of a node changes the row in the table and puts that whole row.
SwitchRow(row) ==
  LET new == [row.doc EXCEPT !.on = ~@] IN
  /\ mounted /\ view.switch = "row"
  /\ Step
  /\ rows' = (rows \ {row}) \cup {[row EXCEPT !.doc = new]}
  /\ Start(Op("put", {row.id}, new))
  /\ UNCHANGED <<view, docs, mounted, query, loading, inflight, dialogVars, faults>>

\* The switch of an alert puts a changed copy of the whole row.
SwitchCopy(row) ==
  /\ mounted /\ view.switch = "copy"
  /\ Step
  /\ Start(Op("put", {row.id}, [row.doc EXCEPT !.on = ~@]))
  /\ UNCHANGED <<view, docs, tableVars, loading, inflight, dialogVars, faults>>

\* Variant for comparison: the switch of a schedule puts the row, too.
SwitchPostWhole(row) ==
  /\ mounted /\ view.switch \in Posted
  /\ Step
  /\ Start(Op("put", {row.id}, [row.doc EXCEPT !.on = ~@]))
  /\ UNCHANGED <<view, docs, tableVars, loading, inflight, dialogVars, faults>>

\* The switch of a notification setting or a schedule calls enable or disable: all it
\* sends is the id and which of the two.
SwitchPost(row) ==
  /\ mounted /\ view.switch \in Posted
  /\ Step
  /\ Start(Op(view.switch, {row.id}, [Blank EXCEPT !.on = ~row.doc.on]))
  /\ UNCHANGED <<view, docs, tableVars, loading, inflight, dialogVars, faults>>

\* A new token, after the prompt for its name.
CreateDirect ==
  /\ mounted /\ view.create = "direct"
  /\ Step
  /\ Start(Op("create", {}, [Blank EXCEPT !.text = "mine"]))
  /\ UNCHANGED <<view, docs, tableVars, loading, inflight, dialogVars, faults>>

\* PostScheduleEnable and PostScheduleDisable read the document; Enable and Disable of
\* the schedule service write this copy of all of it, with the switch changed, later (the
\* calls for notification settings are taken to do the same).  If there is no such
\* document, the call is an error and the view does not ask for the list.
HubSwitchRead(op) ==
  LET i == CHOOSE id \in op.ids : TRUE
      copy == [docs[i] EXCEPT !.on = op.value.on]
  IN  /\ op.kind \in Posted /\ op.st = "sent"
      /\ ops' = IF Exists(docs, i) THEN Replace(ops, op, [op EXCEPT !.st = "read", !.value = copy])
                ELSE ops (-) Bag(op)
      /\ UNCHANGED <<view, docs, tableVars, loading, inflight, dialogVars, steps, faults>>

\* What the hub does with an operation.
Effect(op) ==
  CASE op.kind = "delete" -> Delete(op.ids)
    [] op.kind \in {"put"} \cup Posted -> PutById(CHOOSE i \in op.ids : TRUE, op.value)
    [] op.kind = "create" -> Post(op.value)
    [] op.kind = "act" -> docs

\* The answer to an operation with no refresh after it only shows a message.
HubOperation(op) ==
  /\ op.st = IF op.kind \in Posted THEN "read" ELSE "sent"
  /\ op.kind = "create" => RoomToPost
  /\ docs' = Effect(op)
  /\ ops' = IF op.kind \in {"put", "post"} THEN ops (-) Bag(op)
            ELSE Replace(ops, op, [op EXCEPT !.st = "done"])
  /\ UNCHANGED <<view, tableVars, loading, inflight, dialogVars, steps, faults>>

OperationDone(op) ==
  /\ op.st = "done"
  /\ ops' = ops (-) Bag(op)
  /\ GetList(1, query)
  /\ UNCHANGED <<view, docs, tableVars, dialogVars, steps, faults>>

\* Before or after the hub has acted on it: the list is not asked for.
OperationFails(op) ==
  /\ Fault
  /\ ops' = ops (-) Bag(op)
  /\ UNCHANGED <<view, docs, tableVars, loading, inflight, dialogVars, steps>>

-----------------------------------------------------------------------------
(* The create and edit dialog *)

\* showDialog create: useList puts a new form into the store.
OpenCreate ==
  /\ mounted /\ view.create = "dialog" /\ dialog = "none"
  /\ Step
  /\ dialog' = "create"
  /\ form' = [id |-> 0, doc |-> [on |-> TRUE, text |-> "mine"], row |-> FALSE]
  /\ UNCHANGED <<view, docs, tableVars, loading, inflight, ops, confirming, confirms, faults>>

\* setForm(row): what is typed into the form is typed into the row of the table.
OpenEdit(row) ==
  LET new == [row.doc EXCEPT !.text = "mine"] IN
  /\ mounted /\ view.edit /\ dialog = "none"
  /\ Step
  /\ dialog' = "edit"
  /\ form' = [id |-> row.id, doc |-> new, row |-> TRUE]
  /\ rows' = (rows \ {row}) \cup {[row EXCEPT !.doc = new]}
  /\ UNCHANGED <<view, docs, mounted, query, loading, inflight, ops, confirming, confirms, faults>>

\* hideDialog.
HideDialog ==
  /\ dialog' = "none"
  /\ form' = NoForm
  /\ confirming' = FALSE

CloseDialog ==
  /\ dialog # "none"
  /\ mounted
  /\ HideDialog
  /\ UNCHANGED <<view, docs, tableVars, loading, inflight, ops, confirms, steps, faults>>

\* onConfirm: the button is free as long as it does not spin.
Confirm ==
  /\ mounted /\ dialog # "none" /\ ~confirming
  /\ Step
  /\ confirms' = confirms (+) Bag([st |-> "sent", timer |-> TRUE, id |-> form.id, doc |-> form.doc])
  /\ UNCHANGED <<view, docs, tableVars, loading, inflight, ops, dialog, form, confirming, faults>>

\* Variant for comparison: the timer does not look at isRequestFinished.
ConfirmTimerAlways(c) ==
  /\ c.timer
  /\ confirming' = TRUE
  /\ confirms' = IF c.st = "over" THEN confirms (-) Bag(c)
                 ELSE Replace(confirms, c, [c EXCEPT !.timer = FALSE])
  /\ UNCHANGED <<view, docs, tableVars, loading, inflight, ops, dialog, form, steps, faults>>

\* The 50 ms after a confirmation are over.
ConfirmTimer(c) ==
  /\ c.timer
  /\ confirming' = (confirming \/ c.st # "over")
  /\ confirms' = IF c.st = "over" THEN confirms (-) Bag(c)
                 ELSE Replace(confirms, c, [c EXCEPT !.timer = FALSE])
  /\ UNCHANGED <<view, docs, tableVars, loading, inflight, ops, dialog, form, steps, faults>>

HubConfirm(c) ==
  /\ c.st = "sent"
  /\ c.id = 0 => RoomToPost
  /\ docs' = IF c.id = 0 THEN Post(c.doc) ELSE PutById(c.id, c.doc)
  /\ confirms' = Replace(confirms, c, [c EXCEPT !.st = "done"])
  /\ UNCHANGED <<view, tableVars, loading, inflight, ops, dialog, form, confirming, steps, faults>>

\* isRequestFinished: only the timer is left of the confirmation.
Over(c) == IF c.timer THEN Replace(confirms, c, [c EXCEPT !.st = "over"]) ELSE confirms (-) Bag(c)

\* The answer closes the dialog that is open by now and asks for the list.
ConfirmDone(c) ==
  /\ c.st = "done"
  /\ confirms' = Over(c)
  /\ HideDialog
  /\ GetList(1, query)
  /\ UNCHANGED <<view, docs, tableVars, ops, steps, faults>>

ConfirmFails(c) ==
  /\ c.st # "over"
  /\ Fault
  /\ confirms' = Over(c)
  /\ confirming' = FALSE
  /\ UNCHANGED <<view, docs, tableVars, loading, inflight, ops, dialog, form, steps>>

-----------------------------------------------------------------------------
(* Other users *)

OtherEdits(i) ==
  /\ Exists(docs, i)
  /\ Step
  /\ docs' = [docs EXCEPT ![i].text = "other"]
  /\ UNCHANGED <<view, tableVars, loading, inflight, ops, dialogVars, faults>>

OtherDeletes(i) ==
  /\ Exists(docs, i)
  /\ Step
  /\ docs' = Delete({i})
  /\ UNCHANGED <<view, tableVars, loading, inflight, ops, dialogVars, faults>>

Next ==
  \/ Mount \/ Unmount \/ AutoUpdate
  \/ \E p \in Pages : SetPage(p)
  \/ \E only \in BOOLEAN : SetFilter(only)
  \/ \E r \in BagToSet(inflight) : HubAnswer(r) \/ Deliver(r) \/ ListFails(r) \/ ListUnauthorized(r)
  \/ \E row \in rows :
       \/ DeleteRow(row) \/ Act(row) \/ SwitchRow(row) \/ SwitchCopy(row) \/ SwitchPost(row)
       \/ OpenEdit(row)
  \/ CreateDirect
  \/ \E op \in BagToSet(ops) :
       HubSwitchRead(op) \/ HubOperation(op) \/ OperationDone(op) \/ OperationFails(op)
  \/ OpenCreate \/ CloseDialog \/ Confirm
  \/ \E c \in BagToSet(confirms) :
       ConfirmTimer(c) \/ HubConfirm(c) \/ ConfirmDone(c) \/ ConfirmFails(c)
  \/ \E i \in Ids : OtherEdits(i) \/ OtherDeletes(i)

Spec == Init /\ [][Next]_vars

\* The interval of the page goes on, the hub answers and the browser runs the callbacks.
FairSpec ==
  /\ Spec
  /\ WF_vars(AutoUpdate)
  /\ WF_vars(\E r \in BagToSet(inflight) : HubAnswer(r))
  /\ WF_vars(\E r \in BagToSet(inflight) : Deliver(r))

-----------------------------------------------------------------------------
Row == [id : Ids, doc : Document]
Query == [page : Pages, only : BOOLEAN]

\* Type invariant: tableData holds rows, the collection holds documents and every request
\* asks for a page.
TypeOK ==
  /\ view \in Views
  /\ docs \in [Ids -> Document \cup {NotYet, Gone}]
  /\ mounted \in BOOLEAN
  /\ rows \in SUBSET Row
  /\ query \in Query
  /\ loading \in BOOLEAN
  /\ \A r \in BagToSet(inflight) : r \in [st : {"sent", "answered"}, q : Query, rows : SUBSET Row]
  /\ \A op \in BagToSet(ops) :
       op \in [kind : {"delete", "put", "post", "refresh", "create", "act"}, st : {"sent", "read", "done"},
               ids : SUBSET Ids, value : Document]
  /\ dialog \in {"none", "create", "edit"}
  /\ form \in [id : 0..NumIds, doc : Document, row : BOOLEAN]
  /\ confirming \in BOOLEAN
  /\ \A c \in BagToSet(confirms) :
       c \in [st : {"sent", "done", "over"}, timer : BOOLEAN, id : 0..NumIds, doc : Document]
  /\ steps \in 0..MaxSteps
  /\ faults \in 0..MaxFaults

\* The finally of getList: a table that spins is waiting for an answer, whatever of the
\* requests under way failed, was answered out of order or belongs to another page.
SpinnerEnds == loading => BagToSet(inflight) # {}

\* isRequestFinished of onConfirm: the dialog's button spins only for a confirmation that
\* is not over, also when the timer of an earlier one fires late or the dialog was closed
\* and opened again.
ConfirmSpinnerEnds == confirming => \E c \in BagToSet(confirms) : c.st \in {"sent", "done"}

\* PutById does not insert: no late switch, edit or confirmation brings a document back
\* that somebody has deleted.
NoResurrection == [][\A i \in Ids : docs[i] = Gone => docs'[i] = Gone]_vars

\* What another user wrote is undone only by a write of the whole document: the switches
\* of nodes and alerts and the edit dialog write what the browser had listed, however old;
\* the switch of a schedule writes what the hub itself had read for this very call
\* (postScheduleEnableDisableFunc), so it can lose only what was written since then.  No
\* other view loses anything.
OthersKept ==
  [][\A i \in Ids :
       (docs[i].text = "other" /\ docs'[i].text \in Texts \ {"other"}) =>
         \/ view.switch \in {"row", "copy"}
         \/ view.edit
         \/ \E op \in BagToSet(ops) :
              op.kind \in Posted /\ op.st = "read" /\ op.ids = {i} /\ op.value = docs'[i]]_vars

\* setupAutoUpdate: a view that refreshes itself ends up with the rows of the query it
\* shows, whatever order the answers of earlier queries arrive in and whatever failed.
ShowsTheQuery == view.auto => <>[](mounted => rows = Content(docs, query))
=============================================================================
