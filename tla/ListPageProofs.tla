--------------------------- MODULE ListPageProofs ---------------------------
(***************************************************************************)
(* The safety properties of a list page for any set of views, any number   *)
(* of documents, requests under way, steps and faults.                     *)
(*                                                                         *)
(* SpinnerEnds is inductive as it stands.  ConfirmSpinnerEnds needs that   *)
(* the confirmations under way are a bag, so that ending one leaves the    *)
(* others.  OthersKept needs to know which views send a whole document:    *)
(* every put and every edit under way is one the view has, and a posted    *)
(* switch is about one document.                                           *)
(***************************************************************************)
EXTENDS ListPage, TLAPS

ListRequest == [st : {"sent", "answered"}, q : Query, rows : SUBSET Row]
RowOperation == [kind : {"delete", "put", "post", "refresh", "create", "act"},
                 st : {"sent", "read", "done"}, ids : SUBSET Ids, value : Document]
Form == [id : 0..NumIds, doc : Document, row : BOOLEAN]
Confirmation == [st : {"sent", "done", "over"}, timer : BOOLEAN, id : 0..NumIds, doc : Document]
Documents == [Ids -> Document \cup {NotYet, Gone}]

(* The inductive invariant, by the part of the page it speaks of. *)
TableOK ==
  /\ view \in Views
  /\ docs \in Documents
  /\ mounted \in BOOLEAN
  /\ rows \in SUBSET Row
  /\ query \in Query
  /\ steps \in 0..MaxSteps
  /\ faults \in 0..MaxFaults

RequestsOK ==
  /\ loading \in BOOLEAN
  /\ \A r \in BagToSet(inflight) : r \in ListRequest
  /\ SpinnerEnds

WholeSwitch == view.switch \in {"row", "copy"}
OperationOK(op) ==
  /\ op \in RowOperation
  /\ op.kind = "put" => WholeSwitch
  /\ op.kind \in Posted => \E i \in Ids : op.ids = {i}
OperationsOK == \A op \in BagToSet(ops) : OperationOK(op)

FormOK ==
  /\ dialog \in {"none", "create", "edit"}
  /\ form \in Form
  /\ form.id # 0 => view.edit

ConfirmsOK ==
  /\ confirming \in BOOLEAN
  /\ IsABag(confirms)
  /\ \A c \in BagToSet(confirms) : c \in Confirmation /\ (c.id # 0 => view.edit)
  /\ ConfirmSpinnerEnds

Inv == TableOK /\ RequestsOK /\ OperationsOK /\ FormOK /\ ConfirmsOK

-----------------------------------------------------------------------------
(* Bags: what is in them after a step *)

LEMMA OneBag == ASSUME NEW x PROVE BagToSet(Bag(x)) = {x} /\ IsABag(Bag(x))
BY DEF Bag, BagToSet, SetToBag, IsABag

LEMMA SumBag ==
  ASSUME NEW A, NEW B
  PROVE  /\ BagToSet(A (+) B) = BagToSet(A) \cup BagToSet(B)
         /\ IsABag(A) /\ IsABag(B) => IsABag(A (+) B)
<1>1. BagToSet(A (+) B) = BagToSet(A) \cup BagToSet(B)
  BY DEF BagToSet, (+)
<1>2. ASSUME IsABag(A), IsABag(B) PROVE IsABag(A (+) B)
  BY <1>2 DEF IsABag, (+)
<1> QED
  BY <1>1, <1>2

LEMMA AddBag ==
  ASSUME NEW A, NEW x
  PROVE  /\ BagToSet(A (+) Bag(x)) = BagToSet(A) \cup {x}
         /\ IsABag(A) => IsABag(A (+) Bag(x))
BY SumBag, OneBag

LEMMA DifferenceBag ==
  ASSUME NEW A, NEW x
  PROVE  /\ BagToSet(A (-) Bag(x)) \subseteq BagToSet(A)
         /\ IsABag(A) => IsABag(A (-) Bag(x)) /\ BagToSet(A) \ {x} \subseteq BagToSet(A (-) Bag(x))
<1>1. BagToSet(A (-) Bag(x)) \subseteq BagToSet(A)
  BY DEF BagToSet, (-)
<1>2. ASSUME IsABag(A) PROVE IsABag(A (-) Bag(x))
  BY <1>2 DEF IsABag, (-), Bag, SetToBag
<1>3. ASSUME IsABag(A) PROVE BagToSet(A) \ {x} \subseteq BagToSet(A (-) Bag(x))
  BY <1>3 DEF IsABag, BagToSet, (-), Bag, SetToBag
<1> QED
  BY <1>1, <1>2, <1>3

LEMMA ReplaceBag ==
  ASSUME NEW A, NEW x, NEW y
  PROVE  /\ y \in BagToSet(Replace(A, x, y))
         /\ BagToSet(Replace(A, x, y)) \subseteq BagToSet(A) \cup {y}
         /\ IsABag(A) => /\ IsABag(Replace(A, x, y))
                         /\ BagToSet(A) \ {x} \subseteq BagToSet(Replace(A, x, y))
BY AddBag, DifferenceBag DEF Replace

LEMMA GetListSet ==
  ASSUME NEW n, NEW q, GetList(n, q)
  PROVE  /\ loading' = TRUE
         /\ BagToSet(inflight') = BagToSet(inflight) \cup {[st |-> "sent", q |-> q, rows |-> {}]}
<1>1. BagToSet([r \in {[st |-> "sent", q |-> q, rows |-> {}]} |-> n]) = {[st |-> "sent", q |-> q, rows |-> {}]}
  BY DEF BagToSet
<1> QED
  BY <1>1, SumBag DEF GetList

-----------------------------------------------------------------------------
(* The hub: what each write of the collection keeps *)

LEMMA Existing ==
  /\ NotYet \notin Document /\ Gone \notin Document /\ NotYet # Gone
  /\ Gone.text \notin Texts /\ NotYet.text \notin Texts
  /\ \A d \in Document : d.text \in Texts
BY DEF NotYet, Gone, Document, Texts

(* A deleted document stays deleted, and somebody else's text is written over by a put only. *)
Kept(new) ==
  /\ new \in Documents
  /\ \A i \in Ids : docs[i] = Gone => new[i] = Gone
KeptText(new) == \A i \in Ids : docs[i].text = "other" /\ new[i].text \in Texts => new[i].text = "other"

LEMMA PutByIdKeeps ==
  ASSUME docs \in Documents, NEW i, NEW value \in Document
  PROVE  Kept(PutById(i, value))
BY Existing DEF Documents, PutById, Exists, Kept

LEMMA DeleteKeeps ==
  ASSUME docs \in Documents, NEW ids
  PROVE  Kept(Delete(ids)) /\ KeptText(Delete(ids))
BY Existing DEF Documents, Delete, Kept, KeptText, Exists

LEMMA PostKeeps ==
  ASSUME docs \in Documents, NEW value \in Document, RoomToPost
  PROVE  Kept(Post(value)) /\ KeptText(Post(value))
<1> DEFINE new == CHOOSE i \in Ids : docs[i] = NotYet
<1>1. new \in Ids /\ docs[new] = NotYet
  BY DEF RoomToPost
<1>2. Post(value) = [docs EXCEPT ![new] = value]
  BY DEF Post
<1> HIDE DEF new
<1>3. docs[new].text # "other"
  BY <1>1 DEF NotYet
<1> QED
  BY <1>1, <1>2, <1>3, Existing DEF Documents, Kept, KeptText

LEMMA OtherKeeps ==
  ASSUME docs \in Documents, NEW i \in Ids, Exists(docs, i)
  PROVE  Kept([docs EXCEPT ![i].text = "other"]) /\ KeptText([docs EXCEPT ![i].text = "other"])
<1>1. [docs[i] EXCEPT !.text = "other"] \in Document /\ [docs[i] EXCEPT !.text = "other"].text = "other"
  BY DEF Exists, Document, Texts
<1> QED
  BY <1>1, Existing DEF Documents, Kept, KeptText, Exists

LEMMA EffectKeeps ==
  ASSUME docs \in Documents, NEW op \in RowOperation, op.kind = "create" => RoomToPost
  PROVE  /\ Kept(Effect(op))
         /\ op.kind \notin {"put"} \cup Posted => KeptText(Effect(op))
<1>1. op.value \in Document
  BY DEF RowOperation
<1>2. op.kind \in {"delete", "put", "post", "refresh", "create", "act"}
  BY DEF RowOperation
<1>3. CASE op.kind = "delete"
  BY <1>3, DeleteKeeps DEF Effect, Posted
<1>4. CASE op.kind \in {"put"} \cup Posted
  BY <1>4, <1>1, PutByIdKeeps DEF Effect, Posted
<1>6. CASE op.kind = "create"
  BY <1>6, <1>1, PostKeeps DEF Effect, Posted
<1>7. CASE op.kind = "act"
  <2>1. Effect(op) = docs
    BY <1>7 DEF Effect, Posted
  <2> QED
    BY <2>1 DEF Kept, KeptText
<1> QED
  BY <1>2, <1>3, <1>4, <1>6, <1>7 DEF Posted

-----------------------------------------------------------------------------
(* Types *)

LEMMA ContentIsRows ==
  ASSUME NEW q
  PROVE  Content(docs, q) \in SUBSET Row
<1>1. \A i \in Hits(docs, q) : [id |-> i, doc |-> docs[i]] \in Row
  BY DEF Hits, Exists, Row
<1> QED
  BY <1>1 DEF Content

LEMMA ChangedDocument ==
  ASSUME NEW d \in Document
  PROVE  /\ d.on \in BOOLEAN /\ d.text \in Texts
         /\ \A on \in BOOLEAN : [d EXCEPT !.on = on] \in Document
         /\ \A t \in Texts : [d EXCEPT !.text = t] \in Document
BY DEF Document

LEMMA BlankIsDocument == Blank \in Document
BY DEF Blank, Document, Texts

LEMMA RowParts ==
  ASSUME NEW row \in Row
  PROVE  /\ row.id \in Ids /\ row.doc \in Document /\ row.doc.on \in BOOLEAN
         /\ \A d \in Document : [row EXCEPT !.doc = d] \in Row
BY ChangedDocument DEF Row

LEMMA IdsAreForms == \A i \in Ids : i \in 0..NumIds /\ i # 0
BY BoundsAssumption DEF Ids

(* The value a switch sends. *)
LEMMA Toggled ==
  ASSUME NEW row \in Row
  PROVE  /\ [row.doc EXCEPT !.on = ~@] \in Document
         /\ [Blank EXCEPT !.on = ~row.doc.on] \in Document
<1>1. (~row.doc.on) \in BOOLEAN
  OBVIOUS
<1>2. \A d \in Document, on \in BOOLEAN : [d EXCEPT !.on = on] \in Document
  BY ChangedDocument
<1>3. row.doc \in Document
  BY RowParts
<1> QED
  BY <1>1, <1>2, <1>3, BlankIsDocument, Zenon

(* What a step sends and what it becomes has the type of a request. *)
LEMMA GetListType ==
  ASSUME \A r \in BagToSet(inflight) : r \in ListRequest, NEW n, NEW q \in Query, GetList(n, q)
  PROVE  loading' \in BOOLEAN /\ \A r \in BagToSet(inflight') : r \in ListRequest
<1>1. [st |-> "sent", q |-> q, rows |-> {}] \in ListRequest
  BY DEF ListRequest
<1> QED
  BY <1>1, GetListSet

LEMMA FormType ==
  ASSUME form \in Form
  PROVE  /\ [form EXCEPT !.row = FALSE] \in Form /\ [form EXCEPT !.row = FALSE].id = form.id
         /\ NoForm \in Form /\ NoForm.id = 0
<1>1. NoForm \in Form /\ NoForm.id = 0
  BY BlankIsDocument, BoundsAssumption DEF NoForm, Form
<1> QED
  BY <1>1 DEF Form

LEMMA SetTableDataType ==
  ASSUME form \in Form, NEW new \in SUBSET Row, SetTableData(new)
  PROVE  rows' \in SUBSET Row /\ form' \in Form /\ form'.id = form.id
BY FormType DEF SetTableData

LEMMA OverSet ==
  ASSUME NEW c \in Confirmation, \A d \in BagToSet(confirms) : d \in Confirmation
  PROVE  /\ \A d \in BagToSet(Over(c)) : d \in Confirmation
         /\ \A d \in BagToSet(Over(c)) : d \in BagToSet(confirms) \/ d.id = c.id
         /\ IsABag(confirms) => IsABag(Over(c))
<1>1. [c EXCEPT !.st = "over"] \in Confirmation /\ [c EXCEPT !.st = "over"].id = c.id
  BY DEF Confirmation
<1>2. BagToSet(Over(c)) \subseteq BagToSet(confirms) \cup {[c EXCEPT !.st = "over"]}
  BY ReplaceBag, DifferenceBag DEF Over
<1>3. IsABag(confirms) => IsABag(Over(c))
  BY ReplaceBag, DifferenceBag DEF Over
<1> QED
  BY <1>1, <1>2, <1>3

LEMMA Counted ==
  ASSUME steps \in 0..MaxSteps, faults \in 0..MaxFaults
  PROVE  /\ Step => steps' \in 0..MaxSteps
         /\ Fault => faults' \in 0..MaxFaults
BY BoundsAssumption DEF Step, Fault

-----------------------------------------------------------------------------
(* The parts of the invariant under the steps that touch them *)

LEMMA TableSame ==
  ASSUME TableOK, UNCHANGED <<view, docs, tableVars>>, Step \/ UNCHANGED steps, Fault \/ UNCHANGED faults
  PROVE  TableOK'
BY Counted DEF TableOK, tableVars

LEMMA RequestsSame == ASSUME RequestsOK, UNCHANGED <<loading, inflight>> PROVE RequestsOK'
BY DEF RequestsOK, SpinnerEnds

LEMMA OperationsSame == ASSUME OperationsOK, UNCHANGED <<view, ops>> PROVE OperationsOK'
BY DEF OperationsOK, OperationOK, WholeSwitch

LEMMA FormSame == ASSUME FormOK, UNCHANGED <<view, dialog, form>> PROVE FormOK'
BY DEF FormOK

LEMMA ConfirmsSame == ASSUME ConfirmsOK, UNCHANGED <<view, confirming, confirms>> PROVE ConfirmsOK'
BY DEF ConfirmsOK, ConfirmSpinnerEnds

LEMMA RequestsAsked ==
  ASSUME RequestsOK, NEW n, NEW q \in Query, GetList(n, q)
  PROVE  RequestsOK'
BY GetListType, GetListSet DEF RequestsOK, SpinnerEnds

(* A call of getList ends, and with it the spinner. *)
LEMMA RequestsEnded ==
  ASSUME RequestsOK, NEW r, inflight' = inflight (-) Bag(r), loading' = FALSE
  PROVE  RequestsOK'
BY DifferenceBag DEF RequestsOK, SpinnerEnds

LEMMA FormTaken ==
  ASSUME FormOK, NEW new \in SUBSET Row, SetTableData(new), UNCHANGED <<view, dialog>>
  PROVE  FormOK' /\ rows' \in SUBSET Row
BY SetTableDataType DEF FormOK

LEMMA OperationStarted ==
  ASSUME OperationsOK, NEW kind \in {"delete", "put", "post", "refresh", "create", "act"},
         NEW ids \in SUBSET Ids, NEW value \in Document, Start(Op(kind, ids, value)),
         kind = "put" => WholeSwitch, kind \in Posted => \E i \in Ids : ids = {i}, UNCHANGED view
  PROVE  OperationsOK'
<1>1. BagToSet(ops') = BagToSet(ops) \cup {Op(kind, ids, value)}
  BY AddBag DEF Start
<1>2. Op(kind, ids, value) \in RowOperation /\ Op(kind, ids, value).kind = kind
      /\ Op(kind, ids, value).ids = ids
  BY DEF Op, RowOperation
<1> QED
  BY <1>1, <1>2 DEF OperationsOK, OperationOK, WholeSwitch

LEMMA OperationEnded ==
  ASSUME OperationsOK, NEW op, ops' = ops (-) Bag(op), UNCHANGED view
  PROVE  OperationsOK'
BY DifferenceBag DEF OperationsOK, OperationOK, WholeSwitch

LEMMA FormHidden == ASSUME FormOK, HideDialog PROVE FormOK'
BY FormType DEF FormOK, HideDialog

(* A confirmation goes on to another state and is not over. *)
LEMMA ConfirmReplaced ==
  ASSUME ConfirmsOK, NEW c \in BagToSet(confirms), NEW d \in Confirmation,
         d.id = c.id, d.st \in {"sent", "done"}, confirming' \in BOOLEAN,
         confirms' = Replace(confirms, c, d), UNCHANGED view
  PROVE  ConfirmsOK'
<1>1. d \in BagToSet(confirms') /\ BagToSet(confirms') \subseteq BagToSet(confirms) \cup {d} /\ IsABag(confirms')
  BY ReplaceBag DEF ConfirmsOK
<1> QED
  BY <1>1 DEF ConfirmsOK, ConfirmSpinnerEnds

(* A confirmation is over, and the button is free. *)
LEMMA ConfirmOver ==
  ASSUME ConfirmsOK, NEW c \in BagToSet(confirms), confirms' = Over(c), confirming' = FALSE, UNCHANGED view
  PROVE  ConfirmsOK'
<1>1. c \in Confirmation /\ (c.id # 0 => view.edit) /\ \A d \in BagToSet(confirms) : d \in Confirmation
  BY DEF ConfirmsOK
<1>2. /\ \A d \in BagToSet(confirms') : d \in Confirmation /\ (d \in BagToSet(confirms) \/ d.id = c.id)
      /\ IsABag(confirms')
  BY <1>1, OverSet DEF ConfirmsOK
<1> QED
  BY <1>1, <1>2 DEF ConfirmsOK, ConfirmSpinnerEnds

(* The timer of a confirmation that is over: another one keeps the button spinning. *)
LEMMA ConfirmForgotten ==
  ASSUME ConfirmsOK, NEW c, c.st = "over", confirms' = confirms (-) Bag(c), UNCHANGED <<view, confirming>>
  PROVE  ConfirmsOK'
<1>1. /\ BagToSet(confirms') \subseteq BagToSet(confirms) /\ IsABag(confirms')
      /\ BagToSet(confirms) \ {c} \subseteq BagToSet(confirms')
  BY DifferenceBag DEF ConfirmsOK
<1> QED
  BY <1>1 DEF ConfirmsOK, ConfirmSpinnerEnds

-----------------------------------------------------------------------------
(* One lemma for the steps of each part *)

LEMMA InitInv == ASSUME Init PROVE Inv
<1>1. TableOK
  <2>1. [on |-> TRUE, text |-> "old"] \in Document
    BY DEF Document, Texts
  <2>2. docs \in Documents
    BY <2>1 DEF Init, Documents
  <2>3. query \in Query
    BY DEF Init, Query, Pages
  <2>4. steps \in 0..MaxSteps /\ faults \in 0..MaxFaults
    BY BoundsAssumption DEF Init
  <2> QED
    BY <2>2, <2>3, <2>4, Zenon DEF Init, TableOK
<1>2. BagToSet(EmptyBag) = {} /\ IsABag(EmptyBag)
  BY DEF EmptyBag, SetToBag, BagToSet, IsABag
<1>3. RequestsOK /\ OperationsOK /\ ConfirmsOK
  BY <1>2 DEF Init, RequestsOK, OperationsOK, ConfirmsOK, SpinnerEnds, ConfirmSpinnerEnds
<1>4. FormOK
  BY BlankIsDocument, BoundsAssumption DEF Init, FormOK, Form, NoForm
<1> QED
  BY <1>1, <1>3, <1>4 DEF Inv

LEMMA MountInv == ASSUME Inv, Mount PROVE Inv'
<1>1. TableOK'
  <2>1. steps' \in 0..MaxSteps
    BY Counted DEF Inv, TableOK, Mount
  <2> QED
    BY <2>1, Zenon DEF Inv, TableOK, Mount
<1>2. RequestsOK'
  BY RequestsAsked DEF Inv, TableOK, Mount
<1> QED
  BY <1>1, <1>2, OperationsSame, FormSame, ConfirmsSame DEF Inv, Mount, dialogVars

LEMMA UnmountInv == ASSUME Inv, Unmount PROVE Inv'
<1>1. TableOK'
  <2>1. query' \in Query
    BY DEF Inv, TableOK, Unmount, Query
  <2> QED
    BY <2>1, Counted DEF Inv, TableOK, Unmount
<1>2. FormOK'
  BY FormType DEF Inv, FormOK, Unmount
<1> QED
  BY <1>1, <1>2, RequestsSame, OperationsSame, ConfirmsSame DEF Inv, Unmount

LEMMA AutoUpdateInv == ASSUME Inv, AutoUpdate PROVE Inv'
<1>1. TableOK'
  BY TableSame DEF Inv, AutoUpdate
<1>2. RequestsOK'
  BY RequestsAsked DEF Inv, TableOK, AutoUpdate
<1> QED
  BY <1>1, <1>2, OperationsSame, FormSame, ConfirmsSame DEF Inv, AutoUpdate, dialogVars

LEMMA SetPageInv == ASSUME Inv, NEW p \in Pages, SetPage(p) PROVE Inv'
<1>1. query' \in Query
  BY DEF Inv, TableOK, SetPage, Query
<1>2. TableOK'
  BY <1>1, Counted DEF Inv, TableOK, SetPage
<1>3. RequestsOK'
  BY <1>1, RequestsAsked DEF Inv, SetPage
<1> QED
  BY <1>2, <1>3, OperationsSame, FormSame, ConfirmsSame DEF Inv, SetPage, dialogVars

LEMMA SetFilterInv == ASSUME Inv, NEW only \in BOOLEAN, SetFilter(only) PROVE Inv'
<1>1. query' \in Query
  BY DEF Inv, TableOK, SetFilter, Query
<1>2. TableOK'
  BY <1>1, Counted DEF Inv, TableOK, SetFilter
<1>3. RequestsOK'
  BY <1>1, RequestsAsked DEF Inv, SetFilter
<1> QED
  BY <1>2, <1>3, OperationsSame, FormSame, ConfirmsSame DEF Inv, SetFilter, dialogVars

LEMMA HubAnswerInv == ASSUME Inv, NEW r \in BagToSet(inflight), HubAnswer(r) PROVE Inv'
<1> DEFINE s == [r EXCEPT !.st = "answered", !.rows = Content(docs, r.q)]
<1>1. s \in ListRequest
  <2>1. Content(docs, r.q) \in SUBSET Row
    BY ContentIsRows
  <2>2. r \in ListRequest
    BY DEF Inv, RequestsOK
  <2> QED
    BY <2>1, <2>2 DEF ListRequest
<1>2. inflight' = Replace(inflight, r, s)
  BY DEF HubAnswer
<1> HIDE DEF s
<1>3. RequestsOK'
  <2>1. s \in BagToSet(inflight') /\ BagToSet(inflight') \subseteq BagToSet(inflight) \cup {s}
    BY <1>2, ReplaceBag
  <2> QED
    BY <1>1, <2>1 DEF Inv, HubAnswer, RequestsOK, SpinnerEnds
<1>4. TableOK'
  BY TableSame DEF Inv, HubAnswer
<1> QED
  BY <1>3, <1>4, OperationsSame, FormSame, ConfirmsSame DEF Inv, HubAnswer, dialogVars

LEMMA DeliverInv == ASSUME Inv, NEW r \in BagToSet(inflight), Deliver(r) PROVE Inv'
<1>1. r.rows \in SUBSET Row
  BY DEF Inv, RequestsOK, ListRequest
<1>2. FormOK' /\ rows' \in SUBSET Row
  BY <1>1, FormTaken DEF Inv, Deliver
<1>3. TableOK'
  BY <1>2 DEF Inv, TableOK, Deliver
<1>4. RequestsOK'
  BY RequestsEnded DEF Inv, Deliver
<1> QED
  BY <1>2, <1>3, <1>4, OperationsSame, ConfirmsSame DEF Inv, Deliver

LEMMA ListFailsInv == ASSUME Inv, NEW r \in BagToSet(inflight), ListFails(r) PROVE Inv'
<1>1. TableOK'
  BY TableSame DEF Inv, ListFails
<1>2. RequestsOK'
  BY RequestsEnded DEF Inv, ListFails
<1> QED
  BY <1>1, <1>2, OperationsSame, FormSame, ConfirmsSame DEF Inv, ListFails, dialogVars

LEMMA ListUnauthorizedInv == ASSUME Inv, NEW r \in BagToSet(inflight), ListUnauthorized(r) PROVE Inv'
<1>1. FormOK' /\ rows' \in SUBSET Row
  BY FormTaken DEF Inv, ListUnauthorized
<1>2. TableOK'
  BY <1>1, Counted DEF Inv, TableOK, ListUnauthorized
<1>3. RequestsOK'
  BY RequestsEnded DEF Inv, ListUnauthorized
<1> QED
  BY <1>1, <1>2, <1>3, OperationsSame, ConfirmsSame DEF Inv, ListUnauthorized

LEMMA RowTyped == ASSUME Inv, NEW row \in rows PROVE row \in Row /\ {row.id} \in SUBSET Ids
BY RowParts DEF Inv, TableOK

LEMMA RowOperationInv ==
  ASSUME Inv, NEW row \in rows, DeleteRow(row) \/ Act(row) \/ SwitchCopy(row) \/ SwitchPost(row)
  PROVE  Inv'
<1> USE RowTyped
<1>1. OperationsOK'
  <2>1. CASE DeleteRow(row)
    BY <2>1, OperationStarted, BlankIsDocument DEF Inv, DeleteRow
  <2>2. CASE Act(row)
    BY <2>2, OperationStarted, BlankIsDocument DEF Inv, Act
  <2>3. CASE SwitchCopy(row)
    <3>1. Start(Op("put", {row.id}, [row.doc EXCEPT !.on = ~@])) /\ WholeSwitch /\ UNCHANGED view
      BY <2>3, Zenon DEF SwitchCopy, WholeSwitch
    <3> DEFINE value == [row.doc EXCEPT !.on = ~@]
    <3>2. value \in Document /\ Start(Op("put", {row.id}, value))
      BY <3>1, Toggled, Zenon
    <3> HIDE DEF value
    <3> QED
      BY <3>1, <3>2, OperationStarted DEF Inv
  <2>4. CASE SwitchPost(row)
    <3> DEFINE value == [Blank EXCEPT !.on = ~row.doc.on]
    <3>1. value \in Document /\ Start(Op(view.switch, {row.id}, value)) /\ UNCHANGED view
      BY <2>4, Toggled, Zenon DEF SwitchPost
    <3>2. view.switch \in {"post", "refresh"}
      BY <2>4, Zenon DEF SwitchPost, Posted
    <3> HIDE DEF value
    <3> QED
      BY <3>1, <3>2, OperationStarted DEF Inv
  <2> QED
    BY <2>1, <2>2, <2>3, <2>4
<1>2. Step /\ UNCHANGED <<view, docs, tableVars, loading, inflight, dialogVars, faults>>
  BY Zenon DEF DeleteRow, Act, SwitchCopy, SwitchPost
<1>3. TableOK'
  BY <1>2, TableSame DEF Inv
<1> QED
  BY <1>1, <1>2, <1>3, RequestsSame, FormSame, ConfirmsSame DEF Inv, dialogVars

LEMMA SwitchRowInv == ASSUME Inv, NEW row \in rows, SwitchRow(row) PROVE Inv'
<1> DEFINE new == [row.doc EXCEPT !.on = ~@]
<1>1. /\ new \in Document /\ Start(Op("put", {row.id}, new)) /\ WholeSwitch
      /\ rows' = (rows \ {row}) \cup {[row EXCEPT !.doc = new]}
  BY RowTyped, Toggled, Zenon DEF SwitchRow, WholeSwitch
<1>2. Step /\ UNCHANGED <<view, docs, mounted, query, loading, inflight, dialogVars, faults>>
  BY Zenon DEF SwitchRow
<1> HIDE DEF new
<1>3. OperationsOK'
  BY <1>1, <1>2, RowTyped, OperationStarted DEF Inv
<1>4. rows' \in SUBSET Row
  BY <1>1, RowTyped, RowParts DEF Inv, TableOK
<1>5. TableOK'
  BY <1>2, <1>4, Counted DEF Inv, TableOK
<1> QED
  BY <1>2, <1>3, <1>5, RequestsSame, FormSame, ConfirmsSame DEF Inv, dialogVars

LEMMA CreateDirectInv == ASSUME Inv, CreateDirect PROVE Inv'
<1>1. [Blank EXCEPT !.text = "mine"] \in Document
  BY BlankIsDocument, ChangedDocument DEF Texts
<1>2. OperationsOK'
  BY <1>1, OperationStarted DEF Inv, CreateDirect, Posted
<1>3. TableOK'
  BY TableSame DEF Inv, CreateDirect
<1> QED
  BY <1>2, <1>3, RequestsSame, FormSame, ConfirmsSame DEF Inv, CreateDirect, dialogVars

LEMMA HubOperationInv == ASSUME Inv, NEW op \in BagToSet(ops), HubOperation(op) PROVE Inv'
<1>1. OperationOK(op) /\ op \in RowOperation
  BY DEF Inv, OperationsOK, OperationOK
<1>2. docs' \in Documents
  BY <1>1, EffectKeeps DEF Inv, TableOK, HubOperation, Kept
<1>3. TableOK'
  BY <1>2 DEF Inv, TableOK, HubOperation, tableVars
<1>4. OperationsOK'
  <2>1. [op EXCEPT !.st = "done"] \in RowOperation /\ [op EXCEPT !.st = "done"].kind = op.kind
        /\ [op EXCEPT !.st = "done"].ids = op.ids
    BY <1>1 DEF RowOperation
  <2>2. BagToSet(ops') \subseteq BagToSet(ops) \cup {[op EXCEPT !.st = "done"]}
    BY ReplaceBag, DifferenceBag DEF HubOperation
  <2>3. UNCHANGED view
    BY DEF HubOperation
  <2> QED
    BY <1>1, <2>1, <2>2, <2>3 DEF Inv, OperationsOK, OperationOK, WholeSwitch
<1> QED
  BY <1>3, <1>4, RequestsSame, FormSame, ConfirmsSame DEF Inv, HubOperation, dialogVars

LEMMA HubSwitchReadInv == ASSUME Inv, NEW op \in BagToSet(ops), HubSwitchRead(op) PROVE Inv'
<1> PICK i : i = CHOOSE id \in op.ids : TRUE
  OBVIOUS
<1> PICK copy : copy = [docs[i] EXCEPT !.on = op.value.on]
  OBVIOUS
<1> PICK read : read = [op EXCEPT !.st = "read", !.value = copy]
  OBVIOUS
<1>1. OperationOK(op) /\ op \in RowOperation
  BY DEF Inv, OperationsOK, OperationOK
<1>2. /\ ops' = IF Exists(docs, i) THEN Replace(ops, op, read) ELSE ops (-) Bag(op)
      /\ UNCHANGED view
  BY DEF HubSwitchRead
<1>3. Exists(docs, i) => copy \in Document
  BY <1>1 DEF Exists, Document, RowOperation
<1>4. Exists(docs, i) => read \in RowOperation /\ read.kind = op.kind /\ read.ids = op.ids
  BY <1>1, <1>3 DEF RowOperation
<1>5. OperationsOK'
  <2>1. CASE Exists(docs, i)
    <3>1. BagToSet(ops') \subseteq BagToSet(ops) \cup {read}
      BY <2>1, <1>2, ReplaceBag
    <3> QED
      BY <1>1, <1>2, <1>4, <2>1, <3>1 DEF Inv, OperationsOK, OperationOK, WholeSwitch
  <2>2. CASE ~Exists(docs, i)
    BY <1>2, <2>2, OperationEnded DEF Inv
  <2> QED
    BY <2>1, <2>2
<1>6. TableOK'
  BY TableSame DEF Inv, HubSwitchRead
<1> QED
  BY <1>5, <1>6, RequestsSame, FormSame, ConfirmsSame DEF Inv, HubSwitchRead, dialogVars

LEMMA OperationDoneInv == ASSUME Inv, NEW op \in BagToSet(ops), OperationDone(op) PROVE Inv'
<1>1. TableOK'
  BY TableSame DEF Inv, OperationDone
<1>2. RequestsOK'
  BY RequestsAsked DEF Inv, TableOK, OperationDone
<1>3. OperationsOK'
  BY OperationEnded DEF Inv, OperationDone
<1> QED
  BY <1>1, <1>2, <1>3, FormSame, ConfirmsSame DEF Inv, OperationDone, dialogVars

LEMMA OperationFailsInv == ASSUME Inv, NEW op \in BagToSet(ops), OperationFails(op) PROVE Inv'
<1>1. TableOK'
  BY TableSame DEF Inv, OperationFails
<1>2. OperationsOK'
  BY OperationEnded DEF Inv, OperationFails
<1> QED
  BY <1>1, <1>2, RequestsSame, FormSame, ConfirmsSame DEF Inv, OperationFails, dialogVars

LEMMA OpenCreateInv == ASSUME Inv, OpenCreate PROVE Inv'
<1>1. TableOK'
  BY TableSame DEF Inv, OpenCreate
<1>2. FormOK'
  <2>1. [id |-> 0, doc |-> [on |-> TRUE, text |-> "mine"], row |-> FALSE] \in Form
    BY BoundsAssumption DEF Form, Document, Texts
  <2> QED
    BY <2>1 DEF Inv, FormOK, OpenCreate
<1> QED
  BY <1>1, <1>2, RequestsSame, OperationsSame, ConfirmsSame DEF Inv, OpenCreate

LEMMA OpenEditInv == ASSUME Inv, NEW row \in rows, OpenEdit(row) PROVE Inv'
<1> DEFINE new == [row.doc EXCEPT !.text = "mine"]
<1>1. /\ form' = [id |-> row.id, doc |-> new, row |-> TRUE] /\ dialog' = "edit"
      /\ rows' = (rows \ {row}) \cup {[row EXCEPT !.doc = new]}
      /\ view.edit
  BY DEF OpenEdit
<1>2. Step /\ UNCHANGED <<view, docs, mounted, query, loading, inflight, ops, confirming, confirms, faults>>
  BY DEF OpenEdit
<1>3. row \in Row /\ row.id \in Ids /\ new \in Document
  BY RowTyped, RowParts, ChangedDocument DEF Texts
<1> HIDE DEF new
<1>4. rows' \in SUBSET Row
  BY <1>1, <1>3, RowParts DEF Inv, TableOK
<1>5. TableOK'
  BY <1>2, <1>4, Counted DEF Inv, TableOK
<1>6. FormOK'
  <2>1. form' \in Form
    BY <1>1, <1>3, IdsAreForms DEF Form
  <2> QED
    BY <2>1, <1>1, <1>2 DEF FormOK
<1> QED
  BY <1>2, <1>5, <1>6, RequestsSame, OperationsSame, ConfirmsSame DEF Inv

LEMMA CloseDialogInv == ASSUME Inv, CloseDialog PROVE Inv'
<1>1. TableOK'
  BY TableSame DEF Inv, CloseDialog
<1>2. FormOK'
  BY FormHidden DEF Inv, CloseDialog
<1>3. ConfirmsOK'
  BY DEF Inv, CloseDialog, HideDialog, ConfirmsOK, ConfirmSpinnerEnds
<1> QED
  BY <1>1, <1>2, <1>3, RequestsSame, OperationsSame DEF Inv, CloseDialog

LEMMA ConfirmInv == ASSUME Inv, Confirm PROVE Inv'
<1> DEFINE c == [st |-> "sent", timer |-> TRUE, id |-> form.id, doc |-> form.doc]
<1>1. c \in Confirmation /\ c.id = form.id
  BY DEF Inv, FormOK, Form, Confirmation
<1>2. BagToSet(confirms') = BagToSet(confirms) \cup {c} /\ IsABag(confirms')
  BY AddBag DEF Inv, ConfirmsOK, Confirm
<1> HIDE DEF c
<1>3. ConfirmsOK'
  BY <1>1, <1>2 DEF Inv, FormOK, ConfirmsOK, ConfirmSpinnerEnds, Confirm
<1>4. TableOK'
  BY TableSame DEF Inv, Confirm
<1> QED
  BY <1>3, <1>4, RequestsSame, OperationsSame, FormSame DEF Inv, Confirm

LEMMA ConfirmTyped ==
  ASSUME Inv, NEW c \in BagToSet(confirms)
  PROVE  /\ c \in Confirmation /\ (c.id # 0 => view.edit)
         /\ c.st \in {"sent", "done", "over"} /\ c.id \in 0..NumIds /\ c.doc \in Document
BY DEF Inv, ConfirmsOK, Confirmation

LEMMA ConfirmTimerInv == ASSUME Inv, NEW c \in BagToSet(confirms), ConfirmTimer(c) PROVE Inv'
<1>1. UNCHANGED <<view, docs, tableVars, loading, inflight, ops, dialog, form, steps, faults>>
  BY DEF ConfirmTimer
<1>2. ConfirmsOK'
  <2>1. CASE c.st = "over"
    <3>1. confirms' = confirms (-) Bag(c) /\ confirming' = confirming
      BY <2>1, Zenon DEF ConfirmTimer, Inv, ConfirmsOK
    <3> QED
      BY <2>1, <3>1, <1>1, ConfirmForgotten DEF Inv
  <2>2. CASE c.st # "over"
    <3> DEFINE d == [c EXCEPT !.timer = FALSE]
    <3>1. d \in Confirmation /\ d.id = c.id /\ d.st \in {"sent", "done"}
      BY <2>2, ConfirmTyped DEF Confirmation
    <3>2. confirms' = Replace(confirms, c, d) /\ confirming' \in BOOLEAN
      BY <2>2, Zenon DEF ConfirmTimer
    <3> HIDE DEF d
    <3> QED
      BY <3>1, <3>2, <1>1, ConfirmReplaced DEF Inv
  <2> QED
    BY <2>1, <2>2
<1>3. TableOK'
  BY <1>1, TableSame DEF Inv
<1> QED
  BY <1>1, <1>2, <1>3, RequestsSame, OperationsSame, FormSame DEF Inv

LEMMA HubConfirmKeeps ==
  ASSUME Inv, NEW c \in BagToSet(confirms), HubConfirm(c)
  PROVE  Kept(docs') /\ (c.id = 0 => KeptText(docs'))
BY ConfirmTyped, PostKeeps, PutByIdKeeps DEF Inv, TableOK, HubConfirm

LEMMA HubConfirmInv == ASSUME Inv, NEW c \in BagToSet(confirms), HubConfirm(c) PROVE Inv'
<1>1. UNCHANGED <<view, tableVars, loading, inflight, ops, dialog, form, confirming, steps, faults>>
  BY DEF HubConfirm
<1>2. TableOK'
  BY <1>1, HubConfirmKeeps DEF Inv, TableOK, tableVars, Kept
<1>3. ConfirmsOK'
  <2> DEFINE d == [c EXCEPT !.st = "done"]
  <2>1. d \in Confirmation /\ d.id = c.id /\ d.st \in {"sent", "done"}
    BY ConfirmTyped DEF Confirmation
  <2>2. confirms' = Replace(confirms, c, d) /\ confirming' \in BOOLEAN
    BY <1>1 DEF HubConfirm, Inv, ConfirmsOK
  <2> HIDE DEF d
  <2> QED
    BY <2>1, <2>2, <1>1, ConfirmReplaced DEF Inv
<1> QED
  BY <1>1, <1>2, <1>3, RequestsSame, OperationsSame, FormSame DEF Inv

LEMMA ConfirmDoneInv == ASSUME Inv, NEW c \in BagToSet(confirms), ConfirmDone(c) PROVE Inv'
<1>1. TableOK'
  BY TableSame DEF Inv, ConfirmDone
<1>2. RequestsOK'
  BY RequestsAsked DEF Inv, TableOK, ConfirmDone
<1>3. FormOK'
  BY FormHidden DEF Inv, ConfirmDone
<1>4. ConfirmsOK'
  BY ConfirmOver DEF Inv, ConfirmDone, HideDialog
<1> QED
  BY <1>1, <1>2, <1>3, <1>4, OperationsSame DEF Inv, ConfirmDone

LEMMA ConfirmFailsInv == ASSUME Inv, NEW c \in BagToSet(confirms), ConfirmFails(c) PROVE Inv'
<1>1. TableOK'
  BY TableSame DEF Inv, ConfirmFails
<1>2. ConfirmsOK'
  BY ConfirmOver DEF Inv, ConfirmFails
<1> QED
  BY <1>1, <1>2, RequestsSame, OperationsSame, FormSame DEF Inv, ConfirmFails

LEMMA OthersInv == ASSUME Inv, NEW i \in Ids, OtherEdits(i) \/ OtherDeletes(i) PROVE Inv'
<1>1. docs' \in Documents
  BY OtherKeeps, DeleteKeeps DEF Inv, TableOK, OtherEdits, OtherDeletes, Kept
<1>2. Step /\ UNCHANGED <<view, tableVars, loading, inflight, ops, dialogVars, faults>>
  BY Zenon DEF OtherEdits, OtherDeletes
<1>3. TableOK'
  BY <1>1, <1>2, Counted DEF Inv, TableOK, tableVars
<1> QED
  BY <1>2, <1>3, RequestsSame, OperationsSame, FormSame, ConfirmsSame DEF Inv, dialogVars

LEMMA NextInv == Inv /\ [Next]_vars => Inv'
<1> SUFFICES ASSUME Inv, [Next]_vars PROVE Inv'
  OBVIOUS
<1>1. CASE UNCHANGED vars
  BY <1>1, TableSame, RequestsSame, OperationsSame, FormSame, ConfirmsSame
  DEF Inv, vars, tableVars
<1>2. CASE Next
  BY <1>2, MountInv, UnmountInv, AutoUpdateInv, SetPageInv, SetFilterInv, HubAnswerInv, DeliverInv,
     ListFailsInv, ListUnauthorizedInv, RowOperationInv, SwitchRowInv, CreateDirectInv, HubOperationInv, HubSwitchReadInv,
     OperationDoneInv, OperationFailsInv, OpenCreateInv, OpenEditInv, CloseDialogInv, ConfirmInv,
     ConfirmTimerInv, HubConfirmInv, ConfirmDoneInv, ConfirmFailsInv, OthersInv
  DEF Next
<1> QED
  BY <1>1, <1>2

LEMMA AlwaysInv == Spec => []Inv
BY InitInv, NextInv, PTL DEF Spec

-----------------------------------------------------------------------------
(* Theorems *)

(* The page's state has its type: tableData holds rows, the collection holds documents and *)
(* every request under way asks for a page. *)
THEOREM TypeCorrect == Spec => []TypeOK
<1>1. Inv => TypeOK
  BY DEF Inv, TableOK, RequestsOK, OperationsOK, OperationOK, FormOK, ConfirmsOK, TypeOK,
     Documents, ListRequest, RowOperation, Form, Confirmation
<1> QED
  BY <1>1, AlwaysInv, PTL

(* The finally of getList: a table that spins waits for an answer, for any view and any *)
(* number of requests that fail or are answered out of order. *)
THEOREM SpinnerAlwaysEnds == Spec => []SpinnerEnds
<1>1. Inv => SpinnerEnds
  BY DEF Inv, RequestsOK
<1> QED
  BY <1>1, AlwaysInv, PTL

(* isRequestFinished of onConfirm: the dialog's button spins only for a confirmation that *)
(* is not over, for any number of confirmations and timers under way. *)
THEOREM ConfirmSpinnerAlwaysEnds == Spec => []ConfirmSpinnerEnds
<1>1. Inv => ConfirmSpinnerEnds
  BY DEF Inv, ConfirmsOK
<1> QED
  BY <1>1, AlwaysInv, PTL

(* Somebody else's text is written over only by a copy the hub has read for a switch. *)
HubCopy(i, doc) ==
  \E op \in BagToSet(ops) : op.kind \in Posted /\ op.st = "read" /\ op.ids = {i} /\ op.value = doc
KeptOrCopied(new) ==
  \A i \in Ids : (docs[i].text = "other" /\ new[i].text \in Texts \ {"other"}) => HubCopy(i, new[i])

LEMMA SwitchWrites ==
  ASSUME Inv, NEW op \in BagToSet(ops), HubOperation(op), op.kind \in Posted
  PROVE  KeptOrCopied(docs')
<1>1. PICK i \in Ids : op.ids = {i}
  BY DEF Inv, OperationsOK, OperationOK
<1>2. (CHOOSE id \in op.ids : TRUE) = i
  BY <1>1
<1>3. Effect(op) = PutById(i, op.value)
  BY <1>2 DEF Effect, Posted
<1>4. docs' = PutById(i, op.value) /\ op.st = "read"
  BY <1>3 DEF HubOperation
<1>5. \A j \in Ids : docs'[j] = docs[j] \/ (j = i /\ docs'[j] = op.value)
  BY <1>4 DEF PutById, Inv, TableOK, Documents
<1> QED
  BY <1>1, <1>4, <1>5 DEF KeptOrCopied, HubCopy

(* The hub's writes, of any step of the page and of the other users. *)
LEMMA Writes ==
  ASSUME Inv, [Next]_vars
  PROVE  Kept(docs') /\ (KeptText(docs') \/ WholeSwitch \/ view.edit \/ KeptOrCopied(docs'))
<1>1. CASE docs' = docs
  BY <1>1 DEF Kept, KeptText, Inv, TableOK
<1>2. ASSUME NEW op \in BagToSet(ops), HubOperation(op)
      PROVE  Kept(docs') /\ (KeptText(docs') \/ WholeSwitch \/ KeptOrCopied(docs'))
  BY <1>2, EffectKeeps, SwitchWrites DEF Inv, TableOK, OperationsOK, OperationOK, HubOperation
<1>3. ASSUME NEW c \in BagToSet(confirms), HubConfirm(c)
      PROVE  Kept(docs') /\ (KeptText(docs') \/ view.edit)
  BY <1>3, HubConfirmKeeps, ConfirmTyped
<1>4. ASSUME NEW i \in Ids, OtherEdits(i) \/ OtherDeletes(i)
      PROVE  Kept(docs') /\ KeptText(docs')
  BY <1>4, OtherKeeps, DeleteKeeps DEF Inv, TableOK, OtherEdits, OtherDeletes
<1>5. \/ docs' = docs
      \/ \E op \in BagToSet(ops) : HubOperation(op)
      \/ \E c \in BagToSet(confirms) : HubConfirm(c)
      \/ \E i \in Ids : OtherEdits(i) \/ OtherDeletes(i)
  <2>1. CASE UNCHANGED vars
    BY <2>1 DEF vars
  <2>2. CASE Next
    BY <2>2, Zenon DEF Next, Mount, Unmount, AutoUpdate, SetPage, SetFilter, HubAnswer, Deliver, ListFails,
       ListUnauthorized, DeleteRow, Act, SwitchRow, SwitchCopy, SwitchPost, OpenEdit, CreateDirect,
       HubSwitchRead, OperationDone, OperationFails, OpenCreate, CloseDialog, Confirm, ConfirmTimer, ConfirmDone, ConfirmFails
  <2> QED
    BY <2>1, <2>2
<1> QED
  BY <1>1, <1>2, <1>3, <1>4, <1>5

(* PutById does not insert: a document somebody has deleted stays deleted, however late *)
(* the switch, the edit or the confirmation sent for it reaches the hub. *)
THEOREM DeletedStaysDeleted == Spec => NoResurrection
<1>1. Inv /\ [Next]_vars => [\A i \in Ids : docs[i] = Gone => docs'[i] = Gone]_vars
  BY Writes DEF Kept
<1> QED
  BY <1>1, AlwaysInv, PTL DEF Spec, NoResurrection

(* What another user wrote is undone only in the views that write the rows they have    *)
(* listed, and by a posted switch only with the copy the hub had read for this call: in  *)
(* every view, for any number of operations, dialogs and documents. *)
THEOREM OtherWritesKept == Spec => OthersKept
<1>1. Inv /\ [Next]_vars =>
        [\A i \in Ids :
           (docs[i].text = "other" /\ docs'[i].text \in Texts \ {"other"}) =>
             \/ view.switch \in {"row", "copy"}
             \/ view.edit
             \/ \E op \in BagToSet(ops) :
                  op.kind \in Posted /\ op.st = "read" /\ op.ids = {i} /\ op.value = docs'[i]]_vars
  BY Writes DEF KeptText, KeptOrCopied, HubCopy, WholeSwitch
<1> QED
  BY <1>1, AlwaysInv, PTL DEF Spec, OthersKept
=============================================================================
