-------------------------- MODULE DetailPageProofs --------------------------
(***************************************************************************)
(* The safety properties of the detail page for any number of spiders,     *)
(* files, requests and steps.                                              *)
(*                                                                         *)
(* NoForeignDocument rests on what requests carry:  the body of a save is  *)
(* the document its _id names, and the answer to a read is the document    *)
(* that was asked for, however late it is.  The spinner and the tabs need  *)
(* the types of everything a request carries, and that nothing of the      *)
(* files tab is left once it is gone.                                      *)
(***************************************************************************)
EXTENDS DetailPage, FiniteSetTheorems, TLAPS

Fields == {"op", "id", "key", "data", "st", "live"}

(* The shape of a request. *)
Shaped(r) == r = [f \in Fields |-> r[f]] /\ r.live \in BOOLEAN

Honest(r) ==
  /\ Shaped(r)
  /\ r.op = "put" => r.data \in {r.key, None}
  /\ r.op \in {"form", "nav"} => r.id \in Docs
  /\ r.op \in {"form", "nav"} /\ r.st = "answered" => r.data \in {r.id, None}

Inv ==
  /\ DOMAIN docs = Docs
  /\ NoForeignDocument
  /\ form.text \in {form.id, None}
  /\ \A r \in BagToSet(requests) : Honest(r)

-----------------------------------------------------------------------------
(* Bags: what is in them after a step *)

LEMMA OneBag == ASSUME NEW r PROVE BagToSet(One(r)) = {r} /\ IsABag(One(r))
BY DEF One, BagToSet, SetToBag, IsABag

LEMMA SumBag ==
  ASSUME NEW A, NEW B
  PROVE  /\ BagToSet(A (+) B) = BagToSet(A) \cup BagToSet(B)
         /\ IsABag(A) /\ IsABag(B) => IsABag(A (+) B)
<1>1. BagToSet(A (+) B) = BagToSet(A) \cup BagToSet(B)
  BY DEF BagToSet, (+)
<1>2. ASSUME IsABag(A), IsABag(B) PROVE IsABag(A (+) B)
  BY <1>2 DEF IsABag, (+)
<1> QED
  BY <1>1, <1>2

LEMMA DifferenceBag ==
  ASSUME NEW A, NEW r
  PROVE  /\ BagToSet(A (-) One(r)) \subseteq BagToSet(A)
         /\ IsABag(A) => IsABag(A (-) One(r)) /\ BagToSet(A) \ {r} \subseteq BagToSet(A (-) One(r))
<1>1. BagToSet(A (-) One(r)) \subseteq BagToSet(A)
  BY DEF BagToSet, (-)
<1>2. ASSUME IsABag(A) PROVE IsABag(A (-) One(r))
  BY <1>2 DEF IsABag, (-), One, SetToBag
<1>3. ASSUME IsABag(A) PROVE BagToSet(A) \ {r} \subseteq BagToSet(A (-) One(r))
  BY <1>3 DEF IsABag, BagToSet, (-), One, SetToBag
<1> QED
  BY <1>1, <1>2, <1>3

(* The requests under way. *)
Pending == BagToSet(requests)

LEMMA SendSet ==
  ASSUME NEW b, Send(b)
  PROVE  Pending' = Pending \cup BagToSet(b) /\ (IsABag(requests) /\ IsABag(b) => IsABag(requests)')
BY SumBag DEF Send, Pending

LEMMA DoneSet ==
  ASSUME NEW r, Done(r)
  PROVE  /\ Pending' \subseteq Pending
         /\ IsABag(requests) => IsABag(requests)' /\ Pending \ {r} \subseteq Pending'
BY DifferenceBag DEF Done, Pending

LEMMA BecomeSet ==
  ASSUME NEW r, NEW s, Become(r, s)
  PROVE  /\ s \in Pending' /\ Pending' \subseteq Pending \cup {s}
         /\ IsABag(requests) => IsABag(requests)' /\ Pending \ {r} \subseteq Pending'
<1>1. BagToSet(requests') = BagToSet(requests (-) One(r)) \cup {s}
  BY SumBag, OneBag DEF Become
<1>2. IsABag(requests) => IsABag(requests)'
  BY SumBag, OneBag, DifferenceBag DEF Become
<1> QED
  BY <1>1, <1>2, DifferenceBag DEF Pending

(* A request whose component goes away stays under way. *)
LEMMA OrphanSet ==
  ASSUME NEW ops, Orphan(ops), \A r \in Pending : Shaped(r)
  PROVE  /\ \A r \in Pending' :
              \/ r \in Pending /\ ~(r.op \in ops /\ r.live)
              \/ \E q \in Pending : r = [q EXCEPT !.live = FALSE]
         /\ \A r \in Pending : r.op \notin ops => r \in Pending'
         /\ IsABag(requests) => IsABag(requests)'
<1> DEFINE lost == {r \in BagToSet(requests) : r.op \in ops /\ r.live}
           orphans == {[r EXCEPT !.live = FALSE] : r \in lost}
           kept == [r \in BagToSet(requests) \ lost |-> requests[r]]
           gone == [r \in orphans |-> requests[[r EXCEPT !.live = TRUE]]]
<1>1. requests' = kept (+) gone
  BY DEF Orphan
<1>2. BagToSet(kept) = Pending \ lost /\ BagToSet(gone) = orphans
  BY DEF BagToSet, Pending
<1> HIDE DEF kept, gone
<1>3. Pending' = (Pending \ lost) \cup orphans
  BY <1>1, <1>2, SumBag DEF Pending
<1>4. ASSUME IsABag(requests) PROVE IsABag(requests')
  <2>1. IsABag(kept)
    BY <1>4 DEF kept, IsABag, BagToSet
  <2>2. ASSUME NEW r \in orphans PROVE [r EXCEPT !.live = TRUE] \in BagToSet(requests)
    <3>1. PICK q \in lost : r = [q EXCEPT !.live = FALSE]
      OBVIOUS
    <3>2. q = [f \in Fields |-> q[f]] /\ q.live = TRUE
      BY DEF Pending, Shaped
    <3>3. [r EXCEPT !.live = TRUE] = q
      BY <3>1, <3>2 DEF Fields
    <3> QED
      BY <3>3
  <2>3. IsABag(gone)
    BY <1>4, <2>2 DEF gone, IsABag, BagToSet
  <2> QED
    BY <1>1, <2>1, <2>3, SumBag
<1> QED
  BY <1>3, <1>4 DEF Pending

AllHonest == \A r \in BagToSet(requests) : Honest(r)

LEMMA SendHonest ==
  ASSUME AllHonest, NEW b, Send(b), \A r \in BagToSet(b) : Honest(r)
  PROVE  AllHonest'
BY SumBag DEF AllHonest, Send

LEMMA SendOne ==
  ASSUME AllHonest, NEW r, Honest(r), Send(One(r))
  PROVE  AllHonest'
BY SendHonest, OneBag

LEMMA DoneHonest ==
  ASSUME AllHonest, NEW r, Done(r)
  PROVE  AllHonest'
BY DifferenceBag DEF AllHonest, Done

LEMMA BecomeHonest ==
  ASSUME AllHonest, NEW r, NEW s, Honest(s), Become(r, s)
  PROVE  AllHonest'
BY BecomeSet DEF AllHonest, Pending

(* A changed request has the shape of one. *)
LEMMA ShapeKept ==
  ASSUME NEW r, Shaped(r), NEW op, NEW i, NEW data, NEW st
  PROVE  /\ Shaped([r EXCEPT !.live = FALSE])
         /\ Shaped([r EXCEPT !.st = st, !.data = data])
         /\ Shaped([r EXCEPT !.op = op, !.id = i, !.st = st])
<1> USE DEF Shaped, Fields
<1>1. Shaped([r EXCEPT !.live = FALSE])
  OBVIOUS
<1>2. Shaped([r EXCEPT !.st = st, !.data = data])
  OBVIOUS
<1>3. Shaped([r EXCEPT !.op = op, !.id = i, !.st = st])
  OBVIOUS
<1> QED
  BY <1>1, <1>2, <1>3

(* A component that goes away changes nothing of what a request carries. *)
LEMMA OrphanHonest ==
  ASSUME AllHonest, NEW ops, Orphan(ops)
  PROVE  AllHonest'
<1>1. \A r \in Pending : Shaped(r)
  BY DEF AllHonest, Honest, Pending
<1>2. ASSUME NEW q \in Pending PROVE Honest([q EXCEPT !.live = FALSE])
  <2>1. Honest(q)
    BY DEF AllHonest, Pending
  <2>2. Shaped([q EXCEPT !.live = FALSE])
    BY <1>1, ShapeKept
  <2> QED
    BY <2>1, <2>2 DEF Honest, Shaped, Fields
<1> QED
  BY <1>1, <1>2, OrphanSet DEF AllHonest, Pending

(* Only a save of the document carries one. *)
LEMMA PlainRequest ==
  ASSUME NEW op, op # "put", NEW i, op \in {"form", "nav"} => i \in Docs, NEW key, NEW data
  PROVE  Honest(Request(op, i, key, data))
BY DEF Honest, Shaped, Fields, Request

LEMMA PutRequest ==
  ASSUME NEW i, NEW key, NEW data, data \in {key, None}
  PROVE  Honest(Request("put", i, key, data))
BY DEF Honest, Shaped, Fields, Request

-----------------------------------------------------------------------------
LEMMA InitInv == Init => Inv
<1> SUFFICES ASSUME Init PROVE Inv
  OBVIOUS
<1>1. BagToSet(requests) = {}
  BY DEF Init, EmptyBag, SetToBag, BagToSet
<1>2. DOMAIN docs = Docs /\ NoForeignDocument
  BY DEF Init, NoForeignDocument
<1>3. form.text \in {form.id, None}
  BY DEF Init, NewForm
<1> QED
  BY <1>1, <1>2, <1>3 DEF Inv

(* The user's steps: they read the form and change neither it nor the hub, *)
(* except that leaving the page empties the form.                          *)
LEMMA UserInv ==
  ASSUME Inv, User
  PROVE  Inv'
<1> USE DEF hubVars, pageVars, fileVars
<1>a. AllHonest /\ DOMAIN docs = Docs /\ NoForeignDocument /\ form.text \in {form.id, None}
  BY DEF Inv, AllHonest
<1>b. ASSUME AllHonest', UNCHANGED <<docs, form>> PROVE Inv'
  BY <1>a, <1>b DEF Inv, AllHonest, NoForeignDocument
<1>c. UNCHANGED requests => AllHonest'
  BY <1>a DEF AllHonest
<1>1. ASSUME NEW d \in Docs, Enter(d) PROVE Inv'
  BY <1>a, <1>b, <1>1, SendOne, PlainRequest DEF Enter
<1>2. ASSUME NEW d \in Docs, OnNavSelect(d) PROVE Inv'
  <2>1. \A r \in BagToSet(One(Request("form", d, None, None)) (+) One(Request("nav", d, None, None))) : Honest(r)
    BY SumBag, OneBag, PlainRequest
  <2>2. AllHonest'
    BY <1>a, <1>2, <2>1, SendHonest DEF OnNavSelect
  <2> QED
    BY <1>b, <1>2, <2>2 DEF OnNavSelect
<1>3. CASE OnSave
  BY <1>a, <1>b, <1>3, SendOne, PutRequest DEF OnSave
<1>4. CASE OnBack
  <2>1. AllHonest'
    BY <1>a, <1>4, OrphanHonest DEF OnBack
  <2> QED
    BY <1>a, <1>4, <2>1 DEF OnBack, Inv, AllHonest, NoForeignDocument, NewForm
<1>5. CASE CloseEditor
  BY <1>a, <1>b, <1>5, OrphanHonest DEF CloseEditor
<1>6. ASSUME NEW p \in Paths \cup {None}, OpenEditor(p) PROVE Inv'
  <2>1. AllHonest'
    BY <1>a, <1>c, <1>6, SendOne, PlainRequest DEF OpenEditor
  <2> QED
    BY <1>b, <1>6, <2>1 DEF OpenEditor
<1>7. ASSUME NEW p \in Paths, OnNavItemDbClick(p) \/ OnTabClick(p) PROVE Inv'
  BY <1>a, <1>b, <1>7, SendOne, PlainRequest DEF OnNavItemDbClick, OnTabClick
<1>8. ASSUME NEW p \in Paths, OnContextMenuNewFile(p) \/ OnUpload(p) PROVE Inv'
  BY <1>a, <1>b, <1>8, SendOne, PlainRequest DEF OnContextMenuNewFile, OnUpload
<1>9. CASE OnSaveFile
  BY <1>a, <1>b, <1>9, SendOne, PlainRequest DEF OnSaveFile
<1>10. ASSUME NEW op \in {"rename", "copy", "delete"}, NEW p, NEW q, OnFileOperation(op, p, q) PROVE Inv'
  BY <1>a, <1>b, <1>10, SendOne, PlainRequest DEF OnFileOperation
<1>11. ASSUME UNCHANGED <<docs, form, requests>> PROVE Inv'
  BY <1>b, <1>c, <1>11
<1>12. ASSUME NEW p, OnTabCloseOthers(p) \/ OnContextMenuUploadFiles(p) \/ CloseTab(p) \/ OnContentChange(p) PROVE Inv'
  BY <1>11, <1>12 DEF OnTabCloseOthers, OnContextMenuUploadFiles, CloseTab, OnContentChange
<1>13. CASE OnTabCloseAll \/ OnTabDragEnd
  BY <1>11, <1>13 DEF OnTabCloseAll, OnTabDragEnd
<1> QED
  BY <1>1, <1>2, <1>3, <1>4, <1>5, <1>6, <1>7, <1>8, <1>9, <1>10, <1>12, <1>13 DEF User

(* The hub: a save it accepts writes what the document itself says, and a  *)
(* read is answered with the document it names.                            *)
LEMMA HubInv ==
  ASSUME Inv, NEW r \in BagToSet(requests), Hub(r)
  PROVE  Inv'
<1> USE DEF hubVars, pageVars, fileVars
<1>1. Honest(r) /\ AllHonest
  BY DEF Inv, AllHonest
<1>2. DOMAIN docs' = Docs /\ NoForeignDocument'
  <2>1. CASE r.op = "put"
    <3>1. r.data \in {r.id, None}
      BY <1>1, <2>1 DEF Hub, Refuses, Accepts, Honest
    <3>2. docs' = [docs EXCEPT ![r.id] = r.data]
      BY <2>1 DEF Hub, HubDocs
    <3> QED
      BY <3>1, <3>2 DEF Inv, NoForeignDocument
  <2>2. CASE r.op # "put"
    BY <2>2 DEF Hub, HubDocs, Inv, NoForeignDocument
  <2> QED
    BY <2>1, <2>2
<1>3. AllHonest'
  <2>1. CASE r.op \in Silent
    BY <1>1, <2>1, DoneHonest DEF Hub
  <2>2. CASE r.op \notin Silent
    <3> DEFINE s == [r EXCEPT !.st = "answered", !.data = Answer(r)]
    <3>1. Shaped(s) /\ s.op = r.op /\ s.id = r.id /\ s.key = r.key /\ s.data = Answer(r)
      BY <1>1, ShapeKept DEF Honest, Shaped, Fields
    <3>2. r.op = "put" => Answer(r) \in {r.key, None}
      BY <1>1 DEF Answer, Honest
    <3>3. r.op \in {"form", "nav"} => Answer(r) \in {r.id, None}
      BY <1>1 DEF Answer, Honest, Inv, NoForeignDocument
    <3>4. Honest(s)
      BY <1>1, <3>1, <3>2, <3>3 DEF Honest
    <3> QED
      BY <1>1, <2>2, <3>4, BecomeHonest DEF Hub
  <2> QED
    BY <2>1, <2>2
<1> QED
  BY <1>2, <1>3 DEF Hub, Inv, AllHonest

(* Answers reach the store, whatever the page shows by then. *)
LEMMA AnswerInv ==
  ASSUME Inv, NEW r \in BagToSet(requests),
         \/ FormArrives(r) \/ SaveArrives(r) \/ FileArrives(r) \/ OpenFileArrives(r)
         \/ OpenFile(r) \/ SaveFileArrives(r) \/ HubRefuses(r) \/ Fails(r)
  PROVE  Inv'
<1> USE DEF hubVars, pageVars, fileVars
<1>a. Honest(r) /\ AllHonest /\ DOMAIN docs = Docs /\ NoForeignDocument /\ form.text \in {form.id, None}
  BY DEF Inv, AllHonest
<1>b. ASSUME AllHonest', UNCHANGED <<docs, form>> PROVE Inv'
  BY <1>a, <1>b DEF Inv, AllHonest, NoForeignDocument
<1>1. CASE FormArrives(r)
  <2>1. AllHonest'
    BY <1>a, <1>1, DoneHonest DEF FormArrives
  <2>2. form'.text \in {form'.id, None}
    BY <1>a, <1>1 DEF FormArrives, Honest
  <2> QED
    BY <1>a, <1>1, <2>1, <2>2 DEF FormArrives, Inv, AllHonest, NoForeignDocument
<1>2. CASE SaveArrives(r)
  <2>1. AllHonest'
    BY <1>a, <1>2, DoneHonest, BecomeHonest, PlainRequest DEF SaveArrives
  <2> QED
    BY <1>b, <1>2, <2>1 DEF SaveArrives
<1>3. CASE FileArrives(r) \/ OpenFileArrives(r) \/ SaveFileArrives(r) \/ HubRefuses(r) \/ Fails(r)
  BY <1>a, <1>b, <1>3, DoneHonest
     DEF FileArrives, OpenFileArrives, SaveFileArrives, HubRefuses, Fails
<1>4. CASE OpenFile(r)
  <2>1. PICK i : Become(r, [r EXCEPT !.op = IF @ = "info" THEN "open" ELSE "info", !.id = i, !.st = "sent"])
    BY <1>4 DEF OpenFile
  <2> DEFINE s == [r EXCEPT !.op = IF @ = "info" THEN "open" ELSE "info", !.id = i, !.st = "sent"]
  <2>2. Shaped(s) /\ s.op \in {"open", "info"}
    BY <1>a, ShapeKept DEF Honest, Shaped, Fields
  <2>3. Honest(s)
    BY <2>2 DEF Honest
  <2>4. AllHonest'
    BY <1>a, <2>1, <2>3, BecomeHonest
  <2> QED
    BY <1>b, <1>4, <2>4 DEF OpenFile
<1> QED
  BY <1>1, <1>2, <1>3, <1>4

(* Saving never gives one spider the document of another, for any number   *)
(* of spiders, requests under way and lost answers: getById fills the form *)
(* with whatever arrives last, and PutById refuses a body whose _id is not *)
(* the one of the route.                                                   *)
THEOREM DocumentsKept == Spec => []NoForeignDocument
<1>1. Inv /\ [Next]_vars => Inv'
  <2> SUFFICES ASSUME Inv, [Next]_vars PROVE Inv'
    OBVIOUS
  <2>1. CASE User
    BY <2>1, UserInv
  <2>2. CASE Update
    BY <2>2 DEF Update, hubVars, pageVars, Inv, NoForeignDocument
  <2>3. CASE Reply
    BY <2>3, HubInv, AnswerInv DEF Reply
  <2>4. ASSUME NEW r \in BagToSet(requests), Fails(r) PROVE Inv'
    BY <2>4, AnswerInv
  <2>5. CASE UNCHANGED vars
    BY <2>5 DEF vars, hubVars, pageVars, Inv, NoForeignDocument
  <2> QED
    BY <2>1, <2>2, <2>3, <2>4, <2>5 DEF Next
<1>2. Inv => NoForeignDocument
  BY DEF Inv
<1> QED
  BY InitInv, <1>1, <1>2, PTL DEF Spec

-----------------------------------------------------------------------------
(* The editor holds the text of the store while it is mounted, whether or  *)
(* not a file is active.                                                   *)
Agree == editor => shown = content

(* The text Ctrl+S saves is the text in the editor, for any number of      *)
(* files and requests: the watcher of content puts every answer of getFile *)
(* into the editor, and onContentChange every key into the store.          *)
THEOREM EditorAgrees == Spec => []KeySaveWritesShown
<1>1. Init => Agree
  BY DEF Init, Agree
<1>2. Agree /\ [Next]_vars => Agree'
  <2> SUFFICES ASSUME Agree, [Next]_vars PROVE Agree'
    OBVIOUS
  <2> USE DEF hubVars, pageVars, fileVars, Agree, EditorContent
  <2>1. CASE User
    <3>1. ASSUME UNCHANGED <<editor, content>>, Follow PROVE Agree'
      BY <3>1 DEF Follow
    <3>2. ASSUME UNCHANGED <<editor, content, shown>> PROVE Agree'
      BY <3>2
    <3>3. CASE OnBack \/ CloseEditor
      BY <3>3 DEF OnBack, CloseEditor, EditorGone
    <3>4. ASSUME NEW p, OpenEditor(p) \/ OnContentChange(p) PROVE Agree'
      <4>1. ASSUME OpenEditor(p) PROVE shown' = content'
        BY <4>1, Zenon DEF OpenEditor
      <4>2. ASSUME OnContentChange(p) PROVE shown' = content'
        BY <4>2, Zenon DEF OnContentChange
      <4> QED
        BY <3>4, <4>1, <4>2
    <3>5. ASSUME NEW p, OnNavItemDbClick(p) \/ OnTabClick(p) \/ OnTabCloseOthers(p)
                        \/ OnContextMenuUploadFiles(p) \/ CloseTab(p) PROVE Agree'
      BY <3>1, <3>5 DEF OnNavItemDbClick, OnTabClick, OnTabCloseOthers, OnContextMenuUploadFiles, CloseTab
    <3>6. CASE OnTabCloseAll
      BY <3>1, <3>6 DEF OnTabCloseAll
    <3>7. ASSUME NEW p, Enter(p) \/ OnNavSelect(p) \/ OnContextMenuNewFile(p) \/ OnUpload(p) PROVE Agree'
      BY <3>2, <3>7 DEF Enter, OnNavSelect, OnContextMenuNewFile, OnUpload
    <3>8. CASE OnSave \/ OnSaveFile \/ OnTabDragEnd
      BY <3>2, <3>8 DEF OnSave, OnSaveFile, OnTabDragEnd
    <3>9. ASSUME NEW op, NEW p, NEW q, OnFileOperation(op, p, q) PROVE Agree'
      BY <3>2, <3>9 DEF OnFileOperation
    <3> QED
      BY <2>1, <3>3, <3>4, <3>5, <3>6, <3>7, <3>8, <3>9 DEF User
  <2>2. CASE Update
    BY <2>2 DEF Update
  <2>3. ASSUME NEW r, Hub(r) \/ HubRefuses(r) \/ FormArrives(r) \/ SaveArrives(r) \/ OpenFile(r) \/ Fails(r)
        PROVE  Agree'
    BY <2>3 DEF Hub, HubRefuses, FormArrives, SaveArrives, OpenFile, Fails
  <2>4. ASSUME NEW r, FileArrives(r) \/ OpenFileArrives(r) \/ SaveFileArrives(r) PROVE Agree'
    BY <2>4 DEF FileArrives, OpenFileArrives, SaveFileArrives, Follow
  <2>5. CASE UNCHANGED vars
    BY <2>5 DEF vars
  <2> QED
    BY <2>1, <2>2, <2>3, <2>4, <2>5 DEF Next, Reply
<1>3. Agree => KeySaveWritesShown
  BY DEF Agree, KeySaveWritesShown, EditorContent
<1> QED
  BY <1>1, <1>2, <1>3, PTL DEF Spec

-----------------------------------------------------------------------------
(* Type correctness.  What a request carries depends on what it asks, and  *)
(* the files tab is there while anything waits for it.                     *)

FileOps == {"list", "new", "info", "open", "read", "save", "after", "rename", "copy", "delete", "upload"}
Writes == {"save", "after", "new", "upload"}

WellFormed(r) ==
  /\ Shaped(r)
  /\ r.id \in Docs
  /\ r.op \in FileOps => r.key \in Paths
  /\ r.op \in Writes => r.data \in Texts
  /\ r.op \in {"copy", "rename"} => r.data \in Paths
  /\ r.op = "put" => r.data \in Docs \cup {None}
  /\ r.op \in {"form", "nav"} /\ r.st = "answered" => r.data \in Docs \cup {None}
  /\ r.op \in {"read", "open"} /\ r.st = "answered" => r.data \in Texts

RequestsOK == IsABag(requests) /\ \A r \in Pending : WellFormed(r)

MountedOK ==
  /\ editor => activeId # None
  /\ tabs # <<>> => editor
  /\ \A r \in Pending : r.op \in EditorOps /\ r.live => editor

TypeInv == TypeOK /\ RequestsOK /\ MountedOK

LEMMA SendTyped ==
  ASSUME RequestsOK, NEW r, WellFormed(r), Send(One(r))
  PROVE  RequestsOK' /\ Pending' = Pending \cup {r}
BY SendSet, OneBag DEF RequestsOK

LEMMA DoneTyped ==
  ASSUME RequestsOK, NEW r, Done(r)
  PROVE  RequestsOK' /\ Pending' \subseteq Pending /\ Pending \ {r} \subseteq Pending'
BY DoneSet DEF RequestsOK

LEMMA BecomeTyped ==
  ASSUME RequestsOK, NEW r, NEW s, WellFormed(s), Become(r, s)
  PROVE  RequestsOK' /\ s \in Pending' /\ Pending' \subseteq Pending \cup {s} /\ Pending \ {r} \subseteq Pending'
BY BecomeSet DEF RequestsOK

LEMMA OrphanTyped ==
  ASSUME RequestsOK, NEW ops, Orphan(ops)
  PROVE  /\ RequestsOK'
         /\ \A r \in Pending' : r.op \in ops => ~r.live
         /\ \A r \in Pending : r.op \notin ops => r \in Pending'
<1>1. \A r \in Pending : Shaped(r)
  BY DEF RequestsOK, WellFormed
<1>2. ASSUME NEW q \in Pending PROVE WellFormed([q EXCEPT !.live = FALSE]) /\ ~[q EXCEPT !.live = FALSE].live
  <2>1. WellFormed(q)
    BY DEF RequestsOK
  <2>2. Shaped([q EXCEPT !.live = FALSE])
    BY <1>1, ShapeKept
  <2> QED
    BY <2>1, <2>2 DEF WellFormed, Shaped, Fields
<1> QED
  BY <1>1, <1>2, OrphanSet DEF RequestsOK

(* A new request of each kind. *)
LEMMA PageRequest ==
  ASSUME NEW i \in Docs, NEW op \in {"form", "nav"}, NEW r, r = Request(op, i, None, None)
  PROVE  WellFormed(r) /\ r.op = op /\ r.live
BY DEF WellFormed, Shaped, Fields, Request, FileOps, Writes

LEMMA SaveRequest ==
  ASSUME NEW i \in Docs, NEW key, NEW data \in Docs \cup {None}, NEW r, r = Request("put", i, key, data)
  PROVE  WellFormed(r) /\ r.op = "put" /\ r.live
BY DEF WellFormed, Shaped, Fields, Request, FileOps, Writes

LEMMA FileRequest ==
  ASSUME NEW i \in Docs, NEW op \in FileOps \ {"open"}, NEW p \in Paths, NEW data,
         op \in Writes => data \in Texts, op \in {"copy", "rename"} => data \in Paths,
         NEW r, r = Request(op, i, p, data)
  PROVE  WellFormed(r) /\ r.op = op /\ r.live
BY DEF WellFormed, Shaped, Fields, Request, FileOps, Writes

(* Texts holds what the client and the hub start with. *)
LEMMA TextFacts == NoText \in Texts /\ "old" \in Texts /\ "uploaded" \in Texts /\ Typed \subseteq Texts
BY Zenon DEF Texts

-----------------------------------------------------------------------------
(* Tabs: what the sequence operations of the tab bar return *)

LEMMA RemoveTab ==
  ASSUME NEW t \in Seq(Paths), NEW k \in DOMAIN t
  PROVE  /\ RemoveAt(t, k) \in Seq(Paths)
         /\ Len(RemoveAt(t, k)) = Len(t) - 1
         /\ \A i \in 1..(Len(t) - 1) : RemoveAt(t, k)[i] = IF i < k THEN t[i] ELSE t[i + 1]
<1> DEFINE a == SubSeq(t, 1, k - 1)
           b == SubSeq(t, k + 1, Len(t))
<1>a. k \in 1..Len(t) /\ Len(t) \in Nat
  OBVIOUS
<1>1. a \in Seq(Paths) /\ Len(a) = k - 1 /\ \A i \in 1..(k - 1) : a[i] = t[i]
  OBVIOUS
<1>2. b \in Seq(Paths) /\ Len(b) = Len(t) - k /\ \A i \in 1..(Len(t) - k) : b[i] = t[k + i]
  OBVIOUS
<1>3. RemoveAt(t, k) = a \o b
  BY DEF RemoveAt
<1> HIDE DEF a, b
<1>4. Len(a \o b) = Len(t) - 1 /\ a \o b \in Seq(Paths)
  BY <1>1, <1>2
<1>5. ASSUME NEW i \in 1..(Len(t) - 1) PROVE (a \o b)[i] = IF i < k THEN t[i] ELSE t[i + 1]
  <2>1. CASE i < k
    BY <1>1, <1>2, <2>1
  <2>2. CASE ~(i < k)
    <3>1. i >= k /\ i - (k - 1) \in 1..(Len(t) - k)
      BY <1>a, <2>2
    <3>2. (a \o b)[i] = b[i - (k - 1)]
      BY <1>1, <1>2, <3>1
    <3> QED
      BY <1>a, <1>2, <2>2, <3>1, <3>2
  <2> QED
    BY <2>1, <2>2, Zenon
<1> QED
  BY <1>3, <1>4, <1>5

LEMMA Neighbours == ASSUME NEW n \in Nat, NEW k \in 1..n, n # 1 PROVE 2 \in 1..n /\ (k # 1 => k - 1 \in 1..n)
OBVIOUS

(* The active tab has a neighbour unless it is the only one. *)
LEMMA NextTab ==
  ASSUME NEW t \in Seq(Paths), NEW k \in DOMAIN t
  PROVE  IF Len(t) = 1 THEN Neighbour(t, k) = None ELSE Neighbour(t, k) \in Paths
<1>1. Len(t) \in Nat /\ k \in 1..Len(t)
  OBVIOUS
<1>2. CASE Len(t) = 1
  BY <1>1, <1>2 DEF Neighbour
<1>3. CASE Len(t) # 1
  <2>1. 2 \in 1..Len(t) /\ (k # 1 => k - 1 \in 1..Len(t))
    BY <1>1, <1>3, Neighbours, Zenon
  <2> QED
    BY <1>1, <1>3, <2>1 DEF Neighbour
<1> QED
  BY <1>2, <1>3

LEMMA AppendTab ==
  ASSUME NEW t \in Seq(Paths), NEW p \in Paths
  PROVE  /\ Append(t, p) \in Seq(Paths)
         /\ Append(t, p) # <<>>
         /\ IsInjective(t) /\ p \notin Range(t) => IsInjective(Append(t, p))
<1>1. Append(t, p) \in Seq(Paths) /\ Len(Append(t, p)) = Len(t) + 1 /\ Len(t) \in Nat
  OBVIOUS
<1>2. ASSUME IsInjective(t), p \notin Range(t) PROVE IsInjective(Append(t, p))
  BY <1>2 DEF IsInjective, Range
<1>3. Append(t, p) # <<>>
  BY <1>1
<1> QED
  BY <1>1, <1>2, <1>3

(* Dragging a tab permutes them. *)
LEMMA DraggedTabs ==
  ASSUME NEW t \in Seq(Paths), NEW s \in SetToSeqs(Range(t))
  PROVE  s \in Seq(Paths) /\ IsInjective(s) /\ (t = <<>> => s = <<>>)
<1> DEFINE D == 1..Cardinality(Range(t))
<1>1. IsFiniteSet(Range(t))
  <2>1. t \in Surjection(1..Len(t), Range(t))
    BY DEF Surjection, Range
  <2>2. IsFiniteSet(1..Len(t))
    BY FS_Interval
  <2> QED
    BY <2>1, <2>2, FS_Surjection
<1>2. Cardinality(Range(t)) \in Nat
  BY <1>1, FS_CardinalityType
<1>3. s \in [D -> Range(t)] /\ \A i, j \in D : i # j => s[i] # s[j]
  BY DEF SetToSeqs
<1>4. Range(t) \subseteq Paths
  BY DEF Range
<1>5. s \in Seq(Paths)
  BY <1>2, <1>3, <1>4
<1>6. IsInjective(s)
  BY <1>3 DEF IsInjective
<1>7. ASSUME t = <<>> PROVE s = <<>>
  <2>1. Range(t) = {}
    BY <1>7 DEF Range
  <2>2. Cardinality(Range(t)) = 0
    BY <2>1, FS_EmptySet
  <2> QED
    BY <1>3, <1>5, <2>2
<1> QED
  BY <1>5, <1>6, <1>7

-----------------------------------------------------------------------------
(* One lemma per group of actions: every step keeps TypeInv *)

LEMMA InitTyped == Init => TypeInv
<1> SUFFICES ASSUME Init PROVE TypeInv
  OBVIOUS
<1>1. Pending = {} /\ IsABag(requests)
  BY DEF Init, EmptyBag, SetToBag, BagToSet, Pending, IsABag
<1>2. docs \in [Docs -> Docs \cup {None}] /\ form \in [id : Docs \cup {None}, text : Docs \cup {None}]
  BY DEF Init, NewForm
<1>3. files \in [Docs -> [Paths -> Texts \cup {None}]] /\ cache \in [Paths -> Texts \cup {None}]
  BY TextFacts DEF Init
<1>4. tabs \in Seq(Paths) /\ steps \in 0..MaxSteps /\ faults \in 0..MaxFaults
  BY BoundsAssumption DEF Init
<1>5. TypeOK
  BY <1>2, <1>3, <1>4, TextFacts DEF Init, TypeOK
<1> QED
  BY <1>1, <1>5 DEF Init, TypeInv, RequestsOK, MountedOK

LEMMA BoundsTyped ==
  ASSUME TypeOK
  PROVE  /\ Step => steps' \in 0..MaxSteps
         /\ Fault => faults' \in 0..MaxFaults
BY BoundsAssumption DEF TypeOK, Step, Fault

(* The page: navigation, saving and leaving it. *)
LEMMA PageTyped ==
  ASSUME TypeInv, (\E d \in Docs : Enter(d) \/ OnNavSelect(d)) \/ OnSave \/ OnBack
  PROVE  TypeInv'
<1> USE DEF hubVars, pageVars, fileVars
<1>a. TypeOK /\ RequestsOK /\ MountedOK
  BY DEF TypeInv
<1>1. ASSUME NEW d \in Docs, Enter(d) PROVE TypeInv'
  <2> DEFINE r == Request("form", d, None, None)
  <2>1. WellFormed(r) /\ r.op = "form"
    BY PageRequest
  <2> HIDE DEF r
  <2>2. RequestsOK' /\ Pending' = Pending \cup {r}
    BY <1>a, <1>1, <2>1, SendTyped DEF Enter, r
  <2>3. TypeOK'
    BY <1>a, <1>1, BoundsTyped DEF TypeOK, Enter
  <2>4. MountedOK'
    BY <1>a, <1>1, <2>1, <2>2 DEF MountedOK, Enter, EditorOps
  <2> QED
    BY <2>2, <2>3, <2>4 DEF TypeInv
<1>2. ASSUME NEW d \in Docs, OnNavSelect(d) PROVE TypeInv'
  <2> DEFINE r == Request("form", d, None, None)
             s == Request("nav", d, None, None)
  <2>1. WellFormed(r) /\ r.op = "form" /\ WellFormed(s) /\ s.op = "nav"
    BY PageRequest
  <2> HIDE DEF r, s
  <2>2. BagToSet(One(r) (+) One(s)) = {r, s} /\ IsABag(One(r) (+) One(s))
    BY SumBag, OneBag
  <2>3. Pending' = Pending \cup {r, s} /\ RequestsOK'
    BY <1>a, <1>2, <2>1, <2>2, SendSet DEF OnNavSelect, RequestsOK, r, s
  <2>4. TypeOK'
    BY <1>a, <1>2, BoundsTyped DEF TypeOK, OnNavSelect
  <2>5. MountedOK'
    BY <1>a, <1>2, <2>1, <2>3, NoneAssumption DEF MountedOK, OnNavSelect, EditorOps
  <2> QED
    BY <2>3, <2>4, <2>5 DEF TypeInv
<1>3. CASE OnSave
  <2> DEFINE r == Request("put", activeId, form.id, form.text)
  <2>1. WellFormed(r) /\ r.op = "put"
    <3>1. activeId \in Docs /\ form.text \in Docs \cup {None}
      BY <1>a, <1>3 DEF TypeOK, OnSave
    <3> QED
      BY <3>1, SaveRequest
  <2> HIDE DEF r
  <2>2. RequestsOK' /\ Pending' = Pending \cup {r}
    BY <1>a, <1>3, <2>1, SendTyped DEF OnSave, r
  <2>3. TypeOK'
    BY <1>a, <1>3, BoundsTyped DEF TypeOK, OnSave
  <2>4. MountedOK'
    BY <1>a, <1>3, <2>1, <2>2 DEF MountedOK, OnSave, EditorOps
  <2> QED
    BY <2>2, <2>3, <2>4 DEF TypeInv
<1>4. CASE OnBack
  <2>1. RequestsOK' /\ \A r \in Pending' : r.op \in EditorOps => ~r.live
    BY <1>a, <1>4, OrphanTyped DEF OnBack
  <2>2. /\ form' \in [id : Docs \cup {None}, text : Docs \cup {None}]
        /\ tabs' \in Seq(Paths) /\ content' \in Texts /\ shown' \in Texts /\ steps' \in 0..MaxSteps
    BY <1>a, <1>4, BoundsTyped, TextFacts DEF TypeOK, OnBack, EditorGone, NewForm
  <2>4. TypeOK'
    BY <1>a, <1>4, <2>2 DEF TypeOK, OnBack, EditorGone
  <2>3. MountedOK'
    BY <1>4, <2>1 DEF MountedOK, OnBack, EditorGone
  <2> QED
    BY <2>1, <2>3, <2>4 DEF TypeInv
<1> QED
  BY <1>1, <1>2, <1>3, <1>4

(* The tab bar. *)
LEMMA TabsTyped ==
  ASSUME TypeInv,
         \/ \E k \in DOMAIN tabs : CloseTab(k)
         \/ \E p \in Paths : OnTabCloseOthers(p) \/ OnContextMenuUploadFiles(p)
         \/ OnTabCloseAll \/ OnTabDragEnd
         \/ \E t \in Typed : OnContentChange(t)
         \/ Update
  PROVE  TypeInv'
<1> USE DEF hubVars, pageVars, fileVars
<1>a. TypeOK /\ RequestsOK /\ MountedOK
  BY DEF TypeInv
<1>b. UNCHANGED <<requests, activeId, editor>>
  BY DEF CloseTab, OnTabCloseOthers, OnContextMenuUploadFiles, OnTabCloseAll, OnTabDragEnd,
         OnContentChange, Update
<1>c. RequestsOK' /\ Pending' = Pending
  BY <1>a, <1>b DEF RequestsOK, Pending
<1>d. ASSUME Follow, UNCHANGED content PROVE shown' = shown
  BY <1>d, <1>b DEF Follow, EditorContent
<1>e. ASSUME TypeOK', tabs' = tabs \/ tabs' = <<>> \/ editor PROVE TypeInv'
  BY <1>a, <1>b, <1>c, <1>e DEF TypeInv, MountedOK
<1>1. ASSUME NEW k \in DOMAIN tabs, CloseTab(k) PROVE TypeInv'
  <2>1. tabs \in Seq(Paths) /\ tabs # <<>> /\ tabs' \in Seq(Paths)
    BY <1>a, <1>1, RemoveTab DEF TypeOK, CloseTab
  <2>2. Neighbour(tabs, k) \in Paths \cup {None}
    BY <1>1, <2>1, NextTab
  <2>3. TypeOK'
    BY <1>a, <1>d, <1>1, <2>1, <2>2, BoundsTyped DEF TypeOK, CloseTab, SetActive
  <2> QED
    BY <1>a, <1>e, <2>1, <2>3 DEF MountedOK
<1>2. ASSUME NEW p \in Paths, OnTabCloseOthers(p) PROVE TypeInv'
  <2>1. tabs # <<>>
    BY <1>2 DEF OnTabCloseOthers, Range
  <2>2. TypeOK'
    BY <1>a, <1>d, <1>2, BoundsTyped DEF TypeOK, OnTabCloseOthers, SetActive
  <2> QED
    BY <1>a, <1>e, <2>1, <2>2 DEF MountedOK
<1>3. ASSUME NEW p \in Paths, OnContextMenuUploadFiles(p) PROVE TypeInv'
  <2>1. TypeOK'
    BY <1>a, <1>d, <1>3, BoundsTyped DEF TypeOK, OnContextMenuUploadFiles, SetActive
  <2> QED
    BY <1>e, <1>3, <2>1 DEF OnContextMenuUploadFiles
<1>4. CASE OnTabCloseAll
  <2>1. TypeOK'
    BY <1>a, <1>d, <1>4, BoundsTyped DEF TypeOK, OnTabCloseAll, SetActive
  <2> QED
    BY <1>e, <1>4, <2>1 DEF OnTabCloseAll
<1>5. CASE OnTabDragEnd
  <2>1. tabs' \in Seq(Paths) /\ (tabs = <<>> => tabs' = <<>>)
    BY <1>a, <1>5, DraggedTabs DEF TypeOK, OnTabDragEnd
  <2>2. TypeOK'
    BY <1>a, <1>5, <2>1, BoundsTyped DEF TypeOK, OnTabDragEnd
  <2> QED
    BY <1>a, <1>e, <2>1, <2>2 DEF MountedOK
<1>6. ASSUME NEW t \in Typed, OnContentChange(t) PROVE TypeInv'
  <2>1. TypeOK'
    BY <1>a, <1>6, BoundsTyped, TextFacts DEF TypeOK, OnContentChange
  <2> QED
    BY <1>e, <1>6, <2>1 DEF OnContentChange
<1>7. CASE Update
  <2>1. TypeOK'
    BY <1>a, <1>7 DEF TypeOK, Update, EditorContent
  <2> QED
    BY <1>e, <1>7, <2>1 DEF Update
<1> QED
  BY <1>1, <1>2, <1>3, <1>4, <1>5, <1>6, <1>7

(* The files tab: it asks for files of the spider of the route. *)
LEMMA EditorTyped ==
  ASSUME TypeInv,
         \/ \E p \in Paths \cup {None} : OpenEditor(p)
         \/ \E p \in Paths : OnNavItemDbClick(p) \/ OnTabClick(p)
         \/ CloseEditor
  PROVE  TypeInv'
<1> USE DEF hubVars, pageVars, fileVars
<1>a. TypeOK /\ RequestsOK /\ MountedOK
  BY DEF TypeInv
<1>d. ASSUME Follow, UNCHANGED <<content, editor>> PROVE shown' = shown
  BY <1>d DEF Follow, EditorContent
<1>1. ASSUME NEW p \in Paths \cup {None}, OpenEditor(p) PROVE TypeInv'
  <2>1. TypeOK'
    BY <1>a, <1>1, BoundsTyped DEF TypeOK, OpenEditor, EditorContent
  <2>2. CASE p = None
    <3>1. Pending' = Pending /\ RequestsOK'
      BY <1>a, <1>1, <2>2 DEF OpenEditor, Pending, RequestsOK
    <3> QED
      BY <1>a, <1>1, <2>1, <3>1 DEF OpenEditor, MountedOK, TypeInv
  <2>3. CASE p # None
    <3> DEFINE r == Request("list", activeId, p, None)
    <3>1. activeId \in Docs /\ p \in Paths
      BY <1>a, <1>1, <2>3 DEF TypeOK, OpenEditor
    <3>2. WellFormed(r)
      BY <3>1, FileRequest DEF FileOps, Writes
    <3>3. Send(One(r))
      BY <1>1, <2>3 DEF OpenEditor
    <3> HIDE DEF r
    <3>4. RequestsOK' /\ Pending' = Pending \cup {r}
      BY <1>a, <3>2, <3>3, SendTyped
    <3> QED
      BY <1>a, <1>1, <2>1, <3>4 DEF OpenEditor, MountedOK, TypeInv
  <2> QED
    BY <2>2, <2>3
<1>2. ASSUME NEW p \in Paths, OnNavItemDbClick(p) PROVE TypeInv'
  <2> DEFINE r == Request("info", activeId, p, None)
  <2>1. activeId \in Docs
    BY <1>a, <1>2 DEF TypeOK, OnNavItemDbClick, MountedOK
  <2>2. WellFormed(r)
    BY <2>1, FileRequest DEF FileOps, Writes
  <2> HIDE DEF r
  <2>3. RequestsOK' /\ Pending' = Pending \cup {r}
    BY <1>a, <1>2, <2>2, SendTyped DEF OnNavItemDbClick, r
  <2>4. tabs' \in Seq(Paths)
    BY <1>a, <1>2, AppendTab DEF TypeOK, OnNavItemDbClick, WithTab
  <2>5. TypeOK'
    BY <1>a, <1>d, <1>2, <2>4, BoundsTyped DEF TypeOK, OnNavItemDbClick, SetActive
  <2> QED
    BY <1>a, <1>2, <2>3, <2>5 DEF OnNavItemDbClick, MountedOK, TypeInv
<1>3. ASSUME NEW p \in Paths, OnTabClick(p) PROVE TypeInv'
  <2> DEFINE r == Request("read", activeId, p, None)
  <2>1. activeId \in Docs /\ editor
    <3>1. tabs # <<>>
      BY <1>3 DEF OnTabClick, Range
    <3> QED
      BY <1>a, <3>1 DEF TypeOK, MountedOK
  <2>2. WellFormed(r)
    BY <2>1, FileRequest DEF FileOps, Writes
  <2> HIDE DEF r
  <2>3. RequestsOK' /\ Pending' = Pending \cup {r}
    BY <1>a, <1>3, <2>2, SendTyped DEF OnTabClick, r
  <2>4. TypeOK'
    BY <1>a, <1>d, <1>3, BoundsTyped DEF TypeOK, OnTabClick, SetActive
  <2> QED
    BY <1>a, <1>3, <2>1, <2>3, <2>4 DEF OnTabClick, MountedOK, TypeInv
<1>4. CASE CloseEditor
  <2>1. RequestsOK' /\ \A r \in Pending' : r.op \in EditorOps => ~r.live
    BY <1>a, <1>4, OrphanTyped DEF CloseEditor
  <2>2. tabs' \in Seq(Paths) /\ content' \in Texts /\ shown' \in Texts /\ steps' \in 0..MaxSteps
    BY <1>a, <1>4, BoundsTyped, TextFacts DEF TypeOK, CloseEditor, EditorGone
  <2>3. TypeOK'
    BY <1>a, <1>4, <2>2 DEF TypeOK, CloseEditor, EditorGone
  <2> QED
    BY <1>4, <2>1, <2>3 DEF MountedOK, CloseEditor, EditorGone, TypeInv
<1> QED
  BY <1>1, <1>2, <1>3, <1>4

(* What the files tab sends without changing what it shows. *)
LEMMA SendingTyped ==
  ASSUME TypeInv,
         \/ OnSaveFile
         \/ \E p \in Paths : OnContextMenuNewFile(p) \/ OnUpload(p)
         \/ \E op \in {"rename", "copy", "delete"}, p, q \in Paths : OnFileOperation(op, p, q)
  PROVE  TypeInv'
<1> USE DEF hubVars, pageVars, fileVars
<1>a. TypeOK /\ RequestsOK /\ MountedOK
  BY DEF TypeInv
<1>b. UNCHANGED <<docs, files, activeId, form, navLoading, editor, tabs, active, content, cache, shown, due, faults>> /\ Step
  BY DEF OnSaveFile, OnContextMenuNewFile, OnUpload, OnFileOperation
<1>c. activeId \in Docs
  BY <1>a DEF OnSaveFile, OnContextMenuNewFile, OnUpload, OnFileOperation, TypeOK, MountedOK
<1>d. TypeOK'
  BY <1>a, <1>b, BoundsTyped DEF TypeOK
<1>e. ASSUME NEW r, WellFormed(r), Send(One(r)), r.op \in EditorOps => editor PROVE TypeInv'
  <2>1. RequestsOK' /\ Pending' = Pending \cup {r}
    BY <1>a, <1>e, SendTyped
  <2> QED
    BY <1>a, <1>b, <1>d, <1>e, <2>1 DEF MountedOK, TypeInv
<1>1. CASE OnSaveFile
  <2> DEFINE r == Request("save", activeId, active, EditorContent)
  <2>1. active \in Paths /\ EditorContent \in Texts
    BY <1>a, <1>1 DEF OnSaveFile, TypeOK, EditorContent
  <2>2. WellFormed(r)
    BY <1>c, <2>1, FileRequest DEF FileOps, Writes
  <2> QED
    BY <1>e, <1>1, <2>2 DEF OnSaveFile
<1>2. ASSUME NEW p \in Paths, OnContextMenuNewFile(p) PROVE TypeInv'
  <2>1. WellFormed(Request("new", activeId, p, NoText))
    BY <1>c, FileRequest, TextFacts DEF FileOps, Writes
  <2> QED
    BY <1>e, <1>2, <2>1 DEF OnContextMenuNewFile
<1>3. ASSUME NEW p \in Paths, OnUpload(p) PROVE TypeInv'
  <2> DEFINE r == Request("upload", activeId, p, "uploaded")
  <2>1. WellFormed(r) /\ r.op = "upload"
    BY <1>c, FileRequest, TextFacts DEF FileOps, Writes
  <2> HIDE DEF r
  <2>2. Send(One(r))
    BY <1>3 DEF OnUpload, r
  <2> QED
    BY <1>e, <2>1, <2>2 DEF EditorOps
<1>4. ASSUME NEW op \in {"rename", "copy", "delete"}, NEW p \in Paths, NEW q \in Paths, OnFileOperation(op, p, q)
      PROVE  TypeInv'
  <2>1. WellFormed(Request(op, activeId, p, q))
    BY <1>c, FileRequest DEF FileOps, Writes
  <2> QED
    BY <1>e, <1>4, <2>1 DEF OnFileOperation
<1> QED
  BY <1>1, <1>2, <1>3, <1>4

(* The hub writes what a request carries and answers with what it holds. *)
LEMMA HubTyped ==
  ASSUME TypeInv, NEW r \in Pending, Hub(r)
  PROVE  TypeInv'
<1> USE DEF hubVars, pageVars, fileVars
<1>a. TypeOK /\ RequestsOK /\ MountedOK /\ WellFormed(r)
  BY DEF TypeInv, RequestsOK
<1>1. docs' \in [Docs -> Docs \cup {None}]
  BY <1>a DEF Hub, HubDocs, TypeOK, WellFormed
<1>2. files' \in [Docs -> [Paths -> Texts \cup {None}]]
  <2>0. files \in [Docs -> [Paths -> Texts \cup {None}]] /\ r.id \in Docs
    BY <1>a DEF TypeOK, WellFormed
  <2>1. CASE r.op \in {"save", "after", "new", "upload"}
    <3>1. r.key \in Paths /\ r.data \in Texts
      BY <1>a, <2>1 DEF WellFormed, FileOps, Writes
    <3>2. files' = [files EXCEPT ![r.id][r.key] = r.data]
      BY <2>1 DEF Hub, HubFiles
    <3> QED
      BY <2>0, <3>1, <3>2
  <2>2. CASE r.op = "delete"
    <3>1. files' = [files EXCEPT ![r.id][r.key] = None]
      BY <2>2 DEF Hub, HubFiles
    <3> QED
      BY <2>0, <3>1
  <2>3. CASE r.op = "copy"
    <3>1. r.key \in Paths /\ r.data \in Paths
      BY <1>a, <2>3 DEF WellFormed, FileOps
    <3>2. files' = [files EXCEPT ![r.id][r.data] = files[r.id][r.key]]
      BY <2>3 DEF Hub, HubFiles
    <3> QED
      BY <2>0, <3>1, <3>2
  <2>4. CASE r.op \notin {"save", "after", "new", "upload", "delete", "copy"}
    BY <2>0, <2>4 DEF Hub, HubFiles
  <2> QED
    BY <2>1, <2>2, <2>3, <2>4
<1>3. TypeOK'
  BY <1>a, <1>1, <1>2 DEF Hub, TypeOK
<1>4. RequestsOK' /\ \A q \in Pending' : q \in Pending \/ (q.op = r.op /\ q.live = r.live)
  <2>1. CASE r.op \in Silent
    BY <1>a, <2>1, DoneTyped DEF Hub
  <2>2. CASE r.op \notin Silent
    <3> DEFINE s == [r EXCEPT !.st = "answered", !.data = Answer(r)]
    <3>1. Shaped(s) /\ s.op = r.op /\ s.id = r.id /\ s.key = r.key /\ s.data = Answer(r) /\ s.live = r.live
      BY <1>a, ShapeKept DEF WellFormed, Shaped, Fields
    <3>2. r.op \in {"form", "nav"} => Answer(r) \in Docs \cup {None}
      BY <1>a DEF Answer, TypeOK, WellFormed
    <3>3. r.op \in {"read", "open"} => Answer(r) \in Texts
      BY <1>a DEF Answer, Hub, Refuses, Exists, TypeOK, WellFormed, FileOps
    <3>4. r.op \notin {"form", "nav", "read", "open"} => Answer(r) = r.data
      BY DEF Answer
    <3> HIDE DEF s
    <3>5. WellFormed(s)
      BY <1>a, <3>1, <3>2, <3>3, <3>4 DEF WellFormed, Writes
    <3>6. Become(r, s)
      BY <2>2 DEF Hub, s
    <3> QED
      BY <1>a, <3>1, <3>5, <3>6, BecomeTyped
  <2> QED
    BY <2>1, <2>2
<1> QED
  BY <1>a, <1>3, <1>4 DEF Hub, MountedOK, TypeInv

(* Answers and failures. *)
LEMMA AnswerTyped ==
  ASSUME TypeInv, NEW r \in Pending,
         \/ FormArrives(r) \/ SaveArrives(r) \/ FileArrives(r) \/ OpenFileArrives(r)
         \/ OpenFile(r) \/ SaveFileArrives(r) \/ HubRefuses(r) \/ Fails(r)
  PROVE  TypeInv'
<1> USE DEF hubVars, pageVars, fileVars
<1>a. TypeOK /\ RequestsOK /\ MountedOK /\ WellFormed(r)
  BY DEF TypeInv, RequestsOK
<1>b. ASSUME Done(r), UNCHANGED <<activeId, editor>>, TypeOK', tabs' # <<>> => editor PROVE TypeInv'
  <2>1. RequestsOK' /\ Pending' \subseteq Pending
    BY <1>a, <1>b, DoneTyped
  <2> QED
    BY <1>a, <1>b, <2>1 DEF MountedOK, TypeInv
<1>c. ASSUME Follow, content' \in Texts PROVE shown' \in Texts
  BY <1>a, <1>c DEF Follow, EditorContent, TypeOK
<1>1. CASE FormArrives(r)
  <2>1. TypeOK'
    BY <1>a, <1>1 DEF FormArrives, TypeOK, WellFormed
  <2> QED
    BY <1>a, <1>b, <1>1, <2>1 DEF FormArrives, MountedOK
<1>2. CASE SaveArrives(r)
  <2>1. TypeOK'
    BY <1>a, <1>2 DEF SaveArrives, TypeOK
  <2>2. CASE activeId # None /\ active # None
    <3> DEFINE s == Request("after", activeId, active, FileContent)
    <3>1. activeId \in Docs /\ active \in Paths /\ FileContent \in Texts
      BY <1>a, <2>2 DEF TypeOK, FileContent
    <3>2. WellFormed(s) /\ s.op = "after"
      BY <3>1, FileRequest DEF FileOps, Writes
    <3> HIDE DEF s
    <3>3. RequestsOK' /\ Pending' \subseteq Pending \cup {s}
      BY <1>a, <1>2, <2>2, <3>2, BecomeTyped DEF SaveArrives, s
    <3> QED
      BY <1>a, <1>2, <2>1, <3>2, <3>3 DEF SaveArrives, MountedOK, TypeInv, EditorOps
  <2>3. CASE ~(activeId # None /\ active # None)
    BY <1>a, <1>b, <1>2, <2>1, <2>3 DEF SaveArrives, MountedOK
  <2> QED
    BY <2>2, <2>3
<1>3. CASE FileArrives(r)
  <2>1. content' \in Texts
    BY <1>a, <1>3 DEF FileArrives, WellFormed
  <2>2. TypeOK'
    BY <1>a, <1>c, <1>3, <2>1 DEF FileArrives, TypeOK
  <2> QED
    BY <1>a, <1>b, <1>3, <2>2 DEF FileArrives, MountedOK
<1>4. CASE OpenFileArrives(r)
  <2>1. content' \in Texts /\ r.key \in Paths
    BY <1>a, <1>4 DEF OpenFileArrives, WellFormed, FileOps
  <2>2. tabs' \in Seq(Paths)
    BY <1>a, <1>4, <2>1, AppendTab DEF OpenFileArrives, TypeOK, WithTab
  <2>3. TypeOK'
    BY <1>a, <1>c, <1>4, <2>1, <2>2 DEF OpenFileArrives, TypeOK, SetActive
  <2>4. tabs' # <<>> => editor
    BY <1>a, <1>4 DEF OpenFileArrives, MountedOK, EditorOps
  <2> QED
    BY <1>b, <1>4, <2>3, <2>4 DEF OpenFileArrives
<1>5. CASE OpenFile(r)
  <2>1. PICK i \in Docs :
          Become(r, [r EXCEPT !.op = IF @ = "info" THEN "open" ELSE "info", !.id = i, !.st = "sent"])
    <3>1. r.op \in EditorOps /\ r.live => activeId \in Docs
      BY <1>a DEF MountedOK, TypeOK
    <3> QED
      BY <1>a, <1>5, <3>1 DEF OpenFile, WellFormed
  <2> DEFINE s == [r EXCEPT !.op = IF @ = "info" THEN "open" ELSE "info", !.id = i, !.st = "sent"]
  <2>2. /\ Shaped(s) /\ s.op \in {"open", "info"} /\ s.id = i /\ s.key = r.key
        /\ s.st = "sent" /\ s.live = r.live
    BY <1>a, ShapeKept DEF WellFormed, Shaped, Fields
  <2>3. r.op \in EditorOps /\ r.key \in Paths
    BY <1>a, <1>5 DEF OpenFile, WellFormed, EditorOps, FileOps
  <2> HIDE DEF s
  <2>4. WellFormed(s)
    BY <2>2, <2>3 DEF WellFormed, Writes
  <2>5. RequestsOK' /\ Pending' \subseteq Pending \cup {s}
    BY <1>a, <2>1, <2>4, BecomeTyped DEF s
  <2>6. TypeOK'
    BY <1>a, <1>5 DEF OpenFile, TypeOK
  <2> QED
    BY <1>a, <1>5, <2>2, <2>3, <2>5, <2>6 DEF OpenFile, MountedOK, TypeInv
<1>6. CASE SaveFileArrives(r)
  <2>1. r.data \in Texts
    BY <1>a, <1>6 DEF SaveFileArrives, WellFormed, Writes
  <2>2. TypeOK'
    BY <1>a, <1>c, <1>6, <2>1 DEF SaveFileArrives, TypeOK
  <2> QED
    BY <1>a, <1>b, <1>6, <2>2 DEF SaveFileArrives, MountedOK
<1>7. CASE HubRefuses(r)
  <2>1. TypeOK'
    BY <1>a, <1>7 DEF HubRefuses, TypeOK, Ends
  <2> QED
    BY <1>a, <1>b, <1>7, <2>1 DEF HubRefuses, MountedOK
<1>8. CASE Fails(r)
  <2>1. TypeOK'
    BY <1>a, <1>8, BoundsTyped DEF Fails, TypeOK, Ends
  <2> QED
    BY <1>a, <1>b, <1>8, <2>1 DEF Fails, MountedOK
<1> QED
  BY <1>1, <1>2, <1>3, <1>4, <1>5, <1>6, <1>7, <1>8

LEMMA TypeStep == TypeInv /\ [Next]_vars => TypeInv'
<1> SUFFICES ASSUME TypeInv, [Next]_vars PROVE TypeInv'
  OBVIOUS
<1>1. CASE User
  BY <1>1, PageTyped, TabsTyped, EditorTyped, SendingTyped DEF User
<1>2. CASE Update
  BY <1>2, TabsTyped
<1>3. CASE Reply
  BY <1>3, HubTyped, AnswerTyped DEF Reply, Pending
<1>4. ASSUME NEW r \in BagToSet(requests), Fails(r) PROVE TypeInv'
  BY <1>4, AnswerTyped DEF Pending
<1>5. CASE UNCHANGED vars
  BY <1>5 DEF vars, hubVars, pageVars, fileVars, TypeInv, TypeOK, RequestsOK, MountedOK, Pending
<1> QED
  BY <1>1, <1>2, <1>3, <1>4, <1>5 DEF Next

(* Every variable keeps its type, for any number of spiders, files and     *)
(* requests: no answer, however late, puts something into the form, the    *)
(* tabs, the editor or the cache that does not belong there.               *)
THEOREM TypeCorrect == Spec => []TypeOK
<1>1. TypeInv => TypeOK
  BY DEF TypeInv
<1> QED
  BY InitTyped, TypeStep, <1>1, PTL DEF Spec

-----------------------------------------------------------------------------
(* The spinner over the page *)

(* A step that keeps every request the spinner waits for. *)
LEMMA SpinnerKept ==
  ASSUME SpinnerMeansRequest, navLoading' => navLoading,
         \A r \in Pending : r.op = "nav" /\ r.live => r \in Pending'
  PROVE  SpinnerMeansRequest'
BY DEF SpinnerMeansRequest, Pending

LEMMA SpinnerReply ==
  ASSUME TypeInv, SpinnerMeansRequest, NEW r \in Pending,
         \/ Hub(r) \/ HubRefuses(r) \/ Fails(r) \/ FormArrives(r) \/ SaveArrives(r)
         \/ FileArrives(r) \/ OpenFileArrives(r) \/ OpenFile(r) \/ SaveFileArrives(r)
  PROVE  SpinnerMeansRequest'
<1> USE DEF hubVars, pageVars, fileVars
<1>a. RequestsOK /\ WellFormed(r) /\ navLoading \in BOOLEAN
  BY DEF TypeInv, RequestsOK, TypeOK
<1>b. ASSUME Pending \ {r} \subseteq Pending', navLoading' => navLoading, ~(r.op = "nav" /\ r.live)
      PROVE  SpinnerMeansRequest'
  BY <1>b, SpinnerKept
<1>c. ASSUME Done(r), navLoading' = (navLoading /\ ~(r.op = "nav" /\ r.live)) PROVE SpinnerMeansRequest'
  <2>1. Pending \ {r} \subseteq Pending'
    BY <1>a, <1>c, DoneTyped
  <2>2. CASE r.op = "nav" /\ r.live
    BY <1>c, <2>2 DEF SpinnerMeansRequest
  <2>3. CASE ~(r.op = "nav" /\ r.live)
    BY <1>a, <1>b, <1>c, <2>1, <2>3
  <2> QED
    BY <2>2, <2>3
<1>1. CASE Hub(r)
  <2>1. CASE r.op \in Silent
    BY <1>a, <1>b, <1>1, <2>1, DoneTyped DEF Hub, Silent
  <2>2. CASE r.op \notin Silent
    <3> DEFINE s == [r EXCEPT !.st = "answered", !.data = Answer(r)]
    <3>1. s.op = r.op /\ s.live = r.live
      BY <1>a DEF WellFormed, Shaped, Fields
    <3> HIDE DEF s
    <3>2. s \in Pending' /\ Pending \ {r} \subseteq Pending'
      BY <1>a, <1>1, <2>2, BecomeSet DEF Hub, s, RequestsOK
    <3> QED
      BY <1>1, <3>1, <3>2 DEF Hub, SpinnerMeansRequest, Pending
  <2> QED
    BY <2>1, <2>2
<1>2. CASE HubRefuses(r) \/ Fails(r)
  BY <1>c, <1>2 DEF HubRefuses, Fails, Ends
<1>3. CASE FormArrives(r)
  BY <1>c, <1>3 DEF FormArrives
<1>4. CASE SaveArrives(r)
  <2>1. Pending \ {r} \subseteq Pending'
    BY <1>a, <1>4, DoneSet, BecomeSet DEF SaveArrives, RequestsOK
  <2> QED
    BY <1>b, <1>4, <2>1 DEF SaveArrives
<1>5. CASE FileArrives(r) \/ OpenFileArrives(r) \/ SaveFileArrives(r)
  <2>1. Pending \ {r} \subseteq Pending'
    BY <1>a, <1>5, DoneSet DEF FileArrives, OpenFileArrives, SaveFileArrives, RequestsOK
  <2> QED
    BY <1>b, <1>5, <2>1 DEF FileArrives, OpenFileArrives, SaveFileArrives
<1>6. CASE OpenFile(r)
  <2>1. Pending \ {r} \subseteq Pending'
    BY <1>a, <1>6, BecomeSet DEF OpenFile, RequestsOK
  <2> QED
    BY <1>b, <1>6, <2>1 DEF OpenFile, EditorOps
<1> QED
  BY <1>1, <1>2, <1>3, <1>4, <1>5, <1>6

LEMMA SpinnerUser ==
  ASSUME TypeInv, SpinnerMeansRequest, User
  PROVE  SpinnerMeansRequest'
<1> USE DEF hubVars, pageVars, fileVars
<1>a. RequestsOK
  BY DEF TypeInv
<1>b. ASSUME Pending \subseteq Pending', navLoading' = navLoading PROVE SpinnerMeansRequest'
  BY <1>b, SpinnerKept
<1>c. ASSUME NEW b, Send(b) PROVE Pending \subseteq Pending'
  BY <1>c, SendSet
<1>d. UNCHANGED requests => Pending \subseteq Pending'
  BY DEF Pending
<1>1. ASSUME NEW d \in Docs, OnNavSelect(d) PROVE SpinnerMeansRequest'
  <2> DEFINE r == Request("form", d, None, None)
             s == Request("nav", d, None, None)
  <2>1. s.op = "nav" /\ s.live
    BY PageRequest
  <2> HIDE DEF r, s
  <2>2. s \in Pending'
    BY <1>1, SendSet, SumBag, OneBag DEF OnNavSelect, r, s
  <2> QED
    BY <2>1, <2>2 DEF SpinnerMeansRequest, Pending
<1>2. CASE OnBack
  BY <1>2 DEF OnBack, SpinnerMeansRequest
<1>3. CASE CloseEditor
  <2>1. \A r \in Pending : r.op \notin EditorOps => r \in Pending'
    BY <1>a, <1>3, OrphanTyped DEF CloseEditor
  <2> QED
    BY <1>3, <2>1, SpinnerKept DEF CloseEditor, EditorOps
<1>4. ASSUME NEW p, OpenEditor(p) PROVE SpinnerMeansRequest'
  BY <1>b, <1>c, <1>d, <1>4 DEF OpenEditor
<1>5. ASSUME NEW p, Enter(p) \/ OnNavItemDbClick(p) \/ OnTabClick(p) \/ OnContextMenuNewFile(p) \/ OnUpload(p)
      PROVE  SpinnerMeansRequest'
  BY <1>b, <1>c, <1>5 DEF Enter, OnNavItemDbClick, OnTabClick, OnContextMenuNewFile, OnUpload
<1>6. CASE OnSave \/ OnSaveFile
  BY <1>b, <1>c, <1>6 DEF OnSave, OnSaveFile
<1>7. ASSUME NEW op, NEW p, NEW q, OnFileOperation(op, p, q) PROVE SpinnerMeansRequest'
  BY <1>b, <1>c, <1>7 DEF OnFileOperation
<1>8. ASSUME NEW p, OnTabCloseOthers(p) \/ OnContextMenuUploadFiles(p) \/ CloseTab(p) \/ OnContentChange(p)
      PROVE  SpinnerMeansRequest'
  BY <1>b, <1>d, <1>8 DEF OnTabCloseOthers, OnContextMenuUploadFiles, CloseTab, OnContentChange
<1>9. CASE OnTabCloseAll \/ OnTabDragEnd
  BY <1>b, <1>d, <1>9 DEF OnTabCloseAll, OnTabDragEnd
<1> QED
  BY <1>1, <1>2, <1>3, <1>4, <1>5, <1>6, <1>7, <1>8, <1>9 DEF User

(* The spinner over the page ends: onNavSelect turned it on before a       *)
(* request that is still under way, whatever other requests were answered, *)
(* refused or lost and whichever component has gone since.                 *)
THEOREM SpinnerJustified == Spec => []SpinnerMeansRequest
<1>1. Init => SpinnerMeansRequest
  BY DEF Init, SpinnerMeansRequest
<1>2. TypeInv /\ SpinnerMeansRequest /\ [Next]_vars => SpinnerMeansRequest'
  <2> SUFFICES ASSUME TypeInv, SpinnerMeansRequest, [Next]_vars PROVE SpinnerMeansRequest'
    OBVIOUS
  <2>1. CASE User
    BY <2>1, SpinnerUser
  <2>2. CASE Update
    BY <2>2 DEF Update, pageVars, SpinnerMeansRequest
  <2>3. CASE Reply
    BY <2>3, SpinnerReply DEF Reply, Pending
  <2>4. ASSUME NEW r \in BagToSet(requests), Fails(r) PROVE SpinnerMeansRequest'
    BY <2>4, SpinnerReply DEF Pending
  <2>5. CASE UNCHANGED vars
    BY <2>5 DEF vars, pageVars, SpinnerMeansRequest
  <2> QED
    BY <2>1, <2>2, <2>3, <2>4, <2>5 DEF Next
<1> QED
  BY InitTyped, TypeStep, <1>1, <1>2, PTL DEF Spec

-----------------------------------------------------------------------------
(* The tabs *)

TabsOK == TabsAreDistinct /\ OpenTabsShown

LEMMA TabsStep == TypeInv /\ TabsOK /\ [Next]_vars => TabsOK'
<1> SUFFICES ASSUME TypeInv, TabsOK, [Next]_vars PROVE TabsOK'
  OBVIOUS
<1> USE DEF hubVars, pageVars, fileVars
<1>a. tabs \in Seq(Paths) /\ IsInjective(tabs) /\ (tabs # <<>> => active # None) /\ RequestsOK
  BY DEF TypeInv, TypeOK, TabsOK, TabsAreDistinct, OpenTabsShown
<1>b. ASSUME IsInjective(tabs'), tabs' # <<>> => active' # None PROVE TabsOK'
  BY <1>b DEF TabsOK, TabsAreDistinct, OpenTabsShown
<1>c. UNCHANGED <<tabs, active>> => TabsOK'
  BY <1>a, <1>b
<1>d. IsInjective(<<>>)
  BY DEF IsInjective
<1>e. \A p \in Paths : p # None
  BY NoneAssumption
<1>1. ASSUME NEW p \in Paths, OnNavItemDbClick(p) PROVE TabsOK'
  <2>1. IsInjective(tabs') /\ active' = p
    BY <1>a, <1>1, AppendTab DEF OnNavItemDbClick, WithTab, SetActive
  <2> QED
    BY <1>b, <1>e, <2>1
<1>2. ASSUME NEW p \in Paths, OnTabClick(p) \/ OnContextMenuUploadFiles(p) PROVE TabsOK'
  BY <1>a, <1>b, <1>e, <1>2 DEF OnTabClick, OnContextMenuUploadFiles, SetActive
<1>3. ASSUME NEW p \in Paths, OnTabCloseOthers(p) PROVE TabsOK'
  <2>1. IsInjective(<<p>>)
    BY DEF IsInjective
  <2> QED
    BY <1>b, <1>e, <1>3, <2>1 DEF OnTabCloseOthers, SetActive
<1>4. ASSUME NEW k \in DOMAIN tabs, CloseTab(k) PROVE TabsOK'
  <2> DEFINE t == RemoveAt(tabs, k)
  <2>1. /\ t \in Seq(Paths) /\ Len(t) = Len(tabs) - 1
        /\ \A i \in 1..(Len(tabs) - 1) : t[i] = IF i < k THEN tabs[i] ELSE tabs[i + 1]
    BY <1>a, RemoveTab
  <2>2. tabs' = t /\ active' = IF active = tabs[k] THEN Neighbour(tabs, k) ELSE active
    BY <1>4 DEF CloseTab, SetActive
  <2> HIDE DEF t
  <2>3. Len(tabs) \in Nat /\ k \in 1..Len(tabs) /\ tabs # <<>>
    BY <1>a, <1>4
  <2>4. IsInjective(t)
    <3> SUFFICES ASSUME NEW i \in DOMAIN t, NEW j \in DOMAIN t, t[i] = t[j] PROVE i = j
      BY DEF IsInjective
    <3>1. i \in 1..(Len(tabs) - 1) /\ j \in 1..(Len(tabs) - 1)
      BY <2>1
    <3> DEFINE at(x) == IF x < k THEN x ELSE x + 1
    <3>2. at(i) \in DOMAIN tabs /\ at(j) \in DOMAIN tabs /\ tabs[at(i)] = tabs[at(j)]
      BY <1>a, <2>1, <2>3, <3>1
    <3>3. at(i) = at(j)
      BY <1>a, <3>2 DEF IsInjective
    <3> QED
      BY <2>3, <3>1, <3>3
  <2>5. t # <<>> => active' # None
    <3> SUFFICES ASSUME t # <<>> PROVE active' # None
      OBVIOUS
    <3>1. Len(tabs) # 1
      BY <2>1
    <3>2. Neighbour(tabs, k) \in Paths
      BY <1>a, <1>4, <3>1, NextTab
    <3> QED
      BY <1>a, <1>e, <2>2, <2>3, <3>2
  <2> QED
    BY <1>b, <2>2, <2>4, <2>5
<1>5. CASE OnTabCloseAll
  BY <1>b, <1>d, <1>5 DEF OnTabCloseAll
<1>6. CASE OnTabDragEnd
  <2>1. IsInjective(tabs') /\ (tabs = <<>> => tabs' = <<>>)
    BY <1>a, <1>6, DraggedTabs DEF OnTabDragEnd
  <2> QED
    BY <1>a, <1>b, <1>6, <2>1 DEF OnTabDragEnd
<1>7. CASE OnBack \/ CloseEditor
  BY <1>b, <1>d, <1>7 DEF OnBack, CloseEditor, EditorGone
<1>8. ASSUME NEW p, \/ Enter(p) \/ OnNavSelect(p) \/ OpenEditor(p) \/ OnContextMenuNewFile(p)
                    \/ OnUpload(p) \/ OnContentChange(p)
      PROVE  TabsOK'
  BY <1>c, <1>8 DEF Enter, OnNavSelect, OpenEditor, OnContextMenuNewFile, OnUpload, OnContentChange
<1>9. CASE OnSave \/ OnSaveFile \/ Update
  BY <1>c, <1>9 DEF OnSave, OnSaveFile, Update
<1>10. ASSUME NEW op, NEW p, NEW q, OnFileOperation(op, p, q) PROVE TabsOK'
  BY <1>c, <1>10 DEF OnFileOperation
<1>11. ASSUME NEW r \in BagToSet(requests), OpenFileArrives(r) PROVE TabsOK'
  <2>1. r.key \in Paths
    BY <1>a, <1>11 DEF OpenFileArrives, RequestsOK, Pending, WellFormed, FileOps
  <2>2. CASE r.live
    <3>1. tabs' = WithTab(r.key) /\ active' = IF tabs = <<>> THEN r.key ELSE active
      BY <1>11, <2>2 DEF OpenFileArrives, SetActive
    <3>2. IsInjective(tabs')
      BY <1>a, <2>1, <3>1, AppendTab DEF WithTab
    <3> QED
      BY <1>a, <1>b, <1>e, <2>1, <3>1, <3>2
  <2>3. CASE ~r.live
    BY <1>c, <1>11, <2>3 DEF OpenFileArrives, SetActive
  <2> QED
    BY <2>2, <2>3
<1>12. ASSUME NEW r, \/ Hub(r) \/ HubRefuses(r) \/ FormArrives(r) \/ SaveArrives(r) \/ FileArrives(r)
                     \/ OpenFile(r) \/ SaveFileArrives(r) \/ Fails(r)
       PROVE  TabsOK'
  BY <1>c, <1>12 DEF Hub, HubRefuses, FormArrives, SaveArrives, FileArrives, OpenFile, SaveFileArrives, Fails
<1>13. CASE UNCHANGED vars
  BY <1>c, <1>13 DEF vars
<1> QED
  BY <1>1, <1>2, <1>3, <1>4, <1>5, <1>6, <1>7, <1>8, <1>9, <1>10, <1>11, <1>12, <1>13
     DEF Next, User, Reply

LEMMA TabsInit == Init => TabsOK
BY DEF Init, TabsOK, TabsAreDistinct, OpenTabsShown, IsInjective

(* A file has one tab, whether updateTabs saw it by a click or by an       *)
(* answer, and in whatever order tabs are dragged and closed.              *)
THEOREM OneTabPerFile == Spec => []TabsAreDistinct
<1>1. TabsOK => TabsAreDistinct
  BY DEF TabsOK
<1> QED
  BY InitTyped, TypeStep, TabsInit, TabsStep, <1>1, PTL DEF Spec

(* While tabs are open the editor has a file: onTabClose hands over to a   *)
(* neighbour, and the answer that opens the first tab makes it active.     *)
THEOREM AFileIsActive == Spec => []OpenTabsShown
<1>1. TabsOK => OpenTabsShown
  BY DEF TabsOK
<1> QED
  BY InitTyped, TypeStep, TabsInit, TabsStep, <1>1, PTL DEF Spec

=============================================================================
