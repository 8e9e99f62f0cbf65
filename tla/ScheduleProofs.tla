--------------------------- MODULE ScheduleProofs ---------------------------
(***************************************************************************)
(* Proofs about the schedule service, for any number of schedules, cron    *)
(* expressions, requests, failures and restarts.                           *)
(***************************************************************************)
EXTENDS Schedule, TLAPS

(* A document the service wrote last names an id that was given out.       *)
TightEntry ==
  \A s \in Schedules \ loose : docs[s].life = "here" => docs[s].entry < nextId

(* The entry a caller is about to write into the document is the one it    *)
(* has added, unless a pass of update has removed it meanwhile.            *)
AddedEntry ==
  \A c \in Callers :
    call[c].pc = "write" =>
      /\ call[c].entry < nextId
      /\ call[c].entry \in DOMAIN entries
           => entries[call[c].entry] = [sch |-> call[c].sch, cron |-> call[c].doc.cron]

IInv == TypeOK /\ TightEntry /\ AddedEntry /\ OwnEntry

-----------------------------------------------------------------------------
LEMMA BlankType == Blank \in Document
  BY DEF Blank, Document, ZeroEntry

LEMMA IdleType == Idle \in CallState
  BY BlankType DEF Idle, CallState, NoEntry

LEMMA StoredType == Stored \subseteq Document
<1> SUFFICES ASSUME NEW d \in Stored PROVE d \in Document
  OBVIOUS
<1>1. CASE d = Blank
  BY <1>1, BlankType
<1>2. CASE d \in [life : {"here"}, enabled : {FALSE}, entry : {NoEntry},
                  cron : Crons \cup {BadCron}]
  <2>1. /\ d.life = "here" /\ d.enabled = FALSE /\ d.entry = NoEntry
        /\ d.cron \in Crons \cup {BadCron}
        /\ d = [life |-> d.life, enabled |-> d.enabled, entry |-> d.entry, cron |-> d.cron]
    BY <1>2
  <2>2. /\ d.life \in {"new", "here", "gone"} /\ d.entry \in Int
        /\ d.cron \in Crons \cup {BadCron}
    BY <2>1 DEF NoEntry
  <2>3. d.enabled \in BOOLEAN
    BY <2>1, Zenon
  <2>4. d = [life |-> d.life, enabled |-> d.enabled, entry |-> d.entry, cron |-> d.cron]
    BY <2>1
  <2> QED BY <2>2, <2>3, <2>4 DEF Document
<1>3. CASE d \in [life : {"here"}, enabled : {TRUE}, entry : Nat \ {0}, cron : Crons]
  <2>1. /\ d.life = "here" /\ d.enabled = TRUE /\ d.entry \in Nat \ {0}
        /\ d.cron \in Crons
        /\ d = [life |-> d.life, enabled |-> d.enabled, entry |-> d.entry, cron |-> d.cron]
    BY <1>3
  <2>2. /\ d.life \in {"new", "here", "gone"} /\ d.entry \in Int
        /\ d.cron \in Crons \cup {BadCron}
    BY <2>1
  <2>3. d.enabled \in BOOLEAN
    BY <2>1, Zenon
  <2>4. d = [life |-> d.life, enabled |-> d.enabled, entry |-> d.entry, cron |-> d.cron]
    BY <2>1
  <2> QED BY <2>2, <2>3, <2>4 DEF Document
<1> QED BY <1>1, <1>2, <1>3 DEF Stored

LEMMA CallingType ==
  ASSUME NEW s \in Schedules, NEW op \in {"none", "enable", "disable"}, NEW d \in Document
  PROVE  /\ Calling(s, op, d) \in CallState
         /\ Calling(s, op, d).pc = "enter"
         /\ Calling(s, op, d).sch = s
  BY DEF Calling, CallState, NoEntry

LEMMA FormType ==
  ASSUME NEW s \in Schedules, NEW d \in Document
  PROVE  /\ [Idle EXCEPT !.pc = "form", !.sch = s, !.doc = d] \in CallState
         /\ [Idle EXCEPT !.pc = "form", !.sch = s, !.doc = d].sch = s
         /\ [Idle EXCEPT !.pc = "form", !.sch = s, !.doc = d].pc = "form"
<1>1. PICK v : v = [Idle EXCEPT !.pc = "form", !.sch = s, !.doc = d]
  OBVIOUS
<1>2. v = [pc |-> "form", op |-> "none", sch |-> s, doc |-> d, entry |-> NoEntry]
  BY <1>1 DEF Idle
<1>3. v \in CallState /\ v.sch = s /\ v.pc = "form"
  BY <1>2 DEF CallState, NoEntry
<1> QED BY <1>1, <1>3

LEMMA AddedType ==
  ASSUME NEW x \in CallState, NEW e \in Int
  PROVE  /\ [x EXCEPT !.pc = "write", !.entry = e] \in CallState
         /\ [x EXCEPT !.pc = "write", !.entry = e].pc = "write"
         /\ [x EXCEPT !.pc = "write", !.entry = e].entry = e
         /\ [x EXCEPT !.pc = "write", !.entry = e].sch = x.sch
         /\ [x EXCEPT !.pc = "write", !.entry = e].doc = x.doc
  BY DEF CallState

(* The documents users and the service write are documents.                *)
LEMMA PutType ==
  ASSUME NEW d \in Document, NEW on \in BOOLEAN, NEW k \in Crons \cup {BadCron}
  PROVE  [d EXCEPT !.enabled = on, !.cron = k] \in Document
  BY DEF Document

LEMMA PatchType ==
  ASSUME NEW d \in Document, NEW on \in BOOLEAN, NEW k \in Crons \cup {BadCron}, NEW e \in Int
  PROVE  [d EXCEPT !.enabled = on, !.cron = k, !.entry = e] \in Document
  BY DEF Document

LEMMA DeleteType ==
  ASSUME NEW d \in Document
  PROVE  /\ [d EXCEPT !.life = "gone"] \in Document
         /\ [d EXCEPT !.life = "gone"].life = "gone"
  BY DEF Document

LEMMA ServiceType ==
  ASSUME NEW d \in Document, NEW on \in BOOLEAN, NEW e \in Int
  PROVE  /\ [d EXCEPT !.enabled = on, !.entry = e] \in Document
         /\ [d EXCEPT !.enabled = on, !.entry = e].entry = e
         /\ [d EXCEPT !.enabled = on, !.entry = e].cron = d.cron
  BY DEF Document

LEMMA FetchedType ==
  ASSUME docs \in [Schedules -> Document]
  PROVE  Fetched \subseteq Copy
  BY DEF Fetched, Copy

(* cron.Remove and the pass of update only take entries away.              *)
LEMMA WithoutShrinks ==
  ASSUME NEW ids
  PROVE  /\ DOMAIN Without(ids) \subseteq DOMAIN entries
         /\ \A i \in DOMAIN Without(ids) : Without(ids)[i] = entries[i]
  BY DEF Without, Restrict

-----------------------------------------------------------------------------
(* TypeOK in parts: the calls, the pass, and the rest.                     *)
CallOK ==
  /\ call \in [Callers -> CallState]
  /\ \A c \in Callers : call[c].pc # "idle" => call[c].sch \in Schedules

PassOK ==
  /\ pass = [pc |-> pass.pc, todo |-> pass.todo, found |-> pass.found, tries |-> pass.tries]
  /\ pass.pc \in {"boot", "sleep", "fetched", "walk"}
  /\ pass.todo \subseteq Copy
  /\ pass.tries \in 0 .. MaxRetries

RestOK ==
  /\ docs \in [Schedules -> Document]
  /\ nextId \in Nat \ {0}
  /\ DOMAIN entries \subseteq 1 .. (nextId - 1)
  /\ mu \in Callers \cup {NoOne}
  /\ loose \subseteq Schedules
  /\ spent \in [{"request", "fail", "restart"} -> Nat]

LEMMA TypeParts == TypeOK <=> CallOK /\ PassOK /\ RestOK
  BY DEF TypeOK, CallOK, PassOK, RestOK

Shapes == TightEntry /\ AddedEntry /\ OwnEntry

LEMMA Collect ==
  ASSUME CallOK', PassOK', RestOK', Shapes'
  PROVE  IInv'
  BY DEF IInv, TypeOK, CallOK, PassOK, RestOK, Shapes

(* A step that changes one call.                                           *)
LEMMA CallSet ==
  ASSUME CallOK, NEW c \in Callers, NEW v \in CallState,
         v.pc # "idle" => v.sch \in Schedules,
         call' = [call EXCEPT ![c] = v]
  PROVE  /\ CallOK'
         /\ call'[c] = v
         /\ \A k \in Callers : k # c => call'[k] = call[k]
  BY DEF CallOK

LEMMA ReturnType ==
  ASSUME CallOK, PassOK, NEW c \in Callers, NEW ok \in BOOLEAN,
         call[c].pc # "idle", Return(c, ok)
  PROVE  /\ CallOK' /\ PassOK'
         /\ call'[c].pc # "write"
         /\ \A k \in Callers : k # c => call'[k] = call[k]
<1>1. CASE c = Updater /\ ~ok /\ pass.pc = "walk" /\ pass.tries < MaxRetries
  <2> PICK v : v = Calling(call[c].sch, call[c].op, call[c].doc)
    OBVIOUS
  <2>1. call' = [call EXCEPT ![c] = v] /\ pass' = [pass EXCEPT !.tries = @ + 1]
    BY <1>1 DEF Return
  <2>2. v \in CallState /\ v.sch \in Schedules /\ v.pc = "enter"
    BY CallingType DEF CallOK, CallState
  <2>3. PassOK'
    BY <2>1, <1>1, ScheduleAssumption DEF PassOK
  <2> QED BY <2>1, <2>2, <2>3, CallSet
<1>2. CASE ~(c = Updater /\ ~ok /\ pass.pc = "walk" /\ pass.tries < MaxRetries)
  <2>1. call' = [call EXCEPT ![c] = Idle] /\ pass' = pass
    BY <1>2 DEF Return
  <2>2. PassOK'
    BY <2>1 DEF PassOK
  <2>3. Idle.pc = "idle"
    BY DEF Idle
  <2> QED BY <2>1, <2>2, <2>3, IdleType, CallSet
<1> QED BY <1>1, <1>2

(* A step that writes no document, adds no entry and leaves every call     *)
(* that is about to write alone keeps the shapes: entries only go away and *)
(* documents only become loose.                                            *)
LEMMA QuietStep ==
  ASSUME Shapes,
         docs' = docs, nextId' = nextId, loose \subseteq loose',
         DOMAIN entries' \subseteq DOMAIN entries,
         \A i \in DOMAIN entries' : entries'[i] = entries[i],
         \A c \in Callers : call'[c].pc = "write" => call'[c] = call[c]
  PROVE  Shapes'
<1>1. TightEntry'
  BY DEF Shapes, TightEntry
<1>2. AddedEntry'
  BY DEF Shapes, AddedEntry
<1>3. OwnEntry'
  BY DEF Shapes, OwnEntry
<1> QED BY <1>1, <1>2, <1>3 DEF Shapes

(* A step that writes documents the same way: a document that is not loose *)
(* and is there afterwards is either unchanged or names no entry that      *)
(* could ever be another's.                                                *)
LEMMA WriteStep ==
  ASSUME RestOK, Shapes, nextId' = nextId, entries' = entries,
         \A c \in Callers : call'[c].pc = "write" => call'[c] = call[c],
         \A s \in Schedules \ loose' :
           docs'[s].life = "here" =>
             \/ s \notin loose /\ docs'[s] = docs[s]
             \/ docs'[s].entry \in {NoEntry, ZeroEntry}
  PROVE  Shapes'
<1>1. TightEntry'
  BY DEF Shapes, TightEntry, RestOK, NoEntry, ZeroEntry
<1>2. AddedEntry'
  BY DEF Shapes, AddedEntry
<1>3. OwnEntry'
  BY DEF Shapes, OwnEntry, RestOK, NoEntry, ZeroEntry
<1> QED BY <1>1, <1>2, <1>3 DEF Shapes

LEMMA SpendType ==
  ASSUME RestOK, NEW k \in {"request", "fail", "restart"}, NEW max, Spend(k, max)
  PROVE  spent' \in [{"request", "fail", "restart"} -> Nat]
  BY DEF RestOK, Spend

-----------------------------------------------------------------------------
(* The steps of users.                                                     *)

LEMMA PostSteps ==
  ASSUME IInv, NEW r \in Requests, NEW s \in Schedules, PostSchedule(r, s)
  PROVE  IInv'
<1> USE TypeParts
<1>0. r \in Callers /\ CallOK /\ PassOK /\ RestOK /\ Shapes
  BY DEF IInv, Shapes, Callers
<1> PICK on \in BOOLEAN, k \in Crons \cup {BadCron} :
      LET d == [life |-> "here", enabled |-> on, entry |-> ZeroEntry, cron |-> k]
      IN /\ docs' = [docs EXCEPT ![s] = d]
         /\ call' = IF on THEN [call EXCEPT ![r] = Calling(s, "enable", d)] ELSE call
  BY DEF PostSchedule
<1> PICK d : d = [life |-> "here", enabled |-> on, entry |-> ZeroEntry, cron |-> k]
  OBVIOUS
<1>1. d \in Document
  BY DEF Document, ZeroEntry
<1>2. docs' = [docs EXCEPT ![s] = d] /\ docs' \in [Schedules -> Document]
  BY <1>0, <1>1 DEF RestOK
<1>3. CallOK' /\ \A c \in Callers : call'[c].pc = "write" => call'[c] = call[c]
  <2>1. CASE on
    <3> PICK v : v = Calling(s, "enable", d)
      OBVIOUS
    <3>1. v \in CallState /\ v.sch \in Schedules /\ v.pc = "enter"
      BY <1>1, CallingType
    <3>2. call' = [call EXCEPT ![r] = v]
      BY <2>1
    <3> QED BY <3>1, <3>2, <1>0, CallSet
  <2>2. CASE ~on
    BY <2>2, <1>0 DEF CallOK
  <2> QED BY <2>1, <2>2
<1>4. RestOK'
  BY <1>0, <1>2, SpendType DEF PostSchedule, RestOK
<1>5. PassOK'
  BY <1>0 DEF PostSchedule, PassOK
<1>6. Shapes'
  <2>1. \A t \in Schedules \ loose' :
          docs'[t].life = "here" =>
            \/ t \notin loose /\ docs'[t] = docs[t]
            \/ docs'[t].entry \in {NoEntry, ZeroEntry}
    BY <1>0, <1>2 DEF PostSchedule, RestOK
  <2>2. nextId' = nextId /\ entries' = entries
    BY DEF PostSchedule
  <2> QED BY <2>1, <2>2, <1>0, <1>3, WriteStep
<1> QED BY <1>3, <1>4, <1>5, <1>6, Collect

LEMMA GetSteps ==
  ASSUME IInv, NEW r \in Requests, NEW s \in Schedules, GetScheduleById(r, s)
  PROVE  IInv'
<1>0. r \in Callers /\ CallOK /\ PassOK /\ RestOK /\ Shapes
  BY TypeParts DEF IInv, Shapes, Callers
<1> PICK v : v = [Idle EXCEPT !.pc = "form", !.sch = s, !.doc = docs[s]]
  OBVIOUS
<1>1. v \in CallState /\ v.sch \in Schedules /\ v.pc = "form"
  <2>1. docs[s] \in Document
    BY <1>0 DEF RestOK
  <2> QED BY <2>1, FormType
<1>2. call' = [call EXCEPT ![r] = v]
  BY DEF GetScheduleById
<1>3. CallOK' /\ \A c \in Callers : call'[c].pc = "write" => call'[c] = call[c]
  BY <1>0, <1>1, <1>2, CallSet
<1>4. RestOK'
  BY <1>0, SpendType DEF GetScheduleById, RestOK
<1>5. PassOK'
  BY <1>0 DEF GetScheduleById, PassOK
<1>6. Shapes'
  BY <1>0, <1>3, QuietStep DEF GetScheduleById
<1> QED BY <1>3, <1>4, <1>5, <1>6, Collect

LEMMA PutSteps ==
  ASSUME IInv, NEW r \in Requests, PutScheduleById(r)
  PROVE  IInv'
<1>0. r \in Callers /\ CallOK /\ PassOK /\ RestOK /\ Shapes
  BY TypeParts DEF IInv, Shapes, Callers
<1>a. PICK on \in BOOLEAN, k \in Crons \cup {BadCron} :
        LET d == [call[r].doc EXCEPT !.enabled = on, !.cron = k]
        IN /\ ReplaceById(call[r].sch, d)
           /\ call' = [call EXCEPT ![r] =
                         Calling(call[r].sch, IF on THEN "enable" ELSE "disable", d)]
  BY DEF PutScheduleById
<1>b. PICK d : d = [call[r].doc EXCEPT !.enabled = on, !.cron = k]
  OBVIOUS
<1>c. PICK op : op = IF on THEN "enable" ELSE "disable"
  OBVIOUS
<1>d. PICK v : v = Calling(call[r].sch, op, d)
  OBVIOUS
<1>1. call[r].sch \in Schedules /\ call[r].doc \in Document
  BY <1>0 DEF CallOK, CallState, PutScheduleById
<1>2. d \in Document
  BY <1>1, <1>b, PutType
<1>3. op \in {"none", "enable", "disable"}
  BY <1>c
<1>4. CallOK' /\ \A c \in Callers : call'[c].pc = "write" => call'[c] = call[c]
  <2>1. v \in CallState /\ v.sch \in Schedules /\ v.pc = "enter"
    BY <1>1, <1>2, <1>3, <1>d, CallingType
  <2>2. call' = [call EXCEPT ![r] = v]
    BY <1>a, <1>b, <1>c, <1>d
  <2> QED BY <2>1, <2>2, <1>0, CallSet
<1>5. /\ docs' \in [Schedules -> Document]
      /\ \A t \in Schedules : t # call[r].sch => docs'[t] = docs[t]
  <2>1. ReplaceById(call[r].sch, d)
    BY <1>a, <1>b
  <2> QED BY <2>1, <1>0, <1>1, <1>2 DEF ReplaceById, RestOK
<1>6. UNCHANGED <<entries, nextId, mu, pass, spent>> /\ loose' = loose \cup {call[r].sch}
  BY DEF PutScheduleById
<1>7. RestOK' /\ PassOK'
  BY <1>0, <1>1, <1>5, <1>6 DEF RestOK, PassOK
<1>8. Shapes'
  BY <1>0, <1>4, <1>5, <1>6, WriteStep
<1> QED BY <1>4, <1>7, <1>8, Collect

LEMMA CloseSteps ==
  ASSUME IInv, NEW r \in Requests, CloseForm(r)
  PROVE  IInv'
<1>0. r \in Callers /\ CallOK /\ PassOK /\ RestOK /\ Shapes
  BY TypeParts DEF IInv, Shapes, Callers
<1>1. Idle.pc = "idle" /\ call' = [call EXCEPT ![r] = Idle]
  BY DEF Idle, CloseForm
<1>2. CallOK' /\ \A c \in Callers : call'[c].pc = "write" => call'[c] = call[c]
  BY <1>0, <1>1, IdleType, CallSet
<1>3. RestOK' /\ PassOK'
  BY <1>0 DEF CloseForm, RestOK, PassOK
<1>4. Shapes'
  BY <1>0, <1>2, QuietStep DEF CloseForm
<1> QED BY <1>2, <1>3, <1>4, Collect

LEMMA EnableDisableSteps ==
  ASSUME IInv, NEW r \in Requests, NEW s \in Schedules, NEW op \in {"enable", "disable"},
         PostScheduleEnableDisable(r, s, op)
  PROVE  IInv'
<1>0. r \in Callers /\ CallOK /\ PassOK /\ RestOK /\ Shapes
  BY TypeParts DEF IInv, Shapes, Callers
<1> PICK v : v = Calling(s, op, docs[s])
  OBVIOUS
<1>1. v \in CallState /\ v.sch \in Schedules /\ v.pc = "enter"
  BY <1>0, CallingType DEF RestOK
<1>2. call' = [call EXCEPT ![r] = v]
  BY DEF PostScheduleEnableDisable
<1>3. CallOK' /\ \A c \in Callers : call'[c].pc = "write" => call'[c] = call[c]
  BY <1>0, <1>1, <1>2, CallSet
<1>4. RestOK'
  BY <1>0, SpendType DEF PostScheduleEnableDisable, RestOK
<1>5. PassOK'
  BY <1>0 DEF PostScheduleEnableDisable, PassOK
<1>6. Shapes'
  BY <1>0, <1>3, QuietStep DEF PostScheduleEnableDisable
<1> QED BY <1>3, <1>4, <1>5, <1>6, Collect

LEMMA PatchSteps ==
  ASSUME IInv, NEW s \in Schedules, Patch(s) \/ Delete(s)
  PROVE  IInv'
<1>0. CallOK /\ PassOK /\ RestOK /\ Shapes
  BY TypeParts DEF IInv, Shapes
<1>1. UNCHANGED <<entries, nextId, mu, call, pass>>
  BY DEF Patch, Delete
<1>2. spent' \in [{"request", "fail", "restart"} -> Nat]
  BY <1>0, SpendType DEF Patch, Delete
<1>3. /\ docs' \in [Schedules -> Document] /\ loose' \subseteq Schedules
      /\ \A t \in Schedules \ loose' :
           docs'[t].life = "here" => t \notin loose /\ docs'[t] = docs[t]
  <2>1. CASE Patch(s)
    <3> PICK on \in BOOLEAN, k \in Crons \cup {BadCron}, e \in {docs[s].entry, ZeroEntry} :
          docs' = [docs EXCEPT ![s].enabled = on, ![s].cron = k, ![s].entry = e]
      BY <2>1 DEF Patch
    <3>1. docs[s] \in Document /\ e \in Int
      BY <1>0 DEF RestOK, Document, ZeroEntry
    <3> PICK d : d = [docs[s] EXCEPT !.enabled = on, !.cron = k, !.entry = e]
      OBVIOUS
    <3>2. d \in Document
      BY <3>1, PatchType
    <3>3. docs' = [docs EXCEPT ![s] = d]
      BY <1>0 DEF RestOK
    <3>4. loose' = loose \cup {s}
      BY <2>1 DEF Patch
    <3> QED BY <3>2, <3>3, <3>4, <1>0 DEF RestOK
  <2>2. CASE Delete(s)
    <3> PICK d : d = [docs[s] EXCEPT !.life = "gone"]
      OBVIOUS
    <3>1. docs[s] \in Document
      BY <1>0 DEF RestOK
    <3>2. d \in Document /\ d.life = "gone"
      BY <3>1, DeleteType
    <3>3. docs' = [docs EXCEPT ![s] = d] /\ loose' = loose
      BY <2>2, <1>0 DEF Delete, RestOK
    <3> QED BY <3>2, <3>3, <1>0 DEF RestOK
  <2> QED BY <2>1, <2>2
<1>4. CallOK' /\ PassOK' /\ RestOK'
  BY <1>0, <1>1, <1>2, <1>3 DEF CallOK, PassOK, RestOK
<1>5. Shapes'
  BY <1>0, <1>1, <1>3, WriteStep
<1> QED BY <1>4, <1>5, Collect

-----------------------------------------------------------------------------
(* The steps of Enable and Disable.                                        *)

LEMMA EnableRefusedSteps ==
  ASSUME IInv, NEW c \in Callers, EnableRefused(c)
  PROVE  IInv'
<1>0. CallOK /\ PassOK /\ RestOK /\ Shapes
  BY TypeParts DEF IInv, Shapes
<1>1. call[c].pc # "idle" /\ Return(c, FALSE) /\ FALSE \in BOOLEAN
  BY DEF EnableRefused
<1>2. /\ CallOK' /\ PassOK' /\ call'[c].pc # "write"
      /\ \A k \in Callers : k # c => call'[k] = call[k]
  BY <1>0, <1>1, ReturnType
<1>3. RestOK'
  BY <1>0 DEF EnableRefused, RestOK
<1>4. Shapes'
  BY <1>0, <1>2, QuietStep DEF EnableRefused
<1> QED BY <1>2, <1>3, <1>4, Collect

(* The new entry has an id that no document and no caller names.           *)
LEMMA EnableAddSteps ==
  ASSUME IInv, NEW c \in Callers, EnableAdd(c)
  PROVE  IInv'
<1>0. CallOK /\ PassOK /\ RestOK /\ Shapes
  BY TypeParts DEF IInv, Shapes
<1>a. PICK v : v = [call[c] EXCEPT !.pc = "write", !.entry = nextId]
  OBVIOUS
<1>1. /\ v \in CallState /\ v.pc = "write" /\ v.entry = nextId
      /\ v.sch = call[c].sch /\ v.doc = call[c].doc /\ v.sch \in Schedules
  <2>1. call[c] \in CallState /\ nextId \in Int /\ call[c].sch \in Schedules
    BY <1>0 DEF CallOK, RestOK, EnableAdd
  <2>2. /\ v \in CallState /\ v.pc = "write" /\ v.entry = nextId
        /\ v.sch = call[c].sch /\ v.doc = call[c].doc
    BY <2>1, <1>a, AddedType
  <2> QED BY <2>1, <2>2
<1>2. call' = [call EXCEPT ![c] = v]
  BY <1>0, <1>a DEF EnableAdd, CallOK
<1>3. CallOK' /\ call'[c] = v /\ \A k \in Callers : k # c => call'[k] = call[k]
  BY <1>0, <1>1, <1>2, CallSet
<1>4. /\ nextId \in Nat \ {0} /\ nextId' = nextId + 1
      /\ DOMAIN entries' = DOMAIN entries \cup {nextId}
      /\ nextId \notin DOMAIN entries
      /\ \A i \in DOMAIN entries : entries'[i] = entries[i]
      /\ entries'[nextId] = [sch |-> call[c].sch, cron |-> call[c].doc.cron]
  BY <1>0 DEF EnableAdd, RestOK
<1>5. docs' = docs /\ loose' = loose /\ pass' = pass /\ spent' = spent /\ mu' = c
  BY DEF EnableAdd
<1>6. RestOK' /\ PassOK'
  BY <1>0, <1>4, <1>5 DEF RestOK, PassOK
<1>7. docs \in [Schedules -> Document] /\ \A s \in Schedules : docs[s].entry \in Int
  BY <1>0 DEF RestOK, Document
<1>8. TightEntry'
  BY <1>0, <1>4, <1>5, <1>7 DEF Shapes, TightEntry
<1>9. \A k \in Callers : call[k].entry \in Int
  BY <1>0 DEF CallOK, CallState
<1>10. AddedEntry'
  <2> SUFFICES ASSUME NEW k \in Callers, call'[k].pc = "write"
               PROVE  /\ call'[k].entry < nextId'
                      /\ call'[k].entry \in DOMAIN entries'
                           => entries'[call'[k].entry]
                                = [sch |-> call'[k].sch, cron |-> call'[k].doc.cron]
    BY DEF AddedEntry
  <2>1. CASE k = c
    BY <2>1, <1>1, <1>3, <1>4
  <2>2. CASE k # c
    BY <2>2, <1>0, <1>3, <1>4, <1>9 DEF Shapes, AddedEntry
  <2> QED BY <2>1, <2>2
<1>11. OwnEntry'
  BY <1>0, <1>4, <1>5, <1>7 DEF Shapes, OwnEntry, TightEntry
<1> QED BY <1>3, <1>6, <1>8, <1>10, <1>11, Collect DEF Shapes

(* The document gets the entry that was added for it.                      *)
LEMMA EnableWriteSteps ==
  ASSUME IInv, NEW c \in Callers, EnableWrite(c)
  PROVE  IInv'
<1>0. CallOK /\ PassOK /\ RestOK /\ Shapes
  BY TypeParts DEF IInv, Shapes
<1>a. PICK s, d : s = call[c].sch /\ d = EnabledDoc(c)
  OBVIOUS
<1>1. /\ call[c].pc = "write" /\ Return(c, TRUE) /\ ReplaceById(s, d)
      /\ loose' = loose \ {s} /\ mu' = NoOne
      /\ UNCHANGED <<entries, nextId, spent>>
  BY <1>a DEF EnableWrite
<1>2. call[c].sch \in Schedules /\ call[c].doc \in Document /\ call[c].entry \in Int
  BY <1>0, <1>1 DEF CallOK, CallState
<1>3. d \in Document /\ d.entry = call[c].entry /\ d.cron = call[c].doc.cron
  <2>1. TRUE \in BOOLEAN
    OBVIOUS
  <2> QED BY <2>1, <1>a, <1>2, ServiceType DEF EnabledDoc
<1>4. /\ CallOK' /\ PassOK' /\ call'[c].pc # "write"
      /\ \A k \in Callers : k # c => call'[k] = call[k]
  <2>1. TRUE \in BOOLEAN /\ call[c].pc # "idle"
    BY <1>1
  <2> QED BY <2>1, <1>0, <1>1, ReturnType
<1>5. docs' = IF docs[s].life = "here" THEN [docs EXCEPT ![s] = d] ELSE docs
  BY <1>1 DEF ReplaceById
<1>6. docs' \in [Schedules -> Document]
  BY <1>0, <1>3, <1>5 DEF RestOK
<1>7. RestOK'
  BY <1>0, <1>1, <1>6 DEF RestOK
<1>8. \A t \in Schedules \ loose' : docs'[t].life = "here" =>
        \/ t = s /\ docs'[t] = d
        \/ t # s /\ t \notin loose /\ docs'[t] = docs[t]
  BY <1>0, <1>1, <1>2, <1>a, <1>5 DEF RestOK
<1>9. /\ d.entry < nextId
      /\ d.entry \in DOMAIN entries => entries[d.entry] = [sch |-> s, cron |-> d.cron]
  BY <1>0, <1>1, <1>3, <1>a DEF Shapes, AddedEntry
<1>10. TightEntry'
  BY <1>0, <1>1, <1>8, <1>9 DEF Shapes, TightEntry
<1>11. AddedEntry'
  BY <1>0, <1>1, <1>4 DEF Shapes, AddedEntry
<1>12. OwnEntry'
  BY <1>0, <1>1, <1>8, <1>9 DEF Shapes, OwnEntry
<1> QED BY <1>4, <1>7, <1>10, <1>11, <1>12, Collect DEF Shapes

LEMMA FailSteps ==
  ASSUME IInv, NEW c \in Callers, EnableWriteFails(c) \/ DisableWriteFails(c)
  PROVE  IInv'
<1>0. CallOK /\ PassOK /\ RestOK /\ Shapes
  BY TypeParts DEF IInv, Shapes
<1>1. /\ call[c].pc # "idle" /\ Return(c, FALSE) /\ FALSE \in BOOLEAN
      /\ UNCHANGED <<docs, entries, nextId, loose>> /\ (mu' = NoOne \/ mu' = mu)
      /\ Spend("fail", MaxFails)
  BY DEF EnableWriteFails, DisableWriteFails
<1>2. /\ CallOK' /\ PassOK' /\ call'[c].pc # "write"
      /\ \A k \in Callers : k # c => call'[k] = call[k]
  BY <1>0, <1>1, ReturnType
<1>3. RestOK'
  BY <1>0, <1>1, SpendType DEF RestOK
<1>4. Shapes'
  BY <1>0, <1>1, <1>2, QuietStep
<1> QED BY <1>2, <1>3, <1>4, Collect

LEMMA DisableWriteSteps ==
  ASSUME IInv, NEW c \in Callers, DisableWrite(c)
  PROVE  IInv'
<1>0. CallOK /\ PassOK /\ RestOK /\ Shapes
  BY TypeParts DEF IInv, Shapes
<1>a. PICK s, d : s = call[c].sch /\ d = [call[c].doc EXCEPT !.enabled = FALSE, !.entry = NoEntry]
  OBVIOUS
<1>b. PICK v : v = [call[c] EXCEPT !.pc = "remove"]
  OBVIOUS
<1>1. /\ call[c].pc = "enter" /\ ReplaceById(s, d)
      /\ loose' = loose \ {s} /\ mu' = c
      /\ UNCHANGED <<entries, nextId, pass, spent>>
  BY <1>a DEF DisableWrite
<1>2. call[c].sch \in Schedules /\ call[c].doc \in Document
  BY <1>0, <1>1 DEF CallOK, CallState
<1>3. d \in Document /\ d.entry = NoEntry
  <2>1. FALSE \in BOOLEAN /\ NoEntry \in Int
    BY DEF NoEntry
  <2> QED BY <2>1, <1>a, <1>2, ServiceType
<1>4. v \in CallState /\ v.pc = "remove" /\ v.sch \in Schedules /\ call' = [call EXCEPT ![c] = v]
  BY <1>0, <1>b, <1>2 DEF CallOK, CallState, DisableWrite
<1>5. CallOK' /\ \A k \in Callers : call'[k].pc = "write" => call'[k] = call[k]
  BY <1>0, <1>4, CallSet
<1>6. docs' = IF docs[s].life = "here" THEN [docs EXCEPT ![s] = d] ELSE docs
  BY <1>1 DEF ReplaceById
<1>7. RestOK' /\ PassOK'
  BY <1>0, <1>1, <1>3, <1>6 DEF RestOK, PassOK
<1>8. \A t \in Schedules \ loose' :
        docs'[t].life = "here" =>
          \/ t \notin loose /\ docs'[t] = docs[t]
          \/ docs'[t].entry \in {NoEntry, ZeroEntry}
  BY <1>0, <1>1, <1>2, <1>3, <1>a, <1>6 DEF RestOK
<1>9. Shapes'
  BY <1>0, <1>1, <1>5, <1>8, WriteStep
<1> QED BY <1>5, <1>7, <1>9, Collect

LEMMA DisableRemoveSteps ==
  ASSUME IInv, NEW c \in Callers, DisableRemove(c)
  PROVE  IInv'
<1>0. CallOK /\ PassOK /\ RestOK /\ Shapes
  BY TypeParts DEF IInv, Shapes
<1>1. /\ call[c].pc # "idle" /\ Return(c, TRUE) /\ TRUE \in BOOLEAN /\ mu' = NoOne
      /\ UNCHANGED <<docs, nextId, loose, spent>>
      /\ entries' = Without({call[c].doc.entry})
  BY DEF DisableRemove
<1>2. /\ CallOK' /\ PassOK' /\ call'[c].pc # "write"
      /\ \A k \in Callers : k # c => call'[k] = call[k]
  BY <1>0, <1>1, ReturnType
<1>3. DOMAIN entries' \subseteq DOMAIN entries /\ \A i \in DOMAIN entries' : entries'[i] = entries[i]
  BY <1>1, WithoutShrinks
<1>4. RestOK'
  BY <1>0, <1>1, <1>3 DEF RestOK
<1>5. Shapes'
  BY <1>0, <1>1, <1>2, <1>3, QuietStep
<1> QED BY <1>2, <1>4, <1>5, Collect

-----------------------------------------------------------------------------
(* Init, update and the jobs.                                              *)

(* After a restart nothing is known about any document.                    *)
LEMMA RestartSteps ==
  ASSUME IInv, Restart
  PROVE  IInv'
<1>0. CallOK /\ PassOK /\ RestOK /\ Shapes
  BY TypeParts DEF IInv, Shapes
<1>1. \A c \in Callers : call'[c] = IF call[c].pc = "form" THEN call[c] ELSE Idle
  BY DEF Restart
<1>2. Idle.pc = "idle" /\ Idle \in CallState
  BY IdleType DEF Idle
<1>3. call' \in [Callers -> CallState]
  BY <1>0, <1>1, <1>2 DEF CallOK, Restart
<1>4. CallOK' /\ \A c \in Callers : call'[c].pc # "write"
  BY <1>0, <1>1, <1>2, <1>3 DEF CallOK
<1>5. PassOK'
  <2>1. Fetched \subseteq Copy
    BY <1>0, FetchedType DEF RestOK
  <2> QED BY <2>1, ScheduleAssumption DEF Restart, PassOK
<1>6. spent' \in [{"request", "fail", "restart"} -> Nat]
  BY <1>0, SpendType DEF Restart
<1>7. docs' = docs /\ entries' = <<>> /\ nextId' = 1 /\ mu' = NoOne /\ loose' = Schedules
  BY DEF Restart
<1>8. RestOK'
  BY <1>0, <1>6, <1>7 DEF RestOK
<1>9. Shapes'
  BY <1>4, <1>7 DEF Shapes, TightEntry, AddedEntry, OwnEntry
<1> QED BY <1>4, <1>5, <1>8, <1>9, Collect

LEMMA InitNextSteps ==
  ASSUME IInv, InitNext
  PROVE  IInv'
<1>0. Updater \in Callers /\ CallOK /\ PassOK /\ RestOK /\ Shapes
  BY TypeParts DEF IInv, Shapes, Callers
<1>a. PICK x \in pass.todo :
        /\ pass' = [pass EXCEPT !.todo = @ \ {x}]
        /\ call' = [call EXCEPT ![Updater] =
                      Calling(x.sch, IF x.doc.cron \in Crons THEN "enable" ELSE "disable", x.doc)]
  BY DEF InitNext
<1>b. PICK op : op = IF x.doc.cron \in Crons THEN "enable" ELSE "disable"
  OBVIOUS
<1>c. PICK v : v = Calling(x.sch, op, x.doc)
  OBVIOUS
<1>1. x.sch \in Schedules /\ x.doc \in Document
  BY <1>0 DEF PassOK, Copy
<1>2. op \in {"none", "enable", "disable"}
  BY <1>b
<1>3. v \in CallState /\ v.sch \in Schedules /\ v.pc = "enter"
  BY <1>1, <1>2, <1>c, CallingType
<1>4. call' = [call EXCEPT ![Updater] = v]
  BY <1>a, <1>b, <1>c
<1>5. CallOK' /\ \A k \in Callers : call'[k].pc = "write" => call'[k] = call[k]
  BY <1>0, <1>3, <1>4, CallSet
<1>6. PassOK'
  BY <1>0, <1>a DEF PassOK
<1>7. RestOK'
  BY <1>0 DEF InitNext, RestOK
<1>8. Shapes'
  BY <1>0, <1>5, QuietStep DEF InitNext
<1> QED BY <1>5, <1>6, <1>7, <1>8, Collect

LEMMA UpdateNextSteps ==
  ASSUME IInv, UpdateNext
  PROVE  IInv'
<1>0. Updater \in Callers /\ CallOK /\ PassOK /\ RestOK /\ Shapes
  BY TypeParts DEF IInv, Shapes, Callers
<1>a. PICK x \in pass.todo :
        IF x.doc.entry \in DOMAIN pass.found
          THEN /\ pass' = [pass EXCEPT !.todo = @ \ {x}, !.found[x.doc.entry] = TRUE]
               /\ UNCHANGED call
          ELSE /\ pass' = [pass EXCEPT !.todo = @ \ {x}, !.tries = 1]
               /\ call' = [call EXCEPT ![Updater] = Calling(x.sch, "enable", x.doc)]
  BY DEF UpdateNext
<1>1. x.sch \in Schedules /\ x.doc \in Document
  BY <1>0 DEF PassOK, Copy
<1>2. /\ CallOK' /\ PassOK'
      /\ \A k \in Callers : call'[k].pc = "write" => call'[k] = call[k]
  <2>1. CASE x.doc.entry \in DOMAIN pass.found
    BY <2>1, <1>0, <1>a DEF CallOK, PassOK
  <2>2. CASE x.doc.entry \notin DOMAIN pass.found
    <3>1. PICK v : v = Calling(x.sch, "enable", x.doc)
      OBVIOUS
    <3>2. v \in CallState /\ v.sch \in Schedules /\ v.pc = "enter"
      BY <1>1, <3>1, CallingType
    <3>3. call' = [call EXCEPT ![Updater] = v]
      BY <2>2, <1>a, <3>1
    <3>4. pass' = [pass EXCEPT !.todo = @ \ {x}, !.tries = 1] /\ 1 \in 0 .. MaxRetries
      BY <2>2, <1>a, ScheduleAssumption
    <3>5. PassOK'
      BY <3>4, <1>0 DEF PassOK
    <3> QED BY <3>2, <3>3, <3>5, <1>0, CallSet
  <2> QED BY <2>1, <2>2
<1>3. RestOK'
  BY <1>0 DEF UpdateNext, RestOK
<1>4. Shapes'
  BY <1>0, <1>2, QuietStep DEF UpdateNext
<1> QED BY <1>2, <1>3, <1>4, Collect

LEMMA PassSteps ==
  ASSUME IInv, InitDone \/ UpdateFetch \/ UpdateEntryIds
  PROVE  IInv'
<1>0. CallOK /\ PassOK /\ RestOK /\ Shapes
  BY TypeParts DEF IInv, Shapes
<1>1. UNCHANGED <<docs, entries, nextId, mu, call, loose, spent>>
  BY DEF InitDone, UpdateFetch, UpdateEntryIds
<1>2. CallOK' /\ RestOK'
  BY <1>0, <1>1 DEF CallOK, RestOK
<1>3. PassOK'
  <2>1. CASE InitDone
    BY <2>1, <1>0 DEF InitDone, PassOK
  <2>2. CASE UpdateFetch
    <3>1. Fetched \subseteq Copy
      BY <1>0, FetchedType DEF RestOK
    <3> QED BY <2>2, <3>1, <1>0 DEF UpdateFetch, PassOK
  <2>3. CASE UpdateEntryIds
    BY <2>3, <1>0 DEF UpdateEntryIds, PassOK
  <2> QED BY <2>1, <2>2, <2>3
<1>4. Shapes'
  BY <1>0, <1>1, QuietStep
<1> QED BY <1>2, <1>3, <1>4, Collect

(* Removing entries, by the pass or by the goroutine of a job.             *)
LEMMA RemoveSteps ==
  ASSUME IInv, UpdateRemove \/ \E i \in cleanups : JobRemove(i)
  PROVE  IInv'
<1>0. CallOK /\ PassOK /\ RestOK /\ Shapes
  BY TypeParts DEF IInv, Shapes
<1>1. UNCHANGED <<docs, nextId, mu, call, loose, spent>>
  BY DEF UpdateRemove, JobRemove
<1>2. PassOK'
  <2>1. CASE UpdateRemove
    BY <2>1, ScheduleAssumption DEF UpdateRemove, PassOK
  <2>2. CASE \E i \in cleanups : JobRemove(i)
    BY <2>2, <1>0 DEF JobRemove, PassOK
  <2> QED BY <2>1, <2>2
<1>3. PICK ids : entries' = Without(ids)
  BY DEF UpdateRemove, JobRemove
<1>4. DOMAIN entries' \subseteq DOMAIN entries /\ \A i \in DOMAIN entries' : entries'[i] = entries[i]
  BY <1>3, WithoutShrinks
<1>5. CallOK' /\ RestOK'
  BY <1>0, <1>1, <1>4 DEF CallOK, RestOK
<1>6. Shapes'
  BY <1>0, <1>1, <1>4, QuietStep
<1> QED BY <1>2, <1>5, <1>6, Collect

LEMMA JobSteps ==
  ASSUME IInv, NEW i \in DOMAIN entries, JobOfDisabled(i)
  PROVE  IInv'
<1>0. CallOK /\ PassOK /\ RestOK /\ Shapes
  BY TypeParts DEF IInv, Shapes
<1>1. UNCHANGED <<docs, entries, nextId, mu, call, pass, loose, spent>>
  BY DEF JobOfDisabled
<1>2. CallOK' /\ PassOK' /\ RestOK'
  BY <1>0, <1>1 DEF CallOK, PassOK, RestOK
<1>3. Shapes'
  BY <1>0, <1>1, QuietStep
<1> QED BY <1>2, <1>3, Collect

-----------------------------------------------------------------------------
LEMMA InitHolds == Init => IInv
<1> SUFFICES ASSUME Init PROVE IInv
  OBVIOUS
<1>1. docs \in [Schedules -> Document]
  BY StoredType, ScheduleAssumption DEF Init
<1>2. Idle.pc = "idle" /\ \A c \in Callers : call[c] = Idle
  BY DEF Init, Idle
<1>3. CallOK
  BY <1>2, IdleType DEF Init, CallOK
<1>4. PassOK
  <2>1. Fetched \subseteq Copy
    BY <1>1, FetchedType
  <2>2. pass = [pc |-> "boot", todo |-> Fetched, found |-> <<>>, tries |-> 0]
    BY DEF Init
  <2>3. 0 \in 0 .. MaxRetries
    BY ScheduleAssumption
  <2> QED BY <2>1, <2>2, <2>3 DEF PassOK
<1>5. RestOK
  BY <1>1 DEF Init, RestOK
<1>6. Shapes
  BY <1>2 DEF Init, Shapes, TightEntry, AddedEntry, OwnEntry
<1> QED BY <1>3, <1>4, <1>5, <1>6, TypeParts DEF IInv, Shapes

LEMMA NextHolds == IInv /\ [Next]_vars => IInv'
<1> SUFFICES ASSUME IInv, [Next]_vars PROVE IInv'
  OBVIOUS
<1>1. ASSUME NEW r \in Requests, NEW s \in Schedules,
             \/ PostSchedule(r, s) \/ GetScheduleById(r, s)
             \/ \E op \in {"enable", "disable"} : PostScheduleEnableDisable(r, s, op)
      PROVE  IInv'
  BY <1>1, PostSteps, GetSteps, EnableDisableSteps
<1>2. ASSUME NEW r \in Requests, PutScheduleById(r) \/ CloseForm(r)
      PROVE  IInv'
  BY <1>2, PutSteps, CloseSteps
<1>3. ASSUME NEW s \in Schedules, Patch(s) \/ Delete(s)
      PROVE  IInv'
  BY <1>3, PatchSteps
<1>4. ASSUME NEW c \in Callers, Serve(c) \/ EnableWriteFails(c) \/ DisableWriteFails(c)
      PROVE  IInv'
  BY <1>4, EnableRefusedSteps, EnableAddSteps, EnableWriteSteps, DisableWriteSteps,
     DisableRemoveSteps, FailSteps DEF Serve
<1>5. CASE Restart
  BY <1>5, RestartSteps
<1>6. CASE Updates
  BY <1>6, InitNextSteps, PassSteps, UpdateNextSteps, RemoveSteps DEF Updates
<1>7. ASSUME NEW i \in DOMAIN entries, JobOfDisabled(i)
      PROVE  IInv'
  BY <1>7, JobSteps
<1>8. CASE \E i \in cleanups : JobRemove(i)
  BY <1>8, RemoveSteps
<1>9. CASE UNCHANGED vars
  BY <1>9 DEF vars, IInv, TypeOK, TightEntry, AddedEntry, OwnEntry
<1> QED BY <1>1, <1>2, <1>3, <1>4, <1>5, <1>6, <1>7, <1>8, <1>9 DEF Next

(* The inductive invariant holds in every state.                           *)
LEMMA Invariance == Spec => []IInv
  BY InitHolds, NextHolds, PTL DEF Spec

(* The variables keep their types: in particular no id is given out twice  *)
(* between two restarts of the master.                                     *)
THEOREM TypeCorrect == Spec => []TypeOK
<1>1. IInv => TypeOK
  BY DEF IInv
<1> QED BY <1>1, Invariance, PTL

(* The entry the document of a schedule names, as the service wrote it, is *)
(* that schedule's with that cron expression, or is not in the table.      *)
THEOREM EntriesOwned == Spec => []OwnEntry
<1>1. IInv => OwnEntry
  BY DEF IInv
<1> QED BY <1>1, Invariance, PTL
=============================================================================
