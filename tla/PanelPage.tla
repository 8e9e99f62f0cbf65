----------------------------- MODULE PanelPage -----------------------------
(***************************************************************************)
(* One panel of a detail page (a tab, a group of actions, a dialog) of the *)
(* web client: it loads what the hub says of the document of the route,    *)
(* asks again by a timer, and runs operations that load again when they    *)
(* are done.  Answers arrive in any order, also when the panel is gone or  *)
(* the route names another document.  What the hub says of a document is   *)
(* its version.  Panels lists the panels and what tells them apart.        *)
(***************************************************************************)
EXTENDS Integers, Bags, Panels

CONSTANTS
  Docs,        \* the documents
  None,        \* no document
  Views,       \* the panels that are checked
  MaxVersion,  \* bound: changes of a document
  MaxSteps,    \* bound: steps of the user
  MaxInFlight, \* bound: requests under way
  MaxFaults    \* bound: failed requests

ASSUME NoneAssumption == None \notin Docs
ASSUME ViewsAssumption == Views \subseteq AllPanels
ASSUME BoundsAssumption == MaxVersion \in Nat /\ MaxSteps \in Nat /\ MaxInFlight \in Nat /\ MaxFaults \in Nat

VARIABLES
  view,     \* the panel
  hub,      \* version of each document at the hub
  finished, \* documents whose run, clone or installation is over
  id,       \* the document of the route while the panel is mounted, or None
  n,        \* how many times the panel was mounted or opened
  reach,    \* versions of the documents at the end of the time window the panel asks for
  shown,    \* the document and version the panel shows, or None
  timers,   \* intervals that run, by the mounting they belong to
  handle,   \* the variable that holds the last interval; 0: none
  loading,  \* spinner of the load
  busy,     \* spinners of the operations that are on
  requests, \* bag of requests under way
  steps, faults

hubVars == <<hub, finished>>
vars == <<view, reach, hubVars, id, n, shown, timers, handle, loading, busy, requests, steps, faults>>

Step == steps < MaxSteps /\ steps' = steps + 1
Fault == faults < MaxFaults /\ faults' = faults + 1
Polls == view.poll = "atOnce" /\ ~view.stops

\* by: what waits for the answer; o: the operation it is part of.
NoOperation == Silent("none")
Request(op, d, k, by, o) ==
  [op |-> op, id |-> d, n |-> k, by |-> by, o |-> o, st |-> "sent", v |-> 0, fin |-> FALSE]
\* Start and end of a time window are parameters of the request.
Load(d, k, by, until) ==
  [Request("load", d, k, by, NoOperation) EXCEPT !.v = IF d = None THEN 0 ELSE until[d]]
Reload(r) == Request("load", IF id = None THEN r.id ELSE id, r.n, "operation", r.o)
One(r) == SetToBag({r})
Send(r) ==
  /\ BagCardinality(requests) < MaxInFlight
  /\ requests' = requests (+) One(r)
Done(r) == requests' = requests (-) One(r)
Become(r, s) == requests' = (requests (-) One(r)) (+) One(s)

Init ==
  /\ view \in Views
  /\ hub = [d \in Docs |-> 0]
  /\ finished = {}
  /\ id = None
  /\ n = 0
  /\ reach = [d \in Docs |-> 0]
  /\ shown = None
  /\ timers = {}
  /\ handle = 0
  /\ loading = FALSE
  /\ busy = {}
  /\ requests = EmptyBag
  /\ steps = 0
  /\ faults = 0

-----------------------------------------------------------------------------
(* The user *)

\* onBeforeMount and onMounted; a dialog keeps its variables between openings.  The window
\* of a panel that has one ends now.
Enter(d) ==
  /\ id = None
  /\ Step
  /\ id' = d
  /\ n' = n + 1
  /\ reach' = IF view.window THEN hub ELSE reach
  /\ timers' = IF view.poll = "atOnce" THEN timers \cup {n + 1} ELSE timers
  /\ handle' = IF view.poll = "atOnce" THEN n + 1 ELSE IF view.dialog THEN handle ELSE 0
  /\ IF view.loads
     THEN Send(Load(d, n + 1, "mount", reach')) /\ loading' = view.spins
     ELSE UNCHANGED <<requests, loading>>
  /\ UNCHANGED <<view, hubVars, shown, busy, faults>>

\* The route names another document; the panel stays mounted.
Select(d) ==
  /\ id \notin {None, d}
  /\ ~view.dialog
  /\ Step
  /\ id' = d
  /\ shown' = IF "select" \in view.forgets THEN None ELSE shown
  /\ IF view.follows
     THEN /\ Send(Load(d, n, "watch", reach))
          /\ loading' = (loading \/ view.spins)
     ELSE UNCHANGED <<requests, loading>>
  /\ UNCHANGED <<view, reach, hubVars, n, timers, handle, busy, faults>>

\* Variant for comparison: the interval is left running.
ClearedNever == timers

\* clearInterval in onBeforeUnmount, or when the dialog is closed.
Cleared == IF view.clears THEN timers \ {handle} ELSE timers

\* A setting of the panel, a page of its table or the branch changes.  A new time range
\* moves the window to now, other settings leave it where it is.
Ask ==
  /\ id # None
  /\ view.asks
  /\ Step
  /\ reach' \in {reach} \cup (IF view.window THEN {hub} ELSE {})
  /\ Send(Load(id, n, "watch", reach'))
  /\ loading' = (loading \/ view.spins)
  /\ UNCHANGED <<view, hubVars, id, n, shown, timers, handle, busy, faults>>

\* The panel is unmounted, or its dialog closed.
Close ==
  /\ id' = None
  /\ timers' = Cleared
  /\ shown' = IF "leave" \in view.forgets THEN None ELSE shown
  /\ loading' = (loading /\ view.dialog)

\* The spinners of the operations are in the store, or in a dialog, which is not unmounted
\* when it is closed.
SpinnersStay == view.shared \/ view.dialog

\* onBeforeUnmount; the spinners that belong to the component go with it.
Leave ==
  /\ id # None
  /\ Step
  /\ Close
  /\ busy' = IF SpinnersStay THEN busy ELSE {}
  /\ UNCHANGED <<view, reach, hubVars, n, handle, requests, faults>>

\* A button of the panel: the operation, with its spinner if it has one.
Operate(o) ==
  /\ id # None
  /\ o.once => o.flag \notin busy
  /\ Step
  /\ busy' = busy \cup ({o.flag} \ {NoFlag})
  /\ Send(Request("call", id, n, "operation", o))
  /\ UNCHANGED <<view, reach, hubVars, id, n, shown, timers, handle, loading, faults>>

\* The interval of mounting k asks for the document of the route of now.
Tick(k) ==
  /\ k \in timers
  /\ Send(Load(id, k, "tick", reach))
  /\ loading' = (loading \/ (view.spins /\ k = n /\ id # None))
  /\ UNCHANGED <<view, reach, hubVars, id, n, shown, timers, handle, busy, steps, faults>>

-----------------------------------------------------------------------------
(* The hub *)

\* A runner, a clone or another user changes a document.
Change(d) ==
  /\ hub[d] < MaxVersion
  /\ d \notin finished
  /\ hub' = [hub EXCEPT ![d] = @ + 1]
  /\ UNCHANGED <<view, reach, finished, id, n, shown, timers, handle, loading, busy, requests, steps, faults>>

Finish(d) ==
  /\ view.stops
  /\ d \notin finished
  /\ finished' = finished \cup {d}
  /\ UNCHANGED <<view, reach, hub, id, n, shown, timers, handle, loading, busy, requests, steps, faults>>

Hub(r) ==
  /\ r.st = "sent"
  /\ r.id # None
  /\ hub' = IF r.op = "call" /\ hub[r.id] < MaxVersion THEN [hub EXCEPT ![r.id] = @ + 1] ELSE hub
  /\ Become(r, [r EXCEPT !.st = "answered", !.v = IF view.window THEN @ ELSE hub[r.id],
                         !.fin = r.id \in finished])
  /\ UNCHANGED <<view, reach, finished, id, n, shown, timers, handle, loading, busy, steps, faults>>

-----------------------------------------------------------------------------
(* Answers *)

Mounted(r) == id # None /\ r.n = n

\* Whether the timer of a panel is set once its first answer is there.
SetsTimer(r) == r.by = "mount" /\ view.poll = "awaited" /\ ~(view.stops /\ r.fin)

\* The answer stops the interval the variable holds by now.
Stopped(r) == IF view.stops /\ r.by = "tick" /\ r.fin THEN {IF view.dialog THEN handle ELSE r.n} ELSE {}

\* Variant for comparison: the spinner of an operation is not ended with it.
UnflagNever(r) == UNCHANGED busy

\* The spinner of the operation that waited for r ends.
Unflag(r) ==
  busy' = IF SpinnersStay \/ Mounted(r) THEN busy \ {r.o.flag} ELSE busy

\* The spinner of the panel that waits for r.
Spins(r) == (view.dialog \/ Mounted(r)) /\ r.op = "load" /\ r.by # "operation"

\* Variant for comparison: a panel shows only the first answer.
ShowsOnce(r) == shown = None

\* A component shows what it gets while it is mounted; a store always does.
Shows(r) == (view.store \/ Mounted(r)) /\ r.o.reload # "elsewhere"

\* Whether the dialog closes with the answer to r, or with its failure: it
\* closes whichever opening of it is shown by now.
Last(r, ok) == r.op = "load" \/ (IF ok THEN r.o.reload = "none" ELSE r.o.reload # "always")
Closes(r, ok) ==
  \/ r.o.closes = "call" /\ r.op = "call" /\ ok
  \/ r.o.closes = "end" /\ Last(r, ok) /\ ok
  \/ r.o.closes = "always" /\ Last(r, ok)
Ends(r, ok) == IF Closes(r, ok) THEN Close ELSE UNCHANGED <<id, timers, shown, loading>>

\* A load is answered: its continuation runs whether or not the panel is there.
Arrives(r) ==
  /\ r.op = "load"
  /\ r.st = "answered"
  /\ ~Closes(r, TRUE)
  /\ shown' = IF Shows(r) THEN [id |-> r.id, v |-> r.v] ELSE shown
  /\ timers' = (IF SetsTimer(r) THEN timers \cup {r.n} ELSE timers) \ Stopped(r)
  /\ handle' = IF SetsTimer(r) /\ (view.dialog \/ r.n = n) THEN r.n ELSE handle
  /\ loading' = (loading /\ ~Spins(r))
  /\ Unflag(r)
  /\ Done(r)
  /\ UNCHANGED <<view, reach, hubVars, id, n, steps, faults>>

\* The load that ends an operation closes the dialog, which drops what it shows.
ArrivesLast(r) ==
  /\ r.op = "load"
  /\ r.st = "answered"
  /\ Closes(r, TRUE)
  /\ Ends(r, TRUE)
  /\ Unflag(r)
  /\ Done(r)
  /\ UNCHANGED <<view, reach, hubVars, n, handle, steps, faults>>

\* An operation is done: load again, or end its spinner.
OperationDone(r) ==
  /\ r.op = "call"
  /\ r.st = "answered"
  /\ IF r.o.reload = "none"
     THEN Done(r) /\ Unflag(r)
     ELSE Become(r, Reload(r)) /\ UNCHANGED busy
  /\ Ends(r, TRUE)
  /\ UNCHANGED <<view, reach, hubVars, n, handle, steps, faults>>

\* A request fails, or asks for no document.  A load awaited in a finally
\* block that fails leaves the block before the spinner is ended.
RequestFails(r) ==
  /\ (r.id = None /\ UNCHANGED faults) \/ Fault
  /\ IF r.op = "call" /\ r.o.reload = "always"
     THEN Become(r, Reload(r)) /\ UNCHANGED busy
     ELSE /\ Done(r)
          /\ IF r.o.reload = "always" THEN UNCHANGED busy ELSE Unflag(r)
  /\ IF Spins(r) THEN loading' = FALSE /\ UNCHANGED <<id, timers, shown>> ELSE Ends(r, FALSE)
  /\ UNCHANGED <<view, reach, hubVars, n, handle, steps>>

-----------------------------------------------------------------------------
Ticks == \E k \in timers : Tick(k)
HubActs == \E r \in BagToSet(requests) : Hub(r)
Answers == \E r \in BagToSet(requests) : Arrives(r) \/ ArrivesLast(r) \/ OperationDone(r)
User == Leave \/ Ask \/ (\E d \in Docs : Enter(d) \/ Select(d)) \/ \E o \in view.ops : Operate(o)

Next ==
  \/ User
  \/ Ticks
  \/ HubActs
  \/ Answers
  \/ \E d \in Docs : Change(d) \/ Finish(d)
  \/ \E r \in BagToSet(requests) : RequestFails(r)

\* The browser runs its timers and the hub answers what reaches it.
Fairness == WF_vars(Ticks) /\ WF_vars(HubActs) /\ WF_vars(Answers)
Spec == Init /\ [][Next]_vars /\ Fairness
-----------------------------------------------------------------------------
\* Type invariant: a panel shows a document, its intervals belong to its mountings and the
\* requests under way to its operations.
TypeOK ==
  /\ view \in Views
  /\ hub \in [Docs -> 0..MaxVersion]
  /\ finished \subseteq Docs
  /\ id \in Docs \cup {None}
  /\ n \in 0..MaxSteps
  /\ reach \in [Docs -> 0..MaxVersion]
  /\ shown \in {None} \cup [id : Docs, v : 0..MaxVersion]
  /\ timers \subseteq 1..n
  /\ handle \in 0..n
  /\ loading \in BOOLEAN
  /\ busy \subseteq {o.flag : o \in view.ops}
  /\ \A r \in BagToSet(requests) :
       r \in [op : {"load", "call"}, id : Docs \cup {None}, n : 1..n,
              by : {"mount", "watch", "tick", "operation"}, o : view.ops \cup {NoOperation},
              st : {"sent", "answered"}, v : 0..MaxVersion, fin : BOOLEAN]
  /\ steps \in 0..MaxSteps
  /\ faults \in 0..MaxFaults

\* A panel that starts its timer at once leaves none running behind: however
\* often it is opened, closed and answered late.
NoTimerLeft ==
  view.poll = "atOnce" /\ view.clears =>
    IF id = None THEN timers = {} ELSE timers \subseteq {n}

\* A spinner is on only while the request that ends it is under way, for the
\* panels that load nothing in a finally block.
SpinnersEnd ==
  LET under == BagToSet(requests)
  IN  /\ loading => \E r \in under : Spins(r)
      /\ \A f \in busy : (\A o \in view.ops : o.reload # "always") =>
           \E r \in under : r.o.flag = f

\* A panel that asks by a timer ends up showing the document of the route as the hub has
\* it, whichever answers of earlier documents arrive late.  The metrics of a node are the
\* exception: its timer asks for the window of the mount or of the last time range again,
\* so the panel ends up with what the hub had by then, and with nothing newer.
ShowsTheDocument ==
  \A d \in Docs :
    <>[](Polls /\ id = d) => <>[](shown = [id |-> d, v |-> IF view.window THEN reach[d] ELSE hub[d]])
=============================================================================
