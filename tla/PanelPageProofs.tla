--------------------------- MODULE PanelPageProofs ---------------------------
(***************************************************************************)
(* The safety properties of the panels for any number of documents,        *)
(* versions, mountings, requests under way and faults.                     *)
(*                                                                         *)
(* NoTimerLeft holds because the variable that onBeforeUnmount clears      *)
(* holds the interval of this mounting.  SpinnersEnd needs to know which   *)
(* request can end a spinner: one of this mounting, unless the spinner     *)
(* stays when the panel goes.                                              *)
(***************************************************************************)
EXTENDS PanelPage, TLAPS

(* What the panels have in common: only a dialog is closed by its operations. *)
Sane(p) ==
  /\ p.spins \in BOOLEAN
  /\ ~p.dialog => \A o \in p.ops : o.closes = "never"

LEMMA PanelsAreSane == \A p \in AllPanels : Sane(p)
<1> USE DEF Sane, Operation, Silent, Panel, Polling, Following, Buttons, Dialog
<1>1. /\ Sane(TaskDetailTabLogs) /\ Sane(TaskDetailActionsCommon)
      /\ Sane(TaskDetailActionsData) /\ Sane(MetricMonitoringDetail)
      /\ Sane(NodeDetailActionsCommon) /\ Sane(DatabaseDetailActionsCommon)
      /\ Sane(SpiderDetailTabDependencies) /\ Sane(SpiderDetailActionsData)
  BY DEF TaskDetailTabLogs, TaskDetailActionsCommon, TaskDetailActionsData,
     MetricMonitoringDetail, NodeDetailActionsCommon, DatabaseDetailActionsCommon,
     SpiderDetailTabDependencies, SpiderDetailActionsData
<1>2. /\ Sane(SpiderResultDataWithDatabase) /\ Sane(ResultList)
      /\ Sane(DetailTabList) /\ Sane(SpiderDetailTabSchedules)
      /\ Sane(ScheduleDetailTabTasks) /\ Sane(Home)
      /\ Sane(GitDetail) /\ Sane(GitOperations)
  BY DEF SpiderResultDataWithDatabase, ResultList, DetailTabList, SpiderDetailTabSchedules,
     ScheduleDetailTabTasks, Home, GitDetail, GitOperations
<1>3. /\ Sane(GitDetailActionsCommon) /\ Sane(GitDetailTabChanges)
      /\ Sane(GitDetailTabCommits) /\ Sane(GitDetailTabFiles)
      /\ Sane(GitFileDiffDialog) /\ Sane(CreateGitSpiderDialog)
      /\ Sane(GitCloneLogsDialog) /\ Sane(AutoProbeDetailTabTasks)
  BY DEF GitDetailActionsCommon, GitDetailTabChanges, GitDetailTabCommits,
     GitDetailTabFiles, GitFileDiffDialog, CreateGitSpiderDialog, GitCloneLogsDialog,
     AutoProbeDetailTabTasks
<1>4. /\ Sane(AutoProbeDetailTabPatterns) /\ Sane(AutoProbeResultsPreview)
      /\ Sane(DependencyLogsDialog) /\ Sane(NotificationChannelDetailActionsCommon)
      /\ Sane(NotificationSettingDetailTabChannels) /\ Sane(NotificationSettingDetailTabTemplate)
      /\ Sane(SystemDetailTabCustomize) /\ Sane(SystemDetailTabDependency)
  BY DEF AutoProbeDetailTabPatterns, AutoProbeResultsPreview, DependencyLogsDialog,
     NotificationChannelDetailActionsCommon, NotificationSettingDetailTabChannels,
     NotificationSettingDetailTabTemplate, SystemDetailTabCustomize,
     SystemDetailTabDependency
<1>5. /\ Sane(SystemDetailTabModels) /\ Sane(DependencyInstallDialog)
      /\ Sane(DependencyUninstallDialog) /\ Sane(DependencySetupDialog)
      /\ Sane(DependencyConfigDialog) /\ Sane(RunSpiderDialog)
      /\ Sane(CreateTaskDialog) /\ Sane(ResultDedupFieldsDialog)
  BY DEF SystemDetailTabModels, DependencyInstallDialog, DependencyUninstallDialog,
     DependencySetupDialog, DependencyConfigDialog, RunSpiderDialog, CreateTaskDialog,
     ResultDedupFieldsDialog
<1>6. /\ Sane(DatabaseOrmSettings) /\ Sane(TaskResultDataWithDatabase)
      /\ Sane(FileActions) /\ Sane(MyAccount)
  BY DEF DatabaseOrmSettings, TaskResultDataWithDatabase, FileActions, MyAccount
<1> QED
  BY <1>1, <1>2, <1>3, <1>4, <1>5, <1>6 DEF AllPanels

-----------------------------------------------------------------------------
(* The inductive invariant *)

(* The requests of the first k mountings of a panel with these operations. *)
RequestOK(r, k, operations) ==
  /\ r \in [op : {"load", "call"}, id : Docs \cup {None}, n : 1..k,
            by : {"mount", "watch", "tick", "operation"}, o : operations \cup {NoOperation},
            st : {"sent", "answered"}, v : 0..MaxVersion, fin : BOOLEAN]
  /\ r.st = "answered" => r.id # None
  /\ r.by # "operation" => r.op = "load" /\ r.o = NoOperation

Pending == BagToSet(requests)
Shown == {None} \cup [id : Docs, v : 0..MaxVersion]

StateOK ==
  /\ view \in Views
  /\ hub \in [Docs -> 0..MaxVersion]
  /\ finished \subseteq Docs
  /\ id \in Docs \cup {None}
  /\ reach \in [Docs -> 0..MaxVersion]
  /\ shown \in Shown

(* Every mounting is a step, and a panel that is there was mounted. *)
CountsOK ==
  /\ n \in Nat /\ n <= steps
  /\ steps \in 0..MaxSteps
  /\ faults \in 0..MaxFaults
  /\ id # None => n >= 1

(* The variable holds the interval of this mounting. *)
TimersOK ==
  /\ timers \subseteq 1..n
  /\ handle \in 0..n
  /\ NoTimerLeft
  /\ view.poll = "atOnce" /\ id # None => handle = n

RequestsOK ==
  /\ IsABag(requests)
  /\ \A r \in Pending : RequestOK(r, n, view.ops)

SpinnerOK ==
  /\ loading \in BOOLEAN
  /\ loading => \E r \in Pending : Spins(r)

(* A spinner waits for a request that can end it. *)
NoFinally == \A o \in view.ops : o.reload # "always"
CanEnd(r) == SpinnersStay \/ Mounted(r)
BusyOK ==
  /\ busy \subseteq {o.flag : o \in view.ops}
  /\ NoFinally => \A f \in busy : \E r \in Pending : r.o.flag = f /\ CanEnd(r)

Inv == StateOK /\ CountsOK /\ TimersOK /\ RequestsOK /\ SpinnerOK /\ BusyOK

-----------------------------------------------------------------------------
(* Bags: what is in them after a step *)

LEMMA OneBag == ASSUME NEW r PROVE BagToSet(One(r)) = {r} /\ IsABag(One(r))
BY DEF One, BagToSet, SetToBag, IsABag

LEMMA SumBag ==
  ASSUME NEW A, NEW B
  PROVE  /\ BagToSet(A (+) B) = BagToSet(A) \cup BagToSet(B)
         /\ IsABag(A) /\ IsABag(B) => IsABag(A (+) B)
<1>1. BagToSet(A (+) B) = BagToSet(A) \cup BagToSet(B)
  BY DEF BagToSet, (+)
<1>2. ASSUME IsABag(A), IsABag(B) PROVE IsABag(A (+) B)
  BY <1>2 DEF IsABag, (+)
<1> QED
  BY <1>1, <1>2

LEMMA DifferenceBag ==
  ASSUME NEW A, NEW r, IsABag(A)
  PROVE  /\ IsABag(A (-) One(r))
         /\ BagToSet(A (-) One(r)) \subseteq BagToSet(A)
         /\ BagToSet(A) \ {r} \subseteq BagToSet(A (-) One(r))
<1>1. BagToSet(A (-) One(r)) \subseteq BagToSet(A)
  BY DEF BagToSet, (-)
<1>2. IsABag(A (-) One(r))
  BY DEF IsABag, (-), One, SetToBag
<1>3. BagToSet(A) \ {r} \subseteq BagToSet(A (-) One(r))
  BY DEF IsABag, BagToSet, (-), One, SetToBag
<1> QED
  BY <1>1, <1>2, <1>3

LEMMA SendSet ==
  ASSUME IsABag(requests), NEW r, Send(r)
  PROVE  Pending' = Pending \cup {r} /\ IsABag(requests')
BY SumBag, OneBag DEF Send, Pending

LEMMA DoneSet ==
  ASSUME IsABag(requests), NEW r, Done(r)
  PROVE  Pending' \subseteq Pending /\ Pending \ {r} \subseteq Pending' /\ IsABag(requests')
BY DifferenceBag DEF Done, Pending

LEMMA BecomeSet ==
  ASSUME IsABag(requests), NEW r, NEW s, Become(r, s)
  PROVE  /\ s \in Pending' /\ Pending' \subseteq Pending \cup {s}
         /\ Pending \ {r} \subseteq Pending' /\ IsABag(requests')
<1>1. BagToSet(requests') = BagToSet(requests (-) One(r)) \cup {s}
  BY SumBag, OneBag DEF Become
<1>2. IsABag(requests')
  BY SumBag, OneBag, DifferenceBag DEF Become
<1> QED
  BY <1>1, <1>2, DifferenceBag DEF Pending

-----------------------------------------------------------------------------
(* Requests *)

LEMMA RequestFields ==
  ASSUME NEW r, NEW k, NEW operations, RequestOK(r, k, operations)
  PROVE  /\ r.op \in {"load", "call"} /\ r.id \in Docs \cup {None} /\ r.n \in 1..k
         /\ r.o \in operations \cup {NoOperation} /\ r.v \in 0..MaxVersion
         /\ r.by \in {"mount", "watch", "tick", "operation"} /\ r.st \in {"sent", "answered"}
BY DEF RequestOK

LEMMA RequestStays ==
  ASSUME NEW k \in Nat, NEW l \in Nat, k <= l, NEW r, NEW operations, RequestOK(r, k, operations)
  PROVE  RequestOK(r, l, operations)
<1>1. 1..k \subseteq 1..l
  OBVIOUS
<1> QED
  BY <1>1 DEF RequestOK

LEMMA NewCall ==
  ASSUME NEW k, NEW j \in 1..k, NEW operations, NEW d \in Docs, NEW o \in operations,
         NEW r, r = Request("call", d, j, "operation", o)
  PROVE  RequestOK(r, k, operations) /\ r.n = j /\ r.o = o
<1>1. 0 \in 0..MaxVersion
  BY BoundsAssumption
<1> QED
  BY <1>1 DEF RequestOK, Request

LEMMA NewLoad ==
  ASSUME NEW k, NEW j \in 1..k, NEW operations, NEW d \in Docs \cup {None},
         NEW by \in {"mount", "watch", "tick"}, NEW until \in [Docs -> 0..MaxVersion],
         NEW r, r = Load(d, j, by, until)
  PROVE  RequestOK(r, k, operations) /\ r.op = "load" /\ r.n = j /\ r.by = by
<1>1. PICK v \in 0..MaxVersion : v = IF d = None THEN 0 ELSE until[d]
  BY BoundsAssumption
<1> QED
  BY <1>1 DEF RequestOK, Request, Load

LEMMA ReloadRequest ==
  ASSUME id \in Docs \cup {None}, NEW k, NEW operations, NEW r, RequestOK(r, k, operations),
         NEW s, s = Reload(r)
  PROVE  RequestOK(s, k, operations) /\ s.op = "load" /\ s.n = r.n /\ s.by = "operation" /\ s.o = r.o
<1>1. (IF id = None THEN r.id ELSE id) \in Docs \cup {None}
  BY RequestFields
<1>2. 0 \in 0..MaxVersion /\ r.n \in 1..k /\ r.o \in operations \cup {NoOperation}
  BY BoundsAssumption, RequestFields
<1> QED
  BY <1>1, <1>2 DEF RequestOK, Request, Reload

LEMMA RequestsSent ==
  ASSUME RequestsOK, CountsOK, n' \in Nat, n <= n', UNCHANGED view,
         NEW r, RequestOK(r, n', view.ops), Send(r)
  PROVE  RequestsOK' /\ Pending' = Pending \cup {r}
BY SendSet, RequestStays DEF RequestsOK, CountsOK

LEMMA RequestsDone ==
  ASSUME RequestsOK, UNCHANGED <<view, n>>, NEW r, Done(r)
  PROVE  RequestsOK' /\ Pending \ {r} \subseteq Pending'
BY DoneSet DEF RequestsOK

LEMMA RequestsBecome ==
  ASSUME RequestsOK, UNCHANGED <<view, n>>, NEW r, NEW s, RequestOK(s, n, view.ops), Become(r, s)
  PROVE  RequestsOK' /\ s \in Pending' /\ Pending \ {r} \subseteq Pending'
BY BecomeSet DEF RequestsOK

-----------------------------------------------------------------------------
(* Spinners and timers under a step *)

(* The request a spinner waits for is still there, or another one of its kind. *)
LEMMA SpinnerKept ==
  ASSUME SpinnerOK, loading' \in BOOLEAN, loading' => loading, UNCHANGED <<view, n>>,
         view.dialog \/ (id # None => id' # None),
         loading' => \A r \in Pending : Spins(r) => \E s \in Pending' : s.op = r.op /\ s.by = r.by /\ s.n = r.n
  PROVE  SpinnerOK'
BY DEF SpinnerOK, Spins, Mounted

LEMMA BusyKept ==
  ASSUME BusyOK, busy' \subseteq busy, UNCHANGED <<view, n>>, SpinnersStay \/ (id # None => id' # None),
         NoFinally =>
           \A r \in Pending : (r.o.flag \in busy' /\ CanEnd(r)) => \E s \in Pending' : s.o = r.o /\ s.n = r.n
  PROVE  BusyOK'
<1>1. busy' \subseteq {o.flag : o \in view'.ops}
  BY DEF BusyOK
<1>2. ASSUME NoFinally', NEW f \in busy' PROVE \E r \in Pending' : r.o.flag = f /\ CanEnd(r)'
  <2>1. NoFinally /\ f \in busy
    BY <1>2 DEF NoFinally
  <2>2. PICK r \in Pending : r.o.flag = f /\ CanEnd(r)
    BY <2>1 DEF BusyOK
  <2>3. PICK s \in Pending' : s.o = r.o /\ s.n = r.n
    BY <2>1, <2>2
  <2> QED
    BY <2>2, <2>3 DEF CanEnd, SpinnersStay, Mounted
<1> QED
  BY <1>1, <1>2 DEF BusyOK

LEMMA ClosedTimers ==
  ASSUME TimersOK, Close, UNCHANGED <<view, n, handle>>
  PROVE  TimersOK'
BY DEF TimersOK, NoTimerLeft, Close, Cleared

LEMMA SameTimers ==
  ASSUME TimersOK, timers' \subseteq timers, UNCHANGED <<view, id, n, handle>>
  PROVE  TimersOK'
BY DEF TimersOK, NoTimerLeft

LEMMA ClosesDialog ==
  ASSUME StateOK, NEW r, RequestOK(r, n, view.ops), NEW ok, Closes(r, ok)
  PROVE  view.dialog /\ r.by = "operation"
<1>1. view \in AllPanels
  BY ViewsAssumption DEF StateOK
<1>2. NoOperation.closes = "never"
  BY DEF NoOperation, Silent, Operation
<1>3. r.o.closes # "never"
  BY DEF Closes
<1>4. r.o \in view.ops /\ r.by = "operation"
  BY <1>2, <1>3, RequestFields DEF RequestOK
<1> QED
  BY <1>1, <1>3, <1>4, PanelsAreSane DEF Sane

(* The end of an operation closes the dialog or leaves the panel as it is. *)
LEMMA EndsParts ==
  ASSUME StateOK, TimersOK, SpinnerOK, NEW r, RequestOK(r, n, view.ops), NEW ok, Ends(r, ok),
         UNCHANGED <<view, reach, hub, finished, n, handle>>
  PROVE  /\ StateOK' /\ TimersOK'
         /\ loading' \in BOOLEAN /\ (loading' => loading)
         /\ view.dialog \/ id' = id
         /\ id' # None => id' = id
<1>1. CASE Closes(r, ok)
  <2>1. Close /\ view.dialog
    BY <1>1, ClosesDialog DEF Ends
  <2>2. StateOK'
    BY <2>1 DEF StateOK, Close, Shown
  <2>3. loading' \in BOOLEAN /\ (loading' => loading) /\ id' = None
    BY <2>1, Zenon DEF Close
  <2> QED
    BY <2>1, <2>2, <2>3, ClosedTimers
<1>2. CASE ~Closes(r, ok)
  <2>1. UNCHANGED <<id, timers, shown, loading>>
    BY <1>2 DEF Ends
  <2> QED
    BY <2>1, SameTimers DEF StateOK, SpinnerOK
<1> QED
  BY <1>1, <1>2

-----------------------------------------------------------------------------
(* The steps *)

LEMMA Counted ==
  ASSUME CountsOK
  PROVE  /\ Step => steps' \in 0..MaxSteps /\ steps' = steps + 1
         /\ Fault => faults' \in 0..MaxFaults
BY BoundsAssumption DEF CountsOK, Step, Fault

LEMMA SameCounts ==
  ASSUME CountsOK, Step \/ UNCHANGED steps, Fault \/ UNCHANGED faults, UNCHANGED n, id' # None => id # None
  PROVE  CountsOK'
BY Counted DEF CountsOK

LEMMA InitInv == ASSUME Init PROVE Inv
<1>1. Pending = {} /\ IsABag(requests)
  BY DEF Init, Pending, EmptyBag, SetToBag, BagToSet, IsABag
<1>2. StateOK
  <2>1. \A d \in Docs : hub[d] \in 0..MaxVersion
    BY BoundsAssumption DEF Init
  <2> QED
    BY <2>1 DEF Init, StateOK, Shown
<1>3. CountsOK
  BY BoundsAssumption DEF Init, CountsOK
<1>4. TimersOK
  BY DEF Init, TimersOK, NoTimerLeft
<1> QED
  BY <1>1, <1>2, <1>3, <1>4 DEF Init, Inv, RequestsOK, SpinnerOK, BusyOK

LEMMA EnterInv == ASSUME Inv, NEW d \in Docs, Enter(d) PROVE Inv'
<1> USE DEF Inv
<1>1. id = None /\ id' = d /\ d # None /\ n' = n + 1 /\ UNCHANGED <<view, hub, finished, shown, busy, faults>>
  BY NoneAssumption DEF Enter, hubVars
<1>2. n \in Nat /\ n' \in Nat /\ n <= n' /\ n' \in 1..n'
  BY <1>1 DEF CountsOK
<1>3. StateOK'
  <2>1. reach' \in [Docs -> 0..MaxVersion]
    BY DEF Enter, StateOK
  <2> QED
    BY <1>1, <2>1 DEF StateOK
<1>4. CountsOK'
  BY <1>1, <1>2, Counted DEF CountsOK, Enter
<1>5. TimersOK'
  <2>1. timers \subseteq 1..n' /\ handle \in 0..n' /\ n' \in 0..n' /\ 0 \in 0..n'
    BY <1>2 DEF TimersOK
  <2>2. timers' \subseteq 1..n' /\ handle' \in 0..n' /\ (view.poll = "atOnce" => handle' = n')
    BY <1>1, <1>2, <2>1 DEF Enter
  <2>3. NoTimerLeft'
    BY <1>1 DEF TimersOK, NoTimerLeft, Enter
  <2> QED
    BY <1>1, <2>2, <2>3 DEF TimersOK
<1>6. RequestsOK' /\ Pending \subseteq Pending' /\ SpinnerOK'
  <2>1. CASE view.loads
    <3>0. PICK r : r = Load(d, n', "mount", reach')
      OBVIOUS
    <3>1. Send(r) /\ loading' = view.spins
      BY <1>1, <2>1, <3>0 DEF Enter
    <3>2. RequestOK(r, n', view.ops) /\ r.op = "load" /\ r.n = n' /\ r.by = "mount"
      <4>1. PICK until \in [Docs -> 0..MaxVersion] : until = reach'
        BY <1>3 DEF StateOK
      <4>2. r = Load(d, n', "mount", until) /\ d \in Docs \cup {None}
        BY <3>0, <4>1
      <4>3. PICK k : k = n'
        OBVIOUS
      <4> QED
        BY <1>2, <4>2, <4>3, NewLoad
    <3>3. RequestsOK' /\ Pending' = Pending \cup {r}
      BY <1>1, <1>2, <3>1, <3>2, RequestsSent
    <3>4. view.spins \in BOOLEAN
      BY PanelsAreSane, ViewsAssumption DEF StateOK, Sane
    <3>5. Spins(r)'
      BY <1>1, <3>2 DEF Spins, Mounted
    <3> QED
      BY <3>1, <3>3, <3>4, <3>5 DEF SpinnerOK
  <2>2. CASE ~view.loads
    <3>1. UNCHANGED <<requests, loading>>
      BY <2>2 DEF Enter
    <3>2. RequestsOK' /\ Pending' = Pending
      BY <3>1, <1>1, <1>2, RequestStays DEF RequestsOK, Pending
    <3>3. ASSUME NEW r, Spins(r) PROVE Spins(r)'
      BY <3>3, <1>1 DEF Spins, Mounted
    <3> QED
      BY <3>1, <3>2, <3>3 DEF SpinnerOK
  <2> QED
    BY <2>1, <2>2
<1>7. BusyOK'
  BY <1>1, <1>6 DEF BusyOK, NoFinally, CanEnd, SpinnersStay, Mounted
<1> QED
  BY <1>3, <1>4, <1>5, <1>6, <1>7

(* A load of this mounting, from a watcher or the interval. *)
LEMMA LoadSent ==
  ASSUME Inv, NEW d \in Docs \cup {None}, NEW k \in 1..n, NEW by \in {"watch", "tick"},
         NEW until \in [Docs -> 0..MaxVersion], Send(Load(d, k, by, until)), UNCHANGED <<view, n, busy>>, id # None => id' # None,
         loading' \in BOOLEAN, loading' => loading \/ (k = n /\ id' # None)
  PROVE  RequestsOK' /\ SpinnerOK' /\ BusyOK'
<1> USE DEF Inv
<1>0. PICK r : r = Load(d, k, by, until)
  OBVIOUS
<1>1. RequestOK(r, n, view.ops) /\ r.op = "load" /\ r.n = k /\ r.by = by
  BY <1>0, NewLoad
<1>2. Send(r)
  BY <1>0
<1>3. RequestsOK' /\ Pending' = Pending \cup {r}
  BY <1>1, <1>2, RequestsSent DEF CountsOK
<1>4. BusyOK'
  BY <1>3, BusyKept
<1>5. SpinnerOK'
  <2>1. CASE loading \/ ~loading'
    BY <2>1, <1>3, SpinnerKept DEF SpinnerOK
  <2>2. CASE loading' /\ k = n /\ id' # None
    BY <2>2, <1>1, <1>3 DEF SpinnerOK, Spins, Mounted
  <2> QED
    BY <2>1, <2>2
<1> QED
  BY <1>3, <1>4, <1>5

LEMMA SameRequests ==
  ASSUME Inv, UNCHANGED <<view, n, requests, loading, busy>>, id # None => id' # None
  PROVE  RequestsOK' /\ SpinnerOK' /\ BusyOK'
<1>1. RequestsOK' /\ Pending' = Pending
  BY DEF Inv, RequestsOK, Pending
<1> QED
  BY <1>1, SpinnerKept, BusyKept DEF Inv, SpinnerOK

LEMMA SelectInv == ASSUME Inv, NEW d \in Docs, Select(d) PROVE Inv'
<1> USE DEF Inv
<1>1. id # None /\ id' = d /\ d # None /\ Step
      /\ UNCHANGED <<view, reach, hub, finished, n, timers, handle, busy, faults>>
  BY NoneAssumption DEF Select, hubVars
<1>2. StateOK'
  BY <1>1 DEF StateOK, Shown, Select
<1>3. CountsOK'
  BY <1>1, SameCounts
<1>4. TimersOK'
  BY <1>1 DEF TimersOK, NoTimerLeft
<1>5. RequestsOK' /\ SpinnerOK' /\ BusyOK'
  <2>1. CASE view.follows
    <3>1. Send(Load(d, n, "watch", reach)) /\ n \in 1..n /\ loading' \in BOOLEAN
      BY <2>1, <1>1 DEF Select, CountsOK
    <3> QED
      BY <3>1, <1>1, LoadSent DEF StateOK
  <2>2. CASE ~view.follows
    BY <2>2, <1>1, SameRequests DEF Select
  <2> QED
    BY <2>1, <2>2
<1> QED
  BY <1>2, <1>3, <1>4, <1>5

LEMMA AskInv == ASSUME Inv, Ask PROVE Inv'
<1> USE DEF Inv
<1>1. id # None /\ Step /\ UNCHANGED <<view, hub, finished, id, n, shown, timers, handle, busy, faults>>
  BY DEF Ask, hubVars
<1>2. StateOK'
  <2>1. reach' \in [Docs -> 0..MaxVersion]
    BY DEF Ask, StateOK
  <2> QED
    BY <1>1, <2>1 DEF StateOK
<1>3. CountsOK'
  BY <1>1, SameCounts
<1>4. TimersOK'
  BY <1>1, SameTimers
<1>5. Send(Load(id, n, "watch", reach')) /\ n \in 1..n /\ loading' \in BOOLEAN /\ id \in Docs \cup {None}
  BY <1>1 DEF Ask, CountsOK, StateOK
<1>6. RequestsOK' /\ SpinnerOK' /\ BusyOK'
  BY <1>1, <1>2, <1>5, LoadSent DEF StateOK
<1> QED
  BY <1>2, <1>3, <1>4, <1>6

LEMMA TickInv == ASSUME Inv, NEW k \in timers, Tick(k) PROVE Inv'
<1> USE DEF Inv
<1>1. UNCHANGED <<view, reach, hub, finished, id, n, shown, timers, handle, busy, steps, faults>>
  BY DEF Tick, hubVars
<1>2. StateOK'
  BY <1>1 DEF StateOK
<1>3. CountsOK'
  BY <1>1, SameCounts
<1>4. TimersOK'
  BY <1>1, SameTimers
<1>5. Send(Load(id, k, "tick", reach)) /\ k \in 1..n /\ id \in Docs \cup {None}
  BY DEF Tick, TimersOK, StateOK
<1>6. loading' \in BOOLEAN /\ (loading' => loading \/ (k = n /\ id' # None))
  BY <1>1, Zenon DEF Tick
<1>7. RequestsOK' /\ SpinnerOK' /\ BusyOK'
  BY <1>1, <1>5, <1>6, LoadSent DEF StateOK
<1> QED
  BY <1>2, <1>3, <1>4, <1>7

LEMMA LeaveInv == ASSUME Inv, Leave PROVE Inv'
<1> USE DEF Inv
<1>1. Close /\ Step /\ id' = None /\ UNCHANGED <<view, reach, hub, finished, n, handle, requests, faults>>
  BY DEF Leave, Close, hubVars
<1>2. StateOK'
  BY <1>1 DEF StateOK, Shown, Close
<1>3. CountsOK'
  BY <1>1, SameCounts
<1>4. TimersOK'
  BY <1>1, ClosedTimers
<1>5. RequestsOK' /\ Pending' = Pending
  BY <1>1 DEF RequestsOK, Pending
<1>6. SpinnerOK'
  <2>1. loading' \in BOOLEAN /\ (loading' => loading /\ view.dialog)
    BY <1>1, Zenon DEF Close
  <2> QED
    BY <1>1, <1>5, <2>1 DEF SpinnerOK, Spins
<1>7. BusyOK'
  BY <1>1, <1>5 DEF BusyOK, Leave, SpinnersStay, NoFinally, CanEnd
<1> QED
  BY <1>2, <1>3, <1>4, <1>5, <1>6, <1>7

LEMMA OperateInv == ASSUME Inv, NEW o \in view.ops, Operate(o) PROVE Inv'
<1> USE DEF Inv
<1>1. id # None /\ Step /\ busy' \subseteq busy \cup {o.flag}
      /\ UNCHANGED <<view, reach, hub, finished, id, n, shown, timers, handle, loading, faults>>
  BY DEF Operate, hubVars
<1>2. StateOK'
  BY <1>1 DEF StateOK
<1>3. CountsOK'
  BY <1>1, SameCounts
<1>4. TimersOK'
  BY <1>1, SameTimers
<1>0. PICK r : r = Request("call", id, n, "operation", o)
  OBVIOUS
<1>5. Send(r) /\ RequestOK(r, n, view.ops) /\ r.n = n /\ r.o = o
  <2>1. id \in Docs /\ n \in 1..n /\ Send(r)
    BY <1>0, <1>1 DEF Operate, CountsOK, StateOK
  <2> QED
    BY <1>0, <2>1, NewCall
<1>6. RequestsOK' /\ Pending' = Pending \cup {r}
  BY <1>1, <1>5, RequestsSent DEF CountsOK
<1>7. SpinnerOK'
  BY <1>1, <1>6, SpinnerKept DEF SpinnerOK
<1>8. BusyOK'
  <2>1. CanEnd(r)
    BY <1>1, <1>5 DEF CanEnd, Mounted
  <2>2. \A q : CanEnd(q)' <=> CanEnd(q)
    BY <1>1 DEF CanEnd, SpinnersStay, Mounted
  <2> QED
    BY <1>1, <1>5, <1>6, <2>1, <2>2 DEF BusyOK, NoFinally
<1> QED
  BY <1>2, <1>3, <1>4, <1>6, <1>7, <1>8

(* The hub changes on its own. *)
LEMMA ChangeInv == ASSUME Inv, NEW d \in Docs, Change(d) \/ Finish(d) PROVE Inv'
<1> USE DEF Inv
<1>1. UNCHANGED <<view, reach, id, n, shown, timers, handle, loading, busy, requests, steps, faults>>
  BY Zenon DEF Change, Finish
<1>2. hub' \in [Docs -> 0..MaxVersion] /\ finished' \subseteq Docs
  BY BoundsAssumption DEF Change, Finish, StateOK
<1>3. StateOK'
  BY <1>1, <1>2 DEF StateOK
<1>4. CountsOK'
  BY <1>1, SameCounts
<1>5. TimersOK'
  BY <1>1, SameTimers
<1> QED
  BY <1>1, <1>3, <1>4, <1>5, SameRequests

LEMMA HubInv == ASSUME Inv, NEW r \in Pending, Hub(r) PROVE Inv'
<1> USE DEF Inv
<1>1. UNCHANGED <<view, reach, finished, id, n, shown, timers, handle, loading, busy, steps, faults>>
  BY DEF Hub
<1>2. RequestOK(r, n, view.ops) /\ r.id \in Docs
  BY RequestFields DEF RequestsOK, Hub
<1>3. hub' \in [Docs -> 0..MaxVersion]
  BY <1>2, BoundsAssumption DEF Hub, StateOK
<1>4. PICK fin \in BOOLEAN : fin = (r.id \in finished)
  <2>1. (r.id \in finished) \in BOOLEAN
    OBVIOUS
  <2> QED
    BY <2>1, Zenon
<1>5. PICK v \in 0..MaxVersion : v = IF view.window THEN r.v ELSE hub[r.id]
  BY <1>2, RequestFields DEF StateOK
<1>6. PICK s : s = [r EXCEPT !.st = "answered", !.v = v, !.fin = fin] /\ Become(r, s)
  BY <1>4, <1>5, Zenon DEF Hub
<1>7. RequestOK(s, n, view.ops) /\ s.op = r.op /\ s.n = r.n /\ s.by = r.by /\ s.o = r.o
  <2>1. r.id # None
    BY <1>2, NoneAssumption
  <2> QED
    BY <1>2, <1>6, <2>1 DEF RequestOK
<1>8. RequestsOK' /\ s \in Pending' /\ Pending \ {r} \subseteq Pending'
  BY <1>1, <1>6, <1>7, RequestsBecome
<1>9. SpinnerOK'
  BY <1>1, <1>7, <1>8, SpinnerKept DEF SpinnerOK
<1>10. BusyOK'
  BY <1>1, <1>7, <1>8, BusyKept
<1>11. StateOK'
  BY <1>1, <1>3 DEF StateOK
<1>12. CountsOK' /\ TimersOK'
  BY <1>1, SameCounts, SameTimers
<1> QED
  BY <1>8, <1>9, <1>10, <1>11, <1>12

(* A request ends, and with it the spinner of its operation. *)
LEMMA Unflagged ==
  ASSUME Inv, NEW r \in Pending, Done(r), Unflag(r), UNCHANGED <<view, n>>, view.dialog \/ id' = id
  PROVE  RequestsOK' /\ Pending \ {r} \subseteq Pending' /\ BusyOK'
<1>1. RequestsOK' /\ Pending \ {r} \subseteq Pending'
  BY RequestsDone DEF Inv
<1>2. busy' \subseteq busy /\ (CanEnd(r) => r.o.flag \notin busy')
  BY DEF Unflag, CanEnd
<1>3. SpinnersStay \/ (id # None => id' # None)
  BY DEF SpinnersStay
<1>4. BusyOK'
  BY <1>1, <1>2, <1>3, BusyKept DEF Inv
<1> QED
  BY <1>1, <1>4

(* An operation goes on with a load; its spinner waits for that. *)
LEMMA Reloaded ==
  ASSUME Inv, NEW r \in Pending, Become(r, Reload(r)), UNCHANGED <<view, n, busy>>, view.dialog \/ id' = id
  PROVE  RequestsOK' /\ Pending \ {r} \subseteq Pending' /\ BusyOK'
<1>1. PICK s : s = Reload(r)
  OBVIOUS
<1>2. RequestOK(s, n, view.ops) /\ s.n = r.n /\ s.o = r.o
  BY <1>1, ReloadRequest DEF Inv, StateOK, RequestsOK
<1>3. RequestsOK' /\ s \in Pending' /\ Pending \ {r} \subseteq Pending'
  BY <1>1, <1>2, RequestsBecome DEF Inv
<1>4. SpinnersStay \/ (id # None => id' # None)
  BY DEF SpinnersStay
<1>5. BusyOK'
  BY <1>2, <1>3, <1>4, BusyKept DEF Inv
<1> QED
  BY <1>3, <1>5

(* The spinner of the panel waits for another request than the one that has ended. *)
LEMMA OtherSpins ==
  ASSUME Inv, NEW r \in Pending, ~(loading' /\ Spins(r)), Pending \ {r} \subseteq Pending',
         loading' \in BOOLEAN, loading' => loading, UNCHANGED <<view, n>>, view.dialog \/ id' = id
  PROVE  SpinnerOK'
BY SpinnerKept DEF Inv

LEMMA ArrivesInv == ASSUME Inv, NEW r \in Pending, Arrives(r) PROVE Inv'
<1> USE DEF Inv
<1>1. UNCHANGED <<view, reach, hub, finished, id, n, steps, faults>> /\ Unflag(r) /\ Done(r)
  BY DEF Arrives, hubVars
<1>2. RequestOK(r, n, view.ops) /\ r.id \in Docs /\ r.v \in 0..MaxVersion /\ r.n \in 1..n /\ r.n \in 0..n
  <2>1. RequestOK(r, n, view.ops) /\ r.id # None
    BY DEF RequestsOK, RequestOK, Arrives
  <2>2. 1..n \subseteq 0..n
    BY DEF CountsOK
  <2> QED
    BY <2>1, <2>2, RequestFields
<1>3. RequestsOK' /\ Pending \ {r} \subseteq Pending' /\ BusyOK'
  BY <1>1, Unflagged
<1>4. loading' \in BOOLEAN /\ (loading' => loading) /\ ~(loading' /\ Spins(r))
  BY Zenon DEF Arrives
<1>5. SpinnerOK'
  BY <1>1, <1>3, <1>4, OtherSpins
<1>6. StateOK'
  <2>1. shown' \in Shown
    BY <1>2 DEF Arrives, StateOK, Shown
  <2> QED
    BY <1>1, <2>1 DEF StateOK
<1>7. TimersOK'
  <2>1. CASE SetsTimer(r)
    <3>1. view.poll # "atOnce" /\ timers' \subseteq timers \cup {r.n} /\ handle' \in {r.n, handle}
      BY <2>1 DEF SetsTimer, Arrives
    <3> QED
      BY <1>1, <1>2, <3>1 DEF TimersOK, NoTimerLeft
  <2>2. CASE ~SetsTimer(r)
    <3>1. timers' \subseteq timers /\ handle' = handle
      BY <2>2 DEF Arrives
    <3> QED
      BY <1>1, <3>1, SameTimers
  <2> QED
    BY <2>1, <2>2
<1>8. CountsOK'
  BY <1>1, SameCounts
<1> QED
  BY <1>3, <1>5, <1>6, <1>7, <1>8

LEMMA ArrivesLastInv == ASSUME Inv, NEW r \in Pending, ArrivesLast(r) PROVE Inv'
<1> USE DEF Inv
<1>1. UNCHANGED <<view, reach, hub, finished, n, handle, steps, faults>> /\ Unflag(r) /\ Done(r) /\ Ends(r, TRUE)
  BY DEF ArrivesLast, hubVars
<1>2. RequestOK(r, n, view.ops)
  BY DEF RequestsOK
<1>3. ~Spins(r)
  BY <1>2, ClosesDialog DEF ArrivesLast, Spins
<1>4. /\ StateOK' /\ TimersOK' /\ loading' \in BOOLEAN /\ (loading' => loading)
      /\ view.dialog \/ id' = id
      /\ id' # None => id' = id
  BY <1>1, <1>2, EndsParts
<1>5. RequestsOK' /\ Pending \ {r} \subseteq Pending' /\ BusyOK'
  BY <1>1, <1>4, Unflagged
<1>6. SpinnerOK'
  BY <1>1, <1>3, <1>4, <1>5, OtherSpins
<1>7. CountsOK'
  BY <1>1, <1>4, SameCounts
<1> QED
  BY <1>4, <1>5, <1>6, <1>7

LEMMA OperationDoneInv == ASSUME Inv, NEW r \in Pending, OperationDone(r) PROVE Inv'
<1> USE DEF Inv
<1>1. UNCHANGED <<view, reach, hub, finished, n, handle, steps, faults>> /\ Ends(r, TRUE)
  BY DEF OperationDone, hubVars
<1>2. RequestOK(r, n, view.ops)
  BY DEF RequestsOK
<1>3. ~Spins(r)
  BY DEF OperationDone, Spins
<1>4. /\ StateOK' /\ TimersOK' /\ loading' \in BOOLEAN /\ (loading' => loading)
      /\ view.dialog \/ id' = id
      /\ id' # None => id' = id
  BY <1>1, <1>2, EndsParts
<1>5. RequestsOK' /\ Pending \ {r} \subseteq Pending' /\ BusyOK'
  BY <1>1, <1>4, Unflagged, Reloaded DEF OperationDone
<1>6. SpinnerOK'
  BY <1>1, <1>3, <1>4, <1>5, OtherSpins
<1>7. CountsOK'
  BY <1>1, <1>4, SameCounts
<1> QED
  BY <1>4, <1>5, <1>6, <1>7

LEMMA RequestFailsInv == ASSUME Inv, NEW r \in Pending, RequestFails(r) PROVE Inv'
<1> USE DEF Inv
<1>1. UNCHANGED <<view, reach, hub, finished, n, handle, steps>> /\ (Fault \/ UNCHANGED faults)
  BY DEF RequestFails, hubVars
<1>2. RequestOK(r, n, view.ops)
  BY DEF RequestsOK
<1>3. /\ StateOK' /\ TimersOK' /\ loading' \in BOOLEAN /\ (loading' => loading)
      /\ view.dialog \/ id' = id
      /\ id' # None => id' = id
      /\ ~(loading' /\ Spins(r))
  <2>1. CASE Spins(r)
    <3>1. loading' = FALSE /\ UNCHANGED <<id, timers, shown>>
      BY <2>1 DEF RequestFails
    <3> QED
      BY <1>1, <3>1, SameTimers DEF StateOK
  <2>2. CASE ~Spins(r)
    <3>1. Ends(r, FALSE)
      BY <2>2 DEF RequestFails
    <3> QED
      BY <1>1, <1>2, <2>2, <3>1, EndsParts
  <2> QED
    BY <2>1, <2>2
<1>4. RequestsOK' /\ Pending \ {r} \subseteq Pending' /\ BusyOK'
  <2>1. CASE r.op = "call" /\ r.o.reload = "always"
    BY <1>1, <1>3, <2>1, Reloaded DEF RequestFails
  <2>2. CASE r.o.reload # "always"
    BY <1>1, <1>3, <2>2, Unflagged DEF RequestFails
  <2>3. CASE r.op # "call" /\ r.o.reload = "always"
    <3>1. Done(r) /\ UNCHANGED busy
      BY <2>3 DEF RequestFails
    <3>2. ~NoFinally
      <4>1. NoOperation.reload # "always"
        BY DEF NoOperation, Silent, Operation
      <4> QED
        BY <1>2, <2>3, <4>1, RequestFields DEF NoFinally
    <3>3. RequestsOK' /\ Pending \ {r} \subseteq Pending'
      BY <1>1, <3>1, RequestsDone
    <3> QED
      BY <1>1, <3>1, <3>2, <3>3 DEF BusyOK, NoFinally
  <2> QED
    BY <2>1, <2>2, <2>3
<1>5. SpinnerOK'
  BY <1>1, <1>3, <1>4, OtherSpins
<1>6. CountsOK'
  BY <1>1, <1>3, SameCounts
<1> QED
  BY <1>3, <1>4, <1>5, <1>6

LEMMA NextInv == Inv /\ [Next]_vars => Inv'
<1> SUFFICES ASSUME Inv, [Next]_vars PROVE Inv'
  OBVIOUS
<1>1. CASE UNCHANGED vars
  <2>1. StateOK' /\ CountsOK' /\ TimersOK'
    BY <1>1, SameCounts, SameTimers DEF Inv, StateOK, vars, hubVars
  <2> QED
    BY <1>1, <2>1, SameRequests DEF Inv, vars
<1>2. CASE User
  BY <1>2, EnterInv, SelectInv, AskInv, LeaveInv, OperateInv DEF User
<1>3. CASE Ticks
  BY <1>3, TickInv DEF Ticks
<1>4. CASE HubActs \/ Answers \/ \E r \in BagToSet(requests) : RequestFails(r)
  BY <1>4, HubInv, ArrivesInv, ArrivesLastInv, OperationDoneInv, RequestFailsInv DEF HubActs, Answers, Pending
<1>5. CASE \E d \in Docs : Change(d) \/ Finish(d)
  BY <1>5, ChangeInv
<1> QED
  BY <1>1, <1>2, <1>3, <1>4, <1>5 DEF Next

LEMMA AlwaysInv == Spec => []Inv
BY InitInv, NextInv, PTL DEF Spec

-----------------------------------------------------------------------------
(* Theorems *)

(* The state of a panel has its type: it shows a document, its intervals belong to its *)
(* mountings and the requests under way to its operations. *)
THEOREM TypeCorrect == Spec => []TypeOK
<1>1. Inv => TypeOK
  <2> SUFFICES ASSUME Inv PROVE TypeOK
    OBVIOUS
  <2>1. n \in 0..MaxSteps
    BY BoundsAssumption DEF Inv, CountsOK
  <2> QED
    BY <2>1 DEF Inv, StateOK, CountsOK, TimersOK, RequestsOK, RequestOK, SpinnerOK, BusyOK, TypeOK,
       Shown, Pending
<1> QED
  BY <1>1, AlwaysInv, PTL

(* clearInterval in onBeforeUnmount: a panel that starts its interval at once leaves none *)
(* running, however often it is opened and closed and however late its answers are. *)
THEOREM TimersCleared == Spec => []NoTimerLeft
<1>1. Inv => NoTimerLeft
  BY DEF Inv, TimersOK
<1> QED
  BY <1>1, AlwaysInv, PTL

(* The spinner of a load and of every operation waits for a request under way, for each of *)
(* the panels, through failures, late answers and closings; an operation that loads in its *)
(* finally block is excepted. *)
THEOREM SpinnersAlwaysEnd == Spec => []SpinnersEnd
<1>1. Inv => SpinnersEnd
  BY DEF Inv, SpinnerOK, BusyOK, NoFinally, SpinnersEnd, Pending
<1> QED
  BY <1>1, AlwaysInv, PTL
==============================================================================
