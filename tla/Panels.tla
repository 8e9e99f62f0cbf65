------------------------------- MODULE Panels -------------------------------
(***************************************************************************)
(* The panels of the web client's pages, one record per component: what it *)
(* loads and when, how its timer starts and ends, where it keeps what it   *)
(* is told, and the operations its buttons run.  PanelPage gives these     *)
(* records their meaning.                                                  *)
(***************************************************************************)

\* flag: the spinner of the operation; reload: "after" it has succeeded,
\* "always" in its finally block, "elsewhere" (a list behind the dialog, after
\* it has succeeded) or "none"; once: refused while the spinner is on; closes:
\* the dialog closes when the "call" has succeeded, at the "end" of the reload,
\* at the end "always", also of a failure, or "never".
Operation(flag, reload, once, closes) ==
  [flag |-> flag, reload |-> reload, once |-> once, closes |-> closes]
NoFlag == ""
Silent(reload) == Operation(NoFlag, reload, FALSE, "never")

\* poll: how its timer starts ("none": it has none); clears: the timer ends
\* with the panel; stops: it ends when the document is finished; loads: when it
\* is mounted; follows: also when the route changes; asks: also when a setting
\* of the panel does; spins: with a spinner; dialog: it stays mounted while it is
\* closed; store: what it shows is in the store; shared: so are the spinners of
\* its operations; forgets: when it drops what it shows; window: it asks for what the
\* hub has up to a time it computes once, not up to now.
Panel ==
  [poll |-> "none", clears |-> FALSE, stops |-> FALSE, loads |-> TRUE, follows |-> FALSE,
   asks |-> FALSE, spins |-> FALSE, dialog |-> FALSE, store |-> FALSE, shared |-> FALSE,
   forgets |-> {}, window |-> FALSE, ops |-> {}]
Polling == [Panel EXCEPT !.poll = "atOnce", !.clears = TRUE]
Following == [Panel EXCEPT !.follows = TRUE]
Buttons == [Panel EXCEPT !.loads = FALSE]

-----------------------------------------------------------------------------
(* Tasks, nodes, databases, spiders *)

TaskDetailTabLogs ==
  [Following EXCEPT !.poll = "awaited", !.clears = TRUE, !.stops = TRUE, !.asks = TRUE,
                    !.store = TRUE, !.forgets = {"leave"}]
TaskDetailActionsCommon ==
  [Buttons EXCEPT !.store = TRUE, !.ops = {Silent("after"), Silent("none")}]
TaskDetailActionsData == [Following EXCEPT !.loads = FALSE]
\* start and end are computed values that depend on the time range only.
MetricMonitoringDetail == [Polling EXCEPT !.follows = TRUE, !.asks = TRUE, !.window = TRUE]
NodeDetailActionsCommon == [Following EXCEPT !.poll = "awaited", !.clears = TRUE]
DatabaseDetailActionsCommon == [Polling EXCEPT !.follows = TRUE]
SpiderDetailTabDependencies == [Polling EXCEPT !.follows = TRUE, !.spins = TRUE]
SpiderDetailActionsData == [Panel EXCEPT !.ops = {Silent("none")}]
SpiderResultDataWithDatabase ==
  [Following EXCEPT !.asks = TRUE, !.ops = {Operation("commit", "none", FALSE, "never")}]
ResultList == [Following EXCEPT !.asks = TRUE, !.store = TRUE, !.forgets = {"leave"}]
DetailTabList == [Following EXCEPT !.store = TRUE, !.forgets = {"leave"}]
SpiderDetailTabSchedules == DetailTabList
ScheduleDetailTabTasks == DetailTabList
Home == Panel

-----------------------------------------------------------------------------
(* Git *)

GitDetail == [Following EXCEPT !.asks = TRUE, !.store = TRUE, !.forgets = {"leave", "select"}]

\* Commit, roll back, pull and push: their spinners outlive the page.
GitOperations ==
  [Buttons EXCEPT !.store = TRUE, !.shared = TRUE,
     !.ops = {Operation("pull", "after", TRUE, "never"), Operation("pull", "none", TRUE, "never"),
              Operation("rollback", "after", FALSE, "never")}]

\* Check out, create and delete a branch.
GitDetailActionsCommon ==
  [Buttons EXCEPT !.store = TRUE,
     !.ops = {Operation("branch", "always", FALSE, "never"), Operation("branch", "after", FALSE, "never")}]
GitDetailTabChanges ==
  [Following EXCEPT !.asks = TRUE, !.spins = TRUE, !.store = TRUE, !.ops = {Silent("after")}]
GitDetailTabCommits ==
  [Following EXCEPT !.spins = TRUE, !.store = TRUE, !.forgets = {"select"}]
GitDetailTabFiles ==
  [Following EXCEPT !.loads = FALSE, !.asks = TRUE, !.spins = TRUE, !.store = TRUE,
                    !.ops = {Silent("none")}]
GitFileDiffDialog ==
  [Panel EXCEPT !.dialog = TRUE, !.spins = TRUE, !.store = TRUE, !.forgets = {"leave"}]
CreateGitSpiderDialog ==
  [Panel EXCEPT !.dialog = TRUE, !.store = TRUE, !.shared = TRUE,
                !.ops = {Operation("createSpider", "none", FALSE, "always")}]
GitCloneLogsDialog ==
  [Polling EXCEPT !.loads = FALSE, !.stops = TRUE, !.dialog = TRUE, !.store = TRUE]

-----------------------------------------------------------------------------
(* Autoprobe, dependencies, notification, system *)

AutoProbeDetailTabTasks == [Polling EXCEPT !.asks = TRUE, !.ops = {Silent("after")}]
AutoProbeDetailTabPatterns == [Following EXCEPT !.store = TRUE]
AutoProbeResultsPreview == [Panel EXCEPT !.spins = TRUE]
DependencyLogsDialog ==
  [Panel EXCEPT !.poll = "awaited", !.clears = TRUE, !.dialog = TRUE, !.store = TRUE,
                !.forgets = {"leave"}]
NotificationChannelDetailActionsCommon ==
  [Buttons EXCEPT !.ops = {Operation("test", "none", TRUE, "never")}]
NotificationSettingDetailTabChannels ==
  [Panel EXCEPT !.store = TRUE, !.forgets = {"leave"}]
NotificationSettingDetailTabTemplate ==
  [Buttons EXCEPT !.store = TRUE, !.ops = {Silent("none")}]
SystemDetailTabCustomize == [Panel EXCEPT !.store = TRUE, !.ops = {Silent("none")}]
SystemDetailTabDependency == SystemDetailTabCustomize
SystemDetailTabModels ==
  [Panel EXCEPT !.asks = TRUE,
                !.ops = {Silent("after"), Operation("confirm", "after", FALSE, "never")}]

-----------------------------------------------------------------------------
(* Dialogs and buttons whose operations load a list behind them *)

Dialog == [Panel EXCEPT !.dialog = TRUE, !.store = TRUE, !.forgets = {"leave"}]

DependencyInstallDialog ==
  [Dialog EXCEPT !.spins = TRUE, !.shared = TRUE,
                 !.ops = {Operation("install", "elsewhere", TRUE, "end")}]

\* Its button looks at the spinner of the installation, so it is never refused.
DependencyUninstallDialog ==
  [Dialog EXCEPT !.spins = TRUE, !.shared = TRUE,
                 !.ops = {Operation("uninstall", "elsewhere", FALSE, "end")}]
DependencySetupDialog ==
  [Dialog EXCEPT !.spins = TRUE, !.shared = TRUE,
                 !.ops = {Operation("setup", "none", TRUE, "call")}]
DependencyConfigDialog ==
  [Dialog EXCEPT !.loads = FALSE, !.ops = {Operation("confirm", "after", FALSE, "always")}]
RunSpiderDialog ==
  [Dialog EXCEPT !.loads = FALSE, !.forgets = {}, !.ops = {Operation(NoFlag, "elsewhere", FALSE, "call")}]
CreateTaskDialog == [RunSpiderDialog EXCEPT !.forgets = {"leave"}]
ResultDedupFieldsDialog ==
  [RunSpiderDialog EXCEPT !.ops = {Operation(NoFlag, "none", FALSE, "call")}]
DatabaseOrmSettings == [Panel EXCEPT !.spins = TRUE, !.ops = {Silent("none")}]
TaskResultDataWithDatabase ==
  [Following EXCEPT !.ops = {Operation("commit", "none", FALSE, "never")}]
FileActions == [Buttons EXCEPT !.ops = {Operation("export", "none", TRUE, "never")}]
MyAccount == [Buttons EXCEPT !.store = TRUE, !.ops = {Silent("after"), Silent("none")}]

AllPanels ==
  {TaskDetailTabLogs, TaskDetailActionsCommon, TaskDetailActionsData, MetricMonitoringDetail,
   NodeDetailActionsCommon, DatabaseDetailActionsCommon, SpiderDetailTabDependencies,
   SpiderDetailActionsData, SpiderResultDataWithDatabase, ResultList, DetailTabList,
   SpiderDetailTabSchedules, ScheduleDetailTabTasks, Home, GitDetail, GitOperations,
   GitDetailActionsCommon, GitDetailTabChanges, GitDetailTabCommits, GitDetailTabFiles,
   GitFileDiffDialog, CreateGitSpiderDialog, GitCloneLogsDialog,
   AutoProbeDetailTabTasks, AutoProbeDetailTabPatterns, AutoProbeResultsPreview,
   DependencyLogsDialog, NotificationChannelDetailActionsCommon,
   NotificationSettingDetailTabChannels, NotificationSettingDetailTabTemplate,
   SystemDetailTabCustomize, SystemDetailTabDependency, SystemDetailTabModels,
   DependencyInstallDialog, DependencyUninstallDialog, DependencySetupDialog,
   DependencyConfigDialog, RunSpiderDialog, CreateTaskDialog, ResultDedupFieldsDialog,
   DatabaseOrmSettings, TaskResultDataWithDatabase, FileActions, MyAccount}
=============================================================================
