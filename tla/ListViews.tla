----------------------------- MODULE ListViews -----------------------------
(***************************************************************************)
(* The list views of the web client, by what tells their behaviour apart.  *)
(* Every view is useList and ListLayout over a store module; it adds       *)
(*   auto     setupListComponent or setupAutoUpdate: a refresh every 5 s   *)
(*   watchers how many times a new page asks for the list: each call of    *)
(*            useList watches the pagination, and so does ListLayout       *)
(*   switch   what the switch of a row sends: nothing ("none"), the row    *)
(*            itself changed in place ("row"), a changed copy ("copy"), an *)
(*            enable or disable call ("post"), the same with a refresh     *)
(*            after it ("refresh")                                         *)
(*   create   how a document is created: "none", "dialog", "direct"        *)
(*   edit     a row is edited in the dialog                                *)
(*   delete   a row can be deleted                                         *)
(*   act      another call for a row with a refresh after it               *)
(* Columns, labels and filters are data of the views and are left out.     *)
(***************************************************************************)

ListView(auto, watchers, switch, create, edit, delete, act) ==
  [auto |-> auto, watchers |-> watchers, switch |-> switch, create |-> create,
   edit |-> edit, delete |-> delete, act |-> act]

useAutoProbeList == ListView(TRUE, 3, "none", "dialog", FALSE, TRUE, FALSE)
useDatabaseList == ListView(TRUE, 2, "none", "dialog", FALSE, TRUE, FALSE)
useEnvironmentList == ListView(FALSE, 2, "none", "dialog", TRUE, TRUE, FALSE)
\* act: clone the repository again.
useGitList == ListView(TRUE, 3, "none", "dialog", FALSE, TRUE, TRUE)
useNodeList == ListView(TRUE, 2, "row", "none", FALSE, TRUE, FALSE)
useNotificationAlertList == ListView(TRUE, 3, "copy", "dialog", FALSE, TRUE, FALSE)
useNotificationChannelList == ListView(FALSE, 3, "none", "dialog", FALSE, TRUE, FALSE)
useNotificationRequestList == ListView(TRUE, 2, "none", "none", FALSE, FALSE, FALSE)
useNotificationSettingList == ListView(FALSE, 3, "post", "dialog", FALSE, TRUE, FALSE)
useProjectList == ListView(FALSE, 3, "none", "dialog", FALSE, TRUE, FALSE)
useRoleList == ListView(FALSE, 3, "none", "dialog", FALSE, TRUE, FALSE)
useUserList == ListView(FALSE, 3, "none", "dialog", FALSE, TRUE, FALSE)
useTokenList == ListView(FALSE, 3, "none", "direct", FALSE, TRUE, FALSE)
useScheduleList == ListView(TRUE, 3, "refresh", "dialog", FALSE, TRUE, FALSE)
useSpiderList == ListView(TRUE, 3, "none", "dialog", FALSE, TRUE, FALSE)
\* act: restart or cancel the task.
useTaskList == ListView(TRUE, 3, "none", "dialog", FALSE, TRUE, TRUE)

AllViews ==
  {useAutoProbeList, useDatabaseList, useEnvironmentList, useGitList, useNodeList,
   useNotificationAlertList, useNotificationChannelList, useNotificationRequestList,
   useNotificationSettingList, useProjectList, useRoleList, useUserList, useTokenList,
   useScheduleList, useSpiderList, useTaskList}
=============================================================================
