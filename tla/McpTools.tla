------------------------------ MODULE McpTools ------------------------------
(***************************************************************************)
(* The tools of the MCP server, each with the request it sends to the hub  *)
(* and the confirmation it demands first.  A request is an HTTP method and *)
(* what it asks the hub to do with the resource of the given id:           *)
(*   read, replace (the whole document by the body), update (the same for  *)
(*   a node or a schedule, whose body may say enabled: false or not say    *)
(*   whether it is enabled), remove, cancel, disable, enable, and other    *)
(*   changes, which leave that resource as it is: a new document, task or  *)
(*   probe, a file, a working copy                                         *)
(* `requests' counts the requests of a tool that are sent together, and    *)
(* `health' says whether a health check follows them, which never fails.   *)
(* Names, descriptions, schemas and the text of the answers are left out.  *)
(***************************************************************************)

Api(method, effect) == [method |-> method, effect |-> effect]
Get == Api("get", "read")

(* client.ts: the calls of AstianGoHubClient *)
SpiderApi ==
  [getSpiders |-> Get, getSpider |-> Get, createSpider |-> Api("post", "other"),
   updateSpider |-> Api("put", "replace"), deleteSpider |-> Api("delete", "remove"),
   runSpider |-> Api("post", "other"), getSpiderFiles |-> Get, getSpiderFileContent |-> Get,
   saveSpiderFile |-> Api("post", "other")]
TaskApi ==
  [getTasks |-> Get, getTask |-> Get, cancelTask |-> Api("post", "cancel"),
   restartTask |-> Api("post", "other"), deleteTask |-> Api("delete", "remove"),
   getTaskLogs |-> Get, getTaskResults |-> Get]
NodeApi ==
  [getNodes |-> Get, getNode |-> Get, updateNode |-> Api("put", "update"),
   enableNode |-> Api("post", "enable"), disableNode |-> Api("post", "disable")]
ScheduleApi ==
  [getSchedules |-> Get, getSchedule |-> Get, createSchedule |-> Api("post", "other"),
   updateSchedule |-> Api("put", "update"), deleteSchedule |-> Api("delete", "remove"),
   enableSchedule |-> Api("post", "enable"), disableSchedule |-> Api("post", "disable")]
ProjectApi ==
  [getProjects |-> Get, getProject |-> Get, createProject |-> Api("post", "other"),
   updateProject |-> Api("put", "replace"), deleteProject |-> Api("delete", "remove")]
DatabaseApi ==
  [getDatabases |-> Get, getDatabase |-> Get, createDatabase |-> Api("post", "other"),
   updateDatabase |-> Api("put", "replace"), deleteDatabase |-> Api("delete", "remove"),
   testDatabaseConnection |-> Api("post", "read")]
GitApi ==
  [getGitRepos |-> Get, getGitRepo |-> Get, createGitRepo |-> Api("post", "other"),
   updateGitRepo |-> Api("put", "replace"), deleteGitRepo |-> Api("delete", "remove"),
   pullGitRepo |-> Api("post", "other"), cloneGitRepo |-> Api("post", "other")]
StatsApi == [getSpiderStats |-> Get, getTaskStats |-> Get]
LLMApi ==
  [getLLMProviders |-> Get, getLLMProvider |-> Get, createLLMProvider |-> Api("post", "other"),
   updateLLMProvider |-> Api("put", "replace"), deleteLLMProvider |-> Api("delete", "remove")]
ConversationApi == [getConversations |-> Get, getConversation |-> Get, getConversationMessages |-> Get]
AutoProbeApi ==
  [getAutoProbesV2 |-> Get, getAutoProbeV2 |-> Get, createAutoProbeV2 |-> Api("post", "other"),
   runAutoProbeV2Task |-> Api("post", "other"), getAutoProbeV2Preview |-> Get,
   getAutoProbeV2Pattern |-> Get, getAutoProbes |-> Get, getAutoProbe |-> Get,
   createAutoProbe |-> Api("post", "other")]

-----------------------------------------------------------------------------
Tool(api, confirmation) ==
  [method |-> api.method, effect |-> api.effect, confirmation |-> confirmation,
   requests |-> 1, health |-> FALSE]
Plain(api) == Tool(api, "none")

list_spiders == Plain(SpiderApi.getSpiders)
get_spider == Plain(SpiderApi.getSpider)
create_spider == Plain(SpiderApi.createSpider)
update_spider == Plain(SpiderApi.updateSpider)
delete_spider == Tool(SpiderApi.deleteSpider, "DELETE")
run_spider == Plain(SpiderApi.runSpider)
list_spider_files == Plain(SpiderApi.getSpiderFiles)
get_spider_file_content == Plain(SpiderApi.getSpiderFileContent)
save_spider_file == Plain(SpiderApi.saveSpiderFile)
SpiderTools ==
  {list_spiders, get_spider, create_spider, update_spider, delete_spider, run_spider,
   list_spider_files, get_spider_file_content, save_spider_file}

list_tasks == Plain(TaskApi.getTasks)
get_task == Plain(TaskApi.getTask)
cancel_task == Tool(TaskApi.cancelTask, "CANCEL")
restart_task == Plain(TaskApi.restartTask)
delete_task == Tool(TaskApi.deleteTask, "DELETE")
get_task_logs == Plain(TaskApi.getTaskLogs)
get_task_results == Plain(TaskApi.getTaskResults)
TaskTools ==
  {list_tasks, get_task, cancel_task, restart_task, delete_task, get_task_logs, get_task_results}

list_nodes == Plain(NodeApi.getNodes)
get_node == Plain(NodeApi.getNode)
update_node == Plain(NodeApi.updateNode)
enable_node == Plain(NodeApi.enableNode)
disable_node == Tool(NodeApi.disableNode, "DISABLE")
NodeTools == {list_nodes, get_node, update_node, enable_node, disable_node}

list_schedules == Plain(ScheduleApi.getSchedules)
get_schedule == Plain(ScheduleApi.getSchedule)
create_schedule == Plain(ScheduleApi.createSchedule)
update_schedule == Plain(ScheduleApi.updateSchedule)
delete_schedule == Tool(ScheduleApi.deleteSchedule, "DELETE")
enable_schedule == Plain(ScheduleApi.enableSchedule)
disable_schedule == Tool(ScheduleApi.disableSchedule, "DISABLE")
ScheduleTools ==
  {list_schedules, get_schedule, create_schedule, update_schedule, delete_schedule,
   enable_schedule, disable_schedule}

Survey(requests) ==
  [method |-> "get", effect |-> "read", confirmation |-> "none",
   requests |-> requests, health |-> TRUE]
health_check == Survey(0)
system_status == Survey(3)
get_system_overview == Survey(5)
SystemTools == {health_check, system_status, get_system_overview}

list_projects == Plain(ProjectApi.getProjects)
get_project == Plain(ProjectApi.getProject)
create_project == Plain(ProjectApi.createProject)
update_project == Plain(ProjectApi.updateProject)
delete_project == Tool(ProjectApi.deleteProject, "DELETE")
ProjectTools == {list_projects, get_project, create_project, update_project, delete_project}

list_databases == Plain(DatabaseApi.getDatabases)
get_database == Plain(DatabaseApi.getDatabase)
create_database == Plain(DatabaseApi.createDatabase)
update_database == Plain(DatabaseApi.updateDatabase)
delete_database == Tool(DatabaseApi.deleteDatabase, "DELETE")
test_database_connection == Plain(DatabaseApi.testDatabaseConnection)
DatabaseTools ==
  {list_databases, get_database, create_database, update_database, delete_database,
   test_database_connection}

list_git_repos == Plain(GitApi.getGitRepos)
get_git_repo == Plain(GitApi.getGitRepo)
create_git_repo == Plain(GitApi.createGitRepo)
update_git_repo == Plain(GitApi.updateGitRepo)
delete_git_repo == Tool(GitApi.deleteGitRepo, "DELETE")
clone_git_repo == Plain(GitApi.cloneGitRepo)
pull_git_repo == Plain(GitApi.pullGitRepo)
GitTools ==
  {list_git_repos, get_git_repo, create_git_repo, update_git_repo, delete_git_repo,
   clone_git_repo, pull_git_repo}

get_spider_stats == Plain(StatsApi.getSpiderStats)
get_task_stats == Plain(StatsApi.getTaskStats)
StatsTools == {get_spider_stats, get_task_stats}

list_llm_providers == Plain(LLMApi.getLLMProviders)
get_llm_provider == Plain(LLMApi.getLLMProvider)
create_llm_provider == Plain(LLMApi.createLLMProvider)
update_llm_provider == Plain(LLMApi.updateLLMProvider)
delete_llm_provider == Tool(LLMApi.deleteLLMProvider, "DELETE")
list_conversations == Plain(ConversationApi.getConversations)
get_conversation == Plain(ConversationApi.getConversation)
get_conversation_messages == Plain(ConversationApi.getConversationMessages)
list_autoprobes_v2 == Plain(AutoProbeApi.getAutoProbesV2)
get_autoprobe_v2 == Plain(AutoProbeApi.getAutoProbeV2)
create_autoprobe_v2 == Plain(AutoProbeApi.createAutoProbeV2)
run_autoprobe_v2_task == Plain(AutoProbeApi.runAutoProbeV2Task)
get_autoprobe_v2_preview == Plain(AutoProbeApi.getAutoProbeV2Preview)
get_autoprobe_v2_pattern == Plain(AutoProbeApi.getAutoProbeV2Pattern)
list_autoprobes == Plain(AutoProbeApi.getAutoProbes)
get_autoprobe == Plain(AutoProbeApi.getAutoProbe)
create_autoprobe == Plain(AutoProbeApi.createAutoProbe)
AITools ==
  {list_llm_providers, get_llm_provider, create_llm_provider, update_llm_provider,
   delete_llm_provider, list_conversations, get_conversation, get_conversation_messages,
   list_autoprobes_v2, get_autoprobe_v2, create_autoprobe_v2, run_autoprobe_v2_task,
   get_autoprobe_v2_preview, get_autoprobe_v2_pattern, list_autoprobes, get_autoprobe, create_autoprobe}

\* configureAllTools.
AllTools ==
  UNION {SpiderTools, TaskTools, NodeTools, ScheduleTools, SystemTools, ProjectTools,
         DatabaseTools, GitTools, StatsTools, AITools}
=============================================================================
