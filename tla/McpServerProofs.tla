--------------------------- MODULE McpServerProofs ---------------------------
(***************************************************************************)
(* What McpServer promises, for every set of resources and of tool calls.  *)
(* The inductive invariant says of a request that is on its way what the   *)
(* properties say of the hub: it is let through, confirmed where that is   *)
(* demanded, and has not been acted on.                                    *)
(***************************************************************************)
EXTENDS McpServer, TLAPS

Demands(effect, action) ==
  \/ effect = "remove" /\ action = "DELETE"
  \/ effect = "cancel" /\ action = "CANCEL"
  \/ effect = "disable" /\ action = "DISABLE"
  \/ effect = "update" /\ action = "UPDATE"
Actions == {"DELETE", "CANCEL", "DISABLE", "UPDATE"}
Asked == [action : Actions, id : Ids]

(* What the proofs use of a tool. *)
WellMade(t) ==
  /\ t.effect \in Effects
  /\ t.requests \in 0..5
  /\ t.health \in BOOLEAN
  /\ t.effect # "read" => t.requests = 1 /\ ~isReadOnlyMethod(t.method)
  /\ t.effect = "remove" => t.confirmation = "DELETE"
  /\ t.effect = "cancel" => t.confirmation = "CANCEL"
  /\ t.effect = "disable" => t.confirmation = "DISABLE"
  /\ t.confirmation # "none" => t.requests = 1 /\ t.effect # "update"

(* A request that is on its way, of a call that is not over. *)
Pending(n) == call[n].st \in {"sent", "late"}

RequestAllowed ==
  \A n \in Calls : Pending(n) /\ call[n].effect # "read" => mutations = "true"

RequestConfirmed ==
  \A n \in Calls, action \in Actions :
    Pending(n) /\ Demands(call[n].effect, action) => [action |-> action, id |-> call[n].id] \in asked

RequestFresh ==
  \A n \in Calls :
    /\ call[n] = NotCalled \/ Pending(n) => acts[n] = 0
    /\ Pending(n) /\ call[n].effect # "read" => call[n].left = 1

StartsIdle == phase = "starting" => \A n \in Calls : call[n] = NotCalled /\ acts[n] = 0

IInv ==
  /\ TypeOK
  /\ RequestAllowed /\ RequestConfirmed /\ RequestFresh /\ StartsIdle
  /\ ReadOnlyHub /\ RemovalConfirmed /\ OneChangePerCall

-----------------------------------------------------------------------------
(* requireDestructiveConfirmation and the client: every kind of tool is well made. *)
LEMMA KindsWellMade ==
  /\ WellMade(Plain(Get))
  /\ WellMade(Plain(Api("post", "read")))
  /\ WellMade(Plain(Api("post", "other")))
  /\ WellMade(Plain(Api("post", "enable")))
  /\ WellMade(Plain(Api("put", "replace")))
  /\ WellMade(Plain(Api("put", "update")))
  /\ WellMade(Tool(Api("delete", "remove"), "DELETE"))
  /\ WellMade(Tool(Api("post", "cancel"), "CANCEL"))
  /\ WellMade(Tool(Api("post", "disable"), "DISABLE"))
<1> DEFINE T(m, e, c) ==
             [method |-> m, effect |-> e, confirmation |-> c, requests |-> 1, health |-> FALSE]
<1>1. ASSUME NEW m, NEW e, NEW c
      PROVE  Tool(Api(m, e), c) = T(m, e, c)
  BY DEF Tool, Api
<1>2. ASSUME NEW m, NEW e \in Effects, NEW c,
             e # "read" => ~isReadOnlyMethod(m),
             e = "remove" => c = "DELETE", e = "cancel" => c = "CANCEL",
             e = "disable" => c = "DISABLE", e = "update" => c = "none"
      PROVE  WellMade(T(m, e, c))
  <2>1. /\ T(m, e, c).method = m /\ T(m, e, c).effect = e /\ T(m, e, c).confirmation = c
        /\ T(m, e, c).requests = 1 /\ T(m, e, c).health = FALSE
    OBVIOUS
  <2> HIDE DEF T
  <2>2. 1 \in 0..5
    OBVIOUS
  <2> QED
    BY <1>2, <2>1, <2>2, Zenon DEF WellMade
<1> HIDE DEF T
<1>3. \A m \in {"post", "put", "delete"} : ~isReadOnlyMethod(m)
  BY DEF isReadOnlyMethod
<1>4. /\ WellMade(T("get", "read", "none")) /\ WellMade(T("post", "read", "none"))
      /\ WellMade(T("post", "other", "none")) /\ WellMade(T("post", "enable", "none"))
      /\ WellMade(T("put", "replace", "none")) /\ WellMade(T("put", "update", "none"))
      /\ WellMade(T("delete", "remove", "DELETE"))
      /\ WellMade(T("post", "cancel", "CANCEL")) /\ WellMade(T("post", "disable", "DISABLE"))
  BY <1>2, <1>3 DEF Effects
<1> QED
  BY <1>1, <1>4 DEF Plain, Get

(* client.ts and the tool tables: each tool is well made. *)
LEMMA SpiderToolsWellMade == \A t \in SpiderTools : WellMade(t)
BY KindsWellMade DEF SpiderTools, SpiderApi,
       list_spiders, get_spider, create_spider, update_spider, delete_spider, run_spider,
       list_spider_files, get_spider_file_content, save_spider_file

(* The same of the tools on tasks. *)
LEMMA TaskToolsWellMade == \A t \in TaskTools : WellMade(t)
BY KindsWellMade DEF TaskTools, TaskApi,
       list_tasks, get_task, cancel_task, restart_task, delete_task, get_task_logs, get_task_results

(* The same of the tools on nodes. *)
LEMMA NodeToolsWellMade == \A t \in NodeTools : WellMade(t)
BY KindsWellMade DEF NodeTools, NodeApi,
       list_nodes, get_node, update_node, enable_node, disable_node

(* The same of the tools on schedules. *)
LEMMA ScheduleToolsWellMade == \A t \in ScheduleTools : WellMade(t)
BY KindsWellMade DEF ScheduleTools, ScheduleApi,
       list_schedules, get_schedule, create_schedule, update_schedule, delete_schedule,
       enable_schedule, disable_schedule

(* The same of the tools that send several requests or none. *)
LEMMA SystemToolsWellMade == \A t \in SystemTools : WellMade(t)
<1>1. ASSUME NEW r \in {0, 3, 5}
      PROVE  WellMade(Survey(r))
  <2>1. /\ Survey(r).effect = "read" /\ Survey(r).confirmation = "none"
        /\ Survey(r).requests = r /\ Survey(r).health = TRUE
    BY DEF Survey
  <2>2. r \in 0..5
    OBVIOUS
  <2> QED
    BY <2>1, <2>2, Zenon DEF WellMade, Effects
<1> QED
  BY <1>1 DEF SystemTools, health_check, system_status, get_system_overview

(* The same of the tools on projects. *)
LEMMA ProjectToolsWellMade == \A t \in ProjectTools : WellMade(t)
BY KindsWellMade DEF ProjectTools, ProjectApi,
       list_projects, get_project, create_project, update_project, delete_project

(* The same of the tools on databases. *)
LEMMA DatabaseToolsWellMade == \A t \in DatabaseTools : WellMade(t)
BY KindsWellMade DEF DatabaseTools, DatabaseApi,
       list_databases, get_database, create_database, update_database, delete_database,
       test_database_connection

(* The same of the tools on git repositories. *)
LEMMA GitToolsWellMade == \A t \in GitTools : WellMade(t)
BY KindsWellMade DEF GitTools, GitApi,
       list_git_repos, get_git_repo, create_git_repo, update_git_repo, delete_git_repo,
       clone_git_repo, pull_git_repo

(* The same of the tools on statistics. *)
LEMMA StatsToolsWellMade == \A t \in StatsTools : WellMade(t)
BY KindsWellMade DEF StatsTools, StatsApi,
       get_spider_stats, get_task_stats

(* The same of the tools on AI services. *)
LEMMA AIToolsWellMade == \A t \in AITools : WellMade(t)
<1>1. \A t \in {list_llm_providers, get_llm_provider, create_llm_provider, update_llm_provider,
                delete_llm_provider} : WellMade(t)
  BY KindsWellMade DEF LLMApi,
         list_llm_providers, get_llm_provider, create_llm_provider, update_llm_provider,
         delete_llm_provider
<1>2. \A t \in {list_conversations, get_conversation, get_conversation_messages} : WellMade(t)
  BY KindsWellMade DEF ConversationApi,
         list_conversations, get_conversation, get_conversation_messages
<1>3. \A t \in {list_autoprobes_v2, get_autoprobe_v2, create_autoprobe_v2, run_autoprobe_v2_task,
                get_autoprobe_v2_preview, get_autoprobe_v2_pattern, list_autoprobes,
                get_autoprobe, create_autoprobe} : WellMade(t)
  BY KindsWellMade DEF AutoProbeApi,
         list_autoprobes_v2, get_autoprobe_v2, create_autoprobe_v2, run_autoprobe_v2_task,
         get_autoprobe_v2_preview, get_autoprobe_v2_pattern, list_autoprobes, get_autoprobe,
         create_autoprobe
<1> QED
  BY <1>1, <1>2, <1>3 DEF AITools

(* configureAllTools: every tool of the server is well made. *)
LEMMA ToolsWellMade == \A t \in AllTools : WellMade(t)
BY SpiderToolsWellMade, TaskToolsWellMade, NodeToolsWellMade, ScheduleToolsWellMade,
   SystemToolsWellMade, ProjectToolsWellMade, DatabaseToolsWellMade, GitToolsWellMade,
   StatsToolsWellMade, AIToolsWellMade DEF AllTools

-----------------------------------------------------------------------------
(* The hub acts on a request that is on its way: its effect on the resources is one the   *)
(* request was confirmed for, and it is the first time.                                   *)
LEMMA Acting ==
  ASSUME IInv, NEW n \in Calls, Pending(n), Act(n)
  PROVE  /\ hub' \in [Ids -> {"active", "removed", "cancelled", "disabled", "replaced"}]
         /\ acts' \in [Calls -> Nat]
         /\ \A m \in Calls : m # n => acts'[m] = acts[m]
         /\ acts'[n] = IF call[n].effect = "read" THEN 0 ELSE 1
         /\ \A i \in Ids :
              /\ hub'[i] = "removed" => [action |-> "DELETE", id |-> i] \in asked
              /\ hub'[i] = "cancelled" => [action |-> "CANCEL", id |-> i] \in asked
              /\ hub'[i] = "disabled" => \E a \in {"DISABLE", "UPDATE"} : [action |-> a, id |-> i] \in asked
<1>1. PICK k \in Ids : k = call[n].id
  BY DEF IInv, TypeOK, Requests, Pending, NotCalled, Over, Health
<1>2. PICK e \in Effects : e = call[n].effect
  BY DEF IInv, TypeOK, Requests, Pending, NotCalled, Over, Health
<1>3. hub \in [Ids -> {"active", "removed", "cancelled", "disabled", "replaced"}]
  BY DEF IInv, TypeOK
<1>4. PICK new \in Outcomes(e, hub[k]) : hub' = [hub EXCEPT ![k] = new]
  BY <1>1, <1>2, <1>3 DEF Act
<1>5. new \in {"active", "removed", "cancelled", "disabled", "replaced"}
  BY <1>1, <1>2, <1>3, <1>4 DEF Outcomes, Effects
<1>6. hub' \in [Ids -> {"active", "removed", "cancelled", "disabled", "replaced"}]
  BY <1>3, <1>4, <1>5
<1>7. acts \in [Calls -> Nat] /\ acts[n] = 0
  BY DEF IInv, TypeOK, RequestFresh
<1>8. acts' = IF e = "read" THEN acts ELSE [acts EXCEPT ![n] = acts[n] + 1]
  BY <1>2, <1>7 DEF Act
<1>9. /\ acts' \in [Calls -> Nat]
      /\ \A m \in Calls : m # n => acts'[m] = acts[m]
      /\ acts'[n] = IF e = "read" THEN 0 ELSE 1
  BY <1>7, <1>8
<1>10. /\ new = "removed" => hub[k] = "removed" \/ e = "remove"
       /\ new = "cancelled" => hub[k] = "cancelled" \/ e = "cancel"
       /\ new = "disabled" => hub[k] = "disabled" \/ e \in {"disable", "update"}
  BY <1>1, <1>2, <1>3, <1>4 DEF Outcomes, Effects
<1>11. /\ e = "remove" => [action |-> "DELETE", id |-> k] \in asked
       /\ e = "cancel" => [action |-> "CANCEL", id |-> k] \in asked
       /\ e = "disable" => [action |-> "DISABLE", id |-> k] \in asked
       /\ e = "update" => [action |-> "UPDATE", id |-> k] \in asked
  BY <1>1, <1>2 DEF IInv, RequestConfirmed, Demands, Actions
<1>12. ASSUME NEW i \in Ids
       PROVE  /\ hub'[i] = "removed" => [action |-> "DELETE", id |-> i] \in asked
              /\ hub'[i] = "cancelled" => [action |-> "CANCEL", id |-> i] \in asked
              /\ hub'[i] = "disabled" => \E a \in {"DISABLE", "UPDATE"} : [action |-> a, id |-> i] \in asked
  <2>1. hub'[i] = IF i = k THEN new ELSE hub[i]
    BY <1>3, <1>4
  <2>2. /\ hub[i] = "removed" => [action |-> "DELETE", id |-> i] \in asked
        /\ hub[i] = "cancelled" => [action |-> "CANCEL", id |-> i] \in asked
        /\ hub[i] = "disabled" => \E a \in {"DISABLE", "UPDATE"} : [action |-> a, id |-> i] \in asked
    BY DEF IInv, RemovalConfirmed
  <2> QED
    BY <2>1, <2>2, <1>10, <1>11
<1> QED
  BY <1>2, <1>6, <1>9, <1>12

(* A call that ends, or goes on to the health check, leaves the invariant to what the hub *)
(* has done in the same step.                                                             *)
LEMMA Ends ==
  ASSUME IInv, NEW n \in Calls, call[n] # NotCalled, NEW r \in {Over, Health},
         call' = [call EXCEPT ![n] = r], UNCHANGED <<phase, mutations, asked>>,
         \/ UNCHANGED <<hub, acts>>
         \/ Pending(n) /\ Act(n)
  PROVE  IInv'
<1>1. /\ hub' \in [Ids -> {"active", "removed", "cancelled", "disabled", "replaced"}]
      /\ acts' \in [Calls -> Nat]
      /\ \A m \in Calls : m # n => acts'[m] = acts[m]
      /\ acts'[n] \in {0, 1}
      /\ acts'[n] = 0 \/ acts'[n] = acts[n] \/ (Pending(n) /\ call[n].effect # "read")
      /\ \A i \in Ids :
           /\ hub'[i] = "removed" => [action |-> "DELETE", id |-> i] \in asked
           /\ hub'[i] = "cancelled" => [action |-> "CANCEL", id |-> i] \in asked
           /\ hub'[i] = "disabled" => \E a \in {"DISABLE", "UPDATE"} : [action |-> a, id |-> i] \in asked
  <2>1. CASE UNCHANGED <<hub, acts>>
    <3>1. hub' = hub /\ acts' = acts
      BY <2>1
    <3>2. acts[n] \in {0, 1}
      BY DEF IInv, TypeOK, OneChangePerCall
    <3> QED
      BY <3>1, <3>2 DEF IInv, TypeOK, RemovalConfirmed
  <2>2. CASE Pending(n) /\ Act(n)
    BY <2>2, Acting
  <2> QED
    BY <2>1, <2>2
<1>2. call \in [Calls -> {NotCalled, Over, Health} \cup Requests]
  BY DEF IInv, TypeOK
<1>3. call' \in [Calls -> {NotCalled, Over, Health} \cup Requests]
  BY <1>2
<1>4. /\ call'[n] = r /\ r.st \notin {"sent", "late"} /\ r # NotCalled
      /\ \A m \in Calls : m # n => call'[m] = call[m]
  BY <1>2 DEF Over, Health, NotCalled
<1>5. TypeOK'
  BY <1>1, <1>3 DEF IInv, TypeOK
<1>6. RequestAllowed'
  BY <1>4 DEF IInv, RequestAllowed, Pending
<1>7. RequestConfirmed'
  <2>1. SUFFICES ASSUME NEW m \in Calls, NEW a \in Actions,
                        call'[m].st \in {"sent", "late"}, Demands(call'[m].effect, a)
                 PROVE  [action |-> a, id |-> call'[m].id] \in asked
    BY DEF RequestConfirmed, Pending, Demands
  <2>2. m # n /\ call'[m] = call[m]
    BY <1>4, <2>1
  <2> QED
    BY <2>1, <2>2 DEF IInv, RequestConfirmed, Pending
<1>8. RequestFresh'
  <2>1. SUFFICES ASSUME NEW m \in Calls
                 PROVE  /\ call'[m] = NotCalled \/ call'[m].st \in {"sent", "late"} => acts'[m] = 0
                        /\ call'[m].st \in {"sent", "late"} /\ call'[m].effect # "read"
                             => call'[m].left = 1
    BY DEF RequestFresh, Pending, NotCalled
  <2>2. CASE m = n
    BY <1>4, <2>2
  <2>3. CASE m # n
    BY <1>1, <1>4, <2>3 DEF IInv, RequestFresh, Pending
  <2> QED
    BY <2>2, <2>3
<1>9. StartsIdle'
  BY <1>1, <1>4 DEF IInv, StartsIdle, Pending
<1>10. ReadOnlyHub'
  <2>1. SUFFICES ASSUME NEW m \in Calls, acts'[m] > 0
                 PROVE  mutations = "true"
    BY DEF ReadOnlyHub
  <2>2. acts \in [Calls -> Nat]
    BY DEF IInv, TypeOK
  <2>3. acts[m] > 0 => mutations = "true"
    BY DEF IInv, ReadOnlyHub
  <2>4. Pending(n) /\ call[n].effect # "read" => mutations = "true"
    BY DEF IInv, RequestAllowed
  <2> QED
    BY <1>1, <2>1, <2>2, <2>3, <2>4
<1>11. RemovalConfirmed'
  BY <1>1 DEF RemovalConfirmed
<1>12. OneChangePerCall'
  BY <1>1 DEF IInv, OneChangePerCall
<1> QED
  BY <1>5, <1>6, <1>7, <1>8, <1>9, <1>10, <1>11, <1>12 DEF IInv

(* A call that is made, with a request that is let through and confirmed. *)
LEMMA Sends ==
  ASSUME IInv, phase = "serving", NEW n \in Calls, call[n] = NotCalled, NEW r \in Requests,
         call' = [call EXCEPT ![n] = r], UNCHANGED <<phase, mutations, hub, acts>>,
         asked \subseteq asked', asked' \subseteq Asked,
         r.effect # "read" => mutations = "true" /\ r.left = 1,
         \A action \in Actions :
           Demands(r.effect, action) => [action |-> action, id |-> r.id] \in asked'
  PROVE  IInv'
<1>1. call \in [Calls -> {NotCalled, Over, Health} \cup Requests]
  BY DEF IInv, TypeOK
<1>2. call'[n] = r /\ \A m \in Calls : m # n => call'[m] = call[m]
  BY <1>1
<1>3. TypeOK'
  BY <1>1 DEF IInv, TypeOK, Asked, Actions
<1>4. RequestAllowed'
  BY <1>2 DEF IInv, RequestAllowed, Pending
<1>5. RequestConfirmed'
  BY <1>2 DEF IInv, RequestConfirmed, Pending
<1>6. RequestFresh'
  <2>1. acts[n] = 0
    BY DEF IInv, RequestFresh
  <2>2. r # NotCalled
    BY DEF Requests, NotCalled
  <2> QED
    BY <1>2, <2>1, <2>2 DEF IInv, RequestFresh, Pending
<1>7. StartsIdle' /\ ReadOnlyHub' /\ OneChangePerCall'
  BY DEF IInv, StartsIdle, ReadOnlyHub, OneChangePerCall
<1>8. RemovalConfirmed'
  BY DEF IInv, RemovalConfirmed
<1> QED
  BY <1>3, <1>4, <1>5, <1>6, <1>7, <1>8 DEF IInv

(* A call that ends before it sends a request. *)
LEMMA EndsUnsent ==
  ASSUME IInv, phase = "serving", NEW n \in Calls, call[n] = NotCalled, NEW r \in {Over, Health},
         call' = [call EXCEPT ![n] = r], UNCHANGED <<phase, mutations, hub, acts, asked>>
  PROVE  IInv'
<1>1. call \in [Calls -> {NotCalled, Over, Health} \cup Requests]
  BY DEF IInv, TypeOK
<1>2. /\ call'[n] = r /\ r.st \notin {"sent", "late"} /\ r # NotCalled
      /\ \A m \in Calls : m # n => call'[m] = call[m]
  BY <1>1 DEF Over, Health, NotCalled
<1>3. TypeOK'
  BY <1>1 DEF IInv, TypeOK
<1>4. RequestAllowed' /\ RequestConfirmed'
  BY <1>2 DEF IInv, RequestAllowed, RequestConfirmed, Pending
<1>5. RequestFresh'
  BY <1>2 DEF IInv, RequestFresh, Pending
<1>6. StartsIdle' /\ ReadOnlyHub' /\ OneChangePerCall' /\ RemovalConfirmed'
  BY DEF IInv, StartsIdle, ReadOnlyHub, OneChangePerCall, RemovalConfirmed
<1> QED
  BY <1>3, <1>4, <1>5, <1>6 DEF IInv

(* A call that goes on waiting: some answers of a survey are there, or the client has     *)
(* given up on a request that has not been acted on.                                      *)
LEMMA GoesOn ==
  ASSUME IInv, NEW n \in Calls, Pending(n), NEW r \in Requests,
         r.effect = call[n].effect, r.id = call[n].id, r.left = call[n].left \/ r.effect = "read",
         call' = [call EXCEPT ![n] = r], UNCHANGED <<phase, mutations, hub, acts, asked>>
  PROVE  IInv'
<1>1. call \in [Calls -> {NotCalled, Over, Health} \cup Requests]
  BY DEF IInv, TypeOK
<1>2. call'[n] = r /\ \A m \in Calls : m # n => call'[m] = call[m]
  BY <1>1
<1>3. r # NotCalled /\ call[n] # NotCalled
  BY DEF Requests, NotCalled, Pending
<1>4. TypeOK'
  BY <1>1 DEF IInv, TypeOK
<1>5. RequestAllowed'
  BY <1>2 DEF IInv, RequestAllowed, Pending
<1>6. RequestConfirmed'
  <2>1. SUFFICES ASSUME NEW m \in Calls, NEW a \in Actions,
                        call'[m].st \in {"sent", "late"}, Demands(call'[m].effect, a)
                 PROVE  [action |-> a, id |-> call'[m].id] \in asked
    BY DEF RequestConfirmed, Pending, Demands
  <2>2. call'[m].effect = call[m].effect /\ call'[m].id = call[m].id /\ Pending(m)
    BY <1>2, <2>1 DEF Pending
  <2>3. [action |-> a, id |-> call[m].id] \in asked
    BY <2>1, <2>2 DEF IInv, RequestConfirmed
  <2> QED
    BY <2>2, <2>3
<1>7. RequestFresh'
  BY <1>2, <1>3 DEF IInv, RequestFresh, Pending
<1>8. StartsIdle'
  BY <1>3 DEF IInv, StartsIdle
<1>9. ReadOnlyHub' /\ OneChangePerCall' /\ RemovalConfirmed'
  BY DEF IInv, ReadOnlyHub, OneChangePerCall, RemovalConfirmed
<1> QED
  BY <1>4, <1>5, <1>6, <1>7, <1>8, <1>9 DEF IInv

-----------------------------------------------------------------------------
(* Nothing has happened when the process starts. *)
LEMMA InvInit == Init => IInv
BY DEF Init, IInv, TypeOK, RequestAllowed, RequestConfirmed, RequestFresh, StartsIdle,
       ReadOnlyHub, RemovalConfirmed, OneChangePerCall, Pending, NotCalled, Flags

(* main: the flag is read before the first call. *)
LEMMA StartStep ==
  ASSUME IInv, NEW env \in Environment, Start(env) \/ StartFails(env)
  PROVE  IInv'
<1>1. /\ phase = "starting" /\ phase' \in {"serving", "failed"}
      /\ UNCHANGED <<hub, acts, asked, call>> /\ mutations' \in Flags
  BY DEF Start, StartFails, Environment, IInv, TypeOK
<1>2. \A n \in Calls : call[n] = NotCalled /\ acts[n] = 0
  BY <1>1 DEF IInv, StartsIdle
<1>3. TypeOK'
  BY <1>1 DEF IInv, TypeOK
<1>4. \A n \in Calls : call'[n] = NotCalled /\ ~(call'[n].st \in {"sent", "late"}) /\ acts'[n] = 0
  BY <1>1, <1>2 DEF NotCalled
<1>5. RequestAllowed' /\ RequestConfirmed' /\ RequestFresh' /\ StartsIdle'
  BY <1>1, <1>4 DEF RequestAllowed, RequestConfirmed, RequestFresh, StartsIdle, Pending
<1>6. ReadOnlyHub' /\ OneChangePerCall'
  BY <1>4 DEF ReadOnlyHub, OneChangePerCall
<1>7. RemovalConfirmed'
  BY <1>1 DEF IInv, RemovalConfirmed
<1> QED
  BY <1>3, <1>5, <1>6, <1>7 DEF IInv

(* A handler without confirmation. *)
LEMMA CallStep ==
  ASSUME IInv, NEW n \in Calls, NEW tool \in AllTools, NEW id \in Ids, Call(n, tool, id)
  PROVE  IInv'
<1>1. WellMade(tool)
  BY ToolsWellMade
<1>2. call \in [Calls -> {NotCalled, Over, Health} \cup Requests]
  BY DEF IInv, TypeOK
<1>3. CASE ~LetThrough(tool)
  BY <1>3, EndsUnsent DEF Call
<1>4. CASE LetThrough(tool) /\ tool.requests = 0
  <2>1. tool.effect # "update"
    BY <1>1, <1>4 DEF WellMade
  <2> QED
    BY <1>4, <2>1, EndsUnsent DEF Call
<1>5. CASE LetThrough(tool) /\ tool.requests # 0
  <2>1. /\ tool.effect \in Effects /\ tool.requests \in 1..5 /\ tool.health \in BOOLEAN
    BY <1>1, <1>5 DEF WellMade
  <2>2. PICK r : r = Sent(tool, id)
    OBVIOUS
  <2>3. r \in Requests
    BY <2>1, <2>2 DEF Sent, Requests
  <2>4. r.effect = tool.effect /\ r.id = id /\ r.left = tool.requests
    BY <2>2 DEF Sent
  <2>5. call' = [call EXCEPT ![n] = r]
    BY <1>5, <2>2 DEF Call
  <2>6. r.effect # "read" => mutations = "true" /\ r.left = 1
    BY <1>1, <1>5, <2>4 DEF WellMade, LetThrough, mutationsAreEnabled
  <2>7. r.effect \notin {"remove", "cancel", "disable"}
    BY <1>1, <2>4 DEF WellMade, Call
  <2>8. /\ phase = "serving" /\ call[n] = NotCalled /\ UNCHANGED <<phase, mutations, hub, acts>>
        /\ asked' = IF tool.effect = "update" THEN asked \cup {[action |-> "UPDATE", id |-> id]} ELSE asked
    BY <1>5 DEF Call
  <2>9. asked \subseteq asked' /\ asked' \subseteq Asked
    <3>1. asked \subseteq Asked /\ [action |-> "UPDATE", id |-> id] \in Asked
      BY DEF IInv, TypeOK, Asked, Actions
    <3> QED
      BY <2>8, <3>1
  <2>10. ASSUME NEW action \in Actions, Demands(r.effect, action)
         PROVE  [action |-> action, id |-> r.id] \in asked'
    BY <2>4, <2>7, <2>8, <2>10 DEF Demands
  <2> QED
    BY <2>3, <2>5, <2>6, <2>8, <2>9, <2>10, Sends
<1> QED
  BY <1>3, <1>4, <1>5

(* A handler that demands a confirmation. *)
LEMMA CallConfirmedStep ==
  ASSUME IInv, NEW n \in Calls, NEW tool \in AllTools, NEW id \in Ids,
         NEW c \in Confirmations, CallConfirmed(n, tool, id, c)
  PROVE  IInv'
<1>1. WellMade(tool)
  BY ToolsWellMade
<1>2. /\ phase = "serving" /\ call[n] = NotCalled /\ tool.confirmation # "none"
      /\ UNCHANGED <<phase, mutations, hub, acts>>
  BY DEF CallConfirmed
<1>3. CASE ~(Confirms(tool, id, c) /\ LetThrough(tool))
  BY <1>2, <1>3, EndsUnsent DEF CallConfirmed
<1>4. CASE Confirms(tool, id, c) /\ LetThrough(tool)
  <2>1. tool.effect \in Effects /\ tool.requests = 1 /\ tool.health \in BOOLEAN
    BY <1>1, <1>2 DEF WellMade
  <2>2. PICK r : r = Sent(tool, id)
    OBVIOUS
  <2>3. r \in Requests
    <3>1. 1 \in 1..5
      OBVIOUS
    <3> QED
      BY <2>1, <2>2, <3>1 DEF Sent, Requests
  <2>4. r.effect = tool.effect /\ r.id = id /\ r.left = 1
    BY <2>1, <2>2 DEF Sent
  <2>5. call' = [call EXCEPT ![n] = r] /\ asked' = asked \cup {c}
    BY <1>4, <2>2 DEF CallConfirmed
  <2>6. r.effect # "read" => mutations = "true"
    BY <1>1, <1>4, <2>4 DEF WellMade, LetThrough, mutationsAreEnabled
  <2>7. asked \subseteq asked' /\ asked' \subseteq Asked /\ c \in asked'
    BY <2>5 DEF IInv, TypeOK, Asked, Actions, Confirmations
  <2>8. ASSUME NEW a \in Actions, Demands(r.effect, a)
        PROVE  [action |-> a, id |-> r.id] \in asked'
    <3>1. c.action = a /\ c.id = r.id
      BY <1>1, <1>2, <1>4, <2>4, <2>8 DEF WellMade, Confirms, Demands
    <3>2. c = [action |-> a, id |-> r.id]
      BY <3>1 DEF Confirmations
    <3> QED
      BY <2>7, <3>2
  <2> QED
    BY <1>2, <2>3, <2>4, <2>5, <2>6, <2>7, <2>8, Sends
<1> QED
  BY <1>3, <1>4

(* The hub acts and answers. *)
LEMMA HubAnswersStep ==
  ASSUME IInv, NEW n \in Calls, HubAnswers(n)
  PROVE  IInv'
<1>1. call \in [Calls -> {NotCalled, Over, Health} \cup Requests]
  BY DEF IInv, TypeOK
<1>2. /\ call[n].st = "sent" /\ Pending(n) /\ call[n] # NotCalled /\ call[n] \in Requests
      /\ Act(n) /\ UNCHANGED <<phase, mutations, asked>>
  BY <1>1 DEF HubAnswers, Pending, NotCalled, Over, Health
<1>3. CASE call[n].left > 1
  <2>1. PICK r : r = [call[n] EXCEPT !.left = call[n].left - 1]
    OBVIOUS
  <2>2. call[n].left \in 1..5 /\ call[n].left - 1 \in 1..5
    BY <1>2, <1>3 DEF Requests
  <2>3. r \in Requests /\ r.effect = call[n].effect /\ r.id = call[n].id
    BY <1>2, <2>1, <2>2 DEF Requests
  <2>4. call[n].effect = "read"
    BY <1>2, <1>3 DEF IInv, RequestFresh
  <2>5. call' = [call EXCEPT ![n] = r]
    BY <1>1, <1>3, <2>1 DEF HubAnswers
  <2>6. acts' = acts
    BY <1>2, <2>4 DEF Act
  <2>7. hub' = hub
    <3>1. PICK k \in Ids : k = call[n].id
      BY <1>2 DEF Requests
    <3>2. hub \in [Ids -> {"active", "removed", "cancelled", "disabled", "replaced"}]
      BY DEF IInv, TypeOK
    <3>3. Outcomes("read", hub[k]) = {hub[k]}
      BY DEF Outcomes
    <3>4. hub' = [hub EXCEPT ![k] = hub[k]]
      BY <1>2, <2>4, <3>1, <3>2, <3>3 DEF Act
    <3> QED
      BY <3>2, <3>4
  <2> QED
    BY <1>2, <2>3, <2>4, <2>5, <2>6, <2>7, GoesOn
<1>4. CASE ~(call[n].left > 1)
  <2>1. PICK r \in {Over, Health} : call' = [call EXCEPT ![n] = r]
    BY <1>1, <1>4 DEF HubAnswers
  <2> QED
    BY <1>2, <2>1, Ends
<1> QED
  BY <1>3, <1>4

(* The hub refuses, or the health check is over. *)
LEMMA HubRefusesStep ==
  ASSUME IInv, NEW n \in Calls, HubRefuses(n) \/ HealthChecked(n)
  PROVE  IInv'
<1>1. call[n] # NotCalled
  BY DEF HubRefuses, HealthChecked, NotCalled
<1>2. call' = [call EXCEPT ![n] = Over] /\ UNCHANGED <<phase, mutations, hub, acts, asked>>
  BY DEF HubRefuses, HealthChecked
<1> QED
  BY <1>1, <1>2, Ends

(* The client gives up on a request. *)
LEMMA NoAnswerStep ==
  ASSUME IInv, NEW n \in Calls, NEW acted \in BOOLEAN, NoAnswer(n, acted)
  PROVE  IInv'
<1>1. call \in [Calls -> {NotCalled, Over, Health} \cup Requests]
  BY DEF IInv, TypeOK
<1>2. /\ call[n].st = "sent" /\ Pending(n) /\ call[n] # NotCalled /\ call[n] \in Requests
      /\ UNCHANGED <<phase, mutations, asked>>
  BY <1>1 DEF NoAnswer, Pending, NotCalled, Over, Health
<1>3. CASE acted \/ call[n].effect = "read"
  <2>1. call' = [call EXCEPT ![n] = Over]
    BY <1>1, <1>3 DEF NoAnswer
  <2>2. Act(n) \/ UNCHANGED <<hub, acts>>
    BY DEF NoAnswer
  <2> QED
    BY <1>2, <2>1, <2>2, Ends
<1>4. CASE ~(acted \/ call[n].effect = "read")
  <2>1. PICK r : r = [call[n] EXCEPT !.st = "late"]
    OBVIOUS
  <2>2. r \in Requests /\ r.effect = call[n].effect /\ r.id = call[n].id /\ r.left = call[n].left
    BY <1>2, <2>1 DEF Requests
  <2>3. call' = [call EXCEPT ![n] = r]
    BY <1>1, <1>4, <2>1 DEF NoAnswer
  <2>4. UNCHANGED <<hub, acts>>
    BY <1>4 DEF NoAnswer
  <2> QED
    BY <1>2, <2>2, <2>3, <2>4, GoesOn
<1> QED
  BY <1>3, <1>4

(* A request arrives after its call has failed. *)
LEMMA LateRequestStep ==
  ASSUME IInv, NEW n \in Calls, LateRequest(n)
  PROVE  IInv'
<1>1. Pending(n) /\ call[n] # NotCalled /\ Act(n)
  BY DEF LateRequest, Pending, NotCalled
<1>2. call' = [call EXCEPT ![n] = Over] /\ UNCHANGED <<phase, mutations, asked>>
  BY DEF LateRequest
<1> QED
  BY <1>1, <1>2, Ends

(* Every step of the server and the hub keeps the invariant. *)
LEMMA InvStep == IInv /\ [Next]_vars => IInv'
<1> SUFFICES ASSUME IInv, [Next]_vars
             PROVE  IInv'
  OBVIOUS
<1>1. CASE UNCHANGED vars
  <2>1. UNCHANGED <<phase, mutations, hub, acts, asked, call>>
    BY <1>1 DEF vars
  <2> QED
    BY <2>1 DEF IInv, TypeOK, RequestAllowed, RequestConfirmed, RequestFresh, StartsIdle,
                ReadOnlyHub, RemovalConfirmed, OneChangePerCall, Pending
<1>2. CASE Next
  BY <1>2, StartStep, CallStep, CallConfirmedStep, HubAnswersStep, HubRefusesStep, NoAnswerStep,
     LateRequestStep DEF Next
<1> QED
  BY <1>1, <1>2

(* The invariant holds in every reachable state. *)
LEMMA Invariance == Spec => []IInv
BY InvInit, InvStep, PTL DEF Spec

(* Type correctness: a call under way waits for at least one answer. *)
THEOREM TypeCorrect == Spec => []TypeOK
<1>1. IInv => TypeOK
  BY DEF IInv
<1> QED
  BY <1>1, Invariance, PTL

(* The request interceptor: without ASTIANGO_MCP_ALLOW_MUTATIONS=true no tool, called in   *)
(* any order and however late its request arrives, changes anything at the hub.           *)
THEOREM ReadOnly == Spec => []ReadOnlyHub
<1>1. IInv => ReadOnlyHub
  BY DEF IInv
<1> QED
  BY <1>1, Invariance, PTL

(* requireDestructiveConfirmation: nothing is removed or cancelled but what a call has    *)
(* named, and nothing is disabled but what a call has named or updated.                   *)
THEOREM Confirmed == Spec => []RemovalConfirmed
<1>1. IInv => RemovalConfirmed
  BY DEF IInv
<1> QED
  BY <1>1, Invariance, PTL

(* The client never repeats a request: the hub makes the change of a call at most once.   *)
THEOREM AtMostOnce == Spec => []OneChangePerCall
<1>1. IInv => OneChangePerCall
  BY DEF IInv
<1> QED
  BY <1>1, Invariance, PTL
=============================================================================
