# TLA+ models of Astiango Hub

Astiango Hub is a distributed crawler platform. One **master** and any number of
**worker nodes**, written in Go (`src/core`), share a MongoDB database and talk
gRPC: a user or a cron schedule asks for a spider to be run, the master queues a
*task* for a node, the node fetches it, runs it as a sandboxed process and reports
back. Users work with a **web client** (`src/frontend/astiango-hub-ui`, Vue and
Vuex), AI assistants with an **MCP server** (`src/mcp`); both talk to the master's
HTTP API.

This directory models the parts in which several actors, late answers and failures
meet, checks the models with TLC on small instances and proves the central safety
properties with TLAPS for every instance.

Contents: [inventory](#inventory), [what is hard](#what-is-hard-in-this-code),
[modules](#modules), [runs](#runs), [fairness](#fairness), [proofs](#proofs),
[findings](#findings), [limits](#limits-of-what-is-shown),
[not modelled](#not-modelled), [plan](#plan). `PROJECT.json` gives for every
definition the source lines it stands for, for every hazard its line, and for every
property the variant of a definition that breaks it.

## Inventory

### Backend (`src/core`)

| component | state it keeps | operations | interacts with |
|---|---|---|---|
| Worker pool `task/handler/worker_pool.go` | limit, worker count, a replaceable queue (Go channel), context | `SubmitTask`, `maybeCreateWorker`, `worker`, `UpdateMaxWorkers`, `Stop` | called by the fetch loop, the status reporter and `Service.Stop`; calls `executeTask` |
| Task handler service `task/handler/service*.go` | `runners` (task -> runner), fetch and report loops | `processFetchCycle`, `runTask`, `executeTask`, `handleCancel`, `cancelTask`, `checkAndCleanupStuckTasks` | FetchTask over gRPC, worker pool, runners, cancel stream |
| Task runner `task/handler/runner.go` | its copy of the task document, process, context, status cache | `newTaskRunner`, `Run`, `wait`, `updateTask`, `Cancel` | replaces the task document, docker container named after the task |
| Scheduler `task/scheduler/service.go` | none but the database | `Enqueue`, `Cancel`, `SaveTask`, `initTaskStatus` | task documents, cancel streams |
| FetchTask and streams `grpc/server/task_service_server.go` | table of cancel streams | `FetchTask`, `Subscribe`, `SendNotify`, `Connect` | task documents, workers |
| Reconciliation `node/service/task_reconciliation_service.go` | none but the database | offline handling, three reconnection passes, periodic passes | task documents, stream table, node documents |
| Node monitoring `node/service/master_service.go`, `worker_service.go`, `grpc/server/node_service_server.go` | node documents, node streams | health check, register, heartbeat, offline/online | drives the reconciliation |
| Schedule service `schedule/service.go`, `controllers/schedule.go` | cron table and its ids against schedule documents | `Init`, `Enable`, `Disable`, the update pass, the HTTP handlers | spider admin; users; the database |
| Runner status cache `task/handler/runner_status_cache.go` | cached snapshots, pending updates, a cache file | cache, sync, persist, load | runner, reconnection |
| Stream manager `task/handler/stream_manager.go` | stream table, message queue | add, remove, listen, process, clean up | delivers cancel signals to the handler service |
| gRPC client `grpc/client/client.go` | connection, clients, circuit breaker, reconnect flag | connect, reconnect, breaker, health | everything a worker sends |
| Log connection `task/handler/runner_log.go` | log stream, log circuit breaker | write, reconnect | runner |
| Spider admin `spider/admin/service.go` | none | one task per node, or one unbound task | scheduler |
| Users and access | sessions: access and refresh tokens | issue, rotate, revoke, authorise | web client, MCP server |
| Sync, dependency, model services, export, notification, statistics, HTTP API | database rows, files | request handling | no protocol of their own |

Everything that changes a task or a schedule does it the same way: read the
document, change the copy, later replace the *whole* document by the copy
(`ReplaceById`). There is no version field, and FetchTask's transaction is opened
but its session is passed to none of the calls inside. Seven writers share each task
document: Enqueue, Cancel, FetchTask, the fetch loop, the runner, the reconciler and
a restarted master.

### Web client and MCP server

| component | state it keeps | operations | interacts with |
|---|---|---|---|
| Session `services/request.ts`, `utils/auth.ts`, router guard, login, header | the token pair in `localStorage`, `refreshPromise` per window | request, refresh and retry, login, logout, password change, navigation | every window of the browser, the hub's token rotation |
| List pages `layouts/content/list`, `utils/store.ts`, `useForm.ts`, sixteen `use…List.tsx` | rows, page, filter, spinner, dialog and its form | list, page, filter, automatic refresh, delete, switches, row actions, create, edit | the collection at the hub, which others change too |
| Spider detail page and file editor `layouts/content/detail`, `components/ui/file` | the form, tabs, active file, text, cache of saved text | navigate, save, open, type, save file, close, create, upload, rename, copy, delete | the spider and its files at the hub |
| Panels: tabs, groups of actions and dialogs of the detail pages | what they show, interval timers, spinners | load, poll, operate and load again, open and close | the document of the route; git, dependency, task, node, notification, probe and system services of the hub |
| MCP server `src/mcp/src` | configuration, calls under way | start, 68 tools, interceptor, time limit | AI assistants, the hub |

### What correct means

* worker pool: a submission is executed at most once and never lost without a word,
  also while the queue is replaced; no request stays in a replaced queue; the worker
  count is true and within the limit; accepted work is executed and `Stop` returns;
* task path: a task does not run more often than somebody asked for, nor on a node
  it was not bound to; `finished` is only said of a task that ran; the registry of
  runners is true; every task settles;
* schedules: the entry a document names is its own, every enabled schedule ends up with
  an entry, and no entry stays that no enabled schedule names;
* session: a refresh token is used once per window, nobody is left waiting for a
  refresh, a session goes only for a reason, an old pair never comes back;
* lists, pages, panels: spinners end, deleted documents stay deleted, a save never
  writes one document into another, what polls ends up showing what the hub has, no
  timer is left behind;
* MCP server: read-only unless told otherwise, nothing is removed without its
  confirmation, a call changes the hub at most once and always returns.

## What is hard in this code

`PROJECT.json` lists each hazard at its line. In short: reads and whole-document
writes of several actors interleave (FetchTask against Cancel, the reconciler against
the runner, the schedule update pass against users); the reconciliation runs after
*every* passed health check, so it meets tasks in the middle of their life; workers
crash, the master restarts and counts cron entries from 1 again; answers and status
writes get lost; two runs of one task on a node share one registry key and one
container name; a worker pool's queue is loaded without the lock its replacement
holds; timeouts (idle workers, hanging cancels, MCP calls) race with what they time
out. In the browser everything after an `await` runs in a page that may have moved
on: another document, another query, a closed dialog, another window's session.

## Modules

| component module | instances | theorems | extends or implements |
|---|---|---|---|
| `TaskWorkerPool` | `MCTaskWorkerPool` | `TaskWorkerPoolProofs` | |
| `TaskDispatch` | `MCTaskDispatch` | `TaskDispatchProofs` | composes scheduler, FetchTask, handler, runners, cancel path, nodes and reconciliation; implements `TaskLifecycle` |
| `Schedule` | `MCSchedule` | `ScheduleProofs` | |
| `Session` | `MCSession` | `SessionProofs` | implements `TokenStore` |
| `ListPage` | `MCListPage` | `ListPageProofs` | `ListViews`: what tells the sixteen views apart |
| `DetailPage` | `MCDetailPage` | `DetailPageProofs` | |
| `PanelPage` | `MCPanelPage` | `PanelPageProofs` | `Panels`: one record per panel |
| `McpServer` | `MCMcpServer` | `McpServerProofs` | `McpTools`: the 68 tools and the calls of the client |

### TaskWorkerPool

Go channels are numbered; `cur` is the one `pool.taskQueue` points to. `buf`, `cap`
and `closed` describe them. Each of the four kinds of goroutine has its program
counter: `sub` (fetch loop), `worker`, `upd` (status reporter) and `stop`. Because
`pool.taskQueue` is read outside the mutex, loading the channel and using it are
separate steps (`SubmitLoad`/`SubmitSend`, `WorkerLoad`/`WorkerReceive`,
`StopLoad`/`StopClose`); `workerMutex` is held from `UpdateMaxWorkers` to
`UpdateEnd`. Go's semantics are part of the model: a send on a closed channel and a
second close panic. The panic is recovered where the code recovers it
(`SubmitPanic`, `UpdateCopyPanic`: the loop ends) and ends the process where it does
not (`StopClose`). A channel's buffer is a set, since a request is one call of
`SubmitTask` and nothing depends on the order.

### TaskDispatch

`db` holds the task documents, reduced to status, node and whether a pid was saved. A
copy waiting to be written is a member of `saves`; any step that reads a document to
write it later (`Plan`) adds one, and `Save` writes it at some later time, in any
order. FetchTask's own copy is `fetchDoc`, a runner's is `doc`. `runners`, `subs` and
`msgs` are the worker's registry, the master's table of cancel streams and the
signals under way. `pc`, `task`, `host`, `out` describe a run from `SubmitTask` to
the end of `executeTask`:

    queued -> create -> start -> reload -> cmd -> proc -> exited -> cleanup
                                   |        |
                                 leave <- failed

Actions correspond one to one to the code's operations and are named after them. An
action covers the whole operation; it is split only where the code gives other actors
room: between read and write, between a status write and the re-read that follows it
in `updateTask`, between start and end of the process. Two runs of one task on one
node are modelled with what docker does to them (`Twin`): the second container of
that name does not start, and the clean-up of one run removes the container of the
other.

`TaskLifecycle` is the abstract specification, what whoever enqueues a task may rely on:
a task is granted, taken up by a node, started, reported, given back or re-queued, and
each of these steps has the one guard that matters (a grant of a bound task was asked
for, a node takes up a grant on a task it may have, a start uses up a grant, success is
said of what was started). Copies, calls, streams and faults are gone. `TaskDispatch`
implements it with `held <- Held`, the pairs of task and node of all runs, and
`finished <- Finished`, the documents that say so; the counters are its history
variables. That a success may be overwritten and that a node may drop a task at any
moment are steps of the abstract specification too, since the code allows both.

A FetchTask call that is given up by its caller (`fetchTimeout`, or the worker dies)
while the handler is between read and save goes on at the master: `FetchTaskAbandoned`
moves its copy to `saves`, where it is written beside whatever later calls of the same
node do. A cancel whose handler reports an error, which it always does, is handled once
more with force (`how = "escalated"`), and that second round may find no runner any more
and write `cancelled` over the status the run has reported. A docker command that hangs
only costs the runner its registry entry; the process goes on. A master restart drops the
master's own pending writes; a worker's either reach the new master or fail. When the
runner count cannot be read it counts as 0 (`FetchTaskRead`).

Deliberate simplifications, each an over-approximation unless stated:

* time is not modelled: a step the code takes after an age or an interval may happen
  at any moment, also immediately;
* a cancel stream may disappear at any moment (`StreamLost`), for whatever reason the
  stream manager or the network has;
* the process check of the reconciler asks the master's process table for a worker's
  pid, so its answer is arbitrary (`ActualStatus`);
* a saved pid is 0 or 1, error texts and timestamps are left out;
* a node waits for one FetchTask call at a time, as its fetch loop, one goroutine, does;
  calls it no longer waits for are copies in `saves`;
* which of the free identities a new run gets (`NextRun`) makes no difference to
  anything;
* all nodes are enabled, tasks are never deleted, and the master runs no tasks itself
  (`cancelOnMaster` and the worker-cache branch of the reconciler, which only serve
  the master's own runners, are under-approximated away);
* a failed write of a runner has no late effect on the database; the status cache
  that could send it again during a reconnection is a planned module;
* the container that outlives a crashed worker is not tracked;
* the pool is reduced to its queue length and its limit here; `TaskWorkerPool` has
  the rest.

### Schedule

`docs` are the schedule documents, `entries` the cron table of the running master
(id -> schedule and expression) and `nextId` the id robfig's cron gives next. `call`
is what each HTTP request, and the goroutine of `Init` and `update`, is doing with
its copy of a document; `mu` is the service's mutex, held from entering `Enable` or
`Disable` to their return. Adding the entry and writing the document are separate
steps with a possible failure in between (`EnableAdd`, `EnableWrite`,
`EnableWriteFails`), since the handlers that bypass the service (`Patch`, `Delete`)
and the pass do not take the mutex. `pass` is the update pass: fetch the documents,
read the entry ids, enable what is missing with retries, remove what no document
names. A restart empties the table and starts the ids at 1 again, while documents and
forms (`GetScheduleById` to `PutScheduleById`) keep the old ones. `loose` is a history
variable: the schedules whose document was last written by somebody other than
`Enable` and `Disable` of this life of the master.

### Session

`storage` is the pair in `localStorage` (a number, 0 when empty), `page`, `toast` and
`refresh` belong to a window, `req` are the requests, from the interceptor that reads
the token to the answer that is read. The hub's side is `issued`, `live` (access tokens
it accepts) and `fresh` (refresh tokens not used yet); expiry and revocation are a hub
that stops accepting. One action per step of the response interceptor and
`refreshAccessToken`: `JoinRefresh` (start or join the window's single refresh),
`RefreshAccepted`/ `RefreshRefused` at the hub, `RefreshStored`, `RefreshUnauthorized`
and `RefreshLost` in the window, `GiveUp` of a request that was repeated already.

`TokenStore` is the abstract specification: a pair enters the storage at most once,
and the storage is only ever emptied or given a pair that was never in it. `Session`
implements it with `stored <- storage`.

### ListPage and ListViews

`ListViews` gives each of the sixteen views a record: does it refresh itself, how many
watchers ask for the list on a new page, what its row switch sends, how documents are
created, edited, deleted. `ListPage` runs one view over a collection `docs`: `rows`
and `query` are the table, `inflight`, `ops` and `confirms` the bags of list requests,
row operations and dialog confirmations, each sent, done at the hub, then answered;
others edit and delete at any time. `SetTableData` keeps the store's rule that rows
equal to those shown are not assigned. The page has one row, and a document is its
switch and the rest of it. The switch of a schedule sends the id only, but the hub's
handler reads the whole document and `Enable` or `Disable` replace the whole document
by that copy later: `HubSwitchRead` and the write are two steps. This repository has no
handler for the notification settings, whose switch sends the same two calls; theirs is
taken to do what the schedule's does.

### DetailPage

One spider at a time is in the route (`activeId`); `form` is the store's form and may
hold another spider's answer. The files tab has `tabs`, `active`, `content` (the
store's text), `cache` (texts saved before), `shown` (the text in the editor) and
`due` (the editor's 100 ms timer). A request carries the id of the route, the `_id` or
path it is about and its data; `live` says whether the component waiting for it is
still mounted. The contents of documents are known by the document they were read
from, so that a foreign save is visible. `PutById` compares nothing: a body with another
`_id` than the route's goes to `ReplaceOne`, and MongoDB refuses to change the `_id` of a
document (`Accepts`).

### PanelPage and Panels

`Panels` has one record per component (44 of them): how its timer starts and ends, when
it loads, whether it stays mounted as a dialog does, where it keeps its data and
spinners, and its operations (spinner, reload, whether the dialog closes).
`PanelPage` gives the records their meaning: mounting, leaving, moving to another
document, ticks, operations, and answers that run their continuation whether or not
the panel is still there. Spinners go with the component, except those kept in the store
and those of a dialog, which is only hidden (`SpinnersStay`). The metrics panel asks for
a time window whose ends are computed values that depend on nothing but the chosen time
range (and the language): `reach` is what the hub had at the end of the window, it moves
when the panel is mounted or the time range changes, and a tick asks for the same window
again. Components with the same record are one case for TLC.

### McpServer and McpTools

`McpTools` lists the calls of the client with method and effect, and each tool with
the call it makes and the confirmation it demands. In `McpServer` a process starts
from its environment or fails; a call (`Call`, or `CallConfirmed` with what the
assistant confirmed) is refused for a missing confirmation or by the interceptor, or
becomes a request; `NoAnswer` is the client giving up after 30 s with
the request still on its way (`late`), on which the hub may act later. `update_node` and
`update_schedule` replace a document by one that may be disabled (effect `update`, two
`Outcomes`). `asked` is a history variable: the confirmations that were given, and the
updates that were let through.

## Runs

| run | instance | shows |
|---|---|---|
| `pool` | 2 requests, 2 workers, limits unlimited/1/2, 2 limit changes, 1 idle exit, Stop at any time, fair | `TypeOK`, `NoSilentLoss`, `SingleOwner`, `OldQueueDrained`, `WorkersWithinLimit`, `AcceptedTaskRuns`, `StopCompletes` |
| `pool_idle_race` | 3 requests, 3 workers, fixed limit 1, one idle exit, fair | violates `TaskRunsDespiteIdle` |
| `dispatch_faults` | 1 node; one cancel, failed call, lost or overtaken FetchTask call, outage, crash, master restart and re-queueing each | `ExtraRunsNeedRequeue`, `RegistryIsLive`, `FinishedWasStarted`, `LifecycleSpec` |
| `dispatch_live` | a task bound to one of 2 nodes, 2 runs, 1 re-queueing, 2 pending writes, a lost or overtaken FetchTask call, a master restart, fair | `RunsWhereBound`, `EveryTaskSettles` |
| `dispatch_steady` | 1 bound task, one re-queueing, no fault at all | violates `SteadyNodeRunsOnce` |
| `schedule` | 2 schedules (one enabled before the restart with id 2, one new), 2 users acting twice, the update pass, 1 failing write, 1 restart, fair | `TypeOK`, `OwnEntry`, `Converges` |
| `session` | 2 windows, 2 requests at a time, 3 in all, 2 token pairs, 1 network failure or reload, fair | `TypeOK`, `OwnRotationKept`, `NobodyLeftWaiting`, `NoNeedlessDrop`, `StoreSpec`, `RequestSettles` |
| `list_page` | all views, 3 documents, 2 pages and filters, 4 steps of users, 3 list requests at a time, 1 failure, fair | `SpinnerEnds`, `ConfirmSpinnerEnds`, `NoResurrection`, `OthersKept`, `ShowsTheQuery` |
| `detail_page` | 2 spiders, 2 files, 5 steps of the user, 3 requests at a time, 1 failure | `NoForeignDocument`, `KeySaveWritesShown`, `SpinnerMeansRequest`, `TabsAreDistinct`, `OpenTabsShown` |
| `panels` | all panels, 2 documents with 2 versions, 5 steps, 2 requests at a time, 1 failure, fair | `NoTimerLeft`, `SpinnersEnd`, `ShowsTheDocument` |
| `mcp_server` | every environment, every tool, 2 resources, 3 calls, fair | `TypeOK`, `ReadOnlyHub`, `RemovalConfirmed`, `OneChangePerCall`, `EveryCallReturns` |
| `mcp_disable` | as `mcp_server` | violates `DisableConfirmed` |

Why the bounds are enough for the cases that matter:

* *Pool.* The code's sizes (1000 without a limit, 5 slots per worker, at least 50) are
  replaced by 3, 1 and 1, so that leaving the unlimited mode shrinks the queue below a
  backlog of two and a request is dropped; two limit changes give three channels, so
  a worker or a submitter can hold a channel that was replaced twice. Two submissions
  create at most two workers, so `Workers` never blocks anything. The liveness
  properties excuse what they name (limit changes, the idle exit), so one fair run can
  ask both kinds of question.
* *Dispatch.* The properties speak about one task at a time and tasks only meet in the
  runner count and the pool's queue. One task with two runs is where copies, grants and
  registry entries collide. `dispatch_live` lets two stale copies be under way at a time
  and applies them in both orders, and its one re-queueing is what recovers from its one
  lost or overtaken call: the task must settle after it (the same instance with one node
  and two re-queueings, 1.1 million states, passes as well). `dispatch_faults` keeps one
  copy but lets every kind of fault happen in one behaviour. Two pending writes together
  with all faults is beyond a regular run (more than 14 million states). For the safety
  properties the theorems remove the bounds altogether.
* *Schedule.* A second schedule whose new entry gets the id the first one kept from
  before the restart is the smallest case in which an id can be confused; two callers
  and the pass are the three parties of every race on a document. One failing write
  can fall on any write of either. `MaxRetries` is 2 where the code has 3: one
  attempt that fails and one that need not.
* *Session.* Two windows, of which each can have both requests; a second pair lets one
  rotation happen while anything else holds the first. The theorems lift all bounds.
* *Lists.* The collection has one document more than fits on a page and one that does
  not exist yet; three list requests can overtake each other in every order.
* *Detail page.* Five steps reach: load one spider, go to another, save; or open, type,
  save, close and open another file, with an answer of each outstanding.
* *Panels.* Five steps are: enter, operate or select, leave, enter and operate again. A
  request of each mounting can be under way, so an answer of an earlier opening meets
  the spinner of a later one.
* *MCP.* Three calls are enough for two on one resource and one on the other; calls do
  not influence each other except through the hub.
* `CHECK_DEADLOCK FALSE`: every one of these systems may come to rest, when nobody
  asks for anything any more.
* Symmetry is only used in safety runs, on identities that appear in no constant
  function.

Every bound (`MaxUpdates`, `MaxIdle`, `MaxSaves`, `MaxRequeues`, `MaxCancels`,
`MaxLost`, `MaxFaults`, `MaxOutages`, `MaxCrashes`, `MaxRestarts`, `MaxRetries`,
`MaxRequests`, `MaxFails`, `MaxPairs`, `MaxSteps`, `MaxInFlight`, `MaxVersion`) is a
constant and guards the action it counts.

Each property has a variant: a definition of the model changed the way a mistake in
the code would change it, kept as a definition of its own just before the original and
marked as a variant; `PROJECT.json` says which property it breaks.

## Fairness

Weak fairness for what the code's own goroutines, timers and requests do without being
asked. No strong fairness is assumed.

* Pool: the submitter finishes its call, the reporter its update, `Stop` its steps, and
  every worker loads, receives, ends its task and leaves. A task ends because its
  sandbox has a timeout. The idle timer need not fire and nobody must submit, resize or
  stop.
* Dispatch: pending writes are carried out, the fetch loop comes round each second,
  runners go on, a live node's heartbeat brings it online, the health check notices a
  dead one; the reconciliation repeats at its intervals. Enqueueing, cancelling,
  restarting a node and all faults stay optional. One joint condition for
  `ReconcileDisconnectedTask` and `ReconcileAbandonedAssigned` mirrors the single
  goroutine that runs both after a health check. `EveryTaskSettles` excuses
  nothing but a task that stays *assigned* when `MaxRequeues` is used up, the one place
  in which the reconciler would put it back to pending again and the bound forbids it.
  A task that was re-queued and taken up must settle like any other.
* Schedule: a handler or the pass that is inside the service goes on (`Serve(c)`), the
  pass comes round each minute (`Updates`), and the goroutine that a job of a disabled
  schedule starts to remove its entry gets there (`JobRemove`). Users, failures and
  restarts are optional.
* Session: the hub answers a request or the window does (`HubStep`, `Answer`), and a
  refresh under way goes on (`RefreshStep`). What the user does is optional, a login
  prompt may stay open for ever.
* Lists and panels: the interval fires, the hub answers what reaches it, and answers
  are delivered. That is what the browser and the HTTP client's own time limit give.
* MCP: the client's 30 s limit ends a call the hub does not answer (`NoAnswer`), and
  the health check ends (`HealthChecked`). The hub itself need never act.

## Proofs

Eight modules, checked by TLAPS with Z3, Zenon and LS4. The only assumptions are those
named in the component modules: finite or disjoint sets of identities, distinct null
values, positive sizes and natural bounds. Nothing depends on how large they are.

**Pool** (`TaskWorkerPoolProofs`)

* `TypeCorrect` and `WellFormed`: `TypeInv`, which adds to `TypeOK` that a goroutine
  holds a request exactly while it sends or executes one (`HoldsWhenBusy`) and that
  channel numbers follow the updates (`ChannelOrder`); without the latter `cur + 1`
  might not be a channel.
* `SingleOwnership`, `SilentLossFree`: `SingleOwner` and `NoSilentLoss` are inductive
  together on top of `TypeInv` (`Owner`); each step moves at most one request from one
  place to another.
* `QueuesDrained`: needs `Replaced`: a channel other than `cur` is closed and empty,
  except the one the running update is emptying. It explains why a stale send cannot
  strand a request: it panics.
* `LimitHolds`: `Counted`, the count equals the live workers and the current limit lies
  below the peak.

**Dispatch** (`TaskDispatchProofs`)

* `TypeCorrect`: `TypeOK` with `LiveRuns`, that a run that is not free has a task and a
  node; needed because the runner actions index documents with them.
* Most steps only read documents and plan a write. `QuietStep` collects what they have
  in common, and the lemmas `QuietScheduler`, `QuietSignal`, `QuietNode`,
  `QuietReconcile`, `QuietBoot` reduce them to one case of each later proof.
* `RegistryTheorem`: `RegistryIsLive` is inductive with the types.
* `FinishedTheorem`: `Evidence`, that *every copy* of a document that says finished or
  has a pid (in the database, under way, in a FetchTask call, in a runner) belongs to a
  task that was started. The invariant must speak about the copies because any of them
  may become the document.
* `BindingTheorem`: `Binding`, the same idea for the node in each copy of a bound task.
* `ExtraRunsTheorem`: a counting argument. `Granting`: the saves of FetchTask, plus the
  calls that have read and not saved, plus one if the document is still open, never
  exceed one plus the re-queueings *applied*; copies that say pending are all of kind
  requeue. A call that was given up leaves the count: nobody takes up what it saves.
  `Starting`: the processes started, plus the runs that have not started, plus the
  answers that were not taken up, never exceed the grants. A crash or a lost answer only
  lowers the left-hand sides.
* `Refinement`: `TaskDispatch` implements `TaskLifecycle`. It needs all of the above:
  `Granting` for the guard of a grant, `Starting` for taking up and starting, `Binding`
  for the node, `Evidence` for a report, and `Labelled`, that a copy which re-queues says
  pending. A quiet step is a stutter, every write of a document is a grant, a
  re-queueing, a report or an overwriting, and every end of runs, one or a whole node's,
  is `Leave`.

**Schedule** (`ScheduleProofs`)

* `TypeCorrect` and `EntriesOwned`. `OwnEntry` alone is not inductive: a caller that
  has added an entry and not written it yet would write any id. `AddedEntry` says that
  the id in its hands is its own entry or gone, and `TightEntry` that no document of
  the service names an id the table has yet to give out, which a later `AddFunc` would
  otherwise hand to another schedule. Lemmas treat the steps that write nothing and the
  steps that write one document once for all.

**Session** (`SessionProofs`)

* One inductive invariant for all five theorems. `ReqShape` and `RefreshShape`: what a
  request or a refresh carries; `UnseenShape` and `OnItsWayOnce`: a pair on its way has
  not been stored and is on its way once; `RotatedShape`: a pair a window has exchanged
  stays in the storage only until that window reads the answer; `RefusedShape`.
* `SingleFlight`, `WaitersServed`, `DropsExplained` are `OwnRotationKept`,
  `NobodyLeftWaiting` and the action property `NoNeedlessDrop`.
* `Refinement`: initial states map to initial states of `TokenStore` and every step to
  `Store`, `Drop` or a stutter. It needs `UnseenShape`: a pair that is stored by an
  answer was never in the storage.

**MCP server** (`McpServerProofs`)

* `ReadOnly`, `Confirmed`, `AtMostOnce`: the invariant says of every request *on its
  way* (`sent` or `late`) what the properties say of the hub: it was let through
  (`RequestAllowed`), asked for where that is demanded (`RequestConfirmed`: by its
  confirmation, or for a document that may get disabled as an update) and not acted on
  (`RequestFresh`). `Confirmed` therefore says that a deletion and a cancellation have
  their confirmation, and that a disabling has its own or comes from an update tool; the
  stronger reading of the documentation is finding 3. That the 68 tools are `WellMade`
  (a change is one request with a method the interceptor stops, a removal has its
  confirmation) is a lemma of its own, by kinds of tools.

**Detail page** (`DetailPageProofs`)

* `DocumentsKept`: every request under way is `Honest` (a save carries the document its
  `_id` names, a read is answered with the document asked for), and so is the form. That
  MongoDB does not change the `_id` of a document does the rest.
* `EditorAgrees`: while the editor is mounted its text is the store's text (`Agree`).
* `TypeCorrect`: what a request carries depends on what it asks for (`WellFormed`), and
  an answer is used as a document, a path or a text accordingly; `MountedOK` says that
  tabs are open, and live requests of the files tab are under way, only while that tab is
  there. With them `SpinnerJustified` (`SpinnerMeansRequest`) is inductive: leaving the
  tab, which makes its requests orphans, also takes its spinner away.
* `OneTabPerFile` and `AFileIsActive`: `TabsAreDistinct` and `OpenTabsShown` are inductive
  together; closing, dragging and closing all but one keep a sequence without repetition,
  and whoever removes the active tab chooses another.

**List pages** (`ListPageProofs`)

* `TypeCorrect` and the two spinners share one invariant, by the part of the page it
  speaks of: `TableOK`, `RequestsOK`, `OperationsOK`, `FormOK`, `ConfirmsOK`. `SpinnerEnds`
  is inductive as it stands; `ConfirmSpinnerEnds` needs that the confirmations under way
  are a bag, so that ending one leaves the others.
* `DeletedStaysDeleted` (`NoResurrection`): only a creation, which takes an id never used
  before, makes a document out of nothing.
* `OtherWritesKept` (`OthersKept`): every whole-document write under way is one the view
  has, a switch that sends its row, an edit dialog, or the hub's own copy of a schedule
  that is being switched (`OperationsOK`, `ConfirmsOK`).

**Panels** (`PanelPageProofs`)

* `PanelsAreSane`: all 44 panels have what the argument needs of a panel, that only a
  dialog is closed by its operations. The theorems hold for every subset of them.
* `TypeCorrect`, with the shape of requests (`RequestsOK`).
* `TimersCleared` (`NoTimerLeft`): not inductive alone. `TimersOK` adds that the variable
  `onBeforeUnmount` clears holds the interval of this mounting.
* `SpinnersAlwaysEnd` (`SpinnersEnd`): `BusyOK` names for every spinner a request *that can
  end it*, one of this mounting or any if the spinner stays when the panel goes. Without
  that last case the invariant fails for dialogs, whose spinners outlive their closing.

Only model-checked: liveness (`AcceptedTaskRuns`, `StopCompletes`, `EveryTaskSettles`,
`Converges`, `RequestSettles`, `ShowsTheQuery`, `ShowsTheDocument`,
`EveryCallReturns`), since fairness is outside the prover's reach, and the violations.
Every invariant, every action property and both refinements of the passing runs are
theorems; `TypeOK` of the dispatch, list, detail and panel modules is proved and left out
of the runs.

## Findings

Quotations are in `PROJECT.json`.

1. `pool_idle_race`: a worker that has decided to leave on its idle timeout is still
   counted when the next request is accepted, so the request gets no worker until
   another one is submitted.
2. `dispatch_steady`: the reconciliation "after reconnection" runs after every passed
   health check and puts tasks that a healthy node has just taken back to pending, so
   they run twice.
3. `mcp_disable`: `update_node` and `update_schedule` with `enabled: false` disable a
   resource without the confirmation that `mcp/README.md` promises for every disable
   action.

## Limits of what is shown

What follows are behaviours of the code that the models contain, or leave out, and
that no property rules out.

### Limits of the pool model

* `AcceptedTaskRuns` excludes limit changes and idle exits: after a resize the workers of
  the closed queue leave while they still count, and the requests that were copied wait
  for the next submission, the same gap as finding 1, whose run asks the question with an
  idle exit (`TaskRunsDespiteIdle`).
* That `Stop` may close a queue the resize has closed, which panics, is an outcome the
  model contains; no property forbids it.

### Limits of EveryTaskSettles

It holds with lost FetchTask answers, calls that are given up and master restarts. It
does not hold, in the model and in the code, when a worker dies and is back before the
health check notices (the task stays running: there is no stream and no pid to ask for);
when the write of the final status fails (nothing repeats it once the runner has ended);
or when an outage lets a copy with `node_disconnected` overwrite the final status and
the guess from the pid says running ever after.

### Limits of the dispatch model

* `ExtraRunsNeedRequeue` bounds the runs of bound tasks only. A task bound to no node
  that two nodes fetch at once runs on both: FetchTask passes the session of its
  transaction to neither call.
* Cancelling a pending task replaces the document by a copy read while it was pending
  (`scheduler/service.go:130`), so a cancelled task can still start.
* A cancel that arrives after the runner is registered and before its process exists
  makes `KillProcess` (`utils/process.go:61`) use a nil process and takes the worker
  down with the runs of other tasks.
* `RegistryIsLive` is one direction: an entry never names a run that has ended or another
  task's. That a live run keeps its entry is not claimed. It loses it when a second run
  of its task overwrites or deletes it, when a hanging cancel gives up, and in the stuck
  task clean-up; later cancel signals then find no runner and only write `cancelled`.

### Limits of the schedule model

* `OwnEntry` excepts *loose* schedules: those whose document was last written past the
  service (PATCH; a PUT or `Init` whose `Enable` fails or is refused; everything after a
  restart until `Init` enables it again). They can keep naming another schedule's entry
  and never run, or fire at the old time.
* `Converges` compares the schedule of every entry with the document that names it, and
  excepts an entry that an enabled loose document names: `update` takes it for that
  document's own and keeps it. If it is another schedule's old entry, that schedule,
  enabled anew under another id, fires twice at each of its times from then on, and the
  loose one not at all.
* That a user's change survives is not claimed: the copies of `update`, `Enable` and
  `Disable` are written whole, so a schedule that was just disabled can be enabled
  again and an edit can be lost. An enabled schedule that is enabled or PUT again has
  two entries until the next update pass.
* PATCH by id sets omitted fields to zero values, as the code does.
* The run uses one valid cron expression (the theorems any number), treats `Init`'s
  fetch as succeeding (its failure panics) and update's removals as one step; ids of
  deleted schedules are not used again; what the job of a schedule enqueues is left to
  the spider admin service.

### Limits of the session model

* A refresh that fails late clears a newer session; two windows can send the same
  refresh token, and the loser clears what the winner stored; a refresh that ends after
  a logout, or after a newer login, stores its pair; a network failure during a refresh
  drops the session. `NoNeedlessDrop` lists exactly these reasons.
* `Header.vue:65` commits `user/resetMe`, a mutation only `common` has, so `me` outlives
  the logout; user data is not part of the model.
* Expiry of an access token is modelled by the hub refusing it when it decides.

### Limits of the list model

* The store compares rows only (`store.ts:272`), so a changed total with equal rows is
  not shown. A view that does not refresh itself keeps rows that arrived late.
* Switches that PUT the whole row (nodes, alerts) and the edit dialog lose what others
  wrote since the row was listed. The switch of a schedule loses what is written between
  the handler's read and the service's write of the whole document
  (`controllers/schedule.go:163`, `schedule/service.go:121,135`). `OthersKept` says that
  nothing else does, and that the switch writes what was read for this very call. The
  edit form of environments is the table row itself.
* A double submit within the 50 ms before the spinner, and a late confirmation closing a
  newer dialog (`useForm.ts:159`), are behaviours of the model.
* Deleting and editing several selected rows and the dependency list are left out.

### Limits of the detail page

* The form may end up with another spider's document (the later answer wins); the hub
  then refuses to save it. A save before the document is loaded writes a blank one.
* The active file changes before, or without, its text being read, so Ctrl+S can write
  the text of one file into another: `KeySaveWritesShown` is about text, not its file.
* The header's save sends the cached text of an earlier Ctrl+S rather than what was
  typed since (`services/utils/file.ts:69`, `store/utils/file.ts:18`); the cache is keyed
  by path only and never reset; tabs stay open from one spider to the next. The git
  files tab passes the cached text to the editor.
* Renaming and moving a file never works: the client names the new path `new_path`
  (`store/utils/file.ts:142`), the hub reads `newPath` (`controllers/spider.go:473`) and so
  renames the file to the root directory itself, which the operating system refuses. Copying
  uses `new_path` on both sides.
* The tree, directories, drag and drop of items and export are left out. A request of an
  unmounted tab continues with any spider's id (an over-approximation).

### Limits of the panels

* Task logs, node actions and dependency logs await their first answer before they set
  their timer: left before it, they poll for ever. `NoTimerLeft` is about the panels
  that start their timer at once. After leaving, the id such a timer asks for is treated
  as none.
* Panels without a timer keep a late answer of an earlier document.
* The metrics panel never shows what the hub recorded after it was mounted or its time
  range last changed: the start and end it asks for are computed once
  (`MetricMonitoringDetail.vue:35-62`) and its timer sends them again (lines 213 and 236).
  `ShowsTheDocument` claims of it what the hub had by then. A change of the language,
  which recomputes them too, is left out.
* The checkout spinner stays when the reload in its `finally` block fails
  (`GitDetailActionsCommon.vue:59`); `SpinnersEnd` excepts those panels.
* `TaskDetailTabLogs` does not start its timer again when the route goes from a finished
  task to a running one. A late operation closes a newer opening of its dialog
  (`DependencyInstallDialog.vue:37`). The uninstall dialog looks at `installLoading` and
  can be submitted twice. A failing poll of an export leaves its notification open.
* `CreateGitBranchDialog` is never opened by any page.

### Limits of the MCP model

* `RemovalConfirmed` demands a confirmation of what deletes and cancels, and of what
  disables unless an update tool did it (finding 3).
* The client sends raw bodies where the hub expects `{data}`. The hub's binding does not
  notice: `data` is then the zero value, and `PutById` replaces a node by a blank, disabled
  document (`Outcomes` of `update`: the document is replaced, disabled or not);
  `PutScheduleById` refuses, since the id in the body is missing. Some routes the client
  calls do not exist at the hub. A refusal is `HubRefuses`, which every request may meet.
* A call the assistant repeats is another call.

## Not modelled

* Backend: file synchronisation, model/dependency/sync gRPC services, database access,
  export, notification, statistics, accounts and roles, the HTTP layer. They translate
  requests, move files or call the database and have no protocol state of their own.
  MongoDB is modelled only as documents read and replaced whole.
* Web client: templates and styles, the columns of tables, forms' fields, icons, texts in
  two languages, interface types, routes, the rich-text editor, the vendored three.js
  loader. The AI assistant and its chat are not mounted by any layout
  (`layouts/NormalLayout.vue`). MCP prompts are texts.
* The database page's table editor: what is committed is what was edited only if no load
  is under way (edits of one table can be sent under the name of another,
  `DatabaseTableDetail.vue:42`, and deleting a new index removes the last column,
  `DatabaseTableDetailIndexes.vue`), so there is no safety property of it to state that
  holds beyond its spinners.

More than half of the TypeScript is of those kinds, which is why the definitions stand
for about 9,400 lines of it (of Go, for about 2,900).

## Plan

Done: the modules above with their runs and theorems. Next, in order:

1. **StatusCache** (`runner_status_cache.go`, `runner.go`): cached snapshots, pending
   updates, persistence, sync on reconnection against the runner's own writes; property:
   the last cached status is the one that reaches the database, in order.
2. **TaskStreams** (`stream_manager.go`, `Subscribe` and `SendNotify` of the server):
   stream table, queue of 100 messages, inactivity clean-up, replaced and stale entries;
   property: an entry is only removed by its own end, cancel signals are delivered or
   their loss is known to the sender.
3. **GrpcClient** (`client.go`): reconnection loop, breaker with backoff, single flight
   of reconnections, registration; liveness: a reachable master is reached again.
4. **NodeMonitor** (`master_service.go`, `worker_service.go`): failure counting,
   re-subscription, registration and heartbeat, refining the on/off steps that
   `TaskDispatch` uses.
5. **SpiderAdmin**: the fan-out of a run to nodes, between `Schedule` and `TaskDispatch`.
6. **LogBreaker** (`runner_log.go`): the circuit breaker of the log connection.
7. The dependency list and the database page of the web client, as views and panels.

Theorems to add: the safety invariants of 1 to 4.
