---------------------------- MODULE TaskDispatch ----------------------------
(***************************************************************************)
(* How a crawl task travels from the queue to a process and back:          *)
(* the master's scheduler, its FetchTask handler and its reconciliation    *)
(* service, and on every worker node the fetch loop and the task runners.  *)
(*                                                                         *)
(* All of them share one thing, the task document in the database, and     *)
(* all of them change it the same way: read the document, change the copy, *)
(* replace the WHOLE document by the copy some time later (ReplaceById).   *)
(* FetchTask runs inside a transaction but does not use its session, so it *)
(* is no exception.  Reading and replacing are separate steps here; a copy *)
(* waiting to be written is a member of saves.                             *)
(*                                                                         *)
(* Time is not modelled: where the code waits for an age (10 minutes       *)
(* assigned, 15 minutes disconnected, stream idle for 10 minutes, ...) the *)
(* step may happen at any moment.                                          *)
(***************************************************************************)
EXTENDS Integers, FiniteSets

CONSTANTS
  Tasks,
  Nodes,        \* worker nodes; the master's own runners are not modelled
  Runs,         \* identities for a submitted task, from SubmitTask to its end
  Home,         \* the node a task is enqueued for, NoNode for "random" mode
  NoNode, NoTask, NoRun,
  MaxRunners,   \* the node documents' max_runners
  QueueSize,    \* capacity of the worker pool's queue
  MaxSaves,     \* bound: document copies waiting to be written at one time
  MaxRequeues,  \* bound: times the reconciler decides to re-queue a task
  MaxCancels,   \* bound: cancel requests
  MaxLost,      \* bound: FetchTask calls given up before the answer
  MaxFaults,    \* bound: failed calls of a worker to the master or to docker
  MaxOutages,   \* bound: health check failures of a live node
  MaxCrashes,   \* bound: crashes of worker processes
  MaxRestarts   \* bound: restarts of the master

ASSUME DispatchAssumption ==
  /\ NoNode \notin Nodes /\ NoTask \notin Tasks /\ NoRun \notin Runs
  /\ IsFiniteSet(Nodes) /\ IsFiniteSet(Runs) /\ IsFiniteSet(Tasks)
  /\ Home \in [Tasks -> Nodes \cup {NoNode}]
  /\ {MaxRunners, QueueSize} \subseteq Nat \ {0}
  /\ {MaxSaves, MaxRequeues, MaxCancels, MaxLost, MaxFaults, MaxOutages,
      MaxCrashes, MaxRestarts} \subseteq Nat

VARIABLES
  db,        \* the task documents
  saves,     \* whole-document writes on their way
  online,    \* nodes whose document says status online and active
  up,        \* nodes whose worker process is alive
  fetch,     \* per node: its FetchTask call, [pc, task]
  fetchDoc,  \* per node: the copy that call is about to save
  subs,      \* per task: the node whose cancel stream the master holds
  msgs,      \* cancel signals sent down a stream or being handled
  forced,    \* forced cancels that will look at the task once more
  boot,      \* "due" from a master restart until initTaskStatus has read
  pc,        \* per run: where executeTask is
  task,      \* per run: its task
  host,      \* per run: its node
  doc,       \* per run: Runner.t
  out,       \* per run: the final status wait() decided on
  runners,   \* per node and task: the entry of Service.runners
  requeued,  \* history, per task: saves that set the status back to pending
  targets,   \* history, per task: the nodes those saves bound it to
  grants,    \* history, per task: saves of FetchTask calls not given up
  started,   \* history, per task: processes started
  flapped,   \* history: nodes that were marked offline or crashed
  spent      \* the bounds used up so far

master == <<saves, online, fetch, fetchDoc, subs, msgs, forced, boot>>
run == <<pc, task, host, doc, out>>
history == <<requeued, targets, grants, started, flapped>>
vars == <<db, saves, online, up, fetch, fetchDoc, subs, msgs, forced, boot,
          pc, task, host, doc, out, runners,
          requeued, targets, grants, started, flapped, spent>>

-----------------------------------------------------------------------------
(* core/constants/task.go; "new": not in the database yet *)
Final == {"finished", "error", "cancelled", "abnormal"}

Status == {"new", "pending", "assigned", "running", "node_disconnected"}
          \cup Final

(* pid is 1 once a runner has saved the id of its process. *)
Doc == [status : Status, node : Nodes \cup {NoNode}, pid : {0, 1}]

(* "worker": held by a worker process and not by the master *)
SaveKind == {"requeue", "plain", "worker"}
SaveSet == [task : Tasks, doc : Doc, kind : SaveKind]

(* A signal is soft or forced; "escalated": its handler, on the worker,    *)
(* starts over with force.                                                 *)
Signal == [task : Tasks, node : Nodes, how : {"soft", "force", "escalated"}]

Blank == [status |-> "new", node |-> NoNode, pid |-> 0]

Idle == [pc |-> "idle", task |-> NoTask]
FetchState == {Idle} \cup [pc : {"read", "replied"}, task : Tasks]

Fresh(t) == [status |-> "new", node |-> Home[t], pid |-> 0]

(* The steps of executeTask and Runner.Run.  In NoProcess the runner is    *)
(* registered, and can be cancelled, but has no process.                   *)
NoProcess == {"start", "reload", "cmd", "failed", "leave"}
Waiting == {"queued", "create", "start", "reload", "cmd"}
RunPc == {"free", "proc", "exited", "cleanup"} \cup Waiting \cup NoProcess

Budgets == {"requeue", "cancel", "lost", "fault", "outage", "crash", "restart"}
Bound(b) ==
  CASE b = "requeue" -> MaxRequeues
    [] b = "cancel"  -> MaxCancels
    [] b = "lost"    -> MaxLost
    [] b = "fault"   -> MaxFaults
    [] b = "outage"  -> MaxOutages
    [] b = "crash"   -> MaxCrashes
    [] b = "restart" -> MaxRestarts

Spend(b) == spent[b] < Bound(b) /\ spent' = [spent EXCEPT ![b] = @ + 1]

Init ==
  /\ db = [t \in Tasks |-> Fresh(t)]
  /\ saves = {} /\ msgs = {} /\ forced = {}
  /\ online = Nodes /\ up = Nodes
  /\ fetch = [n \in Nodes |-> Idle]
  /\ fetchDoc = [n \in Nodes |-> Blank]
  /\ subs = [t \in Tasks |-> NoNode]
  /\ boot = "done"
  /\ pc = [r \in Runs |-> "free"]
  /\ task = [r \in Runs |-> NoTask]
  /\ host = [r \in Runs |-> NoNode]
  /\ doc = [r \in Runs |-> Blank]
  /\ out = [r \in Runs |-> "error"]
  /\ runners = [n \in Nodes |-> [t \in Tasks |-> NoRun]]
  /\ requeued = [t \in Tasks |-> 0]
  /\ targets = [t \in Tasks |-> {}]
  /\ grants = [t \in Tasks |-> 0]
  /\ started = [t \in Tasks |-> 0]
  /\ flapped = {}
  /\ spent = [b \in Budgets |-> 0]

-----------------------------------------------------------------------------
(* Writing a copy back *)

(* The reader of t holds copy d, to be written with the given status and   *)
(* node.                                                                   *)
Copy(t, status, node, kind) ==
  [task |-> t, kind |-> kind,
   doc |-> [status |-> status, node |-> node, pid |-> db[t].pid]]

Plan(new) ==
  /\ saves' = saves \cup new
  /\ Cardinality(saves') <= MaxSaves

(* ReplaceById of a copy read earlier: SaveTask, saveTask, UpdateTask *)
Save(s) ==
  /\ s \in saves
  /\ saves' = saves \ {s}
  /\ db' = [db EXCEPT ![s.task] = s.doc]
  /\ requeued' = IF s.kind = "requeue"
                 THEN [requeued EXCEPT ![s.task] = @ + 1] ELSE requeued
  /\ targets' = IF s.kind = "requeue"
                THEN [targets EXCEPT ![s.task] = @ \cup {s.doc.node}]
                ELSE targets
  /\ UNCHANGED <<online, up, fetch, fetchDoc, subs, msgs, forced, boot, run,
                 runners, grants, started, flapped, spent>>

-----------------------------------------------------------------------------
(* Scheduler: Enqueue and Cancel *)

Enqueue(t) ==
  /\ db[t].status = "new"
  /\ db' = [db EXCEPT ![t].status = "pending"]
  /\ UNCHANGED <<master, up, run, runners, history, spent>>

(* The API refuses to cancel a task that is not cancellable unless force   *)
(* is set, but from an earlier read: any status may have been reached when *)
(* Service.Cancel reads the task.  Without a stream, or when the signal    *)
(* cannot be sent, the task is marked cancelled all the same.              *)
CancelBySave(t) ==
  /\ db[t].status # "new"
  /\ Spend("cancel")
  /\ \/ /\ db[t].status = "pending"
        /\ Plan({Copy(t, "cancelled", db[t].node, "plain")})
     \/ /\ db[t].status # "pending" /\ db[t].node = NoNode
        /\ Plan({Copy(t, "abnormal", NoNode, "plain")})
     \/ /\ db[t].status # "pending" /\ db[t].node # NoNode
        /\ Plan({Copy(t, "cancelled", db[t].node, "plain")})
  /\ UNCHANGED <<db, online, up, fetch, fetchDoc, subs, msgs, forced, boot,
                 run, runners, history>>

(* cancelOnWorker with a stream: the signal is sent *)
CancelBySignal(t, force) ==
  /\ db[t].status \notin {"new", "pending"}
  /\ db[t].node # NoNode /\ subs[t] # NoNode
  /\ Spend("cancel")
  /\ msgs' = msgs \cup {[task |-> t, node |-> subs[t],
                          how |-> IF force THEN "force" ELSE "soft"]}
  /\ forced' = IF force THEN forced \cup {t} ELSE forced
  /\ UNCHANGED <<db, saves, online, up, fetch, fetchDoc, subs, boot, run,
                 runners, history>>

(* a forced cancel looks again after five seconds *)
ForceVerify(t) ==
  /\ t \in forced
  /\ forced' = forced \ {t}
  /\ IF db[t].status = "running"
     THEN Plan({Copy(t, "cancelled", db[t].node, "plain")})
     ELSE UNCHANGED saves
  /\ UNCHANGED <<db, online, up, fetch, fetchDoc, subs, msgs, boot, run,
                 runners, history, spent>>

-----------------------------------------------------------------------------
(* FetchTask, called by the fetch loop of node n (processFetchCycle) *)

(* getRunnerCount: the database's idea of what n is busy with.  A query    *)
(* that fails counts as 0.                                                 *)
RunnerCount(n) ==
  Cardinality({t \in Tasks : /\ db[t].node = n
                             /\ db[t].status \in {"assigned", "running"}})

(* variant: the node of a pending task is not looked at *)
FetchableAnywhere(n) == {t \in Tasks : db[t].status = "pending"}

Fetchable(n) ==
  LET own == {t \in Tasks : db[t].status = "pending" /\ db[t].node = n}
      any == {t \in Tasks : db[t].status = "pending" /\ db[t].node = NoNode}
  IN IF own # {} THEN own ELSE any

FetchTaskRead(n, t) ==
  /\ n \in up /\ n \in online
  /\ fetch[n].pc = "idle"
  /\ \/ RunnerCount(n) < MaxRunners /\ UNCHANGED spent
     \/ Spend("fault")
  /\ t \in Fetchable(n)
  /\ fetch' = [fetch EXCEPT ![n] = [pc |-> "read", task |-> t]]
  /\ fetchDoc' = [fetchDoc EXCEPT ![n] = [db[t] EXCEPT !.status = "assigned",
                                                       !.node = n]]
  /\ UNCHANGED <<db, saves, online, up, subs, msgs, forced, boot, run,
                 runners, history>>

FetchDone(n) ==
  /\ fetch' = [fetch EXCEPT ![n] = Idle]
  /\ fetchDoc' = [fetchDoc EXCEPT ![n] = Blank]

(* the caller may be gone when the handler answers *)
FetchTaskSave(n) ==
  /\ fetch[n].pc = "read"
  /\ db' = [db EXCEPT ![fetch[n].task] = fetchDoc[n]]
  /\ grants' = [grants EXCEPT ![fetch[n].task] = @ + 1]
  /\ fetch' = [fetch EXCEPT ![n] = IF n \in up THEN [@ EXCEPT !.pc = "replied"]
                                   ELSE Idle]
  /\ fetchDoc' = [fetchDoc EXCEPT ![n] = Blank]
  /\ UNCHANGED <<saves, online, up, subs, msgs, forced, boot, run, runners,
                 requeued, targets, started, flapped, spent>>

(* The caller's timeout passes, or the caller dies, while the handler is   *)
(* between read and save.  The handler does not look at its context and    *)
(* saves its copy all the same, beside the node's next calls.              *)
FetchTaskAbandoned(n) ==
  /\ fetch[n].pc = "read"
  /\ n \in up => Spend("lost")
  /\ n \notin up => UNCHANGED spent
  /\ Plan({[task |-> fetch[n].task, doc |-> fetchDoc[n], kind |-> "plain"]})
  /\ FetchDone(n)
  /\ UNCHANGED <<db, online, up, subs, msgs, forced, boot, run, runners,
                 history>>

(* the answer comes after the caller's timeout, or is lost *)
FetchReplyLost(n) ==
  /\ fetch[n].pc = "replied"
  /\ Spend("lost")
  /\ FetchDone(n)
  /\ UNCHANGED <<db, saves, online, up, subs, msgs, forced, boot,
                 run, runners, history>>

Queued(n) == {r \in Runs : host[r] = n /\ pc[r] = "queued"}

(* which identity a new run gets makes no difference *)
NextRun == CHOOSE r \in Runs : pc[r] = "free"

(* variant: the answer is taken up again in the next cycle *)
RunTaskTwice(n) ==
  /\ fetch[n].pc = "replied"
  /\ runners[n][fetch[n].task] = NoRun
  /\ Cardinality(Queued(n)) < QueueSize
  /\ \E r \in Runs :
       /\ pc[r] = "free" /\ r = NextRun
       /\ pc' = [pc EXCEPT ![r] = "queued"]
       /\ task' = [task EXCEPT ![r] = fetch[n].task]
       /\ host' = [host EXCEPT ![r] = n]
  /\ UNCHANGED <<db, master, up, doc, out, runners, history, spent>>

(* runTask: the task goes to the worker pool *)
RunTask(n) ==
  LET t == fetch[n].task IN
  /\ fetch[n].pc = "replied"
  /\ runners[n][t] = NoRun
  /\ Cardinality(Queued(n)) < QueueSize
  /\ FetchDone(n)
  /\ \E r \in Runs :
       /\ pc[r] = "free" /\ r = NextRun
       /\ pc' = [pc EXCEPT ![r] = "queued"]
       /\ task' = [task EXCEPT ![r] = t]
       /\ host' = [host EXCEPT ![r] = n]
  /\ UNCHANGED <<db, saves, online, up, subs, msgs, forced, boot,
                 doc, out, runners, history, spent>>

(* runTask fails ("already exists", queue full): the fetch loop reads the  *)
(* task and writes status error, unless it was cancelled.                  *)
RunTaskRefused(n) ==
  LET t == fetch[n].task IN
  /\ fetch[n].pc = "replied"
  /\ runners[n][t] # NoRun \/ Cardinality(Queued(n)) >= QueueSize
  /\ FetchDone(n)
  /\ IF db[t].status = "cancelled" THEN UNCHANGED saves
     ELSE Plan({Copy(t, "error", db[t].node, "worker")})
  /\ UNCHANGED <<db, online, up, subs, msgs, forced, boot, run,
                 runners, history, spent>>

-----------------------------------------------------------------------------
(* executeTask and the task runner *)

Busy(n) == {r \in Runs : host[r] = n /\ pc[r] \notin {"free", "queued"}}

(* what is left of the runs that end *)
Forget(gone) ==
  /\ task' = [r \in Runs |-> IF r \in gone THEN NoTask ELSE task[r]]
  /\ host' = [r \in Runs |-> IF r \in gone THEN NoNode ELSE host[r]]
  /\ doc' = [r \in Runs |-> IF r \in gone THEN Blank ELSE doc[r]]

Freed(r) ==
  /\ pc' = [pc EXCEPT ![r] = "free"]
  /\ Forget({r})
  /\ UNCHANGED out

Goto(r, p) == pc' = [pc EXCEPT ![r] = p] /\ UNCHANGED <<task, host>>

(* variant: the entry is left behind *)
DeleteRunnerForgotten(n, t) == UNCHANGED runners

(* runners.Delete(taskId): whichever runner is stored under the task *)
DeleteRunner(n, t) == runners' = [runners EXCEPT ![n][t] = NoRun]

(* A pool worker takes the request; a registered runner ends it at once.   *)
ExecuteTask(r) ==
  /\ pc[r] = "queued"
  /\ Cardinality(Busy(host[r])) < MaxRunners
  /\ \/ runners[host[r]][task[r]] # NoRun /\ Freed(r)
     \/ /\ runners[host[r]][task[r]] = NoRun
        /\ Goto(r, "create")
        /\ UNCHANGED <<doc, out>>
  /\ UNCHANGED <<db, master, up, runners, history, spent>>

(* newTaskRunner reads the task; the runner is stored, replacing another   *)
(* one, and its stream opened, unless subscribing fails.                   *)
NewTaskRunner(r) ==
  /\ pc[r] = "create"
  /\ Goto(r, "start")
  /\ doc' = [doc EXCEPT ![r] = db[task[r]]]
  /\ runners' = [runners EXCEPT ![host[r]][task[r]] = r]
  /\ \/ subs' = [subs EXCEPT ![task[r]] = host[r]] /\ UNCHANGED spent
     \/ Spend("fault") /\ UNCHANGED subs
  /\ UNCHANGED <<db, saves, online, up, fetch, fetchDoc, msgs, forced, boot,
                 out, history>>

(* newTaskRunner fails: nothing is written, the task stays assigned *)
NewTaskRunnerFails(r) ==
  /\ pc[r] = "create"
  /\ Spend("fault")
  /\ Freed(r)
  /\ UNCHANGED <<db, master, up, runners, history>>

Replace(r, status, pid) ==
  db' = [db EXCEPT ![task[r]] = [doc[r] EXCEPT !.status = status, !.pid = pid]]

(* updateTask(running): a failed write is only logged *)
UpdateTaskRunning(r) ==
  /\ pc[r] = "start"
  /\ Goto(r, "reload")
  /\ \/ Replace(r, "running", doc[r].pid) /\ UNCHANGED spent
     \/ Spend("fault") /\ UNCHANGED db
  /\ UNCHANGED <<master, up, doc, out, runners, history>>

(* the end of updateTask: Runner.t is read again; failing, Run returns *)
ReloadTask(r) ==
  /\ pc[r] = "reload"
  /\ \/ /\ Goto(r, "cmd")
        /\ doc' = [doc EXCEPT ![r] = db[task[r]]]
        /\ UNCHANGED spent
     \/ /\ Goto(r, "leave")
        /\ Spend("fault")
        /\ UNCHANGED doc
  /\ UNCHANGED <<db, master, up, out, runners, history>>

Twin(r, s) == s # r /\ host[s] = host[r] /\ task[s] = task[r] /\ pc[s] = "proc"

(* The container is named after the task: beside a running twin on the     *)
(* same host docker exits with an error code.                              *)
StartProcess(r) ==
  /\ pc[r] = "cmd"
  /\ IF \E s \in Runs : Twin(r, s)
     THEN /\ Goto(r, "exited")
          /\ out' = [out EXCEPT ![r] = "error"]
          /\ UNCHANGED started
     ELSE /\ Goto(r, "proc")
          /\ started' = [started EXCEPT ![task[r]] = @ + 1]
          /\ UNCHANGED out
  /\ UNCHANGED <<db, master, up, doc, runners, requeued, targets, grants,
                 flapped, spent>>

(* the command cannot be built or docker cannot be started *)
StartFails(r) ==
  /\ pc[r] = "cmd"
  /\ Spend("fault")
  /\ Goto(r, "failed")
  /\ out' = [out EXCEPT ![r] = "error"]
  /\ UNCHANGED <<db, master, up, doc, runners, history>>

(* exit code 0, another one, or -1: killed at the sandbox timeout *)
ProcessExit(r, status) ==
  /\ pc[r] = "proc"
  /\ Goto(r, "exited")
  /\ out' = [out EXCEPT ![r] = status]
  /\ UNCHANGED <<db, master, up, doc, runners, history, spent>>

(* updateTask with the final status, from wait() or a failed start *)
UpdateTaskFinal(r) ==
  /\ pc[r] \in {"exited", "failed"}
  /\ Goto(r, IF pc[r] = "exited" THEN "cleanup" ELSE "leave")
  /\ \/ /\ Replace(r, out[r], IF pc[r] = "exited" THEN 1 ELSE doc[r].pid)
        /\ UNCHANGED spent
     \/ Spend("fault") /\ UNCHANGED db
  /\ UNCHANGED <<master, up, doc, out, runners, history>>

(* Deferred: remove the container by its name, which ends a twin's         *)
(* process too, delete the runner under the task's key and close the       *)
(* stream.  The master drops the entry of the task whoever opened it.      *)
EndOfRun(r) ==
  /\ pc[r] \in {"cleanup", "leave"}
  /\ LET hit == IF pc[r] = "cleanup" THEN {s \in Runs : Twin(r, s)} ELSE {} IN
     /\ pc' = [s \in Runs |-> IF s = r THEN "free"
                              ELSE IF s \in hit THEN "exited" ELSE pc[s]]
     /\ out' = [s \in Runs |-> IF s \in hit \cup {r} THEN "error" ELSE out[s]]
  /\ Forget({r})
  /\ DeleteRunner(host[r], task[r])
  /\ \/ subs' = [subs EXCEPT ![task[r]] = NoNode]
     \/ subs[task[r]] # host[r] /\ UNCHANGED subs
  /\ UNCHANGED <<db, saves, online, up, fetch, fetchDoc, msgs, forced, boot,
                 history, spent>>

-----------------------------------------------------------------------------
(* Cancel signals on the worker *)

(* A worker process dies: its runs end without a word, its streams close.  *)
(* A FetchTask handler still running on the master completes.              *)
Die(n) ==
  /\ up' = up \ {n}
  /\ flapped' = flapped \cup {n}
  /\ pc' = [r \in Runs |-> IF host[r] = n THEN "free" ELSE pc[r]]
  /\ Forget({r \in Runs : host[r] = n})
  /\ runners' = [runners EXCEPT ![n] = [t \in Tasks |-> NoRun]]
  /\ subs' = [t \in Tasks |-> IF subs[t] = n THEN NoNode ELSE subs[t]]
  /\ msgs' = {m \in msgs : m.node # n}
  /\ fetch' = [fetch EXCEPT ![n] = IF @.pc = "replied" THEN Idle ELSE @]

(* handleCancel without a runner: status cancelled, whatever it was *)
HandleCancelNoRunner(m) ==
  /\ m \in msgs
  /\ runners[m.node][m.task] = NoRun
  /\ msgs' = msgs \ {m}
  /\ Plan({Copy(m.task, "cancelled", db[m.task].node, "worker")})
  /\ UNCHANGED <<db, online, up, fetch, fetchDoc, subs, forced, boot, run,
                 runners, history, spent>>

(* Runner.Cancel cancels its context first and then waits with contexts    *)
(* derived from it, so it always reports an error: the process is killed   *)
(* and wait() decides on the status, and a soft signal is handled once     *)
(* more with force, which finds the runner or no runner.  When docker      *)
(* hangs for longer than cancelTask waits, the runner is only taken out of *)
(* the registry.                                                           *)
HandleCancel(m) ==
  LET r == runners[m.node][m.task]
      again == IF m.how = "soft" THEN {[m EXCEPT !.how = "escalated"]} ELSE {}
  IN
  /\ m \in msgs
  /\ r # NoRun /\ pc[r] \notin NoProcess
  /\ \/ /\ msgs' = (msgs \ {m}) \cup again
        /\ IF pc[r] = "proc"
           THEN /\ Goto(r, "exited")
                /\ \E status \in {"cancelled", "error"} :
                     out' = [out EXCEPT ![r] = status]
           ELSE UNCHANGED <<pc, task, host, out>>
        /\ UNCHANGED <<runners, spent>>
     \/ /\ msgs' = msgs \ {m}
        /\ Spend("fault")
        /\ DeleteRunner(m.node, m.task)
        /\ UNCHANGED <<pc, task, host, out>>
  /\ UNCHANGED <<db, saves, online, up, fetch, fetchDoc, subs, forced, boot,
                 doc, history>>

(* Before the process exists KillProcess dereferences nil, in a goroutine  *)
(* that does not recover.                                                  *)
HandleCancelPanics(m) ==
  LET r == runners[m.node][m.task] IN
  /\ m \in msgs
  /\ r # NoRun /\ pc[r] \in NoProcess
  /\ Die(m.node)
  /\ UNCHANGED <<db, saves, online, fetchDoc, forced, boot, out, requeued,
                 targets, grants, started, spent>>

(* The stream ends: idle for ten minutes, task finished, or disconnected.  *)
(* A signal that is being handled does not depend on it any more.          *)
StreamLost(t) ==
  /\ subs[t] # NoNode
  /\ subs' = [subs EXCEPT ![t] = NoNode]
  /\ msgs' = {m \in msgs : m.task # t \/ m.how = "escalated"}
  /\ UNCHANGED <<db, saves, online, up, fetch, fetchDoc, forced, boot, run,
                 runners, history, spent>>

(* checkAndCleanupStuckTasks *)
CleanupStuckTask(n, t) ==
  /\ runners[n][t] # NoRun
  /\ db[t].status = "cancelled"
  /\ DeleteRunner(n, t)
  /\ Plan({Copy(t, "cancelled", db[t].node, "worker")})
  /\ UNCHANGED <<db, online, up, fetch, fetchDoc, subs, msgs, forced, boot,
                 run, history, spent>>

-----------------------------------------------------------------------------
(* Node life cycle, as far as tasks depend on it *)

NodeCrash(n) ==
  /\ n \in up
  /\ Spend("crash")
  /\ Die(n)
  /\ UNCHANGED <<db, saves, online, fetchDoc, forced, boot, out, requeued,
                 targets, grants, started>>

(* a call of the old process is no longer waited for by then *)
NodeRestart(n) ==
  /\ n \notin up /\ fetch[n].pc # "read"
  /\ up' = up \cup {n}
  /\ UNCHANGED <<db, master, run, runners, history, spent>>

(* Register, SendHeartbeat and setWorkerNodeOnline *)
NodeOnline(n) ==
  /\ n \in up /\ n \notin online
  /\ online' = online \cup {n}
  /\ UNCHANGED <<db, saves, up, fetch, fetchDoc, subs, msgs, forced, boot,
                 run, runners, history, spent>>

RunningOn(n) == {t \in Tasks : db[t].status = "running" /\ db[t].node = n}

(* monitor: two failed health checks, setWorkerNodeOffline and             *)
(* HandleTasksForOfflineNode                                               *)
NodeOffline(n) ==
  /\ n \in online
  /\ \/ n \notin up /\ UNCHANGED spent
     \/ n \in up /\ Spend("outage")
  /\ online' = online \ {n}
  /\ flapped' = flapped \cup {n}
  /\ Plan({Copy(t, "node_disconnected", n, "plain") : t \in RunningOn(n)})
  /\ UNCHANGED <<db, up, fetch, fetchDoc, subs, msgs, forced, boot, run,
                 runners, requeued, targets, grants, started>>

(* The master process restarts: every handler and every write of its own   *)
(* that is on its way is gone, and so are its streams.  What a worker is   *)
(* about to write reaches the new master or fails.                         *)
MasterRestart ==
  /\ Spend("restart")
  /\ \E kept \in SUBSET {s \in saves : s.kind = "worker"} : saves' = kept
  /\ msgs' = {m \in msgs : m.how = "escalated"}
  /\ forced' = {}
  /\ subs' = [t \in Tasks |-> NoNode]
  /\ fetch' = [n \in Nodes |-> IF fetch[n].pc = "read" THEN Idle ELSE fetch[n]]
  /\ fetchDoc' = [n \in Nodes |-> Blank]
  /\ boot' = "due"
  /\ UNCHANGED <<db, online, up, run, runners, history>>

(* variant: interrupted tasks are queued again *)
InitTaskStatusRequeues ==
  /\ boot = "due"
  /\ boot' = "done"
  /\ Plan({Copy(t, "pending", db[t].node, "plain") :
             t \in {x \in Tasks : db[x].status \in {"assigned", "running"}}})
  /\ UNCHANGED <<db, online, up, fetch, fetchDoc, subs, msgs, forced, run,
                 runners, history, spent>>

InitTaskStatus ==
  /\ boot = "due"
  /\ boot' = "done"
  /\ Plan({Copy(t, "abnormal", db[t].node, "plain") :
             t \in {x \in Tasks :
                      db[x].status \in {"pending", "assigned", "running"}}})
  /\ UNCHANGED <<db, online, up, fetch, fetchDoc, subs, msgs, forced, run,
                 runners, history, spent>>

-----------------------------------------------------------------------------
(* Task reconciliation.  HandleNodeReconnection runs in a goroutine of its *)
(* own after every health check that passed, so its three parts run again  *)
(* and again, also beside those of an earlier check.                       *)

(* variant: a task without a stream must have ended well *)
ActualStatusGuessed(t) == IF subs[t] # NoNode THEN {"running"} ELSE {"finished"}

(* getActualTaskStatus for a task on a worker node, {} when it fails.  The *)
(* process is only asked for by a saved pid, and then on the master.       *)
ActualStatus(t) ==
  IF subs[t] # NoNode THEN {"running"}
  ELSE IF db[t].pid = 1 THEN {"running", "finished", "error"}
  ELSE {}

Healthy(n) == n \in up /\ n \in online

ReconcileDisconnectedTask(n, t) ==
  /\ Healthy(n)
  /\ db[t].status = "node_disconnected" /\ db[t].node = n
  /\ \E status \in ActualStatus(t) : Plan({Copy(t, status, n, "plain")})
  /\ UNCHANGED <<db, online, up, fetch, fetchDoc, subs, msgs, forced, boot,
                 run, runners, history, spent>>

(* variant: only after the node was really offline *)
ReconcileAbandonedIfFlapped(n, t) ==
  /\ Healthy(n) /\ n \in flapped
  /\ db[t].status = "assigned" /\ db[t].node = n
  /\ Spend("requeue")
  /\ Plan({Copy(t, "pending", n, "requeue")})
  /\ UNCHANGED <<db, online, up, fetch, fetchDoc, subs, msgs, forced, boot,
                 run, runners, history>>

ReconcileAbandonedAssigned(n, t) ==
  /\ Healthy(n)
  /\ db[t].status = "assigned" /\ db[t].node = n
  /\ Spend("requeue")
  /\ Plan({Copy(t, "pending", n, "requeue")})
  /\ UNCHANGED <<db, online, up, fetch, fetchDoc, subs, msgs, forced, boot,
                 run, runners, history>>

(* findAvailableNodeForTask finds a node that is online (and enabled: no   *)
(* node is disabled here); it may be the one the task is bound to.         *)
Reassign(t) ==
  /\ Spend("requeue")
  /\ \E m \in online : Plan({Copy(t, "pending", m, "requeue")})

ReconcileStalePending(n, t) ==
  /\ Healthy(n)
  /\ db[t].status = "pending" /\ db[t].node = n
  /\ Reassign(t)
  /\ UNCHANGED <<db, online, up, fetch, fetchDoc, subs, msgs, forced, boot,
                 run, runners, history>>

HandleStuckAssigned(t) ==
  /\ db[t].status = "assigned"
  /\ db[t].node \in Nodes \ online
  /\ \/ Reassign(t)
     \/ /\ online = {}
        /\ Plan({Copy(t, "abnormal", db[t].node, "plain")})
        /\ UNCHANGED spent
  /\ UNCHANGED <<db, online, up, fetch, fetchDoc, subs, msgs, forced, boot,
                 run, runners, history>>

(* reconcileAllRunningTasks, every five minutes *)
ReconcileTaskStatus(t) ==
  /\ db[t].status \in {"running", "node_disconnected"}
  /\ db[t].node # NoNode
  /\ \/ \E status \in ActualStatus(t) \ {db[t].status} :
          Plan({Copy(t, status, db[t].node, "plain")})
     \/ /\ subs[t] = NoNode
        /\ db[t].status = "node_disconnected"
        /\ Plan({Copy(t, "abnormal", db[t].node, "plain")})
  /\ UNCHANGED <<db, online, up, fetch, fetchDoc, subs, msgs, forced, boot,
                 run, runners, history, spent>>

-----------------------------------------------------------------------------
SchedulerStep ==
  \/ \E t \in Tasks : Enqueue(t) \/ CancelBySave(t) \/ ForceVerify(t)
  \/ \E t \in Tasks, force \in BOOLEAN : CancelBySignal(t, force)
  \/ MasterRestart \/ InitTaskStatus

FetchStep(n) ==
  \/ \E t \in Tasks : FetchTaskRead(n, t)
  \/ FetchTaskSave(n) \/ FetchTaskAbandoned(n) \/ FetchReplyLost(n)
  \/ RunTask(n) \/ RunTaskRefused(n)

RunnerStep(r) ==
  \/ ExecuteTask(r) \/ NewTaskRunner(r) \/ NewTaskRunnerFails(r)
  \/ UpdateTaskRunning(r) \/ ReloadTask(r) \/ StartProcess(r) \/ StartFails(r)
  \/ \E status \in {"finished", "error", "cancelled"} : ProcessExit(r, status)
  \/ UpdateTaskFinal(r) \/ EndOfRun(r)

SignalStep ==
  \/ \E m \in msgs :
       HandleCancelNoRunner(m) \/ HandleCancel(m) \/ HandleCancelPanics(m)
  \/ \E t \in Tasks : StreamLost(t)
  \/ \E n \in Nodes, t \in Tasks : CleanupStuckTask(n, t)

NodeStep(n) ==
  NodeCrash(n) \/ NodeRestart(n) \/ NodeOnline(n) \/ NodeOffline(n)

ReconcileStep ==
  \/ \E n \in Nodes, t \in Tasks :
       \/ ReconcileDisconnectedTask(n, t)
       \/ ReconcileAbandonedAssigned(n, t)
       \/ ReconcileStalePending(n, t)
  \/ \E t \in Tasks : HandleStuckAssigned(t) \/ ReconcileTaskStatus(t)

Next ==
  \/ SchedulerStep
  \/ \E s \in saves : Save(s)
  \/ \E n \in Nodes : FetchStep(n) \/ NodeStep(n)
  \/ \E r \in Runs : RunnerStep(r)
  \/ SignalStep
  \/ ReconcileStep

Spec == Init /\ [][Next]_vars

(* Every loop of the program comes round again and every call ends: the    *)
(* fetch loop, the runners (a process ends by its sandbox timeout at the   *)
(* latest), the handlers, a live node's heartbeat, the health checks and   *)
(* the periodic reconciliation.  Nobody has to enqueue, to cancel or to    *)
(* restart a node, and nothing has to fail.                                *)
Fairness ==
  /\ WF_vars(\E s \in saves : Save(s))
  /\ WF_vars(InitTaskStatus)
  /\ \A t \in Tasks : /\ WF_vars(ForceVerify(t))
                      /\ WF_vars(HandleStuckAssigned(t))
                      /\ WF_vars(ReconcileTaskStatus(t))
  /\ \A n \in Nodes : /\ WF_vars(FetchStep(n))
                      /\ WF_vars(NodeOnline(n))
                      /\ WF_vars(n \notin up /\ NodeOffline(n))
  /\ \A n \in Nodes, t \in Tasks :
       WF_vars(\/ ReconcileDisconnectedTask(n, t)
               \/ ReconcileAbandonedAssigned(n, t))
  /\ \A r \in Runs : WF_vars(RunnerStep(r))
  /\ WF_vars(\E m \in msgs : \/ HandleCancelNoRunner(m) \/ HandleCancel(m)
                             \/ HandleCancelPanics(m))

FairSpec == Spec /\ Fairness

-----------------------------------------------------------------------------
TypeOK ==
  /\ db \in [Tasks -> Doc]
  /\ saves \in SUBSET SaveSet
  /\ online \in SUBSET Nodes /\ up \in SUBSET Nodes
  /\ fetch \in [Nodes -> FetchState]
  /\ fetchDoc \in [Nodes -> Doc]
  /\ subs \in [Tasks -> Nodes \cup {NoNode}]
  /\ msgs \in SUBSET Signal
  /\ forced \in SUBSET Tasks
  /\ boot \in {"done", "due"}
  /\ pc \in [Runs -> RunPc]
  /\ task \in [Runs -> Tasks \cup {NoTask}]
  /\ host \in [Runs -> Nodes \cup {NoNode}]
  /\ doc \in [Runs -> Doc]
  /\ out \in [Runs -> Final]
  /\ runners \in [Nodes -> [Tasks -> Runs \cup {NoRun}]]
  /\ requeued \in [Tasks -> Nat]
  /\ targets \in [Tasks -> SUBSET (Nodes \cup {NoNode})]
  /\ grants \in [Tasks -> Nat]
  /\ started \in [Tasks -> Nat]
  /\ flapped \in SUBSET Nodes
  /\ spent \in [Budgets -> Nat]

Pinned == {t \in Tasks : Home[t] # NoNode}

(* A task bound to a node runs once, plus once for every time the          *)
(* reconciler really put it back to pending: no interleaving of stale      *)
(* whole-document writes by FetchTask, Cancel, the runners, a restarted    *)
(* master or a crashed worker gives it another run.                        *)
ExtraRunsNeedRequeue ==
  \A t \in Pinned : started[t] <= grants[t] /\ grants[t] <= 1 + requeued[t]

(* A task bound to a node is only ever in the hands of that node or of one *)
(* the reconciler re-assigned it to, although every writer replaces the    *)
(* node together with the status from a copy that may be out of date.      *)
RunsWhereBound ==
  \A r \in Runs :
    task[r] \in Pinned => host[r] \in {Home[task[r]]} \cup targets[task[r]]

(* A task is not reported finished unless a process was started for it:    *)
(* neither a late write nor the reconciler's guess from a saved pid makes  *)
(* a success out of a task that never ran.                                 *)
FinishedWasStarted ==
  \A t \in Tasks : db[t].status = "finished" => started[t] > 0

(* An entry of Service.runners is a run of that task on that node which    *)
(* has not ended, so a cancel signal cannot reach another task's process,  *)
(* even when two runs of one task overwrite and delete each other's entry. *)
RegistryIsLive ==
  \A n \in Nodes, t \in Tasks :
    LET r == runners[n][t] IN
    r # NoRun => /\ task[r] = t /\ host[r] = n
                 /\ pc[r] \notin {"free", "queued", "create"}

(* The tasks nodes have in their hands, and those reported finished. *)
Held == {<<task[r], host[r]>> : r \in {q \in Runs : pc[q] # "free"}}
Finished == {t \in Tasks : db[t].status = "finished"}

(* Scheduler, FetchTask, runners, cancel path and reconciler together      *)
(* implement the life of a task as an abstract specification has it: no    *)
(* interleaving of their copies, losses and crashes takes a step in which  *)
(* a node takes up or starts what it was not given, or in which a task is  *)
(* given away once more than somebody asked for.                           *)
Lifecycle == INSTANCE TaskLifecycle WITH held <- Held, finished <- Finished
LifecycleSpec == Lifecycle!Spec

(* Every task that is enqueued ends in a final status for good: neither a  *)
(* lost FetchTask answer, a copy saved after its call was given up, nor a  *)
(* late write leaves it pending, running or disconnected, also after it    *)
(* was put back to pending.  It may only stay assigned where the           *)
(* reconciler would put it back once more and the bound on that forbids it.*)
EveryTaskSettles ==
  \A t \in Tasks :
    <>[](\/ db[t].status \in Final \cup {"new"}
         \/ db[t].status = "assigned" /\ spent["requeue"] = MaxRequeues)

(* A node that was never offline loses no assigned task to the             *)
(* reconciliation "after node reconnection": its tasks run once.           *)
SteadyNodeRunsOnce ==
  \A t \in Pinned :
    started[t] > 1 => \E n \in {Home[t]} \cup targets[t] : n \in flapped

=============================================================================
