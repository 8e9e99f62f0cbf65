------------------------- MODULE TaskDispatchProofs -------------------------
(***************************************************************************)
(* Proofs about TaskDispatch for any set of tasks, nodes and runs and any  *)
(* bounds: type correctness, the safety invariants, and that the whole     *)
(* implements TaskLifecycle.                                               *)
(***************************************************************************)
EXTENDS TaskDispatch, FiniteSetTheorems, TLAPS

-----------------------------------------------------------------------------
(* Type correctness *)

(* A planned write has the type of a save, given the type of what was read.*)
LEMMA CopyType ==
  ASSUME TypeOK, NEW t \in Tasks, NEW st \in Status,
         NEW n \in Nodes \cup {NoNode}, NEW k \in SaveKind
  PROVE  Copy(t, st, n, k) \in SaveSet
<1>1. db[t].pid \in {0, 1}
  BY DEF TypeOK, Doc
<1> QED BY <1>1 DEF Copy, SaveSet, Doc

(* A changed copy of a document is a document. *)
LEMMA DocType ==
  ASSUME NEW d \in Doc, NEW st \in Status, NEW n \in Nodes \cup {NoNode},
         NEW p \in {0, 1}
  PROVE  /\ [d EXCEPT !.status = st] \in Doc
         /\ [d EXCEPT !.status = st, !.node = n] \in Doc
         /\ [d EXCEPT !.status = st, !.pid = p] \in Doc
         /\ d.node \in Nodes \cup {NoNode} /\ d.pid \in {0, 1}
BY DEF Doc

(* A document that is not in use. *)
LEMMA BlankType == Blank \in Doc
BY DEF Blank, Doc, Status

(* The budget stays a budget. *)
LEMMA SpendType ==
  ASSUME TypeOK, NEW b \in Budgets, Spend(b)
  PROVE  spent' \in [Budgets -> Nat]
BY DEF TypeOK, Spend

(* The initial state has the type. *)
LEMMA InitType == Init => TypeOK
<1> SUFFICES ASSUME Init PROVE TypeOK
  OBVIOUS
<1>1. Blank \in Doc /\ \A t \in Tasks : Fresh(t) \in Doc
  BY DispatchAssumption DEF Blank, Fresh, Doc, Status
<1>2. db \in [Tasks -> Doc] /\ fetchDoc \in [Nodes -> Doc]
      /\ doc \in [Runs -> Doc]
  BY <1>1 DEF Init
<1>3. fetch \in [Nodes -> FetchState]
  BY DEF Init, FetchState
<1> QED BY <1>2, <1>3 DEF Init, TypeOK, Final, RunPc

(* Writing a waiting copy keeps the type. *)
LEMMA SaveType ==
  ASSUME TypeOK, NEW s \in saves, Save(s)
  PROVE  TypeOK'
<1>1. s.task \in Tasks /\ s.doc \in Doc /\ s.doc.node \in Nodes \cup {NoNode}
  BY DEF TypeOK, SaveSet, Doc
<1>2. db' \in [Tasks -> Doc] /\ saves' \in SUBSET SaveSet
  BY <1>1 DEF TypeOK, Save
<1>3. requeued' \in [Tasks -> Nat]
  BY <1>1 DEF TypeOK, Save
<1>4. targets' \in [Tasks -> SUBSET (Nodes \cup {NoNode})]
  BY <1>1 DEF TypeOK, Save
<1> QED BY <1>2, <1>3, <1>4 DEF TypeOK, Save, run

(* The scheduler's steps keep the type. *)
LEMMA SchedulerType ==
  ASSUME TypeOK, SchedulerStep
  PROVE  TypeOK'
<1> USE DEF master, run, history
<1>1. ASSUME NEW t \in Tasks, Enqueue(t) PROVE TypeOK'
  <2>1. [db[t] EXCEPT !.status = "pending"] \in Doc
    <3>1. db[t] \in Doc
      BY DEF TypeOK
    <3> QED BY <3>1, DocType DEF Status
  <2>2. db' \in [Tasks -> Doc]
    BY <1>1, <2>1 DEF TypeOK, Enqueue
  <2> QED BY <1>1, <2>2 DEF TypeOK, Enqueue
<1>2. ASSUME NEW t \in Tasks, CancelBySave(t) PROVE TypeOK'
  <2>1. db[t].node \in Nodes \cup {NoNode}
    BY DEF TypeOK, Doc
  <2>2. \A k \in SaveKind, n \in Nodes \cup {NoNode} :
          /\ Copy(t, "cancelled", n, k) \in SaveSet
          /\ Copy(t, "abnormal", n, k) \in SaveSet
    BY CopyType DEF Status, Final
  <2>3. saves' \in SUBSET SaveSet
    BY <1>2, <2>1, <2>2 DEF TypeOK, CancelBySave, Plan, SaveKind
  <2>4. spent' \in [Budgets -> Nat]
    BY <1>2, SpendType DEF CancelBySave, Budgets
  <2> QED BY <1>2, <2>3, <2>4 DEF TypeOK, CancelBySave
<1>3. ASSUME NEW t \in Tasks, ForceVerify(t) PROVE TypeOK'
  <2>1. db[t].node \in Nodes \cup {NoNode}
    BY DEF TypeOK, Doc
  <2>2. Copy(t, "cancelled", db[t].node, "plain") \in SaveSet
    BY <2>1, CopyType DEF Status, Final, SaveKind
  <2>3. saves' \in SUBSET SaveSet
    BY <1>3, <2>2 DEF TypeOK, ForceVerify, Plan
  <2> QED BY <1>3, <2>3 DEF TypeOK, ForceVerify
<1>4. ASSUME NEW t \in Tasks, NEW force \in BOOLEAN, CancelBySignal(t, force)
      PROVE  TypeOK'
  <2>1. [task |-> t, node |-> subs[t],
          how |-> IF force THEN "force" ELSE "soft"] \in Signal
    BY <1>4 DEF TypeOK, CancelBySignal, Signal
  <2>2. msgs' \in SUBSET Signal
    BY <1>4, <2>1 DEF TypeOK, CancelBySignal
  <2>3. forced' \in SUBSET Tasks
    BY <1>4 DEF TypeOK, CancelBySignal
  <2>4. spent' \in [Budgets -> Nat]
    BY <1>4, SpendType DEF CancelBySignal, Budgets
  <2> QED BY <1>4, <2>2, <2>3, <2>4 DEF TypeOK, CancelBySignal
<1>5. CASE MasterRestart
  <2>1. spent' \in [Budgets -> Nat]
    BY <1>5, SpendType DEF MasterRestart, Budgets
  <2>2. Blank \in Doc
    BY DEF Blank, Doc, Status
  <2>3. fetchDoc' \in [Nodes -> Doc]
    BY <1>5, <2>2 DEF MasterRestart
  <2>4. fetch' \in [Nodes -> FetchState]
    BY <1>5 DEF TypeOK, MasterRestart, FetchState
  <2> QED BY <1>5, <2>1, <2>3, <2>4 DEF TypeOK, MasterRestart
<1>6. CASE InitTaskStatus
  <2>1. \A t \in Tasks : Copy(t, "abnormal", db[t].node, "plain") \in SaveSet
    <3> TAKE t \in Tasks
    <3>1. db[t].node \in Nodes \cup {NoNode}
      BY DEF TypeOK, Doc
    <3> QED BY <3>1, CopyType DEF Status, Final, SaveKind
  <2>2. saves' \in SUBSET SaveSet
    BY <1>6, <2>1 DEF TypeOK, InitTaskStatus, Plan
  <2> QED BY <1>6, <2>2 DEF TypeOK, InitTaskStatus
<1> QED BY <1>1, <1>2, <1>3, <1>4, <1>5, <1>6 DEF SchedulerStep

(* A FetchTask call under way is about a task. *)
LEMMA FetchBusy ==
  ASSUME TypeOK, NEW n \in Nodes, fetch[n].pc \in {"read", "replied"}
  PROVE  fetch[n].task \in Tasks
         /\ [fetch[n] EXCEPT !.pc = "replied"]
            = [pc |-> "replied", task |-> fetch[n].task]
<1>1. fetch[n] \in FetchState
  BY DEF TypeOK
<1>2. fetch[n] \in [pc : {"read", "replied"}, task : Tasks]
  BY <1>1 DEF FetchState, Idle
<1>3. \A x \in [pc : {"read", "replied"}, task : Tasks] :
        [x EXCEPT !.pc = "replied"] = [pc |-> "replied", task |-> x.task]
  OBVIOUS
<1> QED BY <1>2, <1>3

(* What a call that is given up leaves behind: its copy. *)
LEMMA AbandonedCopy ==
  ASSUME TypeOK, NEW n \in Nodes, FetchTaskAbandoned(n)
  PROVE  \E s \in SaveSet :
           /\ saves' = saves \cup {s}
           /\ s.task = fetch[n].task /\ s.doc = fetchDoc[n]
           /\ s.kind = "plain"
<1>1. fetch[n].task \in Tasks /\ fetchDoc[n] \in Doc
  BY FetchBusy DEF FetchTaskAbandoned, TypeOK
<1>2. PICK s : s = [task |-> fetch[n].task, doc |-> fetchDoc[n],
                    kind |-> "plain"]
  OBVIOUS
<1>3. s \in SaveSet
  BY <1>1, <1>2 DEF SaveSet, SaveKind
<1>4. s.task = fetch[n].task /\ s.doc = fetchDoc[n] /\ s.kind = "plain"
  BY <1>2
<1>5. saves' = saves \cup {s}
  BY <1>2 DEF FetchTaskAbandoned, Plan
<1> QED BY <1>3, <1>4, <1>5

(* The steps of a fetch cycle keep the type. *)
LEMMA FetchType ==
  ASSUME TypeOK, NEW n \in Nodes, FetchStep(n)
  PROVE  TypeOK'
<1> USE DEF run, history
<1>1. ASSUME NEW t \in Tasks, FetchTaskRead(n, t) PROVE TypeOK'
  <2>1. [db[t] EXCEPT !.status = "assigned", !.node = n] \in Doc
    <3>1. db[t] \in Doc
      BY DEF TypeOK
    <3> QED BY <3>1, DocType DEF Status
  <2>2. fetchDoc' \in [Nodes -> Doc]
    BY <1>1, <2>1 DEF TypeOK, FetchTaskRead
  <2>3. fetch' \in [Nodes -> FetchState]
    <3>1. [pc |-> "read", task |-> t] \in FetchState
      BY DEF FetchState
    <3> QED BY <1>1, <3>1 DEF TypeOK, FetchTaskRead
  <2>4. spent' \in [Budgets -> Nat]
    BY <1>1, SpendType DEF TypeOK, FetchTaskRead, Budgets
  <2> QED BY <1>1, <2>2, <2>3, <2>4 DEF TypeOK, FetchTaskRead
<1>2. ASSUME FetchDone(n)
      PROVE  fetch' \in [Nodes -> FetchState] /\ fetchDoc' \in [Nodes -> Doc]
  <2>1. Idle \in FetchState
    BY DEF FetchState
  <2> QED BY <1>2, <2>1, BlankType DEF TypeOK, FetchDone
<1>3. CASE FetchTaskSave(n)
  <2>1. fetch[n].task \in Tasks
    BY <1>3, FetchBusy DEF FetchTaskSave
  <2>2. db' \in [Tasks -> Doc] /\ fetchDoc' \in [Nodes -> Doc]
    BY <1>3, <2>1, BlankType DEF TypeOK, FetchTaskSave
  <2>3. grants' \in [Tasks -> Nat]
    BY <1>3, <2>1 DEF TypeOK, FetchTaskSave
  <2>4. fetch' \in [Nodes -> FetchState]
    <3>1. [fetch[n] EXCEPT !.pc = "replied"]
          = [pc |-> "replied", task |-> fetch[n].task]
      BY <1>3, FetchBusy DEF FetchTaskSave
    <3>2. [pc |-> "replied", task |-> fetch[n].task] \in FetchState
          /\ Idle \in FetchState
      BY <2>1 DEF FetchState
    <3> QED BY <1>3, <3>1, <3>2 DEF TypeOK, FetchTaskSave
  <2> QED BY <1>3, <2>2, <2>3, <2>4 DEF TypeOK, FetchTaskSave
<1>4. CASE FetchReplyLost(n)
  <2>1. spent' \in [Budgets -> Nat]
    BY <1>4, SpendType DEF FetchReplyLost, Budgets
  <2>2. fetch' \in [Nodes -> FetchState] /\ fetchDoc' \in [Nodes -> Doc]
    BY <1>2, <1>4 DEF FetchReplyLost
  <2> QED BY <1>4, <2>1, <2>2 DEF TypeOK, FetchReplyLost
<1>5. CASE RunTask(n)
  <2>1. fetch[n].task \in Tasks
    BY <1>5, FetchBusy DEF RunTask
  <2>2. fetch' \in [Nodes -> FetchState] /\ fetchDoc' \in [Nodes -> Doc]
    BY <1>2, <1>5 DEF RunTask
  <2>3. pc' \in [Runs -> RunPc] /\ task' \in [Runs -> Tasks \cup {NoTask}]
        /\ host' \in [Runs -> Nodes \cup {NoNode}]
    BY <1>5, <2>1 DEF TypeOK, RunTask, RunPc, Waiting
  <2> QED BY <1>5, <2>2, <2>3 DEF TypeOK, RunTask
<1>6. CASE RunTaskRefused(n)
  <2> DEFINE t == fetch[n].task
  <2>1. t \in Tasks
    BY <1>6, FetchBusy DEF RunTaskRefused
  <2>2. db[t].node \in Nodes \cup {NoNode}
    BY <2>1 DEF TypeOK, Doc
  <2>3. Copy(t, "error", db[t].node, "worker") \in SaveSet
    BY <2>1, <2>2, CopyType DEF Status, Final, SaveKind
  <2>4. saves' \in SUBSET SaveSet
    BY <1>6, <2>3 DEF TypeOK, RunTaskRefused, Plan
  <2>5. fetch' \in [Nodes -> FetchState] /\ fetchDoc' \in [Nodes -> Doc]
    BY <1>2, <1>6 DEF RunTaskRefused
  <2> QED BY <1>6, <2>4, <2>5 DEF TypeOK, RunTaskRefused
<1>7. CASE FetchTaskAbandoned(n)
  <2>1. spent' \in [Budgets -> Nat]
    BY <1>7, SpendType DEF TypeOK, FetchTaskAbandoned, Budgets
  <2>2. fetch' \in [Nodes -> FetchState] /\ fetchDoc' \in [Nodes -> Doc]
    BY <1>2, <1>7 DEF FetchTaskAbandoned
  <2>3. saves' \in SUBSET SaveSet
    BY <1>7, AbandonedCopy DEF TypeOK
  <2> QED BY <1>7, <2>1, <2>2, <2>3 DEF TypeOK, FetchTaskAbandoned
<1> QED BY <1>1, <1>3, <1>4, <1>5, <1>6, <1>7 DEF FetchStep

-----------------------------------------------------------------------------
(* A run that is under way has a task and a node. *)
LiveRuns ==
  \A r \in Runs : pc[r] # "free" => task[r] \in Tasks /\ host[r] \in Nodes

(* What is forgotten of ended runs keeps the type. *)
LEMMA ForgetType ==
  ASSUME TypeOK, NEW gone, Forget(gone)
  PROVE  /\ task' \in [Runs -> Tasks \cup {NoTask}]
         /\ host' \in [Runs -> Nodes \cup {NoNode}]
         /\ doc' \in [Runs -> Doc]
<1>1. \A r \in Runs : task[r] \in Tasks \cup {NoTask}
                      /\ host[r] \in Nodes \cup {NoNode} /\ doc[r] \in Doc
  BY DEF TypeOK
<1> QED BY <1>1, BlankType DEF Forget

(* A runner's write of its own copy keeps the type of the database. *)
LEMMA ReplaceType ==
  ASSUME TypeOK, NEW r \in Runs, task[r] \in Tasks, NEW st \in Status,
         NEW p \in {0, 1}, Replace(r, st, p)
  PROVE  db' \in [Tasks -> Doc]
<1>1. doc[r] \in Doc
  BY DEF TypeOK
<1>2. [doc[r] EXCEPT !.status = st, !.pid = p] \in Doc
  <2>1. NoNode \in Nodes \cup {NoNode}
    OBVIOUS
  <2> QED BY <1>1, <2>1, DocType
<1> QED BY <1>2 DEF TypeOK, Replace

(* The steps of executeTask and the runner keep the type. *)
LEMMA RunnerType ==
  ASSUME TypeOK, LiveRuns, NEW r \in Runs, RunnerStep(r)
  PROVE  TypeOK'
<1> USE DEF master, history
<1>1. ASSUME pc[r] # "free"
      PROVE  task[r] \in Tasks /\ host[r] \in Nodes /\ db[task[r]] \in Doc
  BY <1>1 DEF LiveRuns, TypeOK
<1>2. ASSUME NEW p \in RunPc, Goto(r, p)
      PROVE  pc' \in [Runs -> RunPc] /\ task' \in [Runs -> Tasks \cup {NoTask}]
             /\ host' \in [Runs -> Nodes \cup {NoNode}]
  BY <1>2 DEF TypeOK, Goto
<1>3. ASSUME Freed(r)
      PROVE  /\ pc' \in [Runs -> RunPc] /\ task' \in [Runs -> Tasks \cup {NoTask}]
             /\ host' \in [Runs -> Nodes \cup {NoNode}]
             /\ doc' \in [Runs -> Doc] /\ out' = out
  <2>1. pc' \in [Runs -> RunPc]
    BY <1>3 DEF TypeOK, Freed, RunPc
  <2>2. Forget({r}) /\ out' = out
    BY <1>3 DEF Freed
  <2> QED BY <2>1, <2>2, ForgetType
<1>4. CASE ExecuteTask(r)
  <2>1. CASE Freed(r)
    BY <1>3, <1>4, <2>1 DEF TypeOK, ExecuteTask
  <2>2. CASE Goto(r, "create") /\ UNCHANGED <<doc, out>>
    <3>1. "create" \in RunPc
      BY DEF RunPc, Waiting
    <3> QED BY <1>2, <1>4, <2>2, <3>1 DEF TypeOK, ExecuteTask
  <2> QED BY <1>4, <2>1, <2>2 DEF ExecuteTask
<1>5. CASE NewTaskRunner(r)
  <2>1. task[r] \in Tasks /\ host[r] \in Nodes /\ db[task[r]] \in Doc
    BY <1>1, <1>5 DEF NewTaskRunner
  <2>2. "start" \in RunPc /\ Goto(r, "start")
    BY <1>5 DEF RunPc, Waiting, NewTaskRunner
  <2>3. doc' \in [Runs -> Doc]
    BY <1>5, <2>1 DEF TypeOK, NewTaskRunner
  <2>4. runners' \in [Nodes -> [Tasks -> Runs \cup {NoRun}]]
    BY <1>5, <2>1 DEF TypeOK, NewTaskRunner
  <2>5. subs' \in [Tasks -> Nodes \cup {NoNode}]
    BY <1>5, <2>1 DEF TypeOK, NewTaskRunner
  <2>6. spent' \in [Budgets -> Nat]
    <3>1. CASE UNCHANGED spent
      BY <3>1 DEF TypeOK
    <3>2. CASE Spend("fault")
      BY <3>2, SpendType DEF Budgets
    <3> QED BY <1>5, <3>1, <3>2 DEF NewTaskRunner
  <2> QED BY <1>2, <1>5, <2>2, <2>3, <2>4, <2>5, <2>6 DEF TypeOK, NewTaskRunner
<1>6. CASE NewTaskRunnerFails(r)
  <2>1. spent' \in [Budgets -> Nat]
    BY <1>6, SpendType DEF NewTaskRunnerFails, Budgets
  <2> QED BY <1>3, <1>6, <2>1 DEF TypeOK, NewTaskRunnerFails
<1>7. CASE UpdateTaskRunning(r)
  <2>1. task[r] \in Tasks
    BY <1>1, <1>7 DEF UpdateTaskRunning
  <2>2. "reload" \in RunPc /\ Goto(r, "reload")
    BY <1>7 DEF RunPc, Waiting, UpdateTaskRunning
  <2>3. db' \in [Tasks -> Doc] /\ spent' \in [Budgets -> Nat]
    <3>1. CASE Replace(r, "running", doc[r].pid) /\ UNCHANGED spent
      <4>1. doc[r].pid \in {0, 1}
        BY DEF TypeOK, Doc
      <4>2. db' \in [Tasks -> Doc]
        BY <2>1, <3>1, <4>1, ReplaceType DEF Status
      <4> QED BY <3>1, <4>2 DEF TypeOK
    <3>2. CASE Spend("fault") /\ UNCHANGED db
      BY <3>2, SpendType DEF Budgets, TypeOK
    <3> QED BY <1>7, <3>1, <3>2 DEF UpdateTaskRunning
  <2> QED BY <1>2, <1>7, <2>2, <2>3 DEF TypeOK, UpdateTaskRunning
<1>8. CASE ReloadTask(r)
  <2>1. task[r] \in Tasks /\ db[task[r]] \in Doc
    BY <1>1, <1>8 DEF ReloadTask
  <2>2. doc' \in [Runs -> Doc]
    BY <1>8, <2>1 DEF TypeOK, ReloadTask
  <2>3. spent' \in [Budgets -> Nat]
    BY <1>8, SpendType DEF TypeOK, ReloadTask, Budgets
  <2>4. "cmd" \in RunPc /\ "leave" \in RunPc
        /\ (Goto(r, "cmd") \/ Goto(r, "leave"))
    BY <1>8 DEF RunPc, Waiting, NoProcess, ReloadTask
  <2>5. pc' \in [Runs -> RunPc] /\ task' \in [Runs -> Tasks \cup {NoTask}]
        /\ host' \in [Runs -> Nodes \cup {NoNode}]
    BY <1>2, <2>4
  <2> QED BY <1>8, <2>2, <2>3, <2>5 DEF TypeOK, ReloadTask
<1>9. CASE StartProcess(r)
  <2>1. task[r] \in Tasks
    BY <1>1, <1>9 DEF StartProcess
  <2>2. "exited" \in RunPc /\ "proc" \in RunPc
        /\ (Goto(r, "exited") \/ Goto(r, "proc"))
    BY <1>9 DEF RunPc, StartProcess
  <2>3. pc' \in [Runs -> RunPc] /\ task' \in [Runs -> Tasks \cup {NoTask}]
        /\ host' \in [Runs -> Nodes \cup {NoNode}]
    BY <1>2, <2>2
  <2>4. out' \in [Runs -> Final]
    BY <1>9 DEF TypeOK, StartProcess, Final
  <2>5. started' \in [Tasks -> Nat]
    BY <1>9, <2>1 DEF TypeOK, StartProcess
  <2> QED BY <1>9, <2>3, <2>4, <2>5 DEF TypeOK, StartProcess
<1>10. CASE StartFails(r)
  <2>1. "failed" \in RunPc /\ Goto(r, "failed")
    BY <1>10 DEF RunPc, NoProcess, StartFails
  <2>2. out' \in [Runs -> Final]
    BY <1>10 DEF TypeOK, StartFails, Final
  <2>3. spent' \in [Budgets -> Nat]
    BY <1>10, SpendType DEF StartFails, Budgets
  <2> QED BY <1>2, <1>10, <2>1, <2>2, <2>3 DEF TypeOK, StartFails
<1>11. ASSUME NEW status \in {"finished", "error", "cancelled"},
              ProcessExit(r, status)
       PROVE  TypeOK'
  <2>1. "exited" \in RunPc /\ Goto(r, "exited")
    BY <1>11 DEF RunPc, ProcessExit
  <2>2. out' \in [Runs -> Final]
    BY <1>11 DEF TypeOK, ProcessExit, Final
  <2> QED BY <1>2, <1>11, <2>1, <2>2 DEF TypeOK, ProcessExit
<1>12. CASE UpdateTaskFinal(r)
  <2>1. task[r] \in Tasks
    BY <1>1, <1>12 DEF UpdateTaskFinal
  <2>2. \A p \in {"cleanup", "leave"} : p \in RunPc
    BY DEF RunPc, NoProcess
  <2>3. pc' \in [Runs -> RunPc] /\ task' \in [Runs -> Tasks \cup {NoTask}]
        /\ host' \in [Runs -> Nodes \cup {NoNode}]
    BY <1>2, <1>12, <2>2 DEF UpdateTaskFinal
  <2>4. db' \in [Tasks -> Doc] /\ spent' \in [Budgets -> Nat]
    <3>1. CASE /\ Replace(r, out[r], IF pc[r] = "exited" THEN 1 ELSE doc[r].pid)
               /\ UNCHANGED spent
      <4> DEFINE p == IF pc[r] = "exited" THEN 1 ELSE doc[r].pid
      <4>1. p \in {0, 1} /\ out[r] \in Status
        BY DEF TypeOK, Doc, Status
      <4> HIDE DEF p
      <4>2. db' \in [Tasks -> Doc]
        BY <2>1, <3>1, <4>1, ReplaceType DEF p
      <4> QED BY <3>1, <4>2 DEF TypeOK
    <3>2. CASE Spend("fault") /\ UNCHANGED db
      BY <3>2, SpendType DEF Budgets, TypeOK
    <3> QED BY <1>12, <3>1, <3>2 DEF UpdateTaskFinal
  <2> QED BY <1>12, <2>3, <2>4 DEF TypeOK, UpdateTaskFinal
<1>13. CASE EndOfRun(r)
  <2>1. task[r] \in Tasks /\ host[r] \in Nodes
    BY <1>1, <1>13 DEF EndOfRun
  <2>2. pc' \in [Runs -> RunPc] /\ out' \in [Runs -> Final]
    BY <1>13 DEF TypeOK, EndOfRun, RunPc, Final
  <2>3. /\ task' \in [Runs -> Tasks \cup {NoTask}]
        /\ host' \in [Runs -> Nodes \cup {NoNode}] /\ doc' \in [Runs -> Doc]
    BY <1>13, ForgetType DEF EndOfRun
  <2>4. runners' \in [Nodes -> [Tasks -> Runs \cup {NoRun}]]
    BY <1>13, <2>1 DEF TypeOK, EndOfRun, DeleteRunner
  <2>5. subs' \in [Tasks -> Nodes \cup {NoNode}]
    BY <1>13, <2>1 DEF TypeOK, EndOfRun
  <2> QED BY <1>13, <2>2, <2>3, <2>4, <2>5 DEF TypeOK, EndOfRun
<1> QED BY <1>4, <1>5, <1>6, <1>7, <1>8, <1>9, <1>10, <1>11, <1>12, <1>13
        DEF RunnerStep

(* A planned write keeps the type of the set of writes. *)
LEMMA PlanType ==
  ASSUME TypeOK, NEW t \in Tasks, NEW st \in Status,
         NEW n \in Nodes \cup {NoNode}, NEW k \in SaveKind,
         Plan({Copy(t, st, n, k)})
  PROVE  saves' \in SUBSET SaveSet
<1>1. Copy(t, st, n, k) \in SaveSet
  BY CopyType
<1> QED BY <1>1 DEF TypeOK, Plan

(* The death of a worker process keeps the type. *)
LEMMA DieType ==
  ASSUME TypeOK, NEW n \in Nodes, Die(n), spent' \in [Budgets -> Nat],
         UNCHANGED <<db, saves, online, fetchDoc, forced, boot, out, requeued,
                     targets, grants, started>>
  PROVE  TypeOK'
<1>1. /\ task' \in [Runs -> Tasks \cup {NoTask}]
      /\ host' \in [Runs -> Nodes \cup {NoNode}] /\ doc' \in [Runs -> Doc]
  BY ForgetType DEF Die
<1>2. pc' \in [Runs -> RunPc] /\ runners' \in [Nodes -> [Tasks -> Runs \cup {NoRun}]]
  BY DEF TypeOK, Die, RunPc
<1>3. subs' \in [Tasks -> Nodes \cup {NoNode}]
      /\ msgs' \in SUBSET Signal
  BY DEF TypeOK, Die
<1>4. fetch' \in [Nodes -> FetchState]
  <2>1. Idle \in FetchState
    BY DEF FetchState
  <2> QED BY <2>1 DEF TypeOK, Die
<1>5. up' \in SUBSET Nodes /\ flapped' \in SUBSET Nodes
  BY DEF TypeOK, Die
<1> QED BY <1>1, <1>2, <1>3, <1>4, <1>5 DEF TypeOK

(* A deleted registry entry keeps the registry's type. *)
LEMMA DeleteType ==
  ASSUME TypeOK, NEW n \in Nodes, NEW t \in Tasks, DeleteRunner(n, t)
  PROVE  runners' \in [Nodes -> [Tasks -> Runs \cup {NoRun}]]
<1>1. runners \in [Nodes -> [Tasks -> Runs \cup {NoRun}]]
  BY DEF TypeOK
<1>2. runners' = [runners EXCEPT ![n][t] = NoRun]
  BY DEF DeleteRunner
<1> QED BY <1>1, <1>2

(* What a cancel signal or the end of a stream does keeps the type. *)
LEMMA SignalType ==
  ASSUME TypeOK, SignalStep
  PROVE  TypeOK'
<1> USE DEF run, history
<1>0. \A m \in msgs : m.task \in Tasks /\ m.node \in Nodes
  BY DEF TypeOK, Signal
<1>1. ASSUME NEW m \in msgs, HandleCancelNoRunner(m) PROVE TypeOK'
  <2>1. m.task \in Tasks /\ db[m.task].node \in Nodes \cup {NoNode}
    BY <1>0 DEF TypeOK, Doc
  <2>2. saves' \in SUBSET SaveSet
    BY <1>1, <2>1, PlanType DEF HandleCancelNoRunner, Status, Final, SaveKind
  <2>3. msgs' \in SUBSET Signal
    BY <1>1 DEF TypeOK, HandleCancelNoRunner
  <2> QED BY <1>1, <2>2, <2>3 DEF TypeOK, HandleCancelNoRunner
<1>2. ASSUME NEW m \in msgs, HandleCancel(m) PROVE TypeOK'
  <2> DEFINE r == runners[m.node][m.task]
  <2>1. m.task \in Tasks /\ m.node \in Nodes /\ r \in Runs
    BY <1>0, <1>2 DEF TypeOK, HandleCancel
  <2> HIDE DEF r
  <2>2. msgs' \in SUBSET Signal
    <3>1. m \in Signal /\ [m EXCEPT !.how = "escalated"] \in Signal
      BY DEF TypeOK, Signal
    <3> QED BY <1>2, <3>1 DEF TypeOK, HandleCancel
  <2>3. runners' \in [Nodes -> [Tasks -> Runs \cup {NoRun}]]
    <3>1. UNCHANGED runners \/ DeleteRunner(m.node, m.task)
      BY <1>2 DEF HandleCancel
    <3>2. CASE UNCHANGED runners
      BY <3>2 DEF TypeOK
    <3>3. CASE DeleteRunner(m.node, m.task)
      BY <2>1, <3>3, DeleteType
    <3> QED BY <3>1, <3>2, <3>3
  <2>4. spent' \in [Budgets -> Nat]
    BY <1>2, SpendType DEF TypeOK, HandleCancel, Budgets
  <2>5. pc' \in [Runs -> RunPc] /\ out' \in [Runs -> Final]
        /\ UNCHANGED <<task, host>>
    BY <1>2, <2>1 DEF TypeOK, HandleCancel, Goto, RunPc, Final, r
  <2> QED BY <1>2, <2>2, <2>3, <2>4, <2>5 DEF TypeOK, HandleCancel
<1>3. ASSUME NEW m \in msgs, HandleCancelPanics(m) PROVE TypeOK'
  <2>1. spent' \in [Budgets -> Nat] /\ Die(m.node)
    BY <1>3 DEF TypeOK, HandleCancelPanics
  <2> QED BY <1>0, <1>3, <2>1, DieType DEF HandleCancelPanics
<1>4. ASSUME NEW t \in Tasks, StreamLost(t) PROVE TypeOK'
  BY <1>4 DEF TypeOK, StreamLost
<1>5. ASSUME NEW n \in Nodes, NEW t \in Tasks, CleanupStuckTask(n, t)
      PROVE  TypeOK'
  <2>1. db[t].node \in Nodes \cup {NoNode}
    BY DEF TypeOK, Doc
  <2>2. saves' \in SUBSET SaveSet
    BY <1>5, <2>1, PlanType DEF CleanupStuckTask, Status, Final, SaveKind
  <2>3. runners' \in [Nodes -> [Tasks -> Runs \cup {NoRun}]]
    BY <1>5 DEF TypeOK, CleanupStuckTask, DeleteRunner
  <2> QED BY <1>5, <2>2, <2>3 DEF TypeOK, CleanupStuckTask
<1> QED BY <1>1, <1>2, <1>3, <1>4, <1>5 DEF SignalStep

(* The life cycle of a node keeps the type. *)
LEMMA NodeType ==
  ASSUME TypeOK, NEW n \in Nodes, NodeStep(n)
  PROVE  TypeOK'
<1> USE DEF master, run, history
<1>1. CASE NodeCrash(n)
  <2>1. spent' \in [Budgets -> Nat]
    BY <1>1, SpendType DEF NodeCrash, Budgets
  <2> QED BY <1>1, <2>1, DieType DEF NodeCrash
<1>2. CASE NodeRestart(n)
  BY <1>2 DEF TypeOK, NodeRestart
<1>3. CASE NodeOnline(n)
  BY <1>3 DEF TypeOK, NodeOnline
<1>4. CASE NodeOffline(n)
  <2>1. \A t \in Tasks : Copy(t, "node_disconnected", n, "plain") \in SaveSet
    BY CopyType DEF Status, SaveKind
  <2>2. saves' \in SUBSET SaveSet
    BY <1>4, <2>1 DEF TypeOK, NodeOffline, Plan, RunningOn
  <2>3. spent' \in [Budgets -> Nat]
    BY <1>4, SpendType DEF TypeOK, NodeOffline, Budgets
  <2>4. online' \in SUBSET Nodes /\ flapped' \in SUBSET Nodes
    BY <1>4 DEF TypeOK, NodeOffline
  <2> QED BY <1>4, <2>2, <2>3, <2>4 DEF TypeOK, NodeOffline
<1> QED BY <1>1, <1>2, <1>3, <1>4 DEF NodeStep

(* Reconciliation keeps the type. *)
LEMMA ReconcileType ==
  ASSUME TypeOK, ReconcileStep
  PROVE  TypeOK'
<1> USE DEF run, history
<1>1. ASSUME NEW t \in Tasks, Reassign(t)
      PROVE  saves' \in SUBSET SaveSet /\ spent' \in [Budgets -> Nat]
  <2>1. PICK m \in online : Plan({Copy(t, "pending", m, "requeue")})
    BY <1>1 DEF Reassign
  <2>2. m \in Nodes \cup {NoNode}
    BY DEF TypeOK
  <2>3. saves' \in SUBSET SaveSet
    BY <2>1, <2>2, PlanType DEF Status, SaveKind
  <2> QED BY <1>1, <2>3, SpendType DEF Reassign, Budgets
<1>2. \A t \in Tasks : ActualStatus(t) \subseteq Status
                       /\ db[t].node \in Nodes \cup {NoNode}
  BY DEF TypeOK, Doc, ActualStatus, Status, Final
<1>3. ASSUME NEW n \in Nodes, NEW t \in Tasks, ReconcileDisconnectedTask(n, t)
      PROVE  TypeOK'
  <2>1. saves' \in SUBSET SaveSet
    BY <1>2, <1>3, PlanType DEF ReconcileDisconnectedTask, SaveKind
  <2> QED BY <1>3, <2>1 DEF TypeOK, ReconcileDisconnectedTask
<1>4. ASSUME NEW n \in Nodes, NEW t \in Tasks, ReconcileAbandonedAssigned(n, t)
      PROVE  TypeOK'
  <2>1. saves' \in SUBSET SaveSet
    BY <1>4, PlanType DEF ReconcileAbandonedAssigned, Status, SaveKind
  <2>2. spent' \in [Budgets -> Nat]
    BY <1>4, SpendType DEF ReconcileAbandonedAssigned, Budgets
  <2> QED BY <1>4, <2>1, <2>2 DEF TypeOK, ReconcileAbandonedAssigned
<1>5. ASSUME NEW n \in Nodes, NEW t \in Tasks, ReconcileStalePending(n, t)
      PROVE  TypeOK'
  <2>1. saves' \in SUBSET SaveSet /\ spent' \in [Budgets -> Nat]
    BY <1>1, <1>5 DEF ReconcileStalePending
  <2> QED BY <1>5, <2>1 DEF TypeOK, ReconcileStalePending
<1>6. ASSUME NEW t \in Tasks, HandleStuckAssigned(t) PROVE TypeOK'
  <2>1. saves' \in SUBSET SaveSet /\ spent' \in [Budgets -> Nat]
    <3>1. CASE Reassign(t)
      BY <1>1, <3>1
    <3>2. CASE /\ Plan({Copy(t, "abnormal", db[t].node, "plain")})
               /\ UNCHANGED spent
      <4>1. saves' \in SUBSET SaveSet
        BY <1>2, <3>2, PlanType DEF Status, Final, SaveKind
      <4> QED BY <3>2, <4>1 DEF TypeOK
    <3> QED BY <1>6, <3>1, <3>2 DEF HandleStuckAssigned
  <2> QED BY <1>6, <2>1 DEF TypeOK, HandleStuckAssigned
<1>7. ASSUME NEW t \in Tasks, ReconcileTaskStatus(t) PROVE TypeOK'
  <2>1. saves' \in SUBSET SaveSet
    <3>1. ASSUME NEW st \in Status, Plan({Copy(t, st, db[t].node, "plain")})
          PROVE  saves' \in SUBSET SaveSet
      BY <1>2, <3>1, PlanType DEF SaveKind
    <3> QED BY <1>2, <1>7, <3>1 DEF ReconcileTaskStatus, Status, Final
  <2> QED BY <1>7, <2>1 DEF TypeOK, ReconcileTaskStatus
<1> QED BY <1>3, <1>4, <1>5, <1>6, <1>7 DEF ReconcileStep

(* A run under way keeps its task and its node, and only a task that was   *)
(* fetched by a node is given to a run.                                    *)
LEMMA LiveRunsKept ==
  ASSUME TypeOK, LiveRuns, Next
  PROVE  LiveRuns'
<1> USE DEF master, run, history
<1>0. ASSUME UNCHANGED <<pc, task, host>> PROVE LiveRuns'
  BY <1>0 DEF LiveRuns
<1>1. ASSUME NEW n \in Nodes, Die(n) PROVE LiveRuns'
  BY <1>1 DEF LiveRuns, Die, Forget
<1>2. ASSUME NEW r \in Runs, NEW p, Goto(r, p), pc[r] # "free" PROVE LiveRuns'
  BY <1>2 DEF TypeOK, LiveRuns, Goto
<1>3. ASSUME NEW r \in Runs, Freed(r) PROVE LiveRuns'
  BY <1>3 DEF TypeOK, LiveRuns, Freed, Forget
<1>4. CASE SchedulerStep
  BY <1>0, <1>4 DEF SchedulerStep, Enqueue, CancelBySave, ForceVerify,
                    CancelBySignal, MasterRestart, InitTaskStatus
<1>5. ASSUME NEW s \in saves, Save(s) PROVE LiveRuns'
  BY <1>0, <1>5 DEF Save
<1>6. ASSUME NEW n \in Nodes, FetchStep(n) PROVE LiveRuns'
  <2>1. CASE RunTask(n)
    <3>1. fetch[n].task \in Tasks
      BY <2>1, FetchBusy DEF RunTask
    <3> QED BY <2>1, <3>1 DEF TypeOK, LiveRuns, RunTask
  <2> QED BY <1>0, <1>6, <2>1 DEF FetchStep, FetchTaskRead, FetchTaskSave,
                 FetchTaskAbandoned, FetchReplyLost, RunTaskRefused
<1>7. ASSUME NEW n \in Nodes, NodeStep(n) PROVE LiveRuns'
  BY <1>0, <1>1, <1>7 DEF NodeStep, NodeCrash, NodeRestart, NodeOnline,
                          NodeOffline
<1>8. ASSUME NEW r \in Runs, RunnerStep(r) PROVE LiveRuns'
  <2>1. CASE ExecuteTask(r) \/ NewTaskRunnerFails(r)
    BY <1>2, <1>3, <2>1 DEF ExecuteTask, NewTaskRunnerFails
  <2>2. CASE NewTaskRunner(r) \/ UpdateTaskRunning(r) \/ ReloadTask(r)
    BY <1>2, <2>2 DEF NewTaskRunner, UpdateTaskRunning, ReloadTask
  <2>3. CASE StartProcess(r) \/ StartFails(r) \/ UpdateTaskFinal(r)
    BY <1>2, <2>3 DEF StartProcess, StartFails, UpdateTaskFinal
  <2>4. ASSUME NEW status \in {"finished", "error", "cancelled"},
               ProcessExit(r, status)
        PROVE  LiveRuns'
    BY <1>2, <2>4 DEF ProcessExit
  <2>5. CASE EndOfRun(r)
    BY <2>5 DEF LiveRuns, EndOfRun, Forget, Twin
  <2> QED BY <1>8, <2>1, <2>2, <2>3, <2>4, <2>5 DEF RunnerStep
<1>9. CASE SignalStep
  <2>1. ASSUME NEW m \in msgs, HandleCancel(m) PROVE LiveRuns'
    <3>1. runners[m.node][m.task] \in Runs
      BY <2>1 DEF TypeOK, HandleCancel, Signal
    <3> QED BY <1>0, <1>2, <2>1, <3>1 DEF HandleCancel
  <2>2. ASSUME NEW m \in msgs, HandleCancelPanics(m) PROVE LiveRuns'
    BY <1>1, <2>2 DEF TypeOK, HandleCancelPanics, Signal
  <2> QED BY <1>0, <1>9, <2>1, <2>2 DEF SignalStep, HandleCancelNoRunner,
                                        StreamLost, CleanupStuckTask
<1>10. CASE ReconcileStep
  BY <1>0, <1>10 DEF ReconcileStep, ReconcileDisconnectedTask,
                     ReconcileAbandonedAssigned, ReconcileStalePending,
                     HandleStuckAssigned, ReconcileTaskStatus
<1> QED BY <1>4, <1>5, <1>6, <1>7, <1>8, <1>9, <1>10 DEF Next

TypeInv == TypeOK /\ LiveRuns

(* Every reachable state has the type, and every run under way its task    *)
(* and its node: no step of the scheduler, FetchTask, the runners, the     *)
(* cancel path or the reconciliation builds a malformed document.          *)
THEOREM TypeCorrect == Spec => [](TypeOK /\ LiveRuns)
<1>1. Init => TypeInv
  BY InitType DEF TypeInv, Init, LiveRuns
<1>2. TypeInv /\ [Next]_vars => TypeInv'
  <2> SUFFICES ASSUME TypeInv, [Next]_vars PROVE TypeInv'
    OBVIOUS
  <2> USE DEF TypeInv
  <2>1. CASE UNCHANGED vars
    BY <2>1 DEF vars, TypeOK, LiveRuns
  <2>2. CASE Next
    <3>1. TypeOK'
      BY <2>2, SchedulerType, SaveType, FetchType, NodeType, RunnerType,
         SignalType, ReconcileType DEF Next
    <3> QED BY <2>2, <3>1, LiveRunsKept
  <2> QED BY <2>1, <2>2
<1> QED BY <1>1, <1>2, PTL DEF Spec, TypeInv

-----------------------------------------------------------------------------
(***************************************************************************)
(* The safety invariants of TaskDispatch, for any set of tasks, nodes and  *)
(* runs and any bounds.  Each needs to know what the copies of a document  *)
(* that are still waiting to be written may hold, so each is part of an    *)
(* inductive invariant about every copy there is.                          *)
(***************************************************************************)

-----------------------------------------------------------------------------
(* What the steps that only read the documents have in common *)

(* A copy that was read from the current database. *)
Planned(s) ==
  /\ s \in SaveSet
  /\ s.doc.pid = db[s.task].pid
  /\ s.doc.status = "finished" => db[s.task].pid = 1
  /\ IF s.kind = "requeue"
     THEN s.doc.status = "pending" /\ s.doc.node \in Nodes
     ELSE /\ s.doc.status \notin {"new", "pending"}
          /\ s.doc.node = db[s.task].node

OnlyPlans == \A s \in saves' : s \in saves \/ Planned(s)

(* A step of the scheduler, the cancel path, the node life cycle or the    *)
(* reconciliation that changes no document, run or fetch call.             *)
QuietStep ==
  /\ UNCHANGED <<db, fetch, fetchDoc, run, requeued, targets, grants, started>>
  /\ OnlyPlans

(* One planned copy satisfies Planned. *)
LEMMA PlanOne ==
  ASSUME TypeOK, NEW t \in Tasks, NEW st \in Status, NEW k \in SaveKind,
         NEW n \in Nodes \cup {NoNode}, Plan({Copy(t, st, n, k)}),
         st = "finished" => db[t].pid = 1,
         \/ k = "requeue" /\ st = "pending" /\ n \in Nodes
         \/ k # "requeue" /\ st \notin {"new", "pending"} /\ n = db[t].node
  PROVE  OnlyPlans
<1>1. Copy(t, st, n, k) \in SaveSet
  BY CopyType
<1>2. Planned(Copy(t, st, n, k))
  BY <1>1 DEF Planned, Copy
<1> QED BY <1>2 DEF OnlyPlans, Plan

(* Many planned copies. *)
LEMMA PlanMany ==
  ASSUME TypeOK, NEW T \in SUBSET Tasks,
         NEW st \in Status \ {"new", "pending", "finished"},
         Plan({Copy(t, st, db[t].node, "plain") : t \in T})
  PROVE  OnlyPlans
<1>1. ASSUME NEW t \in T PROVE Planned(Copy(t, st, db[t].node, "plain"))
  <2>1. db[t].node \in Nodes \cup {NoNode}
    BY DEF TypeOK, Doc
  <2>2. Copy(t, st, db[t].node, "plain") \in SaveSet
    BY <2>1, CopyType DEF SaveKind
  <2> QED BY <2>2 DEF Planned, Copy
<1> QED BY <1>1 DEF OnlyPlans, Plan

(* The steps that are quiet. *)
LEMMA QuietScheduler ==
  ASSUME TypeOK, NEW t \in Tasks,
         \/ CancelBySave(t) \/ ForceVerify(t)
         \/ \E force \in BOOLEAN : CancelBySignal(t, force)
  PROVE  QuietStep
<1> USE DEF history
<1>0. db[t].node \in Nodes \cup {NoNode}
  BY DEF TypeOK, Doc
<1>1. CASE CancelBySave(t)
  <2>1. OnlyPlans
    <3>1. CASE db[t].status = "pending"
               /\ Plan({Copy(t, "cancelled", db[t].node, "plain")})
      BY <1>0, <3>1, PlanOne DEF Status, Final, SaveKind
    <3>2. CASE db[t].node = NoNode
               /\ Plan({Copy(t, "abnormal", NoNode, "plain")})
      BY <1>0, <3>2, PlanOne DEF Status, Final, SaveKind
    <3>3. CASE Plan({Copy(t, "cancelled", db[t].node, "plain")})
      BY <1>0, <3>3, PlanOne DEF Status, Final, SaveKind
    <3> QED BY <1>1, <3>1, <3>2, <3>3 DEF CancelBySave
  <2> QED BY <1>1, <2>1 DEF CancelBySave, QuietStep
<1>2. CASE ForceVerify(t)
  <2>1. OnlyPlans
    <3>1. CASE UNCHANGED saves
      BY <3>1 DEF OnlyPlans
    <3>2. CASE Plan({Copy(t, "cancelled", db[t].node, "plain")})
      BY <1>0, <3>2, PlanOne DEF Status, Final, SaveKind
    <3> QED BY <1>2, <3>1, <3>2 DEF ForceVerify
  <2> QED BY <1>2, <2>1 DEF ForceVerify, QuietStep
<1>3. CASE \E force \in BOOLEAN : CancelBySignal(t, force)
  BY <1>3 DEF CancelBySignal, QuietStep, OnlyPlans
<1> QED BY <1>1, <1>2, <1>3

(* A restarted master only plans. *)
LEMMA QuietBoot ==
  ASSUME TypeOK, InitTaskStatus
  PROVE  QuietStep
<1>1. OnlyPlans
  BY PlanMany DEF InitTaskStatus, Status, Final
<1> QED BY <1>1 DEF InitTaskStatus, QuietStep, history

(* A refused task is only planned to be set to error. *)
LEMMA RefusedPlans ==
  ASSUME TypeOK, NEW n \in Nodes, RunTaskRefused(n)
  PROVE  OnlyPlans
<1> DEFINE t == fetch[n].task
<1>1. t \in Tasks /\ db[t].node \in Nodes \cup {NoNode}
  BY FetchBusy DEF RunTaskRefused, TypeOK, Doc
<1>2. CASE UNCHANGED saves
  BY <1>2 DEF OnlyPlans
<1>3. CASE Plan({Copy(t, "error", db[t].node, "worker")})
  BY <1>1, <1>3, PlanOne DEF Status, Final, SaveKind
<1> QED BY <1>2, <1>3 DEF RunTaskRefused

(* The signals that reach no runner, and lost streams. *)
LEMMA QuietSignal ==
  ASSUME TypeOK,
         \/ \E m \in msgs : HandleCancelNoRunner(m)
         \/ \E t \in Tasks : StreamLost(t)
         \/ \E n \in Nodes, t \in Tasks : CleanupStuckTask(n, t)
  PROVE  QuietStep
<1> USE DEF history
<1>0. \A t \in Tasks : db[t].node \in Nodes \cup {NoNode}
  BY DEF TypeOK, Doc
<1>1. ASSUME NEW m \in msgs, HandleCancelNoRunner(m) PROVE QuietStep
  <2>1. m.task \in Tasks
    BY DEF TypeOK, Signal
  <2>2. OnlyPlans
    BY <1>0, <1>1, <2>1, PlanOne DEF HandleCancelNoRunner, Status, Final, SaveKind
  <2> QED BY <1>1, <2>2 DEF HandleCancelNoRunner, QuietStep
<1>2. ASSUME NEW t \in Tasks, StreamLost(t) PROVE QuietStep
  BY <1>2 DEF StreamLost, QuietStep, OnlyPlans
<1>3. ASSUME NEW n \in Nodes, NEW t \in Tasks, CleanupStuckTask(n, t)
      PROVE  QuietStep
  <2>1. OnlyPlans
    BY <1>0, <1>3, PlanOne DEF CleanupStuckTask, Status, Final, SaveKind
  <2> QED BY <1>3, <2>1 DEF CleanupStuckTask, QuietStep
<1> QED BY <1>1, <1>2, <1>3

(* A node that comes back or is marked online or offline. *)
LEMMA QuietNode ==
  ASSUME TypeOK, NEW n \in Nodes,
         NodeRestart(n) \/ NodeOnline(n) \/ NodeOffline(n)
  PROVE  QuietStep
<1> USE DEF history, master
<1>1. CASE NodeRestart(n) \/ NodeOnline(n)
  BY <1>1 DEF NodeRestart, NodeOnline, QuietStep, OnlyPlans
<1>2. CASE NodeOffline(n)
  <2>1. RunningOn(n) \in SUBSET Tasks
    BY DEF RunningOn
  <2>2. {Copy(t, "node_disconnected", n, "plain") : t \in RunningOn(n)}
        = {Copy(t, "node_disconnected", db[t].node, "plain") : t \in RunningOn(n)}
    BY DEF RunningOn
  <2>3. OnlyPlans
    BY <1>2, <2>1, <2>2, PlanMany DEF NodeOffline, Status
  <2> QED BY <1>2, <2>3 DEF NodeOffline, QuietStep
<1> QED BY <1>1, <1>2

(* The reconciliation only plans: a document moves back to pending in a    *)
(* write of its own kind, and nothing is guessed finished without a pid.   *)
LEMMA QuietReconcile ==
  ASSUME TypeOK, ReconcileStep
  PROVE  QuietStep
<1> USE DEF history
<1>0. \A t \in Tasks : db[t].node \in Nodes \cup {NoNode}
  BY DEF TypeOK, Doc
<1>1. ASSUME NEW t \in Tasks, Reassign(t) PROVE OnlyPlans
  <2>1. PICK n \in online : Plan({Copy(t, "pending", n, "requeue")})
    BY <1>1 DEF Reassign
  <2>2. n \in Nodes
    BY DEF TypeOK
  <2> QED BY <2>1, <2>2, PlanOne DEF Status, SaveKind
<1>2. ASSUME NEW t \in Tasks, NEW st \in ActualStatus(t),
             Plan({Copy(t, st, db[t].node, "plain")})
      PROVE  OnlyPlans
  <2>1. st \in Status \ {"new", "pending"} /\ (st = "finished" => db[t].pid = 1)
    BY DEF ActualStatus, Status, Final
  <2> QED BY <1>0, <1>2, <2>1, PlanOne DEF SaveKind
<1>3. ASSUME NEW n \in Nodes, NEW t \in Tasks, ReconcileDisconnectedTask(n, t)
      PROVE  QuietStep
  BY <1>2, <1>3 DEF ReconcileDisconnectedTask, QuietStep
<1>4. ASSUME NEW n \in Nodes, NEW t \in Tasks, ReconcileAbandonedAssigned(n, t)
      PROVE  QuietStep
  <2>1. OnlyPlans
    BY <1>4, PlanOne DEF ReconcileAbandonedAssigned, Status, SaveKind
  <2> QED BY <1>4, <2>1 DEF ReconcileAbandonedAssigned, QuietStep
<1>5. ASSUME NEW n \in Nodes, NEW t \in Tasks, ReconcileStalePending(n, t)
      PROVE  QuietStep
  BY <1>1, <1>5 DEF ReconcileStalePending, QuietStep
<1>6. ASSUME NEW t \in Tasks, HandleStuckAssigned(t) PROVE QuietStep
  <2>1. OnlyPlans
    <3>1. CASE Plan({Copy(t, "abnormal", db[t].node, "plain")})
      BY <1>0, <3>1, PlanOne DEF Status, Final, SaveKind
    <3> QED BY <1>1, <1>6, <3>1 DEF HandleStuckAssigned
  <2> QED BY <1>6, <2>1 DEF HandleStuckAssigned, QuietStep
<1>7. ASSUME NEW t \in Tasks, ReconcileTaskStatus(t) PROVE QuietStep
  <2>1. OnlyPlans
    <3>1. CASE Plan({Copy(t, "abnormal", db[t].node, "plain")})
      BY <1>0, <3>1, PlanOne DEF Status, Final, SaveKind
    <3> QED BY <1>2, <1>7, <3>1 DEF ReconcileTaskStatus
  <2> QED BY <1>7, <2>1 DEF ReconcileTaskStatus, QuietStep
<1> QED BY <1>3, <1>4, <1>5, <1>6, <1>7 DEF ReconcileStep

-----------------------------------------------------------------------------
(* The registry of runners *)

(* Deleting an entry leaves the others as they are. *)
LEMMA DeletedEntry ==
  ASSUME TypeOK, NEW n \in Nodes, NEW t \in Tasks, DeleteRunner(n, t),
         NEW m \in Nodes, NEW u \in Tasks
  PROVE  runners'[m][u] = IF m = n /\ u = t THEN NoRun ELSE runners[m][u]
<1>1. runners \in [Nodes -> [Tasks -> Runs \cup {NoRun}]]
  BY DEF TypeOK
<1> QED BY <1>1 DEF DeleteRunner

(* A registry entry is a run of its task on its node at every step. *)
LEMMA RegistryKept ==
  ASSUME TypeOK, LiveRuns, RegistryIsLive, Next
  PROVE  RegistryIsLive'
<1> USE DEF master, run, history
<1>0. ASSUME UNCHANGED <<pc, task, host, runners>> PROVE RegistryIsLive'
  BY <1>0 DEF RegistryIsLive
<1>1. ASSUME UNCHANGED <<pc, task, host>>,
             NEW n \in Nodes, NEW t \in Tasks, DeleteRunner(n, t)
      PROVE  RegistryIsLive'
  BY <1>1, DeletedEntry DEF RegistryIsLive
<1>2. ASSUME NEW r \in Runs, NEW p \in RunPc \ {"free", "queued", "create"},
             Goto(r, p),
             \/ UNCHANGED runners
             \/ \E n \in Nodes, t \in Tasks : DeleteRunner(n, t)
      PROVE  RegistryIsLive'
  <2>1. \A m \in Nodes, u \in Tasks :
          runners'[m][u] = NoRun \/ runners'[m][u] = runners[m][u]
    BY <1>2, DeletedEntry
  <2> QED BY <1>2, <2>1 DEF RegistryIsLive, Goto, TypeOK
<1>3. ASSUME NEW r \in Runs, pc[r] \in {"queued", "create"},
             Freed(r), UNCHANGED runners
      PROVE  RegistryIsLive'
  BY <1>3 DEF RegistryIsLive, Freed, Forget, TypeOK
<1>4. ASSUME NEW n \in Nodes, Die(n) PROVE RegistryIsLive'
  <2> SUFFICES ASSUME NEW m \in Nodes, NEW t \in Tasks, runners'[m][t] # NoRun
               PROVE  /\ task'[runners'[m][t]] = t /\ host'[runners'[m][t]] = m
                      /\ pc'[runners'[m][t]] \notin {"free", "queued", "create"}
    BY DEF RegistryIsLive
  <2>1. m # n /\ runners'[m][t] = runners[m][t] /\ runners[m][t] \in Runs
    BY <1>4 DEF Die, TypeOK
  <2>2. host[runners[m][t]] = m /\ task[runners[m][t]] = t
        /\ pc[runners[m][t]] \notin {"free", "queued", "create"}
    BY <2>1 DEF RegistryIsLive
  <2> QED BY <1>4, <2>1, <2>2 DEF Die, Forget
<1>5. CASE SchedulerStep
  BY <1>0, <1>5 DEF SchedulerStep, Enqueue, CancelBySave, ForceVerify,
                    CancelBySignal, MasterRestart, InitTaskStatus
<1>6. ASSUME NEW s \in saves, Save(s) PROVE RegistryIsLive'
  BY <1>0, <1>6 DEF Save
<1>7. ASSUME NEW n \in Nodes, FetchStep(n) PROVE RegistryIsLive'
  <2>1. CASE RunTask(n)
    <3>1. PICK r \in Runs : /\ pc[r] = "free"
                            /\ pc' = [pc EXCEPT ![r] = "queued"]
                            /\ task' = [task EXCEPT ![r] = fetch[n].task]
                            /\ host' = [host EXCEPT ![r] = n]
      BY <2>1 DEF RunTask
    <3>2. UNCHANGED runners
      BY <2>1 DEF RunTask
    <3> QED BY <3>1, <3>2 DEF RegistryIsLive, TypeOK
  <2> QED BY <1>0, <1>7, <2>1 DEF FetchStep, FetchTaskRead, FetchTaskSave,
                 FetchTaskAbandoned, FetchReplyLost, RunTaskRefused
<1>8. ASSUME NEW n \in Nodes, NodeStep(n) PROVE RegistryIsLive'
  BY <1>0, <1>4, <1>8 DEF NodeStep, NodeCrash, NodeRestart, NodeOnline,
                          NodeOffline
<1>9. ASSUME NEW r \in Runs, RunnerStep(r) PROVE RegistryIsLive'
  <2>1. CASE ExecuteTask(r)
    <3>1. CASE Freed(r)
      BY <1>3, <2>1, <3>1 DEF ExecuteTask
    <3>2. CASE Goto(r, "create")
      BY <2>1, <3>2 DEF ExecuteTask, Goto, RegistryIsLive, TypeOK
    <3> QED BY <2>1, <3>1, <3>2 DEF ExecuteTask
  <2>2. CASE NewTaskRunner(r)
    <3>1. task[r] \in Tasks /\ host[r] \in Nodes
      BY <2>2 DEF NewTaskRunner, LiveRuns
    <3>2. runners' = [runners EXCEPT ![host[r]][task[r]] = r]
          /\ pc' = [pc EXCEPT ![r] = "start"] /\ UNCHANGED <<task, host>>
      BY <2>2 DEF NewTaskRunner, Goto
    <3> QED BY <3>1, <3>2 DEF RegistryIsLive, TypeOK
  <2>3. CASE NewTaskRunnerFails(r)
    BY <1>3, <2>3 DEF NewTaskRunnerFails
  <2>4. {"reload", "cmd", "proc", "exited", "failed", "cleanup", "leave"}
        \subseteq RunPc \ {"free", "queued", "create"}
    BY DEF RunPc, Waiting, NoProcess
  <2>5. CASE UpdateTaskRunning(r) \/ ReloadTask(r) \/ StartProcess(r)
             \/ StartFails(r) \/ UpdateTaskFinal(r)
    BY <1>2, <2>4, <2>5 DEF UpdateTaskRunning, ReloadTask, StartProcess,
                            StartFails, UpdateTaskFinal
  <2>6. ASSUME NEW status \in {"finished", "error", "cancelled"},
               ProcessExit(r, status)
        PROVE  RegistryIsLive'
    BY <1>2, <2>4, <2>6 DEF ProcessExit
  <2>7. CASE EndOfRun(r)
    <3> SUFFICES ASSUME NEW m \in Nodes, NEW t \in Tasks, runners'[m][t] # NoRun
                 PROVE  /\ task'[runners'[m][t]] = t
                        /\ host'[runners'[m][t]] = m
                        /\ pc'[runners'[m][t]] \notin {"free", "queued", "create"}
      BY DEF RegistryIsLive
    <3>1. task[r] \in Tasks /\ host[r] \in Nodes
      BY <2>7 DEF EndOfRun, LiveRuns
    <3>2. /\ runners'[m][t] = runners[m][t] /\ runners[m][t] \in Runs
          /\ ~(m = host[r] /\ t = task[r])
      BY <2>7, <3>1 DEF EndOfRun, DeleteRunner, TypeOK
    <3>3. host[runners[m][t]] = m /\ task[runners[m][t]] = t
          /\ pc[runners[m][t]] \notin {"free", "queued", "create"}
      BY <3>2 DEF RegistryIsLive
    <3>4. runners[m][t] # r
      BY <3>2, <3>3
    <3> QED BY <2>7, <3>2, <3>3, <3>4 DEF EndOfRun, Forget
  <2> QED BY <1>9, <2>1, <2>2, <2>3, <2>5, <2>6, <2>7 DEF RunnerStep
<1>10. CASE SignalStep
  <2>0. \A m \in msgs : m.task \in Tasks /\ m.node \in Nodes
    BY DEF TypeOK, Signal
  <2>1. ASSUME NEW m \in msgs, HandleCancel(m) PROVE RegistryIsLive'
    <3> DEFINE r == runners[m.node][m.task]
    <3>1. r \in Runs
      BY <2>0, <2>1 DEF TypeOK, HandleCancel
    <3>2. UNCHANGED runners \/ DeleteRunner(m.node, m.task)
      BY <2>1 DEF HandleCancel
    <3>3. Goto(r, "exited") \/ UNCHANGED <<pc, task, host>>
      BY <2>1 DEF HandleCancel
    <3>4. "exited" \in RunPc \ {"free", "queued", "create"}
      BY DEF RunPc
    <3> HIDE DEF r
    <3> QED BY <1>0, <1>1, <1>2, <2>0, <3>1, <3>2, <3>3, <3>4
  <2>2. ASSUME NEW m \in msgs, HandleCancelPanics(m) PROVE RegistryIsLive'
    BY <1>4, <2>0, <2>2 DEF HandleCancelPanics
  <2>3. ASSUME NEW n \in Nodes, NEW t \in Tasks, CleanupStuckTask(n, t)
        PROVE  RegistryIsLive'
    BY <1>1, <2>3 DEF CleanupStuckTask
  <2> QED BY <1>0, <1>10, <2>1, <2>2, <2>3 DEF SignalStep,
                                           HandleCancelNoRunner, StreamLost
<1>11. CASE ReconcileStep
  BY <1>0, <1>11 DEF ReconcileStep, ReconcileDisconnectedTask,
                     ReconcileAbandonedAssigned, ReconcileStalePending,
                     HandleStuckAssigned, ReconcileTaskStatus
<1> QED BY <1>5, <1>6, <1>7, <1>8, <1>9, <1>10, <1>11 DEF Next

(* A cancel signal finds under a task either no runner or a live run of    *)
(* that task on that node, however runs overwrite, delete and outlive each *)
(* other's entries of Service.runners.                                     *)
THEOREM RegistryTheorem == Spec => []RegistryIsLive
<1>1. Init => RegistryIsLive
  BY DEF Init, RegistryIsLive
<1>2. TypeOK /\ LiveRuns /\ RegistryIsLive /\ [Next]_vars => RegistryIsLive'
  <2>1. CASE Next
    BY <2>1, RegistryKept
  <2>2. CASE UNCHANGED vars
    BY <2>2 DEF vars, RegistryIsLive
  <2> QED BY <2>1, <2>2
<1> QED BY <1>1, <1>2, TypeCorrect, PTL DEF Spec

-----------------------------------------------------------------------------
(* Finished tasks have run *)

(* Every copy of a document that says finished, or holds a pid from which  *)
(* the reconciler may conclude it, is of a task that was started; so is    *)
(* the task of a runner whose process has run.                             *)
Ran(d, t) == d.status = "finished" \/ d.pid = 1 => started[t] > 0

NoDoc == {"free", "queued", "create"}

Evidence ==
  /\ \A t \in Tasks : Ran(db[t], t)
  /\ \A s \in saves : Ran(s.doc, s.task)
  /\ \A n \in Nodes : fetch[n].pc = "read" => Ran(fetchDoc[n], fetch[n].task)
  /\ \A r \in Runs : pc[r] \notin NoDoc => Ran(doc[r], task[r])
  /\ \A r \in Runs : pc[r] \in {"proc", "exited", "cleanup"} => started[task[r]] > 0
  /\ \A r \in Runs : pc[r] = "failed" => out[r] = "error"

(* A changed copy of a document keeps what it was not changed in. *)
LEMMA DocFields ==
  ASSUME NEW d \in Doc, NEW st, NEW n, NEW p
  PROVE  /\ [d EXCEPT !.status = st].status = st
         /\ [d EXCEPT !.status = st].node = d.node
         /\ [d EXCEPT !.status = st].pid = d.pid
         /\ [d EXCEPT !.status = st, !.node = n].status = st
         /\ [d EXCEPT !.status = st, !.node = n].node = n
         /\ [d EXCEPT !.status = st, !.node = n].pid = d.pid
         /\ [d EXCEPT !.status = st, !.pid = p].status = st
         /\ [d EXCEPT !.status = st, !.pid = p].node = d.node
         /\ [d EXCEPT !.status = st, !.pid = p].pid = p
BY DEF Doc

(* The steps of the runner keep the evidence. *)
LEMMA EvidenceRunner ==
  ASSUME TypeOK, LiveRuns, Evidence, NEW r \in Runs, RunnerStep(r)
  PROVE  Evidence'
<1> USE DEF master, history, NoDoc
<1>1. CASE ExecuteTask(r) \/ NewTaskRunnerFails(r)
  <2>1. UNCHANGED <<db, saves, fetch, fetchDoc, started, out>>
    BY <1>1 DEF ExecuteTask, NewTaskRunnerFails, Freed
  <2>2. \A q \in Runs : pc'[q] \notin NoDoc =>
          pc'[q] = pc[q] /\ task'[q] = task[q] /\ doc'[q] = doc[q]
    BY <1>1 DEF ExecuteTask, NewTaskRunnerFails, Freed, Forget, Goto, TypeOK
  <2>3. \A q \in Runs : pc'[q] \in {"proc", "exited", "cleanup", "failed"}
                        => pc'[q] \notin NoDoc
    OBVIOUS
  <2> QED BY <2>1, <2>2, <2>3 DEF Evidence, Ran
<1>2. CASE NewTaskRunner(r)
  <2>1. task[r] \in Tasks
    BY <1>2 DEF NewTaskRunner, LiveRuns
  <2> QED BY <1>2, <2>1 DEF NewTaskRunner, Goto, Evidence, Ran, TypeOK
<1>3. CASE UpdateTaskRunning(r) \/ UpdateTaskFinal(r)
  <2> DEFINE st == IF pc[r] = "start" THEN "running" ELSE out[r]
             p == IF pc[r] = "exited" THEN 1 ELSE doc[r].pid
             e == [doc[r] EXCEPT !.status = st, !.pid = p]
  <2>1. task[r] \in Tasks /\ doc[r] \in Doc
    BY <1>3 DEF UpdateTaskRunning, UpdateTaskFinal, LiveRuns, TypeOK
  <2>2. e.status = st /\ e.pid = p
    BY <2>1, DocFields
  <2>3. Ran(doc[r], task[r])
    BY <1>3 DEF UpdateTaskRunning, UpdateTaskFinal, Evidence
  <2>4. st = "finished" \/ p = 1 => started[task[r]] > 0
    BY <1>3, <2>3 DEF UpdateTaskRunning, UpdateTaskFinal, Evidence, Ran
  <2>5. Ran(e, task[r])
    BY <2>2, <2>4 DEF Ran
  <2>6. UNCHANGED db \/ db' = [db EXCEPT ![task[r]] = e]
    BY <1>3 DEF UpdateTaskRunning, UpdateTaskFinal, Replace
  <2> HIDE DEF e
  <2>7. \A t \in Tasks : Ran(db[t], t)'
    BY <1>3, <2>1, <2>5, <2>6 DEF UpdateTaskRunning, UpdateTaskFinal, Evidence,
                                  Ran, TypeOK
  <2>8. UNCHANGED <<saves, fetch, fetchDoc, doc, started, task, out>>
    BY <1>3 DEF UpdateTaskRunning, UpdateTaskFinal, Goto
  <2>9. pc' = [pc EXCEPT ![r] = CASE pc[r] = "start" -> "reload"
                                  [] pc[r] = "exited" -> "cleanup"
                                  [] pc[r] = "failed" -> "leave"]
        /\ pc[r] \in {"start", "exited", "failed"}
    BY <1>3 DEF UpdateTaskRunning, UpdateTaskFinal, Goto
  <2> QED BY <2>7, <2>8, <2>9 DEF Evidence, Ran, TypeOK
<1>4. CASE ReloadTask(r)
  <2>1. task[r] \in Tasks
    BY <1>4 DEF ReloadTask, LiveRuns
  <2> QED BY <1>4, <2>1 DEF ReloadTask, Goto, Evidence, Ran, TypeOK
<1>5. CASE StartProcess(r)
  <2>1. task[r] \in Tasks
    BY <1>5 DEF StartProcess, LiveRuns
  <2>2. CASE \E q \in Runs : Twin(r, q)
    <3>1. started[task[r]] > 0
      BY <2>2 DEF Twin, Evidence
    <3> QED BY <1>5, <2>1, <2>2, <3>1 DEF StartProcess, Goto, Evidence, Ran, TypeOK
  <2>3. CASE ~ \E q \in Runs : Twin(r, q)
    <3>1. started' = [started EXCEPT ![task[r]] = @ + 1]
          /\ pc' = [pc EXCEPT ![r] = "proc"]
          /\ UNCHANGED <<db, saves, fetch, fetchDoc, doc, task, out>>
      BY <1>5, <2>3 DEF StartProcess, Goto
    <3>2. started'[task[r]] > 0 /\ \A t \in Tasks : started'[t] >= started[t]
          /\ started[t] \in Nat
      BY <2>1, <3>1 DEF TypeOK
    <3>3. \A n \in Nodes : fetch[n].pc = "read" => fetch[n].task \in Tasks
      BY FetchBusy
    <3>4. \A s \in saves : s.task \in Tasks
      BY DEF TypeOK, SaveSet
    <3>5. \A q \in Runs : pc[q] # "free" => task[q] \in Tasks
      BY DEF LiveRuns
    <3>6. \A n \in Nodes : fetch[n].pc = "read"
            => started'[fetch[n].task] >= started[fetch[n].task]
               /\ started[fetch[n].task] \in Nat
      BY <3>2, <3>3
    <3>7. \A s \in saves : started'[s.task] >= started[s.task]
                           /\ started[s.task] \in Nat
      BY <3>2, <3>4
    <3>8. \A q \in Runs : pc[q] # "free"
            => started'[task[q]] >= started[task[q]] /\ started[task[q]] \in Nat
      BY <3>2, <3>5
    <3>9. \A n \in Nodes : fetch[n].pc = "read"
             => (Ran(fetchDoc[n], fetch[n].task))'
      BY <3>1, <3>2, <3>3, <3>6 DEF Evidence, Ran, TypeOK
    <3>10. \A t \in Tasks : Ran(db[t], t)'
      BY <3>1, <3>2 DEF Evidence, Ran, TypeOK
    <3>11. \A s \in saves : Ran(s.doc, s.task)'
      BY <3>1, <3>2, <3>7 DEF Evidence, Ran, TypeOK
    <3>12. pc[r] = "cmd" /\ started' \in [Tasks -> Nat]
      BY <1>5, <2>1, <3>1 DEF StartProcess, TypeOK
    <3>13. \A q \in Runs : pc'[q] \notin NoDoc => Ran(doc[q], task[q])'
      BY <3>1, <3>2, <3>8, <3>12 DEF Evidence, Ran, TypeOK
    <3>14. \A q \in Runs : pc'[q] \in {"proc", "exited", "cleanup"}
                           => started'[task[q]] > 0
      BY <3>1, <3>2, <3>8, <3>12 DEF Evidence, TypeOK
    <3> QED BY <3>1, <3>9, <3>10, <3>11, <3>13, <3>14 DEF Evidence, TypeOK
  <2> QED BY <2>2, <2>3
<1>6. CASE StartFails(r)
  BY <1>6 DEF StartFails, Goto, Evidence, Ran, TypeOK
<1>7. ASSUME NEW status \in {"finished", "error", "cancelled"},
             ProcessExit(r, status)
      PROVE  Evidence'
  BY <1>7 DEF ProcessExit, Goto, Evidence, Ran, TypeOK
<1>8. CASE EndOfRun(r)
  BY <1>8 DEF EndOfRun, Forget, Twin, Evidence, Ran, TypeOK
<1> QED BY <1>1, <1>2, <1>3, <1>4, <1>5, <1>6, <1>7, <1>8 DEF RunnerStep

(* So do all other steps. *)
LEMMA EvidenceKept ==
  ASSUME TypeOK, LiveRuns, Evidence, Next
  PROVE  Evidence'
<1> USE DEF master, run, history
<1>1. ASSUME QuietStep PROVE Evidence'
  <2>1. \A s \in saves' : Ran(s.doc, s.task)'
    <3> TAKE s \in saves'
    <3>1. CASE s \in saves
      BY <1>1, <3>1 DEF QuietStep, Evidence, Ran
    <3>2. CASE Planned(s)
      <4>1. s.task \in Tasks
        BY <3>2 DEF Planned, SaveSet
      <4> QED BY <1>1, <3>2, <4>1 DEF QuietStep, Planned, Evidence, Ran
    <3> QED BY <1>1, <3>1, <3>2 DEF QuietStep, OnlyPlans
  <2> QED BY <1>1, <2>1 DEF QuietStep, Evidence, Ran
<1>2. ASSUME NEW n \in Nodes, Die(n), UNCHANGED <<db, saves, fetchDoc, out, started>>
      PROVE  Evidence'
  <2>1. \A m \in Nodes : fetch'[m].pc = "read" => fetch'[m] = fetch[m]
    BY <1>2 DEF Die, Idle, TypeOK
  <2> QED BY <1>2, <2>1 DEF Die, Forget, Evidence, Ran, NoDoc, TypeOK
<1>3. CASE SchedulerStep
  <2>1. ASSUME NEW t \in Tasks, Enqueue(t) PROVE Evidence'
    <3>1. db[t] \in Doc
      BY DEF TypeOK
    <3>2. Ran([db[t] EXCEPT !.status = "pending"], t)
      BY <3>1, DocFields DEF Ran, Evidence
    <3>3. \A u \in Tasks : Ran(db[u], u)'
      BY <2>1, <3>2 DEF Enqueue, Evidence, Ran, TypeOK
    <3> QED BY <2>1, <3>3 DEF Enqueue, Evidence, Ran
  <2>2. CASE MasterRestart
    <3>1. \A n \in Nodes : fetch'[n].pc # "read"
      BY <2>2 DEF MasterRestart, Idle, TypeOK
    <3> QED BY <2>2, <3>1 DEF MasterRestart, Evidence, Ran
  <2> QED BY <1>1, <1>3, <2>1, <2>2, QuietScheduler, QuietBoot DEF SchedulerStep
<1>4. ASSUME NEW s \in saves, Save(s) PROVE Evidence'
  <2>1. s.task \in Tasks
    BY DEF TypeOK, SaveSet
  <2> QED BY <1>4, <2>1 DEF Save, Evidence, Ran, TypeOK
<1>5. ASSUME NEW n \in Nodes, FetchStep(n) PROVE Evidence'
  <2>0. ASSUME FetchDone(n)
        PROVE  \A m \in Nodes : fetch'[m].pc = "read"
                 => fetch'[m] = fetch[m] /\ fetchDoc'[m] = fetchDoc[m]
    BY <2>0 DEF FetchDone, Idle, TypeOK
  <2>1. ASSUME NEW t \in Tasks, FetchTaskRead(n, t) PROVE Evidence'
    <3> DEFINE e == [db[t] EXCEPT !.status = "assigned", !.node = n]
    <3>1. db[t] \in Doc
      BY DEF TypeOK
    <3>2. Ran(e, t)
      BY <3>1, DocFields DEF Ran, Evidence
    <3>3. fetch' = [fetch EXCEPT ![n] = [pc |-> "read", task |-> t]]
          /\ fetchDoc' = [fetchDoc EXCEPT ![n] = e]
          /\ UNCHANGED <<db, saves, run, started>>
      BY <2>1 DEF FetchTaskRead
    <3> HIDE DEF e
    <3>4. \A m \in Nodes : fetch'[m].pc = "read"
                           => Ran(fetchDoc[m], fetch[m].task)'
      BY <3>2, <3>3 DEF Evidence, Ran, TypeOK
    <3> QED BY <3>3, <3>4 DEF Evidence, Ran
  <2>2. CASE FetchTaskSave(n)
    <3>1. fetch[n].task \in Tasks /\ Ran(fetchDoc[n], fetch[n].task)
      BY <2>2, FetchBusy DEF FetchTaskSave, Evidence
    <3>2. \A m \in Nodes : fetch'[m].pc = "read"
             => fetch'[m] = fetch[m] /\ fetchDoc'[m] = fetchDoc[m]
      BY <2>2, FetchBusy DEF FetchTaskSave, Idle, TypeOK
    <3>3. \A u \in Tasks : Ran(db[u], u)'
      BY <2>2, <3>1 DEF FetchTaskSave, Evidence, Ran, TypeOK
    <3> QED BY <2>2, <3>2, <3>3 DEF FetchTaskSave, Evidence, Ran
  <2>3. CASE FetchReplyLost(n)
    BY <2>0, <2>3 DEF FetchReplyLost, Evidence, Ran
  <2>6. CASE FetchTaskAbandoned(n)
    <3>1. Ran(fetchDoc[n], fetch[n].task)
      BY <2>6 DEF FetchTaskAbandoned, Evidence
    <3>2. PICK s \in SaveSet :
            /\ saves' = saves \cup {s}
            /\ s.task = fetch[n].task /\ s.doc = fetchDoc[n]
      BY <2>6, AbandonedCopy
    <3>3. \A q \in saves' : Ran(q.doc, q.task)
      BY <3>1, <3>2 DEF Evidence
    <3>4. UNCHANGED <<db, run, started>> /\ FetchDone(n)
      BY <2>6 DEF FetchTaskAbandoned
    <3> QED BY <2>0, <3>3, <3>4 DEF Evidence, Ran
  <2>4. CASE RunTask(n)
    <3>1. PICK q \in Runs : /\ pc[q] = "free"
                            /\ pc' = [pc EXCEPT ![q] = "queued"]
                            /\ task' = [task EXCEPT ![q] = fetch[n].task]
      BY <2>4 DEF RunTask
    <3>2. UNCHANGED <<db, saves, doc, out, started>> /\ FetchDone(n)
      BY <2>4 DEF RunTask
    <3> QED BY <2>0, <3>1, <3>2 DEF Evidence, Ran, NoDoc, TypeOK
  <2>5. CASE RunTaskRefused(n)
    <3>2. OnlyPlans
      BY <2>5, RefusedPlans
    <3>3. \A s \in saves' : Ran(s.doc, s.task)
      <4> TAKE s \in saves'
      <4>1. CASE Planned(s)
        <5>1. s.task \in Tasks
          BY <4>1 DEF Planned, SaveSet
        <5> QED BY <4>1, <5>1 DEF Planned, Evidence, Ran
      <4> QED BY <3>2, <4>1 DEF OnlyPlans, Evidence
    <3>4. UNCHANGED <<db, run, started>> /\ FetchDone(n)
      BY <2>5 DEF RunTaskRefused
    <3> QED BY <2>0, <3>3, <3>4 DEF Evidence, Ran
  <2> QED BY <1>5, <2>1, <2>2, <2>3, <2>4, <2>5, <2>6 DEF FetchStep
<1>6. ASSUME NEW n \in Nodes, NodeStep(n) PROVE Evidence'
  BY <1>1, <1>2, <1>6, QuietNode DEF NodeStep, NodeCrash
<1>7. CASE SignalStep
  <2>0. \A m \in msgs : m.task \in Tasks /\ m.node \in Nodes
    BY DEF TypeOK, Signal
  <2>1. ASSUME NEW m \in msgs, HandleCancel(m) PROVE Evidence'
    <3> DEFINE q == runners[m.node][m.task]
    <3>1. q \in Runs
      BY <2>0, <2>1 DEF TypeOK, HandleCancel
    <3> HIDE DEF q
    <3>2. UNCHANGED <<db, saves, fetch, fetchDoc, doc, started, task>>
      BY <2>1 DEF HandleCancel, Goto
    <3>3. CASE UNCHANGED <<pc, out>>
      BY <3>2, <3>3 DEF Evidence, Ran
    <3>4. CASE ~ UNCHANGED <<pc, out>>
      <4>1. PICK st \in {"cancelled", "error"} :
              out' = [out EXCEPT ![q] = st] /\ pc' = [pc EXCEPT ![q] = "exited"]
              /\ pc[q] = "proc"
        BY <2>1, <3>4 DEF HandleCancel, Goto, q
      <4> QED BY <3>1, <3>2, <4>1 DEF Evidence, Ran, NoDoc, TypeOK
    <3> QED BY <3>3, <3>4
  <2>2. ASSUME NEW m \in msgs, HandleCancelPanics(m) PROVE Evidence'
    BY <1>2, <2>0, <2>2 DEF HandleCancelPanics
  <2> QED BY <1>1, <1>7, <2>1, <2>2, QuietSignal DEF SignalStep
<1> QED BY <1>1, <1>3, <1>4, <1>5, <1>6, <1>7, EvidenceRunner, QuietReconcile
        DEF Next

(* Every copy has its evidence, always. *)
LEMMA EvidenceAlways == Spec => []Evidence
<1>1. Init => Evidence
  BY DEF Init, Evidence, Ran, Fresh, Idle, NoDoc
<1>2. TypeOK /\ LiveRuns /\ Evidence /\ [Next]_vars => Evidence'
  <2>1. CASE Next
    BY <2>1, EvidenceKept
  <2>2. CASE UNCHANGED vars
    BY <2>2 DEF vars, Evidence, Ran
  <2> QED BY <2>1, <2>2
<1> QED BY <1>1, <1>2, TypeCorrect, PTL DEF Spec

(* No task is reported finished that was never started, whichever of the   *)
(* copies held by handlers, runners and the reconciler is written last.    *)
THEOREM FinishedTheorem == Spec => []FinishedWasStarted
<1>1. Evidence => FinishedWasStarted
  BY DEF Evidence, Ran, FinishedWasStarted
<1> QED BY <1>1, EvidenceAlways, PTL

-----------------------------------------------------------------------------
(* Tasks stay where they are bound to *)

Allowed(t) == {Home[t]} \cup targets[t]

(* For a task bound to a node, every copy of its document names a node it  *)
(* is allowed on, and only such nodes fetch it and run it.  A write that   *)
(* re-queues the task may name any node: it makes that node an allowed one *)
(* when it is applied.                                                     *)
BoundCopy(s) ==
  s.task \in Pinned => IF s.kind = "requeue" THEN s.doc.node \in Nodes
                       ELSE s.doc.node \in Allowed(s.task)

Binding ==
  /\ \A t \in Pinned : targets[t] \subseteq Nodes
  /\ \A t \in Pinned : db[t].node \in Allowed(t)
  /\ \A s \in saves : BoundCopy(s)
  /\ \A n \in Nodes : /\ fetch[n].pc = "read" => fetchDoc[n].node = n
                      /\ fetch[n].task \in Pinned => n \in Allowed(fetch[n].task)
  /\ \A r \in Runs : task[r] \in Pinned /\ pc[r] \notin NoDoc
                     => doc[r].node \in Allowed(task[r])
  /\ RunsWhereBound

(* The steps of the runner keep the binding. *)
LEMMA BindingRunner ==
  ASSUME TypeOK, LiveRuns, Binding, NEW r \in Runs, RunnerStep(r)
  PROVE  Binding'
<1> USE DEF master, history, NoDoc
<1>0. Pinned \subseteq Tasks /\ NoTask \notin Pinned
  BY DispatchAssumption DEF Pinned
<1>1. CASE ExecuteTask(r) \/ NewTaskRunnerFails(r)
  <2>1. UNCHANGED <<db, saves, fetch, fetchDoc, targets>>
    BY <1>1 DEF ExecuteTask, NewTaskRunnerFails
  <2>2. \A q \in Runs : task'[q] \in Pinned =>
          /\ task'[q] = task[q] /\ host'[q] = host[q]
          /\ pc'[q] \notin NoDoc => pc[q] \notin NoDoc /\ doc'[q] = doc[q]
    BY <1>0, <1>1 DEF ExecuteTask, NewTaskRunnerFails, Freed, Forget, Goto, TypeOK
  <2> QED BY <2>1, <2>2 DEF Binding, RunsWhereBound, BoundCopy, Allowed
<1>2. CASE NewTaskRunner(r) \/ ReloadTask(r)
  <2>1. task[r] \in Tasks
    BY <1>2 DEF NewTaskRunner, ReloadTask, LiveRuns
  <2>2. UNCHANGED <<db, saves, fetch, fetchDoc, targets, task, host>>
    BY <1>2 DEF NewTaskRunner, ReloadTask, Goto
  <2>3. pc[r] = "reload" => pc[r] \notin NoDoc
    OBVIOUS
  <2>4. \A q \in Runs : pc'[q] \notin NoDoc =>
          \/ pc[q] \notin NoDoc /\ doc'[q] = doc[q]
          \/ doc'[q] = db[task[q]]
    BY <1>2, <2>3 DEF NewTaskRunner, ReloadTask, Goto, TypeOK
  <2> QED BY <2>2, <2>4 DEF Binding, RunsWhereBound, BoundCopy, Allowed
<1>3. CASE UpdateTaskRunning(r) \/ UpdateTaskFinal(r)
  <2> DEFINE st == IF pc[r] = "start" THEN "running" ELSE out[r]
             p == IF pc[r] = "exited" THEN 1 ELSE doc[r].pid
             e == [doc[r] EXCEPT !.status = st, !.pid = p]
  <2>1. task[r] \in Tasks /\ doc[r] \in Doc
    BY <1>3 DEF UpdateTaskRunning, UpdateTaskFinal, LiveRuns, TypeOK
  <2>2. e.node = doc[r].node
    BY <2>1, DocFields
  <2>3. task[r] \in Pinned => e.node \in Allowed(task[r])
    BY <1>3, <2>2 DEF UpdateTaskRunning, UpdateTaskFinal, Binding
  <2>4. UNCHANGED db \/ db' = [db EXCEPT ![task[r]] = e]
    BY <1>3 DEF UpdateTaskRunning, UpdateTaskFinal, Replace
  <2> HIDE DEF e
  <2>5. UNCHANGED <<saves, fetch, fetchDoc, doc, targets, task, host>>
    BY <1>3 DEF UpdateTaskRunning, UpdateTaskFinal, Goto
  <2>6. \A t \in Pinned : db'[t].node \in Allowed(t)
    BY <1>0, <2>1, <2>3, <2>4 DEF Binding, TypeOK
  <2>7. \A q \in Runs : pc'[q] \notin NoDoc => pc[q] \notin NoDoc
    BY <1>3 DEF UpdateTaskRunning, UpdateTaskFinal, Goto, TypeOK
  <2> QED BY <2>5, <2>6, <2>7 DEF Binding, RunsWhereBound, BoundCopy, Allowed
<1>4. CASE StartProcess(r) \/ StartFails(r)
           \/ \E status \in {"finished", "error", "cancelled"} :
                ProcessExit(r, status)
  <2>1. UNCHANGED <<db, saves, fetch, fetchDoc, doc, targets, task, host>>
    BY <1>4 DEF StartProcess, StartFails, ProcessExit, Goto
  <2>2. \A q \in Runs : pc'[q] \notin NoDoc => pc[q] \notin NoDoc
    BY <1>4 DEF StartProcess, StartFails, ProcessExit, Goto, TypeOK
  <2> QED BY <2>1, <2>2 DEF Binding, RunsWhereBound, BoundCopy, Allowed
<1>5. CASE EndOfRun(r)
  BY <1>0, <1>5 DEF EndOfRun, Forget, Twin, Binding, RunsWhereBound, BoundCopy,
                    Allowed, TypeOK
<1> QED BY <1>1, <1>2, <1>3, <1>4, <1>5 DEF RunnerStep

(* A planned write of the current document names an allowed node. *)
LEMMA BindingPlans ==
  ASSUME TypeOK, Binding, OnlyPlans, NEW s \in saves'
  PROVE  BoundCopy(s)
<1>1. CASE Planned(s)
  BY <1>1 DEF Planned, BoundCopy, Binding
<1> QED BY <1>1 DEF OnlyPlans, Binding

(* A node only fetches what is bound to it. *)
LEMMA FetchesItsOwn ==
  ASSUME TypeOK, Binding, NEW n \in Nodes, NEW t \in Pinned, t \in Fetchable(n)
  PROVE  db[t].status = "pending" /\ db[t].node = n
<1>1. db[t].node # NoNode
  BY DispatchAssumption DEF Binding, Allowed, Pinned
<1> QED BY <1>1 DEF Fetchable

(* So do all other steps. *)
LEMMA BindingKept ==
  ASSUME TypeOK, LiveRuns, Binding, Next
  PROVE  Binding'
<1> USE DEF master, run, history
<1>0. Pinned \subseteq Tasks /\ NoTask \notin Pinned
  BY DispatchAssumption DEF Pinned
<1>1. ASSUME QuietStep PROVE Binding'
  <2>1. \A s \in saves' : BoundCopy(s)
    BY <1>1, BindingPlans DEF QuietStep
  <2> QED BY <1>1, <2>1 DEF QuietStep, Binding, RunsWhereBound, BoundCopy, Allowed
<1>2. ASSUME NEW n \in Nodes, Die(n), UNCHANGED <<db, saves, fetchDoc, targets>>
      PROVE  Binding'
  <2>1. \A m \in Nodes : fetch'[m] = fetch[m] \/ fetch'[m] = Idle
    BY <1>2 DEF Die, TypeOK
  <2>2. \A m \in Nodes :
          /\ fetch'[m].pc = "read" => fetchDoc'[m].node = m
          /\ fetch'[m].task \in Pinned => m \in Allowed(fetch'[m].task)
    BY <1>0, <1>2, <2>1 DEF Binding, Idle
  <2>3. \A r \in Runs : task'[r] \in Pinned =>
          task'[r] = task[r] /\ host'[r] = host[r] /\ doc'[r] = doc[r]
          /\ pc'[r] = pc[r]
    BY <1>0, <1>2 DEF Die, Forget
  <2> QED BY <1>2, <2>2, <2>3 DEF Binding, RunsWhereBound, BoundCopy, Allowed
<1>3. CASE SchedulerStep
  <2>1. ASSUME NEW t \in Tasks, Enqueue(t) PROVE Binding'
    <3>1. db[t] \in Doc
      BY DEF TypeOK
    <3>2. [db[t] EXCEPT !.status = "pending"].node = db[t].node
      BY <3>1, DocFields
    <3>3. \A u \in Pinned : db'[u].node = db[u].node
      BY <1>0, <2>1, <3>2 DEF Enqueue, TypeOK
    <3> QED BY <2>1, <3>3 DEF Enqueue, Binding, RunsWhereBound, BoundCopy, Allowed
  <2>2. CASE MasterRestart
    <3>1. \A n \in Nodes : fetch'[n].pc # "read"
                           /\ (fetch'[n] = fetch[n] \/ fetch'[n] = Idle)
      BY <2>2 DEF MasterRestart, Idle, TypeOK
    <3>2. \A n \in Nodes :
            /\ fetch'[n].pc = "read" => fetchDoc'[n].node = n
            /\ fetch'[n].task \in Pinned => n \in Allowed(fetch'[n].task)
      BY <1>0, <3>1 DEF Binding, Idle
    <3> QED BY <2>2, <3>2 DEF MasterRestart, Binding, RunsWhereBound, BoundCopy,
                              Allowed
  <2> QED BY <1>1, <1>3, <2>1, <2>2, QuietScheduler, QuietBoot DEF SchedulerStep
<1>4. ASSUME NEW s \in saves, Save(s) PROVE Binding'
  <2>1. s.task \in Tasks
    BY DEF TypeOK, SaveSet
  <2>2. \A t \in Pinned : targets[t] \subseteq targets'[t]
    BY <1>0, <1>4, <2>1 DEF Save, TypeOK
  <2>3. \A t \in Pinned : targets'[t] \subseteq Nodes
    BY <1>0, <1>4, <2>1 DEF Save, TypeOK, Binding, BoundCopy
  <2>4. \A t \in Pinned : db'[t].node \in {Home[t]} \cup targets'[t]
    BY <1>0, <1>4, <2>1, <2>2 DEF Save, TypeOK, Binding, BoundCopy, Allowed
  <2> QED BY <1>4, <2>2, <2>3, <2>4 DEF Save, Binding, RunsWhereBound, BoundCopy,
                                        Allowed
<1>5. ASSUME NEW n \in Nodes, FetchStep(n) PROVE Binding'
  <2>0. ASSUME FetchDone(n)
        PROVE  \A m \in Nodes :
                 /\ fetch'[m].pc = "read" => fetchDoc'[m].node = m
                 /\ fetch'[m].task \in Pinned => m \in Allowed(fetch'[m].task)
    BY <1>0, <2>0 DEF FetchDone, Idle, TypeOK, Binding
  <2>1. ASSUME NEW t \in Tasks, FetchTaskRead(n, t) PROVE Binding'
    <3> DEFINE e == [db[t] EXCEPT !.status = "assigned", !.node = n]
    <3>1. db[t] \in Doc
      BY DEF TypeOK
    <3>2. e.node = n
      BY <3>1, DocFields
    <3>3. fetch' = [fetch EXCEPT ![n] = [pc |-> "read", task |-> t]]
          /\ fetchDoc' = [fetchDoc EXCEPT ![n] = e]
          /\ UNCHANGED <<db, saves, run, targets>>
      BY <2>1 DEF FetchTaskRead
    <3> HIDE DEF e
    <3>4. t \in Pinned => n \in Allowed(t)
      BY <2>1, FetchesItsOwn DEF FetchTaskRead, Binding
    <3>5. \A m \in Nodes :
            /\ fetch'[m].pc = "read" => fetchDoc'[m].node = m
            /\ fetch'[m].task \in Pinned => m \in Allowed(fetch'[m].task)
      BY <3>2, <3>3, <3>4 DEF Binding, TypeOK
    <3> QED BY <3>3, <3>5 DEF Binding, RunsWhereBound, BoundCopy, Allowed
  <2>2. CASE FetchTaskSave(n)
    <3>1. fetch[n].task \in Tasks /\ fetchDoc[n].node = n
      BY <2>2, FetchBusy DEF FetchTaskSave, Binding
    <3>2. fetch[n].task \in Pinned => n \in Allowed(fetch[n].task)
      BY DEF Binding
    <3>3. \A u \in Pinned : db'[u].node \in Allowed(u)
      BY <1>0, <2>2, <3>1, <3>2 DEF FetchTaskSave, Binding, TypeOK
    <3>4. \A m \in Nodes :
            /\ fetch'[m].pc = "read" => fetchDoc'[m].node = m
            /\ fetch'[m].task \in Pinned => m \in Allowed(fetch'[m].task)
      <4>1. fetch'[n].pc # "read"
            /\ (fetch'[n].task = fetch[n].task \/ fetch'[n].task = NoTask)
        BY <2>2, FetchBusy DEF FetchTaskSave, Idle, TypeOK
      <4>2. \A m \in Nodes \ {n} : fetch'[m] = fetch[m]
                                   /\ fetchDoc'[m] = fetchDoc[m]
        BY <2>2 DEF FetchTaskSave, TypeOK
      <4> QED BY <1>0, <4>1, <4>2 DEF Binding
    <3> QED BY <2>2, <3>3, <3>4 DEF FetchTaskSave, Binding, RunsWhereBound,
                                    BoundCopy, Allowed
  <2>3. CASE FetchReplyLost(n)
    BY <2>0, <2>3 DEF FetchReplyLost, Binding, RunsWhereBound, BoundCopy, Allowed
  <2>6. CASE FetchTaskAbandoned(n)
    <3>1. /\ fetchDoc[n].node = n
          /\ fetch[n].task \in Pinned => n \in Allowed(fetch[n].task)
      BY <2>6 DEF FetchTaskAbandoned, Binding
    <3>2. PICK s \in SaveSet :
            /\ saves' = saves \cup {s}
            /\ s.task = fetch[n].task /\ s.doc = fetchDoc[n]
            /\ s.kind = "plain"
      BY <2>6, AbandonedCopy
    <3>3. \A q \in saves' : BoundCopy(q)
      BY <3>1, <3>2 DEF Binding, BoundCopy
    <3>4. UNCHANGED <<db, run, targets>> /\ FetchDone(n)
      BY <2>6 DEF FetchTaskAbandoned
    <3> QED BY <2>0, <3>3, <3>4 DEF Binding, RunsWhereBound, BoundCopy, Allowed
  <2>4. CASE RunTask(n)
    <3>1. PICK q \in Runs : /\ pc[q] = "free"
                            /\ pc' = [pc EXCEPT ![q] = "queued"]
                            /\ task' = [task EXCEPT ![q] = fetch[n].task]
                            /\ host' = [host EXCEPT ![q] = n]
      BY <2>4 DEF RunTask
    <3>2. UNCHANGED <<db, saves, doc, targets>> /\ FetchDone(n)
      BY <2>4 DEF RunTask
    <3>3. \A r \in Runs : task'[r] \in Pinned => host'[r] \in Allowed(task'[r])
      BY <3>1 DEF Binding, RunsWhereBound, Allowed, TypeOK
    <3>4. \A r \in Runs : task'[r] \in Pinned /\ pc'[r] \notin NoDoc
                          => doc[r].node \in Allowed(task'[r])
      BY <3>1 DEF Binding, NoDoc, TypeOK
    <3> QED BY <2>0, <3>2, <3>3, <3>4 DEF Binding, RunsWhereBound, BoundCopy,
                                          Allowed
  <2>5. CASE RunTaskRefused(n)
    <3>1. OnlyPlans
      BY <2>5, RefusedPlans
    <3>2. \A s \in saves' : BoundCopy(s)
      BY <3>1, BindingPlans
    <3>3. UNCHANGED <<db, run, targets>> /\ FetchDone(n)
      BY <2>5 DEF RunTaskRefused
    <3> QED BY <2>0, <3>2, <3>3 DEF Binding, RunsWhereBound, BoundCopy, Allowed
  <2> QED BY <1>5, <2>1, <2>2, <2>3, <2>4, <2>5, <2>6 DEF FetchStep
<1>6. ASSUME NEW n \in Nodes, NodeStep(n) PROVE Binding'
  BY <1>1, <1>2, <1>6, QuietNode DEF NodeStep, NodeCrash
<1>7. CASE SignalStep
  <2>0. \A m \in msgs : m.task \in Tasks /\ m.node \in Nodes
    BY DEF TypeOK, Signal
  <2>1. ASSUME NEW m \in msgs, HandleCancel(m) PROVE Binding'
    <3>1. UNCHANGED <<db, saves, fetch, fetchDoc, doc, targets, task, host>>
      BY <2>1 DEF HandleCancel, Goto
    <3>2. \A q \in Runs : pc'[q] \notin NoDoc => pc[q] \notin NoDoc
      BY <2>1 DEF HandleCancel, Goto, NoDoc, TypeOK
    <3> QED BY <3>1, <3>2 DEF Binding, RunsWhereBound, BoundCopy, Allowed
  <2>2. ASSUME NEW m \in msgs, HandleCancelPanics(m) PROVE Binding'
    BY <1>2, <2>0, <2>2 DEF HandleCancelPanics
  <2> QED BY <1>1, <1>7, <2>1, <2>2, QuietSignal DEF SignalStep
<1> QED BY <1>1, <1>3, <1>4, <1>5, <1>6, <1>7, BindingRunner, QuietReconcile
        DEF Next

(* A task bound to a node only ever runs on that node or on one the        *)
(* reconciler re-assigned it to, although every writer replaces the node   *)
(* from a copy that may be out of date.                                    *)
THEOREM BindingTheorem == Spec => []RunsWhereBound
<1>1. Init => Binding
  BY DispatchAssumption DEF Init, Binding, RunsWhereBound, Allowed, Fresh, Idle,
                            NoDoc, Pinned
<1>2. TypeOK /\ LiveRuns /\ Binding /\ [Next]_vars => Binding'
  <2>1. CASE Next
    BY <2>1, BindingKept
  <2>2. CASE UNCHANGED vars
    BY <2>2 DEF vars, Binding, RunsWhereBound, BoundCopy, Allowed
  <2> QED BY <2>1, <2>2
<1>3. Binding => RunsWhereBound
  BY DEF Binding
<1> QED BY <1>1, <1>2, <1>3, TypeCorrect, PTL DEF Spec

-----------------------------------------------------------------------------
(* Counting the runs of a task that is bound to a node *)

Reading(t) == {n \in Nodes : fetch[n].pc = "read" /\ fetch[n].task = t}
Owed(t) == {n \in Nodes : fetch[n].pc = "replied" /\ fetch[n].task = t}
Awaiting(t) == {r \in Runs : task[r] = t /\ pc[r] \in Waiting}

Open == {"new", "pending"}

(* Grants made and about to be made exceed the re-queueings by one at      *)
(* most, and not at all while the document can be fetched: it is fetchable *)
(* by one node only, and when that node has read it but not yet written it *)
(* the grant is counted already.                                           *)
GrantsCovered(t) ==
  /\ grants[t] + Cardinality(Reading(t)) <= 1 + requeued[t]
  /\ db[t].status \in Open /\ db[t].node \notin Reading(t)
     => grants[t] + Cardinality(Reading(t)) <= requeued[t]

(* Only what the reconciler re-queues makes a document fetchable. *)
Labelled(s) ==
  IF s.kind = "requeue" THEN s.doc.status = "pending" /\ s.doc.node \in Nodes
  ELSE s.doc.status \notin Open

Granting ==
  /\ \A t \in Pinned : GrantsCovered(t)
  /\ \A s \in saves : Labelled(s)
  /\ \A n \in Nodes : fetch[n].pc = "read" => fetchDoc[n].status = "assigned"

(* Every start, every answer on its way and every run that has not started *)
(* its process yet goes back to a grant of its own.                        *)
StartsCovered(t) ==
  started[t] + Cardinality(Owed(t)) + Cardinality(Awaiting(t)) <= grants[t]

Starting == \A t \in Tasks : StartsCovered(t)

(* The sets that are counted are finite. *)
LEMMA CountedFinite ==
  ASSUME NEW t
  PROVE  /\ IsFiniteSet(Reading(t)) /\ Cardinality(Reading(t)) \in Nat
         /\ IsFiniteSet(Owed(t)) /\ Cardinality(Owed(t)) \in Nat
         /\ IsFiniteSet(Awaiting(t)) /\ Cardinality(Awaiting(t)) \in Nat
         /\ IsFiniteSet(Reading(t)') /\ Cardinality(Reading(t)') \in Nat
         /\ IsFiniteSet(Owed(t)') /\ Cardinality(Owed(t)') \in Nat
         /\ IsFiniteSet(Awaiting(t)') /\ Cardinality(Awaiting(t)') \in Nat
<1>1. \A S \in SUBSET Nodes : IsFiniteSet(S) /\ Cardinality(S) \in Nat
  BY DispatchAssumption, FS_Subset, FS_CardinalityType
<1>2. \A S \in SUBSET Runs : IsFiniteSet(S) /\ Cardinality(S) \in Nat
  BY DispatchAssumption, FS_Subset, FS_CardinalityType
<1>3. Reading(t) \in SUBSET Nodes /\ Owed(t) \in SUBSET Nodes
      /\ Reading(t)' \in SUBSET Nodes /\ Owed(t)' \in SUBSET Nodes
  BY DEF Reading, Owed
<1>4. Awaiting(t) \in SUBSET Runs /\ Awaiting(t)' \in SUBSET Runs
  BY DEF Awaiting
<1> QED BY <1>1, <1>2, <1>3, <1>4

(* A step that changes neither the counters nor who is reading, and makes  *)
(* no document fetchable, keeps the grants covered.                        *)
LEMMA GrantsFrame ==
  ASSUME NEW t \in Pinned, GrantsCovered(t), Reading(t)' = Reading(t),
         grants'[t] = grants[t], requeued'[t] = requeued[t],
         db'[t].status \in Open
           => db[t].status \in Open /\ db'[t].node = db[t].node
  PROVE  GrantsCovered(t)'
BY DEF GrantsCovered

(* The runner never makes a document fetchable. *)
LEMMA GrantingRunner ==
  ASSUME TypeOK, LiveRuns, Granting, NEW r \in Runs, RunnerStep(r)
  PROVE  Granting'
<1> USE DEF master, history
<1>1. UNCHANGED <<saves, fetch, fetchDoc, grants, requeued>>
  BY DEF RunnerStep, ExecuteTask, NewTaskRunner, NewTaskRunnerFails,
         UpdateTaskRunning, ReloadTask, StartProcess, StartFails, ProcessExit,
         UpdateTaskFinal, EndOfRun
<1>2. ASSUME NEW t \in Tasks PROVE db'[t] = db[t] \/ db'[t].status \notin Open
  <2>1. CASE UpdateTaskRunning(r) \/ UpdateTaskFinal(r)
    <3> DEFINE st == IF pc[r] = "start" THEN "running" ELSE out[r]
               p == IF pc[r] = "exited" THEN 1 ELSE doc[r].pid
               e == [doc[r] EXCEPT !.status = st, !.pid = p]
    <3>1. task[r] \in Tasks /\ doc[r] \in Doc /\ st \notin Open
      BY <2>1 DEF UpdateTaskRunning, UpdateTaskFinal, LiveRuns, TypeOK, Final, Open
    <3>2. e.status = st
      BY <3>1, DocFields
    <3>3. UNCHANGED db \/ db' = [db EXCEPT ![task[r]] = e]
      BY <2>1 DEF UpdateTaskRunning, UpdateTaskFinal, Replace
    <3> HIDE DEF e, st
    <3> QED BY <3>1, <3>2, <3>3 DEF TypeOK
  <2> QED BY <2>1 DEF RunnerStep, ExecuteTask, NewTaskRunner,
                      NewTaskRunnerFails, ReloadTask, StartProcess, StartFails,
                      ProcessExit, EndOfRun
<1>3. \A t \in Pinned : Reading(t)' = Reading(t)
  BY <1>1 DEF Reading
<1>4. \A t \in Pinned : GrantsCovered(t)'
  BY <1>1, <1>2, <1>3, GrantsFrame DEF Granting, Pinned
<1> QED BY <1>1, <1>4 DEF Granting

(* Nobody but the reconciler makes a task fetchable again. *)
LEMMA GrantingKept ==
  ASSUME TypeOK, LiveRuns, Binding, Granting, Next
  PROVE  Granting'
<1> USE DEF master, run, history
<1>0. Pinned \subseteq Tasks
  BY DEF Pinned
<1>1. ASSUME OnlyPlans PROVE \A s \in saves' : Labelled(s)
  BY <1>1 DEF OnlyPlans, Planned, Granting, Labelled, Open
<1>2. ASSUME UNCHANGED <<db, grants, requeued>>,
             \A n \in Nodes : /\ fetch'[n].pc = "read" <=> fetch[n].pc = "read"
                              /\ fetch'[n].pc = "read"
                                 => fetch'[n] = fetch[n] /\ fetchDoc'[n] = fetchDoc[n]
      PROVE  /\ \A t \in Pinned : GrantsCovered(t)'
             /\ \A n \in Nodes : fetch'[n].pc = "read"
                                 => fetchDoc'[n].status = "assigned"
  <2>1. \A t \in Pinned : Reading(t)' = Reading(t)
    BY <1>2 DEF Reading
  <2>2. \A t \in Pinned : GrantsCovered(t)'
    BY <1>2, <2>1, GrantsFrame DEF Granting
  <2> QED BY <1>2, <2>2 DEF Granting
<1>3. ASSUME QuietStep PROVE Granting'
  BY <1>1, <1>2, <1>3 DEF QuietStep, Granting
<1>4. ASSUME NEW n \in Nodes, Die(n),
             UNCHANGED <<db, saves, fetchDoc, grants, requeued>>
      PROVE  Granting'
  <2>1. \A m \in Nodes : /\ fetch'[m].pc = "read" <=> fetch[m].pc = "read"
                         /\ fetch'[m].pc = "read" => fetch'[m] = fetch[m]
    BY <1>4 DEF Die, Idle, TypeOK
  <2> QED BY <1>2, <1>4, <2>1 DEF Granting
<1>5. CASE SchedulerStep
  <2>1. ASSUME NEW t \in Tasks, Enqueue(t) PROVE Granting'
    <3>1. db[t] \in Doc /\ db[t].status \in Open
      BY <2>1 DEF TypeOK, Enqueue, Open
    <3>2. [db[t] EXCEPT !.status = "pending"].node = db[t].node
      BY <3>1, DocFields
    <3>3. \A u \in Tasks : db'[u].status \in Open
             => db[u].status \in Open /\ db'[u].node = db[u].node
      BY <2>1, <3>1, <3>2 DEF Enqueue, TypeOK
    <3>4. \A u \in Pinned : Reading(u)' = Reading(u)
      BY <2>1 DEF Enqueue, Reading
    <3>5. \A u \in Pinned : GrantsCovered(u)'
      BY <1>0, <2>1, <3>3, <3>4, GrantsFrame DEF Enqueue, Granting
    <3> QED BY <2>1, <3>5 DEF Enqueue, Granting
  <2>2. CASE MasterRestart
    <3>1. \A n \in Nodes : fetch'[n].pc # "read"
      BY <2>2 DEF MasterRestart, Idle, TypeOK
    <3>2. ASSUME NEW t \in Pinned PROVE GrantsCovered(t)'
      <4>1. Reading(t)' = {} /\ Cardinality({}) = 0
        BY <3>1, FS_EmptySet DEF Reading
      <4>2. UNCHANGED <<db, grants, requeued>>
        BY <2>2 DEF MasterRestart
      <4>3. grants[t] \in Nat /\ requeued[t] \in Nat
            /\ Cardinality(Reading(t)) \in Nat
        BY <1>0, CountedFinite DEF TypeOK
      <4>4. CASE Reading(t) = {}
        BY <4>1, <4>2, <4>3, <4>4 DEF GrantsCovered, Granting
      <4>5. CASE Reading(t) # {}
        <5>1. Cardinality(Reading(t)) >= 1
          BY <4>3, <4>5, CountedFinite, FS_EmptySet
        <5>2. grants[t] <= requeued[t]
          BY <4>3, <5>1 DEF GrantsCovered, Granting
        <5> QED BY <4>1, <4>2, <4>3, <5>2 DEF GrantsCovered
      <4> QED BY <4>4, <4>5
    <3> QED BY <2>2, <3>1, <3>2 DEF MasterRestart, Granting
  <2> QED BY <1>3, <1>5, <2>1, <2>2, QuietScheduler, QuietBoot DEF SchedulerStep
<1>6. ASSUME NEW s \in saves, Save(s) PROVE Granting'
  <2>1. s.task \in Tasks
    BY DEF TypeOK, SaveSet
  <2>2. \A t \in Pinned : Reading(t)' = Reading(t)
    BY <1>6 DEF Save, Reading
  <2>3. ASSUME NEW t \in Pinned PROVE GrantsCovered(t)'
    <3>1. CASE t # s.task \/ s.kind # "requeue"
      <4>1. db'[t] = db[t] \/ db'[t].status \notin Open
        BY <1>0, <1>6, <2>1, <3>1 DEF Save, TypeOK, Granting, Labelled
      <4>2. grants'[t] = grants[t] /\ requeued'[t] = requeued[t]
        BY <1>0, <1>6, <2>1, <3>1 DEF Save, TypeOK
      <4> QED BY <2>2, <4>1, <4>2, GrantsFrame DEF Granting
    <3>2. CASE t = s.task /\ s.kind = "requeue"
      <4>1. grants'[t] = grants[t] /\ requeued'[t] = requeued[t] + 1
        BY <1>6, <2>1, <3>2 DEF Save, TypeOK
      <4>2. grants[t] \in Nat /\ requeued[t] \in Nat
            /\ Cardinality(Reading(t)) \in Nat
        BY <1>0, CountedFinite DEF TypeOK
      <4> QED BY <2>2, <4>1, <4>2 DEF GrantsCovered, Granting
    <3> QED BY <3>1, <3>2
  <2> QED BY <1>6, <2>3 DEF Save, Granting
<1>7. ASSUME NEW n \in Nodes, FetchStep(n) PROVE Granting'
  <2>0. ASSUME FetchDone(n), fetch[n].pc # "read"
        PROVE  \A m \in Nodes :
                 /\ fetch'[m].pc = "read" <=> fetch[m].pc = "read"
                 /\ fetch'[m].pc = "read"
                    => fetch'[m] = fetch[m] /\ fetchDoc'[m] = fetchDoc[m]
    BY <2>0 DEF FetchDone, Idle, TypeOK
  <2>1. ASSUME NEW t \in Tasks, FetchTaskRead(n, t) PROVE Granting'
    <3> DEFINE e == [db[t] EXCEPT !.status = "assigned", !.node = n]
    <3>1. db[t] \in Doc
      BY DEF TypeOK
    <3>2. e.status = "assigned"
      BY <3>1, DocFields
    <3>3. fetch' = [fetch EXCEPT ![n] = [pc |-> "read", task |-> t]]
          /\ fetchDoc' = [fetchDoc EXCEPT ![n] = e]
          /\ fetch[n].pc = "idle"
          /\ UNCHANGED <<db, saves, run, grants, requeued>>
      BY <2>1 DEF FetchTaskRead
    <3> HIDE DEF e
    <3>4. \A m \in Nodes : fetch'[m].pc = "read" => fetchDoc'[m].status = "assigned"
      BY <3>2, <3>3 DEF Granting, TypeOK
    <3>5. ASSUME NEW u \in Pinned, u # t PROVE GrantsCovered(u)'
      <4>1. Reading(u)' = Reading(u)
        BY <3>3, <3>5 DEF Reading, TypeOK
      <4> QED BY <3>3, <4>1, GrantsFrame DEF Granting
    <3>6. ASSUME t \in Pinned PROVE GrantsCovered(t)'
      <4>1. db[t].status = "pending" /\ db[t].node = n
        BY <2>1, <3>6, FetchesItsOwn DEF FetchTaskRead
      <4>2. n \notin Reading(t) /\ Reading(t)' = Reading(t) \cup {n}
        BY <3>3 DEF Reading, TypeOK
      <4>3. Cardinality(Reading(t)') = Cardinality(Reading(t)) + 1
        BY <4>2, CountedFinite, FS_AddElement
      <4>4. grants[t] + Cardinality(Reading(t)) <= requeued[t]
        BY <3>6, <4>1, <4>2 DEF Granting, GrantsCovered, Open
      <4>5. grants[t] \in Nat /\ requeued[t] \in Nat
            /\ Cardinality(Reading(t)) \in Nat
        BY CountedFinite DEF TypeOK
      <4>6. n \in Reading(t)' /\ db'[t].node = n
        BY <3>3, <4>1, <4>2
      <4> QED BY <3>3, <4>3, <4>4, <4>5, <4>6 DEF GrantsCovered
    <3> QED BY <3>3, <3>4, <3>5, <3>6 DEF Granting
  <2>2. CASE FetchTaskSave(n)
    <3>0. PICK t \in Tasks : t = fetch[n].task
      BY <2>2, FetchBusy DEF FetchTaskSave
    <3>1. t \in Tasks /\ fetch[n].pc = "read" /\ fetchDoc[n].status = "assigned"
      BY <2>2 DEF FetchTaskSave, Granting
    <3>2. db' = [db EXCEPT ![t] = fetchDoc[n]]
          /\ grants' = [grants EXCEPT ![t] = @ + 1]
          /\ UNCHANGED <<saves, requeued>>
      BY <2>2, <3>0 DEF FetchTaskSave
    <3>3. fetch'[n].pc # "read"
      BY <2>2, FetchBusy DEF FetchTaskSave, Idle, TypeOK
    <3>4. \A m \in Nodes \ {n} : fetch'[m] = fetch[m]
                                 /\ fetchDoc'[m] = fetchDoc[m]
      BY <2>2 DEF FetchTaskSave, TypeOK
    <3>5. ASSUME NEW u \in Pinned, u # t PROVE GrantsCovered(u)'
      <4>1. Reading(u)' = Reading(u)
        BY <3>0, <3>3, <3>4, <3>5 DEF Reading
      <4>2. db'[u] = db[u] /\ grants'[u] = grants[u]
        BY <1>0, <3>2, <3>5 DEF TypeOK
      <4> QED BY <3>2, <4>1, <4>2, GrantsFrame DEF Granting
    <3>6. ASSUME t \in Pinned PROVE GrantsCovered(t)'
      <4>1. n \in Reading(t) /\ Reading(t)' = Reading(t) \ {n}
        BY <3>0, <3>1, <3>3, <3>4 DEF Reading
      <4>2. Cardinality(Reading(t)') = Cardinality(Reading(t)) - 1
        BY <4>1, CountedFinite, FS_RemoveElement
      <4>3. grants'[t] = grants[t] + 1 /\ db'[t].status = "assigned"
        BY <3>1, <3>2 DEF TypeOK
      <4>4. grants[t] \in Nat /\ requeued[t] \in Nat
            /\ Cardinality(Reading(t)) \in Nat
        BY <3>1, CountedFinite DEF TypeOK
      <4> QED BY <3>2, <3>6, <4>2, <4>3, <4>4 DEF GrantsCovered, Granting, Open
    <3> QED BY <3>2, <3>3, <3>4, <3>5, <3>6 DEF Granting
  <2>3. CASE FetchReplyLost(n) \/ RunTask(n) \/ RunTaskRefused(n)
    <3>1. UNCHANGED <<db, grants, requeued>> /\ FetchDone(n)
          /\ fetch[n].pc # "read"
      BY <2>3 DEF FetchReplyLost, RunTask, RunTaskRefused
    <3>2. OnlyPlans
      BY <2>3, RefusedPlans DEF FetchReplyLost, RunTask, OnlyPlans
    <3> QED BY <1>1, <1>2, <2>0, <3>1, <3>2 DEF Granting
  <2>4. CASE FetchTaskAbandoned(n)
    <3>0. PICK t \in Tasks : t = fetch[n].task
      BY <2>4, FetchBusy DEF FetchTaskAbandoned
    <3>1. fetch[n].pc = "read" /\ fetchDoc[n].status = "assigned"
          /\ UNCHANGED <<db, grants, requeued>> /\ FetchDone(n)
      BY <2>4 DEF FetchTaskAbandoned, Granting
    <3>2. \A q \in saves' : Labelled(q)
      <4>1. PICK s \in SaveSet : saves' = saves \cup {s}
                                /\ s.doc = fetchDoc[n] /\ s.kind = "plain"
        BY <2>4, AbandonedCopy
      <4> QED BY <3>1, <4>1 DEF Granting, Labelled, Open
    <3>3. fetch'[n].pc # "read"
          /\ \A m \in Nodes \ {n} : fetch'[m] = fetch[m]
                                   /\ fetchDoc'[m] = fetchDoc[m]
      BY <3>1 DEF FetchDone, Idle, TypeOK
    <3>4. ASSUME NEW u \in Pinned, u # t PROVE GrantsCovered(u)'
      <4>1. Reading(u)' = Reading(u)
        BY <3>0, <3>3, <3>4 DEF Reading
      <4> QED BY <3>1, <4>1, GrantsFrame DEF Granting
    <3>5. ASSUME t \in Pinned PROVE GrantsCovered(t)'
      <4>1. n \in Reading(t) /\ Reading(t)' = Reading(t) \ {n}
        BY <3>0, <3>1, <3>3 DEF Reading
      <4>2. Cardinality(Reading(t)') = Cardinality(Reading(t)) - 1
        BY <4>1, CountedFinite, FS_RemoveElement
      <4>3. grants[t] \in Nat /\ requeued[t] \in Nat
            /\ Cardinality(Reading(t)) \in Nat
        BY CountedFinite DEF TypeOK
      <4>4. grants[t] + Cardinality(Reading(t)) <= 1 + requeued[t]
        BY <3>5 DEF Granting, GrantsCovered
      <4> QED BY <3>1, <4>2, <4>3, <4>4 DEF GrantsCovered
    <3> QED BY <3>2, <3>3, <3>4, <3>5 DEF Granting
  <2> QED BY <1>7, <2>1, <2>2, <2>3, <2>4 DEF FetchStep
<1>8. ASSUME NEW n \in Nodes, NodeStep(n) PROVE Granting'
  BY <1>3, <1>4, <1>8, QuietNode DEF NodeStep, NodeCrash
<1>9. CASE SignalStep
  <2>0. \A m \in msgs : m.task \in Tasks /\ m.node \in Nodes
    BY DEF TypeOK, Signal
  <2>1. ASSUME NEW m \in msgs, HandleCancel(m) PROVE Granting'
    BY <1>2, <2>1 DEF HandleCancel, Granting
  <2>2. ASSUME NEW m \in msgs, HandleCancelPanics(m) PROVE Granting'
    BY <1>4, <2>0, <2>2 DEF HandleCancelPanics
  <2> QED BY <1>3, <1>9, <2>1, <2>2, QuietSignal DEF SignalStep
<1> QED BY <1>3, <1>5, <1>6, <1>7, <1>8, <1>9, GrantingRunner, QuietReconcile
        DEF Next

(* A step that changes no counter and adds nobody who may still start. *)
LEMMA StartsFrame ==
  ASSUME TypeOK, NEW t \in Tasks, StartsCovered(t),
         Owed(t)' \subseteq Owed(t), Awaiting(t)' \subseteq Awaiting(t),
         started'[t] = started[t], grants'[t] = grants[t]
  PROVE  StartsCovered(t)'
<1>1. Cardinality(Owed(t)') <= Cardinality(Owed(t))
      /\ Cardinality(Awaiting(t)') <= Cardinality(Awaiting(t))
  BY CountedFinite, FS_Subset
<1>2. started[t] \in Nat /\ grants[t] \in Nat
  BY DEF TypeOK
<1> QED BY <1>1, <1>2, CountedFinite DEF StartsCovered

(* Every run that starts goes back to a grant. *)
LEMMA StartingKept ==
  ASSUME TypeOK, LiveRuns, Starting, Next
  PROVE  Starting'
<1> USE DEF master, run, history
<1>0. Waiting = {"queued", "create", "start", "reload", "cmd"}
  BY DEF Waiting
<1>1. ASSUME UNCHANGED <<started, grants>>,
             \A n \in Nodes : fetch'[n].pc = "replied" => fetch'[n] = fetch[n],
             \A r \in Runs : pc'[r] \in Waiting
                             => pc[r] \in Waiting /\ task'[r] = task[r]
      PROVE  Starting'
  <2> SUFFICES ASSUME NEW t \in Tasks PROVE StartsCovered(t)'
    BY DEF Starting
  <2>1. Owed(t)' \subseteq Owed(t) /\ Awaiting(t)' \subseteq Awaiting(t)
    BY <1>1 DEF Owed, Awaiting
  <2> QED BY <1>1, <2>1, StartsFrame DEF Starting
<1>2. ASSUME QuietStep PROVE Starting'
  BY <1>1, <1>2 DEF QuietStep
<1>3. ASSUME NEW n \in Nodes, Die(n), UNCHANGED <<started, grants>>
      PROVE  Starting'
  <2>1. \A m \in Nodes : fetch'[m].pc = "replied" => fetch'[m] = fetch[m]
    BY <1>3 DEF Die, Idle, TypeOK
  <2>2. \A r \in Runs : pc'[r] \in Waiting
                        => pc[r] \in Waiting /\ task'[r] = task[r]
    BY <1>0, <1>3 DEF Die, Forget
  <2> QED BY <1>1, <1>3, <2>1, <2>2
<1>4. CASE SchedulerStep
  <2>1. ASSUME NEW t \in Tasks, Enqueue(t) PROVE Starting'
    BY <1>1, <2>1 DEF Enqueue
  <2>2. CASE MasterRestart
    <3>1. \A n \in Nodes : fetch'[n].pc = "replied" => fetch'[n] = fetch[n]
      BY <2>2 DEF MasterRestart, Idle, TypeOK
    <3> QED BY <1>1, <2>2, <3>1 DEF MasterRestart
  <2> QED BY <1>2, <1>4, <2>1, <2>2, QuietScheduler, QuietBoot DEF SchedulerStep
<1>5. ASSUME NEW s \in saves, Save(s) PROVE Starting'
  BY <1>1, <1>5 DEF Save
<1>6. ASSUME NEW n \in Nodes, FetchStep(n) PROVE Starting'
  <2>0. ASSUME FetchDone(n)
        PROVE  \A m \in Nodes : fetch'[m].pc = "replied" => fetch'[m] = fetch[m]
    BY <2>0 DEF FetchDone, Idle, TypeOK
  <2>1. ASSUME NEW t \in Tasks, FetchTaskRead(n, t) PROVE Starting'
    <3>1. \A m \in Nodes : fetch'[m].pc = "replied" => fetch'[m] = fetch[m]
      BY <2>1 DEF FetchTaskRead, TypeOK
    <3> QED BY <1>1, <2>1, <3>1 DEF FetchTaskRead
  <2>2. CASE FetchTaskSave(n)
    <3>0. PICK t \in Tasks : t = fetch[n].task
      BY <2>2, FetchBusy DEF FetchTaskSave
    <3>1. fetch[n].pc = "read" /\ grants' = [grants EXCEPT ![t] = @ + 1]
          /\ UNCHANGED <<started, run>>
      BY <2>2, <3>0 DEF FetchTaskSave
    <3>2. \A m \in Nodes \ {n} : fetch'[m] = fetch[m]
      BY <2>2 DEF FetchTaskSave, TypeOK
    <3>3. fetch'[n].pc = "replied" => fetch'[n].task = t
      BY <2>2, <3>0, FetchBusy DEF FetchTaskSave, Idle, TypeOK
    <3>4. \A u \in Tasks : Awaiting(u)' = Awaiting(u)
      BY <3>1 DEF Awaiting
    <3>5. ASSUME NEW u \in Tasks, u # t PROVE StartsCovered(u)'
      <4>1. Owed(u)' \subseteq Owed(u)
        BY <3>2, <3>3, <3>5 DEF Owed
      <4>2. grants'[u] = grants[u]
        BY <3>1, <3>5 DEF TypeOK
      <4> QED BY <3>1, <3>4, <4>1, <4>2, StartsFrame DEF Starting
    <3>6. StartsCovered(t)'
      <4>1. Owed(t)' \subseteq Owed(t) \cup {n} /\ n \notin Owed(t)
        BY <3>1, <3>2 DEF Owed
      <4>2. IsFiniteSet(Owed(t) \cup {n})
            /\ Cardinality(Owed(t) \cup {n}) = Cardinality(Owed(t)) + 1
        BY <4>1, CountedFinite, FS_AddElement
      <4>3. Cardinality(Owed(t)') <= Cardinality(Owed(t)) + 1
        BY <4>1, <4>2, FS_Subset
      <4>4. grants'[t] = grants[t] + 1 /\ started'[t] = started[t]
            /\ started[t] \in Nat /\ grants[t] \in Nat
        BY <3>1 DEF TypeOK
      <4> QED BY <3>4, <4>3, <4>4, CountedFinite DEF StartsCovered, Starting
    <3> QED BY <3>5, <3>6 DEF Starting
  <2>3. CASE FetchReplyLost(n) \/ RunTaskRefused(n) \/ FetchTaskAbandoned(n)
    BY <1>1, <2>0, <2>3 DEF FetchReplyLost, RunTaskRefused, FetchTaskAbandoned
  <2>4. CASE RunTask(n)
    <3>0. PICK t \in Tasks : t = fetch[n].task
      BY <2>4, FetchBusy DEF RunTask
    <3>1. PICK q \in Runs : /\ pc[q] = "free"
                            /\ pc' = [pc EXCEPT ![q] = "queued"]
                            /\ task' = [task EXCEPT ![q] = t]
      BY <2>4, <3>0 DEF RunTask
    <3>2. fetch[n].pc = "replied" /\ FetchDone(n) /\ UNCHANGED <<started, grants>>
      BY <2>4 DEF RunTask
    <3>3. \A m \in Nodes \ {n} : fetch'[m] = fetch[m]
      BY <3>2 DEF FetchDone, TypeOK
    <3>4. fetch'[n].pc # "replied"
      BY <3>2 DEF FetchDone, Idle, TypeOK
    <3>5. ASSUME NEW u \in Tasks, u # t PROVE StartsCovered(u)'
      <4>1. Owed(u)' \subseteq Owed(u)
        BY <2>0, <3>2 DEF Owed
      <4>2. Awaiting(u)' \subseteq Awaiting(u)
        BY <3>1, <3>5 DEF Awaiting, TypeOK
      <4> QED BY <3>2, <4>1, <4>2, StartsFrame DEF Starting
    <3>6. StartsCovered(t)'
      <4>1. n \in Owed(t) /\ Owed(t)' = Owed(t) \ {n}
        BY <3>0, <3>2, <3>3, <3>4 DEF Owed
      <4>2. Cardinality(Owed(t)') = Cardinality(Owed(t)) - 1
        BY <4>1, CountedFinite, FS_RemoveElement
      <4>3. q \notin Awaiting(t) /\ Awaiting(t)' = Awaiting(t) \cup {q}
        BY <1>0, <3>1 DEF Awaiting, TypeOK
      <4>4. Cardinality(Awaiting(t)') = Cardinality(Awaiting(t)) + 1
        BY <4>3, CountedFinite, FS_AddElement
      <4>5. started[t] \in Nat /\ grants[t] \in Nat
        BY DEF TypeOK
      <4> QED BY <3>2, <4>2, <4>4, <4>5, CountedFinite DEF StartsCovered, Starting
    <3> QED BY <3>5, <3>6 DEF Starting
  <2> QED BY <1>6, <2>1, <2>2, <2>3, <2>4 DEF FetchStep
<1>7. ASSUME NEW n \in Nodes, NodeStep(n) PROVE Starting'
  BY <1>2, <1>3, <1>7, QuietNode DEF NodeStep, NodeCrash
<1>8. ASSUME NEW r \in Runs, RunnerStep(r) PROVE Starting'
  <2>1. CASE StartProcess(r)
    <3>0. PICK t \in Tasks : t = task[r]
      BY <2>1 DEF StartProcess, LiveRuns
    <3>1. pc[r] = "cmd" /\ UNCHANGED <<task, fetch, grants>>
      BY <2>1 DEF StartProcess, Goto
    <3>2. \A u \in Tasks : Owed(u)' = Owed(u)
      BY <3>1 DEF Owed
    <3>3. \A q \in Runs \ {r} : pc'[q] = pc[q]
      BY <2>1 DEF StartProcess, Goto, TypeOK
    <3>4. pc'[r] \notin Waiting
      BY <1>0, <2>1 DEF StartProcess, Goto, TypeOK
    <3>5. started' = started \/ started' = [started EXCEPT ![t] = @ + 1]
      BY <2>1, <3>0 DEF StartProcess
    <3>6. ASSUME NEW u \in Tasks, u # t PROVE StartsCovered(u)'
      <4>1. Awaiting(u)' \subseteq Awaiting(u)
        BY <3>1, <3>3, <3>4 DEF Awaiting
      <4>2. started'[u] = started[u]
        BY <3>5, <3>6 DEF TypeOK
      <4> QED BY <3>1, <3>2, <4>1, <4>2, StartsFrame DEF Starting
    <3>7. StartsCovered(t)'
      <4>1. r \in Awaiting(t) /\ Awaiting(t)' = Awaiting(t) \ {r}
        BY <1>0, <3>0, <3>1, <3>3, <3>4 DEF Awaiting
      <4>2. Cardinality(Awaiting(t)') = Cardinality(Awaiting(t)) - 1
        BY <4>1, CountedFinite, FS_RemoveElement
      <4>3. started[t] \in Nat /\ grants[t] \in Nat /\ started'[t] <= started[t] + 1
            /\ started'[t] \in Nat
        BY <3>5 DEF TypeOK
      <4> QED BY <3>1, <3>2, <4>2, <4>3, CountedFinite DEF StartsCovered, Starting
    <3> QED BY <3>6, <3>7 DEF Starting
  <2>2. CASE ~ StartProcess(r)
    <3>1. UNCHANGED <<fetch, started, grants>>
      BY <1>8, <2>2 DEF RunnerStep, ExecuteTask, NewTaskRunner,
         NewTaskRunnerFails, UpdateTaskRunning, ReloadTask, StartFails,
         ProcessExit, UpdateTaskFinal, EndOfRun
    <3>2. \A q \in Runs : pc'[q] \in Waiting
                          => pc[q] \in Waiting /\ task'[q] = task[q]
      <4>1. CASE ExecuteTask(r) \/ NewTaskRunnerFails(r)
        BY <1>0, <4>1 DEF ExecuteTask, NewTaskRunnerFails, Freed, Forget, Goto,
                          TypeOK
      <4>2. CASE NewTaskRunner(r) \/ UpdateTaskRunning(r) \/ ReloadTask(r)
        BY <1>0, <4>2 DEF NewTaskRunner, UpdateTaskRunning, ReloadTask, Goto,
                          TypeOK
      <4>3. CASE StartFails(r) \/ UpdateTaskFinal(r)
                 \/ \E status \in {"finished", "error", "cancelled"} :
                      ProcessExit(r, status)
        BY <1>0, <4>3 DEF StartFails, UpdateTaskFinal, ProcessExit, Goto, TypeOK
      <4>4. CASE EndOfRun(r)
        BY <1>0, <4>4 DEF EndOfRun, Forget
      <4> QED BY <1>8, <2>2, <4>1, <4>2, <4>3, <4>4 DEF RunnerStep
    <3> QED BY <1>1, <3>1, <3>2
  <2> QED BY <2>1, <2>2
<1>9. CASE SignalStep
  <2>0. \A m \in msgs : m.task \in Tasks /\ m.node \in Nodes
    BY DEF TypeOK, Signal
  <2>1. ASSUME NEW m \in msgs, HandleCancel(m) PROVE Starting'
    <3>1. \A q \in Runs : pc'[q] \in Waiting
                          => pc[q] \in Waiting /\ task'[q] = task[q]
      BY <1>0, <2>1 DEF HandleCancel, Goto, TypeOK
    <3> QED BY <1>1, <2>1, <3>1 DEF HandleCancel
  <2>2. ASSUME NEW m \in msgs, HandleCancelPanics(m) PROVE Starting'
    BY <1>3, <2>0, <2>2 DEF HandleCancelPanics
  <2> QED BY <1>2, <1>9, <2>1, <2>2, QuietSignal DEF SignalStep
<1> QED BY <1>2, <1>4, <1>5, <1>6, <1>7, <1>8, <1>9, QuietReconcile DEF Next

(* The grants and the starts are covered, always. *)
LEMMA CountedAlways == Spec => [](Binding /\ Granting /\ Starting)
<1>1. Init => Granting /\ Starting /\ Binding
  <2> SUFFICES ASSUME Init PROVE Granting /\ Starting /\ Binding
    OBVIOUS
  <2>1. \A t \in Tasks : Reading(t) = {} /\ Owed(t) = {} /\ Awaiting(t) = {}
    BY DEF Init, Reading, Owed, Awaiting, Idle, Waiting
  <2>2. \A t \in Tasks : Cardinality(Reading(t)) = 0 /\ Cardinality(Owed(t)) = 0
                         /\ Cardinality(Awaiting(t)) = 0
    BY <2>1, FS_EmptySet
  <2>3. \A t \in Tasks : grants[t] = 0 /\ requeued[t] = 0 /\ started[t] = 0
    BY DEF Init
  <2>4. Granting
    <3>1. \A t \in Pinned : GrantsCovered(t)
      BY <2>2, <2>3 DEF GrantsCovered, Pinned
    <3> QED BY <3>1 DEF Granting, Init, Idle
  <2>5. Starting
    BY <2>2, <2>3 DEF Starting, StartsCovered
  <2>6. Binding
    BY DispatchAssumption DEF Init, Binding, RunsWhereBound, Allowed, Fresh,
                              Idle, NoDoc, Pinned
  <2> QED BY <2>4, <2>5, <2>6
<1>2. TypeOK /\ LiveRuns /\ Binding /\ Granting /\ Starting /\ [Next]_vars
      => Binding' /\ Granting' /\ Starting'
  <2>1. CASE Next
    BY <2>1, BindingKept, GrantingKept, StartingKept
  <2>2. CASE UNCHANGED vars
    BY <2>2 DEF vars, Binding, RunsWhereBound, BoundCopy, Allowed, Granting,
                GrantsCovered, Reading, Starting, StartsCovered, Owed, Awaiting
  <2> QED BY <2>1, <2>2
<1> QED BY <1>1, <1>2, TypeCorrect, PTL DEF Spec

(* A task bound to a node has at most one process more than the reconciler *)
(* put it back to pending: lost updates between FetchTask, Cancel, the     *)
(* runners and the reconciler do not multiply runs by themselves.          *)
THEOREM ExtraRunsTheorem == Spec => []ExtraRunsNeedRequeue
<1>1. TypeOK /\ Granting /\ Starting => ExtraRunsNeedRequeue
  <2> SUFFICES ASSUME TypeOK, Granting, Starting, NEW t \in Pinned
               PROVE  started[t] <= grants[t] /\ grants[t] <= 1 + requeued[t]
    BY DEF ExtraRunsNeedRequeue
  <2>1. t \in Tasks /\ started[t] \in Nat /\ grants[t] \in Nat
        /\ requeued[t] \in Nat
    BY DEF TypeOK, Pinned
  <2> QED BY <2>1, CountedFinite DEF Granting, GrantsCovered, Starting,
                                     StartsCovered
<1> QED BY <1>1, CountedAlways, TypeCorrect, PTL

-----------------------------------------------------------------------------
(* The task path implements TaskLifecycle *)

Simulates == [Lifecycle!Next]_(Lifecycle!vars)

(* What nodes hold stays when no run is taken up or ends. *)
LEMMA HeldKept ==
  ASSUME UNCHANGED <<task, host>>,
         \A q \in Runs : pc'[q] = "free" <=> pc[q] = "free"
  PROVE  Held' = Held
BY DEF Held

(* Runs that end leave the others as they are. *)
LEMMA HeldShrinks ==
  ASSUME \A q \in Runs : pc'[q] # "free" =>
           pc[q] # "free" /\ task'[q] = task[q] /\ host'[q] = host[q]
  PROVE  Held' \subseteq Held
BY DEF Held

(* Replacing a document. *)
LEMMA FinishedWritten ==
  ASSUME TypeOK, NEW t \in Tasks, NEW d, db' = [db EXCEPT ![t] = d]
  PROVE  Finished' = IF d.status = "finished" THEN Finished \cup {t}
                     ELSE Finished \ {t}
<1>1. \A u \in Tasks : db'[u] = IF u = t THEN d ELSE db[u]
  BY DEF TypeOK
<1> QED BY <1>1 DEF Finished

(* The steps the abstract specification does not see. *)
LEMMA Unseen ==
  ASSUME UNCHANGED <<db, requeued, targets, grants, started>>, Held' = Held
  PROVE  Simulates
<1>1. Finished' = Finished
  BY DEF Finished
<1> QED BY <1>1 DEF Simulates, Lifecycle!vars

(* Runs that end. *)
LEMMA Left ==
  ASSUME UNCHANGED <<db, requeued, targets, grants, started>>,
         \A q \in Runs : pc'[q] # "free" =>
           pc[q] # "free" /\ task'[q] = task[q] /\ host'[q] = host[q]
  PROVE  Simulates
<1>1. Finished' = Finished
  BY DEF Finished
<1>2. Held' \subseteq Held
  BY HeldShrinks
<1> QED BY <1>1, <1>2 DEF Simulates, Lifecycle!Next, Lifecycle!Leave

(* A write of a status, finished only of a task that was started. *)
LEMMA Written ==
  ASSUME TypeOK, NEW t \in Tasks, NEW d, db' = [db EXCEPT ![t] = d],
         d.status = "finished" => started[t] > 0,
         UNCHANGED <<requeued, targets, grants, started>>, Held' = Held
  PROVE  Simulates
<1>1. CASE d.status = "finished"
  BY <1>1, FinishedWritten DEF Simulates, Lifecycle!Next, Lifecycle!Report
<1>2. CASE d.status # "finished"
  BY <1>2, FinishedWritten DEF Simulates, Lifecycle!Next, Lifecycle!Overwrite
<1> QED BY <1>1, <1>2

(* A quiet step is not seen. *)
LEMMA QuietUnseen ==
  ASSUME QuietStep
  PROVE  Simulates
<1>1. Held' = Held
  BY DEF QuietStep, run, Held
<1> QED BY <1>1, Unseen DEF QuietStep

(* The scheduler's steps are not seen but for what it enqueues. *)
LEMMA SchedulerSimulates ==
  ASSUME TypeOK, SchedulerStep
  PROVE  Simulates
<1> USE DEF master, run, history
<1>1. ASSUME NEW t \in Tasks, Enqueue(t) PROVE Simulates
  <2>1. db[t] \in Doc
    BY DEF TypeOK
  <2>2. PICK d : d = [db[t] EXCEPT !.status = "pending"]
    OBVIOUS
  <2>3. d.status = "pending"
    BY <2>1, <2>2, DocFields
  <2>4. db' = [db EXCEPT ![t] = d] /\ UNCHANGED <<requeued, targets, grants, started>>
    BY <1>1, <2>2 DEF Enqueue
  <2>5. Held' = Held
    BY <1>1 DEF Enqueue, Held
  <2> QED BY <2>3, <2>4, <2>5, Written
<1>2. CASE MasterRestart
  <2>1. Held' = Held
    BY <1>2 DEF MasterRestart, Held
  <2> QED BY <1>2, <2>1, Unseen DEF MasterRestart
<1> QED BY <1>1, <1>2, QuietScheduler, QuietBoot, QuietUnseen DEF SchedulerStep

(* A copy that is written is a re-queueing, a report or another status. *)
LEMMA SaveSimulates ==
  ASSUME TypeOK, Evidence, Granting, NEW s \in saves, Save(s)
  PROVE  Simulates
<1>1. s.task \in Tasks
  BY DEF TypeOK, SaveSet
<1>2. Held' = Held
  BY DEF Save, run, Held
<1>3. db' = [db EXCEPT ![s.task] = s.doc]
  BY DEF Save
<1>4. CASE s.kind = "requeue"
  <2>1. s.doc.status = "pending" /\ s.doc.node \in Nodes
    BY <1>4 DEF Granting, Labelled
  <2>2. Finished' = Finished \ {s.task}
    BY <1>1, <1>3, <2>1, FinishedWritten
  <2>3. Lifecycle!Requeue(s.task, s.doc.node)
    BY <1>2, <1>4, <2>2 DEF Save, Lifecycle!Requeue
  <2> QED BY <1>1, <2>1, <2>3 DEF Simulates, Lifecycle!Next
<1>5. CASE s.kind # "requeue"
  <2>1. s.doc.status = "finished" => started[s.task] > 0
    BY DEF Evidence, Ran
  <2>2. UNCHANGED <<requeued, targets, grants, started>>
    BY <1>5 DEF Save
  <2> QED BY <1>1, <1>2, <1>3, <2>1, <2>2, Written
<1> QED BY <1>4, <1>5

(* FetchTask's write is a grant, and runTask takes it up. *)
LEMMA FetchSimulates ==
  ASSUME TypeOK, Binding, Granting, Starting, NEW n \in Nodes, FetchStep(n)
  PROVE  Simulates
<1> USE DEF master, run, history
<1>1. ASSUME NEW t \in Tasks, FetchTaskRead(n, t) PROVE Simulates
  <2>1. Held' = Held
    BY <1>1 DEF FetchTaskRead, Held
  <2> QED BY <1>1, <2>1, Unseen DEF FetchTaskRead
<1>2. CASE FetchTaskSave(n)
  <2>0. PICK t \in Tasks : t = fetch[n].task
    BY <1>2, FetchBusy DEF FetchTaskSave
  <2>1. fetch[n].pc = "read" /\ fetchDoc[n].status = "assigned"
    BY <1>2 DEF FetchTaskSave, Granting
  <2>2. db' = [db EXCEPT ![t] = fetchDoc[n]]
        /\ grants' = [grants EXCEPT ![t] = @ + 1]
        /\ UNCHANGED <<requeued, targets, started>>
    BY <1>2, <2>0 DEF FetchTaskSave
  <2>3. Held' = Held
    BY <1>2 DEF FetchTaskSave, Held
  <2>4. Finished' = Finished \ {t}
    BY <2>1, <2>2, FinishedWritten
  <2>5. ASSUME Home[t] # NoNode PROVE grants[t] < 1 + requeued[t]
    <3>1. t \in Pinned
      BY <2>5 DEF Pinned
    <3>2. n \in Reading(t)
      BY <2>0, <2>1 DEF Reading
    <3>3. Cardinality(Reading(t)) \in Nat /\ Cardinality(Reading(t)) # 0
      BY <3>2, CountedFinite, FS_EmptySet
    <3>4. grants[t] + Cardinality(Reading(t)) <= 1 + requeued[t]
      BY <3>1 DEF Granting, GrantsCovered
    <3>5. grants[t] \in Nat /\ requeued[t] \in Nat
      BY DEF TypeOK
    <3> QED BY <3>3, <3>4, <3>5
  <2>6. Lifecycle!Grant(t)
    BY <2>2, <2>3, <2>4, <2>5 DEF Lifecycle!Grant, Lifecycle!Bound
  <2> QED BY <2>6 DEF Simulates, Lifecycle!Next
<1>3. CASE FetchReplyLost(n) \/ RunTaskRefused(n) \/ FetchTaskAbandoned(n)
  <2>1. UNCHANGED <<db, requeued, targets, grants, started, pc, task, host>>
    BY <1>3 DEF FetchReplyLost, RunTaskRefused, FetchTaskAbandoned
  <2>2. Held' = Held
    BY <2>1 DEF Held
  <2> QED BY <2>1, <2>2, Unseen
<1>4. CASE RunTask(n)
  <2>0. PICK t \in Tasks : t = fetch[n].task
    BY <1>4, FetchBusy DEF RunTask
  <2>1. PICK q \in Runs : /\ pc[q] = "free"
                          /\ pc' = [pc EXCEPT ![q] = "queued"]
                          /\ task' = [task EXCEPT ![q] = t]
                          /\ host' = [host EXCEPT ![q] = n]
    BY <1>4, <2>0 DEF RunTask
  <2>2. fetch[n].pc = "replied" /\ UNCHANGED <<db, requeued, targets, grants, started>>
    BY <1>4 DEF RunTask
  <2>3. Held' = Held \cup {<<t, n>>}
    <3>1. /\ pc'[q] = "queued" /\ task'[q] = t /\ host'[q] = n
          /\ \A r \in Runs \ {q} : pc'[r] = pc[r] /\ task'[r] = task[r]
                                    /\ host'[r] = host[r]
      BY <2>1 DEF TypeOK
    <3> QED BY <2>1, <3>1 DEF Held
  <2>4. Finished' = Finished
    BY <2>2 DEF Finished
  <2>5. started[t] < grants[t]
    <3>1. n \in Owed(t)
      BY <2>0, <2>2 DEF Owed
    <3>2. /\ Cardinality(Owed(t)) \in Nat /\ Cardinality(Owed(t)) # 0
          /\ Cardinality(Awaiting(t)) \in Nat
      BY <3>1, CountedFinite, FS_EmptySet
    <3>3. started[t] \in Nat /\ grants[t] \in Nat
      BY DEF TypeOK
    <3> QED BY <3>2, <3>3 DEF Starting, StartsCovered
  <2>6. Home[t] # NoNode => n \in {Home[t]} \cup targets[t]
    BY <2>0 DEF Binding, Pinned, Allowed
  <2>7. Lifecycle!Take(t, n)
    BY <2>2, <2>3, <2>4, <2>5, <2>6 DEF Lifecycle!Take, Lifecycle!Bound
  <2> QED BY <2>7 DEF Simulates, Lifecycle!Next
<1> QED BY <1>1, <1>2, <1>3, <1>4 DEF FetchStep

(* The runner starts what its node holds, reports what ran, and leaves. *)
LEMMA RunnerSimulates ==
  ASSUME TypeOK, LiveRuns, Evidence, Starting, NEW r \in Runs, RunnerStep(r)
  PROVE  Simulates
<1> USE DEF master, history
<1>1. CASE ExecuteTask(r) \/ NewTaskRunnerFails(r)
  <2>1. \A q \in Runs : pc'[q] # "free" =>
          pc[q] # "free" /\ task'[q] = task[q] /\ host'[q] = host[q]
    BY <1>1 DEF ExecuteTask, NewTaskRunnerFails, Freed, Forget, Goto, TypeOK
  <2>2. UNCHANGED <<db, requeued, targets, grants, started>>
    BY <1>1 DEF ExecuteTask, NewTaskRunnerFails
  <2> QED BY <2>1, <2>2, Left
<1>2. CASE NewTaskRunner(r) \/ ReloadTask(r) \/ StartFails(r)
           \/ \E status \in {"finished", "error", "cancelled"} :
                ProcessExit(r, status)
  <2>1. UNCHANGED <<task, host>> /\ \A q \in Runs : pc'[q] = "free" <=> pc[q] = "free"
    BY <1>2 DEF NewTaskRunner, ReloadTask, StartFails, ProcessExit, Goto, TypeOK
  <2>2. UNCHANGED <<db, requeued, targets, grants, started>>
    BY <1>2 DEF NewTaskRunner, ReloadTask, StartFails, ProcessExit
  <2> QED BY <2>1, <2>2, HeldKept, Unseen
<1>3. CASE UpdateTaskRunning(r) \/ UpdateTaskFinal(r)
  <2>0. PICK st : st = IF pc[r] = "start" THEN "running" ELSE out[r]
    OBVIOUS
  <2>1. PICK d : d = [doc[r] EXCEPT !.status = st,
                                    !.pid = IF pc[r] = "exited" THEN 1 ELSE doc[r].pid]
    OBVIOUS
  <2>2. task[r] \in Tasks /\ doc[r] \in Doc
    BY <1>3 DEF UpdateTaskRunning, UpdateTaskFinal, LiveRuns, TypeOK
  <2>3. d.status = st
    BY <2>1, <2>2, DocFields
  <2>4. st = "finished" => started[task[r]] > 0
    BY <1>3, <2>0 DEF UpdateTaskRunning, UpdateTaskFinal, Evidence
  <2>5. UNCHANGED db \/ db' = [db EXCEPT ![task[r]] = d]
    BY <1>3, <2>0, <2>1 DEF UpdateTaskRunning, UpdateTaskFinal, Replace
  <2>6. UNCHANGED <<requeued, targets, grants, started>>
    BY <1>3 DEF UpdateTaskRunning, UpdateTaskFinal
  <2>7. UNCHANGED <<task, host>> /\ \A q \in Runs : pc'[q] = "free" <=> pc[q] = "free"
    BY <1>3 DEF UpdateTaskRunning, UpdateTaskFinal, Goto, TypeOK
  <2>8. Held' = Held
    BY <2>7, HeldKept
  <2> QED BY <2>2, <2>3, <2>4, <2>5, <2>6, <2>8, Written, Unseen
<1>4. CASE StartProcess(r)
  <2>1. task[r] \in Tasks /\ host[r] \in Nodes /\ pc[r] = "cmd"
    BY <1>4 DEF StartProcess, LiveRuns
  <2>2. UNCHANGED <<task, host>> /\ \A q \in Runs : pc'[q] = "free" <=> pc[q] = "free"
    BY <1>4 DEF StartProcess, Goto, TypeOK
  <2>3. Held' = Held
    BY <2>2, HeldKept
  <2>4. UNCHANGED <<db, requeued, targets, grants>>
    BY <1>4 DEF StartProcess
  <2>5. Finished' = Finished
    BY <2>4 DEF Finished
  <2>6. <<task[r], host[r]>> \in Held
    BY <2>1 DEF Held
  <2>7. started[task[r]] < grants[task[r]]
    <3>0. PICK t \in Tasks : t = task[r]
      BY <2>1
    <3>1. r \in Awaiting(t)
      BY <2>1, <3>0 DEF Awaiting, Waiting
    <3>2. /\ Cardinality(Awaiting(t)) \in Nat /\ Cardinality(Awaiting(t)) # 0
          /\ Cardinality(Owed(t)) \in Nat
      BY <3>1, CountedFinite, FS_EmptySet
    <3>3. started[t] \in Nat /\ grants[t] \in Nat
      BY DEF TypeOK
    <3>4. started[t] < grants[t]
      BY <3>2, <3>3 DEF Starting, StartsCovered
    <3> QED BY <3>0, <3>4
  <2>8. CASE UNCHANGED started
    BY <2>3, <2>4, <2>8, Unseen
  <2>9. CASE started' = [started EXCEPT ![task[r]] = @ + 1]
    <3>1. Lifecycle!Start(task[r], host[r])
      BY <2>3, <2>4, <2>5, <2>6, <2>7, <2>9 DEF Lifecycle!Start
    <3> QED BY <2>1, <3>1 DEF Simulates, Lifecycle!Next
  <2> QED BY <1>4, <2>8, <2>9 DEF StartProcess
<1>5. CASE EndOfRun(r)
  <2>1. \A q \in Runs : pc'[q] # "free" =>
          pc[q] # "free" /\ task'[q] = task[q] /\ host'[q] = host[q]
    BY <1>5 DEF EndOfRun, Forget, Twin
  <2>2. UNCHANGED <<db, requeued, targets, grants, started>>
    BY <1>5 DEF EndOfRun
  <2> QED BY <2>1, <2>2, Left
<1> QED BY <1>1, <1>2, <1>3, <1>4, <1>5 DEF RunnerStep

(* Nodes that go take what they hold with them; signals end processes, not *)
(* runs.                                                                   *)
LEMMA NodeSimulates ==
  ASSUME TypeOK, (\E n \in Nodes : NodeStep(n)) \/ SignalStep
  PROVE  Simulates
<1>1. ASSUME NEW n, Die(n), UNCHANGED <<db, requeued, targets, grants, started>>
      PROVE  Simulates
  <2>1. \A q \in Runs : pc'[q] # "free" =>
          pc[q] # "free" /\ task'[q] = task[q] /\ host'[q] = host[q]
    BY <1>1 DEF Die, Forget
  <2> QED BY <1>1, <2>1, Left
<1>2. ASSUME NEW n \in Nodes, NodeStep(n) PROVE Simulates
  BY <1>1, <1>2, QuietNode, QuietUnseen DEF NodeStep, NodeCrash
<1>3. ASSUME NEW m \in msgs, HandleCancel(m) PROVE Simulates
  <2>1. UNCHANGED <<task, host>> /\ \A q \in Runs : pc'[q] = "free" <=> pc[q] = "free"
    BY <1>3 DEF HandleCancel, Goto, TypeOK
  <2>2. UNCHANGED <<db, requeued, targets, grants, started>>
    BY <1>3 DEF HandleCancel, history
  <2> QED BY <2>1, <2>2, HeldKept, Unseen
<1>4. ASSUME NEW m \in msgs, HandleCancelPanics(m) PROVE Simulates
  BY <1>1, <1>4 DEF HandleCancelPanics
<1>5. CASE SignalStep
  BY <1>3, <1>4, <1>5, QuietSignal, QuietUnseen DEF SignalStep
<1> QED BY <1>2, <1>5

(* Scheduler, FetchTask, runners, cancel path and reconciler implement the *)
(* life of a task: every grant was asked for, every run goes back to a     *)
(* grant, on a node the task may be on, and success is said of what ran.   *)
THEOREM Refinement == Spec => LifecycleSpec
<1>1. Init => Lifecycle!Init
  <2> SUFFICES ASSUME Init PROVE Lifecycle!Init
    OBVIOUS
  <2>1. Held = {}
    BY DEF Init, Held
  <2>2. Finished = {}
    BY DEF Init, Finished, Fresh
  <2> QED BY <2>1, <2>2 DEF Init, Lifecycle!Init
<1>2. TypeOK /\ LiveRuns /\ Evidence /\ Binding /\ Granting /\ Starting /\ [Next]_vars
      => [Lifecycle!Next]_(Lifecycle!vars)
  <2> SUFFICES ASSUME TypeOK, LiveRuns, Evidence, Binding, Granting, Starting, [Next]_vars
               PROVE  Simulates
    BY DEF Simulates
  <2>1. CASE Next
    BY <2>1, SchedulerSimulates, SaveSimulates, FetchSimulates, RunnerSimulates,
       NodeSimulates, QuietReconcile, QuietUnseen DEF Next
  <2>2. CASE UNCHANGED vars
    <3>1. Held' = Held
      BY <2>2 DEF vars, Held
    <3> QED BY <2>2, <3>1, Unseen DEF vars
  <2> QED BY <2>1, <2>2
<1> QED BY <1>1, <1>2, TypeCorrect, EvidenceAlways, CountedAlways, PTL
        DEF Spec, LifecycleSpec, Lifecycle!Spec

=============================================================================
