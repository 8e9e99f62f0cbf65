--------------------------- MODULE TaskLifecycle ---------------------------
(***************************************************************************)
(* What the task path promises to whoever enqueues a task, without copies  *)
(* of documents, streams, calls or failures: every run goes back to a      *)
(* grant, every grant of a task bound to a node to the enqueueing or to a  *)
(* decision of the reconciler, only nodes it was given to have it in their *)
(* hands, and success is only said of a task that ran.                     *)
(*                                                                         *)
(* What it does not promise shows as well: a task may be dropped by its    *)
(* node at any moment, and a success may be overwritten.                   *)
(***************************************************************************)
EXTENDS Naturals

CONSTANTS
  Tasks, Nodes,
  Home,    \* the node a task is bound to, or NoNode
  NoNode

VARIABLES
  requeued,  \* per task: times it was put back to pending
  targets,   \* per task: the nodes it was then bound to
  grants,    \* per task: times it was given to a node
  started,   \* per task: processes started
  held,      \* <<task, node>>: the node has the task in its hands
  finished   \* tasks that are reported finished

vars == <<requeued, targets, grants, started, held, finished>>

Init ==
  /\ requeued = [t \in Tasks |-> 0]
  /\ targets = [t \in Tasks |-> {}]
  /\ grants = [t \in Tasks |-> 0]
  /\ started = [t \in Tasks |-> 0]
  /\ held = {} /\ finished = {}

Bound(t) == Home[t] # NoNode

\* The reconciler binds the task to n and puts it back to pending.
Requeue(t, n) ==
  /\ requeued' = [requeued EXCEPT ![t] = @ + 1]
  /\ targets' = [targets EXCEPT ![t] = @ \cup {n}]
  /\ finished' = finished \ {t}
  /\ UNCHANGED <<grants, started, held>>

\* The master gives the task away.
Grant(t) ==
  /\ Bound(t) => grants[t] < 1 + requeued[t]
  /\ grants' = [grants EXCEPT ![t] = @ + 1]
  /\ finished' = finished \ {t}
  /\ UNCHANGED <<requeued, targets, started, held>>

\* A node takes up a grant.
Take(t, n) ==
  /\ started[t] < grants[t]
  /\ Bound(t) => n \in {Home[t]} \cup targets[t]
  /\ held' = held \cup {<<t, n>>}
  /\ UNCHANGED <<requeued, targets, grants, started, finished>>

Start(t, n) ==
  /\ <<t, n>> \in held
  /\ started[t] < grants[t]
  /\ started' = [started EXCEPT ![t] = @ + 1]
  /\ UNCHANGED <<requeued, targets, grants, held, finished>>

\* Runs end, and so do nodes.
Leave ==
  /\ held' \in SUBSET held
  /\ UNCHANGED <<requeued, targets, grants, started, finished>>

Report(t) ==
  /\ started[t] > 0
  /\ finished' = finished \cup {t}
  /\ UNCHANGED <<requeued, targets, grants, started, held>>

\* Another status is written.
Overwrite(t) ==
  /\ finished' = finished \ {t}
  /\ UNCHANGED <<requeued, targets, grants, started, held>>

Next ==
  \/ \E t \in Tasks : Grant(t) \/ Report(t) \/ Overwrite(t)
  \/ \E t \in Tasks, n \in Nodes : Requeue(t, n) \/ Take(t, n) \/ Start(t, n)
  \/ Leave

Spec == Init /\ [][Next]_vars
=============================================================================
