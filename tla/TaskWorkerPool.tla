--------------------------- MODULE TaskWorkerPool ---------------------------
(***************************************************************************)
(* The on-demand pool that executes fetched tasks on a node               *)
(* (core/task/handler/worker_pool.go).                                     *)
(*                                                                         *)
(* Four kinds of goroutine share it: the fetch loop, which submits; the    *)
(* status reporter, which changes the limit when the node document says    *)
(* so; the workers; and Service.Stop.  pool.taskQueue is read without the  *)
(* mutex, so each of them first loads the channel and then uses it: the    *)
(* two are separate steps here.  workerMutex is held from the first to     *)
(* the last step of UpdateMaxWorkers, and otherwise only for one step.     *)
(*                                                                         *)
(* A request stands for one call of SubmitTask, so requests are distinct   *)
(* and a channel's buffer is a set of them: nothing depends on its order.  *)
(***************************************************************************)
EXTENDS Integers, FiniteSets

CONSTANTS
  Requests,        \* calls of SubmitTask
  Workers,         \* goroutine identities for pool.worker
  Limits,          \* values of maxWorkers the node document takes
  ConfiguredSize,  \* utils.GetTaskQueueSize(); not positive = not configured
  UnlimitedSize,   \* queue size without a limit (1000 in the code)
  PerWorker,       \* queue slots per worker (5 in the code)
  MinSize,         \* smallest computed queue size (50 in the code)
  MaxUpdates,      \* bound: changes of the limit in a behaviour
  MaxIdle,         \* bound: idle-timeout exits in a behaviour
  NoReq

Unlimited == -1

ASSUME PoolAssumption ==
  /\ NoReq \notin Requests
  /\ IsFiniteSet(Workers) /\ IsFiniteSet(Requests)
  /\ Limits \subseteq {Unlimited} \cup (Nat \ {0})
  /\ ConfiguredSize \in Int
  /\ {UnlimitedSize, PerWorker, MinSize} \subseteq Nat \ {0}
  /\ MaxUpdates \in Nat /\ MaxIdle \in Nat

VARIABLES
  maxWorkers,     \* pool.maxWorkers
  activeWorkers,  \* pool.activeWorkers
  cur,            \* the channel pool.taskQueue points to
  buf,            \* per channel: the requests in its buffer
  cap,            \* per channel: its capacity
  closed,         \* the channels that have been closed
  worker,         \* per goroutine: pc, the channel it selects on, its request
  sub,            \* the fetch loop inside SubmitTask
  upd,            \* the reporter inside UpdateMaxWorkers
  stop,           \* Service.Stop inside pool.Stop
  fresh,          \* history: requests not submitted yet
  refused,        \* history: requests SubmitTask answered with an error
  executed,       \* history: requests a worker has finished
  lost,           \* history: requests dropped while copying to a new queue
  updates,        \* number of limit changes so far
  idles,          \* number of idle exits so far
  peak            \* history: the largest limit so far, Unlimited if ever none

chan == <<buf, cap, closed>>

vars == <<maxWorkers, activeWorkers, cur, buf, cap, closed, worker, sub, upd,
          stop, fresh, refused, executed, lost, updates, idles, peak>>

history == <<fresh, refused, executed, lost, updates, idles, peak>>

Channels == 0 .. MaxUpdates

WorkerPc == {"off", "loop", "select", "exec", "exiting"}

LargerLimit(a, b) ==
  IF a = Unlimited \/ b = Unlimited THEN Unlimited
  ELSE IF a < b THEN b ELSE a

-----------------------------------------------------------------------------
(* NewTaskWorkerPool and the sizing rules of UpdateMaxWorkers *)

(* variant: no special case for an unlimited pool *)
QueueSizeUnguarded(limit) ==
  IF ConfiguredSize > 0 THEN ConfiguredSize ELSE limit * PerWorker

QueueSize(limit) ==
  IF ConfiguredSize > 0 THEN ConfiguredSize
  ELSE IF limit = Unlimited THEN UnlimitedSize
  ELSE IF limit * PerWorker < MinSize THEN MinSize ELSE limit * PerWorker

NeedQueueResize(old, new, capacity) ==
  \/ new = Unlimited /\ QueueSize(new) > capacity
  \/ new # Unlimited /\ old = Unlimited
  \/ /\ new # Unlimited /\ old # Unlimited
     /\ new > old
     /\ QueueSize(new) > capacity

Init ==
  /\ maxWorkers \in Limits
  /\ activeWorkers = 0
  /\ cur = 0
  /\ buf = [c \in Channels |-> {}]
  /\ cap = [c \in Channels |-> QueueSize(maxWorkers)]
  /\ closed = {}
  /\ worker = [w \in Workers |-> [pc |-> "off", ch |-> 0, req |-> NoReq]]
  /\ sub = [pc |-> "idle", ch |-> 0, req |-> NoReq]
  /\ upd = [pc |-> "idle", old |-> 0]
  /\ stop = [pc |-> "idle", ch |-> 0]
  /\ fresh = Requests
  /\ refused = {} /\ executed = {} /\ lost = {}
  /\ updates = 0 /\ idles = 0
  /\ peak = maxWorkers

(* variant: Stop waits for the workers with the mutex held *)
MutexFreeUnlessWaiting ==
  upd.pc \in {"idle", "panicked"} /\ stop.pc # "wait"

(* workerMutex is free unless UpdateMaxWorkers is between its two ends. *)
MutexFree == upd.pc \in {"idle", "panicked"}

(* pool.ctx is cancelled by the first step of Stop *)
CtxDone == stop.pc # "idle"

HasRoom(c) == Cardinality(buf[c]) < cap[c]

-----------------------------------------------------------------------------
(* SubmitTask: the select's channel operand is evaluated, then one ready   *)
(* case is taken.  A send on a closed channel panics; fetchAndRunTasks     *)
(* recovers and returns, so the loop never submits again.                  *)

SubmitLoad(r) ==
  /\ sub.pc = "idle"
  /\ r \in fresh
  /\ sub' = [pc |-> "send", ch |-> cur, req |-> r]
  /\ fresh' = fresh \ {r}
  /\ UNCHANGED <<maxWorkers, activeWorkers, cur, chan, worker, upd, stop,
                 refused, executed, lost, updates, idles, peak>>

SubmitSend ==
  /\ sub.pc = "send"
  /\ sub.ch \notin closed /\ HasRoom(sub.ch)
  /\ buf' = [buf EXCEPT ![sub.ch] = @ \cup {sub.req}]
  /\ sub' = [sub EXCEPT !.pc = "create", !.req = NoReq]
  /\ UNCHANGED <<maxWorkers, activeWorkers, cur, cap, closed, worker, upd,
                 stop, history>>

(* variant: a full queue is not reported *)
SubmitRefuseSilently ==
  /\ sub.pc = "send"
  /\ sub.ch \notin closed /\ ~HasRoom(sub.ch)
  /\ sub' = [sub EXCEPT !.pc = "idle", !.req = NoReq]
  /\ UNCHANGED <<maxWorkers, activeWorkers, cur, chan, worker, upd, stop,
                 history>>

SubmitRefuse ==
  /\ sub.pc = "send"
  /\ \/ CtxDone
     \/ sub.ch \notin closed /\ ~HasRoom(sub.ch)
  /\ sub' = [sub EXCEPT !.pc = "idle", !.req = NoReq]
  /\ refused' = refused \cup {sub.req}
  /\ UNCHANGED <<maxWorkers, activeWorkers, cur, chan, worker, upd, stop,
                 fresh, executed, lost, updates, idles, peak>>

SubmitPanic ==
  /\ sub.pc = "send"
  /\ sub.ch \in closed
  /\ sub' = [sub EXCEPT !.pc = "panicked", !.req = NoReq]
  /\ refused' = refused \cup {sub.req}
  /\ UNCHANGED <<maxWorkers, activeWorkers, cur, chan, worker, upd, stop,
                 fresh, executed, lost, updates, idles, peak>>

(* variant: one too many *)
UnderLimitOrAt == maxWorkers = Unlimited \/ activeWorkers <= maxWorkers

UnderLimit == maxWorkers = Unlimited \/ activeWorkers < maxWorkers

(* maybeCreateWorker, called by SubmitTask after a successful send *)
MaybeCreateWorker ==
  /\ sub.pc = "create"
  /\ MutexFree
  /\ sub' = [sub EXCEPT !.pc = "idle"]
  /\ IF buf[cur] # {} /\ UnderLimit
     THEN /\ \E w \in Workers :
               /\ worker[w].pc = "off"
               /\ worker' = [worker EXCEPT ![w].pc = "loop"]
          /\ activeWorkers' = activeWorkers + 1
     ELSE UNCHANGED <<worker, activeWorkers>>
  /\ UNCHANGED <<maxWorkers, cur, chan, upd, stop, history>>

-----------------------------------------------------------------------------
(* worker: load the channel, wait for one case of the select *)

WorkerLoad(w) ==
  /\ worker[w].pc = "loop"
  /\ worker' = [worker EXCEPT ![w].pc = "select", ![w].ch = cur]
  /\ UNCHANGED <<maxWorkers, activeWorkers, cur, chan, sub, upd, stop,
                 history>>

WorkerReceive(w) ==
  /\ worker[w].pc = "select"
  /\ \E r \in buf[worker[w].ch] :
       /\ buf' = [buf EXCEPT ![worker[w].ch] = @ \ {r}]
       /\ worker' = [worker EXCEPT ![w].pc = "exec", ![w].req = r]
  /\ UNCHANGED <<maxWorkers, activeWorkers, cur, cap, closed, sub, upd, stop,
                 history>>

(* variant: a worker per task, leaving when it is done *)
WorkerDoneLeaves(w) ==
  /\ worker[w].pc = "exec"
  /\ executed' = executed \cup {worker[w].req}
  /\ worker' = [worker EXCEPT ![w].pc = "exiting", ![w].req = NoReq]
  /\ UNCHANGED <<maxWorkers, activeWorkers, cur, chan, sub, upd, stop, fresh,
                 refused, lost, updates, idles, peak>>

(* executeTask returned; its outcome only concerns the task document *)
WorkerDone(w) ==
  /\ worker[w].pc = "exec"
  /\ executed' = executed \cup {worker[w].req}
  /\ worker' = [worker EXCEPT ![w].pc = "loop", ![w].req = NoReq]
  /\ UNCHANGED <<maxWorkers, activeWorkers, cur, chan, sub, upd, stop, fresh,
                 refused, lost, updates, idles, peak>>

(* the two cases that end the loop at once: queue closed, pool cancelled *)
WorkerLeave(w) ==
  /\ worker[w].pc = "select"
  /\ \/ CtxDone
     \/ worker[w].ch \in closed /\ buf[worker[w].ch] = {}
  /\ worker' = [worker EXCEPT ![w].pc = "exiting"]
  /\ UNCHANGED <<maxWorkers, activeWorkers, cur, chan, sub, upd, stop,
                 history>>

(* The timer is reset before each select, so it can only win while the     *)
(* worker is blocked on an empty queue.                                    *)
WorkerIdle(w) ==
  /\ worker[w].pc = "select"
  /\ idles < MaxIdle
  /\ buf[worker[w].ch] = {}
  /\ worker' = [worker EXCEPT ![w].pc = "exiting"]
  /\ idles' = idles + 1
  /\ UNCHANGED <<maxWorkers, activeWorkers, cur, chan, sub, upd, stop, fresh,
                 refused, executed, lost, updates, peak>>

(* deferred: decrement under the mutex, then wg.Done *)
WorkerExit(w) ==
  /\ worker[w].pc = "exiting"
  /\ MutexFree
  /\ activeWorkers' = activeWorkers - 1
  /\ worker' = [worker EXCEPT ![w].pc = "off"]
  /\ UNCHANGED <<maxWorkers, cur, chan, sub, upd, stop, history>>

-----------------------------------------------------------------------------
(* UpdateMaxWorkers, called by updateNodeStatus when the limit changed.    *)
(* Its panics are recovered by reportStatus, which returns; the deferred   *)
(* Unlock still runs.                                                      *)

UpdateMaxWorkers(new) ==
  /\ upd.pc = "idle"
  /\ new # maxWorkers
  /\ updates < MaxUpdates
  /\ updates' = updates + 1
  /\ maxWorkers' = new
  /\ peak' = LargerLimit(peak, new)
  /\ IF NeedQueueResize(maxWorkers, new, cap[cur])
     THEN /\ cur' = cur + 1
          /\ cap' = [cap EXCEPT ![cur + 1] = QueueSize(new)]
          /\ upd' = [pc |-> "close", old |-> cur]
     ELSE UNCHANGED <<cur, cap, upd>>
  /\ UNCHANGED <<activeWorkers, buf, closed, worker, sub, stop, fresh,
                 refused, executed, lost, idles>>

UpdateClose ==
  /\ upd.pc = "close"
  /\ IF upd.old \in closed
     THEN /\ upd' = [upd EXCEPT !.pc = "panicked"]
          /\ UNCHANGED closed
     ELSE /\ upd' = [upd EXCEPT !.pc = "copy"]
          /\ closed' = closed \cup {upd.old}
  /\ UNCHANGED <<maxWorkers, activeWorkers, cur, buf, cap, worker, sub, stop,
                 history>>

(* variant: the requests are copied and stay in the old queue *)
UpdateCopyKeeps ==
  /\ upd.pc = "copy"
  /\ cur \notin closed
  /\ \E r \in buf[upd.old] :
       /\ HasRoom(cur)
       /\ buf' = [buf EXCEPT ![cur] = @ \cup {r}]
  /\ UNCHANGED <<maxWorkers, activeWorkers, cur, cap, closed, worker, sub,
                 upd, stop, history>>

UpdateCopy ==
  /\ upd.pc = "copy"
  /\ cur \notin closed
  /\ \E r \in buf[upd.old] :
       IF HasRoom(cur)
       THEN /\ buf' = [buf EXCEPT ![upd.old] = @ \ {r},
                                  ![cur] = @ \cup {r}]
            /\ UNCHANGED lost
       ELSE /\ buf' = [buf EXCEPT ![upd.old] = @ \ {r}]
            /\ lost' = lost \cup {r}
  /\ UNCHANGED <<maxWorkers, activeWorkers, cur, cap, closed, worker, sub,
                 upd, stop, fresh, refused, executed, updates, idles, peak>>

(* Stop closed the new queue meanwhile: the send panics with r in hand *)
UpdateCopyPanic ==
  /\ upd.pc = "copy"
  /\ cur \in closed
  /\ \E r \in buf[upd.old] :
       /\ buf' = [buf EXCEPT ![upd.old] = @ \ {r}]
       /\ lost' = lost \cup {r}
  /\ upd' = [upd EXCEPT !.pc = "panicked"]
  /\ UNCHANGED <<maxWorkers, activeWorkers, cur, cap, closed, worker, sub,
                 stop, fresh, refused, executed, updates, idles, peak>>

(* variant: the rest of the old queue is not waited for *)
UpdateEndEarly ==
  /\ upd.pc = "copy"
  /\ upd' = [upd EXCEPT !.pc = "idle"]
  /\ UNCHANGED <<maxWorkers, activeWorkers, cur, chan, worker, sub, stop,
                 history>>

UpdateEnd ==
  /\ upd.pc = "copy"
  /\ buf[upd.old] = {}
  /\ upd' = [upd EXCEPT !.pc = "idle"]
  /\ UNCHANGED <<maxWorkers, activeWorkers, cur, chan, worker, sub, stop,
                 history>>

-----------------------------------------------------------------------------
(* Stop: cancel, close the queue, wait for the workers *)

StopCancel ==
  /\ stop.pc = "idle"
  /\ stop' = [stop EXCEPT !.pc = "load"]
  /\ UNCHANGED <<maxWorkers, activeWorkers, cur, chan, worker, sub, upd,
                 history>>

StopLoad ==
  /\ stop.pc = "load"
  /\ stop' = [pc |-> "close", ch |-> cur]
  /\ UNCHANGED <<maxWorkers, activeWorkers, cur, chan, worker, sub, upd,
                 history>>

(* close of a channel UpdateMaxWorkers has closed panics, unrecovered *)
StopClose ==
  /\ stop.pc = "close"
  /\ IF stop.ch \in closed
     THEN /\ stop' = [stop EXCEPT !.pc = "crashed"]
          /\ UNCHANGED closed
     ELSE /\ stop' = [stop EXCEPT !.pc = "wait"]
          /\ closed' = closed \cup {stop.ch}
  /\ UNCHANGED <<maxWorkers, activeWorkers, cur, buf, cap, worker, sub, upd,
                 history>>

StopReturn ==
  /\ stop.pc = "wait"
  /\ \A w \in Workers : worker[w].pc = "off"
  /\ stop' = [stop EXCEPT !.pc = "returned"]
  /\ UNCHANGED <<maxWorkers, activeWorkers, cur, chan, worker, sub, upd,
                 history>>

-----------------------------------------------------------------------------
Submitter ==
  \/ \E r \in Requests : SubmitLoad(r)
  \/ SubmitSend \/ SubmitRefuse \/ SubmitPanic \/ MaybeCreateWorker

WorkerStep(w) ==
  \/ WorkerLoad(w) \/ WorkerReceive(w) \/ WorkerDone(w) \/ WorkerLeave(w)
  \/ WorkerIdle(w) \/ WorkerExit(w)

Updater ==
  \/ \E new \in Limits : UpdateMaxWorkers(new)
  \/ UpdateClose \/ UpdateCopy \/ UpdateCopyPanic \/ UpdateEnd

Stopper == StopCancel \/ StopLoad \/ StopClose \/ StopReturn

(* An unrecovered panic ends the process. *)
Next ==
  /\ stop.pc # "crashed"
  /\ \/ Submitter
     \/ \E w \in Workers : WorkerStep(w)
     \/ Updater
     \/ Stopper

Spec == Init /\ [][Next]_vars

(* Goroutines that can run do run; a crawl ends by itself, by its sandbox  *)
(* timeout or by the cancelled context.  Nobody has to submit, to change   *)
(* the limit or to stop the service, and the idle timer need not fire.     *)
Fairness ==
  /\ WF_vars(SubmitSend \/ SubmitRefuse \/ SubmitPanic \/ MaybeCreateWorker)
  /\ WF_vars(UpdateClose \/ UpdateCopy \/ UpdateCopyPanic \/ UpdateEnd)
  /\ WF_vars(StopLoad \/ StopClose \/ StopReturn)
  /\ \A w \in Workers :
       WF_vars(/\ stop.pc # "crashed"
               /\ \/ WorkerLoad(w) \/ WorkerReceive(w) \/ WorkerDone(w)
                  \/ WorkerLeave(w) \/ WorkerExit(w))

FairSpec == Spec /\ Fairness

-----------------------------------------------------------------------------
TypeOK ==
  /\ maxWorkers \in Limits
  /\ activeWorkers \in Int
  /\ cur \in Channels
  /\ buf \in [Channels -> SUBSET Requests]
  /\ cap \in [Channels -> Nat]
  /\ closed \in SUBSET Channels
  /\ worker \in [Workers -> [pc : WorkerPc, ch : Channels,
                             req : Requests \cup {NoReq}]]
  /\ sub \in [pc : {"idle", "send", "create", "panicked"}, ch : Channels,
              req : Requests \cup {NoReq}]
  /\ upd \in [pc : {"idle", "close", "copy", "panicked"}, old : Channels]
  /\ stop \in [pc : {"idle", "load", "close", "wait", "returned", "crashed"},
               ch : Channels]
  /\ fresh \in SUBSET Requests /\ refused \in SUBSET Requests
  /\ executed \in SUBSET Requests /\ lost \in SUBSET Requests
  /\ updates \in 0 .. MaxUpdates /\ idles \in 0 .. MaxIdle
  /\ peak \in {Unlimited} \cup Nat

Buffered == UNION {buf[c] : c \in Channels}

InHand == {sub.req} \cup {worker[w].req : w \in Workers}

(* Every request is somewhere: not submitted, refused, in a channel, in a  *)
(* goroutine's hand, executed, or dropped by the resize that says so.      *)
(* No interleaving of SubmitTask, the workers, UpdateMaxWorkers and Stop   *)
(* makes an accepted task disappear silently.                              *)
NoSilentLoss ==
  Requests \subseteq
    fresh \cup refused \cup executed \cup lost \cup Buffered \cup InHand

(* A request has one owner: it is never in two channels, never with two    *)
(* workers, and never queued, held or handed back once it is settled.  So  *)
(* the pool executes one submission at most once, also across a resize     *)
(* in which workers and the copy loop empty the same old channel.          *)
SingleOwner ==
  LET Settled == fresh \cup refused \cup executed \cup lost IN
  /\ \A v, w \in Workers :
       v # w /\ worker[v].req = worker[w].req => worker[v].req = NoReq
  /\ \A c, d \in Channels : c # d => buf[c] \cap buf[d] = {}
  /\ \A c \in Channels :
       /\ buf[c] \cap Settled = {}
       /\ sub.req \notin buf[c]
       /\ \A w \in Workers : worker[w].req \notin buf[c]
  /\ \A w \in Workers :
       /\ worker[w].req \notin Settled
       /\ worker[w].req = sub.req => sub.req = NoReq
  /\ sub.req \notin Settled
  /\ fresh \cap (refused \cup executed \cup lost) = {}
  /\ refused \cap (executed \cup lost) = {}
  /\ executed \cap lost = {}

(* Outside UpdateMaxWorkers no request is left in a channel that           *)
(* pool.taskQueue no longer points to, where no worker would look for it:  *)
(* neither by a send that loaded the old channel nor by an early end of    *)
(* the copy loop.                                                          *)
OldQueueDrained ==
  upd.pc = "idle" => \A c \in Channels : c # cur => buf[c] = {}

(* activeWorkers counts the live workers, and a node that was never        *)
(* unlimited never has more of them than the largest limit it was given.   *)
WorkersWithinLimit ==
  /\ activeWorkers = Cardinality({w \in Workers : worker[w].pc # "off"})
  /\ peak # Unlimited => activeWorkers <= peak

(* SubmitTask's promise, "task will execute in parallel": an accepted      *)
(* request is eventually executed, unless the pool stops, its limit is     *)
(* changed (the workers of a replaced queue leave and nobody succeeds them *)
(* before the next submission) or a worker leaves on its idle timeout.     *)
AcceptedTaskRuns ==
  \A r \in Requests :
    r \in Buffered ~> (r \in executed \/ CtxDone \/ updates > 0 \/ idles > 0)

(* The same promise when workers leave on their idle timeout: with a fixed *)
(* limit an accepted request is eventually executed, unless the pool stops.*)
TaskRunsDespiteIdle ==
  \A r \in Requests :
    r \in Buffered ~> (r \in executed \/ CtxDone \/ updates > 0)

(* pool.Stop comes back (or panics): workers notice the cancelled context  *)
(* or the closed queue whatever the submitter and the reporter do.         *)
StopCompletes == stop.pc = "close" ~> stop.pc \in {"returned", "crashed"}

=============================================================================
