------------------------ MODULE TaskWorkerPoolProofs ------------------------
(* The safety properties of TaskWorkerPool, for every set of requests and  *)
(* workers, every set of limits and every queue sizing.                    *)
EXTENDS TaskWorkerPool, FiniteSetTheorems, TLAPS

(* The channel numbers in use stay below the ones still to be made, and    *)
(* those are empty. *)
ChannelOrder ==
  /\ cur <= updates
  /\ sub.ch <= cur
  /\ \A c \in Channels : c > cur => buf[c] = {}
  /\ upd.pc \in {"close", "copy"} => upd.old < cur

(* A goroutine holds a request exactly between taking and handing it on. *)
HoldsWhenBusy ==
  /\ sub.pc = "send" <=> sub.req # NoReq
  /\ \A w \in Workers : worker[w].pc = "exec" <=> worker[w].req # NoReq

(* Replaced channels are closed and empty; the one being replaced is       *)
(* closed once the copy loop runs.                                         *)
Retired(c) ==
  c < cur /\ upd.pc # "panicked" /\ (upd.pc = "idle" \/ c # upd.old)

Replaced ==
  /\ \A c \in Channels : Retired(c) => c \in closed /\ buf[c] = {}
  /\ upd.pc = "copy" => upd.old \in closed

(* The largest limit so far bounds the present one. *)
PeakBounds ==
  /\ maxWorkers = Unlimited => peak = Unlimited
  /\ peak # Unlimited => maxWorkers <= peak

TypeInv == TypeOK /\ ChannelOrder /\ HoldsWhenBusy

LEMMA QueueSizeNat ==
  ASSUME NEW l \in Limits
  PROVE  QueueSize(l) \in Nat
BY PoolAssumption DEF QueueSize, Unlimited

-----------------------------------------------------------------------------
LEMMA InitType == Init => TypeInv
<1> SUFFICES ASSUME Init PROVE TypeInv
  OBVIOUS
<1>1. QueueSize(maxWorkers) \in Nat
  BY QueueSizeNat DEF Init
<1>2. 0 \in Channels
  BY PoolAssumption DEF Channels
<1>3. peak \in {Unlimited} \cup Nat
  BY PoolAssumption DEF Init
<1>4. TypeOK
  BY <1>1, <1>2, <1>3, PoolAssumption DEF Init, TypeOK, WorkerPc
<1>5. ChannelOrder
  BY PoolAssumption DEF Init, ChannelOrder, Channels
<1>6. HoldsWhenBusy
  BY DEF Init, HoldsWhenBusy
<1> QED
  BY <1>4, <1>5, <1>6 DEF TypeInv

LEMMA SubmitterType == TypeInv /\ Submitter => TypeInv'
<1> SUFFICES ASSUME TypeInv, Submitter PROVE TypeInv'
  OBVIOUS
<1> USE PoolAssumption
    DEF TypeInv, TypeOK, ChannelOrder, HoldsWhenBusy, WorkerPc, Unlimited,
        chan, history
<1>1. ASSUME NEW r \in Requests, SubmitLoad(r) PROVE TypeInv'
  BY <1>1 DEF SubmitLoad, Channels
<1>2. CASE SubmitSend
  <2>1. sub.req \in Requests
    BY <1>2 DEF SubmitSend
  <2>2. TypeOK' /\ HoldsWhenBusy'
    <3>1. buf' \in [Channels -> SUBSET Requests]
      BY <1>2, <2>1 DEF SubmitSend
    <3>2. sub' \in [pc : {"idle", "send", "create", "panicked"},
                   ch : Channels, req : Requests \cup {NoReq}]
      BY <1>2 DEF SubmitSend
    <3>3. TypeOK'
      BY <1>2, <3>1, <3>2 DEF SubmitSend
    <3> QED
      BY <1>2, <3>3 DEF SubmitSend
  <2>3. ChannelOrder'
    <3>1. \A c \in Channels : c > cur => buf'[c] = buf[c]
      BY <1>2 DEF SubmitSend, Channels
    <3>2. sub'.ch = sub.ch /\ cur' = cur /\ updates' = updates /\ upd' = upd
      BY <1>2 DEF SubmitSend
    <3> QED
      BY <3>1, <3>2
  <2> QED
    BY <2>2, <2>3
<1>3. CASE SubmitRefuse
  BY <1>3 DEF SubmitRefuse
<1>4. CASE SubmitPanic
  BY <1>4 DEF SubmitPanic
<1>5. CASE MaybeCreateWorker
  BY <1>5 DEF MaybeCreateWorker
<1> QED
  BY <1>1, <1>2, <1>3, <1>4, <1>5 DEF Submitter

LEMMA WorkerType ==
  ASSUME NEW w \in Workers
  PROVE  TypeInv /\ WorkerStep(w) => TypeInv'
<1> SUFFICES ASSUME TypeInv, WorkerStep(w) PROVE TypeInv'
  OBVIOUS
<1> USE PoolAssumption
    DEF TypeInv, TypeOK, ChannelOrder, HoldsWhenBusy, WorkerPc, Unlimited,
        chan, history
<1>1. CASE WorkerLoad(w)
  BY <1>1 DEF WorkerLoad
<1>2. CASE WorkerReceive(w)
  BY <1>2 DEF WorkerReceive
<1>3. CASE WorkerDone(w)
  BY <1>3 DEF WorkerDone
<1>4. CASE WorkerLeave(w)
  BY <1>4 DEF WorkerLeave
<1>5. CASE WorkerIdle(w)
  BY <1>5 DEF WorkerIdle
<1>6. CASE WorkerExit(w)
  BY <1>6 DEF WorkerExit
<1> QED
  BY <1>1, <1>2, <1>3, <1>4, <1>5, <1>6 DEF WorkerStep

LEMMA UpdaterType == TypeInv /\ Updater => TypeInv'
<1> SUFFICES ASSUME TypeInv, Updater PROVE TypeInv'
  OBVIOUS
<1> USE PoolAssumption
    DEF TypeInv, TypeOK, ChannelOrder, HoldsWhenBusy, WorkerPc, Unlimited,
        chan, history
<1>1. ASSUME NEW new \in Limits, UpdateMaxWorkers(new) PROVE TypeInv'
  <2>1. peak' \in {Unlimited} \cup Nat
    BY <1>1 DEF UpdateMaxWorkers, LargerLimit
  <2>2. QueueSize(new) \in Nat
    BY QueueSizeNat
  <2>3. updates' \in 0 .. MaxUpdates
    BY <1>1 DEF UpdateMaxWorkers
  <2>4. CASE NeedQueueResize(maxWorkers, new, cap[cur])
    <3>1. cur' \in Channels /\ cur' = cur + 1 /\ cur \in Nat
      BY <1>1, <2>4 DEF UpdateMaxWorkers, Channels
    <3>2. TypeOK'
      BY <1>1, <2>1, <2>2, <2>3, <2>4, <3>1 DEF UpdateMaxWorkers
    <3>3. ChannelOrder'
      BY <1>1, <2>4, <3>1 DEF UpdateMaxWorkers, Channels
    <3> QED
      BY <1>1, <3>2, <3>3 DEF UpdateMaxWorkers
  <2>5. CASE ~NeedQueueResize(maxWorkers, new, cap[cur])
    <3>1. TypeOK'
      BY <1>1, <2>1, <2>3, <2>5 DEF UpdateMaxWorkers
    <3>2. ChannelOrder'
      BY <1>1, <2>5 DEF UpdateMaxWorkers, Channels
    <3> QED
      BY <1>1, <3>1, <3>2 DEF UpdateMaxWorkers
  <2> QED
    BY <2>4, <2>5
<1>2. CASE UpdateClose
  BY <1>2 DEF UpdateClose
<1>3. CASE UpdateCopy
  <2>1. upd.old # cur /\ cur \in Channels
    BY <1>3 DEF UpdateCopy, Channels
  <2>2. buf' \in [Channels -> SUBSET Requests] /\ lost' \in SUBSET Requests
    BY <1>3, <2>1 DEF UpdateCopy
  <2>3. TypeOK' /\ HoldsWhenBusy'
    BY <1>3, <2>2 DEF UpdateCopy
  <2>4. ChannelOrder'
    <3>1. \A c \in Channels : c # upd.old /\ c # cur => buf'[c] = buf[c]
      BY <1>3, <2>1 DEF UpdateCopy
    <3>2. upd.old < cur /\ upd.old \in Int /\ cur \in Int
      BY <1>3 DEF UpdateCopy, Channels
    <3>3. \A c \in Channels : c > cur => c # upd.old /\ c # cur
      BY <3>2 DEF Channels
    <3>4. \A c \in Channels : c > cur => buf'[c] = {}
      BY <3>1, <3>3
    <3> QED
      BY <1>3, <3>4 DEF UpdateCopy
  <2> QED
    BY <2>3, <2>4
<1>4. CASE UpdateCopyPanic
  BY <1>4 DEF UpdateCopyPanic
<1>5. CASE UpdateEnd
  BY <1>5 DEF UpdateEnd
<1> QED
  BY <1>1, <1>2, <1>3, <1>4, <1>5 DEF Updater

LEMMA StopperType == TypeInv /\ Stopper => TypeInv'
<1> SUFFICES ASSUME TypeInv, Stopper PROVE TypeInv'
  OBVIOUS
<1> USE PoolAssumption
    DEF TypeInv, TypeOK, ChannelOrder, HoldsWhenBusy, WorkerPc, Unlimited,
        chan, history
<1>1. CASE StopCancel
  BY <1>1 DEF StopCancel
<1>2. CASE StopLoad
  BY <1>2 DEF StopLoad
<1>3. CASE StopClose
  BY <1>3 DEF StopClose
<1>4. CASE StopReturn
  BY <1>4 DEF StopReturn
<1> QED
  BY <1>1, <1>2, <1>3, <1>4 DEF Stopper

(* The pool's state stays well-formed: no goroutine's channel number runs  *)
(* past the channels made, and a goroutine holds a request exactly while   *)
(* it is sending or executing one.                                         *)
THEOREM WellFormed == Spec => []TypeInv
<1>1. TypeInv /\ [Next]_vars => TypeInv'
  <2> SUFFICES ASSUME TypeInv, [Next]_vars PROVE TypeInv'
    OBVIOUS
  <2>1. CASE Next
    BY <2>1, SubmitterType, WorkerType, UpdaterType, StopperType DEF Next
  <2>2. CASE UNCHANGED vars
    BY <2>2 DEF TypeInv, TypeOK, ChannelOrder, HoldsWhenBusy, vars
  <2> QED
    BY <2>1, <2>2
<1> QED
  BY InitType, <1>1, PTL DEF Spec

(* Every variable of the pool keeps its type: counters, capacities and the *)
(* numbers of the channels stay in range whatever limits are set.          *)
THEOREM TypeCorrect == Spec => []TypeOK
<1>1. TypeInv => TypeOK
  BY DEF TypeInv
<1> QED
  BY <1>1, WellFormed, PTL

-----------------------------------------------------------------------------
(* SingleOwner and NoSilentLoss.  The steps that move a request are        *)
(* SubmitLoad, SubmitSend, SubmitRefuse, SubmitPanic, WorkerReceive,       *)
(* WorkerDone, UpdateCopy and UpdateCopyPanic; the others leave every      *)
(* request where it is.                                                    *)

Owner == SingleOwner /\ NoSilentLoss

LEMMA UnmovedOwner ==
  ASSUME Owner, TypeInv,
         UNCHANGED <<fresh, refused, executed, lost, buf>>,
         sub'.req = sub.req,
         \A w \in Workers : worker'[w].req = worker[w].req
  PROVE  Owner'
<1>1. Buffered' = Buffered
  BY DEF Buffered
<1>2. InHand' = InHand
  BY DEF InHand
<1>3. NoSilentLoss'
  BY <1>1, <1>2 DEF Owner, NoSilentLoss
<1>4. SingleOwner'
  BY DEF Owner, SingleOwner
<1> QED
  BY <1>3, <1>4 DEF Owner

LEMMA SubmitterOwner == TypeInv /\ Owner /\ Submitter => Owner'
<1> SUFFICES ASSUME TypeInv, Owner, Submitter PROVE Owner'
  OBVIOUS
<1> USE PoolAssumption DEF TypeInv, TypeOK, HoldsWhenBusy
<1>1. ASSUME NEW r \in Requests, SubmitLoad(r) PROVE Owner'
  <2>1. SingleOwner'
    BY <1>1 DEF SubmitLoad, Owner, SingleOwner, chan
  <2>2. NoSilentLoss'
    BY <1>1 DEF SubmitLoad, Owner, NoSilentLoss, Buffered, InHand, chan
  <2> QED
    BY <2>1, <2>2 DEF Owner
<1>2. CASE SubmitSend
  <2>1. SingleOwner'
    BY <1>2 DEF SubmitSend, Owner, SingleOwner, history
  <2>2. NoSilentLoss'
    BY <1>2 DEF SubmitSend, Owner, NoSilentLoss, Buffered, InHand, history
  <2> QED
    BY <2>1, <2>2 DEF Owner
<1>3. CASE SubmitRefuse \/ SubmitPanic
  <2>1. /\ sub'.req = NoReq /\ refused' = refused \cup {sub.req}
        /\ UNCHANGED <<fresh, executed, lost, buf, worker>>
        /\ sub.req \in Requests
    BY <1>3 DEF SubmitRefuse, SubmitPanic, chan
  <2>2. SingleOwner'
    BY <2>1 DEF Owner, SingleOwner
  <2>3. NoSilentLoss'
    BY <2>1 DEF Owner, NoSilentLoss, Buffered, InHand
  <2> QED
    BY <2>2, <2>3 DEF Owner
<1>4. CASE MaybeCreateWorker
  BY <1>4, UnmovedOwner DEF MaybeCreateWorker, chan, history
<1> QED
  BY <1>1, <1>2, <1>3, <1>4 DEF Submitter

LEMMA WorkerOwner ==
  ASSUME NEW w \in Workers
  PROVE  TypeInv /\ Owner /\ WorkerStep(w) => Owner'
<1> SUFFICES ASSUME TypeInv, Owner, WorkerStep(w) PROVE Owner'
  OBVIOUS
<1> USE PoolAssumption DEF TypeInv, TypeOK, HoldsWhenBusy
<1>1. CASE WorkerLoad(w) \/ WorkerLeave(w) \/ WorkerIdle(w) \/ WorkerExit(w)
  BY <1>1, UnmovedOwner
  DEF WorkerLoad, WorkerLeave, WorkerIdle, WorkerExit, chan, history
<1>2. CASE WorkerReceive(w)
  <2>1. SingleOwner'
    BY <1>2 DEF WorkerReceive, Owner, SingleOwner, history
  <2>2. NoSilentLoss'
    BY <1>2 DEF WorkerReceive, Owner, NoSilentLoss, Buffered, InHand, history
  <2> QED
    BY <2>1, <2>2 DEF Owner
<1>3. CASE WorkerDone(w)
  <2>1. SingleOwner'
    BY <1>3 DEF WorkerDone, Owner, SingleOwner, chan
  <2>2. NoSilentLoss'
    BY <1>3 DEF WorkerDone, Owner, NoSilentLoss, Buffered, InHand, chan
  <2> QED
    BY <2>1, <2>2 DEF Owner
<1> QED
  BY <1>1, <1>2, <1>3 DEF WorkerStep

LEMMA UpdaterOwner == TypeInv /\ Owner /\ Updater => Owner'
<1> SUFFICES ASSUME TypeInv, Owner, Updater PROVE Owner'
  OBVIOUS
<1> USE PoolAssumption DEF TypeInv, TypeOK, HoldsWhenBusy
<1>1. ASSUME NEW new \in Limits, UpdateMaxWorkers(new) PROVE Owner'
  BY <1>1, UnmovedOwner DEF UpdateMaxWorkers
<1>2. CASE UpdateClose \/ UpdateEnd
  BY <1>2, UnmovedOwner DEF UpdateClose, UpdateEnd, chan, history
<1>3. CASE UpdateCopy \/ UpdateCopyPanic
  <2>1. upd.old # cur
    BY <1>3 DEF UpdateCopy, UpdateCopyPanic, ChannelOrder, Channels
  <2>2. SingleOwner'
    BY <1>3, <2>1 DEF UpdateCopy, UpdateCopyPanic, Owner, SingleOwner
  <2>3. NoSilentLoss'
    BY <1>3, <2>1 DEF UpdateCopy, UpdateCopyPanic, Owner, NoSilentLoss, Buffered, InHand
  <2> QED
    BY <2>2, <2>3 DEF Owner
<1> QED
  BY <1>1, <1>2, <1>3 DEF Updater

LEMMA StopperOwner == TypeInv /\ Owner /\ Stopper => Owner'
BY UnmovedOwner DEF Stopper, StopCancel, StopLoad, StopClose, StopReturn, chan, history

(* For every number of submissions, workers and limit changes, whatever    *)
(* the interleaving of SubmitTask, the workers, UpdateMaxWorkers and Stop: *)
(* a request has one owner and is accounted for.                           *)
THEOREM Ownership == Spec => []Owner
<1>1. Init => Owner
  BY PoolAssumption DEF Init, Owner, SingleOwner, NoSilentLoss
<1>2. TypeInv /\ TypeInv' /\ Owner /\ [Next]_vars => Owner'
  <2> SUFFICES ASSUME TypeInv, Owner, [Next]_vars PROVE Owner'
    OBVIOUS
  <2>1. CASE Next
    BY <2>1, SubmitterOwner, WorkerOwner, UpdaterOwner, StopperOwner DEF Next
  <2>2. CASE UNCHANGED vars
    BY <2>2, UnmovedOwner DEF vars
  <2> QED
    BY <2>1, <2>2
<1> QED
  BY <1>1, <1>2, WellFormed, PTL DEF Spec

(* A submission runs at most once. *)
THEOREM SingleOwnership == Spec => []SingleOwner
<1>1. Owner => SingleOwner
  BY DEF Owner
<1> QED
  BY <1>1, Ownership, PTL

(* An accepted submission disappears only through the logged drop. *)
THEOREM SilentLossFree == Spec => []NoSilentLoss
<1>1. Owner => NoSilentLoss
  BY DEF Owner
<1> QED
  BY <1>1, Ownership, PTL

-----------------------------------------------------------------------------
LEMMA StepReplaced == TypeInv /\ Replaced /\ [Next]_vars => Replaced'
<1> SUFFICES ASSUME TypeInv, Replaced, [Next]_vars PROVE Replaced'
  OBVIOUS
<1>0. /\ cur \in Int /\ \A c \in Channels : c \in Int
      /\ DOMAIN buf = Channels /\ buf \in [Channels -> SUBSET Requests]
      /\ upd \in [pc : {"idle", "close", "copy", "panicked"}, old : Channels]
      /\ upd.pc \in {"close", "copy"} => upd.old < cur
  BY PoolAssumption DEF TypeInv, TypeOK, ChannelOrder, Channels
<1> DEFINE Kept == /\ \A c \in Channels : Retired(c)' => Retired(c)
                   /\ \A c \in Channels : Retired(c) => buf'[c] = {}
                   /\ closed \subseteq closed'
                   /\ upd'.pc = "copy" => upd'.old \in closed'
<1>1. Kept => Replaced'
  BY DEF Replaced
<1>2. CASE SubmitSend
  <2>1. \A c \in Channels : c \in closed => buf'[c] = buf[c]
    BY <1>0, <1>2 DEF SubmitSend
  <2> QED
    BY <1>1, <1>2, <2>1 DEF SubmitSend, Replaced, Retired
<1>3. ASSUME NEW w \in Workers, WorkerReceive(w) PROVE Replaced'
  <2>1. \A c \in Channels : buf[c] = {} => buf'[c] = {}
    BY <1>0, <1>3 DEF WorkerReceive
  <2> QED
    BY <1>1, <1>3, <2>1 DEF WorkerReceive, Replaced, Retired
<1>4. ASSUME NEW new \in Limits, UpdateMaxWorkers(new) PROVE Replaced'
  <2>1. CASE cur' = cur /\ upd' = upd
    BY <1>1, <1>4, <2>1 DEF UpdateMaxWorkers, Replaced, Retired
  <2>2. CASE cur' = cur + 1 /\ upd' = [pc |-> "close", old |-> cur]
    <3>1. \A c \in Channels : c < cur' /\ c # upd'.old => c < cur
      BY <1>0, <2>2
    <3>2. \A c \in Channels : Retired(c)' => Retired(c)
      BY <1>4, <2>2, <3>1 DEF UpdateMaxWorkers, Retired
    <3> QED
      BY <1>1, <1>4, <2>2, <3>2 DEF UpdateMaxWorkers, Replaced
  <2> QED
    BY <1>4, <2>1, <2>2 DEF UpdateMaxWorkers
<1>5. CASE UpdateClose
  BY <1>0, <1>1, <1>5 DEF UpdateClose, Replaced, Retired
<1>6. CASE UpdateCopy
  <2>1. \A c \in Channels : c # upd.old /\ c # cur => buf'[c] = buf[c]
    BY <1>0, <1>6 DEF UpdateCopy
  <2>2. \A c \in Channels : Retired(c) => c # upd.old /\ c # cur
    BY <1>0, <1>6 DEF UpdateCopy, Retired
  <2> QED
    BY <1>1, <1>6, <2>1, <2>2 DEF UpdateCopy, Replaced, Retired
<1>7. CASE UpdateCopyPanic
  BY <1>0, <1>7 DEF UpdateCopyPanic, Replaced, Retired
<1>8. CASE UpdateEnd
  <2>1. buf' = buf /\ closed' = closed /\ cur' = cur /\ upd'.pc = "idle"
    BY <1>0, <1>8 DEF UpdateEnd, chan
  <2>2. \A c \in Channels : Retired(c)' => Retired(c) \/ c = upd.old
    BY <1>8, <2>1 DEF UpdateEnd, Retired
  <2>3. upd.old \in closed /\ buf[upd.old] = {}
    BY <1>8 DEF UpdateEnd, Replaced
  <2> QED
    BY <2>1, <2>2, <2>3 DEF Replaced
<1>9. CASE StopClose
  BY <1>1, <1>9 DEF StopClose, Replaced, Retired
<1>10. CASE UNCHANGED <<buf, cur, upd, closed>>
  BY <1>10 DEF Replaced, Retired
<1>11. Next => \/ SubmitSend \/ \E w \in Workers : WorkerReceive(w)
               \/ \E new \in Limits : UpdateMaxWorkers(new)
               \/ UpdateClose \/ UpdateCopy \/ UpdateCopyPanic \/ UpdateEnd
               \/ StopClose \/ UNCHANGED <<buf, cur, upd, closed>>
  BY DEF Next, Submitter, WorkerStep, Updater, Stopper, SubmitLoad,
         SubmitRefuse, SubmitPanic, MaybeCreateWorker, WorkerLoad, WorkerDone,
         WorkerLeave, WorkerIdle, WorkerExit, StopCancel, StopLoad, StopReturn,
         chan
<1> QED
  BY <1>2, <1>3, <1>4, <1>5, <1>6, <1>7, <1>8, <1>9, <1>10, <1>11 DEF vars

(* No request is stranded in a queue the pool no longer reads. *)
THEOREM QueuesDrained == Spec => []OldQueueDrained
<1>1. Init => Replaced
  BY PoolAssumption DEF Init, Replaced, Retired, Channels
<1>2. TypeInv /\ Replaced => OldQueueDrained
  BY PoolAssumption
  DEF TypeInv, TypeOK, ChannelOrder, Replaced, Retired, OldQueueDrained, Channels
<1> QED
  BY <1>1, <1>2, StepReplaced, WellFormed, PTL DEF Spec

-----------------------------------------------------------------------------
Live == {w \in Workers : worker[w].pc # "off"}

Counted == activeWorkers = Cardinality(Live) /\ PeakBounds
           /\ (peak # Unlimited => activeWorkers <= peak)

LEMMA LiveFinite == IsFiniteSet(Live)
BY PoolAssumption, FS_Subset DEF Live

LEMMA StepCounted == TypeInv /\ Counted /\ [Next]_vars => Counted'
<1> SUFFICES ASSUME TypeInv, Counted, [Next]_vars PROVE Counted'
  OBVIOUS
<1> USE PoolAssumption DEF TypeInv, TypeOK, Counted, PeakBounds
<1>1. CASE MaybeCreateWorker
  <2>1. CASE buf[cur] # {} /\ UnderLimit
    <3>1. PICK w \in Workers : /\ worker[w].pc = "off"
                               /\ worker' = [worker EXCEPT ![w].pc = "loop"]
      BY <1>1, <2>1 DEF MaybeCreateWorker
    <3>2. Live' = Live \cup {w} /\ w \notin Live
      BY <3>1 DEF Live
    <3>3. Cardinality(Live') = Cardinality(Live) + 1
      BY <3>2, LiveFinite, FS_AddElement
    <3>4. activeWorkers' = activeWorkers + 1 /\ UNCHANGED <<peak, maxWorkers>>
      BY <1>1, <2>1 DEF MaybeCreateWorker, history
    <3>5. peak # Unlimited => activeWorkers + 1 <= peak
      BY <2>1 DEF UnderLimit, Unlimited
    <3> QED
      BY <3>3, <3>4, <3>5
  <2>2. CASE ~(buf[cur] # {} /\ UnderLimit)
    BY <1>1, <2>2 DEF MaybeCreateWorker, history, Live
  <2> QED
    BY <2>1, <2>2
<1>2. ASSUME NEW w \in Workers, WorkerExit(w) PROVE Counted'
  <2>1. Live' = Live \ {w} /\ w \in Live
    BY <1>2 DEF WorkerExit, Live
  <2>2. Cardinality(Live') = Cardinality(Live) - 1
    BY <2>1, LiveFinite, FS_RemoveElement
  <2> QED
    BY <1>2, <2>2 DEF WorkerExit, history, Unlimited
<1>3. ASSUME NEW new \in Limits, UpdateMaxWorkers(new) PROVE Counted'
  <2>1. Live' = Live
    BY <1>3 DEF UpdateMaxWorkers, Live
  <2> QED
    BY <1>3, <2>1 DEF UpdateMaxWorkers, LargerLimit, Unlimited
<1>4. ASSUME NEW w \in Workers,
             \/ WorkerLoad(w) \/ WorkerReceive(w) \/ WorkerDone(w)
             \/ WorkerLeave(w) \/ WorkerIdle(w)
      PROVE  Counted'
  <2>1. /\ worker[w].pc # "off"
        /\ \A v \in Workers : v # w => worker'[v] = worker[v]
        /\ worker'[w].pc # "off"
        /\ UNCHANGED <<activeWorkers, peak, maxWorkers>>
    BY <1>4 DEF WorkerLoad, WorkerReceive, WorkerDone, WorkerLeave, WorkerIdle,
                history
  <2>2. Live' = Live
    BY <2>1 DEF Live
  <2> QED
    BY <2>1, <2>2
<1>5. CASE UNCHANGED <<worker, activeWorkers, peak, maxWorkers>>
  BY <1>5 DEF Live
<1>6. Submitter => MaybeCreateWorker
                   \/ UNCHANGED <<worker, activeWorkers, peak, maxWorkers>>
  BY DEF Submitter, SubmitLoad, SubmitSend, SubmitRefuse, SubmitPanic, history
<1>7. Updater => (\E new \in Limits : UpdateMaxWorkers(new))
                 \/ UNCHANGED <<worker, activeWorkers, peak, maxWorkers>>
  BY DEF Updater, UpdateClose, UpdateCopy, UpdateCopyPanic, UpdateEnd, history
<1>8. Stopper => UNCHANGED <<worker, activeWorkers, peak, maxWorkers>>
  BY DEF Stopper, StopCancel, StopLoad, StopClose, StopReturn, history
<1> QED
  BY <1>1, <1>2, <1>3, <1>4, <1>5, <1>6, <1>7, <1>8 DEF Next, WorkerStep, vars

(* The node never runs more workers than the largest limit it was given. *)
THEOREM LimitHolds == Spec => []WorkersWithinLimit
<1>1. Init => Counted
  <2> SUFFICES ASSUME Init PROVE Counted
    OBVIOUS
  <2>1. Live = {}
    BY DEF Init, Live
  <2>2. Cardinality(Live) = 0
    BY <2>1, FS_EmptySet
  <2> QED
    BY <2>2, PoolAssumption DEF Init, Counted, PeakBounds, Unlimited
<1>2. Counted => WorkersWithinLimit
  BY DEF Counted, WorkersWithinLimit, Live
<1> QED
  BY <1>1, <1>2, StepCounted, WellFormed, PTL DEF Spec

=============================================================================
