----------------------------- MODULE IndexerProofs -----------------------------
(***************************************************************************)
(* Proofs about the indexer of a workspace: about IndexerManager, for any  *)
(* set of paths, any number of restarts, failed closes, goroutines inside  *)
(* Stop and publisher calls, and about IndexerControl, for any number of   *)
(* servers and clients.                                                    *)
(*                                                                         *)
(* The two share no state, and a step of one is no step of the other: each *)
(* theorem is about one of the two specifications.                         *)
(***************************************************************************)
EXTENDS IndexerManager, IndexerControl, TLAPS

-----------------------------------------------------------------------------
(* The manager                                                             *)

(* A publish timer is named only by a worker that has something to publish *)
(* and neither publishes nor stops, so no callback that is skipped can be  *)
(* the one the worker relies on.                                           *)
TimerOK ==
  Running /\ worker.timer # "nil" =>
    /\ worker.pending # {} /\ ~worker.publishing /\ ~worker.stopping
    /\ worker.timer = "fired" => fired > 0

QueueInv ==
  /\ TypeOK
  /\ OnePublisherCall
  /\ AcceptedNotLost
  /\ QueueAgrees
  /\ TimerOK
  /\ WorkScheduled

(* NoWorker is not a worker; Running tells them apart.                     *)
LEMMA WorkerTyped ==
  ASSUME TypeOK
  PROVE  /\ Running => worker \in Worker
         /\ ~Running => worker = NoWorker
         /\ NoWorker.gen = 0
BY ManagerAssumption DEF TypeOK, Running, Worker, NoWorker

(* The next delay lies between the first one and the limit.                *)
LEMMA BackoffTyped ==
  ASSUME NEW d \in 0..RetryMax
  PROVE  Backoff(d) \in 0..RetryMax
BY ManagerAssumption DEF Backoff

(* What Enqueue does to a worker, as far as the invariant needs it.        *)
LEMMA EnqueueIntoFacts ==
  ASSUME NEW w \in Worker, NEW good \in SUBSET Paths, NEW bad \in BOOLEAN,
         NEW w2, w2 = EnqueueInto(w, good, bad), w.pendingSet = w.pending
  PROVE  /\ w2 \in Worker
         /\ w2.gen = w.gen /\ w2.publishing = w.publishing /\ w2.stopping = w.stopping
         /\ w2.pending = w.pending \cup good /\ w2.pendingSet = w2.pending
         /\ w2.queued = w.queued \/ w2.queued = w2.pending
         /\ w2.reconcileTimer = w.reconcileTimer
         /\ w.timer # "nil" => w2.timer = w.timer
         /\ w2.timer # "nil" /\ w.timer = "nil" =>
              w2.timer = "armed" /\ w2.pending # {} /\ ~w2.publishing
         /\ ~bad => ~Schedulable(w2)
BY DEF EnqueueInto, Worker, Schedulable, TimerStates

CanRequeue(w, batch, ok) ==
  /\ w \in Worker /\ batch \in SUBSET Paths /\ ok \in BOOLEAN
  /\ w.pendingSet = w.pending /\ w.queued \subseteq w.pending

Requeued(w, batch, ok, w2) ==
  /\ w2 \in Worker
  /\ w2.gen = w.gen /\ ~w2.publishing /\ w2.stopping = w.stopping
  /\ w2.pending = IF ok THEN w.pending ELSE batch \cup w.pending
  /\ w2.pendingSet = w2.pending /\ w2.queued \subseteq w2.pending
  /\ w2.timer = w.timer /\ w2.reconcileTimer = w.reconcileTimer

(* Requeue keeps a worker a worker, and its queue in agreement.            *)
LEMMA RequeueFacts ==
  ASSUME NEW w, NEW batch, NEW ok, CanRequeue(w, batch, ok)
  PROVE  Requeued(w, batch, ok, Requeue(w, batch, ok))
<1> USE DEF CanRequeue, Requeued
<1>1. w.retryDelay \in 0..RetryMax /\ 0 \in 0..RetryMax
  BY ManagerAssumption DEF Worker
<1>2. Backoff(w.retryDelay) \in 0..RetryMax
  BY <1>1, BackoffTyped
<1>3. CASE ok
  BY <1>1, <1>3 DEF Requeue, Worker
<1>4. CASE ~ok
  BY <1>2, <1>4 DEF Requeue, Worker
<1> QED
  BY <1>3, <1>4

-----------------------------------------------------------------------------
(* The initial state has no worker, no call and nothing queued.            *)
LEMMA QueueInit == Init => QueueInv
<1> SUFFICES ASSUME Init PROVE QueueInv
  OBVIOUS
<1>1. ~Running
  BY DEF Init, Running, NoWorker
<1>2. TypeOK
  <2>1. NoCall \in [gen : 0..MaxStarts, batch : SUBSET Paths]
    BY ManagerAssumption DEF NoCall
  <2>2. call \in [Calls -> [gen : 0..MaxStarts, batch : SUBSET Paths]]
    BY <2>1 DEF Init
  <2>3. stopper \in [Stoppers -> {"idle", "calling", "waiting"}] /\ chain \in [Stages -> Nat]
    BY DEF Init
  <2>4. starts \in 0..MaxStarts /\ faults \in 0..MaxFaults /\ loose \in Nat /\ fired \in Nat
    BY ManagerAssumption DEF Init
  <2>5. worker \in Worker \cup {NoWorker} /\ due \subseteq Paths
    BY DEF Init
  <2>6. excused \in BOOLEAN
    BY DEF Init
  <2> QED
    BY <2>2, <2>3, <2>4, <2>5, <2>6 DEF TypeOK
<1>3. OnePublisherCall
  BY DEF Init, OnePublisherCall
<1> QED
  BY <1>1, <1>2, <1>3 DEF Init, QueueInv, AcceptedNotLost, QueueAgrees, TimerOK,
    WorkScheduled

(* A step of the reconciler's own bookkeeping: the parts of the state that *)
(* the queue's invariant speaks of stay, and chain keeps its type.         *)
Bookkeeping ==
  /\ worker' = worker \/ \E t \in TimerStates, e \in {"none", "publish", "reconcile"} :
       Running /\ worker' = [worker EXCEPT !.reconcileTimer = t, !.error = e]
  /\ chain' \in [Stages -> Nat]
  /\ UNCHANGED <<starts, faults, loose, fired, call, stopper, due, excused>>

(* Such a step preserves the invariant.                                    *)
LEMMA BookkeepingStep == QueueInv /\ Bookkeeping => QueueInv'
<1> SUFFICES ASSUME QueueInv, Bookkeeping PROVE QueueInv'
  OBVIOUS
<1>1. TypeOK /\ (Running => worker \in Worker) /\ (~Running => worker = NoWorker)
  BY WorkerTyped DEF QueueInv
<1>2. CASE worker' = worker
  BY <1>2 DEF QueueInv, TypeOK, OnePublisherCall, AcceptedNotLost, QueueAgrees,
    TimerOK, WorkScheduled, Running, Accepting, Bookkeeping
<1>3. ASSUME NEW t \in TimerStates, NEW e \in {"none", "publish", "reconcile"},
             Running, worker' = [worker EXCEPT !.reconcileTimer = t, !.error = e]
      PROVE  QueueInv'
  <2>1. worker \in Worker
    BY <1>1, <1>3
  <2>2. /\ worker' \in Worker
        /\ worker'.gen = worker.gen /\ worker'.pending = worker.pending
        /\ worker'.pendingSet = worker.pendingSet /\ worker'.queued = worker.queued
        /\ worker'.timer = worker.timer /\ worker'.publishing = worker.publishing
        /\ worker'.stopping = worker.stopping
    BY <1>3, <2>1 DEF Worker
  <2> QED
    BY <1>1, <2>2 DEF QueueInv, TypeOK, OnePublisherCall, AcceptedNotLost, QueueAgrees,
      TimerOK, WorkScheduled, Running, Accepting, Bookkeeping
<1> QED
  BY <1>2, <1>3 DEF Bookkeeping

(* Moving one reconciliation between stages keeps the counters typed.      *)
LEMMA MoveTyped ==
  ASSUME chain \in [Stages -> Nat], NEW from \in Stages, NEW to \in Stages,
         chain[from] > 0, from # to
  PROVE  /\ Move(from, to) \in [Stages -> Nat]
         /\ [chain EXCEPT ![from] = @ - 1] \in [Stages -> Nat]
         /\ \A g \in Stages : Move(from, to)[g] =
              IF g = from THEN chain[g] - 1 ELSE IF g = to THEN chain[g] + 1 ELSE chain[g]
BY DEF Move

-----------------------------------------------------------------------------
(* The queue's steps, one lemma each.                                      *)

(* Start: the new worker has an empty queue, and no call is in flight.     *)
LEMMA StartStep == QueueInv /\ Start => QueueInv'
<1> SUFFICES ASSUME QueueInv, Start PROVE QueueInv'
  OBVIOUS
<1>1. /\ worker' \in Worker /\ worker'.gen = starts + 1 /\ starts + 1 # 0
      /\ worker'.pending = {} /\ worker'.pendingSet = {} /\ worker'.queued = {}
      /\ worker'.timer = "nil" /\ starts' \in 0..MaxStarts
  BY ManagerAssumption DEF QueueInv, TypeOK, Start, Worker, TimerStates
<1>2. due = {} /\ \A c \in Calls : call[c] = NoCall
  BY DEF QueueInv, AcceptedNotLost, OnePublisherCall, Start
<1>3. TypeOK'
  BY <1>1 DEF QueueInv, TypeOK, Start
<1> QED
  BY <1>1, <1>2, <1>3 DEF QueueInv, OnePublisherCall, AcceptedNotLost, QueueAgrees,
    TimerOK, WorkScheduled, Running, Start

(* Enqueue, called by anyone: a queue it leaves without a timer is one it  *)
(* returned from with an error.                                            *)
LEMMA EnqueueStep ==
  ASSUME QueueInv, NEW good \in SUBSET Paths, NEW bad \in BOOLEAN,
         Accepting, worker' = EnqueueInto(worker, good, bad), Accept(worker', good, bad),
         chain' \in [Stages -> Nat], UNCHANGED <<starts, faults, loose, fired, call, stopper>>
  PROVE  QueueInv'
<1>1. worker \in Worker /\ worker.pendingSet = worker.pending
      /\ worker.queued \subseteq worker.pending
  BY WorkerTyped DEF QueueInv, Accepting, QueueAgrees
<1>2. /\ worker' \in Worker
      /\ worker'.gen = worker.gen /\ worker'.publishing = worker.publishing
      /\ worker'.stopping = worker.stopping
      /\ worker'.pending = worker.pending \cup good /\ worker'.pendingSet = worker'.pending
      /\ worker'.queued = worker.queued \/ worker'.queued = worker'.pending
      /\ worker.timer # "nil" => worker'.timer = worker.timer
      /\ worker'.timer # "nil" /\ worker.timer = "nil" =>
           worker'.timer = "armed" /\ worker'.pending # {} /\ ~worker'.publishing
      /\ ~bad => ~Schedulable(worker')
  BY <1>1, EnqueueIntoFacts
<1>3. TypeOK'
  BY <1>2 DEF QueueInv, TypeOK, Accept, Schedulable
<1>4. OnePublisherCall' /\ AcceptedNotLost' /\ QueueAgrees'
  BY <1>1, <1>2 DEF QueueInv, OnePublisherCall, AcceptedNotLost, QueueAgrees, Accept,
    Running, Accepting
<1>5. TimerOK'
  BY <1>1, <1>2 DEF QueueInv, TimerOK, Running, Accepting
<1>6. WorkScheduled'
  <2> SUFFICES ASSUME Running', ~worker'.publishing, worker'.pending # {},
                      worker'.timer # "armed", ~(fired > 0)
               PROVE  excused'
    BY DEF WorkScheduled
  <2>1. worker'.timer \in TimerStates
    BY <1>2 DEF Worker
  <2>2. worker'.timer = "nil"
    BY <1>2, <1>5, <2>1 DEF TimerOK, TimerStates
  <2>3. Schedulable(worker')
    BY <2>2 DEF Schedulable
  <2> QED
    BY <1>2, <2>3 DEF Accept
<1> QED
  BY <1>3, <1>4, <1>5, <1>6 DEF QueueInv

(* The timers: firing one leaves its callback behind.                      *)
LEMMA FireStep == QueueInv /\ (FireTimer \/ FireLooseTimer) => QueueInv'
<1> SUFFICES ASSUME QueueInv, FireTimer \/ FireLooseTimer PROVE QueueInv'
  OBVIOUS
<1>1. CASE FireTimer
  <2>1. worker \in Worker
    BY <1>1, WorkerTyped DEF QueueInv, FireTimer
  <2>2. /\ worker' \in Worker
        /\ worker'.gen = worker.gen /\ worker'.pending = worker.pending
        /\ worker'.pendingSet = worker.pendingSet /\ worker'.queued = worker.queued
        /\ worker'.timer = "fired" /\ worker'.publishing = worker.publishing
        /\ worker'.stopping = worker.stopping
    BY <1>1, <2>1 DEF Worker, FireTimer, TimerStates
  <2>3. fired \in Nat /\ fired' = fired + 1 /\ fired' > 0 /\ worker.timer = "armed"
    BY <1>1 DEF QueueInv, TypeOK, FireTimer
  <2>4. TypeOK'
    BY <1>1, <2>2, <2>3 DEF QueueInv, TypeOK, FireTimer
  <2> QED
    BY <1>1, <2>2, <2>3, <2>4 DEF QueueInv, OnePublisherCall, AcceptedNotLost, QueueAgrees,
      TimerOK, WorkScheduled, Running, FireTimer
<1>2. CASE FireLooseTimer
  BY <1>2 DEF QueueInv, TypeOK, OnePublisherCall, AcceptedNotLost, QueueAgrees,
    TimerOK, WorkScheduled, Running, FireLooseTimer
<1> QED
  BY <1>1, <1>2

(* publish that returns at once: the callback was not the worker's own.    *)
LEMMA PublishSkipStep == QueueInv /\ PublishSkip => QueueInv'
<1> SUFFICES ASSUME QueueInv, PublishSkip PROVE QueueInv'
  OBVIOUS
<1>1. TypeOK'
  BY DEF QueueInv, TypeOK, PublishSkip
<1>2. ~(Running /\ worker.timer # "nil")
  BY DEF QueueInv, TimerOK, PublishSkip, Publishable, Accepting
<1> QED
  BY <1>1, <1>2 DEF QueueInv, OnePublisherCall, AcceptedNotLost, QueueAgrees,
    TimerOK, WorkScheduled, Running, Accepting, Publishable, PublishSkip

(* publish up to the unlock: the batch leaves the queue with its call, and *)
(* no other call is in flight.                                             *)
LEMMA PublishBeginStep ==
  ASSUME QueueInv, NEW c \in Calls, PublishBegin(c)
  PROVE  QueueInv'
<1>1. worker \in Worker /\ Running /\ ~worker.publishing /\ worker.gen # 0
  BY WorkerTyped DEF QueueInv, PublishBegin, Publishable, Accepting, Running
<1>2. /\ worker' \in Worker
      /\ worker'.gen = worker.gen /\ worker'.pending = {} /\ worker'.pendingSet = {}
      /\ worker'.queued = {} /\ worker'.timer = "nil" /\ worker'.publishing = TRUE
  BY <1>1 DEF PublishBegin, TakeQueue, Worker, TimerStates
<1>3. \A d \in Calls : call[d] = NoCall
  BY <1>1 DEF QueueInv, OnePublisherCall
<1>4. /\ call' \in [Calls -> [gen : 0..MaxStarts, batch : SUBSET Paths]]
      /\ call'[c].gen = worker.gen
      /\ \A d \in Calls \ {c} : call'[d] = NoCall
  <2>1. [gen |-> worker.gen, batch |-> worker.pending]
          \in [gen : 0..MaxStarts, batch : SUBSET Paths]
    BY <1>1, ManagerAssumption DEF Worker
  <2> QED
    BY <2>1, <1>3 DEF QueueInv, TypeOK, PublishBegin
<1>5. due' = {}
  BY <1>1 DEF QueueInv, AcceptedNotLost, PublishBegin
<1>6. TypeOK'
  <2>1. fired' \in Nat /\ loose' \in Nat
    BY DEF QueueInv, TypeOK, PublishBegin
  <2>2. excused' \in BOOLEAN
    BY DEF PublishBegin
  <2>3. /\ starts' \in 0..MaxStarts /\ faults' \in 0..MaxFaults
        /\ stopper' \in [Stoppers -> {"idle", "calling", "waiting"}]
        /\ chain' \in [Stages -> Nat]
    BY DEF QueueInv, TypeOK, PublishBegin
  <2> QED
    BY <1>2, <1>4, <1>5, <2>1, <2>2, <2>3 DEF TypeOK
<1>7. OnePublisherCall'
  BY <1>1, <1>2, <1>4 DEF OnePublisherCall, Running
<1> QED
  BY <1>1, <1>2, <1>5, <1>6, <1>7 DEF QueueInv, AcceptedNotLost, QueueAgrees, TimerOK,
    WorkScheduled, Running

(* publish after the publisher returned: a failed batch is back in the     *)
(* queue, together with what arrived meanwhile, and the queue has a timer. *)
LEMMA PublishEndStep ==
  ASSUME QueueInv, NEW c \in Calls, NEW ok \in BOOLEAN, PublishEnd(c, ok)
  PROVE  QueueInv'
<1> DEFINE w == Requeue(worker, call[c].batch, ok)
<1>1. /\ worker \in Worker /\ Running /\ worker.publishing
      /\ call[c].gen = worker.gen
      /\ \A d \in Calls \ {c} : call[d] = NoCall
      /\ worker.pendingSet = worker.pending /\ worker.queued \subseteq worker.pending
      /\ worker.timer = "nil" /\ due \subseteq worker.pending
  BY WorkerTyped DEF QueueInv, PublishEnd, OnePublisherCall, QueueAgrees, TimerOK,
    AcceptedNotLost
<1>2. call[c] \in [gen : 0..MaxStarts, batch : SUBSET Paths]
  BY DEF QueueInv, TypeOK
<1>3. call[c].batch \in SUBSET Paths
  BY <1>2
<1>4. Requeued(worker, call[c].batch, ok, w)
  <2>1. CanRequeue(worker, call[c].batch, ok)
    BY <1>1, <1>3 DEF CanRequeue
  <2> QED
    BY <2>1, RequeueFacts
<1>5. /\ worker' = IF Schedulable(w) /\ ~w.stopping
                    THEN [w EXCEPT !.timer = "armed"] ELSE w
      /\ due' = IF ok THEN due ELSE due \cup call[c].batch
      /\ excused' = IF Schedulable(w) /\ ~w.stopping THEN FALSE ELSE excused
  BY <1>1 DEF PublishEnd
<1> HIDE DEF w
<1>6. /\ worker' \in Worker
      /\ worker'.gen = worker.gen /\ ~worker'.publishing
      /\ worker'.stopping = worker.stopping /\ worker'.pending = w.pending
      /\ worker'.pendingSet = worker'.pending /\ worker'.queued \subseteq worker'.pending
      /\ worker'.timer = "nil" \/ worker'.timer = "armed"
      /\ worker'.timer = "armed" <=> w.pending # {} /\ ~w.stopping
  BY <1>1, <1>4, <1>5 DEF Requeued, Worker, TimerStates, Schedulable
<1>7. \A d \in Calls : call'[d] = NoCall
  BY <1>1 DEF QueueInv, TypeOK, PublishEnd
<1>8. TypeOK'
  <2>1. call' \in [Calls -> [gen : 0..MaxStarts, batch : SUBSET Paths]]
    <3>1. NoCall \in [gen : 0..MaxStarts, batch : SUBSET Paths]
      BY ManagerAssumption DEF NoCall
    <3> QED
      BY <3>1 DEF QueueInv, TypeOK, PublishEnd
  <2>2. stopper' \in [Stoppers -> {"idle", "calling", "waiting"}]
    BY DEF QueueInv, TypeOK, PublishEnd, Release
  <2> QED
    BY <1>3, <1>5, <1>6, <2>1, <2>2 DEF QueueInv, TypeOK, PublishEnd
<1>9. AcceptedNotLost'
  BY <1>1, <1>4, <1>5, <1>6 DEF Requeued, AcceptedNotLost, Running
<1> QED
  BY <1>1, <1>4, <1>6, <1>7, <1>8, <1>9 DEF Requeued, QueueInv, OnePublisherCall,
    QueueAgrees, TimerOK, WorkScheduled, Running

(* Stop: a worker is removed only when no call works for it, and the error *)
(* return is the only way it goes on without its timers.                   *)
LEMMA StopStep ==
  ASSUME QueueInv, NEW s \in Stoppers,
         \/ StopCall(s) \/ StopNothing(s) \/ StopWait(s) \/ StopRemove(s)
         \/ \E held \in BOOLEAN : StopFail(s, held)
  PROVE  QueueInv'
<1>1. CASE StopCall(s) \/ StopNothing(s)
  <2>1. TypeOK'
    BY <1>1 DEF QueueInv, TypeOK, StopCall, StopNothing, Return
  <2> QED
    BY <1>1, <2>1 DEF QueueInv, OnePublisherCall, AcceptedNotLost, QueueAgrees,
      TimerOK, WorkScheduled, Running, StopCall, StopNothing
<1>2. CASE StopWait(s)
  <2>1. worker \in Worker
    BY <1>2, WorkerTyped DEF QueueInv, StopWait
  <2>2. /\ worker' \in Worker
        /\ worker'.gen = worker.gen /\ worker'.pending = worker.pending
        /\ worker'.pendingSet = worker.pendingSet /\ worker'.queued = worker.queued
        /\ worker'.timer = "nil" /\ worker'.publishing = worker.publishing
        /\ worker'.stopping = TRUE
    BY <1>2, <2>1 DEF Worker, StopWait, Halted, TimerStates
  <2>3. TypeOK'
    BY <1>2, <2>2 DEF QueueInv, TypeOK, StopWait
  <2> QED
    BY <1>2, <2>2, <2>3 DEF QueueInv, OnePublisherCall, AcceptedNotLost, QueueAgrees,
      TimerOK, WorkScheduled, Running, StopWait
<1>3. CASE StopRemove(s)
  <2>1. TypeOK' /\ ~Running'
    BY <1>3 DEF QueueInv, TypeOK, StopRemove, Return, Running, NoWorker
  <2>2. \A c \in Calls : call[c] = NoCall
    BY <1>3 DEF QueueInv, OnePublisherCall, StopRemove
  <2> QED
    BY <1>3, <2>1, <2>2 DEF QueueInv, OnePublisherCall, AcceptedNotLost, QueueAgrees,
      TimerOK, WorkScheduled, StopRemove
<1>4. ASSUME NEW held \in BOOLEAN, StopFail(s, held)
      PROVE  QueueInv'
  <2>1. worker \in Worker
    BY <1>4, WorkerTyped DEF QueueInv, StopFail
  <2>2. /\ worker' \in Worker
        /\ worker'.gen = worker.gen /\ worker'.pending = worker.pending
        /\ worker'.pendingSet = worker.pendingSet /\ worker'.queued = worker.queued
        /\ worker'.timer = "nil" /\ worker'.publishing = worker.publishing
    BY <1>4, <2>1 DEF Worker, StopFail, Halted, TimerStates
  <2>3. TypeOK'
    <3>1. faults' \in 0..MaxFaults
      <4>1. faults \in 0..MaxFaults
        BY DEF QueueInv, TypeOK
      <4>2. faults < MaxFaults /\ faults' = faults + 1
        BY <1>4 DEF StopFail
      <4> QED
        BY <4>1, <4>2, ManagerAssumption
    <3>2. excused' \in BOOLEAN
      BY <1>4 DEF StopFail
    <3>3. /\ starts' \in 0..MaxStarts /\ loose' \in Nat /\ fired' \in Nat
          /\ call' \in [Calls -> [gen : 0..MaxStarts, batch : SUBSET Paths]]
          /\ stopper' \in [Stoppers -> {"idle", "calling", "waiting"}]
          /\ chain' \in [Stages -> Nat] /\ due' \subseteq Paths
      BY <1>4 DEF QueueInv, TypeOK, StopFail, Return
    <3> QED
      BY <2>2, <3>1, <3>2, <3>3 DEF TypeOK
  <2> QED
    BY <1>4, <2>2, <2>3 DEF QueueInv, OnePublisherCall, AcceptedNotLost, QueueAgrees,
      TimerOK, WorkScheduled, Running, StopFail
<1> QED
  BY <1>1, <1>2, <1>3, <1>4

-----------------------------------------------------------------------------
(* Every step preserves the queue's invariant.                             *)
LEMMA QueueStep == QueueInv /\ [Next]_vars => QueueInv'
<1> SUFFICES ASSUME QueueInv, [Next]_vars PROVE QueueInv'
  OBVIOUS
<1>t. TypeOK /\ chain \in [Stages -> Nat]
      /\ "loose" \in Stages /\ "fired" \in Stages /\ "scanning" \in Stages
      /\ "ok" \in Stages /\ "failed" \in Stages
  BY DEF QueueInv, TypeOK, Stages
<1>1. CASE Start
  BY <1>1, StartStep
<1>2. ASSUME NEW good \in SUBSET Paths, NEW bad \in BOOLEAN, Enqueue(good, bad)
      PROVE  QueueInv'
  BY <1>2, <1>t, EnqueueStep DEF Enqueue
<1>3. CASE FireTimer \/ FireLooseTimer
  BY <1>3, FireStep
<1>4. CASE PublishSkip
  BY <1>4, PublishSkipStep
<1>5. ASSUME NEW c \in Calls, PublishBegin(c) PROVE QueueInv'
  BY <1>5, PublishBeginStep
<1>6. ASSUME NEW c \in Calls, NEW ok \in BOOLEAN, PublishEnd(c, ok) PROVE QueueInv'
  BY <1>6, PublishEndStep
<1>7. CASE FireReconcileTimer
  <2>1. worker \in Worker
    BY <1>7, WorkerTyped DEF QueueInv, FireReconcileTimer
  <2>2. worker.error \in {"none", "publish", "reconcile"} /\ "fired" \in TimerStates
        /\ worker' = [worker EXCEPT !.reconcileTimer = "fired", !.error = worker.error]
    BY <1>7, <2>1 DEF Worker, FireReconcileTimer, TimerStates
  <2>3. chain' \in [Stages -> Nat] /\ Running
    BY <1>7, <1>t DEF FireReconcileTimer
  <2>4. UNCHANGED <<starts, faults, loose, fired, call, stopper, due, excused>>
    BY <1>7 DEF FireReconcileTimer
  <2>5. Bookkeeping
    BY <2>2, <2>3, <2>4 DEF Bookkeeping
  <2> QED
    BY <2>5, BookkeepingStep
<1>8. CASE FireLooseReconcileTimer
  <2>1. Bookkeeping
    BY <1>8, <1>t, MoveTyped DEF Bookkeeping, FireLooseReconcileTimer
  <2> QED
    BY <2>1, BookkeepingStep
<1>9. CASE ReconcileSkip
  <2>1. Bookkeeping
    BY <1>9, <1>t DEF Bookkeeping, ReconcileSkip
  <2> QED
    BY <2>1, BookkeepingStep
<1>10. CASE ReconcileBegin
  <2>1. worker \in Worker /\ Running
    BY <1>10, WorkerTyped DEF QueueInv, ReconcileBegin, Accepting
  <2>2. worker.error \in {"none", "publish", "reconcile"} /\ "nil" \in TimerStates
        /\ worker' = [worker EXCEPT !.reconcileTimer = "nil", !.error = worker.error]
    BY <1>10, <2>1 DEF Worker, ReconcileBegin, TimerStates
  <2>3. Move("fired", "scanning") \in [Stages -> Nat]
    BY <1>10, <1>t, MoveTyped DEF ReconcileBegin
  <2>4. chain' \in [Stages -> Nat]
    BY <1>10, <1>t, <2>3 DEF ReconcileBegin
  <2>5. Bookkeeping
    BY <1>10, <2>1, <2>2, <2>4 DEF Bookkeeping, ReconcileBegin
  <2> QED
    BY <2>5, BookkeepingStep
<1>11. ASSUME NEW good \in (SUBSET Paths) \ {{}}, NEW bad \in BOOLEAN,
              ReconcileEnqueue(good, bad)
       PROVE  QueueInv'
  <2>1. Move("scanning", "failed") \in [Stages -> Nat] /\ Move("scanning", "ok") \in [Stages -> Nat]
    BY <1>11, <1>t, MoveTyped DEF ReconcileEnqueue
  <2>2. CASE Accepting
    <3>1. chain' \in [Stages -> Nat]
      BY <1>11, <2>1, <2>2 DEF ReconcileEnqueue
    <3> QED
      BY <1>11, <2>2, <3>1, EnqueueStep DEF ReconcileEnqueue
  <2>3. CASE ~Accepting
    <3>1. Bookkeeping
      BY <1>11, <2>1, <2>3 DEF Bookkeeping, ReconcileEnqueue
    <3> QED
      BY <3>1, BookkeepingStep
  <2> QED
    BY <2>2, <2>3
<1>12. ASSUME NEW result \in {"ok", "failed"}, ReconcileNothing(result) PROVE QueueInv'
  <2>1. Bookkeeping
    BY <1>12, <1>t, MoveTyped DEF Bookkeeping, ReconcileNothing
  <2> QED
    BY <2>1, BookkeepingStep
<1>13. ASSUME NEW result \in {"ok", "failed"}, ReconcileEnd(result) PROVE QueueInv'
  <2>1. chain[result] > 0 /\ result \in Stages /\ result # "loose" /\ "loose" \in Stages
    BY <1>13, <1>t DEF ReconcileEnd
  <2>2. chain' \in [Stages -> Nat]
    BY <1>13, <1>t, <2>1 DEF ReconcileEnd
  <2>3. CASE Accepting
    <3>1. worker \in Worker /\ Running
      BY <2>3, WorkerTyped DEF QueueInv, Accepting
    <3> DEFINE e == IF result = "failed" THEN "reconcile" ELSE worker.error
    <3>2. e \in {"none", "publish", "reconcile"} /\ "armed" \in TimerStates
      BY <3>1 DEF Worker, TimerStates
    <3>3. worker' = [worker EXCEPT !.reconcileTimer = "armed", !.error = e]
      BY <1>13, <2>3, <3>1 DEF ReconcileEnd, Rearm, Worker
    <3>4. Bookkeeping
      BY <1>13, <2>2, <3>1, <3>2, <3>3 DEF Bookkeeping, ReconcileEnd
    <3> QED
      BY <3>4, BookkeepingStep
  <2>4. CASE ~Accepting
    <3>1. Bookkeeping
      BY <1>13, <2>2, <2>4 DEF Bookkeeping, ReconcileEnd
    <3> QED
      BY <3>1, BookkeepingStep
  <2> QED
    BY <2>3, <2>4
<1>14. ASSUME NEW s \in Stoppers,
              \/ StopCall(s) \/ StopNothing(s) \/ StopWait(s) \/ StopRemove(s)
              \/ \E held \in BOOLEAN : StopFail(s, held)
       PROVE  QueueInv'
  BY <1>14, StopStep
<1>15. CASE UNCHANGED vars
  BY <1>15 DEF vars, QueueInv, TypeOK, OnePublisherCall, AcceptedNotLost, QueueAgrees,
    TimerOK, WorkScheduled, Running
<1> QED
  BY <1>1, <1>2, <1>3, <1>4, <1>5, <1>6, <1>7, <1>8, <1>9, <1>10, <1>11, <1>12, <1>13,
     <1>14, <1>15 DEF Next

(* Every reachable state satisfies the queue's invariant.                  *)
THEOREM QueueInvariance == Spec => []QueueInv
BY QueueInit, QueueStep, PTL DEF Spec

(* Every variable of the manager keeps its type; in particular retryDelay  *)
(* never exceeds retryMax.                                                 *)
THEOREM ManagerTyped == Spec => []TypeOK
<1>1. QueueInv => TypeOK
  BY DEF QueueInv
<1> QED
  BY <1>1, QueueInvariance, PTL

(* The publisher is never called twice at once, and never for a worker     *)
(* that Stop has removed (queue.go publish, lifecycle.go Stop).            *)
THEOREM OnePublisherCallAlways == Spec => []OnePublisherCall
<1>1. QueueInv => OnePublisherCall
  BY DEF QueueInv
<1> QED
  BY <1>1, QueueInvariance, PTL

(* A path whose latest accepted event no publication covers is still in    *)
(* the queue (queue.go Enqueue, publish).                                  *)
THEOREM AcceptedNotLostAlways == Spec => []AcceptedNotLost
<1>1. QueueInv => AcceptedNotLost
  BY DEF QueueInv
<1> QED
  BY <1>1, QueueInvariance, PTL

(* pendingSet and QueuedPaths never drift from the queue.                  *)
THEOREM QueueAgreesAlways == Spec => []QueueAgrees
<1>1. QueueInv => QueueAgrees
  BY DEF QueueInv
<1> QED
  BY <1>1, QueueInvariance, PTL

(* A queue that nobody publishes has a timer or a callback under way,      *)
(* unless an error return left it without one (queue.go Enqueue, publish). *)
THEOREM WorkScheduledAlways == Spec => []WorkScheduled
<1>1. QueueInv => WorkScheduled
  BY DEF QueueInv
<1> QED
  BY <1>1, QueueInvariance, PTL

-----------------------------------------------------------------------------
(* Reconciliation                                                          *)

ReconcileInv == ChainsBounded /\ ReconciliationAlive

(* The counters one by one, so that a sum can be compared before and after.*)
ChainTyped ==
  /\ chain \in [Stages -> Nat]
  /\ chain["loose"] \in Nat /\ chain["fired"] \in Nat /\ chain["scanning"] \in Nat
  /\ chain["ok"] \in Nat /\ chain["failed"] \in Nat

(* Every step preserves the bound on the chains and keeps one of them      *)
(* alive: a callback that ends without a successor found the worker gone   *)
(* or stopping, and stopping is only taken back by a Stop that failed.     *)
LEMMA ReconcileStep == QueueInv /\ ReconcileInv /\ [Next]_vars => ReconcileInv'
<1> SUFFICES ASSUME QueueInv, ReconcileInv, [Next]_vars PROVE ReconcileInv'
  OBVIOUS
<1>t. TypeOK
  BY DEF QueueInv
<1>w. /\ Running => worker \in Worker
      /\ ~Running => worker = NoWorker
      /\ starts \in Nat /\ faults \in Nat
  BY <1>t, WorkerTyped, ManagerAssumption DEF TypeOK
<1>c. ChainTyped
  BY <1>t DEF TypeOK, ChainTyped, Stages
<1> USE DEF ReconcileInv, ChainsBounded, ReconciliationAlive, ChainTyped, Stages
<1>1. CASE Start
  <2>1. /\ worker'.gen = starts + 1 /\ starts' = starts + 1
        /\ worker'.reconcileTimer = IF Reconciles THEN "armed" ELSE "nil"
        /\ chain' = chain /\ ~Running
    BY <1>1 DEF Start
  <2> QED
    BY <1>w, <1>c, <2>1 DEF Running
<1>2. CASE \E good \in SUBSET Paths, bad \in BOOLEAN : Enqueue(good, bad)
  <2>1. PICK good \in SUBSET Paths, bad \in BOOLEAN : Enqueue(good, bad)
    BY <1>2
  <2>2. /\ worker'.gen = worker.gen /\ worker'.stopping = worker.stopping
        /\ worker'.reconcileTimer = worker.reconcileTimer
    BY <1>w, <2>1 DEF Enqueue, Accepting, EnqueueInto, Worker
  <2> QED
    BY <1>w, <1>c, <2>1, <2>2 DEF Enqueue, Running
<1>3. CASE FireTimer
  <2>1. /\ worker'.gen = worker.gen /\ worker'.stopping = worker.stopping
        /\ worker'.reconcileTimer = worker.reconcileTimer
    BY <1>w, <1>3 DEF FireTimer, Worker
  <2> QED
    BY <1>w, <1>c, <1>3, <2>1 DEF FireTimer, Running
<1>4. CASE FireLooseTimer \/ PublishSkip
  BY <1>4 DEF FireLooseTimer, PublishSkip, Running
<1>5. CASE \E c \in Calls : PublishBegin(c)
  <2>1. PICK c \in Calls : PublishBegin(c)
    BY <1>5
  <2>2. /\ worker'.gen = worker.gen /\ worker'.stopping = worker.stopping
        /\ worker'.reconcileTimer = worker.reconcileTimer
    BY <1>w, <2>1 DEF PublishBegin, Publishable, Accepting, TakeQueue, Worker
  <2> QED
    BY <1>w, <1>c, <2>1, <2>2 DEF PublishBegin, Running
<1>6. CASE \E c \in Calls, ok \in BOOLEAN : PublishEnd(c, ok)
  <2>1. PICK c \in Calls, ok \in BOOLEAN : PublishEnd(c, ok)
    BY <1>6
  <2>2. Running /\ call[c].gen = worker.gen
    BY <2>1 DEF QueueInv, OnePublisherCall, PublishEnd
  <2>3. /\ worker'.gen = worker.gen /\ worker'.stopping = worker.stopping
        /\ worker'.reconcileTimer = worker.reconcileTimer
    BY <1>w, <2>1, <2>2 DEF PublishEnd, Requeue, Worker
  <2> QED
    BY <1>w, <1>c, <2>1, <2>3 DEF PublishEnd, Running
<1>7. CASE FireReconcileTimer
  <2>1. /\ worker'.gen = worker.gen /\ worker'.reconcileTimer = "fired"
        /\ worker.reconcileTimer = "armed" /\ Running /\ starts' = starts
    BY <1>w, <1>7 DEF FireReconcileTimer, Worker
  <2>2. /\ chain'["fired"] = chain["fired"] + 1 /\ chain'["loose"] = chain["loose"]
        /\ chain'["scanning"] = chain["scanning"] /\ chain'["ok"] = chain["ok"]
        /\ chain'["failed"] = chain["failed"]
    BY <1>c, <1>7 DEF FireReconcileTimer
  <2> QED
    BY <1>w, <1>c, <2>1, <2>2 DEF Running
<1>8. CASE FireLooseReconcileTimer
  <2>1. /\ chain'["fired"] = chain["fired"] + 1 /\ chain'["loose"] = chain["loose"] - 1
        /\ chain'["scanning"] = chain["scanning"] /\ chain'["ok"] = chain["ok"]
        /\ chain'["failed"] = chain["failed"]
    BY <1>c, <1>8 DEF FireLooseReconcileTimer, Move
  <2>2. worker' = worker /\ starts' = starts
    BY <1>8 DEF FireLooseReconcileTimer
  <2> QED
    BY <1>w, <1>c, <2>1, <2>2 DEF Running
<1>9. CASE ReconcileSkip
  <2>1. /\ chain'["fired"] = chain["fired"] - 1 /\ chain'["loose"] = chain["loose"]
        /\ chain'["scanning"] = chain["scanning"] /\ chain'["ok"] = chain["ok"]
        /\ chain'["failed"] = chain["failed"]
    BY <1>c, <1>9 DEF ReconcileSkip
  <2>2. worker' = worker /\ starts' = starts /\ ~Accepting
    BY <1>9 DEF ReconcileSkip
  <2> QED
    BY <1>w, <1>c, <2>1, <2>2 DEF Running, Accepting
<1>10. CASE ReconcileBegin
  <2>1. /\ worker'.gen = worker.gen /\ worker'.reconcileTimer = "nil"
        /\ Running /\ starts' = starts
    BY <1>w, <1>10 DEF ReconcileBegin, Accepting, Worker
  <2>2. /\ chain'["fired"] = chain["fired"] - 1
        /\ chain'["loose"] = chain["loose"]
             + (IF worker.reconcileTimer = "armed" THEN 1 ELSE 0)
        /\ chain'["scanning"] = chain["scanning"] + 1 /\ chain'["ok"] = chain["ok"]
        /\ chain'["failed"] = chain["failed"]
    BY <1>c, <1>10 DEF ReconcileBegin, Move
  <2> QED
    BY <1>w, <1>c, <2>1, <2>2 DEF Running
<1>11. CASE \/ \E good \in (SUBSET Paths) \ {{}}, bad \in BOOLEAN : ReconcileEnqueue(good, bad)
            \/ \E result \in {"ok", "failed"} : ReconcileNothing(result)
  <2>1. PICK result \in {"ok", "failed"} : chain' = Move("scanning", result)
    BY <1>11 DEF ReconcileEnqueue, ReconcileNothing
  <2>2. chain["scanning"] > 0 /\ starts' = starts /\ faults' = faults
    BY <1>11 DEF ReconcileEnqueue, ReconcileNothing
  <2>3. worker' = worker \/ (/\ Running /\ worker'.gen = worker.gen
                              /\ worker'.stopping = worker.stopping
                              /\ worker'.reconcileTimer = worker.reconcileTimer)
    BY <1>w, <1>11 DEF ReconcileEnqueue, ReconcileNothing, Accepting, EnqueueInto, Worker
  <2>4. /\ chain'["fired"] = chain["fired"] /\ chain'["loose"] = chain["loose"]
        /\ chain'["scanning"] = chain["scanning"] - 1
        /\ chain'["ok"] + chain'["failed"] = chain["ok"] + chain["failed"] + 1
        /\ chain'[result] = chain[result] + 1
        /\ chain'["ok"] \in Nat /\ chain'["failed"] \in Nat /\ chain[result] \in Nat
    BY <1>c, <2>1, <2>2 DEF Move
  <2>5. ChainsBounded'
    BY <1>w, <1>c, <2>2, <2>3, <2>4 DEF Running
  <2>6. ReconciliationAlive'
    BY <2>1, <2>4
  <2> QED
    BY <2>5, <2>6
<1>12. CASE \E result \in {"ok", "failed"} : ReconcileEnd(result)
  <2>1. PICK result \in {"ok", "failed"} : ReconcileEnd(result)
    BY <1>12
  <2>2. starts' = starts /\ chain[result] > 0 /\ result # "loose"
    BY <2>1 DEF ReconcileEnd
  <2>3. CASE Accepting
    <3>1. /\ worker'.gen = worker.gen /\ worker'.reconcileTimer = "armed" /\ Running
      BY <1>w, <2>1, <2>3 DEF ReconcileEnd, Accepting, Rearm, Worker
    <3>2. chain' = [chain EXCEPT
                     ![result] = @ - 1,
                     !["loose"] = IF worker.reconcileTimer = "armed" THEN @ + 1 ELSE @]
      BY <2>1, <2>3 DEF ReconcileEnd
    <3>3. /\ chain'["fired"] = chain["fired"] /\ chain'["scanning"] = chain["scanning"]
          /\ chain'["loose"] = chain["loose"]
               + (IF worker.reconcileTimer = "armed" THEN 1 ELSE 0)
          /\ chain'["ok"] + chain'["failed"] = chain["ok"] + chain["failed"] - 1
          /\ chain'["ok"] \in Nat /\ chain'["failed"] \in Nat
      BY <1>c, <2>2, <3>2
    <3> QED
      BY <1>w, <1>c, <2>2, <3>1, <3>3 DEF Running
  <2>4. CASE ~Accepting
    <3>1. /\ chain'["fired"] = chain["fired"] /\ chain'["scanning"] = chain["scanning"]
          /\ chain'["loose"] = chain["loose"] /\ worker' = worker
          /\ chain'["ok"] + chain'["failed"] = chain["ok"] + chain["failed"] - 1
          /\ chain'["ok"] \in Nat /\ chain'["failed"] \in Nat
      BY <1>c, <2>1, <2>2, <2>4 DEF ReconcileEnd
    <3> QED
      BY <1>w, <1>c, <2>2, <2>4, <3>1 DEF Running, Accepting
  <2> QED
    BY <2>3, <2>4
<1>13. ASSUME NEW s \in Stoppers,
              \/ StopCall(s) \/ StopNothing(s) \/ StopWait(s) \/ StopRemove(s)
              \/ \E held \in BOOLEAN : StopFail(s, held)
       PROVE  ReconcileInv'
  <2>1. chain' = chain /\ starts' = starts
    BY <1>13 DEF StopCall, StopNothing, StopWait, StopRemove, StopFail
  <2>2. \/ worker' = worker /\ faults' = faults
        \/ worker' = NoWorker
        \/ worker'.reconcileTimer = "nil" /\ (worker'.stopping \/ faults' = faults + 1)
    BY <1>w, <1>13 DEF StopCall, StopNothing, StopWait, StopRemove, StopFail, Halted, Worker
  <2>3. CASE worker' = worker /\ faults' = faults
    BY <2>1, <2>3 DEF Running
  <2>4. CASE worker' = NoWorker
    <3>1. ~Running'
      BY <2>4 DEF Running, NoWorker
    <3> QED
      BY <1>w, <1>c, <2>1, <3>1
  <2>5. CASE worker'.reconcileTimer = "nil" /\ (worker'.stopping \/ faults' = faults + 1)
    BY <1>w, <1>c, <2>1, <2>5
  <2> QED
    BY <2>2, <2>3, <2>4, <2>5
<1>14. CASE UNCHANGED vars
  BY <1>14 DEF vars, Running
<1> QED
  BY <1>1, <1>2, <1>3, <1>4, <1>5, <1>6, <1>7, <1>8, <1>9, <1>10, <1>11, <1>12, <1>13,
     <1>14 DEF Next

(* Both facts about reconciliation hold in every reachable state.          *)
THEOREM ReconcileInvariance == Spec => []ReconcileInv
<1>1. Init => ReconcileInv
  BY DEF Init, ReconcileInv, ChainsBounded, ReconciliationAlive, Running, NoWorker, Stages
<1> QED
  BY <1>1, ReconcileStep, QueueInvariance, PTL DEF Spec

(* Stale callbacks never leave more reconciliations running than there     *)
(* were workers (queue.go reconcileWorkspace).                             *)
THEOREM ChainsBoundedAlways == Spec => []ChainsBounded
<1>1. ReconcileInv => ChainsBounded
  BY DEF ReconcileInv
<1> QED
  BY <1>1, ReconcileInvariance, PTL

(* A running worker keeps being reconciled as long as no Stop failed       *)
(* (queue.go reconcileWorkspace).                                          *)
THEOREM ReconciliationAliveAlways == Spec => []ReconciliationAlive
<1>1. ReconcileInv => ReconciliationAlive
  BY DEF ReconcileInv
<1> QED
  BY <1>1, ReconcileInvariance, PTL

(* One publisher call at a time, over well-typed state (queue.go publish). *)
THEOREM PublisherSoundAlways == Spec => []PublisherSound
BY ManagerTyped, OnePublisherCallAlways, PTL DEF PublisherSound

(* No accepted path is lost, and nothing drifts from the queue (queue.go   *)
(* Enqueue, publish).                                                      *)
THEOREM QueueSoundAlways == Spec => []QueueSound
BY AcceptedNotLostAlways, QueueAgreesAlways, PTL DEF QueueSound

(* Reconciliations neither multiply nor end (queue.go reconcileWorkspace). *)
THEOREM ReconciliationSoundAlways == Spec => []ReconciliationSound
BY ChainsBoundedAlways, ReconciliationAliveAlways, PTL DEF ReconciliationSound

-----------------------------------------------------------------------------
(* The control protocol                                                    *)

(* Between Start and Stop a server holds the lock, and nobody else is      *)
(* there: all the other parts rest on this one.                            *)
LockInv == \A p \in Servers : pc[p] \in Owning <=> lock = p

(* The file, by the stage of the process that owns the workspace.          *)
EndpointInv ==
  /\ \A p \in Servers : pc[p] \in Listening => endpoint = p
  /\ \A p \in Servers : pc[p] \in {"cleared", "closed", "stopping"} => endpoint = None
  /\ endpoint # None => leftover \/ pc[endpoint] \in Listening

ControlInv == ControlTypeOK /\ LockInv /\ EndpointInv

(* The initial state has no process and no file.                           *)
LEMMA ControlInitially == ControlInit => ControlInv
<1> SUFFICES ASSUME ControlInit PROVE ControlInv
  OBVIOUS
<1>1. ControlTypeOK
  BY DEF ControlInit, ControlTypeOK, Points, Client, Idle
<1>2. LockInv /\ EndpointInv
  BY ControlAssumption DEF ControlInit, LockInv, EndpointInv, Owning, Listening, Points
<1> QED
  BY <1>1, <1>2 DEF ControlInv

(* What may happen to a client's connection keeps the clients typed.       *)
LEMMA FailedTyped ==
  ASSUME NEW k \in Client
  PROVE  Failed(k) \subseteq Client
<1>1. Idle \in Client /\ [k EXCEPT !.at = "dialing"] \in Client
      /\ [k EXCEPT !.at = "spawning"] \in Client
  BY DEF Client, Idle
<1> QED
  BY <1>1 DEF Failed

(* Every step keeps the types.                                             *)
LEMMA TypeStep == ControlTypeOK /\ [ControlNext]_controlVars => ControlTypeOK'
<1> SUFFICES ASSUME ControlTypeOK, [ControlNext]_controlVars PROVE ControlTypeOK'
  OBVIOUS
<1> USE DEF ControlTypeOK, Goto
<1>1. ASSUME NEW p \in Servers, Launch(p) \/ Acquire(p) \/ RemoveStale(p) \/ Listen(p)
      PROVE  ControlTypeOK'
  BY <1>1 DEF Launch, Acquire, RemoveStale, Listen, Points
<1>2. ASSUME NEW p \in Servers,
             IdleTimeout(p) \/ RemoveEndpoint(p) \/ StopManager(p)
      PROVE  ControlTypeOK'
  BY <1>2 DEF IdleTimeout, RemoveEndpoint, StopManager, Points
<1>3. ASSUME NEW p \in Servers, CloseListener(p) PROVE ControlTypeOK'
  BY <1>3 DEF CloseListener, Disconnected, Points
<1>4. ASSUME NEW p \in Servers, Crash(p) PROVE ControlTypeOK'
  <2>1. /\ pc' \in [Servers -> Points] /\ lock' \in Servers \cup {None}
        /\ endpoint' \in Servers \cup {None} /\ client' \in [Clients -> Client]
        /\ queue' \in [Servers -> SUBSET Clients]
    BY <1>4 DEF Crash, Disconnected, Points
  <2>2. leftover' \in BOOLEAN
    BY <1>4 DEF Crash
  <2> QED
    BY <2>1, <2>2
<1>5. ASSUME NEW p \in Servers, NEW c \in Clients, Handle(p, c) PROVE ControlTypeOK'
  BY <1>5 DEF Handle, Points, Client, Idle
<1>6. ASSUME NEW p \in Servers, NEW c \in Clients, Spawn(c, p) PROVE ControlTypeOK'
  BY <1>6 DEF Spawn, Points, Client
<1>7. ASSUME NEW c \in Clients, NEW op \in {"status", "stop", "start", "unsupported"},
             Ask(c, op)
      PROVE  ControlTypeOK'
  BY <1>7 DEF Ask, Client
<1>8. ASSUME NEW c \in Clients, Dial(c) PROVE ControlTypeOK'
  <2>1. CASE endpoint # None /\ pc[endpoint] \in Listening
    BY <1>8, <2>1 DEF Dial, Client
  <2>2. CASE ~(endpoint # None /\ pc[endpoint] \in Listening)
    <3>1. PICK k \in Failed(client[c]) : client' = [client EXCEPT ![c] = k]
      BY <1>8, <2>2 DEF Dial
    <3>2. k \in Client
      BY <3>1, FailedTyped
    <3> QED
      BY <1>8, <2>2, <3>1, <3>2 DEF Dial
  <2> QED
    BY <2>1, <2>2
<1>9. ASSUME NEW c \in Clients, HangUp(c) PROVE ControlTypeOK'
  BY <1>9 DEF HangUp, Client
<1>10. CASE UNCHANGED controlVars
  BY <1>10 DEF controlVars
<1> QED
  BY <1>1, <1>2, <1>3, <1>4, <1>5, <1>6, <1>7, <1>8, <1>9, <1>10 DEF ControlNext, ServerStep

(* A step of one process p moves p alone between the points.               *)
LEMMA StepOfServer ==
  ASSUME ControlTypeOK, NEW p \in Servers, NEW point, Goto(p, point)
  PROVE  /\ pc'[p] = point
         /\ \A q \in Servers \ {p} : pc'[q] = pc[q]
BY DEF ControlTypeOK, Goto

(* Every step keeps the lock with the one process between Start and Stop,  *)
(* and the file with its stage.                                            *)
LEMMA ControlStep == ControlInv /\ [ControlNext]_controlVars => ControlInv'
<1> SUFFICES ASSUME ControlInv, [ControlNext]_controlVars PROVE ControlInv'
  OBVIOUS
<1>t. /\ ControlTypeOK /\ ControlTypeOK' /\ None \notin Servers
      /\ endpoint \in Servers \cup {None} /\ lock \in Servers \cup {None}
  BY TypeStep, ControlAssumption DEF ControlInv, ControlTypeOK
<1> SUFFICES LockInv' /\ EndpointInv'
  BY <1>t DEF ControlInv
<1> USE DEF ControlInv, LockInv, EndpointInv, Owning, Listening, Points
<1>1. ASSUME NEW p \in Servers, Launch(p) PROVE LockInv' /\ EndpointInv'
  <2>1. pc'[p] = "booting" /\ \A q \in Servers \ {p} : pc'[q] = pc[q]
    BY <1>1, <1>t, StepOfServer DEF Launch
  <2>2. LockInv'
    BY <1>1, <1>t, <2>1 DEF Launch
  <2>3. EndpointInv'
    BY <1>1, <1>t, <2>1 DEF Launch
  <2> QED
    BY <2>2, <2>3
<1>2. ASSUME NEW p \in Servers, Acquire(p) PROVE LockInv' /\ EndpointInv'
  <2>1. CASE lock = None
    <3>1. pc'[p] = "owner" /\ \A q \in Servers \ {p} : pc'[q] = pc[q]
      BY <1>2, <2>1, <1>t, StepOfServer DEF Acquire
    <3>2. pc[p] = "booting" /\ lock' = p /\ endpoint' = endpoint /\ leftover' = leftover
      BY <1>2, <2>1 DEF Acquire
    <3> QED
      BY <1>t, <2>1, <3>1, <3>2
  <2>2. CASE lock # None
    <3>1. pc'[p] = "off" /\ \A q \in Servers \ {p} : pc'[q] = pc[q]
      BY <1>2, <2>2, <1>t, StepOfServer DEF Acquire
    <3>2. pc[p] = "booting" /\ lock' = lock /\ endpoint' = endpoint /\ leftover' = leftover
      BY <1>2, <2>2 DEF Acquire
    <3> QED
      BY <1>t, <3>1, <3>2
  <2> QED
    BY <2>1, <2>2
<1>3. ASSUME NEW p \in Servers, RemoveStale(p) PROVE LockInv' /\ EndpointInv'
  BY <1>3, <1>t, StepOfServer DEF RemoveStale
<1>4. ASSUME NEW p \in Servers, Listen(p) PROVE LockInv' /\ EndpointInv'
  BY <1>4, <1>t, StepOfServer DEF Listen
<1>5. ASSUME NEW p \in Servers, IdleTimeout(p) PROVE LockInv' /\ EndpointInv'
  BY <1>5, <1>t, StepOfServer DEF IdleTimeout
<1>6. ASSUME NEW p \in Servers, CloseListener(p) PROVE LockInv' /\ EndpointInv'
  BY <1>6, <1>t, StepOfServer DEF CloseListener
<1>7. ASSUME NEW p \in Servers, RemoveEndpoint(p) PROVE LockInv' /\ EndpointInv'
  BY <1>7, <1>t, StepOfServer DEF RemoveEndpoint
<1>8. ASSUME NEW p \in Servers, StopManager(p) PROVE LockInv' /\ EndpointInv'
  BY <1>8, <1>t, StepOfServer DEF StopManager
<1>9. ASSUME NEW p \in Servers, Crash(p) PROVE LockInv' /\ EndpointInv'
  <2>1. pc'[p] = "off" /\ \A q \in Servers \ {p} : pc'[q] = pc[q]
    BY <1>9, <1>t, StepOfServer DEF Crash
  <2>2. LockInv'
    BY <1>9, <1>t, <2>1 DEF Crash
  <2>3. EndpointInv'
    BY <1>9, <1>t, <2>1 DEF Crash
  <2> QED
    BY <2>2, <2>3
<1>10. ASSUME NEW p \in Servers, NEW c \in Clients, Handle(p, c)
       PROVE  LockInv' /\ EndpointInv'
  BY <1>10, <1>t, StepOfServer DEF Handle
<1>11. ASSUME NEW p \in Servers, NEW c \in Clients, Spawn(c, p)
       PROVE  LockInv' /\ EndpointInv'
  <2>1. pc'[p] = "booting" /\ \A q \in Servers \ {p} : pc'[q] = pc[q]
    BY <1>11, <1>t, StepOfServer DEF Spawn
  <2>2. pc[p] = "off" /\ lock' = lock /\ endpoint' = endpoint /\ leftover' = leftover
    BY <1>11 DEF Spawn
  <2> QED
    BY <1>t, <2>1, <2>2
<1>12. ASSUME NEW c \in Clients,
              \/ \E op \in {"status", "stop", "start", "unsupported"} : Ask(c, op)
              \/ Dial(c) \/ HangUp(c)
       PROVE  LockInv' /\ EndpointInv'
  BY <1>12 DEF Ask, Dial, HangUp
<1>13. CASE UNCHANGED controlVars
  BY <1>13 DEF controlVars
<1> QED
  BY <1>1, <1>2, <1>3, <1>4, <1>5, <1>6, <1>7, <1>8, <1>9, <1>10, <1>11, <1>12, <1>13
     DEF ControlNext, ServerStep

(* The invariant holds in every reachable state.                           *)
THEOREM ControlInvariance == ControlSpec => []ControlInv
BY ControlInitially, ControlStep, PTL DEF ControlSpec

(* Every variable of the control protocol keeps its type.                  *)
THEOREM ControlTyped == ControlSpec => []ControlTypeOK
<1>1. ControlInv => ControlTypeOK
  BY DEF ControlInv
<1> QED
  BY <1>1, ControlInvariance, PTL

(* The socket of a server in its accept loop is never removed by another   *)
(* process (control.go Serve).                                             *)
THEOREM EndpointLeadsToServerAlways == ControlSpec => []EndpointLeadsToServer
<1>1. ControlInv => EndpointLeadsToServer
  BY DEF ControlInv, EndpointInv, EndpointLeadsToServer, Listening
<1> QED
  BY <1>1, ControlInvariance, PTL

(* net.Listen never finds the path taken (control.go Serve).               *)
THEOREM BindSucceedsAlways == ControlSpec => []BindSucceeds
<1>1. ControlInv => BindSucceeds
  BY DEF ControlInv, EndpointInv, BindSucceeds
<1> QED
  BY <1>1, ControlInvariance, PTL

(* Only a crash leaves a socket file without an owner (control.go Serve).  *)
THEOREM CleanExitLeavesNothingAlways == ControlSpec => []CleanExitLeavesNothing
<1>1. ControlInv => CleanExitLeavesNothing
  <2> SUFFICES ASSUME ControlInv, lock = None, endpoint # None, ~leftover PROVE FALSE
    BY DEF CleanExitLeavesNothing
  <2>1. endpoint \in Servers /\ pc[endpoint] \in Owning
    BY DEF ControlInv, ControlTypeOK, EndpointInv, Listening, Owning, Points
  <2> QED
    BY <2>1 DEF ControlInv, LockInv
<1> QED
  BY <1>1, ControlInvariance, PTL

(* The socket file leads to the live server, is never in the way, and only *)
(* a crash leaves it behind (control.go Serve).                            *)
THEOREM EndpointSoundAlways == ControlSpec => []EndpointSound
BY EndpointLeadsToServerAlways, BindSucceedsAlways, CleanExitLeavesNothingAlways, PTL
DEF EndpointSound
=============================================================================
