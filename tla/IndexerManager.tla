---------------------------- MODULE IndexerManager ----------------------------
(***************************************************************************)
(* The workspace indexer's manager (indexer/queue.go and lifecycle.go) for *)
(* one workspace: changed paths are queued, a timer publishes them in      *)
(* batches outside the mutex, a failed batch is queued again, a second     *)
(* timer reconciles, and Stop waits for the publisher before the worker is *)
(* removed.  A step holds the manager's mutex, or is a timer firing.       *)
(*                                                                         *)
(* Timer callbacks find the worker by the workspace's name.  A callback    *)
(* that fired before Stop may therefore run after the next Start, on the   *)
(* new worker: the model keeps the callbacks apart from the worker, and    *)
(* the worker of a publisher call apart from the worker in the map.        *)
(*                                                                         *)
(* The order of the paths in a batch is left out: a batch is a set.  Delays*)
(* are left out too, except retryDelay, which is state.                    *)
(***************************************************************************)
EXTENDS Naturals

CONSTANTS
  Paths,        (* normalised event paths                                   *)
  Reconciles,   (* TRUE when the manager was given a reconciler             *)
  RetryBase,    (* retryBase and retryMax, in one unit of time              *)
  RetryMax,
  Stoppers,     (* goroutines that may be inside Stop at the same time      *)
  Calls,        (* room for publisher calls in flight                       *)
  MaxStarts,    (* bound: workers created                                   *)
  MaxFaults     (* bound: Stop calls whose Owner.Close fails                *)

ASSUME ManagerAssumption ==
  /\ Reconciles \in BOOLEAN
  /\ RetryBase \in Nat \ {0} /\ RetryMax \in Nat /\ RetryBase <= RetryMax
  /\ MaxStarts \in Nat /\ MaxFaults \in Nat

VARIABLES
  worker,     (* manager.workers[workspace], or NoWorker                    *)
  starts,     (* workers created so far; a worker's gen is its number       *)
  faults,     (* failed Owner.Close calls so far                            *)
  loose,      (* armed publish timers that worker.timer no longer names     *)
  fired,      (* publish callbacks that fired and wait for the mutex        *)
  call,       (* call[c]: the publisher call c, or NoCall                   *)
  stopper,    (* stopper[s]: where the goroutine s is inside Stop           *)
  chain,      (* reconciliation timers and callbacks, counted by stage      *)
  due,        (* history: paths of accepted events no publication covers    *)
  excused     (* history: an error return left the queue without a timer    *)

vars == <<worker, starts, faults, loose, fired, call, stopper, chain, due, excused>>

NoWorker == [gen |-> 0]
NoCall == [gen |-> 0, batch |-> {}]
Running == worker.gen # 0
Accepting == Running /\ ~worker.stopping

TimerStates == {"nil", "armed", "fired"}

Worker ==
  [gen : 1..MaxStarts, lock : BOOLEAN,
   pending : SUBSET Paths, pendingSet : SUBSET Paths, queued : SUBSET Paths,
   timer : TimerStates, reconcileTimer : TimerStates,
   publishing : BOOLEAN, stopping : BOOLEAN, retryDelay : 0..RetryMax,
   error : {"none", "publish", "reconcile"}]

(* Stages of a reconciliation: armed but no longer named by the worker,    *)
(* fired, inside the reconciler, and back with success or an error.        *)
Stages == {"loose", "fired", "scanning", "ok", "failed"}

-----------------------------------------------------------------------------
(* A worker whose publish timer may be set.                                *)
Schedulable(w) == w.pending # {} /\ ~w.publishing /\ w.timer = "nil"

(* Enqueue of the normalised paths `good', followed by an event that       *)
(* normalizeEventPath refuses when `bad'.                                  *)
EnqueueInto(w, good, bad) ==
  LET added == [w EXCEPT !.pending = @ \cup (good \ w.pendingSet),
                         !.pendingSet = @ \cup good]
      listed == [added EXCEPT !.queued = added.pending]
  IN IF bad THEN added
     ELSE IF Schedulable(listed) THEN [listed EXCEPT !.timer = "armed"]
     ELSE listed

(* The history variables after an Enqueue that left the worker w2.         *)
Accept(w2, good, bad) ==
  /\ due' = IF bad THEN due ELSE due \cup good
  /\ excused' = (Schedulable(w2) /\ (bad \/ excused))

-----------------------------------------------------------------------------
(* Manager.Start: a worker that exists, even a stopping one, is returned   *)
(* with its activity refreshed; otherwise Acquire gives a new one.         *)
Start ==
  /\ ~Running
  /\ starts < MaxStarts
  /\ starts' = starts + 1
  /\ worker' = [gen |-> starts + 1, lock |-> TRUE,
                pending |-> {}, pendingSet |-> {}, queued |-> {},
                timer |-> "nil",
                reconcileTimer |-> IF Reconciles THEN "armed" ELSE "nil",
                publishing |-> FALSE, stopping |-> FALSE, retryDelay |-> 0,
                error |-> "none"]
  /\ UNCHANGED <<faults, loose, fired, call, stopper, chain, due, excused>>

Enqueue(good, bad) ==
  /\ Accepting
  /\ worker' = EnqueueInto(worker, good, bad)
  /\ Accept(worker', good, bad)
  /\ UNCHANGED <<starts, faults, loose, fired, call, stopper, chain>>

-----------------------------------------------------------------------------
(* Publishing                                                              *)

FireTimer ==
  /\ Running /\ worker.timer = "armed"
  /\ worker' = [worker EXCEPT !.timer = "fired"]
  /\ fired' = fired + 1
  /\ UNCHANGED <<starts, faults, loose, call, stopper, chain, due, excused>>

FireLooseTimer ==
  /\ loose > 0
  /\ loose' = loose - 1
  /\ fired' = fired + 1
  /\ UNCHANGED <<worker, starts, faults, call, stopper, chain, due, excused>>

(* Variant: a batch is taken while another one is being published.         *)
PublishableAlways == Accepting /\ worker.pending # {}

Publishable == Accepting /\ ~worker.publishing /\ worker.pending # {}

(* Variant: the fired timer stays in worker.timer.                         *)
TakeQueueKeepingTimer(w) ==
  [w EXCEPT !.pending = {}, !.pendingSet = {}, !.queued = {}, !.publishing = TRUE]

TakeQueue(w) ==
  [w EXCEPT !.pending = {}, !.pendingSet = {}, !.queued = {},
            !.timer = "nil", !.publishing = TRUE]

(* publish, up to the unlock: it returns, or takes the queue as its batch. *)
(* A timer the worker still names is forgotten, not stopped.               *)
PublishSkip ==
  /\ fired > 0 /\ ~Publishable
  /\ fired' = fired - 1
  /\ UNCHANGED <<worker, starts, faults, loose, call, stopper, chain, due, excused>>

PublishBegin(c) ==
  /\ fired > 0 /\ Publishable
  /\ call[c] = NoCall
  /\ fired' = fired - 1
  /\ loose' = IF worker.timer = "armed" THEN loose + 1 ELSE loose
  /\ call' = [call EXCEPT ![c] = [gen |-> worker.gen, batch |-> worker.pending]]
  /\ worker' = TakeQueue(worker)
  /\ due' = due \ worker.pending
  /\ excused' = FALSE
  /\ UNCHANGED <<starts, faults, stopper, chain>>

(* retryDelay after one more failure.                                      *)
Backoff(delay) ==
  IF delay = 0 THEN RetryBase
  ELSE IF 2 * delay > RetryMax THEN RetryMax ELSE 2 * delay

(* Variant: the failed batch takes the place of what was queued meanwhile. *)
RequeueOverNewer(w, batch, ok) ==
  IF ok THEN [w EXCEPT !.publishing = FALSE, !.error = "none", !.retryDelay = 0]
  ELSE [w EXCEPT !.publishing = FALSE, !.error = "publish", !.pending = batch,
                 !.pendingSet = batch, !.queued = batch, !.retryDelay = Backoff(@)]

(* Variant: the failed batch is dropped.                                   *)
RequeueNothing(w, batch, ok) ==
  [w EXCEPT !.publishing = FALSE, !.error = IF ok THEN "none" ELSE "publish",
            !.retryDelay = IF ok THEN 0 ELSE Backoff(@)]

(* publish, after the publisher has returned: an error or a panic queues   *)
(* the batch again.                                                        *)
Requeue(w, batch, ok) ==
  IF ok THEN [w EXCEPT !.publishing = FALSE, !.error = "none", !.retryDelay = 0]
  ELSE [w EXCEPT !.publishing = FALSE, !.error = "publish",
                 !.pending = batch \cup @, !.pendingSet = batch \cup w.pending,
                 !.queued = batch \cup w.pending,
                 !.retryDelay = Backoff(@)]

(* Variant: publishDone is closed only after a success.                    *)
ReleaseOnSuccess(ok) ==
  [s \in Stoppers |-> IF ok /\ stopper[s] = "waiting" THEN "calling" ELSE stopper[s]]

(* Closing publishDone releases every Stop that waits on it.               *)
Release(ok) ==
  [s \in Stoppers |-> IF stopper[s] = "waiting" THEN "calling" ELSE stopper[s]]

(* The call goes on with the worker it started with; that worker is in the *)
(* map or the update is lost with it.                                      *)
PublishEnd(c, ok) ==
  LET w     == Requeue(worker, call[c].batch, ok)
      again == Schedulable(w) /\ ~w.stopping
  IN /\ call[c] # NoCall
     /\ call' = [call EXCEPT ![c] = NoCall]
     /\ IF call[c].gen = worker.gen
        THEN /\ worker' = IF again THEN [w EXCEPT !.timer = "armed"] ELSE w
             /\ due' = IF ok THEN due ELSE due \cup call[c].batch
             /\ excused' = IF again THEN FALSE ELSE excused
        ELSE UNCHANGED <<worker, due, excused>>
     /\ stopper' = Release(ok)
     /\ UNCHANGED <<starts, faults, loose, fired, chain>>

-----------------------------------------------------------------------------
(* Reconciliation                                                          *)

Move(from, to) == [chain EXCEPT ![from] = @ - 1, ![to] = @ + 1]

FireReconcileTimer ==
  /\ Running /\ worker.reconcileTimer = "armed"
  /\ worker' = [worker EXCEPT !.reconcileTimer = "fired"]
  /\ chain' = [chain EXCEPT !["fired"] = @ + 1]
  /\ UNCHANGED <<starts, faults, loose, fired, call, stopper, due, excused>>

FireLooseReconcileTimer ==
  /\ chain["loose"] > 0
  /\ chain' = Move("loose", "fired")
  /\ UNCHANGED <<worker, starts, faults, loose, fired, call, stopper, due, excused>>

(* reconcileWorkspace, up to the first unlock.                             *)
ReconcileSkip ==
  /\ chain["fired"] > 0 /\ ~Accepting
  /\ chain' = [chain EXCEPT !["fired"] = @ - 1]
  /\ UNCHANGED <<worker, starts, faults, loose, fired, call, stopper, due, excused>>

ReconcileBegin ==
  /\ chain["fired"] > 0 /\ Accepting
  /\ chain' = [Move("fired", "scanning") EXCEPT
                 !["loose"] = IF worker.reconcileTimer = "armed" THEN @ + 1 ELSE @]
  /\ worker' = [worker EXCEPT !.reconcileTimer = "nil"]
  /\ UNCHANGED <<starts, faults, loose, fired, call, stopper, due, excused>>

(* The reconciler's result, and the Enqueue of its events.                 *)
ReconcileEnqueue(good, bad) ==
  /\ chain["scanning"] > 0
  /\ IF Accepting
     THEN /\ worker' = EnqueueInto(worker, good, bad)
          /\ Accept(worker', good, bad)
          /\ chain' = Move("scanning", IF bad THEN "failed" ELSE "ok")
     ELSE /\ chain' = Move("scanning", "failed")
          /\ UNCHANGED <<worker, due, excused>>
  /\ UNCHANGED <<starts, faults, loose, fired, call, stopper>>

(* No events, or an error of the reconciler.                               *)
ReconcileNothing(result) ==
  /\ chain["scanning"] > 0
  /\ chain' = Move("scanning", result)
  /\ UNCHANGED <<worker, starts, faults, loose, fired, call, stopper, due, excused>>

(* Variant: a failed reconciliation is not followed by another.            *)
RearmAfterSuccess(w, result) ==
  IF result = "failed" THEN [w EXCEPT !.error = "reconcile"]
  ELSE [w EXCEPT !.reconcileTimer = "armed"]

Rearm(w, result) ==
  [w EXCEPT !.error = IF result = "failed" THEN "reconcile" ELSE @,
            !.reconcileTimer = "armed"]

(* reconcileWorkspace, after the second lock: whatever worker is there now *)
(* gets a new timer, in place of the one it may have.                      *)
ReconcileEnd(result) ==
  /\ chain[result] > 0
  /\ IF Accepting
     THEN /\ worker' = Rearm(worker, result)
          /\ chain' = [chain EXCEPT
                         ![result] = @ - 1,
                         !["loose"] = IF worker.reconcileTimer = "armed"
                                        THEN @ + 1 ELSE @]
     ELSE /\ chain' = [chain EXCEPT ![result] = @ - 1]
          /\ UNCHANGED worker
  /\ UNCHANGED <<starts, faults, loose, fired, call, stopper, due, excused>>

-----------------------------------------------------------------------------
(* Manager.Stop                                                            *)

StopCall(s) ==
  /\ stopper[s] = "idle"
  /\ stopper' = [stopper EXCEPT ![s] = "calling"]
  /\ UNCHANGED <<worker, starts, faults, loose, fired, call, chain, due, excused>>

Return(s) == stopper' = [stopper EXCEPT ![s] = "idle"]

(* The worker once Stop has asked it to stop: the timers it names are      *)
(* stopped unless they have fired already.                                 *)
Halted(w) ==
  [w EXCEPT !.stopping = TRUE, !.timer = "nil", !.reconcileTimer = "nil"]

StopNothing(s) ==
  /\ stopper[s] = "calling" /\ ~Running
  /\ Return(s)
  /\ UNCHANGED <<worker, starts, faults, loose, fired, call, chain, due, excused>>

StopWait(s) ==
  /\ stopper[s] = "calling" /\ Running /\ worker.publishing
  /\ worker' = Halted(worker)
  /\ stopper' = [stopper EXCEPT ![s] = "waiting"]
  /\ UNCHANGED <<starts, faults, loose, fired, call, chain, due, excused>>

StopRemove(s) ==
  /\ stopper[s] = "calling" /\ Running /\ ~worker.publishing
  /\ worker' = NoWorker
  /\ Return(s)
  /\ due' = {}
  /\ excused' = FALSE
  /\ UNCHANGED <<starts, faults, loose, fired, call, chain>>

(* Owner.Close fails: unlocking the file fails and the lock is kept, or    *)
(* closing it fails after the lock is gone.  The worker runs on without    *)
(* its timers.                                                             *)
StopFail(s, held) ==
  /\ stopper[s] = "calling" /\ Running /\ ~worker.publishing /\ worker.lock
  /\ faults < MaxFaults
  /\ faults' = faults + 1
  /\ worker' = [Halted(worker) EXCEPT !.stopping = FALSE, !.lock = held]
  /\ Return(s)
  /\ excused' = (worker.pending # {})
  /\ UNCHANGED <<starts, loose, fired, call, chain, due>>

-----------------------------------------------------------------------------
Init ==
  /\ worker = NoWorker /\ starts = 0 /\ faults = 0
  /\ loose = 0 /\ fired = 0
  /\ call = [c \in Calls |-> NoCall]
  /\ stopper = [s \in Stoppers |-> "idle"]
  /\ chain = [g \in Stages |-> 0]
  /\ due = {} /\ excused = FALSE

Next ==
  \/ Start
  \/ \E good \in SUBSET Paths, bad \in BOOLEAN : Enqueue(good, bad)
  \/ FireTimer \/ FireLooseTimer \/ PublishSkip
  \/ \E c \in Calls : PublishBegin(c)
  \/ \E c \in Calls, ok \in BOOLEAN : PublishEnd(c, ok)
  \/ FireReconcileTimer \/ FireLooseReconcileTimer
  \/ ReconcileSkip \/ ReconcileBegin
  \/ \E good \in (SUBSET Paths) \ {{}}, bad \in BOOLEAN : ReconcileEnqueue(good, bad)
  \/ \E result \in {"ok", "failed"} : ReconcileNothing(result) \/ ReconcileEnd(result)
  \/ \E s \in Stoppers : \/ StopCall(s) \/ StopNothing(s) \/ StopWait(s)
                         \/ StopRemove(s)
                         \/ \E held \in BOOLEAN : StopFail(s, held)

Spec == Init /\ [][Next]_vars

(* An armed timer fires, a callback or a Stop that wants the mutex gets it *)
(* (sync.Mutex does not starve a waiter), the publisher and the reconciler *)
(* return.  A publisher that is called again and again succeeds at last.   *)
Fairness ==
  /\ WF_vars(FireTimer) /\ WF_vars(FireLooseTimer) /\ WF_vars(PublishSkip)
  /\ WF_vars(\E c \in Calls : PublishBegin(c))
  /\ WF_vars(\E c \in Calls, ok \in BOOLEAN : PublishEnd(c, ok))
  /\ SF_vars(\E c \in Calls : PublishEnd(c, TRUE))
  /\ \A s \in Stoppers :
       WF_vars(StopNothing(s) \/ StopWait(s) \/ StopRemove(s)
                 \/ \E held \in BOOLEAN : StopFail(s, held))

FairSpec == Spec /\ Fairness

-----------------------------------------------------------------------------
(* Properties                                                              *)

(* Every variable has its type.                                            *)
TypeOK ==
  /\ worker \in Worker \cup {NoWorker}
  /\ starts \in 0..MaxStarts /\ faults \in 0..MaxFaults
  /\ loose \in Nat /\ fired \in Nat
  /\ call \in [Calls -> [gen : 0..MaxStarts, batch : SUBSET Paths]]
  /\ stopper \in [Stoppers -> {"idle", "calling", "waiting"}]
  /\ chain \in [Stages -> Nat]
  /\ due \subseteq Paths /\ excused \in BOOLEAN

(* The publisher is never called twice at the same time, over any number   *)
(* of stops, starts and stale timer callbacks, and the worker a call works *)
(* for is the one in the map until the call has ended.                     *)
OnePublisherCall ==
  \A c \in Calls : call[c] # NoCall =>
    /\ Running /\ worker.publishing /\ call[c].gen = worker.gen
    /\ \A d \in Calls \ {c} : call[d] = NoCall

(* The manager's state keeps its types, and one publisher call runs at a   *)
(* time.  (Manager.publish, queue.go:144)                                  *)
PublisherSound == TypeOK /\ OnePublisherCall

(* An accepted event is not lost: a path whose latest event no publication *)
(* covers is in the queue, also when it was queued while an earlier batch  *)
(* with the same path was being published, and when that batch failed.     *)
AcceptedNotLost ==
  due # {} => Running /\ due \subseteq worker.pending

(* pendingSet and the reported QueuedPaths do not drift from the queue.    *)
QueueAgrees ==
  Running => worker.pendingSet = worker.pending /\ worker.queued \subseteq worker.pending

(* No accepted path is lost, and the set and the count that stand beside   *)
(* the queue do not drift from it.  (Manager.Enqueue and publish,          *)
(* queue.go:71, 144)                                                       *)
QueueSound == AcceptedNotLost /\ QueueAgrees

(* A queue that nobody publishes has a timer, unless an Enqueue that       *)
(* failed half way or a Stop whose Owner.Close failed left it without one. *)
WorkScheduled ==
  Running /\ ~worker.stopping /\ ~worker.publishing /\ worker.pending # {}
    => worker.timer = "armed" \/ fired > 0 \/ excused

(* A restart may leave a second chain of reconciliations running, but no   *)
(* more than one for each worker there was.                                *)
ChainsBounded ==
  chain["loose"] + chain["fired"] + chain["scanning"] + chain["ok"] + chain["failed"]
    + (IF Running /\ worker.reconcileTimer = "armed" THEN 1 ELSE 0)
    <= starts

(* Reconciliation goes on for a running worker as long as no Stop failed.  *)
ReconciliationAlive ==
  Reconciles /\ Running /\ ~worker.stopping /\ faults = 0 =>
    \/ worker.reconcileTimer = "armed"
    \/ \E g \in Stages : chain[g] > 0

(* Reconciliations that outlive their worker neither multiply nor leave    *)
(* its successor without one.  (reconcileWorkspace, queue.go:117)          *)
ReconciliationSound == ChainsBounded /\ ReconciliationAlive

(* Once no new event arrives, an accepted path is published, however often *)
(* the publisher fails first, unless the indexer stops or an error return  *)
(* stranded the queue.                                                     *)
Unpublished == due \cup UNION {call[c].batch : c \in Calls}

NoEvent == \A good \in SUBSET Paths, bad \in BOOLEAN : ~Enqueue(good, bad)

EventuallyPublished ==
  <>[][NoEvent]_vars =>
    \A p \in Paths : p \in Unpublished ~> (p \notin Unpublished \/ excused)

(* Stop returns: the publisher it waits for ends, and no new call begins   *)
(* on a worker that is stopping.                                           *)
StopReturns ==
  \A s \in Stoppers : stopper[s] = "calling" ~> stopper[s] = "idle"
=============================================================================
