---------------------------- MODULE InitialPipeline ----------------------------
(***************************************************************************)
(* InitialIndexPipeline of index/initial_pipeline.go: one full index of a  *)
(* workspace through a contribution session.                               *)
(*                                                                         *)
(* A producer walks the workspace, stages each source in the session and   *)
(* sends a job; workers extract the jobs and send results; a closer closes *)
(* the results once the workers are gone; the consumer (the goroutine of   *)
(* Run) writes the results to the session, and when all went well seals    *)
(* it, resolves it page by page and commits it.  A failure anywhere        *)
(* cancels the pipeline's context; the consumer keeps draining and then    *)
(* picks the error to return.                                              *)
(*                                                                         *)
(* The session is storage/sqlite's: a failed call closes it, and a call on *)
(* a closed session is refused with an error of its own.  `closed' is read *)
(* by the producer and written by the consumer without a lock; a call is   *)
(* one step here, so the producer sees the value before or after.          *)
(***************************************************************************)
EXTENDS Naturals, Sequences, FiniteSets

CONSTANTS
  N,          (* bound: at most N source files, numbered in walk order      *)
  Workers,    (* extraction workers, max(1, GOMAXPROCS)                     *)
  Capacity,   (* initialContributionQueueCapacity, 32 in the code           *)
  PageSize,   (* resolverProjectionPageSize, 128 in the code                *)
  Group,      (* Group[i]: rank of the source's project and language key    *)
  Bases,      (* what may be published before: no snapshot, or its sources  *)
  Failures    (* which of the failures below the environment may cause      *)

Sources == 1..N

FailureKinds == {"walk", "stage", "worker", "write", "resolve", "caller"}

ASSUME PipelineAssumption ==
  /\ N \in Nat
  /\ IsFiniteSet(Workers) /\ Workers # {}
  /\ Capacity \in Nat \ {0}
  /\ PageSize \in Nat \ {0}
  /\ Group \in [Sources -> Nat \ {0}]
  /\ Bases \subseteq [exists : BOOLEAN, sources : SUBSET Sources]
  /\ Bases # {} /\ \A b \in Bases : b.sources # {} => b.exists
  /\ Failures \subseteq FailureKinds

VARIABLES
  tree,       (* how many source files there are, those not extractable,    *)
              (* and what is published of them already                      *)
  caller,     (* the caller's context is done                               *)
  cancelled,  (* the pipeline's context is done                             *)
  producer,   (* produceSources: its control point, next source and error   *)
  jobs,       (* the channel of jobs, and whether it is closed              *)
  worker,     (* worker[w]: control point and the result it holds           *)
  results,    (* the channel of results, and whether it is closed           *)
  session,    (* the contribution session                                   *)
  consumer,   (* the local variables of consumeContributions                *)
  run         (* Run: its phase, resolver cursor and outcome                *)

vars == <<tree, caller, cancelled, producer, jobs, worker, results, session,
          consumer, run>>

-----------------------------------------------------------------------------
(* Messages and records                                                    *)

NoIndex == 0

Result == [kind : {"ok", "failed", "worker"}, index : 0..N]
NoResult == [kind |-> "ok", index |-> NoIndex]

(* Errors the producer records: "canceled" wraps context.Canceled.         *)
ProducerErrors == {"none", "canceled", "walk", "stage", "closed"}

Outcomes == {"running", "committed", "caller", "walk", "stage", "closed",
             "worker", "extraction", "write", "empty", "resolve"}

ContextDone == caller \/ cancelled

Init ==
  /\ \E count \in 0..N, base \in Bases : \E bad \in SUBSET (1..count) :
       tree = [count |-> count, bad |-> bad, base |-> base]
  /\ caller = FALSE
  /\ cancelled = FALSE
  /\ producer = [pc |-> "walk", next |-> 1, error |-> "none", count |-> 0]
  /\ jobs = [queue |-> <<>>, closed |-> FALSE]
  /\ worker = [w \in Workers |-> [pc |-> "start", result |-> NoResult]]
  /\ results = [queue |-> <<>>, closed |-> FALSE]
  /\ session = [closed |-> FALSE, sealed |-> FALSE, staged |-> {}, written |-> {}]
  /\ consumer = [failed |-> FALSE, workerError |-> FALSE,
                 extraction |-> NoIndex, writeError |-> FALSE]
  /\ run = [phase |-> "extract", groups |-> {}, group |-> 0, after |-> 0,
            resolved |-> [i \in Sources |-> 0],
            outcome |-> "running", source |-> NoIndex]

(* The caller gives up, at any time before Run returns.                    *)
CallerCancels ==
  /\ "caller" \in Failures
  /\ ~caller
  /\ run.outcome = "running"
  /\ caller' = TRUE
  /\ UNCHANGED <<tree, cancelled, producer, jobs, worker, results, session,
                 consumer, run>>

-----------------------------------------------------------------------------
(* The producer                                                            *)

(* The producer's last step before it closes the jobs.                     *)
ProducerStops(error) ==
  /\ producer' = [producer EXCEPT !.pc = "closing", !.error = error]
  /\ cancelled' = TRUE

(* DiscoverStream looks at the context at every entry.                     *)
ProducerWalks ==
  /\ producer.pc = "walk"
  /\ \/ /\ ~ContextDone
        /\ producer.next <= tree.count
        /\ producer' = [producer EXCEPT !.pc = "stage"]
        /\ UNCHANGED cancelled
     \/ /\ ContextDone
        /\ ProducerStops("canceled")
     \/ /\ "walk" \in Failures
        /\ ProducerStops("walk")
  /\ UNCHANGED <<tree, caller, jobs, worker, results, session, consumer, run>>

(* The walk ends after its last entry.                                     *)
ProducerFinishes ==
  /\ producer.pc = "walk"
  /\ producer.next = tree.count + 1
  /\ producer' = [producer EXCEPT !.pc = "closing", !.count = tree.count]
  /\ UNCHANGED <<tree, caller, cancelled, jobs, worker, results, session,
                 consumer, run>>

(* Variant: a source whose staging was cancelled is sent all the same.     *)
ProducerStagesLoosely ==
  /\ producer.pc = "stage"
  /\ \/ /\ session.closed
        /\ ProducerStops("closed")
        /\ UNCHANGED <<session, run>>
     \/ /\ ~session.closed
        /\ session' = [session EXCEPT !.staged = IF ContextDone THEN @
                                                 ELSE @ \cup {producer.next}]
        /\ run' = [run EXCEPT !.groups = @ \cup {Group[producer.next]}]
        /\ producer' = [producer EXCEPT !.pc = "send"]
        /\ UNCHANGED cancelled
  /\ UNCHANGED <<tree, caller, jobs, worker, results, consumer>>

(* The emit callback: StageSource, then the group of the source.           *)
ProducerStages ==
  /\ producer.pc = "stage"
  /\ \/ /\ session.closed
        /\ ProducerStops("closed")
        /\ UNCHANGED <<session, run>>
     \/ /\ ~session.closed /\ ContextDone
        /\ ProducerStops("canceled")
        /\ session' = [session EXCEPT !.closed = TRUE]
        /\ UNCHANGED run
     \/ /\ ~session.closed /\ "stage" \in Failures
        /\ ProducerStops("stage")
        /\ session' = [session EXCEPT !.closed = TRUE]
        /\ UNCHANGED run
     \/ /\ ~session.closed /\ ~ContextDone
        /\ session' = [session EXCEPT !.staged = @ \cup {producer.next}]
        /\ run' = [run EXCEPT !.groups = @ \cup {Group[producer.next]}]
        /\ producer' = [producer EXCEPT !.pc = "send"]
        /\ UNCHANGED cancelled
  /\ UNCHANGED <<tree, caller, jobs, worker, results, consumer>>

(* Variant: the send does not watch the context.                           *)
ProducerSendsOnly ==
  /\ producer.pc = "send"
  /\ Len(jobs.queue) < Capacity
  /\ jobs' = [jobs EXCEPT !.queue = Append(@, producer.next)]
  /\ producer' = [producer EXCEPT !.pc = "walk", !.next = @ + 1]
  /\ UNCHANGED <<tree, caller, cancelled, worker, results, session, consumer, run>>

(* select { case jobs <- job: case <-ctx.Done(): }                         *)
ProducerSends ==
  /\ producer.pc = "send"
  /\ \/ /\ Len(jobs.queue) < Capacity
        /\ jobs' = [jobs EXCEPT !.queue = Append(@, producer.next)]
        /\ producer' = [producer EXCEPT !.pc = "walk", !.next = @ + 1]
        /\ UNCHANGED cancelled
     \/ /\ ContextDone
        /\ ProducerStops("canceled")
        /\ UNCHANGED jobs
  /\ UNCHANGED <<tree, caller, worker, results, session, consumer, run>>

(* defer close(run.jobs)                                                   *)
ProducerCloses ==
  /\ producer.pc = "closing"
  /\ producer' = [producer EXCEPT !.pc = "done"]
  /\ jobs' = [jobs EXCEPT !.closed = TRUE]
  /\ UNCHANGED <<tree, caller, cancelled, worker, results, session, consumer, run>>

-----------------------------------------------------------------------------
(* The workers                                                             *)

(* Variant: a worker that cannot be created cancels and says nothing.      *)
WorkerStartsSilently(w) ==
  /\ worker[w].pc = "start"
  /\ \/ /\ worker' = [worker EXCEPT ![w].pc = "ready"]
        /\ UNCHANGED cancelled
     \/ /\ "worker" \in Failures
        /\ worker' = [worker EXCEPT ![w].pc = "done"]
        /\ cancelled' = TRUE
  /\ UNCHANGED <<tree, caller, producer, jobs, results, session, consumer, run>>

WorkerStarts(w) ==
  /\ worker[w].pc = "start"
  /\ \/ /\ worker' = [worker EXCEPT ![w].pc = "ready"]
        /\ UNCHANGED cancelled
     \/ /\ "worker" \in Failures
        /\ worker' = [worker EXCEPT ![w] =
                        [pc |-> "send", result |-> [kind |-> "worker", index |-> NoIndex]]]
        /\ cancelled' = TRUE
  /\ UNCHANGED <<tree, caller, producer, jobs, results, session, consumer, run>>

WorkerTakes(w) ==
  /\ worker[w].pc = "ready"
  /\ jobs.queue # <<>>
  /\ worker' = [worker EXCEPT ![w] =
                  [pc |-> "extract",
                   result |-> [kind |-> "ok", index |-> Head(jobs.queue)]]]
  /\ jobs' = [jobs EXCEPT !.queue = Tail(@)]
  /\ UNCHANGED <<tree, caller, cancelled, producer, results, session, consumer, run>>

(* extractDiscoveredSource; a failure cancels before it is sent.           *)
WorkerExtracts(w) ==
  LET fails == worker[w].result.index \in tree.bad
  IN /\ worker[w].pc = "extract"
     /\ worker' = [worker EXCEPT ![w].pc = "send",
                                 ![w].result.kind = IF fails THEN "failed" ELSE "ok"]
     /\ cancelled' = (cancelled \/ fails)
     /\ UNCHANGED <<tree, caller, producer, jobs, results, session, consumer, run>>

(* The send blocks while the channel is full, cancelled or not.  A worker  *)
(* ends after an error.                                                    *)
WorkerSends(w) ==
  /\ worker[w].pc = "send"
  /\ Len(results.queue) < Capacity
  /\ results' = [results EXCEPT !.queue = Append(@, worker[w].result)]
  /\ worker' = [worker EXCEPT ![w] =
                  [pc |-> IF worker[w].result.kind = "ok" THEN "ready" ELSE "done",
                   result |-> NoResult]]
  /\ UNCHANGED <<tree, caller, cancelled, producer, jobs, session, consumer, run>>

WorkerEnds(w) ==
  /\ worker[w].pc = "ready"
  /\ jobs.queue = <<>> /\ jobs.closed
  /\ worker' = [worker EXCEPT ![w].pc = "done"]
  /\ UNCHANGED <<tree, caller, cancelled, producer, jobs, results, session,
                 consumer, run>>

(* The closer waits for the workers, and not for the producer.             *)
closeExtractionResults ==
  /\ \A w \in Workers : worker[w].pc = "done"
  /\ ~results.closed
  /\ results' = [results EXCEPT !.closed = TRUE]
  /\ UNCHANGED <<tree, caller, cancelled, producer, jobs, worker, session,
                 consumer, run>>

-----------------------------------------------------------------------------
(* The consumer                                                            *)

(* Variant: the first failed extraction to arrive is kept.                 *)
ConsumerNotesFirst(result) ==
  /\ result.kind # "ok"
  /\ consumer' = [consumer EXCEPT
       !.failed = TRUE,
       !.workerError = @ \/ result.kind = "worker",
       !.extraction = IF result.kind = "failed" /\ @ = NoIndex
                        THEN result.index ELSE @]
  /\ cancelled' = TRUE
  /\ UNCHANGED session

(* A failed result; of two failed extractions the lower index is kept.     *)
ConsumerNotes(result) ==
  /\ result.kind # "ok"
  /\ consumer' = [consumer EXCEPT
       !.failed = TRUE,
       !.workerError = @ \/ result.kind = "worker",
       !.extraction = IF result.kind = "failed" /\ (@ = NoIndex \/ result.index < @)
                        THEN result.index ELSE @]
  /\ cancelled' = TRUE
  /\ UNCHANGED session

(* Nothing is written after the first failure.                             *)
ConsumerSkips(result) ==
  /\ result.kind = "ok" /\ consumer.failed
  /\ UNCHANGED <<cancelled, consumer, session>>

(* WriteContribution; the caller's context, not the pipeline's, is used.   *)
ConsumerWrites(result) ==
  LET refused == \/ session.closed \/ caller
                 \/ result.index \notin session.staged \ session.written
  IN /\ result.kind = "ok" /\ ~consumer.failed
     /\ \/ /\ ~refused
           /\ session' = [session EXCEPT !.written = @ \cup {result.index}]
           /\ UNCHANGED <<cancelled, consumer>>
        \/ /\ refused \/ "write" \in Failures
           /\ session' = [session EXCEPT !.closed = TRUE]
           /\ consumer' = [consumer EXCEPT !.failed = TRUE, !.writeError = TRUE]
           /\ cancelled' = TRUE

ConsumerReceives ==
  /\ run.phase = "extract"
  /\ results.queue # <<>>
  /\ LET result == Head(results.queue)
     IN ConsumerNotes(result) \/ ConsumerSkips(result) \/ ConsumerWrites(result)
  /\ results' = [results EXCEPT !.queue = Tail(@)]
  /\ UNCHANGED <<tree, caller, producer, jobs, worker, run>>

(* The order in which the errors are looked at.                            *)
ConsumerError ==
  IF caller THEN "caller"
  ELSE IF producer.error \notin {"none", "canceled"} THEN producer.error
  ELSE IF consumer.workerError THEN "worker"
  ELSE IF consumer.extraction # NoIndex THEN "extraction"
  ELSE IF consumer.writeError THEN "write"
  ELSE "none"

(* Run returns: the deferred Rollback closes the session.                  *)
RunFails(outcome) ==
  /\ run' = [run EXCEPT !.phase = "done", !.outcome = outcome,
                        !.source = IF outcome = "extraction" THEN consumer.extraction
                                   ELSE NoIndex]
  /\ session' = [session EXCEPT !.closed = TRUE]

(* The results are closed and drained: extractAndWriteContributions        *)
(* returns, which cancels the pipeline's context.                          *)
ConsumerReturns ==
  /\ run.phase = "extract"
  /\ results.queue = <<>> /\ results.closed
  /\ cancelled' = TRUE
  /\ \/ /\ ConsumerError # "none"
        /\ RunFails(ConsumerError)
     \/ /\ ConsumerError = "none" /\ producer.count = 0 /\ ~tree.base.exists
        /\ RunFails("empty")
     \/ /\ ConsumerError = "none" /\ (producer.count > 0 \/ tree.base.exists)
        /\ run' = [run EXCEPT !.phase = "seal"]
        /\ UNCHANGED session
  /\ UNCHANGED <<tree, caller, producer, jobs, worker, results, consumer>>

-----------------------------------------------------------------------------
(* The rest of Run                                                         *)

Lowest(S) == CHOOSE x \in S : \A y \in S : x <= y

LaterCallRuns == ~session.closed /\ ~caller

(* A call on the session in the later phases is refused when it is closed  *)
(* or the caller has given up, and may fail.                               *)
LaterCallFails ==
  /\ ~LaterCallRuns \/ "resolve" \in Failures
  /\ RunFails(IF caller THEN "caller" ELSE "resolve")

RunSeals ==
  /\ run.phase = "seal"
  /\ \/ /\ LaterCallRuns
        /\ session' = [session EXCEPT !.sealed = TRUE]
        /\ run' = [run EXCEPT !.phase = "resolve"]
     \/ LaterCallFails
  /\ UNCHANGED <<tree, caller, cancelled, producer, jobs, worker, results, consumer>>

(* session.ResolverProjectionPage: the staged sources of a group after a   *)
(* path that have a visible contribution, this session's or the current    *)
(* snapshot's, in path order and at most PageSize of them.                 *)
ResolverProjectionPage(group, after) ==
  LET rest == {i \in session.staged \cap (session.written \cup tree.base.sources) :
                 Group[i] = group /\ i > after}
  IN {i \in rest : Cardinality({j \in rest : j < i}) < PageSize}

Highest(S) == CHOOSE x \in S : \A y \in S : x >= y

(* Variant: the next group is read from where the last one ended.          *)
NextGroupKeepingCursor(later) ==
  run' = [run EXCEPT !.group = Lowest(later)]

NextGroup(later) ==
  run' = [run EXCEPT !.group = Lowest(later), !.after = 0]

(* One round of resolveProjectionPages: the next page of the group, or the *)
(* next group after an empty page.  ReplaceContributionDependencies, which *)
(* refuses a source that was not written, and WriteWorkspaceFacts take the *)
(* whole page.                                                             *)
RunResolves ==
  LET page == ResolverProjectionPage(run.group, run.after)
      later == {g \in run.groups : g > run.group}
  IN /\ run.phase = "resolve"
     /\ \/ /\ LaterCallRuns /\ page \subseteq session.written
           /\ \/ /\ page # {}
                 /\ run' = [run EXCEPT
                       !.resolved = [i \in Sources |->
                                       IF i \in page THEN @[i] + 1 ELSE @[i]],
                       !.after = Highest(page)]
              \/ /\ page = {} /\ later # {}
                 /\ NextGroup(later)
              \/ /\ page = {} /\ later = {}
                 /\ run' = [run EXCEPT !.phase = "commit"]
           /\ UNCHANGED session
        \/ LaterCallFails
     /\ UNCHANGED <<tree, caller, cancelled, producer, jobs, worker, results, consumer>>

(* SealWorkspaceFacts, then Commit, which closes the session.              *)
RunCommits ==
  /\ run.phase = "commit"
  /\ \/ /\ LaterCallRuns
        /\ session' = [session EXCEPT !.closed = TRUE]
        /\ run' = [run EXCEPT !.phase = "done", !.outcome = "committed"]
     \/ LaterCallFails
  /\ UNCHANGED <<tree, caller, cancelled, producer, jobs, worker, results, consumer>>

-----------------------------------------------------------------------------
Stopped ==
  /\ run.phase = "done" /\ producer.pc = "done"
  /\ \A w \in Workers : worker[w].pc = "done"

(* Run has returned and its goroutines have ended.                         *)
Terminated == Stopped /\ UNCHANGED vars

ProducerStep ==
  \/ ProducerWalks \/ ProducerFinishes \/ ProducerStages \/ ProducerSends
  \/ ProducerCloses

WorkerStep(w) ==
  \/ WorkerStarts(w) \/ WorkerTakes(w) \/ WorkerExtracts(w) \/ WorkerSends(w)
  \/ WorkerEnds(w)

RunStep ==
  \/ ConsumerReceives \/ ConsumerReturns \/ RunSeals \/ RunResolves \/ RunCommits

Next ==
  \/ CallerCancels
  \/ ProducerStep
  \/ \E w \in Workers : WorkerStep(w)
  \/ closeExtractionResults
  \/ RunStep
  \/ Terminated

Spec == Init /\ [][Next]_vars

(* The Go scheduler runs every goroutine that can run.                     *)
FairSpec ==
  /\ Spec
  /\ WF_vars(ProducerStep)
  /\ \A w \in Workers : WF_vars(WorkerStep(w))
  /\ WF_vars(closeExtractionResults)
  /\ WF_vars(RunStep)

-----------------------------------------------------------------------------
(* Properties                                                              *)

(* Every variable of the pipeline has its type, and the channels hold no   *)
(* more than their capacity.                                               *)
TypeOK ==
  /\ tree \in [count : 0..N, bad : SUBSET Sources, base : Bases]
  /\ caller \in BOOLEAN /\ cancelled \in BOOLEAN
  /\ producer \in [pc : {"walk", "stage", "send", "closing", "done"},
                   next : 1..(N + 1), error : ProducerErrors, count : 0..N]
  /\ jobs \in [queue : Seq(Sources), closed : BOOLEAN]
  /\ Len(jobs.queue) <= Capacity
  /\ worker \in [Workers -> [pc : {"start", "ready", "extract", "send", "done"},
                             result : Result]]
  /\ results \in [queue : Seq(Result), closed : BOOLEAN]
  /\ Len(results.queue) <= Capacity
  /\ session \in [closed : BOOLEAN, sealed : BOOLEAN, staged : SUBSET Sources,
                  written : SUBSET Sources]
  /\ consumer \in [failed : BOOLEAN, workerError : BOOLEAN, extraction : 0..N,
                   writeError : BOOLEAN]
  /\ run \in [phase : {"extract", "seal", "resolve", "commit", "done"},
              groups : SUBSET Nat, group : Nat, after : 0..N,
              resolved : [Sources -> Nat], outcome : Outcomes, source : 0..N]

(* The phases after a successful extraction.                               *)
Extracted == run.phase \in {"seal", "resolve", "commit"} \/ run.outcome = "committed"

(* consumeContributions reports success only when nothing was left out:    *)
(* although it ignores a cancelled producer, every source was staged and   *)
(* written, none failed, and the producer no longer touches the groups.    *)
ExtractionComplete ==
  Extracted =>
    /\ producer.pc = "done" /\ producer.error = "none"
    /\ session.staged = 1..tree.count /\ session.written = 1..tree.count
    /\ tree.bad = {}

(* The session never refuses a contribution for its source: a result waits *)
(* only for a source that is staged and not written, and no two do.        *)
WritesAccepted ==
  \A j \in DOMAIN results.queue :
    results.queue[j].kind = "ok" =>
      /\ results.queue[j].index \in session.staged \ session.written
      /\ \A k \in DOMAIN results.queue :
           k # j => results.queue[k].index # results.queue[j].index

(* Goroutines and channels keep their types and bounds, and what waits in  *)
(* a channel can be written.  (consumeContributions, initial_pipeline.go:251) *)
ChannelsSound == TypeOK /\ WritesAccepted

(* The error is the same on every schedule: the failed extraction Run      *)
(* reports is that of the first source, in walk order, that cannot be      *)
(* extracted.                                                              *)
LowestFailure ==
  run.outcome = "extraction" =>
    run.source \in tree.bad /\ \A i \in tree.bad : run.source <= i

(* Every source is resolved exactly once before a commit, over all groups  *)
(* and pages.                                                              *)
ResolvedOnce ==
  run.phase = "commit" \/ run.outcome = "committed" =>
    \A i \in 1..tree.count : run.resolved[i] = 1

(* Run returns, and no goroutine of it is left behind, whatever fails.     *)
EventuallyStopped == <>Stopped
=============================================================================
