------------------------- MODULE InitialPipelineProofs -------------------------
(***************************************************************************)
(* Proofs about InitialPipeline, for any number of sources and workers and *)
(* any capacity of the channels and the pages.                             *)
(***************************************************************************)
EXTENDS InitialPipeline, TLAPS, SequenceTheorems, FiniteSetTheorems,
        WellFoundedInduction

(* The number of sources that workers have taken from the jobs.            *)
TakenCount == producer.next - 1 - Len(jobs.queue)

(* The producer walks the sources in order; the jobs that wait are the     *)
(* last it has sent; what it has sent it has staged.                       *)
ProducerInv ==
  /\ tree.bad \subseteq 1..tree.count
  /\ producer.next <= tree.count + 1
  /\ producer.pc \in {"stage", "send"} => producer.next <= tree.count
  /\ producer.pc \in {"walk", "stage", "send"} => producer.error = "none"
  /\ jobs.closed <=> producer.pc = "done"
  /\ producer.pc \in {"closing", "done"} /\ producer.error = "none" =>
       producer.next = tree.count + 1 /\ producer.count = tree.count
  /\ \A i \in Sources : i < producer.next => i \in session.staged
  /\ \A i \in session.staged : i <= tree.count
  /\ producer.pc = "send" => producer.next \in session.staged
  /\ Len(jobs.queue) < producer.next
  /\ \A j \in 1..Len(jobs.queue) : jobs.queue[j] = TakenCount + j

(* Worker w holds the result of source i; the result waits at place j.     *)
Holds(w, i) ==
  /\ worker[w].pc \in {"extract", "send"}
  /\ worker[w].result.kind # "worker"
  /\ worker[w].result.index = i

Waits(j, i) ==
  /\ results.queue[j].kind # "worker"
  /\ results.queue[j].index = i

UnderWay(i) ==
  \/ \E w \in Workers : Holds(w, i)
  \/ \E j \in 1..Len(results.queue) : Waits(j, i)

(* A source that was taken is in one place: with a worker, in the results, *)
(* or written.                                                             *)
PlacesInv ==
  /\ \A i \in session.written : i <= TakenCount
  /\ \A w \in Workers : \A i \in 0..N : Holds(w, i) =>
       /\ i >= 1 /\ i <= TakenCount /\ i \notin session.written
       /\ \A v \in Workers : Holds(v, i) => v = w
       /\ \A j \in 1..Len(results.queue) : ~Waits(j, i)
  /\ \A j \in 1..Len(results.queue) : \A i \in 0..N : Waits(j, i) =>
       /\ i >= 1 /\ i <= TakenCount /\ i \notin session.written
       /\ \A k \in 1..Len(results.queue) : Waits(k, i) => k = j

(* What a result says of its source is what extracting it gave.            *)
KindsInv ==
  /\ \A w \in Workers :
       /\ worker[w].pc = "extract" => worker[w].result.kind = "ok"
       /\ worker[w].pc = "send" =>
            (worker[w].result.kind = "failed" => worker[w].result.index \in tree.bad)
       /\ worker[w].pc = "send" =>
            (worker[w].result.kind = "ok" => worker[w].result.index \notin tree.bad)
       /\ worker[w].pc = "send" =>
            (worker[w].result.kind = "worker" => worker[w].result.index = NoIndex)
  /\ \A j \in 1..Len(results.queue) :
       /\ results.queue[j].kind = "failed" => results.queue[j].index \in tree.bad
       /\ results.queue[j].kind = "ok" => results.queue[j].index \notin tree.bad
       /\ results.queue[j].kind = "worker" => results.queue[j].index = NoIndex

(* A source that was taken is under way, written, or the consumer has      *)
(* failed; one that cannot be extracted is under way or noted.             *)
AccountInv ==
  /\ \A i \in Sources : i <= TakenCount =>
       UnderWay(i) \/ i \in session.written \/ consumer.failed
  /\ \A i \in tree.bad : i <= TakenCount =>
       \/ UnderWay(i)
       \/ consumer.extraction # NoIndex /\ consumer.extraction <= i
  /\ consumer.extraction # NoIndex =>
       consumer.extraction \in tree.bad /\ consumer.extraction <= TakenCount
  /\ consumer.failed <=> \/ consumer.workerError
                         \/ consumer.extraction # NoIndex
                         \/ consumer.writeError

(* An error is on its way to the consumer, or known to it or the producer. *)
Trouble ==
  \/ \E w \in Workers : worker[w].pc = "send" /\ worker[w].result.kind # "ok"
  \/ \E j \in 1..Len(results.queue) : results.queue[j].kind # "ok"
  \/ consumer.failed
  \/ producer.error \in {"walk", "stage", "closed"}

(* The pipeline is cancelled for a reason the consumer will see, and a     *)
(* worker ends for want of jobs or after an error.                         *)
CancelInv ==
  /\ producer.error = "canceled" => cancelled
  /\ run.phase = "extract" /\ cancelled => caller \/ Trouble
  /\ \A w \in Workers : worker[w].pc = "done" =>
       \/ jobs.closed /\ jobs.queue = <<>>
       \/ \E j \in 1..Len(results.queue) : results.queue[j].kind # "ok"
       \/ consumer.failed
  /\ results.closed => \A w \in Workers : worker[w].pc = "done"
  /\ run.outcome = "running" <=> run.phase # "done"

(* What resolution has done: every source of the groups before the         *)
(* current one, and those of the current one up to the cursor.             *)
ResolveInv ==
  /\ run.groups = {Group[i] : i \in session.staged}
  /\ run.phase \in {"extract", "seal"} =>
       /\ run.group = 0 /\ run.after = 0
       /\ \A i \in Sources : run.resolved[i] = 0
  /\ run.phase = "resolve" =>
       \A i \in 1..tree.count :
         run.resolved[i] = IF \/ Group[i] < run.group
                              \/ Group[i] = run.group /\ i <= run.after
                           THEN 1 ELSE 0

PipelineInv ==
  /\ TypeOK
  /\ ProducerInv
  /\ PlacesInv
  /\ KindsInv
  /\ AccountInv
  /\ CancelInv
  /\ ExtractionComplete
  /\ LowestFailure
  /\ ResolveInv
  /\ ResolvedOnce

-----------------------------------------------------------------------------
(* Sets of numbers have a least element, and bounded ones a greatest.      *)
LEMMA LowestFacts ==
  ASSUME NEW S \in SUBSET Nat, S # {}
  PROVE  Lowest(S) \in S /\ \A y \in S : Lowest(S) <= y
<1> DEFINE T == {0..x : x \in S}
<1>1. T \subseteq FiniteSubsetsOf(Nat) /\ T # {}
  <2>1. \A x \in S : IsFiniteSet(0..x) /\ 0..x \in SUBSET Nat
    BY FS_Interval
  <2> QED
    BY <2>1 DEF FiniteSubsetsOf
<1>2. PICK t \in T : \A u \in T : ~(<<u, t>> \in StrictSubsetOrdering(Nat))
  BY <1>1, FS_StrictSubsetOrderingWellFounded, WFMin
<1>3. PICK x \in S : t = 0..x
  BY <1>2
<1>4. ASSUME NEW y \in S PROVE x <= y
  <2>1. SUFFICES ASSUME y < x PROVE FALSE
    BY x \in Nat, y \in Nat
  <2>2. 0..y \subseteq 0..x /\ 0..y # 0..x
    <3>1. x \in 0..x /\ x \notin 0..y /\ y \in 0..y
      BY <2>1
    <3> QED
      BY <2>1, <3>1
  <2>3. 0..y \in T /\ 0..y \in SUBSET Nat /\ 0..x \in SUBSET Nat
    OBVIOUS
  <2> QED
    BY <1>2, <1>3, <2>2, <2>3 DEF StrictSubsetOrdering
<1> QED
  BY <1>3, <1>4 DEF Lowest

LEMMA HighestFacts ==
  ASSUME NEW S \in SUBSET (0..N), S # {}
  PROVE  Highest(S) \in S /\ \A y \in S : y <= Highest(S)
<1> DEFINE T == {N - x : x \in S}
<1>1. N \in Nat
  BY PipelineAssumption
<1>2. T \in SUBSET Nat /\ T # {}
  <2>1. \A x \in S : x \in Int /\ N - x \in Nat
    BY <1>1
  <2>2. T \subseteq Nat
    BY <2>1
  <2> QED
    BY <2>2
<1>3. Lowest(T) \in T /\ \A y \in T : Lowest(T) <= y
  BY <1>2, LowestFacts
<1>4. PICK x \in S : Lowest(T) = N - x
  BY <1>3
<1>5. \A y \in S : N - x <= N - y
  BY <1>3, <1>4
<1>6. \A y \in S : x >= y
  BY <1>1, <1>5
<1> QED
  BY <1>6 DEF Highest

(* What taking from a channel and sending on it do to its queue.           *)
LEMMA TakeFacts ==
  ASSUME NEW S, NEW q \in Seq(S), q # <<>>
  PROVE  /\ Head(q) \in S /\ Head(q) = q[1] /\ Len(q) \in Nat \ {0}
         /\ Tail(q) \in Seq(S) /\ Len(Tail(q)) = Len(q) - 1
         /\ \A j \in 1..Len(Tail(q)) : Tail(q)[j] = q[j + 1]
BY HeadTailProperties, EmptySeq

LEMMA SendFacts ==
  ASSUME NEW S, NEW q \in Seq(S), NEW e \in S
  PROVE  /\ Append(q, e) \in Seq(S) /\ Len(Append(q, e)) = Len(q) + 1 /\ Len(q) \in Nat
         /\ \A j \in 1..Len(q) : Append(q, e)[j] = q[j]
         /\ Append(q, e)[Len(q) + 1] = e
BY AppendProperties, LenProperties

-----------------------------------------------------------------------------
(* Types.                                                                  *)

(* The page is a bounded set of sources.                                   *)
LEMMA PageFacts ==
  ASSUME TypeOK
  PROVE  /\ ResolverProjectionPage(run.group, run.after) \subseteq Sources
         /\ ResolverProjectionPage(run.group, run.after) # {} =>
              /\ Highest(ResolverProjectionPage(run.group, run.after))
                   \in ResolverProjectionPage(run.group, run.after)
              /\ \A i \in ResolverProjectionPage(run.group, run.after) :
                   i <= Highest(ResolverProjectionPage(run.group, run.after))
<1> DEFINE page == ResolverProjectionPage(run.group, run.after)
<1>1. session.staged \subseteq Sources
  BY DEF TypeOK
<1>2. page \subseteq Sources
  BY <1>1 DEF ResolverProjectionPage
<1>3. page \in SUBSET (0..N)
  BY <1>2, PipelineAssumption DEF Sources
<1>4. page # {} => Highest(page) \in page /\ \A i \in page : i <= Highest(page)
  BY <1>3, HighestFacts
<1> QED
  BY <1>2, <1>4

LEMMA TypeInit == Init => TypeOK
<1> SUFFICES ASSUME Init PROVE TypeOK
  OBVIOUS
<1>1. N \in Nat /\ Capacity \in Nat
  BY PipelineAssumption
<1>2. tree \in [count : 0..N, bad : SUBSET Sources, base : Bases]
  <2>1. PICK count \in 0..N, base \in Bases : \E bad \in SUBSET (1..count) :
               tree = [count |-> count, bad |-> bad, base |-> base]
    BY DEF Init
  <2>2. PICK bad \in SUBSET (1..count) : tree = [count |-> count, bad |-> bad, base |-> base]
    BY <2>1
  <2>3. 1..count \subseteq Sources
    BY <1>1 DEF Sources
  <2> QED
    BY <2>2, <2>3
<1>3. worker \in [Workers -> [pc : {"start", "ready", "extract", "send", "done"},
                              result : Result]]
  BY <1>1 DEF Init, Result, NoResult, NoIndex
<1>4. jobs \in [queue : Seq(Sources), closed : BOOLEAN] /\ Len(jobs.queue) <= Capacity
  BY <1>1 DEF Init
<1>5. results \in [queue : Seq(Result), closed : BOOLEAN] /\ Len(results.queue) <= Capacity
  BY <1>1 DEF Init
<1>6. run \in [phase : {"extract", "seal", "resolve", "commit", "done"},
               groups : SUBSET Nat, group : Nat, after : 0..N,
               resolved : [Sources -> Nat], outcome : Outcomes, source : 0..N]
  BY <1>1 DEF Init, Outcomes, NoIndex
<1>7. producer \in [pc : {"walk", "stage", "send", "closing", "done"},
                    next : 1..(N + 1), error : ProducerErrors, count : 0..N]
  BY <1>1 DEF Init, ProducerErrors
<1>8. session \in [closed : BOOLEAN, sealed : BOOLEAN, staged : SUBSET Sources,
                   written : SUBSET Sources]
  BY DEF Init
<1>9. consumer \in [failed : BOOLEAN, workerError : BOOLEAN, extraction : 0..N,
                    writeError : BOOLEAN]
  BY <1>1 DEF Init, NoIndex
<1> QED
  BY <1>2, <1>3, <1>4, <1>5, <1>6, <1>7, <1>8, <1>9 DEF Init, TypeOK

(* The parts of TypeOK an action of each process may change.               *)
ProducerTyped ==
  producer \in [pc : {"walk", "stage", "send", "closing", "done"},
                next : 1..(N + 1), error : ProducerErrors, count : 0..N]
JobsTyped ==
  jobs \in [queue : Seq(Sources), closed : BOOLEAN] /\ Len(jobs.queue) <= Capacity
WorkerTyped ==
  worker \in [Workers -> [pc : {"start", "ready", "extract", "send", "done"},
                          result : Result]]
ResultsTyped ==
  results \in [queue : Seq(Result), closed : BOOLEAN] /\ Len(results.queue) <= Capacity
SessionTyped ==
  session \in [closed : BOOLEAN, sealed : BOOLEAN, staged : SUBSET Sources,
               written : SUBSET Sources]
ConsumerTyped ==
  consumer \in [failed : BOOLEAN, workerError : BOOLEAN, extraction : 0..N,
                writeError : BOOLEAN]
RunTyped ==
  run \in [phase : {"extract", "seal", "resolve", "commit", "done"},
           groups : SUBSET Nat, group : Nat, after : 0..N,
           resolved : [Sources -> Nat], outcome : Outcomes, source : 0..N]
ContextTyped ==
  /\ tree \in [count : 0..N, bad : SUBSET Sources, base : Bases]
  /\ caller \in BOOLEAN /\ cancelled \in BOOLEAN

LEMMA TypeParts ==
  TypeOK <=> /\ ProducerTyped /\ JobsTyped /\ WorkerTyped /\ ResultsTyped
             /\ SessionTyped /\ ConsumerTyped /\ RunTyped /\ ContextTyped
BY DEF TypeOK, ProducerTyped, JobsTyped, WorkerTyped, ResultsTyped, SessionTyped,
  ConsumerTyped, RunTyped, ContextTyped

(* A source that is staged or sent is one of the workspace's.              *)
LEMMA NextIsSource ==
  ASSUME TypeOK, ProducerInv, producer.pc \in {"stage", "send"}
  PROVE  producer.next \in Sources /\ producer.next + 1 \in 1..(N + 1)
<1>1. N \in Nat
  BY PipelineAssumption
<1>2. ProducerTyped /\ ContextTyped
  BY TypeParts
<1>3. producer.next \in 1..(N + 1) /\ tree.count \in 0..N
  BY <1>2 DEF ProducerTyped, ContextTyped
<1>4. producer.next <= tree.count
  BY DEF ProducerInv
<1> QED
  BY <1>1, <1>3, <1>4 DEF Sources

(* RunFails keeps the types.                                               *)
LEMMA RunFailsTyped ==
  ASSUME TypeOK, NEW outcome \in Outcomes, RunFails(outcome)
  PROVE  RunTyped' /\ SessionTyped'
<1>1. NoIndex \in 0..N
  BY PipelineAssumption DEF NoIndex
<1>2. consumer.extraction \in 0..N
  BY DEF TypeOK
<1> QED
  BY <1>1, <1>2 DEF TypeOK, RunFails, RunTyped, SessionTyped

LEMMA LaterCallFailsTyped ==
  ASSUME TypeOK, LaterCallFails
  PROVE  RunTyped' /\ SessionTyped'
<1>1. (IF caller THEN "caller" ELSE "resolve") \in Outcomes
  BY DEF Outcomes
<1> QED
  BY <1>1, RunFailsTyped DEF LaterCallFails

LEMMA ProducerTypes ==
  ASSUME TypeOK, ProducerInv, ProducerStep
  PROVE  TypeOK'
<1>0. N \in Nat
  BY PipelineAssumption
<1>p. ProducerTyped /\ JobsTyped /\ SessionTyped /\ RunTyped /\ ContextTyped
  BY TypeParts
<1>1. CASE ProducerWalks
  <2>1. ProducerTyped' /\ cancelled' \in BOOLEAN
    BY <1>1, <1>p DEF ProducerWalks, ProducerStops, ProducerTyped, ContextTyped, ProducerErrors
  <2> QED
    BY <1>1, <2>1 DEF ProducerWalks, TypeOK, ProducerTyped
<1>2. CASE ProducerFinishes
  <2>1. ProducerTyped'
    BY <1>2, <1>p DEF ProducerFinishes, ProducerTyped, ContextTyped
  <2> QED
    BY <1>2, <2>1 DEF ProducerFinishes, TypeOK, ProducerTyped
<1>3. CASE ProducerStages
  <2>1. producer.pc = "stage"
    BY <1>3 DEF ProducerStages
  <2>2. producer.next \in Sources
    BY <2>1, NextIsSource
  <2>3. Group[producer.next] \in Nat
    BY <2>2, PipelineAssumption
  <2>4. ProducerTyped' /\ cancelled' \in BOOLEAN
    BY <1>3, <1>p DEF ProducerStages, ProducerStops, ProducerTyped, ContextTyped,
      ProducerErrors
  <2>7. SessionTyped'
    <3>1. \/ session' = session
          \/ session' = [session EXCEPT !.closed = TRUE]
          \/ session' = [session EXCEPT !.staged = @ \cup {producer.next}]
      BY <1>3 DEF ProducerStages
    <3> QED
      BY <1>p, <2>2, <3>1 DEF SessionTyped
  <2>5. RunTyped'
    BY <1>3, <1>p, <2>3 DEF ProducerStages, RunTyped
  <2>6. UNCHANGED <<tree, caller, jobs, worker, results, consumer>>
    BY <1>3 DEF ProducerStages
  <2> QED
    BY <2>4, <2>5, <2>6, <2>7 DEF TypeOK, ProducerTyped, SessionTyped, RunTyped
<1>4. CASE ProducerSends
  <2>1. producer.pc = "send"
    BY <1>4 DEF ProducerSends
  <2>2. producer.next \in Sources /\ producer.next + 1 \in 1..(N + 1)
    BY <2>1, NextIsSource
  <2>3. jobs.queue \in Seq(Sources)
    BY DEF TypeOK
  <2>4. /\ Append(jobs.queue, producer.next) \in Seq(Sources)
        /\ Len(Append(jobs.queue, producer.next)) = Len(jobs.queue) + 1
        /\ Len(jobs.queue) \in Nat
    BY <2>2, <2>3, SendFacts
  <2>5. Capacity \in Nat
    BY PipelineAssumption
  <2>6. ProducerTyped' /\ cancelled' \in BOOLEAN
    BY <1>4, <1>p, <2>2 DEF ProducerSends, ProducerStops, ProducerTyped, ContextTyped,
      ProducerErrors
  <2>8. JobsTyped'
    <3>1. CASE jobs' = jobs
      BY <3>1, <1>p DEF JobsTyped
    <3>2. CASE /\ Len(jobs.queue) < Capacity
               /\ jobs' = [jobs EXCEPT !.queue = Append(@, producer.next)]
      <4> DEFINE q == Append(jobs.queue, producer.next)
      <4>1. jobs' = [jobs EXCEPT !.queue = q]
        BY <3>2
      <4>2. q \in Seq(Sources) /\ Len(q) <= Capacity
        BY <2>4, <2>5, <3>2
      <4> HIDE DEF q
      <4> QED
        BY <4>1, <4>2, <1>p DEF JobsTyped
    <3> QED
      BY <1>4, <3>1, <3>2 DEF ProducerSends
  <2>7. UNCHANGED <<tree, caller, worker, results, session, consumer, run>>
    BY <1>4 DEF ProducerSends
  <2> QED
    BY <2>6, <2>7, <2>8 DEF TypeOK, ProducerTyped, JobsTyped
<1>5. CASE ProducerCloses
  BY <1>5 DEF ProducerCloses, TypeOK
<1> QED
  BY <1>1, <1>2, <1>3, <1>4, <1>5 DEF ProducerStep

LEMMA WorkerTypes ==
  ASSUME TypeOK, NEW w \in Workers, WorkerStep(w)
  PROVE  TypeOK'
<1>0. N \in Nat /\ Capacity \in Nat /\ NoIndex \in 0..N /\ NoResult \in Result
  BY PipelineAssumption DEF NoIndex, NoResult, Result
<1>p. WorkerTyped /\ JobsTyped /\ ResultsTyped /\ ContextTyped
  BY TypeParts
<1>1. CASE WorkerStarts(w)
  <2>1. [kind |-> "worker", index |-> NoIndex] \in Result
    BY <1>0 DEF Result
  <2>2. cancelled' \in BOOLEAN
    BY <1>1, <1>p DEF WorkerStarts, ContextTyped
  <2>3. WorkerTyped'
    <3>1. \/ worker' = [worker EXCEPT ![w].pc = "ready"]
          \/ worker' = [worker EXCEPT ![w] =
               [pc |-> "send", result |-> [kind |-> "worker", index |-> NoIndex]]]
      BY <1>1 DEF WorkerStarts
    <3> QED
      BY <1>p, <2>1, <3>1 DEF WorkerTyped
  <2> QED
    BY <1>1, <2>2, <2>3 DEF WorkerStarts, TypeOK, WorkerTyped
<1>2. CASE WorkerTakes(w)
  <2>1. jobs.queue \in Seq(Sources) /\ jobs.queue # <<>>
    BY <1>2 DEF WorkerTakes, TypeOK
  <2>2. Head(jobs.queue) \in Sources /\ Tail(jobs.queue) \in Seq(Sources)
        /\ Len(Tail(jobs.queue)) = Len(jobs.queue) - 1 /\ Len(jobs.queue) \in Nat
    BY <2>1, TakeFacts
  <2>3. [kind |-> "ok", index |-> Head(jobs.queue)] \in Result
    BY <1>0, <2>2 DEF Result, Sources
  <2>4. JobsTyped'
    <3> DEFINE q == Tail(jobs.queue)
    <3>1. jobs' = [jobs EXCEPT !.queue = q]
      BY <1>2 DEF WorkerTakes
    <3>2. q \in Seq(Sources) /\ Len(q) <= Capacity
      BY <1>0, <1>p, <2>2 DEF JobsTyped
    <3> HIDE DEF q
    <3> QED
      BY <1>p, <3>1, <3>2 DEF JobsTyped
  <2>5. WorkerTyped'
    BY <1>2, <1>p, <2>3 DEF WorkerTakes, WorkerTyped
  <2> QED
    BY <1>2, <2>4, <2>5 DEF WorkerTakes, TypeOK, JobsTyped, WorkerTyped
<1>3. CASE WorkerExtracts(w)
  <2>1. worker[w] \in [pc : {"start", "ready", "extract", "send", "done"}, result : Result]
    BY <1>p DEF WorkerTyped
  <2>2. WorkerTyped' /\ cancelled' \in BOOLEAN
    BY <1>3, <1>p, <2>1 DEF WorkerExtracts, WorkerTyped, ContextTyped, Result
  <2> QED
    BY <1>3, <2>2 DEF WorkerExtracts, TypeOK, WorkerTyped
<1>4. CASE WorkerSends(w)
  <2>1. worker[w].result \in Result /\ results.queue \in Seq(Result)
    BY DEF TypeOK
  <2>2. /\ Append(results.queue, worker[w].result) \in Seq(Result)
        /\ Len(Append(results.queue, worker[w].result)) = Len(results.queue) + 1
        /\ Len(results.queue) \in Nat
    BY <2>1, SendFacts
  <2>3. ResultsTyped'
    <3> DEFINE q == Append(results.queue, worker[w].result)
    <3>1. results' = [results EXCEPT !.queue = q]
      BY <1>4 DEF WorkerSends
    <3>2. q \in Seq(Result) /\ Len(q) <= Capacity
      BY <1>0, <1>4, <2>2 DEF WorkerSends
    <3> HIDE DEF q
    <3> QED
      BY <1>p, <3>1, <3>2 DEF ResultsTyped
  <2>4. WorkerTyped'
    BY <1>0, <1>4, <1>p DEF WorkerSends, WorkerTyped
  <2> QED
    BY <1>4, <2>3, <2>4 DEF WorkerSends, TypeOK, ResultsTyped, WorkerTyped
<1>5. CASE WorkerEnds(w)
  <2>1. WorkerTyped'
    BY <1>5, <1>p DEF WorkerEnds, WorkerTyped
  <2> QED
    BY <1>5, <2>1 DEF WorkerEnds, TypeOK, WorkerTyped
<1> QED
  BY <1>1, <1>2, <1>3, <1>4, <1>5 DEF WorkerStep

LEMMA RunTypes ==
  ASSUME TypeOK, RunStep \/ CallerCancels \/ closeExtractionResults
  PROVE  TypeOK'
<1>0. N \in Nat
  BY PipelineAssumption
<1>p. ResultsTyped /\ SessionTyped /\ ConsumerTyped /\ RunTyped /\ ContextTyped
  BY TypeParts
<1>1. CASE ConsumerReceives
  <2> DEFINE result == Head(results.queue)
             q == Tail(results.queue)
  <2>1. results.queue \in Seq(Result) /\ results.queue # <<>>
    BY <1>1, <1>p DEF ConsumerReceives, ResultsTyped
  <2>2. result \in Result /\ q \in Seq(Result) /\ Len(q) = Len(results.queue) - 1
        /\ Len(results.queue) \in Nat
    BY <2>1, TakeFacts
  <2>3. /\ ConsumerNotes(result) \/ ConsumerSkips(result) \/ ConsumerWrites(result)
        /\ results' = [results EXCEPT !.queue = q]
        /\ UNCHANGED <<tree, caller, producer, jobs, worker, run>>
    BY <1>1 DEF ConsumerReceives
  <2>4. result.index \in 0..N
    BY <2>2 DEF Result
  <2>5. Capacity \in Nat /\ Len(q) <= Capacity
    BY <1>p, <2>2, PipelineAssumption DEF ResultsTyped
  <2> HIDE DEF result, q
  <2>6. ResultsTyped'
    BY <1>p, <2>2, <2>3, <2>5 DEF ResultsTyped
  <2>7. ConsumerTyped' /\ cancelled' \in BOOLEAN
    <3>1. CASE ConsumerNotes(result)
      <4>1. PICK e \in 0..N : consumer' = [consumer EXCEPT !.failed = TRUE,
                   !.workerError = @ \/ result.kind = "worker", !.extraction = e]
        BY <1>p, <2>4, <3>1 DEF ConsumerNotes, ConsumerTyped
      <4>2. cancelled' = TRUE
        BY <3>1 DEF ConsumerNotes
      <4> QED
        BY <1>p, <4>1, <4>2 DEF ConsumerTyped
    <3>2. CASE ConsumerSkips(result)
      BY <1>p, <3>2 DEF ConsumerSkips, ConsumerTyped, ContextTyped
    <3>3. CASE ConsumerWrites(result)
      BY <1>p, <3>3 DEF ConsumerWrites, ConsumerTyped, ContextTyped
    <3> QED
      BY <2>3, <3>1, <3>2, <3>3
  <2>8. SessionTyped'
    <3>1. \/ session' = session
          \/ session' = [session EXCEPT !.closed = TRUE]
          \/ /\ result.index \in session.staged
             /\ session' = [session EXCEPT !.written = @ \cup {result.index}]
      BY <2>3 DEF ConsumerNotes, ConsumerSkips, ConsumerWrites
    <3> QED
      BY <1>p, <3>1 DEF SessionTyped
  <2> QED
    BY <2>3, <2>6, <2>7, <2>8 DEF TypeOK, ResultsTyped, ConsumerTyped, SessionTyped
<1>2. CASE ConsumerReturns
  <2>1. cancelled' = TRUE
    BY <1>2 DEF ConsumerReturns
  <2>2. RunTyped' /\ SessionTyped'
    <3>1. CASE ConsumerError # "none" /\ RunFails(ConsumerError)
      <4>1. producer.error \in ProducerErrors
        BY DEF TypeOK
      <4>2. ConsumerError \in Outcomes
        BY <3>1, <4>1 DEF ConsumerError, Outcomes, ProducerErrors
      <4> QED
        BY <3>1, <4>2, RunFailsTyped
    <3>2. CASE RunFails("empty")
      <4>1. "empty" \in Outcomes
        BY DEF Outcomes
      <4> QED
        BY <3>2, <4>1, RunFailsTyped
    <3>3. CASE run' = [run EXCEPT !.phase = "seal"] /\ UNCHANGED session
      BY <1>p, <3>3 DEF RunTyped, SessionTyped
    <3> QED
      BY <1>2, <3>1, <3>2, <3>3 DEF ConsumerReturns
  <2> QED
    BY <1>2, <2>1, <2>2 DEF ConsumerReturns, TypeOK, RunTyped, SessionTyped
<1>3. CASE RunSeals
  <2>1. RunTyped' /\ SessionTyped'
    <3>1. CASE LaterCallFails
      BY <3>1, LaterCallFailsTyped
    <3>2. CASE /\ session' = [session EXCEPT !.sealed = TRUE]
               /\ run' = [run EXCEPT !.phase = "resolve"]
      BY <1>p, <3>2 DEF RunTyped, SessionTyped
    <3> QED
      BY <1>3, <3>1, <3>2 DEF RunSeals
  <2> QED
    BY <1>3, <2>1 DEF RunSeals, TypeOK, RunTyped, SessionTyped
<1>4. CASE RunResolves
  <2> DEFINE page == ResolverProjectionPage(run.group, run.after)
             later == {g \in run.groups : g > run.group}
  <2>1. RunTyped' /\ SessionTyped'
    <3>1. CASE LaterCallFails
      BY <3>1, LaterCallFailsTyped
    <3>2. CASE /\ page # {} /\ UNCHANGED session
               /\ run' = [run EXCEPT
                    !.resolved = [i \in Sources |-> IF i \in page THEN @[i] + 1 ELSE @[i]],
                    !.after = Highest(page)]
      <4>1. Highest(page) \in page /\ page \subseteq Sources
        BY <3>2, PageFacts
      <4>2. Highest(page) \in 0..N
        BY <4>1, <1>0 DEF Sources
      <4>3. [i \in Sources |-> IF i \in page THEN run.resolved[i] + 1 ELSE run.resolved[i]]
              \in [Sources -> Nat]
        BY <1>p DEF RunTyped
      <4> HIDE DEF page
      <4> QED
        BY <1>p, <3>2, <4>2, <4>3 DEF RunTyped, SessionTyped
    <3>3. CASE later # {} /\ NextGroup(later) /\ UNCHANGED session
      <4>1. later \subseteq Nat
        BY <1>p DEF RunTyped
      <4>2. Lowest(later) \in Nat /\ 0 \in 0..N
        BY <1>0, <3>3, <4>1, LowestFacts
      <4> HIDE DEF later
      <4> QED
        BY <1>p, <3>3, <4>2 DEF RunTyped, SessionTyped, NextGroup
    <3>4. CASE run' = [run EXCEPT !.phase = "commit"] /\ UNCHANGED session
      BY <1>p, <3>4 DEF RunTyped, SessionTyped
    <3> QED
      BY <1>4, <3>1, <3>2, <3>3, <3>4 DEF RunResolves
  <2> QED
    BY <1>4, <2>1 DEF RunResolves, TypeOK, RunTyped, SessionTyped
<1>5. CASE RunCommits
  <2>1. RunTyped' /\ SessionTyped'
    <3>1. CASE LaterCallFails
      BY <3>1, LaterCallFailsTyped
    <3>2. CASE /\ session' = [session EXCEPT !.closed = TRUE]
               /\ run' = [run EXCEPT !.phase = "done", !.outcome = "committed"]
      BY <1>p, <3>2 DEF RunTyped, SessionTyped, Outcomes
    <3> QED
      BY <1>5, <3>1, <3>2 DEF RunCommits
  <2> QED
    BY <1>5, <2>1 DEF RunCommits, TypeOK, RunTyped, SessionTyped
<1>6. CASE CallerCancels
  BY <1>6 DEF CallerCancels, TypeOK
<1>7. CASE closeExtractionResults
  <2>1. ResultsTyped'
    BY <1>7, <1>p DEF closeExtractionResults, ResultsTyped
  <2> QED
    BY <1>7, <2>1 DEF closeExtractionResults, TypeOK, ResultsTyped
<1> QED
  BY <1>1, <1>2, <1>3, <1>4, <1>5, <1>6, <1>7 DEF RunStep

(* Every step keeps the types.                                             *)
LEMMA TypeStep ==
  ASSUME TypeOK, ProducerInv, [Next]_vars
  PROVE  TypeOK'
<1>1. CASE ProducerStep
  BY <1>1, ProducerTypes
<1>2. CASE \E w \in Workers : WorkerStep(w)
  BY <1>2, WorkerTypes
<1>3. CASE RunStep \/ CallerCancels \/ closeExtractionResults
  BY <1>3, RunTypes
<1>4. CASE UNCHANGED vars
  BY <1>4 DEF vars, TypeOK
<1> QED
  BY <1>1, <1>2, <1>3, <1>4 DEF Next, Terminated

-----------------------------------------------------------------------------
(* What the steps of one process leave alone of the others.                *)
LEMMA RunFrame ==
  ASSUME TypeOK, RunStep \/ CallerCancels \/ closeExtractionResults
  PROVE  /\ UNCHANGED <<tree, producer, jobs, worker>>
         /\ session'.staged = session.staged
<1>p. SessionTyped
  BY TypeParts
<1>1. UNCHANGED <<tree, producer, jobs, worker>>
  BY DEF RunStep, ConsumerReceives, ConsumerReturns, RunSeals, RunResolves, RunCommits,
    CallerCancels, closeExtractionResults
<1>2. \/ session' = session
      \/ session' = [session EXCEPT !.closed = TRUE]
      \/ session' = [session EXCEPT !.sealed = TRUE]
      \/ \E i \in 0..N : session' = [session EXCEPT !.written = @ \cup {i}]
  <2>1. CASE ConsumerReceives
    <3>1. results.queue \in Seq(Result) /\ results.queue # <<>>
      BY <2>1, TypeParts DEF ConsumerReceives, ResultsTyped
    <3>2. Head(results.queue) \in Result
      BY <3>1, TakeFacts
    <3>3. Head(results.queue).index \in 0..N
      BY <3>2 DEF Result
    <3> QED
      BY <2>1, <3>3 DEF ConsumerReceives, ConsumerNotes, ConsumerSkips, ConsumerWrites
  <2>2. CASE ConsumerReturns \/ RunSeals \/ RunResolves \/ RunCommits
    BY <2>2 DEF ConsumerReturns, RunSeals, RunResolves, RunCommits, RunFails, LaterCallFails
  <2>3. CASE CallerCancels \/ closeExtractionResults
    BY <2>3 DEF CallerCancels, closeExtractionResults
  <2> QED
    BY <2>1, <2>2, <2>3 DEF RunStep
<1> QED
  BY <1>p, <1>1, <1>2 DEF SessionTyped

LEMMA WorkerFrame ==
  ASSUME NEW w \in Workers, WorkerStep(w)
  PROVE  UNCHANGED <<tree, caller, producer, session, consumer, run>>
BY DEF WorkerStep, WorkerStarts, WorkerTakes, WorkerExtracts, WorkerSends, WorkerEnds

LEMMA ProducerFrame ==
  ASSUME ProducerStep
  PROVE  UNCHANGED <<tree, caller, worker, results, consumer>>
BY DEF ProducerStep, ProducerWalks, ProducerFinishes, ProducerStages, ProducerSends,
  ProducerCloses

(* The numbers the invariants compute with.                                *)
LEMMA CountFacts ==
  ASSUME TypeOK
  PROVE  /\ N \in Nat /\ tree.count \in 0..N /\ producer.next \in 1..(N + 1)
         /\ producer.count \in 0..N /\ jobs.queue \in Seq(Sources)
         /\ Len(jobs.queue) \in Nat /\ TakenCount \in Int
<1>1. ProducerTyped /\ JobsTyped /\ ContextTyped /\ N \in Nat
  BY TypeParts, PipelineAssumption
<1>2. jobs.queue \in Seq(Sources)
  BY <1>1 DEF JobsTyped
<1>3. Len(jobs.queue) \in Nat
  BY <1>2, LenProperties
<1>4. /\ tree.count \in 0..N /\ producer.next \in 1..(N + 1) /\ producer.count \in 0..N
  BY <1>1 DEF ProducerTyped, ContextTyped
<1> QED
  BY <1>1, <1>2, <1>3, <1>4 DEF TakenCount

-----------------------------------------------------------------------------
(* The producer.                                                           *)
LEMMA ProducerInit == Init => ProducerInv
<1> SUFFICES ASSUME Init PROVE ProducerInv
  OBVIOUS
<1>1. TypeOK
  BY TypeInit
<1>2. tree.bad \subseteq 1..tree.count
  BY DEF Init
<1>3. jobs.queue = <<>> /\ Len(<<>>) = 0
  BY DEF Init
<1> QED
  BY <1>2, <1>3, CountFacts, <1>1 DEF Init, ProducerInv

LEMMA ProducerQuiet ==
  ASSUME ProducerInv, UNCHANGED <<tree, producer, jobs>>, session'.staged = session.staged
  PROVE  ProducerInv'
BY DEF ProducerInv, TakenCount

LEMMA ProducerInvStep ==
  ASSUME TypeOK, ProducerInv, [Next]_vars
  PROVE  ProducerInv'
<1>p. ProducerTyped /\ JobsTyped /\ SessionTyped
  BY TypeParts
<1>n. /\ N \in Nat /\ tree.count \in 0..N /\ producer.next \in 1..(N + 1)
      /\ jobs.queue \in Seq(Sources) /\ Len(jobs.queue) \in Nat
  BY CountFacts
<1>1. CASE ProducerWalks
  <2>1. UNCHANGED <<tree, jobs, session>> /\ producer.pc = "walk"
    BY <1>1 DEF ProducerWalks
  <2>2. \/ /\ producer.next <= tree.count
           /\ producer' = [producer EXCEPT !.pc = "stage"]
        \/ producer' = [producer EXCEPT !.pc = "closing", !.error = "canceled"]
        \/ producer' = [producer EXCEPT !.pc = "closing", !.error = "walk"]
    BY <1>1 DEF ProducerWalks, ProducerStops
  <2> QED
    BY <1>p, <2>1, <2>2 DEF ProducerInv, TakenCount, ProducerTyped
<1>2. CASE ProducerFinishes
  <2>1. /\ UNCHANGED <<tree, jobs, session>>
        /\ producer.pc = "walk" /\ producer.next = tree.count + 1
        /\ producer' = [producer EXCEPT !.pc = "closing", !.count = tree.count]
    BY <1>2 DEF ProducerFinishes
  <2> QED
    BY <1>p, <2>1 DEF ProducerInv, TakenCount, ProducerTyped
<1>3. CASE ProducerStages
  <2>1. UNCHANGED <<tree, jobs>> /\ producer.pc = "stage"
    BY <1>3 DEF ProducerStages
  <2>2. \/ /\ session'.staged = session.staged
           /\ \E e \in {"canceled", "stage", "closed"} :
                producer' = [producer EXCEPT !.pc = "closing", !.error = e]
        \/ /\ session' = [session EXCEPT !.staged = @ \cup {producer.next}]
           /\ producer' = [producer EXCEPT !.pc = "send"]
    BY <1>3, <1>p DEF ProducerStages, ProducerStops, SessionTyped
  <2>3. CASE /\ session'.staged = session.staged
             /\ \E e \in {"canceled", "stage", "closed"} :
                  producer' = [producer EXCEPT !.pc = "closing", !.error = e]
    BY <1>p, <2>1, <2>3 DEF ProducerInv, TakenCount, ProducerTyped
  <2>4. CASE /\ session' = [session EXCEPT !.staged = @ \cup {producer.next}]
             /\ producer' = [producer EXCEPT !.pc = "send"]
    <3>1. session'.staged = session.staged \cup {producer.next}
      BY <1>p, <2>4 DEF SessionTyped
    <3>2. producer'.next = producer.next /\ producer'.pc = "send"
          /\ producer'.error = producer.error
      BY <1>p, <2>4 DEF ProducerTyped
    <3> QED
      BY <1>n, <2>1, <3>1, <3>2 DEF ProducerInv, TakenCount
  <2> QED
    BY <2>2, <2>3, <2>4
<1>4. CASE ProducerSends
  <2>1. UNCHANGED <<tree, session>> /\ producer.pc = "send"
    BY <1>4 DEF ProducerSends
  <2>2. CASE /\ jobs' = [jobs EXCEPT !.queue = Append(@, producer.next)]
             /\ producer' = [producer EXCEPT !.pc = "walk", !.next = @ + 1]
    <3> DEFINE q == Append(jobs.queue, producer.next)
    <3>1. /\ Len(q) = Len(jobs.queue) + 1
          /\ \A j \in 1..Len(jobs.queue) : q[j] = jobs.queue[j]
          /\ q[Len(jobs.queue) + 1] = producer.next
      BY <1>n, <2>1, NextIsSource, SendFacts
    <3>2. jobs'.queue = q /\ jobs'.closed = jobs.closed
      BY <1>p, <2>2 DEF JobsTyped
    <3>3. producer'.pc = "walk" /\ producer'.next = producer.next + 1
          /\ producer'.error = producer.error
      BY <1>p, <2>2 DEF ProducerTyped
    <3> HIDE DEF q
    <3>4. TakenCount' = TakenCount
      BY <1>n, <3>1, <3>2, <3>3 DEF TakenCount
    <3>5. ASSUME NEW j \in 1..Len(q) PROVE q[j] = TakenCount + j
      <4>1. CASE j \in 1..Len(jobs.queue)
        BY <3>1, <4>1 DEF ProducerInv
      <4>2. CASE j = Len(jobs.queue) + 1
        BY <1>n, <3>1, <4>2 DEF TakenCount
      <4> QED
        BY <1>n, <3>1, <4>1, <4>2
    <3>6. Len(q) < producer.next + 1
      BY <1>n, <3>1 DEF ProducerInv
    <3>7. \A i \in Sources : i < producer.next + 1 => i \in session.staged
      BY <1>n, <2>1 DEF ProducerInv, Sources
    <3> QED
      BY <1>n, <2>1, <3>2, <3>3, <3>4, <3>5, <3>6, <3>7 DEF ProducerInv
  <2>3. CASE /\ producer' = [producer EXCEPT !.pc = "closing", !.error = "canceled"]
             /\ UNCHANGED jobs
    BY <1>p, <2>1, <2>3 DEF ProducerInv, TakenCount, ProducerTyped
  <2> QED
    BY <1>4, <2>2, <2>3 DEF ProducerSends, ProducerStops
<1>5. CASE ProducerCloses
  <2>1. /\ UNCHANGED <<tree, session>> /\ producer.pc = "closing"
        /\ producer' = [producer EXCEPT !.pc = "done"]
        /\ jobs' = [jobs EXCEPT !.closed = TRUE]
    BY <1>5 DEF ProducerCloses
  <2>2. /\ producer'.pc = "done" /\ producer'.next = producer.next
        /\ producer'.error = producer.error /\ producer'.count = producer.count
        /\ jobs'.closed = TRUE /\ jobs'.queue = jobs.queue
    BY <1>p, <2>1 DEF ProducerTyped, JobsTyped
  <2> QED
    BY <2>1, <2>2 DEF ProducerInv, TakenCount
<1>6. ASSUME NEW w \in Workers, WorkerStep(w) PROVE ProducerInv'
  <2>1. UNCHANGED <<tree, producer, session>>
    BY <1>6, WorkerFrame
  <2>2. CASE UNCHANGED jobs
    BY <2>1, <2>2, ProducerQuiet
  <2>3. CASE WorkerTakes(w)
    <3> DEFINE q == Tail(jobs.queue)
    <3>1. /\ Len(q) = Len(jobs.queue) - 1 /\ Len(jobs.queue) \in Nat \ {0}
          /\ \A j \in 1..Len(q) : q[j] = jobs.queue[j + 1]
      BY <1>n, <2>3, TakeFacts DEF WorkerTakes
    <3>2. jobs'.queue = q /\ jobs'.closed = jobs.closed
      BY <1>p, <2>3 DEF JobsTyped, WorkerTakes
    <3> HIDE DEF q
    <3>3. TakenCount' = TakenCount + 1
      <4>1. TakenCount' = producer.next - 1 - Len(q)
        BY <2>1, <3>2 DEF TakenCount
      <4>2. TakenCount = producer.next - 1 - Len(jobs.queue)
        BY DEF TakenCount
      <4>3. producer.next \in Int /\ Len(jobs.queue) \in Int
        BY <1>n
      <4> QED
        BY <3>1, <4>1, <4>2, <4>3
    <3>4. ASSUME NEW j \in 1..Len(q) PROVE q[j] = TakenCount + 1 + j
      <4>1. q[j] = jobs.queue[j + 1] /\ j + 1 \in 1..Len(jobs.queue)
        BY <1>n, <3>1
      <4>2. jobs.queue[j + 1] = TakenCount + (j + 1)
        BY <4>1 DEF ProducerInv
      <4>3. TakenCount \in Int /\ j \in Int
        BY CountFacts
      <4> QED
        BY <4>1, <4>2, <4>3
    <3>5. Len(q) < producer.next
      BY <1>n, <3>1 DEF ProducerInv
    <3> QED
      BY <2>1, <3>2, <3>3, <3>4, <3>5 DEF ProducerInv
  <2> QED
    BY <1>6, <2>2, <2>3 DEF WorkerStep, WorkerStarts, WorkerExtracts, WorkerSends, WorkerEnds
<1>7. CASE RunStep \/ CallerCancels \/ closeExtractionResults
  BY <1>7, RunFrame, ProducerQuiet
<1>8. CASE UNCHANGED vars
  BY <1>8, ProducerQuiet DEF vars
<1> QED
  BY <1>1, <1>2, <1>3, <1>4, <1>5, <1>6, <1>7, <1>8 DEF Next, ProducerStep, Terminated

-----------------------------------------------------------------------------
(* What each step does to the places of the sources.                       *)

(* Nothing of a taken source moves.                                        *)
PlacesSame ==
  /\ \A w \in Workers : \A i \in 0..N : Holds(w, i)' <=> Holds(w, i)
  /\ results'.queue = results.queue
  /\ session'.written = session.written
  /\ TakenCount' = TakenCount

LEMMA ProducerPlaces ==
  ASSUME TypeOK, ProducerInv, ProducerStep
  PROVE  PlacesSame /\ \A i \in session.staged : i \in session'.staged
<1>p. ProducerTyped /\ JobsTyped /\ SessionTyped
  BY TypeParts
<1>n. producer.next \in Int /\ jobs.queue \in Seq(Sources) /\ Len(jobs.queue) \in Int
  BY CountFacts
<1>1. UNCHANGED <<worker, results>>
  BY ProducerFrame
<1>2. session'.written = session.written /\ session.staged \subseteq session'.staged
  <2>1. \/ session' = session
        \/ session' = [session EXCEPT !.closed = TRUE]
        \/ session' = [session EXCEPT !.staged = @ \cup {producer.next}]
    BY DEF ProducerStep, ProducerWalks, ProducerFinishes, ProducerStages, ProducerSends,
      ProducerCloses
  <2> QED
    BY <1>p, <2>1 DEF SessionTyped
<1>3. TakenCount' = TakenCount
  <2>1. CASE /\ jobs' = [jobs EXCEPT !.queue = Append(@, producer.next)]
             /\ producer' = [producer EXCEPT !.pc = "walk", !.next = @ + 1]
             /\ producer.pc = "send"
    <3>1. Len(Append(jobs.queue, producer.next)) = Len(jobs.queue) + 1
      BY <1>n, <2>1, NextIsSource, SendFacts
    <3>2. jobs'.queue = Append(jobs.queue, producer.next) /\ producer'.next = producer.next + 1
      BY <1>p, <2>1 DEF ProducerTyped, JobsTyped
    <3>3. Len(jobs'.queue) = Len(jobs.queue) + 1
      BY <3>1, <3>2
    <3>4. /\ TakenCount' = producer'.next - 1 - Len(jobs'.queue)
          /\ TakenCount = producer.next - 1 - Len(jobs.queue)
      BY DEF TakenCount
    <3> QED
      BY <1>n, <3>2, <3>3, <3>4
  <2>2. CASE producer'.next = producer.next /\ jobs'.queue = jobs.queue
    BY <2>2 DEF TakenCount
  <2>3. CASE ProducerWalks
    <3>1. producer'.next = producer.next /\ jobs' = jobs
      BY <1>p, <2>3 DEF ProducerWalks, ProducerStops, ProducerTyped
    <3> QED
      BY <2>2, <3>1
  <2>4. CASE ProducerFinishes
    <3>1. producer'.next = producer.next /\ jobs' = jobs
      BY <1>p, <2>4 DEF ProducerFinishes, ProducerTyped
    <3> QED
      BY <2>2, <3>1
  <2>5. CASE ProducerStages
    <3>1. producer'.next = producer.next /\ jobs' = jobs
      BY <1>p, <2>5 DEF ProducerStages, ProducerStops, ProducerTyped
    <3> QED
      BY <2>2, <3>1
  <2>6. CASE ProducerSends
    <3>1. CASE ProducerStops("canceled") /\ UNCHANGED jobs
      <4>1. producer'.next = producer.next /\ jobs' = jobs
        BY <1>p, <3>1 DEF ProducerStops, ProducerTyped
      <4> QED
        BY <2>2, <4>1
    <3> QED
      BY <2>1, <2>6, <3>1 DEF ProducerSends
  <2>7. CASE ProducerCloses
    <3>1. producer'.next = producer.next /\ jobs'.queue = jobs.queue
      BY <1>p, <2>7 DEF ProducerCloses, ProducerTyped, JobsTyped
    <3> QED
      BY <2>2, <3>1
  <2> QED
    BY <2>3, <2>4, <2>5, <2>6, <2>7 DEF ProducerStep
<1> QED
  BY <1>1, <1>2, <1>3 DEF PlacesSame, Holds

LEMMA WorkerPlaces ==
  ASSUME TypeOK, KindsInv, NEW w \in Workers,
         WorkerStarts(w) \/ WorkerExtracts(w) \/ WorkerEnds(w)
  PROVE  PlacesSame
<1>p. WorkerTyped
  BY TypeParts
<1>1. UNCHANGED <<producer, jobs, results, session>>
  BY DEF WorkerStarts, WorkerExtracts, WorkerEnds
<1>2. TakenCount' = TakenCount
  BY <1>1 DEF TakenCount
<1>3. ASSUME NEW v \in Workers, NEW i \in 0..N PROVE Holds(v, i)' <=> Holds(v, i)
  <2>1. CASE v # w
    <3>1. worker'[v] = worker[v]
      BY <1>p, <2>1 DEF WorkerStarts, WorkerExtracts, WorkerEnds, WorkerTyped
    <3> QED
      BY <3>1 DEF Holds
  <2>2. CASE v = w /\ WorkerExtracts(w)
    <3>1. worker[w] \in [pc : {"start", "ready", "extract", "send", "done"}, result : Result]
      BY <1>p DEF WorkerTyped
    <3>2. /\ worker[w].pc = "extract" /\ worker'[w].pc = "send"
          /\ worker'[w].result.index = worker[w].result.index
          /\ worker'[w].result.kind # "worker"
      BY <1>p, <2>2, <3>1 DEF WorkerExtracts, WorkerTyped, Result
    <3>3. worker[w].result.kind # "worker"
      BY <3>2 DEF KindsInv
    <3> QED
      BY <2>2, <3>2, <3>3 DEF Holds
  <2>3. CASE v = w /\ (WorkerStarts(w) \/ WorkerEnds(w))
    <3>1. worker[w].pc \in {"start", "ready"}
      BY <2>3 DEF WorkerStarts, WorkerEnds
    <3>2. worker'[w].pc \in {"ready", "done"} \/ worker'[w].result.kind = "worker"
      BY <1>p, <2>3 DEF WorkerStarts, WorkerEnds, WorkerTyped
    <3> QED
      BY <2>3, <3>1, <3>2 DEF Holds
  <2> QED
    BY <2>1, <2>2, <2>3
<1> QED
  BY <1>1, <1>2, <1>3 DEF PlacesSame

(* A source moves from the jobs to worker w.                               *)
PlacesTake(w) ==
  /\ TakenCount' = TakenCount + 1
  /\ \A v \in Workers : \A i \in 0..N :
       Holds(v, i)' <=> IF v = w THEN i = TakenCount + 1 ELSE Holds(v, i)
  /\ \A i \in 0..N : ~Holds(w, i)
  /\ UNCHANGED <<session, results>>

LEMMA TakePlaces ==
  ASSUME TypeOK, ProducerInv, NEW w \in Workers, WorkerTakes(w)
  PROVE  PlacesTake(w)
<1>p. WorkerTyped /\ JobsTyped
  BY TypeParts
<1>n. /\ producer.next \in Int /\ jobs.queue \in Seq(Sources) /\ Len(jobs.queue) \in Int
      /\ TakenCount \in Int
  BY CountFacts
<1>1. /\ Head(jobs.queue) = jobs.queue[1] /\ Len(jobs.queue) \in Nat \ {0}
      /\ Len(Tail(jobs.queue)) = Len(jobs.queue) - 1
  BY <1>n, TakeFacts DEF WorkerTakes
<1>2. Head(jobs.queue) = TakenCount + 1
  BY <1>1 DEF ProducerInv
<1>3. jobs'.queue = Tail(jobs.queue) /\ producer' = producer
  BY <1>p DEF WorkerTakes, JobsTyped
<1>4. TakenCount' = TakenCount + 1
  <2>1. Len(jobs'.queue) = Len(jobs.queue) - 1
    BY <1>1, <1>3
  <2>2. /\ TakenCount' = producer'.next - 1 - Len(jobs'.queue)
        /\ TakenCount = producer.next - 1 - Len(jobs.queue)
    BY DEF TakenCount
  <2> QED
    BY <1>n, <1>3, <2>1, <2>2
<1>5. \A i \in 0..N : ~Holds(w, i)
  BY DEF WorkerTakes, Holds
<1>6. ASSUME NEW v \in Workers, NEW i \in 0..N
      PROVE  Holds(v, i)' <=> IF v = w THEN i = TakenCount + 1 ELSE Holds(v, i)
  <2>1. CASE v # w
    <3>1. worker'[v] = worker[v]
      BY <1>p, <2>1 DEF WorkerTakes, WorkerTyped
    <3> QED
      BY <2>1, <3>1 DEF Holds
  <2>2. CASE v = w
    <3>1. worker'[w] = [pc |-> "extract",
                        result |-> [kind |-> "ok", index |-> TakenCount + 1]]
      BY <1>p, <1>2 DEF WorkerTakes, WorkerTyped
    <3> QED
      BY <2>2, <3>1 DEF Holds
  <2> QED
    BY <2>1, <2>2
<1> QED
  BY <1>4, <1>5, <1>6 DEF PlacesTake, WorkerTakes

(* What worker w holds moves to the end of the results.                    *)
PlacesSend(w) ==
  /\ TakenCount' = TakenCount /\ session' = session
  /\ \A v \in Workers : \A i \in 0..N : Holds(v, i)' <=> v # w /\ Holds(v, i)
  /\ Len(results.queue) \in Nat /\ Len(results'.queue) = Len(results.queue) + 1
  /\ \A j \in 1..Len(results.queue) : results'.queue[j] = results.queue[j]
  /\ results'.queue[Len(results.queue) + 1] = worker[w].result
  /\ \A k \in Nat : \A i \in 0..N :
       k = Len(results.queue) + 1 => (Waits(k, i)' <=> Holds(w, i))

LEMMA SendPlaces ==
  ASSUME TypeOK, NEW w \in Workers, WorkerSends(w)
  PROVE  PlacesSend(w)
<1>p. WorkerTyped /\ ResultsTyped
  BY TypeParts
<1>1. worker[w].result \in Result /\ results.queue \in Seq(Result)
  BY <1>p DEF WorkerTyped, ResultsTyped
<1>2. /\ Len(Append(results.queue, worker[w].result)) = Len(results.queue) + 1
      /\ Len(results.queue) \in Nat
      /\ \A j \in 1..Len(results.queue) :
           Append(results.queue, worker[w].result)[j] = results.queue[j]
      /\ Append(results.queue, worker[w].result)[Len(results.queue) + 1] = worker[w].result
  BY <1>1, SendFacts
<1>3. results'.queue = Append(results.queue, worker[w].result)
  BY <1>p DEF WorkerSends, ResultsTyped
<1>4. TakenCount' = TakenCount /\ session' = session
  BY DEF WorkerSends, TakenCount
<1>5. ASSUME NEW v \in Workers, NEW i \in 0..N PROVE Holds(v, i)' <=> v # w /\ Holds(v, i)
  <2>1. CASE v # w
    <3>1. worker'[v] = worker[v]
      BY <1>p, <2>1 DEF WorkerSends, WorkerTyped
    <3> QED
      BY <2>1, <3>1 DEF Holds
  <2>2. CASE v = w
    <3>1. worker'[w].pc \in {"ready", "done"}
      BY <1>p DEF WorkerSends, WorkerTyped
    <3> QED
      BY <2>2, <3>1 DEF Holds
  <2> QED
    BY <2>1, <2>2
<1>6. results'.queue[Len(results.queue) + 1] = worker[w].result
  BY <1>2, <1>3
<1>7. ASSUME NEW k \in Nat, NEW i \in 0..N, k = Len(results.queue) + 1
      PROVE  Waits(k, i)' <=> Holds(w, i)
  BY <1>6, <1>7 DEF Waits, Holds, WorkerSends
<1> QED
  BY <1>2, <1>3, <1>4, <1>5, <1>6, <1>7 DEF PlacesSend

(* The first of the results is taken, and its source written perhaps.      *)
PlacesReceive ==
  /\ TakenCount' = TakenCount /\ worker' = worker /\ session'.staged = session.staged
  /\ Len(results.queue) \in Nat \ {0} /\ Len(results'.queue) = Len(results.queue) - 1
  /\ \A j \in 1..Len(results'.queue) : results'.queue[j] = results.queue[j + 1]
  /\ results.queue[1] \in Result
  /\ \/ session'.written = session.written
     \/ /\ results.queue[1].kind = "ok"
        /\ session'.written = session.written \cup {results.queue[1].index}

LEMMA ReceivePlaces ==
  ASSUME TypeOK, ConsumerReceives
  PROVE  PlacesReceive
<1>p. ResultsTyped /\ SessionTyped
  BY TypeParts
<1>1. results.queue \in Seq(Result) /\ results.queue # <<>>
  BY <1>p DEF ResultsTyped, ConsumerReceives
<1>2. /\ Head(results.queue) \in Result /\ Head(results.queue) = results.queue[1]
      /\ Len(results.queue) \in Nat \ {0}
      /\ Len(Tail(results.queue)) = Len(results.queue) - 1
      /\ \A j \in 1..Len(Tail(results.queue)) : Tail(results.queue)[j] = results.queue[j + 1]
  BY <1>1, TakeFacts
<1>3. results'.queue = Tail(results.queue)
  BY <1>p DEF ConsumerReceives, ResultsTyped
<1>4. TakenCount' = TakenCount /\ worker' = worker
  BY DEF ConsumerReceives, TakenCount
<1>5. /\ session'.staged = session.staged
      /\ \/ session'.written = session.written
         \/ /\ results.queue[1].kind = "ok"
            /\ session'.written = session.written \cup {results.queue[1].index}
  <2>1. \/ session' = session
        \/ session' = [session EXCEPT !.closed = TRUE]
        \/ /\ results.queue[1].kind = "ok"
           /\ session' = [session EXCEPT !.written = @ \cup {results.queue[1].index}]
    BY <1>2 DEF ConsumerReceives, ConsumerNotes, ConsumerSkips, ConsumerWrites
  <2> QED
    BY <1>p, <2>1 DEF SessionTyped
<1> QED
  BY <1>2, <1>3, <1>4, <1>5 DEF PlacesReceive

(* The other steps of Run, the caller and the closer move nothing.         *)
LEMMA OtherPlaces ==
  ASSUME TypeOK,
         \/ ConsumerReturns \/ RunSeals \/ RunResolves \/ RunCommits
         \/ CallerCancels \/ closeExtractionResults
  PROVE  PlacesSame /\ UNCHANGED <<tree, producer, jobs, worker, consumer>>
<1>p. SessionTyped /\ ResultsTyped
  BY TypeParts
<1>1. UNCHANGED <<tree, producer, jobs, worker, consumer>>
  BY DEF ConsumerReturns, RunSeals, RunResolves, RunCommits, CallerCancels,
    closeExtractionResults
<1>2. results'.queue = results.queue
  BY <1>p DEF ConsumerReturns, RunSeals, RunResolves, RunCommits, CallerCancels,
    closeExtractionResults, ResultsTyped
<1>3. session'.written = session.written
  <2>1. \/ session' = session
        \/ session' = [session EXCEPT !.closed = TRUE]
        \/ session' = [session EXCEPT !.sealed = TRUE]
    BY DEF ConsumerReturns, RunSeals, RunResolves, RunCommits, CallerCancels,
      closeExtractionResults, RunFails, LaterCallFails
  <2> QED
    BY <1>p, <2>1 DEF SessionTyped
<1> QED
  BY <1>1, <1>2, <1>3 DEF PlacesSame, Holds, TakenCount

-----------------------------------------------------------------------------
(* Every source is in one place.                                           *)
LEMMA PlacesInit == Init => PlacesInv /\ KindsInv
<1> SUFFICES ASSUME Init PROVE PlacesInv /\ KindsInv
  OBVIOUS
<1>1. \A w \in Workers : worker[w].pc = "start"
  BY DEF Init
<1>2. results.queue = <<>> /\ Len(<<>>) = 0 /\ session.written = {}
  BY DEF Init
<1> QED
  BY <1>1, <1>2 DEF PlacesInv, KindsInv, Holds

LEMMA PlacesSameStep ==
  ASSUME PlacesInv, PlacesSame
  PROVE  PlacesInv'
BY DEF PlacesInv, PlacesSame, Waits

LEMMA PlacesTakeStep ==
  ASSUME TypeOK, PlacesInv, NEW w \in Workers, PlacesTake(w), ProducerInv
  PROVE  PlacesInv'
<1>n. TakenCount \in Nat /\ N \in Nat
  BY CountFacts DEF TakenCount, ProducerInv
<1>1. \A i \in session'.written : i <= TakenCount'
  <2>1. \A i \in session.written : i \in Nat /\ i <= TakenCount
    BY TypeParts, <1>n DEF SessionTyped, Sources, PlacesInv
  <2> QED
    BY <1>n, <2>1 DEF PlacesTake
<1>2. ASSUME NEW v \in Workers, NEW i \in 0..N, Holds(v, i)'
      PROVE  /\ i >= 1 /\ i <= TakenCount' /\ i \notin session'.written
             /\ \A u \in Workers : Holds(u, i)' => u = v
             /\ \A j \in 1..Len(results'.queue) : ~Waits(j, i)'
  <2>1. results' = results /\ session' = session /\ TakenCount' = TakenCount + 1
    BY DEF PlacesTake
  <2>2. \A j \in 1..Len(results.queue) : Waits(j, i)' <=> Waits(j, i)
    BY <2>1 DEF Waits
  <2>3. CASE v = w
    <3>1. i = TakenCount + 1
      BY <1>2, <2>3 DEF PlacesTake
    <3>2. i \notin session.written /\ \A j \in 1..Len(results.queue) : ~Waits(j, i)
      BY <1>n, <3>1 DEF PlacesInv
    <3>3. \A u \in Workers : ~Holds(u, i)
      BY <1>n, <3>1 DEF PlacesInv
    <3> QED
      BY <1>n, <2>1, <2>2, <2>3, <3>1, <3>2, <3>3 DEF PlacesTake
  <2>4. CASE v # w
    <3>1. Holds(v, i)
      BY <1>2, <2>4 DEF PlacesTake
    <3>2. /\ i >= 1 /\ i <= TakenCount /\ i \notin session.written
          /\ \A u \in Workers : Holds(u, i) => u = v
          /\ \A j \in 1..Len(results.queue) : ~Waits(j, i)
      BY <3>1 DEF PlacesInv
    <3>3. i # TakenCount + 1 /\ i <= TakenCount + 1
      BY <1>n, <3>2
    <3> QED
      BY <2>1, <2>2, <3>2, <3>3 DEF PlacesTake
  <2> QED
    BY <2>3, <2>4
<1>3. ASSUME NEW j \in 1..Len(results'.queue), NEW i \in 0..N, Waits(j, i)'
      PROVE  /\ i >= 1 /\ i <= TakenCount' /\ i \notin session'.written
             /\ \A k \in 1..Len(results'.queue) : Waits(k, i)' => k = j
  <2>1. results' = results /\ session' = session /\ TakenCount' = TakenCount + 1
    BY DEF PlacesTake
  <2>2. \A k \in 1..Len(results.queue) : Waits(k, i)' <=> Waits(k, i)
    BY <2>1 DEF Waits
  <2>3. Waits(j, i) /\ j \in 1..Len(results.queue)
    BY <1>3, <2>1, <2>2
  <2>4. /\ i >= 1 /\ i <= TakenCount /\ i \notin session.written
        /\ \A k \in 1..Len(results.queue) : Waits(k, i) => k = j
    BY <2>3 DEF PlacesInv
  <2>5. i <= TakenCount + 1
    BY <1>n, <2>4
  <2> QED
    BY <2>1, <2>2, <2>4, <2>5
<1> QED
  BY <1>1, <1>2, <1>3 DEF PlacesInv

LEMMA PlacesSendStep ==
  ASSUME TypeOK, PlacesInv, NEW w \in Workers, PlacesSend(w)
  PROVE  PlacesInv'
<1> DEFINE n == Len(results.queue)
           m == Len(results'.queue)
<1>1. TakenCount' = TakenCount /\ session' = session /\ n \in Nat /\ m = n + 1
  BY DEF PlacesSend
<1>2. \A j \in 1..n : \A i \in 0..N : Waits(j, i)' <=> Waits(j, i)
  BY DEF PlacesSend, Waits
<1>3. \A j \in 1..m : j \in 1..n \/ j = n + 1
  BY <1>1
<1>4. \A i \in 0..N : \A j \in 1..m : j = n + 1 => (Waits(j, i)' <=> Holds(w, i))
  BY <1>1 DEF PlacesSend
<1>5. \A v \in Workers : \A i \in 0..N : Holds(v, i)' <=> v # w /\ Holds(v, i)
  BY DEF PlacesSend
<1>6. ASSUME NEW v \in Workers, NEW i \in 0..N, Holds(v, i)'
      PROVE  /\ i >= 1 /\ i <= TakenCount' /\ i \notin session'.written
             /\ \A u \in Workers : Holds(u, i)' => u = v
             /\ \A j \in 1..m : ~Waits(j, i)'
  <2>1. v # w /\ Holds(v, i)
    BY <1>5, <1>6
  <2>2. /\ i >= 1 /\ i <= TakenCount /\ i \notin session.written
        /\ \A u \in Workers : Holds(u, i) => u = v
        /\ \A j \in 1..n : ~Waits(j, i)
    BY <2>1 DEF PlacesInv
  <2>3. ~Holds(w, i)
    BY <2>1, <2>2
  <2>4. \A j \in 1..m : ~Waits(j, i)'
    BY <1>2, <1>3, <1>4, <2>2, <2>3
  <2> HIDE DEF n, m
  <2> QED
    BY <1>1, <1>5, <2>2, <2>4
<1>7. ASSUME NEW j \in 1..m, NEW i \in 0..N, Waits(j, i)'
      PROVE  /\ i >= 1 /\ i <= TakenCount' /\ i \notin session'.written
             /\ \A k \in 1..m : Waits(k, i)' => k = j
  <2>1. CASE j \in 1..n
    <3>1. Waits(j, i)
      BY <1>2, <1>7, <2>1
    <3>2. /\ i >= 1 /\ i <= TakenCount /\ i \notin session.written
          /\ \A k \in 1..n : Waits(k, i) => k = j
          /\ ~Holds(w, i)
      BY <2>1, <3>1 DEF PlacesInv
    <3>3. \A k \in 1..m : Waits(k, i)' => k = j
      BY <1>2, <1>3, <1>4, <3>2
    <3> HIDE DEF n, m
    <3> QED
      BY <1>1, <3>2, <3>3
  <2>2. CASE j = n + 1
    <3>1. Holds(w, i)
      BY <1>4, <1>7, <2>2
    <3>2. /\ i >= 1 /\ i <= TakenCount /\ i \notin session.written
          /\ \A k \in 1..n : ~Waits(k, i)
      BY <3>1 DEF PlacesInv
    <3>3. \A k \in 1..m : Waits(k, i)' => k = j
      BY <1>2, <1>3, <2>2, <3>2
    <3> HIDE DEF n, m
    <3> QED
      BY <1>1, <3>2, <3>3
  <2> QED
    BY <1>3, <2>1, <2>2
<1>8. \A i \in session'.written : i <= TakenCount'
  BY <1>1 DEF PlacesInv
<1> QED
  BY <1>6, <1>7, <1>8 DEF PlacesInv

LEMMA PlacesReceiveStep ==
  ASSUME TypeOK, PlacesInv, PlacesReceive
  PROVE  PlacesInv'
<1> DEFINE n == Len(results.queue)
           m == Len(results'.queue)
           first == results.queue[1]
<1>1. /\ TakenCount' = TakenCount /\ n \in Nat \ {0} /\ m = n - 1
      /\ first \in Result
  BY DEF PlacesReceive
<1>2. \A j \in 1..m : j \in Nat /\ j + 1 \in 1..n
  BY <1>1
<1>3. \A j \in 1..m : \A i \in 0..N : Waits(j, i)' => Waits(j + 1, i)
  BY DEF PlacesReceive, Waits
<1>4. \A v \in Workers : \A i \in 0..N : Holds(v, i)' <=> Holds(v, i)
  BY DEF PlacesReceive, Holds
<1>5. \A i \in 0..N : i \in session'.written => i \in session.written \/ Waits(1, i)
  BY DEF PlacesReceive, Waits
<1>6. 1 \in 1..n /\ first.index \in 0..N
  BY <1>1 DEF Result
<1>7. ASSUME NEW v \in Workers, NEW i \in 0..N, Holds(v, i)'
      PROVE  /\ i >= 1 /\ i <= TakenCount' /\ i \notin session'.written
             /\ \A u \in Workers : Holds(u, i)' => u = v
             /\ \A j \in 1..m : ~Waits(j, i)'
  <2>1. Holds(v, i)
    BY <1>4, <1>7
  <2>2. /\ i >= 1 /\ i <= TakenCount /\ i \notin session.written
        /\ \A u \in Workers : Holds(u, i) => u = v
        /\ \A j \in 1..n : ~Waits(j, i)
    BY <2>1 DEF PlacesInv
  <2>3. i \notin session'.written
    BY <1>5, <1>6, <2>2
  <2>4. \A j \in 1..m : ~Waits(j, i)'
    BY <1>2, <1>3, <2>2
  <2> HIDE DEF n, m
  <2> QED
    BY <1>1, <1>4, <2>2, <2>3, <2>4
<1>8. ASSUME NEW j \in 1..m, NEW i \in 0..N, Waits(j, i)'
      PROVE  /\ i >= 1 /\ i <= TakenCount' /\ i \notin session'.written
             /\ \A k \in 1..m : Waits(k, i)' => k = j
  <2>1. Waits(j + 1, i) /\ j + 1 \in 1..n
    BY <1>2, <1>3, <1>8
  <2>2. /\ i >= 1 /\ i <= TakenCount /\ i \notin session.written
        /\ \A k \in 1..n : Waits(k, i) => k = j + 1
    BY <2>1 DEF PlacesInv
  <2>3. i \notin session'.written
    <3>1. j + 1 # 1
      BY <1>2
    <3> QED
      BY <1>5, <1>6, <2>2, <3>1
  <2>4. ASSUME NEW k \in 1..m, Waits(k, i)' PROVE k = j
    <3>1. k + 1 = j + 1
      BY <1>2, <1>3, <2>2, <2>4
    <3> QED
      BY <1>2, <3>1
  <2> HIDE DEF n, m
  <2> QED
    BY <1>1, <2>2, <2>3, <2>4
<1>9. ASSUME NEW i \in session'.written PROVE i <= TakenCount'
  <2>1. CASE i \in session.written
    BY <1>1, <2>1 DEF PlacesInv
  <2>2. CASE i = first.index /\ first.kind = "ok"
    <3>1. Waits(1, i) /\ i \in 0..N
      BY <1>6, <2>2 DEF Waits
    <3> QED
      BY <1>1, <1>6, <3>1 DEF PlacesInv
  <2> QED
    BY <2>1, <2>2 DEF PlacesReceive
<1> QED
  BY <1>7, <1>8, <1>9 DEF PlacesInv

LEMMA PlacesInvStep ==
  ASSUME TypeOK, ProducerInv, KindsInv, PlacesInv, [Next]_vars
  PROVE  PlacesInv'
<1>1. CASE ProducerStep
  BY <1>1, ProducerPlaces, PlacesSameStep
<1>2. ASSUME NEW w \in Workers, WorkerStep(w) PROVE PlacesInv'
  <2>1. CASE WorkerStarts(w) \/ WorkerExtracts(w) \/ WorkerEnds(w)
    BY <2>1, WorkerPlaces, PlacesSameStep
  <2>2. CASE WorkerTakes(w)
    BY <2>2, TakePlaces, PlacesTakeStep
  <2>3. CASE WorkerSends(w)
    BY <2>3, SendPlaces, PlacesSendStep
  <2> QED
    BY <1>2, <2>1, <2>2, <2>3 DEF WorkerStep
<1>3. CASE ConsumerReceives
  BY <1>3, ReceivePlaces, PlacesReceiveStep
<1>4. CASE \/ ConsumerReturns \/ RunSeals \/ RunResolves \/ RunCommits
           \/ CallerCancels \/ closeExtractionResults
  BY <1>4, OtherPlaces, PlacesSameStep
<1>5. CASE UNCHANGED vars
  <2>1. PlacesSame
    BY <1>5 DEF vars, PlacesSame, Holds, TakenCount
  <2> QED
    BY <2>1, PlacesSameStep
<1> QED
  BY <1>1, <1>2, <1>3, <1>4, <1>5 DEF Next, RunStep, Terminated

-----------------------------------------------------------------------------
(* The kinds of the results.                                               *)
KindOfWorker(w) ==
  /\ worker[w].pc = "extract" => worker[w].result.kind = "ok"
  /\ worker[w].pc = "send" =>
       (worker[w].result.kind = "failed" => worker[w].result.index \in tree.bad)
  /\ worker[w].pc = "send" =>
       (worker[w].result.kind = "ok" => worker[w].result.index \notin tree.bad)
  /\ worker[w].pc = "send" =>
       (worker[w].result.kind = "worker" => worker[w].result.index = NoIndex)

KindOfPlace(j) ==
  /\ results.queue[j].kind = "failed" => results.queue[j].index \in tree.bad
  /\ results.queue[j].kind = "ok" => results.queue[j].index \notin tree.bad
  /\ results.queue[j].kind = "worker" => results.queue[j].index = NoIndex

LEMMA KindParts ==
  KindsInv <=> /\ \A w \in Workers : KindOfWorker(w)
               /\ \A j \in 1..Len(results.queue) : KindOfPlace(j)
BY DEF KindsInv, KindOfWorker, KindOfPlace

LEMMA KindsInvStep ==
  ASSUME TypeOK, KindsInv, [Next]_vars
  PROVE  KindsInv'
<1>p. WorkerTyped /\ ResultsTyped
  BY TypeParts
<1>t. tree' = tree
  BY DEF Next, ProducerStep, ProducerWalks, ProducerFinishes, ProducerStages, ProducerSends,
    ProducerCloses, WorkerStep, WorkerStarts, WorkerTakes, WorkerExtracts, WorkerSends,
    WorkerEnds, RunStep, ConsumerReceives, ConsumerReturns, RunSeals, RunResolves,
    RunCommits, CallerCancels, closeExtractionResults, Terminated, vars
<1>1. CASE worker' = worker /\ results'.queue = results.queue
  BY <1>1, <1>t DEF KindsInv
<1>2. ASSUME NEW w \in Workers, WorkerStep(w) PROVE KindsInv'
  <2>1. \A v \in Workers : v # w => worker'[v] = worker[v]
    BY <1>p, <1>2 DEF WorkerStep, WorkerStarts, WorkerTakes, WorkerExtracts, WorkerSends,
      WorkerEnds, WorkerTyped
  <2>2. \A v \in Workers : v # w => KindOfWorker(v)'
    BY <2>1, <1>t, KindParts DEF KindOfWorker
  <2>3. KindOfWorker(w)'
    <3>1. worker[w] \in [pc : {"start", "ready", "extract", "send", "done"}, result : Result]
      BY <1>p DEF WorkerTyped
    <3>2. CASE WorkerStarts(w)
      <4>1. \/ worker'[w].pc = "ready"
            \/ worker'[w].result = [kind |-> "worker", index |-> NoIndex]
        BY <1>p, <3>2 DEF WorkerStarts, WorkerTyped
      <4>2. \/ worker'[w].pc = "ready"
            \/ /\ worker'[w].pc = "send" /\ worker'[w].result.kind = "worker"
               /\ worker'[w].result.index = NoIndex
        BY <1>p, <3>2, <4>1 DEF WorkerStarts, WorkerTyped
      <4> QED
        BY <4>2 DEF KindOfWorker
    <3>3. CASE WorkerTakes(w)
      <4>1. worker'[w].pc = "extract" /\ worker'[w].result.kind = "ok"
        BY <1>p, <3>3 DEF WorkerTakes, WorkerTyped
      <4> QED
        BY <4>1 DEF KindOfWorker
    <3>4. CASE WorkerExtracts(w)
      <4>1. /\ worker'[w].pc = "send"
            /\ worker'[w].result.index = worker[w].result.index
            /\ worker'[w].result.kind =
                 IF worker[w].result.index \in tree.bad THEN "failed" ELSE "ok"
        BY <1>p, <3>1, <3>4 DEF WorkerExtracts, WorkerTyped, Result
      <4> QED
        BY <4>1, <1>t DEF KindOfWorker
    <3>5. CASE WorkerSends(w) \/ WorkerEnds(w)
      <4>1. worker'[w].pc \in {"ready", "done"}
        BY <1>p, <3>5 DEF WorkerSends, WorkerEnds, WorkerTyped
      <4> QED
        BY <4>1 DEF KindOfWorker
    <3> QED
      BY <1>2, <3>2, <3>3, <3>4, <3>5 DEF WorkerStep
  <2>4. \A j \in 1..Len(results'.queue) : KindOfPlace(j)'
    <3>1. CASE results' = results
      BY <3>1, <1>t, KindParts DEF KindOfPlace
    <3>2. CASE WorkerSends(w)
      <4>1. PlacesSend(w)
        BY <3>2, SendPlaces
      <4>2. ASSUME NEW j \in 1..Len(results'.queue) PROVE KindOfPlace(j)'
        <5>1. CASE j \in 1..Len(results.queue)
          <6>1. results'.queue[j] = results.queue[j]
            BY <4>1, <5>1 DEF PlacesSend
          <6> QED
            BY <5>1, <6>1, <1>t, KindParts DEF KindOfPlace
        <5>2. CASE j = Len(results.queue) + 1
          <6>1. results'.queue[j] = worker[w].result /\ worker[w].pc = "send"
            BY <3>2, <4>1, <5>2 DEF PlacesSend, WorkerSends
          <6> QED
            BY <6>1, <1>t, KindParts DEF KindOfPlace, KindOfWorker
        <5> QED
          BY <4>1, <5>1, <5>2 DEF PlacesSend
      <4> QED
        BY <4>2
    <3> QED
      BY <1>2, <3>1, <3>2 DEF WorkerStep, WorkerStarts, WorkerTakes, WorkerExtracts, WorkerEnds
  <2> QED
    BY <2>2, <2>3, <2>4 DEF KindsInv, KindOfWorker, KindOfPlace
<1>3. CASE ConsumerReceives
  <2>1. PlacesReceive
    BY <1>3, ReceivePlaces
  <2>2. ASSUME NEW j \in 1..Len(results'.queue) PROVE KindOfPlace(j)'
    <3>1. results'.queue[j] = results.queue[j + 1] /\ j + 1 \in 1..Len(results.queue)
      BY <2>1 DEF PlacesReceive
    <3> QED
      BY <3>1, <1>t, KindParts DEF KindOfPlace
  <2>3. \A w \in Workers : KindOfWorker(w)'
    BY <2>1, <1>t, KindParts DEF KindOfWorker, PlacesReceive
  <2> QED
    BY <2>2, <2>3 DEF KindsInv, KindOfWorker, KindOfPlace
<1>4. CASE ProducerStep
  BY <1>1, <1>4, ProducerFrame
<1>5. CASE \/ ConsumerReturns \/ RunSeals \/ RunResolves \/ RunCommits
           \/ CallerCancels \/ closeExtractionResults
  BY <1>1, <1>5, OtherPlaces DEF PlacesSame
<1>6. CASE UNCHANGED vars
  BY <1>1, <1>6 DEF vars
<1> QED
  BY <1>2, <1>3, <1>4, <1>5, <1>6 DEF Next, RunStep, Terminated

-----------------------------------------------------------------------------
(* No source is forgotten.                                                 *)
LEMMA AccountInit == Init => AccountInv
<1> SUFFICES ASSUME Init PROVE AccountInv
  OBVIOUS
<1>1. TypeOK
  BY TypeInit
<1>2. TakenCount = 0 /\ \A i \in Sources : i \in Nat \ {0}
  BY CountFacts, <1>1 DEF Init, TakenCount, Sources
<1>3. tree.bad \subseteq Sources
  BY <1>1, TypeParts DEF ContextTyped
<1>4. \A i \in Sources : ~(i <= TakenCount)
  BY <1>2
<1> QED
  BY <1>3, <1>4 DEF Init, AccountInv, NoIndex

UnderWayKept == \A i \in 0..N : UnderWay(i) => UnderWay(i)'

LEMMA UnderWaySame == PlacesSame => UnderWayKept
BY DEF PlacesSame, UnderWayKept, UnderWay, Waits

LEMMA UnderWayTake ==
  ASSUME NEW w \in Workers, PlacesTake(w), TakenCount \in 0..(N - 1)
  PROVE  UnderWayKept /\ \A i \in 0..N : i = TakenCount + 1 => UnderWay(i)'
<1>1. \A v \in Workers : \A i \in 0..N : Holds(v, i) => Holds(v, i)'
  BY DEF PlacesTake
<1>2. \A j \in 1..Len(results.queue) : \A i \in 0..N : Waits(j, i) => Waits(j, i)'
  BY DEF PlacesTake, Waits
<1>3. results' = results
  BY DEF PlacesTake
<1>4. \A i \in 0..N : i = TakenCount + 1 => Holds(w, i)'
  BY DEF PlacesTake
<1> QED
  BY <1>1, <1>2, <1>3, <1>4 DEF UnderWayKept, UnderWay

LEMMA UnderWaySend ==
  ASSUME NEW w \in Workers, PlacesSend(w)
  PROVE  UnderWayKept
<1>1. /\ Len(results.queue) \in Nat /\ Len(results'.queue) = Len(results.queue) + 1
  BY DEF PlacesSend
<1>2. ASSUME NEW i \in 0..N, UnderWay(i) PROVE UnderWay(i)'
  <2>1. CASE Holds(w, i)
    <3>1. PICK k \in 1..Len(results'.queue) : k = Len(results.queue) + 1 /\ k \in Nat
      BY <1>1
    <3>2. Waits(k, i)'
      BY <2>1, <3>1 DEF PlacesSend
    <3> QED
      BY <3>2 DEF UnderWay
  <2>2. ASSUME NEW v \in Workers, v # w, Holds(v, i) PROVE UnderWay(i)'
    BY <2>2 DEF PlacesSend, UnderWay
  <2>3. ASSUME NEW j \in 1..Len(results.queue), Waits(j, i) PROVE UnderWay(i)'
    <3>1. j \in 1..Len(results'.queue) /\ results'.queue[j] = results.queue[j]
      BY <1>1 DEF PlacesSend
    <3> QED
      BY <2>3, <3>1 DEF UnderWay, Waits
  <2> QED
    BY <1>2, <2>1, <2>2, <2>3 DEF UnderWay
<1> QED
  BY <1>2 DEF UnderWayKept

LEMMA UnderWayReceive ==
  ASSUME PlacesReceive
  PROVE  \A i \in 0..N : UnderWay(i) => UnderWay(i)' \/ Waits(1, i)
<1>1. /\ Len(results.queue) \in Nat \ {0} /\ Len(results'.queue) = Len(results.queue) - 1
  BY DEF PlacesReceive
<1>2. ASSUME NEW i \in 0..N, UnderWay(i) PROVE UnderWay(i)' \/ Waits(1, i)
  <2>1. ASSUME NEW v \in Workers, Holds(v, i) PROVE UnderWay(i)'
    BY <2>1 DEF PlacesReceive, UnderWay, Holds
  <2>2. ASSUME NEW j \in 1..Len(results.queue), Waits(j, i), j # 1 PROVE UnderWay(i)'
    <3>1. PICK k \in 1..Len(results'.queue) : j = k + 1
      BY <1>1, <2>2
    <3>2. results'.queue[k] = results.queue[j]
      BY <3>1 DEF PlacesReceive
    <3> QED
      BY <2>2, <3>2 DEF UnderWay, Waits
  <2> QED
    BY <1>2, <2>1, <2>2 DEF UnderWay
<1> QED
  BY <1>2

LEMMA AccountKept ==
  ASSUME AccountInv, UnderWayKept, TakenCount' = TakenCount, tree' = tree,
         session'.written = session.written, consumer' = consumer, TypeOK
  PROVE  AccountInv'
<1>1. \A i \in Sources : i \in 0..N
  BY PipelineAssumption DEF Sources
<1>2. tree.bad \subseteq Sources
  BY TypeParts DEF ContextTyped
<1> QED
  BY <1>1, <1>2 DEF AccountInv, UnderWayKept

LEMMA AccountReceive ==
  ASSUME TypeOK, PlacesInv, KindsInv, AccountInv, ConsumerReceives
  PROVE  AccountInv'
<1> DEFINE result == results.queue[1]
<1>1. PlacesReceive /\ tree' = tree
  BY ReceivePlaces DEF ConsumerReceives
<1>2. /\ result \in Result /\ 1 \in 1..Len(results.queue) /\ TakenCount' = TakenCount
  BY <1>1 DEF PlacesReceive
<1>3. Head(results.queue) = result
  BY TypeParts, TakeFacts DEF ResultsTyped, ConsumerReceives
<1>4. ConsumerNotes(result) \/ ConsumerSkips(result) \/ ConsumerWrites(result)
  BY <1>3 DEF ConsumerReceives
<1>5. result.index \in 0..N /\ N \in Nat /\ result.kind \in {"ok", "failed", "worker"}
  BY <1>2, CountFacts DEF Result
<1>6. result.kind # "worker" => result.index >= 1 /\ result.index <= TakenCount
  BY <1>2, <1>5 DEF PlacesInv, Waits
<1>7. /\ result.kind = "failed" => result.index \in tree.bad
      /\ result.kind = "ok" => result.index \notin tree.bad
  BY <1>2, KindParts DEF KindOfPlace
<1>8. \A i \in 0..N : UnderWay(i) =>
        UnderWay(i)' \/ (result.kind # "worker" /\ result.index = i)
  <2>1. \A i \in 0..N : UnderWay(i) => UnderWay(i)' \/ Waits(1, i)
    BY <1>1, UnderWayReceive
  <2>2. \A i : Waits(1, i) => result.kind # "worker" /\ result.index = i
    BY DEF Waits
  <2> QED
    BY <2>1, <2>2
<1>9. /\ \A i \in Sources : i \in 0..N /\ i >= 1
      /\ tree.bad \subseteq Sources
      /\ ConsumerTyped /\ SessionTyped
  BY TypeParts, <1>5 DEF ContextTyped, Sources
<1>10. session.written \subseteq session'.written
  BY <1>1 DEF PlacesReceive
<1> HIDE DEF result
<1>11. CASE ConsumerNotes(result)
  <2>1. /\ consumer'.failed = TRUE
        /\ consumer'.workerError = (consumer.workerError \/ result.kind = "worker")
        /\ consumer'.extraction =
             IF /\ result.kind = "failed"
                /\ consumer.extraction = NoIndex \/ result.index < consumer.extraction
             THEN result.index ELSE consumer.extraction
        /\ consumer'.writeError = consumer.writeError
        /\ result.kind # "ok"
    BY <1>9, <1>11 DEF ConsumerNotes, ConsumerTyped
  <2>2. consumer.extraction \in 0..N
    BY <1>9 DEF ConsumerTyped
  <2>3. ASSUME NEW i \in tree.bad, i <= TakenCount
        PROVE  \/ UnderWay(i)'
               \/ consumer'.extraction # NoIndex /\ consumer'.extraction <= i
    <3>1. i \in 0..N
      BY <1>9
    <3>2. CASE UnderWay(i)
      <4>1. CASE result.kind # "worker" /\ result.index = i
        BY <1>5, <1>6, <2>1, <2>2, <3>1, <4>1 DEF NoIndex
      <4> QED
        BY <1>8, <3>1, <3>2, <4>1
    <3>3. CASE consumer.extraction # NoIndex /\ consumer.extraction <= i
      BY <1>5, <1>6, <2>1, <2>2, <3>1, <3>3 DEF NoIndex
    <3> QED
      BY <2>3, <3>2, <3>3 DEF AccountInv
  <2>4. consumer'.extraction # NoIndex =>
          consumer'.extraction \in tree.bad /\ consumer'.extraction <= TakenCount
    <3>1. CASE consumer'.extraction = consumer.extraction
      BY <3>1 DEF AccountInv
    <3>2. CASE consumer'.extraction = result.index /\ result.kind = "failed"
      BY <1>6, <1>7, <3>2
    <3> QED
      BY <2>1, <3>1, <3>2
  <2>5. \/ consumer'.workerError \/ consumer'.extraction # NoIndex \/ consumer'.writeError
    <3>1. CASE result.kind = "worker"
      <4>1. consumer'.workerError = TRUE
        BY <1>9, <1>11, <3>1 DEF ConsumerNotes, ConsumerTyped
      <4> QED
        BY <4>1
    <3>2. CASE result.kind = "failed"
      <4>1. consumer'.extraction \in {result.index, consumer.extraction}
        BY <2>1
      <4>2. consumer'.extraction # NoIndex
        BY <1>5, <1>6, <2>1, <3>2, <4>1 DEF NoIndex
      <4> QED
        BY <4>2
    <3> QED
      BY <1>5, <2>1, <3>1, <3>2
  <2> QED
    BY <1>1, <1>2, <2>1, <2>3, <2>4, <2>5 DEF AccountInv
<1>12. CASE consumer' = consumer /\ result.kind = "ok"
            /\ (consumer.failed \/ result.index \in session'.written)
  <2>1. ASSUME NEW i \in tree.bad, i <= TakenCount
        PROVE  \/ UnderWay(i)'
               \/ consumer'.extraction # NoIndex /\ consumer'.extraction <= i
    BY <1>7, <1>8, <1>9, <1>12, <2>1 DEF AccountInv
  <2>2. ASSUME NEW i \in Sources, i <= TakenCount
        PROVE  UnderWay(i)' \/ i \in session'.written \/ consumer'.failed
    BY <1>8, <1>9, <1>10, <1>12, <2>2 DEF AccountInv
  <2> QED
    BY <1>1, <1>2, <1>12, <2>1, <2>2 DEF AccountInv
<1>13. CASE ConsumerSkips(result)
  BY <1>12, <1>13 DEF ConsumerSkips
<1>14. CASE ConsumerWrites(result)
  <2>1. CASE session' = [session EXCEPT !.written = @ \cup {result.index}]
             /\ UNCHANGED <<cancelled, consumer>>
    <3>1. result.index \in session'.written
      BY <1>9, <2>1 DEF SessionTyped
    <3> QED
      BY <1>12, <1>14, <2>1, <3>1 DEF ConsumerWrites
  <2>2. CASE consumer' = [consumer EXCEPT !.failed = TRUE, !.writeError = TRUE]
    <3>1. /\ consumer'.failed = TRUE /\ consumer'.writeError = TRUE
          /\ consumer'.extraction = consumer.extraction
      BY <1>9, <2>2 DEF ConsumerTyped
    <3>2. ASSUME NEW i \in tree.bad, i <= TakenCount
          PROVE  \/ UnderWay(i)'
                 \/ consumer'.extraction # NoIndex /\ consumer'.extraction <= i
      BY <1>7, <1>8, <1>9, <1>14, <3>1, <3>2 DEF AccountInv, ConsumerWrites
    <3> QED
      BY <1>1, <1>2, <3>1, <3>2 DEF AccountInv
  <2> QED
    BY <1>14, <2>1, <2>2 DEF ConsumerWrites
<1> QED
  BY <1>4, <1>11, <1>13, <1>14

LEMMA AccountInvStep ==
  ASSUME TypeOK, ProducerInv, PlacesInv, KindsInv, AccountInv, [Next]_vars
  PROVE  AccountInv'
<1>1. CASE ProducerStep
  <2>1. PlacesSame /\ tree' = tree /\ consumer' = consumer
    BY <1>1, ProducerPlaces, ProducerFrame
  <2> QED
    BY <2>1, UnderWaySame, AccountKept DEF PlacesSame
<1>2. ASSUME NEW w \in Workers, WorkerStep(w) PROVE AccountInv'
  <2>1. tree' = tree /\ consumer' = consumer /\ session' = session
    BY <1>2, WorkerFrame
  <2>2. CASE WorkerStarts(w) \/ WorkerExtracts(w) \/ WorkerEnds(w)
    BY <2>1, <2>2, WorkerPlaces, UnderWaySame, AccountKept DEF PlacesSame
  <2>3. CASE WorkerSends(w)
    BY <2>1, <2>3, SendPlaces, UnderWaySend, AccountKept DEF PlacesSend
  <2>4. CASE WorkerTakes(w)
    <3>1. PlacesTake(w) /\ TakenCount' = TakenCount + 1
      BY <2>4, TakePlaces DEF PlacesTake
    <3>2. TakenCount \in 0..(N - 1)
      <4>1. jobs.queue \in Seq(Sources) /\ jobs.queue # <<>>
        BY <2>4, CountFacts DEF WorkerTakes
      <4>2. Len(jobs.queue) \in Nat \ {0}
        BY <4>1, EmptySeq
      <4> QED
        BY <4>2, CountFacts DEF TakenCount, ProducerInv
    <3>3. UnderWayKept /\ \A i \in 0..N : i = TakenCount + 1 => UnderWay(i)'
      BY <3>1, <3>2, UnderWayTake
    <3>4. /\ \A i \in Sources : i \in 0..N
          /\ tree.bad \subseteq Sources
      BY TypeParts, PipelineAssumption DEF ContextTyped, Sources
    <3>5. \A i \in 0..N : i <= TakenCount + 1 => i <= TakenCount \/ i = TakenCount + 1
      BY <3>2
    <3>6. ASSUME NEW i \in Sources, i <= TakenCount'
          PROVE  UnderWay(i)' \/ i \in session'.written \/ consumer'.failed
      BY <2>1, <3>1, <3>3, <3>4, <3>5, <3>6 DEF AccountInv, UnderWayKept
    <3>7. ASSUME NEW i \in tree.bad, i <= TakenCount'
          PROVE  \/ UnderWay(i)'
                 \/ consumer'.extraction # NoIndex /\ consumer'.extraction <= i
      BY <2>1, <3>1, <3>3, <3>4, <3>5, <3>7 DEF AccountInv, UnderWayKept
    <3>8. consumer.extraction # NoIndex => consumer.extraction <= TakenCount'
      <4>1. consumer.extraction \in 0..N
        BY TypeParts DEF ConsumerTyped
      <4> QED
        BY <3>1, <3>2, <4>1 DEF AccountInv
    <3> QED
      BY <2>1, <3>6, <3>7, <3>8 DEF AccountInv
  <2> QED
    BY <1>2, <2>2, <2>3, <2>4 DEF WorkerStep
<1>3. CASE ConsumerReceives
  BY <1>3, AccountReceive
<1>4. CASE \/ ConsumerReturns \/ RunSeals \/ RunResolves \/ RunCommits
           \/ CallerCancels \/ closeExtractionResults
  <2>1. PlacesSame /\ tree' = tree /\ consumer' = consumer
    BY <1>4, OtherPlaces
  <2> QED
    BY <2>1, UnderWaySame, AccountKept DEF PlacesSame
<1>5. CASE UNCHANGED vars
  <2>1. PlacesSame /\ tree' = tree /\ consumer' = consumer
    BY <1>5 DEF vars, PlacesSame, Holds, TakenCount
  <2> QED
    BY <2>1, UnderWaySame, AccountKept DEF PlacesSame
<1> QED
  BY <1>1, <1>2, <1>3, <1>4, <1>5 DEF Next, RunStep, Terminated

-----------------------------------------------------------------------------
(* Cancellation has a reason, and the workers end for one.                 *)
BadWorker(w) == worker[w].pc = "send" /\ worker[w].result.kind # "ok"
BadPlace == \E j \in 1..Len(results.queue) : results.queue[j].kind # "ok"
BadProducer == producer.error \in {"walk", "stage", "closed"}

LEMMA TroubleParts ==
  Trouble <=> (\E w \in Workers : BadWorker(w)) \/ BadPlace \/ consumer.failed \/ BadProducer
BY DEF Trouble, BadWorker, BadPlace, BadProducer

LEMMA CancelInit == Init => CancelInv
BY DEF Init, CancelInv

LEMMA SeenKept ==
  ASSUME TypeOK, [Next]_vars, BadPlace \/ consumer.failed
  PROVE  BadPlace' \/ consumer'.failed
<1>p. ResultsTyped /\ ConsumerTyped
  BY TypeParts
<1>1. CASE results'.queue = results.queue /\ consumer' = consumer
  BY <1>1 DEF BadPlace
<1>2. ASSUME NEW w \in Workers, WorkerSends(w) PROVE BadPlace' \/ consumer'.failed
  <2>1. PlacesSend(w) /\ consumer' = consumer
    BY <1>2, SendPlaces DEF WorkerSends
  <2>2. \A j \in 1..Len(results.queue) :
          j \in 1..Len(results'.queue) /\ results'.queue[j] = results.queue[j]
    BY <2>1 DEF PlacesSend
  <2> QED
    BY <2>1, <2>2 DEF BadPlace
<1>3. ASSUME NEW w \in Workers, WorkerStarts(w) \/ WorkerTakes(w) \/ WorkerExtracts(w)
                                \/ WorkerEnds(w)
      PROVE  BadPlace' \/ consumer'.failed
  <2>1. results' = results /\ consumer' = consumer
    BY <1>3 DEF WorkerStarts, WorkerTakes, WorkerExtracts, WorkerEnds
  <2> QED
    BY <1>1, <2>1
<1>4. CASE ConsumerReceives
  <2> DEFINE result == results.queue[1]
  <2>1. PlacesReceive /\ Head(results.queue) = result
    BY <1>4, <1>p, ReceivePlaces, TakeFacts DEF ConsumerReceives, ResultsTyped
  <2>2. ConsumerNotes(result) \/ ConsumerSkips(result) \/ ConsumerWrites(result)
    BY <1>4, <2>1 DEF ConsumerReceives
  <2> HIDE DEF result
  <2>3. consumer.failed => consumer'.failed
    BY <1>p, <2>2 DEF ConsumerNotes, ConsumerSkips, ConsumerWrites, ConsumerTyped
  <2>4. result.kind # "ok" => consumer'.failed
    BY <1>p, <2>2 DEF ConsumerNotes, ConsumerSkips, ConsumerWrites, ConsumerTyped
  <2>5. ASSUME NEW j \in 1..Len(results.queue), results.queue[j].kind # "ok", j # 1
        PROVE  BadPlace'
    <3>0. Len(results.queue) \in Nat \ {0} /\ Len(results'.queue) = Len(results.queue) - 1
      BY <2>1 DEF PlacesReceive
    <3>1. PICK k \in 1..Len(results'.queue) : j = k + 1
      BY <2>5, <3>0
    <3>2. results'.queue[k] = results.queue[j]
      BY <2>1, <3>1 DEF PlacesReceive
    <3> QED
      BY <2>5, <3>2 DEF BadPlace
  <2> QED
    BY <2>3, <2>4, <2>5 DEF BadPlace, result
<1>5. CASE ProducerStep
  BY <1>1, <1>5, ProducerFrame
<1>6. CASE \/ ConsumerReturns \/ RunSeals \/ RunResolves \/ RunCommits
           \/ CallerCancels \/ closeExtractionResults
  BY <1>1, <1>6, OtherPlaces DEF PlacesSame
<1>7. CASE UNCHANGED vars
  BY <1>1, <1>7 DEF vars
<1> QED
  BY <1>2, <1>3, <1>4, <1>5, <1>6, <1>7 DEF Next, WorkerStep, RunStep, Terminated

(* An error of the producer stays: the producer has stopped.               *)
LEMMA BadProducerKept ==
  ASSUME TypeOK, ProducerInv, [Next]_vars, BadProducer
  PROVE  BadProducer'
<1>p. ProducerTyped
  BY TypeParts
<1>1. producer.pc \in {"closing", "done"}
  BY <1>p DEF ProducerInv, BadProducer, ProducerTyped
<1>2. CASE ProducerStep
  <2>1. producer' = [producer EXCEPT !.pc = "done"]
    BY <1>1, <1>2 DEF ProducerStep, ProducerWalks, ProducerFinishes, ProducerStages,
      ProducerSends, ProducerCloses
  <2> QED
    BY <1>p, <2>1 DEF BadProducer, ProducerTyped
<1>3. CASE producer' = producer
  BY <1>3 DEF BadProducer
<1>4. CASE \E w \in Workers : WorkerStep(w)
  BY <1>3, <1>4, WorkerFrame
<1>5. CASE RunStep \/ CallerCancels \/ closeExtractionResults
  BY <1>3, <1>5, RunFrame
<1>6. CASE UNCHANGED vars
  BY <1>3, <1>6 DEF vars
<1> QED
  BY <1>2, <1>4, <1>5, <1>6 DEF Next, Terminated

(* A worker's error reaches the results.                                   *)
LEMMA BadWorkerKept ==
  ASSUME TypeOK, [Next]_vars, NEW v \in Workers, BadWorker(v)
  PROVE  BadWorker(v)' \/ BadPlace'
<1>p. WorkerTyped
  BY TypeParts
<1>1. CASE worker' = worker
  BY <1>1 DEF BadWorker
<1>2. ASSUME NEW w \in Workers, WorkerStep(w) PROVE BadWorker(v)' \/ BadPlace'
  <2>1. CASE w # v
    <3>1. worker'[v] = worker[v]
      BY <1>p, <1>2, <2>1 DEF WorkerStep, WorkerStarts, WorkerTakes, WorkerExtracts,
        WorkerSends, WorkerEnds, WorkerTyped
    <3> QED
      BY <3>1 DEF BadWorker
  <2>2. CASE w = v
    <3>1. WorkerSends(v)
      BY <1>2, <2>2 DEF WorkerStep, WorkerStarts, WorkerTakes, WorkerExtracts, WorkerEnds,
        BadWorker
    <3>2. PlacesSend(v)
      BY <3>1, SendPlaces
    <3>3. PICK k \in 1..Len(results'.queue) : k = Len(results.queue) + 1
      BY <3>2 DEF PlacesSend
    <3>4. results'.queue[k] = worker[v].result
      BY <3>2, <3>3 DEF PlacesSend
    <3> QED
      BY <3>4 DEF BadWorker, BadPlace
  <2> QED
    BY <2>1, <2>2
<1>3. CASE ProducerStep
  BY <1>1, <1>3, ProducerFrame
<1>4. CASE RunStep \/ CallerCancels \/ closeExtractionResults
  BY <1>1, <1>4, RunFrame
<1>5. CASE UNCHANGED vars
  BY <1>1, <1>5 DEF vars
<1> QED
  BY <1>2, <1>3, <1>4, <1>5 DEF Next, Terminated

LEMMA TroubleKept ==
  ASSUME TypeOK, ProducerInv, [Next]_vars, Trouble
  PROVE  Trouble'
<1>1. (\E w \in Workers : BadWorker(w)) \/ BadPlace \/ consumer.failed \/ BadProducer
  BY TroubleParts
<1>2. (\E w \in Workers : BadWorker(w)') \/ BadPlace' \/ consumer'.failed \/ BadProducer'
  BY <1>1, SeenKept, BadProducerKept, BadWorkerKept
<1> QED
  BY <1>2 DEF Trouble, BadWorker, BadPlace, BadProducer

(* Whoever cancels has a reason, while the consumer still collects.        *)
LEMMA CancelReason ==
  ASSUME TypeOK, KindsInv, [Next]_vars, run'.phase = "extract", cancelled'
  PROVE  cancelled \/ caller \/ Trouble'
<1>p. ProducerTyped /\ WorkerTyped /\ ConsumerTyped /\ RunTyped /\ SessionTyped
  BY TypeParts
<1>1. CASE cancelled' = cancelled
  BY <1>1
<1>2. CASE ProducerStep
  <2>1. \/ cancelled' = cancelled
        \/ ContextDone
        \/ \E e \in {"walk", "stage", "closed"} : ProducerStops(e)
    BY <1>2 DEF ProducerStep, ProducerWalks, ProducerFinishes, ProducerStages, ProducerSends,
      ProducerCloses
  <2>2. ASSUME NEW e \in {"walk", "stage", "closed"}, ProducerStops(e) PROVE Trouble'
    <3>1. producer'.error = e
      BY <1>p, <2>2 DEF ProducerStops, ProducerTyped
    <3> QED
      BY <3>1 DEF Trouble
  <2> QED
    BY <2>1, <2>2 DEF ContextDone
<1>3. ASSUME NEW w \in Workers, WorkerStep(w) PROVE cancelled \/ Trouble'
  <2>1. CASE WorkerTakes(w) \/ WorkerSends(w) \/ WorkerEnds(w)
    BY <2>1 DEF WorkerTakes, WorkerSends, WorkerEnds
  <2>2. CASE WorkerStarts(w)
    <3>1. CASE cancelled' = cancelled
      BY <3>1
    <3>2. CASE worker' = [worker EXCEPT ![w] =
                 [pc |-> "send", result |-> [kind |-> "worker", index |-> NoIndex]]]
      <4>1. worker'[w] = [pc |-> "send", result |-> [kind |-> "worker", index |-> NoIndex]]
        BY <1>p, <3>2 DEF WorkerTyped
      <4>2. worker'[w].pc = "send" /\ worker'[w].result.kind # "ok"
        BY <4>1
      <4> QED
        BY <4>2 DEF Trouble
    <3> QED
      BY <2>2, <3>1, <3>2 DEF WorkerStarts
  <2>3. CASE WorkerExtracts(w)
    <3>1. worker[w] \in [pc : {"start", "ready", "extract", "send", "done"}, result : Result]
      BY <1>p DEF WorkerTyped
    <3>2. CASE worker[w].result.index \in tree.bad
      <4>1. worker'[w].pc = "send" /\ worker'[w].result.kind = "failed"
        BY <1>p, <2>3, <3>1, <3>2 DEF WorkerExtracts, WorkerTyped, Result
      <4> QED
        BY <4>1 DEF Trouble
    <3>3. CASE worker[w].result.index \notin tree.bad
      BY <2>3, <3>3 DEF WorkerExtracts
    <3> QED
      BY <3>2, <3>3
  <2> QED
    BY <1>3, <2>1, <2>2, <2>3 DEF WorkerStep
<1>4. CASE ConsumerReceives
  <2>1. \/ cancelled' = cancelled
        \/ consumer'.failed = TRUE
    BY <1>4, <1>p DEF ConsumerReceives, ConsumerNotes, ConsumerSkips, ConsumerWrites,
      ConsumerTyped
  <2> QED
    BY <2>1 DEF Trouble
<1>5. CASE ConsumerReturns
  <2>1. run'.phase \in {"done", "seal"}
    BY <1>5, <1>p DEF ConsumerReturns, RunFails, RunTyped
  <2> QED
    BY <2>1
<1>6. CASE \/ RunSeals \/ RunResolves \/ RunCommits \/ CallerCancels
           \/ closeExtractionResults \/ UNCHANGED vars
  BY <1>1, <1>6 DEF RunSeals, RunResolves, RunCommits, CallerCancels,
    closeExtractionResults, vars
<1> QED
  BY <1>2, <1>3, <1>4, <1>5, <1>6 DEF Next, RunStep, Terminated

(* A worker that has ended stays so.                                       *)
LEMMA DoneKept ==
  ASSUME TypeOK, [Next]_vars, NEW w \in Workers, worker[w].pc = "done"
  PROVE  worker'[w] = worker[w]
<1>1. CASE \E v \in Workers : WorkerStep(v)
  BY <1>1, TypeParts DEF WorkerStep, WorkerStarts, WorkerTakes, WorkerExtracts,
    WorkerSends, WorkerEnds, WorkerTyped
<1>2. CASE ProducerStep
  BY <1>2, ProducerFrame
<1>3. CASE RunStep \/ CallerCancels \/ closeExtractionResults
  BY <1>3, RunFrame
<1>4. CASE UNCHANGED vars
  BY <1>4 DEF vars
<1> QED
  BY <1>1, <1>2, <1>3, <1>4 DEF Next, Terminated

NoJobs == jobs.closed /\ jobs.queue = <<>>

(* Nothing is sent on a closed channel.                                    *)
LEMMA NoJobsKept ==
  ASSUME TypeOK, ProducerInv, [Next]_vars, NoJobs
  PROVE  NoJobs'
<1>1. producer.pc = "done"
  BY DEF ProducerInv, NoJobs
<1>2. ~ProducerStep
  BY <1>1 DEF ProducerStep, ProducerWalks, ProducerFinishes, ProducerStages, ProducerSends,
    ProducerCloses
<1>3. CASE jobs' = jobs
  BY <1>3 DEF NoJobs
<1>4. CASE \E v \in Workers : WorkerStep(v)
  <2>1. jobs' = jobs
    BY <1>4 DEF WorkerStep, WorkerStarts, WorkerTakes, WorkerExtracts, WorkerSends,
      WorkerEnds, NoJobs
  <2> QED
    BY <1>3, <2>1
<1>5. CASE RunStep \/ CallerCancels \/ closeExtractionResults
  BY <1>3, <1>5, RunFrame
<1>6. CASE UNCHANGED vars
  BY <1>3, <1>6 DEF vars
<1> QED
  BY <1>2, <1>4, <1>5, <1>6 DEF Next, Terminated

(* How Run ends, and that its phases only go forward.                      *)
LEMMA RunPhases ==
  ASSUME TypeOK, [Next]_vars
  PROVE  /\ run'.phase = "extract" => run.phase = "extract"
         /\ (run.outcome = "running" <=> run.phase # "done") =>
              (run'.outcome = "running" <=> run'.phase # "done")
<1>p. RunTyped
  BY TypeParts
<1>1. CASE run'.phase = run.phase /\ run'.outcome = run.outcome
  BY <1>1
<1>2. ASSUME NEW outcome, outcome # "running", RunFails(outcome)
      PROVE  run'.phase = "done" /\ run'.outcome # "running"
  BY <1>p, <1>2 DEF RunFails, RunTyped
<1>3. CASE ProducerStep
  <2>1. \/ run' = run
        \/ run' = [run EXCEPT !.groups = @ \cup {Group[producer.next]}]
    BY <1>3 DEF ProducerStep, ProducerWalks, ProducerFinishes, ProducerStages, ProducerSends,
      ProducerCloses
  <2> QED
    BY <1>p, <1>1, <2>1 DEF RunTyped
<1>4. CASE \E w \in Workers : WorkerStep(w)
  BY <1>1, <1>4, WorkerFrame
<1>5. CASE ConsumerReceives \/ CallerCancels \/ closeExtractionResults \/ UNCHANGED vars
  BY <1>1, <1>5 DEF ConsumerReceives, CallerCancels, closeExtractionResults, vars
<1>6. CASE ConsumerReturns
  <2>1. producer.error \in ProducerErrors
    BY TypeParts DEF ProducerTyped
  <2>2. ConsumerError # "running"
    BY <2>1 DEF ConsumerError, ProducerErrors
  <2>3. \/ RunFails(ConsumerError) \/ RunFails("empty")
        \/ run.phase = "extract" /\ run' = [run EXCEPT !.phase = "seal"]
    BY <1>6 DEF ConsumerReturns
  <2> QED
    BY <1>p, <1>2, <2>2, <2>3 DEF RunTyped
<1>7. CASE RunSeals \/ RunResolves \/ RunCommits
  <2>1. LaterCallFails => run'.phase = "done" /\ run'.outcome # "running"
    BY <1>2 DEF LaterCallFails
  <2>2. \/ LaterCallFails
        \/ run.phase = "seal" /\ run' = [run EXCEPT !.phase = "resolve"]
        \/ run.phase = "resolve" /\ run'.phase = "resolve" /\ run'.outcome = run.outcome
        \/ run.phase = "resolve" /\ run' = [run EXCEPT !.phase = "commit"]
        \/ run.phase = "commit" /\ run' = [run EXCEPT !.phase = "done", !.outcome = "committed"]
    BY <1>p, <1>7 DEF RunSeals, RunResolves, RunCommits, NextGroup, RunTyped
  <2> QED
    BY <1>p, <2>1, <2>2 DEF RunTyped
<1> QED
  BY <1>3, <1>4, <1>5, <1>6, <1>7 DEF Next, RunStep, Terminated

LEMMA CancelInvStep ==
  ASSUME TypeOK, ProducerInv, KindsInv, CancelInv, [Next]_vars
  PROVE  CancelInv'
<1>p. ProducerTyped /\ WorkerTyped /\ ResultsTyped
  BY TypeParts
<1>1. cancelled => cancelled'
  BY DEF Next, ProducerStep, ProducerWalks, ProducerFinishes, ProducerStages, ProducerSends,
    ProducerCloses, ProducerStops, WorkerStep, WorkerStarts, WorkerTakes, WorkerExtracts,
    WorkerSends, WorkerEnds, RunStep, ConsumerReceives, ConsumerNotes, ConsumerSkips,
    ConsumerWrites, ConsumerReturns, RunSeals, RunResolves, RunCommits, CallerCancels,
    closeExtractionResults, Terminated, vars
<1>2. caller => caller'
  BY DEF Next, ProducerStep, ProducerWalks, ProducerFinishes, ProducerStages, ProducerSends,
    ProducerCloses, WorkerStep, WorkerStarts, WorkerTakes, WorkerExtracts,
    WorkerSends, WorkerEnds, RunStep, ConsumerReceives, ConsumerReturns, RunSeals,
    RunResolves, RunCommits, CallerCancels, closeExtractionResults, Terminated, vars
<1>3. producer'.error = "canceled" => cancelled'
  <2>1. CASE ProducerStep
    <3>1. \/ producer'.error = producer.error
          \/ cancelled' = TRUE
      <4>1. \/ cancelled' = TRUE
            \/ producer' = [producer EXCEPT !.pc = "stage"]
            \/ producer' = [producer EXCEPT !.pc = "closing", !.count = tree.count]
            \/ producer' = [producer EXCEPT !.pc = "send"]
            \/ producer' = [producer EXCEPT !.pc = "walk", !.next = @ + 1]
            \/ producer' = [producer EXCEPT !.pc = "done"]
        BY <2>1 DEF ProducerStep, ProducerWalks, ProducerFinishes, ProducerStages,
          ProducerSends, ProducerCloses, ProducerStops
      <4> QED
        BY <1>p, <4>1 DEF ProducerTyped
    <3> QED
      BY <1>1, <3>1 DEF CancelInv
  <2>2. CASE producer' = producer
    BY <1>1, <2>2 DEF CancelInv
  <2>3. CASE \E w \in Workers : WorkerStep(w)
    BY <2>2, <2>3, WorkerFrame
  <2>4. CASE RunStep \/ CallerCancels \/ closeExtractionResults
    BY <2>2, <2>4, RunFrame
  <2> QED
    BY <2>1, <2>2, <2>3, <2>4 DEF Next, Terminated, vars
<1>4. run'.phase = "extract" /\ cancelled' => caller' \/ Trouble'
  BY <1>2, RunPhases, CancelReason, TroubleKept DEF CancelInv
<1>5. ASSUME NEW w \in Workers, worker'[w].pc = "done"
      PROVE  NoJobs' \/ BadPlace' \/ consumer'.failed
  <2>1. CASE worker[w].pc = "done"
    <3>1. NoJobs \/ BadPlace \/ consumer.failed
      BY <2>1 DEF CancelInv, NoJobs, BadPlace
    <3> QED
      BY <3>1, NoJobsKept, SeenKept
  <2>2. ASSUME NEW v \in Workers, WorkerStep(v), worker[w].pc # "done"
        PROVE  NoJobs' \/ BadPlace' \/ consumer'.failed
    <3>1. CASE WorkerSends(v) /\ v = w
      <4>1. PlacesSend(w) /\ worker[w].result.kind # "ok"
        BY <1>5, <1>p, <3>1, SendPlaces DEF WorkerSends, WorkerTyped
      <4>2. PICK k \in 1..Len(results'.queue) : k = Len(results.queue) + 1
        BY <4>1 DEF PlacesSend
      <4>3. results'.queue[k] = worker[w].result
        BY <4>1, <4>2 DEF PlacesSend
      <4> QED
        BY <4>1, <4>3 DEF BadPlace
    <3>2. CASE WorkerEnds(v)
      BY <3>2 DEF WorkerEnds, NoJobs
    <3>3. CASE v # w
      <4>1. worker'[w] = worker[w]
        BY <1>p, <2>2, <3>3 DEF WorkerStep, WorkerStarts, WorkerTakes, WorkerExtracts,
          WorkerSends, WorkerEnds, WorkerTyped
      <4> QED
        BY <1>5, <2>2, <4>1
    <3>4. CASE v = w /\ (WorkerStarts(w) \/ WorkerTakes(w) \/ WorkerExtracts(w))
      <4>1. worker'[w].pc # "done"
        BY <1>p, <3>4 DEF WorkerStarts, WorkerTakes, WorkerExtracts, WorkerTyped
      <4> QED
        BY <1>5, <4>1
    <3> QED
      BY <2>2, <3>1, <3>2, <3>3, <3>4 DEF WorkerStep
  <2>3. CASE ProducerStep
    BY <1>5, <2>1, <2>3, ProducerFrame
  <2>4. CASE RunStep \/ CallerCancels \/ closeExtractionResults
    BY <1>5, <2>1, <2>4, RunFrame
  <2>5. CASE UNCHANGED vars
    BY <1>5, <2>1, <2>5 DEF vars
  <2> QED
    BY <2>1, <2>2, <2>3, <2>4, <2>5 DEF Next, Terminated
<1>6. ASSUME results'.closed, NEW w \in Workers PROVE worker'[w].pc = "done"
  <2>1. worker[w].pc = "done" => worker'[w].pc = "done"
    BY DoneKept
  <2>2. results.closed => worker[w].pc = "done"
    BY DEF CancelInv
  <2>3. results'.closed = results.closed \/ closeExtractionResults
    BY <1>p DEF Next, ProducerStep, ProducerWalks, ProducerFinishes, ProducerStages,
      ProducerSends, ProducerCloses, WorkerStep, WorkerStarts, WorkerTakes, WorkerExtracts,
      WorkerSends, WorkerEnds, RunStep, ConsumerReceives, ConsumerReturns, RunSeals,
      RunResolves, RunCommits, CallerCancels, Terminated, vars, ResultsTyped
  <2> QED
    BY <1>6, <2>1, <2>2, <2>3 DEF closeExtractionResults
<1>7. run'.outcome = "running" <=> run'.phase # "done"
  BY RunPhases DEF CancelInv
<1>8. \A w \in Workers : worker'[w].pc = "done" =>
        \/ jobs'.closed /\ jobs'.queue = <<>>
        \/ \E j \in 1..Len(results'.queue) : results'.queue[j].kind # "ok"
        \/ consumer'.failed
  BY <1>5 DEF NoJobs, BadPlace
<1> QED
  BY <1>3, <1>4, <1>6, <1>7, <1>8 DEF CancelInv

-----------------------------------------------------------------------------
(* What the consumer knows when the results are closed and drained.        *)
LEMMA NothingUnderWay ==
  ASSUME CancelInv, results.closed, results.queue = <<>>
  PROVE  /\ \A i \in 0..N : ~UnderWay(i)
         /\ \A w \in Workers : ~BadWorker(w)
         /\ ~BadPlace
<1>1. \A w \in Workers : worker[w].pc = "done"
  BY DEF CancelInv
<1>2. 1..Len(results.queue) = {}
  <2>1. Len(<<>>) = 0
    BY EmptySeq
  <2> QED
    BY <2>1
<1> QED
  BY <1>1, <1>2 DEF UnderWay, Holds, BadWorker, BadPlace

(* Success of the extraction.                                              *)
LEMMA ReturnComplete ==
  ASSUME TypeOK, ProducerInv, PlacesInv, AccountInv, CancelInv,
         run.phase = "extract", results.closed, results.queue = <<>>,
         ConsumerError = "none"
  PROVE  /\ producer.pc = "done" /\ producer.error = "none"
         /\ session.staged = 1..tree.count /\ session.written = 1..tree.count
         /\ tree.bad = {}
<1>p. ProducerTyped /\ SessionTyped /\ ConsumerTyped /\ ContextTyped
  BY TypeParts
<1>n. N \in Nat /\ tree.count \in 0..N /\ producer.next \in 1..(N + 1)
  BY CountFacts
<1>1. /\ \A i \in 0..N : ~UnderWay(i)
      /\ \A w \in Workers : ~BadWorker(w)
      /\ ~BadPlace
  BY NothingUnderWay
<1>2. /\ ~caller /\ producer.error \in {"none", "canceled"}
      /\ ~consumer.workerError /\ consumer.extraction = NoIndex /\ ~consumer.writeError
  <2>1. producer.error \in ProducerErrors
    BY <1>p DEF ProducerTyped
  <2> QED
    BY <2>1 DEF ConsumerError, ProducerErrors
<1>3. ~consumer.failed
  BY <1>2 DEF AccountInv
<1>4. ~Trouble
  BY <1>1, <1>2, <1>3, TroubleParts DEF BadProducer
<1>5. ~cancelled
  BY <1>2, <1>4 DEF CancelInv
<1>6. producer.error = "none"
  BY <1>2, <1>5 DEF CancelInv
<1>7. jobs.closed /\ jobs.queue = <<>>
  <2>1. PICK w \in Workers : TRUE
    BY PipelineAssumption
  <2>2. worker[w].pc = "done"
    BY DEF CancelInv
  <2> QED
    BY <1>1, <1>3, <2>2 DEF CancelInv, BadPlace
<1>8. producer.pc = "done" /\ producer.next = tree.count + 1
  BY <1>6, <1>7 DEF ProducerInv
<1>9. TakenCount = tree.count
  <2>1. Len(jobs.queue) = 0
    BY <1>7, EmptySeq
  <2> QED
    BY <1>n, <1>8, <2>1 DEF TakenCount
<1>10. \A i \in Sources : i \in 0..N /\ i >= 1
  BY <1>n DEF Sources
<1>11. session.staged = 1..tree.count
  <2>1. \A i \in 1..tree.count : i \in Sources /\ i < producer.next
    BY <1>n, <1>8 DEF Sources
  <2>2. \A i \in 1..tree.count : i \in session.staged
    BY <2>1 DEF ProducerInv
  <2>3. \A i \in session.staged : i \in Sources /\ i <= tree.count
    BY <1>p DEF SessionTyped, ProducerInv
  <2>4. \A i \in session.staged : i \in 1..tree.count
    BY <1>n, <2>3 DEF Sources
  <2> QED
    BY <2>2, <2>4
<1>12. session.written = 1..tree.count
  <2>1. \A i \in 1..tree.count : i \in Sources /\ i <= TakenCount
    BY <1>n, <1>9 DEF Sources
  <2>2. \A i \in 1..tree.count : i \in session.written
    BY <1>1, <1>3, <1>10, <2>1 DEF AccountInv
  <2>3. \A i \in session.written : i \in Sources /\ i <= tree.count
    BY <1>p, <1>9 DEF SessionTyped, PlacesInv
  <2>4. \A i \in session.written : i \in 1..tree.count
    BY <1>n, <2>3 DEF Sources
  <2> QED
    BY <2>2, <2>4
<1>13. tree.bad = {}
  <2>1. \A i \in tree.bad : i \in Sources /\ i <= TakenCount
    BY <1>p, <1>9 DEF ContextTyped, ProducerInv
  <2>2. \A i \in tree.bad : FALSE
    BY <1>1, <1>2, <1>10, <2>1 DEF AccountInv
  <2> QED
    BY <2>2
<1> QED
  BY <1>6, <1>8, <1>11, <1>12, <1>13

(* The failed extraction that is reported.                                 *)
LEMMA ReturnLowest ==
  ASSUME TypeOK, ProducerInv, AccountInv, CancelInv,
         results.closed, results.queue = <<>>, consumer.extraction # NoIndex
  PROVE  /\ consumer.extraction \in tree.bad
         /\ \A i \in tree.bad : consumer.extraction <= i
<1>p. ConsumerTyped /\ ContextTyped
  BY TypeParts
<1>n. N \in Nat /\ TakenCount \in Int
  BY CountFacts
<1>1. \A i \in 0..N : ~UnderWay(i)
  BY NothingUnderWay
<1>2. consumer.extraction \in tree.bad /\ consumer.extraction <= TakenCount
  BY DEF AccountInv
<1>3. \A i \in tree.bad : i \in 0..N
  BY <1>n, <1>p DEF ContextTyped, Sources
<1>4. ASSUME NEW i \in tree.bad PROVE consumer.extraction <= i
  <2>1. CASE i <= TakenCount
    BY <1>1, <1>3, <2>1 DEF AccountInv
  <2>2. CASE ~(i <= TakenCount)
    <3>1. i \in Int /\ consumer.extraction \in Int
      BY <1>2, <1>3
    <3> QED
      BY <1>n, <1>2, <2>2, <3>1
  <2> QED
    BY <2>1, <2>2
<1> QED
  BY <1>2, <1>4

-----------------------------------------------------------------------------
(* After the extraction, nothing of it changes any more.                   *)
LEMMA ExtractedKept ==
  ASSUME TypeOK, ExtractionComplete, CancelInv, [Next]_vars, Extracted
  PROVE  /\ UNCHANGED <<tree, producer>> /\ session'.staged = session.staged
         /\ session'.written = session.written
<1>1. producer.pc = "done"
  BY DEF ExtractionComplete
<1>2. ~ProducerStep
  BY <1>1 DEF ProducerStep, ProducerWalks, ProducerFinishes, ProducerStages, ProducerSends,
    ProducerCloses
<1>3. run.phase # "extract"
  BY DEF Extracted, CancelInv
<1>4. ~ConsumerReceives
  BY <1>3 DEF ConsumerReceives
<1>5. CASE \E w \in Workers : WorkerStep(w)
  BY <1>5, WorkerFrame
<1>6. CASE \/ ConsumerReturns \/ RunSeals \/ RunResolves \/ RunCommits
           \/ CallerCancels \/ closeExtractionResults
  BY <1>6, RunFrame, OtherPlaces DEF PlacesSame, RunStep
<1>7. CASE UNCHANGED vars
  BY <1>7 DEF vars
<1> QED
  BY <1>2, <1>4, <1>5, <1>6, <1>7 DEF Next, RunStep, Terminated

(* The extraction succeeds in one step only.                               *)
LEMMA ExtractedStep ==
  ASSUME TypeOK, [Next]_vars, Extracted', ~Extracted
  PROVE  ConsumerReturns /\ ConsumerError = "none" /\ session' = session
<1>p. RunTyped
  BY TypeParts
<1>1. CASE run'.phase = run.phase /\ run'.outcome = run.outcome
  BY <1>1 DEF Extracted
<1>2. ASSUME NEW outcome, outcome # "committed", RunFails(outcome) PROVE FALSE
  <2>1. run'.phase = "done" /\ run'.outcome = outcome
    BY <1>p, <1>2 DEF RunFails, RunTyped
  <2> QED
    BY <1>2, <2>1 DEF Extracted
<1>3. CASE ProducerStep
  <2>1. \/ run' = run
        \/ run' = [run EXCEPT !.groups = @ \cup {Group[producer.next]}]
    BY <1>3 DEF ProducerStep, ProducerWalks, ProducerFinishes, ProducerStages, ProducerSends,
      ProducerCloses
  <2> QED
    BY <1>p, <1>1, <2>1 DEF RunTyped
<1>4. CASE \E w \in Workers : WorkerStep(w)
  BY <1>1, <1>4, WorkerFrame
<1>5. CASE ConsumerReceives \/ CallerCancels \/ closeExtractionResults \/ UNCHANGED vars
  BY <1>1, <1>5 DEF ConsumerReceives, CallerCancels, closeExtractionResults, vars
<1>6. CASE ConsumerReturns
  <2>1. producer.error \in ProducerErrors
    BY TypeParts DEF ProducerTyped
  <2>2. ConsumerError # "committed"
    BY <2>1 DEF ConsumerError, ProducerErrors
  <2> QED
    BY <1>2, <1>6, <2>2 DEF ConsumerReturns
<1>7. CASE RunSeals \/ RunResolves \/ RunCommits
  BY <1>7 DEF RunSeals, RunResolves, RunCommits, Extracted
<1> QED
  BY <1>3, <1>4, <1>5, <1>6, <1>7 DEF Next, RunStep, Terminated

LEMMA ExtractionCompleteStep ==
  ASSUME TypeOK, ProducerInv, PlacesInv, AccountInv, CancelInv, ExtractionComplete,
         [Next]_vars
  PROVE  ExtractionComplete'
<1>1. CASE ~Extracted'
  BY <1>1 DEF ExtractionComplete
<1>2. CASE Extracted
  BY <1>2, ExtractedKept DEF ExtractionComplete
<1>3. CASE Extracted' /\ ~Extracted
  <2>1. ConsumerReturns /\ ConsumerError = "none" /\ session' = session
    BY <1>3, ExtractedStep
  <2>2. run.phase = "extract" /\ results.closed /\ results.queue = <<>>
        /\ UNCHANGED <<tree, producer>>
    BY <2>1 DEF ConsumerReturns
  <2> QED
    BY <2>1, <2>2, ReturnComplete DEF ExtractionComplete
<1> QED
  BY <1>1, <1>2, <1>3

LEMMA LowestFailureStep ==
  ASSUME TypeOK, ProducerInv, AccountInv, CancelInv, LowestFailure, [Next]_vars
  PROVE  LowestFailure'
<1>p. RunTyped
  BY TypeParts
<1>t. tree' = tree
  BY RunFrame, WorkerFrame, ProducerFrame DEF Next, Terminated, vars
<1>1. CASE run'.outcome = run.outcome /\ run'.source = run.source
  BY <1>1, <1>t DEF LowestFailure
<1>2. CASE run'.outcome # "extraction"
  BY <1>2 DEF LowestFailure
<1>3. ASSUME NEW outcome, outcome # "extraction", RunFails(outcome)
      PROVE  run'.outcome # "extraction"
  BY <1>p, <1>3 DEF RunFails, RunTyped
<1>4. CASE ProducerStep
  <2>1. \/ run' = run
        \/ run' = [run EXCEPT !.groups = @ \cup {Group[producer.next]}]
    BY <1>4 DEF ProducerStep, ProducerWalks, ProducerFinishes, ProducerStages, ProducerSends,
      ProducerCloses
  <2> QED
    BY <1>p, <1>1, <2>1 DEF RunTyped
<1>5. CASE \E w \in Workers : WorkerStep(w)
  BY <1>1, <1>5, WorkerFrame
<1>6. CASE ConsumerReceives \/ CallerCancels \/ closeExtractionResults \/ UNCHANGED vars
  BY <1>1, <1>6 DEF ConsumerReceives, CallerCancels, closeExtractionResults, vars
<1>7. CASE ConsumerReturns
  <2>1. CASE ConsumerError = "extraction" /\ RunFails(ConsumerError)
    <3>1. run'.source = consumer.extraction
      BY <1>p, <2>1 DEF RunFails, RunTyped
    <3>2. producer.error \in ProducerErrors
      BY TypeParts DEF ProducerTyped
    <3>3. consumer.extraction # NoIndex
      BY <2>1, <3>2 DEF ConsumerError, ProducerErrors
    <3>4. results.closed /\ results.queue = <<>>
      BY <1>7 DEF ConsumerReturns
    <3> QED
      BY <3>1, <3>3, <3>4, <1>t, ReturnLowest DEF LowestFailure
  <2>2. CASE RunFails(ConsumerError) /\ ConsumerError # "extraction"
    BY <1>2, <1>3, <2>2
  <2>3. CASE RunFails("empty")
    BY <1>2, <1>3, <2>3
  <2>4. CASE run' = [run EXCEPT !.phase = "seal"]
    BY <1>p, <1>1, <2>4 DEF RunTyped
  <2> QED
    BY <1>7, <2>1, <2>2, <2>3, <2>4 DEF ConsumerReturns
<1>8. CASE RunSeals \/ RunResolves \/ RunCommits
  <2>1. CASE LaterCallFails
    BY <1>2, <1>3, <2>1 DEF LaterCallFails
  <2>2. CASE ~LaterCallFails
    <3>1. \/ run'.outcome = run.outcome /\ run'.source = run.source
          \/ run'.outcome = "committed"
      BY <1>p, <1>8, <2>2 DEF RunSeals, RunResolves, RunCommits, NextGroup, RunTyped
    <3> QED
      BY <1>1, <1>2, <3>1
  <2> QED
    BY <2>1, <2>2
<1> QED
  BY <1>4, <1>5, <1>6, <1>7, <1>8 DEF Next, RunStep, Terminated

-----------------------------------------------------------------------------
(* Resolution.                                                             *)

(* A page is the first of what is left of its group.                       *)
LEMMA PageExact ==
  ASSUME TypeOK, ExtractionComplete, run.phase = "resolve",
         NEW page, page = ResolverProjectionPage(run.group, run.after)
  PROVE  /\ \A i \in page : i \in 1..tree.count /\ Group[i] = run.group /\ i > run.after
         /\ page = {} =>
              \A i \in 1..tree.count : ~(Group[i] = run.group /\ i > run.after)
         /\ page # {} =>
              \A i \in 1..tree.count :
                Group[i] = run.group /\ i > run.after /\ i <= Highest(page) => i \in page
<1> DEFINE rest == {i \in session.staged \cap (session.written \cup tree.base.sources) :
                      Group[i] = run.group /\ i > run.after}
           below(k) == {j \in rest : j < k}
<1>n. N \in Nat /\ tree.count \in 0..N /\ PageSize \in Nat \ {0}
  BY CountFacts, PipelineAssumption
<1>1. session.staged = 1..tree.count /\ session.written = 1..tree.count
  BY DEF ExtractionComplete, Extracted
<1>2. rest = {i \in 1..tree.count : Group[i] = run.group /\ i > run.after}
  BY <1>1
<1>3. page = {i \in rest : Cardinality(below(i)) < PageSize}
  BY DEF ResolverProjectionPage
<1>4. rest \in SUBSET Nat /\ IsFiniteSet(rest)
  <2>0. tree.count \in Int /\ 1 \in Int
    BY <1>n
  <2>1. IsFiniteSet(1..tree.count)
    BY <2>0, FS_Interval
  <2>2. rest \in SUBSET (1..tree.count)
    BY <1>2
  <2> HIDE DEF rest
  <2>4. IsFiniteSet(rest)
    BY <2>1, <2>2, FS_Subset
  <2>3. 1..tree.count \subseteq Nat
    OBVIOUS
  <2> QED
    BY <2>2, <2>3, <2>4
<1>5. ASSUME NEW k \in rest PROVE IsFiniteSet(below(k)) /\ Cardinality(below(k)) \in Nat
  BY <1>4, FS_Subset, FS_CardinalityType
<1>6. ASSUME page = {} PROVE rest = {}
  <2>1. SUFFICES ASSUME rest # {} PROVE FALSE
    OBVIOUS
  <2>2. Lowest(rest) \in rest /\ \A y \in rest : Lowest(rest) <= y
    BY <1>4, <2>1, LowestFacts
  <2>3. below(Lowest(rest)) = {}
    BY <1>4, <2>2
  <2>4. Cardinality(below(Lowest(rest))) = 0
    BY <2>3, FS_EmptySet
  <2> HIDE DEF below, rest
  <2> QED
    BY <1>n, <1>3, <1>6, <2>2, <2>4
<1>7. ASSUME page # {}, NEW i \in rest, i <= Highest(page) PROVE i \in page
  <2>1. Highest(page) \in page
    BY <1>7, PageFacts
  <2>2. Highest(page) \in rest /\ Cardinality(below(Highest(page))) < PageSize
    BY <1>3, <2>1
  <2>3. below(i) \subseteq below(Highest(page))
    BY <1>4, <1>7, <2>2
  <2>4. Cardinality(below(i)) <= Cardinality(below(Highest(page)))
    BY <1>5, <2>2, <2>3, FS_Subset
  <2>5. Cardinality(below(i)) \in Nat /\ Cardinality(below(Highest(page))) \in Nat
    BY <1>5, <2>2
  <2> HIDE DEF below, rest
  <2> QED
    BY <1>3, <1>n, <2>2, <2>4, <2>5
<1>8. \A i \in page : i \in rest
  BY <1>3
<1> QED
  BY <1>2, <1>6, <1>7, <1>8

LEMMA ResolveInit == Init => ResolveInv /\ ResolvedOnce
BY DEF Init, ResolveInv, ResolvedOnce

(* The groups are those of the staged sources.                             *)
LEMMA GroupsStep ==
  ASSUME TypeOK, ProducerInv, run.groups = {Group[i] : i \in session.staged}, [Next]_vars
  PROVE  run'.groups = {Group[i] : i \in session'.staged}
<1>p. RunTyped /\ SessionTyped
  BY TypeParts
<1>1. CASE run'.groups = run.groups /\ session'.staged = session.staged
  BY <1>1
<1>2. CASE ProducerStages
  <2>1. CASE /\ session' = [session EXCEPT !.staged = @ \cup {producer.next}]
             /\ run' = [run EXCEPT !.groups = @ \cup {Group[producer.next]}]
    <3>1. /\ session'.staged = session.staged \cup {producer.next}
          /\ run'.groups = run.groups \cup {Group[producer.next]}
      BY <1>p, <2>1 DEF SessionTyped, RunTyped
    <3> QED
      BY <3>1
  <2>2. CASE run' = run /\ session'.staged = session.staged
    BY <1>1, <2>2
  <2> QED
    BY <1>2, <1>p, <2>1, <2>2 DEF ProducerStages, SessionTyped
<1>3. CASE ProducerWalks \/ ProducerFinishes \/ ProducerSends \/ ProducerCloses
  BY <1>1, <1>3 DEF ProducerWalks, ProducerFinishes, ProducerSends, ProducerCloses
<1>4. CASE \E w \in Workers : WorkerStep(w)
  BY <1>1, <1>4, WorkerFrame
<1>5. CASE RunStep \/ CallerCancels \/ closeExtractionResults
  <2>1. run'.groups = run.groups
    BY <1>5, <1>p DEF RunStep, ConsumerReceives, ConsumerReturns, RunSeals, RunResolves,
      RunCommits, CallerCancels, closeExtractionResults, RunFails, LaterCallFails, NextGroup,
      RunTyped
  <2> QED
    BY <1>1, <1>5, <2>1, RunFrame
<1>6. CASE UNCHANGED vars
  BY <1>1, <1>6 DEF vars
<1> QED
  BY <1>2, <1>3, <1>4, <1>5, <1>6 DEF Next, ProducerStep, Terminated

(* What has been resolved is known from the group and the cursor.          *)
Cursor ==
  \A i \in 1..tree.count :
    run.resolved[i] = IF \/ Group[i] < run.group
                         \/ Group[i] = run.group /\ i <= run.after
                      THEN 1 ELSE 0

Unresolved ==
  /\ run.group = 0 /\ run.after = 0
  /\ \A i \in Sources : run.resolved[i] = 0

LEMMA ResolveParts ==
  ResolveInv <=> /\ run.groups = {Group[i] : i \in session.staged}
                 /\ run.phase \in {"extract", "seal"} => Unresolved
                 /\ run.phase = "resolve" => Cursor
BY DEF ResolveInv, Unresolved, Cursor

(* The round that resolves a page.                                         *)
LEMMA PageStep ==
  ASSUME TypeOK, ExtractionComplete, Cursor, run.phase = "resolve", tree' = tree,
         NEW page, page = ResolverProjectionPage(run.group, run.after), page # {},
         run' = [run EXCEPT
                  !.resolved = [i \in Sources |-> IF i \in page THEN @[i] + 1 ELSE @[i]],
                  !.after = Highest(page)]
  PROVE  Cursor'
<1>p. RunTyped
  BY TypeParts
<1>n. N \in Nat /\ tree.count \in 0..N /\ Group \in [Sources -> Nat \ {0}]
  BY CountFacts, PipelineAssumption
<1>1. /\ \A i \in page : i \in 1..tree.count /\ Group[i] = run.group /\ i > run.after
      /\ \A i \in 1..tree.count :
           Group[i] = run.group /\ i > run.after /\ i <= Highest(page) => i \in page
  BY PageExact
<1>2. Highest(page) \in page /\ \A i \in page : i <= Highest(page)
  BY PageFacts
<1>3. /\ run'.group = run.group /\ run'.after = Highest(page)
      /\ \A i \in Sources : run'.resolved[i] =
           IF i \in page THEN run.resolved[i] + 1 ELSE run.resolved[i]
  BY <1>p DEF RunTyped
<1>4. run.after \in Nat /\ run.group \in Nat /\ Highest(page) \in Nat
  BY <1>1, <1>2, <1>p DEF RunTyped
<1>5. ASSUME NEW i \in 1..tree.count
      PROVE  run'.resolved[i] = IF \/ Group[i] < run'.group
                                   \/ Group[i] = run'.group /\ i <= run'.after
                                THEN 1 ELSE 0
  <2>1. i \in Sources /\ i \in Nat
    BY <1>n DEF Sources
  <2>2. Group[i] \in Nat
    BY <1>n, <2>1
  <2>3. run.resolved[i] = IF \/ Group[i] < run.group
                             \/ Group[i] = run.group /\ i <= run.after
                          THEN 1 ELSE 0
    BY DEF Cursor
  <2>4. CASE i \in page
    <3>1. Group[i] = run.group /\ i > run.after /\ i <= Highest(page)
      BY <1>1, <1>2, <2>4
    <3>2. run.resolved[i] = 0
      BY <1>4, <2>1, <2>3, <3>1
    <3> QED
      BY <1>3, <2>1, <2>4, <3>1, <3>2
  <2>5. CASE i \notin page
    <3>1. run'.resolved[i] = run.resolved[i]
      BY <1>3, <2>1, <2>5
    <3>2. Group[i] = run.group => (i <= run.after <=> i <= Highest(page))
      <4>1. Highest(page) > run.after
        BY <1>1, <1>2
      <4> QED
        BY <1>1, <1>4, <2>1, <2>5, <4>1
    <3> QED
      BY <1>3, <2>3, <3>1, <3>2
  <2> QED
    BY <2>4, <2>5
<1> QED
  BY <1>5 DEF Cursor

(* The round that goes to the next group.                                  *)
LEMMA GroupStep ==
  ASSUME TypeOK, ExtractionComplete, Cursor, run.phase = "resolve", tree' = tree,
         run.groups = {Group[i] : i \in session.staged},
         ResolverProjectionPage(run.group, run.after) = {},
         NEW later, later = {g \in run.groups : g > run.group}, later # {},
         NextGroup(later)
  PROVE  Cursor'
<1>p. RunTyped
  BY TypeParts
<1>n. N \in Nat /\ tree.count \in 0..N /\ Group \in [Sources -> Nat \ {0}]
  BY CountFacts, PipelineAssumption
<1>1. later \in SUBSET Nat
  BY <1>p DEF RunTyped
<1>2. Lowest(later) \in later /\ \A g \in later : Lowest(later) <= g
  BY <1>1, LowestFacts
<1>3. run'.group = Lowest(later) /\ run'.after = 0 /\ run'.resolved = run.resolved
  BY <1>p DEF NextGroup, RunTyped
<1>4. \A i \in 1..tree.count : ~(Group[i] = run.group /\ i > run.after)
  BY PageExact
<1>5. session.staged = 1..tree.count
  BY DEF ExtractionComplete, Extracted
<1>6. Lowest(later) \in Nat /\ Lowest(later) > run.group /\ run.group \in Nat
      /\ run.after \in Nat
  BY <1>1, <1>2, <1>p DEF RunTyped
<1>7. ASSUME NEW i \in 1..tree.count
      PROVE  run'.resolved[i] = IF \/ Group[i] < run'.group
                                   \/ Group[i] = run'.group /\ i <= run'.after
                                THEN 1 ELSE 0
  <2>1. i \in Sources /\ i \in Nat /\ i >= 1
    BY <1>n DEF Sources
  <2>2. Group[i] \in Nat
    BY <1>n, <2>1
  <2>3. Group[i] > run.group => Lowest(later) <= Group[i]
    BY <1>2, <1>5
  <2>4. Group[i] = run.group => i <= run.after
    BY <1>4, <1>6, <2>1
  <2>5. run.resolved[i] = IF \/ Group[i] < run.group
                             \/ Group[i] = run.group /\ i <= run.after
                          THEN 1 ELSE 0
    BY DEF Cursor
  <2>6. CASE Group[i] <= run.group
    <3>1. run.resolved[i] = 1
      BY <1>6, <2>2, <2>4, <2>5, <2>6
    <3>2. Group[i] < Lowest(later)
      BY <1>6, <2>2, <2>6
    <3> QED
      BY <1>3, <3>1, <3>2
  <2>7. CASE Group[i] > run.group
    <3>1. run.resolved[i] = 0
      BY <1>6, <2>2, <2>5, <2>7
    <3>2. ~(Group[i] < Lowest(later)) /\ ~(i <= 0)
      BY <1>6, <2>1, <2>2, <2>3, <2>7
    <3> QED
      BY <1>3, <3>1, <3>2
  <2> QED
    BY <1>6, <2>2, <2>6, <2>7
<1> QED
  BY <1>7 DEF Cursor

(* The last round: nothing is left.                                        *)
LEMMA LastRound ==
  ASSUME TypeOK, ExtractionComplete, Cursor, run.phase = "resolve",
         run.groups = {Group[i] : i \in session.staged},
         ResolverProjectionPage(run.group, run.after) = {},
         {g \in run.groups : g > run.group} = {}
  PROVE  \A i \in 1..tree.count : run.resolved[i] = 1
<1>p. RunTyped
  BY TypeParts
<1>n. N \in Nat /\ tree.count \in 0..N /\ Group \in [Sources -> Nat \ {0}]
  BY CountFacts, PipelineAssumption
<1>1. \A i \in 1..tree.count : ~(Group[i] = run.group /\ i > run.after)
  BY PageExact
<1>2. session.staged = 1..tree.count
  BY DEF ExtractionComplete, Extracted
<1>3. run.group \in Nat /\ run.after \in Nat
  BY <1>p DEF RunTyped
<1>4. ASSUME NEW i \in 1..tree.count PROVE run.resolved[i] = 1
  <2>1. i \in Sources /\ i \in Nat
    BY <1>n DEF Sources
  <2>2. Group[i] \in Nat
    BY <1>n, <2>1
  <2>3. ~(Group[i] > run.group)
    BY <1>2
  <2>4. Group[i] = run.group => i <= run.after
    BY <1>1, <1>3, <2>1
  <2> QED
    BY <1>3, <2>2, <2>3, <2>4 DEF Cursor
<1> QED
  BY <1>4

LEMMA ResolveStep ==
  ASSUME TypeOK, ProducerInv, CancelInv, ExtractionComplete, ResolveInv, ResolvedOnce,
         [Next]_vars
  PROVE  ResolveInv' /\ ResolvedOnce'
<1>p. RunTyped
  BY TypeParts
<1>g. run'.groups = {Group[i] : i \in session'.staged}
  BY GroupsStep DEF ResolveInv
<1>t. tree' = tree
  BY RunFrame, WorkerFrame, ProducerFrame DEF Next, Terminated, vars
<1> DEFINE Rest == /\ run'.phase \in {"extract", "seal"} => Unresolved'
                   /\ run'.phase = "resolve" => Cursor'
                   /\ ResolvedOnce'
<1>s. SUFFICES Rest
  BY <1>g DEF ResolveInv, Unresolved, Cursor
<1>1. CASE UNCHANGED <<run.phase, run.outcome, run.group, run.after, run.resolved>>
  BY <1>1, <1>t, ResolveParts DEF Unresolved, Cursor, ResolvedOnce
<1>2. ASSUME NEW outcome, outcome # "committed", RunFails(outcome) PROVE Rest
  <2>1. run'.phase = "done" /\ run'.outcome = outcome
    BY <1>p, <1>2 DEF RunFails, RunTyped
  <2> QED
    BY <1>2, <2>1 DEF ResolvedOnce
<1>3. CASE ProducerStep
  <2>1. \/ run' = run
        \/ run' = [run EXCEPT !.groups = @ \cup {Group[producer.next]}]
    BY <1>3 DEF ProducerStep, ProducerWalks, ProducerFinishes, ProducerStages, ProducerSends,
      ProducerCloses
  <2>2. UNCHANGED <<run.phase, run.outcome, run.group, run.after, run.resolved>>
    BY <1>p, <2>1 DEF RunTyped
  <2> QED
    BY <1>1, <2>2
<1>4. CASE \E w \in Workers : WorkerStep(w)
  <2>1. run' = run
    BY <1>4, WorkerFrame
  <2> QED
    BY <1>1, <2>1
<1>5. CASE ConsumerReceives \/ CallerCancels \/ closeExtractionResults \/ UNCHANGED vars
  <2>1. run' = run
    BY <1>5 DEF ConsumerReceives, CallerCancels, closeExtractionResults, vars
  <2> QED
    BY <1>1, <2>1
<1>6. CASE ConsumerReturns
  <2>1. producer.error \in ProducerErrors
    BY TypeParts DEF ProducerTyped
  <2>2. ConsumerError # "committed"
    BY <2>1 DEF ConsumerError, ProducerErrors
  <2>3. CASE RunFails(ConsumerError) \/ RunFails("empty")
    BY <1>2, <2>2, <2>3
  <2>4. CASE run.phase = "extract" /\ run' = [run EXCEPT !.phase = "seal"]
    <3>1. /\ run'.phase = "seal" /\ run'.outcome = run.outcome /\ run'.group = run.group
          /\ run'.after = run.after /\ run'.resolved = run.resolved
      BY <1>p, <2>4 DEF RunTyped
    <3>2. run'.outcome # "committed"
      BY <2>4, <3>1 DEF CancelInv
    <3> QED
      BY <2>4, <3>1, <3>2, ResolveParts DEF Unresolved, ResolvedOnce
  <2> QED
    BY <1>6, <2>3, <2>4 DEF ConsumerReturns
<1>7. CASE LaterCallFails
  BY <1>2, <1>7 DEF LaterCallFails
<1>8. CASE RunSeals
  <2>1. CASE run' = [run EXCEPT !.phase = "resolve"]
    <3>1. /\ run'.phase = "resolve" /\ run'.outcome = run.outcome /\ run'.group = run.group
          /\ run'.after = run.after /\ run'.resolved = run.resolved
      BY <1>p, <2>1 DEF RunTyped
    <3>2. run'.outcome # "committed"
      BY <1>8, <3>1 DEF CancelInv, RunSeals
    <3>3. Unresolved
      BY <1>8, ResolveParts DEF RunSeals
    <3>4. ASSUME NEW i \in 1..tree.count
          PROVE  /\ run.resolved[i] = 0
                 /\ ~(Group[i] < run.group) /\ ~(Group[i] = run.group /\ i <= run.after)
      <4>1. N \in Nat /\ tree.count \in 0..N /\ Group \in [Sources -> Nat \ {0}]
        BY CountFacts, PipelineAssumption
      <4>2. i \in Sources
        BY <4>1 DEF Sources
      <4>3. Group[i] \in Nat \ {0}
        BY <4>1, <4>2
      <4> QED
        BY <3>3, <4>2, <4>3 DEF Unresolved
    <3> QED
      BY <1>t, <3>1, <3>2, <3>4 DEF Cursor, ResolvedOnce
  <2> QED
    BY <1>7, <1>8, <2>1 DEF RunSeals
<1>9. CASE RunResolves
  <2> DEFINE page == ResolverProjectionPage(run.group, run.after)
             later == {g \in run.groups : g > run.group}
  <2>0. run.phase = "resolve" /\ Cursor /\ run.outcome = "running"
        /\ run.groups = {Group[i] : i \in session.staged}
    BY <1>9, ResolveParts DEF RunResolves, CancelInv
  <2>1. CASE /\ page # {}
             /\ run' = [run EXCEPT
                  !.resolved = [i \in Sources |-> IF i \in page THEN @[i] + 1 ELSE @[i]],
                  !.after = Highest(page)]
    <3>1. Cursor'
      BY <1>t, <2>0, <2>1, PageStep
    <3>2. run'.phase = "resolve" /\ run'.outcome = "running"
      BY <1>p, <2>0, <2>1 DEF RunTyped
    <3> QED
      BY <3>1, <3>2 DEF ResolvedOnce
  <2>2. CASE page = {} /\ later # {} /\ NextGroup(later)
    <3>1. Cursor'
      BY <1>t, <2>0, <2>2, GroupStep
    <3>2. run'.phase = "resolve" /\ run'.outcome = "running"
      BY <1>p, <2>0, <2>2 DEF RunTyped, NextGroup
    <3> QED
      BY <3>1, <3>2 DEF ResolvedOnce
  <2>3. CASE page = {} /\ later = {} /\ run' = [run EXCEPT !.phase = "commit"]
    <3>1. \A i \in 1..tree.count : run.resolved[i] = 1
      BY <2>0, <2>3, LastRound
    <3>2. run'.phase = "commit" /\ run'.resolved = run.resolved
      BY <1>p, <2>0, <2>3 DEF RunTyped
    <3> QED
      BY <1>t, <3>1, <3>2 DEF ResolvedOnce
  <2> QED
    BY <1>7, <1>9, <2>1, <2>2, <2>3 DEF RunResolves
<1>10. CASE RunCommits
  <2>1. CASE run' = [run EXCEPT !.phase = "done", !.outcome = "committed"]
    <3>1. run'.phase = "done" /\ run'.resolved = run.resolved
      BY <1>p, <2>1 DEF RunTyped
    <3> QED
      BY <1>10, <1>t, <3>1 DEF ResolvedOnce, RunCommits
  <2> QED
    BY <1>7, <1>10, <2>1 DEF RunCommits
<1> HIDE DEF Rest
<1> QED
  BY <1>3, <1>4, <1>5, <1>6, <1>8, <1>9, <1>10 DEF Next, RunStep, Terminated

-----------------------------------------------------------------------------
(* The invariant.                                                          *)
LEMMA PipelineInit == Init => PipelineInv
<1> SUFFICES ASSUME Init PROVE PipelineInv
  OBVIOUS
<1>1. ExtractionComplete /\ LowestFailure
  BY DEF Init, ExtractionComplete, Extracted, LowestFailure
<1> QED
  BY <1>1, TypeInit, ProducerInit, PlacesInit, AccountInit, CancelInit, ResolveInit, Init
    DEF PipelineInv, ResolveInv

LEMMA PipelineStep == PipelineInv /\ [Next]_vars => PipelineInv'
<1> SUFFICES ASSUME PipelineInv, [Next]_vars PROVE PipelineInv'
  OBVIOUS
<1>1. /\ TypeOK /\ ProducerInv /\ PlacesInv /\ KindsInv /\ AccountInv /\ CancelInv
      /\ ExtractionComplete /\ LowestFailure /\ ResolveInv /\ ResolvedOnce
  BY DEF PipelineInv
<1>2. TypeOK' /\ ProducerInv'
  BY <1>1, TypeStep, ProducerInvStep
<1>3. PlacesInv' /\ KindsInv' /\ AccountInv' /\ CancelInv'
  BY <1>1, PlacesInvStep, KindsInvStep, AccountInvStep, CancelInvStep
<1>4. ExtractionComplete' /\ LowestFailure' /\ ResolveInv' /\ ResolvedOnce'
  BY <1>1, ExtractionCompleteStep, LowestFailureStep, ResolveStep
<1> QED
  BY <1>2, <1>3, <1>4 DEF PipelineInv

LEMMA PipelineAlways == Spec => []PipelineInv
BY PipelineInit, PipelineStep, PTL DEF Spec

(* What waits in the results can be written: its source was taken, so it   *)
(* is staged, and it is in no other place.                                 *)
LEMMA WritesAcceptedHolds ==
  ASSUME PipelineInv
  PROVE  WritesAccepted
<1>p. TypeOK /\ ProducerInv /\ PlacesInv
  BY DEF PipelineInv
<1>n. N \in Nat /\ producer.next \in Int /\ Len(jobs.queue) \in Nat
  BY <1>p, CountFacts
<1>1. results.queue \in Seq(Result)
  BY <1>p, TypeParts DEF ResultsTyped
<1>2. DOMAIN results.queue = 1..Len(results.queue)
  BY <1>1, LenProperties
<1>3. ASSUME NEW j \in 1..Len(results.queue), results.queue[j].kind = "ok"
      PROVE  /\ results.queue[j].index \in session.staged \ session.written
             /\ \A k \in 1..Len(results.queue) :
                  k # j => results.queue[k].index # results.queue[j].index
  <2> DEFINE i == results.queue[j].index
  <2>1. results.queue[j] \in Result
    BY <1>1, ElementOfSeq
  <2>2. i \in 0..N
    BY <2>1 DEF Result
  <2>3. Waits(j, i)
    BY <1>3 DEF Waits
  <2>4. /\ i >= 1 /\ i <= TakenCount /\ i \notin session.written
        /\ \A k \in 1..Len(results.queue) : Waits(k, i) => k = j
    BY <1>p, <2>2, <2>3 DEF PlacesInv
  <2>5. i \in Sources /\ i < producer.next
    BY <1>n, <2>2, <2>4 DEF TakenCount, Sources
  <2>6. i \in session.staged
    BY <1>p, <2>5 DEF ProducerInv
  <2>7. ASSUME NEW k \in 1..Len(results.queue), k # j PROVE results.queue[k].index # i
    <3>1. CASE results.queue[k].kind = "worker"
      <4>1. results.queue[k].index = NoIndex
        BY <3>1 DEF PipelineInv, KindsInv
      <4> QED
        BY <2>4, <4>1 DEF NoIndex
    <3>2. CASE results.queue[k].kind # "worker"
      BY <2>4, <2>7, <3>2 DEF Waits
    <3> QED
      BY <3>1, <3>2
  <2> QED
    BY <2>4, <2>6, <2>7
<1> QED
  BY <1>2, <1>3 DEF WritesAccepted

(* Goroutines and channels keep their types and bounds, and the session    *)
(* never refuses a contribution for its source, for any number of sources  *)
(* and workers.  (consumeContributions, initial_pipeline.go:251)           *)
THEOREM ChannelsSoundAlways == Spec => []ChannelsSound
<1>1. PipelineInv => ChannelsSound
  BY WritesAcceptedHolds DEF PipelineInv, ChannelsSound
<1> QED
  BY <1>1, PipelineAlways, PTL

(* When consumeContributions reports success every source was staged,      *)
(* extracted and written, although it ignores a cancelled producer.        *)
THEOREM ExtractionCompleteAlways == Spec => []ExtractionComplete
<1>1. PipelineInv => ExtractionComplete
  BY DEF PipelineInv
<1> QED
  BY <1>1, PipelineAlways, PTL

(* The failed extraction that Run reports is that of the first source, in  *)
(* walk order, that cannot be extracted, on every schedule.                *)
THEOREM LowestFailureAlways == Spec => []LowestFailure
<1>1. PipelineInv => LowestFailure
  BY DEF PipelineInv
<1> QED
  BY <1>1, PipelineAlways, PTL

(* resolveProjectionPages resolves every source exactly once before a      *)
(* commit, for any groups and any size of the pages.                       *)
THEOREM ResolvedOnceAlways == Spec => []ResolvedOnce
<1>1. PipelineInv => ResolvedOnce
  BY DEF PipelineInv
<1> QED
  BY <1>1, PipelineAlways, PTL
=============================================================================
