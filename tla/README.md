# Agent Wayfinder: a TLA+ verification project

Agent Wayfinder indexes a workspace into a versioned code graph kept in SQLite and
answers questions about it. These modules model the parts of it that are hard to test:
the interval tables behind the graph versions, the background indexer's queue, the
processes that run and control the indexer, the first index, the incremental index that
follows every write, the catalog and its refreshes, the spending limits, and the answers
to queries. TLC checks small instances; TLAPS proves the main safety properties of eight
modules for every value of the constants.

## The system

| Part | State it keeps | Operations | Correct when |
| --- | --- | --- | --- |
| graph store (`storage/sqlite/sqlite.go`, `storage/storage.go`) | published versions, contribution rows with validity intervals, workspace facts, lexical index, an open session's transaction | Publish, PublishStaged, contribution session, Rollback, Prune, RebuildLexicalIndex | a published snapshot never changes and shows a source once; only complete versions become visible; pruning and rolling back leave nothing behind |
| catalog store (same file) | entries, tasks, embeddings per version | WriteCatalog, CopyCatalog, embeddings, deletes | nothing refers to a version or an entry that is gone |
| spend ledger (same file) | reservations per provider with their time | ReserveSpend, SettleSpend | limits hold under concurrent callers |
| indexer manager (`indexer/queue.go`, `lifecycle.go`) | one worker per workspace: queue, timers, flags | Start, Enqueue, publish, reconcileWorkspace, Stop | one publication at a time, no accepted path lost, Stop ends |
| indexer control (`indexer/control.go`, `coordinator.go`, `cmd/.../indexer`) | flock, socket file, connections | Serve, handle, Request, start/status/stop | the socket leads to the one live server |
| initial pipeline (`index/initial_pipeline.go`) | producer, workers, consumer, a session | Run | the result and the reported error do not depend on timing |
| workspace discovery (`workspace/discovery.go`) | none: it reads the rule files on disk | Discover | what Git or the configuration excludes stays out, every source is in its own project |
| incremental index (`index/index.go`) | none between calls | PublishBatch: list the sources, open a snapshot, extract the changed, select and extract the affected, resolve, publish (in one transaction above 128 sources); Index | the published graph is the one of the sources on disk |
| catalog runner and command (`index/catalog_runner.go`, `catalog.go`, `cmd/.../catalog`) | passes under way, the chain of refreshes | Catalog, StartRefresh, catalog, catalog-stop | a completed pass leaves a complete and current catalog |
| graph reads and query (`storage/sqlite/sqlite.go`, `query/query.go`) | an open snapshot | lookups, Traverse, Explain, Export; query, path, inspect, export | answers are true of the snapshot, and whole unless they say that they are not |
| catalog search (`query`, `sqlite.go`) | none | the best catalog matches of a text | the best come first |
| planners (`query/planner*.go`, `planning.go`) and configuration | the ledger, metrics | plan a question with the paid planners that are allowed | nothing is paid for without a reservation, and a failed planner costs no answer |
| publication preparation, read caches, schema migration, extractors, MCP server, rendering, benchmark, packages | see *Not modelled* | | |

The indexer's publisher opens the store, calls `PublishBatch`, which publishes through
`Store.publish` or `PublishStaged`, writes a catalog task and starts a catalog refresh.
The initial index writes through a contribution session instead. Readers open a snapshot,
which is a version number, and read by it with plain statements. Several processes may
share a database: SQLite's write lock (`_txlock=immediate`, WAL) serialises the writers.

What is hard here: intervals that publishing closes, rolling back reopens and pruning
moves; a transaction that stays open over many calls; timer callbacks that outlive the
worker they were set for; a publisher called outside the mutex; a batch that resolves
against a snapshot while another process indexes and the sources, and the files that say
which are sources, go on changing; processes that start, leave and crash around a lock
and a socket file; catalog passes of several processes over versions that are published
and pruned meanwhile; a question whose plan is made before its snapshot is opened, and
searches that stop at limits. `PROJECT.json` lists the hazards, each at its line.

## Modules

| Module | Models |
| --- | --- |
| `GraphStore` | the versioned tables of one workspace and the contribution session |
| `GraphHistory` | what `storage.go` promises: a history of numbered snapshots |
| `IndexerManager` | the manager of one workspace |
| `IndexerControl` | servers and clients around the lock and the socket |
| `InitialPipeline` | one full index: producer, workers, consumer and their session |
| `Discovery` | which files are sources, and of which project |
| `IncrementalIndex` | batches of an indexer beside a full index of another process (extends `Discovery`) |
| `CatalogRefresh` | the catalog tables, the passes that fill them and who starts passes |
| `SpendLedger` | reservations and settlements against the spending limits |
| `GraphReads` | lookups, traversal, explanation, export and the scope of projects over one snapshot |
| `SeedRanking` | how a question's terms become the seeds of a traversal |
| `CatalogSearch` | the capability matches of a text |
| `QuestionPlanner` | which planners a question is given to, on which terms |
| `QueryCommand` | query, path, inspect and export from arguments to answer (composes the four before it) |
| `GraphStoreProofs`, `InitialPipelineProofs`, `CatalogRefreshProofs`, `IncrementalIndexProofs`, `SpendLedgerProofs`, `QueryCommandProofs` | proofs about the modules they are named after; the first also that `GraphStore` implements `GraphHistory` |
| `IndexerProofs` | proofs about `IndexerManager` and about `IndexerControl` |
| `QueryAnswerProofs` | proofs about `QueryCommand`'s answers that follow edges (paths, evidence); uses `QueryCommandProofs` |
| `MC...` | instances for TLC |

Operators whose comment starts with "Variant" are wrong versions of the operator that
follows them. No specification uses them; substituted for the right one, each makes TLC
report the property it is meant for.

### GraphStore

`db` is the committed database and `work` what an open session has written; `session`
holds the fields of `contributionSession` and its temporary table (`staged`, `written`).
The twelve contribution tables are always closed, deleted, reopened and rebased in one
loop over `contributionTables`, so `rows` is one table; a row carries what an extractor
contributed as one value, and its dependency set apart because
`ReplaceContributionDependencies` changes it alone. `Open` is `valid_to_version IS NULL`.
A publication is one step: it runs in one immediate transaction, with the callback of
`PublishStaged` inside. While a session is open nobody else writes; readers keep seeing
`db`. `EndSession` stands for a failed call, an explicit rollback, a refused commit, the
database budget and a crash. `WriteContribution` chooses when the batch flushes.

`Retained` is `retainedGraphVersions` (25). `MaxVersion` bounds the model.

### IndexerManager

Every action is one critical section of `manager.mu`, or a timer firing. `worker` is the
map entry. A timer is `nil`, `armed` or `fired`; `Stop` on a fired timer does nothing, so
fired callbacks are counted in `fired`, and armed timers that `publish` forgets
(`worker.timer = nil` without stopping it) in `loose`. Callbacks find the worker by name,
so those of a removed worker act on its successor. `chain` counts reconciliations by
stage. `call` holds publisher calls in flight with the worker (`gen`) they work for.
`stopper[s]` is a goroutine inside `Stop`. `due` and `excused` are history: the accepted
paths no publication covers, and whether an error return (a bad event in the middle of an
`Enqueue`, a failing `Owner.Close`) left the queue without a timer.

Delays are left out except `retryDelay`. `MaxStarts` and `MaxFaults` are bounds.

### IndexerControl

`pc[p]` is the point a process has reached in `Serve`; `lock` the holder of the flock;
`endpoint` the process that bound the socket file, dead or alive; `queue[p]` the
connections it has not answered. A start is a client that probes, launches once, and
polls. Removing the file is by path, and so is the unlink inside `listener.Close`.
`leftover` is history: the file was left by a crash. `Interruptions` says which of idle
exits, crashes and broken connections occur.

### InitialPipeline

Each goroutine of `Run` is a control point (`producer.pc`, `worker[w].pc`, `run.phase`), the
channels are bounded sequences with a closed flag, and `cancelled` is the pipeline's context.
The walk's look at the context, `StageSource` and the send are separate steps, because a
cancellation or a failed write may fall between them. `tree` is what the environment
chooses: how many sources there are, which cannot be extracted, and what is published of
them already (`Bases`). `session` keeps of the contribution session what the pipeline
depends on: a failed call closes it, a call on a closed session is refused with an error of
its own, a write needs a staged and unwritten source. A page of resolution is one step,
with its dependency and fact writes. `Failures` says what else may go wrong: the walk, a
staging, a worker's creation, a write, a later call of the session, the caller giving up.
`N` bounds the number of sources.

### Discovery and IncrementalIndex

The files that decide what a source is are files like any other: `.gitignore` files, the
manifests that make a directory a project, `.agent-wayfinder/config.json`. A pattern is the
set of files and directories it matches, and `gitIgnored`, `projectRoots`,
`mostSpecificRoot` and `ReadSourceSelection` are operators over the disk that holds them.
Ignore rules and project roots are sorted by the text of their directory before the code
picks the last match or the first of the longest: `SortRank` is that order. A directory comes
before those below it; the workspace root, whose path is ".", comes first unless the name of a
top-level directory begins with a character below the dot.

`disk` is that disk, `pending` the paths in the indexer's queue, `graph` the current version:
contributions, dependency rows and resolved edges. `batch` is the publisher call, step by
step: `Discover`, `OpenSnapshot`, `extractChangedSources`, `ExtractAffected`, then
`PublishBatch` or `publishStagedBatch`, between which files are written and another process
may index (`session`). A failed batch puts its paths back. A published version is a value that
a batch keeps as its base: `GraphStore` shows that snapshots do not change. A source is the
names it exports, its references and its project; a module reference leads to the first
candidate path that is indexed in the same group (project and language), a package reference
to every indexed member. `resolveIncrementalWorkspaceFacts` follows the page loops of the
languages, `withResolvedDependencies` hands the resolved edges to the dependency rows, and
`AffectedSources` reads those rows. `refresh` is the last catalog refresh the publisher
started, from the snapshot it opened before the batch. `ruled` is history: which sources the
write of a rule file let in, shut out or moved, since a batch for a rule file republishes
nothing.

`MaxEdits` and `MaxIndexes` are bounds. Deadlock is not checked, since the model ends when
they are used up.

### SpendLedger

`ledger[r]` is the row of request `r` in `spending_reservations`, for one provider. A
reservation is two steps, what it reads and what it inserts, inside a transaction that takes
SQLite's write lock first (`lock`). Then the provider is called, and works on the call even
when the process that made it is gone (`ProviderSpends`); a settlement follows, or none.
`spent[r]` is history: what the last call made for `r` has cost.
The clock counts half seconds, so that an instant has a fraction or not: that decides how its
stored text sorts (`FormattedAtLeast`). Days and weeks are periods of fixed lengths.
`MaxClock` bounds the clock, `Requests` the requests; `Costs` is what a call may cost.

### CatalogRefresh

`content[v][p]` is what source `p` says in version `v`: the number of the version that last
changed it, or 0. `entries` and `embeddings` are the catalog tables, per version; an entry is
the text it was made from and the text its synopsis describes, whichever provider wrote it.
`task` is the one row of `catalog_tasks`. `pass[i]` is one call of `Catalog`: a refresh has the
number of its version, a catalog process a number above. A pass copies, reads its units, and
then reads and writes batch by batch, each call of the store a step of its own, because
publications prune and other passes write in between. `tail` is `catalogRefreshes.tails` in
the indexer's process, `after` the refresh a refresh waits for, and "closed" the time between
`close(current.done)` and the deletion from `tails`. Writes of the task whose error the code
ignores may be lost (`Record`). `sound` is history: the pass started from a complete earlier
catalog with every path changed since, or from nothing. Versions are not rolled back here,
since no command does; the configuration stays; one catalog-stop runs at a time.

`MaxVersion` and `Commands` bound the model, and `Scenarios` bounds it further for parts of a
run: it says which versions and commands occur together with which generators. A catalog that
is finished stops, so deadlock is not checked.

### GraphReads, SeedRanking, CatalogSearch, QuestionPlanner, QueryCommand

These are mostly operators, translated from the algorithms and held against reference
definitions that are stated with quantifiers and not by a search: `Reach` (what some walk
reaches), `Distance` (the length of the shortest), `IsWalk`. `QueryCommand` is the machine
around them: an invocation is planned (`QuestionPlanner`, planner by planner, each with its
reservation, its attempts and its settlement), then the snapshot is opened, and a publication
may fall in between (`Republish`); then the seeds are chosen, the graph is walked, and the
answer is assembled under its budget.

A node is a number; `NameRank`, `Path`, `Kind`, `Qualified` and `Suite` are what the code looks
at. How a text matches a node (by its id, by a prefix, with which score) is part of the
question. Scores are integers: `ScoreUnit` is divisible by every denominator of a reciprocal
rank that occurs, and `DistanceUnit` (60 in the run) by every distance, so the comparisons of
fused ranks and of evidence are exact. `Later` are the graphs a
publication may leave, `Responses` what a planner may answer. A command ends with its answer,
so deadlock is not checked.

## Runs

| Run | Instance | Shows |
| --- | --- | --- |
| `store` | 2 paths, 1 contribution, 2 dependency sets, 1 edge, window 2, 3 versions | one row per source, consecutive retained versions, no orphan rows (`TablesSound`), lexical index in step, session reads after sealing, immutable snapshots; the tables implement `GraphHistory` |
| `queue` | 2 paths, 2 workers, 2 stoppers, 1 failing close, with a reconciler | one publisher call (`PublisherSound`), no lost path, queue and set agree (`QueueSound`), work is scheduled; reconciliations neither multiply nor die out |
| `indexer_live` | 1 path, 2 workers, 2 stoppers, no reconciler | paths are published in the end, Stop returns |
| `control` | 3 servers, 2 clients, all interruptions | the socket leads to the server, binding succeeds, clean exits leave nothing (`EndpointSound`); every request ends |
| `restart` | 2 servers, 1 client, no interruptions | **violated**: a start that follows a stop finds no server |
| `pipeline` | up to 3 sources in 2 groups, 2 workers, channels and pages of 1, with and without a prior snapshot, all failures | success means every source staged, written and resolved once; nobody sends on a closed channel and no write is refused for its source (`ChannelsSound`); the reported extraction failure is the first in walk order; Run returns and leaves no goroutine behind |
| `incremental` | 3 TypeScript sources and one that only the extractors know, 3 `.gitignore` files, a manifest, a configuration, a module and a package reference; 2 writes, 1 index of another process; pages of 2 | once the queue is empty, the graph holds the sources on disk, each in its own project, none that Git ignores (`IgnoredStayOut`, which names an exception, see *Disagreements*); a batch resolves like a full index where its base allows; no edge outlives its source; catalog refreshes hear of every change; the queue empties |
| `incremental_fresh` | the same sources, 2 writes that only edit, 1 index | **violated**: the graph of a workspace at rest has the edges of a fresh index |
| `ledger` | 3 requests, a day of 2 seconds in a week of 4, a little more than one week | the limits hold for all but the first second's fractions, for what is reserved (`LimitsHold`) and for what the provider takes out of the reservations, known or not (`SpendingWithinLimits`) |
| `catalog` | 2 sources, batches of 1, window 2; two publications with both generators, one publication and a catalog process with both, two publications and a process with none | no rows outside published versions and their nodes, no synopsis of an older text, a complete catalog when all passes for a version complete, a task that never goes back |
| `rebuild` | the publisher alone, two publications | **violated**: a refresh that completes after a failed one has rebuilt the catalog |
| `query` | ten families of invocations over graphs of up to 5 nodes, the edges all subsets of a few | traversals, paths, seeds, intersections and catalog matches are what the reference definitions say, up to limits that are reported; evidence is in the snapshot that answers; no planner is paid without a reservation |

A property that is the conjunction of several (`TablesSound`, `QueueSound`, `EndpointSound`,
`ChannelsSound`, `RowsSound`, `GraphSound`, ...) names its parts, each with a comment of its own.

Bounds. With a window of 2 and 3 versions, publications prune, rows are rebased, rolled
back over and published again; a third path or version adds no new relation between two
rows of a path. Two workers are enough for a callback or a Stop of the first to meet the
second, and two Stop calls for one to find what the other left. Three servers allow one
leaving, one serving and one arriving. The proofs do not depend on these sizes.
Three sources, two workers and channels of one make the producer and the workers block,
let two extractions fail in either order, and let all workers end while a job waits; two
interleaved groups with pages of one take the resolver across both kinds of boundary.
In `incremental`, two candidates make a reference change its target when the first comes or
goes; three ignore files with lines taking back another's let the order of patterns and of
directories decide, in a directory that sorts before "." and in one that sorts after it; a directory with a name of one letter makes two roots of equal length;
pages of two make batches of three staged ones; two writes let one fall into the batch of the
other, and one index of another process lets a batch's base be overtaken. In
`incremental_fresh` two writes are enough: with the first a source is republished alone and
forgets its dependency, with the second the source it refers to changes.
Three requests let two reservations race while a third of the day or the week before counts;
the clock passes a day, a week and the first second of each. Two sources with batches of one
let a pass stop half way and let one source change while the other is carried over; with a
window of two the second publication prunes the version that a process is cataloging.
In `query`, four or five nodes give walks of different lengths to one node, ties between
seeds, nodes just below and above each limit, and a containing file beside what it contains.
Workspace nodes do not occur in `store`; they are kept like workspace edges, and the proofs
cover them.

Fairness (`indexer_live`). Timers fire, callbacks and Stop calls get the mutex
(`sync.Mutex` does not starve a waiter), the publisher returns. `EventuallyPublished`
also assumes that a publisher that is called again and again succeeds at some point
(strong fairness of a successful `PublishEnd`), and that events stop arriving: otherwise
a path can be changed again during every publication. `StopReturns` relies on the bound
on starts: a Stop that waits finds the worker by name again, so an unbounded series of
restarts could keep it busy. (`control`) Processes run, and a server answers the
connections it accepted, because `Request` sends its command at once; `handle` sets no
deadline for a peer that does not. (`pipeline`) Every goroutine that can run does;
extraction and the calls of the session return. (`incremental`) The queue calls the publisher
while it holds paths, a call goes on and a session ends; nobody need write, and no other
process need index. `QueuedArePublished` names what keeps a queue full for ever.

## Disagreements

* `restart`: a stop is answered before the server has left. A start right after it finds
  no endpoint, launches one server, which exits because the lock is still held, and polls
  in vain. A running publication makes the window long, since `Stop` waits for it.
* `rebuild`: a refresh learns that the one before it failed only if it was started before
  that one ended. Otherwise the failed refresh has left `tails`, and the next one copies what
  it left and catalogs the changed paths alone: sources the failed refresh did not reach are
  missing from a catalog whose task says complete.
* `incremental_fresh`: the tests compare a batch's graph with a fresh index. A source that is
  republished without the source it refers to loses its dependency row, because the file of
  an edge's target is looked for among the contributions of the batch and the nodes of the
  facts, which are edges only. When that source later changes what it exports, the first is
  not affected, and its edges stay as they were. `BatchEdgesFresh` is what remains true.

Other observations, which the models contain and no run singles out:

* `publish` and `Commit` prune to `version - 25 + 1`, and `pruneVersions` refuses a boundary
  that is not a published version. After a Prune (or a Prune and a Rollback) that leaves fewer
  versions than the window, every publication fails. No command prunes or rolls back today.
* A failed `WriteContribution` closes the pipeline's session, and a producer about to stage a
  source is told so; that error wins over the extraction failure and the write failure.
* Times in the ledger are compared as `RFC3339Nano` text, which drops a zero fraction: what is
  reserved in a fraction of the first second of a period is not counted in it. `LimitsHold`
  makes that exception.
* The rules of all `.gitignore` files are sorted by the path of their directory, and the last
  match decides (`discovery.go:220`, `257-275`). That gives a deeper file the last word, as in
  Git, except in a top-level directory whose name begins with a character below the dot, such
  as `(app)`, `-x` or `+lib`: there the workspace's own file has it. With `!gen.ts` in that file
  and `gen.ts` in the one of `(app)`, `(app)/gen.ts` is published although Git ignores it, and
  the repository's README (lines 71-72) says that Git ignore rules remain excluded; what
  `(app)` takes back from the workspace's file stays out. `IgnoredStayOut` names the sources
  that the workspace's file takes back as its exception, and the instance of `incremental` has
  such a directory and such a file.
* A write of a rule file is a batch without sources, so it republishes nothing
  (`index.go:302`); and a batch that listed the sources before a full index in another process
  puts the older project back.
* A source that moved to another project is resolved in the old one too
  (`index.go:735-770`). A project in a directory of one letter that sorts after "." loses its
  sources to the workspace's own, whose path is as long (`discovery.go:365`).
* A configuration that cannot be read fails every batch, until it is mended.
* A batch of more than 128 sources with a removed one among them is refused every time: it is
  staged, and staging wants a project for each (`index.go:231`, `sqlite.go:894`).
* `.mts`, `.cts`, `.mjs` and `.cjs` have a registered language but are no sources for
  discovery.
* The sample configuration in the repository's README (lines 435-458) has `enabled` keys that
  the configuration refuses. A provider named in a file overrules environment and flags.
* Copilot is asked even when Claude has planned the question (`planning.go:147`), and the
  first of two attempts at a planner never reaches the ledger: `SpendingWithinLimits` speaks of
  the last one, and of no more than what was reserved for it.
* `path` drops the truncation its search reports, and an undirected path may pass through a
  node outside the scope.
* The catalog's vector search takes the nearest rows of all versions and picks the
  snapshot's among them afterwards.

## Proofs

What TLC checks for one instance, eight modules prove for every value of the constants.

`GraphStoreProofs` proves all safety properties of the run `store`, the refinement included,
for any paths, contributions, window and number of versions. The properties are not
inductive: reopening rows in Rollback is right only because a row closed at or after the
version is the newest row of its path among those that stay, and rebasing only because
intervals of one path do not overlap. `Inv` therefore says of the tables (`TablesOK`) that
the versions are an interval of at most `Retained` numbers ending at the current one, that
every row starts at a published version and ends after its start and before the current one
or not at all, that two rows of a path never overlap, and that facts and lexical entries
belong to published versions; and of an open session (`SessionOK`) how `work` differs from
`db`: written sources have their prior row closed and a new one in `work` or in the batch,
and everything else is as committed. One lemma per statement (close, reopen, rebase, prune,
retain, index) carries the argument, and one step per action. The refinement maps `history`
to the snapshots of `db` and `draft` to the session's staged and written sources: `Begin`,
`StageSource`, `WriteContribution` and `EndSession` are steps of the draft, sealing and
writing facts stutter, and `Commit` is a `Replace` by exactly what the draft names.

`IndexerProofs` proves the invariants of `queue` for any number of restarts,
stoppers and calls. `QueueInv` adds `TimerOK`: a worker names a timer only when it has a
queue and neither publishes nor stops. So a callback that returns at once is never the one
the worker relies on.

The same module proves the invariants of `control` for any number of processes, from
`LockInv` (a process holds the lock exactly between Start and Stop) and `EndpointInv` (where
the file leads at each point).

`InitialPipelineProofs` proves the invariants of `pipeline` for any number of sources and
workers, any channel sizes, groups and pages. `PipelineInv` says where every source is that
the producer took: in the jobs, with one worker, in the results, or written, and in one of
these only; that a cancelled context has a reason which the consumer will see; and that the
resolver's cursor tells what was resolved, namely the sources of the groups before it and
those of its group up to it. `LowestFailure` needs that a source before a failed one is
still extracted, and the least of a set of sources; it exists because the set is finite.

`CatalogRefreshProofs` proves the invariants of `catalog` for any sources, batches, commands
and scenarios. Texts that a pass writes are the version's own, because the content of a
published version never changes and a pass keeps the units it read with the version they are
of. Only what a pass copies can be of an older text. `SettleInv` says who answers for it: as
long as an entry of a version is not what the version's content asks for, no pass has begun
for the version, or one that has begun has the source still before it, has failed, or did
not start soundly. That is inductive, and `CatalogSettles` follows when all have completed.

`IncrementalIndexProofs` proves every safety property of `incremental` for any files,
directories, patterns, contents, edits and full indexes. `IndexInv` follows a change from the
disk to the graph: where the disk asks for another contribution than the graph, an open
session or the snapshot of a batch holds, the path is in the queue or with the batch, or only
a rule changed it and no index has looked since. What a batch has discovered or extracted is
so still, or its path has been queued again. That gives `QuiescentSources` and
`RefreshCoversChanges`. `OwnProject` and `IgnoredStayOut` are then properties of the
discovery: the longest root above a source is the innermost, and the last pattern that Git
would follow is the last in the order of the code, because inner directories sort after outer
ones, unless the workspace's own rules come last and one of them takes the path back. `BatchEdgesFresh` needs that the snapshot of a batch is the
current graph until another version is published (`BaseInv`), and that every lookup of a
resolver in the snapshot and the batch's own sources finds what it finds in the new version.

`SpendLedgerProofs` proves `LimitsHold` and `SpendingWithinLimits` for any requests, costs,
limits and length of time. A total is a fold over the rows of a period in an arbitrary order;
that it does not depend on the order, grows with the set and changes by what one row changes
is proved by induction over finite sets (`SubsetInduction`, `SumIsAdditive`). `LedgerInv`
adds to the property that finitely many rows are recorded, none later than the clock, and
that a request which is about to write holds the lock and asks for no more than what the rows
it summed leave of every limit. The sum is over another set than the limit speaks of, because
times are compared as text: `FormattedFacts` says which rows the comparison lets in, and so
which rows of a period's first second the limit does not cover. `SpendingWithinLimits` follows
with `CoverInv`: a row holds what was reserved until a settlement puts what the provider
reported in its place, so no row is less than what may have been taken out of it.

`QueryCommandProofs` proves `PlannersAccountable` for every configuration, question, budget
and reply. `PlannerInv` says how far the planning is: a planner whose turn has not come was
not asked, has no warning and no metric, and is not the method; the paid ones have their
turn only if no rule knows the question. A request is then described by what it leaves in
the ledger, the metrics and the warnings (`PaidOutcome`), whatever the planner replied.

The same module proves of the answers to queries `TypeOK`, `TraversalAnswer`,
`IntersectionSupported`, `SeedsFair` and `CatalogBestFirst`, and `QueryAnswerProofs` proves
`PathAnswer` and `EvidenceSound`, for every graph, request, scope, ranking and table of embeddings. `QueryInv` says that a plan can be executed (`PlanOK`: a rule
or a planner gave it an operator, a direction that fits it and as many slots as it needs), that
the seeds are those of the plan in the snapshot, and that nothing is answered before its turn;
`CatalogInv`, `AnswerInv`, `PathInv` and `EvidenceInv` say what the result of a finished command
is. The rest is about the
operators that compute seeds and answers:

* Sorting, and folds over sequences, sets and numbers, are definitions by `CHOOSE`. `FoldExists`
  and `FoldUnique` (by induction over finite sets) show that there is one such function, and
  `SortedFacts` that a sorted sequence lists its set once each in the order of its keys. Every
  loop of the code then has a lemma that gives the sequence of its states (`VisitsFold`,
  `LevelsIterate`, `SearchIterates`, `CommonFold` and others) and an invariant over it.
* `TraverseFacts` is the correctness of `Traverse`. `LevelInv` says of a traversal after d
  levels that its nodes are within `Reach` of d edges, and, unless the node limit is reported,
  all of it; that what the last level added and is in scope is the frontier; and that a visited
  node in scope behind the frontier leads to no unvisited one (`WalksEnd` uses it). So an answer
  without a reason is everything that any walk leads to: what is reachable at a depth where
  nothing new is found is all there is, because the graph is finite.
* `PathAnswer` and `EvidenceSound` compare two searches: the one of the store, in the snapshot,
  and the one over the facts that it returned, which knows no scope and no relation. `Kept` says
  of a traversal that each of its edges is one a walk may take from a node in scope, and that
  every node is as near to the starts over the facts as it is in the snapshot. Visiting keeps
  that only because the store goes level by level: an edge is a fact before its other end is
  visited.
* `shortestPath` dequeues in the order of distance (`Going`): behind the queue everything that
  is linked to is discovered, and the queue holds at most two distances, the nearer first. What
  is read back from the target then comes one edge nearer with each step (`Returning`), and
  ends at the source before the fuel does. A directed path stays in scope because the facts
  leave nodes in scope only. An undirected one may not, and it is shortest in the snapshot
  only without a boundary, which is the exception of the property.
* `firstReaches` (`Widening`, `Level`) has met after each level all that lies within it, at its
  distance and by an edge from one nearer (`FirstMet`). No edge does that for two nodes
  (`ReachedOnce`), so the groups are disjoint and count the answer (`TotalOfDisjoint`).
* What an impact lists before a nearer node has the greater score, and scores divide one unit
  by distances; `FurtherWeighsMore` solves that for the three weights of relations. From
  distance 10 on, a node that implements what changed may come after one a single edge further
  (18 / 10 < 20 / 11). Five nodes cannot show that, the proof did.
* `FusedFair` and `RankedFacts` are the fairness of the seeds: a component that is at least as
  good has a rank at least as good (`ReciprocalFacts`), and a sum of such ranks, in integers, a
  score at least as good; `DiversifyFacts` shows that the second pass over the files keeps both.
* `CatalogFacts` holds for every set of nearest rows, as ties are broken by the index.
  `RerankFacts` gives the most similar match its place, and `NearestFacts` counts the rows that
  keep the snapshot's own out of reach.
* `CommonFacts` and `ProofWithin` are what an intersection needs: a node in common exists if and
  only if one of the left has a partner on the right, and a proof of it stays in the facts.

The assumptions are the named ones of the modules: `StoreAssumption`, `ManagerAssumption`,
`ControlAssumption`, `PipelineAssumption`, `CatalogAssumption`, `DiscoveryAssumption`,
`LengthAssumption`, `OrderAssumption`, `IncrementalAssumption`, `ContentsAssumption`, `LedgerAssumption`,
`ReadsAssumption`, `RankingAssumption`, `SearchAssumption`, `PlannerAssumption` and
`InvocationAssumption`. The last five say that nodes and relations are finitely many and told
apart by their ranks, that the limits of retrieval are positive and `ScoreUnit` divisible, that
a planner is asked for less than the budget, that what a question captured is a text, that
`DistanceUnit` is divisible by every distance there can be, and that a request has a depth of at least 0 and room for a node, which the command and the store both
check before anything is read.

Only model-checked are all liveness properties, which are outside the prover's reach. Every
invariant and every other action property of the passing runs is proved.

In a proof `UNION A \ B` is a union over `A \ B`, for the model checker it is a difference of
`UNION A` and `B`. The modules write the parentheses, so that both read the same formula.

## Not modelled, and the plan

* Publication preparation: workers that fill a bounded window, without state they share with
  anything else; the publication that follows is one step of `GraphStore`.
* The read caches of the store: `ResolverProjections` alone fills them, and no command calls
  it.
* Reads of several statements that a prune interrupts. A reader holds a version number, not
  a transaction; with a window of 25 it must fall 25 publications behind.
* Rollbacks of a version a catalog task is for: no command rolls back.
* A catalog task that stays queued because its process never started
  (`catalog/command.go:261`): catalog refuses then and names catalog-stop, which refuses too.
  `CatalogRefresh` reaches the state; no document says how it should end.
* Schema migration: a chain of SQL texts, one transaction each.
* The checks of graph facts and of extractors' contributions: properties of single values.
* Syntax extraction, and what the Go, TypeScript and JavaScript resolvers make of a
  reference. `IncrementalIndex` keeps of them which candidates a reference has, in which
  order the pages are read and which edges come of it.
* Prompts and replies of planners and generators, the rendering of answers, the MCP server,
  the benchmark and the npm packages.
* The vector tables and the arithmetic of a vector search: a similarity is a natural number,
  and every stored vector can be compared. The settings of the catalog command.
* The words that give a slot the kinds of a store or an adapter (`query/question.go:453-460`):
  what a question captured is a text, and its kinds those of the rule.

Worth doing next: reads of several statements beside prunes, and publication preparation.
