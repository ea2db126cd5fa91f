--------------------------- MODULE IncrementalIndex ---------------------------
(***************************************************************************)
(* The incremental index of index/index.go for one workspace: PublishBatch *)
(* behind the indexer's publisher, beside a full index of another process, *)
(* while the sources on disk change.                                       *)
(*                                                                         *)
(* A batch lists the sources on disk, opens the current snapshot, extracts *)
(* the reported sources, selects and extracts the sources that depend on   *)
(* them, resolves the references of all of these against the snapshot, and *)
(* publishes.  Nothing holds the database between these steps.  A batch of *)
(* more sources than one page is resolved and published in one transaction *)
(* instead, which refuses a snapshot that is no longer current.            *)
(*                                                                         *)
(* A source is its exported names, its references and its project.  A      *)
(* module reference goes to the first of its candidate paths that is       *)
(* indexed in the source's own group (project and language); a package     *)
(* reference goes to every indexed source of the package in that group.    *)
(* Snapshots are immutable (GraphStore), so a batch keeps the opened one   *)
(* as a value.                                                             *)
(*                                                                         *)
(* The files that decide what a source is, and to which project it belongs *)
(* (Discovery), are written like any other.  No extractor takes them, so   *)
(* a batch for such a file republishes nothing.                            *)
(***************************************************************************)
EXTENDS Discovery

CONSTANTS
  Names,        (* names a source may export                                *)
  Refs,         (* references a source may hold                             *)
  Package,      (* the package references among them                        *)
  Candidates,   (* Candidates[r]: the paths r may lead to, in order         *)
  Binding,      (* Binding[r]: the name r imports                           *)
  Contents,     (* Contents[p]: what p may become, Absent included          *)
  Disks,        (* the workspaces to start from                             *)
  PageSize,     (* resolverProjectionPageSize, 128 in the code              *)
  Removed,      (* the contribution extractChangedSources makes for a path  *)
                (* that is no longer discovered: no project, no facts       *)
  File,         (* the file node, as the target of an edge                  *)
  MaxEdits,     (* bound: writes to disk                                    *)
  MaxIndexes    (* bound: full indexes of another process                   *)

ASSUME IncrementalAssumption ==
  /\ Package \subseteq Refs
  /\ Binding \in [Refs -> Names] /\ Candidates \in [Refs -> Seq(Paths)]
  /\ PageSize \in Nat \ {0} /\ MaxEdits \in Nat /\ MaxIndexes \in Nat

Supported == {p \in Paths : Language[p] # NoLanguage}

Content == [exports : SUBSET Names, refs : SUBSET Refs]

Contribution == [exports : SUBSET Names, refs : SUBSET Refs, project : Directories]

ASSUME ContentsAssumption ==
  /\ {Absent, Removed} \cap Contribution = {} /\ Absent # Removed /\ File \notin Names
  /\ \A p \in Supported : Contents[p] \subseteq Content \cup {Absent}
  /\ \A d \in Directories : GitIgnoreOf[d] # Absent =>
       Contents[GitIgnoreOf[d]]
         \subseteq Seq([matches : SUBSET (Paths \cup Directories), negated : BOOLEAN]) \cup {Absent}
  /\ \A disk \in Disks : DOMAIN disk = Paths /\ \A p \in Paths : disk[p] \in Contents[p]

VARIABLES
  disk,      (* disk[p]: the contents of p, or Absent                       *)
  pending,   (* paths the indexer's queue holds                             *)
  graph,     (* the current graph version                                   *)
  batch,     (* the publisher call in progress                              *)
  session,   (* the contribution session of a full index                    *)
  refresh,   (* the last catalog refresh the publisher started              *)
  ruled,     (* history: whether the write of a rule changed what p is, and *)
             (* no write of p followed: "no", "unseen", or "seen" by an     *)
             (* index beside no batch that had looked before                *)
  edits,     (* writes to disk so far                                       *)
  indexes    (* full indexes of another process so far                      *)

vars == <<disk, pending, graph, batch, session, refresh, ruled, edits, indexes>>

-----------------------------------------------------------------------------
(* The published graph                                                     *)

Edge == [owner : Paths, ref : Refs, to : Paths, name : Names \cup {File}]

Graph == [version : Nat, sources : [Paths -> Contribution \cup {Absent, Removed}],
          deps : [Paths -> SUBSET Paths], edges : SUBSET Edge]

NoGraph == [version |-> 0, sources |-> [p \in Paths |-> Absent],
            deps |-> [p \in Paths |-> {}], edges |-> {}]

(* A contribution a resolver may read: its row names a project.            *)
Live(source) == IF source = Removed THEN Absent ELSE source

ExportsOf(source) == IF source \in {Absent, Removed} THEN {} ELSE source.exports

Group(p, source) == <<source.project, Language[p]>>

(* Store.ResolverTarget: what a lookup of q in group g finds among the     *)
(* sources, also among those a full index's session holds.                 *)
StoredTarget(sources, g, q) ==
  LET stored == Live(sources[q])
  IN IF stored = Absent THEN Absent ELSE IF Group(q, stored) = g THEN stored ELSE Absent

-----------------------------------------------------------------------------
(* Resolution                                                              *)

(* Variant: only the snapshot is asked for a target.                       *)
StoredOnly(base, update, g, q) == StoredTarget(base.sources, g, q)

(* snapshotResolverIndex.ResolverTarget: an extracted source of this batch *)
(* hides the stored one in its own group.  A source that was removed, or   *)
(* belongs to another project now, hides nothing of its old group.         *)
ResolverTarget(base, update, g, q) ==
  IF q \notin DOMAIN update THEN StoredTarget(base.sources, g, q)
  ELSE IF Group(q, update[q]) = g THEN update[q] ELSE StoredTarget(base.sources, g, q)

(* snapshotResolverIndex.ResolverPackagePage: the stored sources of the    *)
(* package, the extracted ones among them replaced.                        *)
ResolverPackagePage(base, update, g, q) ==
  IF StoredTarget(base.sources, g, q) = Absent THEN Absent
  ELSE ResolverTarget(base, update, g, q)

(* The targets of reference r in group g: the first indexed candidate of a *)
(* module, every indexed member of a package.                              *)
TargetsOf(r, base, update, g) ==
  LET found == {i \in DOMAIN Candidates[r] :
                  ResolverTarget(base, update, g, Candidates[r][i]) # Absent}
  IN IF r \in Package
     THEN {q \in ToSet(Candidates[r]) : ResolverPackagePage(base, update, g, q) # Absent}
     ELSE {Candidates[r][i] : i \in {j \in found : \A k \in found : j <= k}}

ResolvePage(p, source, base, update, g) ==
  UNION {UNION {[owner : {p}, ref : {r}, to : {q},
                 name : {File} \cup ({Binding[r]} \cap ResolverTarget(base, update, g, q).exports)]
                : q \in TargetsOf(r, base, update, g)}
         : r \in source.refs}

(* What a full index of the sources resolves: nothing hides them.          *)
FreshEdges(sources) ==
  UNION {ResolvePage(p, sources[p], [sources |-> sources], <<>>, Group(p, sources[p]))
         : p \in {q \in Paths : Live(sources[q]) # Absent}}

(* A dependency goes from file to file; `files' are the paths whose file   *)
(* node the caller hands over, in a contribution or in the facts.          *)
withResolvedDependencies(files, edges) ==
  [p \in Paths |-> {q \in files \ {p} : \E e \in edges :
                      e.owner = p /\ e.to = q /\ e.name = File}]

(* The page loops of the three languages: the extracted sources that the   *)
(* stored projections of group g list, whatever their group is now, then   *)
(* the extracted sources of g that no page listed.                         *)
ProjectionPages(g, base, update, removed) ==
  LET processed(p) == StoredTarget(base.sources, g, p) # Absent
  IN {p \in DOMAIN update \ removed : processed(p) \/ Group(p, update[p]) = g}

resolveIncrementalWorkspaceFacts(base, discovered, update, removed) ==
  UNION {UNION {ResolvePage(p, update[p], base, update, g)
                : p \in ProjectionPages(g, base, update, removed)}
         : g \in {<<discovered[p], Language[p]>> : p \in DOMAIN discovered}}

(* Store.AffectedSources: who depended, in the snapshot, on a source whose *)
(* exported surface the batch changes.  A removed source keeps a row with  *)
(* no surface.                                                             *)
AffectedSources(base, update, removed) ==
  LET exports(p) == IF p \in removed THEN {} ELSE update[p].exports
      changed == {p \in DOMAIN update \cup removed :
                    base.sources[p] = Absent \/ ExportsOf(base.sources[p]) # exports(p)}
  IN {p \in Paths \ changed : base.deps[p] \cap changed # {}}

-----------------------------------------------------------------------------
(* The publisher call                                                      *)

NoBatch == [at |-> "idle", changed |-> {}, discovered |-> <<>>, base |-> NoGraph,
            previous |-> NoGraph, update |-> <<>>, removed |-> {}]

NoSession == [owner |-> "none", extracted |-> FALSE, sources |-> NoGraph.sources]

NoRefresh == [previous |-> NoGraph, sources |-> NoGraph.sources, changed |-> {}]

Init ==
  /\ disk \in Disks
  /\ pending = {} /\ graph = NoGraph /\ batch = NoBatch /\ session = NoSession
  /\ refresh = NoRefresh /\ ruled = [p \in Paths |-> "no"] /\ edits = 0 /\ indexes = 0

(* What discovery says of p.                                               *)
ProjectOf(discovered, p) == IF p \in DOMAIN discovered THEN discovered[p] ELSE Absent

(* The same files with a configuration that can be read.                   *)
Selectable(files) ==
  IF SelectionFails(files) THEN [files EXCEPT ![ConfigurationFile] = Absent] ELSE files

(* A file is written or removed, and the event reaches the queue.          *)
Write(p) ==
  /\ edits < MaxEdits
  /\ \E c \in Contents[p] \ {disk[p]} : disk' = [disk EXCEPT ![p] = c]
  /\ pending' = pending \cup {p}
  /\ LET before == DiscoverStream(Selectable(disk))
         after == DiscoverStream(Selectable(disk'))
     IN ruled' = [q \in Paths |-> IF q = p THEN "no"
                                  ELSE IF ProjectOf(before, q) # ProjectOf(after, q)
                                  THEN "unseen" ELSE ruled[q]]
  /\ edits' = edits + 1
  /\ UNCHANGED <<graph, batch, session, refresh, indexes>>

(* The queue hands its paths to the publisher, which opens the snapshot    *)
(* the catalog refresh will copy from.                                     *)
StartBatch ==
  /\ batch.at = "idle" /\ pending # {}
  /\ batch' = [NoBatch EXCEPT !.at = "discover", !.changed = pending, !.previous = graph]
  /\ pending' = {}
  /\ UNCHANGED <<disk, graph, session, refresh, ruled, edits, indexes>>

(* Variant: a failed batch is forgotten.                                   *)
ForgetBatch ==
  batch' = NoBatch /\ UNCHANGED pending

(* The publisher returns an error: the queue takes the paths back.         *)
FailBatch ==
  batch' = NoBatch /\ pending' = pending \cup batch.changed

(* Variant: the refresh is told of no changed path.                        *)
FinishUntold(g) ==
  /\ batch' = NoBatch /\ UNCHANGED pending
  /\ refresh' = [previous |-> batch.previous, sources |-> g.sources, changed |-> {}]

(* The publisher published g, or found nothing to publish, and starts the  *)
(* catalog refresh.                                                        *)
FinishBatch(g) ==
  /\ batch' = NoBatch /\ UNCHANGED pending
  /\ refresh' = [previous |-> batch.previous, sources |-> g.sources, changed |-> batch.changed]

(* A configuration that cannot be read fails the batch.                    *)
Discover ==
  /\ batch.at = "discover"
  /\ \/ /\ ~SelectionFails(disk)
        /\ batch' = [batch EXCEPT !.at = "open", !.discovered = DiscoverStream(disk)]
        /\ UNCHANGED pending
     \/ SelectionFails(disk) /\ FailBatch
  /\ UNCHANGED <<disk, graph, session, refresh, ruled, edits, indexes>>

(* An unknown workspace is indexed as a whole.                             *)
OpenSnapshot ==
  /\ batch.at = "open"
  /\ batch' = IF graph.version = 0 THEN [batch EXCEPT !.at = "begin"]
              ELSE [batch EXCEPT !.at = "changed", !.base = graph]
  /\ UNCHANGED <<disk, pending, graph, session, refresh, ruled, edits, indexes>>

(* extractDiscoveredSources: one unreadable source fails all of them.      *)
Readable(paths) == \A p \in paths : disk[p] # Absent

Extracted(p, project) == [exports |-> disk[p].exports, refs |-> disk[p].refs, project |-> project]

(* The reported sources that are not discovered any more.                  *)
RemovedPaths(b) == (b.changed \cap Supported) \ DOMAIN b.discovered

extractChangedSources ==
  LET read == batch.changed \cap DOMAIN batch.discovered
      removed == RemovedPaths(batch)
  IN /\ batch.at = "changed"
     /\ \/ /\ ~Readable(read) /\ FailBatch
           /\ UNCHANGED refresh
        \/ /\ read \cup removed = {} /\ FinishBatch(batch.base)
        \/ /\ Readable(read) /\ read \cup removed # {}
           /\ batch' = [batch EXCEPT !.at = "affected", !.removed = removed,
                                     !.update = [p \in read |-> Extracted(p, batch.discovered[p])]]
           /\ UNCHANGED <<pending, refresh>>
     /\ UNCHANGED <<disk, graph, session, ruled, edits, indexes>>

ExtractAffected ==
  LET affected == (AffectedSources(batch.base, batch.update, batch.removed)
                     \ batch.changed) \cap DOMAIN batch.discovered
  IN /\ batch.at = "affected"
     /\ \/ /\ ~Readable(affected) /\ FailBatch
        \/ /\ Readable(affected)
           /\ batch' = [batch EXCEPT !.at = "publish",
                          !.update = [p \in DOMAIN @ \cup affected |->
                                        IF p \in DOMAIN @ THEN @[p]
                                        ELSE Extracted(p, batch.discovered[p])]]
           /\ UNCHANGED pending
     /\ UNCHANGED <<disk, graph, session, refresh, ruled, edits, indexes>>

sourcePaths(b) == DOMAIN b.update \cup b.removed

(* Variant: the edges of the replaced sources stay.                        *)
RetainAll(edges, owners) == edges

(* The edges a publication carries over to its version.                    *)
retainWorkspaceFacts(edges, owners) == {e \in edges : e.owner \notin owners}

(* The version that Publish makes of the current graph g, batch b and the  *)
(* edges resolved for it.                                                  *)
PublishedGraph(g, b, edges) ==
  LET deps == withResolvedDependencies(DOMAIN b.update, edges)
  IN [version |-> g.version + 1,
      sources |-> [p \in Paths |-> IF p \in DOMAIN b.update THEN b.update[p]
                                   ELSE IF p \in b.removed THEN Removed ELSE g.sources[p]],
      deps |-> [p \in Paths |-> IF p \in sourcePaths(b) THEN deps[p] ELSE g.deps[p]],
      edges |-> retainWorkspaceFacts(g.edges, sourcePaths(b)) \cup edges]

Publish ==
  /\ \E edges \in {resolveIncrementalWorkspaceFacts(batch.base, batch.discovered, batch.update,
                                                     batch.removed)} :
       graph' = PublishedGraph(graph, batch, edges)
  /\ FinishBatch(graph')

(* Store.Publish takes the write lock, whatever was published since the    *)
(* snapshot was opened.                                                    *)
PublishBatch ==
  /\ batch.at = "publish" /\ session.owner = "none"
  /\ Cardinality(sourcePaths(batch)) <= PageSize
  /\ Publish
  /\ UNCHANGED <<disk, session, ruled, edits, indexes>>

(* Variant: the transaction expects to be one version ahead.               *)
StageAhead == batch.removed = {} /\ batch.base.version + 1 = graph.version

(* StageResolverSources needs a project for every source, and the resolver *)
(* pages of the transaction are the ones of its current version.           *)
StageAccepts == batch.removed = {} /\ batch.base.version = graph.version

publishStagedBatch ==
  /\ batch.at = "publish" /\ session.owner = "none"
  /\ Cardinality(sourcePaths(batch)) > PageSize
  /\ \/ StageAccepts /\ Publish
     \/ ~StageAccepts /\ FailBatch /\ UNCHANGED <<graph, refresh>>
  /\ UNCHANGED <<disk, session, ruled, edits, indexes>>

-----------------------------------------------------------------------------
(* The full index: one contribution session, for a batch of an unknown     *)
(* workspace or for another process.                                       *)

BeginIndex(owner) ==
  /\ session.owner = "none"
  /\ \/ owner = "batch" /\ batch.at = "begin" /\ UNCHANGED indexes
     \/ owner = "index" /\ indexes < MaxIndexes /\ indexes' = indexes + 1
  /\ session' = [NoSession EXCEPT !.owner = owner]
  /\ batch' = IF owner = "batch" THEN [batch EXCEPT !.at = "indexing"] ELSE batch
  /\ UNCHANGED <<disk, pending, graph, refresh, ruled, edits>>

(* A configuration that cannot be read ends the session, and the index.    *)
ExtractAll ==
  /\ session.owner # "none" /\ ~session.extracted
  /\ \/ /\ ~SelectionFails(disk)
        /\ \E discovered \in {DiscoverStream(disk)} :
             session' = [session EXCEPT !.extracted = TRUE,
                !.sources = [p \in Paths |-> IF p \in DOMAIN discovered
                                             THEN Extracted(p, discovered[p]) ELSE Absent]]
        /\ ruled' = [p \in Paths |->
                       IF ruled[p] = "unseen" /\ batch.at \in {"idle", "discover", "indexing"}
                       THEN "seen" ELSE ruled[p]]
        /\ UNCHANGED <<batch, pending>>
     \/ /\ SelectionFails(disk) /\ session' = NoSession
        /\ IF session.owner = "batch" THEN FailBatch ELSE UNCHANGED <<batch, pending>>
        /\ UNCHANGED ruled
  /\ UNCHANGED <<disk, graph, refresh, edits, indexes>>

(* Index allows an empty workspace only when it was published before; the  *)
(* snapshot was looked up before the session began.                        *)
IndexedGraph(edges) ==
  [version |-> graph.version + 1, sources |-> session.sources,
   deps |-> withResolvedDependencies(Paths, edges), edges |-> edges]

CommitIndex ==
  LET empty == \A p \in Paths : session.sources[p] = Absent
      refused == empty /\ graph.version = 0
  IN /\ session.owner # "none" /\ session.extracted
     /\ session' = NoSession
     /\ \E edges \in {FreshEdges(session.sources)} :
          graph' = IF refused THEN graph ELSE IndexedGraph(edges)
     /\ \/ session.owner = "index" /\ UNCHANGED <<batch, pending, refresh>>
        \/ session.owner = "batch" /\ refused /\ FailBatch /\ UNCHANGED refresh
        \/ session.owner = "batch" /\ ~refused /\ FinishBatch(graph')
     /\ UNCHANGED <<disk, ruled, edits, indexes>>

BatchStep == \/ Discover \/ OpenSnapshot \/ extractChangedSources
             \/ ExtractAffected \/ PublishBatch \/ publishStagedBatch

Next == \/ \E p \in Paths : Write(p)
        \/ StartBatch
        \/ BatchStep
        \/ \E owner \in {"batch", "index"} : BeginIndex(owner)
        \/ ExtractAll
        \/ CommitIndex

(* The queue calls the publisher as long as it holds paths, a call goes on *)
(* and a session ends.  No other process need ever index.                  *)
Fairness == /\ WF_vars(StartBatch) /\ WF_vars(BatchStep)
            /\ WF_vars(BeginIndex("batch")) /\ WF_vars(ExtractAll) /\ WF_vars(CommitIndex)

Spec == Init /\ [][Next]_vars
FairSpec == Spec /\ Fairness

-----------------------------------------------------------------------------
(* Properties                                                              *)

(* What is said of some of the sources.                                    *)
Listing(S) == UNION {[listed -> S] : listed \in SUBSET Supported}

Batch == [at : {"idle", "discover", "open", "changed", "affected", "publish", "begin", "indexing"},
          changed : SUBSET Paths, discovered : Listing(Directories), base : Graph,
          previous : Graph, update : Listing(Contribution), removed : SUBSET Supported]

Session == [owner : {"none", "batch", "index"}, extracted : BOOLEAN,
            sources : [Paths -> Contribution \cup {Absent}]]

Refresh == [previous : Graph, sources : [Paths -> Contribution \cup {Absent, Removed}],
            changed : SUBSET Paths]

(* Every variable has its type.                                            *)
TypeOK ==
  /\ DOMAIN disk = Paths /\ \A p \in Paths : disk[p] \in Contents[p]
  /\ pending \subseteq Paths /\ ruled \in [Paths -> {"no", "unseen", "seen"}]
  /\ graph \in Graph /\ batch \in Batch /\ session \in Session /\ refresh \in Refresh
  /\ edits \in 0..MaxEdits /\ indexes \in 0..MaxIndexes

(* No path is queued, and no publisher call or session runs.               *)
Quiescent ==
  pending = {} /\ batch.at = "idle" /\ session.owner = "none" /\ graph.version > 0

(* Nothing is stale once the queue is empty: the published contributions   *)
(* are those of the sources on disk, each in its project, whatever was     *)
(* written, removed or indexed by another process while the batches ran.   *)
(* The exception is a source that a later write of a rule let in, shut out *)
(* or moved: a batch does not look for these, and even an index that does  *)
(* may be overruled by a batch that had looked before.                     *)
(* (PublishBatch, index.go:116)                                            *)
QuiescentSources ==
  Quiescent =>
    LET discovered == DiscoverStream(Selectable(disk))
    IN \A p \in Paths : \/ ruled[p] = "unseen"
                        \/ Live(graph.sources[p]) = IF p \in DOMAIN discovered
                                                     THEN Extracted(p, discovered[p]) ELSE Absent

(* A published source belongs to the innermost project around it, unless a *)
(* rule was written since.  The exception is a project in a directory of   *)
(* one letter that sorts after ".": its sources belong to the workspace's  *)
(* own project, if there is one.  (mostSpecificRoot, discovery.go:365)     *)
OwnProject ==
  Quiescent =>
    LET roots == projectRoots(disk, loadGitIgnoreRules(disk))
    IN \A p \in {q \in Paths : Live(graph.sources[q]) # Absent /\ ruled[q] # "unseen"} :
         LET above == DirectoriesAbove[p]
             project == graph.sources[p].project
         IN /\ project \in roots
            /\ \A i \in DOMAIN above : above[i] \in roots =>
                 \/ project \in {above[j] : j \in i..Len(above)}
                 \/ /\ project = Top /\ Length[above[i]] = 1
                    /\ SortRank[Top] < SortRank[above[i]]

(* What Git makes of x: some pattern excludes it that no later one of its  *)
(* file and none of a directory further in overrules.                      *)
GitExcludes(lines, x) ==
  LET chain == <<Top>> \o DirectoriesAbove[x]
      overrules(l, j, k, i) == l > k \/ (l = k /\ j > i)
  IN \E k \in DOMAIN chain : \E i \in DOMAIN lines[chain[k]] :
       /\ x \in lines[chain[k]][i].matches /\ ~lines[chain[k]][i].negated
       /\ \A l \in DOMAIN chain : \A j \in DOMAIN lines[chain[l]] :
            overrules(l, j, k, i) => x \notin lines[chain[l]][j].matches

(* The workspace's own .gitignore takes x back, and its rules come last.   *)
RootTakesBack(lines, x) ==
  /\ DirectoriesAbove[x] # <<>> /\ SortRank[Head(DirectoriesAbove[x])] < SortRank[Top]
  /\ \E i \in DOMAIN lines[Top] :
       /\ x \in lines[Top][i].matches /\ lines[Top][i].negated
       /\ \A j \in DOMAIN lines[Top] : j > i => x \notin lines[Top][j].matches

(* What Git excludes, or has a directory above it that Git excludes, is    *)
(* not published, unless a rule was written since; a pattern that takes    *)
(* back a file of an excluded directory changes nothing.  The exception    *)
(* are the directories that sort before ".": what their own .gitignore     *)
(* excludes, the workspace's may take back.                                *)
(* (gitIgnored, discovery.go:248; loadGitIgnoreRules, discovery.go:220)    *)
IgnoredStayOut ==
  Quiescent =>
    LET lines == loadGitIgnoreRules(disk)
    IN \A p \in {q \in Paths : Live(graph.sources[q]) # Absent /\ ruled[q] # "unseen"} :
         \A x \in {p} \cup ToSet(DirectoriesAbove[p]) :
           GitExcludes(lines, x) => RootTakesBack(lines, x)

(* Every resolved edge belongs to the contribution its owner has in the    *)
(* same version: a replaced or removed source leaves none of its edges     *)
(* behind.  (ReplacedWorkspaceFactOwners, index.go:219)                    *)
EdgesOfCurrentSources ==
  \A e \in graph.edges : /\ Live(graph.sources[e.owner]) # Absent
                         /\ e.ref \in graph.sources[e.owner].refs

(* Every variable has its type, and no published edge outlives the         *)
(* contribution it was resolved for.  (PublishBatch, index.go:116)         *)
GraphSound == TypeOK /\ EdgesOfCurrentSources

(* A batch resolved against the version it replaces, from which no source  *)
(* was removed or moved to another project and to which no source of a     *)
(* package was added, leaves its sources with the edges a full index of    *)
(* the new version would give them.  (A source that moved is resolved in   *)
(* its old project too.)                                                   *)
(* (resolveIncrementalWorkspaceFacts, index.go:694)                        *)
BatchEdgesFresh ==
  [][\A p \in DOMAIN batch.update :
       /\ batch.at = "publish" /\ graph'.version = graph.version + 1 /\ batch'.at = "idle"
       /\ batch.base.version = graph.version /\ batch.removed = {}
       /\ \A q \in DOMAIN batch.update : Live(graph.sources[q]) # Absent =>
            graph.sources[q].project = batch.update[q].project
       /\ \A r \in batch.update[p].refs \cap Package, q \in DOMAIN batch.update :
            q \in ToSet(Candidates[r]) => Live(graph.sources[q]) # Absent
       => {e \in graph'.edges : e.owner = p} = {e \in FreshEdges(graph'.sources) : e.owner = p}]_vars

(* A source that differs between the snapshot a catalog refresh copies     *)
(* from and the one it is for is among the refresh's changed paths, or is  *)
(* queued and will be among those of a later one, even when another        *)
(* process indexes in between; but for sources that only a rule changed.   *)
(* (newIndexerPublisher, command.go:87)                                    *)
RefreshCoversChanges ==
  [][refresh' # refresh /\ refresh'.previous.version > 0 =>
       \A p \in {q \in Paths : ruled[q] = "no"} :
         Live(refresh'.sources[p]) # Live(refresh'.previous.sources[p])
           => p \in refresh'.changed \cup pending']_vars

(* The queue empties once the writes end.  The exceptions are a workspace  *)
(* that was never indexed and has no source, a configuration that cannot   *)
(* be read, and a batch of more sources than a page with a removed one     *)
(* among them, which staging refuses every time.                            *)
(* (PublishBatch, index.go:116, behind the retrying queue)                 *)
QueuedArePublished ==
  pending # {} ~>
    \/ pending = {} /\ batch.at = "idle"
    \/ SelectionFails(disk)
    \/ graph.version = 0 /\ DiscoverStream(disk) = <<>>
    \/ batch.at = "publish" /\ batch.removed # {} /\ Cardinality(sourcePaths(batch)) > PageSize

(* Once the queue is empty the resolved edges are those of a fresh index   *)
(* of the same sources.  (index_test.go, the tests named                   *)
(* PublishBatch...PagesMatchFreshUnpagedIndex)                             *)
MatchesFreshIndex ==
  Quiescent => graph.edges = FreshEdges(graph.sources)
=============================================================================
